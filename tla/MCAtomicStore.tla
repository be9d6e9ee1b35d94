--------------------------- MODULE MCAtomicStore -----------------------------
(* Updates of three terms, two of which share a file, through one cached   *)
(* entry.                                                                  *)
EXTENDS AtomicStore
CONSTANTS p1, p2, k1, k2, k3, s1, s2

MCUpdaters == {p1, p2}
MCKeys == {k1, k2, k3}
MCValues == {{p1}, {p2}, {p1, p2}}
MCSyncOf == (k1 :> s1) @@ (k2 :> s1) @@ (k3 :> s2)
==============================================================================
