---------------------------- MODULE MCTermLookup -----------------------------
(* One reader and two updates of two terms in different files, through one *)
(* cached entry.                                                           *)
EXTENDS TermLookup
CONSTANTS p1, p2, reader, k1, k2, s1, s2

MCUpdaters == {p1, p2}
MCClients == {p1, p2, reader}
MCKeys == {k1, k2}
MCValues == {{p1}, {p2}, {p1, p2}}
MCSyncOf == (k1 :> s1) @@ (k2 :> s2)
==============================================================================
