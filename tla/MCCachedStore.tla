--------------------------- MODULE MCCachedStore -----------------------------
(* Two callers and a flush over three keys, two of which share a file.     *)
EXTENDS CachedStore
CONSTANTS a, b, k1, k2, k3, v1, v2, s1, s2

MCClients == {a, b}
MCKeys == {k1, k2, k3}
MCValues == {v1, v2}
MCSyncOf == (k1 :> s1) @@ (k2 :> s1) @@ (k3 :> s2)

\* Callers, values and the keys of one file are interchangeable.
Interchangeable ==
    Permutations(MCClients) \cup Permutations(MCValues) \cup Permutations({k1, k2})

\* No step depends on what a call that ended returned.
WithoutReplies ==
    <<cache, locks, made, disk, flush, unsaved,
      [t \in Tasks |-> IF Idle(t) THEN NoCall ELSE call[t]]>>
==============================================================================
