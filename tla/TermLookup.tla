----------------------------- MODULE TermLookup ------------------------------
(***************************************************************************)
(* The atomic store together with lookup of local/term-lookup.js, which    *)
(* reads terms for queries with the get of the same cached store, outside  *)
(* the locks of getAndModify.                                              *)
(***************************************************************************)
EXTENDS AtomicStore

Lookup(t, k) ==
    /\ TryGet(t, k)
    /\ UNCHANGED avars

LNext == \/ ANext
         \/ /\ ~CallbackDue
            /\ \E t \in Clients \ Updaters, k \in Keys : Lookup(t, k)

LSpec == AInit /\ [][LNext]_allvars
==============================================================================
