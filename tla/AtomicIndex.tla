----------------------------- MODULE AtomicIndex -----------------------------
(***************************************************************************)
(* What local/atomic-store.js promises to updateIndex of local/index.js:   *)
(* an index from terms to the pages that contain them, in which an update  *)
(* adds its page in one step, between its call and its answer, and nothing *)
(* is ever removed.                                                        *)
(***************************************************************************)
CONSTANTS Updaters,     \* the tasks that index a page
          Terms, NoTerm

VARIABLES index,        \* the pages of each term
          term,         \* the term that each update in progress is for
          added,        \* the updates in progress that took effect
          acked         \* the pages whose update answered without an error

vars == <<index, term, added, acked>>

Init == /\ index = [k \in Terms |-> {}]
        /\ term = [u \in Updaters |-> NoTerm]
        /\ added = {}
        /\ acked = [k \in Terms |-> {}]

Begin(u, k) == /\ term[u] = NoTerm
               /\ term' = [term EXCEPT ![u] = k]
               /\ UNCHANGED <<index, added, acked>>

Add(u) == /\ term[u] # NoTerm /\ u \notin added
          /\ u \notin index[term[u]]
          /\ index' = [index EXCEPT ![term[u]] = @ \cup {u}]
          /\ added' = added \cup {u}
          /\ UNCHANGED <<term, acked>>

Ack(u) == /\ u \in added
          /\ acked' = [acked EXCEPT ![term[u]] = @ \cup {u}]
          /\ term' = [term EXCEPT ![u] = NoTerm]
          /\ added' = added \ {u}
          /\ UNCHANGED index

\* The page is in the index already, or the store failed.
Refuse(u) == /\ term[u] # NoTerm
             /\ term' = [term EXCEPT ![u] = NoTerm]
             /\ added' = added \ {u}
             /\ UNCHANGED <<index, acked>>

Next == \E u \in Updaters : \/ \E k \in Terms : Begin(u, k)
                            \/ Add(u) \/ Ack(u) \/ Refuse(u)

Spec == Init /\ [][Next]_vars
==============================================================================
