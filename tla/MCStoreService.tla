-------------------------- MODULE MCStoreService --------------------------
(* Three nodes, of which one joins, leaves or crashes, under each hash; the *)
(* calls of the move fail when a node joins.                                *)
EXTENDS StoreService, TLC
CONSTANTS n1, n2, n3, k1, k2

MCNodeId == n1 :> 2 @@ n2 :> 5 @@ n3 :> 8
MCKeyId == k1 :> 3 @@ k2 :> 7
MCCombined == k1 :> (n1 :> 1 @@ n2 :> 2 @@ n3 :> 3) @@ k2 :> (n1 :> 2 @@ n2 :> 3 @@ n3 :> 1)

Changes == {[old |-> {n1, n2, n3}, new |-> {n1, n2}, crash |-> TRUE, lossy |-> FALSE],
            [old |-> {n1, n2, n3}, new |-> {n2, n3}, crash |-> FALSE, lossy |-> FALSE],
            [old |-> {n1, n2}, new |-> {n1, n2, n3}, crash |-> FALSE, lossy |-> TRUE]}
Under(h, changes) == 
  {[hash |-> h, old |-> c.old, new |-> c.new, crash |-> c.crash, lossy |-> c.lossy] : c \in changes}
MCPlans == Under("naive", {c \in Changes : n3 \in c.old}) \cup Under("rendezvous", {c \in Changes : ~c.crash}) \cup
           Under("consistent", {c \in Changes : n1 \in c.new})
=============================================================================
