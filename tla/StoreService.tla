--------------------------- MODULE StoreService ---------------------------
(* The distributed store and its reconfiguration: all/store-service.js over *)
(* local/mem.js, with the hash functions of util/id.js.  Nodes route a      *)
(* request by their own view of the group; when the group changes, one of   *)
(* them lists the keys and moves those whose home changed.                  *)
EXTENDS Integers, FiniteSets

CONSTANTS Nodes, Keys, Clients,
          NodeId, KeyId, Combined,   \* the numbers of node, key and combined identifiers
          Plans,                     \* [hash, old, new, crash, lossy]: a change of the
                                     \* group, with a crash, with calls of nodes that
                                     \* are up failing
          Absent, None, Deleting

Values == Clients \cup {0}     \* a client puts its own name, 0 is there before

\* A group has nodes (reconf and routeRequest refuse an empty one), and
\* identifiers are hashes: those of two nodes differ.
PlanAssumption ==
  /\ IsFiniteSet(Nodes) /\ IsFiniteSet(Keys)
  /\ Plans \subseteq [hash : {"naive", "consistent", "rendezvous"}, old : SUBSET Nodes,
                     new : SUBSET Nodes, crash : BOOLEAN, lossy : BOOLEAN]
  /\ \A p \in Plans : p.old # {} /\ p.new # {} /\ p.old # p.new
IdAssumption ==
  /\ NodeId \in [Nodes -> Nat] /\ KeyId \in [Keys -> Nat] /\ Combined \in [Keys -> [Nodes -> Nat]]
  /\ \A m, n \in Nodes : m # n => NodeId[m] # NodeId[n] /\ \A k \in Keys : Combined[k][m] # Combined[k][n]
MarkAssumption ==
  /\ Absent \notin Values /\ None \notin Values \cup {Absent} /\ Deleting \notin Values \cup {Absent, None}
  /\ None \notin [key : Keys, value : Values \cup {Absent}, node : Nodes]
ASSUME Assumptions == PlanAssumption /\ IdAssumption /\ MarkAssumption

VARIABLES
  plan, view, data,
  down,       \* nodes that crashed
  op,         \* the request of each client
  phase,      \* of the reconfiguration: idle, listing, moving, answered
  asked,      \* nodes that have not listed their keys yet
  listed,     \* <<m, k>>: node m listed the key k
  move,       \* what happens to each key that moves
  active,     \* the counter of rebalanceItems
  failed,     \* a move failed
  exempt,     \* keys that a request at the time of the change may disturb, or whose
              \* own move met a call that failed
  latest      \* the value each key should have

moving == <<phase, asked, listed, move, active, failed>>
vars == <<plan, view, data, down, op, moving, exempt, latest>>

----------------------------------------------------------------------------
(* Placement *)

Lowest(S) == CHOOSE n \in S : \A m \in S : NodeId[n] <= NodeId[m]
naiveHash(k, S) ==
  CHOOSE n \in S : Cardinality({m \in S : NodeId[m] < NodeId[n]}) = KeyId[k] % Cardinality(S)
consistentHash(k, S) ==
  LET after == {n \in S : KeyId[k] <= NodeId[n]} IN Lowest(IF after = {} THEN S ELSE after)
rendezvousHash(k, S) == CHOOSE n \in S : \A m \in S : Combined[k][m] <= Combined[k][n]

\* Faulty variant: the hash function of the group is not passed on.
HomeByDefault(k, S) == naiveHash(k, S)
\* applyHash with the hash function of the group.
Home(k, S) ==
  CASE plan.hash = "naive" -> naiveHash(k, S)
    [] plan.hash = "consistent" -> consistentHash(k, S)
    [] plan.hash = "rendezvous" -> rendezvousHash(k, S)

Init ==
  /\ plan \in Plans
  /\ view = [n \in Nodes |-> plan.old]
  /\ data = [n \in Nodes |-> [k \in Keys |-> IF n = Home(k, plan.old) THEN 0 ELSE Absent]]
  /\ down = {}
  /\ op = [c \in Clients |-> None]
  /\ phase = "idle" /\ asked = {} /\ active = 0 /\ failed = FALSE
  /\ listed = {} /\ move = [k \in Keys |-> None]
  /\ exempt = {}
  /\ latest = [k \in Keys |-> 0]

Changed == \E n \in Nodes : view[n] = plan.new
Settled == phase = "answered" /\ \A n \in Nodes : view[n] = plan.new

----------------------------------------------------------------------------
(* put and del of a client at node n; a get changes nothing. *)

\* routeRequest, with the value to put, or Absent to delete.
Call(c, n, k, v) ==
  /\ op[c] = None /\ n \notin down /\ ~Settled   \* a bound: clients stop then
  /\ op' = [op EXCEPT ![c] = [key |-> k, value |-> v, node |-> Home(k, view[n])]]
  /\ exempt' = IF Changed THEN exempt \cup {k} ELSE exempt
  /\ UNCHANGED <<plan, view, data, down, moving, latest>>

\* The request is served by its node, and answered.
Serve(c) ==
  /\ op[c] # None
  /\ op' = [op EXCEPT ![c] = None]
  /\ IF op[c].node \in down \/ (op[c].value = Absent /\ data[op[c].node][op[c].key] = Absent)
     THEN UNCHANGED <<data, latest>>
     ELSE /\ data' = [data EXCEPT ![op[c].node][op[c].key] = op[c].value]
          /\ latest' = [latest EXCEPT ![op[c].key] = op[c].value]
  /\ UNCHANGED <<plan, view, down, moving, exempt>>

----------------------------------------------------------------------------
(* The change of the group *)

\* Items on a node that is no longer a member are not reconfigured: only the
\* members are asked for their keys.
Exempt ==
  {op[c].key : c \in {d \in Clients : op[d] # None}} \cup
  {k \in Keys : \E n \in Nodes \ plan.new : data[n][k] # Absent}
Crash ==
  /\ plan.crash /\ down = {} /\ ~Changed
  /\ down' = plan.old \ plan.new
  /\ exempt' = Exempt
  /\ data' = [n \in Nodes |-> IF n \in down' THEN [k \in Keys |-> Absent] ELSE data[n]]
  /\ UNCHANGED <<plan, view, op, moving, latest>>

\* groups.add or groups.rem reaches a node.
Change(n) ==
  /\ view[n] # plan.new /\ (plan.crash => down # {})
  /\ view' = [view EXCEPT ![n] = plan.new]
  /\ exempt' = IF Changed THEN exempt ELSE exempt \cup Exempt
  /\ UNCHANGED <<plan, data, down, op, moving, latest>>

\* The home of the key is another one in the new group.
Displaced(k) == Home(k, plan.old) # Home(k, plan.new)

\* reconf at a node: the members of its view are asked for their keys.
Reconf(n) ==
  /\ phase = "idle" /\ n \in plan.new /\ view[n] = plan.new
  /\ phase' = "listing" /\ asked' = plan.new
  /\ UNCHANGED <<plan, view, data, down, op, listed, move, active, failed, exempt, latest>>
\* The errors of the listing are ignored: the keys of a member whose answer is
\* an error, or is lost, are not moved.
List(m, ok) ==
  LET held == {k \in Keys : data[m][k] # Absent}
  IN /\ phase = "listing" /\ m \in asked
     /\ ok \/ plan.lossy
     /\ asked' = asked \ {m}
     /\ listed' = IF ok THEN listed \cup {<<m, k>> : k \in held} ELSE listed
     /\ exempt' = IF ok THEN exempt ELSE exempt \cup {k \in held : Displaced(k)}
     /\ UNCHANGED <<plan, view, data, down, op, phase, move, active, failed, latest>>

\* Faulty variant: without a key to move nothing calls back.
AnswerNever(n) == "moving"
\* The callback comes when the counter is zero.
AnswerAtZero(n) == IF n = 0 THEN "answered" ELSE "moving"

\* The keys with another home in the new group.
Moves == {k \in Keys : (\E m \in Nodes : <<m, k>> \in listed) /\ Displaced(k)}
\* Faulty variant: every listed key is counted.
CountListed(moves) == Cardinality(listed)
Count(moves) == Cardinality({p \in listed : p[2] \in moves})

\* rebalanceItems: one request for each key, one count for each listing.
Rebalance ==
  /\ phase = "listing" /\ asked = {}
  /\ active' = Count(Moves)
  /\ move' = [k \in Keys |-> IF k \in Moves THEN Deleting ELSE None]
  /\ phase' = AnswerAtZero(active')
  /\ UNCHANGED <<plan, view, data, down, op, asked, listed, failed, exempt, latest>>

\* The old home deletes the item and answers with it, or with an error.  A
\* deletion may fail, and one that was done is an error when its answer is
\* lost: then the item is nowhere.
MoveOut(k, done, answered) ==
  LET from == Home(k, plan.old)
      there == from \notin down /\ data[from][k] # Absent
  IN /\ move[k] = Deleting
     /\ (done /\ answered) \/ plan.lossy
     /\ data' = IF there /\ done THEN [data EXCEPT ![from][k] = Absent] ELSE data
     /\ IF there /\ done /\ answered
        THEN /\ move' = [move EXCEPT ![k] = data[from][k]]
             /\ UNCHANGED <<active, failed>>
        ELSE /\ active' = active - 1 /\ failed' = TRUE
             /\ move' = [move EXCEPT ![k] = None]
     /\ exempt' = IF done /\ answered THEN exempt ELSE exempt \cup {k}
     /\ UNCHANGED <<plan, view, down, op, phase, asked, listed, latest>>

\* Faulty variant: the item is put back by the old group.
OldGroup == plan.old
NewGroup == plan.new
\* The item is put by the view of the reconfiguring node.  An item whose put
\* failed is gone, and counted like the others.
MoveIn(k, done) ==
  LET to == Home(k, NewGroup)
  IN /\ move[k] \notin {None, Deleting}
     /\ done \/ plan.lossy
     /\ move' = [move EXCEPT ![k] = None]
     /\ data' = IF done /\ to \notin down THEN [data EXCEPT ![to][k] = move[k]] ELSE data
     /\ active' = active - 1
     /\ phase' = AnswerAtZero(active')
     /\ exempt' = IF done THEN exempt ELSE exempt \cup {k}
     /\ UNCHANGED <<plan, view, down, op, asked, listed, failed, latest>>

Move(k) ==
  \/ \E done, answered \in BOOLEAN : MoveOut(k, done, answered)
  \/ \E done \in BOOLEAN : MoveIn(k, done)

Next ==
  \/ \E c \in Clients : Serve(c) \/ \E n \in Nodes, k \in Keys, v \in {c, Absent} : Call(c, n, k, v)
  \/ Crash \/ \E n \in Nodes : Change(n) \/ Reconf(n) \/ \E ok \in BOOLEAN : List(n, ok)
  \/ Rebalance \/ \E k \in Keys : Move(k)

\* Requests are answered, with an error when the node is down.
Fairness ==
  /\ WF_vars(Rebalance) /\ WF_vars(\E n \in Nodes, ok \in BOOLEAN : List(n, ok))
  /\ WF_vars(\E k \in Keys : Move(k))
Spec == Init /\ [][Next]_vars /\ Fairness

----------------------------------------------------------------------------
(* Properties *)

\* No key was listed by two nodes.
ListedOnce == \A p, q \in listed : p[2] = q[2] => p = q

\* The values of the state, and the counter of the keys that still move.
PlacementTypeOK ==
  /\ \A n \in Nodes : view[n] \in {plan.old, plan.new}
  /\ \A n \in Nodes, k \in Keys : data[n][k] \in Clients \cup {0, Absent}
  /\ phase \in {"idle", "listing", "moving", "answered"}
  /\ active \in 0..(Cardinality(Keys) * Cardinality(Nodes))
  /\ ListedOnce => active = Cardinality({k \in Keys : move[k] # None})

\* When the reconfiguration called back and every node knows the new group,
\* each key is where requests look for it, with its latest value, unless it
\* was on a node that left, a request for it was under way meanwhile, or a
\* call of its own move failed (store-service.js:87, 118 and 122): a failure
\* in the move of one item leaves the others alone.
UntouchedItemsArrive ==
  Settled => \A k \in Keys \ exempt : data[Home(k, plan.new)][k] = latest[k]

\* With consistent and rendezvous hashing only the items of nodes that left,
\* or that belong to nodes that joined, are moved (id.js:149).
OnlyNeededMoves ==
  \A k \in Keys : move[k] # None /\ plan.hash # "naive" =>
    Home(k, plan.old) \notin plan.new \/ Home(k, plan.new) \notin plan.old

\* A reconfiguration calls back, unless a move failed or a key was listed
\* twice (store-service.js:113): those leave the counter without a callback.
ReconfAnswers ==
  []<>(phase \in {"idle", "answered"} \/ failed \/ ~ListedOnce)
=============================================================================
