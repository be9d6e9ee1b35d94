------------------------ MODULE StoreService_proofs ------------------------
(* What the reconfiguration of the distributed store promises, for any      *)
(* group, keys, clients and hash function of StoreService.                  *)
EXTENDS StoreService, FiniteSetTheorems, WellFoundedInduction, TLAPS

----------------------------------------------------------------------------
(* Placement *)

\* A set of numbers that is not empty has a least one.
LEMMA LeastElement ==
  ASSUME NEW T, T \subseteq Nat, T # {}
  PROVE  \E x \in T : \A y \in T : x <= y
<1>1. PICK x \in T : \A y \in T : ~(<<y, x>> \in OpToRel(<, Nat))
  BY NatLessThanWellFounded, WFMin, Zenon
<1>2. \A y \in T : ~(y < x)
  BY <1>1 DEF OpToRel
<1>3. QED BY <1>2

\* Of any nodes one has the least number under a numbering.
LEMMA LeastNode ==
  ASSUME NEW S, S # {}, NEW f, \A n \in S : f[n] \in Nat
  PROVE  \E n \in S : \A m \in S : f[n] <= f[m]
<1> DEFINE T == {f[n] : n \in S}
<1>1. T \subseteq Nat /\ T # {}
  OBVIOUS
<1>2. PICK x \in T : \A y \in T : x <= y
  BY <1>1, LeastElement, Zenon
<1>3. QED BY <1>2

\* consistentHash sorts the identifiers: the lowest of a set is one of it.
LEMMA LowestIsLeast ==
  ASSUME NEW S \in SUBSET Nodes, S # {}
  PROVE  Lowest(S) \in S /\ \A m \in S : NodeId[Lowest(S)] <= NodeId[m]
<1>1. \E n \in S : \A m \in S : NodeId[n] <= NodeId[m]
  BY LeastNode, Assumptions DEF IdAssumption
<1>2. QED BY <1>1 DEF Lowest

\* A node with the highest combined number exists: one that the fewest exceed.
LEMMA RendezvousIsHighest ==
  ASSUME NEW k \in Keys, NEW S \in SUBSET Nodes, S # {}
  PROVE  /\ rendezvousHash(k, S) \in S
         /\ \A m \in S : Combined[k][m] <= Combined[k][rendezvousHash(k, S)]
<1> DEFINE above(n) == {m \in S : Combined[k][n] < Combined[k][m]}
           f == [n \in S |-> Cardinality(above(n))]
<1>1. IsFiniteSet(S)
  BY FS_Subset, Assumptions DEF PlanAssumption
<1>2. ASSUME NEW n \in S PROVE IsFiniteSet(above(n)) /\ f[n] = Cardinality(above(n)) /\ f[n] \in Nat
  <2>1. above(n) \subseteq S /\ f[n] = Cardinality(above(n))
    OBVIOUS
  <2>2. QED BY <1>1, <2>1, FS_Subset, FS_CardinalityType
<1>3. PICK n \in S : \A m \in S : f[n] <= f[m]
  <2> HIDE DEF f
  <2>1. \A n \in S : f[n] \in Nat
    BY <1>2
  <2>2. QED BY <2>1, LeastNode
<1>4. ASSUME NEW m \in S, Combined[k][n] < Combined[k][m] PROVE FALSE
  <2>1. Combined[k] \in [Nodes -> Nat]
    BY Assumptions DEF IdAssumption
  <2>2. \A i, j, l \in S : Combined[k][i] < Combined[k][j] /\ Combined[k][j] < Combined[k][l] => Combined[k][i] < Combined[k][l]
    BY <2>1
  <2>3. above(m) \subseteq above(n) /\ m \in above(n) /\ m \notin above(m)
    BY <1>4, <2>1, <2>2
  <2>4. Cardinality(above(m)) < Cardinality(above(n))
    <3> HIDE DEF above
    <3>1. Cardinality(above(m)) <= Cardinality(above(n)) /\ (Cardinality(above(m)) = Cardinality(above(n)) => above(m) = above(n))
      BY <1>2, <2>3, FS_Subset
    <3>2. Cardinality(above(m)) \in Nat /\ Cardinality(above(n)) \in Nat
      BY <1>2
    <3>3. QED BY <3>1, <3>2, <2>3
  <2>5. QED
    <3> HIDE DEF f, above
    <3>1. QED BY <2>4, <1>2, <1>3
<1>5. \A m \in S : Combined[k][m] <= Combined[k][n]
  BY <1>4, Assumptions DEF IdAssumption
<1>6. \E i \in S : \A m \in S : Combined[k][m] <= Combined[k][i]
  BY <1>5
<1>7. QED BY <1>6 DEF rendezvousHash

\* naiveHash indexes the sorted identifiers: a node with any rank exists.
LEMMA NaiveIsMember ==
  ASSUME NEW k \in Keys, NEW S \in SUBSET Nodes, S # {}
  PROVE  naiveHash(k, S) \in S
<1> DEFINE below(n) == {m \in S : NodeId[m] < NodeId[n]}
           rank == [n \in S |-> Cardinality(below(n))]
           ranks == 0..(Cardinality(S) - 1)
<1>1. IsFiniteSet(S) /\ Cardinality(S) \in Nat \ {0}
  BY FS_Subset, FS_CardinalityType, FS_EmptySet, Assumptions DEF PlanAssumption
<1>2. ASSUME NEW n \in S
      PROVE  IsFiniteSet(below(n)) /\ Cardinality(below(n)) \in ranks
  <2>1. below(n) \subseteq S /\ n \notin below(n) /\ n \in S
    BY Assumptions DEF IdAssumption
  <2> HIDE DEF below
  <2>2. IsFiniteSet(below(n)) /\ Cardinality(below(n)) <= Cardinality(S) /\ Cardinality(below(n)) # Cardinality(S)
    BY <1>1, <2>1, FS_Subset
  <2>3. Cardinality(below(n)) \in Nat
    BY <2>2, FS_CardinalityType
  <2>4. QED BY <1>1, <2>2, <2>3
<1>3. ASSUME NEW m \in S, NEW n \in S, NodeId[m] < NodeId[n]
      PROVE  Cardinality(below(m)) < Cardinality(below(n))
  <2>1. NodeId \in [Nodes -> Nat]
    BY Assumptions DEF IdAssumption
  <2>2. below(m) \subseteq below(n) /\ m \in below(n) /\ m \notin below(m)
    BY <1>3, <2>1
  <2> HIDE DEF below
  <2>3. Cardinality(below(m)) <= Cardinality(below(n)) /\ Cardinality(below(m)) # Cardinality(below(n))
    BY <1>2, <2>2, FS_Subset
  <2>4. QED BY <1>2, <2>3
<1>4. rank \in Injection(S, ranks)
  <2>1. \A n \in S : rank[n] = Cardinality(below(n))
    OBVIOUS
  <2>2. rank \in [S -> ranks]
    BY <1>2
  <2>3. ASSUME NEW m \in S, NEW n \in S, m # n PROVE rank[m] # rank[n]
    <3> HIDE DEF below
    <3>1. NodeId[m] < NodeId[n] \/ NodeId[n] < NodeId[m]
      BY <2>3, Assumptions DEF IdAssumption
    <3>2. rank[m] \in Nat /\ rank[n] \in Nat
      BY <1>2, <2>1
    <3>3. QED BY <3>1, <3>2, <1>3, <2>1
  <2> HIDE DEF rank, ranks
  <2>4. QED BY <2>2, <2>3 DEF Injection, IsInjective
<1>5. IsFiniteSet(ranks) /\ Cardinality(ranks) = Cardinality(S)
  BY <1>1, FS_Interval, SMTT(30)
<1>6. rank \in Surjection(S, ranks)
  BY <1>4, <1>5, FS_Injection
<1>7. KeyId[k] % Cardinality(S) \in ranks
  <2>1. KeyId[k] \in Nat
    BY Assumptions DEF IdAssumption
  <2>2. QED BY <1>1, <2>1
<1>8. PICK n \in S : rank[n] = KeyId[k] % Cardinality(S)
  <2> HIDE DEF rank, ranks
  <2>1. QED BY <1>6, <1>7 DEF Surjection
<1>9. QED BY <1>8 DEF naiveHash

\* Every hash function places a key on a member of the group.
LEMMA HomeIsMember ==
  ASSUME plan \in Plans, NEW k \in Keys, NEW S \in SUBSET Nodes, S # {}
  PROVE  Home(k, S) \in S
<1>1. plan.hash \in {"naive", "consistent", "rendezvous"}
  BY Assumptions DEF PlanAssumption
<1>2. consistentHash(k, S) \in S
  <2> DEFINE after == {n \in S : KeyId[k] <= NodeId[n]}
  <2>1. Lowest(S) \in S
    BY LowestIsLeast
  <2>2. after # {} => Lowest(after) \in after
    BY LowestIsLeast
  <2>3. QED BY <2>1, <2>2 DEF consistentHash
<1>3. QED BY <1>1, <1>2, NaiveIsMember, RendezvousIsHighest DEF Home

\* A reconfiguration does not change its plan, nor what the plan places where.
OldHome(k) == Home(k, plan.old)
NewHome(k) == Home(k, plan.new)
LEMMA HomesAreKept ==
  ASSUME plan' = plan
  PROVE  \A k : OldHome(k)' = OldHome(k) /\ NewHome(k)' = NewHome(k)
BY DEF OldHome, NewHome, Home

LEMMA HomesAreMembers ==
  ASSUME plan \in Plans
  PROVE  /\ plan.old \in SUBSET Nodes /\ plan.new \in SUBSET Nodes
         /\ \A k \in Keys : OldHome(k) \in plan.old /\ NewHome(k) \in plan.new
<1>2. plan.old \in SUBSET Nodes /\ plan.old # {} /\ plan.new \in SUBSET Nodes /\ plan.new # {}
  BY Assumptions DEF PlanAssumption
<1>3. ASSUME NEW k \in Keys PROVE OldHome(k) \in plan.old /\ NewHome(k) \in plan.new
  <2>1. Home(k, plan.old) \in plan.old
    BY <1>2, HomeIsMember
  <2>2. Home(k, plan.new) \in plan.new
    BY <1>2, HomeIsMember
  <2>3. QED BY <2>1, <2>2 DEF OldHome, NewHome
<1>4. QED BY <1>2, <1>3

\* Consistent and rendezvous hashing move a key only from a node that left
\* or to a node that joined: both homes are the best of all the nodes that
\* are in the two groups.
LEMMA OnlyNeededMoveHome ==
  ASSUME plan \in Plans, plan.hash # "naive", NEW k \in Keys,
         OldHome(k) \in plan.new, NewHome(k) \in plan.old
  PROVE  OldHome(k) = NewHome(k)
<1>1. /\ plan.old \in SUBSET Nodes /\ plan.old # {} /\ plan.new \in SUBSET Nodes /\ plan.new # {}
      /\ plan.hash \in {"consistent", "rendezvous"}
  BY Assumptions DEF PlanAssumption
<1>2. CASE plan.hash = "rendezvous"
  <2>1. OldHome(k) = rendezvousHash(k, plan.old) /\ NewHome(k) = rendezvousHash(k, plan.new)
    BY <1>2 DEF OldHome, NewHome, Home
  <2>2. /\ OldHome(k) \in plan.old /\ \A m \in plan.old : Combined[k][m] <= Combined[k][OldHome(k)]
        /\ NewHome(k) \in plan.new /\ \A m \in plan.new : Combined[k][m] <= Combined[k][NewHome(k)]
    BY <1>1, <2>1, RendezvousIsHighest
  <2>3. Combined[k][OldHome(k)] = Combined[k][NewHome(k)]
    <3>1. /\ Combined[k][NewHome(k)] <= Combined[k][OldHome(k)]
          /\ Combined[k][OldHome(k)] <= Combined[k][NewHome(k)]
      BY <2>2
    <3>2. Combined[k] \in [Nodes -> Nat] /\ OldHome(k) \in Nodes /\ NewHome(k) \in Nodes
      BY <1>1, <2>2, Assumptions DEF IdAssumption
    <3>3. Combined[k][OldHome(k)] \in Nat /\ Combined[k][NewHome(k)] \in Nat
      BY <3>2
    <3>4. QED BY <3>1, <3>3
  <2>4. OldHome(k) \in Nodes /\ NewHome(k) \in Nodes
    BY <1>1, <2>2
  <2>5. QED BY <2>3, <2>4, Assumptions DEF IdAssumption
<1>3. CASE plan.hash = "consistent"
  <2> DEFINE after(S) == {n \in S : KeyId[k] <= NodeId[n]}
             near(S) == IF after(S) = {} THEN S ELSE after(S)
  <2>1. OldHome(k) = Lowest(near(plan.old)) /\ NewHome(k) = Lowest(near(plan.new))
    BY <1>3 DEF OldHome, NewHome, Home, consistentHash
  <2>2. /\ OldHome(k) \in near(plan.old) /\ \A m \in near(plan.old) : NodeId[OldHome(k)] <= NodeId[m]
        /\ NewHome(k) \in near(plan.new) /\ \A m \in near(plan.new) : NodeId[NewHome(k)] <= NodeId[m]
    <3>1. /\ near(plan.old) \in SUBSET Nodes /\ near(plan.old) # {}
          /\ near(plan.new) \in SUBSET Nodes /\ near(plan.new) # {}
      BY <1>1
    <3> HIDE DEF near
    <3>2. Lowest(near(plan.old)) \in near(plan.old) /\ \A m \in near(plan.old) : NodeId[Lowest(near(plan.old))] <= NodeId[m]
      BY <3>1, LowestIsLeast
    <3>3. Lowest(near(plan.new)) \in near(plan.new) /\ \A m \in near(plan.new) : NodeId[Lowest(near(plan.new))] <= NodeId[m]
      BY <3>1, LowestIsLeast
    <3>4. QED BY <2>1, <3>2, <3>3
  <2>3. OldHome(k) \in near(plan.new) /\ NewHome(k) \in near(plan.old)
    BY <2>2
  <2>4. OldHome(k) \in Nodes /\ NewHome(k) \in Nodes
    BY <1>1, <2>2
  <2> HIDE DEF near
  <2>5. NodeId[OldHome(k)] <= NodeId[NewHome(k)] /\ NodeId[NewHome(k)] <= NodeId[OldHome(k)]
    BY <2>2, <2>3
  <2>6. NodeId[OldHome(k)] = NodeId[NewHome(k)]
    <3>1. NodeId[OldHome(k)] \in Nat /\ NodeId[NewHome(k)] \in Nat
      BY <2>4, Assumptions DEF IdAssumption
    <3>2. QED BY <2>5, <3>1
  <2>7. QED BY <2>4, <2>6, Assumptions DEF IdAssumption
<1>4. QED BY <1>1, <1>2, <1>3

----------------------------------------------------------------------------
(* The inductive invariant *)

Request == [key : Keys, value : Values \cup {Absent}, node : Nodes]
MovingKeys == {k \in Keys : move[k] # None}
Started == phase \in {"moving", "answered"}

Types ==
  /\ plan \in Plans
  /\ view \in [Nodes -> {plan.old, plan.new}]
  /\ data \in [Nodes -> [Keys -> Values \cup {Absent}]]
  /\ down \subseteq plan.old \ plan.new
  /\ op \in [Clients -> Request \cup {None}]
  /\ phase \in {"idle", "listing", "moving", "answered"}
  /\ asked \subseteq plan.new /\ listed \subseteq Nodes \X Keys
  /\ move \in [Keys -> Values \cup {None, Deleting}]
  /\ active \in Nat
  /\ exempt \subseteq Keys
  /\ latest \in [Keys -> Values \cup {Absent}]

\* The counter of rebalanceItems: it covers the keys that still move, and is
\* zero when the callback was called.
Counted ==
  /\ Cardinality(MovingKeys) <= active
  /\ active <= Cardinality(Keys) * Cardinality(Nodes)
  /\ ListedOnce => active = Cardinality(MovingKeys)
  /\ ~Started => MovingKeys = {} /\ active = 0
  /\ phase = "answered" => active = 0
  /\ \A k \in MovingKeys : OldHome(k) # NewHome(k)

\* Which requests are under way: until the change they go to the old home,
\* then those of the keys that are not exempt are over.
Ordered ==
  /\ phase # "idle" => Changed
  /\ \A c \in Clients : op[c] # None =>
       IF Changed THEN op[c].key \in exempt ELSE op[c].node = OldHome(op[c].key)
  /\ \A n \in down, k \in Keys : data[n][k] = Absent
  /\ phase = "idle" => listed = {}

\* The only copy of a key has the value and is on the node.
Only(k, n, v) ==
  /\ data[n][k] = v
  /\ \A m \in Nodes \ {n} : data[m][k] = Absent

\* Until the items move they are on their old home, which stays a member.
Placed ==
  /\ ~Changed => \A k \in Keys : k \notin exempt \/ down = {} => Only(k, OldHome(k), latest[k])
  /\ Changed /\ ~Started => \A k \in Keys \ exempt :
       /\ Only(k, OldHome(k), latest[k])
       /\ latest[k] # Absent => OldHome(k) \in plan.new
  /\ phase = "listing" => \A k \in Keys \ exempt, m \in Nodes : OldHome(k) # NewHome(k) =>
       (<<m, k>> \in listed <=> m \in plan.new \ asked /\ data[m][k] # Absent)

\* Then an item is on its new home, still on the old one, or in between.
Moved ==
  Started => \A k \in Keys \ exempt :
    /\ move[k] = None => Only(k, NewHome(k), latest[k])
    /\ move[k] = Deleting => Only(k, OldHome(k), latest[k]) /\ latest[k] # Absent
    /\ move[k] \notin {None, Deleting} => move[k] = latest[k] /\ \A m \in Nodes : data[m][k] = Absent

Invariant == Types /\ Counted /\ Ordered /\ Placed /\ Moved

LEMMA CountedIsKept ==
  ASSUME Counted, UNCHANGED <<plan, moving>>
  PROVE  Counted'
<1>1. MovingKeys' = MovingKeys /\ Started' = Started /\ ListedOnce' = ListedOnce /\ active' = active /\ phase' = phase
  BY DEF MovingKeys, Started, ListedOnce, moving
<1>2. \A k : OldHome(k)' = OldHome(k) /\ NewHome(k)' = NewHome(k)
  BY HomesAreKept
<1>3. QED BY <1>1, <1>2 DEF Counted

LEMMA InitInvariant == ASSUME Init PROVE Invariant
<1> USE DEF Init
<1>1. /\ plan.old \in SUBSET Nodes /\ plan.new \in SUBSET Nodes /\ plan.old # {} /\ plan.old # plan.new
      /\ \A k \in Keys : OldHome(k) \in plan.old
  BY HomesAreMembers, Assumptions DEF PlanAssumption
<1>2. Types
  BY Assumptions DEF Types, Values, MarkAssumption
<1>3. Counted
  <2>1. MovingKeys = {} /\ ~Started /\ active = 0 /\ phase = "idle"
    BY DEF MovingKeys, Started
  <2>2. Cardinality({}) = 0
    BY FS_EmptySet
  <2>3. Cardinality(Keys) * Cardinality(Nodes) \in Nat
    BY FS_CardinalityType, Assumptions DEF PlanAssumption
  <2>4. QED BY <2>1, <2>2, <2>3 DEF Counted
<1>4. ~Changed
  BY <1>1 DEF Changed
<1>5. Ordered
  BY <1>4 DEF Ordered
<1>6. Placed
  <2>1. \A n \in Nodes, k \in Keys : data[n][k] = IF n = OldHome(k) THEN 0 ELSE Absent
    BY DEF OldHome
  <2>2. \A k \in Keys : Only(k, OldHome(k), latest[k])
    BY <1>1, <2>1 DEF Only
  <2>3. QED BY <1>4, <2>2 DEF Placed
<1>7. Moved
  BY DEF Moved, Started
<1>8. QED BY <1>2, <1>3, <1>5, <1>6, <1>7 DEF Invariant

\* A request is sent by the view of its node; once the group changed its key
\* is exempt.
LEMMA CallKeeps ==
  ASSUME Invariant, NEW c \in Clients, NEW n \in Nodes, NEW k \in Keys, NEW v \in {c, Absent}, Call(c, n, k, v)
  PROVE  Invariant'
<1> USE DEF Invariant
<1>1. UNCHANGED <<plan, view, data, down, moving, latest>> /\ Changed' = Changed /\ Started' = Started
  BY DEF Call, Changed, Started, moving
<1>2. \A i : OldHome(i)' = OldHome(i) /\ NewHome(i)' = NewHome(i)
  BY <1>1, HomesAreKept
<1>3. view[n] \in {plan.old, plan.new} /\ (~Changed => view[n] = plan.old)
  BY DEF Types, Changed
<1>4. Home(k, view[n]) \in Nodes
  BY <1>3, HomesAreMembers DEF Types, OldHome, NewHome
<1>5. op' = [op EXCEPT ![c] = [key |-> k, value |-> v, node |-> Home(k, view[n])]]
  BY DEF Call
<1>6. exempt \subseteq exempt' /\ exempt' \subseteq Keys /\ (Changed => k \in exempt') /\ (~Changed => exempt' = exempt)
  BY DEF Call, Types
<1>7. [key |-> k, value |-> v, node |-> Home(k, view[n])] \in Request
  BY <1>4 DEF Request, Values
<1>8. Types'
  BY <1>1, <1>5, <1>6, <1>7 DEF Types, moving
<1>9. Counted'
  BY <1>1, CountedIsKept
<1>10. Ordered'
  <2>1. \A d \in Clients : op'[d] # None =>
          IF Changed THEN op'[d].key \in exempt' ELSE op'[d].node = OldHome(op'[d].key)
    <3>1. op'[c].key = k /\ op'[c].node = Home(k, view[n])
      BY <1>5 DEF Types
    <3>2. \A d \in Clients \ {c} : op'[d] = op[d]
      BY <1>5 DEF Types
    <3>3. QED BY <1>3, <1>6, <3>1, <3>2 DEF Ordered, OldHome
  <2>2. QED BY <1>1, <1>2, <2>1 DEF Ordered, moving
<1>11. Placed' /\ Moved'
  BY <1>1, <1>2, <1>6 DEF Placed, Moved, Only, moving, Started
<1>12. QED BY <1>8, <1>9, <1>10, <1>11

\* Until the change a request is served by the old home, like the copy of its
\* key; after it the key is exempt.
LEMMA ServeKeeps ==
  ASSUME Invariant, NEW c \in Clients, Serve(c)
  PROVE  Invariant'
<1> USE DEF Invariant
<1>1. UNCHANGED <<plan, view, down, moving, exempt>> /\ Changed' = Changed /\ Started' = Started
  BY DEF Serve, Changed, Started, moving
<1>2. \A i : OldHome(i)' = OldHome(i) /\ NewHome(i)' = NewHome(i)
  BY <1>1, HomesAreKept
<1>3. PICK k \in Keys, n \in Nodes, v \in Values \cup {Absent} :
        op[c] # None /\ op[c].key = k /\ op[c].node = n /\ op[c].value = v
  <2>1. op[c] # None /\ op[c] \in Request
    BY DEF Serve, Types
  <2>2. QED BY <2>1 DEF Request
<1>4. op' = [op EXCEPT ![c] = None]
  BY DEF Serve
<1>5. \/ UNCHANGED <<data, latest>>
      \/ n \notin down /\ data' = [data EXCEPT ![n][k] = v] /\ latest' = [latest EXCEPT ![k] = v]
  BY <1>3 DEF Serve
<1>6. OldHome(k) \in Nodes /\ \A i \in Keys : OldHome(i) \in Nodes /\ NewHome(i) \in Nodes
  BY <1>3, HomesAreMembers DEF Types
<1>7. \/ latest' = latest /\ \A m \in Nodes, i \in Keys : data'[m][i] = data[m][i]
      \/ /\ n \notin down
         /\ \A m \in Nodes, i \in Keys : data'[m][i] = IF m = n /\ i = k THEN v ELSE data[m][i]
         /\ \A i \in Keys : latest'[i] = IF i = k THEN v ELSE latest[i]
  <2>1. data \in [Nodes -> [Keys -> Values \cup {Absent}]] /\ latest \in [Keys -> Values \cup {Absent}]
    BY DEF Types
  <2>2. QED BY <1>5, <2>1
<1>8. IF Changed THEN k \in exempt ELSE n = OldHome(k)
  BY <1>3 DEF Ordered
<1>9. Types'
  <2>1. data' \in [Nodes -> [Keys -> Values \cup {Absent}]] /\ latest' \in [Keys -> Values \cup {Absent}]
    BY <1>5, SMTT(30) DEF Types
  <2>2. op' \in [Clients -> Request \cup {None}]
    BY <1>4 DEF Types
  <2>3. QED BY <1>1, <1>3, <2>1, <2>2 DEF Types, moving
<1>10. Counted'
  BY <1>1, CountedIsKept
<1>11. Ordered'
  <2>1. \A d \in Clients : op'[d] # None => op'[d] = op[d]
    BY <1>4 DEF Types
  <2>2. \A m \in down, i \in Keys : data'[m][i] = Absent
    <3>1. down \subseteq Nodes
      BY HomesAreMembers DEF Types
    <3>2. QED BY <1>7, <3>1 DEF Ordered
  <2>3. QED BY <1>1, <1>2, <2>1, <2>2 DEF Ordered, moving
<1>12. \A i \in Keys \ {k} : latest'[i] = latest[i] /\ \A m \in Nodes : data'[m][i] = data[m][i]
  BY <1>7
<1>13. ASSUME ~Changed, Only(k, OldHome(k), latest[k]) PROVE Only(k, OldHome(k), latest[k])'
  BY <1>2, <1>3, <1>7, <1>8, <1>13, <1>6 DEF Only
<1>14. Placed'
  <2>1. \A i \in Keys \ {k} : Only(i, OldHome(i), latest[i])' = Only(i, OldHome(i), latest[i])
    BY <1>2, <1>12, <1>6 DEF Only
  <2>2. \A i \in Keys \ exempt : Changed => i # k
    BY <1>8
  <2>3. ~Changed => \A i \in Keys : i \notin exempt \/ down = {} => Only(i, OldHome(i), latest[i])'
    BY <1>13, <2>1 DEF Placed
  <2>4. Changed /\ ~Started => \A i \in Keys \ exempt :
          Only(i, OldHome(i), latest[i])' /\ (latest'[i] # Absent => OldHome(i) \in plan.new)
    BY <1>12, <2>1, <2>2 DEF Placed
  <2>5. phase = "listing" => Changed
    BY DEF Ordered
  <2>6. phase = "listing" => \A i \in Keys \ exempt, m \in Nodes : OldHome(i) # NewHome(i) =>
          (<<m, i>> \in listed <=> m \in plan.new \ asked /\ data'[m][i] # Absent)
    BY <1>12, <2>2, <2>5 DEF Placed
  <2>7. QED BY <1>1, <1>2, <2>3, <2>4, <2>6 DEF Placed, moving
<1>15. Moved'
  <2>1. \A i \in Keys \ exempt : Started => i # k
    BY <1>8 DEF Ordered, Started
  <2>2. ASSUME NEW i \in Keys \ {k}
        PROVE  /\ Only(i, OldHome(i), latest[i])' = Only(i, OldHome(i), latest[i])
               /\ Only(i, NewHome(i), latest[i])' = Only(i, NewHome(i), latest[i])
               /\ latest'[i] = latest[i] /\ \A m \in Nodes : data'[m][i] = data[m][i]
    BY <1>2, <1>12, <1>6 DEF Only
  <2>3. QED BY <1>1, <2>1, <2>2 DEF Moved, moving
<1>16. QED BY <1>9, <1>10, <1>11, <1>14, <1>15

LEMMA CrashKeeps ==
  ASSUME Invariant, Crash
  PROVE  Invariant'
<1> USE DEF Invariant
<1>1. UNCHANGED <<plan, view, op, moving, latest>> /\ Changed' = Changed /\ Started' = Started
  BY DEF Crash, Changed, Started, moving
<1>2. \A i : OldHome(i)' = OldHome(i) /\ NewHome(i)' = NewHome(i)
  BY <1>1, HomesAreKept
<1>3. ~Changed /\ phase = "idle" /\ down = {} /\ down' = plan.old \ plan.new /\ ~Started
  BY DEF Crash, Ordered, Started
<1>4. data' = [n \in Nodes |-> IF n \in down' THEN [k \in Keys |-> Absent] ELSE data[n]]
  BY DEF Crash
<1>5. exempt' \subseteq Keys
  BY DEF Crash, Exempt, Types, Request
<1>6. Types'
  BY <1>1, <1>3, <1>4, <1>5 DEF Types, moving
<1>7. Counted'
  BY <1>1, CountedIsKept
<1>8. Ordered'
  <2>1. plan.old \subseteq Nodes
    BY HomesAreMembers DEF Types
  <2>2. \A n \in down', k \in Keys : data'[n][k] = Absent
    BY <1>3, <1>4, <2>1
  <2>3. QED BY <1>1, <1>2, <1>3, <2>2 DEF Ordered, moving
<1>9. Placed'
  <2>1. ASSUME NEW k \in Keys, k \notin exempt' \/ down' = {}
        PROVE  Only(k, OldHome(k), latest[k])'
    <3>1. Only(k, OldHome(k), latest[k])
      BY <1>3 DEF Placed
    <3>2. down' = {} \/ \A n \in Nodes \ plan.new : data[n][k] = Absent
      BY <2>1 DEF Crash, Exempt
    <3>3. \A n \in Nodes : data'[n][k] = data[n][k]
      BY <1>3, <1>4, <3>2
    <3>4. OldHome(k) \in Nodes
      BY HomesAreMembers DEF Types
    <3>5. QED BY <1>1, <1>2, <3>1, <3>3, <3>4 DEF Only
  <2>2. QED BY <1>1, <1>3, <2>1 DEF Placed, moving
<1>10. Moved'
  BY <1>1, <1>3 DEF Moved
<1>11. QED BY <1>6, <1>7, <1>8, <1>9, <1>10

\* The first node that learns of the change makes the keys exempt that
\* requests are under way for, or that are on a node that left.
LEMMA ChangeKeeps ==
  ASSUME Invariant, NEW n \in Nodes, Change(n)
  PROVE  Invariant'
<1> USE DEF Invariant
<1>1. UNCHANGED <<plan, data, down, op, moving, latest>> /\ Started' = Started
  BY DEF Change, Started, moving
<1>2. \A i : OldHome(i)' = OldHome(i) /\ NewHome(i)' = NewHome(i)
  BY <1>1, HomesAreKept
<1>3. view' = [view EXCEPT ![n] = plan.new]
  BY DEF Change
<1>4. Changed'
  BY <1>1, <1>3 DEF Changed, Types
<1>5. exempt' = IF Changed THEN exempt ELSE exempt \cup Exempt
  BY DEF Change
<1>6. exempt \subseteq exempt' /\ exempt' \subseteq Keys
  BY <1>5 DEF Exempt, Types, Request
<1>7. Types'
  BY <1>1, <1>3, <1>6 DEF Types, moving
<1>8. Counted'
  BY <1>1, CountedIsKept
<1>9. Ordered'
  <2>1. \A c \in Clients : op[c] # None => op[c].key \in exempt'
    BY <1>5 DEF Ordered, Exempt
  <2>2. QED BY <1>1, <1>2, <1>4, <2>1 DEF Ordered, moving
<1>10. Placed'
  <2>1. ASSUME NEW k \in Keys \ exempt', ~Started
        PROVE  Only(k, OldHome(k), latest[k]) /\ (latest[k] # Absent => OldHome(k) \in plan.new)
    <3>1. Only(k, OldHome(k), latest[k])
      BY <1>6, <2>1 DEF Placed
    <3>2. Changed \/ \A m \in Nodes \ plan.new : data[m][k] = Absent
      BY <1>5 DEF Exempt
    <3>3. OldHome(k) \in Nodes
      BY HomesAreMembers DEF Types
    <3>4. QED BY <1>6, <2>1, <3>1, <3>2, <3>3 DEF Placed, Only
  <2>2. QED BY <1>1, <1>2, <1>4, <1>6, <2>1 DEF Placed, Only, moving
<1>11. Moved'
  BY <1>1, <1>2, <1>6 DEF Moved, Only, moving
<1>12. QED BY <1>7, <1>8, <1>9, <1>10, <1>11

LEMMA ReconfKeeps ==
  ASSUME Invariant, NEW n \in Nodes, Reconf(n)
  PROVE  Invariant'
<1> USE DEF Invariant
<1>1. /\ UNCHANGED <<plan, view, data, down, op, listed, move, active, failed, exempt, latest>>
      /\ phase = "idle" /\ phase' = "listing" /\ asked' = plan.new /\ Changed /\ Changed' = Changed
      /\ ~Started /\ ~Started'
  BY DEF Reconf, Changed, Started
<1>2. \A i : OldHome(i)' = OldHome(i) /\ NewHome(i)' = NewHome(i)
  BY <1>1, HomesAreKept
<1>3. Types'
  BY <1>1 DEF Types
<1>4. Counted'
  <2>1. MovingKeys' = MovingKeys /\ ListedOnce' = ListedOnce
    BY <1>1 DEF MovingKeys, ListedOnce
  <2>2. QED BY <1>1, <1>2, <2>1 DEF Counted
<1>5. Ordered'
  BY <1>1, <1>2 DEF Ordered
<1>6. Placed'
  <2>1. listed = {}
    BY <1>1 DEF Ordered
  <2>2. QED BY <1>1, <1>2, <2>1 DEF Placed, Only
<1>7. Moved'
  BY <1>1 DEF Moved
<1>8. QED BY <1>3, <1>4, <1>5, <1>6, <1>7

\* A member lists what it holds, or the keys it holds that should move are
\* exempt; the others stay where they are.
LEMMA ListKeeps ==
  ASSUME Invariant, NEW n \in Nodes, NEW ok \in BOOLEAN, List(n, ok)
  PROVE  Invariant'
<1> USE DEF Invariant
<1>1. /\ UNCHANGED <<plan, view, data, down, op, phase, move, active, failed, latest>>
      /\ phase = "listing" /\ n \in asked /\ asked' = asked \ {n}
      /\ Changed' = Changed /\ ~Started /\ ~Started'
  BY DEF List, Changed, Started
<1>2. \A i : OldHome(i)' = OldHome(i) /\ NewHome(i)' = NewHome(i)
  BY <1>1, HomesAreKept
<1>3. /\ ok => listed' = listed \cup {<<n, k>> : k \in {i \in Keys : data[n][i] # Absent}}
      /\ ~ok => listed' = listed
      /\ exempt \subseteq exempt' /\ exempt' \subseteq Keys
      /\ ~ok => \A k \in Keys \ exempt' : OldHome(k) # NewHome(k) => data[n][k] = Absent
  BY DEF List, Types, Displaced, OldHome, NewHome
<1>4. listed' \subseteq Nodes \X Keys
  BY <1>3 DEF Types
<1>5. Types'
  BY <1>1, <1>3, <1>4 DEF Types
<1>6. Counted'
  <2>1. MovingKeys' = MovingKeys /\ MovingKeys = {} /\ active = 0
    BY <1>1 DEF MovingKeys, Counted
  <2>2. QED BY <1>1, <1>2, <2>1, FS_EmptySet DEF Counted
<1>7. Ordered'
  BY <1>1, <1>2, <1>3 DEF Ordered
<1>8. Placed'
  <2>1. ASSUME NEW k \in Keys \ exempt', NEW m \in Nodes, OldHome(k) # NewHome(k)
        PROVE  <<m, k>> \in listed' <=> m \in plan.new \ asked' /\ data[m][k] # Absent
    <3>1. <<m, k>> \in listed <=> m \in plan.new \ asked /\ data[m][k] # Absent
      BY <1>1, <1>3, <2>1 DEF Placed
    <3>2. <<m, k>> \in listed' <=> <<m, k>> \in listed \/ (m = n /\ data[m][k] # Absent)
      BY <1>3, <2>1
    <3>3. n \in plan.new
      BY <1>1 DEF Types
    <3>4. QED BY <1>1, <3>1, <3>2, <3>3
  <2>2. phase # "idle" /\ Changed
    BY <1>1 DEF Ordered
  <2>3. QED BY <1>1, <1>2, <1>3, <2>1, <2>2 DEF Placed, Only
<1>9. Moved'
  BY <1>1 DEF Moved
<1>10. QED BY <1>5, <1>6, <1>7, <1>8, <1>9

\* The counter starts with the listings of the keys that move.
LEMMA CountCoversMoves ==
  ASSUME listed \subseteq Nodes \X Keys
  PROVE  /\ Count(Moves) \in Nat /\ Cardinality(Moves) <= Count(Moves)
         /\ Count(Moves) <= Cardinality(Keys) * Cardinality(Nodes)
         /\ ListedOnce => Count(Moves) = Cardinality(Moves)
<1> DEFINE P == {p \in listed : p[2] \in Moves}
           key == [p \in P |-> p[2]]
<1>1. /\ IsFiniteSet(Nodes \X Keys) /\ Cardinality(Nodes \X Keys) = Cardinality(Nodes) * Cardinality(Keys)
      /\ Cardinality(Nodes) \in Nat /\ Cardinality(Keys) \in Nat
  BY FS_Product, FS_CardinalityType, Assumptions DEF PlanAssumption
<1>2. P \subseteq Nodes \X Keys
  OBVIOUS
<1>3. key \in Surjection(P, Moves)
  <2>1. key \in [P -> Moves]
    OBVIOUS
  <2>2. ASSUME NEW k \in Moves PROVE \E p \in P : key[p] = k
    <3>1. PICK m \in Nodes : <<m, k>> \in listed
      BY DEF Moves
    <3>2. QED BY <3>1
  <2> HIDE DEF P, key
  <2>3. QED BY <2>1, <2>2 DEF Surjection
<1>4. ListedOnce => key \in Injection(P, Moves)
  <2>1. ASSUME ListedOnce, NEW p \in P, NEW q \in P, key[p] = key[q] PROVE p = q
    BY <2>1 DEF ListedOnce
  <2>2. key \in [P -> Moves]
    OBVIOUS
  <2> HIDE DEF P, key
  <2>3. QED BY <2>1, <2>2 DEF Injection, IsInjective
<1>5. Count(Moves) = Cardinality(P)
  BY DEF Count
<1> HIDE DEF P, key
<1>6. IsFiniteSet(P) /\ Cardinality(P) <= Cardinality(Nodes \X Keys)
  BY <1>1, <1>2, FS_Subset
<1>7. Cardinality(P) \in Nat
  BY <1>6, FS_CardinalityType
<1>8. IsFiniteSet(Moves) /\ Cardinality(Moves) <= Cardinality(P) /\ (ListedOnce => Cardinality(Moves) = Cardinality(P))
  BY <1>3, <1>4, <1>6, FS_Surjection
<1>9. Cardinality(Keys) * Cardinality(Nodes) = Cardinality(Nodes) * Cardinality(Keys)
  BY <1>1
<1>10. QED BY <1>1, <1>5, <1>6, <1>7, <1>8, <1>9

\* The members listed every item that is not exempt, so those that have
\* another home are moved and the others are where they belong.
LEMMA RebalanceKeeps ==
  ASSUME Invariant, Rebalance
  PROVE  Invariant'
<1> USE DEF Invariant
<1>1. /\ UNCHANGED <<plan, view, data, down, op, asked, listed, failed, exempt, latest>>
      /\ phase = "listing" /\ asked = {} /\ Changed' = Changed /\ ~Started
      /\ active' = Count(Moves) /\ phase' = AnswerAtZero(active')
  BY DEF Rebalance, Changed, Started
<1>2. \A i : OldHome(i)' = OldHome(i) /\ NewHome(i)' = NewHome(i)
  BY <1>1, HomesAreKept
<1>3. move' = [k \in Keys |-> IF k \in Moves THEN Deleting ELSE None] /\ None # Deleting
  BY Assumptions DEF Rebalance, MarkAssumption
<1>4. Started' /\ phase' \in {"moving", "answered"} /\ (phase' = "answered" => active' = 0)
  BY <1>1 DEF AnswerAtZero, Started
<1>5. MovingKeys' = Moves
  BY <1>3 DEF MovingKeys, Moves
<1>6. listed \subseteq Nodes \X Keys
  BY DEF Types
<1>7. Types'
  BY <1>1, <1>3, <1>4, <1>6, CountCoversMoves DEF Types
<1>8. Counted'
  <2>1. ListedOnce' = ListedOnce
    BY <1>1 DEF ListedOnce
  <2>2. \A k \in Moves : OldHome(k) # NewHome(k)
    BY DEF Moves, Displaced, OldHome, NewHome
  <2>3. QED BY <1>1, <1>2, <1>4, <1>5, <1>6, <2>1, <2>2, CountCoversMoves DEF Counted
<1>9. Changed
  BY <1>1 DEF Ordered
<1>10. Ordered'
  BY <1>1, <1>2, <1>4, <1>9 DEF Ordered
<1>11. Placed'
  BY <1>1, <1>4, <1>9 DEF Placed
<1>12. Moved'
  <2>1. ASSUME NEW k \in Keys \ exempt
        PROVE  IF k \in Moves THEN latest[k] # Absent ELSE Only(k, NewHome(k), latest[k])
    <3>1. /\ Only(k, OldHome(k), latest[k])
          /\ latest[k] # Absent => OldHome(k) \in plan.new
          /\ OldHome(k) # NewHome(k) => \A m \in Nodes : <<m, k>> \in listed <=> m \in plan.new /\ data[m][k] # Absent
      BY <1>1, <1>9 DEF Placed
    <3>2. OldHome(k) \in Nodes /\ NewHome(k) \in Nodes
      BY HomesAreMembers DEF Types
    <3>3. k \in Moves <=> OldHome(k) # NewHome(k) /\ \E m \in Nodes : <<m, k>> \in listed
      BY DEF Moves, Displaced, OldHome, NewHome
    <3>4. CASE OldHome(k) = NewHome(k)
      BY <3>1, <3>3, <3>4
    <3>5. CASE OldHome(k) # NewHome(k) /\ latest[k] = Absent
      BY <3>1, <3>2, <3>3, <3>5 DEF Only
    <3>6. CASE OldHome(k) # NewHome(k) /\ latest[k] # Absent
      BY <3>1, <3>2, <3>3, <3>6 DEF Only
    <3>7. QED BY <3>4, <3>5, <3>6
  <2>2. ASSUME NEW k \in Keys \ exempt
        PROVE  Only(k, OldHome(k), latest[k])' /\ Only(k, NewHome(k), latest[k])' = Only(k, NewHome(k), latest[k])
    BY <1>1, <1>2, <1>9 DEF Placed, Only
  <2>3. QED BY <1>1, <1>3, <2>1, <2>2 DEF Moved
<1>13. QED BY <1>7, <1>8, <1>10, <1>11, <1>12

\* One key less moves.
LEMMA OneLess ==
  ASSUME Types, Counted, NEW k \in Keys, move[k] # None,
         MovingKeys' = MovingKeys \ {k}, active' = active - 1
  PROVE  /\ Cardinality(MovingKeys') <= active' /\ active' \in Nat /\ active' <= active
         /\ active = Cardinality(MovingKeys) => active' = Cardinality(MovingKeys')
<1>1. IsFiniteSet(MovingKeys)
  BY FS_Subset, Assumptions DEF MovingKeys, PlanAssumption
<1>2. Cardinality(MovingKeys') = Cardinality(MovingKeys) - 1 /\ IsFiniteSet(MovingKeys')
  BY <1>1, FS_RemoveElement DEF MovingKeys
<1>3. Cardinality(MovingKeys) \in Nat /\ Cardinality(MovingKeys') \in Nat
  BY <1>1, <1>2, FS_CardinalityType
<1>4. Cardinality(MovingKeys) <= active /\ active \in Nat
  BY DEF Counted, Types
<1>5. QED BY <1>2, <1>3, <1>4

\* The old home of a key that is not exempt has the item and gives it up; when
\* the request fails the key is exempt.
LEMMA MoveOutKeeps ==
  ASSUME Invariant, NEW k \in Keys, NEW done \in BOOLEAN, NEW answered \in BOOLEAN, MoveOut(k, done, answered)
  PROVE  Invariant'
<1> USE DEF Invariant
<1> DEFINE lacks == OldHome(k) \in down \/ data[OldHome(k)][k] = Absent
           fails == lacks \/ ~done \/ ~answered
           drops == ~lacks /\ done
<1>1. /\ UNCHANGED <<plan, view, down, op, phase, asked, listed, latest>>
      /\ Changed' = Changed /\ Started' = Started /\ move[k] = Deleting
      /\ exempt \subseteq exempt' /\ exempt' \subseteq Keys
      /\ k \notin exempt' => done /\ answered
  BY DEF MoveOut, Changed, Started, Types
<1>2. \A i : OldHome(i)' = OldHome(i) /\ NewHome(i)' = NewHome(i)
  BY <1>1, HomesAreKept
<1>3. /\ IF fails
         THEN active' = active - 1 /\ move' = [move EXCEPT ![k] = None]
         ELSE move' = [move EXCEPT ![k] = data[OldHome(k)][k]] /\ UNCHANGED active
      /\ IF drops THEN data' = [data EXCEPT ![OldHome(k)][k] = Absent] ELSE data' = data
  BY DEF MoveOut, OldHome
<1>4. OldHome(k) \in Nodes /\ \A i \in Keys : OldHome(i) \in Nodes /\ NewHome(i) \in Nodes
  BY HomesAreMembers DEF Types
<1>5. None # Deleting /\ None \notin Values \cup {Absent} /\ Deleting \notin Values \cup {Absent}
  BY Assumptions DEF MarkAssumption
<1>6. k \in MovingKeys /\ Started /\ phase = "moving"
  <2>1. k \in MovingKeys /\ Started
    BY <1>1, <1>5 DEF MovingKeys, Counted
  <2>2. active # 0
    <3>1. IsFiniteSet(MovingKeys)
      BY FS_Subset, Assumptions DEF MovingKeys, PlanAssumption
    <3>2. Cardinality(MovingKeys) \in Nat \ {0}
      BY <2>1, <3>1, FS_CardinalityType, FS_EmptySet
    <3>3. QED BY <3>2 DEF Counted, Types
  <2>3. QED BY <2>1, <2>2 DEF Counted, Started
<1>7. \A m \in Nodes, i \in Keys :
        data'[m][i] = IF drops /\ m = OldHome(k) /\ i = k THEN Absent ELSE data[m][i]
  <2>1. data \in [Nodes -> [Keys -> Values \cup {Absent}]]
    BY DEF Types
  <2> HIDE DEF drops
  <2>2. QED BY <1>3, <1>4, <2>1
<1>8. \A i \in Keys : move'[i] = IF i # k THEN move[i] ELSE IF fails THEN None ELSE data[OldHome(k)][k]
  <2>1. move \in [Keys -> Values \cup {None, Deleting}]
    BY DEF Types
  <2> HIDE DEF fails
  <2>2. QED BY <1>3, <2>1
<1>9. ~fails => data[OldHome(k)][k] \in Values
  BY <1>4 DEF Types
<1>10. MovingKeys' = IF fails THEN MovingKeys \ {k} ELSE MovingKeys
  <2> HIDE DEF fails
  <2>1. QED BY <1>5, <1>6, <1>8, <1>9 DEF MovingKeys
<1>11. /\ Cardinality(MovingKeys') <= active' /\ active' \in Nat /\ active' <= active
       /\ active = Cardinality(MovingKeys) => active' = Cardinality(MovingKeys')
  <2>1. CASE fails
    BY <1>1, <1>3, <1>5, <1>10, <2>1, OneLess
  <2>2. CASE ~fails
    BY <1>3, <1>10, <2>2 DEF Counted, Types
  <2>3. QED BY <2>1, <2>2
<1>12. Types'
  <2>1. data' \in [Nodes -> [Keys -> Values \cup {Absent}]]
    <3>1. data' = data \/ data' = [data EXCEPT ![OldHome(k)][k] = Absent]
      BY <1>3
    <3> HIDE DEF fails, drops
    <3>2. QED BY <1>4, <3>1, SMTT(30) DEF Types
  <2>2. move' \in [Keys -> Values \cup {None, Deleting}]
    BY <1>3, <1>9 DEF Types
  <2>3. QED BY <1>1, <1>11, <2>1, <2>2 DEF Types
<1>13. Counted'
  <2>1. ListedOnce' = ListedOnce
    BY <1>1 DEF ListedOnce
  <2>2. MovingKeys' \subseteq MovingKeys
    BY <1>10
  <2>3. active \in Nat /\ active <= Cardinality(Keys) * Cardinality(Nodes) /\ Cardinality(Keys) * Cardinality(Nodes) \in Nat
    BY FS_CardinalityType, Assumptions DEF PlanAssumption, Types, Counted
  <2>4. active' <= Cardinality(Keys) * Cardinality(Nodes)
    BY <1>11, <2>3
  <2>5. QED BY <1>1, <1>2, <1>6, <1>11, <2>1, <2>2, <2>4 DEF Counted
<1>14. down \subseteq Nodes /\ (k \notin exempt' => ~fails /\ drops)
  <2>1. down \subseteq Nodes
    BY HomesAreMembers DEF Types
  <2>2. k \notin exempt' => data[OldHome(k)][k] # Absent
    BY <1>1, <1>5, <1>6 DEF Moved, Only
  <2>3. QED BY <1>1, <2>1, <2>2 DEF Ordered
<1> HIDE DEF fails, drops
<1>15. Ordered'
  <2>1. \A m \in down, i \in Keys : data'[m][i] = Absent
    BY <1>7, <1>14 DEF Ordered
  <2>2. Changed
    BY <1>6 DEF Ordered
  <2>3. \A c \in Clients : op[c] # None => op[c].key \in exempt'
    BY <1>1, <2>2 DEF Ordered
  <2>4. QED BY <1>1, <1>2, <2>1, <2>2, <2>3 DEF Ordered
<1>16. Placed'
  BY <1>1, <1>6 DEF Placed, Ordered
<1>17. Moved'
  <2>1. ASSUME NEW i \in Keys \ exempt, i # k
        PROVE  /\ move'[i] = move[i] /\ \A m \in Nodes : data'[m][i] = data[m][i]
               /\ Only(i, OldHome(i), latest[i])' = Only(i, OldHome(i), latest[i])
               /\ Only(i, NewHome(i), latest[i])' = Only(i, NewHome(i), latest[i])
    BY <1>1, <1>2, <1>4, <1>7, <1>8, <2>1 DEF Only
  <2>2. ASSUME k \notin exempt'
        PROVE  /\ move'[k] = latest[k] /\ move'[k] \notin {None, Deleting}
               /\ \A m \in Nodes : data'[m][k] = Absent
    <3>1. Only(k, OldHome(k), latest[k]) /\ latest[k] # Absent
      BY <1>1, <1>5, <1>6, <2>2 DEF Moved
    <3>2. QED BY <1>5, <1>7, <1>8, <1>9, <1>14, <2>2, <3>1 DEF Only
  <2>3. QED BY <1>1, <1>6, <2>1, <2>2 DEF Moved
<1>18. QED BY <1>12, <1>13, <1>15, <1>16, <1>17

\* The new home is a member, so it is up, and takes the item, or the key is
\* exempt.
LEMMA MoveInKeeps ==
  ASSUME Invariant, NEW k \in Keys, NEW done \in BOOLEAN, MoveIn(k, done)
  PROVE  Invariant'
<1> USE DEF Invariant
<1>1. /\ UNCHANGED <<plan, view, down, op, asked, listed, latest>>
      /\ exempt \subseteq exempt' /\ exempt' \subseteq Keys /\ (k \notin exempt' => done)
      /\ Changed' = Changed /\ move[k] \notin {None, Deleting}
      /\ active' = active - 1 /\ phase' = AnswerAtZero(active')
      /\ move' = [move EXCEPT ![k] = None]
  BY DEF MoveIn, Changed, Types
<1>2. \A i : OldHome(i)' = OldHome(i) /\ NewHome(i)' = NewHome(i)
  BY <1>1, HomesAreKept
<1>3. /\ NewHome(k) \in Nodes /\ NewHome(k) \in plan.new /\ down \subseteq Nodes \ plan.new
      /\ \A i \in Keys : OldHome(i) \in Nodes /\ NewHome(i) \in Nodes
  BY HomesAreMembers DEF Types
<1>4. data' = IF done THEN [data EXCEPT ![NewHome(k)][k] = move[k]] ELSE data
  BY <1>3 DEF MoveIn, NewGroup, NewHome
<1>5. k \in MovingKeys /\ Started /\ move[k] \in Values
  BY <1>1 DEF MovingKeys, Counted, Types
<1>6. Started' /\ phase' \in {"moving", "answered"} /\ (phase' = "answered" => active' = 0)
  BY <1>1 DEF AnswerAtZero, Started
<1>7. \A m \in Nodes, i \in Keys :
        data'[m][i] = IF done /\ m = NewHome(k) /\ i = k THEN move[k] ELSE data[m][i]
  <2>1. data \in [Nodes -> [Keys -> Values \cup {Absent}]]
    BY DEF Types
  <2>2. QED BY <1>3, <1>4, <2>1
<1>8. \A i \in Keys : move'[i] = IF i # k THEN move[i] ELSE None
  BY <1>1 DEF Types
<1>9. MovingKeys' = MovingKeys \ {k}
  BY <1>8 DEF MovingKeys
<1>10. /\ Cardinality(MovingKeys') <= active' /\ active' \in Nat /\ active' <= active
       /\ active = Cardinality(MovingKeys) => active' = Cardinality(MovingKeys')
  BY <1>1, <1>9, OneLess
<1>11. Types'
  <2>1. data' \in [Nodes -> [Keys -> Values \cup {Absent}]]
    BY <1>3, <1>4, <1>5 DEF Types
  <2>2. move' \in [Keys -> Values \cup {None, Deleting}]
    BY <1>1 DEF Types
  <2>3. QED BY <1>1, <1>6, <1>10, <2>1, <2>2 DEF Types
<1>12. Counted'
  <2>1. ListedOnce' = ListedOnce
    BY <1>1 DEF ListedOnce
  <2>2. active \in Nat /\ active <= Cardinality(Keys) * Cardinality(Nodes) /\ Cardinality(Keys) * Cardinality(Nodes) \in Nat
    BY FS_CardinalityType, Assumptions DEF PlanAssumption, Types, Counted
  <2>3. active' <= Cardinality(Keys) * Cardinality(Nodes)
    BY <1>10, <2>2
  <2>4. QED BY <1>1, <1>2, <1>6, <1>9, <1>10, <2>1, <2>3 DEF Counted
<1>13. Changed
  BY <1>5 DEF Ordered, Started
<1>14. Ordered'
  <2>1. \A m \in down, i \in Keys : data'[m][i] = Absent
    BY <1>3, <1>7 DEF Ordered
  <2>2. QED BY <1>1, <1>2, <1>13, <2>1, <1>6 DEF Ordered
<1>15. Placed'
  BY <1>1, <1>6, <1>13 DEF Placed
<1>16. Moved'
  <2>1. ASSUME NEW i \in Keys \ exempt, i # k
        PROVE  /\ move'[i] = move[i] /\ \A m \in Nodes : data'[m][i] = data[m][i]
               /\ Only(i, OldHome(i), latest[i])' = Only(i, OldHome(i), latest[i])
               /\ Only(i, NewHome(i), latest[i])' = Only(i, NewHome(i), latest[i])
    BY <1>1, <1>2, <1>3, <1>7, <1>8, <2>1 DEF Only
  <2>2. ASSUME k \notin exempt' PROVE move'[k] = None /\ Only(k, NewHome(k), latest[k])'
    <3>1. move[k] = latest[k] /\ (\A m \in Nodes : data[m][k] = Absent) /\ done
      BY <1>1, <1>5, <2>2 DEF Moved
    <3>2. \A m \in Nodes : data'[m][k] = IF m = NewHome(k) THEN latest[k] ELSE Absent
      BY <1>7, <3>1
    <3>3. QED BY <1>1, <1>2, <1>3, <1>8, <3>2 DEF Only
  <2>3. None # Deleting
    BY Assumptions DEF MarkAssumption
  <2>4. QED BY <1>1, <1>5, <2>1, <2>2, <2>3 DEF Moved
<1>17. QED BY <1>11, <1>12, <1>14, <1>15, <1>16

LEMMA StutterKeeps ==
  ASSUME Invariant, UNCHANGED vars
  PROVE  Invariant'
<1>1. UNCHANGED <<plan, view, data, down, op, phase, asked, listed, move, active, failed, exempt, latest>>
  BY DEF vars, moving
<1>2. \A i : OldHome(i)' = OldHome(i) /\ NewHome(i)' = NewHome(i)
  BY <1>1, HomesAreKept
<1>3. Changed' = Changed /\ Started' = Started
  BY <1>1 DEF Changed, Started
<1>4. Counted'
  BY <1>1, CountedIsKept DEF Invariant, moving
<1>5. Types' /\ Ordered'
  BY <1>1, <1>2, <1>3 DEF Invariant, Types, Ordered
<1>6. Placed' /\ Moved'
  BY <1>1, <1>2, <1>3 DEF Invariant, Placed, Moved, Only
<1>7. QED BY <1>4, <1>5, <1>6 DEF Invariant

\* Every reachable state satisfies the inductive invariant.
LEMMA InvariantHolds == Spec => []Invariant
<1>1. ASSUME Invariant, [Next]_vars PROVE Invariant'
  BY <1>1, CallKeeps, ServeKeeps, CrashKeeps, ChangeKeeps, ReconfKeeps, ListKeeps, RebalanceKeeps,
     MoveOutKeeps, MoveInKeeps, StutterKeeps DEF Next, Move
<1>2. QED BY <1>1, InitInvariant, PTL DEF Spec

----------------------------------------------------------------------------
(* The theorems *)

\* The values of the state of a reconfiguration, and its counter: that of the
\* keys that still move, when no key was listed twice.
THEOREM PlacementTypeCorrect == Spec => []PlacementTypeOK
<1>1. ASSUME Invariant PROVE PlacementTypeOK
  <2> USE <1>1 DEF Invariant
  <2>1. active \in 0..(Cardinality(Keys) * Cardinality(Nodes))
    <3>1. Cardinality(Keys) * Cardinality(Nodes) \in Nat
      BY FS_CardinalityType, Assumptions DEF PlanAssumption
    <3>2. QED BY <3>1 DEF Counted, Types
  <2>2. \A n \in Nodes, k \in Keys : data[n][k] \in Clients \cup {0, Absent}
    BY DEF Types, Values
  <2>3. QED BY <2>1, <2>2 DEF PlacementTypeOK, Types, Counted, MovingKeys
<1>2. QED BY <1>1, InvariantHolds, PTL

\* A key that no request disturbed, that was on no node that left and whose own
\* move met no call that failed arrives at its new home with its latest value,
\* whatever fails in the moves of other keys.
THEOREM UntouchedItemsAlwaysArrive == Spec => []UntouchedItemsArrive
<1>1. ASSUME Invariant PROVE UntouchedItemsArrive
  <2> USE <1>1 DEF Invariant
  <2> SUFFICES ASSUME Settled, NEW k \in Keys \ exempt
               PROVE  data[NewHome(k)][k] = latest[k]
    BY DEF UntouchedItemsArrive, NewHome
  <2>1. active = 0 /\ Started /\ active \in Nat
    BY DEF Settled, Counted, Started, Types
  <2>2. MovingKeys = {}
    <3>1. IsFiniteSet(MovingKeys)
      BY FS_Subset, Assumptions DEF MovingKeys, PlanAssumption
    <3>2. Cardinality(MovingKeys) = 0
      BY <2>1, <3>1, FS_CardinalityType DEF Counted
    <3>3. QED BY <3>1, <3>2, FS_EmptySet
  <2>3. move[k] = None
    BY <2>2 DEF MovingKeys
  <2>4. QED BY <2>1, <2>3 DEF Moved, Only
<1>2. QED BY <1>1, InvariantHolds, PTL

\* With consistent and rendezvous hashing a key moves only from a node that
\* left or to one that joined.
THEOREM OnlyNeededItemsMove == Spec => []OnlyNeededMoves
<1>1. ASSUME Invariant PROVE OnlyNeededMoves
  BY <1>1, OnlyNeededMoveHome DEF Invariant, Types, Counted, MovingKeys, OnlyNeededMoves, OldHome, NewHome
<1>2. QED BY <1>1, InvariantHolds, PTL
=============================================================================
