-------------------------- MODULE Heartbeat_proofs --------------------------
(* What failure detection promises, for any nodes, groups and thresholds.   *)
EXTENDS Heartbeat, SequenceTheorems, WellFoundedInduction, TLAPS

----------------------------------------------------------------------------
(* Removal from the groups *)

\* A statement about numbers, as the set of those it holds for, holds for all
\* when it holds for 0 and from each for the next.
LEMMA SetInduction ==
  ASSUME NEW P, 0 \in P, \A n \in Nat : n \in P => n + 1 \in P
  PROVE  Nat \subseteq P
<1> DEFINE T == {n \in Nat : n \notin P}
<1>1. SUFFICES ASSUME T # {} PROVE FALSE
  OBVIOUS
<1>2. T \subseteq Nat
  OBVIOUS
<1> HIDE DEF T
<1>3. PICK x \in T : \A y \in T : ~(<<y, x>> \in OpToRel(<, Nat))
  BY <1>1, <1>2, NatLessThanWellFounded, WFMin, Zenon
<1> USE DEF T
<1>4. x \in Nat /\ x \notin P /\ \A y \in T : ~(y < x)
  BY <1>3 DEF OpToRel
<1>5. x # 0 /\ x - 1 \in Nat /\ x - 1 < x
  BY <1>4
<1>6. x - 1 \in P
  BY <1>4, <1>5
<1>7. (x - 1) + 1 \in P
  BY <1>5, <1>6
<1>8. QED BY <1>4, <1>5, <1>7

\* A sequence without the element at a position.
LEMMA RemoveAtProperties ==
  ASSUME NEW S, NEW s \in Seq(S), NEW p \in 1..Len(s)
  PROVE  /\ RemoveAt(s, p) \in Seq(S) /\ Len(RemoveAt(s, p)) = Len(s) - 1
         /\ \A i \in 1..(Len(s) - 1) : RemoveAt(s, p)[i] = IF i < p THEN s[i] ELSE s[i + 1]
<1> DEFINE before == SubSeq(s, 1, p - 1)
           after == SubSeq(s, p + 1, Len(s))
<1>1. Len(s) \in Nat /\ \A i \in 1..Len(s) : s[i] \in S
  BY LenProperties, ElementOfSeq
<1>2. before \in Seq(S) /\ Len(before) = p - 1 /\ \A i \in 1..(p - 1) : before[i] = s[i]
  <2>1. 1 \in Int /\ p - 1 \in Int /\ \A i \in 1..(p - 1) : s[i] \in S
    BY <1>1
  <2>2. /\ before \in Seq(S) /\ Len(before) = IF 1 <= p - 1 THEN p - 1 - 1 + 1 ELSE 0
        /\ \A i \in 1..(p - 1 - 1 + 1) : before[i] = s[1 + i - 1]
    BY <2>1, SubSeqProperties
  <2> HIDE DEF before
  <2>3. QED BY <1>1, <2>2
<1>3. after \in Seq(S) /\ Len(after) = Len(s) - p /\ \A i \in 1..(Len(s) - p) : after[i] = s[p + i]
  <2>1. p + 1 \in Int /\ Len(s) \in Int /\ \A i \in (p + 1)..Len(s) : s[i] \in S
    BY <1>1
  <2>2. /\ after \in Seq(S) /\ Len(after) = IF p + 1 <= Len(s) THEN Len(s) - (p + 1) + 1 ELSE 0
        /\ \A i \in 1..(Len(s) - (p + 1) + 1) : after[i] = s[(p + 1) + i - 1]
    BY <2>1, SubSeqProperties
  <2> HIDE DEF after
  <2>3. \A i \in 1..(Len(s) - p) : (p + 1) + i - 1 = p + i
    BY <1>1
  <2>4. QED BY <1>1, <2>2, <2>3
<1>4. RemoveAt(s, p) = before \o after
  BY DEF RemoveAt
<1> HIDE DEF before, after
<1>5. /\ before \o after \in Seq(S) /\ Len(before \o after) = Len(before) + Len(after)
      /\ \A i \in 1..(Len(before) + Len(after)) :
            (before \o after)[i] = IF i <= Len(before) THEN before[i] ELSE after[i - Len(before)]
  BY <1>2, <1>3, ConcatProperties
<1>6. ASSUME NEW i \in 1..(Len(s) - 1)
      PROVE  (before \o after)[i] = IF i < p THEN s[i] ELSE s[i + 1]
  <2>1. CASE i < p
    BY <1>1, <1>2, <1>3, <1>5, <2>1
  <2>2. CASE ~(i < p)
    <3>1. i - (p - 1) \in 1..(Len(s) - p) /\ p + (i - (p - 1)) = i + 1
      BY <1>1, <2>2
    <3>2. (before \o after)[i] = after[i - (p - 1)]
      BY <1>1, <1>2, <1>3, <1>5, <2>2
    <3>3. QED BY <1>3, <2>2, <3>1, <3>2
  <2>3. QED BY <2>1, <2>2
<1>7. QED BY <1>1, <1>2, <1>3, <1>4, <1>5, <1>6

\* The groups in the order in which they are removed: the last is that of all
\* nodes, and every other one comes before.
LEMMA SortedGroupsOrder ==
  /\ Len(SortedGroups) \in Nat \ {0} /\ SortedGroups[Len(SortedGroups)] = All
  /\ \A g \in Groups \ {All} : \E i \in 1..(Len(SortedGroups) - 1) : SortedGroups[i] = g
<1> DEFINE N == Len(GroupOrder)
           p == CHOOSE i \in 1..N : GroupOrder[i] = All
           others == RemoveAt(GroupOrder, p)
<1>1. GroupOrder \in Seq(Groups) /\ N \in Nat /\ Groups = {GroupOrder[i] : i \in 1..N}
  BY GroupAssumption DEF Groups, ToSet
<1>2. p \in 1..N /\ GroupOrder[p] = All
  BY <1>1, GroupAssumption
<1>3. SortedGroups = others \o <<All>>
  BY DEF SortedGroups
<1> HIDE DEF p
<1>4. /\ others \in Seq(Groups) /\ Len(others) = N - 1
      /\ \A i \in 1..(N - 1) : others[i] = IF i < p THEN GroupOrder[i] ELSE GroupOrder[i + 1]
  BY <1>1, <1>2, RemoveAtProperties
<1>5. <<All>> \in Seq(Groups) /\ Len(<<All>>) = 1 /\ <<All>>[1] = All
  BY GroupAssumption
<1> HIDE DEF others, N
<1>6. /\ Len(others \o <<All>>) = Len(others) + 1
      /\ \A i \in 1..(Len(others) + 1) :
            (others \o <<All>>)[i] = IF i <= Len(others) THEN others[i] ELSE <<All>>[i - Len(others)]
  BY <1>4, <1>5, ConcatProperties
<1>7. /\ Len(SortedGroups) = N /\ SortedGroups[N] = All
      /\ \A i \in 1..(N - 1) : SortedGroups[i] = others[i]
  BY <1>1, <1>2, <1>3, <1>4, <1>5, <1>6, SMTT(30)
<1>8. ASSUME NEW g \in Groups \ {All}
      PROVE  \E i \in 1..(N - 1) : SortedGroups[i] = g
  <2>1. PICK j \in 1..N : GroupOrder[j] = g
    BY <1>1
  <2>2. CASE j < p
    <3>1. j \in 1..(N - 1)
      BY <1>1, <1>2, <2>2
    <3>2. QED BY <1>4, <1>7, <2>1, <2>2, <3>1
  <2>3. CASE j > p
    <3>1. j - 1 \in 1..(N - 1) /\ (j - 1) + 1 = j /\ ~(j - 1 < p)
      BY <1>1, <1>2, <2>3
    <3>2. SortedGroups[j - 1] = g
      BY <1>4, <1>7, <2>1, <3>1
    <3>3. QED BY <3>1, <3>2
  <2>4. QED BY <1>1, <1>2, <2>1, <2>2, <2>3
<1>9. QED BY <1>1, <1>2, <1>7, <1>8

\* The functions that start with a and go on by the steps g.
Recursions(S, a, N, g) == {f \in [0..N -> S] : f[0] = a /\ \A i \in 1..N : f[i] = g[i][f[i - 1]]}

\* A function can be defined by recursion on the numbers up to a bound.
LEMMA RecursionExists ==
  ASSUME NEW S, NEW a \in S, NEW N \in Nat, NEW g \in [1..N -> [S -> S]]
  PROVE  Recursions(S, a, N, g) # {}
<1> DEFINE Good(n, f) == f[0] = a /\ \A i \in 1..n : f[i] = g[i][f[i - 1]]
           P == {n \in Nat : n <= N => \E f \in [0..n -> S] : Good(n, f)}
<1>1. 0 \in P
  <2>1. [i \in 0..0 |-> a] \in [0..0 -> S] /\ Good(0, [i \in 0..0 |-> a])
    OBVIOUS
  <2>2. QED BY <2>1
<1>2. ASSUME NEW n \in Nat, n \in P PROVE n + 1 \in P
  <2>1. SUFFICES ASSUME n + 1 <= N PROVE \E f \in [0..(n + 1) -> S] : Good(n + 1, f)
    OBVIOUS
  <2>2. PICK f \in [0..n -> S] : Good(n, f)
    BY <1>2, <2>1
  <2> DEFINE h == [i \in 0..(n + 1) |-> IF i = n + 1 THEN g[n + 1][f[n]] ELSE f[i]]
  <2>3. n \in 0..n /\ n + 1 \in 1..N /\ f[n] \in S
    BY <2>1, <2>2
  <2>4. g[n + 1][f[n]] \in S
    BY <2>3
  <2>5. h \in [0..(n + 1) -> S]
    BY <2>2, <2>4
  <2>6. h[0] = a
    BY <2>2
  <2>7. ASSUME NEW i \in 1..(n + 1) PROVE h[i] = g[i][h[i - 1]]
    <3>1. CASE i = n + 1
      <4>1. h[i] = g[n + 1][f[n]] /\ h[i - 1] = f[n]
        BY <3>1
      <4> HIDE DEF h
      <4>2. QED BY <3>1, <4>1
    <3>2. CASE i # n + 1
      <4>1. i \in 1..n /\ i - 1 \in 0..n /\ h[i] = f[i] /\ h[i - 1] = f[i - 1]
        BY <3>2
      <4> HIDE DEF h
      <4>2. QED BY <2>2, <4>1
    <3>3. QED BY <3>1, <3>2
  <2> HIDE DEF h
  <2>8. QED BY <2>5, <2>6, <2>7
<1>3. N \in P
  <2>1. Nat \subseteq P
    <3> HIDE DEF P
    <3>1. QED BY <1>1, <1>2, SetInduction
  <2>2. QED BY <2>1
<1>4. QED BY <1>3 DEF Recursions

\* Removing a node from every group, that of all nodes last, leaves it in
\* none: after each removal it is only in groups whose turn comes, and in that
\* of all nodes, which each removal computes anew from the others.
LEMMA RemovedFromAll ==
  ASSUME NEW in \in SUBSET Groups
  PROVE  RemoveFromAll(in) = {}
<1> DEFINE N == Len(SortedGroups)
           g == [i \in 1..N |-> [x \in SUBSET Groups |-> Rem(x, SortedGroups[i])]]
           Def(f) == f = [i \in 0..N |-> IF i = 0 THEN in ELSE Rem(f[i - 1], SortedGroups[i])]
           left == CHOOSE f : Def(f)
           coming(i) == {All} \cup {SortedGroups[j] : j \in (i + 1)..N}
<1>1. N \in Nat \ {0} /\ SortedGroups[N] = All /\ All \in Groups
  BY SortedGroupsOrder, GroupAssumption
<1>2. /\ g \in [1..N -> [SUBSET Groups -> SUBSET Groups]]
      /\ \A x \in SUBSET Groups, i \in 1..N : g[i][x] = Rem(x, SortedGroups[i])
  BY <1>1 DEF Rem, ComputeAll
<1> HIDE DEF N, g
<1>3. PICK f \in [0..N -> SUBSET Groups] : f[0] = in /\ \A i \in 1..N : f[i] = g[i][f[i - 1]]
  <2>1. Recursions(SUBSET Groups, in, N, g) # {}
    BY <1>1, <1>2, RecursionExists
  <2>2. QED BY <2>1 DEF Recursions
<1>4. Def(f)
  <2>1. \A i \in 0..N : f[i] = IF i = 0 THEN in ELSE Rem(f[i - 1], SortedGroups[i])
    <3>1. ASSUME NEW i \in 0..N, i # 0 PROVE f[i] = Rem(f[i - 1], SortedGroups[i])
      <4>1. i - 1 \in 0..N /\ i \in 1..N
        BY <1>1, <3>1
      <4>2. f[i] = g[i][f[i - 1]] /\ f[i - 1] \in SUBSET Groups
        BY <1>3, <3>1, <4>1
      <4>3. QED BY <1>2, <4>1, <4>2
    <3>2. f[0] = in
      BY <1>1, <1>3
    <3>3. QED BY <3>1, <3>2
  <2>2. QED BY <1>3, <2>1
<1>5. Def(left)
  BY <1>4
<1>6. RemoveFromAll(in) = left[N]
  BY DEF RemoveFromAll, N
<1> HIDE DEF left
<1>7. left[0] = in /\ \A i \in 1..N : left[i] = Rem(left[i - 1], SortedGroups[i])
  BY <1>1, <1>5
<1>8. ASSUME NEW i \in Nat PROVE i < N => left[i] \subseteq coming(i)
  <2> DEFINE P == {n \in Nat : n < N => left[n] \subseteq coming(n)}
  <2>1. 0 \in P
    <3>1. Groups \subseteq coming(0)
      BY <1>1, SortedGroupsOrder DEF N
    <3>2. QED BY <1>7, <3>1
  <2>2. ASSUME NEW n \in Nat, n \in P PROVE n + 1 \in P
    <3>1. SUFFICES ASSUME n + 1 < N PROVE left[n + 1] \subseteq coming(n + 1)
      OBVIOUS
    <3>2. left[n] \subseteq coming(n)
      BY <1>1, <2>2, <3>1
    <3>3. n + 1 \in 1..N /\ n + 1 - 1 = n
      BY <1>1, <3>1
    <3>4. left[n + 1] = Rem(left[n], SortedGroups[n + 1])
      BY <1>7, <3>3
    <3>5. coming(n) \ {SortedGroups[n + 1]} \subseteq coming(n + 1)
      <4>1. ASSUME NEW j \in (n + 1)..N PROVE j = n + 1 \/ j \in (n + 1 + 1)..N
        BY <1>1
      <4>2. QED BY <4>1
    <3> HIDE DEF coming
    <3>6. All \in coming(n + 1)
      BY DEF coming
    <3>7. QED BY <3>2, <3>4, <3>5, <3>6 DEF Rem, ComputeAll
  <2>3. Nat \subseteq P
    <3> HIDE DEF P
    <3>1. QED BY <2>1, <2>2, SetInduction
  <2>4. QED BY <2>3
<1>9. left[N - 1] \subseteq {All}
  <2>1. left[N - 1] \subseteq coming(N - 1)
    BY <1>1, <1>8
  <2>2. coming(N - 1) \subseteq {All}
    <3>1. \A j \in (N - 1 + 1)..N : SortedGroups[j] = All
      BY <1>1
    <3>2. QED BY <3>1
  <2>3. QED BY <2>1, <2>2
<1>10. left[N] = Rem(left[N - 1], All)
  BY <1>1, <1>7
<1>11. QED BY <1>6, <1>9, <1>10 DEF Rem, ComputeAll

----------------------------------------------------------------------------
(* The inductive invariant *)

Entries ==
  {Alive(s) : s \in 0..(PING_THRESHOLD - 1)} \cup {Declared, Unknown} \cup
  {Pinging(s) : s \in 0..(FAIL_THRESHOLD - 1)} \cup {Registered(a) : a \in 0..FAIL_COOLDOWN}
Types ==
  /\ up \subseteq Nodes /\ notices \subseteq Nodes
  /\ entry \in [Nodes -> Entries]
  /\ joined \in [Nodes -> SUBSET Groups] /\ members \in [Nodes -> SUBSET Nodes]
  /\ news \in [Nodes -> {Nothing} \cup 0..(PING_THRESHOLD - 1)]
Invariant == Types /\ NeverStaleItself

\* What the two loops of checkAlive make of the entry of a node.
Seen(n) ==
  LET e == Aged(n, entry[n])
  IN IF Stale(e) THEN Pinging(0) ELSE IF Fails(e) THEN Declared ELSE e

LEMMA SeenIsEntry ==
  ASSUME Invariant, NEW n \in Nodes, ~(n = Subject /\ entry[n].state = "Pinging")
  PROVE  /\ Seen(n) \in Entries
         /\ n = Subject => Seen(n).state \notin {"Pinging", "DeclaredFailure"}
         /\ Seen(n).state = "Alive" => Seen(n).count \in 0..(PING_THRESHOLD - 1)
         /\ Seen(n) = Registered(0) => entry[n] = Registered(0)
<1> USE ThresholdAssumption DEF Alive, Pinging, Declared, Registered, Unknown
<1>1. entry[n] \in Entries /\ (n = Subject => entry[n].state \notin {"Pinging", "DeclaredFailure"})
  BY DEF Invariant, Types, NeverStaleItself
<1>2. CASE \E s \in 0..(PING_THRESHOLD - 1) : entry[n] = Alive(s)
  BY <1>1, <1>2 DEF Seen, Aged, Stale, Fails, Entries
<1>3. CASE \E s \in 0..(FAIL_THRESHOLD - 1) : entry[n] = Pinging(s)
  <2>1. PICK s \in 0..(FAIL_THRESHOLD - 1) : entry[n] = Pinging(s)
    BY <1>3
  <2>2. n # Subject /\ Aged(n, entry[n]) = Pinging(s + 1)
    BY <1>1, <2>1 DEF Aged
  <2>3. Seen(n) = IF s + 1 >= FAIL_THRESHOLD THEN Declared ELSE Pinging(s + 1)
    BY <2>2 DEF Seen, Stale, Fails
  <2>4. Seen(n) \in Entries /\ Seen(n).state \in {"Pinging", "DeclaredFailure"}
    BY <2>3 DEF Entries
  <2>5. QED BY <2>2, <2>4
<1>4. CASE \E a \in 0..FAIL_COOLDOWN : entry[n] = Registered(a)
  <2>1. PICK a \in 0..FAIL_COOLDOWN : entry[n] = Registered(a)
    BY <1>4
  <2>2. QED BY <1>1, <2>1, SMTT(30) DEF Seen, Aged, Stale, Fails, Entries
<1>5. CASE entry[n] \in {Declared, Unknown}
  BY <1>1, <1>5 DEF Seen, Aged, Stale, Fails, Entries
<1>6. QED BY <1>1, <1>2, <1>3, <1>4, <1>5 DEF Entries

\* What registerFailure does with an entry it is called for.
LEMMA RegisterKeeps ==
  ASSUME Invariant, NEW n \in Nodes, NEW e \in Entries, NEW others \in SUBSET Nodes, Register(n, e, others),
         n = Subject => e.state \notin {"Pinging", "DeclaredFailure"}
  PROVE  /\ entry' \in [Nodes -> Entries] /\ notices' \subseteq Nodes
         /\ joined' \in [Nodes -> SUBSET Groups] /\ NeverStaleItself'
<1> USE DEF Invariant, Types
<1>1. CASE e.state \in {"unknown", "RegisteredFailure"}
  BY <1>1, GroupAssumption DEF Register, NeverStaleItself
<1>2. CASE e.state \notin {"unknown", "RegisteredFailure"}
  <2>1. /\ entry' = [entry EXCEPT ![n] = Registered(0)]
        /\ notices' = others \cup (Recipients(n) \ {n})
        /\ joined' = [joined EXCEPT ![n] = RemoveFromAll(joined[n])]
    BY <1>2 DEF Register
  <2>2. Registered(0) \in Entries /\ Registered(0).state = "RegisteredFailure"
    BY ThresholdAssumption DEF Entries, Registered
  <2>3. RemoveFromAll(joined[n]) = {}
    BY RemovedFromAll
  <2>4. Recipients(n) \subseteq Nodes
    BY GroupAssumption DEF Recipients
  <2>5. QED BY <2>1, <2>2, <2>3, <2>4, GroupAssumption DEF NeverStaleItself
<1>3. QED BY <1>1, <1>2

LEMMA InitInvariant == ASSUME Init PROVE Invariant
<1> USE GroupAssumption, ThresholdAssumption DEF Init
<1>1. Alive(0) \in Entries /\ Unknown \in Entries /\ Alive(0).state = "Alive"
  BY DEF Entries, Alive
<1>2. Types
  BY <1>1 DEF Types
<1>3. NeverStaleItself
  BY <1>1 DEF NeverStaleItself
<1>4. QED BY <1>2, <1>3 DEF Invariant

\* checkAlive: its own entry is not stale, since nothing counts it up.
LEMMA CheckAliveKeeps ==
  ASSUME Invariant, NEW n \in Nodes, CheckAlive(n)
  PROVE  Invariant' /\ (entry'[n] = Registered(0) /\ entry'[n] # entry[n] => joined'[n] = {})
                    /\ \A m \in Nodes \ {n} : entry'[m] = entry[m]
<1> USE DEF Invariant, Types
<1>1. /\ Seen(n) \in Entries
      /\ n = Subject => Seen(n).state \notin {"Pinging", "DeclaredFailure"}
      /\ Seen(n).state = "Alive" => Seen(n).count \in 0..(PING_THRESHOLD - 1)
      /\ Seen(n) = Registered(0) => entry[n] = Registered(0)
  BY SeenIsEntry DEF CheckAlive
<1>2. /\ UNCHANGED <<up, members, crashes>>
      /\ \/ /\ Seen(n).state = "Alive" /\ Recipients(n) # {}
            /\ \E S \in SUBSET Listeners(n) : Gossip(S, Seen(n).count)
         \/ UNCHANGED news
  BY DEF CheckAlive, Seen
<1>3. \/ entry' = [entry EXCEPT ![n] = Seen(n)] /\ UNCHANGED joined /\ (notices' = notices \/ notices' = notices \cup Recipients(n))
      \/ Seen(n) = Declared /\ Register(n, Seen(n), notices \cup (Recipients(n) \ {n}))
  BY DEF CheckAlive, Seen
<1>4. Recipients(n) \subseteq Nodes
  BY GroupAssumption DEF Recipients
<1>5. news' \in [Nodes -> {Nothing} \cup 0..(PING_THRESHOLD - 1)]
  BY <1>1, <1>2 DEF Gossip
<1>6. CASE entry' = [entry EXCEPT ![n] = Seen(n)] /\ UNCHANGED joined /\ (notices' = notices \/ notices' = notices \cup Recipients(n))
  BY <1>1, <1>2, <1>4, <1>5, <1>6, GroupAssumption DEF NeverStaleItself
<1>7. CASE Seen(n) = Declared /\ Register(n, Seen(n), notices \cup (Recipients(n) \ {n}))
  <2>1. notices \cup (Recipients(n) \ {n}) \in SUBSET Nodes
    BY <1>4
  <2>2. /\ entry' \in [Nodes -> Entries] /\ notices' \subseteq Nodes
        /\ joined' \in [Nodes -> SUBSET Groups] /\ NeverStaleItself'
    BY <1>1, <1>7, <2>1, RegisterKeeps
  <2>3. entry' = [entry EXCEPT ![n] = Registered(0)] /\ joined' = [joined EXCEPT ![n] = RemoveFromAll(joined[n])]
    BY <1>7 DEF Register, Declared
  <2>4. RemoveFromAll(joined[n]) = {}
    BY RemovedFromAll
  <2>5. QED BY <1>2, <1>5, <2>2, <2>3, <2>4
<1>8. QED BY <1>3, <1>6, <1>7

LEMMA RegisterFailureKeeps ==
  ASSUME Invariant, NEW n \in Nodes, RegisterFailure(n)
  PROVE  Invariant' /\ (entry'[n] = Registered(0) /\ entry'[n] # entry[n] => joined'[n] = {})
                    /\ \A m \in Nodes \ {n} : entry'[m] = entry[m]
<1> USE DEF Invariant, Types
<1>1. Register(n, entry[n], notices \ {n}) /\ UNCHANGED <<up, members, news, crashes>>
  BY DEF RegisterFailure
<1>2. entry[n] \in Entries /\ notices \ {n} \in SUBSET Nodes
  OBVIOUS
<1>3. n = Subject => entry[n].state \notin {"Pinging", "DeclaredFailure"}
  BY DEF NeverStaleItself
<1>4. /\ entry' \in [Nodes -> Entries] /\ notices' \subseteq Nodes
      /\ joined' \in [Nodes -> SUBSET Groups] /\ NeverStaleItself'
  BY <1>1, <1>2, <1>3, RegisterKeeps
<1>5. \/ entry' = [entry EXCEPT ![n] = entry[n]]
      \/ entry' = [entry EXCEPT ![n] = Registered(0)] /\ joined' = [joined EXCEPT ![n] = RemoveFromAll(joined[n])]
  BY <1>1 DEF Register
<1>6. RemoveFromAll(joined[n]) = {}
  BY RemovedFromAll
<1>7. QED BY <1>1, <1>4, <1>5, <1>6

\* receiveStatus takes the lower staleness, or starts from the one it hears.
LEMMA ReceiveStatusKeeps ==
  ASSUME Invariant, NEW n \in Nodes, ReceiveStatus(n, news[n])
  PROVE  Invariant' /\ \A m \in Nodes : entry'[m] # entry[m] => entry'[m].state = "Alive"
<1> USE DEF Invariant, Types
<1> DEFINE e == CASE entry[n].state = "Alive" -> Alive(Min({news[n], entry[n].count}))
                  [] entry[n].state \in {"Pinging", "unknown"} -> Alive(news[n])
                  [] OTHER -> entry[n]
<1>1. /\ UNCHANGED <<up, joined, members, notices, reconfs, crashes>>
      /\ news' = [news EXCEPT ![n] = Nothing] /\ entry' = [entry EXCEPT ![n] = e]
      /\ news[n] \in 0..(PING_THRESHOLD - 1)
  BY DEF ReceiveStatus
<1>2. entry[n].state = "Alive" => entry[n].count \in 0..(PING_THRESHOLD - 1)
  BY DEF Entries, Alive, Pinging, Declared, Registered, Unknown
<1>3. entry[n].state = "Alive" => Min({news[n], entry[n].count}) \in 0..(PING_THRESHOLD - 1)
  <2>1. \A i, j \in Nat : Min({i, j}) \in {i, j}
    BY DEF Min
  <2>2. QED BY <1>1, <1>2, <2>1, ThresholdAssumption
<1>4. e \in Entries /\ (e = entry[n] \/ e.state = "Alive")
  BY <1>1, <1>3 DEF Entries, Alive
<1> HIDE DEF e
<1>5. Types'
  BY <1>1, <1>4
<1>6. QED BY <1>1, <1>4, <1>5, GroupAssumption DEF NeverStaleItself

LEMMA ConfirmKeeps ==
  ASSUME Invariant, NEW n \in Nodes, Confirm(n)
  PROVE  Invariant' /\ \A m \in Nodes : entry'[m] # entry[m] => entry'[m].state = "Alive"
<1>1. Alive(0) \in Entries /\ Alive(0).state = "Alive"
  BY ThresholdAssumption DEF Entries, Alive
<1>2. QED BY <1>1, GroupAssumption DEF Confirm, Invariant, Types, NeverStaleItself

LEMMA CrashKeeps ==
  ASSUME Invariant, NEW n \in Nodes, Crash(n)
  PROVE  Invariant' /\ \A m \in Nodes : entry'[m] # entry[m] => entry'[m].state = "unknown"
<1>1. Unknown \in Entries /\ Unknown.state = "unknown"
  BY DEF Entries, Unknown
<1>2. QED BY <1>1, GroupAssumption DEF Crash, Invariant, Types, NeverStaleItself

LEMMA RestartKeeps ==
  ASSUME Invariant, Restart
  PROVE  Invariant' /\ \A m \in Nodes : entry'[m] # entry[m] => entry'[m].state = "Alive"
<1>1. Alive(0) \in Entries /\ Alive(0).state = "Alive"
  BY ThresholdAssumption DEF Entries, Alive
<1>2. QED BY <1>1, GroupAssumption DEF Restart, Invariant, Types, NeverStaleItself

\* The steps that change no entry: messages that are lost, and the groups.
LEMMA OthersKeep ==
  ASSUME Invariant,
         \/ \E n \in Nodes : LoseNotice(n) \/ Add(n) \/ Lose(n)
         \/ \E n, p \in Nodes : DropPeer(n, p)
         \/ UNCHANGED hbVars
  PROVE  Invariant' /\ entry' = entry
<1> USE DEF Invariant, Types, NeverStaleItself
<1>1. CASE \E n \in Nodes : LoseNotice(n)
  BY <1>1 DEF LoseNotice
<1>2. CASE \E n \in Nodes : Add(n)
  <2>1. ComputeAll(Groups \ {All}) \subseteq Groups
    BY GroupAssumption DEF ComputeAll
  <2>2. PICK n \in Nodes : Add(n)
    BY <1>2
  <2>3. /\ UNCHANGED <<up, entry, news, notices>>
        /\ joined' = [joined EXCEPT ![n] = ComputeAll(Groups \ {All})]
        /\ members' = [members EXCEPT ![n] = up \ {Subject}]
    BY <2>2 DEF Add
  <2>4. joined' \in [Nodes -> SUBSET Groups]
    BY <2>1, <2>3
  <2>5. members' \in [Nodes -> SUBSET Nodes]
    BY <2>3
  <2>6. QED BY <2>3, <2>4, <2>5
<1>3. CASE \E n \in Nodes : Lose(n)
  BY <1>3 DEF Lose
<1>4. CASE \E n, p \in Nodes : DropPeer(n, p)
  BY <1>4 DEF DropPeer
<1>5. CASE UNCHANGED hbVars
  BY <1>5 DEF hbVars
<1>6. QED BY <1>1, <1>2, <1>3, <1>4, <1>5

\* Every step keeps the invariant, and registers a failure only with a removal.
Removes(n) == entry[n] # entry'[n] /\ entry'[n] = Registered(0) => joined'[n] = {}
LEMMA StepKeeps ==
  ASSUME Invariant, [Next]_hbVars
  PROVE  Invariant' /\ \A n \in Nodes : Removes(n)
<1>1. Registered(0).state = "RegisteredFailure"
  BY DEF Registered
<1>2. CASE \E n \in Nodes : CheckAlive(n) \/ RegisterFailure(n)
  BY <1>2, CheckAliveKeeps, RegisterFailureKeeps DEF Removes
<1>3. CASE \E n \in Nodes : ReceiveStatus(n, news[n]) \/ Confirm(n) \/ Crash(n)
  BY <1>1, <1>3, ReceiveStatusKeeps, ConfirmKeeps, CrashKeeps DEF Removes
<1>4. CASE Restart
  BY <1>1, <1>4, RestartKeeps DEF Removes
<1>5. CASE \/ \E n \in Nodes : LoseNotice(n) \/ Add(n) \/ Lose(n)
           \/ \E n, p \in Nodes : DropPeer(n, p)
           \/ UNCHANGED hbVars
  BY <1>5, OthersKeep DEF Removes
<1>6. QED BY <1>2, <1>3, <1>4, <1>5 DEF Next

LEMMA InvariantHolds == Spec => []Invariant
BY InitInvariant, StepKeeps, PTL DEF Spec

----------------------------------------------------------------------------
(* The theorems *)

\* The entries a node can have: no staleness reaches its threshold, however
\* gossip, pings, notices and crashes interleave.
THEOREM HeartbeatTypeCorrect == Spec => []HeartbeatTypeOK
<1>1. ASSUME Invariant PROVE HeartbeatTypeOK
  BY <1>1 DEF Invariant, Types, HeartbeatTypeOK, Entries
<1>2. QED BY <1>1, InvariantHolds, PTL

\* A node never suspects itself.
THEOREM NeverSuspectsItself == Spec => []NeverStaleItself
<1>1. Invariant => NeverStaleItself
  BY DEF Invariant
<1>2. QED BY <1>1, InvariantHolds, PTL

\* A node that registers a failure has the failed node in no group afterwards.
THEOREM RegistrationAlwaysRemoves == Spec => RegistrationRemoves
<1>1. ASSUME Invariant, [Next]_hbVars
      PROVE  [\A n \in Nodes : entry[n] # entry'[n] /\ entry'[n] = Registered(0) => joined'[n] = {}]_hbVars
  BY <1>1, StepKeeps DEF Removes
<1>2. QED BY <1>1, InvariantHolds, PTL DEF Spec, RegistrationRemoves
=============================================================================
