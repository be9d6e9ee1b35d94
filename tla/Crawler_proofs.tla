--------------------------- MODULE Crawler_proofs ---------------------------
(* What the crawl cycle promises, for any nodes, pages, limits and starts.   *)
EXTENDS Crawler, FiniteSetTheorems, SequenceTheorems, WellFoundedInduction, TLAPS

----------------------------------------------------------------------------
(* Induction and recursion *)

\* A statement about numbers, as the set of those it holds for, holds for all
\* when it holds for 0 and from each for the next.
LEMMA SetInduction ==
  ASSUME NEW P, 0 \in P, \A n \in Nat : n \in P => n + 1 \in P
  PROVE  Nat \subseteq P
<1> DEFINE T == {n \in Nat : n \notin P}
<1>1. SUFFICES ASSUME T # {} PROVE FALSE
  OBVIOUS
<1>2. T \subseteq Nat
  OBVIOUS
<1> HIDE DEF T
<1>3. PICK x \in T : \A y \in T : ~(<<y, x>> \in OpToRel(<, Nat))
  BY <1>1, <1>2, NatLessThanWellFounded, WFMin, Zenon
<1> USE DEF T
<1>4. x \in Nat /\ x \notin P /\ \A y \in T : ~(y < x)
  BY <1>3 DEF OpToRel
<1>5. x # 0 /\ x - 1 \in Nat /\ x - 1 < x
  BY <1>4
<1>6. x - 1 \in P
  BY <1>4, <1>5
<1>7. (x - 1) + 1 \in P
  BY <1>5, <1>6
<1>8. QED BY <1>4, <1>5, <1>7

\* The functions that start with a and go on by the steps g.
Recursions(S, a, N, g) == {f \in [0..N -> S] : f[0] = a /\ \A i \in 1..N : f[i] = g[i][f[i - 1]]}

\* A function can be defined by recursion on the numbers up to a bound.
LEMMA RecursionExists ==
  ASSUME NEW S, NEW a \in S, NEW N \in Nat, NEW g \in [1..N -> [S -> S]]
  PROVE  Recursions(S, a, N, g) # {}
<1> DEFINE Good(n, f) == f[0] = a /\ \A i \in 1..n : f[i] = g[i][f[i - 1]]
           P == {n \in Nat : n <= N => \E f \in [0..n -> S] : Good(n, f)}
<1>1. 0 \in P
  <2>1. [i \in 0..0 |-> a] \in [0..0 -> S] /\ Good(0, [i \in 0..0 |-> a])
    OBVIOUS
  <2>2. QED BY <2>1
<1>2. ASSUME NEW n \in Nat, n \in P PROVE n + 1 \in P
  <2>1. SUFFICES ASSUME n + 1 <= N PROVE \E f \in [0..(n + 1) -> S] : Good(n + 1, f)
    OBVIOUS
  <2>2. PICK f \in [0..n -> S] : Good(n, f)
    BY <1>2, <2>1
  <2> DEFINE h == [i \in 0..(n + 1) |-> IF i = n + 1 THEN g[n + 1][f[n]] ELSE f[i]]
  <2>3. n \in 0..n /\ n + 1 \in 1..N /\ f[n] \in S
    BY <2>1, <2>2
  <2>4. g[n + 1][f[n]] \in S
    BY <2>3
  <2>5. h \in [0..(n + 1) -> S]
    BY <2>2, <2>4
  <2>6. h[0] = a
    BY <2>2
  <2>7. ASSUME NEW i \in 1..(n + 1) PROVE h[i] = g[i][h[i - 1]]
    <3>1. CASE i = n + 1
      <4>1. h[i] = g[n + 1][f[n]] /\ h[i - 1] = f[n]
        BY <3>1
      <4> HIDE DEF h
      <4>2. QED BY <3>1, <4>1
    <3>2. CASE i # n + 1
      <4>1. i \in 1..n /\ i - 1 \in 0..n /\ h[i] = f[i] /\ h[i - 1] = f[i - 1]
        BY <3>2
      <4> HIDE DEF h
      <4>2. QED BY <2>2, <4>1
    <3>3. QED BY <3>1, <3>2
  <2> HIDE DEF h
  <2>8. QED BY <2>5, <2>6, <2>7
<1>3. N \in P
  <2>1. Nat \subseteq P
    <3> HIDE DEF P
    <3>1. QED BY <1>1, <1>2, SetInduction
  <2>2. QED BY <2>1
<1>4. QED BY <1>3 DEF Recursions

----------------------------------------------------------------------------
(* Sequences of URLs *)

\* The positions of a sequence that hold one of the URLs U.
At(urls, U) == {i \in 1..Len(urls) : urls[i] \in U}
Count(urls, u) == Cardinality(At(urls, {u}))

LEMMA AtFinite ==
  ASSUME NEW urls \in Seq(URLs), NEW U
  PROVE  IsFiniteSet(At(urls, U)) /\ Cardinality(At(urls, U)) \in Nat
<1>1. Len(urls) \in Nat
  BY LenProperties
<1>2. IsFiniteSet(1..Len(urls)) /\ At(urls, U) \subseteq 1..Len(urls)
  BY <1>1, FS_Interval DEF At
<1>3. QED BY <1>2, FS_Subset, FS_CardinalityType

\* A URL appended is at one more position, and no other is.
LEMMA AppendCounts ==
  ASSUME NEW urls \in Seq(URLs), NEW u \in URLs, NEW U
  PROVE  Cardinality(At(Append(urls, u), U)) =
           IF u \in U THEN Cardinality(At(urls, U)) + 1 ELSE Cardinality(At(urls, U))
<1>1. /\ Len(urls) \in Nat /\ Len(Append(urls, u)) = Len(urls) + 1
      /\ \A i \in 1..Len(urls) : Append(urls, u)[i] = urls[i]
      /\ Append(urls, u)[Len(urls) + 1] = u
  BY LenProperties, AppendProperties
<1>2. 1..(Len(urls) + 1) = 1..Len(urls) \cup {Len(urls) + 1}
  BY <1>1
<1>3. CASE u \in U
  <2>1. At(Append(urls, u), U) = At(urls, U) \cup {Len(urls) + 1}
    BY <1>1, <1>2, <1>3 DEF At
  <2>2. Len(urls) + 1 \notin At(urls, U)
    BY <1>1 DEF At
  <2>3. QED BY <1>3, <2>1, <2>2, AtFinite, FS_AddElement
<1>4. CASE u \notin U
  BY <1>1, <1>2, <1>4 DEF At
<1>5. QED BY <1>3, <1>4

\* Without its head a sequence has every URL as often as before, but for the
\* head: the positions move down by one.
LEMMA TailCounts ==
  ASSUME NEW urls \in Seq(URLs), urls # <<>>, NEW U
  PROVE  Cardinality(At(urls, U)) =
           IF Head(urls) \in U THEN Cardinality(At(Tail(urls), U)) + 1 ELSE Cardinality(At(Tail(urls), U))
<1> DEFINE down == [i \in At(urls, U) \ {1} |-> i - 1]
<1>1. /\ Len(urls) \in Nat \ {0} /\ Tail(urls) \in Seq(URLs) /\ Len(Tail(urls)) = Len(urls) - 1
      /\ \A i \in 1..Len(Tail(urls)) : Tail(urls)[i] = urls[i + 1]
      /\ Head(urls) = urls[1]
  BY LenProperties, EmptySeq, HeadTailProperties
<1>2. ExistsBijection(At(urls, U) \ {1}, At(Tail(urls), U))
  <2>1. \A i \in At(urls, U) \ {1} : i - 1 \in At(Tail(urls), U)
    BY <1>1 DEF At
  <2>2. \A j \in At(Tail(urls), U) : j + 1 \in At(urls, U) \ {1} /\ down[j + 1] = j
    BY <1>1 DEF At
  <2>3. \A i, j \in At(urls, U) \ {1} : down[i] = down[j] => i = j
    BY <1>1 DEF At
  <2>4. down \in Bijection(At(urls, U) \ {1}, At(Tail(urls), U))
    BY <2>1, <2>2, <2>3 DEF Bijection, Injection, Surjection, IsInjective
  <2>5. QED BY <2>4 DEF ExistsBijection
<1>3. Cardinality(At(urls, U) \ {1}) = Cardinality(At(Tail(urls), U))
  BY <1>1, <1>2, AtFinite, FS_RemoveElement, FS_Subset, FS_Bijection
<1>4. 1 \in At(urls, U) <=> Head(urls) \in U
  BY <1>1 DEF At
<1>5. CASE Head(urls) \in U
  <2>1. Cardinality(At(urls, U) \ {1}) = Cardinality(At(urls, U)) - 1
    BY <1>4, <1>5, AtFinite, FS_RemoveElement
  <2>2. QED BY <1>3, <1>5, <2>1, AtFinite
<1>6. CASE Head(urls) \notin U
  <2>1. At(urls, U) \ {1} = At(urls, U)
    BY <1>4, <1>6
  <2>2. QED BY <1>3, <1>6, <2>1
<1>7. QED BY <1>5, <1>6

----------------------------------------------------------------------------
(* The operations of the queues *)

\* The crawl queues a node may have: not too long, of its own URLs, with the
\* counts of their domains.
In(d) == {u \in URLs : Domain[u] = d}
Own(n) == {u \in URLs : Home[u] = n}
Fine(n) ==
  {q \in Queues :
     /\ Len(q.urls) <= 2 * MaxQueueLen
     /\ \A i \in 1..Len(q.urls) : Home[q.urls[i]] = n
     /\ \A d \in Domains : q.domains[d] = Cardinality(At(q.urls, In(d)))}

LEMMA EmptyIsFine ==
  ASSUME NEW n \in Nodes
  PROVE  /\ EmptyQueue \in Fine(n) /\ EmptyQueue.urls = <<>>
         /\ \A U : At(<<>>, U) = {} /\ Cardinality(At(<<>>, U)) = 0
<1>1. \A U : At(<<>>, U) = {} /\ Cardinality(At(<<>>, U)) = 0
  BY FS_EmptySet DEF At
<1>2. EmptyQueue \in Queues /\ EmptyQueue.urls = <<>> /\ Len(EmptyQueue.urls) = 0
  BY DEF EmptyQueue, Queues
<1>3. \A d \in Domains : EmptyQueue.domains[d] = 0
  BY DEF EmptyQueue
<1>4. 0 <= 2 * MaxQueueLen
  BY Assumptions
<1>5. QED BY <1>1, <1>2, <1>3, <1>4 DEF Fine

\* Offering a URL to the queue of its node keeps the counts of its domain, and
\* takes it into the queue and the seen set together.
LEMMA OfferKeeps ==
  ASSUME NEW n \in Nodes, NEW u \in Own(n), NEW acc \in [queue : Fine(n), seen : SUBSET Own(n)]
  PROVE  \/ Offer(acc, u) = acc
         \/ /\ u \notin acc.seen
            /\ Offer(acc, u).queue \in Fine(n)
            /\ Offer(acc, u) = [queue |-> Offer(acc, u).queue, seen |-> acc.seen \cup {u}]
            /\ Offer(acc, u).queue.urls = Append(acc.queue.urls, u)
<1> DEFINE q == acc.queue
           s == acc.seen
           new == [urls |-> Append(q.urls, u), domains |-> [q.domains EXCEPT ![Domain[u]] = @ + 1]]
<1>1. q \in Fine(n) /\ s \in SUBSET Own(n)
  OBVIOUS
<1>2. Offer(acc, u) = IF u \in s \/ ~Admits(q, u) THEN acc ELSE [queue |-> new, seen |-> s \cup {u}]
  BY DEF Offer
<1> HIDE DEF q, s
<1>3. /\ q.urls \in Seq(URLs) /\ q.domains \in [Domains -> Int] /\ Len(q.urls) <= 2 * MaxQueueLen
      /\ \A i \in 1..Len(q.urls) : Home[q.urls[i]] = n
      /\ \A d \in Domains : q.domains[d] = Cardinality(At(q.urls, In(d)))
  BY <1>1 DEF Fine, Queues
<1>4. u \in URLs /\ Home[u] = n /\ Domain[u] \in Domains
  BY DEF Own, Domains
<1>5. new \in Queues
  BY <1>3, <1>4, AppendProperties DEF Queues
<1>6. \A i \in 1..Len(Append(q.urls, u)) : Home[Append(q.urls, u)[i]] = n
  <2>1. /\ Len(Append(q.urls, u)) = Len(q.urls) + 1 /\ Len(q.urls) \in Nat
        /\ \A i \in 1..Len(q.urls) : Append(q.urls, u)[i] = q.urls[i]
        /\ Append(q.urls, u)[Len(q.urls) + 1] = u
    BY <1>3, <1>4, AppendProperties, LenProperties
  <2>2. \A i \in 1..(Len(q.urls) + 1) : i \in 1..Len(q.urls) \/ i = Len(q.urls) + 1
    BY <2>1
  <2>3. QED BY <1>3, <1>4, <2>1, <2>2
<1>7. ASSUME NEW d \in Domains
      PROVE  new.domains[d] = Cardinality(At(Append(q.urls, u), In(d)))
  <2>1. new.domains[d] = IF d = Domain[u] THEN q.domains[d] + 1 ELSE q.domains[d]
    BY <1>3, <1>4
  <2>2. u \in In(d) <=> d = Domain[u]
    BY <1>4 DEF In
  <2> HIDE DEF new
  <2>3. QED BY <1>3, <1>4, <2>1, <2>2, AppendCounts
<1>8. Admits(q, u) => new \in Fine(n)
  <2>1. SUFFICES ASSUME Admits(q, u) PROVE new \in Fine(n)
    OBVIOUS
  <2>2. Len(q.urls) \in Nat /\ MaxQueueLen \in Nat /\ Len(new.urls) = Len(q.urls) + 1
    BY <1>3, <1>4, LenProperties, AppendProperties, Assumptions
  <2>3. Len(q.urls) < MaxQueueLen \/ Len(q.urls) < 2 * MaxQueueLen
    BY <2>1 DEF Admits
  <2>4. Len(new.urls) <= 2 * MaxQueueLen
    BY <2>2, <2>3
  <2>5. QED BY <1>5, <1>6, <1>7, <2>4 DEF Fine
<1>9. new.urls = Append(q.urls, u)
  OBVIOUS
<1> HIDE DEF new
<1>10. CASE u \in s \/ ~Admits(q, u)
  BY <1>2, <1>10
<1>11. CASE ~(u \in s \/ ~Admits(q, u))
  <2>1. Offer(acc, u) = [queue |-> new, seen |-> s \cup {u}] /\ u \notin s
    BY <1>2, <1>11
  <2>2. Offer(acc, u).queue = new
    BY <2>1
  <2>3. QED BY <1>8, <1>9, <1>11, <2>1, <2>2 DEF q, s
<1>12. QED BY <1>10, <1>11 DEF q, s

\* What holds of the queue and the seen set at first, and still does after
\* every URL offered, holds after updateQueue.
LEMMA UpdateQueueKeeps ==
  ASSUME NEW S, NEW q, NEW known, NEW urls \in Seq(URLs), [queue |-> q, seen |-> known] \in S,
         \A acc \in S, i \in 1..Len(urls) : Offer(acc, urls[i]) \in S
  PROVE  UpdateQueue(q, known, urls) \in S
<1> DEFINE N == Len(urls)
           a == [queue |-> q, seen |-> known]
           g == [i \in 1..N |-> [x \in S |-> Offer(x, urls[i])]]
           Def(f) == f = [i \in 0..N |-> IF i = 0 THEN a ELSE Offer(f[i - 1], urls[i])]
           after == CHOOSE f : Def(f)
<1>1. N \in Nat /\ a \in S
  BY LenProperties
<1>2. /\ g \in [1..N -> [S -> S]]
      /\ \A x \in S, i \in 1..N : g[i][x] = Offer(x, urls[i])
  OBVIOUS
<1>3. UpdateQueue(q, known, urls) = after[N]
  BY DEF UpdateQueue
<1> HIDE DEF N, g, a
<1>4. PICK f \in [0..N -> S] : f[0] = a /\ \A i \in 1..N : f[i] = g[i][f[i - 1]]
  <2>1. Recursions(S, a, N, g) # {}
    BY <1>1, <1>2, RecursionExists
  <2>2. QED BY <2>1 DEF Recursions
<1>5. Def(f)
  <2>1. ASSUME NEW i \in 0..N, i # 0 PROVE f[i] = Offer(f[i - 1], urls[i])
    <3>1. i - 1 \in 0..N /\ i \in 1..N
      BY <1>1, <2>1
    <3>2. f[i] = g[i][f[i - 1]] /\ f[i - 1] \in S
      BY <1>4, <3>1
    <3>3. QED BY <1>2, <3>1, <3>2
  <2>2. \A i \in 0..N : f[i] = IF i = 0 THEN a ELSE Offer(f[i - 1], urls[i])
    BY <1>4, <2>1
  <2>3. QED BY <1>4, <2>2
<1>6. Def(after)
  BY <1>5
<1> HIDE DEF after
<1>7. after[0] = a /\ \A i \in 1..N : i - 1 \in 0..N /\ after[i] = Offer(after[i - 1], urls[i])
  BY <1>1, <1>6
<1> DEFINE P == {n \in Nat : n <= N => after[n] \in S}
<1>8. 0 \in P
  BY <1>1, <1>7
<1>9. ASSUME NEW n \in Nat, n \in P PROVE n + 1 \in P
  <2>1. SUFFICES ASSUME n + 1 <= N PROVE after[n + 1] \in S
    OBVIOUS
  <2>2. after[n] \in S /\ n + 1 \in 1..N /\ (n + 1) - 1 = n
    BY <1>1, <1>9, <2>1
  <2>3. after[n + 1] = Offer(after[n], urls[n + 1])
    BY <1>7, <2>2
  <2>4. QED BY <2>2, <2>3 DEF N
<1>10. N \in P
  <2> HIDE DEF P
  <2>1. Nat \subseteq P
    BY <1>8, <1>9, SetInduction
  <2>2. QED BY <1>1, <2>1
<1>11. QED BY <1>1, <1>3, <1>10

\* The batches of a sequence of URLs: each is sent to the node of its URLs.
Messages == {b \in [to : Nodes, urls : Seq(URLs)] : \A i \in 1..Len(b.urls) : b.urls[i] \in Own(b.to)}

LEMMA BatchesAreMessages ==
  ASSUME NEW urls \in Seq(URLs)
  PROVE  Batches(urls) \subseteq Messages
<1>1. ASSUME NEW n \in Nodes
      PROVE  Batch(urls, n) \in Seq(URLs) /\ \A i \in 1..Len(Batch(urls, n)) : Batch(urls, n)[i] \in Own(n)
  <2> DEFINE N == Len(urls)
             S == Seq(Own(n))
             Step(x, i) == IF Home[urls[i]] = n THEN Append(x, urls[i]) ELSE x
             g == [i \in 1..N |-> [x \in S |-> Step(x, i)]]
             Def(f) == f = [i \in 0..N |-> IF i = 0 THEN <<>>
                                           ELSE IF Home[urls[i]] = n THEN Append(f[i - 1], urls[i]) ELSE f[i - 1]]
             part == CHOOSE f : Def(f)
  <2>1. N \in Nat /\ <<>> \in S /\ \A i \in 1..N : urls[i] \in URLs
    BY LenProperties, ElementOfSeq
  <2>2. \A x \in S, i \in 1..N : Step(x, i) \in S
    BY <2>1, AppendProperties DEF Own
  <2>3. /\ g \in [1..N -> [S -> S]]
        /\ \A x \in S, i \in 1..N : g[i][x] = Step(x, i)
    <3> HIDE DEF S, Step
    <3>1. QED BY <2>2
  <2>4. Batch(urls, n) = part[N]
    BY DEF Batch
  <2> HIDE DEF N, g, S
  <2>5. PICK f \in [0..N -> S] : f[0] = <<>> /\ \A i \in 1..N : f[i] = g[i][f[i - 1]]
    <3>1. Recursions(S, <<>>, N, g) # {}
      BY <2>1, <2>3, RecursionExists
    <3>2. QED BY <3>1 DEF Recursions
  <2>6. Def(f)
    <3>1. ASSUME NEW i \in 0..N, i # 0 PROVE f[i] = Step(f[i - 1], i)
      <4>1. i - 1 \in 0..N /\ i \in 1..N
        BY <2>1, <3>1
      <4>2. f[i] = g[i][f[i - 1]] /\ f[i - 1] \in S
        BY <2>5, <4>1
      <4> HIDE DEF Step
      <4>3. QED BY <2>3, <4>1, <4>2
    <3>2. QED BY <2>5, <3>1
  <2>7. Def(part)
    BY <2>6
  <2> HIDE DEF part
  <2>8. part[0] = <<>> /\ \A i \in 1..N : i - 1 \in 0..N /\ part[i] = Step(part[i - 1], i)
    <3>1. ASSUME NEW i \in 1..N PROVE i \in 0..N /\ i - 1 \in 0..N /\ i # 0
      BY <2>1
    <3>2. \A i \in 0..N : part[i] = IF i = 0 THEN <<>> ELSE Step(part[i - 1], i)
      BY <2>7
    <3> HIDE DEF Step
    <3>3. QED BY <2>1, <3>1, <3>2
  <2> DEFINE P == {m \in Nat : m <= N => part[m] \in S}
  <2>9. 0 \in P
    BY <2>1, <2>8
  <2>10. ASSUME NEW m \in Nat, m \in P PROVE m + 1 \in P
    <3>1. SUFFICES ASSUME m + 1 <= N PROVE part[m + 1] \in S
      OBVIOUS
    <3>2. part[m] \in S /\ m + 1 \in 1..N /\ (m + 1) - 1 = m
      BY <2>1, <2>10, <3>1
    <3> HIDE DEF Step
    <3>3. part[m + 1] = Step(part[m], m + 1)
      BY <2>8, <3>2
    <3>4. QED BY <2>2, <3>2, <3>3
  <2>11. N \in P
    <3> HIDE DEF P
    <3>1. Nat \subseteq P
      BY <2>9, <2>10, SetInduction
    <3>2. QED BY <2>1, <3>1
  <2>12. Batch(urls, n) \in Seq(Own(n))
    BY <2>1, <2>4, <2>11 DEF S
  <2> HIDE DEF P
  <2>13. QED BY <2>12, ElementOfSeq, LenProperties, SeqDef DEF Own
<1>2. {Home[u] : u \in ToSet(urls)} \subseteq Nodes
  BY Assumptions, ElementOfSeq, LenProperties DEF ToSet
<1>3. QED BY <1>1, <1>2 DEF Batches, Messages

\* Taking the head of a queue.
LEMMA ShiftKeeps ==
  ASSUME NEW n \in Nodes, NEW q \in Fine(n), q.urls # <<>>
  PROVE  Shift("crawl", q) \in Fine(n) /\ Shift("crawl", q).urls = Tail(q.urls) /\ Head(q.urls) \in Own(n)
<1> DEFINE u == Head(q.urls)
           new == Shift("crawl", q)
<1>1. /\ q.urls \in Seq(URLs) /\ q.domains \in [Domains -> Int] /\ Len(q.urls) <= 2 * MaxQueueLen
      /\ \A i \in 1..Len(q.urls) : Home[q.urls[i]] = n
      /\ \A d \in Domains : q.domains[d] = Cardinality(At(q.urls, In(d)))
  BY DEF Fine, Queues
<1>2. /\ Len(q.urls) \in Nat \ {0} /\ Tail(q.urls) \in Seq(URLs) /\ Len(Tail(q.urls)) = Len(q.urls) - 1
      /\ \A i \in 1..Len(Tail(q.urls)) : Tail(q.urls)[i] = q.urls[i + 1]
      /\ u = q.urls[1] /\ u \in URLs
  BY <1>1, LenProperties, EmptySeq, HeadTailProperties
<1>3. Home[u] = n /\ Domain[u] \in Domains
  BY <1>1, <1>2 DEF Domains
<1>4. new = [urls |-> Tail(q.urls), domains |-> [q.domains EXCEPT ![Domain[u]] = @ - 1]]
  BY DEF Shift
<1> HIDE DEF new, u
<1>5. new \in Queues /\ new.urls = Tail(q.urls)
  BY <1>1, <1>2, <1>3, <1>4 DEF Queues
<1>6. \A i \in 1..Len(Tail(q.urls)) : Home[Tail(q.urls)[i]] = n
  BY <1>1, <1>2
<1>7. ASSUME NEW d \in Domains
      PROVE  new.domains[d] = Cardinality(At(Tail(q.urls), In(d)))
  <2>1. new.domains[d] = IF d = Domain[u] THEN q.domains[d] - 1 ELSE q.domains[d]
    BY <1>1, <1>3, <1>4
  <2>2. u \in In(d) <=> d = Domain[u]
    BY <1>2, <1>3 DEF In
  <2>3. Cardinality(At(q.urls, In(d))) =
          IF u \in In(d) THEN Cardinality(At(Tail(q.urls), In(d))) + 1 ELSE Cardinality(At(Tail(q.urls), In(d)))
    BY <1>1, TailCounts DEF u
  <2>4. Cardinality(At(Tail(q.urls), In(d))) \in Nat
    BY <1>2, AtFinite
  <2>5. QED BY <1>1, <2>1, <2>2, <2>3, <2>4
<1>8. Len(Tail(q.urls)) <= 2 * MaxQueueLen
  BY <1>1, <1>2, Assumptions
<1>9. QED BY <1>2, <1>3, <1>5, <1>6, <1>7, <1>8 DEF Fine, Own, u, new

----------------------------------------------------------------------------
(* The inductive invariant *)

Steps == {"none", "resetSeen", "resetQueue", "loadSeen", "loadIndex", "resetIndex"}

\* The starts of a node: a start that has not reached the index loop yet has
\* one more crawl loop than index loops, and a node that answered its start
\* has no step left.
Starts ==
  /\ setting \in Settings /\ crashes \in 0..MaxCrashes /\ seeded \in BOOLEAN
  /\ stopped \in [Nodes -> BOOLEAN] /\ ready \in [Nodes -> BOOLEAN]
  /\ live \in [Nodes -> SUBSET Loops] /\ phase \in [Nodes -> Steps]
  /\ latest \in [Nodes -> [Kinds -> 0..MaxStarts]]
  /\ \A n \in Nodes :
       /\ latest[n]["index"] <= latest[n]["crawl"]
       /\ phase[n] \in {"resetSeen", "resetQueue", "loadSeen"} => latest[n]["index"] < latest[n]["crawl"]
       /\ phase[n] # "none" => latest[n]["crawl"] > 0
       /\ ready[n] => phase[n] = "none" /\ latest[n]["crawl"] > 0

\* The pages the loops work on.
WorkType ==
  /\ active \in [Nodes -> [Loops -> Int]]
  /\ work \in [Nodes -> [Loops -> [Slots -> {Idle, Pending} \cup Pages]]]
Working == WorkType /\ ActiveCountsPages

\* The queues: each, cached or stored, is of the node's own URLs.
Queued ==
  /\ seen \in [Nodes -> SUBSET URLs] /\ fetched \in [URLs -> 0..2] /\ lost \subseteq URLs /\ net \subseteq Messages
  /\ cache \in [Nodes -> [Kinds -> Queues \cup Seq(URLs) \cup {NotCached}]]
  /\ disk \in [Nodes -> [Kinds -> Queues \cup Seq(URLs) \cup {Absent}]]
  /\ seenDisk \in [Nodes -> (SUBSET URLs) \cup {Absent}]
  /\ \A n \in Nodes :
       /\ seen[n] \subseteq Own(n) /\ (seenDisk[n] = Absent \/ seenDisk[n] \subseteq Own(n))
       /\ cache[n]["crawl"] \in Fine(n) \cup {NotCached} /\ cache[n]["index"] \in Seq(URLs) \cup {NotCached}
       /\ disk[n]["crawl"] \in Fine(n) \cup {Absent} /\ disk[n]["index"] \in Seq(URLs) \cup {Absent}

\* Before the first URLs are queued there is nothing to crawl.
Fresh ==
  /\ net = {} /\ \A u \in URLs : fetched[u] = 0
  /\ \A n \in Nodes :
       /\ seen[n] = {} /\ seenDisk[n] \in {Absent, {}}
       /\ cache[n]["crawl"] \in {NotCached, EmptyQueue} /\ disk[n]["crawl"] \in {Absent, EmptyQueue}
       /\ \A l \in Loops, s \in Slots : l[1] = "crawl" => work[n][l][s] \in {Idle, Pending}

\* As long as no node crashes or starts again: a URL that was seen was crawled
\* once or is queued once, never both, and another is neither, but for those
\* that a failed write back lost.
Tracked ==
  Undisturbed =>
    /\ ~seeded => Fresh
    /\ seeded => \A n \in Nodes : phase[n] = "none" /\ latest[n]["crawl"] = 1
    /\ \A n \in Nodes : \A u \in Own(n) \ lost :
         fetched[u] + Count(Load(n, "crawl").urls, u) = IF u \in seen[n] THEN 1 ELSE 0

Invariant == Starts /\ Working /\ Queued /\ Tracked

----------------------------------------------------------------------------
(* Every step keeps each part of the invariant *)

LEMMA InitInvariant == ASSUME Init PROVE Invariant
<1> USE Assumptions DEF Init
<1>1. Starts
  <2>1. 0 \in 0..MaxStarts /\ 0 \in 0..MaxCrashes
    OBVIOUS
  <2>2. latest \in [Nodes -> [Kinds -> 0..MaxStarts]] /\ phase \in [Nodes -> Steps]
    BY <2>1 DEF Steps
  <2>3. \A n \in Nodes : latest[n]["index"] = 0 /\ latest[n]["crawl"] = 0
    BY DEF Kinds
  <2>4. /\ live \in [Nodes -> SUBSET Loops] /\ stopped \in [Nodes -> BOOLEAN] /\ ready \in [Nodes -> BOOLEAN]
        /\ setting \in Settings /\ crashes \in 0..MaxCrashes /\ seeded \in BOOLEAN
    BY <2>1
  <2>5. \A n \in Nodes : phase[n] = "none" /\ ~ready[n]
    OBVIOUS
  <2> HIDE DEF Init
  <2>6. QED BY <2>2, <2>3, <2>4, <2>5 DEF Starts
<1>2. Working
  <2>1. WorkType
    BY DEF WorkType
  <2>2. \A n \in Nodes, l \in Loops : {s \in Slots : work[n][l][s] # Idle} = {}
    OBVIOUS
  <2>3. Cardinality({}) = 0
    BY FS_EmptySet
  <2>4. \A l \in Loops : Limit[setting][l[1]] \in Nat
    BY DEF Loops
  <2>5. \A n \in Nodes, l \in Loops : active[n][l] = 0
    OBVIOUS
  <2>6. ASSUME NEW n \in Nodes, NEW l \in Loops
        PROVE  active[n][l] = Cardinality({s \in Slots : work[n][l][s] # Idle}) /\ active[n][l] <= Limit[setting][l[1]] + 1
    <3>1. Cardinality({s \in Slots : work[n][l][s] # Idle}) = 0
      BY <2>2, <2>3
    <3>2. active[n][l] = 0 /\ Limit[setting][l[1]] \in Nat
      BY <2>4, <2>5
    <3>3. QED BY <3>1, <3>2
  <2>7. QED BY <2>1, <2>6 DEF Working, ActiveCountsPages
<1>3. Queued
  <2>1. /\ seen \in [Nodes -> SUBSET URLs] /\ fetched \in [URLs -> 0..2] /\ lost \subseteq URLs /\ net \subseteq Messages
        /\ seenDisk \in [Nodes -> (SUBSET URLs) \cup {Absent}]
    OBVIOUS
  <2>2. /\ cache \in [Nodes -> [Kinds -> Queues \cup Seq(URLs) \cup {NotCached}]]
        /\ disk \in [Nodes -> [Kinds -> Queues \cup Seq(URLs) \cup {Absent}]]
    OBVIOUS
  <2>3. \A n \in Nodes : /\ seen[n] = {} /\ seenDisk[n] = Absent
                         /\ \A k \in Kinds : cache[n][k] = NotCached /\ disk[n][k] = Absent
    OBVIOUS
  <2> HIDE DEF Init
  <2>4. QED BY <2>1, <2>2, <2>3 DEF Queued, Kinds
<1>4. Tracked
  <2>1. Fresh
    BY DEF Fresh, Kinds
  <2>2. \A n \in Nodes : Load(n, "crawl") = EmptyQueue
    BY DEF Load, Stored, Empty, Kinds
  <2>3. \A n \in Nodes : \A u \in Own(n) \ lost : fetched[u] + Count(Load(n, "crawl").urls, u) = 0 /\ u \notin seen[n]
    BY <2>2, EmptyIsFine DEF Own, Count
  <2>4. QED BY <2>1, <2>3 DEF Tracked
<1>5. QED BY <1>1, <1>2, <1>3, <1>4 DEF Invariant

\* The actions, named one by one.
LEMMA Actions ==
  ASSUME Next
  PROVE  \/ \E n \in Nodes :
              \/ \E reset \in BOOLEAN : Start(n, reset)
              \/ \E ok \in BOOLEAN : Advance(n, ok)
              \/ \E k \in Kinds, keep \in BOOLEAN : Save(n, k, keep)
              \/ \E k \in Kinds : SaveFails(n, k)
              \/ \E l \in Loops : Tick(n, l)
              \/ Stop(n) \/ SaveSeen(n) \/ Crash(n)
         \/ \E n \in Nodes, l \in Loops, s \in Slots :
              \/ TickFails(n, l, s) \/ Take(n, l, s) \/ TakeFails(n, l, s) \/ Indexed(n, l, s) \/ CutOff(n, l, s)
              \/ \E useful \in BOOLEAN : Download(n, l, s, useful)
              \/ \E m \in Nodes : BatchAnswer(n, l, s, m)
              \/ \E ok \in BOOLEAN : Enqueue(n, l, s, ok)
         \/ Seed \/ \E b \in net : QueueURLs(b) \/ LoseBatch(b)
<1>1. CASE AnySlot(TickFails)
  BY <1>1 DEF AnySlot
<1>2. CASE AnySlot(Take)
  BY <1>2 DEF AnySlot
<1>3. CASE AnySlot(TakeFails)
  BY <1>3 DEF AnySlot
<1>4. CASE AnySlot(Moves)
  BY <1>4 DEF AnySlot, Moves
<1>5. CASE AnySlot(CutOff)
  BY <1>5 DEF AnySlot
<1>6. QED BY <1>1, <1>2, <1>3, <1>4, <1>5 DEF Next

\* What a step of a start does with the intervals, whatever it does with the
\* store.
LEMMA StartsKept == ASSUME Invariant, Next PROVE Starts'
<1> USE DEF Starts, Steps
<1>1. Starts
  BY DEF Invariant
<1>2. CASE UNCHANGED <<setting, crashes, seeded, memory>>
  BY <1>1, <1>2 DEF memory
<1>3. ASSUME NEW n \in Nodes, NEW k \in Kinds, Begin(n, k), latest[n][k] < MaxStarts
      PROVE  /\ latest' \in [Nodes -> [Kinds -> 0..MaxStarts]] /\ live' \in [Nodes -> SUBSET Loops]
             /\ \A m \in Nodes, j \in Kinds :
                  latest'[m][j] = IF m = n /\ j = k THEN latest[n][k] + 1 ELSE latest[m][j]
  <2>1. latest[n][k] + 1 \in 0..MaxStarts /\ latest[n][k] + 1 \in 1..MaxStarts
    BY <1>1, <1>3, Assumptions
  <2>2. <<k, latest[n][k] + 1>> \in Loops
    BY <2>1 DEF Loops
  <2>3. QED BY <1>1, <1>3, <2>1, <2>2 DEF Begin
<1>4. \A n \in Nodes, k \in Kinds : latest[n][k] \in Int /\ 0 <= latest[n][k] /\ latest[n][k] <= MaxStarts
  BY <1>1, Assumptions
<1>5. "crawl" \in Kinds /\ "index" \in Kinds
  BY DEF Kinds
<1>6. ASSUME NEW n \in Nodes, NEW reset \in BOOLEAN, Start(n, reset) PROVE Starts'
  BY <1>1, <1>3, <1>4, <1>5, <1>6 DEF Start
<1>7. ASSUME NEW n \in Nodes, NEW ok \in BOOLEAN, Advance(n, ok) PROVE Starts'
  <2>1. UNCHANGED <<setting, stopped, seeded, crashes>>
    BY <1>7 DEF Advance
  <2>2. CASE phase[n] \in {"resetQueue", "loadSeen"} /\ ok /\ StartIndex(n, phase'[n])
    <3>1. phase'[n] \in {"resetIndex", "loadIndex"} /\ phase' = [phase EXCEPT ![n] = phase'[n]] /\ ready' = ready
      BY <1>1, <1>7, <2>2 DEF Advance, StartIndex
    <3>2. latest[n]["index"] < latest[n]["crawl"] /\ latest[n]["index"] < MaxStarts /\ ~ready[n]
      BY <1>1, <1>4, <1>5, <2>2, Assumptions
    <3>3. CASE setting = "index-directly"
      BY <1>1, <2>1, <2>2, <3>1, <3>2, <3>3 DEF StartIndex
    <3>4. CASE setting # "index-directly"
      <4>1. Begin(n, "index")
        BY <2>2, <3>4 DEF StartIndex
      <4>2. /\ latest' \in [Nodes -> [Kinds -> 0..MaxStarts]] /\ live' \in [Nodes -> SUBSET Loops]
            /\ \A m \in Nodes, j \in Kinds :
                 latest'[m][j] = IF m = n /\ j = "index" THEN latest[n]["index"] + 1 ELSE latest[m][j]
        BY <1>3, <1>5, <3>2, <4>1
      <4>3. \A m \in Nodes : /\ latest'[m]["crawl"] = latest[m]["crawl"]
                             /\ latest'[m]["index"] = IF m = n THEN latest[n]["index"] + 1 ELSE latest[m]["index"]
        BY <1>5, <4>2
      <4>4. ASSUME NEW m \in Nodes
            PROVE  /\ latest'[m]["index"] <= latest'[m]["crawl"]
                   /\ phase'[m] \in {"resetSeen", "resetQueue", "loadSeen"} => latest'[m]["index"] < latest'[m]["crawl"]
                   /\ phase'[m] # "none" => latest'[m]["crawl"] > 0
                   /\ ready'[m] => phase'[m] = "none" /\ latest'[m]["crawl"] > 0
        <5>1. CASE m = n
          BY <1>1, <1>4, <1>5, <2>2, <3>1, <3>2, <4>3, <5>1
        <5>2. CASE m # n
          BY <1>1, <3>1, <4>3, <5>2
        <5>3. QED BY <5>1, <5>2
      <4>5. QED BY <1>1, <2>1, <3>1, <4>2, <4>4, ZenonT(60)
    <3>5. QED BY <3>3, <3>4
  <2>3. CASE UNCHANGED <<live, latest>> /\ phase[n] # "none"
    BY <1>1, <1>4, <1>5, <1>7, <2>1, <2>3 DEF Advance, StartIndex, Answer
  <2>4. QED BY <1>1, <1>7, <2>2, <2>3 DEF Advance, StartIndex, Answer
<1>8. ASSUME NEW n \in Nodes, Stop(n) PROVE Starts'
  BY <1>1, <1>8 DEF Stop
<1>9. ASSUME NEW n \in Nodes, Crash(n) PROVE Starts'
  BY <1>1, <1>5, <1>9, Assumptions DEF Crash
<1>10. ASSUME Seed PROVE Starts'
  BY <1>1, <1>10 DEF Seed, memory
<1>11. ASSUME NEW n \in Nodes, NEW l \in Loops, NEW s \in Slots,
              \/ TickFails(n, l, s) \/ Take(n, l, s) \/ TakeFails(n, l, s) \/ Indexed(n, l, s) \/ CutOff(n, l, s)
              \/ \E useful \in BOOLEAN : Download(n, l, s, useful)
              \/ \E m \in Nodes : BatchAnswer(n, l, s, m)
              \/ \E ok \in BOOLEAN : Enqueue(n, l, s, ok)
       PROVE  UNCHANGED <<setting, crashes, seeded, memory>>
  BY <1>11 DEF TickFails, Take, TakeFails, CutOff, Indexed, Download, BatchAnswer, Enqueue
<1>12. ASSUME NEW n \in Nodes,
              \/ \E k \in Kinds, keep \in BOOLEAN : Save(n, k, keep)
              \/ \E k \in Kinds : SaveFails(n, k)
              \/ \E l \in Loops : Tick(n, l)
              \/ SaveSeen(n)
       PROVE  UNCHANGED <<setting, crashes, seeded, memory>>
  BY <1>12 DEF Save, SaveFails, Tick, SaveSeen
<1>13. ASSUME NEW b \in net, QueueURLs(b) \/ LoseBatch(b) PROVE UNCHANGED <<setting, crashes, seeded, memory>>
  BY <1>13 DEF QueueURLs, LoseBatch
<1>14. QED BY <1>2, <1>6, <1>7, <1>8, <1>9, <1>10, <1>11, <1>12, <1>13, Actions

\* A slot is taken, keeps a page, or is given back with the count.
Busy(n, l) == {s \in Slots : work[n][l][s] # Idle}

LEMMA BusyFinite ==
  ASSUME NEW n \in Nodes, NEW l \in Loops
  PROVE  IsFiniteSet(Busy(n, l)) /\ Cardinality(Busy(n, l)) \in Nat
<1>1. IsFiniteSet(Slots)
  BY Assumptions, FS_Interval DEF Slots
<1>2. Busy(n, l) \subseteq Slots
  BY DEF Busy
<1>3. QED BY <1>1, <1>2, FS_Subset, FS_CardinalityType

LEMMA LimitIsNat ==
  ASSUME Starts, NEW l \in Loops
  PROVE  Limit[setting][l[1]] \in Nat
<1>1. l[1] \in Kinds /\ setting \in Settings
  BY DEF Loops, Starts
<1>2. QED BY <1>1, Assumptions

LEMMA SlotTaken ==
  ASSUME Working, Starts, setting' = setting, NEW n \in Nodes, NEW l \in Loops, NEW s \in Slots,
         work[n][l][s] = Idle, ~(active[n][l] > Limit[setting][l[1]]),
         work' = [work EXCEPT ![n][l][s] = Pending], active' = [active EXCEPT ![n][l] = @ + 1]
  PROVE  Working'
<1> USE DEF Working, WorkType
<1>1. WorkType'
  OBVIOUS
<1>2. \A m \in Nodes, k \in Loops :
        /\ Busy(m, k)' = IF m = n /\ k = l THEN Busy(n, l) \cup {s} ELSE Busy(m, k)
        /\ active'[m][k] = IF m = n /\ k = l THEN active[n][l] + 1 ELSE active[m][k]
  BY Assumptions DEF Busy
<1>3. s \notin Busy(n, l)
  BY DEF Busy
<1>4. Cardinality(Busy(n, l) \cup {s}) = Cardinality(Busy(n, l)) + 1
  BY <1>3, BusyFinite, FS_AddElement
<1>5. \A m \in Nodes, k \in Loops :
        active[m][k] = Cardinality(Busy(m, k)) /\ active[m][k] <= Limit[setting][k[1]] + 1
  BY DEF ActiveCountsPages, Busy
<1>6. active[n][l] + 1 <= Limit[setting][l[1]] + 1
  BY LimitIsNat
<1>7. ASSUME NEW m \in Nodes, NEW k \in Loops
      PROVE  active'[m][k] = Cardinality(Busy(m, k)') /\ active'[m][k] <= Limit[setting'][k[1]] + 1
  <2>1. CASE m = n /\ k = l
    BY <1>2, <1>4, <1>5, <1>6, <2>1, ZenonT(60)
  <2>2. CASE ~(m = n /\ k = l)
    BY <1>2, <1>5, <2>2
  <2>3. QED BY <2>1, <2>2
<1>8. QED BY <1>1, <1>7 DEF ActiveCountsPages, Busy

LEMMA SlotKept ==
  ASSUME Working, setting' = setting, NEW n \in Nodes, NEW l \in Loops, NEW s \in Slots, NEW page \in Pages,
         work[n][l][s] # Idle, work' = [work EXCEPT ![n][l][s] = page], active' = active
  PROVE  Working'
<1> USE DEF Working, WorkType
<1>1. WorkType'
  OBVIOUS
<1>2. \A m \in Nodes, k \in Loops : Busy(m, k)' = Busy(m, k)
  BY Assumptions DEF Busy
<1>3. \A m \in Nodes, k \in Loops :
        active[m][k] = Cardinality(Busy(m, k)) /\ active[m][k] <= Limit[setting][k[1]] + 1
  BY DEF ActiveCountsPages, Busy
<1>4. \A m \in Nodes, k \in Loops :
        active'[m][k] = Cardinality(Busy(m, k)') /\ active'[m][k] <= Limit[setting'][k[1]] + 1
  BY <1>2, <1>3
<1>5. QED BY <1>1, <1>4 DEF ActiveCountsPages, Busy

LEMMA SlotFreed ==
  ASSUME Working, Starts, setting' = setting, NEW n \in Nodes, NEW l \in Loops, NEW s \in Slots,
         work[n][l][s] # Idle, Finish(n, l, s)
  PROVE  Working'
<1> USE DEF Working, WorkType, Finish
<1>1. WorkType'
  OBVIOUS
<1>2. \A m \in Nodes, k \in Loops :
        /\ Busy(m, k)' = IF m = n /\ k = l THEN Busy(n, l) \ {s} ELSE Busy(m, k)
        /\ active'[m][k] = IF m = n /\ k = l THEN active[n][l] - 1 ELSE active[m][k]
  BY DEF Busy
<1>3. s \in Busy(n, l)
  BY DEF Busy
<1>4. Cardinality(Busy(n, l) \ {s}) = Cardinality(Busy(n, l)) - 1
  BY <1>3, BusyFinite, FS_RemoveElement
<1>5. \A m \in Nodes, k \in Loops :
        active[m][k] = Cardinality(Busy(m, k)) /\ active[m][k] <= Limit[setting][k[1]] + 1
  BY DEF ActiveCountsPages, Busy
<1>6. active[n][l] - 1 <= Limit[setting][l[1]] + 1
  BY <1>5, LimitIsNat
<1>7. ASSUME NEW m \in Nodes, NEW k \in Loops
      PROVE  active'[m][k] = Cardinality(Busy(m, k)') /\ active'[m][k] <= Limit[setting'][k[1]] + 1
  <2>1. CASE m = n /\ k = l
    BY <1>2, <1>4, <1>5, <1>6, <2>1, ZenonT(60)
  <2>2. CASE ~(m = n /\ k = l)
    BY <1>2, <1>5, <2>2
  <2>3. QED BY <2>1, <2>2
<1>8. QED BY <1>1, <1>7 DEF ActiveCountsPages, Busy

\* What a node loads for a loop is a queue of its own.
LEMMA LoadType ==
  ASSUME Queued, NEW n \in Nodes
  PROVE  Load(n, "crawl") \in Fine(n) /\ Load(n, "index") \in Seq(URLs)
<1>1. /\ cache[n]["crawl"] \in Fine(n) \cup {NotCached} /\ cache[n]["index"] \in Seq(URLs) \cup {NotCached}
      /\ disk[n]["crawl"] \in Fine(n) \cup {Absent} /\ disk[n]["index"] \in Seq(URLs) \cup {Absent}
  BY DEF Queued
<1>2. Empty["crawl"] \in Fine(n) /\ Empty["index"] \in Seq(URLs)
  BY EmptyIsFine DEF Empty
<1>3. QED BY <1>1, <1>2 DEF Load, Stored

LEMMA HeadIsURL ==
  ASSUME NEW urls \in Seq(URLs), urls # <<>>
  PROVE  Head(urls) \in URLs /\ Tail(urls) \in Seq(URLs)
<1>1. QED BY HeadTailProperties, ElementOfSeq, LenProperties, EmptySeq

LEMMA AfterSpreadKept ==
  ASSUME Invariant, setting' = setting, NEW n \in Nodes, NEW l \in Loops, NEW s \in Slots, NEW u \in URLs,
         work[n][l][s] # Idle, AfterSpread(n, l, s, u)
  PROVE  Working'
<1>1. CASE Finish(n, l, s)
  BY <1>1, SlotFreed DEF Invariant
<1>2. CASE /\ work' = [work EXCEPT ![n][l][s] = Page(u, IF setting = "index-queue" THEN "enqueue" ELSE "index", {})]
           /\ UNCHANGED active
  <2>1. Page(u, IF setting = "index-queue" THEN "enqueue" ELSE "index", {}) \in Pages
    BY DEF Page, Pages
  <2>2. QED BY <1>2, <2>1, SlotKept DEF Invariant
<1>3. QED BY <1>1, <1>2 DEF AfterSpread

LEMMA WorkKept == ASSUME Invariant, Next PROVE Working'
<1> USE DEF Invariant
<1>1. CASE UNCHANGED <<setting, active, work>>
  BY <1>1 DEF Working, WorkType, ActiveCountsPages
<1>2. \A n \in Nodes, l \in Loops, s \in Slots : work[n][l][s] \in {Idle, Pending} \cup Pages
  BY DEF Working, WorkType
<1>3. Pending # Idle /\ Idle \notin Pages
  BY Assumptions
<1>4. \A n \in Nodes, l \in Loops, s \in Slots :
        work[n][l][s] \notin {Idle, Pending} => work[n][l][s] \in Pages /\ work[n][l][s].url \in URLs
  BY <1>2 DEF Pages
<1>5. ASSUME NEW n \in Nodes, NEW l \in Loops, Tick(n, l) PROVE Working'
  <2>1. PICK s \in Slots : work[n][l][s] = Idle /\ work' = [work EXCEPT ![n][l][s] = Pending]
    BY <1>5 DEF Tick
  <2>2. QED BY <1>5, <2>1, SlotTaken DEF Tick
<1>6. ASSUME NEW n \in Nodes, NEW l \in Loops, NEW s \in Slots, TickFails(n, l, s) PROVE Working'
  BY <1>3, <1>6, SlotFreed DEF TickFails
<1>16. ASSUME NEW n \in Nodes, NEW l \in Loops, NEW s \in Slots, TakeFails(n, l, s) PROVE Working'
  BY <1>3, <1>16, SlotFreed DEF TakeFails
<1>17. ASSUME NEW n \in Nodes, NEW l \in Loops, NEW s \in Slots, CutOff(n, l, s) PROVE Working'
  <2> DEFINE page == [work[n][l][s] EXCEPT !.stage = "cut"]
  <2>1. work[n][l][s] # Idle /\ work[n][l][s] \in Pages /\ setting' = setting /\ active' = active
    BY <1>4, <1>17 DEF CutOff
  <2>2. page \in Pages
    BY <2>1 DEF Pages
  <2>3. work' = [work EXCEPT ![n][l][s] = page]
    BY <1>17 DEF CutOff
  <2> HIDE DEF page
  <2>4. QED BY <2>1, <2>2, <2>3, SlotKept
<1>7. ASSUME NEW n \in Nodes, NEW l \in Loops, NEW s \in Slots, Take(n, l, s) PROVE Working'
  <2>1. work[n][l][s] # Idle /\ setting' = setting
    BY <1>3, <1>7 DEF Take
  <2>2. CASE Finish(n, l, s)
    BY <2>1, <2>2, SlotFreed
  <2>3. CASE ~Finish(n, l, s)
    <3> DEFINE q == Load(n, l[1])
               urls == IF l[1] = "crawl" THEN q.urls ELSE q
    <3>1. /\ urls # <<>> /\ UNCHANGED active
          /\ work' = [work EXCEPT ![n][l][s] = Page(Head(urls), "download", {})]
      BY <1>7, <2>3 DEF Take
    <3>2. urls \in Seq(URLs)
      <4>1. l[1] \in {"crawl", "index"}
        BY DEF Loops, Kinds
      <4>2. QED BY <4>1, LoadType DEF Fine, Queues
    <3> HIDE DEF urls
    <3>3. Page(Head(urls), "download", {}) \in Pages
      BY <3>1, <3>2, HeadIsURL DEF Page, Pages
    <3>4. QED BY <2>1, <3>1, <3>3, SlotKept
  <2>4. QED BY <2>2, <2>3
<1>8. ASSUME NEW n \in Nodes, NEW l \in Loops, NEW s \in Slots, NEW useful \in BOOLEAN, Download(n, l, s, useful)
      PROVE  Working'
  <2> DEFINE u == work[n][l][s].url
             batches == Batches(Links[u])
  <2>1. work[n][l][s] # Idle /\ u \in URLs /\ setting' = setting
    BY <1>4, <1>8 DEF Download
  <2>2. batches \subseteq Messages
    <3>1. Links[u] \in Seq(URLs)
      BY <2>1, Assumptions
    <3>2. QED BY <3>1, BatchesAreMessages
  <2>3. Page(u, "index", {}) \in Pages /\ Page(u, "spread", {b.to : b \in batches}) \in Pages
    BY <2>1, <2>2 DEF Page, Pages, Messages
  <2>4. \/ Finish(n, l, s) \/ AfterSpread(n, l, s, u)
        \/ work' = [work EXCEPT ![n][l][s] = Page(u, "index", {})] /\ UNCHANGED active
        \/ work' = [work EXCEPT ![n][l][s] = Page(u, "spread", {b.to : b \in batches})] /\ UNCHANGED active
    BY <1>8 DEF Download
  <2> HIDE DEF u, batches
  <2>5. QED BY <2>1, <2>3, <2>4, SlotFreed, AfterSpreadKept, SlotKept
<1>9. ASSUME NEW n \in Nodes, NEW l \in Loops, NEW s \in Slots, NEW m \in Nodes, BatchAnswer(n, l, s, m)
      PROVE  Working'
  <2> DEFINE page == [work[n][l][s] EXCEPT !.waiting = @ \ {m}]
  <2>1. work[n][l][s] # Idle /\ work[n][l][s].url \in URLs /\ work[n][l][s] \in Pages /\ setting' = setting
    BY <1>4, <1>9 DEF BatchAnswer
  <2>2. page \in Pages
    BY <2>1 DEF Pages
  <2>3. [work EXCEPT ![n][l][s].waiting = @ \ {m}] = [work EXCEPT ![n][l][s] = page]
    OBVIOUS
  <2>4. CASE AfterSpread(n, l, s, work[n][l][s].url)
    BY <2>1, <2>4, AfterSpreadKept
  <2>5. CASE work' = [work EXCEPT ![n][l][s].waiting = @ \ {m}] /\ UNCHANGED active
    <3>1. work' = [work EXCEPT ![n][l][s] = page] /\ active' = active
      BY <2>3, <2>5
    <3> HIDE DEF page
    <3>2. QED BY <2>1, <2>2, <3>1, SlotKept
  <2>6. QED BY <1>9, <2>4, <2>5 DEF BatchAnswer
<1>10. ASSUME NEW n \in Nodes, NEW l \in Loops, NEW s \in Slots, NEW ok \in BOOLEAN, Enqueue(n, l, s, ok)
       PROVE  Working'
  BY <1>10, SlotFreed DEF Enqueue
<1>11. ASSUME NEW n \in Nodes, NEW l \in Loops, NEW s \in Slots, Indexed(n, l, s) PROVE Working'
  BY <1>11, SlotFreed DEF Indexed
<1>12. ASSUME NEW n \in Nodes, Crash(n) PROVE Working'
  <2>1. setting' = setting /\ WorkType'
    BY <1>12 DEF Crash, Working, WorkType
  <2>2. \A m \in Nodes, l \in Loops :
          /\ Busy(m, l)' = IF m = n THEN {} ELSE Busy(m, l)
          /\ active'[m][l] = IF m = n THEN 0 ELSE active[m][l]
    BY <1>12 DEF Crash, Working, WorkType, Busy
  <2>3. Cardinality({}) = 0 /\ \A l \in Loops : 0 <= Limit[setting][l[1]] + 1
    BY FS_EmptySet, LimitIsNat
  <2>4. \A m \in Nodes, l \in Loops :
          active[m][l] = Cardinality(Busy(m, l)) /\ active[m][l] <= Limit[setting][l[1]] + 1
    BY DEF Working, ActiveCountsPages, Busy
  <2>5. \A m \in Nodes, l \in Loops :
          active'[m][l] = Cardinality(Busy(m, l)') /\ active'[m][l] <= Limit[setting'][l[1]] + 1
    BY <2>1, <2>2, <2>3, <2>4, ZenonT(60)
  <2>6. QED BY <2>1, <2>5 DEF Working, ActiveCountsPages, Busy
<1>13. ASSUME NEW n \in Nodes,
              \/ \E reset \in BOOLEAN : Start(n, reset)
              \/ \E ok \in BOOLEAN : Advance(n, ok)
              \/ \E k \in Kinds, keep \in BOOLEAN : Save(n, k, keep)
              \/ \E k \in Kinds : SaveFails(n, k)
              \/ Stop(n) \/ SaveSeen(n)
       PROVE  UNCHANGED <<setting, active, work>>
  BY <1>13 DEF Start, Advance, Save, SaveFails, Stop, SaveSeen
<1>14. ASSUME Seed \/ \E b \in net : QueueURLs(b) \/ LoseBatch(b)
       PROVE  UNCHANGED <<setting, active, work>>
  BY <1>14 DEF Seed, QueueURLs, LoseBatch
<1>15. QED BY <1>1, <1>5, <1>6, <1>7, <1>8, <1>9, <1>10, <1>11, <1>12, <1>13, <1>14, <1>16, <1>17, Actions

\* What updateQueue makes of the queue and the seen set of a node, and that a
\* URL queued by it was neither queued nor crawled before.
Accounted(n, q, s) ==
  \A u \in Own(n) \ lost : fetched[u] + Count(q.urls, u) = IF u \in s THEN 1 ELSE 0

LEMMA UpdateQueueType ==
  ASSUME NEW n \in Nodes, NEW q \in Fine(n), NEW s \in SUBSET Own(n),
         NEW urls \in Seq(URLs), \A i \in 1..Len(urls) : urls[i] \in Own(n)
  PROVE  /\ UpdateQueue(q, s, urls).queue \in Fine(n)
         /\ UpdateQueue(q, s, urls).seen \in SUBSET Own(n)
<1> DEFINE S == [queue : Fine(n), seen : SUBSET Own(n)]
<1>1. [queue |-> q, seen |-> s] \in S
  OBVIOUS
<1>2. ASSUME NEW acc \in S, NEW i \in 1..Len(urls) PROVE Offer(acc, urls[i]) \in S
  <2>1. acc = [queue |-> acc.queue, seen |-> acc.seen] /\ acc.queue \in Fine(n) /\ acc.seen \in SUBSET Own(n)
    OBVIOUS
  <2>2. urls[i] \in Own(n)
    OBVIOUS
  <2>3. QED BY <2>1, <2>2, OfferKeeps
<1> HIDE DEF S
<1>3. UpdateQueue(q, s, urls) \in S
  BY <1>1, <1>2, UpdateQueueKeeps
<1>4. QED BY <1>3 DEF S

LEMMA UpdateQueueAccounts ==
  ASSUME Queued, NEW n \in Nodes, NEW q \in Fine(n), NEW s \in SUBSET Own(n), Accounted(n, q, s),
         NEW urls \in Seq(URLs), \A i \in 1..Len(urls) : urls[i] \in Own(n)
  PROVE  Accounted(n, UpdateQueue(q, s, urls).queue, UpdateQueue(q, s, urls).seen)
<1> DEFINE S == {acc \in [queue : Fine(n), seen : SUBSET Own(n)] : Accounted(n, acc.queue, acc.seen)}
<1>1. [queue |-> q, seen |-> s] \in S
  OBVIOUS
<1>2. ASSUME NEW acc \in S, NEW i \in 1..Len(urls) PROVE Offer(acc, urls[i]) \in S
  <2> DEFINE u == urls[i]
             new == Offer(acc, u)
  <2>1. acc = [queue |-> acc.queue, seen |-> acc.seen] /\ acc.queue \in Fine(n) /\ acc.seen \in SUBSET Own(n)
    OBVIOUS
  <2>2. u \in Own(n) /\ u \in URLs /\ Accounted(n, acc.queue, acc.seen)
    BY DEF Own
  <2> HIDE DEF u
  <2>3. \/ new = acc
        \/ /\ u \notin acc.seen /\ new.queue \in Fine(n)
           /\ new = [queue |-> new.queue, seen |-> acc.seen \cup {u}]
           /\ new.queue.urls = Append(acc.queue.urls, u)
    BY <2>1, <2>2, OfferKeeps
  <2> HIDE DEF new
  <2>4. CASE new = acc
    BY <2>4 DEF new, u
  <2>5. CASE /\ u \notin acc.seen /\ new.queue \in Fine(n)
             /\ new = [queue |-> new.queue, seen |-> acc.seen \cup {u}]
             /\ new.queue.urls = Append(acc.queue.urls, u)
    <3>1. new.seen = acc.seen \cup {u} /\ new \in [queue : Fine(n), seen : SUBSET Own(n)]
      BY <2>2, <2>5
    <3>2. acc.queue.urls \in Seq(URLs)
      BY <2>1 DEF Fine, Queues
    <3>3. ASSUME NEW v \in Own(n) \ lost
          PROVE  fetched[v] + Count(new.queue.urls, v) = IF v \in new.seen THEN 1 ELSE 0
      <4>1. Count(new.queue.urls, v) = IF v = u THEN Count(acc.queue.urls, v) + 1 ELSE Count(acc.queue.urls, v)
        BY <2>2, <2>5, <3>2, AppendCounts DEF Count
      <4>2. fetched[v] + Count(acc.queue.urls, v) = IF v \in acc.seen THEN 1 ELSE 0
        BY <2>2 DEF Accounted
      <4>3. fetched[v] \in Nat /\ Count(acc.queue.urls, v) \in Nat
        BY <3>2, AtFinite DEF Queued, Own, Count
      <4>4. QED BY <2>5, <3>1, <4>1, <4>2, <4>3
    <3>4. Accounted(n, new.queue, new.seen)
      BY <3>3 DEF Accounted
    <3>5. QED BY <3>1, <3>4 DEF new, u
  <2>6. QED BY <2>3, <2>4, <2>5
<1> HIDE DEF S
<1>3. UpdateQueue(q, s, urls) \in S
  BY <1>1, <1>2, UpdateQueueKeeps
<1>4. QED BY <1>3 DEF S

LEMMA QueuedKept == ASSUME Invariant, Next PROVE Queued'
<1> USE DEF Invariant
<1>1. CASE UNCHANGED <<storage, net, fetched, lost>>
  BY <1>1 DEF Queued, storage
<1>2. "crawl" \in Kinds /\ "index" \in Kinds /\ \A n \in Nodes : Fine(n) \subseteq Queues
  BY DEF Kinds, Fine
<1>3. ASSUME NEW n \in Nodes, NEW ok \in BOOLEAN, Advance(n, ok) PROVE Queued'
  <2>1. UNCHANGED <<cache, net, fetched, lost>>
    BY <1>3 DEF Advance, storage
  <2>2. \/ UNCHANGED <<disk, seen, seenDisk>>
        \/ seenDisk' = [seenDisk EXCEPT ![n] = {}] /\ UNCHANGED <<disk, seen>>
        \/ disk' = [disk EXCEPT ![n]["crawl"] = EmptyQueue] /\ UNCHANGED <<seen, seenDisk>>
        \/ seenDisk[n] # Absent /\ seen' = [seen EXCEPT ![n] = seenDisk[n]] /\ UNCHANGED <<disk, seenDisk>>
        \/ disk' = [disk EXCEPT ![n]["index"] = <<>>] /\ UNCHANGED <<seen, seenDisk>>
    BY <1>3 DEF Advance, storage
  <2>3. EmptyQueue \in Fine(n) /\ EmptyQueue \in Queues /\ <<>> \in Seq(URLs)
    BY <1>2, EmptyIsFine
  <2>4. ASSUME NEW k \in Kinds, NEW q, disk' = [disk EXCEPT ![n][k] = q], UNCHANGED <<seen, seenDisk>>,
               k = "crawl" => q \in Fine(n), k = "index" => q \in Seq(URLs)
        PROVE  Queued'
    <3>1. disk' \in [Nodes -> [Kinds -> Queues \cup Seq(URLs) \cup {Absent}]]
      BY <1>2, <2>4 DEF Queued, Kinds
    <3>2. \A m \in Nodes, j \in Kinds : disk'[m][j] = IF m = n /\ j = k THEN q ELSE disk[m][j]
      BY <2>4 DEF Queued
    <3>3. QED BY <1>2, <2>1, <2>4, <3>1, <3>2 DEF Queued
  <2>5. CASE UNCHANGED <<disk, seen, seenDisk>>
    BY <1>1, <2>1, <2>5 DEF storage
  <2>6. CASE seenDisk' = [seenDisk EXCEPT ![n] = {}] /\ UNCHANGED <<disk, seen>>
    BY <2>1, <2>6 DEF Queued
  <2>7. CASE seenDisk[n] # Absent /\ seen' = [seen EXCEPT ![n] = seenDisk[n]] /\ UNCHANGED <<disk, seenDisk>>
    BY <2>1, <2>7 DEF Queued
  <2>8. QED BY <1>2, <2>2, <2>3, <2>4, <2>5, <2>6, <2>7
<1>4. ASSUME NEW n \in Nodes, NEW k \in Kinds, NEW keep \in BOOLEAN, Save(n, k, keep) PROVE Queued'
  <2>1. /\ UNCHANGED <<seen, seenDisk, net, fetched, lost>> /\ cache[n][k] # NotCached
        /\ disk' = [disk EXCEPT ![n][k] = cache[n][k]]
        /\ cache' = cache \/ cache' = [cache EXCEPT ![n][k] = NotCached]
    BY <1>4 DEF Save
  <2>2. disk' \in [Nodes -> [Kinds -> Queues \cup Seq(URLs) \cup {Absent}]]
    BY <2>1 DEF Queued
  <2>3. cache' \in [Nodes -> [Kinds -> Queues \cup Seq(URLs) \cup {NotCached}]]
    <3>1. CASE cache' = cache
      BY <3>1 DEF Queued
    <3>2. CASE cache' = [cache EXCEPT ![n][k] = NotCached]
      BY <3>2 DEF Queued
    <3>3. QED BY <2>1, <3>1, <3>2
  <2>4. \A m \in Nodes, j \in Kinds : /\ disk'[m][j] = IF m = n /\ j = k THEN cache[n][k] ELSE disk[m][j]
                                      /\ cache'[m][j] \in {cache[m][j], NotCached}
    BY <2>1 DEF Queued
  <2>5. QED BY <1>2, <2>1, <2>2, <2>3, <2>4 DEF Queued
<1>18. ASSUME NEW n \in Nodes, NEW k \in Kinds, SaveFails(n, k) PROVE Queued'
  <2>1. /\ UNCHANGED <<disk, seen, seenDisk, net, fetched>> /\ lost' = lost \cup Unsaved(n, k)
        /\ cache' = [cache EXCEPT ![n][k] = NotCached]
    BY <1>18 DEF SaveFails
  <2>2. lost' \subseteq URLs
    BY <2>1 DEF Queued, Unsaved
  <2>3. cache' \in [Nodes -> [Kinds -> Queues \cup Seq(URLs) \cup {NotCached}]]
    BY <2>1 DEF Queued
  <2>4. \A m \in Nodes, j \in Kinds : cache'[m][j] \in {cache[m][j], NotCached}
    BY <2>1 DEF Queued
  <2>5. QED BY <1>2, <2>1, <2>2, <2>3, <2>4 DEF Queued
<1>5. ASSUME NEW n \in Nodes, SaveSeen(n) PROVE Queued'
  BY <1>5 DEF SaveSeen, Queued
<1>6. ASSUME NEW n \in Nodes, NEW k \in Kinds, NEW q, cache' = [cache EXCEPT ![n][k] = q],
             k = "crawl" => q \in Fine(n), k = "index" => q \in Seq(URLs),
             UNCHANGED <<disk, seen, seenDisk, net>>, fetched' \in [URLs -> 0..2], lost' \subseteq URLs
      PROVE  Queued'
  <2>1. k \in {"crawl", "index"} /\ q \in Queues \cup Seq(URLs)
    BY <1>2, <1>6 DEF Kinds
  <2>2. cache' \in [Nodes -> [Kinds -> Queues \cup Seq(URLs) \cup {NotCached}]]
    BY <1>6, <2>1 DEF Queued
  <2>3. \A m \in Nodes, j \in Kinds : cache'[m][j] = IF m = n /\ j = k THEN q ELSE cache[m][j]
    BY <1>6 DEF Queued
  <2>4. QED BY <1>2, <1>6, <2>2, <2>3 DEF Queued
<1>7. ASSUME NEW n \in Nodes, NEW l \in Loops, NEW s \in Slots, Take(n, l, s) PROVE Queued'
  <2>1. l[1] \in Kinds /\ l[1] \in {"crawl", "index"} /\ UNCHANGED <<disk, seen, seenDisk, net, lost>>
    BY <1>7 DEF Take, Loops, Kinds
  <2> DEFINE q == Load(n, l[1])
  <2>2. Load(n, "crawl") \in Fine(n) /\ Load(n, "index") \in Seq(URLs)
    BY LoadType
  <2>3. CASE cache' = [cache EXCEPT ![n][l[1]] = q] /\ UNCHANGED fetched
    BY <1>6, <2>1, <2>2, <2>3 DEF Queued
  <2>4. CASE l[1] = "crawl" /\ ~(cache' = [cache EXCEPT ![n][l[1]] = q] /\ UNCHANGED fetched)
    <3>1. /\ q.urls # <<>> /\ cache' = [cache EXCEPT ![n]["crawl"] = Shift("crawl", q)]
          /\ fetched' = [fetched EXCEPT ![Head(q.urls)] = IF @ = 2 THEN 2 ELSE @ + 1]
      BY <1>7, <2>4 DEF Take
    <3>2. fetched' \in [URLs -> 0..2]
      <4>1. Head(q.urls) \in URLs
        BY <2>2, <2>4, <3>1, HeadIsURL DEF Fine, Queues
      <4> HIDE DEF q
      <4>2. fetched[Head(q.urls)] \in 0..2
        BY <4>1 DEF Queued
      <4>3. QED BY <3>1, <4>1, <4>2 DEF Queued
    <3>3. Shift("crawl", q) \in Fine(n)
      BY <2>2, <2>4, <3>1, ShiftKeeps
    <3>4. QED BY <1>2, <1>6, <2>1, <3>1, <3>2, <3>3 DEF Queued
  <2>5. CASE l[1] = "index" /\ ~(cache' = [cache EXCEPT ![n][l[1]] = q] /\ UNCHANGED fetched)
    <3>1. q # <<>> /\ cache' = [cache EXCEPT ![n]["index"] = Tail(q)] /\ fetched' = fetched
      BY <1>7, <2>5 DEF Take, Shift
    <3>2. Tail(q) \in Seq(URLs)
      BY <2>2, <2>5, <3>1, HeadIsURL
    <3>3. QED BY <1>2, <1>6, <2>1, <3>1, <3>2 DEF Queued
  <2>6. QED BY <2>1, <2>3, <2>4, <2>5
<1>19. ASSUME NEW n \in Nodes, NEW l \in Loops, NEW s \in Slots, TakeFails(n, l, s) PROVE Queued'
  <2>1. l[1] \in Kinds /\ l[1] \in {"crawl", "index"} /\ UNCHANGED <<disk, seen, seenDisk, net, fetched>>
    BY <1>19 DEF TakeFails, Loops, Kinds
  <2> DEFINE q == Load(n, l[1])
  <2>2. Load(n, "crawl") \in Fine(n) /\ Load(n, "index") \in Seq(URLs)
    BY LoadType
  <2>3. CASE l[1] = "crawl"
    <3>1. /\ q.urls # <<>> /\ cache' = [cache EXCEPT ![n]["crawl"] = Shift("crawl", q)]
          /\ lost' = lost \cup {Head(q.urls)}
      BY <1>19, <2>3 DEF TakeFails
    <3>2. Head(q.urls) \in URLs
      BY <2>2, <2>3, <3>1, HeadIsURL DEF Fine, Queues
    <3>3. Shift("crawl", q) \in Fine(n)
      BY <2>2, <2>3, <3>1, ShiftKeeps
    <3>4. QED BY <1>2, <1>6, <2>1, <3>1, <3>2, <3>3 DEF Queued
  <2>4. CASE l[1] = "index"
    <3>1. q # <<>> /\ cache' = [cache EXCEPT ![n]["index"] = Tail(q)] /\ lost' = lost
      BY <1>19, <2>4 DEF TakeFails, Shift
    <3>2. Tail(q) \in Seq(URLs)
      BY <2>2, <2>4, <3>1, HeadIsURL
    <3>3. QED BY <1>2, <1>6, <2>1, <3>1, <3>2 DEF Queued
  <2>5. QED BY <2>1, <2>3, <2>4
<1>8. ASSUME UNCHANGED <<storage, fetched, lost>>, net' \subseteq net \cup Messages PROVE Queued'
  BY <1>8 DEF Queued, storage
<1>9. ASSUME NEW n \in Nodes, NEW l \in Loops, NEW s \in Slots, NEW useful \in BOOLEAN, Download(n, l, s, useful)
      PROVE  Queued'
  <2> DEFINE u == work[n][l][s].url
  <2>1. work[n][l][s] \in {Idle, Pending} \cup Pages
    BY DEF Working, WorkType
  <2>2. u \in URLs /\ UNCHANGED <<storage, fetched, lost>>
    BY <1>9, <2>1 DEF Download, Pages
  <2>3. net' = net \/ net' = net \cup Batches(Links[u])
    BY <1>9 DEF Download
  <2>4. Links[u] \in Seq(URLs)
    BY <2>2, Assumptions
  <2> HIDE DEF u
  <2>5. QED BY <1>8, <2>2, <2>3, <2>4, BatchesAreMessages
<1>10. ASSUME NEW n \in Nodes, NEW l \in Loops, NEW s \in Slots, NEW ok \in BOOLEAN, Enqueue(n, l, s, ok)
       PROVE  Queued'
  <2> DEFINE u == work[n][l][s].url
  <2>1. work[n][l][s] \in {Idle, Pending} \cup Pages
    BY DEF Working, WorkType
  <2>2. u \in URLs /\ UNCHANGED <<disk, seen, seenDisk, net, fetched, lost>>
    BY <1>10, <2>1 DEF Enqueue, Pages
  <2>3. Append(Load(n, "index"), u) \in Seq(URLs)
    BY <2>2, LoadType, AppendProperties
  <2>4. cache' = cache \/ cache' = [cache EXCEPT ![n]["index"] = Append(Load(n, "index"), u)]
    BY <1>10 DEF Enqueue
  <2> HIDE DEF u
  <2>5. CASE cache' = cache
    BY <1>1, <2>2, <2>5 DEF storage
  <2>6. QED BY <1>2, <1>6, <2>2, <2>3, <2>4, <2>5 DEF Queued
<1>11. ASSUME Seed PROVE Queued'
  BY <1>8, <1>11, BatchesAreMessages, Assumptions DEF Seed
<1>12. ASSUME NEW b \in net, LoseBatch(b) PROVE Queued'
  BY <1>8, <1>12 DEF LoseBatch
<1>13. ASSUME NEW b \in net, QueueURLs(b) PROVE Queued'
  <2> DEFINE n == b.to
             new == UpdateQueue(Load(n, "crawl"), seen[n], b.urls)
  <2>1. n \in Nodes /\ b.urls \in Seq(URLs) /\ \A i \in 1..Len(b.urls) : b.urls[i] \in Own(n)
    BY DEF Queued, Messages
  <2>2. Load(n, "crawl") \in Fine(n) /\ seen[n] \in SUBSET Own(n)
    BY <2>1, LoadType DEF Queued
  <2>3. new.queue \in Fine(n) /\ new.seen \in SUBSET Own(n)
    BY <2>1, <2>2, UpdateQueueType
  <2>4. /\ net' \subseteq net /\ UNCHANGED <<disk, seenDisk, fetched, lost>>
        /\ cache' = [cache EXCEPT ![n]["crawl"] = new.queue] /\ seen' = [seen EXCEPT ![n] = new.seen]
    BY <1>13 DEF QueueURLs
  <2>5. Own(n) \subseteq URLs
    BY DEF Own
  <2> HIDE DEF new, n
  <2>6. seen' \in [Nodes -> SUBSET URLs]
    BY <2>1, <2>3, <2>4, <2>5 DEF Queued
  <2>7. cache' \in [Nodes -> [Kinds -> Queues \cup Seq(URLs) \cup {NotCached}]]
    BY <1>2, <2>1, <2>3, <2>4 DEF Queued
  <2>8. \A m \in Nodes : /\ cache'[m]["crawl"] = IF m = n THEN new.queue ELSE cache[m]["crawl"]
                         /\ cache'[m]["index"] = cache[m]["index"]
                         /\ seen'[m] = IF m = n THEN new.seen ELSE seen[m]
    BY <1>2, <2>1, <2>4 DEF Queued
  <2>9. QED BY <2>3, <2>4, <2>6, <2>7, <2>8 DEF Queued
<1>14. ASSUME NEW n \in Nodes, Crash(n) PROVE Queued'
  <2>1. /\ cache' = [cache EXCEPT ![n] = [k \in Kinds |-> NotCached]] /\ seen' = [seen EXCEPT ![n] = {}]
        /\ UNCHANGED <<disk, seenDisk, net, fetched, lost>>
    BY <1>14 DEF Crash
  <2>2. cache' \in [Nodes -> [Kinds -> Queues \cup Seq(URLs) \cup {NotCached}]]
    BY <2>1 DEF Queued
  <2>3. \A m \in Nodes, j \in Kinds : cache'[m][j] = IF m = n THEN NotCached ELSE cache[m][j]
    BY <2>1 DEF Queued
  <2>4. QED BY <1>2, <2>1, <2>2, <2>3 DEF Queued
<1>15. ASSUME NEW n \in Nodes,
              \/ \E reset \in BOOLEAN : Start(n, reset)
              \/ \E l \in Loops : Tick(n, l)
              \/ Stop(n)
       PROVE  UNCHANGED <<storage, net, fetched, lost>>
  BY <1>15 DEF Start, Tick, Stop
<1>16. ASSUME NEW n \in Nodes, NEW l \in Loops, NEW s \in Slots,
              TickFails(n, l, s) \/ Indexed(n, l, s) \/ CutOff(n, l, s) \/ \E m \in Nodes : BatchAnswer(n, l, s, m)
       PROVE  UNCHANGED <<storage, net, fetched, lost>>
  BY <1>16 DEF TickFails, Indexed, CutOff, BatchAnswer
<1>17. QED BY <1>1, <1>3, <1>4, <1>5, <1>7, <1>9, <1>10, <1>11, <1>12, <1>13, <1>14, <1>15, <1>16, <1>18, <1>19, Actions

\* The crawler was undisturbed before, and no node crashed in this step.
LEMMA StillUndisturbed ==
  ASSUME Invariant, Next, Undisturbed'
  PROVE  Undisturbed /\ \A n \in Nodes : ~Crash(n)
<1> USE DEF Invariant
<1>1. "crawl" \in Kinds /\ "index" \in Kinds /\ "crawl" # "index"
  BY DEF Kinds
<1>2. \A n \in Nodes : ~Crash(n)
  BY DEF Crash, Undisturbed, Starts
<1>3. CASE UNCHANGED <<latest, crashes>>
  BY <1>2, <1>3 DEF Undisturbed
<1>4. \A n \in Nodes, k \in Kinds : latest[n][k] \in Int
  BY Assumptions DEF Starts
<1>5. ASSUME NEW n \in Nodes, NEW k \in Kinds, Begin(n, k), crashes' = crashes PROVE Undisturbed
  <2>1. \A m \in Nodes : latest[m]["crawl"] <= latest'[m]["crawl"] /\ latest'[m]["crawl"] \in Int
    BY <1>1, <1>4, <1>5 DEF Begin, Starts
  <2>2. QED BY <1>1, <1>4, <1>5, <2>1 DEF Undisturbed
<1>6. ASSUME NEW n \in Nodes, NEW reset \in BOOLEAN, Start(n, reset) PROVE Undisturbed
  BY <1>1, <1>5, <1>6 DEF Start
<1>7. ASSUME NEW n \in Nodes, NEW ok \in BOOLEAN, Advance(n, ok) PROVE Undisturbed
  BY <1>1, <1>2, <1>3, <1>5, <1>7 DEF Advance, StartIndex, Answer
<1>8. ASSUME NEW n \in Nodes,
             \/ \E k \in Kinds, keep \in BOOLEAN : Save(n, k, keep)
             \/ \E k \in Kinds : SaveFails(n, k)
             \/ \E l \in Loops : Tick(n, l)
             \/ Stop(n) \/ SaveSeen(n)
      PROVE  UNCHANGED <<latest, crashes>>
  BY <1>8 DEF Save, SaveFails, Tick, Stop, SaveSeen, memory
<1>9. ASSUME NEW n \in Nodes, NEW l \in Loops, NEW s \in Slots,
             \/ TickFails(n, l, s) \/ Take(n, l, s) \/ TakeFails(n, l, s) \/ Indexed(n, l, s) \/ CutOff(n, l, s)
             \/ \E useful \in BOOLEAN : Download(n, l, s, useful)
             \/ \E m \in Nodes : BatchAnswer(n, l, s, m)
             \/ \E ok \in BOOLEAN : Enqueue(n, l, s, ok)
      PROVE  UNCHANGED <<latest, crashes>>
  BY <1>9 DEF TickFails, Take, TakeFails, CutOff, Indexed, Download, BatchAnswer, Enqueue, memory
<1>10. ASSUME Seed \/ \E b \in net : QueueURLs(b) \/ LoseBatch(b) PROVE UNCHANGED <<latest, crashes>>
  BY <1>10 DEF Seed, QueueURLs, LoseBatch, memory
<1>11. QED BY <1>2, <1>3, <1>6, <1>7, <1>8, <1>9, <1>10, Actions

\* Before the first URLs are queued no loop finds any.
LEMMA FreshKept ==
  ASSUME Invariant, Next, Fresh, \A n \in Nodes : ~Crash(n), ~Seed
  PROVE  Fresh'
<1> USE DEF Invariant
<1> DEFINE Data == <<net, fetched, seen, seenDisk, cache, disk>>
<1>1. "crawl" \in Kinds /\ "index" \in Kinds /\ "crawl" # "index"
  BY DEF Kinds
<1>2. CASE UNCHANGED <<Data, work>>
  BY <1>2 DEF Fresh
<1>3. ASSUME NEW n \in Nodes, NEW ok \in BOOLEAN, Advance(n, ok) PROVE Fresh'
  <2>1. UNCHANGED <<cache, net, fetched, work>>
    BY <1>3 DEF Advance, storage
  <2>2. \/ UNCHANGED <<disk, seen, seenDisk>>
        \/ seenDisk' = [seenDisk EXCEPT ![n] = {}] /\ UNCHANGED <<disk, seen>>
        \/ disk' = [disk EXCEPT ![n]["crawl"] = EmptyQueue] /\ UNCHANGED <<seen, seenDisk>>
        \/ seenDisk[n] # Absent /\ seen' = [seen EXCEPT ![n] = seenDisk[n]] /\ UNCHANGED <<disk, seenDisk>>
        \/ disk' = [disk EXCEPT ![n]["index"] = <<>>] /\ UNCHANGED <<seen, seenDisk>>
    BY <1>3 DEF Advance, storage
  <2>3. CASE UNCHANGED <<disk, seen, seenDisk>>
    BY <2>1, <2>3 DEF Fresh
  <2>4. CASE seenDisk' = [seenDisk EXCEPT ![n] = {}] /\ UNCHANGED <<disk, seen>>
    BY <2>1, <2>4 DEF Fresh, Queued
  <2>5. CASE disk' = [disk EXCEPT ![n]["crawl"] = EmptyQueue] /\ UNCHANGED <<seen, seenDisk>>
    BY <1>1, <2>1, <2>5 DEF Fresh, Queued
  <2>6. CASE seenDisk[n] # Absent /\ seen' = [seen EXCEPT ![n] = seenDisk[n]] /\ UNCHANGED <<disk, seenDisk>>
    BY <2>1, <2>6 DEF Fresh, Queued
  <2>7. CASE disk' = [disk EXCEPT ![n]["index"] = <<>>] /\ UNCHANGED <<seen, seenDisk>>
    BY <1>1, <2>1, <2>7 DEF Fresh, Queued
  <2>8. QED BY <2>2, <2>3, <2>4, <2>5, <2>6, <2>7
<1>4. ASSUME NEW n \in Nodes, NEW k \in Kinds, NEW keep \in BOOLEAN, Save(n, k, keep) PROVE Fresh'
  <2>1. /\ UNCHANGED <<seen, seenDisk, net, fetched, work>> /\ cache[n][k] # NotCached
        /\ disk' = [disk EXCEPT ![n][k] = cache[n][k]]
        /\ cache' = cache \/ cache' = [cache EXCEPT ![n][k] = NotCached]
    BY <1>4 DEF Save
  <2>2. \A m \in Nodes, j \in Kinds : /\ disk'[m][j] = IF m = n /\ j = k THEN cache[n][k] ELSE disk[m][j]
                                      /\ cache'[m][j] \in {cache[m][j], NotCached}
    BY <2>1 DEF Queued
  <2>3. QED BY <1>1, <2>1, <2>2 DEF Fresh
<1>18. ASSUME NEW n \in Nodes, NEW k \in Kinds, SaveFails(n, k) PROVE Fresh'
  <2>1. /\ UNCHANGED <<disk, seen, seenDisk, net, fetched, work>>
        /\ cache' = [cache EXCEPT ![n][k] = NotCached]
    BY <1>18 DEF SaveFails
  <2>2. \A m \in Nodes, j \in Kinds : cache'[m][j] \in {cache[m][j], NotCached}
    BY <2>1 DEF Queued
  <2>3. QED BY <1>1, <2>1, <2>2 DEF Fresh
<1>5. ASSUME NEW n \in Nodes, SaveSeen(n) PROVE Fresh'
  BY <1>5 DEF SaveSeen, Fresh, Queued
<1>6. ASSUME NEW n \in Nodes, NEW l \in Loops, NEW s \in Slots, NEW x,
             work' = [work EXCEPT ![n][l][s] = x], l[1] = "crawl" => x \in {Idle, Pending},
             UNCHANGED <<net, fetched, seen, seenDisk, disk>>,
             \A m \in Nodes : cache'[m]["crawl"] \in {cache[m]["crawl"], EmptyQueue}
      PROVE  Fresh'
  <2>1. \A m \in Nodes, k \in Loops, t \in Slots :
          work'[m][k][t] = IF m = n /\ k = l /\ t = s THEN x ELSE work[m][k][t]
    BY <1>6 DEF Working, WorkType
  <2>2. QED BY <1>6, <2>1 DEF Fresh
<1>7. ASSUME NEW n \in Nodes, NEW l \in Loops, Tick(n, l) PROVE Fresh'
  <2>1. PICK s \in Slots : work' = [work EXCEPT ![n][l][s] = Pending]
    BY <1>7 DEF Tick
  <2>2. UNCHANGED <<net, fetched, seen, seenDisk, disk, cache>>
    BY <1>7 DEF Tick, storage
  <2>3. QED BY <1>6, <2>1, <2>2
<1>8. ASSUME NEW n \in Nodes, NEW l \in Loops, NEW s \in Slots, TickFails(n, l, s) \/ Indexed(n, l, s)
      PROVE  Fresh'
  <2>1. work' = [work EXCEPT ![n][l][s] = Idle]
    BY <1>8 DEF TickFails, Indexed, Finish
  <2>2. UNCHANGED <<net, fetched, seen, seenDisk, disk, cache>>
    BY <1>8 DEF TickFails, Indexed, storage
  <2>3. QED BY <1>6, <2>1, <2>2
<1>9. ASSUME NEW n \in Nodes, NEW l \in Loops, NEW s \in Slots, Take(n, l, s) PROVE Fresh'
  <2>1. UNCHANGED <<net, seen, seenDisk, disk>> /\ l[1] \in {"crawl", "index"}
    BY <1>9 DEF Take, Loops, Kinds
  <2>2. CASE l[1] = "crawl"
    <3>1. Load(n, "crawl") = EmptyQueue /\ EmptyQueue.urls = <<>>
      BY EmptyIsFine DEF Fresh, Load, Stored, Empty
    <3>2. Finish(n, l, s) /\ cache' = [cache EXCEPT ![n]["crawl"] = EmptyQueue] /\ fetched' = fetched
      BY <1>9, <2>2, <3>1 DEF Take
    <3>3. \A m \in Nodes : cache'[m]["crawl"] \in {cache[m]["crawl"], EmptyQueue}
      BY <1>1, <3>2 DEF Queued
    <3>4. QED BY <1>6, <2>1, <3>2, <3>3 DEF Finish
  <2>3. CASE l[1] = "index"
    <3>1. PICK x : work' = [work EXCEPT ![n][l][s] = x]
      BY <1>9 DEF Take, Finish
    <3>2. PICK q : cache' = [cache EXCEPT ![n]["index"] = q]
      BY <1>9, <2>3 DEF Take
    <3>3. \A m \in Nodes : cache'[m]["crawl"] = cache[m]["crawl"]
      BY <1>1, <3>2 DEF Queued
    <3>4. fetched' = fetched
      BY <1>9, <2>3 DEF Take
    <3>5. QED BY <1>1, <1>6, <2>1, <2>3, <3>1, <3>3, <3>4
  <2>4. QED BY <2>1, <2>2, <2>3
<1>19. ASSUME NEW n \in Nodes, NEW l \in Loops, NEW s \in Slots, TakeFails(n, l, s) PROVE Fresh'
  <2>1. UNCHANGED <<net, fetched, seen, seenDisk, disk>> /\ l[1] \in {"crawl", "index"} /\ Finish(n, l, s)
    BY <1>19 DEF TakeFails, Loops, Kinds
  <2>2. l[1] # "crawl"
    <3>1. Load(n, "crawl").urls = <<>>
      BY EmptyIsFine DEF Fresh, Load, Stored, Empty
    <3>2. QED BY <1>19, <3>1 DEF TakeFails
  <2>3. PICK q : cache' = [cache EXCEPT ![n]["index"] = q]
    BY <1>19, <2>1, <2>2 DEF TakeFails
  <2>4. \A m \in Nodes : cache'[m]["crawl"] = cache[m]["crawl"]
    BY <1>1, <2>3 DEF Queued
  <2>5. QED BY <1>1, <1>6, <2>1, <2>2, <2>4 DEF Finish
<1>20. ASSUME NEW n \in Nodes, NEW l \in Loops, NEW s \in Slots, CutOff(n, l, s) PROVE Fresh'
  <2>1. PICK x : work' = [work EXCEPT ![n][l][s] = x]
    BY <1>20 DEF CutOff
  <2>2. UNCHANGED <<net, fetched, seen, seenDisk, disk, cache>> /\ work[n][l][s] \notin {Idle, Pending}
    BY <1>20 DEF CutOff, storage
  <2>3. l[1] # "crawl"
    BY <2>2 DEF Fresh
  <2>4. QED BY <1>6, <2>1, <2>2, <2>3
<1>10. ASSUME NEW n \in Nodes, NEW l \in Loops, NEW s \in Slots, work[n][l][s] \notin {Idle, Pending}
       PROVE  l[1] = "index"
  BY <1>10 DEF Fresh, Loops, Kinds
<1>11. ASSUME NEW n \in Nodes, NEW l \in Loops, NEW s \in Slots, NEW u, l[1] = "index",
              Finish(n, l, s) \/ AfterSpread(n, l, s, u) \/ \E x : work' = [work EXCEPT ![n][l][s] = x],
              UNCHANGED <<net, fetched, seen, seenDisk, disk>>,
              \A m \in Nodes : cache'[m]["crawl"] = cache[m]["crawl"]
       PROVE  Fresh'
  <2>1. PICK x : work' = [work EXCEPT ![n][l][s] = x]
    BY <1>11 DEF Finish, AfterSpread
  <2>2. QED BY <1>6, <1>11, <2>1
<1>12. ASSUME NEW n \in Nodes, NEW l \in Loops, NEW s \in Slots, NEW useful \in BOOLEAN, Download(n, l, s, useful)
       PROVE  Fresh'
  <2>1. l[1] = "index" /\ l[1] # "crawl"
    BY <1>1, <1>10, <1>12 DEF Download
  <2>2. UNCHANGED <<net, fetched, seen, seenDisk, disk, cache>>
    BY <1>12, <2>1 DEF Download, storage
  <2>3. \/ Finish(n, l, s)
        \/ \E x : work' = [work EXCEPT ![n][l][s] = x]
    BY <1>12, <2>1 DEF Download
  <2>4. QED BY <1>11, <2>1, <2>2, <2>3
<1>13. ASSUME NEW n \in Nodes, NEW l \in Loops, NEW s \in Slots, NEW m \in Nodes, BatchAnswer(n, l, s, m)
       PROVE  Fresh'
  <2>1. l[1] = "index"
    BY <1>10, <1>13 DEF BatchAnswer
  <2>2. UNCHANGED <<net, fetched, seen, seenDisk, disk, cache>>
    BY <1>13 DEF BatchAnswer, storage
  <2>3. CASE AfterSpread(n, l, s, work[n][l][s].url)
    BY <1>11, <2>1, <2>2, <2>3
  <2>4. CASE work' = [work EXCEPT ![n][l][s].waiting = @ \ {m}]
    <3>1. PICK x : work' = [work EXCEPT ![n][l][s] = x]
      BY <2>4
    <3>2. QED BY <1>11, <2>1, <2>2, <3>1
  <2>5. QED BY <1>13, <2>3, <2>4 DEF BatchAnswer
<1>14. ASSUME NEW n \in Nodes, NEW l \in Loops, NEW s \in Slots, NEW ok \in BOOLEAN, Enqueue(n, l, s, ok)
       PROVE  Fresh'
  <2>1. l[1] = "index" /\ Finish(n, l, s)
    BY <1>10, <1>14 DEF Enqueue
  <2>2. UNCHANGED <<net, fetched, seen, seenDisk, disk>>
    BY <1>14 DEF Enqueue
  <2>3. cache' = cache \/ \E q : cache' = [cache EXCEPT ![n]["index"] = q]
    BY <1>14 DEF Enqueue
  <2>4. \A m \in Nodes : cache'[m]["crawl"] = cache[m]["crawl"]
    BY <1>1, <2>3 DEF Queued
  <2>5. QED BY <1>11, <2>1, <2>2, <2>4
<1>15. ASSUME NEW n \in Nodes, \/ \E reset \in BOOLEAN : Start(n, reset)
                               \/ Stop(n)
       PROVE  UNCHANGED <<Data, work>>
  BY <1>15 DEF Start, Stop, storage
<1>16. net = {}
  BY DEF Fresh
<1>17. QED BY <1>2, <1>3, <1>4, <1>5, <1>7, <1>8, <1>9, <1>12, <1>13, <1>14, <1>15, <1>16, <1>18, <1>19, <1>20, Actions

\* What a node loads after its cached queue was set.
LEMMA LoadCached ==
  ASSUME NEW n \in Nodes, NEW q \in Fine(n), cache'[n]["crawl"] = q
  PROVE  Load(n, "crawl")' = q
<1>1. q # NotCached /\ q # Absent
  BY Assumptions DEF Fine
<1>2. QED BY <1>1 DEF Load, Stored

\* A page taken from the queue leaves it once and is crawled once more.
LEMMA TakeAccounts ==
  ASSUME Invariant, NEW n \in Nodes, NEW l \in Loops, NEW s \in Slots, Take(n, l, s),
         \A m \in Nodes : Accounted(m, Load(m, "crawl"), seen[m])
  PROVE  \A m \in Nodes : Accounted(m, Load(m, "crawl"), seen[m])'
<1> USE DEF Invariant
<1>1. "crawl" \in Kinds /\ "index" \in Kinds /\ "crawl" # "index" /\ l[1] \in {"crawl", "index"}
  BY DEF Kinds, Loops
<1>2. UNCHANGED <<disk, seen, lost>>
  BY <1>1 DEF Take
<1> DEFINE q == Load(n, "crawl")
<1>3. q \in Fine(n) /\ q.urls \in Seq(URLs)
  BY LoadType DEF Fine, Queues
<1>4. CASE l[1] = "index"
  <2>1. PICK x : cache' = [cache EXCEPT ![n]["index"] = x]
    BY <1>4 DEF Take
  <2>2. \A m \in Nodes : cache'[m]["crawl"] = cache[m]["crawl"]
    BY <1>1, <2>1 DEF Queued
  <2>3. fetched' = fetched
    BY <1>4 DEF Take
  <2>4. \A m \in Nodes : Load(m, "crawl")' = Load(m, "crawl")
    BY <1>2, <2>2 DEF Load, Stored
  <2>5. QED BY <1>2, <2>3, <2>4 DEF Accounted
<1>5. CASE l[1] = "crawl" /\ cache' = [cache EXCEPT ![n]["crawl"] = q] /\ fetched' = fetched
  <2>1. \A m \in Nodes : cache'[m]["crawl"] = IF m = n THEN q ELSE cache[m]["crawl"]
    BY <1>1, <1>5 DEF Queued
  <2>2. Load(n, "crawl")' = q
    BY <1>3, <2>1, LoadCached
  <2>3. \A m \in Nodes : m # n => Load(m, "crawl")' = Load(m, "crawl")
    BY <1>2, <2>1 DEF Load, Stored
  <2>4. QED BY <1>2, <1>5, <2>2, <2>3 DEF Accounted
<1>6. CASE /\ l[1] = "crawl" /\ q.urls # <<>> /\ cache' = [cache EXCEPT ![n]["crawl"] = Shift("crawl", q)]
           /\ fetched' = [fetched EXCEPT ![Head(q.urls)] = IF @ = 2 THEN 2 ELSE @ + 1]
  <2> DEFINE h == Head(q.urls)
             r == Shift("crawl", q)
  <2>1. r \in Fine(n) /\ r.urls = Tail(q.urls) /\ h \in Own(n) /\ h \in URLs
    BY <1>3, <1>6, ShiftKeeps DEF Own
  <2>2. \A m \in Nodes : cache'[m]["crawl"] = IF m = n THEN r ELSE cache[m]["crawl"]
    BY <1>1, <1>6 DEF Queued
  <2>3. Load(n, "crawl")' = r
    BY <2>1, <2>2, LoadCached
  <2>4. \A m \in Nodes : m # n => Load(m, "crawl")' = Load(m, "crawl")
    BY <1>2, <2>2 DEF Load, Stored
  <2>5. Accounted(n, q, seen[n])
    OBVIOUS
  <2> HIDE DEF q, h, r
  <2>6. \A u \in URLs : fetched[u] \in Nat /\ Count(q.urls, u) \in Nat
    BY <1>3, AtFinite DEF Queued, Count
  <2>7. \A u \in URLs : Count(q.urls, u) = IF u = h THEN Count(r.urls, u) + 1 ELSE Count(r.urls, u)
    BY <1>3, <1>6, <2>1, TailCounts DEF Count, h, q
  <2>8. Count(r.urls, h) \in Nat
    <3>1. r.urls \in Seq(URLs)
      BY <2>1 DEF Fine, Queues
    <3>2. QED BY <3>1, AtFinite DEF Count
  <2>9. h \notin lost => fetched[h] = 0
    BY <2>1, <2>5, <2>6, <2>7, <2>8 DEF Accounted
  <2>10. \A u \in URLs \ lost : fetched'[u] = IF u = h THEN 1 ELSE fetched[u]
    BY <1>6, <2>1, <2>9 DEF Queued, h, q
  <2>11. ASSUME NEW u \in Own(n) \ lost
         PROVE  fetched'[u] + Count(r.urls, u) = IF u \in seen[n] THEN 1 ELSE 0
    <3>1. u \in URLs /\ fetched[u] + Count(q.urls, u) = IF u \in seen[n] THEN 1 ELSE 0
      BY <2>5 DEF Own, Accounted
    <3>2. CASE u = h
      BY <2>6, <2>7, <2>8, <2>9, <2>10, <3>1, <3>2
    <3>3. CASE u # h
      BY <2>7, <2>10, <3>1, <3>3
    <3>4. QED BY <3>2, <3>3
  <2>12. ASSUME NEW m \in Nodes, m # n PROVE Accounted(m, Load(m, "crawl"), seen[m])'
    <3>1. \A u \in Own(m) : u # h /\ u \in URLs
      BY <2>1, <2>12 DEF Own
    <3>2. \A u \in Own(m) \ lost : fetched'[u] = fetched[u]
      BY <2>10, <3>1
    <3>3. Load(m, "crawl")' = Load(m, "crawl") /\ seen'[m] = seen[m]
      BY <1>2, <2>4, <2>12
    <3>4. Accounted(m, Load(m, "crawl"), seen[m])
      OBVIOUS
    <3>5. QED BY <1>2, <3>2, <3>3, <3>4 DEF Accounted
  <2>13. Accounted(n, Load(n, "crawl"), seen[n])'
    BY <1>2, <2>3, <2>11 DEF Accounted
  <2>14. QED BY <2>12, <2>13
<1>7. QED BY <1>1, <1>4, <1>5, <1>6 DEF Take

\* The copies of a URL in a queue are its positions.
LEMMA CopiesAreCounts ==
  ASSUME NEW q, q.urls \in Seq(URLs), NEW u
  PROVE  Copies(q, u) = Count(q.urls, u)
<1>1. DOMAIN q.urls = 1..Len(q.urls)
  BY LenProperties
<1>2. {i \in DOMAIN q.urls : q.urls[i] = u} = At(q.urls, {u})
  BY <1>1 DEF At
<1>3. QED BY <1>2 DEF Copies, Count

\* A failed write back of the evicted queue loses the URLs that the file holds
\* more or less often, and no other.
LEMMA SaveFailsAccounts ==
  ASSUME Invariant, NEW n \in Nodes, NEW k \in Kinds, SaveFails(n, k),
         \A m \in Nodes : Accounted(m, Load(m, "crawl"), seen[m])
  PROVE  \A m \in Nodes : Accounted(m, Load(m, "crawl"), seen[m])'
<1> USE DEF Invariant
<1>1. "crawl" \in Kinds /\ "index" \in Kinds /\ "crawl" # "index" /\ k \in {"crawl", "index"}
  BY DEF Kinds
<1>2. /\ UNCHANGED <<disk, seen, fetched>> /\ cache[n][k] # NotCached /\ lost' = lost \cup Unsaved(n, k)
      /\ \A m \in Nodes, j \in Kinds :
           cache'[m][j] = IF m = n /\ j = k THEN NotCached ELSE cache[m][j]
  BY DEF SaveFails, Queued
<1>3. \A m \in Nodes : m # n \/ k = "index" => Load(m, "crawl")' = Load(m, "crawl")
  BY <1>1, <1>2 DEF Load, Stored
<1>4. ASSUME NEW m \in Nodes, m # n \/ k = "index"
      PROVE  Accounted(m, Load(m, "crawl"), seen[m])'
  BY <1>2, <1>3, <1>4 DEF Accounted
<1>5. ASSUME k = "crawl" PROVE Accounted(n, Load(n, "crawl"), seen[n])'
  <2> DEFINE q == cache[n]["crawl"]
             old == IF disk[n]["crawl"] = Absent THEN Empty["crawl"] ELSE disk[n]["crawl"]
  <2>1. q \in Fine(n) /\ old \in Fine(n)
    <3>1. Empty["crawl"] \in Fine(n)
      BY EmptyIsFine DEF Empty
    <3>2. QED BY <1>2, <1>5, <3>1 DEF Queued
  <2>2. q # Absent
    BY <2>1, Assumptions DEF Fine
  <2>3. Load(n, "crawl") = q /\ Load(n, "crawl")' = old
    BY <1>1, <1>2, <1>5, <2>2 DEF Load, Stored
  <2>4. ASSUME NEW u \in Own(n) \ lost'
        PROVE  Count(old.urls, u) = Count(q.urls, u) /\ u \notin lost
    <3>1. u \in URLs /\ u \notin lost /\ u \notin Unsaved(n, k)
      BY <1>2 DEF Own
    <3>2. Copies(q, u) = Copies(old, u)
      BY <1>1, <1>5, <3>1 DEF Unsaved
    <3>3. q.urls \in Seq(URLs) /\ old.urls \in Seq(URLs)
      <4> HIDE DEF q, old
      <4>1. QED BY <2>1 DEF Fine, Queues
    <3> HIDE DEF q, old
    <3>4. QED BY <3>1, <3>2, <3>3, CopiesAreCounts
  <2>5. Accounted(n, q, seen[n])
    BY <2>3
  <2> HIDE DEF q, old
  <2>6. QED BY <1>2, <2>3, <2>4, <2>5 DEF Accounted
<1>6. QED BY <1>1, <1>4, <1>5

\* A URL whose modification failed after its queue was cached is lost, and no
\* other is.
LEMMA TakeFailsAccounts ==
  ASSUME Invariant, NEW n \in Nodes, NEW l \in Loops, NEW s \in Slots, TakeFails(n, l, s),
         \A m \in Nodes : Accounted(m, Load(m, "crawl"), seen[m])
  PROVE  \A m \in Nodes : Accounted(m, Load(m, "crawl"), seen[m])'
<1> USE DEF Invariant
<1>1. "crawl" \in Kinds /\ "index" \in Kinds /\ "crawl" # "index" /\ l[1] \in {"crawl", "index"}
  BY DEF Kinds, Loops
<1>2. UNCHANGED <<disk, seen, fetched>>
  BY DEF TakeFails
<1> DEFINE q == Load(n, "crawl")
<1>3. q \in Fine(n) /\ q.urls \in Seq(URLs)
  BY LoadType DEF Fine, Queues
<1>4. CASE l[1] = "index"
  <2>1. PICK x : cache' = [cache EXCEPT ![n]["index"] = x]
    BY <1>4 DEF TakeFails
  <2>2. \A m \in Nodes : cache'[m]["crawl"] = cache[m]["crawl"]
    BY <1>1, <2>1 DEF Queued
  <2>3. lost' = lost
    BY <1>4 DEF TakeFails
  <2>4. \A m \in Nodes : Load(m, "crawl")' = Load(m, "crawl")
    BY <1>2, <2>2 DEF Load, Stored
  <2>5. QED BY <1>2, <2>3, <2>4 DEF Accounted
<1>5. CASE l[1] = "crawl"
  <2> DEFINE h == Head(q.urls)
             r == Shift("crawl", q)
  <2>1. q.urls # <<>> /\ cache' = [cache EXCEPT ![n]["crawl"] = r] /\ lost' = lost \cup {h}
    BY <1>1, <1>5 DEF TakeFails
  <2>2. r \in Fine(n) /\ r.urls = Tail(q.urls)
    BY <1>3, <2>1, ShiftKeeps
  <2>3. \A m \in Nodes : cache'[m]["crawl"] = IF m = n THEN r ELSE cache[m]["crawl"]
    BY <1>1, <2>1 DEF Queued
  <2>4. Load(n, "crawl")' = r
    BY <2>2, <2>3, LoadCached
  <2>5. \A m \in Nodes : m # n => Load(m, "crawl")' = Load(m, "crawl")
    BY <1>2, <2>3 DEF Load, Stored
  <2>6. Accounted(n, q, seen[n])
    OBVIOUS
  <2> HIDE DEF q, r
  <2>7. \A u : u # h => Count(q.urls, u) = Count(r.urls, u)
    BY <1>3, <2>1, <2>2, TailCounts DEF Count
  <2>8. Accounted(n, Load(n, "crawl"), seen[n])'
    BY <1>2, <2>1, <2>4, <2>6, <2>7 DEF Accounted
  <2>9. ASSUME NEW m \in Nodes, m # n PROVE Accounted(m, Load(m, "crawl"), seen[m])'
    <3>1. Load(m, "crawl")' = Load(m, "crawl") /\ seen'[m] = seen[m]
      BY <1>2, <2>5, <2>9
    <3>2. Accounted(m, Load(m, "crawl"), seen[m])
      OBVIOUS
    <3>3. QED BY <1>2, <2>1, <3>1, <3>2 DEF Accounted
  <2>10. QED BY <2>8, <2>9
<1>6. QED BY <1>1, <1>4, <1>5

\* Once the first URLs are queued and no node starts again, every step keeps
\* the account of every URL.
LEMMA AccountsKept ==
  ASSUME Invariant, Next, \A n \in Nodes : Accounted(n, Load(n, "crawl"), seen[n]),
         \A n \in Nodes : ~Crash(n) /\ \A ok \in BOOLEAN : ~Advance(n, ok)
  PROVE  \A n \in Nodes : Accounted(n, Load(n, "crawl"), seen[n])'
<1> USE DEF Invariant
<1> DEFINE Done == \A n \in Nodes : Accounted(n, Load(n, "crawl"), seen[n])'
<1>1. "crawl" \in Kinds /\ "index" \in Kinds /\ "crawl" # "index"
  BY DEF Kinds
<1>2. ASSUME UNCHANGED <<seen, fetched, lost>>, \A n \in Nodes : Load(n, "crawl")' = Load(n, "crawl") PROVE Done
  BY <1>2 DEF Accounted
<1>3. ASSUME UNCHANGED <<seen, fetched, lost, disk, cache>> PROVE Done
  BY <1>2, <1>3 DEF Load, Stored
<1>4. ASSUME NEW n \in Nodes, NEW k \in Kinds, NEW keep \in BOOLEAN, Save(n, k, keep) PROVE Done
  <2>1. /\ UNCHANGED <<seen, fetched, lost>> /\ cache[n][k] # NotCached
        /\ disk' = [disk EXCEPT ![n][k] = cache[n][k]]
        /\ cache' = cache \/ cache' = [cache EXCEPT ![n][k] = NotCached]
    BY <1>4 DEF Save
  <2>2. \A m \in Nodes, j \in Kinds :
          /\ disk'[m][j] = IF m = n /\ j = k THEN cache[n][k] ELSE disk[m][j]
          /\ cache'[m][j] = cache[m][j] \/ (m = n /\ j = k /\ cache'[m][j] = NotCached)
    BY <2>1 DEF Queued
  <2>3. \A m \in Nodes : Load(m, "crawl")' = Load(m, "crawl")
    BY <1>1, <2>1, <2>2 DEF Load, Stored
  <2>4. QED BY <1>2, <2>1, <2>3
<1>5. ASSUME NEW n \in Nodes, NEW l \in Loops, NEW s \in Slots, NEW ok \in BOOLEAN, Enqueue(n, l, s, ok)
      PROVE  Done
  <2>1. cache' = cache \/ \E q : cache' = [cache EXCEPT ![n]["index"] = q]
    BY <1>5 DEF Enqueue
  <2>2. \A m \in Nodes : cache'[m]["crawl"] = cache[m]["crawl"]
    BY <1>1, <2>1 DEF Queued
  <2>3. UNCHANGED <<seen, fetched, lost, disk>>
    BY <1>5 DEF Enqueue
  <2>4. QED BY <1>2, <2>2, <2>3 DEF Load, Stored
<1>12. ASSUME NEW n \in Nodes, NEW k \in Kinds, SaveFails(n, k) PROVE Done
  BY <1>12, SaveFailsAccounts
<1>13. ASSUME NEW n \in Nodes, NEW l \in Loops, NEW s \in Slots, TakeFails(n, l, s) PROVE Done
  BY <1>13, TakeFailsAccounts
<1>6. ASSUME NEW n \in Nodes, NEW l \in Loops, NEW s \in Slots, Take(n, l, s) PROVE Done
  BY <1>6, TakeAccounts
<1>7. ASSUME NEW b \in net, QueueURLs(b) PROVE Done
  <2> DEFINE n == b.to
             q == Load(n, "crawl")
             new == UpdateQueue(q, seen[n], b.urls)
  <2>1. n \in Nodes /\ b.urls \in Seq(URLs) /\ \A i \in 1..Len(b.urls) : b.urls[i] \in Own(n)
    BY DEF Queued, Messages
  <2>2. q \in Fine(n) /\ seen[n] \in SUBSET Own(n) /\ Accounted(n, q, seen[n])
    BY <2>1, LoadType DEF Queued
  <2> HIDE DEF q
  <2>3. new.queue \in Fine(n) /\ Accounted(n, new.queue, new.seen)
    BY <2>1, <2>2, UpdateQueueType, UpdateQueueAccounts
  <2>4. /\ UNCHANGED <<disk, fetched, lost>>
        /\ cache' = [cache EXCEPT ![n]["crawl"] = new.queue] /\ seen' = [seen EXCEPT ![n] = new.seen]
    BY <1>7 DEF QueueURLs, q
  <2> HIDE DEF new, n
  <2>5. \A m \in Nodes : /\ cache'[m]["crawl"] = IF m = n THEN new.queue ELSE cache[m]["crawl"]
                         /\ seen'[m] = IF m = n THEN new.seen ELSE seen[m]
    BY <1>1, <2>1, <2>4 DEF Queued
  <2>6. Load(n, "crawl")' = new.queue
    BY <2>1, <2>3, <2>5, LoadCached
  <2>7. \A m \in Nodes : m # n => Load(m, "crawl")' = Load(m, "crawl")
    BY <2>4, <2>5 DEF Load, Stored
  <2>8. QED BY <2>1, <2>3, <2>4, <2>5, <2>6, <2>7 DEF Accounted
<1>8. ASSUME NEW n \in Nodes,
             \/ \E reset \in BOOLEAN : Start(n, reset)
             \/ \E l \in Loops : Tick(n, l)
             \/ Stop(n) \/ SaveSeen(n)
      PROVE  UNCHANGED <<seen, fetched, lost, disk, cache>>
  BY <1>8 DEF Start, Tick, Stop, SaveSeen, storage
<1>9. ASSUME NEW n \in Nodes, NEW l \in Loops, NEW s \in Slots,
             \/ TickFails(n, l, s) \/ Indexed(n, l, s) \/ CutOff(n, l, s)
             \/ \E useful \in BOOLEAN : Download(n, l, s, useful)
             \/ \E m \in Nodes : BatchAnswer(n, l, s, m)
      PROVE  UNCHANGED <<seen, fetched, lost, disk, cache>>
  BY <1>9 DEF TickFails, Indexed, CutOff, Download, BatchAnswer, storage
<1>10. ASSUME Seed \/ \E b \in net : LoseBatch(b) PROVE UNCHANGED <<seen, fetched, lost, disk, cache>>
  BY <1>10 DEF Seed, LoseBatch, storage
<1> HIDE DEF Done
<1>11. Done
  BY <1>3, <1>4, <1>5, <1>6, <1>7, <1>8, <1>9, <1>10, <1>12, <1>13, Actions
<1>14. QED BY <1>11 DEF Done

LEMMA TrackedKept == ASSUME Invariant, Next PROVE Tracked'
<1> USE DEF Invariant
<1>1. SUFFICES ASSUME Undisturbed'
               PROVE  /\ ~seeded' => Fresh'
                      /\ seeded' => \A n \in Nodes : phase'[n] = "none" /\ latest'[n]["crawl"] = 1
                      /\ \A n \in Nodes : Accounted(n, Load(n, "crawl"), seen[n])'
  BY DEF Tracked, Accounted
<1>2. Undisturbed /\ \A n \in Nodes : ~Crash(n)
  BY <1>1, StillUndisturbed
<1>3. /\ ~seeded => Fresh
      /\ seeded => \A n \in Nodes : phase[n] = "none" /\ latest[n]["crawl"] = 1
      /\ \A n \in Nodes : Accounted(n, Load(n, "crawl"), seen[n])
  BY <1>2 DEF Tracked, Accounted
<1>4. CASE Seed
  <2>1. UNCHANGED <<phase, latest, cache, disk, seen, fetched, lost>> /\ seeded' /\ \A n \in Nodes : ready[n]
    BY <1>4 DEF Seed, memory, storage
  <2>2. \A n \in Nodes : phase[n] = "none" /\ latest[n]["crawl"] = 1
    <3>1. \A n \in Nodes : phase[n] = "none" /\ latest[n]["crawl"] > 0 /\ latest[n]["crawl"] <= 1
      BY <1>2, <2>1 DEF Starts, Undisturbed
    <3>2. \A n \in Nodes : latest[n]["crawl"] \in Int
      BY Assumptions DEF Starts, Kinds
    <3>3. QED BY <3>1, <3>2
  <2>3. \A n \in Nodes : Accounted(n, Load(n, "crawl"), seen[n])'
    BY <1>3, <2>1 DEF Accounted, Load, Stored
  <2>4. QED BY <2>1, <2>2, <2>3
<1>5. CASE ~Seed
  <2>1. seeded' = seeded
    <3>1. ASSUME NEW n \in Nodes,
                 \/ \E reset \in BOOLEAN : Start(n, reset)
                 \/ \E ok \in BOOLEAN : Advance(n, ok)
                 \/ \E k \in Kinds, keep \in BOOLEAN : Save(n, k, keep)
                 \/ \E k \in Kinds : SaveFails(n, k)
                 \/ \E l \in Loops : Tick(n, l)
                 \/ Stop(n) \/ SaveSeen(n)
          PROVE  seeded' = seeded
      BY <3>1 DEF Start, Advance, Save, SaveFails, Tick, Stop, SaveSeen
    <3>2. ASSUME NEW n \in Nodes, NEW l \in Loops, NEW s \in Slots,
                 \/ TickFails(n, l, s) \/ Take(n, l, s) \/ TakeFails(n, l, s) \/ Indexed(n, l, s) \/ CutOff(n, l, s)
                 \/ \E useful \in BOOLEAN : Download(n, l, s, useful)
                 \/ \E m \in Nodes : BatchAnswer(n, l, s, m)
                 \/ \E ok \in BOOLEAN : Enqueue(n, l, s, ok)
          PROVE  seeded' = seeded
      BY <3>2 DEF TickFails, Take, TakeFails, CutOff, Indexed, Download, BatchAnswer, Enqueue
    <3>3. ASSUME NEW b \in net, QueueURLs(b) \/ LoseBatch(b) PROVE seeded' = seeded
      BY <3>3 DEF QueueURLs, LoseBatch
    <3>4. QED BY <1>2, <1>5, <3>1, <3>2, <3>3, Actions
  <2>2. CASE ~seeded
    <3>1. Fresh'
      BY <1>2, <1>3, <1>5, <2>2, FreshKept
    <3>2. ASSUME NEW n \in Nodes PROVE Accounted(n, Load(n, "crawl"), seen[n])'
      <4>1. Load(n, "crawl")' = EmptyQueue
        BY <3>1 DEF Fresh, Load, Stored, Empty
      <4>2. EmptyQueue.urls = <<>> /\ \A u \in URLs : Count(<<>>, u) = 0
        BY EmptyIsFine DEF Count
      <4>3. \A u \in Own(n) : fetched'[u] = 0 /\ u \notin seen'[n]
        BY <3>1 DEF Fresh, Own
      <4>4. Own(n) \subseteq URLs
        BY DEF Own
      <4> HIDE DEF Invariant
      <4>5. QED BY <4>1, <4>2, <4>3, <4>4 DEF Accounted
    <3>3. QED BY <2>1, <2>2, <3>1, <3>2
  <2>3. CASE seeded
    <3>1. \A n \in Nodes : phase[n] = "none" /\ latest[n]["crawl"] = 1
      BY <1>3, <2>3
    <3>2. \A n \in Nodes : \A ok \in BOOLEAN : ~Advance(n, ok)
      BY <3>1 DEF Advance
    <3>3. \A n \in Nodes : \A reset \in BOOLEAN : ~Start(n, reset)
      <4>1. SUFFICES ASSUME NEW n \in Nodes, NEW reset \in BOOLEAN, Start(n, reset) PROVE FALSE
        OBVIOUS
      <4>2. latest'[n]["crawl"] = 2
        BY <3>1, <4>1 DEF Start, Begin, Starts, Kinds
      <4>3. QED BY <1>1, <4>2 DEF Undisturbed
    <3>4. \A n \in Nodes : Accounted(n, Load(n, "crawl"), seen[n])'
      BY <1>2, <1>3, <3>2, AccountsKept
    <3>5. UNCHANGED <<phase, latest>>
      <4>1. ASSUME NEW n \in Nodes,
                   \/ \E k \in Kinds, keep \in BOOLEAN : Save(n, k, keep)
                   \/ \E k \in Kinds : SaveFails(n, k)
                   \/ \E l \in Loops : Tick(n, l)
                   \/ Stop(n) \/ SaveSeen(n)
            PROVE  UNCHANGED <<phase, latest>>
        BY <4>1 DEF Save, SaveFails, Tick, Stop, SaveSeen, memory
      <4>2. ASSUME NEW n \in Nodes, NEW l \in Loops, NEW s \in Slots,
                   \/ TickFails(n, l, s) \/ Take(n, l, s) \/ TakeFails(n, l, s) \/ Indexed(n, l, s) \/ CutOff(n, l, s)
                   \/ \E useful \in BOOLEAN : Download(n, l, s, useful)
                   \/ \E m \in Nodes : BatchAnswer(n, l, s, m)
                   \/ \E ok \in BOOLEAN : Enqueue(n, l, s, ok)
            PROVE  UNCHANGED <<phase, latest>>
        BY <4>2 DEF TickFails, Take, TakeFails, CutOff, Indexed, Download, BatchAnswer, Enqueue, memory
      <4>3. ASSUME NEW b \in net, QueueURLs(b) \/ LoseBatch(b) PROVE UNCHANGED <<phase, latest>>
        BY <4>3 DEF QueueURLs, LoseBatch, memory
      <4>4. QED BY <1>2, <1>5, <3>2, <3>3, <4>1, <4>2, <4>3, Actions
    <3>6. QED BY <2>1, <2>3, <3>1, <3>4, <3>5
  <2>4. QED BY <2>2, <2>3
<1>6. QED BY <1>4, <1>5

LEMMA InvariantKept == Invariant /\ [Next]_vars => Invariant'
<1>1. ASSUME Invariant, Next PROVE Invariant'
  BY <1>1, StartsKept, WorkKept, QueuedKept, TrackedKept DEF Invariant
<1>2. ASSUME Invariant, UNCHANGED vars PROVE Invariant'
  <2>1. UNCHANGED <<setting, stopped, live, latest, phase, ready, active, work,
                    cache, disk, seen, seenDisk, net, seeded, fetched, lost, crashes>>
    BY <1>2 DEF vars, memory, storage
  <2>2. Starts' /\ Working' /\ Queued'
    BY <1>2, <2>1 DEF Invariant, Starts, Working, WorkType, ActiveCountsPages, Queued
  <2>3. Tracked'
    BY <1>2, <2>1 DEF Invariant, Tracked, Undisturbed, Fresh, Load, Stored
  <2>4. QED BY <2>2, <2>3 DEF Invariant
<1>3. QED BY <1>1, <1>2

LEMMA InvariantHolds == Spec => []Invariant
<1>1. Init => Invariant
  BY InitInvariant
<1>2. QED BY <1>1, InvariantKept, PTL DEF Spec

----------------------------------------------------------------------------
(* The theorems *)

\* Every state of the crawl cycle is of its types.
THEOREM CrawlerTypeCorrect == Spec => []CrawlerTypeOK
<1>1. ASSUME Invariant PROVE CrawlerTypeOK
  <2>1. \A n \in Nodes : Fine(n) \subseteq Bounded
    BY DEF Fine, Bounded
  <2>2. active \in [Nodes -> [Loops -> Nat]]
    BY <1>1, BusyFinite DEF Invariant, Working, WorkType, ActiveCountsPages, Busy
  <2>3. net \subseteq [to : Nodes, urls : Seq(URLs)]
    BY <1>1 DEF Invariant, Queued, Messages
  <2>4. /\ work \in [Nodes -> [Loops -> [Slots -> {Idle, Pending} \cup Pages]]]
        /\ setting \in Settings /\ stopped \in [Nodes -> BOOLEAN] /\ ready \in [Nodes -> BOOLEAN]
        /\ live \in [Nodes -> SUBSET Loops] /\ latest \in [Nodes -> [Kinds -> 0..MaxStarts]]
        /\ phase \in [Nodes -> Steps] /\ seeded \in BOOLEAN /\ crashes \in 0..MaxCrashes
    BY <1>1 DEF Invariant, Starts, Working, WorkType
  <2>5. /\ seen \in [Nodes -> SUBSET URLs] /\ seenDisk \in [Nodes -> (SUBSET URLs) \cup {Absent}]
        /\ fetched \in [URLs -> 0..2] /\ lost \subseteq URLs
        /\ \A n \in Nodes :
             /\ cache[n]["crawl"] \in Fine(n) \cup {NotCached} /\ cache[n]["index"] \in Seq(URLs) \cup {NotCached}
             /\ disk[n]["crawl"] \in Fine(n) \cup {Absent} /\ disk[n]["index"] \in Seq(URLs) \cup {Absent}
    BY <1>1 DEF Invariant, Queued
  <2>6. QED BY <2>1, <2>2, <2>3, <2>4, <2>5 DEF CrawlerTypeOK, Steps
<1>2. QED BY <1>1, InvariantHolds, PTL

\* The counter of each loop is the number of pages it works on, and one more
\* than its limit at most, however many loops and nodes there are.
THEOREM LoopsCountTheirPages == Spec => []ActiveCountsPages
<1>1. Invariant => ActiveCountsPages
  BY DEF Invariant, Working
<1>2. QED BY <1>1, InvariantHolds, PTL

\* The domain counts that updateQueue tests are those of the queue.
THEOREM QueuesCountTheirDomains == Spec => []DomainsCountQueue
<1>1. ASSUME Invariant PROVE DomainsCountQueue
  <2>1. ASSUME NEW n \in Nodes, NEW d \in Domains, NEW q, q = Load(n, "crawl")
        PROVE  q.domains[d] = Cardinality({i \in DOMAIN q.urls : Domain[q.urls[i]] = d})
    <3>1. q \in Fine(n)
      BY <1>1, <2>1, LoadType DEF Invariant
    <3>2. q.urls \in Seq(URLs) /\ q.domains[d] = Cardinality(At(q.urls, In(d)))
      BY <3>1 DEF Fine, Queues
    <3>3. DOMAIN q.urls = 1..Len(q.urls) /\ \A i \in 1..Len(q.urls) : q.urls[i] \in URLs
      BY <3>2, LenProperties, ElementOfSeq
    <3>4. {i \in DOMAIN q.urls : Domain[q.urls[i]] = d} = At(q.urls, In(d))
      BY <3>3 DEF At, In
    <3>5. QED BY <3>2, <3>4
  <2>2. QED BY <2>1 DEF DomainsCountQueue
<1>2. QED BY <1>1, InvariantHolds, PTL

\* Until a node crashes or starts again, no URL is crawled or queued twice,
\* and none that was seen is neither queued nor crawled, but for those lost.
LEMMA TrackedMeans == ASSUME Invariant PROVE CrawledOnce /\ NoUrlForgotten
<1>1. SUFFICES ASSUME Undisturbed
               PROVE  /\ \A u \in URLs \ lost : fetched[u] + Copies(Load(Home[u], "crawl"), u) <= 1
                      /\ SeenIsQueuedOrCrawled
  BY DEF CrawledOnce, NoUrlForgotten
<1>2. ASSUME NEW n \in Nodes, NEW u \in Own(n) \ lost, NEW q, q = Load(n, "crawl")
      PROVE  /\ fetched[u] + Copies(q, u) = IF u \in seen[n] THEN 1 ELSE 0
             /\ Copies(q, u) > 0 => u \in ToSet(q.urls)
             /\ Copies(q, u) \in Nat
  <2>1. q.urls \in Seq(URLs)
    BY <1>2, LoadType DEF Invariant, Fine, Queues
  <2>2. DOMAIN q.urls = 1..Len(q.urls)
    BY <2>1, LenProperties
  <2>3. Copies(q, u) = Count(q.urls, u)
    BY <2>1, CopiesAreCounts
  <2>4. fetched[u] + Count(q.urls, u) = IF u \in seen[n] THEN 1 ELSE 0
    BY <1>1, <1>2 DEF Invariant, Tracked
  <2>5. At(q.urls, {u}) = {} => Count(q.urls, u) = 0
    BY FS_EmptySet DEF Count
  <2>6. At(q.urls, {u}) # {} => u \in ToSet(q.urls)
    BY <2>2 DEF At, ToSet
  <2>7. Count(q.urls, u) \in Nat
    BY <2>1, AtFinite DEF Count
  <2>8. Count(q.urls, u) > 0 => u \in ToSet(q.urls)
    BY <2>5, <2>6
  <2> HIDE DEF Undisturbed
  <2>9. QED BY <2>3, <2>4, <2>7, <2>8, Zenon
<1>3. ASSUME NEW u \in URLs \ lost PROVE fetched[u] + Copies(Load(Home[u], "crawl"), u) <= 1
  <2>1. Home[u] \in Nodes /\ u \in Own(Home[u]) \ lost
    BY Assumptions DEF Own
  <2>2. fetched[u] + Copies(Load(Home[u], "crawl"), u) \in {0, 1}
    BY <1>2, <2>1
  <2>3. QED BY <2>2
<1>4. ASSUME NEW n \in Nodes, NEW u \in seen[n] \ lost
      PROVE  fetched[u] > 0 \/ u \in ToSet(Load(n, "crawl").urls)
  <2>1. u \in Own(n) \ lost /\ fetched[u] \in Nat
    BY DEF Invariant, Queued, Own
  <2> DEFINE q == Load(n, "crawl")
  <2>2. fetched[u] + Copies(q, u) = 1 /\ Copies(q, u) \in Nat /\ (Copies(q, u) > 0 => u \in ToSet(q.urls))
    BY <1>2, <2>1
  <2> HIDE DEF q
  <2>3. fetched[u] = 0 => Copies(q, u) = 1
    BY <2>1, <2>2
  <2>4. QED BY <2>1, <2>2, <2>3 DEF q
<1>5. QED BY <1>3, <1>4 DEF SeenIsQueuedOrCrawled

\* SEEN_URLS does what it is for until a node crashes or starts again: a URL
\* is crawled at most once, unless a failed write back lost it.
THEOREM UrlsAreCrawledOnce == Spec => []CrawledOnce
<1>1. Invariant => CrawledOnce
  BY TrackedMeans
<1>2. QED BY <1>1, InvariantHolds, PTL

\* As long as no node crashes or starts again a URL that was seen is queued or
\* was crawled, whatever else fails: only a failed write back of an evicted
\* value loses URLs, and only those that the file held differently.
THEOREM UrlsAreNotForgotten == Spec => []NoUrlForgotten
<1>1. Invariant => NoUrlForgotten
  BY TrackedMeans
<1>2. QED BY <1>1, InvariantHolds, PTL
=============================================================================
