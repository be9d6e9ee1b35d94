--------------------------- MODULE LruCache_proofs ---------------------------
(***************************************************************************)
(* Proofs about util/cache.js, for every set of keys and values, every     *)
(* capacity and both eviction policies.                                    *)
(*                                                                         *)
(* The invariant says that some order of the cached keys is the list: its  *)
(* first and last keys are the head and the tail, and every node is linked *)
(* to its neighbours in it.  Each operation takes a key from its position, *)
(* moves one to the front, or puts one there, and the entries in that      *)
(* order are those of the abstract sequence of RecencyCache.               *)
(***************************************************************************)
EXTENDS LruCache, SequenceTheorems, FiniteSetTheorems, WellFoundedInduction, TLAPS

----------------------------------------------------------------------------
(* Lists in order *)

\* The key at a position of an order of n keys, Null before the first and
\* after the last.
At(s, n, i) == IF i \in 1..n THEN s[i] ELSE Null

Orders(n) == {s \in [1..n -> Keys] : \A i, j \in 1..n : s[i] = s[j] => i = j}

Node(v, p, q) == [value |-> v, prev |-> p, next |-> q]

\* The nodes of a mapping are those of the order, each linked to its neighbours.
Linked(keys, s, n) ==
  /\ keys = [x \in {s[i] : i \in 1..n} |-> keys[x]]
  /\ \A i \in 1..n : /\ s[i] \in DOMAIN keys /\ keys[s[i]].value \in Values
                     /\ keys[s[i]].prev = At(s, n, i - 1) /\ keys[s[i]].next = At(s, n, i + 1)
                     /\ keys[s[i]] = Node(keys[s[i]].value, keys[s[i]].prev, keys[s[i]].next)

\* The cache is the list of these keys, from its head to its tail.
Lists(c, s, n) ==
  /\ n \in 0..Capacity /\ s \in Orders(n)
  /\ c = [head |-> At(s, n, 1), tail |-> At(s, n, n), size |-> n, keys |-> c.keys]
  /\ Linked(c.keys, s, n)

LEMMA Constants == Capacity \in Nat /\ Capacity > 0 /\ Null \notin Keys
BY LruAssumption

LEMMA Positions ==
  ASSUME NEW n \in Nat, NEW s \in Orders(n)
  PROVE  /\ \A i \in 1..n : s[i] \in Keys /\ s[i] # Null /\ At(s, n, i) = s[i]
         /\ \A i \in 1..n, j \in 1..n : s[i] = s[j] => i = j
         /\ \A i \in 1..n, j \in Int : s[i] = At(s, n, j) <=> i = j
         /\ \A j \in Int : At(s, n, j) = Null <=> j \notin 1..n
<1>1. \A i \in 1..n : s[i] \in Keys /\ s[i] # Null /\ At(s, n, i) = s[i]
  BY Constants DEF Orders, At
<1>2. \A i \in 1..n, j \in 1..n : s[i] = s[j] => i = j
  BY DEF Orders
<1>3. QED BY <1>1, <1>2 DEF At

\* A key taken from its position.
Taken(s, n, p) == [i \in 1..(n - 1) |-> IF i < p THEN s[i] ELSE s[i + 1]]
\* A key put in front.
Pushed(s, n, k) == [i \in 1..(n + 1) |-> IF i = 1 THEN k ELSE s[i - 1]]
\* A key moved to the front.
Moved(s, n, p) == [i \in 1..n |-> IF i = 1 THEN s[p] ELSE IF i <= p THEN s[i - 1] ELSE s[i]]

LEMMA TakenOrder ==
  ASSUME NEW n \in Nat, NEW s \in Orders(n), NEW p \in 1..n
  PROVE  /\ Taken(s, n, p) \in Orders(n - 1)
         /\ {Taken(s, n, p)[i] : i \in 1..(n - 1)} = {s[i] : i \in 1..n} \ {s[p]}
         /\ \A i \in 1..(n - 1) : Taken(s, n, p)[i] = IF i < p THEN s[i] ELSE s[i + 1]
<1> DEFINE d == Taken(s, n, p)
<1>1. /\ n - 1 \in Nat
      /\ \A i \in 1..(n - 1) : d[i] = IF i < p THEN s[i] ELSE s[i + 1]
      /\ \A i \in 1..n : s[i] \in Keys
  BY Positions DEF Taken
<1>2. \A i \in 1..(n - 1) : d[i] \in Keys
  BY <1>1
<1>3. d \in [1..(n - 1) -> Keys]
  BY <1>2 DEF Taken
<1> HIDE DEF d
<1>4. \A i, j \in 1..(n - 1) : d[i] = d[j] => i = j
  BY <1>1, Positions
<1>5. ASSUME NEW x \in {d[i] : i \in 1..(n - 1)} PROVE x \in {s[i] : i \in 1..n} \ {s[p]}
  BY <1>1, Positions
<1>6. ASSUME NEW x \in {s[i] : i \in 1..n} \ {s[p]} PROVE x \in {d[i] : i \in 1..(n - 1)}
  <2>1. PICK i \in 1..n : x = s[i]
    OBVIOUS
  <2>2. i # p
    BY <2>1
  <2>3. CASE i < p
    <3>1. i \in 1..(n - 1) /\ d[i] = x
      BY <1>1, <2>1, <2>3
    <3>2. QED BY <3>1
  <2>4. CASE i > p
    <3>1. i - 1 \in 1..(n - 1) /\ d[i - 1] = x
      BY <1>1, <2>1, <2>4
    <3>2. QED BY <3>1
  <2>5. QED BY <2>2, <2>3, <2>4
<1>7. d \in Orders(n - 1)
  BY <1>3, <1>4 DEF Orders
<1>8. QED BY <1>1, <1>5, <1>6, <1>7 DEF d

LEMMA PushedOrder ==
  ASSUME NEW n \in Nat, NEW s \in Orders(n), NEW k \in Keys, k \notin {s[i] : i \in 1..n}
  PROVE  /\ Pushed(s, n, k) \in Orders(n + 1)
         /\ {Pushed(s, n, k)[i] : i \in 1..(n + 1)} = {s[i] : i \in 1..n} \cup {k}
<1> DEFINE d == Pushed(s, n, k)
<1>1. /\ \A i \in 1..(n + 1) : d[i] = IF i = 1 THEN k ELSE s[i - 1]
      /\ \A i \in 1..n : s[i] \in Keys
  BY Positions DEF Pushed
<1>2. \A i \in 1..(n + 1) : d[i] \in Keys
  BY <1>1
<1>3. d \in [1..(n + 1) -> Keys]
  BY <1>2 DEF Pushed
<1> HIDE DEF d
<1>4. \A i, j \in 1..(n + 1) : d[i] = d[j] => i = j
  <2>1. SUFFICES ASSUME NEW i \in 1..(n + 1), NEW j \in 1..(n + 1), d[i] = d[j] PROVE i = j
    OBVIOUS
  <2>2. CASE i # 1 /\ j # 1
    <3>1. i - 1 \in 1..n /\ j - 1 \in 1..n /\ s[i - 1] = s[j - 1]
      BY <1>1, <2>1, <2>2
    <3>2. QED BY <3>1, Positions
  <2>3. CASE i = 1 \/ j = 1
    <3>1. \A m \in 1..(n + 1) : m # 1 => m - 1 \in 1..n /\ d[m] = s[m - 1] /\ d[m] # k
      BY <1>1
    <3>2. d[1] = k
      BY <1>1
    <3>3. QED BY <2>1, <2>3, <3>1, <3>2
  <2>4. QED BY <2>2, <2>3
<1>5. ASSUME NEW x \in {d[i] : i \in 1..(n + 1)} PROVE x \in {s[i] : i \in 1..n} \cup {k}
  <2>1. PICK i \in 1..(n + 1) : x = d[i]
    OBVIOUS
  <2>2. i # 1 => i - 1 \in 1..n
    OBVIOUS
  <2>3. QED BY <1>1, <2>1, <2>2
<1>6. ASSUME NEW x \in {s[i] : i \in 1..n} \cup {k} PROVE x \in {d[i] : i \in 1..(n + 1)}
  <2>1. CASE x = k
    <3>1. 1 \in 1..(n + 1) /\ d[1] = x
      BY <1>1, <2>1
    <3>2. QED BY <3>1
  <2>2. CASE x # k
    <3>1. PICK i \in 1..n : x = s[i]
      BY <2>2
    <3>2. i + 1 \in 1..(n + 1) /\ d[i + 1] = x
      BY <1>1, <3>1
    <3>3. QED BY <3>2
  <2>3. QED BY <2>1, <2>2
<1>7. d \in Orders(n + 1)
  BY <1>3, <1>4 DEF Orders
<1>8. QED BY <1>1, <1>5, <1>6, <1>7 DEF d

LEMMA MovedOrder ==
  ASSUME NEW n \in Nat, NEW s \in Orders(n), NEW p \in 1..n
  PROVE  /\ Moved(s, n, p) \in Orders(n)
         /\ {Moved(s, n, p)[i] : i \in 1..n} = {s[i] : i \in 1..n}
<1> DEFINE d == Moved(s, n, p)
<1>1. /\ \A i \in 1..n : d[i] = IF i = 1 THEN s[p] ELSE IF i <= p THEN s[i - 1] ELSE s[i]
      /\ \A i \in 1..n : s[i] \in Keys
  BY Positions DEF Moved
<1>2. \A i \in 1..n : d[i] \in Keys
  BY <1>1
<1>3. d \in [1..n -> Keys]
  BY <1>2 DEF Moved
<1> HIDE DEF d
<1>4. \A i, j \in 1..n : d[i] = d[j] => i = j
  BY <1>1, Positions
<1>5. ASSUME NEW x \in {d[i] : i \in 1..n} PROVE x \in {s[i] : i \in 1..n}
  <2>1. PICK i \in 1..n : x = d[i]
    OBVIOUS
  <2>2. (IF i = 1 THEN p ELSE IF i <= p THEN i - 1 ELSE i) \in 1..n
    OBVIOUS
  <2>3. QED BY <1>1, <2>1, <2>2
<1>6. ASSUME NEW x \in {s[i] : i \in 1..n} PROVE x \in {d[i] : i \in 1..n}
  <2>1. PICK i \in 1..n : x = s[i]
    OBVIOUS
  <2>2. (IF i = p THEN 1 ELSE IF i < p THEN i + 1 ELSE i) \in 1..n
    OBVIOUS
  <2>3. d[IF i = p THEN 1 ELSE IF i < p THEN i + 1 ELSE i] = x
    BY <1>1, <2>1, <2>2
  <2>4. QED BY <2>2, <2>3
<1>7. d \in Orders(n)
  BY <1>3, <1>4 DEF Orders
<1>8. QED BY <1>1, <1>5, <1>6, <1>7 DEF d

----------------------------------------------------------------------------
(* Links *)

LEMMA NodeFields ==
  ASSUME NEW v, NEW p, NEW q
  PROVE  Node(v, p, q).value = v /\ Node(v, p, q).prev = p /\ Node(v, p, q).next = q
BY DEF Node

\* The nodes after the links past one of them are set.
Bypassed(sp, keys, s, n, p) ==
  /\ DOMAIN sp = {s[i] : i \in 1..n}
  /\ \A i \in 1..n : sp[s[i]] =
       Node(keys[s[i]].value, IF i = p + 1 THEN At(s, n, p - 1) ELSE At(s, n, i - 1),
                              IF i = p - 1 THEN At(s, n, p + 1) ELSE At(s, n, i + 1))

LEMMA SplicedNodes ==
  ASSUME NEW n \in Nat, NEW s \in Orders(n), NEW keys, Linked(keys, s, n), NEW p \in 1..n
  PROVE  Bypassed(Spliced(keys, s[p]), keys, s, n, p)
<1>1. DOMAIN keys = {s[i] : i \in 1..n}
  BY DEF Linked
<1>2. ASSUME NEW i \in 1..n
      PROVE  Spliced(keys, s[p])[s[i]] =
               Node(keys[s[i]].value, IF i = p + 1 THEN At(s, n, p - 1) ELSE At(s, n, i - 1),
                                      IF i = p - 1 THEN At(s, n, p + 1) ELSE At(s, n, i + 1))
  <2>1. /\ keys[s[p]].prev = At(s, n, p - 1) /\ keys[s[p]].next = At(s, n, p + 1)
        /\ keys[s[i]].prev = At(s, n, i - 1) /\ keys[s[i]].next = At(s, n, i + 1)
        /\ keys[s[i]] = Node(keys[s[i]].value, keys[s[i]].prev, keys[s[i]].next)
        /\ s[i] \in DOMAIN keys
    BY DEF Linked
  <2>2. (s[i] = At(s, n, p - 1) <=> i = p - 1) /\ (s[i] = At(s, n, p + 1) <=> i = p + 1)
    BY Positions
  <2> DEFINE r == keys[s[i]]
  <2>3. r = [value |-> r.value, prev |-> r.prev, next |-> r.next]
    BY <2>1 DEF Node
  <2>4. Spliced(keys, s[p])[s[i]] =
          [r EXCEPT !.next = IF s[i] = keys[s[p]].prev THEN keys[s[p]].next ELSE @,
                    !.prev = IF s[i] = keys[s[p]].next THEN keys[s[p]].prev ELSE @]
    BY <2>1 DEF Spliced
  <2>5. Spliced(keys, s[p])[s[i]] =
          Node(r.value, IF s[i] = keys[s[p]].next THEN keys[s[p]].prev ELSE r.prev,
                        IF s[i] = keys[s[p]].prev THEN keys[s[p]].next ELSE r.next)
    <3> HIDE DEF r
    <3>1. QED BY <2>3, <2>4 DEF Node
  <2>6. QED BY <2>1, <2>2, <2>5
<1>3. QED BY <1>1, <1>2 DEF Spliced, Bypassed

\* The nodes after the first, if any, got a predecessor.
After(keys, old, s, n, k) ==
  /\ DOMAIN keys = {s[i] : i \in 1..n}
  /\ \A i \in 1..n : keys[s[i]] =
       Node(old[s[i]].value, IF i = 1 THEN k ELSE old[s[i]].prev, old[s[i]].next)

LEMMA HeadNodes ==
  ASSUME NEW n \in Nat, NEW s \in Orders(n), NEW k, NEW keys, DOMAIN keys = {s[i] : i \in 1..n},
         \A i \in 1..n : keys[s[i]] = Node(keys[s[i]].value, keys[s[i]].prev, keys[s[i]].next)
  PROVE  After(HeadAfter(keys, At(s, n, 1), k), keys, s, n, k)
<1>1. ASSUME NEW i \in 1..n
      PROVE  HeadAfter(keys, At(s, n, 1), k)[s[i]] =
               Node(keys[s[i]].value, IF i = 1 THEN k ELSE keys[s[i]].prev, keys[s[i]].next)
  <2> DEFINE r == keys[s[i]]
  <2>1. r = [value |-> r.value, prev |-> r.prev, next |-> r.next]
    BY DEF Node
  <2>2. s[i] = At(s, n, 1) <=> i = 1
    BY Positions
  <2>3. s[i] \in DOMAIN keys
    OBVIOUS
  <2>4. HeadAfter(keys, At(s, n, 1), k)[s[i]] = IF i = 1 THEN [r EXCEPT !.prev = k] ELSE r
    BY <2>2, <2>3 DEF HeadAfter
  <2>5. [r EXCEPT !.prev = k] = Node(r.value, k, r.next)
    <3> HIDE DEF r
    <3>1. QED BY <2>1 DEF Node
  <2>6. QED BY <2>1, <2>4, <2>5 DEF Node
<1>2. QED BY <1>1 DEF HeadAfter, After

\* del: the rest of the list, in its order.
LEMMA RestLinked ==
  ASSUME NEW n \in Nat, NEW s \in Orders(n), NEW keys, Linked(keys, s, n), NEW p \in 1..n
  PROVE  /\ Linked(WithoutKey(Spliced(keys, s[p]), s[p]), Taken(s, n, p), n - 1)
         /\ \A x \in DOMAIN keys \ {s[p]} : WithoutKey(Spliced(keys, s[p]), s[p])[x].value = keys[x].value
<1> DEFINE sp == Spliced(keys, s[p])
           new == WithoutKey(sp, s[p])
           d == Taken(s, n, p)
<1>1. Bypassed(sp, keys, s, n, p)
  BY SplicedNodes
<1>2. /\ d \in Orders(n - 1)
      /\ {d[i] : i \in 1..(n - 1)} = {s[i] : i \in 1..n} \ {s[p]}
      /\ \A i \in 1..(n - 1) : d[i] = IF i < p THEN s[i] ELSE s[i + 1]
  BY TakenOrder
<1>3. /\ \A i \in 1..n : keys[s[i]].value \in Values
      /\ DOMAIN keys = {s[i] : i \in 1..n} /\ n - 1 \in Nat
  BY DEF Linked
<1> HIDE DEF sp, d
<1>4. new = [x \in {d[i] : i \in 1..(n - 1)} |-> sp[x]]
  BY <1>1, <1>2 DEF WithoutKey, Bypassed
<1> HIDE DEF new
<1>5. ASSUME NEW i \in 1..(n - 1)
      PROVE  /\ new[d[i]].value \in Values
             /\ new[d[i]].prev = At(d, n - 1, i - 1) /\ new[d[i]].next = At(d, n - 1, i + 1)
             /\ new[d[i]] = Node(new[d[i]].value, new[d[i]].prev, new[d[i]].next)
  <2> DEFINE j == IF i < p THEN i ELSE i + 1
  <2>1. j \in 1..n /\ j # p /\ d[i] = s[j] /\ new[d[i]] = sp[s[j]]
    BY <1>2, <1>4
  <2>2. /\ (IF j = p + 1 THEN At(s, n, p - 1) ELSE At(s, n, j - 1)) = At(d, n - 1, i - 1)
        /\ (IF j = p - 1 THEN At(s, n, p + 1) ELSE At(s, n, j + 1)) = At(d, n - 1, i + 1)
    <3>1. CASE i < p
      BY <1>2, <3>1 DEF At
    <3>2. CASE i >= p
      BY <1>2, <3>2 DEF At
    <3>3. QED BY <3>1, <3>2
  <2> HIDE DEF j
  <2>3. new[d[i]] = Node(keys[s[j]].value, At(d, n - 1, i - 1), At(d, n - 1, i + 1))
    BY <1>1, <2>1, <2>2 DEF Bypassed
  <2>4. /\ new[d[i]].value = keys[s[j]].value
        /\ new[d[i]].prev = At(d, n - 1, i - 1) /\ new[d[i]].next = At(d, n - 1, i + 1)
    BY <2>3 DEF Node
  <2>5. QED BY <1>3, <2>1, <2>3, <2>4
<1>6. Linked(new, d, n - 1)
  BY <1>4, <1>5 DEF Linked
<1>7. ASSUME NEW x \in DOMAIN keys \ {s[p]} PROVE new[x].value = keys[x].value
  <2>1. PICK i \in 1..n : x = s[i]
    BY <1>3
  <2>2. new[x] = sp[s[i]]
    <3>1. x \in {d[j] : j \in 1..(n - 1)}
      BY <1>2, <1>3
    <3>2. new[x] = sp[x]
      BY <1>4, <3>1, Zenon
    <3>3. QED BY <2>1, <3>2
  <2>3. sp[s[i]].value = keys[s[i]].value
    BY <1>1, NodeFields DEF Bypassed
  <2>4. QED BY <2>1, <2>2, <2>3
<1>8. QED BY <1>6, <1>7 DEF new, d, sp

----------------------------------------------------------------------------
(* The operations of the list *)

\* insert: the new key in front of the others.
LEMMA InsertedLinked ==
  ASSUME NEW n \in Nat, NEW s \in Orders(n), NEW keys, Linked(keys, s, n),
         NEW k \in Keys, k \notin {s[i] : i \in 1..n}, NEW v \in Values, NEW new,
         new = [x \in {s[i] : i \in 1..n} \cup {k} |->
                  IF x = k THEN Node(v, Null, At(s, n, 1)) ELSE HeadAfter(keys, At(s, n, 1), k)[x]]
  PROVE  /\ Linked(new, Pushed(s, n, k), n + 1)
         /\ new[k].value = v
         /\ \A x \in DOMAIN keys : new[x].value = keys[x].value
<1> DEFINE after == HeadAfter(keys, At(s, n, 1), k)
           d == Pushed(s, n, k)
<1>1. /\ d \in Orders(n + 1) /\ {d[i] : i \in 1..(n + 1)} = {s[i] : i \in 1..n} \cup {k}
      /\ \A i \in 1..(n + 1) : d[i] = IF i = 1 THEN k ELSE s[i - 1]
  <2>1. d \in Orders(n + 1) /\ {d[i] : i \in 1..(n + 1)} = {s[i] : i \in 1..n} \cup {k}
    <3>1. n \in Nat /\ s \in Orders(n) /\ k \in Keys /\ k \notin {s[i] : i \in 1..n}
      OBVIOUS
    <3>2. QED BY ONLY <3>1, PushedOrder, ZenonT(60)
  <2>2. QED BY <2>1 DEF Pushed
<1>2. After(after, keys, s, n, k)
  BY HeadNodes DEF Linked
<1>3. \A i \in 1..n : s[i] # k /\ s[i] \in DOMAIN new
  OBVIOUS
<1> HIDE DEF after, d
<1>4. new[k] = Node(v, Null, At(s, n, 1)) /\ \A i \in 1..n : new[s[i]] = after[s[i]]
  BY <1>3 DEF after
<1>5. ASSUME NEW i \in 1..(n + 1)
      PROVE  /\ new[d[i]].value \in Values
             /\ new[d[i]].prev = At(d, n + 1, i - 1) /\ new[d[i]].next = At(d, n + 1, i + 1)
             /\ new[d[i]] = Node(new[d[i]].value, new[d[i]].prev, new[d[i]].next)
  <2>1. CASE i = 1
    <3>1. d[i] = k /\ At(d, n + 1, i - 1) = Null /\ At(d, n + 1, i + 1) = At(s, n, 1)
      BY <1>1, <2>1 DEF At
    <3>2. QED BY <1>4, <3>1 DEF Node
  <2>2. CASE i # 1
    <3> DEFINE j == i - 1
    <3>a. j \in 1..n /\ d[i] = s[j]
      BY <1>1, <2>2
    <3>b. At(d, n + 1, i + 1) = At(s, n, j + 1)
      BY <1>1, <2>2 DEF At
    <3>c. At(d, n + 1, i - 1) = IF j = 1 THEN k ELSE At(s, n, j - 1)
      <4>1. CASE j = 1
        BY <1>1, <4>1 DEF At
      <4>2. CASE j # 1
        BY <1>1, <2>2, <4>2 DEF At
      <4>3. QED BY <4>1, <4>2
    <3> HIDE DEF j
    <3>1. j \in 1..n /\ d[i] = s[j] /\ At(d, n + 1, i + 1) = At(s, n, j + 1)
          /\ At(d, n + 1, i - 1) = IF j = 1 THEN k ELSE At(s, n, j - 1)
      BY <3>a, <3>b, <3>c
    <3>2. /\ keys[s[j]].value \in Values
          /\ keys[s[j]].prev = At(s, n, j - 1) /\ keys[s[j]].next = At(s, n, j + 1)
      BY <3>1 DEF Linked
    <3>3. new[d[i]] = Node(keys[s[j]].value, IF j = 1 THEN k ELSE keys[s[j]].prev, keys[s[j]].next)
      BY <1>2, <1>4, <3>1 DEF After
    <3>4. QED BY <3>1, <3>2, <3>3 DEF Node
  <2>3. QED BY <2>1, <2>2
<1>6. \A i \in 1..(n + 1) : d[i] \in DOMAIN new
  BY <1>1
<1>7. new = [x \in {d[i] : i \in 1..(n + 1)} |-> new[x]]
  BY <1>1
<1>8. Linked(new, d, n + 1)
  BY <1>5, <1>6, <1>7 DEF Linked
<1>9. ASSUME NEW x \in DOMAIN keys PROVE new[x].value = keys[x].value
  <2>1. DOMAIN keys = {s[i] : i \in 1..n}
    BY DEF Linked
  <2>2. PICK i \in 1..n : x = s[i]
    BY <2>1
  <2>3. after[s[i]].value = keys[s[i]].value
    BY <1>2, NodeFields DEF After
  <2>4. QED BY <1>4, <2>2, <2>3
<1>10. new[k].value = v
  BY <1>4 DEF Node
<1>11. QED BY <1>8, <1>9, <1>10 DEF d

\* evict: the list without its last key.
WithoutLast(keys, s, n) ==
  IF n = 1 THEN WithoutKey(keys, s[n]) ELSE [WithoutKey(keys, s[n]) EXCEPT ![s[n - 1]].next = Null]

LEMMA EvictedLinked ==
  ASSUME NEW n \in Nat, NEW s \in Orders(n), NEW keys, Linked(keys, s, n), n > 0
  PROVE  /\ Linked(WithoutLast(keys, s, n), Taken(s, n, n), n - 1)
         /\ \A x \in DOMAIN keys \ {s[n]} : WithoutLast(keys, s, n)[x].value = keys[x].value
<1> DEFINE d == Taken(s, n, n)
           rest == WithoutKey(keys, s[n])
           new == WithoutLast(keys, s, n)
<1>0. n \in 1..n /\ n - 1 \in Nat
  OBVIOUS
<1>1. /\ d \in Orders(n - 1)
      /\ {d[i] : i \in 1..(n - 1)} = {s[i] : i \in 1..n} \ {s[n]}
      /\ \A i \in 1..(n - 1) : d[i] = IF i < n THEN s[i] ELSE s[i + 1]
  BY <1>0, TakenOrder
<1>2. DOMAIN keys = {s[i] : i \in 1..n}
  BY DEF Linked
<1> HIDE DEF d
<1>3. rest = [x \in {d[i] : i \in 1..(n - 1)} |-> keys[x]]
  BY <1>1, <1>2 DEF WithoutKey
<1>4. \A i \in 1..(n - 1) : d[i] = s[i] /\ i \in 1..n /\ d[i] \in DOMAIN rest
  BY <1>1, <1>3
<1> HIDE DEF rest, new
<1>5. /\ new = [x \in {d[i] : i \in 1..(n - 1)} |-> new[x]]
      /\ \A i \in 1..(n - 1) :
            new[s[i]] = IF i = n - 1 THEN [keys[s[i]] EXCEPT !.next = Null] ELSE keys[s[i]]
  <2>1. CASE n = 1
    BY <1>3, <2>1 DEF rest, new, WithoutLast
  <2>2. CASE n > 1
    <3>1. new = [rest EXCEPT ![s[n - 1]] = [rest[s[n - 1]] EXCEPT !.next = Null]]
      BY <2>2 DEF rest, new, WithoutLast
    <3>2. n - 1 \in 1..(n - 1) /\ s[n - 1] \in DOMAIN rest /\ rest[s[n - 1]] = keys[s[n - 1]]
      BY <1>3, <1>4, <2>2
    <3>3. new = [x \in {d[i] : i \in 1..(n - 1)} |->
                   IF x = s[n - 1] THEN [keys[s[n - 1]] EXCEPT !.next = Null] ELSE keys[x]]
      BY <1>3, <3>1, <3>2
    <3>4. ASSUME NEW i \in 1..(n - 1) PROVE s[i] \in {d[j] : j \in 1..(n - 1)} /\ (s[i] = s[n - 1] <=> i = n - 1)
      BY <1>0, <1>4, <3>2, Positions
    <3>5. QED BY <3>3, <3>4
  <2>3. QED BY <1>0, <2>1, <2>2
<1>6. ASSUME NEW i \in 1..(n - 1)
      PROVE  /\ new[d[i]].value = keys[d[i]].value /\ new[d[i]].value \in Values
             /\ new[d[i]].prev = At(d, n - 1, i - 1) /\ new[d[i]].next = At(d, n - 1, i + 1)
             /\ new[d[i]] = Node(new[d[i]].value, new[d[i]].prev, new[d[i]].next)
  <2> DEFINE r == keys[s[i]]
  <2>1. /\ r.value \in Values /\ r.prev = At(s, n, i - 1) /\ r.next = At(s, n, i + 1)
        /\ r = Node(r.value, r.prev, r.next)
    BY <1>4 DEF Linked
  <2>2. /\ At(s, n, i - 1) = At(d, n - 1, i - 1)
        /\ At(d, n - 1, i + 1) = IF i = n - 1 THEN Null ELSE At(s, n, i + 1)
    BY <1>1 DEF At
  <2>3. new[d[i]] = (IF i = n - 1 THEN [r EXCEPT !.next = Null] ELSE r) /\ r = keys[d[i]]
    BY <1>4, <1>5
  <2> HIDE DEF r
  <2>4. [r EXCEPT !.next = Null] = Node(r.value, r.prev, Null)
    BY <2>1 DEF Node
  <2>5. new[d[i]] = Node(r.value, r.prev, IF i = n - 1 THEN Null ELSE r.next)
    BY <2>1, <2>3, <2>4
  <2>6. QED BY <2>1, <2>2, <2>3, <2>5 DEF Node
<1>7. \A i \in 1..(n - 1) : d[i] \in DOMAIN new
  BY <1>5
<1>8. Linked(new, d, n - 1)
  BY <1>5, <1>6, <1>7 DEF Linked
<1>9. ASSUME NEW x \in DOMAIN keys \ {s[n]} PROVE new[x].value = keys[x].value
  <2>1. PICK i \in 1..(n - 1) : x = d[i]
    BY <1>1, <1>2
  <2>2. QED BY <1>6, <2>1
<1>10. QED BY <1>8, <1>9 DEF d, new

\* refresh: a key moves to the front.
Fronted(keys, s, n, p) ==
  [HeadAfter(Spliced(keys, s[p]), At(s, n, 1), s[p]) EXCEPT ![s[p]].prev = Null, ![s[p]].next = At(s, n, 1)]

LEMMA RefreshedLinked ==
  ASSUME NEW n \in Nat, NEW s \in Orders(n), NEW keys, Linked(keys, s, n), NEW p \in 1..n, p # 1
  PROVE  /\ Linked(Fronted(keys, s, n, p), Moved(s, n, p), n)
         /\ \A x \in DOMAIN keys : Fronted(keys, s, n, p)[x].value = keys[x].value
<1> DEFINE sp == Spliced(keys, s[p])
           after == HeadAfter(sp, At(s, n, 1), s[p])
           k == s[p]
           d == Moved(s, n, p)
           new == Fronted(keys, s, n, p)
<1>0. d \in Orders(n) /\ {d[i] : i \in 1..n} = {s[i] : i \in 1..n}
  BY MovedOrder
<1>1. \A i \in 1..n : d[i] = IF i = 1 THEN s[p] ELSE IF i <= p THEN s[i - 1] ELSE s[i]
  BY DEF Moved
<1>2. Bypassed(sp, keys, s, n, p)
  BY SplicedNodes
<1> HIDE DEF sp
<1>3. \A i \in 1..n : sp[s[i]] = Node(sp[s[i]].value, sp[s[i]].prev, sp[s[i]].next)
  BY <1>2, NodeFields DEF Bypassed
<1>4. DOMAIN sp = {s[i] : i \in 1..n}
  BY <1>2 DEF Bypassed
<1>5. After(after, sp, s, n, s[p])
  BY <1>3, <1>4, HeadNodes
<1> HIDE DEF after, d, new
\* the nodes before the moved one is put in front
<1>6. ASSUME NEW i \in 1..n
      PROVE  after[s[i]] = Node(keys[s[i]].value,
                                IF i = 1 THEN s[p] ELSE IF i = p + 1 THEN At(s, n, p - 1) ELSE At(s, n, i - 1),
                                IF i = p - 1 THEN At(s, n, p + 1) ELSE At(s, n, i + 1))
  <2>1. /\ sp[s[i]].value = keys[s[i]].value
        /\ sp[s[i]].prev = IF i = p + 1 THEN At(s, n, p - 1) ELSE At(s, n, i - 1)
        /\ sp[s[i]].next = IF i = p - 1 THEN At(s, n, p + 1) ELSE At(s, n, i + 1)
    BY <1>2, NodeFields DEF Bypassed
  <2>2. after[s[i]] = Node(sp[s[i]].value, IF i = 1 THEN s[p] ELSE sp[s[i]].prev, sp[s[i]].next)
    BY <1>5 DEF After
  <2>3. QED BY <2>1, <2>2
<1>7. DOMAIN after = {s[i] : i \in 1..n}
  BY <1>5 DEF After
<1>8. new = [after EXCEPT ![k] = [[after[k] EXCEPT !.prev = Null] EXCEPT !.next = At(s, n, 1)]]
  <2>1. new = [[after EXCEPT ![k] = [after[k] EXCEPT !.prev = Null]] EXCEPT ![k] = [@ EXCEPT !.next = At(s, n, 1)]]
    BY DEF after, sp, k, new, Fronted
  <2>2. k \in DOMAIN after
    BY <1>7
  <2> HIDE DEF k
  <2>3. QED BY <2>1, <2>2
<1>9. [[after[k] EXCEPT !.prev = Null] EXCEPT !.next = At(s, n, 1)] = Node(keys[k].value, Null, At(s, n, 1))
  <2>1. PICK q1, q2 : after[k] = Node(keys[k].value, q1, q2)
    BY <1>6
  <2>2. [after[k] EXCEPT !.prev = Null] = Node(keys[k].value, Null, q2)
    BY <2>1 DEF Node
  <2>3. [Node(keys[k].value, Null, q2) EXCEPT !.next = At(s, n, 1)] = Node(keys[k].value, Null, At(s, n, 1))
    BY DEF Node
  <2>4. QED BY <2>2, <2>3
<1>10. /\ new = [x \in {d[i] : i \in 1..n} |-> new[x]]
       /\ new[k] = Node(keys[k].value, Null, At(s, n, 1))
       /\ \A i \in 1..n : i # p => new[s[i]] = after[s[i]]
  <2>1. \A i \in 1..n : s[i] \in DOMAIN after /\ (s[i] = k => i = p)
    BY <1>7, Positions
  <2>2. k \in DOMAIN after /\ DOMAIN after = {d[i] : i \in 1..n}
    BY <1>0, <1>7
  <2> HIDE DEF k
  <2>3. new = [after EXCEPT ![k] = Node(keys[k].value, Null, At(s, n, 1))]
    BY <1>8, <1>9
  <2>4. new = [x \in {d[i] : i \in 1..n} |-> new[x]]
    BY <2>2, <2>3
  <2>5. QED BY <2>1, <2>2, <2>3, <2>4
<1>11. \A i \in 1..n : /\ keys[s[i]].value \in Values /\ d[i] \in DOMAIN new
  BY <1>0, <1>10 DEF Linked
<1>12. ASSUME NEW i \in 1..n
       PROVE  /\ new[d[i]].value = keys[d[i]].value /\ new[d[i]].value \in Values
              /\ new[d[i]].prev = At(d, n, i - 1) /\ new[d[i]].next = At(d, n, i + 1)
              /\ new[d[i]] = Node(new[d[i]].value, new[d[i]].prev, new[d[i]].next)
  <2> DEFINE j == IF i = 1 THEN p ELSE IF i <= p THEN i - 1 ELSE i
  <2>1. j \in 1..n /\ d[i] = s[j]
    BY <1>1
  <2>2. new[d[i]] = Node(keys[d[i]].value, At(d, n, i - 1), At(d, n, i + 1))
    <3>1. CASE i = 1
      <4>1. d[i] = k /\ At(d, n, i - 1) = Null /\ At(d, n, i + 1) = At(s, n, 1)
        BY <1>1, <3>1 DEF At
      <4>2. QED BY <1>10, <4>1
    <3>2. CASE i # 1
      <4>1. j # p
        BY <3>2
      <4>2. (IF j = 1 THEN s[p] ELSE IF j = p + 1 THEN At(s, n, p - 1) ELSE At(s, n, j - 1)) = At(d, n, i - 1)
        <5>1. CASE i <= p
          BY <1>1, <3>2, <5>1 DEF At
        <5>2. CASE i > p
          BY <1>1, <3>2, <5>2 DEF At
        <5>3. QED BY <5>1, <5>2
      <4>3. (IF j = p - 1 THEN At(s, n, p + 1) ELSE At(s, n, j + 1)) = At(d, n, i + 1)
        <5>1. CASE i <= p
          BY <1>1, <3>2, <5>1 DEF At
        <5>2. CASE i > p
          BY <1>1, <3>2, <5>2 DEF At
        <5>3. QED BY <5>1, <5>2
      <4> HIDE DEF j
      <4>4. new[d[i]] = after[s[j]]
        BY <1>10, <2>1, <4>1
      <4>5. QED BY <1>6, <2>1, <4>2, <4>3, <4>4
    <3>3. QED BY <3>1, <3>2
  <2> HIDE DEF j
  <2>3. keys[d[i]].value \in Values
    BY <1>11, <2>1
  <2>4. \A r, v, x, y : r = Node(v, x, y) => r.value = v /\ r.prev = x /\ r.next = y
    BY NodeFields
  <2>5. /\ new[d[i]].value = keys[d[i]].value
        /\ new[d[i]].prev = At(d, n, i - 1) /\ new[d[i]].next = At(d, n, i + 1)
    BY <2>2, <2>4
  <2>6. QED BY <2>2, <2>3, <2>5, Zenon
<1>13. Linked(new, d, n)
  BY <1>10, <1>11, <1>12 DEF Linked
<1>14. ASSUME NEW x \in DOMAIN keys PROVE new[x].value = keys[x].value
  <2>1. DOMAIN keys = {s[i] : i \in 1..n}
    BY DEF Linked
  <2>2. PICK i \in 1..n : x = d[i]
    BY <1>0, <2>1
  <2>3. QED BY <1>12, <2>2
<1>15. QED BY <1>13, <1>14 DEF d, new

----------------------------------------------------------------------------
(* The cache *)

SameValues(old, new) == \A x \in DOMAIN old.keys \cap DOMAIN new.keys : new.keys[x].value = old.keys[x].value

LEMMA ListFields ==
  ASSUME NEW n, NEW s, NEW c, Lists(c, s, n)
  PROVE  /\ n \in Nat /\ n <= Capacity /\ s \in Orders(n) /\ Linked(c.keys, s, n)
         /\ c.head = At(s, n, 1) /\ c.tail = At(s, n, n) /\ c.size = n
         /\ DOMAIN c.keys = {s[i] : i \in 1..n}
<1>1. n \in Nat /\ n <= Capacity /\ s \in Orders(n) /\ Linked(c.keys, s, n)
  BY Constants DEF Lists
<1>2. c.head = At(s, n, 1) /\ c.tail = At(s, n, n) /\ c.size = n
  <2>1. c = [head |-> At(s, n, 1), tail |-> At(s, n, n), size |-> n, keys |-> c.keys]
    BY DEF Lists
  <2>2. QED BY <2>1
<1>3. DOMAIN c.keys = {s[i] : i \in 1..n}
  BY <1>1 DEF Linked
<1>4. QED BY <1>1, <1>2, <1>3

LEMMA MovedFirst ==
  ASSUME NEW n \in Nat, NEW s \in Orders(n), 1 \in 1..n
  PROVE  Moved(s, n, 1) = s
<1>1. s \in [1..n -> Keys]
  BY DEF Orders
<1>2. \A i \in 1..n : (IF i = 1 THEN s[1] ELSE IF i <= 1 THEN s[i - 1] ELSE s[i]) = s[i]
  OBVIOUS
<1>3. s = [i \in 1..n |-> s[i]]
  BY <1>1
<1>4. QED BY <1>2, <1>3 DEF Moved

LEMMA RefreshedLists ==
  ASSUME NEW n, NEW s, NEW c, Lists(c, s, n), NEW p \in 1..n
  PROVE  /\ Lists(Refreshed(c, s[p]), IF fifo THEN s ELSE Moved(s, n, p), n)
         /\ SameValues(c, Refreshed(c, s[p]))
<1>1. /\ n \in Nat /\ s \in Orders(n) /\ Linked(c.keys, s, n)
      /\ c.head = At(s, n, 1) /\ c.tail = At(s, n, n) /\ c.size = n
  BY ListFields
<1>2. c.head = s[p] <=> p = 1
  BY <1>1, Positions
<1>3. CASE fifo \/ p = 1
  <2>1. Refreshed(c, s[p]) = c
    BY <1>2, <1>3 DEF Refreshed
  <2>2. p = 1 => Moved(s, n, p) = s
    BY <1>1, MovedFirst
  <2>3. QED BY <1>3, <2>1, <2>2 DEF SameValues
<1>4. CASE ~fifo /\ p # 1
  <2> DEFINE new == Fronted(c.keys, s, n, p)
             d == Moved(s, n, p)
             tail == IF c.tail = s[p] THEN c.keys[s[p]].prev ELSE c.tail
  <2>1. Linked(new, d, n) /\ \A x \in DOMAIN c.keys : new[x].value = c.keys[x].value
    BY <1>1, <1>4, RefreshedLinked
  <2>2. Refreshed(c, s[p]) = [head |-> s[p], tail |-> tail, size |-> n, keys |-> new]
    BY <1>1, <1>2, <1>4 DEF Refreshed, Fronted
  <2>3. d \in Orders(n) /\ At(d, n, 1) = s[p]
    BY <1>1, MovedOrder, SMTT(30) DEF At, Moved
  <2>4. tail = At(d, n, n)
    <3>1. c.tail = s[p] <=> p = n
      BY <1>1, Positions
    <3>2. c.keys[s[p]].prev = At(s, n, p - 1)
      BY <1>1 DEF Linked
    <3>3. p = n => At(s, n, p - 1) = At(d, n, n)
      BY <1>4 DEF At, Moved
    <3>4. p # n => At(s, n, n) = At(d, n, n)
      BY <1>4 DEF At, Moved
    <3>5. QED BY <1>1, <3>1, <3>2, <3>3, <3>4
  <2> HIDE DEF new, d, tail
  <2>6. Refreshed(c, s[p]).keys = new
    BY <2>2
  <2>7. Lists(Refreshed(c, s[p]), d, n)
    <3>1. n \in 0..Capacity
      BY DEF Lists
    <3>2. QED BY <2>1, <2>2, <2>3, <2>4, <2>6, <3>1 DEF Lists
  <2>8. SameValues(c, Refreshed(c, s[p]))
    BY <2>1, <2>6 DEF SameValues
  <2>9. QED BY <1>4, <2>7, <2>8 DEF d
<1>5. QED BY <1>3, <1>4

LEMMA InsertedLists ==
  ASSUME NEW n, NEW s, NEW c, Lists(c, s, n), n < Capacity, NEW k \in Keys, k \notin DOMAIN c.keys, NEW v \in Values
  PROVE  /\ Lists(Inserted(c, k, v), Pushed(s, n, k), n + 1)
         /\ SameValues(c, Inserted(c, k, v)) /\ Inserted(c, k, v).keys[k].value = v
<1> DEFINE d == Pushed(s, n, k)
           new == Inserted(c, k, v).keys
<1>1. /\ n \in Nat /\ s \in Orders(n) /\ Linked(c.keys, s, n)
      /\ c.head = At(s, n, 1) /\ c.tail = At(s, n, n) /\ c.size = n
      /\ DOMAIN c.keys = {s[i] : i \in 1..n}
  BY ListFields
<1>2. Inserted(c, k, v) = [head |-> k, tail |-> IF c.tail = Null THEN k ELSE c.tail, size |-> c.size + 1, keys |-> new]
  BY DEF Inserted
<1>3. new = [x \in {s[i] : i \in 1..n} \cup {k} |->
               IF x = k THEN Node(v, Null, At(s, n, 1)) ELSE HeadAfter(c.keys, At(s, n, 1), k)[x]]
  <2>1. DOMAIN HeadAfter(c.keys, c.head, k) = {s[i] : i \in 1..n}
    BY <1>1 DEF HeadAfter
  <2>2. new = [x \in DOMAIN HeadAfter(c.keys, c.head, k) \cup {k} |->
                 IF x = k THEN [value |-> v, prev |-> Null, next |-> c.head] ELSE HeadAfter(c.keys, c.head, k)[x]]
    BY DEF Inserted
  <2> HIDE DEF new
  <2>3. QED BY <1>1, <2>1, <2>2 DEF Node
<1>4. k \notin {s[i] : i \in 1..n}
  BY <1>1
<1> HIDE DEF new
<1>5. Linked(new, d, n + 1) /\ new[k].value = v /\ \A x \in DOMAIN c.keys : new[x].value = c.keys[x].value
  BY <1>1, <1>3, <1>4, InsertedLinked
<1>6. d \in Orders(n + 1) /\ At(d, n + 1, 1) = k
  BY <1>1, <1>4, PushedOrder DEF At, Pushed
<1>7. (IF c.tail = Null THEN k ELSE c.tail) = At(d, n + 1, n + 1)
  <2>1. CASE n = 0
    BY <1>1, <2>1 DEF At, Pushed
  <2>2. CASE n # 0
    <3>1. c.tail = s[n] /\ s[n] # Null
      BY <1>1, <2>2, Positions
    <3>2. At(d, n + 1, n + 1) = s[n]
      BY <1>1, <2>2 DEF At, Pushed
    <3>3. QED BY <3>1, <3>2
  <2>3. QED BY <2>1, <2>2
<1> HIDE DEF d
<1>8. n + 1 \in 0..Capacity
  BY <1>1, Constants
<1>9. Lists(Inserted(c, k, v), d, n + 1)
  <2>1. Inserted(c, k, v) = [head |-> At(d, n + 1, 1), tail |-> At(d, n + 1, n + 1), size |-> n + 1, keys |-> new]
    BY <1>1, <1>2, <1>6, <1>7
  <2>2. QED BY <1>5, <1>6, <1>8, <2>1 DEF Lists, new
<1>10. QED BY <1>5, <1>9 DEF SameValues, new, d

LEMMA EvictedLists ==
  ASSUME NEW n, NEW s, NEW c, Lists(c, s, n), n > 0
  PROVE  /\ Lists(EvictedTail(c), Taken(s, n, n), n - 1)
         /\ SameValues(c, EvictedTail(c)) /\ c.tail = s[n]
<1> DEFINE d == Taken(s, n, n)
           new == EvictedTail(c).keys
           rest == WithoutKey(c.keys, s[n])
<1>1. /\ n \in Nat /\ s \in Orders(n) /\ Linked(c.keys, s, n)
      /\ c.head = At(s, n, 1) /\ c.tail = At(s, n, n) /\ c.size = n
      /\ DOMAIN c.keys = {s[i] : i \in 1..n} /\ n \in 1..n
  BY ListFields
<1>2. c.tail = s[n] /\ c.keys[s[n]].prev = At(s, n, n - 1)
  BY <1>1, Positions DEF Linked
<1>3. c = [head |-> At(s, n, 1), tail |-> At(s, n, n), size |-> n, keys |-> c.keys]
  BY DEF Lists
<1>4. /\ new = WithoutLast(c.keys, s, n)
      /\ EvictedTail(c) = [head |-> At(d, n - 1, 1), tail |-> At(d, n - 1, n - 1), size |-> n - 1, keys |-> new]
  <2>1. CASE n = 1
    <3>1. At(s, n, n - 1) = Null /\ At(d, n - 1, 1) = Null /\ At(d, n - 1, n - 1) = Null
      BY <2>1 DEF At
    <3>2. EvictedTail(c) = [head |-> Null, tail |-> Null, size |-> n - 1, keys |-> rest]
      BY <1>1, <1>2, <3>1 DEF EvictedTail
    <3> HIDE DEF rest, d
    <3>3. rest = WithoutLast(c.keys, s, n)
      BY <2>1 DEF WithoutLast, rest
    <3>4. QED BY <2>1, <3>1, <3>2, <3>3
  <2>2. CASE n > 1
    <3>1. At(s, n, n - 1) = s[n - 1] /\ s[n - 1] # Null
      BY <1>1, <2>2, Positions
    <3>2. At(d, n - 1, 1) = At(s, n, 1) /\ At(d, n - 1, n - 1) = s[n - 1]
      BY <1>1, <2>2 DEF At, Taken
    <3>3. EvictedTail(c) = [head |-> At(s, n, 1), tail |-> s[n - 1], size |-> n - 1,
                            keys |-> [rest EXCEPT ![s[n - 1]].next = Null]]
      BY <1>1, <1>2, <3>1 DEF EvictedTail
    <3> HIDE DEF rest, d
    <3>4. [rest EXCEPT ![s[n - 1]].next = Null] = WithoutLast(c.keys, s, n)
      BY <2>2 DEF WithoutLast, rest
    <3>5. QED BY <2>2, <3>2, <3>3, <3>4
  <2>3. QED BY <1>1, <2>1, <2>2
<1> HIDE DEF new
<1>5. Linked(new, d, n - 1) /\ \A x \in DOMAIN c.keys \ {s[n]} : new[x].value = c.keys[x].value
  BY <1>1, <1>4, EvictedLinked
<1>6. d \in Orders(n - 1) /\ {d[i] : i \in 1..(n - 1)} = {s[i] : i \in 1..n} \ {s[n]}
  <2>1. n \in 1..n /\ n \in Nat /\ s \in Orders(n)
    BY <1>1
  <2>2. QED BY ONLY <2>1, TakenOrder, ZenonT(60)
<1> HIDE DEF d
<1>7. n - 1 \in 0..Capacity
  BY Constants DEF Lists
<1>8. Lists(EvictedTail(c), d, n - 1)
  BY <1>4, <1>5, <1>6, <1>7 DEF Lists, new
<1>9. SameValues(c, EvictedTail(c))
  <2>1. DOMAIN new = DOMAIN c.keys \ {s[n]}
    BY <1>1, <1>5, <1>6 DEF Linked
  <2>2. QED BY <1>5, <2>1 DEF SameValues, new
<1>10. QED BY <1>2, <1>8, <1>9 DEF d

LEMMA DeletedLists ==
  ASSUME NEW n, NEW s, NEW c, Lists(c, s, n), NEW p \in 1..n
  PROVE  /\ Lists(Deleted(c, s[p]), Taken(s, n, p), n - 1)
         /\ SameValues(c, Deleted(c, s[p]))
<1> DEFINE d == Taken(s, n, p)
           new == WithoutKey(Spliced(c.keys, s[p]), s[p])
<1>1. /\ n \in Nat /\ s \in Orders(n) /\ Linked(c.keys, s, n)
      /\ c.head = At(s, n, 1) /\ c.tail = At(s, n, n) /\ c.size = n
      /\ DOMAIN c.keys = {s[i] : i \in 1..n}
  BY ListFields
<1>2. /\ c.keys[s[p]].prev = At(s, n, p - 1) /\ c.keys[s[p]].next = At(s, n, p + 1)
      /\ (c.head = s[p] <=> p = 1) /\ (c.tail = s[p] <=> p = n)
  BY <1>1, Positions DEF Linked
<1>3. Linked(new, d, n - 1) /\ \A x \in DOMAIN c.keys \ {s[p]} : new[x].value = c.keys[x].value
  BY <1>1, RestLinked
<1>4. d \in Orders(n - 1) /\ {d[i] : i \in 1..(n - 1)} = {s[i] : i \in 1..n} \ {s[p]}
  <2>1. n \in Nat /\ s \in Orders(n)
    BY <1>1
  <2>2. QED BY ONLY <2>1, p \in 1..n, TakenOrder, ZenonT(60)
<1>5. (IF c.head = s[p] THEN c.keys[s[p]].next ELSE c.head) = At(d, n - 1, 1)
  <2>1. p = 1 => At(s, n, 2) = At(d, n - 1, 1)
    BY <1>1 DEF At, Taken
  <2>2. p # 1 => At(s, n, 1) = At(d, n - 1, 1)
    BY <1>1 DEF At, Taken
  <2>3. QED BY <1>1, <1>2, <2>1, <2>2
<1>6. (IF c.tail = s[p] THEN c.keys[s[p]].prev ELSE c.tail) = At(d, n - 1, n - 1)
  <2>1. p = n => At(s, n, n - 1) = At(d, n - 1, n - 1)
    BY <1>1 DEF At, Taken
  <2>2. p # n => At(s, n, n) = At(d, n - 1, n - 1)
    BY <1>1 DEF At, Taken
  <2>3. QED BY <1>1, <1>2, <2>1, <2>2
<1> HIDE DEF new, d
<1>7. Deleted(c, s[p]) = [head |-> At(d, n - 1, 1), tail |-> At(d, n - 1, n - 1), size |-> n - 1, keys |-> new]
  BY <1>1, <1>5, <1>6 DEF Deleted, new
<1>8. Deleted(c, s[p]).keys = new
  BY <1>7
<1>9. n - 1 \in 0..Capacity
  BY Constants DEF Lists
<1>10. Lists(Deleted(c, s[p]), d, n - 1)
  BY <1>3, <1>4, <1>7, <1>8, <1>9 DEF Lists
<1>11. SameValues(c, Deleted(c, s[p]))
  <2>1. DOMAIN new = DOMAIN c.keys \ {s[p]}
    BY <1>1, <1>3, <1>4 DEF Linked
  <2>2. QED BY <1>3, <1>8, <2>1 DEF SameValues
<1>12. QED BY <1>10, <1>11 DEF d

\* put sets the value of a cached key.
Valued(c, k, v) == [c EXCEPT !.keys[k].value = v]

LEMMA ValuedLists ==
  ASSUME NEW n, NEW s, NEW c, Lists(c, s, n), NEW p \in 1..n, NEW v \in Values
  PROVE  /\ Lists(Valued(c, s[p], v), s, n)
         /\ DOMAIN Valued(c, s[p], v).keys = DOMAIN c.keys
         /\ \A x \in DOMAIN c.keys :
              Valued(c, s[p], v).keys[x].value = IF x = s[p] THEN v ELSE c.keys[x].value
<1> DEFINE k == s[p]
           r == c.keys[k]
           new == [c.keys EXCEPT ![k] = [r EXCEPT !.value = v]]
<1>1. /\ n \in Nat /\ s \in Orders(n) /\ Linked(c.keys, s, n) /\ n \in 0..Capacity
      /\ DOMAIN c.keys = {s[i] : i \in 1..n}
  BY ListFields DEF Lists
<1>2. r = Node(r.value, r.prev, r.next) /\ k \in DOMAIN c.keys
  BY <1>1 DEF Linked
<1>3. [r EXCEPT !.value = v] = Node(v, r.prev, r.next)
  <2> HIDE DEF r
  <2>1. QED BY <1>2 DEF Node
<1>4. Valued(c, k, v) = [head |-> At(s, n, 1), tail |-> At(s, n, n), size |-> n, keys |-> new]
  <2>1. Valued(c, k, v) = [c EXCEPT !.keys = new]
    BY DEF Valued
  <2>2. c = [head |-> At(s, n, 1), tail |-> At(s, n, n), size |-> n, keys |-> c.keys]
    BY DEF Lists
  <2> HIDE DEF new, k
  <2>3. QED BY <2>1, <2>2
<1>5. Valued(c, k, v).keys = new
  BY <1>4
<1>6. /\ DOMAIN new = {s[i] : i \in 1..n}
      /\ new = [x \in {s[i] : i \in 1..n} |-> new[x]]
      /\ new[k] = Node(v, r.prev, r.next)
      /\ \A i \in 1..n : i # p => new[s[i]] = c.keys[s[i]]
  <2>1. \A i \in 1..n : s[i] \in DOMAIN c.keys /\ (s[i] = k => i = p)
    BY <1>1, Positions
  <2>2. new = [c.keys EXCEPT ![k] = Node(v, r.prev, r.next)]
    BY <1>3
  <2>3. new = [x \in {s[i] : i \in 1..n} |-> new[x]]
    BY <1>1, <2>2
  <2> HIDE DEF r, k, new
  <2>4. QED BY <1>1, <1>2, <2>1, <2>2, <2>3
<1> HIDE DEF new
<1>7. ASSUME NEW i \in 1..n
      PROVE  /\ new[s[i]].value = (IF s[i] = k THEN v ELSE c.keys[s[i]].value)
             /\ new[s[i]].value \in Values
             /\ new[s[i]].prev = At(s, n, i - 1) /\ new[s[i]].next = At(s, n, i + 1)
             /\ new[s[i]] = Node(new[s[i]].value, new[s[i]].prev, new[s[i]].next)
  <2>1. /\ c.keys[s[i]].value \in Values
        /\ c.keys[s[i]].prev = At(s, n, i - 1) /\ c.keys[s[i]].next = At(s, n, i + 1)
        /\ c.keys[s[i]] = Node(c.keys[s[i]].value, c.keys[s[i]].prev, c.keys[s[i]].next)
    BY <1>1 DEF Linked
  <2>2. CASE i = p
    <3>1. r.prev = At(s, n, i - 1) /\ r.next = At(s, n, i + 1) /\ s[i] = k
      BY <2>1, <2>2
    <3> HIDE DEF r, k
    <3>2. new[s[i]] = Node(v, At(s, n, i - 1), At(s, n, i + 1))
      BY <1>6, <3>1
    <3>3. QED BY <3>1, <3>2, NodeFields
  <2>3. CASE i # p
    <3>1. new[s[i]] = c.keys[s[i]] /\ s[i] # k
      BY <1>1, <1>6, <2>3, Positions
    <3>2. QED BY <2>1, <3>1
  <2>4. QED BY <2>2, <2>3
<1>8. \A i \in 1..n : s[i] \in DOMAIN new
  BY <1>6
<1>9. Linked(new, s, n)
  BY <1>6, <1>7, <1>8 DEF Linked
<1>10. Lists(Valued(c, k, v), s, n)
  BY <1>1, <1>4, <1>5, <1>9 DEF Lists
<1>11. \A x \in DOMAIN c.keys : new[x].value = IF x = k THEN v ELSE c.keys[x].value
  BY <1>1, <1>7
<1>12. QED BY <1>1, <1>5, <1>6, <1>10, <1>11

----------------------------------------------------------------------------
(* Walks along the links *)

\* A statement about numbers, as the set of those it holds for, holds for all
\* when it holds for 0 and from each for the next.
LEMMA SetInduction ==
  ASSUME NEW P, 0 \in P, \A n \in Nat : n \in P => n + 1 \in P
  PROVE  Nat \subseteq P
<1> DEFINE T == {n \in Nat : n \notin P}
<1>1. SUFFICES ASSUME T # {} PROVE FALSE
  OBVIOUS
<1>2. T \subseteq Nat
  OBVIOUS
<1> HIDE DEF T
<1>3. PICK x \in T : \A y \in T : ~(<<y, x>> \in OpToRel(<, Nat))
  BY <1>1, <1>2, NatLessThanWellFounded, WFMin, Zenon
<1> USE DEF T
<1>4. x \in Nat /\ x \notin P /\ \A y \in T : ~(y < x)
  BY <1>3 DEF OpToRel
<1>5. x # 0 /\ x - 1 \in Nat /\ x - 1 < x
  BY <1>4
<1>6. x - 1 \in P
  BY <1>4, <1>5
<1>7. (x - 1) + 1 \in P
  BY <1>5, <1>6
<1>8. QED BY <1>4, <1>5, <1>7

\* The keys g are met one after the other.
Meets(keys, start, link, m, g) ==
  g = [i \in 1..m |-> IF i = 1 THEN start
                      ELSE IF g[i - 1] \in DOMAIN keys THEN keys[g[i - 1]][link] ELSE Null]

LEMMA WalkUnique ==
  ASSUME NEW keys, NEW start, NEW link, NEW m \in Nat, NEW g, Meets(keys, start, link, m, g)
  PROVE  \A i \in 1..m : Follow(keys, start, link, m)[i] = g[i]
<1> DEFINE walk == CHOOSE f : Meets(keys, start, link, m, f)
           P == {j \in Nat : j + 1 <= m => walk[j + 1] = g[j + 1]}
<1>1. Follow(keys, start, link, m) = walk
  BY DEF Follow, Meets
<1>2. Meets(keys, start, link, m, walk)
  OBVIOUS
<1> HIDE DEF walk
<1>3. \A f : Meets(keys, start, link, m, f) =>
        \A i \in 1..m : f[i] = IF i = 1 THEN start
                               ELSE IF f[i - 1] \in DOMAIN keys THEN keys[f[i - 1]][link] ELSE Null
  BY DEF Meets
<1>4. 0 \in P
  <2>1. 1 <= m => walk[1] = start /\ g[1] = start
    BY <1>2, <1>3
  <2>2. QED BY <2>1
<1>5. ASSUME NEW j \in Nat, j \in P PROVE j + 1 \in P
  <2>1. SUFFICES ASSUME j + 2 <= m PROVE walk[j + 2] = g[j + 2]
    BY <1>5
  <2>2. walk[j + 1] = g[j + 1] /\ j + 2 \in 1..m /\ j + 2 # 1 /\ (j + 2) - 1 = j + 1
    BY <1>5, <2>1
  <2> DEFINE i == j + 2
  <2>3. i \in 1..m /\ i # 1 /\ walk[i - 1] = g[i - 1]
    BY <2>2
  <2> HIDE DEF i
  <2>4. walk[i] = IF walk[i - 1] \in DOMAIN keys THEN keys[walk[i - 1]][link] ELSE Null
    BY <1>2, <1>3, <2>3
  <2>5. g[i] = IF g[i - 1] \in DOMAIN keys THEN keys[g[i - 1]][link] ELSE Null
    BY <1>3, <2>3
  <2>6. QED BY <2>3, <2>4, <2>5 DEF i
<1>6. Nat \subseteq P
  <2> HIDE DEF P
  <2>1. QED BY <1>4, <1>5, SetInduction
<1>7. ASSUME NEW i \in 1..m PROVE walk[i] = g[i]
  <2>1. i - 1 \in P /\ (i - 1) + 1 = i
    BY <1>6
  <2>2. QED BY <2>1
<1>8. QED BY <1>1, <1>7

\* Following the links of a list from either end meets its keys in order.
LEMMA ListWalks ==
  ASSUME NEW n \in Nat, NEW s \in Orders(n), NEW keys, Linked(keys, s, n), NEW m \in Nat, m <= n + 1
  PROVE  /\ \A i \in 1..m : Follow(keys, At(s, n, 1), "next", m)[i] = At(s, n, i)
         /\ \A i \in 1..m : Follow(keys, At(s, n, n), "prev", m)[i] = At(s, n, n + 1 - i)
<1> DEFINE forth == [i \in 1..m |-> At(s, n, i)]
           back == [i \in 1..m |-> At(s, n, n + 1 - i)]
<1>1. ASSUME NEW i \in 1..n
      PROVE  /\ At(s, n, i) \in DOMAIN keys
             /\ keys[At(s, n, i)]["next"] = At(s, n, i + 1) /\ keys[At(s, n, i)]["prev"] = At(s, n, i - 1)
  <2>1. At(s, n, i) = s[i] /\ s[i] \in DOMAIN keys
    BY Positions DEF Linked
  <2>2. keys[s[i]].prev = At(s, n, i - 1) /\ keys[s[i]].next = At(s, n, i + 1)
    BY DEF Linked
  <2>3. QED BY <2>1, <2>2
<1>2. ASSUME NEW i \in 1..m, i # 1
      PROVE  forth[i] = IF forth[i - 1] \in DOMAIN keys THEN keys[forth[i - 1]]["next"] ELSE Null
  <2>1. i - 1 \in 1..n /\ (i - 1) + 1 = i /\ i - 1 \in 1..m
    BY <1>2
  <2>2. keys[At(s, n, i - 1)]["next"] = At(s, n, i) /\ At(s, n, i - 1) \in DOMAIN keys
    BY <1>1, <2>1
  <2>3. forth[i] = At(s, n, i) /\ forth[i - 1] = At(s, n, i - 1)
    BY <2>1
  <2>4. QED BY <2>2, <2>3
<1>3. ASSUME NEW i \in 1..m, i # 1
      PROVE  back[i] = IF back[i - 1] \in DOMAIN keys THEN keys[back[i - 1]]["prev"] ELSE Null
  <2>1. n + 1 - (i - 1) \in 1..n /\ (n + 1 - (i - 1)) - 1 = n + 1 - i /\ i - 1 \in 1..m
    BY <1>3
  <2>2. keys[At(s, n, n + 1 - (i - 1))]["prev"] = At(s, n, n + 1 - i) /\ At(s, n, n + 1 - (i - 1)) \in DOMAIN keys
    BY <1>1, <2>1
  <2>3. back[i] = At(s, n, n + 1 - i) /\ back[i - 1] = At(s, n, n + 1 - (i - 1))
    BY <2>1
  <2>4. QED BY <2>2, <2>3
<1>4. /\ forth = [i \in 1..m |-> forth[i]] /\ (1 \in 1..m => forth[1] = At(s, n, 1))
      /\ back = [i \in 1..m |-> back[i]] /\ (1 \in 1..m => back[1] = At(s, n, n))
  <2>1. n + 1 - 1 = n
    OBVIOUS
  <2>2. QED BY <2>1
<1>5. \A i \in 1..m : forth[i] = At(s, n, i) /\ back[i] = At(s, n, n + 1 - i)
  OBVIOUS
<1> HIDE DEF forth, back
<1>6. Meets(keys, At(s, n, 1), "next", m, forth)
  BY <1>2, <1>4 DEF Meets
<1>7. Meets(keys, At(s, n, n), "prev", m, back)
  BY <1>3, <1>4 DEF Meets
<1>8. \A i \in 1..m : Follow(keys, At(s, n, 1), "next", m)[i] = forth[i]
  BY <1>6, WalkUnique
<1>9. \A i \in 1..m : Follow(keys, At(s, n, n), "prev", m)[i] = back[i]
  BY <1>7, WalkUnique
<1>10. QED BY <1>5, <1>8, <1>9

View(keys, s, n) == [i \in 1..n |-> [key |-> s[i], value |-> keys[s[i]].value]]

LEMMA EntriesViewed ==
  ASSUME NEW n, NEW s, NEW c, Lists(c, s, n)
  PROVE  ListedEntries(c) = View(c.keys, s, n)
<1>1. /\ n \in Nat /\ s \in Orders(n) /\ Linked(c.keys, s, n) /\ c.head = At(s, n, 1) /\ c.size = n
  BY ListFields
<1> DEFINE keys == Follow(c.keys, At(s, n, 1), "next", n)
<1>2. \A i \in 1..n : keys[i] = At(s, n, i)
  BY <1>1, ListWalks
<1> HIDE DEF keys
<1>3. \A i \in 1..n : keys[i] = s[i]
  BY <1>1, <1>2, Positions
<1>4. ListedEntries(c) = [i \in 1..n |-> [key |-> keys[i], value |-> c.keys[keys[i]].value]]
  BY <1>1 DEF ListedEntries, keys
<1>5. QED BY <1>3, <1>4 DEF View

LEMMA ListIsConsistent ==
  ASSUME NEW n, NEW s, Lists(cache, s, n)
  PROVE  ListConsistent
<1>1. /\ n \in Nat /\ s \in Orders(n) /\ Linked(cache.keys, s, n)
      /\ cache.head = At(s, n, 1) /\ cache.tail = At(s, n, n) /\ cache.size = n
      /\ DOMAIN cache.keys = {s[i] : i \in 1..n}
  BY ListFields
<1> DEFINE forth == Follow(cache.keys, cache.head, "next", cache.size + 1)
           back == Follow(cache.keys, cache.tail, "prev", cache.size + 1)
<1>2. /\ \A i \in 1..(n + 1) : forth[i] = At(s, n, i)
      /\ \A i \in 1..(n + 1) : back[i] = At(s, n, n + 1 - i)
  <2>1. n + 1 \in Nat /\ n + 1 <= n + 1
    BY <1>1
  <2>2. /\ \A i \in 1..(n + 1) : Follow(cache.keys, At(s, n, 1), "next", n + 1)[i] = At(s, n, i)
        /\ \A i \in 1..(n + 1) : Follow(cache.keys, At(s, n, n), "prev", n + 1)[i] = At(s, n, n + 1 - i)
    BY <1>1, <2>1, ListWalks
  <2>3. QED BY <1>1, <2>2
<1> HIDE DEF forth, back
<1>3. \A i \in 1..n : At(s, n, i) = s[i]
  BY <1>1, Positions
<1>4. \A i \in 1..n : forth[i] = s[i] /\ back[i] = At(s, n, n + 1 - i) /\ forth[n + 1 - i] = At(s, n, n + 1 - i)
  BY <1>1, <1>2, <1>3
<1>5. forth[n + 1] = Null /\ back[n + 1] = Null
  <2>1. At(s, n, n + 1) = Null /\ At(s, n, n + 1 - (n + 1)) = Null
    BY <1>1 DEF At
  <2>2. n + 1 \in 1..(n + 1)
    BY <1>1
  <2>3. QED BY <1>2, <2>1, <2>2
<1>6. {forth[i] : i \in 1..n} = DOMAIN cache.keys
  BY <1>1, <1>4
<1>7. Cardinality(DOMAIN cache.keys) = n
  <2>1. IsFiniteSet(1..n) /\ Cardinality(1..n) = n
    <3>1. IsFiniteSet(1..n) /\ Cardinality(1..n) = IF 1 > n THEN 0 ELSE n - 1 + 1
      BY <1>1, FS_Interval
    <3>2. QED BY <1>1, <3>1
  <2>2. s \in [1..n -> Keys] /\ \A i, j \in 1..n : s[i] = s[j] => i = j
    BY <1>1 DEF Orders
  <2>3. s \in [1..n -> {s[i] : i \in 1..n}]
    BY <2>2
  <2>4. s \in Bijection(1..n, {s[i] : i \in 1..n})
    BY <2>2, <2>3 DEF Bijection, Injection, Surjection, IsInjective
  <2>5. ExistsBijection(1..n, {s[i] : i \in 1..n})
    BY <2>4 DEF ExistsBijection
  <2>6. QED BY <1>1, <2>1, <2>5, FS_Bijection
<1>8. QED BY <1>1, <1>4, <1>5, <1>6, <1>7 DEF ListConsistent, forth, back

----------------------------------------------------------------------------
(* The operations of the sequence of entries *)

Entries == [key : Keys, value : Values]

LEMMA ViewFields ==
  ASSUME NEW n \in Nat, NEW s \in Orders(n), NEW keys, \A i \in 1..n : keys[s[i]].value \in Values
  PROVE  /\ View(keys, s, n) \in Seq(Entries)
         /\ Len(View(keys, s, n)) = n /\ DOMAIN View(keys, s, n) = 1..n
         /\ Recency!CachedKeys(View(keys, s, n)) = {s[i] : i \in 1..n}
         /\ \A i \in 1..n : Recency!Position(View(keys, s, n), s[i]) = i
<1> DEFINE e == View(keys, s, n)
<1>1. \A i \in 1..n : e[i] = [key |-> s[i], value |-> keys[s[i]].value]
  BY DEF View
<1> HIDE DEF e
<1>a. \A i \in 1..n : s[i] \in Keys
  BY Positions
<1>2. ASSUME NEW i \in 1..n PROVE e[i] \in Entries /\ e[i].key = s[i]
  <2> DEFINE k == s[i]
             v == keys[s[i]].value
  <2>1. k \in Keys /\ v \in Values /\ e[i] = [key |-> k, value |-> v]
    BY <1>1, <1>a
  <2> HIDE DEF k, v
  <2>2. e[i] \in Entries /\ e[i].key = k
    BY <2>1 DEF Entries
  <2>3. QED BY <2>2 DEF k
<1>3. e \in [1..n -> Entries]
  BY <1>2 DEF View, e
<1>4. e \in Seq(Entries) /\ Len(e) = n /\ DOMAIN e = 1..n
  BY <1>3, SeqDef, LenProperties
<1>5. \A i \in 1..n : e[i].key = s[i]
  BY <1>2
<1>6. Recency!CachedKeys(e) = {s[i] : i \in 1..n}
  BY <1>4, <1>5 DEF Recency!CachedKeys
<1>7. ASSUME NEW i \in 1..n PROVE Recency!Position(e, s[i]) = i
  <2>1. \A j \in DOMAIN e : e[j].key = s[i] <=> j = i
    BY <1>4, <1>5, Positions
  <2>2. i \in DOMAIN e
    BY <1>4
  <2>3. QED BY <2>1, <2>2 DEF Recency!Position
<1>8. QED BY <1>4, <1>6, <1>7 DEF e

LEMMA SameView ==
  ASSUME NEW n \in Nat, NEW s, NEW old, NEW new, \A i \in 1..n : new[s[i]].value = old[s[i]].value
  PROVE  View(new, s, n) = View(old, s, n)
BY DEF View

LEMMA ViewWithout ==
  ASSUME NEW n \in Nat, NEW s \in Orders(n), NEW keys, NEW p \in 1..n,
         \A i \in 1..n : keys[s[i]].value \in Values
  PROVE  Recency!Without(View(keys, s, n), s[p]) = View(keys, Taken(s, n, p), n - 1)
<1> DEFINE e == View(keys, s, n)
<1>1. /\ Len(e) = n /\ s[p] \in Recency!CachedKeys(e) /\ Recency!Position(e, s[p]) = p
  BY ViewFields
<1>2. \A i \in 1..n : e[i] = [key |-> s[i], value |-> keys[s[i]].value]
  BY DEF View
<1> HIDE DEF e
<1>3. Recency!Without(e, s[p]) = [i \in 1..(n - 1) |-> e[IF i < p THEN i ELSE i + 1]]
  BY <1>1 DEF Recency!Without
<1>4. ASSUME NEW i \in 1..(n - 1)
      PROVE  e[IF i < p THEN i ELSE i + 1] = [key |-> Taken(s, n, p)[i], value |-> keys[Taken(s, n, p)[i]].value]
  <2>1. (IF i < p THEN i ELSE i + 1) \in 1..n
    OBVIOUS
  <2>2. Taken(s, n, p)[i] = s[IF i < p THEN i ELSE i + 1]
    BY DEF Taken
  <2>3. QED BY <1>2, <2>1, <2>2
<1>5. QED BY <1>3, <1>4 DEF View, e

\* The order d with the values of new is s with the values of old behind k.
Prepends(d, new, s, old, n, k) ==
  /\ \A i \in 1..n : old[s[i]].value \in Values
  /\ new[k].value \in Values /\ d \in [1..(n + 1) -> Keys] /\ d[1] = k
  /\ \A i \in 1..n : d[i + 1] = s[i] /\ new[s[i]].value = old[s[i]].value

\* An entry in front of the entries of a list.
LEMMA ViewPushed ==
  ASSUME NEW n \in Nat, NEW s \in Orders(n), NEW keys, NEW k \in Keys, NEW d, NEW new,
         Prepends(d, new, s, keys, n, k)
  PROVE  <<[key |-> k, value |-> new[k].value]>> \o View(keys, s, n) = View(new, d, n + 1)
<1> USE DEF Prepends
<1> DEFINE e == View(keys, s, n)
           x == [key |-> k, value |-> new[k].value]
           f == <<x>> \o e
           g == View(new, d, n + 1)
<1>1. e \in Seq(Entries) /\ Len(e) = n /\ \A i \in 1..n : e[i] = [key |-> s[i], value |-> keys[s[i]].value]
  <2>1. e \in Seq(Entries) /\ Len(e) = n
    BY ViewFields
  <2>2. QED BY <2>1 DEF View
<1>2. x \in Entries
  BY DEF Entries
<1> HIDE DEF e, x
<1>3. <<x>> \in Seq(Entries) /\ Len(<<x>>) = 1 /\ <<x>>[1] = x
  BY <1>2
<1>4. /\ f \in Seq(Entries) /\ Len(f) = n + 1
      /\ \A i \in 1..(n + 1) : f[i] = IF i <= 1 THEN <<x>>[i] ELSE e[i - 1]
  <2>1. /\ f \in Seq(Entries) /\ Len(f) = Len(<<x>>) + Len(e)
        /\ \A i \in 1..(Len(<<x>>) + Len(e)) : f[i] = IF i <= Len(<<x>>) THEN <<x>>[i] ELSE e[i - Len(<<x>>)]
    BY <1>1, <1>3, ConcatProperties
  <2> HIDE DEF f
  <2>2. QED BY <1>1, <1>3, <2>1
<1>5. /\ \A i \in 1..(n + 1) : d[i] \in Keys /\ new[d[i]].value \in Values
      /\ \A i \in 1..(n + 1) : g[i] = [key |-> d[i], value |-> new[d[i]].value]
  <2>1. ASSUME NEW i \in 1..(n + 1) PROVE new[d[i]].value \in Values
    <3>1. CASE i = 1
      BY <3>1
    <3>2. CASE i # 1
      <4>1. PICK j \in 1..n : j + 1 = i
        <5>1. i - 1 \in 1..n /\ (i - 1) + 1 = i
          BY <3>2
        <5>2. QED BY <5>1
      <4>2. d[i] = s[j] /\ new[s[j]].value = keys[s[j]].value
        BY <4>1
      <4>3. QED BY <4>2
    <3>3. QED BY <3>1, <3>2
  <2>2. QED BY <2>1 DEF View
<1>6. g \in Seq(Entries) /\ Len(g) = n + 1
  <2>1. \A i \in 1..(n + 1) : [key |-> d[i], value |-> new[d[i]].value] \in Entries
    BY <1>5 DEF Entries
  <2>2. g \in [1..(n + 1) -> Entries] /\ n + 1 \in Nat
    BY <2>1 DEF View
  <2> HIDE DEF g
  <2>3. QED BY <2>2, SeqDef, LenProperties
<1>7. ASSUME NEW i \in 1..(n + 1) PROVE f[i] = g[i]
  <2>1. CASE i = 1
    <3>1. f[i] = x /\ g[i] = [key |-> k, value |-> new[k].value]
      BY <1>3, <1>4, <1>5, <2>1
    <3>2. QED BY <3>1 DEF x
  <2>2. CASE i # 1
    <3>1. i - 1 \in 1..n /\ (i - 1) + 1 = i
      BY <2>2
    <3>2. d[i] = s[i - 1] /\ new[s[i - 1]].value = keys[s[i - 1]].value
      BY <3>1
    <3>3. f[i] = e[i - 1] /\ g[i] = [key |-> d[i], value |-> new[d[i]].value]
      BY <1>4, <1>5, <2>2
    <3>4. QED BY <1>1, <3>1, <3>2, <3>3
  <2>3. QED BY <2>1, <2>2
<1> HIDE DEF f, g
<1>8. f = g
  BY <1>4, <1>6, <1>7, SeqEqual
<1>9. QED BY <1>8 DEF f, g, x, e

LEMMA ViewEntry ==
  ASSUME NEW n \in Nat, NEW s \in Orders(n), NEW keys, NEW p \in 1..n,
         \A i \in 1..n : keys[s[i]].value \in Values
  PROVE  /\ View(keys, s, n)[p] = [key |-> s[p], value |-> keys[s[p]].value]
         /\ View(keys, s, n)[Recency!Position(View(keys, s, n), s[p])] = [key |-> s[p], value |-> keys[s[p]].value]
         /\ Recency!ValueOf(View(keys, s, n), s[p]) = keys[s[p]].value
<1>1. Recency!Position(View(keys, s, n), s[p]) = p
  BY ViewFields
<1>2. View(keys, s, n)[p] = [key |-> s[p], value |-> keys[s[p]].value]
  BY DEF View
<1>3. [key |-> s[p], value |-> keys[s[p]].value].value = keys[s[p]].value
  OBVIOUS
<1>4. QED BY <1>1, <1>2, <1>3 DEF Recency!ValueOf

LEMMA ViewTouch ==
  ASSUME NEW n \in Nat, NEW s \in Orders(n), NEW keys, NEW p \in 1..n, NEW f, NEW new,
         \A i \in 1..n : keys[s[i]].value \in Values,
         \A i \in 1..n : new[s[i]].value = keys[s[i]].value
  PROVE  Recency!Touch(View(keys, s, n), s[p], f) = View(new, IF f THEN s ELSE Moved(s, n, p), n)
<1>1. CASE f
  <2>1. View(new, s, n) = View(keys, s, n)
    BY SameView
  <2>2. QED BY <1>1, <2>1 DEF Recency!Touch
<1>2. CASE ~f
  <2> DEFINE d == Moved(s, n, p)
             t == Taken(s, n, p)
             k == s[p]
  <2>1. Recency!Touch(View(keys, s, n), k, f) = <<[key |-> k, value |-> keys[k].value]>> \o View(keys, t, n - 1)
    <3>1. View(keys, s, n)[Recency!Position(View(keys, s, n), k)] = [key |-> k, value |-> keys[k].value]
      BY ViewEntry
    <3>2. Recency!Without(View(keys, s, n), k) = View(keys, t, n - 1)
      BY ViewWithout
    <3> HIDE DEF k, t
    <3>3. QED BY <1>2, <3>1, <3>2 DEF Recency!Touch
  <2>2. d \in Orders(n) /\ t \in Orders(n - 1)
    BY MovedOrder, TakenOrder
  <2>3. \A i \in 1..(n - 1) : t[i] = s[IF i < p THEN i ELSE i + 1] /\ (IF i < p THEN i ELSE i + 1) \in 1..n
    BY DEF Taken
  <2>4. d[1] = k /\ \A i \in 1..(n - 1) : d[i + 1] = t[i]
    <3>1. d[1] = k
      BY DEF Moved
    <3>2. ASSUME NEW i \in 1..(n - 1) PROVE d[i + 1] = t[i]
      BY DEF Moved, Taken
    <3>3. QED BY <3>1, <3>2
  <2>5. k \in Keys /\ new[k].value = keys[k].value /\ new[k].value \in Values
    BY Positions
  <2> HIDE DEF d, t, k
  <2>6. \A i \in 1..(n - 1) : keys[t[i]].value \in Values /\ new[t[i]].value = keys[t[i]].value
    BY <2>3
  <2>7. n - 1 \in Nat /\ (n - 1) + 1 = n
    OBVIOUS
  <2> DEFINE m == n - 1
  <2>8. m \in Nat /\ m + 1 = n /\ t \in Orders(m) /\ d \in [1..(m + 1) -> Keys]
    BY <2>2, <2>7 DEF Orders
  <2>9. \A i \in 1..m : d[i + 1] = t[i] /\ keys[t[i]].value \in Values /\ new[t[i]].value = keys[t[i]].value
    BY <2>4, <2>6
  <2> HIDE DEF m
  <2>10. <<[key |-> k, value |-> new[k].value]>> \o View(keys, t, m) = View(new, d, m + 1)
    <3>1. Prepends(d, new, t, keys, m, k)
      BY <2>4, <2>5, <2>8, <2>9 DEF Prepends
    <3>2. m \in Nat /\ t \in Orders(m) /\ k \in Keys
      BY <2>5, <2>8
    <3>3. QED BY <3>1, <3>2, ViewPushed
  <2>11. <<[key |-> k, value |-> keys[k].value]>> \o View(keys, t, n - 1) = View(new, d, n)
    BY <2>5, <2>8, <2>10 DEF m
  <2>12. QED BY <1>2, <2>1, <2>11 DEF d, k
<1>3. QED BY <1>1, <1>2

LEMMA ViewOverwrite ==
  ASSUME NEW n \in Nat, NEW s \in Orders(n), NEW keys, NEW p \in 1..n, NEW v \in Values, NEW new,
         \A i \in 1..n : keys[s[i]].value \in Values,
         \A i \in 1..n : new[s[i]].value = IF s[i] = s[p] THEN v ELSE keys[s[i]].value
  PROVE  Recency!Overwrite(View(keys, s, n), s[p], v) = View(new, s, n)
<1> DEFINE e == View(keys, s, n)
           x == [key |-> s[p], value |-> v]
<1>1. DOMAIN e = 1..n /\ Recency!Position(e, s[p]) = p
  BY ViewFields
<1>2. e[p] = [key |-> s[p], value |-> keys[s[p]].value]
  BY ViewEntry
<1>3. Recency!Overwrite(e, s[p], v) = [e EXCEPT ![p] = [e[p] EXCEPT !.value = v]]
  BY <1>1 DEF Recency!Overwrite
<1>4. [e[p] EXCEPT !.value = v] = x
  <2> HIDE DEF e
  <2>1. QED BY <1>2
<1>5. e = [i \in 1..n |-> e[i]] /\ \A i \in 1..n : e[i] = [key |-> s[i], value |-> keys[s[i]].value]
  BY DEF View
<1> HIDE DEF e, x
<1>6. Recency!Overwrite(e, s[p], v) = [i \in 1..n |-> IF i = p THEN x ELSE e[i]]
  BY <1>3, <1>4, <1>5
<1>7. ASSUME NEW i \in 1..n PROVE (IF i = p THEN x ELSE e[i]) = [key |-> s[i], value |-> new[s[i]].value]
  <2>1. CASE i = p
    <3>1. new[s[p]].value = v
      OBVIOUS
    <3>2. QED BY <2>1, <3>1 DEF x
  <2>2. CASE i # p
    <3>1. s[i] # s[p]
      BY <2>2, Positions
    <3>2. new[s[i]].value = keys[s[i]].value
      BY <3>1
    <3>3. QED BY <1>5, <2>2, <3>2
  <2>3. QED BY <2>1, <2>2
<1>8. QED BY <1>6, <1>7 DEF View, e

LEMMA ViewLast ==
  ASSUME NEW n \in Nat, n > 0, NEW s \in Orders(n), NEW keys, \A i \in 1..n : keys[s[i]].value \in Values
  PROVE  SubSeq(View(keys, s, n), 1, n - 1) = View(keys, Taken(s, n, n), n - 1)
<1> DEFINE e == View(keys, s, n)
           t == Taken(s, n, n)
           g == View(keys, t, n - 1)
           m == n - 1
<1>1. m \in Nat /\ m \in Int /\ 1 \in Int /\ n \in 1..n
  OBVIOUS
<1>2. \A i \in 1..n : e[i] \in Entries
  <2>1. e \in Seq(Entries) /\ Len(e) = n
    BY ViewFields
  <2>2. QED BY <2>1, ElementOfSeq
<1>3. t \in Orders(n - 1) /\ \A i \in 1..m : t[i] = s[i] /\ i \in 1..n
  BY <1>1, TakenOrder DEF Taken
<1>4. \A i \in 1..m : keys[t[i]].value \in Values
  BY <1>3
<1>5. g \in Seq(Entries) /\ Len(g) = m
  <2>1. n - 1 \in Nat
    OBVIOUS
  <2> HIDE DEF t
  <2>2. QED BY <1>3, <1>4, <2>1, ViewFields
<1>6. \A i \in 1..m : g[i] = e[i]
  BY <1>3 DEF View
<1> HIDE DEF e, g, m
<1>7. /\ SubSeq(e, 1, m) \in Seq(Entries) /\ Len(SubSeq(e, 1, m)) = m
      /\ \A i \in 1..m : SubSeq(e, 1, m)[i] = e[i]
  <2>1. \A i \in 1..m : e[i] \in Entries
    BY <1>2 DEF m
  <2>2. /\ SubSeq(e, 1, m) \in Seq(Entries) /\ Len(SubSeq(e, 1, m)) = IF 1 <= m THEN m - 1 + 1 ELSE 0
        /\ \A i \in 1..(m - 1 + 1) : SubSeq(e, 1, m)[i] = e[1 + i - 1]
    BY <1>1, <2>1, SubSeqProperties
  <2>3. m - 1 + 1 = m /\ \A i \in 1..m : 1 + i - 1 = i
    BY <1>1
  <2>4. QED BY <1>1, <2>2, <2>3
<1>8. SubSeq(e, 1, m) = g
  BY <1>5, <1>6, <1>7, SeqEqual
<1>9. QED BY <1>8 DEF e, g, m, t

----------------------------------------------------------------------------
(* The steps *)

\* Some order of keys is the list of the cache.
ListInv ==
  /\ fifo \in BOOLEAN
  /\ \E n \in 0..Capacity : \E s \in Orders(n) : Lists(cache, s, n)

LEMMA ListValues ==
  ASSUME NEW n, NEW s, NEW c, Lists(c, s, n)
  PROVE  /\ n \in Nat /\ s \in Orders(n) /\ \A i \in 1..n : c.keys[s[i]].value \in Values
         /\ ListedEntries(c) = View(c.keys, s, n)
         /\ Len(ListedEntries(c)) = n
         /\ Recency!CachedKeys(ListedEntries(c)) = {s[i] : i \in 1..n}
         /\ DOMAIN c.keys = {s[i] : i \in 1..n}
<1>1. n \in Nat /\ s \in Orders(n) /\ \A i \in 1..n : c.keys[s[i]].value \in Values
  BY ListFields DEF Linked
<1>2. ListedEntries(c) = View(c.keys, s, n)
  BY EntriesViewed
<1>3. Len(View(c.keys, s, n)) = n /\ Recency!CachedKeys(View(c.keys, s, n)) = {s[i] : i \in 1..n}
  BY <1>1, ViewFields
<1>4. DOMAIN c.keys = {s[i] : i \in 1..n}
  BY ListFields
<1>5. QED BY <1>1, <1>2, <1>3, <1>4

\* What a step promises: another list, whose entries are those of the abstract
\* step.
Becomes(e) == \E n \in 0..Capacity : \E s \in Orders(n) : Lists(cache', s, n) /\ ListedEntries(cache') = e

LEMMA BecomesList ==
  ASSUME NEW n, NEW s, Lists(cache', s, n)
  PROVE  Becomes(View(cache'.keys, s, n))
<1>1. ListedEntries(cache') = View(cache'.keys, s, n)
  BY EntriesViewed
<1>2. n \in 0..Capacity /\ s \in Orders(n)
  BY DEF Lists
<1>3. QED BY <1>1, <1>2 DEF Becomes

LEMMA TouchStep ==
  ASSUME NEW n, NEW s, NEW c, Lists(c, s, n), NEW p \in 1..n, cache' = Refreshed(c, s[p])
  PROVE  Becomes(Recency!Touch(ListedEntries(c), s[p], fifo))
<1> DEFINE d == IF fifo THEN s ELSE Moved(s, n, p)
<1>1. /\ n \in Nat /\ s \in Orders(n) /\ \A i \in 1..n : c.keys[s[i]].value \in Values
      /\ ListedEntries(c) = View(c.keys, s, n) /\ DOMAIN c.keys = {s[i] : i \in 1..n}
  BY ListValues
<1>2. Lists(cache', d, n) /\ SameValues(c, cache')
  BY RefreshedLists
<1>3. DOMAIN cache'.keys = {s[i] : i \in 1..n}
  <2>1. {Moved(s, n, p)[i] : i \in 1..n} = {s[i] : i \in 1..n}
    BY <1>1, MovedOrder
  <2>2. {d[i] : i \in 1..n} = {s[i] : i \in 1..n}
    BY <2>1
  <2> HIDE DEF d
  <2>3. DOMAIN cache'.keys = {d[i] : i \in 1..n}
    BY <1>2, ListFields
  <2>4. QED BY <2>2, <2>3
<1>4. \A i \in 1..n : cache'.keys[s[i]].value = c.keys[s[i]].value
  BY <1>1, <1>2, <1>3 DEF SameValues
<1>5. Recency!Touch(View(c.keys, s, n), s[p], fifo) = View(cache'.keys, d, n)
  <2>1. n \in Nat /\ s \in Orders(n) /\ \A i \in 1..n : c.keys[s[i]].value \in Values
    BY <1>1
  <2>2. \A f, old, new : (\A i \in 1..n : old[s[i]].value \in Values) /\ (\A i \in 1..n : new[s[i]].value = old[s[i]].value)
          => Recency!Touch(View(old, s, n), s[p], f) = View(new, IF f THEN s ELSE Moved(s, n, p), n)
    BY <2>1, ViewTouch
  <2>3. QED BY <1>4, <2>1, <2>2
<1> HIDE DEF d
<1>6. QED BY <1>1, <1>2, <1>5, BecomesList

LEMMA HasPosition ==
  ASSUME NEW n, NEW s, NEW c, Lists(c, s, n), NEW k
  PROVE  /\ k \in DOMAIN c.keys <=> k \in Recency!CachedKeys(ListedEntries(c))
         /\ k \in DOMAIN c.keys => \E p \in 1..n : k = s[p]
BY ListValues

LEMMA GetStep ==
  ASSUME ListInv, NEW k \in Keys, Get(k)
  PROVE  /\ k \in Recency!CachedKeys(ListedEntries(cache))
         /\ Becomes(Recency!Touch(ListedEntries(cache), k, fifo))
         /\ result' = Recency!ValueOf(ListedEntries(cache), k)
<1>1. PICK n, s : Lists(cache, s, n)
  BY DEF ListInv
<1>2. PICK p \in 1..n : k = s[p]
  BY <1>1, HasPosition DEF Get, Has
<1>3. cache' = Refreshed(cache, s[p]) /\ result' = cache.keys[s[p]].value
  BY <1>2 DEF Get
<1>4. Becomes(Recency!Touch(ListedEntries(cache), s[p], fifo))
  BY <1>1, <1>3, TouchStep
<1>5. Recency!ValueOf(ListedEntries(cache), s[p]) = cache.keys[s[p]].value
  <2>1. /\ n \in Nat /\ s \in Orders(n) /\ \A i \in 1..n : cache.keys[s[i]].value \in Values
        /\ ListedEntries(cache) = View(cache.keys, s, n)
    BY <1>1, ListValues
  <2>2. Recency!ValueOf(View(cache.keys, s, n), s[p]) = cache.keys[s[p]].value
    BY <2>1, ViewEntry
  <2>3. QED BY <2>1, <2>2
<1>6. k \in Recency!CachedKeys(ListedEntries(cache))
  BY <1>1, HasPosition DEF Get, Has
<1>7. QED BY <1>2, <1>3, <1>4, <1>5, <1>6

LEMMA RefreshStep ==
  ASSUME ListInv, NEW k \in Keys, Refresh(k)
  PROVE  /\ k \in Recency!CachedKeys(ListedEntries(cache))
         /\ Becomes(Recency!Touch(ListedEntries(cache), k, fifo))
         /\ result' = NoEntry
<1>1. PICK n, s : Lists(cache, s, n)
  BY DEF ListInv
<1>2. PICK p \in 1..n : k = s[p]
  BY <1>1, HasPosition DEF Refresh, Has
<1>3. cache' = Refreshed(cache, s[p]) /\ result' = NoEntry
  BY <1>2 DEF Refresh
<1>4. Becomes(Recency!Touch(ListedEntries(cache), s[p], fifo))
  BY <1>1, <1>3, TouchStep
<1>5. k \in Recency!CachedKeys(ListedEntries(cache))
  BY <1>1, HasPosition DEF Refresh, Has
<1>6. QED BY <1>2, <1>3, <1>4, <1>5

LEMMA DelStep ==
  ASSUME ListInv, NEW k \in Keys, Del(k)
  PROVE  /\ k \in Recency!CachedKeys(ListedEntries(cache))
         /\ Becomes(Recency!Without(ListedEntries(cache), k))
         /\ result' = ListedEntries(cache)[Recency!Position(ListedEntries(cache), k)]
<1>1. PICK n, s : Lists(cache, s, n)
  BY DEF ListInv
<1>2. PICK p \in 1..n : k = s[p]
  BY <1>1, HasPosition DEF Del, Has
<1>3. /\ n \in Nat /\ s \in Orders(n) /\ \A i \in 1..n : cache.keys[s[i]].value \in Values
      /\ ListedEntries(cache) = View(cache.keys, s, n) /\ DOMAIN cache.keys = {s[i] : i \in 1..n}
  BY <1>1, ListValues
<1>4. cache' = Deleted(cache, s[p]) /\ result' = [key |-> s[p], value |-> cache.keys[s[p]].value]
  BY <1>2 DEF Del, Removed
<1>5. Lists(cache', Taken(s, n, p), n - 1) /\ SameValues(cache, cache')
  BY <1>1, <1>4, DeletedLists
<1>6. \A i \in 1..(n - 1) : cache'.keys[Taken(s, n, p)[i]].value = cache.keys[Taken(s, n, p)[i]].value
  <2>1. DOMAIN cache'.keys = {Taken(s, n, p)[i] : i \in 1..(n - 1)}
    BY <1>5, ListFields
  <2>2. {Taken(s, n, p)[i] : i \in 1..(n - 1)} \subseteq {s[i] : i \in 1..n}
    BY <1>3, TakenOrder, SMTT(30)
  <2>3. QED BY <1>3, <1>5, <2>1, <2>2 DEF SameValues
<1>7. View(cache'.keys, Taken(s, n, p), n - 1) = View(cache.keys, Taken(s, n, p), n - 1)
  <2>1. n - 1 \in Nat
    BY <1>3
  <2>2. QED BY <1>6, <2>1, SameView
<1>8. Recency!Without(View(cache.keys, s, n), s[p]) = View(cache.keys, Taken(s, n, p), n - 1)
  BY <1>3, ViewWithout
<1>9. Becomes(View(cache'.keys, Taken(s, n, p), n - 1))
  BY <1>5, BecomesList
<1>10. View(cache.keys, s, n)[Recency!Position(View(cache.keys, s, n), s[p])] = [key |-> s[p], value |-> cache.keys[s[p]].value]
  BY <1>3, ViewEntry
<1>11. k \in Recency!CachedKeys(ListedEntries(cache))
  BY <1>1, HasPosition DEF Del, Has
<1>12. QED BY <1>2, <1>3, <1>4, <1>7, <1>8, <1>9, <1>10, <1>11

\* put gives a cached key its value and moves it to the front.
LEMMA UpdateStep ==
  ASSUME ListInv, NEW k \in Keys, NEW v \in Values, Update(k, v)
  PROVE  /\ Becomes(Recency!Store(ListedEntries(cache), k, v, fifo))
         /\ result' = Recency!Victim(ListedEntries(cache), k)
<1>1. PICK n, s : Lists(cache, s, n)
  BY DEF ListInv
<1>2. PICK p \in 1..n : k = s[p]
  BY <1>1, HasPosition DEF Update, Has
<1>3. k \in Recency!CachedKeys(ListedEntries(cache))
  BY <1>1, HasPosition DEF Update, Has
<1> DEFINE u == Valued(cache, s[p], v)
<1>4. cache' = Refreshed(u, s[p]) /\ result' = NoEntry
  BY <1>2 DEF Update, Valued
<1>5. /\ Lists(u, s, n) /\ DOMAIN u.keys = DOMAIN cache.keys
      /\ \A x \in DOMAIN cache.keys : u.keys[x].value = IF x = s[p] THEN v ELSE cache.keys[x].value
  BY <1>1, ValuedLists
<1> HIDE DEF u
<1>6. /\ n \in Nat /\ s \in Orders(n) /\ \A i \in 1..n : cache.keys[s[i]].value \in Values
      /\ ListedEntries(cache) = View(cache.keys, s, n) /\ DOMAIN cache.keys = {s[i] : i \in 1..n}
  BY <1>1, ListValues
<1>7. ListedEntries(u) = View(u.keys, s, n)
  BY <1>5, ListValues
<1>8. Recency!Overwrite(ListedEntries(cache), k, v) = ListedEntries(u)
  <2>1. \A i \in 1..n : u.keys[s[i]].value = IF s[i] = s[p] THEN v ELSE cache.keys[s[i]].value
    BY <1>5, <1>6
  <2>2. Recency!Overwrite(View(cache.keys, s, n), s[p], v) = View(u.keys, s, n)
    <3>1. n \in Nat /\ s \in Orders(n) /\ p \in 1..n /\ v \in Values
      BY <1>6
    <3>2. \A i \in 1..n : cache.keys[s[i]].value \in Values
      BY <1>6
    <3>3. \A old, new : (\A i \in 1..n : old[s[i]].value \in Values)
             /\ (\A i \in 1..n : new[s[i]].value = IF s[i] = s[p] THEN v ELSE old[s[i]].value)
            => Recency!Overwrite(View(old, s, n), s[p], v) = View(new, s, n)
      BY <3>1, ViewOverwrite
    <3>4. QED BY <2>1, <3>2, <3>3
  <2>3. QED BY <1>2, <1>6, <1>7, <2>2
<1>9. Becomes(Recency!Touch(ListedEntries(u), s[p], fifo))
  BY <1>4, <1>5, TouchStep
<1>10. Recency!Store(ListedEntries(cache), k, v, fifo) = Recency!Touch(Recency!Overwrite(ListedEntries(cache), k, v), k, fifo)
  BY <1>3 DEF Recency!Store
<1>11. Recency!Victim(ListedEntries(cache), k) = NoEntry
  BY <1>3 DEF Recency!Victim
<1>12. QED BY <1>2, <1>4, <1>8, <1>9, <1>10, <1>11

\* A key put in front of a list, with its entries.
LEMMA InsertStep ==
  ASSUME NEW n, NEW s, NEW c, Lists(c, s, n), n < Capacity, NEW k \in Keys, NEW v \in Values,
         k \notin DOMAIN c.keys, cache' = Inserted(c, k, v)
  PROVE  Becomes(<<Recency!Entry(k, v)>> \o ListedEntries(c))
<1> DEFINE d == Pushed(s, n, k)
           new == cache'.keys
<1>1. /\ n \in Nat /\ s \in Orders(n) /\ \A i \in 1..n : c.keys[s[i]].value \in Values
      /\ ListedEntries(c) = View(c.keys, s, n) /\ DOMAIN c.keys = {s[i] : i \in 1..n}
  BY ListValues
<1>2. Lists(cache', d, n + 1) /\ SameValues(c, cache') /\ new[k].value = v
  BY InsertedLists
<1>3. d \in Orders(n + 1) /\ {d[i] : i \in 1..(n + 1)} = {s[i] : i \in 1..n} \cup {k}
  <2>1. n \in Nat /\ s \in Orders(n) /\ k \in Keys /\ k \notin {s[i] : i \in 1..n}
    BY <1>1
  <2>2. QED BY ONLY <2>1, PushedOrder
<1>4. d[1] = k /\ \A i \in 1..n : d[i + 1] = s[i]
  <2>1. \A i \in 1..n : i + 1 \in 1..(n + 1) /\ i + 1 # 1 /\ (i + 1) - 1 = i
    BY <1>1
  <2>2. 1 \in 1..(n + 1)
    BY <1>1
  <2>3. QED BY <2>1, <2>2 DEF Pushed
<1>5. \A i \in 1..n : new[s[i]].value = c.keys[s[i]].value
  <2>1. DOMAIN new = {d[i] : i \in 1..(n + 1)}
    BY <1>2, ListFields
  <2> HIDE DEF d
  <2>2. QED BY <1>1, <1>2, <1>3, <2>1 DEF SameValues
<1> HIDE DEF d, new
<1>6. Prepends(d, new, s, c.keys, n, k)
  BY <1>1, <1>2, <1>3, <1>4, <1>5 DEF Prepends, Orders
<1>7. <<[key |-> k, value |-> new[k].value]>> \o View(c.keys, s, n) = View(new, d, n + 1)
  BY <1>1, <1>6, ViewPushed
<1>8. Becomes(View(new, d, n + 1))
  BY <1>2, BecomesList DEF new
<1>9. [key |-> k, value |-> new[k].value] = Recency!Entry(k, v)
  BY <1>2 DEF Recency!Entry
<1>10. QED BY <1>1, <1>7, <1>8, <1>9

\* put adds a key, and a full cache evicts the last of its list.
LEMMA AddStep ==
  ASSUME ListInv, NEW k \in Keys, NEW v \in Values, Add(k, v)
  PROVE  /\ Becomes(Recency!Store(ListedEntries(cache), k, v, fifo))
         /\ result' = Recency!Victim(ListedEntries(cache), k)
<1>1. PICK n, s : Lists(cache, s, n)
  BY DEF ListInv
<1> DEFINE e == ListedEntries(cache)
<1>2. /\ n \in Nat /\ n <= Capacity /\ cache.size = n /\ k \notin DOMAIN cache.keys /\ Capacity \in Nat /\ Capacity > 0
  BY <1>1, ListFields, Constants DEF Add, Has
<1>3. Len(e) = n /\ k \notin Recency!CachedKeys(e) /\ e = View(cache.keys, s, n)
  BY <1>1, <1>2, ListValues, HasPosition
<1>4. CASE n < Capacity
  <2>1. cache' = Inserted(cache, k, v) /\ result' = NoEntry
    BY <1>2, <1>4 DEF Add, Full
  <2>2. Becomes(<<Recency!Entry(k, v)>> \o e)
    BY <1>1, <1>2, <1>4, <2>1, InsertStep
  <2> HIDE DEF e
  <2>3. Recency!Store(e, k, v, fifo) = <<Recency!Entry(k, v)>> \o e /\ Recency!Victim(e, k) = NoEntry
    BY <1>3, <1>4 DEF Recency!Store, Recency!Victim
  <2>4. QED BY <2>1, <2>2, <2>3 DEF e
<1>5. CASE n = Capacity
  <2> DEFINE c == EvictedTail(cache)
             t == Taken(s, n, n)
  <2>1. cache' = Inserted(c, k, v) /\ result' = Removed(cache, cache.tail)
    BY <1>2, <1>5 DEF Add, Full
  <2>2. Lists(c, t, n - 1) /\ SameValues(cache, c) /\ cache.tail = s[n]
    BY <1>1, <1>2, <1>5, EvictedLists
  <2>3. /\ n \in Nat /\ s \in Orders(n) /\ \A i \in 1..n : cache.keys[s[i]].value \in Values
        /\ DOMAIN cache.keys = {s[i] : i \in 1..n}
    BY <1>1, ListValues
  <2>4. /\ t \in Orders(n - 1)
        /\ {t[i] : i \in 1..(n - 1)} = {s[i] : i \in 1..n} \ {s[n]}
    <3>1. n \in 1..n /\ n \in Nat /\ s \in Orders(n)
      BY <1>2, <1>5, <2>3
    <3>2. QED BY ONLY <3>1, TakenOrder, ZenonT(60)
  <2> HIDE DEF c, t
  <2>5. DOMAIN c.keys = {t[i] : i \in 1..(n - 1)} /\ ListedEntries(c) = View(c.keys, t, n - 1)
    BY <2>2, ListFields, EntriesViewed
  <2>6. k \notin DOMAIN c.keys
    BY <1>2, <2>3, <2>4, <2>5
  <2>7. n - 1 < Capacity /\ n - 1 \in Nat /\ n \in 1..n
    BY <1>2, <1>5
  <2>8. Becomes(<<Recency!Entry(k, v)>> \o ListedEntries(c))
    BY <2>1, <2>2, <2>6, <2>7, InsertStep
  <2>9. ListedEntries(c) = SubSeq(e, 1, n - 1)
    <3>1. \A i \in 1..(n - 1) : c.keys[t[i]].value = cache.keys[t[i]].value
      BY <2>2, <2>3, <2>4, <2>5 DEF SameValues
    <3>2. View(c.keys, t, n - 1) = View(cache.keys, t, n - 1)
      BY <2>7, <3>1, SameView
    <3>3. SubSeq(View(cache.keys, s, n), 1, n - 1) = View(cache.keys, t, n - 1)
      BY <1>2, <1>5, <2>3, ViewLast DEF t
    <3>4. QED BY <1>3, <2>5, <3>2, <3>3
  <2>10. Recency!Victim(e, k) = e[n] /\ Recency!Store(e, k, v, fifo) = <<Recency!Entry(k, v)>> \o SubSeq(e, 1, n - 1)
    <3> HIDE DEF e
    <3>1. QED BY <1>2, <1>3, <1>5 DEF Recency!Store, Recency!Victim
  <2>11. e[n] = Removed(cache, cache.tail)
    BY <1>3, <2>2, <2>7 DEF Removed, View
  <2>12. QED BY <2>1, <2>8, <2>9, <2>10, <2>11
<1>6. QED BY <1>2, <1>4, <1>5

----------------------------------------------------------------------------
(* Theorems *)

LEMMA InitLists == Init => ListInv /\ Recency!Init
<1> SUFFICES ASSUME Init PROVE ListInv /\ Recency!Init
  OBVIOUS
<1> DEFINE s == [i \in 1..0 |-> Null]
<1>1. s \in Orders(0) /\ 0 \in 0..Capacity
  BY Constants DEF Orders
<1>2. cache = [head |-> Null, tail |-> Null, size |-> 0, keys |-> << >>] /\ fifo \in BOOLEAN /\ result = NoEntry
  BY DEF Init, Empty
<1>3. At(s, 0, 1) = Null /\ At(s, 0, 0) = Null
  BY DEF At
<1> HIDE DEF s
<1>4. Linked(<< >>, s, 0)
  <2>1. << >> = [x \in {s[i] : i \in 1..0} |-> << >>[x]]
    BY DEF s
  <2>2. QED BY <2>1 DEF Linked
<1>5. cache.keys = << >>
  BY <1>2
<1>6. Lists(cache, s, 0)
  BY <1>1, <1>2, <1>3, <1>4, <1>5 DEF Lists
<1>7. ListInv
  BY <1>1, <1>2, <1>6 DEF ListInv
<1>8. ListedEntries(cache) = << >>
  <2>1. ListedEntries(cache) \in Seq(Entries) /\ Len(ListedEntries(cache)) = 0
    <3>1. \A i \in 1..0 : cache.keys[s[i]].value \in Values
      OBVIOUS
    <3>2. View(cache.keys, s, 0) \in Seq(Entries) /\ Len(View(cache.keys, s, 0)) = 0
      BY <1>1, <3>1, ViewFields
    <3>3. QED BY <1>6, <3>2, EntriesViewed
  <2>2. QED BY <2>1, EmptySeq
<1>9. QED BY <1>2, <1>7, <1>8 DEF Recency!Init

LEMMA NextLists ==
  ASSUME ListInv, [Next]_vars
  PROVE  ListInv' /\ [Recency!Next]_<<ListedEntries(cache), fifo, result>>
<1> DEFINE e == ListedEntries(cache)
           Goal == ListInv' /\ [Recency!Next]_<<ListedEntries(cache), fifo, result>>
<1>1. ASSUME NEW f, Becomes(f), UNCHANGED fifo PROVE ListInv' /\ ListedEntries(cache)' = f
  BY <1>1 DEF ListInv, Becomes
<1>2. CASE UNCHANGED vars
  <2>1. cache' = cache /\ fifo' = fifo /\ result' = result
    BY <1>2 DEF vars
  <2>2. ListInv' /\ ListedEntries(cache)' = ListedEntries(cache)
    BY <2>1 DEF ListInv
  <2>3. QED BY <2>1, <2>2
<1>3. ASSUME NEW k \in Keys, Get(k), UNCHANGED fifo PROVE Goal
  <2>1. k \in Recency!CachedKeys(e) /\ result' = Recency!ValueOf(e, k) /\ Becomes(Recency!Touch(e, k, fifo))
    BY <1>3, GetStep
  <2>2. ListInv' /\ e' = Recency!Touch(e, k, fifo)
    BY <1>1, <1>3, <2>1
  <2>3. Recency!Get(k)
    BY <2>1, <2>2 DEF Recency!Get
  <2>4. QED BY <1>3, <2>2, <2>3 DEF Recency!Next
<1>4. ASSUME NEW k \in Keys, Refresh(k), UNCHANGED fifo PROVE Goal
  <2>1. k \in Recency!CachedKeys(e) /\ result' = NoEntry /\ Becomes(Recency!Touch(e, k, fifo))
    BY <1>4, RefreshStep
  <2>2. ListInv' /\ e' = Recency!Touch(e, k, fifo)
    BY <1>1, <1>4, <2>1
  <2>3. Recency!Refresh(k)
    BY <2>1, <2>2 DEF Recency!Refresh
  <2>4. QED BY <1>4, <2>2, <2>3 DEF Recency!Next
<1>5. ASSUME NEW k \in Keys, Del(k), UNCHANGED fifo PROVE Goal
  <2>1. /\ k \in Recency!CachedKeys(e) /\ result' = e[Recency!Position(e, k)]
        /\ Becomes(Recency!Without(e, k))
    BY <1>5, DelStep
  <2>2. ListInv' /\ e' = Recency!Without(e, k)
    BY <1>1, <1>5, <2>1
  <2>3. Recency!Del(k)
    BY <2>1, <2>2 DEF Recency!Del
  <2>4. QED BY <1>5, <2>2, <2>3 DEF Recency!Next
<1>6. ASSUME NEW k \in Keys, Refuse(k), UNCHANGED fifo PROVE Goal
  <2>1. PICK n, s : Lists(cache, s, n)
    BY DEF ListInv
  <2>2. k \notin Recency!CachedKeys(e)
    BY <1>6, <2>1, HasPosition DEF Refuse, Has
  <2>3. cache' = cache /\ result' = Thrown
    BY <1>6 DEF Refuse
  <2>4. ListInv' /\ e' = e
    BY <1>6, <2>3 DEF ListInv
  <2>5. Recency!Refuse(k)
    BY <2>2, <2>3, <2>4 DEF Recency!Refuse
  <2>6. QED BY <1>6, <2>4, <2>5 DEF Recency!Next
<1>7. ASSUME NEW k \in Keys, NEW v \in Values, Update(k, v) \/ Add(k, v), UNCHANGED fifo PROVE Goal
  <2>1. Becomes(Recency!Store(e, k, v, fifo)) /\ result' = Recency!Victim(e, k)
    BY <1>7, UpdateStep, AddStep
  <2>2. ListInv' /\ e' = Recency!Store(e, k, v, fifo)
    BY <1>1, <1>7, <2>1
  <2>3. Recency!Put(k, v)
    BY <2>1, <2>2 DEF Recency!Put
  <2>4. QED BY <1>7, <2>2, <2>3 DEF Recency!Next
<1>8. QED BY <1>2, <1>3, <1>4, <1>5, <1>6, <1>7 DEF Next

\* The linked list is the list of some order of keys, no longer than the
\* capacity of the cache, whatever is called.
THEOREM ListInvariant == Spec => []ListInv
<1>1. ListInv /\ [Next]_vars => ListInv'
  BY NextLists
<1>2. Init => ListInv
  BY InitLists
<1>3. QED BY <1>1, <1>2, PTL DEF Spec

\* The links are keys or null, the size is within the capacity and the mapping
\* holds nodes with a value and two links.
THEOREM LruTypeCorrect == Spec => []TypeOK
<1>1. ListInv => TypeOK
  <2> SUFFICES ASSUME ListInv PROVE TypeOK
    OBVIOUS
  <2>1. PICK n, s : Lists(cache, s, n)
    BY DEF ListInv
  <2>2. /\ n \in Nat /\ n <= Capacity /\ s \in Orders(n) /\ Linked(cache.keys, s, n)
        /\ cache.head = At(s, n, 1) /\ cache.tail = At(s, n, n) /\ cache.size = n
        /\ DOMAIN cache.keys = {s[i] : i \in 1..n}
    BY <2>1, ListFields
  <2>3. \A i \in 1..n : s[i] \in Keys
    BY <2>2, Positions
  <2>4. \A i \in Int : At(s, n, i) \in Link
    BY <2>3 DEF At, Link
  <2>5. DOMAIN cache.keys \in SUBSET Keys
    BY <2>2, <2>3
  <2>6. ASSUME NEW x \in DOMAIN cache.keys PROVE cache.keys[x] \in [value : Values, prev : Link, next : Link]
    <3>1. PICK i \in 1..n : x = s[i]
      BY <2>2
    <3>2. /\ cache.keys[s[i]].value \in Values
          /\ cache.keys[s[i]].prev \in Link /\ cache.keys[s[i]].next \in Link
      <4>1. /\ cache.keys[s[i]].value \in Values
            /\ cache.keys[s[i]].prev = At(s, n, i - 1) /\ cache.keys[s[i]].next = At(s, n, i + 1)
        BY <2>2 DEF Linked
      <4>2. i - 1 \in Int /\ i + 1 \in Int
        BY <2>2
      <4>3. QED BY <2>4, <4>1, <4>2
    <3>3. cache.keys[s[i]] = Node(cache.keys[s[i]].value, cache.keys[s[i]].prev, cache.keys[s[i]].next)
      BY <2>2 DEF Linked
    <3>4. QED BY <3>1, <3>2, <3>3 DEF Node
  <2>7. cache.keys = [x \in DOMAIN cache.keys |-> cache.keys[x]]
    BY <2>2 DEF Linked
  <2>8. cache.keys \in [DOMAIN cache.keys -> [value : Values, prev : Link, next : Link]]
    BY <2>6, <2>7
  <2>9. cache.head \in Link /\ cache.tail \in Link /\ cache.size \in 0..Capacity
    BY <2>2, <2>4
  <2>10. QED BY <2>5, <2>8, <2>9 DEF TypeOK, ListInv
<1>2. QED BY <1>1, ListInvariant, PTL

\* getOrderedKeys never finds the list and the mapping at odds, and following
\* the list back meets its keys in the opposite order.
THEOREM ListsAreConsistent == Spec => []ListConsistent
<1>1. ListInv => ListConsistent
  BY ListIsConsistent DEF ListInv
<1>2. QED BY <1>1, ListInvariant, PTL

\* The linked list is a bounded sequence of entries that evicts the last one:
\* every call returns what that sequence prescribes.
THEOREM ListRefinesRecency == Spec => ImplementsRecencyCache
<1>1. Init => Recency!Init
  BY InitLists
<1>2. ListInv /\ [Next]_vars => [Recency!Next]_<<ListedEntries(cache), fifo, result>>
  BY NextLists
<1>3. QED BY <1>1, <1>2, ListInvariant, PTL DEF Spec, ImplementsRecencyCache, Recency!Spec
=============================================================================
