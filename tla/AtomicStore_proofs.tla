-------------------------- MODULE AtomicStore_proofs -------------------------
(***************************************************************************)
(* Proofs about local/cached-store.js and, over it, getAndModify of        *)
(* local/atomic-store.js, for every set of callers, keys and files, every  *)
(* capacity and every fault of the store.                                  *)
(*                                                                         *)
(* First the cached store.  None of its properties is inductive alone.     *)
(* StoreInv is: calls are where they can be, a task in the store holds the *)
(* lock of its file, and a clean entry has the value of every write of its *)
(* key in progress, which is where exclusive access comes in: while a      *)
(* value is loaded or written back, no other write of the key runs.        *)
(***************************************************************************)
EXTENDS AtomicStore, FiniteSetTheorems, SequenceTheorems, WellFoundedInduction, TLAPS

----------------------------------------------------------------------------
(* Caches *)

Items == [data : Values, dirty : BOOLEAN]
Entries == [key : Keys, value : Items]

\* A key is cached once.
Distinct(c) == \A i, j \in 1..Len(c) : c[i].key = c[j].key => i = j
Caches == {c \in Seq(Entries) : Distinct(c)}

\* The value of a key is that of its only entry.
LEMMA Lookup ==
  ASSUME NEW c \in Caches
  PROVE  /\ Len(c) \in Nat /\ DOMAIN c = 1..Len(c) /\ \A i \in 1..Len(c) : c[i] \in Entries
         /\ \A i \in 1..Len(c) : /\ c[i].key \in CachedKeys(c) /\ Position(c, c[i].key) = i
                                 /\ ValueOf(c, c[i].key) = c[i].value
         /\ \A k \in CachedKeys(c) : /\ Position(c, k) \in 1..Len(c) /\ c[Position(c, k)].key = k
                                     /\ k \in Keys /\ ValueOf(c, k) \in Items
<1>1. Len(c) \in Nat /\ DOMAIN c = 1..Len(c) /\ \A i \in 1..Len(c) : c[i] \in Entries
  BY LenProperties, ElementOfSeq DEF Caches
<1>2. \A i \in 1..Len(c) : c[i].key \in Keys /\ c[i].value \in Items
  BY <1>1 DEF Entries
<1>3. ASSUME NEW k \in CachedKeys(c)
      PROVE  Position(c, k) \in 1..Len(c) /\ c[Position(c, k)].key = k
  BY <1>1 DEF CachedKeys, Position
<1>4. ASSUME NEW i \in 1..Len(c)
      PROVE  c[i].key \in CachedKeys(c) /\ Position(c, c[i].key) = i
  <2>1. c[i].key \in CachedKeys(c)
    BY <1>1 DEF CachedKeys
  <2>2. Distinct(c)
    BY DEF Caches
  <2>3. Position(c, c[i].key) \in 1..Len(c) /\ c[Position(c, c[i].key)].key = c[i].key
    BY <1>3, <2>1
  <2>4. QED BY <2>1, <2>2, <2>3 DEF Distinct
<1>5. \A i \in 1..Len(c) : ValueOf(c, c[i].key) = c[i].value
  BY <1>4 DEF ValueOf
<1>6. \A k \in CachedKeys(c) : k \in Keys /\ ValueOf(c, k) \in Items
  BY <1>2, <1>3 DEF ValueOf
<1>7. QED BY <1>1, <1>3, <1>4, <1>5, <1>6

\* Two caches with the same entries, in whatever order, map alike.
Content(c) == {c[i] : i \in 1..Len(c)}

LEMMA ContentDetermines ==
  ASSUME NEW c \in Caches, NEW e
  PROVE  e \in Content(c) <=> e \in Entries /\ e.key \in CachedKeys(c) /\ ValueOf(c, e.key) = e.value
<1>1. ASSUME e \in Content(c)
      PROVE  e \in Entries /\ e.key \in CachedKeys(c) /\ ValueOf(c, e.key) = e.value
  BY <1>1, Lookup DEF Content
<1>2. ASSUME e \in Entries, e.key \in CachedKeys(c), ValueOf(c, e.key) = e.value
      PROVE  e \in Content(c)
  <2> DEFINE i == Position(c, e.key)
  <2>1. i \in 1..Len(c) /\ c[i].key = e.key /\ c[i] \in Entries /\ c[i].value = e.value
    BY <1>2, Lookup DEF ValueOf
  <2>2. c[i] = e
    BY <1>2, <2>1 DEF Entries
  <2>3. QED BY <2>1, <2>2 DEF Content
<1>3. QED BY <1>1, <1>2

LEMMA KeysOfContent ==
  ASSUME NEW c \in Caches
  PROVE  /\ CachedKeys(c) = {e.key : e \in Content(c)}
         /\ \A e \in Content(c) : e \in Entries /\ ValueOf(c, e.key) = e.value
<1>1. CachedKeys(c) = {e.key : e \in Content(c)}
  BY Lookup DEF CachedKeys, Content
<1>2. QED BY <1>1, ContentDetermines

\* An entry put in front of a cache that does not hold its key.
LEMMA InFront ==
  ASSUME NEW c \in Caches, NEW e \in Entries, e.key \notin CachedKeys(c)
  PROVE  /\ <<e>> \o c \in Caches /\ Len(<<e>> \o c) = Len(c) + 1
         /\ Content(<<e>> \o c) = {e} \cup Content(c)
<1> DEFINE d == <<e>> \o c
<1>1. c \in Seq(Entries) /\ Len(c) \in Nat /\ Distinct(c) /\ \A i \in 1..Len(c) : c[i].key \in CachedKeys(c)
  BY Lookup DEF Caches
<1>2. <<e>> \in Seq(Entries) /\ Len(<<e>>) = 1 /\ <<e>>[1] = e
  OBVIOUS
<1>3. /\ d \in Seq(Entries) /\ Len(d) = Len(c) + 1
      /\ \A i \in 1..(Len(c) + 1) : d[i] = IF i <= 1 THEN <<e>>[i] ELSE c[i - 1]
  BY <1>1, <1>2, ConcatProperties
<1> HIDE DEF d
<1>4. /\ d[1] = e
      /\ \A i \in 1..Len(d) : i # 1 => i - 1 \in 1..Len(c) /\ d[i] = c[i - 1]
      /\ \A i \in 1..Len(c) : i + 1 \in 1..Len(d) /\ d[i + 1] = c[i]
  BY <1>1, <1>2, <1>3
<1>5. Distinct(d)
  <2>1. SUFFICES ASSUME NEW i \in 1..Len(d), NEW j \in 1..Len(d), d[i].key = d[j].key PROVE i = j
    BY DEF Distinct
  <2>2. CASE i = 1 \/ j = 1
    BY <1>1, <1>4, <2>1, <2>2
  <2>3. CASE i # 1 /\ j # 1
    <3>1. /\ i - 1 \in 1..Len(c) /\ d[i] = c[i - 1]
          /\ j - 1 \in 1..Len(c) /\ d[j] = c[j - 1]
      BY <1>4, <2>3
    <3>2. c[i - 1].key = c[j - 1].key
      BY <2>1, <3>1
    <3>3. i - 1 = j - 1
      BY <1>1, <3>1, <3>2 DEF Distinct
    <3>4. QED BY <1>1, <1>3, <3>3
  <2>4. QED BY <2>2, <2>3
<1>6. Content(d) = {e} \cup Content(c)
  <2>1. Content(d) \subseteq {e} \cup Content(c)
    BY <1>4 DEF Content
  <2>2. e \in Content(d) /\ Content(c) \subseteq Content(d)
    <3>1. 1 \in 1..Len(d)
      BY <1>1, <1>3
    <3>2. e \in Content(d)
      BY <1>4, <3>1 DEF Content
    <3>3. ASSUME NEW f \in Content(c) PROVE f \in Content(d)
      <4>1. PICK i \in 1..Len(c) : f = c[i]
        BY DEF Content
      <4>2. i + 1 \in 1..Len(d) /\ d[i + 1] = f
        BY <1>4, <4>1
      <4>3. QED BY <4>2 DEF Content
    <3>4. QED BY <3>2, <3>3
  <2>3. QED BY <2>1, <2>2
<1>7. QED BY <1>3, <1>5, <1>6 DEF Caches, d

\* A cache without the entry at one position.
LEMMA Dropped ==
  ASSUME NEW c \in Caches, NEW p \in 1..Len(c), NEW d,
         d = [i \in 1 .. Len(c) - 1 |-> c[IF i < p THEN i ELSE i + 1]]
  PROVE  /\ d \in Caches /\ Len(d) = Len(c) - 1
         /\ Content(d) = {e \in Content(c) : e.key # c[p].key}
<1>1. Len(c) \in Nat /\ Distinct(c) /\ \A i \in 1..Len(c) : c[i] \in Entries
  BY Lookup DEF Caches
<1>2. \A i \in 1..(Len(c) - 1) : (IF i < p THEN i ELSE i + 1) \in 1..Len(c) \ {p}
  BY <1>1
<1>3. d \in Seq(Entries) /\ Len(d) = Len(c) - 1
  <2>1. Len(c) - 1 \in Nat
    BY <1>1
  <2>2. \A i \in 1..(Len(c) - 1) : c[IF i < p THEN i ELSE i + 1] \in Entries
    BY <1>1, <1>2
  <2>3. d \in [1..(Len(c) - 1) -> Entries]
    BY <2>2, Zenon
  <2>4. d \in Seq(Entries)
    BY <2>1, <2>3, SeqDef, ZenonT(60)
  <2>5. Len(d) \in Nat /\ DOMAIN d = 1..Len(d) /\ DOMAIN d = 1..(Len(c) - 1)
    BY <2>3, <2>4, LenProperties
  <2>6. QED BY <2>1, <2>4, <2>5
<1>4. \A i \in 1..Len(d) : d[i] = c[IF i < p THEN i ELSE i + 1]
  BY <1>3
<1>5. Distinct(d)
  <2>1. SUFFICES ASSUME NEW i \in 1..Len(d), NEW j \in 1..Len(d), d[i].key = d[j].key PROVE i = j
    BY DEF Distinct
  <2>2. (IF i < p THEN i ELSE i + 1) = (IF j < p THEN j ELSE j + 1)
    BY <1>1, <1>2, <1>3, <1>4, <2>1 DEF Distinct
  <2>3. QED BY <1>1, <1>3, <2>2
<1>6. ASSUME NEW e \in Content(d) PROVE e \in Content(c) /\ e.key # c[p].key
  <2>1. PICK i \in 1..(Len(c) - 1) : e = c[IF i < p THEN i ELSE i + 1]
    BY <1>3, <1>4 DEF Content
  <2>2. QED BY <1>1, <1>2, <2>1 DEF Content, Distinct
<1>7. ASSUME NEW e \in Content(c), e.key # c[p].key PROVE e \in Content(d)
  <2>1. PICK j \in 1..Len(c) : e = c[j]
    BY DEF Content
  <2>2. j # p
    BY <1>7, <2>1
  <2>3. CASE j < p
    BY <1>1, <1>3, <1>4, <2>1, <2>3 DEF Content
  <2>4. CASE j > p
    <3>1. j - 1 \in 1..Len(d) /\ d[j - 1] = c[j]
      BY <1>1, <1>3, <1>4, <2>4
    <3>2. QED BY <2>1, <3>1 DEF Content
  <2>5. QED BY <1>1, <2>2, <2>3, <2>4
<1>8. QED BY <1>3, <1>5, <1>6, <1>7 DEF Caches

LEMMA WithoutRemoves ==
  ASSUME NEW c \in Caches, NEW k
  PROVE  /\ Without(c, k) \in Caches /\ Len(Without(c, k)) <= Len(c)
         /\ k \in CachedKeys(c) => Len(Without(c, k)) = Len(c) - 1
         /\ Content(Without(c, k)) = {e \in Content(c) : e.key # k}
         /\ CachedKeys(Without(c, k)) = CachedKeys(c) \ {k}
         /\ \A j \in CachedKeys(c) \ {k} : ValueOf(Without(c, k), j) = ValueOf(c, j)
<1> DEFINE d == Without(c, k)
<1>1. /\ d \in Caches /\ Len(d) <= Len(c) /\ (k \in CachedKeys(c) => Len(d) = Len(c) - 1)
      /\ Content(d) = {e \in Content(c) : e.key # k}
  <2>1. CASE k \in CachedKeys(c)
    <3>1. Position(c, k) \in 1..Len(c) /\ c[Position(c, k)].key = k /\ Len(c) \in Nat
      BY <2>1, Lookup
    <3>2. d = [i \in 1 .. Len(c) - 1 |-> c[IF i < Position(c, k) THEN i ELSE i + 1]]
      BY <2>1 DEF Without
    <3> HIDE DEF d
    <3>3. QED BY <3>1, <3>2, Dropped
  <2>2. CASE k \notin CachedKeys(c)
    <3>1. d = c /\ Len(c) \in Nat
      BY <2>2, Lookup DEF Without
    <3>2. \A e \in Content(c) : e.key # k
      BY <2>2, KeysOfContent
    <3>3. QED BY <2>2, <3>1, <3>2
  <2>3. QED BY <2>1, <2>2
<1> HIDE DEF d
<1>2. CachedKeys(d) = CachedKeys(c) \ {k}
  BY <1>1, KeysOfContent
<1>3. ASSUME NEW j \in CachedKeys(c) \ {k} PROVE ValueOf(d, j) = ValueOf(c, j)
  <2>1. PICK e \in Content(c) : e.key = j
    BY KeysOfContent
  <2>2. QED BY <1>1, <2>1, KeysOfContent
<1>4. QED BY <1>1, <1>2, <1>3 DEF d

\* What two caches that map alike have in common.
Alike(c, d) == CachedKeys(d) = CachedKeys(c) /\ \A k \in CachedKeys(c) : ValueOf(d, k) = ValueOf(c, k)

LEMMA SameContent ==
  ASSUME NEW c \in Caches, NEW d \in Caches, Content(d) = Content(c)
  PROVE  Alike(c, d)
<1>1. CachedKeys(d) = CachedKeys(c)
  BY KeysOfContent
<1>2. ASSUME NEW k \in CachedKeys(c) PROVE ValueOf(d, k) = ValueOf(c, k)
  <2>1. PICK e \in Content(c) : e.key = k
    BY KeysOfContent
  <2>2. QED BY <2>1, KeysOfContent
<1>3. QED BY <1>1, <1>2 DEF Alike

LEMMA TouchKeeps ==
  ASSUME NEW c \in Caches, NEW k \in CachedKeys(c), NEW fifo
  PROVE  /\ Touch(c, k, fifo) \in Caches /\ Len(Touch(c, k, fifo)) = Len(c)
         /\ Content(Touch(c, k, fifo)) = Content(c) /\ Alike(c, Touch(c, k, fifo))
<1> DEFINE d == Touch(c, k, fifo)
           e == c[Position(c, k)]
<1>1. d \in Caches /\ Len(d) = Len(c) /\ Content(d) = Content(c)
  <2>1. CASE fifo
    BY <2>1 DEF Touch
  <2>2. CASE ~fifo
    <3>1. d = <<e>> \o Without(c, k)
      BY <2>2 DEF Touch
    <3>2. e \in Entries /\ e.key = k /\ e \in Content(c) /\ Len(c) \in Nat
      BY Lookup DEF Content
    <3>3. /\ Without(c, k) \in Caches /\ k \notin CachedKeys(Without(c, k)) /\ Len(Without(c, k)) = Len(c) - 1
          /\ Content(Without(c, k)) = {f \in Content(c) : f.key # k}
      BY WithoutRemoves
    <3> HIDE DEF d, e
    <3>4. d \in Caches /\ Len(d) = Len(c) - 1 + 1 /\ Content(d) = {e} \cup {f \in Content(c) : f.key # k}
      BY <3>1, <3>2, <3>3, InFront
    <3>5. \A f \in Content(c) : f.key = k => f = e
      BY <3>2, ContentDetermines DEF Entries
    <3>6. QED BY <3>2, <3>4, <3>5
  <2>3. QED BY <2>1, <2>2
<1>2. QED BY <1>1, SameContent

LEMMA OverwriteKeeps ==
  ASSUME NEW c \in Caches, NEW k \in CachedKeys(c), NEW v \in Items
  PROVE  /\ Overwrite(c, k, v) \in Caches /\ Len(Overwrite(c, k, v)) = Len(c)
         /\ CachedKeys(Overwrite(c, k, v)) = CachedKeys(c)
         /\ \A j \in CachedKeys(c) : ValueOf(Overwrite(c, k, v), j) = IF j = k THEN v ELSE ValueOf(c, j)
<1> DEFINE d == Overwrite(c, k, v)
           p == Position(c, k)
<1>1. /\ c \in Seq(Entries) /\ Len(c) \in Nat /\ Distinct(c) /\ \A i \in 1..Len(c) : c[i] \in Entries
      /\ p \in 1..Len(c) /\ c[p].key = k /\ DOMAIN c = 1..Len(c)
  BY Lookup DEF Caches
<1>2. c = [i \in 1..Len(c) |-> c[i]]
  BY <1>1, SeqDef
<1>3. d = [i \in 1..Len(c) |-> IF i = p THEN [key |-> c[i].key, value |-> v] ELSE c[i]]
  <2>1. c[p] = [key |-> c[p].key, value |-> c[p].value]
    BY <1>1 DEF Entries
  <2>2. d = [c EXCEPT ![p] = [key |-> c[p].key, value |-> v]]
    <3>1. d = [c EXCEPT ![p] = [c[p] EXCEPT !.value = v]]
      BY DEF Overwrite
    <3>2. [c[p] EXCEPT !.value = v] = [key |-> c[p].key, value |-> v]
      BY <2>1
    <3>3. QED BY <3>1, <3>2
  <2> HIDE DEF d, p
  <2>3. QED BY <1>1, <1>2, <2>2
<1>3a. \A i \in 1..Len(c) : [key |-> c[i].key, value |-> v] \in Entries
  BY <1>1 DEF Entries
<1> HIDE DEF d, p
<1>4. d \in Seq(Entries) /\ Len(d) = Len(c)
  <2>1. d \in [1..Len(c) -> Entries]
    BY <1>1, <1>3, <1>3a
  <2>2. QED BY <1>1, <2>1, SeqDef, LenProperties
<1>5. \A i \in 1..Len(d) : d[i].key = c[i].key /\ d[i].value = IF i = p THEN v ELSE c[i].value
  BY <1>3, <1>4
<1>6. d \in Caches
  BY <1>1, <1>4, <1>5 DEF Caches, Distinct
<1>7. CachedKeys(d) = CachedKeys(c)
  <2>1. DOMAIN d = 1..Len(c)
    BY <1>4, <1>6, Lookup
  <2>2. CachedKeys(d) = {d[i].key : i \in 1..Len(c)} /\ CachedKeys(c) = {c[i].key : i \in 1..Len(c)}
    BY <1>1, <2>1 DEF CachedKeys
  <2>3. QED BY <1>4, <1>5, <2>2
<1>8. ASSUME NEW j \in CachedKeys(c) PROVE ValueOf(d, j) = IF j = k THEN v ELSE ValueOf(c, j)
  <2>1. PICK i \in 1..Len(c) : c[i].key = j
    BY <1>1 DEF CachedKeys
  <2>2. i = p <=> j = k
    BY <1>1, <2>1 DEF Distinct
  <2>3. ValueOf(d, d[i].key) = d[i].value /\ ValueOf(c, c[i].key) = c[i].value
    BY <1>4, <1>6, <2>1, Lookup
  <2>4. QED BY <1>4, <1>5, <2>1, <2>2, <2>3
<1>9. QED BY <1>4, <1>6, <1>7, <1>8 DEF d

\* put: the key has the value, every other one its own, and only the entry
\* that put returns has left.
LEMMA StoreInserts ==
  ASSUME NEW c \in Caches, NEW k \in Keys, NEW v \in Items, NEW fifo, Len(c) <= Capacity
  PROVE  /\ Store(c, k, v, fifo) \in Caches /\ Len(Store(c, k, v, fifo)) <= Capacity
         /\ k \in CachedKeys(Store(c, k, v, fifo)) /\ ValueOf(Store(c, k, v, fifo), k) = v
         /\ \A j \in CachedKeys(Store(c, k, v, fifo)) \ {k} :
              j \in CachedKeys(c) /\ ValueOf(Store(c, k, v, fifo), j) = ValueOf(c, j)
         /\ Victim(c, k) = NoEntry => CachedKeys(Store(c, k, v, fifo)) = CachedKeys(c) \cup {k}
         /\ k \in CachedKeys(c) => Victim(c, k) = NoEntry
         /\ Victim(c, k) # NoEntry =>
              /\ Victim(c, k) \in Entries /\ Victim(c, k).key \in CachedKeys(c) \ {k}
              /\ ValueOf(c, Victim(c, k).key) = Victim(c, k).value
              /\ CachedKeys(Store(c, k, v, fifo)) = (CachedKeys(c) \ {Victim(c, k).key}) \cup {k}
<1> DEFINE d == Store(c, k, v, fifo)
           victim == Victim(c, k)
<1>1. Len(c) \in Nat /\ Capacity \in Nat \ {0} /\ NoEntry \notin Entries
  BY Lookup, CachedStoreAssumption DEF Entries, Items
<1>2. CASE k \in CachedKeys(c)
  <2>1. d = Touch(Overwrite(c, k, v), k, fifo) /\ victim = NoEntry
    BY <1>2 DEF Store, Victim
  <2>2. /\ Overwrite(c, k, v) \in Caches /\ Len(Overwrite(c, k, v)) = Len(c)
        /\ CachedKeys(Overwrite(c, k, v)) = CachedKeys(c)
        /\ \A j \in CachedKeys(c) : ValueOf(Overwrite(c, k, v), j) = IF j = k THEN v ELSE ValueOf(c, j)
    BY <1>2, OverwriteKeeps
  <2> DEFINE o == Overwrite(c, k, v)
  <2> HIDE DEF d, victim, o
  <2>3. d \in Caches /\ Len(d) = Len(o) /\ Alike(o, d)
    BY <1>2, <2>1, <2>2, TouchKeeps DEF o
  <2>4. QED BY <1>1, <1>2, <2>1, <2>2, <2>3 DEF Alike, d, victim, o
<1>3. ASSUME k \notin CachedKeys(c), NEW rest \in Caches, d = <<Entry(k, v)>> \o rest, k \notin CachedKeys(rest)
      PROVE  /\ d \in Caches /\ Len(d) = Len(rest) + 1
             /\ CachedKeys(d) = CachedKeys(rest) \cup {k} /\ ValueOf(d, k) = v
             /\ \A j \in CachedKeys(rest) : ValueOf(d, j) = ValueOf(rest, j)
  <2> HIDE DEF d
  <2>1. Entry(k, v) \in Entries /\ Entry(k, v).key = k /\ Entry(k, v).value = v
    BY DEF Entry, Entries
  <2>2. d \in Caches /\ Len(d) = Len(rest) + 1 /\ Content(d) = {Entry(k, v)} \cup Content(rest)
    BY <1>3, <2>1, InFront
  <2>3. CachedKeys(d) = CachedKeys(rest) \cup {k} /\ ValueOf(d, k) = v
    BY <2>1, <2>2, KeysOfContent
  <2>4. ASSUME NEW j \in CachedKeys(rest) PROVE ValueOf(d, j) = ValueOf(rest, j)
    <3>1. PICK e \in Content(rest) : e.key = j
      BY KeysOfContent
    <3>2. QED BY <2>2, <3>1, KeysOfContent
  <2>5. QED BY <2>2, <2>3, <2>4
<1>4. CASE k \notin CachedKeys(c) /\ Len(c) < Capacity
  <2>1. d = <<Entry(k, v)>> \o c /\ victim = NoEntry
    BY <1>4 DEF Store, Victim
  <2> HIDE DEF d, victim
  <2>2. /\ d \in Caches /\ Len(d) = Len(c) + 1
        /\ CachedKeys(d) = CachedKeys(c) \cup {k} /\ ValueOf(d, k) = v
        /\ \A j \in CachedKeys(c) : ValueOf(d, j) = ValueOf(c, j)
    BY <1>3, <1>4, <2>1
  <2>3. QED BY <1>1, <1>4, <2>1, <2>2 DEF d, victim
<1>5. CASE k \notin CachedKeys(c) /\ ~(Len(c) < Capacity)
  <2> DEFINE rest == SubSeq(c, 1, Len(c) - 1)
             last == c[Len(c)]
  <2>1. d = <<Entry(k, v)>> \o rest /\ victim = last
    BY <1>5 DEF Store, Victim
  <2>2. Len(c) \in 1..Len(c)
    BY <1>1, <1>5
  <2>3. rest = [i \in 1 .. Len(c) - 1 |-> c[IF i < Len(c) THEN i ELSE i + 1]]
    <3>1. rest = [i \in 1 .. Len(c) - 1 |-> c[i]]
      BY <1>1
    <3>2. QED BY <1>1, <3>1
  <2>4. last \in Entries /\ last.key \in CachedKeys(c) /\ ValueOf(c, last.key) = last.value
    BY <2>2, Lookup
  <2> HIDE DEF d, victim, rest, last
  <2>5. rest \in Caches /\ Len(rest) = Len(c) - 1 /\ Content(rest) = {e \in Content(c) : e.key # last.key}
    BY <2>2, <2>3, Dropped DEF last
  <2>6. CachedKeys(rest) = CachedKeys(c) \ {last.key}
    BY <2>5, KeysOfContent
  <2>7. ASSUME NEW j \in CachedKeys(rest) PROVE ValueOf(rest, j) = ValueOf(c, j)
    <3>1. PICK e \in Content(rest) : e.key = j
      BY <2>5, KeysOfContent
    <3>2. QED BY <2>5, <3>1, KeysOfContent
  <2>8. /\ d \in Caches /\ Len(d) = Len(rest) + 1
        /\ CachedKeys(d) = CachedKeys(rest) \cup {k} /\ ValueOf(d, k) = v
        /\ \A j \in CachedKeys(rest) : ValueOf(d, j) = ValueOf(rest, j)
    BY <1>3, <1>5, <2>1, <2>5, <2>6
  <2>9. QED BY <1>1, <1>5, <2>1, <2>4, <2>5, <2>6, <2>7, <2>8 DEF d, victim
<1>6. QED BY <1>2, <1>4, <1>5

----------------------------------------------------------------------------
(* The inductive invariant *)

\* Where a call of task t can be when m are the sync keys with a lock.
Fits(t, r, m) ==
  /\ r \in Calls
  /\ r.phase \in Waiting \cup Running => r.key \in Keys /\ SyncOf[r.key] \in m
  /\ IF r.phase \in {"awaitWrite", "writing", "flushing"} THEN r.item \in Values ELSE r.item = Absent
  /\ IF t \in Keys THEN r.phase \in {"idle", "awaitFlush", "flushing"} /\ (r.phase # "idle" => r.key = t)
                   ELSE r.phase \notin {"awaitFlush", "flushing"}

LockTables == [SyncKeys -> LocksOver(Tasks)]
Answers == Values \cup {Absent, Failed, Done}
Flushes == {"idle", "running", "returned", "thrown"}

Typed ==
  /\ cache \in Caches /\ Len(cache) <= Capacity
  /\ locks \in LockTables /\ made \in SUBSET SyncKeys
  /\ disk \in [Keys -> Values \cup {Absent}]
  /\ call \in [Tasks -> Calls] /\ \A t \in Tasks : Fits(t, call[t], made)
  /\ reply \in [Clients -> Answers]
  /\ flush \in Flushes /\ unsaved \in SUBSET Keys

\* A task that accesses the store holds the lock of the file.
Holding == \A t \in Tasks : call[t].phase \in Running => locks[Lock(t)].holder = t

\* The call writes the key.
Saves(r, k) == r.phase \in {"writing", "flushing"} /\ r.key = k

\* A clean value v of key k, with the calls C, the disk d and the failed writes
\* u: every write of the key writes v, and one did, or does, or was reported.
IsSaved(v, k, C, d, u) ==
  v.dirty \/ /\ \A t \in Tasks : Saves(C[t], k) => C[t].item = v.data
             /\ k \in u \/ d[k] = v.data \/ \E t \in Tasks : Saves(C[t], k)
CleanSaved == \A k \in Cached : IsSaved(ValueOf(cache, k), k, call, disk, unsaved)

StoreInv == Typed /\ Holding /\ CleanSaved

----------------------------------------------------------------------------
(* Locks *)

LEMMA Constants ==
  /\ Clients \subseteq Tasks /\ Keys \subseteq Tasks /\ \A t \in Tasks : t # Nobody
  /\ \A t \in Tasks : t \in Clients <=> t \notin Keys
  /\ \A k \in Keys : SyncOf[k] \in SyncKeys
  /\ Absent \notin Values /\ Capacity \in Nat
  BY CachedStoreAssumption DEF Tasks, SyncKeys

\* What lockMutex, its timers and unlockMutex return: a lock that is held is
\* not taken from its holder.
LEMMA LockKinds ==
  ASSUME NEW T, NEW l \in LocksOver(T), NEW t \in T, Nobody \notin T
  PROVE  /\ Ask(l, t) \in LocksOver(T) /\ Ask(l, t).holder \in {l.holder, t}
         /\ l.holder # Nobody => Ask(l, t).holder = l.holder
         /\ IsNext(l, t) => Grant(l) \in LocksOver(T) /\ Grant(l).holder = t /\ l.holder = Nobody
         /\ Release(l) \in LocksOver(T) /\ Release(l).holder = Nobody
<1>1. l = [holder |-> l.holder, queue |-> l.queue] /\ l.holder \in T \cup {Nobody} /\ l.queue \in Seq(T)
  BY DEF LocksOver
<1>2. Append(l.queue, t) \in Seq(T)
  BY <1>1, AppendProperties
<1>3. Ask(l, t) = IF l.holder = Nobody /\ l.queue = << >> THEN [holder |-> t, queue |-> l.queue]
                  ELSE [holder |-> l.holder, queue |-> Append(l.queue, t)]
  BY <1>1 DEF Ask
<1>4. /\ Ask(l, t) \in LocksOver(T) /\ Ask(l, t).holder \in {l.holder, t}
      /\ l.holder # Nobody => Ask(l, t).holder = l.holder
  BY <1>1, <1>2, <1>3 DEF LocksOver
<1>5. ASSUME IsNext(l, t)
      PROVE  Grant(l) \in LocksOver(T) /\ Grant(l).holder = t /\ l.holder = Nobody
  <2>1. l.queue # << >> /\ Head(l.queue) = t /\ l.holder = Nobody
    BY <1>5 DEF IsNext
  <2>2. Tail(l.queue) \in Seq(T)
    BY <1>1, <2>1, HeadTailProperties
  <2>3. QED BY <2>1, <2>2 DEF Grant, LocksOver
<1>6. Release(l) = [holder |-> Nobody, queue |-> l.queue]
  BY <1>1 DEF Release
<1>7. QED BY <1>1, <1>4, <1>5, <1>6 DEF LocksOver

\* A lock table in which every other task still holds its locks.
Keeps(t, L) ==
  /\ L \in LockTables
  /\ \A s \in SyncKeys : locks[s].holder \notin {Nobody, t} => L[s].holder = locks[s].holder

LEMMA LocksKept ==
  ASSUME Typed, NEW t \in Tasks
  PROVE  Keeps(t, locks)
  BY DEF Typed, Keeps

LEMMA BusyLock ==
  ASSUME Typed, NEW t \in Tasks, call[t].phase \in Waiting \cup Running
  PROVE  Lock(t) \in SyncKeys /\ Lock(t) \in made /\ call[t].key \in Keys
  BY DEF Typed, Fits, Lock

\* One task changes one lock.
LEMMA OneLock ==
  ASSUME Typed, NEW t \in Tasks, NEW L, Keeps(t, L), NEW s \in SyncKeys, NEW M, M \in LockTables,
         \A q \in SyncKeys \ {s} : M[q] = L[q],
         L[s].holder \notin {Nobody, t} => M[s].holder = L[s].holder
  PROVE  Keeps(t, M)
<1>1. ASSUME NEW q \in SyncKeys, locks[q].holder \notin {Nobody, t} PROVE M[q].holder = locks[q].holder
  <2>1. L[q].holder = locks[q].holder
    BY <1>1 DEF Keeps
  <2>2. QED BY <1>1, <2>1
<1>2. QED BY <1>1 DEF Keeps

LEMMA AskedKept ==
  ASSUME Typed, NEW t \in Tasks, NEW L, Keeps(t, L), NEW s \in SyncKeys, NEW M, M = [L EXCEPT ![s] = Ask(@, t)]
  PROVE  Keeps(t, M) /\ M[s] = Ask(L[s], t)
<1>1. L[s] \in LocksOver(Tasks) /\ Nobody \notin Tasks
  BY Constants DEF Keeps, LockTables
<1>2. Ask(L[s], t) \in LocksOver(Tasks) /\ (L[s].holder \notin {Nobody, t} => Ask(L[s], t).holder = L[s].holder)
  BY <1>1, LockKinds
<1>3. M \in LockTables /\ M[s] = Ask(L[s], t) /\ \A q \in SyncKeys \ {s} : M[q] = L[q]
  BY <1>2 DEF Keeps, LockTables
<1>4. L[s].holder \notin {Nobody, t} => M[s].holder = L[s].holder
  BY <1>2, <1>3
<1>5. ASSUME NEW q \in SyncKeys, locks[q].holder \notin {Nobody, t} PROVE M[q].holder = locks[q].holder
  <2>1. L[q].holder = locks[q].holder
    BY <1>5 DEF Keeps
  <2>2. QED BY <1>3, <1>4, <1>5, <2>1
<1>6. QED BY <1>3, <1>5 DEF Keeps

\* A task that is in the store releases the lock it holds.
LEMMA UnlockedKept ==
  ASSUME Typed, Holding, NEW t \in Tasks, call[t].phase \in Running
  PROVE  Keeps(t, Unlocked(t))
<1>1. Lock(t) \in SyncKeys /\ locks[Lock(t)].holder = t /\ locks[Lock(t)] \in LocksOver(Tasks) /\ Nobody \notin Tasks
  BY BusyLock, Constants DEF Holding, Typed, LockTables
<1>2. Release(locks[Lock(t)]) \in LocksOver(Tasks)
  BY <1>1, LockKinds
<1>3. Unlocked(t) \in LockTables /\ \A q \in SyncKeys \ {Lock(t)} : Unlocked(t)[q] = locks[q]
  BY <1>1, <1>2 DEF Unlocked, Typed, LockTables
<1>4. Keeps(t, locks)
  BY LocksKept
<1>5. QED BY <1>1, <1>3, <1>4, OneLock

\* A timer that obtains a lock.
LEMMA GrantedKept ==
  ASSUME Typed, NEW t \in Tasks, NEW waiting \in Waiting, Obtain(t, waiting)
  PROVE  /\ Lock(t) \in SyncKeys /\ locks[Lock(t)].holder = Nobody
         /\ Keeps(t, [locks EXCEPT ![Lock(t)] = Grant(@)])
         /\ [locks EXCEPT ![Lock(t)] = Grant(@)][Lock(t)].holder = t
         /\ Keeps(t, [locks EXCEPT ![Lock(t)] = Release(Grant(@))])
<1>1. Lock(t) \in SyncKeys /\ IsNext(locks[Lock(t)], t)
  BY BusyLock DEF Obtain
<1>2. locks[Lock(t)] \in LocksOver(Tasks) /\ Nobody \notin Tasks
  BY <1>1, Constants DEF Typed, LockTables
<1> DEFINE l == locks[Lock(t)]
<1>3. Grant(l) \in LocksOver(Tasks) /\ Grant(l).holder = t /\ l.holder = Nobody
  BY <1>1, <1>2, LockKinds
<1>4. Release(Grant(l)) \in LocksOver(Tasks)
  BY <1>2, <1>3, LockKinds
<1> DEFINE M == [locks EXCEPT ![Lock(t)] = Grant(l)]
           N == [locks EXCEPT ![Lock(t)] = Release(Grant(l))]
<1>5. Keeps(t, M) /\ M[Lock(t)] = Grant(l)
  <2>1. M \in LockTables /\ M[Lock(t)] = Grant(l) /\ \A q \in SyncKeys \ {Lock(t)} : M[q] = locks[q]
    BY <1>1, <1>3 DEF Typed, LockTables
  <2> HIDE DEF M
  <2>2. Keeps(t, locks)
    BY LocksKept
  <2>3. QED BY <1>1, <1>3, <2>1, <2>2, OneLock
<1>6. Keeps(t, N)
  <2>1. N \in LockTables /\ \A q \in SyncKeys \ {Lock(t)} : N[q] = locks[q]
    BY <1>1, <1>4 DEF Typed, LockTables
  <2> HIDE DEF N
  <2>2. Keeps(t, locks)
    BY LocksKept
  <2>3. QED BY <1>1, <1>3, <2>1, <2>2, OneLock
<1>7. QED BY <1>1, <1>3, <1>5, <1>6

----------------------------------------------------------------------------
(* One task steps *)

LEMMA OneCall ==
  ASSUME Typed, Holding, NEW t \in Tasks, NEW r, Fits(t, r, made'), call' = [call EXCEPT ![t] = r],
         made \subseteq made', Keeps(t, locks'), r.phase \in Running => locks'[SyncOf[r.key]].holder = t
  PROVE  /\ call' \in [Tasks -> Calls] /\ \A u \in Tasks : call'[u] = IF u = t THEN r ELSE call[u]
         /\ \A u \in Tasks : Fits(u, call'[u], made')
         /\ Holding'
<1>1. call' \in [Tasks -> Calls] /\ \A u \in Tasks : call'[u] = IF u = t THEN r ELSE call[u]
  BY DEF Typed, Fits
<1>2. ASSUME NEW u \in Tasks PROVE Fits(u, call'[u], made')
  BY <1>1 DEF Typed, Fits
<1>3. ASSUME NEW u \in Tasks, call'[u].phase \in Running PROVE locks'[SyncOf[call'[u].key]].holder = u
  <2>1. CASE u = t
    BY <1>1, <1>3, <2>1
  <2>2. CASE u # t
    <3>1. call'[u] = call[u]
      BY <1>1, <2>2
    <3>2. Lock(u) \in SyncKeys /\ locks[Lock(u)].holder = u
      BY <1>3, <3>1, BusyLock DEF Holding
    <3>3. locks'[Lock(u)].holder = u
      BY <2>2, <3>2, Constants DEF Keeps
    <3>4. QED BY <3>1, <3>3 DEF Lock
  <2>3. QED BY <2>1, <2>2
<1>4. Holding'
  BY <1>3 DEF Holding, Lock
<1>5. QED BY <1>1, <1>2, <1>4

\* A value stays saved when a task steps that does not end a write of its key
\* and begins none of another value.
LEMMA StaysSaved ==
  ASSUME Typed, NEW t \in Tasks, NEW r, NEW C, \A u \in Tasks : C[u] = IF u = t THEN r ELSE call[u],
         NEW k, NEW v, IsSaved(v, k, call, disk, unsaved), NEW d, NEW u, d[k] = disk[k], k \in unsaved => k \in u,
         Saves(r, k) => r.item = v.data, Saves(call[t], k) => Saves(r, k)
  PROVE  IsSaved(v, k, C, d, u)
<1>1. SUFFICES ASSUME ~v.dirty PROVE IsSaved(v, k, C, d, u)
  BY DEF IsSaved
<1>2. \A q \in Tasks : Saves(C[q], k) => C[q].item = v.data
  BY <1>1 DEF IsSaved
<1>3. ASSUME NEW q \in Tasks, Saves(call[q], k) PROVE Saves(C[q], k)
  BY <1>3
<1>4. k \in u \/ d[k] = v.data \/ \E q \in Tasks : Saves(C[q], k)
  BY <1>1, <1>3 DEF IsSaved
<1>5. QED BY <1>2, <1>4 DEF IsSaved

\* Key k keeps its value in the cache, and its writes, in a step of task t to r.
Stays(t, r, k) ==
  /\ k \in Cached /\ ValueOf(cache', k) = ValueOf(cache, k)
  /\ disk'[k] = disk[k] /\ (k \in unsaved => k \in unsaved')
  /\ Saves(r, k) => r.item = ValueOf(cache, k).data
  /\ Saves(call[t], k) => Saves(r, k)

\* What a step of task t leaves to show.
LEMMA TaskStep ==
  ASSUME StoreInv, NEW t \in Tasks, NEW r, Fits(t, r, made'), call' = [call EXCEPT ![t] = r],
         made \subseteq made', made' \in SUBSET SyncKeys,
         Keeps(t, locks'), r.phase \in Running => locks'[SyncOf[r.key]].holder = t,
         cache' \in Caches, Len(cache') <= Capacity,
         disk' \in [Keys -> Values \cup {Absent}], reply' \in [Clients -> Answers],
         flush' \in Flushes, unsaved' \in SUBSET Keys,
         \A k \in CachedKeys(cache') :
            Stays(t, r, k) \/ IsSaved(ValueOf(cache', k), k, call', disk', unsaved')
  PROVE  StoreInv'
<1>1. /\ call' \in [Tasks -> Calls] /\ \A u \in Tasks : call'[u] = IF u = t THEN r ELSE call[u]
      /\ \A u \in Tasks : Fits(u, call'[u], made')
      /\ Holding'
  BY OneCall DEF StoreInv
<1>2. Typed'
  BY <1>1 DEF Typed, Cached, Keeps
<1>3. ASSUME NEW k \in CachedKeys(cache'), Stays(t, r, k)
      PROVE  IsSaved(ValueOf(cache', k), k, call', disk', unsaved')
  <2>1. IsSaved(ValueOf(cache, k), k, call, disk, unsaved) /\ ValueOf(cache', k) = ValueOf(cache, k)
    BY <1>3 DEF Stays, StoreInv, CleanSaved
  <2>2. IsSaved(ValueOf(cache, k), k, call', disk', unsaved')
    BY <1>1, <1>3, <2>1, StaysSaved, ZenonT(60) DEF Stays, StoreInv
  <2>3. QED BY <2>1, <2>2
<1>4. CleanSaved'
  BY <1>3 DEF CleanSaved, Cached
<1>5. QED BY <1>1, <1>2, <1>4 DEF StoreInv

\* A call that is not writing.
Reads(r) == r.phase \notin {"writing", "flushing"}

\* A task that writes nothing asks for a lock, obtains one or returns; the
\* cache keeps the values of the keys that stay in it.
LEMMA QuietStep ==
  ASSUME StoreInv, NEW t \in Tasks, NEW r, Fits(t, r, made'), call' = [call EXCEPT ![t] = r],
         made \subseteq made', made' \in SUBSET SyncKeys,
         Keeps(t, locks'), r.phase \in Running => locks'[SyncOf[r.key]].holder = t,
         Reads(call[t]), Reads(r),
         cache' \in Caches, Len(cache') <= Capacity,
         \A k \in CachedKeys(cache') : k \in Cached /\ ValueOf(cache', k) = ValueOf(cache, k),
         disk' = disk, unsaved' = unsaved, reply' \in [Clients -> Answers],
         flush' \in Flushes
  PROVE  StoreInv'
<1>1. \A k \in CachedKeys(cache') : Stays(t, r, k)
  BY DEF Stays, Reads, Saves
<1>2. disk' \in [Keys -> Values \cup {Absent}] /\ unsaved' \in SUBSET Keys
  BY DEF StoreInv, Typed
<1>3. QED BY <1>1, <1>2, TaskStep

\* Touching a key, or not, keeps every entry.
LEMMA TouchedCache ==
  ASSUME Typed, NEW k, NEW c, (c = cache \/ (k \in Cached /\ c = Touch(cache, k, FifoCache)))
  PROVE  /\ c \in Caches /\ Len(c) <= Capacity /\ CachedKeys(c) = Cached
         /\ \A j \in CachedKeys(c) : j \in Cached /\ ValueOf(c, j) = ValueOf(cache, j)
<1>1. CASE c = cache
  BY <1>1 DEF Typed, Cached
<1>2. CASE k \in Cached /\ c = Touch(cache, k, FifoCache)
  BY <1>2, TouchKeeps DEF Typed, Cached, Alike
<1>3. QED BY <1>1, <1>2

LEMMA ReturnedFits ==
  /\ \A t \in Clients : Fits(t, Returned, made') /\ Fits(t, NoCall, made')
  /\ \A t \in Tasks : Fits(t, NoCall, made')
  /\ Returned.phase = "returned" /\ NoCall.phase = "idle" /\ Reads(Returned) /\ Reads(NoCall)
  /\ Returned.phase \notin Running /\ NoCall.phase \notin Running
  BY Constants DEF Fits, Returned, NoCall, Calls, Waiting, Running, Reads

\* A call of a client that is not writing returns.
LEMMA ReturnStep ==
  ASSUME StoreInv, NEW t \in Clients, NEW a \in Answers, Return(t, a), Reads(call[t]),
         Keeps(t, locks'), UNCHANGED <<made, disk, flush, unsaved>>,
         cache' \in Caches, Len(cache') <= Capacity,
         \A k \in CachedKeys(cache') : k \in Cached /\ ValueOf(cache', k) = ValueOf(cache, k)
  PROVE  StoreInv'
<1>1. t \in Tasks /\ call' = [call EXCEPT ![t] = Returned] /\ reply' \in [Clients -> Answers]
  BY Constants DEF Return, StoreInv, Typed
<1>2. Fits(t, Returned, made') /\ Reads(Returned) /\ Returned.phase \notin Running
  BY ReturnedFits
<1>3. made \subseteq made' /\ made' \in SUBSET SyncKeys /\ flush' \in Flushes
  BY DEF StoreInv, Typed
<1>4. QED BY <1>1, <1>2, <1>3, QuietStep

\* An idle client asks for the lock of a key, to load or to delete it.
LEMMA AskStep ==
  ASSUME StoreInv, NEW t \in Clients, Idle(t), NEW k \in Keys,
         NEW waiting \in {"awaitLoad", "awaitDel"}, NEW running \in {"loading", "deleting"},
         made' = made \cup {SyncOf[k]},
         locks' = [locks EXCEPT ![SyncOf[k]] = Ask(@, t)],
         call' = [call EXCEPT ![t] =
            [phase |-> AskPhase(locks, SyncOf[k], t, waiting, running), key |-> k, item |-> Absent]],
         UNCHANGED <<cache, reply, disk, flush, unsaved>>
  PROVE  StoreInv'
<1> DEFINE s == SyncOf[k]
           r == [phase |-> AskPhase(locks, s, t, waiting, running), key |-> k, item |-> Absent]
<1>1. t \in Tasks /\ t \notin Keys /\ s \in SyncKeys /\ s \in made' /\ Typed
  BY Constants DEF StoreInv
<1>2. made \subseteq made' /\ made' \in SUBSET SyncKeys
  BY <1>1 DEF Typed
<1>3. r.phase \in {waiting, running} /\ (r.phase \in Running => Ask(locks[s], t).holder = t) /\ r.phase \notin {"idle"}
  BY DEF AskPhase, Running
<1>4. Fits(t, r, made') /\ Reads(r) /\ r.key = k
  BY <1>1, <1>3 DEF Fits, Calls, Waiting, Running, Reads
<1>5. Keeps(t, locks') /\ locks'[s] = Ask(locks[s], t)
  BY <1>1, LocksKept, AskedKept
<1>6. Reads(call[t])
  BY DEF Idle, Reads
<1>7. call' = [call EXCEPT ![t] = r]
  OBVIOUS
<1> HIDE DEF r
<1>8. /\ cache' \in Caches /\ Len(cache') <= Capacity
      /\ \A j \in CachedKeys(cache') : j \in Cached /\ ValueOf(cache', j) = ValueOf(cache, j)
      /\ disk' = disk /\ unsaved' = unsaved /\ reply' \in [Clients -> Answers]
      /\ flush' \in Flushes
  BY <1>1 DEF Typed, Cached
<1>9. r.phase \in Running => locks'[SyncOf[r.key]].holder = t
  BY <1>3, <1>4, <1>5
<1>10. QED BY <1>1, <1>2, <1>4, <1>5, <1>6, <1>7, <1>8, <1>9, QuietStep

\* An item enters the cache, and the task returns, or goes on to write the entry
\* that this evicts, whose key is not cached then, or throws.
LEMMA CachesItem ==
  ASSUME StoreInv, NEW t \in Clients, Reads(call[t]), NEW k \in Keys,
         NEW v \in Values, NEW dirty \in BOOLEAN, NEW a \in Answers, NEW L, Keeps(t, L),
         CacheItem(t, k, v, dirty, a, L), UNCHANGED <<made, disk, flush, unsaved>>,
         dirty \/ (disk[k] = v /\ \A u \in Tasks \ {t} : ~Saves(call[u], k))
  PROVE  StoreInv'
<1> DEFINE victim == Victim(cache, k)
           s == SyncOf[victim.key]
           item == [data |-> v, dirty |-> dirty]
           waits == MustSave(victim) /\ s \in made
           r == IF waits
                THEN [phase |-> AskPhase(L, s, t, "awaitWrite", "writing"), key |-> victim.key, item |-> victim.value.data]
                ELSE IF MustSave(victim) THEN NoCall ELSE Returned
<1>1. /\ t \in Tasks /\ t \notin Keys /\ Typed /\ cache \in Caches /\ Len(cache) <= Capacity /\ item \in Items
      /\ item.data = v /\ item.dirty = dirty
  BY Constants DEF StoreInv, Typed, Items
<1>2. /\ cache' = Store(cache, k, item, FifoCache)
      /\ call' = [call EXCEPT ![t] = r] /\ reply' \in {reply, [reply EXCEPT ![t] = a]}
      /\ ~waits => locks' = L
      /\ waits => locks' = [L EXCEPT ![s] = Ask(@, t)]
  BY DEF CacheItem, Return, Throw
<1>3. /\ cache' \in Caches /\ Len(cache') <= Capacity
      /\ k \in CachedKeys(cache') /\ ValueOf(cache', k) = item
      /\ \A j \in CachedKeys(cache') \ {k} : j \in Cached /\ ValueOf(cache', j) = ValueOf(cache, j)
      /\ victim # NoEntry =>
           /\ victim \in Entries /\ victim.key \in Cached \ {k}
           /\ CachedKeys(cache') = (Cached \ {victim.key}) \cup {k}
  BY <1>1, <1>2, StoreInserts DEF Cached
<1> HIDE DEF victim
<1>4. MustSave(victim) => victim # NoEntry /\ victim.value.data \in Values /\ victim.key \in Keys /\ victim.key \notin CachedKeys(cache')
  BY <1>3 DEF MustSave, Entries, Items
<1>5. /\ Fits(t, r, made') /\ Keeps(t, locks')
      /\ r.phase \in Running => locks'[SyncOf[r.key]].holder = t
      /\ Saves(r, victim.key) \/ Reads(r) \/ r.phase = "awaitWrite"
      /\ \A j \in CachedKeys(cache') : ~Saves(r, j)
  <2>1. CASE ~waits
    <3>1. r \in {Returned, NoCall} /\ locks' = L
      BY <1>2, <2>1
    <3> HIDE DEF r, waits
    <3>2. QED BY <1>1, <3>1, ReturnedFits DEF Saves, Reads
  <2>2. CASE waits
    <3>1. r = [phase |-> AskPhase(L, s, t, "awaitWrite", "writing"), key |-> victim.key, item |-> victim.value.data]
      BY <2>2
    <3>2. s \in made /\ s \in SyncKeys /\ locks' = [L EXCEPT ![s] = Ask(@, t)]
      BY <1>1, <1>2, <2>2 DEF Typed
    <3>3. Keeps(t, locks') /\ locks'[s] = Ask(L[s], t)
      BY <1>1, <3>2, AskedKept, ZenonT(60)
    <3>4. /\ r.phase \in {"awaitWrite", "writing"} /\ (r.phase = "writing" => Ask(L[s], t).holder = t)
          /\ r.key = victim.key /\ r.item = victim.value.data
      BY <3>1 DEF AskPhase
    <3>5. r \in Calls
      BY <1>4, <2>2, <3>1, <3>4 DEF Calls, Waiting, Running
    <3> HIDE DEF r
    <3>6. Fits(t, r, made')
      BY <1>1, <1>4, <2>2, <3>2, <3>4, <3>5 DEF Fits
    <3>7. r.phase \in Running => locks'[SyncOf[r.key]].holder = t
      BY <3>3, <3>4 DEF Running
    <3>8. \A j \in CachedKeys(cache') : ~Saves(r, j)
      BY <1>4, <2>2, <3>4 DEF Saves
    <3>9. QED BY <3>3, <3>4, <3>6, <3>7, <3>8 DEF Saves, Reads
  <2>3. QED BY <2>1, <2>2
<1> HIDE DEF r, waits, s
<1>6. \A u \in Tasks : call'[u] = IF u = t THEN r ELSE call[u]
  BY <1>1, <1>2 DEF Typed
<1>7. IsSaved(ValueOf(cache', k), k, call', disk', unsaved')
  BY <1>1, <1>3, <1>5, <1>6 DEF IsSaved
<1>8. ASSUME NEW j \in CachedKeys(cache') \ {k} PROVE Stays(t, r, j)
  BY <1>3, <1>5 DEF Stays, Reads, Saves
<1>9. /\ made \subseteq made' /\ made' \in SUBSET SyncKeys /\ disk' \in [Keys -> Values \cup {Absent}]
      /\ reply' \in [Clients -> Answers] /\ flush' \in Flushes /\ unsaved' \in SUBSET Keys
  BY <1>1, <1>2 DEF Typed
<1>10. call' = [call EXCEPT ![t] = r] /\ cache' \in Caches /\ Len(cache') <= Capacity
  BY <1>2, <1>3
<1>11. QED BY <1>1, <1>5, <1>7, <1>8, <1>9, <1>10, TaskStep, ZenonT(60)

----------------------------------------------------------------------------
(* The calls of the clients *)

LEMMA TryGetStep == ASSUME StoreInv, NEW t \in Clients, NEW k \in Keys, TryGet(t, k) PROVE StoreInv'
<1>1. t \in Tasks /\ Typed /\ Reads(call[t])
  BY Constants DEF StoreInv, TryGet, Idle, Reads
<1>2. CASE k \in Cached
  <2>1. /\ cache' = Touch(cache, k, FifoCache) /\ Return(t, ValueOf(cache, k).data)
        /\ UNCHANGED <<locks, made, disk, flush, unsaved>>
    BY <1>2 DEF TryGet
  <2>2. ValueOf(cache, k).data \in Answers
    BY <1>1, <1>2, Lookup DEF Typed, Cached, Items, Answers
  <2>3. /\ cache' \in Caches /\ Len(cache') <= Capacity
        /\ \A j \in CachedKeys(cache') : j \in Cached /\ ValueOf(cache', j) = ValueOf(cache, j)
    BY <1>1, <1>2, <2>1, TouchedCache
  <2>4. Keeps(t, locks')
    BY <1>1, <2>1, LocksKept
  <2>5. QED BY <1>1, <2>1, <2>2, <2>3, <2>4, ReturnStep
<1>3. CASE k \notin Cached
  BY <1>3, AskStep DEF TryGet
<1>4. QED BY <1>2, <1>3

LEMMA DelStep == ASSUME StoreInv, NEW t \in Clients, NEW k \in Keys, Del(t, k) PROVE StoreInv'
  BY AskStep DEF Del

LEMMA PutStep == ASSUME StoreInv, NEW t \in Clients, NEW k \in Keys, NEW v \in Values, Put(t, k, v) PROVE StoreInv'
<1>1. t \in Tasks /\ Typed /\ Reads(call[t]) /\ Keeps(t, locks) /\ Done \in Answers
  BY Constants, LocksKept DEF StoreInv, Put, Idle, Reads, Answers
<1>2. QED BY <1>1, CachesItem DEF Put

LEMMA RefreshStep == ASSUME StoreInv, NEW t \in Clients, NEW k \in Keys, Refresh(t, k) PROVE StoreInv'
<1>1. t \in Tasks /\ Typed /\ Reads(call[t]) /\ Keeps(t, locks') /\ Done \in Answers
  BY Constants, LocksKept DEF StoreInv, Refresh, Idle, Reads, Answers
<1>2. /\ cache' \in Caches /\ Len(cache') <= Capacity
      /\ \A j \in CachedKeys(cache') : j \in Cached /\ ValueOf(cache', j) = ValueOf(cache, j)
  <2>1. (k \in Cached /\ cache' = Touch(cache, k, FifoCache)) \/ cache' = cache
    BY DEF Refresh
  <2>2. CASE k \in Cached /\ cache' = Touch(cache, k, FifoCache)
    BY <1>1, <2>2, TouchedCache
  <2>3. CASE cache' = cache
    BY <1>1, <2>3 DEF Typed, Cached
  <2>4. QED BY <2>1, <2>2, <2>3
<1>3. QED BY <1>1, <1>2, ReturnStep DEF Refresh

----------------------------------------------------------------------------
(* The timers that obtain a lock *)

\* A load or a deletion begins.
LEMMA BeginStep ==
  ASSUME StoreInv, NEW t \in Clients, BeginLoad(t) \/ BeginDel(t)
  PROVE  StoreInv'
<1> DEFINE waiting == IF call[t].phase = "awaitLoad" THEN "awaitLoad" ELSE "awaitDel"
           running == IF call[t].phase = "awaitLoad" THEN "loading" ELSE "deleting"
           r == [phase |-> running, key |-> call[t].key, item |-> call[t].item]
<1>1. t \in Tasks /\ t \notin Keys /\ Typed /\ call[t] \in Calls /\ Fits(t, call[t], made)
  BY Constants DEF StoreInv, Typed
<1>2. /\ call[t].phase = waiting /\ Obtain(t, waiting) /\ waiting \in Waiting /\ running \in Running
      /\ locks' = [locks EXCEPT ![Lock(t)] = Grant(@)] /\ call' = [call EXCEPT ![t].phase = running]
      /\ UNCHANGED <<reply, cache, made, disk, flush, unsaved>>
  BY DEF BeginLoad, BeginDel, Obtain, Waiting, Running
<1>3. call' = [call EXCEPT ![t] = r] /\ r.phase = running /\ r.key = call[t].key
  <2>1. call[t] = [phase |-> call[t].phase, key |-> call[t].key, item |-> call[t].item]
    BY <1>1 DEF Calls
  <2>2. [call[t] EXCEPT !.phase = running] = r
    BY <2>1
  <2>3. call' = [call EXCEPT ![t] = [call[t] EXCEPT !.phase = running]]
    BY <1>2
  <2>4. QED BY <2>2, <2>3
<1>4. Fits(t, r, made') /\ Reads(r) /\ Reads(call[t])
  BY <1>1, <1>2 DEF Fits, Calls, Waiting, Running, Reads
<1>5. Keeps(t, locks') /\ locks'[Lock(t)].holder = t
  BY <1>1, <1>2, GrantedKept
<1> HIDE DEF r, waiting, running
<1>6. /\ cache' \in Caches /\ Len(cache') <= Capacity
      /\ \A j \in CachedKeys(cache') : j \in Cached /\ ValueOf(cache', j) = ValueOf(cache, j)
      /\ disk' = disk /\ unsaved' = unsaved /\ reply' \in [Clients -> Answers]
      /\ flush' \in Flushes /\ made \subseteq made' /\ made' \in SUBSET SyncKeys
  BY <1>1, <1>2 DEF Typed, Cached
<1>7. r.phase \in Running => locks'[SyncOf[r.key]].holder = t
  BY <1>3, <1>5 DEF Lock
<1>8. QED BY <1>1, <1>3, <1>4, <1>5, <1>6, <1>7, QuietStep

\* While nobody holds the lock of a key nothing writes the key.
LEMMA NoWriter ==
  ASSUME StoreInv, NEW t \in Tasks, NEW k \in Keys, locks[SyncOf[k]].holder \in {Nobody, t}
  PROVE  \A u \in Tasks \ {t} : ~Saves(call[u], k)
<1>1. ASSUME NEW u \in Tasks \ {t}, Saves(call[u], k) PROVE FALSE
  <2>1. call[u].phase \in Running /\ Lock(u) = SyncOf[k]
    BY <1>1 DEF Saves, Running, Lock
  <2>2. locks[SyncOf[k]].holder = u
    BY <2>1 DEF StoreInv, Holding
  <2>3. QED BY <2>2, Constants
<1>2. QED BY <1>1

\* The write back of an evicted entry begins: when the key is cached again and
\* dirty its new value is written, otherwise the cache takes the old one.
LEMMA BeginWriteStep == ASSUME StoreInv, NEW t \in Clients, BeginWrite(t) PROVE StoreInv'
<1> DEFINE k == call[t].key
           dirty == k \in Cached /\ ValueOf(cache, k).dirty
           value == IF dirty THEN ValueOf(cache, k).data ELSE call[t].item
           item == [data |-> call[t].item, dirty |-> FALSE]
           r == [phase |-> "writing", key |-> k, item |-> value]
<1>1. t \in Tasks /\ t \notin Keys /\ Typed /\ Fits(t, call[t], made)
  BY Constants DEF StoreInv, Typed
<1>2. /\ call[t].phase = "awaitWrite" /\ Obtain(t, "awaitWrite") /\ "awaitWrite" \in Waiting /\ "writing" \in Running
      /\ locks' = [locks EXCEPT ![Lock(t)] = Grant(@)] /\ call' = [call EXCEPT ![t] = r]
      /\ k \in Cached /\ ~dirty => cache' = Store(cache, k, item, FifoCache)
      /\ k \in Cached /\ dirty => cache' = Touch(cache, k, FifoCache)
      /\ k \notin Cached => cache' = cache
      /\ UNCHANGED <<reply, made, disk, flush, unsaved>>
  BY DEF BeginWrite, Obtain, Waiting, Running
<1>3. k \in Keys /\ SyncOf[k] \in made /\ call[t].item \in Values
  BY <1>1, <1>2 DEF Fits
<1>4. value \in Values
  BY <1>1, <1>3, Lookup DEF Typed, Cached, Items
<1>5. Fits(t, r, made') /\ r.key = k /\ r.item = value /\ r.phase = "writing"
  BY <1>1, <1>2, <1>3, <1>4 DEF Fits, Calls, Waiting, Running
<1>6. Keeps(t, locks') /\ locks'[Lock(t)].holder = t /\ locks[Lock(t)].holder = Nobody
  BY <1>1, <1>2, GrantedKept
<1>7. /\ cache' \in Caches /\ Len(cache') <= Capacity /\ CachedKeys(cache') = Cached
      /\ \A j \in Cached \ {k} : ValueOf(cache', j) = ValueOf(cache, j)
      /\ k \in Cached => ValueOf(cache', k) = IF dirty THEN ValueOf(cache, k) ELSE item
  <2>1. CASE k \in Cached /\ ~dirty
    <3>1. item \in Items /\ cache \in Caches /\ Len(cache) <= Capacity
      BY <1>1, <1>3 DEF Items, Typed
    <3>2. /\ cache' \in Caches /\ Len(cache') <= Capacity /\ ValueOf(cache', k) = item
          /\ CachedKeys(cache') = Cached \cup {k}
          /\ \A j \in CachedKeys(cache') \ {k} : ValueOf(cache', j) = ValueOf(cache, j)
      <4> HIDE DEF item, dirty
      <4>1. cache' = Store(cache, k, item, FifoCache)
        BY <1>2, <2>1
      <4>2. QED BY <1>3, <2>1, <3>1, <4>1, StoreInserts DEF Cached
    <3> HIDE DEF item, dirty
    <3>3. QED BY <2>1, <3>2
  <2>2. CASE k \notin Cached \/ dirty
    <3>1. k \in Cached => dirty
      BY <2>2
    <3> HIDE DEF item, dirty
    <3>2. /\ cache' \in Caches /\ Len(cache') <= Capacity /\ CachedKeys(cache') = Cached
          /\ \A j \in CachedKeys(cache') : ValueOf(cache', j) = ValueOf(cache, j)
      <4>1. CASE k \in Cached
        <5>1. cache' = Touch(cache, k, FifoCache)
          BY <1>2, <3>1, <4>1
        <5>2. QED BY <1>1, <4>1, <5>1, TouchedCache
      <4>2. CASE k \notin Cached
        <5>1. cache' = cache
          BY <1>2, <4>2
        <5>2. QED BY <1>1, <5>1 DEF Typed, Cached
      <4>3. QED BY <4>1, <4>2
    <3>3. QED BY <3>1, <3>2
  <2>3. QED BY <2>1, <2>2
<1>8. \A u \in Tasks \ {t} : ~Saves(call[u], k)
  BY <1>1, <1>3, <1>6, NoWriter DEF Lock
<1>9. \A u \in Tasks : call'[u] = IF u = t THEN r ELSE call[u]
  BY <1>1, <1>2 DEF Typed
<1>10. ASSUME k \in Cached PROVE IsSaved(ValueOf(cache', k), k, call', disk', unsaved')
  <2>1. CASE dirty
    BY <1>7, <1>10, <2>1 DEF IsSaved
  <2>2. CASE ~dirty
    <3>1. ValueOf(cache', k) = item /\ item.data = value
      BY <1>7, <1>10, <2>2
    <3>2. Saves(call'[t], k) /\ \A u \in Tasks : Saves(call'[u], k) => call'[u].item = value
      BY <1>1, <1>5, <1>8, <1>9 DEF Saves
    <3>3. QED BY <1>1, <3>1, <3>2 DEF IsSaved
  <2>3. QED BY <2>1, <2>2
<1> HIDE DEF r, dirty, value, item
<1>11. \A j \in CachedKeys(cache') \ {k} : Stays(t, r, j)
  BY <1>2, <1>5, <1>7 DEF Stays, Saves
<1>12. /\ made \subseteq made' /\ made' \in SUBSET SyncKeys /\ disk' \in [Keys -> Values \cup {Absent}]
       /\ reply' \in [Clients -> Answers] /\ flush' \in Flushes /\ unsaved' \in SUBSET Keys
  BY <1>1, <1>2 DEF Typed
<1>13. r.phase \in Running => locks'[SyncOf[r.key]].holder = t
  BY <1>5, <1>6 DEF Lock
<1>14. QED BY <1>1, <1>2, <1>5, <1>6, <1>7, <1>10, <1>11, <1>12, <1>13, TaskStep

----------------------------------------------------------------------------
(* The completions of the store *)

LEMMA EndLoadStep == ASSUME StoreInv, NEW t \in Clients, EndLoad(t) PROVE StoreInv'
<1> DEFINE k == call[t].key
<1>1. /\ t \in Tasks /\ Typed /\ Holding /\ call[t].phase = "loading" /\ call[t].phase \in Running /\ Reads(call[t])
      /\ UNCHANGED <<made, disk, flush, unsaved>>
  BY Constants DEF StoreInv, EndLoad, Running, Reads
<1>2. k \in Keys /\ SyncOf[k] \in made /\ Lock(t) = SyncOf[k] /\ locks[Lock(t)].holder = t /\ Keeps(t, Unlocked(t))
  BY <1>1, BusyLock, UnlockedKept DEF Lock, Holding
<1>3. ASSUME NEW a \in {Failed, Absent}, Return(t, a), locks' = Unlocked(t), cache' = cache
      PROVE  StoreInv'
  <2>1. a \in Answers
    BY DEF Answers
  <2>2. /\ cache' \in Caches /\ Len(cache') <= Capacity
        /\ \A j \in CachedKeys(cache') : j \in Cached /\ ValueOf(cache', j) = ValueOf(cache, j)
    BY <1>1, <1>3 DEF Typed, Cached
  <2>3. QED BY <1>1, <1>2, <1>3, <2>1, <2>2, ReturnStep
<1>4. ASSUME disk[k] # Absent, CacheItem(t, k, disk[k], FALSE, disk[k], Unlocked(t))
      PROVE  StoreInv'
  <2>1. disk[k] \in Values /\ disk[k] \in Answers
    BY <1>1, <1>2, <1>4 DEF Typed, Answers
  <2>2. \A u \in Tasks \ {t} : ~Saves(call[u], k)
    BY <1>1, <1>2, NoWriter
  <2>3. QED BY <1>1, <1>2, <1>4, <2>1, <2>2, CachesItem
<1>5. QED BY <1>3, <1>4 DEF EndLoad

\* The write of a value ends, of an evicted entry or of one that is flushed.
LEMMA WriteEnds ==
  ASSUME StoreInv, NEW t \in Tasks, call[t].phase \in {"writing", "flushing"},
         NEW k, k = call[t].key, Write(k, call[t].item) \/ WriteFails(k),
         locks' = Unlocked(t), NEW r, (r = Returned /\ t \in Clients) \/ r = NoCall,
         call' = [call EXCEPT ![t] = r], UNCHANGED <<cache, made>>,
         reply' \in [Clients -> Answers], flush' \in Flushes
  PROVE  StoreInv'
<1>1. Typed /\ call[t].phase \in Running /\ Fits(t, r, made') /\ Reads(r) /\ r.phase \notin Running
  BY ReturnedFits DEF StoreInv, Running
<1>2. Keeps(t, locks') /\ k \in Keys /\ call[t].item \in Values
  BY <1>1, BusyLock, UnlockedKept DEF StoreInv, Typed, Fits
<1>3. /\ disk' \in [Keys -> Values \cup {Absent}] /\ unsaved' \in SUBSET Keys
      /\ k \in unsaved' \/ disk'[k] = call[t].item
      /\ \A j \in Keys \ {k} : disk'[j] = disk[j] /\ (j \in unsaved => j \in unsaved')
  BY <1>1, <1>2 DEF Typed, Write, WriteFails
<1>4. /\ cache' \in Caches /\ Len(cache') <= Capacity
      /\ CachedKeys(cache') = Cached /\ Cached \subseteq Keys
      /\ \A j \in Cached : ValueOf(cache', j) = ValueOf(cache, j)
  BY <1>1, Lookup DEF Typed, Cached
<1>5. \A j \in CachedKeys(cache') \ {k} : Stays(t, r, j)
  BY <1>1, <1>3, <1>4 DEF Stays, Saves, Reads
<1>6. ASSUME k \in Cached PROVE IsSaved(ValueOf(cache', k), k, call', disk', unsaved')
  <2>1. IsSaved(ValueOf(cache, k), k, call, disk, unsaved) /\ Saves(call[t], k)
    BY <1>6 DEF StoreInv, CleanSaved, Saves
  <2>2. \A u \in Tasks : call'[u] = IF u = t THEN r ELSE call[u]
    BY <1>1 DEF Typed
  <2>3. QED BY <1>1, <1>3, <1>4, <1>6, <2>1, <2>2 DEF IsSaved, Saves, Reads
<1>7. made \subseteq made' /\ made' \in SUBSET SyncKeys
  BY <1>1 DEF Typed
<1>8. QED BY <1>1, <1>2, <1>3, <1>4, <1>5, <1>6, <1>7, TaskStep

LEMMA EndWriteStep == ASSUME StoreInv, NEW t \in Clients, EndWrite(t) PROVE StoreInv'
<1>1. t \in Tasks /\ reply[t] \in Answers /\ Failed \in Answers
  BY Constants DEF StoreInv, Typed, Answers
<1>2. PICK a \in Answers : Return(t, a)
  BY <1>1 DEF EndWrite
<1>3. call' = [call EXCEPT ![t] = Returned] /\ reply' \in [Clients -> Answers]
  BY <1>2 DEF Return, StoreInv, Typed
<1>4. /\ call[t].phase \in {"writing", "flushing"} /\ (Write(call[t].key, call[t].item) \/ WriteFails(call[t].key))
      /\ locks' = Unlocked(t) /\ UNCHANGED <<cache, made>> /\ flush' \in Flushes
  BY DEF EndWrite, StoreInv, Typed
<1>5. QED BY <1>1, <1>3, <1>4, WriteEnds

LEMMA EndDelStep == ASSUME StoreInv, NEW t \in Clients, EndDel(t) PROVE StoreInv'
<1> DEFINE k == call[t].key
<1>1. /\ t \in Tasks /\ Typed /\ Holding /\ call[t].phase = "deleting" /\ call[t].phase \in Running /\ Reads(call[t])
      /\ cache' = Without(cache, k) /\ locks' = Unlocked(t) /\ UNCHANGED <<made, flush>>
  BY Constants DEF StoreInv, EndDel, Running, Reads
<1>2. k \in Keys /\ Keeps(t, locks')
  BY <1>1, BusyLock, UnlockedKept
<1>3. PICK a \in Answers : Return(t, a)
  <2>1. {Failed, Absent, disk[k]} \subseteq Answers
    BY <1>1, <1>2 DEF Answers, Typed
  <2>2. k \in Cached => ValueOf(cache, k).data \in Answers
    BY <1>1, Lookup DEF Answers, Typed, Cached, Items
  <2>3. QED BY <2>1, <2>2 DEF EndDel
<1>4. call' = [call EXCEPT ![t] = Returned] /\ reply' \in [Clients -> Answers]
  BY <1>3 DEF Return, StoreInv, Typed
<1>5. Fits(t, Returned, made') /\ Reads(Returned) /\ Returned.phase \notin Running
  BY ReturnedFits
<1>6. /\ disk' \in [Keys -> Values \cup {Absent}] /\ unsaved' \in SUBSET Keys
      /\ \A j \in Keys \ {k} : disk'[j] = disk[j] /\ (j \in unsaved => j \in unsaved')
  BY <1>1, <1>2 DEF EndDel, Write, Typed
<1>7. /\ cache' \in Caches /\ Len(cache') <= Capacity /\ CachedKeys(cache') = Cached \ {k} /\ Cached \subseteq Keys
      /\ \A j \in CachedKeys(cache') : ValueOf(cache', j) = ValueOf(cache, j)
  <2>1. cache \in Caches /\ Len(cache) \in Nat /\ Len(cache) <= Capacity /\ Capacity \in Nat /\ Cached \subseteq Keys
    BY <1>1, Lookup, Constants DEF Typed, Cached
  <2>2. /\ cache' \in Caches /\ Len(cache') <= Len(cache) /\ CachedKeys(cache') = Cached \ {k}
        /\ \A j \in Cached \ {k} : ValueOf(cache', j) = ValueOf(cache, j)
    BY <1>1, <2>1, WithoutRemoves DEF Cached
  <2>3. Len(cache') \in Nat
    BY <2>2, Lookup
  <2>4. QED BY <2>1, <2>2, <2>3
<1>8. \A j \in CachedKeys(cache') : Stays(t, Returned, j)
  BY <1>1, <1>5, <1>6, <1>7 DEF Stays, Saves, Reads
<1>9. made \subseteq made' /\ made' \in SUBSET SyncKeys /\ flush' \in Flushes
  BY <1>1 DEF Typed
<1>10. QED BY <1>1, <1>2, <1>4, <1>5, <1>6, <1>7, <1>8, <1>9, TaskStep

----------------------------------------------------------------------------
(* Flushes *)

LEMMA FlushedStep ==
  ASSUME StoreInv, NEW k \in Keys, Flushed(k)
  PROVE  call' = [call EXCEPT ![k] = NoCall] /\ flush' \in Flushes
  BY DEF Flushed, StoreInv, Typed, Flushes

LEMMA BeginFlushStep == ASSUME StoreInv, NEW k \in Keys, BeginFlush(k) PROVE StoreInv'
<1>1. /\ k \in Tasks /\ Typed /\ Fits(k, call[k], made) /\ call[k] \in Calls
      /\ Obtain(k, "awaitFlush") /\ "awaitFlush" \in Waiting /\ "flushing" \in Running
      /\ call[k].phase = "awaitFlush" /\ Reads(call[k]) /\ UNCHANGED <<reply, made, disk, unsaved>>
  BY Constants DEF StoreInv, Typed, BeginFlush, Obtain, Waiting, Running, Reads
<1>2. call[k].key = k /\ SyncOf[k] \in made /\ Lock(k) = SyncOf[k]
  BY <1>1 DEF Fits, Lock
<1>3. /\ made \subseteq made' /\ made' \in SUBSET SyncKeys /\ disk' \in [Keys -> Values \cup {Absent}]
      /\ reply' \in [Clients -> Answers] /\ unsaved' \in SUBSET Keys
  BY <1>1 DEF Typed
<1>4. CASE k \in Cached
  <2> DEFINE value == ValueOf(cache, k).data
             r == [phase |-> "flushing", key |-> k, item |-> value]
  <2>1. /\ cache' = Touch(cache, k, FifoCache) /\ locks' = [locks EXCEPT ![Lock(k)] = Grant(@)] /\ flush' = flush
        /\ call' = [call EXCEPT ![k] = r]
    BY <1>4 DEF BeginFlush
  <2>2. value \in Values
    BY <1>1, <1>4, Lookup DEF Typed, Cached, Items
  <2>3. call' = [call EXCEPT ![k] = r] /\ r.phase = "flushing" /\ r.key = k /\ r.item = value
    BY <2>1
  <2>4. Fits(k, r, made')
    BY <1>1, <1>2, <2>2 DEF Fits, Calls, Waiting, Running
  <2>5. Keeps(k, locks') /\ locks'[SyncOf[r.key]].holder = k
    BY <1>1, <1>2, <2>1, GrantedKept
  <2>6. /\ cache' \in Caches /\ Len(cache') <= Capacity /\ CachedKeys(cache') = Cached
        /\ \A j \in Cached : ValueOf(cache', j) = ValueOf(cache, j)
    BY <1>1, <1>4, <2>1, TouchedCache
  <2> HIDE DEF r
  <2>7. \A j \in CachedKeys(cache') : Stays(k, r, j)
    BY <1>1, <2>3, <2>6 DEF Stays, Saves, Reads
  <2>8. flush' \in Flushes
    BY <1>1, <2>1 DEF Typed
  <2>9. QED BY <1>1, <1>3, <2>3, <2>4, <2>5, <2>6, <2>7, <2>8, TaskStep
<1>5. CASE k \notin Cached
  <2>1. Flushed(k) /\ locks' = [locks EXCEPT ![Lock(k)] = Release(Grant(@))] /\ cache' = cache
    BY <1>5 DEF BeginFlush
  <2>2. call' = [call EXCEPT ![k] = NoCall] /\ flush' \in Flushes
    BY <2>1, FlushedStep
  <2>3. Fits(k, NoCall, made') /\ Reads(NoCall) /\ NoCall.phase \notin Running
    BY <1>1, ReturnedFits
  <2>4. Keeps(k, locks')
    BY <1>1, <2>1, GrantedKept
  <2>5. /\ cache' \in Caches /\ Len(cache') <= Capacity
        /\ \A j \in CachedKeys(cache') : j \in Cached /\ ValueOf(cache', j) = ValueOf(cache, j)
    BY <1>1, <2>1 DEF Typed, Cached
  <2>6. QED BY <1>1, <1>3, <2>2, <2>3, <2>4, <2>5, QuietStep
<1>6. QED BY <1>4, <1>5

LEMMA EndFlushStep == ASSUME StoreInv, NEW k \in Keys, EndFlush(k) PROVE StoreInv'
<1>1. /\ k \in Tasks /\ call[k].phase \in {"writing", "flushing"} /\ locks' = Unlocked(k) /\ UNCHANGED <<cache, made>>
      /\ reply' \in [Clients -> Answers] /\ Flushed(k) /\ (Write(k, call[k].item) \/ WriteFails(k))
  BY Constants DEF EndFlush, StoreInv, Typed
<1>2. call[k].key = k
  BY <1>1, Constants DEF EndFlush, StoreInv, Typed, Fits
<1>3. call' = [call EXCEPT ![k] = NoCall] /\ flush' \in Flushes
  BY <1>1, FlushedStep
<1>4. QED BY <1>1, <1>2, <1>3, WriteEnds

----------------------------------------------------------------------------
(* Recursion over the keys that a flush visits *)

\* A statement about numbers, as the set of those it holds for, holds for all
\* when it holds for 0 and from each for the next.
LEMMA SetInduction ==
  ASSUME NEW P, 0 \in P, \A n \in Nat : n \in P => n + 1 \in P
  PROVE  Nat \subseteq P
<1> DEFINE T == {n \in Nat : n \notin P}
<1>1. SUFFICES ASSUME T # {} PROVE FALSE
  OBVIOUS
<1>2. T \subseteq Nat
  OBVIOUS
<1> HIDE DEF T
<1>3. PICK x \in T : \A y \in T : ~(<<y, x>> \in OpToRel(<, Nat))
  BY <1>1, <1>2, NatLessThanWellFounded, WFMin, Zenon
<1> USE DEF T
<1>4. x \in Nat /\ x \notin P /\ \A y \in T : ~(y < x)
  BY <1>3 DEF OpToRel
<1>5. x # 0 /\ x - 1 \in Nat /\ x - 1 < x
  BY <1>4
<1>6. x - 1 \in P
  BY <1>4, <1>5
<1>7. (x - 1) + 1 \in P
  BY <1>5, <1>6
<1>8. QED BY <1>4, <1>5, <1>7

\* The functions that start with a and go on by the steps g.
Recursions(S, a, N, g) == {f \in [0..N -> S] : f[0] = a /\ \A i \in 1..N : f[i] = g[i][f[i - 1]]}

\* A function can be defined by recursion on the numbers up to a bound.
LEMMA RecursionExists ==
  ASSUME NEW S, NEW a \in S, NEW N \in Nat, NEW g \in [1..N -> [S -> S]]
  PROVE  Recursions(S, a, N, g) # {}
<1> DEFINE Good(n, f) == f[0] = a /\ \A i \in 1..n : f[i] = g[i][f[i - 1]]
           P == {n \in Nat : n <= N => \E f \in [0..n -> S] : Good(n, f)}
<1>1. 0 \in P
  <2>1. [i \in 0..0 |-> a] \in [0..0 -> S] /\ Good(0, [i \in 0..0 |-> a])
    OBVIOUS
  <2>2. QED BY <2>1
<1>2. ASSUME NEW n \in Nat, n \in P PROVE n + 1 \in P
  <2>1. SUFFICES ASSUME n + 1 <= N PROVE \E f \in [0..(n + 1) -> S] : Good(n + 1, f)
    OBVIOUS
  <2>2. PICK f \in [0..n -> S] : Good(n, f)
    BY <1>2, <2>1
  <2> DEFINE h == [i \in 0..(n + 1) |-> IF i = n + 1 THEN g[n + 1][f[n]] ELSE f[i]]
  <2>3. n \in 0..n /\ n + 1 \in 1..N /\ f[n] \in S
    BY <2>1, <2>2
  <2>4. g[n + 1][f[n]] \in S
    BY <2>3
  <2>5. h \in [0..(n + 1) -> S]
    BY <2>2, <2>4
  <2>6. h[0] = a
    BY <2>2
  <2>7. ASSUME NEW i \in 1..(n + 1) PROVE h[i] = g[i][h[i - 1]]
    <3>1. CASE i = n + 1
      <4>1. h[i] = g[n + 1][f[n]] /\ h[i - 1] = f[n]
        BY <3>1
      <4> HIDE DEF h
      <4>2. QED BY <3>1, <4>1
    <3>2. CASE i # n + 1
      <4>1. i \in 1..n /\ i - 1 \in 0..n /\ h[i] = f[i] /\ h[i - 1] = f[i - 1]
        BY <3>2
      <4> HIDE DEF h
      <4>2. QED BY <2>2, <4>1
    <3>3. QED BY <3>1, <3>2
  <2> HIDE DEF h
  <2>8. QED BY <2>5, <2>6, <2>7
<1>3. N \in P
  <2>1. Nat \subseteq P
    <3> HIDE DEF P
    <3>1. QED BY <1>1, <1>2, SetInduction
  <2>2. QED BY <2>1
<1>4. QED BY <1>3 DEF Recursions

\* As many keys are cached as the cache has entries.
LEMMA CacheSize ==
  ASSUME NEW c \in Caches
  PROVE  IsFiniteSet(CachedKeys(c)) /\ Cardinality(CachedKeys(c)) = Len(c)
<1>1. Len(c) \in Nat /\ IsFiniteSet(1..Len(c)) /\ Cardinality(1..Len(c)) = Len(c)
  <2>1. Len(c) \in Nat /\ Len(c) \in Int /\ 1 \in Int
    BY Lookup
  <2>2. IsFiniteSet(1..Len(c)) /\ Cardinality(1..Len(c)) = IF 1 > Len(c) THEN 0 ELSE Len(c) - 1 + 1
    BY <2>1, FS_Interval
  <2>3. QED BY <2>1, <2>2
<1> DEFINE f == [i \in 1..Len(c) |-> c[i].key]
<1>2. f \in [1..Len(c) -> CachedKeys(c)] /\ \A i \in 1..Len(c) : f[i] = c[i].key
  BY Lookup
<1> HIDE DEF f
<1>3. \A i, j \in 1..Len(c) : f[i] = f[j] => i = j
  BY <1>2 DEF Caches, Distinct
<1>4. \A k \in CachedKeys(c) : \E i \in 1..Len(c) : f[i] = k
  BY <1>2, Lookup
<1>5. f \in Bijection(1..Len(c), CachedKeys(c))
  BY <1>2, <1>3, <1>4 DEF Bijection, Injection, Surjection, IsInjective
<1>6. ExistsBijection(1..Len(c), CachedKeys(c))
  BY <1>5 DEF ExistsBijection
<1>7. QED BY <1>1, <1>6, FS_Bijection

LEMMA FlushItemsKeep ==
  ASSUME NEW S, [locks |-> locks, cache |-> cache] \in S, NEW order \in Seq(Keys),
         \A at \in S, i \in 1..Len(order) : FlushItem(at, order[i]) \in S
  PROVE  FlushItems(order) \in S
<1> DEFINE N == Len(order)
           a == [locks |-> locks, cache |-> cache]
           g == [i \in 1..N |-> [x \in S |-> FlushItem(x, order[i])]]
           Def(f) == f = [i \in 0..N |-> IF i = 0 THEN a ELSE FlushItem(f[i - 1], order[i])]
           after == CHOOSE f : Def(f)
<1>1. N \in Nat /\ a \in S
  BY LenProperties
<1>2. /\ g \in [1..N -> [S -> S]]
      /\ \A x \in S, i \in 1..N : g[i][x] = FlushItem(x, order[i])
  OBVIOUS
<1>3. FlushItems(order) = after[N]
  BY DEF FlushItems
<1> HIDE DEF N, g, a
<1>4. PICK f \in [0..N -> S] : f[0] = a /\ \A i \in 1..N : f[i] = g[i][f[i - 1]]
  <2>1. Recursions(S, a, N, g) # {}
    BY <1>1, <1>2, RecursionExists
  <2>2. QED BY <2>1 DEF Recursions
<1>5. Def(f)
  <2>1. ASSUME NEW i \in 0..N, i # 0 PROVE f[i] = FlushItem(f[i - 1], order[i])
    <3>1. i - 1 \in 0..N /\ i \in 1..N
      BY <1>1, <2>1
    <3>2. f[i] = g[i][f[i - 1]] /\ f[i - 1] \in S
      BY <1>4, <3>1
    <3>3. QED BY <1>2, <3>1, <3>2
  <2>2. \A i \in 0..N : f[i] = IF i = 0 THEN a ELSE FlushItem(f[i - 1], order[i])
    BY <1>4, <2>1
  <2>3. QED BY <1>4, <2>2
<1>6. Def(after)
  BY <1>5
<1> HIDE DEF after
<1>7. after[0] = a /\ \A i \in 1..N : i - 1 \in 0..N /\ after[i] = FlushItem(after[i - 1], order[i])
  BY <1>1, <1>6
<1> DEFINE P == {n \in Nat : n <= N => after[n] \in S}
<1>8. 0 \in P
  BY <1>1, <1>7
<1>9. ASSUME NEW n \in Nat, n \in P PROVE n + 1 \in P
  <2>1. SUFFICES ASSUME n + 1 <= N PROVE after[n + 1] \in S
    OBVIOUS
  <2>2. after[n] \in S /\ n + 1 \in 1..N /\ (n + 1) - 1 = n
    BY <1>1, <1>9, <2>1
  <2>3. after[n + 1] = FlushItem(after[n], order[n + 1])
    BY <1>7, <2>2
  <2>4. QED BY <2>2, <2>3 DEF N
<1>10. N \in P
  <2> HIDE DEF P
  <2>1. Nat \subseteq P
    BY <1>8, <1>9, SetInduction
  <2>2. QED BY <1>1, <2>1
<1>11. QED BY <1>1, <1>3, <1>10

\* After the calls of flushItem that a flush makes the cache maps alike, and a
\* lock that was held has its holder.
Flushing ==
  {at \in [locks : LockTables, cache : Caches] :
     /\ Alike(cache, at.cache) /\ Len(at.cache) = Len(cache)
     /\ \A s \in SyncKeys : locks[s].holder # Nobody => at.locks[s].holder = locks[s].holder}

LEMMA FlushItemStep ==
  ASSUME Typed, NEW at \in Flushing, NEW k \in Cached
  PROVE  FlushItem(at, k) \in Flushing
<1> DEFINE s == SyncOf[k]
           L == [at.locks EXCEPT ![s] = Ask(@, k)]
           new == FlushItem(at, k)
<1>1. /\ at.locks \in LockTables /\ at.cache \in Caches /\ Alike(cache, at.cache) /\ Len(at.cache) = Len(cache)
      /\ \A q \in SyncKeys : locks[q].holder # Nobody => at.locks[q].holder = locks[q].holder
  BY DEF Flushing
<1>2. k \in Keys /\ k \in Tasks /\ s \in SyncKeys /\ Nobody \notin Tasks /\ k \in CachedKeys(at.cache)
  BY <1>1, Lookup, Constants DEF Typed, Cached, Alike
<1>3. Ask(at.locks[s], k) \in LocksOver(Tasks) /\ (at.locks[s].holder # Nobody => Ask(at.locks[s], k).holder = at.locks[s].holder)
  <2>1. at.locks[s] \in LocksOver(Tasks)
    BY <1>1, <1>2 DEF LockTables
  <2>2. \A l \in LocksOver(Tasks) :
           Ask(l, k) \in LocksOver(Tasks) /\ (l.holder # Nobody => Ask(l, k).holder = l.holder)
    BY <1>2, LockKinds
  <2>3. QED BY <2>1, <2>2
<1>4. L \in LockTables /\ \A q \in SyncKeys : L[q] = IF q = s THEN Ask(at.locks[s], k) ELSE at.locks[q]
  BY <1>1, <1>2, <1>3 DEF LockTables
<1>5. new.locks = L /\ new = [locks |-> new.locks, cache |-> new.cache]
      /\ new.cache = IF L[s].holder = k THEN Touch(at.cache, k, FifoCache) ELSE at.cache
  BY DEF FlushItem
<1> HIDE DEF new, L
<1>6. new.cache \in Caches /\ Alike(cache, new.cache) /\ Len(new.cache) = Len(cache)
  <2>1. CASE L[s].holder = k
    <3>1. new.cache = Touch(at.cache, k, FifoCache)
      BY <1>5, <2>1
    <3>2. new.cache \in Caches /\ Alike(at.cache, new.cache) /\ Len(new.cache) = Len(at.cache)
      BY <1>1, <1>2, <3>1, TouchKeeps
    <3>3. QED BY <1>1, <3>2 DEF Alike
  <2>2. CASE L[s].holder # k
    BY <1>1, <1>5, <2>2
  <2>3. QED BY <2>1, <2>2
<1>7. \A q \in SyncKeys : locks[q].holder # Nobody => L[q].holder = locks[q].holder
  BY <1>1, <1>3, <1>4
<1>8. new \in [locks : LockTables, cache : Caches]
  BY <1>4, <1>5, <1>6
<1>9. QED BY <1>5, <1>6, <1>7, <1>8 DEF Flushing, new

\* The flush calls flushItem for cached keys, in some order.
LEMMA FlushOrder ==
  ASSUME Typed, NEW keys \in SUBSET Cached,
         \E order \in SetToSeqs(keys) : locks' = FlushItems(order).locks /\ cache' = FlushItems(order).cache
  PROVE  \E order \in Seq(Keys) : /\ \A i \in 1..Len(order) : order[i] \in Cached
                                  /\ locks' = FlushItems(order).locks /\ cache' = FlushItems(order).cache
                                  /\ FlushItems(order) \in Flushing
<1>1. cache \in Caches /\ Cached \subseteq Keys
  BY Lookup DEF Typed, Cached
<1>2. PICK order \in SetToSeqs(keys) : locks' = FlushItems(order).locks /\ cache' = FlushItems(order).cache
  OBVIOUS
<1>3. order \in Seq(Cached)
  <2>1. Cardinality(keys) \in Nat
    BY <1>1, CacheSize, FS_Subset, FS_CardinalityType DEF Cached
  <2>2. order \in [1..Cardinality(keys) -> Cached]
    BY DEF SetToSeqs, IsInjective
  <2>3. QED BY <2>1, <2>2, SeqDef
<1>4. order \in Seq(Keys) /\ \A i \in 1..Len(order) : order[i] \in Cached
  BY <1>1, <1>3, SeqMonotonic, ElementOfSeq
<1>5. FlushItems(order) \in Flushing
  <2>1. [locks |-> locks, cache |-> cache] \in Flushing
    BY <1>1 DEF Flushing, Alike, Typed
  <2>2. \A at \in Flushing, i \in 1..Len(order) : FlushItem(at, order[i]) \in Flushing
    BY <1>4, FlushItemStep
  <2> HIDE DEF Flushing
  <2>3. QED BY <1>4, <2>1, <2>2, FlushItemsKeep
<1>6. QED BY <1>2, <1>4, <1>5

LEMMA FlushStep == ASSUME StoreInv, Flush PROVE StoreInv'
<1>a. PICK keys \in Flushable :
         /\ \E order \in SetToSeqs(keys) : locks' = FlushItems(order).locks /\ cache' = FlushItems(order).cache
         /\ call' = [t \in Tasks |->
               IF t \notin keys THEN call[t]
               ELSE IF locks'[SyncOf[t]].holder = t
               THEN [NoCall EXCEPT !.phase = "flushing", !.key = t, !.item = ValueOf(cache, t).data]
               ELSE [NoCall EXCEPT !.phase = "awaitFlush", !.key = t]]
         /\ flush' \in {"running", "thrown"}
  BY DEF Flush
<1>0. keys \subseteq Cached /\ \A k \in keys : SyncOf[k] \in made
  BY DEF Flushable
<1>1. Typed /\ Holding /\ CleanSaved /\ cache \in Caches /\ Cached \subseteq Keys
  BY Lookup DEF StoreInv, Typed, Cached
<1>2. /\ locks' \in LockTables /\ cache' \in Caches /\ Alike(cache, cache') /\ Len(cache') = Len(cache)
      /\ \A s \in SyncKeys : locks[s].holder # Nobody => locks'[s].holder = locks[s].holder
  BY <1>a, <1>0, <1>1, FlushOrder DEF Flushing
<1>3. ASSUME NEW t \in Tasks
      PROVE  /\ t \notin keys => call'[t] = call[t]
             /\ t \in keys => \/ /\ locks'[SyncOf[t]].holder = t
                                   /\ call'[t] = [phase |-> "flushing", key |-> t, item |-> ValueOf(cache, t).data]
                                \/ call'[t] = [phase |-> "awaitFlush", key |-> t, item |-> Absent]
  BY <1>a DEF NoCall
<1>4. ASSUME NEW t \in Tasks, t \in keys
       PROVE  /\ call'[t].phase \in {"flushing", "awaitFlush"} /\ call'[t].key = t
              /\ call'[t] = [phase |-> call'[t].phase, key |-> t, item |-> call'[t].item]
              /\ call'[t].phase = "flushing" => /\ locks'[SyncOf[t]].holder = t
                                               /\ call'[t].item = ValueOf(cache, t).data
              /\ call'[t].phase = "awaitFlush" => call'[t].item = Absent
  <2>1. CASE call'[t] = [phase |-> "awaitFlush", key |-> t, item |-> Absent]
    BY <2>1
  <2>2. CASE /\ locks'[SyncOf[t]].holder = t
             /\ call'[t] = [phase |-> "flushing", key |-> t, item |-> ValueOf(cache, t).data]
    BY <2>2
  <2>3. QED BY <1>3, <1>4, <2>1, <2>2
<1>5. \A k \in Keys : call[k].phase \in {"idle", "returned"}
  BY DEF Flush, Idle
<1>6. UNCHANGED <<reply, made, disk, unsaved>> /\ flush' \in Flushes
  BY DEF Flush, Flushes
<1>7. \A k \in Cached : ValueOf(cache, k).data \in Values
  BY <1>1, Lookup DEF Cached, Items
<1>8. ASSUME NEW t \in Tasks PROVE Fits(t, call'[t], made')
  <2>1. CASE t \notin keys
    BY <1>1, <1>3, <1>6, <2>1 DEF Typed
  <2>2. CASE t \in keys
    <3>1. call'[t].item \in Values \cup {Absent}
      BY <1>0, <1>4, <1>7, <2>2
    <3>2. call'[t] \in Calls
      <4>1. /\ call'[t] = [phase |-> call'[t].phase, key |-> t, item |-> call'[t].item]
            /\ call'[t].phase \in {"idle", "returned"} \cup Waiting \cup Running /\ t \in Keys
        BY <1>0, <1>1, <1>4, <2>2 DEF Waiting, Running
      <4>2. QED BY <3>1, <4>1 DEF Calls
    <3>3. QED BY <1>0, <1>1, <1>4, <1>6, <1>7, <2>2, <3>2 DEF Fits
  <2>3. QED BY <2>1, <2>2
<1>9. call' \in [Tasks -> Calls]
  <2>1. call' = [t \in Tasks |-> call'[t]]
    BY <1>a
  <2>2. QED BY <1>8, <2>1 DEF Fits
<1>10. Typed'
  BY <1>1, <1>2, <1>6, <1>8, <1>9 DEF Typed, Cached, Alike
<1>11. ASSUME NEW t \in Tasks, call'[t].phase \in Running PROVE locks'[SyncOf[call'[t].key]].holder = t
  <2>1. CASE t \notin keys
    <3>1. call'[t] = call[t]
      BY <1>3, <2>1
    <3>2. locks[Lock(t)].holder = t /\ Lock(t) \in SyncKeys
      BY <1>1, <1>11, <3>1, BusyLock DEF Holding
    <3>3. QED BY <1>2, <3>1, <3>2, Constants DEF Lock
  <2>2. CASE t \in keys
    BY <1>4, <1>11, <2>2 DEF Running
  <2>3. QED BY <2>1, <2>2
<1>12. Holding'
  BY <1>11 DEF Holding, Lock
<1>13. ASSUME NEW k \in Cached PROVE IsSaved(ValueOf(cache, k), k, call', disk', unsaved')
  <2>1. SUFFICES ASSUME ~ValueOf(cache, k).dirty PROVE IsSaved(ValueOf(cache, k), k, call', disk', unsaved')
    BY DEF IsSaved
  <2>2. /\ \A t \in Tasks : Saves(call[t], k) => call[t].item = ValueOf(cache, k).data
        /\ k \in unsaved \/ disk[k] = ValueOf(cache, k).data \/ \E t \in Tasks : Saves(call[t], k)
    BY <1>1, <2>1 DEF CleanSaved, IsSaved
  <2>3. ASSUME NEW t \in Tasks, Saves(call'[t], k) PROVE call'[t].item = ValueOf(cache, k).data
    <3>1. CASE t \in keys
      <4>1. t = k /\ call'[t].phase = "flushing"
        BY <1>4, <2>3, <3>1 DEF Saves
      <4>2. QED BY <1>4, <3>1, <4>1
    <3>2. CASE t \notin keys
      <4>1. call'[t] = call[t]
        BY <1>3, <3>2
      <4>2. Saves(call[t], k)
        BY <2>3, <4>1
      <4>3. QED BY <2>2, <4>1, <4>2
    <3>3. QED BY <3>1, <3>2
  <2>4. ASSUME NEW t \in Tasks, Saves(call[t], k) PROVE Saves(call'[t], k)
    BY <1>0, <1>1, <1>3, <1>5, <2>4 DEF Saves
  <2>5. QED BY <1>6, <2>2, <2>3, <2>4 DEF IsSaved
<1>14. CleanSaved'
  BY <1>2, <1>13 DEF CleanSaved, Alike, Cached
<1>15. QED BY <1>10, <1>12, <1>14 DEF StoreInv

----------------------------------------------------------------------------
(* The theorems *)

LEMMA InitKeeps == Init => StoreInv
<1> SUFFICES ASSUME Init PROVE StoreInv
  OBVIOUS
<1>1. cache = << >> /\ cache \in Caches /\ Len(cache) = 0 /\ Cached = {}
  <2>1. cache = << >> /\ << >> \in Seq(Entries) /\ Len(<< >>) = 0
    BY EmptySeq DEF Init
  <2>2. QED BY <2>1 DEF Caches, Distinct, Cached, CachedKeys
<1>2. locks \in LockTables
  <2>1. FreeLock \in LocksOver(Tasks)
    BY EmptySeq DEF FreeLock, LocksOver
  <2>2. QED BY <2>1 DEF Init, LockTables
<1>3. \A t \in Tasks : call[t] = NoCall /\ Fits(t, NoCall, made)
  BY DEF Init, NoCall, Fits, Calls, Waiting, Running
<1>4. call \in [Tasks -> Calls]
  BY DEF Init, NoCall, Calls, Waiting, Running
<1>5. Typed
  BY <1>1, <1>2, <1>3, <1>4, Constants DEF Init, Typed, Answers, Flushes
<1>6. Holding
  BY <1>3 DEF Holding, NoCall, Running
<1>7. QED BY <1>1, <1>5, <1>6 DEF StoreInv, CleanSaved

\* Every step that no call of a client begins, and every call.
LEMMA BackgroundKeeps == ASSUME StoreInv, Background PROVE StoreInv'
  BY BeginStep, BeginWriteStep, EndLoadStep, EndWriteStep, EndDelStep, BeginFlushStep, EndFlushStep
     DEF Background, Obtained, Completed

LEMMA NextKeeps == StoreInv /\ [Next]_vars => StoreInv'
<1> SUFFICES ASSUME StoreInv, [Next]_vars PROVE StoreInv'
  OBVIOUS
<1>1. ASSUME NEW t \in Clients, Request(t) PROVE StoreInv'
  BY <1>1, TryGetStep, DelStep, PutStep, RefreshStep DEF Request
<1>2. CASE UNCHANGED vars
  BY <1>2 DEF vars, StoreInv, Typed, Cached, Holding, Lock, CleanSaved
<1>3. QED BY <1>1, <1>2, FlushStep, BackgroundKeeps DEF Next

THEOREM StoreInvariant == Spec => []StoreInv
  BY InitKeeps, NextKeeps, PTL DEF Spec

LEMMA StoreMeansType == StoreInv => TypeOK
<1> SUFFICES ASSUME StoreInv PROVE TypeOK
  OBVIOUS
<1>1. Cardinality(Cached) = Len(cache)
  BY CacheSize DEF StoreInv, Typed, Cached
<1>2. cache \in Seq([key : Keys, value : [data : Values, dirty : BOOLEAN]])
  BY DEF StoreInv, Typed, Caches, Entries, Items
<1>3. QED BY <1>1, <1>2 DEF StoreInv, Typed, TypeOK, LockTables, Answers, Flushes

\* The cache never holds more than its capacity nor a key twice, and every
\* call, lock and answer is of its kind.
THEOREM StoreTypeCorrect == Spec => []TypeOK
  BY StoreInvariant, StoreMeansType, PTL

\* Two accesses of the store never touch the same file at the same time,
\* though loads, evictions, deletions and flushes take the locks in different
\* ways (loadItem, cacheItem, del, flushItem).
THEOREM AccessesExclude == Spec => []ExclusiveAccess
<1>1. StoreInv => ExclusiveAccess
  BY DEF StoreInv, Holding, ExclusiveAccess, InStore
<1>2. QED BY <1>1, StoreInvariant, PTL

\* A value that an eviction drops without writing it is on disk, or on its way
\* there, unless a failed write was reported.
THEOREM CleanIsSaved == Spec => []CleanMeansSaved
<1>1. StoreInv => CleanMeansSaved
  <2> SUFFICES ASSUME StoreInv, NEW k \in Cached
               PROVE  \/ ValueOf(cache, k).dirty \/ k \in unsaved \/ disk[k] = ValueOf(cache, k).data
                      \/ \E t \in InStore : call[t].key = k /\ call[t].item = ValueOf(cache, k).data
    BY DEF CleanMeansSaved
  <2>1. IsSaved(ValueOf(cache, k), k, call, disk, unsaved)
    BY DEF StoreInv, CleanSaved
  <2>2. \A t \in Tasks : Saves(call[t], k) => t \in InStore /\ call[t].key = k
    BY DEF Saves, InStore, Running
  <2>3. QED BY <2>1, <2>2 DEF IsSaved
<1>2. QED BY <1>1, StoreInvariant, PTL

----------------------------------------------------------------------------
(* The atomic store: jobs of updaters over the calls of the cached store *)


----------------------------------------------------------------------------
(* Jobs and their calls *)

Inside == {"locked", "reading", "putting"}

\* Where the call r of an updater is, and what it replied, while its job is j.
JobFits(j, r, a) ==
  /\ j \in Jobs /\ (j.phase = "idle" => j = NoJob) /\ (j.phase # "idle" => j.term \in Keys)
  /\ j.phase \in {"idle", "awaitAtomic", "locked"} => r.phase = "idle"
  /\ j.phase = "reading" => r.phase \in {"awaitLoad", "loading", "awaitWrite", "writing", "returned"}
  /\ j.phase = "putting" => r.phase \in {"awaitWrite", "writing", "returned"}
  /\ r.phase \in {"awaitLoad", "loading"} => r.key = j.term
  /\ j.phase = "reading" /\ r.phase \in {"awaitWrite", "writing", "returned"} => a \in Values \cup {Absent, Failed}

AtomicTables == [SyncKeys -> LocksOver(Updaters)]

\* A job between its lock and its answer holds the lock of its term.
AtomicHolding == \A u \in Updaters : job[u].phase \in Inside => alocks[SyncOf[job[u].term]].holder = u

Jobbed ==
  /\ alocks \in AtomicTables /\ job \in [Updaters -> Jobs] /\ acked \in [Keys -> SUBSET Updaters] /\ quiet \in BOOLEAN
  /\ \A t \in Clients \ Updaters : call[t].phase = "idle"
  /\ \A u \in Updaters : JobFits(job[u], call[u], reply[u])
  /\ AtomicHolding

\* Every cached key has a lock, and so does a key that an update has read: put
\* creates no lock, but getAndModify reads a key before it puts it.
Writable ==
  /\ \A k \in Cached : SyncOf[k] \in made
  /\ \A u \in Updaters : job[u].phase = "reading" => SyncOf[job[u].term] \in made

LEMMA UpdaterFacts ==
  /\ Updaters \subseteq Clients /\ Updaters \subseteq Tasks /\ Nobody \notin Updaters
  /\ \A u \in Updaters : u \notin Keys
  /\ \A v : v \in Values <=> v \in SUBSET Updaters /\ v # {}
  /\ Absent \notin Values /\ Failed \notin Values /\ NoKey \notin Keys
<1>1. Values = (SUBSET Updaters) \ {{}}
  BY AtomicStoreAssumption
<1>2. \A v : v \in Values <=> v \in SUBSET Updaters /\ v # {}
  BY <1>1, Zenon
<1>3. Updaters \subseteq Clients
  BY AtomicStoreAssumption
<1>4. QED BY <1>2, <1>3, Constants, CachedStoreAssumption

\* The other jobs and their calls stay.
LEMMA JobStep ==
  ASSUME Jobbed, NEW u \in Updaters, NEW j, job' = [job EXCEPT ![u] = j],
         \A t \in Clients \ {u} : call'[t] = call[t] /\ reply'[t] = reply[t],
         JobFits(j, call'[u], reply'[u]),
         alocks' \in AtomicTables, acked' \in [Keys -> SUBSET Updaters], quiet' \in BOOLEAN,
         \A s \in SyncKeys : alocks[s].holder \notin {Nobody, u} => alocks'[s].holder = alocks[s].holder,
         j.phase \in Inside => alocks'[SyncOf[j.term]].holder = u
  PROVE  Jobbed'
<1>1. \A v \in Updaters : job'[v] = IF v = u THEN j ELSE job[v]
  BY DEF Jobbed
<1>2. job' \in [Updaters -> Jobs]
  BY DEF Jobbed, JobFits
<1>3. \A t \in Clients \ Updaters : call'[t].phase = "idle"
  BY DEF Jobbed
<1>4. ASSUME NEW v \in Updaters PROVE JobFits(job'[v], call'[v], reply'[v])
  <2>1. CASE v = u
    BY <1>1, <2>1
  <2>2. CASE v # u
    <3>1. job'[v] = job[v] /\ call'[v] = call[v] /\ reply'[v] = reply[v]
      BY <1>1, <2>2, UpdaterFacts
    <3>2. QED BY <3>1 DEF Jobbed
  <2>3. QED BY <2>1, <2>2
<1>5. ASSUME NEW v \in Updaters, job'[v].phase \in Inside PROVE alocks'[SyncOf[job'[v].term]].holder = v
  <2>1. CASE v = u
    BY <1>1, <1>5, <2>1
  <2>2. CASE v # u
    <3>1. job'[v] = job[v]
      BY <1>1, <2>2
    <3>2. alocks[SyncOf[job[v].term]].holder = v
      BY <1>5, <3>1 DEF Jobbed, AtomicHolding
    <3>3. SyncOf[job[v].term] \in SyncKeys
      BY <1>5, <3>1, Constants DEF Jobbed, JobFits, Inside
    <3>4. QED BY <2>2, <3>1, <3>2, <3>3, UpdaterFacts
  <2>3. QED BY <2>1, <2>2
<1>6. QED BY <1>2, <1>3, <1>4, <1>5 DEF Jobbed, AtomicHolding

\* The jobs stay while the call of at most one updater goes on.
LEMMA CallStep ==
  ASSUME Jobbed, UNCHANGED <<alocks, job, acked>>, quiet' \in BOOLEAN, NEW u \in Tasks,
         \A t \in Clients \ {u} : call'[t] = call[t] /\ reply'[t] = reply[t],
         u \in Updaters => JobFits(job[u], call'[u], reply'[u]),
         u \in Clients => u \in Updaters
  PROVE  Jobbed'
<1>1. \A t \in Clients \ Updaters : call'[t].phase = "idle"
  BY DEF Jobbed
<1>2. ASSUME NEW v \in Updaters PROVE JobFits(job'[v], call'[v], reply'[v])
  <2>1. CASE v = u
    BY <2>1
  <2>2. CASE v # u
    <3>1. job'[v] = job[v] /\ call'[v] = call[v] /\ reply'[v] = reply[v]
      BY <2>2, UpdaterFacts
    <3>2. QED BY <3>1 DEF Jobbed
  <2>3. QED BY <2>1, <2>2
<1>3. QED BY <1>1, <1>2 DEF Jobbed, AtomicHolding

\* A job asks for the lock of a term, obtains it, or gives it back.
LEMMA AtomicLocks ==
  ASSUME Jobbed, NEW u \in Updaters, NEW s \in SyncKeys, NEW l \in LocksOver(Updaters),
         alocks[s].holder \notin {Nobody, u} => l.holder = alocks[s].holder,
         alocks' = [alocks EXCEPT ![s] = l]
  PROVE  /\ alocks' \in AtomicTables /\ alocks'[s] = l
         /\ \A q \in SyncKeys : alocks[q].holder \notin {Nobody, u} => alocks'[q].holder = alocks[q].holder
<1>1. alocks' \in AtomicTables /\ \A q \in SyncKeys : alocks'[q] = IF q = s THEN l ELSE alocks[q]
  BY DEF Jobbed, AtomicTables
<1>2. QED BY <1>1

LEMMA UpdateJobbed ==
  ASSUME Jobbed, NEW u \in Updaters, NEW k \in Keys, Update(u, k)
  PROVE  Jobbed'
<1> DEFINE s == SyncOf[k]
           j == [phase |-> AskPhase(alocks, s, u, "awaitAtomic", "locked"), term |-> k]
<1>1. s \in SyncKeys /\ alocks[s] \in LocksOver(Updaters) /\ Nobody \notin Updaters
  BY Constants, UpdaterFacts DEF Jobbed, AtomicTables
<1>2. /\ Ask(alocks[s], u) \in LocksOver(Updaters)
      /\ alocks[s].holder # Nobody => Ask(alocks[s], u).holder = alocks[s].holder
  BY <1>1, LockKinds
<1>3. alocks' = [alocks EXCEPT ![s] = Ask(alocks[s], u)] /\ job' = [job EXCEPT ![u] = j] /\ UNCHANGED <<vars, acked>>
  BY DEF Update
<1>4. /\ alocks' \in AtomicTables /\ alocks'[s] = Ask(alocks[s], u)
      /\ \A q \in SyncKeys : alocks[q].holder \notin {Nobody, u} => alocks'[q].holder = alocks[q].holder
  BY <1>1, <1>2, <1>3, AtomicLocks
<1>5. j.phase \in {"awaitAtomic", "locked"} /\ (j.phase = "locked" => Ask(alocks[s], u).holder = u) /\ j.term = k
  BY DEF AskPhase
<1>6. job[u].phase = "idle" /\ call[u].phase = "idle"
  BY DEF Update, Jobbed, JobFits
<1>7. j \in Jobs
  BY <1>5 DEF Jobs
<1> HIDE DEF j
<1>8. JobFits(j, call'[u], reply'[u])
  BY <1>3, <1>5, <1>6, <1>7 DEF JobFits, vars
<1>9. j.phase \in Inside => alocks'[SyncOf[j.term]].holder = u
  BY <1>4, <1>5 DEF Inside
<1>10. acked' \in [Keys -> SUBSET Updaters] /\ quiet' \in BOOLEAN
  BY <1>3 DEF Jobbed, Update, Disturb
<1>11. \A t \in Clients \ {u} : call'[t] = call[t] /\ reply'[t] = reply[t]
  BY <1>3 DEF vars
<1>12. QED BY <1>3, <1>4, <1>8, <1>9, <1>10, <1>11, JobStep

LEMMA ObtainJobbed ==
  ASSUME Jobbed, NEW u \in Updaters, ObtainAtomic(u)
  PROVE  Jobbed'
<1> DEFINE s == SyncOf[job[u].term]
           j == [phase |-> "locked", term |-> job[u].term]
<1>1. job[u].phase = "awaitAtomic" /\ job[u].term \in Keys /\ job[u] \in Jobs /\ call[u].phase = "idle"
  BY DEF ObtainAtomic, Jobbed, JobFits
<1>2. s \in SyncKeys /\ alocks[s] \in LocksOver(Updaters) /\ Nobody \notin Updaters /\ IsNext(alocks[s], u)
  BY <1>1, Constants, UpdaterFacts DEF Jobbed, AtomicTables, ObtainAtomic, ATerm
<1>3. /\ Grant(alocks[s]) \in LocksOver(Updaters) /\ Grant(alocks[s]).holder = u /\ alocks[s].holder = Nobody
  BY <1>2, LockKinds
<1>4. alocks' = [alocks EXCEPT ![s] = Grant(alocks[s])] /\ UNCHANGED <<vars, acked, quiet>>
  BY DEF ObtainAtomic, ATerm
<1>5. job' = [job EXCEPT ![u] = j]
  <2>1. job[u] = [phase |-> job[u].phase, term |-> job[u].term]
    BY <1>1 DEF Jobs
  <2>2. [job[u] EXCEPT !.phase = "locked"] = j
    BY <2>1
  <2>3. job' = [job EXCEPT ![u] = [job[u] EXCEPT !.phase = "locked"]]
    BY DEF ObtainAtomic
  <2>4. QED BY <2>2, <2>3
<1>6. /\ alocks' \in AtomicTables /\ alocks'[s] = Grant(alocks[s])
      /\ \A q \in SyncKeys : alocks[q].holder \notin {Nobody, u} => alocks'[q].holder = alocks[q].holder
  BY <1>2, <1>3, <1>4, AtomicLocks
<1>7. JobFits(j, call'[u], reply'[u])
  BY <1>1, <1>4 DEF JobFits, Jobs, vars
<1>8. acked' \in [Keys -> SUBSET Updaters] /\ quiet' \in BOOLEAN
  BY <1>4 DEF Jobbed
<1>9. \A t \in Clients \ {u} : call'[t] = call[t] /\ reply'[t] = reply[t]
  BY <1>4 DEF vars
<1>10. alocks'[SyncOf[j.term]].holder = u
  BY <1>3, <1>6
<1> HIDE DEF j
<1>11. QED BY <1>5, <1>6, <1>7, <1>8, <1>9, <1>10, JobStep

----------------------------------------------------------------------------
(* What the cached store does in a step *)

\* Call r follows the insertion of v under k, the locks being L: it returned, or
\* it writes the entry that was evicted.
Inserted(t, k, v, dirty, L, r) ==
  /\ k \in CachedKeys(cache') /\ ValueOf(cache', k) = [data |-> v, dirty |-> dirty]
  /\ \A j \in CachedKeys(cache') \ {k} : j \in Cached /\ ValueOf(cache', j) = ValueOf(cache, j)
  /\ \A j \in Cached \ CachedKeys(cache') :
        ValueOf(cache, j).dirty => r.phase \in {"awaitWrite", "writing"} /\ r.key = j /\ r.item = ValueOf(cache, j).data
  /\ \/ r = Returned /\ locks' = L
     \/ /\ r.phase \in {"awaitWrite", "writing"} /\ r.key \in Cached /\ r.key \notin CachedKeys(cache')
        /\ r.item = ValueOf(cache, r.key).data /\ ValueOf(cache, r.key).dirty
        /\ locks' = [L EXCEPT ![SyncOf[r.key]] = Ask(@, t)]
        /\ r.phase = AskPhase(L, SyncOf[r.key], t, "awaitWrite", "writing")

\* No other call moves or replies.
Others(t) == /\ \A u \in Tasks \ {t} : call'[u] = call[u]
             /\ \A u \in Clients \ {t} : call'[u] = call[u] /\ reply'[u] = reply[u]

LEMMA CacheItemInserts ==
  ASSUME Typed, Writable, NEW t \in Clients, NEW k \in Keys, NEW v \in Values, NEW dirty \in BOOLEAN, NEW a, NEW L,
         CacheItem(t, k, v, dirty, a, L)
  PROVE  Inserted(t, k, v, dirty, L, call'[t]) /\ reply'[t] = a /\ Others(t)
<1> DEFINE victim == Victim(cache, k)
           s == SyncOf[victim.key]
           item == [data |-> v, dirty |-> dirty]
           busy == [phase |-> AskPhase(L, s, t, "awaitWrite", "writing"), key |-> victim.key, item |-> victim.value.data]
<1>1. cache \in Caches /\ Len(cache) <= Capacity /\ item \in Items
  BY DEF Typed, Items
<1>2. cache' = Store(cache, k, item, FifoCache)
  BY DEF CacheItem
<1>3. /\ k \in CachedKeys(cache') /\ ValueOf(cache', k) = item
      /\ \A j \in CachedKeys(cache') \ {k} : j \in Cached /\ ValueOf(cache', j) = ValueOf(cache, j)
      /\ victim = NoEntry => CachedKeys(cache') = Cached \cup {k}
      /\ victim # NoEntry =>
           /\ victim \in Entries /\ victim.key \in Cached \ {k} /\ ValueOf(cache, victim.key) = victim.value
           /\ CachedKeys(cache') = (Cached \ {victim.key}) \cup {k}
  BY <1>1, <1>2, StoreInserts DEF Cached
<1> HIDE DEF victim, item
<1>4. CASE ~MustSave(victim)
  <2>1. Return(t, a) /\ locks' = L
    BY <1>4 DEF CacheItem, victim
  <2>2. \A j \in Cached \ CachedKeys(cache') : ~ValueOf(cache, j).dirty
    BY <1>3, <1>4 DEF MustSave
  <2>3. Inserted(t, k, v, dirty, L, Returned)
    BY <1>3, <2>1, <2>2 DEF Inserted, item
  <2>4. call'[t] = Returned /\ reply'[t] = a /\ Others(t)
    BY <2>1, Constants DEF Return, Typed, Others
  <2>5. QED BY <2>3, <2>4
<1>5. CASE MustSave(victim)
  <2>2. victim # NoEntry
    BY <1>5 DEF MustSave
  <2>1. /\ locks' = [L EXCEPT ![s] = Ask(@, t)] /\ call' = [call EXCEPT ![t] = busy]
        /\ reply' = [reply EXCEPT ![t] = a]
    <3>1. s \in made
      BY <1>3, <2>2 DEF Writable
    <3>2. QED BY <1>5, <3>1 DEF CacheItem, victim
  <2>3. /\ busy.phase \in {"awaitWrite", "writing"} /\ busy.key = victim.key /\ busy.item = victim.value.data
        /\ busy.phase = AskPhase(L, s, t, "awaitWrite", "writing")
    BY DEF AskPhase
  <2> HIDE DEF busy
  <2>4. \A j \in Cached \ CachedKeys(cache') : busy.key = j /\ busy.item = ValueOf(cache, j).data
    BY <1>3, <2>2, <2>3
  <2>5. busy.key \in Cached /\ busy.key \notin CachedKeys(cache') /\ busy.item = ValueOf(cache, busy.key).data
        /\ ValueOf(cache, busy.key).dirty
    BY <1>3, <1>5, <2>2, <2>3 DEF MustSave
  <2>6. Inserted(t, k, v, dirty, L, busy)
    BY <1>3, <2>1, <2>3, <2>4, <2>5 DEF Inserted, item
  <2>7. call'[t] = busy /\ reply'[t] = a /\ Others(t)
    BY <2>1, Constants DEF Typed, Others
  <2>8. QED BY <2>6, <2>7
<1>6. QED BY <1>4, <1>5

\* A callback of getAndModify answers.
LEMMA AnswerKeeps ==
  ASSUME StoreInv, NEW u \in Updaters, Back(u), Answer(u)
  PROVE  StoreInv'
<1>1. Typed /\ u \in Tasks /\ u \in Clients /\ Reads(call[u])
  BY UpdaterFacts DEF StoreInv, Back, Reads
<1>2. Fits(u, NoCall, made') /\ Reads(NoCall) /\ NoCall.phase \notin Running
  BY <1>1, ReturnedFits
<1>3. call' = [call EXCEPT ![u] = NoCall] /\ reply' = [reply EXCEPT ![u] = Done] /\ UNCHANGED <<cache, locks, made, disk, flush, unsaved>>
  BY DEF Answer
<1>4. /\ cache' \in Caches /\ Len(cache') <= Capacity
      /\ \A j \in CachedKeys(cache') : j \in Cached /\ ValueOf(cache', j) = ValueOf(cache, j)
      /\ disk' = disk /\ unsaved' = unsaved /\ flush' \in Flushes
      /\ made \subseteq made' /\ made' \in SUBSET SyncKeys
  BY <1>1, <1>3 DEF Typed, Cached
<1>5. reply' \in [Clients -> Answers]
  BY <1>1, <1>3 DEF Typed, Answers
<1>6. Keeps(u, locks')
  BY <1>1, <1>3, LocksKept
<1>7. QED BY <1>1, <1>2, <1>3, <1>4, <1>5, <1>6, QuietStep

\* The pages that modify adds to.
Found(u) == IF reply[u] = Absent THEN {} ELSE reply[u]

LEMMA ModifyPuts ==
  ASSUME Jobbed, NEW u \in Updaters, Modify(u)
  PROVE  /\ job[u].phase = "reading" /\ job[u].term \in Keys /\ call[u].phase = "returned" /\ reply[u] # Failed
         /\ Found(u) \cup {u} \in Values /\ u \notin Found(u) /\ Put(u, job[u].term, Found(u) \cup {u})
<1>1. job[u].phase = "reading" /\ call[u].phase = "returned" /\ reply[u] # Failed
  BY DEF Modify, Back
<1>2. job[u].term \in Keys /\ reply[u] \in Values \cup {Absent, Failed}
  BY <1>1 DEF Jobbed, JobFits
<1>3. Found(u) \in SUBSET Updaters
  BY <1>1, <1>2, UpdaterFacts DEF Found
<1>4. Found(u) \cup {u} \in Values
  BY <1>3, UpdaterFacts
<1>5. u \notin Found(u) /\ Put(u, job[u].term, Found(u) \cup {u})
  BY DEF Modify, Found, ATerm
<1>6. QED BY <1>1, <1>2, <1>4, <1>5

\* Whatever the atomic store does is a step of the cached store, or an answer.
LEMMA StorePart ==
  ASSUME StoreInv, Jobbed, [ANext]_allvars
  PROVE  StoreInv'
<1>1. ASSUME NEW u \in Updaters, InTurn(u) PROVE StoreInv'
  <2>1. u \in Clients
    BY UpdaterFacts
  <2>2. CASE Read(u)
    <3>1. job[u].term \in Keys /\ TryGet(u, job[u].term)
      BY <2>2 DEF Read, Jobbed, JobFits, ATerm
    <3>2. QED BY <2>1, <3>1, TryGetStep
  <2>3. CASE Modify(u)
    BY <2>1, <2>3, ModifyPuts, PutStep
  <2>4. CASE GiveUp(u) \/ Finish(u)
    BY <2>4, AnswerKeeps DEF GiveUp, Finish
  <2>5. QED BY <1>1, <2>2, <2>3, <2>4 DEF InTurn
<1>2. CASE UNCHANGED vars
  BY <1>2, NextKeeps
<1>3. ASSUME NEW u \in Updaters, ObtainAtomic(u) \/ \E k \in Keys : Update(u, k) PROVE StoreInv'
  <2>1. UNCHANGED vars
    BY <1>3 DEF ObtainAtomic, Update
  <2>2. QED BY <1>2, <2>1
<1>4. CASE FlushTerms
  BY <1>4, FlushStep DEF FlushTerms
<1>5. CASE StoreStep
  BY <1>5, BackgroundKeeps DEF StoreStep
<1>6. CASE UNCHANGED allvars
  BY <1>2, <1>6 DEF allvars
<1>7. QED BY <1>1, <1>3, <1>4, <1>5, <1>6 DEF ANext

----------------------------------------------------------------------------
(* The jobs go on *)

\* A job moves to another phase.
Turns(u, p) == job' = [job EXCEPT ![u].phase = p]

LEMMA JobMoves ==
  ASSUME Jobbed, NEW u \in Updaters, NEW p, Turns(u, p)
  PROVE  job' = [job EXCEPT ![u] = [phase |-> p, term |-> job[u].term]]
<1>1. job[u] = [phase |-> job[u].phase, term |-> job[u].term]
  BY DEF Jobbed, Jobs
<1>2. [job[u] EXCEPT !.phase = p] = [phase |-> p, term |-> job[u].term]
  BY <1>1
<1>3. job' = [job EXCEPT ![u] = [job[u] EXCEPT !.phase = p]]
  BY DEF Turns
<1>4. QED BY <1>2, <1>3

\* The call of u in the phase p of its job.
CallFits(u, p) ==
  \/ /\ call'[u].phase \in {"awaitWrite", "writing", "returned"}
     /\ p = "reading" => reply'[u] \in Values \cup {Absent, Failed}
  \/ p = "reading" /\ call'[u].phase \in {"awaitLoad", "loading"} /\ call'[u].key = job[u].term

\* A callback that goes on to the cached store keeps its lock.
LEMMA TurnJobbed ==
  ASSUME Jobbed, NEW u \in Updaters, NEW p \in {"reading", "putting"}, job[u].phase \in Inside,
         Turns(u, p), UNCHANGED <<alocks, acked, quiet>>,
         \A t \in Clients \ {u} : call'[t] = call[t] /\ reply'[t] = reply[t],
         CallFits(u, p)
  PROVE  Jobbed'
<1> DEFINE j == [phase |-> p, term |-> job[u].term]
<1>1. job[u].term \in Keys
  BY DEF Jobbed, JobFits, Inside
<1>2. job' = [job EXCEPT ![u] = j]
  BY JobMoves
<1>3. j \in Jobs /\ j.phase = p /\ j.term = job[u].term
  BY <1>1 DEF Jobs
<1> HIDE DEF j
<1>4. JobFits(j, call'[u], reply'[u])
  BY <1>1, <1>3 DEF JobFits, CallFits
<1>5. j.phase \in Inside => alocks'[SyncOf[j.term]].holder = u
  BY <1>3 DEF Jobbed, AtomicHolding
<1>6. alocks' \in AtomicTables /\ acked' \in [Keys -> SUBSET Updaters] /\ quiet' \in BOOLEAN
  BY DEF Jobbed
<1>7. \A s \in SyncKeys : alocks[s].holder \notin {Nobody, u} => alocks'[s].holder = alocks[s].holder
  OBVIOUS
<1>8. QED
  <2> HIDE DEF Jobbed
  <2>1. \A t \in Clients \ {u} : call'[t] = call[t] /\ reply'[t] = reply[t]
    OBVIOUS
  <2>2. QED BY <1>2, <1>4, <1>5, <1>6, <1>7, <2>1, JobStep

LEMMA AskPhases ==
  ASSUME NEW L, NEW s, NEW t, NEW waiting, NEW running
  PROVE  AskPhase(L, s, t, waiting, running) \in {waiting, running}
  BY DEF AskPhase

LEMMA ReadJobbed ==
  ASSUME Jobbed, Typed, NEW u \in Updaters, Read(u)
  PROVE  Jobbed'
<1> DEFINE k == job[u].term
<1>1. /\ job[u].phase = "locked" /\ job[u].phase \in Inside /\ k \in Keys /\ u \in Tasks /\ u \in Clients /\ TryGet(u, k)
      /\ Turns(u, "reading") /\ UNCHANGED <<alocks, acked, quiet>>
  BY UpdaterFacts DEF Read, Turns, ATerm, Jobbed, JobFits, Inside
<1>2. CASE k \in Cached
  <2>1. Return(u, ValueOf(cache, k).data)
    BY <1>1, <1>2 DEF TryGet
  <2>2. call' = [call EXCEPT ![u] = Returned] /\ reply' = [reply EXCEPT ![u] = ValueOf(cache, k).data]
    BY <2>1 DEF Return
  <2>3. /\ \A t \in Clients \ {u} : call'[t] = call[t] /\ reply'[t] = reply[t]
        /\ call'[u] = Returned /\ reply'[u] = ValueOf(cache, k).data
    BY <1>1, <2>2, Constants DEF Typed
  <2>4. ValueOf(cache, k).data \in Values
    BY <1>2, Lookup DEF Typed, Cached, Items
  <2>5. Returned.phase = "returned"
    BY ReturnedFits
  <2>6. call'[u].phase \in {"awaitWrite", "writing", "returned"} /\ reply'[u] \in Values \cup {Absent, Failed}
    BY <2>3, <2>4, <2>5
  <2>7. CallFits(u, "reading")
    BY <2>6 DEF CallFits
  <2>8. QED BY <1>1, <2>3, <2>7, TurnJobbed
<1>3. CASE k \notin Cached
  <2> DEFINE r == [phase |-> AskPhase(locks, SyncOf[k], u, "awaitLoad", "loading"), key |-> k, item |-> Absent]
  <2>1. call' = [call EXCEPT ![u] = r] /\ reply' = reply
    BY <1>1, <1>3 DEF TryGet
  <2>2. r.phase \in {"awaitLoad", "loading"} /\ r.key = k
    BY AskPhases
  <2> HIDE DEF r
  <2>3. call'[u] = r /\ \A t \in Clients \ {u} : call'[t] = call[t] /\ reply'[t] = reply[t]
    BY <1>1, <2>1, Constants DEF Typed
  <2>4. call'[u].phase \in {"awaitLoad", "loading"} /\ call'[u].key = k
    BY <2>2, <2>3
  <2>5. CallFits(u, "reading")
    BY <2>4 DEF CallFits
  <2>6. QED BY <1>1, <2>3, <2>5, TurnJobbed
<1>4. QED BY <1>2, <1>3

LEMMA ModifyJobbed ==
  ASSUME Jobbed, Typed, Writable, NEW u \in Updaters, Modify(u)
  PROVE  Jobbed'
<1> DEFINE k == job[u].term
           v == Found(u) \cup {u}
<1>1. /\ job[u].phase = "reading" /\ job[u].phase \in Inside /\ k \in Keys /\ v \in Values /\ Put(u, k, v)
      /\ u \in Tasks /\ u \in Clients
      /\ Turns(u, "putting") /\ UNCHANGED <<alocks, acked, quiet>>
  BY ModifyPuts, UpdaterFacts DEF Inside, Modify, Turns
<1>2. Inserted(u, k, v, TRUE, locks, call'[u]) /\ Others(u)
  <2>1. CacheItem(u, k, v, TRUE, Done, locks) /\ TRUE \in BOOLEAN
    BY <1>1 DEF Put
  <2> HIDE DEF k, v
  <2>2. QED BY <1>1, <2>1, CacheItemInserts
<1>3. call'[u].phase \in {"awaitWrite", "writing", "returned"}
  BY <1>2, ReturnedFits DEF Inserted
<1>4. "putting" \in {"reading", "putting"} /\ "putting" # "reading"
  OBVIOUS
<1>5. \A t \in Clients \ {u} : call'[t] = call[t] /\ reply'[t] = reply[t]
  BY <1>2 DEF Others
<1>6. CallFits(u, "putting")
  BY <1>3 DEF CallFits
<1>7. QED BY <1>1, <1>4, <1>5, <1>6, TurnJobbed

\* The callback of tryGet that gives up, and the one of put.
LEMMA AnswerJobbed ==
  ASSUME Jobbed, Typed, NEW u \in Updaters, GiveUp(u) \/ Finish(u)
  PROVE  Jobbed'
<1> DEFINE s == SyncOf[job[u].term]
<1>1. /\ u \in Tasks /\ u \in Clients /\ job[u].phase \in Inside /\ job[u].term \in Keys /\ Answer(u)
      /\ alocks[s].holder = u
  BY UpdaterFacts DEF GiveUp, Finish, Inside, Jobbed, JobFits, AtomicHolding
<1>2. s \in SyncKeys /\ alocks[s] \in LocksOver(Updaters) /\ Nobody \notin Updaters
  BY <1>1, Constants, UpdaterFacts DEF Jobbed, AtomicTables
<1>3. Release(alocks[s]) \in LocksOver(Updaters)
  BY <1>2, LockKinds
<1>4. /\ alocks' = [alocks EXCEPT ![s] = Release(alocks[s])] /\ job' = [job EXCEPT ![u] = NoJob]
      /\ call' = [call EXCEPT ![u] = NoCall] /\ reply' = [reply EXCEPT ![u] = Done]
  BY <1>1 DEF Answer, ATerm
<1>5. /\ alocks' \in AtomicTables
      /\ \A q \in SyncKeys : alocks[q].holder \notin {Nobody, u} => alocks'[q].holder = alocks[q].holder
  BY <1>1, <1>2, <1>3, <1>4, AtomicLocks
<1>6. /\ \A t \in Tasks : call'[t] = IF t = u THEN NoCall ELSE call[t]
      /\ \A t \in Clients : reply'[t] = IF t = u THEN Done ELSE reply[t]
  BY <1>1, <1>4 DEF Typed
<1>7. \A t \in Clients \ {u} : call'[t] = call[t] /\ reply'[t] = reply[t]
  BY <1>6, Constants
<1>8. NoJob.phase = "idle" /\ NoJob \in Jobs /\ NoCall.phase = "idle" /\ NoJob.phase \notin Inside
  BY DEF NoJob, Jobs, NoCall, Inside
<1>9. JobFits(NoJob, call'[u], reply'[u])
  BY <1>1, <1>6, <1>8 DEF JobFits
<1>10. acked' \in [Keys -> SUBSET Updaters] /\ quiet' \in BOOLEAN
  BY <1>1 DEF GiveUp, Finish, Jobbed
<1>11. QED BY <1>4, <1>5, <1>7, <1>8, <1>9, <1>10, JobStep

LEMMA FlushClients ==
  ASSUME Typed, Flush
  PROVE  \A t \in Clients : call'[t] = call[t] /\ reply'[t] = reply[t]
<1>1. Cached \subseteq Keys
  BY Lookup DEF Typed, Cached
<1>2. \A keys \in Flushable : keys \subseteq Cached
  BY DEF Flushable
<1>3. QED BY <1>1, <1>2, Constants DEF Flush

LEMMA NewQuiet ==
  ASSUME quiet \in BOOLEAN
  PROVE  (quiet \/ flush' # "running") \in BOOLEAN /\ (Busy = {}) \in BOOLEAN
  OBVIOUS

\* A client whose call runs is an updater.
LEMMA CallersUpdate ==
  ASSUME Jobbed, NEW t \in Clients, call[t].phase # "idle"
  PROVE  t \in Updaters
  BY DEF Jobbed

LEMMA BackgroundJobbed ==
  ASSUME Jobbed, Typed, Writable, Background, UNCHANGED <<alocks, job, acked>>, quiet' \in BOOLEAN
  PROVE  Jobbed'
<1>1. ASSUME NEW t \in Clients, call[t].phase # "idle",
             \A u \in Clients \ {t} : call'[u] = call[u] /\ reply'[u] = reply[u],
             t \in Updaters => JobFits(job[t], call'[t], reply'[t])
      PROVE  Jobbed'
  <2>1. t \in Updaters /\ t \in Tasks
    BY <1>1, CallersUpdate, Constants
  <2>2. QED BY <1>1, <2>1, CallStep
<1>2. ASSUME NEW t \in Clients, BeginLoad(t) PROVE Jobbed'
  <2>1. call[t] = [phase |-> "awaitLoad", key |-> call[t].key, item |-> call[t].item] /\ reply' = reply
    BY <1>2, Constants DEF BeginLoad, Obtain, Typed, Calls
  <2> DEFINE r == [call[t] EXCEPT !.phase = "loading"]
  <2>2. call' = [call EXCEPT ![t] = r]
    BY <1>2 DEF BeginLoad
  <2>3. r.phase = "loading" /\ r.key = call[t].key /\ call[t].phase = "awaitLoad"
    BY <2>1
  <2> HIDE DEF r
  <2>4. call'[t] = r /\ \A u \in Clients \ {t} : call'[u] = call[u] /\ reply'[u] = reply[u]
    BY <2>1, <2>2, Constants DEF Typed
  <2>5. t \in Updaters => JobFits(job[t], call'[t], reply'[t])
    BY <2>1, <2>3, <2>4 DEF Jobbed, JobFits
  <2>6. QED BY <1>1, <2>3, <2>4, <2>5
<1>3. ASSUME NEW t \in Clients, BeginWrite(t) PROVE Jobbed'
  <2> DEFINE k == call[t].key
             dirty == k \in Cached /\ ValueOf(cache, k).dirty
             r == [phase |-> "writing", key |-> k, item |-> IF dirty THEN ValueOf(cache, k).data ELSE call[t].item]
  <2>1. call' = [call EXCEPT ![t] = r] /\ reply' = reply /\ call[t].phase = "awaitWrite"
    BY <1>3 DEF BeginWrite, Obtain
  <2>2. r.phase = "writing"
    OBVIOUS
  <2> HIDE DEF r
  <2>3. call'[t] = r /\ \A u \in Clients \ {t} : call'[u] = call[u] /\ reply'[u] = reply[u]
    BY <2>1, Constants DEF Typed
  <2>4. t \in Updaters => JobFits(job[t], call'[t], reply'[t])
    BY <2>1, <2>2, <2>3 DEF Jobbed, JobFits
  <2>5. QED BY <1>1, <2>1, <2>3, <2>4
<1>4. ASSUME NEW t \in Clients, call[t].phase = "loading",
             \A u \in Clients \ {t} : call'[u] = call[u] /\ reply'[u] = reply[u],
             call'[t].phase \in {"awaitWrite", "writing", "returned"}, reply'[t] \in Values \cup {Absent, Failed}
      PROVE  Jobbed'
  <2>1. t \in Updaters => JobFits(job[t], call'[t], reply'[t])
    BY <1>4 DEF Jobbed, JobFits
  <2>2. QED BY <1>1, <1>4, <2>1
<1>5. ASSUME NEW t \in Clients, EndLoad(t) PROVE Jobbed'
  <2> DEFINE k == call[t].key
  <2>1. call[t].phase = "loading" /\ Returned.phase = "returned" /\ k \in Keys /\ t \in Tasks
    BY <1>5, ReturnedFits, BusyLock, Constants DEF EndLoad, Running
  <2>2. ASSUME NEW a \in {Failed, Absent}, Return(t, a) PROVE Jobbed'
    <3>1. call'[t] = Returned /\ reply'[t] = a /\ \A u \in Clients \ {t} : call'[u] = call[u] /\ reply'[u] = reply[u]
      BY <2>1, <2>2, Constants DEF Return, Typed
    <3>2. QED BY <1>4, <2>1, <2>2, <3>1
  <2>3. ASSUME disk[k] # Absent, CacheItem(t, k, disk[k], FALSE, disk[k], Unlocked(t)) PROVE Jobbed'
    <3>1. disk[k] \in Values
      BY <2>1, <2>3 DEF Typed
    <3>2. Inserted(t, k, disk[k], FALSE, Unlocked(t), call'[t]) /\ reply'[t] = disk[k] /\ Others(t)
      <4> HIDE DEF k
      <4>1. FALSE \in BOOLEAN
        OBVIOUS
      <4>2. QED BY <2>1, <2>3, <3>1, <4>1, CacheItemInserts
    <3>3. call'[t].phase \in {"awaitWrite", "writing", "returned"}
      BY <2>1, <3>2 DEF Inserted
    <3>4. QED BY <1>4, <2>1, <3>1, <3>2, <3>3 DEF Others
  <2>4. QED BY <1>5, <2>2, <2>3 DEF EndLoad
<1>6. ASSUME NEW t \in Clients, EndWrite(t) PROVE Jobbed'
  <2>1. PICK a \in {reply[t], Failed} : Return(t, a)
    BY <1>6 DEF EndWrite
  <2>2. /\ call[t].phase = "writing" /\ Returned.phase = "returned"
        /\ call' = [call EXCEPT ![t] = Returned] /\ reply' = [reply EXCEPT ![t] = a]
    BY <1>6, <2>1, ReturnedFits DEF EndWrite, Return
  <2>3. /\ call'[t] = Returned /\ reply'[t] = a
        /\ \A u \in Clients \ {t} : call'[u] = call[u] /\ reply'[u] = reply[u]
    BY <2>2, Constants DEF Typed
  <2>4. t \in Updaters => JobFits(job[t], call'[t], reply'[t])
    BY <2>1, <2>2, <2>3 DEF Jobbed, JobFits
  <2>5. QED BY <1>1, <2>2, <2>3, <2>4
<1>7. ASSUME NEW t \in Clients, BeginDel(t) \/ EndDel(t) PROVE Jobbed'
  <2>1. call[t].phase \in {"awaitDel", "deleting"}
    BY <1>7 DEF BeginDel, EndDel, Obtain
  <2>2. t \in Updaters
    BY <2>1, CallersUpdate
  <2>3. QED BY <2>1, <2>2 DEF Jobbed, JobFits, Jobs
<1>8. ASSUME NEW k \in Keys, BeginFlush(k) \/ EndFlush(k) PROVE Jobbed'
  <2>1. PICK r : call' = [call EXCEPT ![k] = r]
    BY <1>8 DEF BeginFlush, EndFlush, Flushed
  <2>2. k \in Tasks /\ k \notin Clients /\ reply' = reply
    BY <1>8, Constants DEF BeginFlush, EndFlush
  <2>3. \A u \in Tasks : call'[u] = IF u = k THEN r ELSE call[u]
    BY <2>1, <2>2 DEF Typed
  <2>4. \A u \in Clients \ {k} : call'[u] = call[u] /\ reply'[u] = reply[u]
    BY <2>2, <2>3, Constants
  <2>5. QED BY <2>2, <2>4, CallStep, UpdaterFacts
<1>9. QED BY <1>2, <1>3, <1>5, <1>6, <1>7, <1>8 DEF Background, Obtained, Completed

LEMMA JobbedKept ==
  ASSUME StoreInv, Jobbed, Writable, [ANext]_allvars
  PROVE  Jobbed'
<1>1. Typed
  BY DEF StoreInv
<1>2. ASSUME NEW u \in Updaters, InTurn(u) PROVE Jobbed'
  BY <1>1, <1>2, ReadJobbed, ModifyJobbed, AnswerJobbed DEF InTurn
<1>3. CASE FlushTerms
  <2>1. \A t \in Clients : call'[t] = call[t] /\ reply'[t] = reply[t]
    BY <1>1, <1>3, FlushClients DEF FlushTerms
  <2>2. UNCHANGED <<alocks, job, acked>> /\ quiet' \in BOOLEAN
    BY <1>3, NewQuiet DEF FlushTerms, Jobbed
  <2>3. QED BY <2>1, <2>2, UpdaterFacts DEF Jobbed, AtomicHolding
<1>4. CASE StoreStep
  BY <1>1, <1>4, NewQuiet, BackgroundJobbed DEF StoreStep, Jobbed
<1>5. CASE UNCHANGED allvars
  BY <1>5 DEF allvars, avars, vars, Jobbed, AtomicHolding
<1>6. QED BY <1>2, <1>3, <1>4, <1>5, UpdateJobbed, ObtainJobbed DEF ANext

\* What an operation of the cache adds to its keys.
LEMMA NewKeys ==
  ASSUME Typed, NEW k
  PROVE  /\ k \in Cached => CachedKeys(Touch(cache, k, FifoCache)) = Cached
         /\ CachedKeys(Without(cache, k)) \subseteq Cached
         /\ \A item \in Items : k \in Keys => CachedKeys(Store(cache, k, item, FifoCache)) \subseteq Cached \cup {k}
<1>1. cache \in Caches /\ Len(cache) <= Capacity
  BY DEF Typed
<1>2. k \in Cached => CachedKeys(Touch(cache, k, FifoCache)) = Cached
  BY TouchedCache
<1>3. CachedKeys(Without(cache, k)) \subseteq Cached
  BY <1>1, WithoutRemoves DEF Cached
<1>4. ASSUME NEW item \in Items, k \in Keys PROVE CachedKeys(Store(cache, k, item, FifoCache)) \subseteq Cached \cup {k}
  BY <1>1, <1>4, StoreInserts DEF Cached
<1>5. QED BY <1>2, <1>3, <1>4

\* What the timers and the store's completions add to the keys of the cache has
\* a lock: a key that was loaded.
LEMMA BackgroundWritable ==
  ASSUME Typed, Background
  PROVE  made' = made /\ \A j \in CachedKeys(cache') : j \in Cached \/ SyncOf[j] \in made
<1>1. ASSUME NEW t \in Clients, BeginLoad(t) \/ BeginDel(t) \/ EndWrite(t)
      PROVE  made' = made /\ cache' = cache
  BY <1>1 DEF BeginLoad, BeginDel, EndWrite
<1>2. ASSUME NEW t \in Clients, BeginWrite(t)
      PROVE  made' = made /\ CachedKeys(cache') \subseteq Cached
  <2> DEFINE k == call[t].key
             item == [data |-> call[t].item, dirty |-> FALSE]
  <2>1. k \in Keys /\ item \in Items
    BY <1>2, Constants DEF BeginWrite, Obtain, Waiting, Typed, Fits, Items
  <2>2. /\ made' = made
        /\ cache' = cache \/ (k \in Cached /\ cache' \in {Touch(cache, k, FifoCache), Store(cache, k, item, FifoCache)})
    BY <1>2 DEF BeginWrite
  <2> HIDE DEF item, k
  <2>3. QED BY <2>1, <2>2, NewKeys DEF Cached
<1>3. ASSUME NEW t \in Clients, EndLoad(t)
      PROVE  made' = made /\ \A j \in CachedKeys(cache') : j \in Cached \/ SyncOf[j] \in made
  <2> DEFINE k == call[t].key
             item == [data |-> disk[k], dirty |-> FALSE]
  <2>1. k \in Keys /\ SyncOf[k] \in made /\ (disk[k] # Absent => item \in Items)
    BY <1>3, Constants DEF EndLoad, Running, Typed, Fits, Items
  <2>2. made' = made /\ (cache' = cache \/ (disk[k] # Absent /\ cache' = Store(cache, k, item, FifoCache)))
    BY <1>3 DEF EndLoad, CacheItem
  <2> HIDE DEF item, k
  <2>3. CachedKeys(cache') \subseteq Cached \cup {k}
    BY <2>1, <2>2, NewKeys DEF Cached
  <2>4. QED BY <2>1, <2>2, <2>3
<1>4. ASSUME NEW t \in Clients, EndDel(t)
      PROVE  made' = made /\ CachedKeys(cache') \subseteq Cached
  BY <1>4, NewKeys DEF EndDel
<1>5. ASSUME NEW k \in Keys, BeginFlush(k) \/ EndFlush(k)
      PROVE  made' = made /\ CachedKeys(cache') \subseteq Cached
  <2>1. made' = made /\ (cache' = cache \/ (k \in Cached /\ cache' = Touch(cache, k, FifoCache)))
    BY <1>5 DEF BeginFlush, EndFlush
  <2>2. QED BY <2>1, NewKeys DEF Cached
<1>6. CASE \E t \in Clients : BeginLoad(t) \/ BeginDel(t) \/ EndWrite(t)
  BY <1>1, <1>6 DEF Cached
<1>7. QED BY <1>2, <1>3, <1>4, <1>5, <1>6 DEF Background, Obtained, Completed

\* With a lock for every cached key a flush writes them all.
LEMMA FlushesAll ==
  ASSUME Writable, Flush
  PROVE  /\ \A k \in Keys : Idle(k)
         /\ \E order \in SetToSeqs(Cached) : locks' = FlushItems(order).locks /\ cache' = FlushItems(order).cache
         /\ call' = [t \in Tasks |->
               IF t \notin Cached THEN call[t]
               ELSE IF locks'[SyncOf[t]].holder = t
               THEN [NoCall EXCEPT !.phase = "flushing", !.key = t, !.item = ValueOf(cache, t).data]
               ELSE [NoCall EXCEPT !.phase = "awaitFlush", !.key = t]]
         /\ flush' = "running" /\ UNCHANGED <<reply, made, disk, unsaved>>
<1>1. Flushable = {Cached}
  BY DEF Writable, Flushable
<1>2. (\A k \in Keys : Idle(k)) /\ UNCHANGED <<reply, made, disk, unsaved>>
  BY DEF Flush
<1>3. PICK keys \in Flushable :
         /\ \E order \in SetToSeqs(keys) : locks' = FlushItems(order).locks /\ cache' = FlushItems(order).cache
         /\ call' = [t \in Tasks |->
               IF t \notin keys THEN call[t]
               ELSE IF locks'[SyncOf[t]].holder = t
               THEN [NoCall EXCEPT !.phase = "flushing", !.key = t, !.item = ValueOf(cache, t).data]
               ELSE [NoCall EXCEPT !.phase = "awaitFlush", !.key = t]]
         /\ flush' = IF keys = Cached THEN "running" ELSE "thrown"
  BY DEF Flush
<1>4. keys = Cached
  BY <1>1, <1>3
<1>5. flush' = "running"
  BY <1>3, <1>4
<1>6. QED BY <1>2, <1>3, <1>4, <1>5, Zenon

LEMMA WritableKept ==
  ASSUME StoreInv, Jobbed, Writable, [ANext]_allvars
  PROVE  Writable'
<1>1. Typed /\ made \in SUBSET SyncKeys
  BY DEF StoreInv, Typed
<1>2. ASSUME made \subseteq made', \A j \in CachedKeys(cache') : j \in Cached \/ SyncOf[j] \in made',
             \A v \in Updaters : job'[v].phase = "reading" =>
                 job'[v] = job[v] \/ SyncOf[job'[v].term] \in made'
      PROVE  Writable'
  <2>1. \A k \in CachedKeys(cache') : SyncOf[k] \in made'
    BY <1>2 DEF Writable
  <2>2. \A v \in Updaters : job'[v].phase = "reading" => SyncOf[job'[v].term] \in made'
    BY <1>2 DEF Writable
  <2>3. QED BY <2>1, <2>2 DEF Writable, Cached
<1>3. ASSUME NEW u \in Updaters, Read(u) PROVE Writable'
  <2> DEFINE k == job[u].term
  <2>1. TryGet(u, k) /\ Turns(u, "reading") /\ k \in Keys
    BY <1>3 DEF Read, ATerm, Turns, Jobbed, JobFits
  <2>2. \/ k \in Cached /\ cache' = Touch(cache, k, FifoCache) /\ made' = made
        \/ made' = made \cup {SyncOf[k]} /\ cache' = cache
    BY <2>1 DEF TryGet
  <2>3. made \subseteq made' /\ SyncOf[k] \in made'
    BY <2>2 DEF Writable
  <2>4. CachedKeys(cache') = Cached
    BY <1>1, <2>2, NewKeys DEF Cached
  <2>5. ASSUME NEW v \in Updaters PROVE job'[v] = job[v] \/ SyncOf[job'[v].term] \in made'
    <3>1. job' = [job EXCEPT ![u] = [phase |-> "reading", term |-> k]]
      BY <2>1, JobMoves
    <3>2. CASE v = u
      BY <2>3, <3>1, <3>2 DEF Jobbed
    <3>3. CASE v # u
      BY <3>1, <3>3
    <3>4. QED BY <3>2, <3>3
  <2>6. QED BY <1>2, <2>3, <2>4, <2>5
<1>4. ASSUME NEW u \in Updaters, Modify(u) PROVE Writable'
  <2> DEFINE k == job[u].term
             v == Found(u) \cup {u}
             item == [data |-> v, dirty |-> TRUE]
  <2>1. job[u].phase = "reading" /\ k \in Keys /\ v \in Values /\ Put(u, k, v) /\ Turns(u, "putting")
    BY <1>4, ModifyPuts DEF Modify, Turns
  <2>2. made' = made /\ cache' = Store(cache, k, item, FifoCache) /\ item \in Items
    BY <2>1 DEF Put, CacheItem, Items
  <2>3. SyncOf[k] \in made
    BY <2>1 DEF Writable
  <2> HIDE DEF item, v
  <2>4. CachedKeys(cache') \subseteq Cached \cup {k}
    BY <1>1, <2>1, <2>2, NewKeys
  <2>5. ASSUME NEW w \in Updaters, job'[w].phase = "reading" PROVE job'[w] = job[w]
    <3>1. job' = [job EXCEPT ![u] = [phase |-> "putting", term |-> k]]
      BY <2>1, JobMoves
    <3>2. QED BY <2>5, <3>1 DEF Jobbed
  <2>6. QED BY <1>2, <2>2, <2>3, <2>4, <2>5
<1>5. ASSUME NEW u \in Updaters, GiveUp(u) \/ Finish(u) PROVE Writable'
  <2>1. made' = made /\ cache' = cache /\ job' = [job EXCEPT ![u] = NoJob]
    BY <1>5 DEF GiveUp, Finish, Answer
  <2>2. NoJob.phase = "idle"
    BY DEF NoJob
  <2>3. \A v \in Updaters : job'[v].phase = "reading" => job'[v] = job[v]
    BY <2>1, <2>2 DEF Jobbed
  <2>4. QED BY <1>2, <2>1, <2>3 DEF Cached
<1>6. ASSUME NEW u \in Updaters, ObtainAtomic(u) \/ \E k \in Keys : Update(u, k) PROVE Writable'
  <2>1. made' = made /\ cache' = cache
    BY <1>6 DEF ObtainAtomic, Update, vars
  <2>2. PICK j : job' = [job EXCEPT ![u] = j] /\ j.phase # "reading"
    <3>1. CASE ObtainAtomic(u)
      <4>1. Turns(u, "locked")
        BY <3>1 DEF ObtainAtomic, Turns
      <4>2. job' = [job EXCEPT ![u] = [phase |-> "locked", term |-> job[u].term]]
        BY <4>1, JobMoves
      <4>3. [phase |-> "locked", term |-> job[u].term].phase # "reading"
        OBVIOUS
      <4>4. QED BY <4>2, <4>3
    <3>2. ASSUME NEW k \in Keys, Update(u, k)
          PROVE  \E j : job' = [job EXCEPT ![u] = j] /\ j.phase # "reading"
      <4> DEFINE j == [phase |-> AskPhase(alocks, SyncOf[k], u, "awaitAtomic", "locked"), term |-> k]
      <4>1. job' = [job EXCEPT ![u] = j]
        BY <3>2 DEF Update
      <4>2. j.phase \in {"awaitAtomic", "locked"}
        BY AskPhases
      <4> HIDE DEF j
      <4>3. QED BY <4>1, <4>2
    <3>3. QED BY <1>6, <3>1, <3>2
  <2>3. \A v \in Updaters : job'[v].phase = "reading" => job'[v] = job[v]
    BY <2>2 DEF Jobbed
  <2>4. QED BY <1>2, <2>1, <2>3 DEF Cached
<1>7. CASE FlushTerms
  <2>1. Flush /\ job' = job
    BY <1>7 DEF FlushTerms
  <2>2. CachedKeys(cache') = Cached
    BY <1>1, <2>1, FlushesAll, FlushOrder DEF Flushing, Alike, Cached
  <2>3. made' = made
    BY <2>1 DEF Flush
  <2>4. QED BY <1>2, <2>1, <2>2, <2>3
<1>8. CASE StoreStep
  BY <1>1, <1>2, <1>8, BackgroundWritable DEF StoreStep
<1>9. CASE UNCHANGED allvars
  BY <1>2, <1>9 DEF allvars, avars, vars, Cached
<1>10. QED BY <1>3, <1>4, <1>5, <1>6, <1>7, <1>8, <1>9 DEF ANext, InTurn

JobInv == StoreInv /\ Jobbed /\ Writable

LEMMA JobInit == AInit => JobInv
<1> SUFFICES ASSUME AInit PROVE JobInv
  OBVIOUS
<1>1. StoreInv
  BY InitKeeps DEF AInit
<1>2. FreeLock \in LocksOver(Updaters)
  BY EmptySeq DEF FreeLock, LocksOver
<1>3. alocks \in AtomicTables
  BY <1>2 DEF AInit, AtomicTables
<1>4. NoJob \in Jobs /\ NoJob.phase = "idle" /\ NoCall.phase = "idle" /\ NoJob.phase \notin Inside
  BY DEF NoJob, Jobs, NoCall, Inside
<1>5. (\A t \in Clients : call[t] = NoCall) /\ \A u \in Updaters : job[u] = NoJob
  BY Constants DEF AInit, Init
<1>6. \A u \in Updaters : JobFits(job[u], call[u], reply[u])
  BY <1>4, <1>5, UpdaterFacts DEF JobFits
<1>7. job \in [Updaters -> Jobs] /\ acked \in [Keys -> SUBSET Updaters] /\ quiet \in BOOLEAN
  BY <1>4 DEF AInit
<1>8. Writable
  BY <1>4, <1>5 DEF AInit, Init, Writable, Cached, CachedKeys
<1>9. QED BY <1>1, <1>3, <1>4, <1>5, <1>6, <1>7, <1>8 DEF JobInv, Jobbed, AtomicHolding

THEOREM JobInvariant == ASpec => []JobInv
<1>1. JobInv /\ [ANext]_allvars => JobInv'
  BY StorePart, JobbedKept, WritableKept DEF JobInv
<1>2. QED BY <1>1, JobInit, PTL DEF ASpec

\* Every call and every job is where it can be, with any fault of the store.
THEOREM AtomicTypeCorrect == ASpec => []AtomicTypeOK
<1>1. JobInv => AtomicTypeOK
  <2> SUFFICES ASSUME JobInv PROVE AtomicTypeOK
    OBVIOUS
  <2>1. TypeOK
    BY StoreMeansType DEF JobInv
  <2>2. QED BY <2>1 DEF JobInv, Jobbed, AtomicTypeOK, AtomicTables
<1>2. QED BY <1>1, JobInvariant, PTL


----------------------------------------------------------------------------
(* The order in which the locks of the cached store are served *)

SavesUp(r, k) == r.phase \in {"awaitWrite", "writing"} /\ r.key = k
Loads(r, k) == r.phase \in {"awaitLoad", "loading"} /\ r.key = k

\* The call waits for lock s, or holds it.
Awaits(r, s) == r.phase \in Waiting /\ SyncOf[r.key] = s
Holds(r, s) == r.phase \in Running /\ SyncOf[r.key] = s

\* The clients in the queue q of lock s, which h holds, with the calls C: those
\* that wait, once each, and a load behind the writes of its key.
LinedUp(q, h, C, s) ==
  /\ \A t \in Clients : Awaits(C[t], s) /\ C[t].phase = "awaitWrite" => \E i \in 1..Len(q) : q[i] = t
  /\ \A i \in 1..Len(q) : q[i] \in Clients => Awaits(C[q[i]], s)
  /\ \A i, j \in 1..Len(q) : q[i] \in Clients /\ q[i] = q[j] => i = j
  /\ \A i, j \in 1..Len(q) : q[i] \in Clients /\ q[j] \in Clients /\ C[q[j]].phase = "awaitLoad"
                               /\ SavesUp(C[q[i]], C[q[j]].key) => i < j
  /\ h \in Clients => Holds(C[h], s)

Lined == \A s \in SyncKeys : LinedUp(locks[s].queue, locks[s].holder, call, s)

LEMMA Queues ==
  ASSUME NEW q \in Seq(Tasks)
  PROVE  /\ Len(q) \in Nat
         /\ \A t \in Tasks : /\ Len(Append(q, t)) = Len(q) + 1 /\ Append(q, t)[Len(q) + 1] = t
                             /\ \A i \in 1..Len(q) : Append(q, t)[i] = q[i]
         /\ q # << >> => /\ 1 \in 1..Len(q) /\ Head(q) = q[1] /\ Len(Tail(q)) = Len(q) - 1
                         /\ \A i \in 1..Len(Tail(q)) : i + 1 \in 1..Len(q) /\ Tail(q)[i] = q[i + 1]
         /\ q = << >> => Len(q) = 0
<1>1. Len(q) \in Nat /\ (q = << >> <=> Len(q) = 0)
  BY LenProperties, EmptySeq
<1>2. ASSUME NEW t \in Tasks
      PROVE  /\ Len(Append(q, t)) = Len(q) + 1 /\ Append(q, t)[Len(q) + 1] = t
             /\ \A i \in 1..Len(q) : Append(q, t)[i] = q[i]
  BY AppendProperties
<1>3. ASSUME q # << >>
      PROVE  /\ 1 \in 1..Len(q) /\ Head(q) = q[1] /\ Len(Tail(q)) = Len(q) - 1
             /\ \A i \in 1..Len(Tail(q)) : i + 1 \in 1..Len(q) /\ Tail(q)[i] = q[i + 1]
  BY <1>1, <1>3, HeadTailProperties
<1>4. QED BY <1>1, <1>2, <1>3

\* A client that neither waits for the lock nor holds it moves elsewhere, or
\* the holder gives the lock back.
LEMMA LinedApart ==
  ASSUME NEW q, NEW h, NEW g, NEW C, NEW D, NEW s, LinedUp(q, h, C, s), NEW t \in Clients,
         \A u \in Clients \ {t} : D[u] = C[u],
         ~Awaits(C[t], s), ~Awaits(D[t], s),
         (g = h /\ ~Holds(C[t], s)) \/ g \notin Clients
  PROVE  LinedUp(q, g, D, s)
<1>1. \A i \in 1..Len(q) : q[i] \in Clients => q[i] # t /\ D[q[i]] = C[q[i]]
  BY DEF LinedUp
<1>2. \A u \in Clients : Awaits(D[u], s) => u # t /\ Awaits(C[u], s) /\ D[u] = C[u]
  OBVIOUS
<1>3. g \in Clients => Holds(D[g], s)
  BY DEF LinedUp
<1>4. \A u \in Clients : Awaits(D[u], s) /\ D[u].phase = "awaitWrite" => \E i \in 1..Len(q) : q[i] = u
  BY <1>2 DEF LinedUp
<1>5. \A i \in 1..Len(q) : q[i] \in Clients => Awaits(D[q[i]], s)
  BY <1>1 DEF LinedUp
<1>6. \A i, j \in 1..Len(q) : q[i] \in Clients /\ q[j] \in Clients /\ D[q[j]].phase = "awaitLoad"
                               /\ SavesUp(D[q[i]], D[q[j]].key) => i < j
  BY <1>1 DEF LinedUp
<1>7. \A i, j \in 1..Len(q) : q[i] \in Clients /\ q[i] = q[j] => i = j
  BY DEF LinedUp
<1>8. QED BY <1>3, <1>4, <1>5, <1>6, <1>7 DEF LinedUp

\* A client asks for the lock; one that will write a key is not behind a load of it.
LEMMA LinedAsk ==
  ASSUME NEW l \in LocksOver(Tasks), NEW C, NEW D, NEW s, LinedUp(l.queue, l.holder, C, s), NEW t \in Clients,
         \A u \in Clients \ {t} : D[u] = C[u],
         ~Awaits(C[t], s), ~Holds(C[t], s),
         IF Ask(l, t).holder = t THEN Holds(D[t], s) ELSE Awaits(D[t], s),
         \A u \in Clients \ {t}, k \in Keys : SavesUp(D[t], k) => ~Loads(C[u], k),
         D[t].key \in Keys
  PROVE  LinedUp(Ask(l, t).queue, Ask(l, t).holder, D, s)
<1> DEFINE q == l.queue
<1>1. l = [holder |-> l.holder, queue |-> q] /\ q \in Seq(Tasks) /\ t \in Tasks /\ t # Nobody
  BY Constants DEF LocksOver
<1>2. \A i \in 1..Len(q) : q[i] \in Clients => q[i] # t /\ D[q[i]] = C[q[i]]
  BY DEF LinedUp
<1>3. l.holder # t
  BY DEF LinedUp
<1>4. CASE l.holder = Nobody /\ q = << >>
  <2>1. Ask(l, t).holder = t /\ Ask(l, t).queue = q /\ Len(q) = 0
    BY <1>1, <1>4, Queues DEF Ask
  <2>2. \A u \in Clients \ {t} : ~(Awaits(D[u], s) /\ D[u].phase = "awaitWrite")
    BY <2>1 DEF LinedUp
  <2>3. Holds(D[t], s) /\ ~Awaits(D[t], s)
    BY <2>1 DEF Holds, Awaits, Waiting, Running
  <2> HIDE DEF q
  <2>4. QED BY <2>1, <2>2, <2>3 DEF LinedUp
<1>5. CASE ~(l.holder = Nobody /\ q = << >>)
  <2> DEFINE p == Append(q, t)
             n == Len(q) + 1
  <2>1. Ask(l, t).holder = l.holder /\ Ask(l, t).queue = p
    BY <1>1, <1>5 DEF Ask
  <2>2. Len(q) \in Nat /\ Len(p) = n /\ p[n] = t /\ \A i \in 1..Len(q) : p[i] = q[i]
    BY <1>1, Queues
  <2>3. Awaits(D[t], s)
    BY <1>3, <2>1
  <2> HIDE DEF p, q
  <2>4. \A i \in 1..Len(p) : i = n \/ i \in 1..Len(q)
    BY <2>2
  <2>5. \A i \in 1..Len(q) : i \in 1..Len(p) /\ i < n
    BY <2>2
  <2>6. n \in 1..Len(p)
    BY <2>2
  <2>7. \A u \in Clients : Awaits(D[u], s) /\ D[u].phase = "awaitWrite" => \E i \in 1..Len(p) : p[i] = u
    <3>1. ASSUME NEW u \in Clients, Awaits(D[u], s), D[u].phase = "awaitWrite", u # t
          PROVE  \E i \in 1..Len(p) : p[i] = u
      <4>1. PICK i \in 1..Len(q) : q[i] = u
        BY <3>1 DEF LinedUp, q
      <4>2. QED BY <2>2, <2>5, <4>1
    <3>2. QED BY <2>2, <2>6, <3>1
  <2>8. \A i \in 1..Len(p) : p[i] \in Clients => Awaits(D[p[i]], s)
    BY <1>2, <2>2, <2>3, <2>4 DEF LinedUp, q
  <2>9. ASSUME NEW i \in 1..Len(p), NEW j \in 1..Len(p), p[i] \in Clients, p[i] = p[j] PROVE i = j
    <3>1. CASE i = n \/ j = n
      BY <1>2, <2>2, <2>4, <2>9, <3>1 DEF q
    <3>2. CASE i \in 1..Len(q) /\ j \in 1..Len(q)
      BY <2>2, <2>9, <3>2 DEF LinedUp, q
    <3>3. QED BY <2>4, <3>1, <3>2
  <2>10. ASSUME NEW i \in 1..Len(p), NEW j \in 1..Len(p), p[i] \in Clients, p[j] \in Clients,
                D[p[j]].phase = "awaitLoad", SavesUp(D[p[i]], D[p[j]].key)
         PROVE  i < j
    <3>1. CASE i \in 1..Len(q) /\ j \in 1..Len(q)
      BY <1>2, <2>2, <2>10, <3>1 DEF LinedUp, q
    <3>2. CASE i \in 1..Len(q) /\ j = n
      BY <2>5, <3>2
    <3>3. CASE i = n
      <4>1. p[i] = t /\ p[j] # t
        BY <2>2, <2>10, <3>3 DEF SavesUp
      <4>2. D[p[j]] = C[p[j]] /\ Loads(C[p[j]], D[p[j]].key)
        BY <2>10, <4>1 DEF Loads
      <4>3. D[p[j]].key \in Keys
        BY <2>10, <4>1 DEF SavesUp
      <4>4. QED BY <2>10, <4>1, <4>2, <4>3
    <3>4. QED BY <2>4, <3>1, <3>2, <3>3
  <2>11. l.holder \in Clients => Holds(D[l.holder], s)
    BY <1>3 DEF LinedUp
  <2>12. LinedUp(p, l.holder, D, s)
    BY <2>7, <2>8, <2>9, <2>10, <2>11 DEF LinedUp
  <2>13. QED BY <2>1, <2>12
<1>6. QED BY <1>4, <1>5

\* The task whose turn it is leaves the queue.
LEMMA LinedTail ==
  ASSUME NEW q \in Seq(Tasks), q # << >>, NEW h, NEW g, NEW C, NEW D, NEW s, LinedUp(q, h, C, s), NEW t \in Tasks,
         Head(q) = t, \A u \in Clients \ {t} : D[u] = C[u],
         t \in Clients => ~Awaits(D[t], s),
         g \in Clients => g = t /\ Holds(D[t], s)
  PROVE  LinedUp(Tail(q), g, D, s)
<1> DEFINE p == Tail(q)
<1>1. /\ Len(q) \in Nat /\ 1 \in 1..Len(q) /\ q[1] = t /\ Len(p) = Len(q) - 1
      /\ \A i \in 1..Len(p) : i + 1 \in 1..Len(q) /\ p[i] = q[i + 1]
  BY Queues
<1>2. \A i \in 1..Len(q) : i # 1 => i - 1 \in 1..Len(p) /\ p[i - 1] = q[i]
  <2>1. ASSUME NEW i \in 1..Len(q), i # 1 PROVE i - 1 \in 1..Len(p) /\ p[i - 1] = q[i]
    <3> DEFINE m == i - 1
    <3>1. m \in 1..Len(p) /\ m + 1 = i
      BY <1>1, <2>1
    <3> HIDE DEF m, p
    <3>2. p[m] = q[m + 1]
      BY <1>1, <3>1
    <3>3. p[m] = q[i]
      BY <3>1, <3>2
    <3>4. QED BY <3>1, <3>3 DEF m
  <2>2. QED BY <2>1
<1>3. \A i \in 1..Len(p) : i \in Int /\ i + 1 # 1
  BY <1>1
<1> HIDE DEF p
<1>4. \A i \in 1..Len(p) : p[i] \in Clients => p[i] # t /\ D[p[i]] = C[p[i]] /\ Awaits(C[p[i]], s)
  BY <1>1, <1>3 DEF LinedUp
<1>5. \A u \in Clients : Awaits(D[u], s) /\ D[u].phase = "awaitWrite" => \E i \in 1..Len(p) : p[i] = u
  <2>1. ASSUME NEW u \in Clients, Awaits(D[u], s), D[u].phase = "awaitWrite" PROVE \E i \in 1..Len(p) : p[i] = u
    <3>1. u # t /\ D[u] = C[u]
      BY <2>1
    <3>2. PICK i \in 1..Len(q) : q[i] = u
      BY <2>1, <3>1 DEF LinedUp
    <3>3. QED BY <1>1, <1>2, <3>1, <3>2
  <2>2. QED BY <2>1
<1>6. \A i \in 1..Len(p) : p[i] \in Clients => Awaits(D[p[i]], s)
  BY <1>4
<1>7. ASSUME NEW i \in 1..Len(p), NEW j \in 1..Len(p), p[i] \in Clients, p[i] = p[j] PROVE i = j
  <2>1. i + 1 = j + 1
    BY <1>1, <1>7, SMTT(30) DEF LinedUp
  <2>2. QED BY <1>3, <2>1
<1>8. ASSUME NEW i \in 1..Len(p), NEW j \in 1..Len(p), p[i] \in Clients, p[j] \in Clients,
             D[p[j]].phase = "awaitLoad", SavesUp(D[p[i]], D[p[j]].key)
      PROVE  i < j
  <2> DEFINE m == i + 1
             n == j + 1
  <2>1. /\ m \in 1..Len(q) /\ p[i] = q[m] /\ n \in 1..Len(q) /\ p[j] = q[n]
        /\ D[q[m]] = C[q[m]] /\ D[q[n]] = C[q[n]]
    BY <1>1, <1>4, <1>8
  <2> HIDE DEF m, n
  <2>2. /\ q[m] \in Clients /\ q[n] \in Clients /\ C[q[n]].phase = "awaitLoad"
         /\ SavesUp(C[q[m]], C[q[n]].key)
    BY <1>8, <2>1
  <2>3. m < n
    BY <2>1, <2>2 DEF LinedUp
  <2>4. i + 1 < j + 1
    BY <2>3 DEF m, n
  <2>5. QED BY <1>3, <2>4
<1>9. QED BY <1>5, <1>6, <1>7, <1>8 DEF LinedUp, p

\* Keys join the queue, or one of them takes the lock.
LEMMA LinedKeys ==
  ASSUME NEW q \in Seq(Tasks), NEW p \in Seq(Tasks), NEW h, NEW g, NEW C, NEW D, NEW s, LinedUp(q, h, C, s),
         \A u \in Clients : D[u] = C[u],
         Len(q) <= Len(p), \A i \in 1..Len(q) : p[i] = q[i], \A i \in 1..Len(p) : i \in 1..Len(q) \/ p[i] \notin Clients,
         g = h \/ g \notin Clients
  PROVE  LinedUp(p, g, D, s)
<1>1. Len(q) \in Nat /\ Len(p) \in Nat /\ 1..Len(q) \subseteq 1..Len(p)
  BY LenProperties
<1>2. \A i \in 1..Len(p) : p[i] \in Clients => i \in 1..Len(q) /\ p[i] = q[i] /\ D[p[i]] = C[q[i]]
  OBVIOUS
<1>3. \A u \in Clients : Awaits(D[u], s) /\ D[u].phase = "awaitWrite" => \E i \in 1..Len(p) : p[i] = u
  <2>1. ASSUME NEW u \in Clients, Awaits(D[u], s), D[u].phase = "awaitWrite" PROVE \E i \in 1..Len(p) : p[i] = u
    <3>1. PICK i \in 1..Len(q) : q[i] = u
      BY <2>1 DEF LinedUp
    <3>2. QED BY <1>1, <3>1
  <2>2. QED BY <2>1
<1>4. \A i \in 1..Len(p) : p[i] \in Clients => Awaits(D[p[i]], s)
  BY <1>2 DEF LinedUp
<1>5. ASSUME NEW i \in 1..Len(p), NEW j \in 1..Len(p), p[i] \in Clients, p[i] = p[j] PROVE i = j
  BY <1>2, <1>5 DEF LinedUp
<1>6. ASSUME NEW i \in 1..Len(p), NEW j \in 1..Len(p), p[i] \in Clients, p[j] \in Clients,
             D[p[j]].phase = "awaitLoad", SavesUp(D[p[i]], D[p[j]].key)
      PROVE  i < j
  BY <1>2, <1>6 DEF LinedUp
<1>7. g \in Clients => Holds(D[g], s)
  BY DEF LinedUp
<1>8. QED BY <1>3, <1>4, <1>5, <1>6, <1>7 DEF LinedUp

----------------------------------------------------------------------------
(* Where the pages of a term are *)

\* Key k in a cache c, with the calls C and the disk d: a cached key is neither
\* evicted nor loaded, an evicted one has one writer and no loader, and a clean
\* entry and a flush of an evicted key have the value of the disk.
KeyOnce(c, C, d, k) ==
  /\ k \in CachedKeys(c) => \A t \in Clients : ~SavesUp(C[t], k) /\ ~Loads(C[t], k)
  /\ \A t, u \in Clients : SavesUp(C[t], k) /\ SavesUp(C[u], k) => t = u
  /\ \A t, u \in Clients : C[t].phase = "loading" /\ C[t].key = k => ~SavesUp(C[u], k)
  /\ k \in CachedKeys(c) /\ ~ValueOf(c, k).dirty => d[k] = ValueOf(c, k).data
  /\ k \notin CachedKeys(c) /\ C[k].phase = "flushing" /\ (\A t \in Clients : ~SavesUp(C[t], k)) => d[k] = C[k].item

Once == \A k \in Keys : KeyOnce(cache, call, disk, k)

SaversIn(C, k) == {t \in Clients : C[t].phase \in {"awaitWrite", "writing"} /\ C[t].key = k}

PagesIn(c, C, d, k) ==
  IF k \in CachedKeys(c) THEN ValueOf(c, k).data
  ELSE IF SaversIn(C, k) # {} THEN C[CHOOSE t \in SaversIn(C, k) : TRUE].item
  ELSE IF d[k] = Absent THEN {} ELSE d[k]

LEMMA PagesAre == \A k : PagesOf(k) = PagesIn(cache, call, disk, k) /\ (PagesOf(k) = PagesIn(cache, call, disk, k))'
  BY DEF PagesOf, PagesIn, SaversIn, Saving, Cached

LEMMA PagesLie ==
  ASSUME NEW c, NEW C, NEW d, NEW k, KeyOnce(c, C, d, k)
  PROVE  /\ k \in CachedKeys(c) => PagesIn(c, C, d, k) = ValueOf(c, k).data
         /\ \A t \in Clients : SavesUp(C[t], k) => PagesIn(c, C, d, k) = C[t].item /\ k \notin CachedKeys(c)
         /\ k \notin CachedKeys(c) /\ (\A t \in Clients : ~SavesUp(C[t], k)) =>
              PagesIn(c, C, d, k) = IF d[k] = Absent THEN {} ELSE d[k]
<1>1. \A t : t \in SaversIn(C, k) <=> t \in Clients /\ SavesUp(C[t], k)
  BY DEF SaversIn, SavesUp
<1>2. ASSUME NEW t \in Clients, SavesUp(C[t], k)
      PROVE  PagesIn(c, C, d, k) = C[t].item /\ k \notin CachedKeys(c)
  <2>1. k \notin CachedKeys(c)
    BY <1>2 DEF KeyOnce
  <2>2. t \in SaversIn(C, k) /\ \A u \in SaversIn(C, k) : u = t
    BY <1>1, <1>2 DEF KeyOnce
  <2>3. (CHOOSE u \in SaversIn(C, k) : TRUE) = t
    <3>1. (CHOOSE u \in SaversIn(C, k) : TRUE) \in SaversIn(C, k)
      BY <2>2
    <3>2. QED BY <2>2, <3>1
  <2>4. SaversIn(C, k) # {}
    BY <2>2
  <2>5. QED BY <2>1, <2>3, <2>4 DEF PagesIn
<1>3. ASSUME k \notin CachedKeys(c), \A t \in Clients : ~SavesUp(C[t], k)
      PROVE  PagesIn(c, C, d, k) = IF d[k] = Absent THEN {} ELSE d[k]
  <2>1. SaversIn(C, k) = {}
    BY <1>1, <1>3
  <2>2. QED BY <1>3, <2>1 DEF PagesIn
<1>4. QED BY <1>2, <1>3 DEF PagesIn

\* Key k is where it was.
Rests(c, b, C, D, d, e, k) ==
  /\ k \in CachedKeys(b) <=> k \in CachedKeys(c)
  /\ k \in CachedKeys(c) => ValueOf(b, k) = ValueOf(c, k)
  /\ e[k] = d[k]
  /\ \A t \in Clients : SavesUp(D[t], k) <=> SavesUp(C[t], k)
  /\ \A t \in Clients : SavesUp(C[t], k) => D[t].item = C[t].item
  /\ \A t \in Clients : Loads(D[t], k) => k \notin CachedKeys(c)
  /\ \A t, u \in Clients : D[t].phase = "loading" /\ D[t].key = k => ~SavesUp(C[u], k)
  /\ k \notin CachedKeys(c) /\ D[k].phase = "flushing" => C[k].phase = "flushing" /\ D[k].item = C[k].item

LEMMA KeyRests ==
  ASSUME NEW c, NEW b, NEW C, NEW D, NEW d, NEW e, NEW k, KeyOnce(c, C, d, k), Rests(c, b, C, D, d, e, k)
  PROVE  KeyOnce(b, D, e, k) /\ PagesIn(b, D, e, k) = PagesIn(c, C, d, k)
<1>1. KeyOnce(b, D, e, k)
  <2>1. k \in CachedKeys(b) => \A t \in Clients : ~SavesUp(D[t], k) /\ ~Loads(D[t], k)
    BY DEF KeyOnce, Rests
  <2>2. \A t, u \in Clients : SavesUp(D[t], k) /\ SavesUp(D[u], k) => t = u
    BY DEF KeyOnce, Rests
  <2>3. \A t, u \in Clients : D[t].phase = "loading" /\ D[t].key = k => ~SavesUp(D[u], k)
    BY DEF Rests
  <2>4. k \in CachedKeys(b) /\ ~ValueOf(b, k).dirty => e[k] = ValueOf(b, k).data
    BY DEF KeyOnce, Rests
  <2>5. k \notin CachedKeys(b) /\ D[k].phase = "flushing" /\ (\A t \in Clients : ~SavesUp(D[t], k)) => e[k] = D[k].item
    BY DEF KeyOnce, Rests
  <2>6. QED BY <2>1, <2>2, <2>3, <2>4, <2>5 DEF KeyOnce
<1>2. CASE k \in CachedKeys(c)
  BY <1>1, <1>2, PagesLie DEF Rests
<1>3. ASSUME NEW t \in Clients, SavesUp(C[t], k) PROVE PagesIn(b, D, e, k) = PagesIn(c, C, d, k)
  <2>1. SavesUp(D[t], k) /\ D[t].item = C[t].item
    BY <1>3 DEF Rests
  <2>2. PagesIn(b, D, e, k) = D[t].item
    BY <1>1, <2>1, PagesLie
  <2>3. PagesIn(c, C, d, k) = C[t].item
    BY <1>3, PagesLie
  <2>4. QED BY <2>1, <2>2, <2>3
<1>4. ASSUME k \notin CachedKeys(c), \A t \in Clients : ~SavesUp(C[t], k)
      PROVE  PagesIn(b, D, e, k) = PagesIn(c, C, d, k)
  <2>1. k \notin CachedKeys(b) /\ \A t \in Clients : ~SavesUp(D[t], k)
    BY <1>4 DEF Rests
  <2>2. PagesIn(b, D, e, k) = IF e[k] = Absent THEN {} ELSE e[k]
    BY <1>1, <2>1, PagesLie
  <2>3. PagesIn(c, C, d, k) = IF d[k] = Absent THEN {} ELSE d[k]
    BY <1>4, PagesLie
  <2>4. e[k] = d[k]
    BY DEF Rests
  <2>5. QED BY <2>2, <2>3, <2>4
<1>5. QED BY <1>1, <1>2, <1>3, <1>4

\* Key k is cached with v, and no other client has to do with it.
LEMMA KeyCached ==
  ASSUME NEW b, NEW D, NEW e, NEW k, k \in CachedKeys(b),
         \A t \in Clients : ~SavesUp(D[t], k) /\ ~Loads(D[t], k),
         ValueOf(b, k).dirty \/ e[k] = ValueOf(b, k).data
  PROVE  KeyOnce(b, D, e, k) /\ PagesIn(b, D, e, k) = ValueOf(b, k).data
<1>1. \A t \in Clients : D[t].phase = "loading" /\ D[t].key = k => Loads(D[t], k)
  BY DEF Loads
<1>2. KeyOnce(b, D, e, k)
  BY <1>1 DEF KeyOnce
<1>3. QED BY <1>2, PagesLie

\* Key k has left the cache: client t writes it, or the disk has its value.
LEMMA KeyEvicted ==
  ASSUME NEW c, NEW b, NEW C, NEW D, NEW d, NEW k, KeyOnce(c, C, d, k), k \in CachedKeys(c), k \notin CachedKeys(b),
         ValueOf(c, k).data # Absent,
         NEW t \in Clients, \A u \in Clients \ {t} : D[u] = C[u], ~Loads(D[t], k),
         ValueOf(c, k).dirty => SavesUp(D[t], k) /\ D[t].item = ValueOf(c, k).data,
         ~ValueOf(c, k).dirty => ~SavesUp(D[t], k),
         D[k].phase = "flushing" => ValueOf(c, k).dirty \/ D[k].item = ValueOf(c, k).data
  PROVE  KeyOnce(b, D, d, k) /\ PagesIn(b, D, d, k) = PagesIn(c, C, d, k)
<1>1. \A u \in Clients : ~SavesUp(C[u], k) /\ ~Loads(C[u], k)
  BY DEF KeyOnce
<1>2. \A u \in Clients : (SavesUp(D[u], k) => u = t /\ ValueOf(c, k).dirty) /\ ~Loads(D[u], k)
  BY <1>1
<1>3. ~ValueOf(c, k).dirty => d[k] = ValueOf(c, k).data
  BY DEF KeyOnce
<1>4. \A u \in Clients : ~(D[u].phase = "loading" /\ D[u].key = k)
  BY <1>2 DEF Loads
<1>5. KeyOnce(b, D, d, k)
  BY <1>2, <1>3, <1>4 DEF KeyOnce
<1>6. PagesIn(c, C, d, k) = ValueOf(c, k).data
  BY PagesLie
<1>7. CASE ValueOf(c, k).dirty
  BY <1>5, <1>6, <1>7, PagesLie
<1>8. CASE ~ValueOf(c, k).dirty
  <2>1. PagesIn(b, D, d, k) = IF d[k] = Absent THEN {} ELSE d[k]
    BY <1>2, <1>5, <1>8, PagesLie
  <2>2. d[k] = ValueOf(c, k).data
    BY <1>3, <1>8
  <2>3. PagesIn(b, D, d, k) = ValueOf(c, k).data
    BY <2>1, <2>2
  <2>4. QED BY <1>5, <1>6, <2>3
<1>9. QED BY <1>5, <1>7, <1>8

\* The write of key k by client t ends.
LEMMA KeyWritten ==
  ASSUME NEW c, NEW C, NEW D, NEW d, NEW e, NEW k, KeyOnce(c, C, d, k), NEW t \in Clients, SavesUp(C[t], k),
         \A u \in Clients \ {t} : D[u] = C[u], ~SavesUp(D[t], k), ~Loads(D[t], k),
         e[k] = C[t].item, C[t].item # Absent, D[k].phase # "flushing"
  PROVE  KeyOnce(c, D, e, k) /\ PagesIn(c, D, e, k) = PagesIn(c, C, d, k)
<1>1. k \notin CachedKeys(c) /\ \A u \in Clients : ~SavesUp(D[u], k)
  BY DEF KeyOnce
<1>2. KeyOnce(c, D, e, k)
  BY <1>1 DEF KeyOnce
<1>3. QED BY <1>1, <1>2, PagesLie

\* The flush of key k ends.
LEMMA KeyFlushed ==
  ASSUME NEW c, NEW C, NEW D, NEW d, NEW e, NEW k, KeyOnce(c, C, d, k),
         \A u \in Clients : D[u] = C[u], C[k].phase = "flushing", D[k].phase # "flushing", e[k] = C[k].item,
         k \in CachedKeys(c) => ValueOf(c, k).dirty \/ C[k].item = ValueOf(c, k).data
  PROVE  KeyOnce(c, D, e, k) /\ PagesIn(c, D, e, k) = PagesIn(c, C, d, k)
<1>1. KeyOnce(c, D, e, k)
  BY DEF KeyOnce
<1>2. CASE k \in CachedKeys(c)
  BY <1>1, <1>2, PagesLie
<1>3. ASSUME NEW t \in Clients, SavesUp(C[t], k) PROVE PagesIn(c, D, e, k) = PagesIn(c, C, d, k)
  <2>1. SavesUp(D[t], k) /\ D[t].item = C[t].item
    BY <1>3
  <2>2. PagesIn(c, D, e, k) = D[t].item
    BY <1>1, <2>1, PagesLie
  <2>3. PagesIn(c, C, d, k) = C[t].item
    BY <1>3, PagesLie
  <2>4. QED BY <2>1, <2>2, <2>3
<1>4. ASSUME k \notin CachedKeys(c), \A t \in Clients : ~SavesUp(C[t], k)
      PROVE  PagesIn(c, D, e, k) = PagesIn(c, C, d, k)
  <2>1. \A t \in Clients : ~SavesUp(D[t], k)
    BY <1>4
  <2>2. PagesIn(c, D, e, k) = IF e[k] = Absent THEN {} ELSE e[k]
    BY <1>1, <1>4, <2>1, PagesLie
  <2>3. PagesIn(c, C, d, k) = IF d[k] = Absent THEN {} ELSE d[k]
    BY <1>4, PagesLie
  <2>4. e[k] = d[k]
    BY <1>4 DEF KeyOnce
  <2>5. QED BY <2>2, <2>3, <2>4
<1>5. QED BY <1>1, <1>2, <1>3, <1>4

\* Neither the cache nor a call has a value of key k that is not on disk.
CleanKey(c, C, k) ==
  /\ k \in CachedKeys(c) => ~ValueOf(c, k).dirty
  /\ \A t \in Clients : ~SavesUp(C[t], k)

\* A step leaves the pages of key k as they are.
Steady(k) ==
  /\ KeyOnce(cache', call', disk', k)
  /\ PagesIn(cache', call', disk', k) = PagesIn(cache, call, disk, k)
  /\ CleanKey(cache, call, k) => CleanKey(cache', call', k)

LEMMA RestsSteady ==
  ASSUME Once, NEW k \in Keys, Rests(cache, cache', call, call', disk, disk', k)
  PROVE  Steady(k)
<1>1. KeyOnce(cache, call, disk, k)
  BY DEF Once
<1>2. KeyOnce(cache', call', disk', k) /\ PagesIn(cache', call', disk', k) = PagesIn(cache, call, disk, k)
  BY <1>1, KeyRests
<1>3. CleanKey(cache, call, k) => CleanKey(cache', call', k)
  BY DEF CleanKey, Rests
<1>4. QED BY <1>2, <1>3 DEF Steady

\* Client t steps and what it is to write stays.
LEMMA ClientSteady ==
  ASSUME Once, NEW t \in Clients, Others(t), NEW k \in Keys,
         k \in CachedKeys(cache') <=> k \in Cached, k \in Cached => ValueOf(cache', k) = ValueOf(cache, k),
         disk'[k] = disk[k],
         SavesUp(call'[t], k) <=> SavesUp(call[t], k),
         SavesUp(call[t], k) => call'[t].item = call[t].item,
         Loads(call'[t], k) => k \notin Cached,
         call'[t].phase = "loading" /\ call'[t].key = k => \A u \in Clients : ~SavesUp(call[u], k)
  PROVE  Steady(k)
<1>1. KeyOnce(cache, call, disk, k) /\ k \in Tasks /\ k # t
  BY Constants DEF Once
<1>2. call'[k] = call[k] /\ \A u \in Clients \ {t} : call'[u] = call[u]
  BY <1>1 DEF Others
<1>3. \A u \in Clients : Loads(call'[u], k) => k \notin Cached
  BY <1>1, <1>2 DEF KeyOnce, Cached
<1>4. \A u, w \in Clients : call'[u].phase = "loading" /\ call'[u].key = k => ~SavesUp(call[w], k)
  BY <1>1, <1>2 DEF KeyOnce
<1>5. \A u \in Clients : (SavesUp(call'[u], k) <=> SavesUp(call[u], k)) /\ (SavesUp(call[u], k) => call'[u].item = call[u].item)
  BY <1>2
<1>6. Rests(cache, cache', call, call', disk, disk', k)
  BY <1>2, <1>3, <1>4, <1>5 DEF Rests, Cached
<1>7. QED BY <1>6, RestsSteady

\* No client steps.
LEMMA FlushSteady ==
  ASSUME Once, \A t \in Clients : call'[t] = call[t], NEW k \in Keys,
         k \in CachedKeys(cache') <=> k \in Cached, k \in Cached => ValueOf(cache', k) = ValueOf(cache, k),
         disk'[k] = disk[k],
         k \notin Cached /\ call'[k].phase = "flushing" => call[k].phase = "flushing" /\ call'[k].item = call[k].item
  PROVE  Steady(k)
<1>1. KeyOnce(cache, call, disk, k)
  BY DEF Once
<1>2. \A u \in Clients : Loads(call'[u], k) => k \notin Cached
  BY <1>1 DEF KeyOnce, Cached
<1>3. \A u, w \in Clients : call'[u].phase = "loading" /\ call'[u].key = k => ~SavesUp(call[w], k)
  BY <1>1 DEF KeyOnce
<1>4. Rests(cache, cache', call, call', disk, disk', k)
  BY <1>2, <1>3 DEF Rests, Cached
<1>5. QED BY <1>4, RestsSteady

\* A value enters the cache, read from the disk or to be written later.
LEMMA InsertSteady ==
  ASSUME StoreInv, Once, NEW t \in Clients, NEW k \in Keys, NEW v, NEW dirty \in BOOLEAN, NEW L,
         Inserted(t, k, v, dirty, L, call'[t]), Others(t), disk' = disk,
         \A j \in Keys : ~SavesUp(call[t], j),
         \A u \in Clients \ {t} : ~SavesUp(call[u], k) /\ ~Loads(call[u], k),
         dirty \/ disk[k] = v
  PROVE  /\ \A j \in Keys \ {k} : Steady(j)
         /\ KeyOnce(cache', call', disk', k) /\ PagesIn(cache', call', disk', k) = v
         /\ dirty \/ CleanKey(cache', call', k)
<1> DEFINE r == call'[t]
<1>1. /\ k \in CachedKeys(cache') /\ ValueOf(cache', k) = [data |-> v, dirty |-> dirty]
      /\ \A j \in CachedKeys(cache') \ {k} : j \in Cached /\ ValueOf(cache', j) = ValueOf(cache, j)
      /\ \A j \in Cached \ CachedKeys(cache') : ValueOf(cache, j).dirty => SavesUp(r, j) /\ r.item = ValueOf(cache, j).data
      /\ \A j \in Keys : SavesUp(r, j) => j \in Cached /\ j \notin CachedKeys(cache') /\ ValueOf(cache, j).dirty
      /\ \A j \in Keys : ~Loads(r, j)
  BY ReturnedFits DEF Inserted, SavesUp, Loads
<1>2. \A u \in Clients \ {t} : call'[u] = call[u]
  BY DEF Others
<1>3. ASSUME NEW j \in Keys \ {k} PROVE Steady(j)
  <2>1. KeyOnce(cache, call, disk, j) /\ j # t /\ j \in Tasks
    BY Constants DEF Once
  <2>2. CASE j \in CachedKeys(cache') <=> j \in Cached
    <3>1. j \in Cached => ValueOf(cache', j) = ValueOf(cache, j)
      BY <1>1, <2>2
    <3>2. ~SavesUp(r, j) /\ ~SavesUp(call[t], j)
      BY <1>1, <2>2
    <3>3. ~Loads(r, j) /\ ~(r.phase = "loading" /\ r.key = j)
      BY <1>1 DEF Loads
    <3>4. QED BY <2>2, <3>1, <3>2, <3>3, ClientSteady
  <2>3. CASE j \in Cached /\ j \notin CachedKeys(cache')
    <3>1. ValueOf(cache, j).data \in Values
      BY <2>3, Lookup DEF StoreInv, Typed, Cached, Items
    <3>2. ValueOf(cache, j).data # Absent
      BY <3>1, Constants
    <3>3. call'[j] = call[j]
      BY <2>1 DEF Others
    <3>4. call'[j].phase = "flushing" => ValueOf(cache, j).dirty \/ call'[j].item = ValueOf(cache, j).data
      <4>1. SUFFICES ASSUME call[j].phase = "flushing", ~ValueOf(cache, j).dirty PROVE call[j].item = ValueOf(cache, j).data
        BY <3>3
      <4>2. IsSaved(ValueOf(cache, j), j, call, disk, unsaved)
        BY <2>3 DEF StoreInv, CleanSaved
      <4>3. Fits(j, call[j], made)
        BY <2>1 DEF StoreInv, Typed
      <4>4. Saves(call[j], j)
        BY <4>1, <4>3 DEF Fits, Saves
      <4>5. QED BY <2>1, <4>1, <4>2, <4>4 DEF IsSaved
    <3>5. /\ ValueOf(cache, j).dirty => SavesUp(r, j) /\ r.item = ValueOf(cache, j).data
          /\ ~ValueOf(cache, j).dirty => ~SavesUp(r, j)
      BY <1>1, <2>3
    <3>6. ~Loads(r, j)
      BY <1>1
    <3>7. KeyOnce(cache', call', disk, j) /\ PagesIn(cache', call', disk, j) = PagesIn(cache, call, disk, j)
      <4>1. j \in CachedKeys(cache) /\ j \notin CachedKeys(cache')
        BY <2>3 DEF Cached
      <4>2. QED BY <1>2, <2>1, <3>2, <3>4, <3>5, <3>6, <4>1, KeyEvicted
    <3>8. CleanKey(cache, call, j) => CleanKey(cache', call', j)
      BY <1>2, <2>3, <3>5 DEF CleanKey, Cached
    <3>9. QED BY <3>7, <3>8 DEF Steady
  <2>4. QED BY <1>1, <2>2, <2>3
<1>4. \A u \in Clients : ~SavesUp(call'[u], k) /\ ~Loads(call'[u], k)
  BY <1>1, <1>2
<1>5. KeyOnce(cache', call', disk', k) /\ PagesIn(cache', call', disk', k) = v
  <2>1. ValueOf(cache', k).dirty = dirty /\ ValueOf(cache', k).data = v
    BY <1>1
  <2>2. ValueOf(cache', k).dirty \/ disk'[k] = ValueOf(cache', k).data
    BY <2>1
  <2>3. KeyOnce(cache', call', disk', k) /\ PagesIn(cache', call', disk', k) = ValueOf(cache', k).data
    BY <1>1, <1>4, <2>2, KeyCached
  <2>4. QED BY <2>1, <2>3
<1>6. dirty \/ CleanKey(cache', call', k)
  BY <1>1, <1>4 DEF CleanKey
<1>7. QED BY <1>3, <1>5, <1>6

----------------------------------------------------------------------------
(* The lock tables *)

Lining(L, C) == \A s \in SyncKeys : LinedUp(L[s].queue, L[s].holder, C, s)

Resting(r) == r.phase \notin Waiting \cup Running

\* The tables agree but on lock s.
Elsewhere(L, M, s) == \A q \in SyncKeys \ {s} : M[q] = L[q]

LEMMA LockFields ==
  ASSUME NEW l \in LocksOver(Tasks)
  PROVE  /\ l.queue \in Seq(Tasks) /\ Release(l).queue = l.queue /\ Release(l).holder = Nobody
         /\ Nobody \notin Clients
         /\ \A t : IsNext(l, t) => /\ l.queue # << >> /\ Head(l.queue) = t /\ l.holder = Nobody
                                   /\ Grant(l).queue = Tail(l.queue) /\ Grant(l).holder = t
                                   /\ Release(Grant(l)).queue = Tail(l.queue) /\ Release(Grant(l)).holder = Nobody
  BY Constants DEF LocksOver, Release, Grant, IsNext

\* A client that has no lock and waits for none goes on to neither.
LEMMA RestLining ==
  ASSUME NEW L, NEW C, NEW D, Lining(L, C), NEW t \in Clients, \A u \in Clients \ {t} : D[u] = C[u],
         Resting(C[t]), Resting(D[t])
  PROVE  Lining(L, D)
<1>1. ASSUME NEW s \in SyncKeys PROVE LinedUp(L[s].queue, L[s].holder, D, s)
  <2>1. ~Awaits(C[t], s) /\ ~Awaits(D[t], s) /\ ~Holds(C[t], s)
    BY DEF Resting, Awaits, Holds
  <2>2. LinedUp(L[s].queue, L[s].holder, C, s)
    BY DEF Lining
  <2>3. QED BY <2>1, <2>2, LinedApart
<1>2. QED BY <1>1 DEF Lining

LEMMA AskLining ==
  ASSUME NEW L \in LockTables, NEW M, NEW C, NEW D, Lining(L, C), NEW t \in Clients,
         \A u \in Clients \ {t} : D[u] = C[u], NEW s \in SyncKeys, M[s] = Ask(L[s], t), Elsewhere(L, M, s),
         Resting(C[t]), D[t].key \in Keys, SyncOf[D[t].key] = s,
         Ask(L[s], t).holder = t => D[t].phase \in Running,
         Ask(L[s], t).holder # t => D[t].phase \in Waiting,
         \A u \in Clients \ {t}, k \in Keys : SavesUp(D[t], k) => ~Loads(C[u], k)
  PROVE  Lining(M, D)
<1>1. ASSUME NEW q \in SyncKeys, q # s PROVE LinedUp(M[q].queue, M[q].holder, D, q)
  <2>1. ~Awaits(C[t], q) /\ ~Awaits(D[t], q) /\ ~Holds(C[t], q)
    BY <1>1 DEF Resting, Awaits, Holds
  <2>2. LinedUp(L[q].queue, L[q].holder, C, q) /\ M[q] = L[q]
    BY <1>1 DEF Lining, Elsewhere
  <2>3. LinedUp(L[q].queue, L[q].holder, D, q)
    BY <2>1, <2>2, LinedApart
  <2>4. QED BY <2>2, <2>3
<1>2. LinedUp(M[s].queue, M[s].holder, D, s)
  <2>1. ~Awaits(C[t], s) /\ ~Holds(C[t], s)
    BY DEF Resting, Awaits, Holds
  <2>2. LinedUp(L[s].queue, L[s].holder, C, s) /\ L[s] \in LocksOver(Tasks)
    BY DEF Lining, LockTables
  <2>3. IF Ask(L[s], t).holder = t THEN Holds(D[t], s) ELSE Awaits(D[t], s)
    BY DEF Holds, Awaits
  <2>4. LinedUp(Ask(L[s], t).queue, Ask(L[s], t).holder, D, s)
    BY <2>1, <2>2, <2>3, LinedAsk
  <2>5. QED BY <2>4
<1>3. QED BY <1>1, <1>2 DEF Lining

LEMMA ReleaseLining ==
  ASSUME NEW L \in LockTables, NEW M, NEW C, NEW D, Lining(L, C), NEW t \in Clients,
         \A u \in Clients \ {t} : D[u] = C[u], NEW s \in SyncKeys, M[s] = Release(L[s]), Elsewhere(L, M, s),
         Holds(C[t], s), Resting(D[t])
  PROVE  Lining(M, D)
<1>1. \A q \in SyncKeys : ~Awaits(C[t], q) /\ ~Awaits(D[t], q) /\ (q # s => ~Holds(C[t], q))
  BY DEF Resting, Awaits, Holds, Waiting, Running
<1>2. ASSUME NEW q \in SyncKeys, q # s PROVE LinedUp(M[q].queue, M[q].holder, D, q)
  <2>1. LinedUp(L[q].queue, L[q].holder, C, q) /\ M[q] = L[q]
    BY <1>2 DEF Lining, Elsewhere
  <2>2. LinedUp(L[q].queue, L[q].holder, D, q)
    BY <1>1, <1>2, <2>1, LinedApart
  <2>3. QED BY <2>1, <2>2
<1>3. LinedUp(M[s].queue, M[s].holder, D, s)
  <2>1. LinedUp(L[s].queue, L[s].holder, C, s) /\ L[s] \in LocksOver(Tasks)
    BY DEF Lining, LockTables
  <2>2. M[s].queue = L[s].queue /\ M[s].holder \notin Clients
    BY <2>1, LockFields
  <2>3. LinedUp(L[s].queue, M[s].holder, D, s)
    BY <1>1, <2>1, <2>2, LinedApart
  <2>4. QED BY <2>2, <2>3
<1>4. QED BY <1>2, <1>3 DEF Lining

LEMMA GrantLining ==
  ASSUME NEW L \in LockTables, NEW M, NEW C, NEW D, Lining(L, C), NEW t \in Clients,
         \A u \in Clients \ {t} : D[u] = C[u], NEW s \in SyncKeys, IsNext(L[s], t), M[s] = Grant(L[s]), Elsewhere(L, M, s),
         Awaits(C[t], s), Holds(D[t], s)
  PROVE  Lining(M, D)
<1>1. /\ \A q \in SyncKeys : ~Holds(C[t], q) /\ ~Awaits(D[t], q) /\ (q # s => ~Awaits(C[t], q))
      /\ t \in Tasks
  BY Constants DEF Awaits, Holds, Waiting, Running
<1>2. ASSUME NEW q \in SyncKeys, q # s PROVE LinedUp(M[q].queue, M[q].holder, D, q)
  <2>1. LinedUp(L[q].queue, L[q].holder, C, q) /\ M[q] = L[q]
    BY <1>2 DEF Lining, Elsewhere
  <2>2. LinedUp(L[q].queue, L[q].holder, D, q)
    BY <1>1, <1>2, <2>1, LinedApart
  <2>3. QED BY <2>1, <2>2
<1>3. LinedUp(M[s].queue, M[s].holder, D, s)
  <2>1. LinedUp(L[s].queue, L[s].holder, C, s) /\ L[s] \in LocksOver(Tasks)
    BY DEF Lining, LockTables
  <2>2. /\ L[s].queue \in Seq(Tasks) /\ L[s].queue # << >> /\ Head(L[s].queue) = t
        /\ M[s].queue = Tail(L[s].queue) /\ M[s].holder = t
    BY <2>1, LockFields
  <2>3. ~Awaits(D[t], s)
    BY <1>1
  <2>4. LinedUp(Tail(L[s].queue), t, D, s)
    BY <1>1, <2>1, <2>2, <2>3, LinedTail
  <2>5. QED BY <2>2, <2>4
<1>4. QED BY <1>2, <1>3 DEF Lining

\* A key gives a lock back, or takes it from the head of the queue.
LEMMA KeyLining ==
  ASSUME NEW L \in LockTables, NEW M, NEW C, NEW D, Lining(L, C), NEW k \in Keys,
         \A u \in Clients : D[u] = C[u], NEW s \in SyncKeys, Elsewhere(L, M, s),
         \/ M[s] = Release(L[s])
         \/ IsNext(L[s], k) /\ M[s] = Grant(L[s])
         \/ IsNext(L[s], k) /\ M[s] = Release(Grant(L[s]))
  PROVE  Lining(M, D)
<1>1. ASSUME NEW q \in SyncKeys, NEW p \in Seq(Tasks), NEW h, NEW g, LinedUp(p, h, C, q), g = h \/ g \notin Clients
      PROVE  LinedUp(p, g, D, q)
  <2>1. Len(p) \in Nat /\ Len(p) <= Len(p)
    BY LenProperties
  <2>2. QED BY <1>1, <2>1, LinedKeys
<1>2. \A q \in SyncKeys : LinedUp(L[q].queue, L[q].holder, C, q) /\ L[q] \in LocksOver(Tasks) /\ L[q].queue \in Seq(Tasks)
  BY LockFields DEF Lining, LockTables
<1>3. ASSUME NEW q \in SyncKeys, q # s PROVE LinedUp(M[q].queue, M[q].holder, D, q)
  <2>1. M[q] = L[q]
    BY <1>3 DEF Elsewhere
  <2>2. LinedUp(L[q].queue, L[q].holder, D, q)
    BY <1>1, <1>2
  <2>3. QED BY <2>1, <2>2
<1>4. CASE M[s] = Release(L[s])
  <2>1. M[s].queue = L[s].queue /\ M[s].holder \notin Clients
    BY <1>2, <1>4, LockFields
  <2>2. LinedUp(L[s].queue, M[s].holder, D, s)
    BY <1>1, <1>2, <2>1
  <2>3. LinedUp(M[s].queue, M[s].holder, D, s)
    BY <2>1, <2>2
  <2>4. QED BY <1>3, <2>3 DEF Lining
<1>5. ASSUME IsNext(L[s], k), M[s].queue = Tail(L[s].queue), M[s].holder \notin Clients PROVE Lining(M, D)
  <2>1. L[s].queue # << >> /\ Head(L[s].queue) = k /\ k \in Tasks /\ k \notin Clients
    BY <1>2, <1>5, LockFields, Constants
  <2>2. LinedUp(Tail(L[s].queue), M[s].holder, D, s)
    BY <1>2, <1>5, <2>1, LinedTail
  <2>3. LinedUp(M[s].queue, M[s].holder, D, s)
    BY <1>5, <2>2
  <2>4. QED BY <1>3, <2>3 DEF Lining
<1>6. IsNext(L[s], k) => /\ Grant(L[s]).queue = Tail(L[s].queue) /\ Grant(L[s]).holder = k
                         /\ Release(Grant(L[s])).queue = Tail(L[s].queue) /\ Release(Grant(L[s])).holder = Nobody
  BY <1>2, LockFields
<1>7. k \notin Clients /\ Nobody \notin Clients
  BY Constants
<1>8. QED BY <1>4, <1>5, <1>6, <1>7

----------------------------------------------------------------------------
(* The steps of the cached store, in order *)

Orderly == StoreInv /\ Jobbed /\ Writable /\ Lined /\ Once

LEMMA OrderlyMeans ==
  ASSUME Orderly
  PROVE  /\ StoreInv /\ Jobbed /\ Writable /\ Lined /\ Once /\ Typed /\ Holding /\ Lining(locks, call) /\ locks \in LockTables
         /\ cache \in Caches /\ \A t \in Clients : t \in Tasks /\ t # Nobody /\ t \notin Keys
  BY Constants DEF Orderly, StoreInv, Typed, Lined, Lining

\* The keys keep their values and no client writes one.
LEMMA QuietSteady ==
  ASSUME Once, NEW t \in Clients, Others(t), Alike(cache, cache'), disk' = disk,
         \A j \in Keys : ~SavesUp(call[t], j) /\ ~SavesUp(call'[t], j),
         \A j \in Keys : Loads(call'[t], j) => j \notin Cached,
         \A j \in Keys : call'[t].phase = "loading" /\ call'[t].key = j => \A u \in Clients : ~SavesUp(call[u], j)
  PROVE  \A j \in Keys : Steady(j)
<1>1. ASSUME NEW j \in Keys PROVE Steady(j)
  <2>1. (j \in CachedKeys(cache') <=> j \in Cached) /\ (j \in Cached => ValueOf(cache', j) = ValueOf(cache, j))
    BY DEF Alike, Cached
  <2>2. QED BY <2>1, ClientSteady
<1>2. QED BY <1>1

\* The lock of a file that a client takes at once protects no write in progress.
LEMMA TakenAtOnce ==
  ASSUME Orderly, NEW t \in Clients, Resting(call[t]), NEW s \in SyncKeys, Ask(locks[s], t).holder = t
  PROVE  \A u \in Clients, k \in Keys : SyncOf[k] = s => ~SavesUp(call[u], k)
<1> DEFINE l == locks[s]
<1>1. l \in LocksOver(Tasks) /\ LinedUp(l.queue, l.holder, call, s) /\ t # Nobody
  BY OrderlyMeans DEF LockTables, Lined
<1>2. l.holder # t
  BY <1>1 DEF LinedUp, Holds, Resting
<1>3. l.holder = Nobody /\ l.queue = << >>
  <2>1. l = [holder |-> l.holder, queue |-> l.queue]
    BY <1>1 DEF LocksOver
  <2> HIDE DEF l
  <2>2. ~(l.holder = Nobody /\ l.queue = << >>) => Ask(l, t).holder = l.holder
    BY <2>1 DEF Ask
  <2>3. QED BY <1>2, <2>2 DEF l
<1>4. ASSUME NEW u \in Clients, NEW k \in Keys, SyncOf[k] = s, SavesUp(call[u], k) PROVE FALSE
  <2>1. CASE call[u].phase = "writing"
    <3>1. l.holder = u
      BY <1>4, <2>1, OrderlyMeans DEF Holding, Running, Lock, SavesUp
    <3>2. QED BY <1>3, <3>1, OrderlyMeans
  <2>2. CASE call[u].phase = "awaitWrite"
    <3>1. Awaits(call[u], s)
      BY <1>4, <2>2 DEF SavesUp, Awaits, Waiting
    <3>2. PICK i \in 1..Len(l.queue) : l.queue[i] = u
      BY <1>1, <2>2, <3>1 DEF LinedUp
    <3>3. Len(l.queue) = 0
      BY <1>3, EmptySeq
    <3>4. QED BY <3>2, <3>3
  <2>3. QED BY <1>4, <2>1, <2>2 DEF SavesUp
<1>5. QED BY <1>4

\* A load whose turn it is finds no write of its key in progress.
LEMMA TakenInTurn ==
  ASSUME Orderly, NEW t \in Clients, Obtain(t, "awaitLoad")
  PROVE  \A u \in Clients : ~SavesUp(call[u], call[t].key)
<1> DEFINE s == Lock(t)
           l == locks[s]
<1>1. s \in SyncKeys /\ call[t].phase = "awaitLoad" /\ IsNext(l, t) /\ s = SyncOf[call[t].key]
  BY OrderlyMeans, BusyLock DEF Obtain, Waiting, Lock
<1>2. l \in LocksOver(Tasks) /\ LinedUp(l.queue, l.holder, call, s)
  BY <1>1, OrderlyMeans DEF LockTables, Lined
<1>3. l.queue \in Seq(Tasks) /\ l.queue # << >> /\ Head(l.queue) = t /\ l.holder = Nobody
  BY <1>1, <1>2, LockFields
<1>4. 1 \in 1..Len(l.queue) /\ l.queue[1] = t /\ Len(l.queue) \in Nat
  BY <1>3, Queues
<1>5. ASSUME NEW u \in Clients, SavesUp(call[u], call[t].key) PROVE FALSE
  <2>1. CASE call[u].phase = "writing"
    <3>1. l.holder = u
      BY <1>1, <1>5, <2>1, OrderlyMeans DEF Holding, Running, Lock, SavesUp
    <3>2. QED BY <1>3, <3>1, OrderlyMeans
  <2>2. CASE call[u].phase = "awaitWrite"
    <3>1. Awaits(call[u], s)
      BY <1>1, <1>5, <2>2 DEF SavesUp, Awaits, Waiting
    <3>2. PICK i \in 1..Len(l.queue) : l.queue[i] = u
      BY <1>2, <2>2, <3>1 DEF LinedUp
    <3> DEFINE q == l.queue
    <3>3. /\ q[i] \in Clients /\ q[1] \in Clients /\ call[q[1]].phase = "awaitLoad"
          /\ SavesUp(call[q[i]], call[q[1]].key) /\ LinedUp(q, l.holder, call, s)
      BY <1>1, <1>2, <1>4, <1>5, <3>2
    <3> HIDE DEF q, l
    <3>4. i < 1
      BY <1>4, <3>2, <3>3 DEF LinedUp, q
    <3>5. QED BY <1>4, <3>4
  <2>3. QED BY <1>5, <2>1, <2>2 DEF SavesUp
<1>6. QED BY <1>5

\* Client t finds key k in the cache, or asks for its lock to load it.
LEMMA TryGetOrders ==
  ASSUME Orderly, NEW t \in Clients, NEW k \in Keys, TryGet(t, k)
  PROVE  Lined' /\ (\A j \in Keys : Steady(j)) /\ Others(t)
<1>1. call[t].phase \in {"idle", "returned"} /\ Resting(call[t]) /\ disk' = disk
  BY DEF TryGet, Idle, Resting, Waiting, Running
<1>2. \A j \in Keys : ~SavesUp(call[t], j)
  BY <1>1 DEF SavesUp
<1>3. CASE k \in Cached
  <2>1. cache' = Touch(cache, k, FifoCache) /\ Return(t, ValueOf(cache, k).data) /\ locks' = locks
    BY <1>3 DEF TryGet
  <2>2. Alike(cache, cache')
    BY <1>3, <2>1, OrderlyMeans, TouchKeeps DEF Cached
  <2>3. call'[t] = Returned /\ Others(t)
    BY <2>1, OrderlyMeans DEF Return, Typed, Others
  <2>4. Resting(call'[t]) /\ \A j \in Keys : ~SavesUp(call'[t], j) /\ ~Loads(call'[t], j)
    BY <2>3, ReturnedFits DEF Resting, Waiting, Running, SavesUp, Loads
  <2>5. \A j \in Keys : Steady(j)
    BY <1>1, <1>2, <2>2, <2>3, <2>4, OrderlyMeans, QuietSteady DEF Loads
  <2>6. \A u \in Clients \ {t} : call'[u] = call[u]
    BY <2>3 DEF Others
  <2>7. Lining(locks, call')
    BY <1>1, <2>4, <2>6, OrderlyMeans, RestLining
  <2>8. QED BY <2>1, <2>3, <2>5, <2>7 DEF Lining, Lined
<1>4. CASE k \notin Cached
  <2> DEFINE s == SyncOf[k]
             r == [phase |-> AskPhase(locks, s, t, "awaitLoad", "loading"), key |-> k, item |-> Absent]
  <2>1. cache' = cache /\ reply' = reply /\ locks' = [locks EXCEPT ![s] = Ask(@, t)] /\ call' = [call EXCEPT ![t] = r]
    BY <1>4 DEF TryGet
  <2>2. s \in SyncKeys
    BY Constants
  <2>3. /\ r.phase \in {"awaitLoad", "loading"} /\ r.key = k
        /\ Ask(locks[s], t).holder = t => r.phase = "loading"
        /\ Ask(locks[s], t).holder # t => r.phase = "awaitLoad"
    BY DEF AskPhase
  <2> HIDE DEF r
  <2>4. call'[t] = r /\ Others(t)
    BY <2>1, OrderlyMeans DEF Typed, Others
  <2>5. \A j \in Keys : ~SavesUp(call'[t], j) /\ (Loads(call'[t], j) => j = k)
    BY <2>3, <2>4 DEF SavesUp, Loads
  <2>6. r.phase = "loading" => \A u \in Clients : ~SavesUp(call[u], k)
    BY <1>1, <2>2, <2>3, TakenAtOnce
  <2>7. Alike(cache, cache')
    BY <2>1 DEF Alike
  <2>8. \A j \in Keys : Steady(j)
    BY <1>1, <1>2, <1>4, <2>3, <2>4, <2>5, <2>6, <2>7, OrderlyMeans, QuietSteady
  <2>9. locks'[s] = Ask(locks[s], t) /\ Elsewhere(locks, locks', s)
    BY <2>1, <2>2, OrderlyMeans DEF LockTables, Elsewhere
  <2>10. \A u \in Clients \ {t} : call'[u] = call[u]
    BY <2>4 DEF Others
  <2>11. /\ call'[t].key \in Keys /\ SyncOf[call'[t].key] = s
         /\ Ask(locks[s], t).holder = t => call'[t].phase \in Running
         /\ Ask(locks[s], t).holder # t => call'[t].phase \in Waiting
    BY <2>3, <2>4 DEF Running, Waiting
  <2>12. Lining(locks', call')
    BY <1>1, <2>2, <2>5, <2>9, <2>10, <2>11, OrderlyMeans, AskLining
  <2>13. QED BY <2>4, <2>8, <2>12 DEF Lining, Lined
<1>5. QED BY <1>3, <1>4

\* Client t obtains the lock it waited for.
LEMMA GrantOrders ==
  ASSUME Orderly, NEW t \in Clients, Others(t), NEW waiting \in Waiting, Obtain(t, waiting),
         locks' = [locks EXCEPT ![Lock(t)] = Grant(@)], call'[t].phase \in Running, call'[t].key = call[t].key
  PROVE  Lined'
<1> DEFINE s == Lock(t)
<1>1. s \in SyncKeys /\ call[t].phase = waiting /\ IsNext(locks[s], t)
  BY OrderlyMeans, BusyLock DEF Obtain, Lock
<1>2. Awaits(call[t], s) /\ Holds(call'[t], s)
  BY <1>1 DEF Awaits, Holds, Lock
<1>3. locks'[s] = Grant(locks[s]) /\ Elsewhere(locks, locks', s)
  BY <1>1, OrderlyMeans DEF LockTables, Elsewhere
<1>4. \A u \in Clients \ {t} : call'[u] = call[u]
  BY DEF Others
<1> HIDE DEF s
<1>5. Lining(locks', call')
  BY <1>1, <1>2, <1>3, <1>4, OrderlyMeans, GrantLining
<1>6. QED BY <1>5 DEF Lining, Lined

LEMMA BeginLoadOrders ==
  ASSUME Orderly, NEW t \in Clients, BeginLoad(t)
  PROVE  Lined' /\ (\A j \in Keys : Steady(j)) /\ Others(t)
<1>1. call[t].phase = "awaitLoad" /\ call[t] \in Calls /\ call[t].key \in Keys /\ Obtain(t, "awaitLoad") /\ "awaitLoad" \in Waiting
  BY OrderlyMeans, BusyLock DEF BeginLoad, Obtain, Typed, Waiting
<1>2. call[t] = [phase |-> "awaitLoad", key |-> call[t].key, item |-> call[t].item]
  BY <1>1 DEF Calls
<1> DEFINE r == [call[t] EXCEPT !.phase = "loading"]
<1>3. r.phase = "loading" /\ r.key = call[t].key
  BY <1>2
<1>4. call' = [call EXCEPT ![t] = r] /\ UNCHANGED <<reply, cache, disk>> /\ locks' = [locks EXCEPT ![Lock(t)] = Grant(@)]
  BY DEF BeginLoad
<1> HIDE DEF r
<1>5. call'[t] = r /\ Others(t)
  BY <1>4, OrderlyMeans DEF Typed, Others
<1>6. Lined'
  BY <1>1, <1>3, <1>4, <1>5, GrantOrders DEF Running
<1>7. \A j \in Keys : ~SavesUp(call[t], j) /\ ~SavesUp(call'[t], j) /\ (Loads(call'[t], j) => Loads(call[t], j))
  BY <1>1, <1>3, <1>5 DEF SavesUp, Loads
<1>8. \A j \in Keys : Loads(call[t], j) => j \notin Cached
  BY OrderlyMeans DEF Once, KeyOnce, Cached
<1>9. \A u \in Clients : ~SavesUp(call[u], call'[t].key)
  BY <1>1, <1>3, <1>5, TakenInTurn
<1>10. Alike(cache, cache') /\ disk' = disk
  BY <1>4 DEF Alike
<1>11. \A j \in Keys : Steady(j)
  BY <1>5, <1>7, <1>8, <1>9, <1>10, OrderlyMeans, QuietSteady
<1>12. QED BY <1>5, <1>6, <1>11

\* The evicted key is not cached again when its write begins.
LEMMA BeginWriteOrders ==
  ASSUME Orderly, NEW t \in Clients, BeginWrite(t)
  PROVE  Lined' /\ (\A j \in Keys : Steady(j)) /\ Others(t)
<1> DEFINE k == call[t].key
           dirty == k \in Cached /\ ValueOf(cache, k).dirty
           r == [phase |-> "writing", key |-> k, item |-> IF dirty THEN ValueOf(cache, k).data ELSE call[t].item]
<1>1. call[t].phase = "awaitWrite" /\ k \in Keys /\ Obtain(t, "awaitWrite") /\ "awaitWrite" \in Waiting
  BY OrderlyMeans, BusyLock DEF BeginWrite, Obtain, Waiting
<1>2. SavesUp(call[t], k)
  BY <1>1 DEF SavesUp
<1>3. k \notin Cached
  BY <1>1, <1>2, OrderlyMeans DEF Once, KeyOnce, Cached
<1>4. call' = [call EXCEPT ![t] = r] /\ UNCHANGED <<reply, disk>> /\ locks' = [locks EXCEPT ![Lock(t)] = Grant(@)]
  BY DEF BeginWrite
<1>5. cache' = cache
  BY <1>3 DEF BeginWrite
<1>6. r.phase = "writing" /\ r.key = k /\ r.item = call[t].item
  BY <1>3
<1> HIDE DEF r
<1>7. call'[t] = r /\ Others(t)
  BY <1>4, OrderlyMeans DEF Typed, Others
<1>8. Lined'
  BY <1>1, <1>4, <1>6, <1>7, GrantOrders DEF Running
<1>9. ASSUME NEW j \in Keys PROVE Steady(j)
  <2>1. /\ SavesUp(call'[t], j) <=> SavesUp(call[t], j)
        /\ SavesUp(call[t], j) => call'[t].item = call[t].item
        /\ ~Loads(call'[t], j) /\ call'[t].phase # "loading"
    BY <1>1, <1>6, <1>7 DEF SavesUp, Loads
  <2>2. (j \in CachedKeys(cache') <=> j \in Cached) /\ (j \in Cached => ValueOf(cache', j) = ValueOf(cache, j)) /\ disk'[j] = disk[j]
    BY <1>4, <1>5 DEF Cached
  <2>3. QED BY <1>7, <2>1, <2>2, OrderlyMeans, ClientSteady
<1>10. QED BY <1>7, <1>8, <1>9

\* A call that inserts a value, the locks being L and its own lock, if it had
\* one, given back.
LEMMA InsertLines ==
  ASSUME Orderly, NEW t \in Clients, NEW k, NEW v, NEW dirty, NEW L \in LockTables, NEW C,
         Inserted(t, k, v, dirty, L, call'[t]), Others(t), Lining(L, C), Resting(C[t]),
         \A u \in Clients \ {t} : C[u] = call[u]
  PROVE  Lined'
<1>1. \A u \in Clients \ {t} : call'[u] = C[u]
  BY DEF Others
<1>2. CASE call'[t] = Returned /\ locks' = L
  <2>1. Resting(call'[t])
    BY <1>2, ReturnedFits DEF Resting, Waiting, Running
  <2>2. Lining(L, call')
    BY <1>1, <2>1, RestLining
  <2>3. QED BY <1>2, <2>2 DEF Lining, Lined
<1>3. CASE /\ call'[t].phase \in {"awaitWrite", "writing"} /\ call'[t].key \in Cached
           /\ locks' = [L EXCEPT ![SyncOf[call'[t].key]] = Ask(@, t)]
           /\ call'[t].phase = AskPhase(L, SyncOf[call'[t].key], t, "awaitWrite", "writing")
  <2> DEFINE j == call'[t].key
             s == SyncOf[j]
  <2>1. j \in Keys /\ s \in SyncKeys
    BY <1>3, Lookup, Constants, OrderlyMeans DEF Cached
  <2>2. locks'[s] = Ask(L[s], t) /\ Elsewhere(L, locks', s)
    BY <1>3, <2>1 DEF LockTables, Elsewhere
  <2>3. /\ Ask(L[s], t).holder = t => call'[t].phase \in Running
        /\ Ask(L[s], t).holder # t => call'[t].phase \in Waiting
    BY <1>3 DEF AskPhase, Running, Waiting
  <2>4. \A u \in Clients \ {t}, i \in Keys : SavesUp(call'[t], i) => ~Loads(C[u], i)
    BY <1>3, OrderlyMeans DEF Once, KeyOnce, Cached, SavesUp
  <2> HIDE DEF s
  <2>5. SyncOf[call'[t].key] = s /\ call'[t].key \in Keys
    BY <2>1 DEF s
  <2>6. Lining(locks', call')
    BY <1>1, <2>1, <2>2, <2>3, <2>4, <2>5, AskLining
  <2>7. QED BY <2>6 DEF Lining, Lined
<1>4. QED BY <1>2, <1>3 DEF Inserted

\* A task gives back the lock of its file.
LEMMA UnlockedTable ==
  ASSUME Orderly, NEW t \in Tasks, call[t].phase \in Running
  PROVE  /\ Lock(t) \in SyncKeys /\ Holds(call[t], Lock(t)) /\ Unlocked(t) \in LockTables
         /\ Unlocked(t)[Lock(t)] = Release(locks[Lock(t)]) /\ Elsewhere(locks, Unlocked(t), Lock(t))
<1>1. Lock(t) \in SyncKeys /\ Holds(call[t], Lock(t))
  BY OrderlyMeans, BusyLock DEF Holds, Lock
<1>2. Unlocked(t) \in LockTables
  BY OrderlyMeans, UnlockedKept DEF Keeps
<1>3. Unlocked(t)[Lock(t)] = Release(locks[Lock(t)]) /\ Elsewhere(locks, Unlocked(t), Lock(t))
  BY <1>1, OrderlyMeans DEF Unlocked, LockTables, Elsewhere
<1>4. QED BY <1>1, <1>2, <1>3

\* The call of a client returns, and its lock is given back.
LEMMA ReturnLines ==
  ASSUME Orderly, NEW t \in Clients, call[t].phase \in Running, NEW a, Return(t, a), locks' = Unlocked(t)
  PROVE  Lined' /\ Others(t) /\ call'[t] = Returned /\ reply'[t] = a
<1>1. call'[t] = Returned /\ reply'[t] = a /\ Others(t)
  BY OrderlyMeans DEF Return, Typed, Others
<1>2. Resting(Returned)
  BY ReturnedFits DEF Resting, Waiting, Running
<1>3. \A u \in Clients \ {t} : call'[u] = call[u]
  BY <1>1 DEF Others
<1>4. /\ Lock(t) \in SyncKeys /\ Holds(call[t], Lock(t)) /\ locks'[Lock(t)] = Release(locks[Lock(t)])
      /\ Elsewhere(locks, locks', Lock(t))
  BY OrderlyMeans, UnlockedTable
<1>5. Lining(locks', call')
  BY <1>1, <1>2, <1>3, <1>4, OrderlyMeans, ReleaseLining
<1>6. QED BY <1>1, <1>5 DEF Lining, Lined

\* What a load answers is all pages of its key.
Loaded(t, k) ==
  /\ reply'[t] \in Values \cup {Absent}
  /\ PagesIn(cache', call', disk', k) = IF reply'[t] = Absent THEN {} ELSE reply'[t]
  /\ CleanKey(cache', call', k)

LEMMA EndLoadOrders ==
  ASSUME Orderly, NEW t \in Clients, EndLoad(t)
  PROVE  Lined' /\ (\A j \in Keys : Steady(j)) /\ Others(t) /\ (reply'[t] = Failed \/ Loaded(t, call[t].key))
<1> DEFINE k == call[t].key
<1>1. call[t].phase = "loading" /\ k \in Keys /\ disk' = disk /\ t \in Tasks /\ call[t].phase \in Running
  BY OrderlyMeans, BusyLock DEF EndLoad, Running
<1>2. KeyOnce(cache, call, disk, k) /\ Loads(call[t], k)
  BY <1>1, OrderlyMeans DEF Once, Loads
<1>3. k \notin CachedKeys(cache) /\ \A u \in Clients : ~SavesUp(call[u], k)
  BY <1>1, <1>2 DEF KeyOnce
<1>4. PagesIn(cache, call, disk, k) = IF disk[k] = Absent THEN {} ELSE disk[k]
  BY <1>2, <1>3, PagesLie
<1>5. CleanKey(cache, call, k)
  BY <1>3 DEF CleanKey
<1>6. \A j \in Keys : ~SavesUp(call[t], j)
  BY <1>1 DEF SavesUp
<1>7. ASSUME NEW a, Return(t, a), locks' = Unlocked(t), cache' = cache
      PROVE  Lined' /\ (\A j \in Keys : Steady(j)) /\ Others(t) /\ reply'[t] = a
  <2>1. Lined' /\ Others(t) /\ call'[t] = Returned /\ reply'[t] = a
    BY <1>1, <1>7, ReturnLines
  <2>2. \A j \in Keys : ~SavesUp(call'[t], j) /\ ~Loads(call'[t], j)
    BY <2>1, ReturnedFits DEF SavesUp, Loads
  <2>3. Alike(cache, cache')
    BY <1>7 DEF Alike
  <2>4. \A j \in Keys : call'[t].phase = "loading" /\ call'[t].key = j => Loads(call'[t], j)
    BY DEF Loads
  <2>5. \A j \in Keys : Steady(j)
    BY <1>1, <1>6, <2>1, <2>2, <2>3, <2>4, OrderlyMeans, QuietSteady
  <2>6. QED BY <2>1, <2>5
<1>8. CASE Return(t, Failed) /\ locks' = Unlocked(t) /\ cache' = cache
  BY <1>7, <1>8
<1>9. CASE disk[k] = Absent /\ Return(t, Absent) /\ locks' = Unlocked(t) /\ cache' = cache
  <2>1. Lined' /\ (\A j \in Keys : Steady(j)) /\ Others(t) /\ reply'[t] = Absent
    BY <1>7, <1>9
  <2>2. Steady(k)
    BY <1>1, <2>1
  <2>3. PagesIn(cache', call', disk', k) = {}
    BY <1>4, <1>9, <2>2 DEF Steady
  <2>4. CleanKey(cache', call', k)
    BY <1>5, <2>2 DEF Steady
  <2>5. QED BY <2>1, <2>3, <2>4 DEF Loaded
<1>10. CASE disk[k] # Absent /\ CacheItem(t, k, disk[k], FALSE, disk[k], Unlocked(t))
  <2> DEFINE C == [call EXCEPT ![t] = Returned]
  <2>1. disk[k] \in Values /\ FALSE \in BOOLEAN
    BY <1>1, <1>10, OrderlyMeans DEF Typed
  <2>2. Inserted(t, k, disk[k], FALSE, Unlocked(t), call'[t]) /\ reply'[t] = disk[k] /\ Others(t)
    <3> HIDE DEF k
    <3>1. QED BY <1>1, <1>10, <2>1, OrderlyMeans, CacheItemInserts
  <2>3. C[t] = Returned /\ \A u \in Clients \ {t} : C[u] = call[u]
    BY <1>1, OrderlyMeans DEF Typed
  <2> HIDE DEF C
  <2>4. Resting(C[t])
    BY <2>3, ReturnedFits DEF Resting, Waiting, Running
  <2>5. /\ Lock(t) \in SyncKeys /\ Holds(call[t], Lock(t)) /\ Unlocked(t) \in LockTables
        /\ Unlocked(t)[Lock(t)] = Release(locks[Lock(t)]) /\ Elsewhere(locks, Unlocked(t), Lock(t))
    BY <1>1, UnlockedTable
  <2>6. Lining(Unlocked(t), C)
    BY <2>3, <2>4, <2>5, OrderlyMeans, ReleaseLining
  <2>7. Lined'
    BY <2>2, <2>3, <2>4, <2>5, <2>6, InsertLines
  <2>8. \A u \in Clients \ {t} : ~SavesUp(call[u], k) /\ ~Loads(call[u], k)
    <3>1. ASSUME NEW u \in Clients \ {t}, Loads(call[u], k) PROVE FALSE
      <4>1. t \in Updaters /\ u \in Updaters /\ job[t].phase # "idle" /\ job[u].phase # "idle"
        BY <1>1, <3>1, OrderlyMeans DEF Jobbed, JobFits, Loads
      <4>2. job[t].term = k /\ job[t].phase \in Inside
        BY <1>1, <4>1, OrderlyMeans DEF Jobbed, JobFits, Jobs, Inside
      <4>3. job[u].term = k /\ job[u].phase \in Inside
        BY <3>1, <4>1, OrderlyMeans DEF Jobbed, JobFits, Jobs, Inside, Loads
      <4>4. QED BY <4>1, <4>2, <4>3, OrderlyMeans DEF Jobbed, AtomicHolding
    <3>2. QED BY <1>3, <3>1
  <2>9. /\ \A j \in Keys \ {k} : Steady(j)
        /\ KeyOnce(cache', call', disk', k) /\ PagesIn(cache', call', disk', k) = disk[k]
        /\ FALSE \/ CleanKey(cache', call', k)
    <3> HIDE DEF k
    <3>1. FALSE \/ disk[k] = disk[k]
      OBVIOUS
    <3>2. QED BY <1>1, <1>6, <2>1, <2>2, <2>8, <3>1, OrderlyMeans, InsertSteady
  <2>10. Steady(k)
    BY <1>4, <1>10, <2>9 DEF Steady
  <2>11. Loaded(t, k)
    BY <1>10, <2>1, <2>2, <2>9 DEF Loaded
  <2>12. QED BY <2>2, <2>7, <2>9, <2>10, <2>11
<1>11. QED BY <1>8, <1>9, <1>10 DEF EndLoad

\* The write of an evicted entry ends.
LEMMA EndWriteOrders ==
  ASSUME Orderly, "write" \notin Faults, NEW t \in Clients, EndWrite(t)
  PROVE  Lined' /\ (\A j \in Keys : Steady(j)) /\ Others(t) /\ reply'[t] = reply[t] /\ call'[t].phase = "returned"
<1> DEFINE k == call[t].key
<1>1. /\ call[t].phase = "writing" /\ k \in Keys /\ t \in Tasks /\ call[t].phase \in Running /\ cache' = cache
      /\ locks' = Unlocked(t) /\ disk' = [disk EXCEPT ![k] = call[t].item] /\ Return(t, reply[t])
  BY OrderlyMeans, BusyLock DEF EndWrite, Running, Write, WriteFails
<1>2. Lined' /\ Others(t) /\ call'[t] = Returned /\ reply'[t] = reply[t]
  BY <1>1, ReturnLines
<1>3. /\ \A j \in Keys : ~SavesUp(call'[t], j) /\ ~Loads(call'[t], j)
      /\ call'[t].phase = "returned"
  BY <1>2, ReturnedFits DEF SavesUp, Loads
<1>4. \A j \in Keys : disk'[j] = IF j = k THEN call[t].item ELSE disk[j]
  BY <1>1, OrderlyMeans DEF Typed
<1>5. call[t].item \in Values /\ call[t].item # Absent
  BY <1>1, OrderlyMeans, Constants DEF Typed, Fits
<1>6. ASSUME NEW j \in Keys \ {k} PROVE Steady(j)
  <2>1. ~SavesUp(call[t], j) /\ ~SavesUp(call'[t], j) /\ ~Loads(call'[t], j) /\ call'[t].phase # "loading"
    BY <1>3 DEF SavesUp
  <2>2. (j \in CachedKeys(cache') <=> j \in Cached) /\ (j \in Cached => ValueOf(cache', j) = ValueOf(cache, j)) /\ disk'[j] = disk[j]
    BY <1>1, <1>4 DEF Cached
  <2>3. QED BY <1>2, <2>1, <2>2, OrderlyMeans, ClientSteady
<1>7. Steady(k)
  <2>1. KeyOnce(cache, call, disk, k) /\ SavesUp(call[t], k)
    BY <1>1, OrderlyMeans DEF Once, SavesUp
  <2>2. \A u \in Clients \ {t} : call'[u] = call[u]
    BY <1>2 DEF Others
  <2>3. call'[k].phase # "flushing"
    <3>1. k \in Tasks /\ k # t
      BY <1>1, OrderlyMeans, Constants
    <3>2. call'[k] = call[k]
      BY <1>2, <3>1 DEF Others
    <3>3. ASSUME call[k].phase = "flushing" PROVE FALSE
      <4>1. call[k].key = k
        BY <1>1, <3>1, <3>3, OrderlyMeans DEF Typed, Fits
      <4>2. locks[Lock(k)].holder = k /\ locks[Lock(t)].holder = t /\ Lock(k) = Lock(t)
        BY <1>1, <3>1, <3>3, <4>1, OrderlyMeans DEF Holding, Running, Lock
      <4>3. QED BY <3>1, <4>2
    <3>4. QED BY <3>2, <3>3
  <2>4. disk'[k] = call[t].item
    BY <1>1, <1>4
  <2>5. KeyOnce(cache, call', disk', k) /\ PagesIn(cache, call', disk', k) = PagesIn(cache, call, disk, k)
    <3>1. ~SavesUp(call'[t], k) /\ ~Loads(call'[t], k) /\ k \in Keys
      BY <1>1, <1>3
    <3> HIDE DEF k
    <3>2. QED BY <1>5, <2>1, <2>2, <2>3, <2>4, <3>1, KeyWritten
  <2>6. ~CleanKey(cache, call, k)
    BY <2>1 DEF CleanKey
  <2>7. QED BY <1>1, <2>5, <2>6 DEF Steady
<1>8. QED BY <1>2, <1>3, <1>6, <1>7

----------------------------------------------------------------------------
(* The steps of the flush, in order *)

\* No call of a client moves or replies.
OnlyKeys == \A t \in Clients : call'[t] = call[t] /\ reply'[t] = reply[t]

\* The lock of key k changes, and no client steps.
LEMMA KeyOrders ==
  ASSUME Orderly, NEW k \in Keys, NEW l, Lock(k) \in SyncKeys, locks' = [locks EXCEPT ![Lock(k)] = l],
         \/ l = Release(locks[Lock(k)])
         \/ IsNext(locks[Lock(k)], k) /\ l = Grant(locks[Lock(k)])
         \/ IsNext(locks[Lock(k)], k) /\ l = Release(Grant(locks[Lock(k)])),
         NEW r, call' = [call EXCEPT ![k] = r], reply' = reply
  PROVE  Lined' /\ OnlyKeys /\ call'[k] = r /\ \A j \in Keys \ {k} : call'[j] = call[j]
<1>1. k \in Tasks /\ \A t \in Tasks : call'[t] = IF t = k THEN r ELSE call[t]
  BY OrderlyMeans, Constants DEF Typed
<1>2. (\A t \in Clients : call'[t] = call[t]) /\ OnlyKeys /\ \A j \in Keys \ {k} : call'[j] = call[j]
  BY <1>1, Constants DEF OnlyKeys
<1> DEFINE s == Lock(k)
<1>3. s \in SyncKeys /\ locks'[s] = l /\ Elsewhere(locks, locks', s)
  BY OrderlyMeans DEF LockTables, Elsewhere
<1>4. \/ locks'[s] = Release(locks[s])
      \/ IsNext(locks[s], k) /\ locks'[s] = Grant(locks[s])
      \/ IsNext(locks[s], k) /\ locks'[s] = Release(Grant(locks[s]))
  BY <1>3
<1> HIDE DEF s
<1>5. Lining(locks', call')
  BY <1>2, <1>3, <1>4, OrderlyMeans, KeyLining
<1>6. QED BY <1>1, <1>2, <1>5 DEF Lining, Lined

LEMMA BeginFlushOrders ==
  ASSUME Orderly, NEW k \in Keys, BeginFlush(k)
  PROVE  Lined' /\ (\A j \in Keys : Steady(j)) /\ OnlyKeys
<1>1. /\ call[k].phase = "awaitFlush" /\ IsNext(locks[Lock(k)], k) /\ Lock(k) \in SyncKeys
      /\ reply' = reply /\ disk' = disk
  BY OrderlyMeans, BusyLock, Constants DEF BeginFlush, Obtain, Waiting
<1>2. ASSUME Lined', OnlyKeys, \A j \in Keys \ {k} : call'[j] = call[j], Alike(cache, cache'),
             k \in Cached \/ call'[k].phase = "idle"
      PROVE  Lined' /\ (\A j \in Keys : Steady(j)) /\ OnlyKeys
  <2>1. ASSUME NEW j \in Keys PROVE Steady(j)
    <3>1. (j \in CachedKeys(cache') <=> j \in Cached) /\ (j \in Cached => ValueOf(cache', j) = ValueOf(cache, j))
      BY <1>2 DEF Alike, Cached
    <3>2. j \notin Cached /\ call'[j].phase = "flushing" => call[j].phase = "flushing" /\ call'[j].item = call[j].item
      BY <1>2
    <3>3. \A t \in Clients : call'[t] = call[t]
      BY <1>2 DEF OnlyKeys
    <3>4. QED BY <1>1, <3>1, <3>2, <3>3, OrderlyMeans, FlushSteady
  <2>2. QED BY <1>2, <2>1
<1>3. CASE k \in Cached
  <2> DEFINE r == [phase |-> "flushing", key |-> k, item |-> ValueOf(cache, k).data]
             l == Grant(locks[Lock(k)])
  <2>1. cache' = Touch(cache, k, FifoCache) /\ call' = [call EXCEPT ![k] = r] /\ locks' = [locks EXCEPT ![Lock(k)] = l]
    BY <1>3 DEF BeginFlush
  <2> HIDE DEF r
  <2>2. Lined' /\ OnlyKeys /\ \A j \in Keys \ {k} : call'[j] = call[j]
    BY <1>1, <2>1, KeyOrders
  <2>3. Alike(cache, cache')
    BY <1>3, <2>1, OrderlyMeans, TouchKeeps DEF Cached
  <2>4. QED BY <1>2, <1>3, <2>2, <2>3
<1>4. CASE k \notin Cached
  <2> DEFINE l == Release(Grant(locks[Lock(k)]))
  <2>1. cache' = cache /\ call' = [call EXCEPT ![k] = NoCall] /\ locks' = [locks EXCEPT ![Lock(k)] = l]
    BY <1>4 DEF BeginFlush, Flushed
  <2>2. Lined' /\ OnlyKeys /\ call'[k] = NoCall /\ \A j \in Keys \ {k} : call'[j] = call[j]
    BY <1>1, <2>1, KeyOrders
  <2>3. Alike(cache, cache') /\ call'[k].phase = "idle"
    BY <2>1, <2>2 DEF Alike, NoCall
  <2>4. QED BY <1>2, <2>2, <2>3
<1>5. QED BY <1>3, <1>4

LEMMA EndFlushOrders ==
  ASSUME Orderly, "write" \notin Faults, NEW k \in Keys, EndFlush(k)
  PROVE  Lined' /\ (\A j \in Keys : Steady(j)) /\ OnlyKeys
<1>1. /\ call[k].phase = "flushing" /\ call[k].phase \in Running /\ k \in Tasks /\ reply' = reply /\ cache' = cache
      /\ locks' = Unlocked(k) /\ disk' = [disk EXCEPT ![k] = call[k].item] /\ call' = [call EXCEPT ![k] = NoCall]
  BY Constants DEF EndFlush, Flushed, Running, Write, WriteFails
<1>2. Lock(k) \in SyncKeys /\ call[k].key = k
  BY <1>1, OrderlyMeans, BusyLock DEF Typed, Fits
<1> DEFINE l == Release(locks[Lock(k)])
<1>3. locks' = [locks EXCEPT ![Lock(k)] = l]
  BY <1>1 DEF Unlocked
<1>4. Lined' /\ OnlyKeys /\ call'[k] = NoCall /\ \A j \in Keys \ {k} : call'[j] = call[j]
  BY <1>1, <1>2, <1>3, KeyOrders
<1>5. \A j \in Keys : disk'[j] = IF j = k THEN call[k].item ELSE disk[j]
  BY <1>1, OrderlyMeans DEF Typed
<1>6. \A t \in Clients : call'[t] = call[t]
  BY <1>4 DEF OnlyKeys
<1>7. ASSUME NEW j \in Keys \ {k} PROVE Steady(j)
  <2>1. (j \in CachedKeys(cache') <=> j \in Cached) /\ (j \in Cached => ValueOf(cache', j) = ValueOf(cache, j)) /\ disk'[j] = disk[j]
    BY <1>1, <1>5 DEF Cached
  <2>2. j \notin Cached /\ call'[j].phase = "flushing" => call[j].phase = "flushing" /\ call'[j].item = call[j].item
    BY <1>4
  <2>3. QED BY <1>6, <2>1, <2>2, OrderlyMeans, FlushSteady
<1>8. Steady(k)
  <2>1. KeyOnce(cache, call, disk, k)
    BY OrderlyMeans DEF Once
  <2>2. call'[k].phase # "flushing"
    BY <1>4 DEF NoCall
  <2>3. k \in CachedKeys(cache) => ValueOf(cache, k).dirty \/ call[k].item = ValueOf(cache, k).data
    <3>1. SUFFICES ASSUME k \in Cached, ~ValueOf(cache, k).dirty PROVE call[k].item = ValueOf(cache, k).data
      BY DEF Cached
    <3>2. IsSaved(ValueOf(cache, k), k, call, disk, unsaved)
      BY <3>1, OrderlyMeans DEF StoreInv, CleanSaved
    <3>3. QED BY <1>1, <1>2, <3>1, <3>2 DEF IsSaved, Saves
  <2>4. disk'[k] = call[k].item
    BY <1>5
  <2>5. KeyOnce(cache, call', disk', k) /\ PagesIn(cache, call', disk', k) = PagesIn(cache, call, disk, k)
    <3>1. call[k].phase = "flushing"
      BY <1>1
    <3>2. QED BY <1>6, <2>1, <2>2, <2>3, <2>4, <3>1, KeyFlushed
  <2>6. CleanKey(cache, call, k) => CleanKey(cache, call', k)
    BY <1>6 DEF CleanKey
  <2>7. QED BY <1>1, <2>5, <2>6 DEF Steady
<1>9. QED BY <1>4, <1>7, <1>8

\* The queue p is the queue q with keys behind it, which may hold the lock now.
Behind(q, p, h, g) ==
  /\ Len(q) <= Len(p) /\ \A i \in 1..Len(q) : p[i] = q[i]
  /\ \A i \in 1..Len(p) : i \in 1..Len(q) \/ p[i] \notin Clients
  /\ g = h \/ g \notin Clients

Extended == {at \in Flushing : \A s \in SyncKeys : Behind(locks[s].queue, at.locks[s].queue, locks[s].holder, at.locks[s].holder)}

LEMMA AskBehind ==
  ASSUME NEW l \in LocksOver(Tasks), NEW m \in LocksOver(Tasks), Behind(l.queue, m.queue, l.holder, m.holder), NEW k \in Keys
  PROVE  Behind(l.queue, Ask(m, k).queue, l.holder, Ask(m, k).holder)
<1>1. m = [holder |-> m.holder, queue |-> m.queue] /\ m.queue \in Seq(Tasks) /\ k \in Tasks /\ k \notin Clients
  BY Constants DEF LocksOver
<1>2. l.queue \in Seq(Tasks) /\ Len(l.queue) \in Nat
  BY LenProperties DEF LocksOver
<1>3. CASE m.holder = Nobody /\ m.queue = << >>
  <2>1. Ask(m, k).holder = k /\ Ask(m, k).queue = m.queue
    BY <1>1, <1>3 DEF Ask
  <2>2. QED BY <1>1, <2>1 DEF Behind
<1>4. CASE ~(m.holder = Nobody /\ m.queue = << >>)
  <2>1. Ask(m, k).holder = m.holder /\ Ask(m, k).queue = Append(m.queue, k)
    BY <1>1, <1>4 DEF Ask
  <2> DEFINE q == l.queue
             n == m.queue
             p == Append(m.queue, k)
  <2>2. Len(n) \in Nat /\ Len(p) = Len(n) + 1 /\ p[Len(n) + 1] = k /\ \A i \in 1..Len(n) : p[i] = n[i]
    BY <1>1, Queues
  <2>3. Len(q) <= Len(n) /\ (\A i \in 1..Len(q) : n[i] = q[i]) /\ (\A i \in 1..Len(n) : i \in 1..Len(q) \/ n[i] \notin Clients) /\ Len(q) \in Nat
    BY <1>2 DEF Behind
  <2> HIDE DEF q, n, p
  <2>4. Len(q) <= Len(p) /\ \A i \in 1..Len(q) : p[i] = q[i]
    BY <2>2, <2>3
  <2>5. \A i \in 1..Len(p) : i \in 1..Len(q) \/ p[i] \notin Clients
    BY <1>1, <2>2, <2>3
  <2>6. m.holder = l.holder \/ m.holder \notin Clients
    BY DEF Behind
  <2>7. QED BY <2>1, <2>4, <2>5, <2>6 DEF Behind, p, q
<1>5. QED BY <1>3, <1>4

LEMMA FlushOrders ==
  ASSUME Orderly, Flush
  PROVE  Lined' /\ (\A j \in Keys : Steady(j)) /\ OnlyKeys
<1>1. PICK order \in Seq(Keys) : /\ \A i \in 1..Len(order) : order[i] \in Cached
                                 /\ locks' = FlushItems(order).locks /\ cache' = FlushItems(order).cache
                                 /\ FlushItems(order) \in Flushing
  BY OrderlyMeans, FlushesAll, FlushOrder
<1>2. [locks |-> locks, cache |-> cache] \in Extended
  <2> DEFINE at == [locks |-> locks, cache |-> cache]
  <2>1. at.locks = locks /\ at \in Flushing
    BY OrderlyMeans DEF Flushing, Alike
  <2>2. \A s \in SyncKeys : Len(locks[s].queue) \in Nat
    BY OrderlyMeans, LockFields, LenProperties DEF LockTables
  <2>3. \A s \in SyncKeys : Behind(locks[s].queue, at.locks[s].queue, locks[s].holder, at.locks[s].holder)
    BY <2>1, <2>2 DEF Behind
  <2> HIDE DEF at
  <2>4. QED BY <2>1, <2>3 DEF Extended, at
<1>3. ASSUME NEW at \in Extended, NEW k \in Cached PROVE FlushItem(at, k) \in Extended
  <2>1. at \in Flushing /\ FlushItem(at, k) \in Flushing /\ at.locks \in LockTables
    BY OrderlyMeans, FlushItemStep DEF Extended, Flushing
  <2>2. k \in Keys /\ SyncOf[k] \in SyncKeys
    BY OrderlyMeans, Lookup, Constants DEF Cached
  <2>3. FlushItem(at, k).locks = [at.locks EXCEPT ![SyncOf[k]] = Ask(@, k)]
    BY DEF FlushItem
  <2>4. ASSUME NEW s \in SyncKeys
        PROVE  Behind(locks[s].queue, FlushItem(at, k).locks[s].queue, locks[s].holder, FlushItem(at, k).locks[s].holder)
    <3>1. /\ Behind(locks[s].queue, at.locks[s].queue, locks[s].holder, at.locks[s].holder)
          /\ at.locks[s] \in LocksOver(Tasks) /\ locks[s] \in LocksOver(Tasks)
      BY <2>1, OrderlyMeans DEF Extended, LockTables
    <3>2. Behind(locks[s].queue, Ask(at.locks[s], k).queue, locks[s].holder, Ask(at.locks[s], k).holder)
      BY <2>2, <3>1, AskBehind
    <3>3. FlushItem(at, k).locks[s] = IF s = SyncOf[k] THEN Ask(at.locks[s], k) ELSE at.locks[s]
      BY <2>1, <2>3 DEF LockTables
    <3>4. QED BY <3>1, <3>2, <3>3
  <2>5. QED BY <2>1, <2>4 DEF Extended
<1>4. FlushItems(order) \in Extended
  <2>1. \A at \in Extended, i \in 1..Len(order) : FlushItem(at, order[i]) \in Extended
    BY <1>1, <1>3
  <2> HIDE DEF Extended
  <2>2. QED BY <1>2, <2>1, FlushItemsKeep
<1>5. /\ locks' \in LockTables /\ Alike(cache, cache')
      /\ \A s \in SyncKeys : Behind(locks[s].queue, locks'[s].queue, locks[s].holder, locks'[s].holder)
  BY <1>1, <1>4 DEF Extended, Flushing
<1>6. OnlyKeys
  BY OrderlyMeans, FlushClients DEF OnlyKeys
<1>7. ASSUME NEW s \in SyncKeys PROVE LinedUp(locks'[s].queue, locks'[s].holder, call', s)
  <2> DEFINE q == locks[s].queue
             p == locks'[s].queue
  <2>1. q \in Seq(Tasks) /\ p \in Seq(Tasks) /\ LinedUp(q, locks[s].holder, call, s)
    BY <1>5, OrderlyMeans, LockFields DEF LockTables, Lined
  <2>2. Behind(q, p, locks[s].holder, locks'[s].holder) /\ \A t \in Clients : call'[t] = call[t]
    BY <1>5, <1>6 DEF OnlyKeys
  <2> HIDE DEF p, q
  <2>3. LinedUp(p, locks'[s].holder, call', s)
    BY <2>1, <2>2, LinedKeys DEF Behind
  <2>4. QED BY <2>3 DEF p
<1>8. ASSUME NEW j \in Keys PROVE Steady(j)
  <2>1. /\ j \in CachedKeys(cache') <=> j \in Cached
        /\ j \in Cached => ValueOf(cache', j) = ValueOf(cache, j)
        /\ disk'[j] = disk[j]
    BY <1>5 DEF Alike, Cached, Flush
  <2>2. j \notin Cached => call'[j] = call[j]
    BY OrderlyMeans, FlushesAll, Constants
  <2>3. \A t \in Clients : call'[t] = call[t]
    BY <1>6 DEF OnlyKeys
  <2>4. QED BY <2>1, <2>2, <2>3, OrderlyMeans, FlushSteady
<1>9. QED BY <1>6, <1>7, <1>8 DEF Lined

----------------------------------------------------------------------------
(* What each update knows of its term *)

\* A callback of the update with job j and call r is due.
DueFor(j, r) == j.phase = "locked" \/ (j.phase \in {"reading", "putting"} /\ r.phase = "returned")
Due(u) == DueFor(job[u], call[u])
OneDue == \A u, v \in Updaters : Due(u) /\ Due(v) => u = v

FoundIn(a) == IF a = Absent THEN {} ELSE a

\* What the read of an update found is the pages of the term k, and remains so
\* until its callback has run: no other call will write the term.
ReadIn(r, a, c, C, d, k) ==
  /\ PagesIn(c, C, d, k) = FoundIn(a)
  /\ \A t \in Clients : ~SavesUp(C[t], k)
  /\ r.phase # "returned" => CleanKey(c, C, k)

Answered(j, r, a) == j.phase = "reading" /\ r.phase \in {"awaitWrite", "writing", "returned"} /\ a # Failed

Current(u) == Answered(job[u], call[u], reply[u]) => ReadIn(call[u], reply[u], cache, call, disk, job[u].term)

\* An update that was put is among the pages of its term.
Stored(u) == job[u].phase = "putting" => u \in PagesIn(cache, call, disk, job[u].term)

Kept == \A k \in Keys : acked[k] \subseteq PagesIn(cache, call, disk, k)

AtomicInv ==
  /\ Orderly
  /\ OneDue
  /\ \A u \in Updaters : Current(u)
  /\ \A u \in Updaters : Stored(u)
  /\ Kept

\* No other update than that of u moves.
JobsRest(u) == \A v \in Updaters \ {u} : job'[v] = job[v] /\ call'[v] = call[v] /\ reply'[v] = reply[v]

\* The pages of each term stay or grow.
Grows(k) == KeyOnce(cache', call', disk', k) /\ PagesIn(cache, call, disk, k) \subseteq PagesIn(cache', call', disk', k)

LEMMA Assembled ==
  ASSUME AtomicInv, [ANext]_allvars, NEW u, JobsRest(u), \A v \in Updaters \ {u} : ~Due(v), Lined',
         \A k \in Keys : Grows(k),
         \A v \in Updaters \ {u} : job[v].phase = "reading" => Steady(job[v].term),
         u \in Updaters => Current(u)' /\ Stored(u)',
         \A k \in Keys : acked'[k] \subseteq PagesIn(cache', call', disk', k)
  PROVE  AtomicInv'
<1>1. StoreInv /\ Jobbed /\ Writable /\ OneDue
  BY DEF AtomicInv, Orderly
<1>2. StoreInv' /\ Jobbed' /\ Writable'
  BY <1>1, StorePart, JobbedKept, WritableKept
<1>3. Orderly'
  BY <1>2 DEF Orderly, Once, Grows
<1>4. ASSUME NEW v \in Updaters, v # u PROVE ~Due(v)' /\ Current(v)' /\ Stored(v)'
  <2>1. job'[v] = job[v] /\ call'[v] = call[v] /\ reply'[v] = reply[v] /\ ~Due(v)
    BY <1>4 DEF JobsRest
  <2>2. Current(v)'
    <3>1. SUFFICES ASSUME Answered(job[v], call[v], reply[v])
                   PROVE  ReadIn(call[v], reply[v], cache', call', disk', job[v].term)
      BY <2>1 DEF Current
    <3>2. Steady(job[v].term) /\ call[v].phase # "returned"
      BY <1>4, <2>1, <3>1 DEF Answered, Due, DueFor
    <3>3. ReadIn(call[v], reply[v], cache, call, disk, job[v].term)
      BY <3>1 DEF AtomicInv, Current
    <3>4. QED BY <3>2, <3>3 DEF ReadIn, Steady, CleanKey
  <2>3. Stored(v)'
    <3>1. SUFFICES ASSUME job[v].phase = "putting" PROVE v \in PagesIn(cache', call', disk', job[v].term)
      BY <2>1 DEF Stored
    <3>2. job[v].term \in Keys /\ v \in PagesIn(cache, call, disk, job[v].term)
      BY <1>1, <3>1 DEF AtomicInv, Stored, Jobbed, JobFits
    <3>3. QED BY <3>2 DEF Grows
  <2>4. QED BY <2>1, <2>2, <2>3 DEF Due
<1>5. OneDue'
  BY <1>4 DEF OneDue
<1>6. QED BY <1>3, <1>4, <1>5 DEF AtomicInv, Kept

LEMMA SteadyGrows ==
  ASSUME AtomicInv, \A k \in Keys : Steady(k), acked' = acked
  PROVE  /\ \A k \in Keys : Grows(k)
         /\ \A v \in Updaters : job[v].phase = "reading" => Steady(job[v].term)
         /\ \A k \in Keys : acked'[k] \subseteq PagesIn(cache', call', disk', k)
<1>1. \A v \in Updaters : job[v].phase = "reading" => job[v].term \in Keys
  BY DEF AtomicInv, Orderly, Jobbed, JobFits
<1>2. QED BY <1>1 DEF Steady, Grows, AtomicInv, Kept

\* The terms of two updates that have their locks are in different files.
LEMMA TermsApart ==
  ASSUME Jobbed, NEW u \in Updaters, NEW v \in Updaters, u # v, job[u].phase \in Inside, job[v].phase \in Inside
  PROVE  job[u].term # job[v].term
  BY DEF Jobbed, AtomicHolding

\* A callback that is due is that of the update whose turn it is.
LEMMA InTurnDue ==
  ASSUME OneDue, NEW u \in Updaters, InTurn(u)
  PROVE  Due(u) /\ \A v \in Updaters \ {u} : ~Due(v)
<1>1. Read(u) => job[u].phase = "locked"
  BY DEF Read
<1>2. Modify(u) => job[u].phase = "reading" /\ call[u].phase = "returned"
  BY DEF Modify, Back
<1>3. GiveUp(u) \/ Finish(u) => job[u].phase \in {"reading", "putting"} /\ call[u].phase = "returned"
  BY DEF GiveUp, Finish, Back
<1>4. job[u].phase = "locked" \/ (job[u].phase \in {"reading", "putting"} /\ call[u].phase = "returned")
  BY <1>1, <1>2, <1>3, Zenon DEF InTurn
<1>5. Due(u)
  BY <1>4 DEF Due, DueFor
<1>6. QED BY <1>5 DEF OneDue

LEMMA NoneDue ==
  ASSUME ~CallbackDue
  PROVE  \A v \in Updaters : ~Due(v)
  BY DEF CallbackDue, Due, DueFor, Back

\* The values stay while the step changes none of them.
LEMMA StillSteady ==
  ASSUME Orderly, UNCHANGED vars
  PROVE  Lined' /\ \A k \in Keys : Steady(k)
<1>1. cache' = cache /\ call' = call /\ disk' = disk /\ locks' = locks
  BY DEF vars
<1>2. QED BY <1>1 DEF Orderly, Lined, Once, Steady

LEMMA AsksKept ==
  ASSUME AtomicInv, [ANext]_allvars, ~CallbackDue, NEW u \in Updaters,
         ObtainAtomic(u) \/ \E k \in Keys : Update(u, k)
  PROVE  AtomicInv'
<1>1. UNCHANGED vars /\ acked' = acked
  BY DEF ObtainAtomic, Update
<1>2. Lined' /\ \A k \in Keys : Steady(k)
  BY <1>1, StillSteady DEF AtomicInv
<1>3. \A k \in Keys : call' = call /\ reply' = reply
  BY <1>1 DEF vars
<1>4. job \in [Updaters -> Jobs]
  BY DEF AtomicInv, Orderly, Jobbed
<1>5. JobsRest(u) /\ job'[u].phase \in {"awaitAtomic", "locked"}
  <2>1. CASE ObtainAtomic(u)
    <3>1. Turns(u, "locked")
      BY <2>1 DEF ObtainAtomic, Turns
    <3>2. job' = [job EXCEPT ![u] = [phase |-> "locked", term |-> job[u].term]]
      BY <3>1, JobMoves DEF AtomicInv, Orderly
    <3>3. QED BY <1>1, <1>4, <3>2 DEF JobsRest, vars
  <2>2. ASSUME NEW k \in Keys, Update(u, k) PROVE JobsRest(u) /\ job'[u].phase \in {"awaitAtomic", "locked"}
    <3> DEFINE p == AskPhase(alocks, SyncOf[k], u, "awaitAtomic", "locked")
    <3>1. job' = [job EXCEPT ![u] = [phase |-> p, term |-> k]]
      BY <2>2 DEF Update
    <3>2. p \in {"awaitAtomic", "locked"}
      BY AskPhases
    <3> HIDE DEF p
    <3>3. QED BY <1>1, <1>4, <3>1, <3>2 DEF JobsRest, vars
  <2>3. QED BY <2>1, <2>2
<1>6. Current(u)' /\ Stored(u)'
  BY <1>5 DEF Current, Stored, Answered
<1>7. QED BY <1>1, <1>2, <1>5, <1>6, NoneDue, SteadyGrows, Assembled

\* What an update found when it reads a term that is cached, or asks for its lock.
LEMMA ReadKept ==
  ASSUME AtomicInv, [ANext]_allvars, NEW u \in Updaters, Read(u)
  PROVE  AtomicInv'
<1> DEFINE k == job[u].term
<1>1. /\ Orderly /\ Jobbed /\ job[u].phase = "locked" /\ k \in Keys /\ u \in Clients /\ u \in Tasks
      /\ TryGet(u, k) /\ Turns(u, "reading") /\ acked' = acked /\ OneDue /\ InTurn(u)
  BY UpdaterFacts DEF AtomicInv, Orderly, Read, InTurn, Turns, ATerm, Jobbed, JobFits
<1>2. Lined' /\ (\A j \in Keys : Steady(j)) /\ Others(u)
  BY <1>1, TryGetOrders
<1>3. job' = [job EXCEPT ![u] = [phase |-> "reading", term |-> k]]
  BY <1>1, JobMoves
<1>4. JobsRest(u) /\ job'[u].phase = "reading" /\ job'[u].term = k
  BY <1>1, <1>2, <1>3, UpdaterFacts DEF JobsRest, Others, Jobbed
<1>5. Stored(u)'
  BY <1>4 DEF Stored
<1>6. Current(u)'
  <2>1. CASE k \in Cached
    <3>1. Return(u, ValueOf(cache, k).data) /\ cache' = Touch(cache, k, FifoCache)
      BY <1>1, <2>1 DEF TryGet
    <3>2. call'[u] = Returned /\ reply'[u] = ValueOf(cache, k).data
      BY <1>1, <3>1, OrderlyMeans DEF Return, Typed
    <3>3. k \in CachedKeys(cache')
      BY <1>1, <2>1, <3>1, OrderlyMeans, TouchKeeps DEF Cached, Alike
    <3>4. ValueOf(cache, k).data \in Values
      BY <1>1, <2>1, Lookup, OrderlyMeans DEF Cached, Items
    <3>5. FoundIn(reply'[u]) = ValueOf(cache, k).data
      BY <3>2, <3>4, UpdaterFacts DEF FoundIn
    <3>6. PagesIn(cache, call, disk, k) = ValueOf(cache, k).data
      BY <2>1 DEF PagesIn, Cached
    <3>7. Steady(k)
      BY <1>1, <1>2
    <3>8. \A t \in Clients : ~SavesUp(call'[t], k)
      BY <3>3, <3>7 DEF Steady, KeyOnce
    <3>9. call'[u].phase = "returned"
      BY <3>2, ReturnedFits
    <3>10. ReadIn(call'[u], reply'[u], cache', call', disk', k)
      BY <3>5, <3>6, <3>7, <3>8, <3>9 DEF ReadIn, Steady
    <3>11. QED BY <1>4, <3>10 DEF Current
  <2>2. CASE k \notin Cached
    <3> DEFINE p == AskPhase(locks, SyncOf[k], u, "awaitLoad", "loading")
    <3>1. call' = [call EXCEPT ![u] = [phase |-> p, key |-> k, item |-> Absent]]
      BY <1>1, <2>2 DEF TryGet
    <3>2. p \in {"awaitLoad", "loading"}
      BY AskPhases
    <3> HIDE DEF p
    <3>3. call'[u].phase \in {"awaitLoad", "loading"}
      BY <1>1, <3>1, <3>2, OrderlyMeans DEF Typed
    <3>4. QED BY <3>3 DEF Current, Answered
  <2>3. QED BY <2>1, <2>2
<1>7. \A v \in Updaters \ {u} : ~Due(v)
  BY <1>1, InTurnDue
<1>8. QED BY <1>1, <1>2, <1>4, <1>5, <1>6, <1>7, SteadyGrows, Assembled

\* The modified pages are put: no other call has to do with the term.
LEMMA ModifyKept ==
  ASSUME AtomicInv, [ANext]_allvars, NEW u \in Updaters, Modify(u)
  PROVE  /\ AtomicInv' /\ job[u].term \in Keys /\ u \notin PagesIn(cache, call, disk, job[u].term)
         /\ PagesIn(cache', call', disk', job[u].term) = PagesIn(cache, call, disk, job[u].term) \cup {u}
         /\ \A j \in Keys \ {job[u].term} : PagesIn(cache', call', disk', j) = PagesIn(cache, call, disk, j)
<1> DEFINE k == job[u].term
           v == Found(u) \cup {u}
           Pages(j) == PagesIn(cache, call, disk, j)
           After(j) == PagesIn(cache', call', disk', j)
<1>1. /\ Orderly /\ Jobbed /\ OneDue /\ InTurn(u) /\ u \in Clients /\ u \in Tasks /\ acked' = acked /\ Turns(u, "putting")
      /\ Current(u)
  BY UpdaterFacts DEF AtomicInv, Orderly, InTurn, Modify, Turns
<1>2. /\ job[u].phase = "reading" /\ k \in Keys /\ call[u].phase = "returned" /\ reply[u] # Failed
      /\ v \in Values /\ u \notin Found(u) /\ Put(u, k, v)
  BY <1>1, ModifyPuts
<1>3. ReadIn(call[u], reply[u], cache, call, disk, k)
  BY <1>1, <1>2 DEF Current, Answered
<1>4. Pages(k) = Found(u) /\ \A t \in Clients : ~SavesUp(call[t], k)
  BY <1>3 DEF ReadIn, FoundIn, Found
<1> HIDE DEF v
<1>5. Inserted(u, k, v, TRUE, locks, call'[u]) /\ Others(u) /\ disk' = disk
  <2>1. CacheItem(u, k, v, TRUE, Done, locks) /\ disk' = disk /\ TRUE \in BOOLEAN
    BY <1>2 DEF Put
  <2> HIDE DEF k
  <2>2. QED BY <1>1, <1>2, <2>1, OrderlyMeans, CacheItemInserts
<1>6. ASSUME NEW t \in Clients \ {u}, Loads(call[t], k) PROVE FALSE
  <2>1. t \in Updaters /\ job[t].phase = "reading" /\ job[t].term = k
    BY <1>1, <1>6 DEF Jobbed, JobFits, Jobs, Loads
  <2>2. QED BY <1>1, <1>2, <1>6, <2>1, TermsApart DEF Inside
<1>7. Resting(call[u]) /\ \A j \in Keys : ~SavesUp(call[u], j)
  BY <1>2 DEF Resting, Waiting, Running, SavesUp
<1>8. /\ \A j \in Keys \ {k} : Steady(j)
      /\ KeyOnce(cache', call', disk', k) /\ After(k) = v
  <2>1. TRUE \/ disk[k] = v
    OBVIOUS
  <2> HIDE DEF k
  <2>2. QED BY <1>1, <1>2, <1>4, <1>5, <1>6, <1>7, <2>1, OrderlyMeans, InsertSteady
<1>9. Lined'
  <2>1. locks \in LockTables /\ Lining(locks, call)
    BY <1>1, OrderlyMeans
  <2>2. \A t \in Clients \ {u} : call[t] = call[t]
    OBVIOUS
  <2> HIDE DEF k
  <2>3. QED BY <1>1, <1>5, <1>7, <2>1, <2>2, InsertLines
<1>10. job' = [job EXCEPT ![u] = [phase |-> "putting", term |-> k]]
  BY <1>1, JobMoves
<1>11. JobsRest(u) /\ job'[u].phase = "putting" /\ job'[u].term = k
  BY <1>1, <1>5, <1>10, UpdaterFacts DEF JobsRest, Others, Jobbed
<1>12. After(k) = Pages(k) \cup {u}
  BY <1>4, <1>8 DEF v
<1>13. Current(u)' /\ Stored(u)'
  BY <1>11, <1>12 DEF Current, Answered, Stored
<1>14. \A j \in Keys \ {k} : After(j) = Pages(j)
  BY <1>8 DEF Steady
<1>15. \A j \in Keys : Grows(j)
  <2>1. ASSUME NEW j \in Keys PROVE Grows(j)
    BY <1>8, <1>12, <1>14 DEF Grows, Steady
  <2>2. QED BY <2>1
<1>16. ASSUME NEW w \in Updaters \ {u}, job[w].phase = "reading" PROVE Steady(job[w].term)
  <2>1. job[w].term # k /\ job[w].term \in Keys
    BY <1>1, <1>2, <1>16, TermsApart DEF Inside, Jobbed, JobFits
  <2>2. QED BY <1>8, <2>1
<1>17. \A j \in Keys : acked'[j] \subseteq After(j)
  BY <1>1, <1>15 DEF AtomicInv, Kept, Grows
<1>18. \A w \in Updaters \ {u} : ~Due(w)
  BY <1>1, InTurnDue
<1>19. AtomicInv'
  BY <1>9, <1>11, <1>13, <1>15, <1>16, <1>17, <1>18, Assembled
<1>20. QED BY <1>2, <1>4, <1>12, <1>14, <1>19

\* An update answers, and its page is in the index when it was put.
LEMMA AnswerKept ==
  ASSUME AtomicInv, [ANext]_allvars, NEW u \in Updaters, GiveUp(u) \/ Finish(u)
  PROVE  AtomicInv' /\ \A j \in Keys : Steady(j)
<1>1. /\ Orderly /\ Jobbed /\ OneDue /\ Kept /\ Stored(u) /\ InTurn(u) /\ u \in Clients /\ u \in Tasks
      /\ Answer(u) /\ call[u].phase = "returned" /\ job[u].term \in Keys
  BY UpdaterFacts DEF AtomicInv, Orderly, InTurn, GiveUp, Finish, Back, Jobbed, JobFits
<1>2. /\ job' = [job EXCEPT ![u] = NoJob] /\ call' = [call EXCEPT ![u] = NoCall] /\ reply' = [reply EXCEPT ![u] = Done]
      /\ cache' = cache /\ disk' = disk /\ locks' = locks
  BY <1>1 DEF Answer
<1>3. call'[u] = NoCall /\ NoCall.phase = "idle" /\ Others(u)
  BY <1>1, <1>2, OrderlyMeans DEF Typed, Others, NoCall
<1>4. /\ Resting(call[u]) /\ Resting(call'[u])
      /\ \A j \in Keys : ~SavesUp(call[u], j) /\ ~SavesUp(call'[u], j) /\ ~Loads(call'[u], j)
      /\ call'[u].phase # "loading"
  BY <1>1, <1>3 DEF Resting, Waiting, Running, SavesUp, Loads
<1>5. Alike(cache, cache')
  BY <1>2 DEF Alike
<1>6. \A j \in Keys : Steady(j)
  BY <1>1, <1>2, <1>3, <1>4, <1>5, OrderlyMeans, QuietSteady
<1>7. Lined'
  <2>1. Lining(locks, call) /\ \A t \in Clients \ {u} : call'[t] = call[t]
    BY <1>1, <1>3, OrderlyMeans DEF Others
  <2>2. Lining(locks, call')
    BY <1>1, <1>4, <2>1, RestLining
  <2>3. QED BY <1>2, <2>2 DEF Lining, Lined
<1>8. JobsRest(u) /\ job'[u].phase = "idle"
  BY <1>1, <1>2, <1>3, UpdaterFacts DEF JobsRest, Others, Jobbed, NoJob
<1>9. Current(u)' /\ Stored(u)'
  BY <1>8 DEF Current, Answered, Stored
<1>10. \A j \in Keys : Grows(j)
  BY <1>6 DEF Steady, Grows
<1>11. \A v \in Updaters \ {u} : job[v].phase = "reading" => Steady(job[v].term)
  BY <1>1, <1>6 DEF Jobbed, JobFits
<1>12. \A j \in Keys : \/ acked'[j] = acked[j]
                       \/ j = job[u].term /\ job[u].phase = "putting" /\ acked'[j] = acked[j] \cup {u}
  <2>1. GiveUp(u) => acked' = acked
    BY DEF GiveUp
  <2>2. Finish(u) => /\ job[u].phase = "putting"
                     /\ acked' = acked \/ acked' = [acked EXCEPT ![job[u].term] = @ \cup {u}]
    BY DEF Finish, ATerm
  <2>3. acked \in [Keys -> SUBSET Updaters]
    BY <1>1 DEF Jobbed
  <2>4. CASE acked' = acked
    BY <2>4
  <2>5. CASE job[u].phase = "putting" /\ acked' = [acked EXCEPT ![job[u].term] = @ \cup {u}]
    BY <2>3, <2>5
  <2>6. QED BY <2>1, <2>2, <2>4, <2>5
<1>13. ASSUME NEW j \in Keys PROVE acked'[j] \subseteq PagesIn(cache', call', disk', j)
  <2>1. acked[j] \subseteq PagesIn(cache, call, disk, j) /\ PagesIn(cache', call', disk', j) = PagesIn(cache, call, disk, j)
    BY <1>1, <1>6 DEF Kept, Steady
  <2>2. job[u].phase = "putting" => u \in PagesIn(cache, call, disk, job[u].term)
    BY <1>1 DEF Stored
  <2>3. QED BY <1>12, <2>1, <2>2
<1>14. \A v \in Updaters \ {u} : ~Due(v)
  BY <1>1, InTurnDue
<1>15. QED BY <1>6, <1>7, <1>8, <1>9, <1>10, <1>11, <1>13, <1>14, Assembled

\* A call of an update goes on, or the flush does.
LEMMA CallKept ==
  ASSUME AtomicInv, [ANext]_allvars, ~CallbackDue, UNCHANGED <<alocks, job, acked>>, NEW u,
         \A t \in Clients \ {u} : call'[t] = call[t] /\ reply'[t] = reply[t],
         Lined', \A j \in Keys : Steady(j), u \in Updaters => Current(u)'
  PROVE  AtomicInv'
<1>1. JobsRest(u)
  BY UpdaterFacts DEF JobsRest
<1>2. ASSUME u \in Updaters PROVE Stored(u)'
  <2>1. SUFFICES ASSUME job[u].phase = "putting" PROVE u \in PagesIn(cache', call', disk', job[u].term)
    BY DEF Stored
  <2>2. job[u].term \in Keys /\ u \in PagesIn(cache, call, disk, job[u].term)
    BY <1>2, <2>1 DEF AtomicInv, Stored, Orderly, Jobbed, JobFits
  <2>3. QED BY <2>2 DEF Steady
<1>3. QED BY <1>1, <1>2, NoneDue, SteadyGrows, Assembled

\* What an update found stays while its evicted entry is written.
LEMMA OwnCurrent ==
  ASSUME AtomicInv, NEW u \in Updaters, job' = job, \A j \in Keys : Steady(j), reply'[u] = reply[u],
         call[u].phase # "returned", call[u].phase \in {"awaitWrite", "writing"} \/ call'[u].phase = "loading"
  PROVE  Current(u)'
<1>1. SUFFICES ASSUME Answered(job[u], call'[u], reply[u])
               PROVE  ReadIn(call'[u], reply[u], cache', call', disk', job[u].term)
  BY DEF Current
<1>2. job[u].term \in Keys /\ Answered(job[u], call[u], reply[u])
  BY <1>1 DEF Answered, AtomicInv, Orderly, Jobbed, JobFits
<1>3. ReadIn(call[u], reply[u], cache, call, disk, job[u].term) /\ Steady(job[u].term)
  BY <1>2 DEF AtomicInv, Current
<1>4. QED BY <1>3 DEF ReadIn, Steady, CleanKey

LEMMA BackgroundKept ==
  ASSUME AtomicInv, [ANext]_allvars, ~CallbackDue, "write" \notin Faults, Background, UNCHANGED <<alocks, job, acked>>
  PROVE  AtomicInv' /\ \A j \in Keys : Steady(j)
<1>1. Orderly /\ Jobbed /\ Typed /\ job' = job
  BY OrderlyMeans DEF AtomicInv
<1>2. ASSUME NEW t \in Clients, call[t].phase # "idle", Others(t), Lined', \A j \in Keys : Steady(j),
             t \in Updaters => Current(t)'
      PROVE  AtomicInv' /\ \A j \in Keys : Steady(j)
  <2>1. \A u \in Clients \ {t} : call'[u] = call[u] /\ reply'[u] = reply[u]
    BY <1>2 DEF Others
  <2>2. QED BY <1>2, <2>1, CallKept
<1>3. ASSUME NEW t \in Clients, BeginLoad(t) PROVE AtomicInv' /\ \A j \in Keys : Steady(j)
  <2>1. Lined' /\ (\A j \in Keys : Steady(j)) /\ Others(t)
    BY <1>1, <1>3, BeginLoadOrders
  <2>2. call[t].phase = "awaitLoad" /\ reply'[t] = reply[t]
    BY <1>3 DEF BeginLoad, Obtain
  <2>3. call'[t].phase = "loading"
    <3>1. call[t] = [phase |-> call[t].phase, key |-> call[t].key, item |-> call[t].item] /\ t \in Tasks
      BY <1>1, Constants DEF Typed, Calls
    <3>2. call' = [call EXCEPT ![t].phase = "loading"]
      BY <1>3 DEF BeginLoad
    <3>3. QED BY <1>1, <3>1, <3>2 DEF Typed
  <2>4. t \in Updaters => Current(t)'
    BY <1>1, <2>1, <2>2, <2>3, OwnCurrent
  <2>5. QED BY <1>2, <2>1, <2>2, <2>4
<1>4. ASSUME NEW t \in Clients, BeginWrite(t) PROVE AtomicInv' /\ \A j \in Keys : Steady(j)
  <2>1. Lined' /\ (\A j \in Keys : Steady(j)) /\ Others(t)
    BY <1>1, <1>4, BeginWriteOrders
  <2>2. call[t].phase = "awaitWrite" /\ reply'[t] = reply[t]
    BY <1>4 DEF BeginWrite, Obtain
  <2>3. t \in Updaters => Current(t)'
    BY <1>1, <2>1, <2>2, OwnCurrent
  <2>4. QED BY <1>2, <2>1, <2>2, <2>3
<1>5. ASSUME NEW t \in Clients, EndWrite(t) PROVE AtomicInv' /\ \A j \in Keys : Steady(j)
  <2>1. Lined' /\ (\A j \in Keys : Steady(j)) /\ Others(t) /\ reply'[t] = reply[t]
    BY <1>1, <1>5, EndWriteOrders
  <2>2. call[t].phase = "writing"
    BY <1>5 DEF EndWrite
  <2>3. t \in Updaters => Current(t)'
    BY <1>1, <2>1, <2>2, OwnCurrent
  <2>4. QED BY <1>2, <2>1, <2>2, <2>3
<1>6. ASSUME NEW t \in Clients, EndLoad(t) PROVE AtomicInv' /\ \A j \in Keys : Steady(j)
  <2>1. Lined' /\ (\A j \in Keys : Steady(j)) /\ Others(t) /\ (reply'[t] = Failed \/ Loaded(t, call[t].key))
    BY <1>1, <1>6, EndLoadOrders
  <2>2. call[t].phase = "loading"
    BY <1>6 DEF EndLoad
  <2>3. ASSUME t \in Updaters PROVE Current(t)'
    <3>1. job[t].phase = "reading" /\ job[t].term = call[t].key
      BY <1>1, <2>2, <2>3 DEF Jobbed, JobFits, Jobs
    <3>2. SUFFICES ASSUME Answered(job[t], call'[t], reply'[t])
                   PROVE  ReadIn(call'[t], reply'[t], cache', call', disk', job[t].term)
      BY <1>1 DEF Current
    <3>3. Loaded(t, job[t].term)
      BY <2>1, <3>1, <3>2 DEF Answered
    <3>4. QED BY <3>3 DEF Loaded, ReadIn, FoundIn, CleanKey
  <2>4. QED BY <1>2, <2>1, <2>2, <2>3
<1>7. ASSUME NEW t \in Clients, BeginDel(t) \/ EndDel(t) PROVE FALSE
  <2>1. call[t].phase \in {"awaitDel", "deleting"}
    BY <1>7 DEF BeginDel, EndDel, Obtain
  <2>2. t \in Updaters
    BY <1>1, <2>1, CallersUpdate
  <2>3. QED BY <1>1, <2>1, <2>2 DEF Jobbed, JobFits, Jobs
<1>8. ASSUME NEW k \in Keys, BeginFlush(k) \/ EndFlush(k) PROVE AtomicInv' /\ \A j \in Keys : Steady(j)
  <2>1. Lined' /\ (\A j \in Keys : Steady(j)) /\ OnlyKeys
    BY <1>1, <1>8, BeginFlushOrders, EndFlushOrders
  <2>2. k \notin Updaters /\ \A t \in Clients \ {k} : call'[t] = call[t] /\ reply'[t] = reply[t]
    BY <2>1, UpdaterFacts DEF OnlyKeys
  <2>3. QED BY <2>1, <2>2, CallKept
<1>9. QED BY <1>3, <1>4, <1>5, <1>6, <1>7, <1>8 DEF Background, Obtained, Completed

LEMMA FlushKept ==
  ASSUME AtomicInv, [ANext]_allvars, ~CallbackDue, FlushTerms
  PROVE  AtomicInv' /\ \A j \in Keys : Steady(j)
<1>1. Lined' /\ (\A j \in Keys : Steady(j)) /\ OnlyKeys /\ UNCHANGED <<alocks, job, acked>>
  BY FlushOrders DEF AtomicInv, FlushTerms
<1>2. Nobody \notin Updaters /\ \A t \in Clients \ {Nobody} : call'[t] = call[t] /\ reply'[t] = reply[t]
  BY <1>1, UpdaterFacts DEF OnlyKeys
<1>3. QED BY <1>1, <1>2, CallKept

LEMMA AtomicStutter ==
  ASSUME AtomicInv, UNCHANGED allvars
  PROVE  AtomicInv'
<1>1. /\ cache' = cache /\ call' = call /\ disk' = disk /\ locks' = locks /\ reply' = reply
      /\ job' = job /\ acked' = acked
  BY DEF allvars, vars, avars
<1>2. StoreInv' /\ Jobbed' /\ Writable'
  BY StorePart, JobbedKept, WritableKept DEF AtomicInv, Orderly
<1>3. QED BY <1>1, <1>2 DEF AtomicInv, Orderly, Lined, Once, OneDue, Due, Current, Stored, Kept

LEMMA AtomicStep ==
  ASSUME AtomicInv, [ANext]_allvars, "write" \notin Faults
  PROVE  AtomicInv'
<1>1. ASSUME NEW u \in Updaters, InTurn(u) PROVE AtomicInv'
  BY <1>1, ReadKept, ModifyKept, AnswerKept DEF InTurn
<1>2. ASSUME ~CallbackDue, NEW u \in Updaters, ObtainAtomic(u) \/ \E k \in Keys : Update(u, k) PROVE AtomicInv'
  BY <1>2, AsksKept
<1>3. ASSUME ~CallbackDue, FlushTerms PROVE AtomicInv'
  BY <1>3, FlushKept
<1>4. ASSUME ~CallbackDue, StoreStep PROVE AtomicInv'
  BY <1>4, BackgroundKept DEF StoreStep
<1>5. QED BY <1>1, <1>2, <1>3, <1>4, AtomicStutter DEF ANext

LEMMA AtomicBegins == AInit => AtomicInv
<1> SUFFICES ASSUME AInit PROVE AtomicInv
  OBVIOUS
<1>1. StoreInv /\ Jobbed /\ Writable
  BY JobInit DEF JobInv
<1>2. /\ cache = << >> /\ (\A t \in Tasks : call[t] = NoCall) /\ (\A s \in SyncKeys : locks[s] = FreeLock)
      /\ (\A u \in Updaters : job[u] = NoJob) /\ acked = [k \in Keys |-> {}] /\ disk = [k \in Keys |-> Absent]
  BY DEF AInit, Init
<1>3. NoCall.phase = "idle" /\ NoJob.phase = "idle" /\ FreeLock.queue = << >> /\ FreeLock.holder = Nobody
  BY DEF NoCall, NoJob, FreeLock
<1>4. \A t \in Tasks, k \in Keys : ~SavesUp(call[t], k) /\ ~Loads(call[t], k) /\ call[t].phase = "idle"
  BY <1>2, <1>3 DEF SavesUp, Loads
<1>5. Lined
  <2>1. ASSUME NEW s \in SyncKeys PROVE LinedUp(locks[s].queue, locks[s].holder, call, s)
    <3>1. locks[s].queue = << >> /\ locks[s].holder \notin Clients /\ Len(<< >>) = 0
      BY <1>2, <1>3, CachedStoreAssumption, EmptySeq
    <3>2. \A t \in Clients : call[t].phase # "awaitWrite"
      BY <1>4, Constants, <1>2, <1>3
    <3>3. QED BY <3>1, <3>2 DEF LinedUp
  <2>2. QED BY <2>1 DEF Lined
<1>6. Once
  <2>1. CachedKeys(cache) = {}
    BY <1>2, EmptySeq DEF CachedKeys
  <2>2. \A t \in Tasks : call[t].phase = "idle"
    BY <1>2, <1>3
  <2>3. ASSUME NEW k \in Keys PROVE KeyOnce(cache, call, disk, k)
    BY <1>4, <2>1, <2>2, Constants DEF KeyOnce
  <2>4. QED BY <2>3 DEF Once
<1>7. \A u \in Updaters : ~Due(u) /\ Current(u) /\ Stored(u)
  BY <1>2, <1>3 DEF Due, DueFor, Current, Answered, Stored
<1>8. Kept
  BY <1>2 DEF Kept
<1>9. QED BY <1>1, <1>5, <1>6, <1>7, <1>8 DEF AtomicInv, Orderly, OneDue

THEOREM AtomicInvariant ==
  ASSUME "write" \notin Faults
  PROVE  ASpec => []AtomicInv
<1>1. AtomicInv /\ [ANext]_allvars => AtomicInv'
  BY AtomicStep
<1>2. QED BY <1>1, AtomicBegins, PTL DEF ASpec

\* A page whose update was acknowledged is never lost: not by another update
\* of its term, by an eviction or by a flush, whatever reads fail.  A failed
\* write does lose it, which the cached store reports to its caller.
THEOREM UpdatesAreKept ==
  ASSUME "write" \notin Faults
  PROVE  ASpec => []NoLostUpdate
<1>1. AtomicInv => NoLostUpdate
  BY PagesAre DEF AtomicInv, Kept, NoLostUpdate
<1>2. QED BY <1>1, AtomicInvariant, PTL

----------------------------------------------------------------------------
(* The refinement of the atomic index *)

Pages == [k \in Keys |-> PagesOf(k)]
Terms == [u \in Updaters |-> job[u].term]
Adding == {u \in Updaters : job[u].phase = "putting"}

LEMMA PagesStay ==
  ASSUME \A k \in Keys : Steady(k)
  PROVE  Pages' = Pages
<1>1. \A k \in Keys : PagesOf(k)' = PagesOf(k)
  BY PagesAre DEF Steady
<1>2. QED BY <1>1 DEF Pages

\* The job of u moves to phase p and term k.
LEMMA JobsView ==
  ASSUME Jobbed, NEW u \in Updaters, NEW p, NEW k, job' = [job EXCEPT ![u] = [phase |-> p, term |-> k]]
  PROVE  /\ Terms' = [Terms EXCEPT ![u] = k] /\ Terms[u] = job[u].term
         /\ Adding' = IF p = "putting" THEN Adding \cup {u} ELSE Adding \ {u}
         /\ u \in Adding <=> job[u].phase = "putting"
<1> DEFINE j == [phase |-> p, term |-> k]
<1>1. \A v \in Updaters : job'[v] = IF v = u THEN j ELSE job[v]
  BY DEF Jobbed
<1>2. j.phase = p /\ j.term = k
  OBVIOUS
<1> HIDE DEF j
<1>3. Terms' = [Terms EXCEPT ![u] = k] /\ Terms[u] = job[u].term
  <2>1. \A v \in Updaters : job'[v].term = IF v = u THEN k ELSE job[v].term
    BY <1>1, <1>2
  <2>2. Terms' = [v \in Updaters |-> IF v = u THEN k ELSE job[v].term]
    BY <2>1 DEF Terms
  <2>3. QED BY <2>2 DEF Terms
<1>4. QED BY <1>1, <1>2, <1>3 DEF Adding

IndexStep ==
  \/ UNCHANGED <<Pages, Terms, Adding, acked>>
  \/ \E u \in Updaters :
       \/ \E k \in Keys : /\ Terms[u] = NoKey /\ Terms' = [Terms EXCEPT ![u] = k]
                          /\ UNCHANGED <<Pages, Adding, acked>>
       \/ /\ Terms[u] # NoKey /\ u \notin Adding /\ u \notin Pages[Terms[u]]
          /\ Pages' = [Pages EXCEPT ![Terms[u]] = @ \cup {u}] /\ Adding' = Adding \cup {u}
          /\ UNCHANGED <<Terms, acked>>
       \/ /\ u \in Adding /\ acked' = [acked EXCEPT ![Terms[u]] = @ \cup {u}]
          /\ Terms' = [Terms EXCEPT ![u] = NoKey] /\ Adding' = Adding \ {u}
          /\ Pages' = Pages
       \/ /\ Terms[u] # NoKey /\ Terms' = [Terms EXCEPT ![u] = NoKey] /\ Adding' = Adding \ {u}
          /\ UNCHANGED <<Pages, acked>>

LEMMA IndexMapped == IndexStep <=> [Index!Next]_(Index!vars)
  BY DEF IndexStep, Index!Next, Index!vars, Index!Begin, Index!Add, Index!Ack, Index!Refuse, Pages, Terms, Adding

LEMMA TurnMapped ==
  ASSUME AtomicInv, [ANext]_allvars, NEW u \in Updaters, InTurn(u)
  PROVE  IndexStep
<1> DEFINE k == job[u].term
<1>1. Jobbed /\ Orderly /\ NoKey \notin Keys /\ NoJob.phase = "idle" /\ NoJob.term = NoKey
  BY UpdaterFacts DEF AtomicInv, Orderly, NoJob
<1>2. CASE Read(u)
  <2>1. TryGet(u, k) /\ Turns(u, "reading") /\ acked' = acked /\ k \in Keys /\ u \in Clients /\ job[u].phase = "locked"
    BY <1>1, <1>2, UpdaterFacts DEF Read, Turns, ATerm, Jobbed, JobFits
  <2>2. Pages' = Pages
    BY <1>1, <2>1, TryGetOrders, PagesStay
  <2>3. job' = [job EXCEPT ![u] = [phase |-> "reading", term |-> k]]
    BY <1>1, <2>1, JobMoves
  <2> HIDE DEF k
  <2>4. Terms' = [Terms EXCEPT ![u] = k] /\ Terms[u] = k /\ Adding' = Adding \ {u} /\ u \notin Adding
    <3>1. job[u].phase = "locked"
      BY <2>1
    <3>2. /\ Terms' = [Terms EXCEPT ![u] = k] /\ Terms[u] = job[u].term
          /\ Adding' = IF "reading" = "putting" THEN Adding \cup {u} ELSE Adding \ {u}
          /\ u \in Adding <=> job[u].phase = "putting"
      BY <1>1, <2>3, JobsView
    <3>3. QED BY <3>1, <3>2 DEF k
  <2>5. Terms' = Terms /\ Adding' = Adding
    BY <2>4 DEF Terms
  <2>6. QED BY <2>1, <2>2, <2>5 DEF IndexStep
<1>3. CASE Modify(u)
  <2>1. /\ k \in Keys /\ u \notin PagesIn(cache, call, disk, k)
        /\ PagesIn(cache', call', disk', k) = PagesIn(cache, call, disk, k) \cup {u}
        /\ \A j \in Keys \ {k} : PagesIn(cache', call', disk', j) = PagesIn(cache, call, disk, j)
    BY <1>3, ModifyKept
  <2>2. Turns(u, "putting") /\ acked' = acked /\ job[u].phase = "reading"
    BY <1>3 DEF Modify, Turns
  <2>3. /\ Pages[k] = PagesIn(cache, call, disk, k)
        /\ Pages' = [Pages EXCEPT ![k] = @ \cup {u}]
    BY <2>1, PagesAre DEF Pages
  <2>4. job' = [job EXCEPT ![u] = [phase |-> "putting", term |-> k]]
    BY <1>1, <2>2, JobMoves
  <2> HIDE DEF k
  <2>5. Terms' = [Terms EXCEPT ![u] = k] /\ Terms[u] = k /\ Adding' = Adding \cup {u} /\ u \notin Adding
    BY <1>1, <2>2, <2>4, JobsView DEF k
  <2>6. Terms' = Terms
    BY <2>5 DEF Terms
  <2>7. QED BY <1>1, <2>1, <2>2, <2>3, <2>5, <2>6 DEF IndexStep
<1>4. CASE GiveUp(u) \/ Finish(u)
  <2>1. Pages' = Pages
    BY <1>4, AnswerKept, PagesStay
  <2>2. k \in Keys /\ job' = [job EXCEPT ![u] = [phase |-> "idle", term |-> NoKey]]
    BY <1>1, <1>4 DEF GiveUp, Finish, Answer, NoJob, Jobbed, JobFits
  <2>3. /\ Terms' = [Terms EXCEPT ![u] = NoKey] /\ Terms[u] = k /\ Adding' = Adding \ {u}
        /\ u \in Adding <=> job[u].phase = "putting"
    BY <1>1, <2>2, JobsView
  <2>4. CASE acked' = acked
    BY <1>1, <2>1, <2>2, <2>3, <2>4 DEF IndexStep
  <2>5. CASE job[u].phase = "putting" /\ acked' = [acked EXCEPT ![k] = @ \cup {u}]
    BY <2>1, <2>3, <2>5 DEF IndexStep
  <2>6. GiveUp(u) => acked' = acked
    BY DEF GiveUp
  <2>7. Finish(u) => job[u].phase = "putting" /\ (acked' = acked \/ acked' = [acked EXCEPT ![k] = @ \cup {u}])
    BY DEF Finish, ATerm
  <2>8. QED BY <1>4, <2>4, <2>5, <2>6, <2>7
<1>5. QED BY <1>2, <1>3, <1>4 DEF InTurn

LEMMA AsksMapped ==
  ASSUME AtomicInv, NEW u \in Updaters, ObtainAtomic(u) \/ \E k \in Keys : Update(u, k)
  PROVE  IndexStep
<1>1. Jobbed /\ Orderly /\ NoKey \notin Keys /\ NoJob.phase = "idle" /\ NoJob.term = NoKey
  BY UpdaterFacts DEF AtomicInv, Orderly, NoJob
<1>2. Pages' = Pages /\ acked' = acked
  BY <1>1, StillSteady, PagesStay DEF ObtainAtomic, Update
<1>3. CASE ObtainAtomic(u)
  <2> DEFINE k == job[u].term
  <2>1. Turns(u, "locked") /\ job[u].phase = "awaitAtomic"
    BY <1>3 DEF ObtainAtomic, Turns
  <2>2. job' = [job EXCEPT ![u] = [phase |-> "locked", term |-> k]]
    BY <1>1, <2>1, JobMoves
  <2> HIDE DEF k
  <2>3. Terms' = [Terms EXCEPT ![u] = k] /\ Terms[u] = k /\ Adding' = Adding \ {u} /\ u \notin Adding
    BY <1>1, <2>1, <2>2, JobsView DEF k
  <2>4. Terms' = Terms /\ Adding' = Adding
    BY <2>3 DEF Terms
  <2>5. QED BY <1>2, <2>4 DEF IndexStep
<1>4. ASSUME NEW k \in Keys, Update(u, k) PROVE IndexStep
  <2> DEFINE p == AskPhase(alocks, SyncOf[k], u, "awaitAtomic", "locked")
  <2>1. job' = [job EXCEPT ![u] = [phase |-> p, term |-> k]] /\ job[u].phase = "idle"
    BY <1>4 DEF Update
  <2>2. p \in {"awaitAtomic", "locked"}
    BY AskPhases
  <2> HIDE DEF p
  <2>3. p # "putting"
    BY <2>2
  <2>4. Terms' = [Terms EXCEPT ![u] = k] /\ Terms[u] = job[u].term /\ Adding' = Adding \ {u} /\ u \notin Adding
    BY <1>1, <2>1, <2>3, JobsView
  <2>5. Terms[u] = NoKey /\ Adding' = Adding
    BY <1>1, <2>1, <2>4 DEF Jobbed, JobFits
  <2>6. QED BY <1>2, <2>4, <2>5 DEF IndexStep
<1>5. QED BY <1>3, <1>4

LEMMA StepMapped ==
  ASSUME AtomicInv, [ANext]_allvars, "write" \notin Faults
  PROVE  IndexStep
<1>1. ASSUME \A k \in Keys : Steady(k), job' = job, acked' = acked PROVE IndexStep
  BY <1>1, PagesStay DEF IndexStep, Terms, Adding
<1>2. ASSUME ~CallbackDue, FlushTerms \/ StoreStep PROVE IndexStep
  <2>1. job' = job /\ acked' = acked
    BY <1>2 DEF FlushTerms, StoreStep
  <2>2. \A k \in Keys : Steady(k)
    BY <1>2, FlushKept, BackgroundKept DEF StoreStep
  <2>3. QED BY <1>1, <2>1, <2>2
<1>3. CASE UNCHANGED allvars
  <2>1. UNCHANGED vars /\ job' = job /\ acked' = acked
    BY <1>3 DEF allvars, avars
  <2>2. \A k \in Keys : Steady(k)
    BY <2>1, StillSteady DEF AtomicInv
  <2>3. QED BY <1>1, <2>1, <2>2
<1>4. QED BY <1>2, <1>3, TurnMapped, AsksMapped DEF ANext

LEMMA InitMapped == AInit => Index!Init
<1> SUFFICES ASSUME AInit PROVE Index!Init
  OBVIOUS
<1>1. \A u \in Updaters : job[u].phase = "idle" /\ job[u].term = NoKey
  BY DEF AInit, NoJob
<1>2. \A k \in Keys : PagesOf(k) = {}
  <2>1. cache = << >> /\ (\A k \in Keys : disk[k] = Absent) /\ \A t \in Clients : call[t].phase = "idle"
    BY Constants DEF AInit, Init, NoCall
  <2>2. Cached = {} /\ \A k \in Keys : Saving(k) = {}
    BY <2>1, EmptySeq DEF Cached, CachedKeys, Saving
  <2>3. QED BY <2>1, <2>2 DEF PagesOf
<1>3. acked = [k \in Keys |-> {}]
  BY DEF AInit
<1>4. QED BY <1>1, <1>2, <1>3 DEF Index!Init

\* getAndModify over the cached store is an index in which each update adds its
\* page at once, between its call and its answer.
THEOREM AtomicRefines ==
  ASSUME "write" \notin Faults
  PROVE  ASpec => ImplementsAtomicIndex
<1>1. AtomicInv /\ [ANext]_allvars => [Index!Next]_(Index!vars)
  BY StepMapped, IndexMapped
<1>2. QED BY <1>1, InitMapped, AtomicInvariant, PTL DEF ASpec, ImplementsAtomicIndex, Index!Spec

----------------------------------------------------------------------------
(* Flushes that no update overlaps *)

\* While such a flush runs no client calls, a key that is still to be flushed is
\* cached, and a cached value is to be written, or is written, or was written.
OnItsWay(k) ==
  /\ call[k].phase # "idle" => k \in Cached
  /\ k \in Cached => \/ call[k].phase = "awaitFlush"
                     \/ call[k].phase = "flushing" /\ call[k].item = ValueOf(cache, k).data
                     \/ call[k].phase = "idle" /\ disk[k] = ValueOf(cache, k).data

QuietInv == flush = "running" /\ quiet => Busy = {} /\ \A k \in Keys : OnItsWay(k)

LEMMA QuietClients ==
  ASSUME JobInv, Busy = {}
  PROVE  /\ \A t \in Clients : call[t].phase = "idle"
         /\ \A u \in Updaters : job[u].phase = "idle"
         /\ \A k \in Keys : Saving(k) = {}
<1>1. \A u \in Updaters : job[u].phase = "idle" /\ JobFits(job[u], call[u], reply[u])
  BY DEF Busy, JobInv, Jobbed
<1>2. \A t \in Clients : call[t].phase = "idle"
  BY <1>1 DEF JobFits, JobInv, Jobbed
<1>3. QED BY <1>1, <1>2 DEF Saving

\* The flush runs on when no client calls: the steps of one key.
LEMMA QuietKeys ==
  ASSUME JobInv, Busy = {}, Background
  PROVE  \E k \in Keys : BeginFlush(k) \/ EndFlush(k)
<1>1. \A t \in Clients : call[t].phase = "idle"
  BY QuietClients
<1>2. \A t \in Clients : ~Obtained(t) /\ ~Completed(t)
  BY <1>1 DEF Obtained, Completed, BeginLoad, BeginWrite, BeginDel, EndLoad, EndWrite, EndDel, Obtain
<1>3. QED BY <1>2 DEF Background

\* The step of key k: what stays, and what it wrote.
LEMMA KeyStep ==
  ASSUME JobInv, \A j \in Keys : OnItsWay(j), "write" \notin Faults, NEW k \in Keys, BeginFlush(k) \/ EndFlush(k)
  PROVE  /\ Alike(cache, cache') /\ k \in Cached /\ flush' \in {flush, "returned"}
         /\ \A j \in Keys \ {k} : call'[j] = call[j] /\ disk'[j] = disk[j]
         /\ \/ call'[k].phase = "flushing" /\ call'[k].item = ValueOf(cache, k).data /\ flush' = flush
            \/ call'[k].phase = "idle" /\ disk'[k] = ValueOf(cache, k).data
         /\ flush' # flush => \A j \in Keys \ {k} : Idle(j)
<1>1. /\ cache \in Caches /\ disk \in [Keys -> Values \cup {Absent}] /\ DOMAIN call = Tasks /\ k \in Tasks
      /\ \A j \in Keys : j \in Tasks
  BY Constants DEF JobInv, StoreInv, Typed
<1>2. k \in Cached /\ OnItsWay(k)
  BY DEF BeginFlush, EndFlush, Obtain, OnItsWay
<1>3. CASE BeginFlush(k)
  <2> DEFINE r == [phase |-> "flushing", key |-> k, item |-> ValueOf(cache, k).data]
  <2>1. cache' = Touch(cache, k, FifoCache) /\ call' = [call EXCEPT ![k] = r] /\ disk' = disk /\ flush' = flush
    BY <1>2, <1>3 DEF BeginFlush
  <2>2. Alike(cache, cache')
    BY <1>1, <1>2, <2>1, TouchKeeps DEF Cached
  <2>3. r.phase = "flushing" /\ r.item = ValueOf(cache, k).data
    OBVIOUS
  <2> HIDE DEF r
  <2>4. call'[k] = r /\ \A j \in Keys \ {k} : call'[j] = call[j]
    BY <1>1, <2>1
  <2>5. QED BY <1>2, <2>1, <2>2, <2>3, <2>4
<1>4. CASE EndFlush(k)
  <2>1. /\ call[k].phase = "flushing" /\ call' = [call EXCEPT ![k] = NoCall] /\ cache' = cache
        /\ disk' = [disk EXCEPT ![k] = call[k].item]
        /\ flush' \in {flush, "returned"} /\ (flush' # flush => \A j \in Keys \ {k} : Idle(j))
    BY <1>4 DEF EndFlush, Flushed, Write, WriteFails
  <2>2. NoCall.phase = "idle"
    BY DEF NoCall
  <2>3. call'[k].phase = "idle" /\ \A j \in Keys \ {k} : call'[j] = call[j]
    BY <1>1, <2>1, <2>2
  <2>4. call[k].item = ValueOf(cache, k).data
    BY <1>2, <2>1 DEF OnItsWay
  <2>5. \A j \in Keys : disk'[j] = IF j = k THEN ValueOf(cache, k).data ELSE disk[j]
    BY <1>1, <2>1, <2>4
  <2>6. Alike(cache, cache')
    BY <2>1 DEF Alike
  <2>7. QED BY <1>2, <2>1, <2>3, <2>5, <2>6
<1>5. QED BY <1>3, <1>4

LEMMA QuietKept ==
  ASSUME JobInv, QuietInv, [ANext]_allvars, "write" \notin Faults
  PROVE  QuietInv'
<1> SUFFICES ASSUME flush' = "running", quiet'
             PROVE  Busy' = {} /\ \A k \in Keys : OnItsWay(k)'
  BY DEF QuietInv
<1>1. ASSUME flush' = flush, quiet' = quiet, Busy # {} PROVE FALSE
  BY <1>1 DEF QuietInv
<1>2. ASSUME flush = "running", quiet PROVE Busy = {} /\ \A k \in Keys : OnItsWay(k)
  BY <1>2 DEF QuietInv
<1>3. ASSUME NEW u \in Updaters, InTurn(u) PROVE FALSE
  <2>1. flush' = flush /\ quiet' = quiet
    BY <1>3 DEF InTurn, Read, TryGet, Modify, Put, GiveUp, Finish, Answer
  <2>2. u \in Busy
    BY <1>3 DEF InTurn, Read, Modify, GiveUp, Finish, Busy
  <2>3. QED BY <1>1, <2>1, <2>2
<1>4. ASSUME NEW u \in Updaters, ObtainAtomic(u) PROVE FALSE
  <2>1. flush' = flush /\ quiet' = quiet /\ u \in Busy
    BY <1>4 DEF ObtainAtomic, vars, Busy
  <2>2. QED BY <1>1, <2>1
<1>5. ASSUME NEW u \in Updaters, NEW k \in Keys, Update(u, k) PROVE FALSE
  BY <1>5 DEF Update, Disturb, vars
<1>6. CASE FlushTerms
  <2>1. Typed /\ Writable /\ Flush /\ Busy = {} /\ job' = job
    BY <1>6 DEF FlushTerms, JobInv, StoreInv
  <2>2. Busy' = {}
    BY <2>1 DEF Busy
  <2>3. Alike(cache, cache') /\ Cached \subseteq Keys
    BY <2>1, FlushesAll, FlushOrder, Lookup DEF Flushing, Typed, Cached
  <2>4. ASSUME NEW k \in Keys PROVE OnItsWay(k)'
    <3>1. k \in Tasks /\ call[k].phase = "idle"
      BY <2>1, Constants DEF Flush, Idle, Typed, Fits
    <3>2. CASE k \notin Cached
      <4>1. call'[k] = call[k] /\ k \notin Cached'
        BY <2>1, <2>3, <3>1, <3>2, FlushesAll DEF Alike, Cached
      <4>2. QED BY <3>1, <4>1 DEF OnItsWay
    <3>3. CASE k \in Cached
      <4>1. k \in Cached' /\ ValueOf(cache', k) = ValueOf(cache, k)
        BY <2>3, <3>3 DEF Alike, Cached
      <4>2. \/ call'[k] = [phase |-> "flushing", key |-> k, item |-> ValueOf(cache, k).data]
            \/ call'[k] = [phase |-> "awaitFlush", key |-> k, item |-> Absent]
        BY <2>1, <3>1, <3>3, FlushesAll DEF NoCall
      <4>3. CASE call'[k] = [phase |-> "flushing", key |-> k, item |-> ValueOf(cache, k).data]
        <5>1. call'[k].phase = "flushing" /\ call'[k].item = ValueOf(cache, k).data
          BY <4>3
        <5>2. QED BY <4>1, <5>1 DEF OnItsWay
      <4>4. CASE call'[k] = [phase |-> "awaitFlush", key |-> k, item |-> Absent]
        <5>1. call'[k].phase = "awaitFlush"
          BY <4>4
        <5>2. QED BY <4>1, <5>1 DEF OnItsWay
      <4>5. QED BY <4>2, <4>3, <4>4
    <3>4. QED BY <3>2, <3>3
  <2>5. QED BY <2>2, <2>4
<1>7. CASE StoreStep
  <2>1. Background /\ quiet /\ job' = job /\ quiet \in BOOLEAN
    BY <1>7 DEF StoreStep, JobInv, Jobbed
  <2>2. flush = "running"
    BY <2>1 DEF Background, Obtained, Completed, BeginLoad, BeginWrite, BeginDel, EndLoad, EndWrite, EndDel,
                BeginFlush, EndFlush, Flushed
  <2>3. Busy = {} /\ \A k \in Keys : OnItsWay(k)
    BY <1>2, <2>1, <2>2
  <2>4. PICK k \in Keys : BeginFlush(k) \/ EndFlush(k)
    BY <2>1, <2>3, QuietKeys
  <2>5. /\ Alike(cache, cache') /\ k \in Cached
        /\ \A j \in Keys \ {k} : call'[j] = call[j] /\ disk'[j] = disk[j]
        /\ \/ call'[k].phase = "flushing" /\ call'[k].item = ValueOf(cache, k).data
           \/ call'[k].phase = "idle" /\ disk'[k] = ValueOf(cache, k).data
    BY <2>3, <2>4, KeyStep
  <2>6. ASSUME NEW j \in Keys PROVE OnItsWay(j)'
    <3>1. (j \in Cached' <=> j \in Cached) /\ (j \in Cached => ValueOf(cache', j) = ValueOf(cache, j))
      BY <2>5 DEF Alike, Cached
    <3>2. QED BY <2>3, <2>5, <3>1 DEF OnItsWay
  <2>7. QED BY <2>1, <2>3, <2>6 DEF Busy
<1>8. CASE UNCHANGED allvars
  <2>1. /\ cache' = cache /\ call' = call /\ disk' = disk /\ job' = job /\ flush = "running" /\ quiet
    BY <1>8 DEF allvars, avars, vars
  <2>2. QED BY <1>2, <2>1 DEF Busy, OnItsWay, Cached
<1>9. QED BY <1>3, <1>4, <1>5, <1>6, <1>7, <1>8 DEF ANext

\* What the last key of a quiet flush leaves on disk.
QuietSaves ==
  flush = "running" /\ flush' = "returned" /\ quiet =>
    \A k \in Keys : PagesOf(k) = {} \/ PagesOf(k) = disk'[k]

LEMMA LastKeySaves ==
  ASSUME JobInv, QuietInv, [ANext]_allvars, "write" \notin Faults
  PROVE  QuietSaves
<1> SUFFICES ASSUME flush = "running", flush' = "returned", quiet, NEW j \in Keys
             PROVE  PagesOf(j) = {} \/ PagesOf(j) = disk'[j]
  BY DEF QuietSaves
<1>1. Busy = {} /\ \A k \in Keys : OnItsWay(k)
  BY DEF QuietInv
<1>2. StoreStep
  <2>1. ASSUME NEW u \in Updaters, InTurn(u) PROVE FALSE
    BY <2>1 DEF InTurn, Read, TryGet, Modify, Put, GiveUp, Finish, Answer
  <2>2. ASSUME NEW u \in Updaters, ObtainAtomic(u) \/ \E k \in Keys : Update(u, k) PROVE FALSE
    BY <2>2 DEF ObtainAtomic, Update, vars
  <2>3. ~FlushTerms
    BY DEF FlushTerms, Flush
  <2>4. ~UNCHANGED allvars
    BY DEF allvars, vars
  <2>5. QED BY <2>1, <2>2, <2>3, <2>4 DEF ANext
<1>3. PICK k \in Keys : BeginFlush(k) \/ EndFlush(k)
  BY <1>1, <1>2, QuietKeys DEF StoreStep
<1>4. /\ k \in Cached /\ disk'[k] = ValueOf(cache, k).data
      /\ \A i \in Keys \ {k} : disk'[i] = disk[i] /\ Idle(i)
  BY <1>1, <1>3, KeyStep
<1>5. Saving(j) = {}
  BY <1>1, QuietClients
<1>6. CASE j \in Cached
  <2>1. PagesOf(j) = ValueOf(cache, j).data
    BY <1>6 DEF PagesOf
  <2>2. disk'[j] = ValueOf(cache, j).data
    BY <1>1, <1>4, <1>6 DEF Idle, OnItsWay
  <2>3. QED BY <2>1, <2>2
<1>7. CASE j \notin Cached
  BY <1>4, <1>5, <1>7 DEF PagesOf
<1>8. QED BY <1>6, <1>7

\* A flush that no update overlaps calls back when the whole index is on disk,
\* for any terms, files and capacity, when writes succeed: the shutdown of
\* run.js loses nothing once the work of its node has ended.
THEOREM QuietFlushesSave ==
  ASSUME "write" \notin Faults
  PROVE  ASpec => QuietFlushSaves
<1>1. AInit => QuietInv
  BY DEF AInit, Init, QuietInv
<1>2. JobInv /\ QuietInv /\ [ANext]_allvars => QuietInv'
  BY QuietKept
<1>3. JobInv /\ QuietInv /\ [ANext]_allvars => [QuietSaves]_allvars
  BY LastKeySaves
<1>4. QED BY <1>1, <1>2, <1>3, JobInvariant, PTL DEF ASpec, QuietFlushSaves, QuietSaves
=============================================================================
