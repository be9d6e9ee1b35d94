------------------------------ MODULE RecencyOps -----------------------------
(***************************************************************************)
(* The cache of util/cache.js as its users see it: a sequence of entries,  *)
(* the most recently used one first.  Module LruCache models the doubly    *)
(* linked list behind this view and checks that it implements it.          *)
(***************************************************************************)
EXTENDS Sequences, Naturals

CONSTANTS Capacity,     \* how many entries the cache holds
          NoEntry       \* the result of a put that evicts nothing

Entry(k, v) == [key |-> k, value |-> v]

Position(c, k) == CHOOSE i \in DOMAIN c : c[i].key = k

CachedKeys(c) == {c[i].key : i \in DOMAIN c}

ValueOf(c, k) == c[Position(c, k)].value

Without(c, k) ==
    IF k \notin CachedKeys(c) THEN c
    ELSE [i \in 1 .. Len(c) - 1 |-> c[IF i < Position(c, k) THEN i ELSE i + 1]]

\* refresh: a first-in first-out cache keeps its order.
Touch(c, k, fifo) ==
    IF fifo THEN c ELSE <<c[Position(c, k)]>> \o Without(c, k)

Overwrite(c, k, v) == [c EXCEPT ![Position(c, k)].value = v]

\* put: the entry that a full cache evicts to make room, and the cache after.
Victim(c, k) ==
    IF k \in CachedKeys(c) \/ Len(c) < Capacity THEN NoEntry ELSE c[Len(c)]

\* Faulty variant: the entry evicted stays.
StoreBeyond(c, k, v, fifo) ==
    IF k \in CachedKeys(c) THEN Touch(Overwrite(c, k, v), k, fifo)
    ELSE <<Entry(k, v)>> \o c

Store(c, k, v, fifo) ==
    IF k \in CachedKeys(c)
    THEN Touch(Overwrite(c, k, v), k, fifo)
    ELSE <<Entry(k, v)>> \o
         (IF Len(c) < Capacity THEN c ELSE SubSeq(c, 1, Len(c) - 1))
==============================================================================
