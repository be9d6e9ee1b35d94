------------------------------- MODULE LruCache ------------------------------
(***************************************************************************)
(* The cache of util/cache.js: a mapping from keys to values and to the    *)
(* nodes of a doubly linked list, kept in order of recency.  A node is     *)
(* named by its key: the mapping holds at most one node of a key, and a    *)
(* node that leaves the mapping is never read again.                       *)
(*                                                                         *)
(* Each exported operation runs to completion, so it is one action; the    *)
(* internal functions insert, refresh and evict are operators on the       *)
(* record that the code passes around as cache.                            *)
(***************************************************************************)
EXTENDS Naturals, FiniteSets

CONSTANTS Keys, Values,
          Capacity,     \* the argument of createCache
          Null,         \* the null of the code's links
          NoEntry,      \* put evicted nothing, or a call returned nothing
          Thrown        \* the call threw "Key ... is not in the cache"

ASSUME LruAssumption == /\ Capacity \in Nat \ {0}
                        /\ Null \notin Keys

VARIABLES cache,        \* [head, tail, size, keys], the state of createCache
          fifo,         \* params.fifoCache, read once when the program starts
          result        \* what the last call returned

vars == <<cache, fifo, result>>

Link == Keys \cup {Null}

TypeOK ==
    /\ cache.head \in Link /\ cache.tail \in Link
    /\ cache.size \in 0 .. Capacity
    /\ \E K \in SUBSET Keys :
          cache.keys \in [K -> [value : Values, prev : Link, next : Link]]
    /\ fifo \in BOOLEAN

Empty == [head |-> Null, tail |-> Null, size |-> 0, keys |-> << >>]

Init == cache = Empty /\ fifo \in BOOLEAN /\ result = NoEntry

------------------------------------------------------------------------------
\* The mapping after node.prev.next = node.next and node.next.prev = node.prev.
Spliced(keys, k) ==
    [x \in DOMAIN keys |->
        [keys[x] EXCEPT !.next = IF x = keys[k].prev THEN keys[k].next ELSE @,
                        !.prev = IF x = keys[k].next THEN keys[k].prev ELSE @]]

WithoutKey(keys, k) == [x \in DOMAIN keys \ {k} |-> keys[x]]

\* The mapping after the list's head, if any, got k as its predecessor.
HeadAfter(keys, head, k) ==
    [x \in DOMAIN keys |-> IF x = head THEN [keys[x] EXCEPT !.prev = k] ELSE keys[x]]

\* Faulty variant: a refresh of the tail leaves the tail where it was.
RefreshedStaleTail(c, k) ==
    LET keys == HeadAfter(Spliced(c.keys, k), c.head, k)
    IN  IF c.head = k \/ fifo THEN c
        ELSE [c EXCEPT !.head = k,
                       !.keys = [keys EXCEPT ![k].prev = Null, ![k].next = c.head]]

\* refresh
Refreshed(c, k) ==
    LET keys == HeadAfter(Spliced(c.keys, k), c.head, k)
    IN  IF c.head = k \/ fifo THEN c
        ELSE [head |-> k,
              tail |-> IF c.tail = k THEN c.keys[k].prev ELSE c.tail,
              size |-> c.size,
              keys |-> [keys EXCEPT ![k].prev = Null, ![k].next = c.head]]

\* insert
Inserted(c, k, v) ==
    LET node == [value |-> v, prev |-> Null, next |-> c.head]
        keys == HeadAfter(c.keys, c.head, k)
    IN  [head |-> k,
         tail |-> IF c.tail = Null THEN k ELSE c.tail,
         size |-> c.size + 1,
         keys |-> [x \in DOMAIN keys \cup {k} |-> IF x = k THEN node ELSE keys[x]]]

\* evict: the tail leaves, its predecessor becomes the tail.
EvictedTail(c) ==
    LET before == c.keys[c.tail].prev
        rest == WithoutKey(c.keys, c.tail)
    IN  IF before = Null
        THEN [head |-> Null, tail |-> Null, size |-> c.size - 1, keys |-> rest]
        ELSE [head |-> c.head, tail |-> before, size |-> c.size - 1,
              keys |-> [rest EXCEPT ![before].next = Null]]

\* The list without k, as del leaves it.
Deleted(c, k) ==
    [head |-> IF c.head = k THEN c.keys[k].next ELSE c.head,
     tail |-> IF c.tail = k THEN c.keys[k].prev ELSE c.tail,
     size |-> c.size - 1,
     keys |-> WithoutKey(Spliced(c.keys, k), k)]

\* Faulty variant.
FullOffByOne(c) == c.size > Capacity

Full(c) == c.size >= Capacity

Removed(c, k) == [key |-> k, value |-> c.keys[k].value]

------------------------------------------------------------------------------
Has(k) == k \in DOMAIN cache.keys

Get(k) ==
    /\ Has(k)
    /\ cache' = Refreshed(cache, k)
    /\ result' = cache.keys[k].value

\* Faulty variant: an update does not refresh.
UpdateWithoutRefresh(k, v) ==
    /\ Has(k)
    /\ cache' = [cache EXCEPT !.keys[k].value = v]
    /\ result' = NoEntry

\* put updates an existing key.
Update(k, v) ==
    /\ Has(k)
    /\ cache' = Refreshed([cache EXCEPT !.keys[k].value = v], k)
    /\ result' = NoEntry

\* put adds a new key and possibly evicts.
Add(k, v) ==
    /\ ~Has(k)
    /\ IF Full(cache)
       THEN /\ cache' = Inserted(EvictedTail(cache), k, v)
            /\ result' = Removed(cache, cache.tail)
       ELSE /\ cache' = Inserted(cache, k, v)
            /\ result' = NoEntry

Del(k) ==
    /\ Has(k)
    /\ cache' = Deleted(cache, k)
    /\ result' = Removed(cache, k)

Refresh(k) ==
    /\ Has(k)
    /\ cache' = Refreshed(cache, k)
    /\ result' = NoEntry

\* get, del and refresh throw when the key is not cached.
Refuse(k) == ~Has(k) /\ result' = Thrown /\ UNCHANGED cache

Next == /\ \E k \in Keys : \/ Get(k) \/ Del(k) \/ Refresh(k) \/ Refuse(k)
                           \/ \E v \in Values : Update(k, v) \/ Add(k, v)
        /\ UNCHANGED fifo

Spec == Init /\ [][Next]_vars

------------------------------------------------------------------------------
\* The keys met when a link is followed n - 1 times, Null past an end.
Follow(keys, start, link, n) ==
    LET walk[i \in 1 .. n] ==
            IF i = 1 THEN start
            ELSE IF walk[i - 1] \in DOMAIN keys
                 THEN keys[walk[i - 1]][link] ELSE Null
    IN  walk

\* What getOrderedKeys checks, "Inconsistent key counts" and "Inconsistent
\* cache keys": following the list from its head meets every key of the
\* mapping once and then ends, and so does following it back from its tail,
\* which evict relies on.
ListConsistent ==
    /\ cache.size = Cardinality(DOMAIN cache.keys)
    /\ LET forth == Follow(cache.keys, cache.head, "next", cache.size + 1)
           back  == Follow(cache.keys, cache.tail, "prev", cache.size + 1)
       IN  /\ {forth[i] : i \in 1 .. cache.size} = DOMAIN cache.keys
           /\ forth[cache.size + 1] = Null
           /\ \A i \in 1 .. cache.size : back[i] = forth[cache.size + 1 - i]
           /\ back[cache.size + 1] = Null

\* The entries of a list, from its head.
ListedEntries(c) ==
    LET keys == Follow(c.keys, c.head, "next", c.size)
    IN  [i \in 1 .. c.size |-> [key |-> keys[i], value |-> c.keys[keys[i]].value]]

\* The linked list implements the bounded map that evicts by recency: what
\* each call returns, above all which entry a put evicts, is what the
\* sequence of entries of RecencyCache prescribes.
Recency == INSTANCE RecencyCache WITH entries <- ListedEntries(cache)

ImplementsRecencyCache == Recency!Spec
==============================================================================
