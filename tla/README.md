# Verification of the distributed search engine

TLA+ specifications of the program in `src/`, the TLC configurations that check
them on small instances, and the theorems that TLAPS proves about them.

The program is a search engine that runs on a group of Node.js processes. It
crawls pages, indexes their terms into a key-value store that is spread over
the nodes, and answers queries from it. Every node runs one event loop: a
callback runs to completion, and concurrency comes from the order in which
timers, file operations and network answers call back. Nothing in the program
may assume that order, and that is what the specifications are about.

## Inventory

Paths are relative to `src/distribution/`. "Hard" names what makes the
component's behaviour hard to test.

| Component | State | Operations | Hard | Correct when |
|---|---|---|---|---|
| Mutex (`util/sync.js`) | locked flag, ticket served, next ticket | lock, unlock; read and write locks are the same mutex | waiting callers poll with timers that fire in any order | exclusive, first come first served, nobody waits for ever |
| LRU cache (`util/cache.js`) | mapping, doubly linked list, size | get, put, del, refresh, eviction | long call sequences, lists of one entry, FIFO mode | list and mapping agree; the least recently used entry leaves |
| Cached store (`local/cached-store.js`) | cache of values with dirty flags, a mutex per file | get, tryGet, put, del, refresh, flush | loads, evictions, write backs and flushes of one file overlap; the store fails | accesses of a file exclude each other, nothing modified is dropped |
| Atomic store (`local/atomic-store.js`) | a lock per file | getAndModify | its lock is held across several waits | updates take effect once and are never lost; each one answers |
| Sharded store (`local/sharded-store.js`) | a second cached store, of shards | get, tryGet, put, del, refresh | entries of the two caches share objects | a shard keeps the updates of all its keys |
| File and memory stores (`local/store.js`, `local/mem.js`) | files, a mapping | get, put, del, clear | slow, failing calls that are not atomic on a file | used only under a lock per file |
| Index service (`local/index.js`, `all/index.js`) | a queue in the store, a count of active pages | queueUrl, indexContent, updateIndex, start, stop | updates of many terms at once, partial failure | each page ends in the index of each of its terms, once |
| Crawler (`local/crawl.js`, `all/crawl.js`) | queue and seen set, count of active pages | queueURLs, start, stop, periodic save | the seen set is saved later than the queue | bounded activity; no page is lost or crawled twice |
| Term lookup and query (`*/term-lookup.js`, `*/query.js`) | a result cache | lookup, superDih | reads run beside updates; a batch fails | an answer is one that the index had |
| Search control (`*/search.js`) | counters | stop, flushCache, stats | shutdown while work is still running | what was acknowledged survives a shutdown |
| MapReduce (`all/mr.js`) | a worker service and shuffled values per operation | exec, with map, shuffle, reduce, rounds | a node fails or is slow in a phase, inputs deleted while others read | each value is reduced exactly once, or the caller is told |
| Distributed store (`all/store-service.js`) | a placement by hash over the group | get, put, del, reconf | group views differ, objects move while they are written | an object is found where the view says, and none disappears |
| Heartbeat (`local/heartbeat.js`) | the state, staleness and epoch of each known node | checkAlive, receiveStatus, registerFailure | pings race gossip; a failure is broadcast by many | live nodes stay, dead ones leave every group once |
| Gossip (`*/gossip.js`) | the last 1000 message identifiers | send, recv | duplicates, loss, bounded memory | a message is delivered at most once while it circulates |
| Groups (`*/groups.js`) | the groups of a node and their union | get, put, del, add, rem | callers hold references to a group that changes | `all` is the union of the groups |
| Communication, routing, RPC (`*/comm.js`, `*/routes.js`, `local/rpc.js`, `local/node.js`, `all/remote-service.js`) | services, RPC table | send, put, rem, call | a request is lost, or times out and is answered later | every call back runs once |
| Serialization (`util/serialization.js`) | none | serialize, deserialize | shared and circular references travel as paths | a value arrives with the same shape |
| Identifiers (`util/id.js`) | none | hash functions | which keys move when a group changes | only the keys of changed nodes move |
| Text processing, query engine (`util/search.js`, `local/query.js`) | none | calcTerms, extractTerms, processResults, dihQuery | results come per term and node, in any order, from indexes that grow | what matches is ranked, the better page first, no title twice |

How they interact: the crawler downloads a page and hands its terms to the
index service, which sends each term to the node that the hash of the term
names. There `updateIndex` calls `getAndModify` for each term. The atomic store
takes its lock for the term's file and reads and writes through a cache of
2000 terms; the cache reads and writes shards through the sharded store, which
has a cache of 500 shards of its own, over the file system. Queries read the
term cache directly. On shutdown the crawler and indexer are stopped, a second
passes, and both caches are flushed. All of it is shared state in one process,
reached by callbacks; nodes share nothing but messages.

The hazards of the code, with the line of each and the property that
would catch it, are in `PROJECT.json`.

## Structure and plan

The core is the path from an index update to the disk, which every page,
query and shutdown depends on. It is built bottom up, so that each module
uses the abstraction that the module below was shown to implement. The other
parts meet through messages; each has a module of its own, with what it takes
from its neighbours as actions of the environment.

1. `Mutex`, `LruCache`, `CachedStore`, `AtomicStore`, `TermLookup`, with the
   abstract specifications `FifoLock`, `RecencyCache`, `AtomicIndex`.
2. `Crawler`: the crawl and index loops, their queues, start, stop and restart.
3. `Messaging` over `Codec` and `Query`: calls, routes, the operations that gather
   answers, and the ranking of what a query gathered.
4. `Heartbeat`, with groups and gossip: what nodes know of one node.
5. `StoreService`: placement by hash and its reconfiguration.
6. `MapReduce`: phases, rounds and their clean-up.

The modules have a proof module each, from the mutex upwards, in which the cached store
shares that of the atomic store above it, whose invariant contains its own, and `Codec` and
`Query` share that of `Messaging`. `TermLookup` has none: its only property is violated.

What is left:

- the two cache tiers of `sharded-store.js`, with object identities;
- `ResultIsComplete` of executions of several rounds whose input lies on one node: the
  theorem speaks of single rounds;
- executions of several rounds in which nodes fail: a late worker of an earlier round
  would need the names of its operation and groups in the state of its node.

## Modules

| Module | Models | By |
|---|---|---|
| `LockOps` | the mutex as its users see it: holder and queue | operators |
| `FifoLock` | what a mutex promises | abstract specification |
| `Mutex` | `util/sync.js`, ticket counters and polling | one action per call or timer |
| `RecencyOps` | the cache as its users see it: entries by recency | operators |
| `RecencyCache` | what the cache promises | abstract specification |
| `LruCache` | `util/cache.js`, mapping and linked list | one action per call |
| `CachedStore` | `local/cached-store.js` over a slow, failing store | one action per turn |
| `AtomicIndex` | an index whose updates take effect in one step | abstract specification |
| `AtomicStore` | `local/atomic-store.js` and `updateIndex`, over `CachedStore` | one action per callback |
| `TermLookup` | `AtomicStore` and the lookups of `local/term-lookup.js` | one more action |
| `Crawler` | `local/crawl.js`, `all/crawl.js`, the loop of `local/index.js`, `all/index.js`, the start of `run.js` | one action per callback; calls of the store are atomic |
| `Lists` | filters, counters and mappings, as the modules below use them | recursive functions |
| `Codec` | `util/serialization.js` on graphs of objects | operators; `encode` by the stack of its calls |
| `Query` | `calcTerms` of `util/search.js`, `extractTerms` of `local/index.js`, the ranking of `local/query.js` | operators |
| `Messaging` | `local/comm.js`, `local/node.js`, `local/routes.js`, `all/remote-service.js`, `all/term-lookup.js`, `all/query.js`, `createGuardedCallback`, over `Codec` and `Query` | one action per message, timeout or callback |
| `Heartbeat` | `local/heartbeat.js`, `all/gossip.js`, `local/gossip.js`, `local/groups.js` | one action per timer or message |
| `StoreService` | `all/store-service.js`, `util/id.js`, `local/mem.js` | one action per request |
| `MapReduce` | `all/mr.js` | one action per request or callback |
| `Mutex_proofs`, `LruCache_proofs`, `AtomicStore_proofs`, `Crawler_proofs`, `Heartbeat_proofs`, `StoreService_proofs`, `MapReduce_proofs`, `Messaging_proofs` | theorems about the module of that name and those it is built on | hierarchical proofs |
| `MC*` | instances for TLC | |

`CachedStore` EXTENDS `LockOps` and `RecencyOps`, that is, the interfaces which
`Mutex` and `LruCache` are shown to implement, and not their counters and links.

### How state and actions correspond to the code

`Mutex`. `locked`, `index`, `waitIndex` are the fields of the same names. `Lock` is
`lockMutex` with its first `lockWithIndex`, `Poll` a timer that enters (one
that polls again changes nothing), `Unlock` is `unlockMutex`. The refinement
maps the tickets that wait, from the one to be served next to the last drawn, to the seats of
the queue of `FifoLock`, and the caller that polls with a ticket to its seat.

`LruCache`. The record `cache` has the fields of the object of `createCache`,
without its constant capacity. A node is named by its key. `Refreshed`,
`Inserted` and `EvictedTail` are the assignments of `refresh`, `insert` and `evict`, in
their order where it matters, and `Deleted` those of `del`. `ListedEntries` is what
`getOrderedKeys` visits, with the values: the refinement maps the list to it. `fifo` is the constant of `params.js`, chosen in
`Init` so that one run covers both.

`CachedStore`. A call runs until it waits, so it is cut where the code passes a
callback to a lock or to the store: `TryGet`, `BeginLoad` and `EndLoad` are
`get`/`tryGet`/`loadItem`; `Put` and `CacheItem` with `BeginWrite` and `EndWrite` are
`put` and `cacheItem`; `Del`, `BeginDel`, `EndDel` are `del`; `Flush`, `BeginFlush`,
`EndFlush` are `flush` and `flushItem`. When a lock is free the code goes on in
the same turn, and so does the action: `AskPhase` yields the running phase at
once. `Begin...` actions are the timers that obtain a lock later. `call` says
where each caller's call is and what it will write; the flush has one such
task per key. `locks` maps a file (`_getSyncKey`) to its lock, `made` is the domain
of `this.locks`, `disk` is what the store below holds. `unsaved` is history.
A failed operation of the store leaves the old value; a file that is torn by a
failed write shows as a read that fails. `put` creates no lock, so that a value whose file
was never accessed has none: `Throw` is `cacheItem` meeting such a victim, and a flush
that meets one, somewhere in its order (`Flushable`), has started the writes of the
keys in front of it and never calls back (`"thrown"`). `AtomicStore` reads each key before
it puts it, so neither happens there.

`AtomicStore`. The value of a term is the set of its pages. `Update` is the call of
`getAndModify`, `ObtainAtomic` a timer that obtains its lock, `Read` the
call of `tryGet` in the lock's callback, `Modify` its callback with
`modify` or `default` and `put`, `GiveUp` the branches that answer without a `put`,
`Finish` the callback of `put`. These callbacks run in the turn in which the
cached store returns. In the model they are steps of their own, and no
other step is possible while one is due (`CallbackDue`); so the interleavings
are those of turns. `FlushTerms` is the first half of `flushCache`.

`TermLookup` adds `get` calls of readers that hold no lock of the atomic store.

`Crawler`. A loop is one `setInterval`, named by its kind and the start that
created it; `active` is the variable of its closure and `work` says, per slot,
where each page is: `Tick` takes a slot and calls `getAndModify`, `Take` is
that call's `modify` with the callback that follows, `Download` the answer of
`downloadPage`, `BatchAnswer` the callback of a batch of links, `Enqueue` and
`Indexed` the ends of `queueUrl` and `updateIndex`, `Finish` the last callback. A URL
is a model value with a domain and links. The atomic store is used through
what `AtomicStore` is shown to implement: a modification is one step on `cache`, and
`Save` is a write back, by flush or eviction, of a queue. `SaveFails` is the write back of
an evicted queue that fails: the queue leaves the cache and the next reader finds the
file's older one. `TakeFails` is a modification that ran but whose `put` reports that it could not
write back the key evicted for it. `lost` is history: the URLs in which the queue that was given up differs
from the file that remains, or that the failed answer stood for. `CutOff` is a download whose response is cut
off after its head, of which `handleResponse` hears nothing. `Advance` performs the calls of
`_start` one by one, straight on `disk`, as the code does. `Seed` is the
start in `run.js` after every node answered. `Crash` keeps `disk` and `seenDisk`.

`Codec`. A heap maps objects to records of their properties, and a value is a leaf or
a reference; JSON is a tree of tagged nodes, a function from paths to nodes, with the path of an object
where it was met before. `Encode` is one call of `encode`: the calls that a
property of an object still waits for are kept in a list, in the order in which the recursion of the code makes them, and
`Serialize` is as many calls as the graph has properties, and one for its root. `Decode`, `DecodeAll` and `ResolveReferences` follow `decode` and
`resolveReferences` with what they lose: the sign of zero, invalid
dates, errors whose name is an object. `Fails` is what makes them throw: an invalid date, an error without
name and message, a function whose text is no expression (a method, a bound function: the
kind `"method"`), and a native object that leads back to itself, as `global`, anywhere
below the root (`Endless`), into which `resolveReferences` goes until the stack is used up. `IsGraph` says which arguments are modelled:
all but graphs with a negative zero, with an array that has holes, or with an error
whose name is an object or whose message is no string.

`Query`. A line is a sequence of words and a term a sequence of one to `NGRAM_LEN` of
them, where the code has strings: splitting a line into words and joining words into terms
are left out. Scores are fractions, and the logarithm in `processResults` is a table
(`Idf`), of any integers: it is zero for a term that `NUM_DOCUMENTS` pages have, and negative for
more. The first line of `Lines` is the title. `Factor` uses only the title's length, as
the code does: it adds `docLen[0]`, which is never counted.

`Messaging`. One client runs operations: `Open` makes the calls, `Arrive` and
`Return` are `handleRequest` and the method's callback on the serving node,
`Respond` the response at the client, `TimeOut` the timeout of the
request. `call` says where each call is, `heard` which guarded callbacks have been called,
`active` is the counter of `sendRequests` or `lookupBatches`. A call to the
client's own node is a function call, without timeout and without routes (`Builtin`
are the services of `local.js`). A query (`superDih`) is a lookup without the cache, which
keeps its results in the order of `arrived`; `Grow` is `updateIndex` as `AtomicIndex`
describes it, at the end of the list of a term's pages. `Batch` has the terms of a node
with the batch's keys in the order of the query, and `Decompress` gives a term the last answer that its batch has for it. `ReturnAgain` is a method that calls back twice.

`Heartbeat`. `checkAlive` treats each entry of `nodes` alone, and removals of different
nodes commute, so the module is the projection on one Subject: `entry` is
`nodes[Subject]` at each node with its staleness or age, `joined` the groups of the node
that the Subject is in. `Register` is `registerFailure` with its loop over the
groups. `DropPeer` is the same protocol for other nodes, and only shrinks
`members`. A node of `Outsiders` may be missing from its own groups from the start, as one
that only knows of a group: `checkAlive` then reaches no node, and the leader it looks for may not be itself.

`StoreService`. `view` is the group as each node knows it, `data` the items
in memory or on disk. `Call` routes by the view of the node that is asked, `Serve` is the
request at the node it went to. `Reconf`, `List`, `Rebalance`, `MoveOut`,
`MoveIn` are `reconf`, the listing of keys, and the three callbacks of
`rebalanceItems`. In a lossy plan each of these calls may fail while the node it goes to is up: a listing
is not answered, a deletion is not done, or done and its answer lost, a put is not done. `exempt`
is history: the items that this touched. Hashes are constants: numbers for nodes, keys and pairs.

`MapReduce`. A value is the set of input keys it comes from, so that a
result shows what it was made of. `call` is the orchestrator's request
per node and `job` what that node's worker does, which goes on after a
timeout. `StartMap`, `Read`, `EndMap` are `workerMap`; `StartShuffle`, `PutShuffle`
`workerShuffle`; `StartReduce`, `PutOutput` `workerReduce`, which needs no job
of its own in `job` and so may run beside a late shuffle; `NextPhase` the callback of
`runPhase`, with the next round of `exec`. A `clear` message is a pair of a node
and the round whose input group it clears. Values that are not there are the empty set,
since a stored value comes from one input key at least. A plan names the node `at` which the
execution runs: a call to that node itself is looked up in its own services, where the worker's route is
not, and fails (`Calls`; `local/comm.js:45`). It gives each round an `owner` of each key, since values are shuffled under the
hash of a string with the operation's name in it (`all/mr.js:285`), and says what the reduce of each key
`yields`: a pair, an empty object, or an error. A worker that has only empty objects to store is
`"silent"`: nothing counts its stores down (`all/mr.js:342`), and its call ends by the timeout.

## Runs

| Run | Instance | Checks |
|---|---|---|
| `mutex` | 3 callers, 7 tickets | type, exclusion, order, starvation freedom, refinement of `FifoLock` with its fairness |
| `lru_cache` | 4 keys, 2 values, capacity 3, both policies | type, list consistency, refinement of `RecencyCache` |
| `cached_store` | 2 callers and a flush, 3 keys in 2 files, 2 values, capacity 1, every fault | exclusive access of files, clean entries are saved; its type invariant is part of that of `atomic_store` |
| `atomic_store` | 2 pages, 3 terms in 2 files, capacity 1, failing reads, flushes | type, no lost update, quiet flushes save everything, every update answers, refinement of `AtomicIndex` |
| `flush_race` | the same without faults | expected violation of `FlushSaves` |
| `term_lookup` | 2 pages and a reader, 2 terms in 2 files, capacity 1 | expected violation of `NoLostUpdate` |
| `crawler` | 1 node, 3 URLs in 2 domains, queue full at 1, three settings, 1 start in each life, 1 crash, failed write backs, downloads cut off | type, active pages counted and bounded, domain counts, crawled once, no URL forgotten, queued URLs are taken |
| `messaging` | 3 nodes, 3 terms, 5 pages with 4 titles, one or two operations, small graphs as arguments, one with a method or an endless native object in it | type, one answer per operation, complete lookups, ranked results that match, round trip of arguments, operations answer |
| `heartbeat` | 3 nodes, one of them perhaps not in its own groups, ping threshold 2, fail threshold 1, cooldown 0, 1 crash | type, no node suspects itself, registration removes, dead nodes leave |
| `placement` | 3 nodes, 2 keys, 1 client, a join with calls that fail, a leave, a crash, three hashes | type, untouched items arrive, only needed moves, reconfiguration answers |
| `mapreduce` | 2 nodes, 3 keys, seven executions of one or two rounds, from outside or inside the group | type, partial results are right, results without faults are complete, exec answers |
| `mr_rounds` | 2 nodes, 3 keys on both, two rounds, no faults | expected violation of `ResultIsComplete` |

Why the bounds are enough. A cache of one entry evicts on every miss, so an
eviction meets every other step; with a larger cache the same interleavings need
longer sequences. Three keys in two files give a pair that shares a lock and a pair that
does not, and a third key to evict with. Two callers and a
flush give the longest queue at a lock whose order matters: one that holds it and
two that wait. The mutex is checked with one caller more than that, and
with enough tickets for every caller to return. The linked list is checked with
capacity three, so that a node has a head, a tail and a middle position, and one key more
than fits. `cached_store` uses the symmetry of callers, of values and of the two
keys of one file, and a VIEW that drops the replies of calls that ended, on
which no step depends.

`crawler`: a queue that is full at one URL refuses, admits past its limit for a new
domain, and admits again after a page was taken, with three URLs. The page of the third
URL links the other two, so that URLs are found twice, one of them after it was
refused. `ACTIVE_LIMIT` is one for crawling under `index-directly`
and zero otherwise, which the test with `>` turns into two pages and one. Failed calls
of the store are explored under `index-queue`, failed write backs and downloads that are cut off
under `index-directly`, crashes under `isolate`: between them the settings take every
path. A URL is lost once at most, which is a bound. `MaxSlots` is one more than the limit allows, so that a loop which exceeds it is
seen. With one node every batch goes to the node itself; that
batches of several nodes end in one answer is `messaging`.

`messaging`: three nodes are the client and two others, so that answers of
remote nodes cross each other and that of a local call. Faults are explored
with one operation at a time; two lookups run together without them, since they meet only
in the cache. The arguments are all graphs of three objects with two
properties each of the kinds array, object, function, method and error, that is, self reference,
cycles of two and three, and sharing. Numbers, dates, strings and endless native objects are single leaves.

A query is for two words that a stopword separates, so for three terms of two nodes: one of
their pages has all three in its title, one has a word twice, two share a title without sharing
a term, and two are under one term with different weights; the list of results is full at two. The weights of terms are those of a `NUM_DOCUMENTS` of two, so that
a term of one page counts for it, a term of two counts nothing, and one of three counts against.

`heartbeat`: two observers and the Subject, since a notice has one sender and one
receiver besides the node it is about. The thresholds are the smallest at which
staleness, waiting for a ping and the cooldown last more than one step or
end at once. One message is in flight to each receiver, the later one replacing the earlier, as
gossip that is lost. One crash, of any node, and the Subject may run
again and be added to the groups node by node. False suspicion needs no crash, only lost messages.

`placement`: a joined or lost node, two that stay, and two keys of which one moves
or both. The calls of the move fail where a node joins: there each failure meets live nodes only. The client stops when the change has settled, so that the last state can be
compared; requests before, during and after the change reach by either view.

`mapreduce`: two nodes are a sender and a receiver in each phase, and three keys give a node
with two and a node with one, keys that are emitted on both nodes, and one that is emitted
on one only. Faults are combined with single rounds; one of the two nodes crashes at most. A key's owner in a
round differs from its home and from its owner in the next. Reduces that make
nothing are in executions with and without an output group, and with faults and without; one that throws is beside
them where there are no faults. An execution from inside the group is
among those with faults: the node's own calls fail, and what is in the result is right all the same.

CHECK_DEADLOCK FALSE stands where the system may stop: the mutex when its tickets
are used up, the stores and the other systems when every call has returned and
no message is left. In the stores callers may
always call again, but while a callback is due only that callback may step.

### What the expected violations show

`flush_race`: `flush` calls `flushItem` for each cached key. One that waits for its lock
may find, when it obtains it, that the key was evicted meanwhile. It calls
back at once, while the eviction's own write waits behind it in the same
lock's queue. In the run an acknowledged update is in the cache when the flush
begins, and in no file when the flush calls back. The shutdown of `run.js`
ends the process in that callback. `QuietFlushSaves` holds: a flush that no
update overlaps saves everything, so the race needs an update that is still in
progress a second after `stop`.

`term_lookup`: a lookup loads a term without the lock of `getAndModify`. An update
of the term that overlaps puts a new value in the cache; the load that ends after
it replaces the entry by the older stored value, not dirty, and the acknowledged page
is gone. The model keeps a term's value in one place, as the code does with
`disableShardCache`; with the default second tier the objects may be shared between the
tiers, so that the value survives there and what is lost is the dirty flag
of the entry, which bites when the shard is evicted before the term is updated again.

`mr_rounds`: each node that has stored the results of its map tells the whole group to
clear its input. In the second and later rounds `deleteInput` is always
set, and the other node may still read: its items are not found, which a map leaves
out without an error. The result of a fault-free execution lacks values. `mapreduce` has the
cases where that cannot happen: a first round whose input is kept, and inputs that lie on
one node.

## Fairness

`Mutex` assumes that a timer that is due fires and that critical sections end;
`lockWithIndex` polls with `setTimeout` for as long as it must. `CachedStore`
assumes that a task whose lock is free and whose turn it is obtains it, which is
the fairness of `FifoLock` that `ImplementsFifoLock` establishes, and that every
operation of the file system calls back, with a value or an error. `AtomicStore`
adds that callbacks of the current turn run. No fairness is assumed of callers:
nobody needs to make a call.

`Crawler` assumes that an interval that is not cleared fires, that requests, and downloads
that are not cut off, call back, with an answer or an error, and, strongly, that the
modification of a loop runs again and again rather than failing each time: the
store may fail any number of times between. `Messaging` assumes that a request is
answered or times out and that a node which is up serves what arrives, not
that a method calls back. `Heartbeat` assumes that timers fire, and that
a message does not stay on its way for ever; nothing says that one arrives. `StoreService`
assumes that requests are answered, with an error when their node is down, `MapReduce` that
workers go on, that a call which no worker will answer times out, and that the orchestrator's callbacks run; these follow from the
timeouts of `local/comm.js`. Starts, stops, crashes, faults and clients have no fairness.

## Proofs

Each theorem holds for every value of the constants that the assumptions of its module
admit; the runs evaluate those assumptions on their instances. `PROJECT.json` lists the
theorems. Each safety property of the passing runs is one of them, or, where
it does not hold of every instance, is proved under the hypothesis the theorem states.

`Mutex_proofs`: `TypeOK`, `MutualExclusion`, `ServedInOrder`, and that the counters refine
`FifoLock` (`MutexRefinesFifo`), for every set of callers and bound on tickets. Mutual exclusion is not
inductive: the step in which a timer enters an unlocked mutex says nothing about
who else is inside. `IndInv` adds that the tickets of waiting callers and of the one inside are
pending and distinct, and that the mutex is locked exactly while
somebody is inside, who holds the ticket being served. The order follows from it
step by step: whoever enters holds the ticket being served, and all others that
wait hold larger ones. For the refinement, a call that draws a ticket adds the last seat to
the queue, a timer that enters has the first, and `unlockMutex` moves the ticket being
served and the start of the queue at once, so that no seat moves.

`LruCache_proofs`: `TypeOK`, `ListConsistent`, and that the linked list is the
recency cache of `RecencyCache` (`ListRefinesRecency`), for every capacity, set of keys and
policy. `ListInv` says that there is an order of the cached keys without repetition,
of which the head is the first and the tail the last, in which each node is linked to its
neighbours. Each operation is shown to make another such order: a key taken
out (`Taken`), put in front (`Pushed`) or moved there (`Moved`). That following
the links visits the order is proved by induction over positions (`SetInduction`).

`AtomicStore_proofs`, first of the cached store alone: `TypeOK`, `ExclusiveAccess`,
`CleanMeansSaved`, for every set of callers, keys and files, every capacity and all
faults. `StoreInv` is their common invariant. `Typed`: a call is where
it can be (`Fits`), the key it waits for or uses has a lock, and the cache holds
a key once. `Holding`: a task that is in the store holds the lock of its file, and a
lock has one holder. `CleanSaved`: every write of a clean key that is in progress writes the value that
is cached, and one does, or did, or was reported as failed. The last needs the first conjunct: without it an
older write that ends later could replace the value a clean entry stands for. `Flush` asks
for many locks in one turn by a recursive function over the order of the keys;
what holds after it is proved by induction over that order (`RecursionExists`,
`FlushItemsKeep`).

`AtomicStore_proofs`, of both stores: `AtomicTypeOK` whatever fails; and, when writes do not fail
(`"write" \notin Faults`), `NoLostUpdate`, `QuietFlushSaves` and that the store refines `AtomicIndex`
(`AtomicRefines`). The hypothesis is needed: a write back that fails loses
the value it evicted, and the caller that is told of it is the one whose value evicted it. The instance of `atomic_store`
has it too. `JobInv` extends `StoreInv` by where each job and its call are (`JobFits`),
and by the lock it holds. `AtomicInv` adds what makes an update safe:

- `Lined`: the queue of a lock has the clients that wait for it, once each, and a load of
  a key stands behind every write of that key;
- `Once`: a key is cached, or being written back by one call, or on disk, and a clean key is
  on disk as it is cached;
- `OneDue`: at most one callback is due;
- `Current`: what an update read is what the index has of its term, until its callback ran;
- `Stored`, `Kept`: the page of an update that was put, and of one acknowledged, is in the index.

Each action is reduced to `Steady(k)`, that it leaves the pages of a term as they are,
or to the one that adds a page. For `QuietFlushSaves`, `QuietInv` follows each key through a flush without
updates: a cached value is to be written, is being written, or was written.

`Crawler_proofs`: `CrawlerTypeOK`, `ActiveCountsPages`, `DomainsCountQueue`,
`CrawledOnce`, `NoUrlForgotten`, for all pages, links, limits, settings and faults. `CrawlerTypeOK`
has the bound of the queue in it: twice `MAX_QUEUE_LEN`.
The invariant has `Starts` (which start created which loop), `Working` (the slots), `Queued`
(a queue, cached or stored, is of the node's own URLs, with the counts of its domains),
and `Tracked`: before the second start or a crash, a URL that no failed write back lost is in its queue or was crawled
exactly once if it is seen, and not at all otherwise. `CrawledOnce` and `NoUrlForgotten` are the two
halves of that equation. Neither is inductive alone: that a URL is offered once follows from its being seen, which follows
from its being queued.

`Heartbeat_proofs`: `HeartbeatTypeOK`, `NeverStaleItself`, and the action property
`RegistrationRemoves`, for all nodes, groups and thresholds, and whichever nodes are missing from their own groups. The last is an induction over
the groups that `registerFailure` removes the node from, each of which recomputes the
group `all`: it says that once the others are done, the last recomputation leaves nothing.

`StoreService_proofs`: `PlacementTypeOK`, `UntouchedItemsArrive`, `OnlyNeededMoves`,
for any finite sets of nodes and keys, any identifiers, and each hash function. The invariant ties the counter of moves to the set of
keys that move (`Counted`), says where requests under way go (`Ordered`), and where the item of a key that no request touches is at
each stage of its move (`Placed`, `Moved`). The lemmas on placement show that consistent and rendezvous
hashing name a node of the group, and change the home of a key only
if its old home leaves or its new home joins.

`MapReduce_proofs`: `MapReduceTypeOK` and `PartialResults`, for all nodes, keys, map functions and
executions, and `LosslessIsComplete`: an execution of one round
without faults, run from outside the group, is complete if it keeps its input or has all of it on one node,
whatever the owners of its keys and whatever its reduces make. `Safe` says of
each place where a value can be, on a node or with the orchestrator, that it comes from the input keys it should, and
which of them may still be written by a worker that goes on after its timeout (`Called`, `Undisturbed`).
`WholeInv` says for a lossless execution that in each phase nothing is
missing: what a node has read, what it has mapped, and what is shuffled or still
to be, together are what map makes of the input. `mr_rounds` shows that the hypothesis
on the input is needed. `MapReduceAssumption` lets faults, and an orchestrator in the group, meet
single rounds only, as do the runs.

`Messaging_proofs`: `MessagingTypeOK`, `AnsweredOnce`, `LookupsAreComplete`, `RankedPagesMatch`
and `RoundTrip`, for any finite set of nodes, any operations, any pages and lines, any argument
that `IsGraph` admits, and all faults. Two parts of it are about data alone.

- *The codec* (`CodecRoundTrip`): what is deserialized is the graph that was serialized, to any depth, where
  the run compares paths of three properties. `Encoded` is the invariant of the calls of `encode`:
  each path that is done has the node of the value it leads to, each object the first path it
  was met on, and the paths that are due are distinct from each other and from those done.
  Each call takes one property of an object from those that are left, so that after `Serialize`'s number of
  calls none is due. `Mirrors` relates the objects of the graph with those of the decoded tree; that it
  is kept along every path is an induction over its length. `OnlyUndecodableFails`
  adds what makes `deserialize` fail: an invalid date, a method, or an endless native object below the root,
  that a path of the graph leads to, and nothing else.
- *The ranking* (`RankingFacts`): scores are fractions with a positive denominator, since a page has each term under
  which it is indexed in one of its lines, so that the length it is divided by is not zero; the numerator may be any
  integer, as the logarithm may. `Collected` is
  the invariant of `processResults`: no title twice, and every title of the pages that were
  passed. That pages are sorted follows from their ranks being a permutation (`RankFacts`).

`IInv` is the inductive invariant of the calls. `CountsOK`: `active` is the number of targets less those whose
answer counted, which are among those heard of, and an operation called back exactly when that is zero. Neither half
of `AnsweredOnce` is inductive without it. `AnswersOK`: what a node answers for a term of a batch is a list
that the index of the term has had, and unless a read failed has all that was there
when the operation began. `FoundOK` says the same of what the client keeps, for every node whose answer
counted; with the first it gives `LookupsAreComplete`, and with `RankingFacts` the
`RankedPagesMatch`.

Recursive functions are reasoned about through two lemmas that the modules
which need them prove: `SetInduction` (a set of numbers that has 0 and the successor of
each of its members has all, from the well-foundedness of the order), and `RecursionExists` or `Recursion` (a function with given
steps exists, from which CHOOSE takes it). The induction theorems
of the library, which take an operator as parameter, cannot be used. No module
that is proved about reaches a RECURSIVE operator.

Model-checked only:

- liveness under fairness, which the prover does not reach: `EveryCallerServed`,
  `EveryUpdateAnswers`, `QueuedIsTaken`, `OperationsAnswer`, `DeadNodesLeave`,
  `ReconfAnswers`, `ExecAnswers`, and the fairness of `ImplementsFifoLock`;
- `ResultIsComplete` of two rounds on one node;
- the three expected violations.

## What the properties leave open

Some properties name cases in which the code does not do what one might
wish, so that they say exactly what holds:

- `NoUrlForgotten` and `CrawledOnce` hold until a node restarts. The seen set and the
  queue are saved at different times, so a crash may lose a URL that counts as
  seen, or crawl one twice. They except the URLs in which a queue that was evicted, and
  whose write back failed, differed from its file (`local/cached-store.js:192`): a URL queued since is
  forgotten, and one taken since is taken again.
- `QueuedIsTaken` excepts a loop that has lost every slot to downloads whose response was cut off:
  `util/search.js:103` calls back on the end of a response only, and the page stays active for ever.
- `OperationsAnswer` excepts a local method that never calls back, for there is
  no timeout on a local call, and a lookup of which a batch failed, for
  `lookupBatches` returns early without counting.
- `LookupsAreComplete` speaks of terms that the nodes were asked for. The
  cache of results on the querying node is never invalidated.
- `RankedPagesMatch` says which pages are ranked and that the order is that of their scores, not
  that a score is that of all terms: a page is passed over under the terms after the first
  that brought its title, and which term is first depends on which node answers first.
- `DeadNodesLeave` excepts nodes that never heard of the dead node, or that are not in
  their own groups, and promises a reconfiguration only when every other node is up and in its own groups:
  the leader may be one that is not.
- `UntouchedItemsArrive` excepts items that requests touch during the change, since
  a moved value may overwrite a newer one, items on a node that left
  gracefully, since only members of the new group are asked for their keys, and items of which a call
  failed: the errors of the listing are ignored (`all/store-service.js:87`), a deletion that was done but whose answer is lost
  drops the item (`117`), and so does a put that fails, which is counted as done (`122`).
- `ReconfAnswers` excepts reconfigurations of which a deletion failed, and those
  that were told of a key twice.
- `PartialResults` is all that holds of an execution in which a node fails: what is in
  the result belongs there, and nothing tells the caller what is missing.
- `ResultIsComplete` is about executions without faults that are run from outside the group. `routes.put` stores the worker
  among the routes of each node, but a call of a node to itself is looked up in `distribution.local`
  (`local/comm.js:45`), which has no such entry, and ends in an error that `runPhase` counts like an answer. A node
  that is in the group it runs an execution on maps, shuffles and reduces nothing of its own: the values of
  its keys, and those other nodes shuffle to it, are not in the result, and no fault was needed. `PartialResults`
  is checked of such an execution.
- The worker that never calls back, since its reduces
  made nothing to store, costs the execution the time of a timeout, and its node no values.

## Not modelled

- The sharded store's own cache. A shard is the file that several keys
  share, which is exact when `disableShardCache` is true. The entries of the second tier
  alias the objects of the first, so that a model needs object identities in every
  cached value; that multiplies the states of `atomic_store` beyond a run's time.
- Callbacks that throw, apart from the second answer of a request in `Messaging`.
- The base 64 encoding of keys in `local/store.js`, SHA-256, HTML parsing, the characters
  of words, spell checking and merging of contexts: pure functions on text, of which the
  properties here do not tell the values apart. After a query `dihQuery` offers a corrected
  one, which is a query like the first.
- Responses of service calls that are cut off after their head: `local/comm.js:104` hears only of the end of
  a response, like `util/search.js`, so that such a call may stay without an answer. In the models a call
  is answered, fails, or times out. Downloads that are cut off are modelled, in `Crawler`.
- RPC stubs and `util/compile.js`, which build functions from their text; `status.spawn`,
  which starts child processes; HTTP itself; logging and statistics.
- `groups.put` and `del`, which bind and unbind a group's services; groups are
  created before anything else runs.
- The bounded memory of gossip identifiers: a message delivered again is like one delivered
  late, which is modelled.
- Compaction in MapReduce and the choice between memory and file for map results.
  Executions run one at a time, so the prefix by which shuffled values are found
  (`all/mr.js:312`, by which operation 1 takes those of operation 10) does not matter.
- `scenarios`, `performance`, `non-distribution`, `evaluation`, `data` and `test` are not
  part of the running system.
