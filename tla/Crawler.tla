------------------------------ MODULE Crawler ------------------------------
(* The crawl and index cycle of a group of nodes: local/crawl.js,           *)
(* all/crawl.js, the loop and queue of local/index.js, all/index.js, and    *)
(* start and stop of local/search.js.  Each node keeps a queue of URLs in   *)
(* the write-back cache of the atomic store and a set of seen URLs in       *)
(* memory, saved from time to time.  A loop is a setInterval of crawl.js or *)
(* index.js; a tick takes a slot until the page it popped is finished.      *)
EXTENDS Integers, FiniteSets, SequencesExt

CONSTANTS Nodes, URLs,
          Home,         \* the node that owns a URL (applyHash)
          Domain,       \* the base domain of a URL
          Links,        \* the URLs on a page, as a sequence
          Seeds,        \* the URLs run.js starts from, as a sequence
          Settings,     \* the values of params.crawlSetting considered
          Limit,        \* ACTIVE_LIMIT of a kind of loop, by setting
          MaxQueueLen, NearFull, DomainLimit, \* 5000, 4750 and 5 in the code
          MaxSlots, MaxStarts, MaxCrashes,  \* bounds: slots, starts in one life, crashes,
          FaultSettings,            \* and the settings in which calls of the store fail,
          LossSettings,             \* in which write backs of evicted values fail,
          CutSettings,              \* in which downloads are cut off
          CrashSettings,            \* and in which crashes are explored
          NotCached, Absent, Idle, Pending

Kinds == {"crawl", "index"}
Loops == Kinds \X (1..MaxStarts)
Slots == 1..MaxSlots    \* enough for every loop and one to spare
Domains == {Domain[u] : u \in URLs}
Queues == [urls : Seq(URLs), domains : [Domains -> Int]]
Bounded == {q \in Queues : Len(q.urls) <= 2 * MaxQueueLen}
Pages == [url : URLs, stage : {"download", "cut", "spread", "enqueue", "index"}, waiting : SUBSET Nodes]

ASSUME Assumptions ==
  /\ Home \in [URLs -> Nodes] /\ Links \in [URLs -> Seq(URLs)] /\ Seeds \in Seq(URLs)
  /\ \A s \in Settings, k \in Kinds : Limit[s][k] \in Nat
  /\ MaxSlots \in Nat /\ MaxStarts \in Nat /\ MaxCrashes \in Nat /\ MaxQueueLen \in Nat
  /\ NotCached \notin Queues \cup Seq(URLs) /\ Absent \notin Queues \cup Seq(URLs)
  /\ Idle \notin Pages \cup {Pending} /\ Pending \notin Pages

VARIABLES setting, stopped, live, latest, phase, ready, active, work,
          cache, disk, seen, seenDisk, net, seeded, fetched, lost, crashes

memory == <<stopped, live, latest, phase, ready>>
storage == <<cache, disk, seen, seenDisk>>
vars == <<setting, memory, active, work, storage, net, seeded, fetched, lost, crashes>>

Faulty == setting \in FaultSettings
EmptyQueue == [urls |-> <<>>, domains |-> [d \in Domains |-> 0]]
Empty == [crawl |-> EmptyQueue, index |-> <<>>]

Init ==
  /\ setting \in Settings
  /\ stopped = [n \in Nodes |-> FALSE]
  /\ live = [n \in Nodes |-> {}]
  /\ latest = [n \in Nodes |-> [k \in Kinds |-> 0]]
  /\ phase = [n \in Nodes |-> "none"]
  /\ ready = [n \in Nodes |-> FALSE]
  /\ active = [n \in Nodes |-> [l \in Loops |-> 0]]
  /\ work = [n \in Nodes |-> [l \in Loops |-> [s \in Slots |-> Idle]]]
  /\ cache = [n \in Nodes |-> [k \in Kinds |-> NotCached]]
  /\ disk = [n \in Nodes |-> [k \in Kinds |-> Absent]]
  /\ seen = [n \in Nodes |-> {}]
  /\ seenDisk = [n \in Nodes |-> Absent]
  /\ net = {}
  /\ seeded = FALSE
  /\ fetched = [u \in URLs |-> 0]
  /\ lost = {}
  /\ crashes = 0

----------------------------------------------------------------------------
(* Starting and stopping *)

\* The next interval of a kind, started by a call of _start.
Begin(n, kind) ==
  /\ latest' = [latest EXCEPT ![n][kind] = @ + 1]
  /\ live' = [live EXCEPT ![n] = @ \cup {<<kind, latest[n][kind] + 1>>}]

Start(n, reset) ==
  /\ latest[n]["crawl"] < MaxStarts /\ phase[n] = "none"
  /\ Begin(n, "crawl")
  /\ phase' = [phase EXCEPT ![n] = IF reset THEN "resetSeen" ELSE "loadSeen"]
  /\ ready' = [ready EXCEPT ![n] = FALSE]
  /\ UNCHANGED <<setting, stopped, active, work, storage, net, seeded, fetched, lost, crashes>>

\* crawl._start called back: index._start runs, and its loop starts at once.
StartIndex(n, next) ==
  /\ phase' = [phase EXCEPT ![n] = next]
  /\ IF setting = "index-directly" THEN UNCHANGED <<live, latest>> ELSE Begin(n, "index")
  /\ UNCHANGED ready

Answer(n, ok) ==
  /\ phase' = [phase EXCEPT ![n] = "none"]
  /\ ready' = [ready EXCEPT ![n] = ok]
  /\ UNCHANGED <<live, latest>>

\* The steps of a start, each the completion of one call of the store.
Advance(n, ok) ==
  /\ ok \/ Faulty
  /\ \/ /\ phase[n] = "resetSeen"
        /\ seenDisk' = IF ok THEN [seenDisk EXCEPT ![n] = {}] ELSE seenDisk
        /\ phase' = [phase EXCEPT ![n] = "resetQueue"]
        /\ UNCHANGED <<live, latest, ready, cache, disk, seen>>
     \/ /\ phase[n] = "resetQueue"
        /\ disk' = IF ok THEN [disk EXCEPT ![n]["crawl"] = EmptyQueue] ELSE disk
        /\ IF ok THEN StartIndex(n, "resetIndex") ELSE Answer(n, FALSE)
        /\ UNCHANGED <<cache, seen, seenDisk>>
     \/ /\ phase[n] = "loadSeen" /\ (ok => seenDisk[n] # Absent)
        /\ seen' = IF ok THEN [seen EXCEPT ![n] = seenDisk[n]] ELSE seen
        /\ IF ok THEN StartIndex(n, "loadIndex") ELSE Answer(n, FALSE)
        /\ UNCHANGED <<cache, disk, seenDisk>>
     \/ /\ phase[n] = "loadIndex"
        /\ IF ok /\ disk[n]["index"] = Absent
           THEN phase' = [phase EXCEPT ![n] = "resetIndex"] /\ UNCHANGED <<live, latest, ready>>
           ELSE Answer(n, ok)
        /\ UNCHANGED storage
     \/ /\ phase[n] = "resetIndex"
        /\ disk' = IF ok THEN [disk EXCEPT ![n]["index"] = <<>>] ELSE disk
        /\ Answer(n, ok)
        /\ UNCHANGED <<cache, seen, seenDisk>>
  /\ UNCHANGED <<setting, stopped, active, work, net, seeded, fetched, lost, crashes>>

\* Only the intervals of the last start are cleared; nothing ever sets
\* stopped back to false.
Stop(n) ==
  /\ latest[n]["crawl"] > 0 /\ ~stopped[n]
  /\ stopped' = [stopped EXCEPT ![n] = TRUE]
  /\ live' = [live EXCEPT ![n] = @ \ {<<k, latest[n][k]>> : k \in Kinds}]
  /\ UNCHANGED <<setting, latest, phase, ready, active, work, storage, net, seeded, fetched, lost, crashes>>

----------------------------------------------------------------------------
(* The queues *)

\* What the cache of the atomic store returns for a key; Absent takes the
\* default of the modification.
Stored(n, k) == IF cache[n][k] = NotCached THEN disk[n][k] ELSE cache[n][k]
Load(n, k) == IF Stored(n, k) = Absent THEN Empty[k] ELSE Stored(n, k)

\* Faulty variant: the limits are the last lengths at which a URL is admitted.
AdmitsAtLimit(q, u) ==
  LET len == Len(q.urls)
      count == q.domains[Domain[u]]
  IN /\ len <= MaxQueueLen \/ (count = 0 /\ len <= 2 * MaxQueueLen)
     /\ ~(len > NearFull /\ count > DomainLimit)
\* The tests of updateQueue on the length of the queue and its domains.
Admits(q, u) ==
  LET len == Len(q.urls)
      count == q.domains[Domain[u]]
  IN /\ len < MaxQueueLen \/ (count = 0 /\ len < 2 * MaxQueueLen)
     /\ ~(len > NearFull /\ count > DomainLimit)

\* Faulty variants: a queued URL is not remembered; one is remembered before
\* the tests of the queue.
OfferUnseen(acc, u) ==
  IF u \in acc.seen \/ ~Admits(acc.queue, u) THEN acc
  ELSE [acc EXCEPT !.queue = [urls |-> Append(acc.queue.urls, u),
                              domains |-> [acc.queue.domains EXCEPT ![Domain[u]] = @ + 1]]]
OfferSeenFirst(acc, u) ==
  IF u \in acc.seen THEN acc ELSE [OfferUnseen(acc, u) EXCEPT !.seen = @ \cup {u}]
Offer(acc, u) ==
  IF u \in acc.seen \/ ~Admits(acc.queue, u) THEN acc
  ELSE [queue |-> [urls |-> Append(acc.queue.urls, u),
                   domains |-> [acc.queue.domains EXCEPT ![Domain[u]] = @ + 1]],
        seen |-> acc.seen \cup {u}]

UpdateQueue(q, known, urls) ==
  LET after[i \in 0..Len(urls)] ==
        IF i = 0 THEN [queue |-> q, seen |-> known] ELSE Offer(after[i - 1], urls[i])
  IN after[Len(urls)]

\* Faulty variant: the count of the domain stays.
ShiftKeepsDomains(k, q) == IF k = "index" THEN Tail(q) ELSE [q EXCEPT !.urls = Tail(@)]
\* The rest of a queue after its head was taken.
Shift(k, q) ==
  IF k = "index" THEN Tail(q)
  ELSE [urls |-> Tail(q.urls), domains |-> [q.domains EXCEPT ![Domain[Head(q.urls)]] = @ - 1]]

\* The write back of a cached queue by a flush, or by its eviction.
Save(n, k, keep) ==
  /\ cache[n][k] # NotCached
  /\ disk' = [disk EXCEPT ![n][k] = cache[n][k]]
  /\ cache' = IF keep THEN cache ELSE [cache EXCEPT ![n][k] = NotCached]
  /\ UNCHANGED <<setting, memory, active, work, seen, seenDisk, net, seeded, fetched, lost, crashes>>

\* The URLs that the cached crawl queue holds more or less often than the file.
Copies(q, u) == Cardinality({i \in DOMAIN q.urls : q.urls[i] = u})
Unsaved(n, k) ==
  LET old == IF disk[n][k] = Absent THEN Empty[k] ELSE disk[n][k]
  IN IF k = "index" THEN {} ELSE {u \in URLs : Copies(cache[n][k], u) # Copies(old, u)}

\* The write back of an evicted queue fails: the queue is in the cache no more
\* and its file is still the old one (a URL is lost once at most, a bound).
SaveFails(n, k) ==
  /\ setting \in LossSettings /\ cache[n][k] # NotCached
  /\ lost \cap Unsaved(n, k) = {}
  /\ lost' = lost \cup Unsaved(n, k)
  /\ cache' = [cache EXCEPT ![n][k] = NotCached]
  /\ UNCHANGED <<setting, memory, active, work, disk, seen, seenDisk, net, seeded, fetched, crashes>>

\* The interval of SAVE_INTERVAL, which runs on for a minute after a stop.
SaveSeen(n) ==
  /\ latest[n]["crawl"] > 0
  /\ seenDisk' = [seenDisk EXCEPT ![n] = seen[n]]
  /\ UNCHANGED <<setting, memory, active, work, cache, disk, seen, net, seeded, fetched, lost, crashes>>

----------------------------------------------------------------------------
(* The loops *)

\* Faulty variant: the limit is tested after the count was raised.
TickOneMore(n, l) ==
  /\ l \in live[n] /\ ~(active[n][l] > Limit[setting][l[1]] + 1)
  /\ \E s \in Slots : work[n][l][s] = Idle /\ work' = [work EXCEPT ![n][l][s] = Pending]
  /\ active' = [active EXCEPT ![n][l] = @ + 1]
  /\ UNCHANGED <<setting, memory, storage, net, seeded, fetched, lost, crashes>>
Tick(n, l) ==
  /\ l \in live[n] /\ ~(active[n][l] > Limit[setting][l[1]])
  /\ \E s \in Slots :
       /\ work[n][l][s] = Idle /\ \A t \in Slots : t < s => work[n][l][t] # Idle
       /\ work' = [work EXCEPT ![n][l][s] = Pending]
  /\ active' = [active EXCEPT ![n][l] = @ + 1]
  /\ UNCHANGED <<setting, memory, storage, net, seeded, fetched, lost, crashes>>

\* The callback of the interval: the page is finished, however it went.
Finish(n, l, s) ==
  /\ work' = [work EXCEPT ![n][l][s] = Idle]
  /\ active' = [active EXCEPT ![n][l] = @ - 1]

\* Faulty variant: an error of the store ends the page but not its count.
TickFailsBusy(n, l, s) ==
  /\ Faulty /\ work[n][l][s] = Pending
  /\ work' = [work EXCEPT ![n][l][s] = Idle]
  /\ UNCHANGED <<setting, memory, active, storage, net, seeded, fetched, lost, crashes>>
TickFails(n, l, s) ==
  /\ Faulty /\ work[n][l][s] = Pending
  /\ Finish(n, l, s)
  /\ UNCHANGED <<setting, memory, storage, net, seeded, fetched, lost, crashes>>

Page(u, stage, waiting) == [url |-> u, stage |-> stage, waiting |-> waiting]

\* getAndModify of a tick runs its modification: it takes the head.
Take(n, l, s) ==
  LET k == l[1]
      q == Load(n, k)
      urls == IF k = "crawl" THEN q.urls ELSE q
  IN /\ work[n][l][s] = Pending
     /\ \/ /\ urls = <<>>
           /\ Finish(n, l, s)
           /\ cache' = [cache EXCEPT ![n][k] = q]
           /\ UNCHANGED fetched
        \/ /\ urls # <<>>
           /\ work' = [work EXCEPT ![n][l][s] = Page(Head(urls), "download", {})]
           /\ cache' = [cache EXCEPT ![n][k] = Shift(k, q)]
           /\ fetched' = IF k = "index" THEN fetched
                         ELSE [fetched EXCEPT ![Head(urls)] = IF @ = 2 THEN 2 ELSE @ + 1]
           /\ UNCHANGED active
     /\ UNCHANGED <<setting, memory, disk, seen, seenDisk, net, seeded, lost, crashes>>

\* The modification ran and its queue is cached, but put reports that it could
\* not write back another key, evicted for this one: the page is not crawled.
TakeFails(n, l, s) ==
  LET k == l[1]
      q == Load(n, k)
      urls == IF k = "crawl" THEN q.urls ELSE q
      gone == IF k = "index" THEN {} ELSE {Head(urls)}
  IN /\ setting \in LossSettings /\ work[n][l][s] = Pending /\ urls # <<>>
     /\ lost \cap gone = {}
     /\ lost' = lost \cup gone
     /\ Finish(n, l, s)
     /\ cache' = [cache EXCEPT ![n][k] = Shift(k, q)]
     /\ UNCHANGED <<setting, memory, disk, seen, seenDisk, net, seeded, fetched, crashes>>

\* The targets and the requests of batchURLs.
Batch(urls, n) ==
  LET part[i \in 0..Len(urls)] ==
        IF i = 0 THEN <<>> ELSE IF Home[urls[i]] = n THEN Append(part[i - 1], urls[i]) ELSE part[i - 1]
  IN part[Len(urls)]
Batches(urls) == {[to |-> n, urls |-> Batch(urls, n)] : n \in {Home[u] : u \in ToSet(urls)}}

\* What follows once the links of a page were sent to their nodes.
AfterSpread(n, l, s, u) ==
  IF setting = "isolate" \/ (setting = "index-directly" /\ stopped[n]) THEN Finish(n, l, s)
  ELSE /\ work' = [work EXCEPT ![n][l][s] =
                     Page(u, IF setting = "index-queue" THEN "enqueue" ELSE "index", {})]
       /\ UNCHANGED active

\* The answer of downloadPage.  An error, an ignored or irrelevant page, and
\* a stop end the page; the rest is sent to the nodes that own its links, or,
\* for the index loop, indexed.
Download(n, l, s, useful) ==
  /\ work[n][l][s] \notin {Idle, Pending} /\ work[n][l][s].stage = "download"
  /\ LET u == work[n][l][s].url
         batches == Batches(Links[u])
     IN \/ /\ ~useful \/ stopped[n]
           /\ Finish(n, l, s) /\ UNCHANGED net
        \/ /\ useful /\ ~stopped[n] /\ l[1] = "index"
           /\ work' = [work EXCEPT ![n][l][s] = Page(u, "index", {})]
           /\ UNCHANGED <<active, net>>
        \/ /\ useful /\ ~stopped[n] /\ l[1] = "crawl"
           /\ net' = net \cup batches
           /\ IF batches = {} THEN AfterSpread(n, l, s, u)
              ELSE /\ work' = [work EXCEPT ![n][l][s] = Page(u, "spread", {b.to : b \in batches})]
                   /\ UNCHANGED active
  /\ UNCHANGED <<setting, memory, storage, seeded, fetched, lost, crashes>>

\* The response is cut off after its head: handleResponse hears only of its
\* end, so the page keeps its slot for ever.
CutOff(n, l, s) ==
  /\ setting \in CutSettings
  /\ work[n][l][s] \notin {Idle, Pending} /\ work[n][l][s].stage = "download"
  /\ work' = [work EXCEPT ![n][l][s].stage = "cut"]
  /\ UNCHANGED <<setting, memory, active, storage, net, seeded, fetched, lost, crashes>>

\* Node m answered the batch, or the call failed: queueBatches counts it.
BatchAnswer(n, l, s, m) ==
  /\ work[n][l][s] \notin {Idle, Pending} /\ m \in work[n][l][s].waiting
  /\ IF work[n][l][s].waiting = {m} THEN AfterSpread(n, l, s, work[n][l][s].url)
     ELSE /\ work' = [work EXCEPT ![n][l][s].waiting = @ \ {m}]
          /\ UNCHANGED active
  /\ UNCHANGED <<setting, memory, storage, net, seeded, fetched, lost, crashes>>

\* queueUrl: the page enters the index queue of its node.
Enqueue(n, l, s, ok) ==
  /\ ok \/ Faulty
  /\ work[n][l][s] \notin {Idle, Pending} /\ work[n][l][s].stage = "enqueue"
  /\ cache' = IF ok THEN [cache EXCEPT ![n]["index"] = Append(Load(n, "index"), work[n][l][s].url)]
              ELSE cache
  /\ Finish(n, l, s)
  /\ UNCHANGED <<setting, memory, disk, seen, seenDisk, net, seeded, fetched, lost, crashes>>

\* updateIndex of all/index.js called back: every node answered or failed.
Indexed(n, l, s) ==
  /\ work[n][l][s] \notin {Idle, Pending} /\ work[n][l][s].stage = "index"
  /\ Finish(n, l, s)
  /\ UNCHANGED <<setting, memory, storage, net, seeded, fetched, lost, crashes>>

----------------------------------------------------------------------------
(* Requests and crashes *)

\* run.js queues its URLs once every node answered the start.
Seed ==
  /\ ~seeded /\ \A n \in Nodes : ready[n]
  /\ seeded' = TRUE
  /\ net' = net \cup Batches(Seeds)
  /\ UNCHANGED <<setting, memory, active, work, storage, fetched, lost, crashes>>

\* queueURLs at the node that owns the URLs.
QueueURLs(b) ==
  LET new == UpdateQueue(Load(b.to, "crawl"), seen[b.to], b.urls)
  IN /\ b \in net
     /\ net' = net \ {b}
     /\ cache' = [cache EXCEPT ![b.to]["crawl"] = new.queue]
     /\ seen' = [seen EXCEPT ![b.to] = new.seen]
     /\ UNCHANGED <<setting, memory, active, work, disk, seenDisk, seeded, fetched, lost, crashes>>

\* A batch is lost on the way, or the store of its node fails.
LoseBatch(b) ==
  /\ Faulty /\ b \in net
  /\ net' = net \ {b}
  /\ UNCHANGED <<setting, memory, active, work, storage, seeded, fetched, lost, crashes>>

\* The process ends and is started again: only the disk survives.
Crash(n) ==
  /\ crashes < MaxCrashes /\ setting \in CrashSettings /\ latest[n]["crawl"] > 0
  /\ crashes' = crashes + 1
  /\ stopped' = [stopped EXCEPT ![n] = FALSE]
  /\ live' = [live EXCEPT ![n] = {}]
  /\ latest' = [latest EXCEPT ![n] = [k \in Kinds |-> 0]]
  /\ phase' = [phase EXCEPT ![n] = "none"]
  /\ ready' = [ready EXCEPT ![n] = FALSE]
  /\ active' = [active EXCEPT ![n] = [l \in Loops |-> 0]]
  /\ work' = [work EXCEPT ![n] = [l \in Loops |-> [s \in Slots |-> Idle]]]
  /\ cache' = [cache EXCEPT ![n] = [k \in Kinds |-> NotCached]]
  /\ seen' = [seen EXCEPT ![n] = {}]
  /\ UNCHANGED <<setting, disk, seenDisk, net, seeded, fetched, lost>>

AnySlot(Step(_, _, _)) == \E n \in Nodes, l \in Loops : \E s \in Slots : Step(n, l, s)
Moves(n, l, s) ==
  \/ \E useful \in BOOLEAN : Download(n, l, s, useful)
  \/ \E m \in Nodes : BatchAnswer(n, l, s, m)
  \/ \E ok \in BOOLEAN : Enqueue(n, l, s, ok)
  \/ Indexed(n, l, s)

Next ==
  \/ \E n \in Nodes :
       \/ \E reset \in BOOLEAN : Start(n, reset)
       \/ \E ok \in BOOLEAN : Advance(n, ok)
       \/ \E k \in Kinds, keep \in BOOLEAN : Save(n, k, keep)
       \/ \E k \in Kinds : SaveFails(n, k)
       \/ \E l \in Loops : Tick(n, l)
       \/ Stop(n) \/ SaveSeen(n) \/ Crash(n)
  \/ AnySlot(TickFails) \/ AnySlot(Take) \/ AnySlot(TakeFails)
  \/ AnySlot(Moves) \/ AnySlot(CutOff)
  \/ Seed
  \/ \E b \in net : QueueURLs(b) \/ LoseBatch(b)

\* Intervals fire, and calls and the downloads that are not cut off call back;
\* a store that sometimes fails does not fail every modification of a node.
Fairness ==
  \A n \in Nodes, l \in Loops :
    /\ WF_vars(Tick(n, l))
    /\ SF_vars(\E s \in Slots : Take(n, l, s))
    /\ WF_vars(\E s \in Slots : Moves(n, l, s))

Spec == Init /\ [][Next]_vars /\ Fairness

----------------------------------------------------------------------------
(* Properties *)

\* The values every part of the state takes; a crawl queue, cached or stored,
\* never grows beyond twice MAX_QUEUE_LEN (crawl.js:272).
CrawlerTypeOK ==
  /\ setting \in Settings /\ stopped \in [Nodes -> BOOLEAN] /\ ready \in [Nodes -> BOOLEAN]
  /\ live \in [Nodes -> SUBSET Loops] /\ latest \in [Nodes -> [Kinds -> 0..MaxStarts]]
  /\ phase \in [Nodes -> {"none", "resetSeen", "resetQueue", "loadSeen", "loadIndex", "resetIndex"}]
  /\ active \in [Nodes -> [Loops -> Nat]]
  /\ work \in [Nodes -> [Loops -> [Slots -> {Idle, Pending} \cup Pages]]]
  /\ \A n \in Nodes :
       /\ cache[n]["crawl"] \in Bounded \cup {NotCached} /\ cache[n]["index"] \in Seq(URLs) \cup {NotCached}
       /\ disk[n]["crawl"] \in Bounded \cup {Absent} /\ disk[n]["index"] \in Seq(URLs) \cup {Absent}
  /\ seen \in [Nodes -> SUBSET URLs] /\ seenDisk \in [Nodes -> (SUBSET URLs) \cup {Absent}]
  /\ net \subseteq [to : Nodes, urls : Seq(URLs)] /\ seeded \in BOOLEAN
  /\ fetched \in [URLs -> 0..2] /\ lost \subseteq URLs /\ crashes \in 0..MaxCrashes

\* The counter of a loop is the number of pages it works on, whatever path
\* each takes to its callback, and one more than ACTIVE_LIMIT at most: the
\* test of the interval (crawl.js:62, index.js:46) lets that one in.
ActiveCountsPages ==
  \A n \in Nodes, l \in Loops :
    /\ active[n][l] = Cardinality({s \in Slots : work[n][l][s] # Idle})
    /\ active[n][l] <= Limit[setting][l[1]] + 1

\* The domain counts of a queue are those of its URLs: queueing (crawl.js:266)
\* and popping (crawl.js:72) agree, across resets, write backs and restarts.
DomainsCountQueue ==
  \A n \in Nodes :
    LET q == Load(n, "crawl")
    IN \A d \in Domains : q.domains[d] = Cardinality({i \in DOMAIN q.urls : Domain[q.urls[i]] = d})

Undisturbed == crashes = 0 /\ \A n \in Nodes : latest[n]["crawl"] <= 1

\* Until a node restarts or is started again, a URL is crawled at most once,
\* and is queued only before that (the purpose of SEEN_URLS), unless a failed
\* write back of an evicted value lost that URL (cached-store.js:192).
CrawledOnce ==
  Undisturbed => \A u \in URLs \ lost : fetched[u] + Copies(Load(Home[u], "crawl"), u) <= 1

\* "We consider a URL as seen if crawled OR if it's currently in the queue"
\* (crawl.js:21): but for those that a failed write back lost, no URL is seen
\* and then forgotten.
SeenIsQueuedOrCrawled ==
  \A n \in Nodes : \A u \in seen[n] \ lost :
    fetched[u] > 0 \/ u \in ToSet(Load(n, "crawl").urls)

\* The same until a node restarts or is started again.
NoUrlForgotten == Undisturbed => SeenIsQueuedOrCrawled

\* More downloads of the loop were cut off than its limit: it has no slot left.
Starved(n, l) ==
  Cardinality({s \in Slots : work[n][l][s] \notin {Idle, Pending} /\ work[n][l][s].stage = "cut"})
    > Limit[setting][l[1]]

\* A queued URL is taken from the queue unless its crawler is stopped or
\* restarted, or lost every slot to a download that was cut off: no other path
\* (an error of the store, of the page, of a batch or of the index) keeps one.
QueuedIsTaken ==
  \A u \in URLs :
    LET n == Home[u]
        queued == u \in ToSet(Load(n, "crawl").urls)
        loop == \E l \in live[n] : l[1] = "crawl" /\ ~Starved(n, l)
    IN (queued /\ loop) ~> (~queued \/ ~loop)
=============================================================================
