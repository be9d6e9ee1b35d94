----------------------------- MODULE AtomicStore -----------------------------
(***************************************************************************)
(* getAndModify of local/atomic-store.js as updateIndex of local/index.js  *)
(* uses it: read the pages of a term, add a page, and store them, under a  *)
(* lock of its own per sync key, over the cached store.                    *)
(*                                                                         *)
(* The value of a term is the set of its pages, and an updater stands for  *)
(* the page that it indexes.  The callbacks of getAndModify run in the     *)
(* turn in which the cached store returns: while a callback is due, no     *)
(* other task steps.                                                       *)
(***************************************************************************)
EXTENDS CachedStore

CONSTANT Updaters       \* the clients that update the index

ASSUME AtomicStoreAssumption ==
    /\ Updaters \subseteq Clients
    /\ Values = (SUBSET Updaters) \ {{}}

VARIABLES alocks,       \* the locks of the atomic store
          job,          \* where each getAndModify is
          acked,        \* history: the pages whose update returned no error
          quiet         \* history: no call overlapped the flush in progress

avars == <<alocks, job, acked, quiet>>
allvars == <<vars, avars>>

Jobs == [phase : {"idle", "awaitAtomic", "locked", "reading", "putting"},
         term : Keys \cup {NoKey}]

NoJob == [phase |-> "idle", term |-> NoKey]

AtomicTypeOK ==
    /\ TypeOK
    /\ alocks \in [SyncKeys -> LocksOver(Updaters)]
    /\ job \in [Updaters -> Jobs]
    /\ acked \in [Keys -> SUBSET Updaters]
    /\ quiet \in BOOLEAN

AInit == /\ Init
         /\ alocks = [s \in SyncKeys |-> FreeLock]
         /\ job = [u \in Updaters |-> NoJob]
         /\ acked = [k \in Keys |-> {}]
         /\ quiet = TRUE

------------------------------------------------------------------------------
Back(t) == call[t].phase = "returned"

\* A callback of getAndModify runs before anything else.
CallbackDue ==
    \E u \in Updaters : \/ job[u].phase = "locked"
                        \/ job[u].phase \in {"reading", "putting"} /\ Back(u)

ATerm(u) == job[u].term

Busy == {u \in Updaters : job[u].phase # "idle"}

\* A call that starts while the flush runs.
Disturb == quiet' = (quiet /\ flush # "running")

\* Faulty variant: getAndModify does not take its lock.
UpdateUnlocked(u, k) ==
    /\ job[u].phase = "idle"
    /\ job' = [job EXCEPT ![u] = [phase |-> "locked", term |-> k]]
    /\ Disturb
    /\ UNCHANGED <<vars, alocks, acked>>

\* getAndModify asks for its lock.
Update(u, k) ==
    /\ job[u].phase = "idle"
    /\ alocks' = [alocks EXCEPT ![SyncOf[k]] = Ask(@, u)]
    /\ job' = [job EXCEPT ![u] =
          [phase |-> AskPhase(alocks, SyncOf[k], u, "awaitAtomic", "locked"), term |-> k]]
    /\ Disturb
    /\ UNCHANGED <<vars, acked>>

ObtainAtomic(u) ==
    /\ job[u].phase = "awaitAtomic"
    /\ IsNext(alocks[SyncOf[ATerm(u)]], u)
    /\ alocks' = [alocks EXCEPT ![SyncOf[ATerm(u)]] = Grant(@)]
    /\ job' = [job EXCEPT ![u].phase = "locked"]
    /\ UNCHANGED <<vars, acked, quiet>>

\* The lock callback: store.tryGet.
Read(u) ==
    /\ job[u].phase = "locked"
    /\ TryGet(u, ATerm(u))
    /\ job' = [job EXCEPT ![u].phase = "reading"]
    /\ UNCHANGED <<alocks, acked, quiet>>

\* unlockWrite, and getAndModify calls back.
Answer(u) ==
    /\ alocks' = [alocks EXCEPT ![SyncOf[ATerm(u)]] = Release(@)]
    /\ job' = [job EXCEPT ![u] = NoJob]
    /\ call' = [call EXCEPT ![u] = NoCall]
    /\ reply' = [reply EXCEPT ![u] = Done]
    /\ UNCHANGED <<cache, locks, made, disk, flush, unsaved>>

\* The callback of tryGet when the term was read: modify or default, and
\* store.put.
Modify(u) ==
    LET pages == IF reply[u] = Absent THEN {} ELSE reply[u]
    IN  /\ job[u].phase = "reading" /\ Back(u)
        /\ reply[u] # Failed
        /\ u \notin pages
        /\ Put(u, ATerm(u), pages \cup {u})
        /\ job' = [job EXCEPT ![u].phase = "putting"]
        /\ UNCHANGED <<alocks, acked, quiet>>

\* The callback of tryGet when the read failed, or when modify throws "Page
\* ... is already in the index".  A modify that returns nothing, as those of
\* the queues do, ends in the same way.
GiveUp(u) ==
    /\ job[u].phase = "reading" /\ Back(u)
    /\ IF reply[u] \in {Failed, Absent} THEN reply[u] = Failed ELSE u \in reply[u]
    /\ Answer(u)
    /\ UNCHANGED <<acked, quiet>>

\* The callback of put.
Finish(u) ==
    /\ job[u].phase = "putting" /\ Back(u)
    /\ Answer(u)
    /\ acked' = IF reply[u] = Failed THEN acked
                ELSE [acked EXCEPT ![ATerm(u)] = @ \cup {u}]
    /\ UNCHANGED quiet

\* flushCache of local/search.js, for the cache of the atomic store.
FlushTerms ==
    /\ Flush
    /\ quiet' = (Busy = {})
    /\ UNCHANGED <<alocks, job, acked>>

\* The timers and completions of the cached store.
StoreStep ==
    /\ Background
    /\ quiet' = (quiet \/ flush' # "running")
    /\ UNCHANGED <<alocks, job, acked>>

------------------------------------------------------------------------------
InTurn(u) == Read(u) \/ Modify(u) \/ GiveUp(u) \/ Finish(u)

ANext == \/ \E u \in Updaters : InTurn(u)
         \/ /\ ~CallbackDue
            /\ \/ \E u \in Updaters : ObtainAtomic(u) \/ \E k \in Keys : Update(u, k)
               \/ FlushTerms
               \/ StoreStep

\* Callbacks run at once, and the event loop serves every timer that is due
\* and every completion of the store, once no callback is due.
AFairness ==
    /\ WF_allvars(\E u \in Updaters : InTurn(u))
    /\ \A u \in Updaters : WF_allvars(ObtainAtomic(u))
    /\ Fairness

ASpec == AInit /\ [][ANext]_allvars /\ AFairness

------------------------------------------------------------------------------
Saving(k) == {t \in Clients : call[t].phase \in {"awaitWrite", "writing"} /\ call[t].key = k}

\* What a read of the term would find once the evictions in progress end.
PagesOf(k) ==
    IF k \in Cached THEN ValueOf(cache, k).data
    ELSE IF Saving(k) # {} THEN call[CHOOSE t \in Saving(k) : TRUE].item
    ELSE IF disk[k] = Absent THEN {} ELSE disk[k]

\* A page whose update was acknowledged stays in the index, in the cache, in
\* an eviction in progress or in the store, whatever updates, evictions and
\* flushes overlap ("An atomic filesystem-backed key-value store").
NoLostUpdate == \A k \in Keys : acked[k] \subseteq PagesOf(k)

\* A flush that no call overlaps leaves the whole index on disk: what the
\* shutdown of run.js, which stops the node's work before it flushes, relies on.
QuietFlushSaves ==
    [][(flush = "running" /\ flush' = "returned" /\ quiet) =>
          \A k \in Keys : PagesOf(k) = {} \/ PagesOf(k) = disk'[k]]_allvars

\* "Flushes all the items in the cache to storage": a flush does not call
\* back while an item that the cache held when it began is not on disk.
\* The last flushItem to end found its item no longer cached.
FlushSaves ==
    [][(flush = "running" /\ flush' = "returned") =>
          \A k \in Keys : call[k].phase = "awaitFlush" =>
              PagesOf(k) = {} \/ PagesOf(k) = disk'[k]]_allvars

\* Every update answers, though it waits for its own lock, for the lock of
\* its term, and for the lock of the term that its own put evicts.
EveryUpdateAnswers == \A u \in Updaters : u \in Busy ~> u \notin Busy

\* The cached, evicted and stored values together are an index to which each
\* update adds its page at once.
Index == INSTANCE AtomicIndex WITH
    Terms <- Keys,
    NoTerm <- NoKey,
    index <- [k \in Keys |-> PagesOf(k)],
    term  <- [u \in Updaters |-> job[u].term],
    added <- {u \in Updaters : job[u].phase = "putting"}

ImplementsAtomicIndex == Index!Spec
==============================================================================
