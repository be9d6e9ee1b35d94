----------------------------- MODULE CachedStore -----------------------------
(***************************************************************************)
(* The write-back cache of local/cached-store.js over a slower store.      *)
(*                                                                         *)
(* A call runs until it waits for a lock or for the store, so an action is *)
(* one turn of the event loop: a call, a timer that obtains a lock, or a   *)
(* completion of the store.  A call that returned keeps its reply until    *)
(* its caller calls again.                                                 *)
(*                                                                         *)
(* A task is a caller with at most one call in progress, or a key, which   *)
(* stands for the flushItem call of a flush for that key.                  *)
(*                                                                         *)
(* The store below holds one value per key.  Keys with the same sync key   *)
(* share one file of it, so their accesses must not overlap.               *)
(***************************************************************************)
EXTENDS LockOps, RecencyOps, FiniteSets, SequencesExt

CONSTANTS Clients,      \* the callers of get, put, del and refresh
          Keys,         \* the cache keys, an object's group and key
          SyncOf,       \* store._getSyncKey, the file a key lives in
          Values,       \* the objects stored
          FifoCache,    \* params.fifoCache
          Faults,       \* the operations of the store that may fail
          NoKey, Absent, Failed, Done

ASSUME CachedStoreAssumption ==
    /\ Capacity \in Nat \ {0}
    /\ DOMAIN SyncOf = Keys
    /\ Faults \subseteq {"read", "write", "del"}
    /\ Clients \cap Keys = {}
    /\ Nobody \notin Clients \cup Keys /\ NoKey \notin Keys
    /\ {Absent, Failed, Done} \cap Values = {}
    /\ NoEntry \notin [key : Keys, value : [data : Values, dirty : BOOLEAN]]

SyncKeys == {SyncOf[k] : k \in Keys}
Tasks == Clients \cup Keys

VARIABLES cache,        \* this.cache, entries [data, dirty] by recency
          locks,        \* this.locks
          made,         \* the sync keys whose lock was created
          disk,         \* what this.store holds
          call,         \* where the call of each task is
          reply,        \* what the call of each client returns
          flush,        \* the flush call: "idle", "running", "returned" or "thrown"
          unsaved       \* history: the keys whose last write failed

vars == <<cache, locks, made, disk, call, reply, flush, unsaved>>

Waiting == {"awaitLoad", "awaitWrite", "awaitDel", "awaitFlush"}
Running == {"loading", "writing", "deleting", "flushing"}

\* A call: its phase, the key whose lock it wants or holds, and the value it
\* is to write.
Calls == [phase : {"idle", "returned"} \cup Waiting \cup Running,
          key : Keys \cup {NoKey}, item : Values \cup {Absent}]

Cached == CachedKeys(cache)

TypeOK ==
    /\ cache \in Seq([key : Keys, value : [data : Values, dirty : BOOLEAN]])
    /\ Len(cache) <= Capacity /\ Cardinality(Cached) = Len(cache)
    /\ locks \in [SyncKeys -> LocksOver(Tasks)]
    /\ made \subseteq SyncKeys
    /\ disk \in [Keys -> Values \cup {Absent}]
    /\ call \in [Tasks -> Calls]
    /\ reply \in [Clients -> Values \cup {Absent, Failed, Done}]
    /\ flush \in {"idle", "running", "returned", "thrown"}
    /\ unsaved \subseteq Keys

NoCall == [phase |-> "idle", key |-> NoKey, item |-> Absent]

Init == /\ cache = << >>
        /\ locks = [s \in SyncKeys |-> FreeLock]
        /\ made = {}
        /\ disk = [k \in Keys |-> Absent]
        /\ call = [t \in Tasks |-> NoCall]
        /\ reply = [t \in Clients |-> Done]
        /\ flush = "idle"
        /\ unsaved = {}

------------------------------------------------------------------------------
\* A caller whose last call returned may call again.
Idle(t) == call[t].phase \in {"idle", "returned"}

Returned == [NoCall EXCEPT !.phase = "returned"]

Return(t, r) == /\ call' = [call EXCEPT ![t] = Returned]
                /\ reply' = [reply EXCEPT ![t] = r]

Lock(t) == SyncOf[call[t].key]

Unlocked(t) == [locks EXCEPT ![Lock(t)] = Release(@)]

\* A timer of lockMutex obtains the lock that t waits for.
Obtain(t, waiting) ==
    /\ call[t].phase = waiting
    /\ IsNext(locks[Lock(t)], t)

\* The phase of a call that asks for lock s in the lock table L.
AskPhase(L, s, t, waiting, running) ==
    IF Ask(L[s], t).holder = t THEN running ELSE waiting

\* An evicted entry was modified since it was read from the store.
MustSave(victim) == IF victim = NoEntry THEN FALSE ELSE victim.value.dirty

\* Faulty variant: a modified entry is evicted like one that was only read.
CacheItemDropsDirty(t, k, v, dirty, r, L) ==
    /\ cache' = Store(cache, k, [data |-> v, dirty |-> dirty], FifoCache)
    /\ Return(t, r)
    /\ locks' = L

\* Faulty variant: the write back asks for the lock of the key inserted.
CacheItemLocksNewKey(t, k, v, dirty, r, L) ==
    LET victim == Victim(cache, k)
        s == SyncOf[k]
    IN  /\ cache' = Store(cache, k, [data |-> v, dirty |-> dirty], FifoCache)
        /\ \/ /\ ~MustSave(victim)
              /\ Return(t, r)
              /\ locks' = L
           \/ /\ MustSave(victim)
              /\ locks' = [L EXCEPT ![s] = Ask(@, t)]
              /\ call' = [call EXCEPT ![t] =
                    [phase |-> AskPhase(L, s, t, "awaitWrite", "writing"),
                     key |-> victim.key, item |-> victim.value.data]]
              /\ reply' = [reply EXCEPT ![t] = r]

\* A call that throws answers nobody.
Throw(t) == call' = [call EXCEPT ![t] = NoCall] /\ UNCHANGED reply

\* cacheItem: insert the value, and write back the dirty entry that this
\* evicts before the call returns.  L is the lock table when it is called.
\* When the lock is free the write starts in this turn, when the evicted key
\* cannot be cached again.  A victim that was put without being loaded has no
\* lock, if its file was never accessed: the code throws, and it is lost.
CacheItem(t, k, v, dirty, r, L) ==
    LET victim == Victim(cache, k)
        s == SyncOf[victim.key]
    IN  /\ cache' = Store(cache, k, [data |-> v, dirty |-> dirty], FifoCache)
        /\ \/ /\ ~MustSave(victim)
              /\ Return(t, r)
              /\ locks' = L
           \/ /\ MustSave(victim)
              /\ s \in made
              /\ locks' = [L EXCEPT ![s] = Ask(@, t)]
              /\ call' = [call EXCEPT ![t] =
                    [phase |-> AskPhase(L, s, t, "awaitWrite", "writing"),
                     key |-> victim.key, item |-> victim.value.data]]
              /\ reply' = [reply EXCEPT ![t] = r]
           \/ /\ MustSave(victim)
              /\ s \notin made
              /\ Throw(t)
              /\ locks' = L

------------------------------------------------------------------------------
\* get and tryGet, and the start of loadItem on a miss.
TryGet(t, k) ==
    /\ Idle(t)
    /\ \/ /\ k \in Cached
          /\ cache' = Touch(cache, k, FifoCache)
          /\ Return(t, ValueOf(cache, k).data)
          /\ UNCHANGED <<locks, made>>
       \/ /\ k \notin Cached
          /\ made' = made \cup {SyncOf[k]}
          /\ locks' = [locks EXCEPT ![SyncOf[k]] = Ask(@, t)]
          /\ call' = [call EXCEPT ![t] =
                [phase |-> AskPhase(locks, SyncOf[k], t, "awaitLoad", "loading"),
                 key |-> k, item |-> Absent]]
          /\ UNCHANGED <<cache, reply>>
    /\ UNCHANGED <<disk, flush, unsaved>>

BeginLoad(t) ==
    /\ Obtain(t, "awaitLoad")
    /\ locks' = [locks EXCEPT ![Lock(t)] = Grant(@)]
    /\ call' = [call EXCEPT ![t].phase = "loading"]
    /\ UNCHANGED <<reply, cache, made, disk, flush, unsaved>>

\* The callback of store.tryGet in loadItem.
EndLoad(t) ==
    LET k == call[t].key
    IN  /\ call[t].phase = "loading"
        /\ \/ /\ "read" \in Faults
              /\ Return(t, Failed)
              /\ locks' = Unlocked(t)
              /\ UNCHANGED cache
           \/ /\ disk[k] = Absent
              /\ Return(t, Absent)
              /\ locks' = Unlocked(t)
              /\ UNCHANGED cache
           \/ /\ disk[k] # Absent
              /\ CacheItem(t, k, disk[k], FALSE, disk[k], Unlocked(t))
        /\ UNCHANGED <<made, disk, flush, unsaved>>

\* put, which creates no lock.
Put(t, k, v) ==
    /\ Idle(t)
    /\ CacheItem(t, k, v, TRUE, Done, locks)
    /\ UNCHANGED <<made, disk, flush, unsaved>>

\* Faulty variant: the evicted value is written without looking at the cache.
BeginWriteStale(t) ==
    /\ Obtain(t, "awaitWrite")
    /\ locks' = [locks EXCEPT ![Lock(t)] = Grant(@)]
    /\ call' = [call EXCEPT ![t].phase = "writing"]
    /\ UNCHANGED <<reply, cache, made, disk, flush, unsaved>>

\* The lock callback of cacheItem: the evicted key may be cached again.
BeginWrite(t) ==
    LET k == call[t].key
        again == k \in Cached
        dirty == again /\ ValueOf(cache, k).dirty
    IN  /\ Obtain(t, "awaitWrite")
        /\ locks' = [locks EXCEPT ![Lock(t)] = Grant(@)]
        /\ call' = [call EXCEPT ![t] =
              [phase |-> "writing", key |-> k,
               item |-> IF dirty THEN ValueOf(cache, k).data ELSE call[t].item]]
        /\ cache' = IF again /\ ~dirty
                    THEN Store(cache, k, [data |-> call[t].item, dirty |-> FALSE], FifoCache)
                    ELSE IF again THEN Touch(cache, k, FifoCache) ELSE cache
        /\ UNCHANGED <<reply, made, disk, flush, unsaved>>

\* store.put ends.
Write(k, v) == disk' = [disk EXCEPT ![k] = v] /\ unsaved' = unsaved \ {k}

WriteFails(k) == "write" \in Faults /\ UNCHANGED disk /\ unsaved' = unsaved \cup {k}

\* Faulty variant: the lock is not released.
EndWriteKeepsLock(t) ==
    /\ call[t].phase = "writing"
    /\ Write(call[t].key, call[t].item)
    /\ Return(t, reply[t])
    /\ UNCHANGED <<locks, cache, made, flush>>

\* The callback of store.put in cacheItem.
EndWrite(t) ==
    /\ call[t].phase = "writing"
    /\ locks' = Unlocked(t)
    /\ \/ Write(call[t].key, call[t].item) /\ Return(t, reply[t])
       \/ WriteFails(call[t].key) /\ Return(t, Failed)
    /\ UNCHANGED <<cache, made, flush>>

\* del
Del(t, k) ==
    /\ Idle(t)
    /\ made' = made \cup {SyncOf[k]}
    /\ locks' = [locks EXCEPT ![SyncOf[k]] = Ask(@, t)]
    /\ call' = [call EXCEPT ![t] =
          [phase |-> AskPhase(locks, SyncOf[k], t, "awaitDel", "deleting"),
           key |-> k, item |-> Absent]]
    /\ UNCHANGED <<reply, cache, disk, flush, unsaved>>

BeginDel(t) ==
    /\ Obtain(t, "awaitDel")
    /\ locks' = [locks EXCEPT ![Lock(t)] = Grant(@)]
    /\ call' = [call EXCEPT ![t].phase = "deleting"]
    /\ UNCHANGED <<reply, cache, made, disk, flush, unsaved>>

\* The callback of store.del: the entry leaves the cache whatever happened.
\* A key that only the cache held is no error.
EndDel(t) ==
    LET k == call[t].key
        removed == IF k \in Cached THEN ValueOf(cache, k).data ELSE Absent
    IN  /\ call[t].phase = "deleting"
        /\ cache' = Without(cache, k)
        /\ locks' = Unlocked(t)
        /\ \/ /\ Write(k, Absent)
              /\ Return(t, IF removed # Absent THEN removed
                           ELSE IF disk[k] # Absent THEN disk[k] ELSE Failed)
           \/ /\ "del" \in Faults
              /\ Return(t, Failed)
              /\ UNCHANGED <<disk, unsaved>>
        /\ UNCHANGED <<made, flush>>

\* refresh
Refresh(t, k) ==
    /\ Idle(t)
    /\ cache' = IF k \in Cached THEN Touch(cache, k, FifoCache) ELSE cache
    /\ Return(t, Done)
    /\ UNCHANGED <<locks, made, disk, flush, unsaved>>

------------------------------------------------------------------------------
\* flushItem until it waits, for the lock or for the store; at is the lock
\* table and the cache when it is called.
FlushItem(at, k) ==
    LET L == [at.locks EXCEPT ![SyncOf[k]] = Ask(@, k)]
    IN  [locks |-> L,
         cache |-> IF L[SyncOf[k]].holder = k THEN Touch(at.cache, k, FifoCache) ELSE at.cache]

FlushItems(order) ==
    LET after[i \in 0 .. Len(order)] ==
            IF i = 0 THEN [locks |-> locks, cache |-> cache] ELSE FlushItem(after[i - 1], order[i])
    IN  after[Len(order)]

\* The keys whose flushItem waits or writes: those of the cache, or those in
\* front of one without a lock, where flush throws and will not call back.
Flushable == IF \A k \in Cached : SyncOf[k] \in made THEN {Cached}
             ELSE SUBSET {k \in Cached : SyncOf[k] \in made}

\* flush: flushItem for every cached key, in one turn.  The keys come in the
\* order of their insertion, which the model leaves open.  Those whose lock
\* is free begin to write at once.  A flush of an empty cache never calls
\* back.  One flush runs at a time.
Flush ==
    /\ \A k \in Keys : Idle(k)
    /\ \E keys \in Flushable :
          /\ \E order \in SetToSeqs(keys) :
                /\ locks' = FlushItems(order).locks
                /\ cache' = FlushItems(order).cache
          /\ call' = [t \in Tasks |->
                IF t \notin keys THEN call[t]
                ELSE IF locks'[SyncOf[t]].holder = t
                THEN [NoCall EXCEPT !.phase = "flushing", !.key = t, !.item = ValueOf(cache, t).data]
                ELSE [NoCall EXCEPT !.phase = "awaitFlush", !.key = t]]
          /\ flush' = IF keys = Cached THEN "running" ELSE "thrown"
    /\ UNCHANGED <<reply, made, disk, unsaved>>

\* The callback of flushItem for k: the last one calls back the flush.
Flushed(k) ==
    /\ call' = [call EXCEPT ![k] = NoCall]
    /\ flush' = IF flush = "running" /\ \A j \in Keys \ {k} : Idle(j) THEN "returned" ELSE flush

\* The lock callback of flushItem: the key may have left the cache.
BeginFlush(k) ==
    /\ Obtain(k, "awaitFlush")
    /\ \/ /\ k \in Cached
          /\ cache' = Touch(cache, k, FifoCache)
          /\ call' = [call EXCEPT ![k] =
                [phase |-> "flushing", key |-> k, item |-> ValueOf(cache, k).data]]
          /\ locks' = [locks EXCEPT ![Lock(k)] = Grant(@)]
          /\ UNCHANGED flush
       \/ /\ k \notin Cached
          /\ Flushed(k)
          /\ locks' = [locks EXCEPT ![Lock(k)] = Release(Grant(@))]
          /\ UNCHANGED cache
    /\ UNCHANGED <<reply, made, disk, unsaved>>

\* Faulty variant: flushItem calls back without waiting for the store.
EndFlushBeforeWrite(k) ==
    /\ call[k].phase = "flushing"
    /\ Flushed(k)
    /\ locks' = Unlocked(k)
    /\ UNCHANGED <<reply, cache, made, disk, unsaved>>

\* The callback of store.put in flushItem.
EndFlush(k) ==
    /\ call[k].phase = "flushing"
    /\ Flushed(k)
    /\ locks' = Unlocked(k)
    /\ Write(k, call[k].item) \/ WriteFails(k)
    /\ UNCHANGED <<reply, cache, made>>

------------------------------------------------------------------------------
\* The steps that no call of a client starts.
Obtained(t)  == BeginLoad(t) \/ BeginWrite(t) \/ BeginDel(t)
Completed(t) == EndLoad(t) \/ EndWrite(t) \/ EndDel(t)

Background == \/ \E t \in Clients : Obtained(t) \/ Completed(t)
              \/ \E k \in Keys : BeginFlush(k) \/ EndFlush(k)

Request(t) == \E k \in Keys : \/ TryGet(t, k) \/ Del(t, k) \/ Refresh(t, k)
                              \/ \E v \in Values : Put(t, k, v)

Next == \/ \E t \in Clients : Request(t)
        \/ Flush
        \/ Background

\* Due timers fire and the store answers.
Fairness ==
    /\ \A t \in Clients : WF_vars(Obtained(t) \/ Completed(t))
    /\ \A k \in Keys : WF_vars(BeginFlush(k) \/ EndFlush(k))

Spec == Init /\ [][Next]_vars /\ Fairness

------------------------------------------------------------------------------
InStore == {t \in Tasks : call[t].phase \in Running}

\* Two accesses of the store never touch the same file at the same time: a
\* shard or a file is read and written whole, so that overlapping accesses
\* would lose one of them (the locks of loadItem, cacheItem, flushItem, del).
ExclusiveAccess == \A t, u \in InStore : t = u \/ Lock(t) # Lock(u)

\* An entry that is not dirty is dropped when it is evicted, so its value
\* must be what the store holds, or be on its way there, whatever loads,
\* evictions and deletions of the key overlap; only a failed write, which
\* the code reports, may leave it different.
CleanMeansSaved ==
    \A k \in Cached :
        LET entry == ValueOf(cache, k)
        IN  \/ entry.dirty
            \/ k \in unsaved
            \/ disk[k] = entry.data
            \/ \E t \in InStore : call[t].key = k /\ call[t].item = entry.data
==============================================================================
