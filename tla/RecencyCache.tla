----------------------------- MODULE RecencyCache ----------------------------
(***************************************************************************)
(* What util/cache.js promises: a bounded map that evicts the entry that   *)
(* was used, or under the FIFO policy inserted, the longest ago.           *)
(***************************************************************************)
EXTENDS RecencyOps

CONSTANTS Keys, Values, Thrown

VARIABLES entries,      \* the entries, most recently used first
          fifo,         \* params.fifoCache
          result        \* what the last call returned

Init == entries = << >> /\ fifo \in BOOLEAN /\ result = NoEntry

Get(k) ==
    /\ k \in CachedKeys(entries)
    /\ entries' = Touch(entries, k, fifo)
    /\ result' = ValueOf(entries, k)

Put(k, v) ==
    /\ entries' = Store(entries, k, v, fifo)
    /\ result' = Victim(entries, k)

Del(k) ==
    /\ k \in CachedKeys(entries)
    /\ entries' = Without(entries, k)
    /\ result' = entries[Position(entries, k)]

Refresh(k) ==
    /\ k \in CachedKeys(entries)
    /\ entries' = Touch(entries, k, fifo)
    /\ result' = NoEntry

Refuse(k) ==
    /\ k \notin CachedKeys(entries)
    /\ result' = Thrown
    /\ UNCHANGED entries

Next == /\ \E k \in Keys : \/ Get(k) \/ Del(k) \/ Refresh(k) \/ Refuse(k)
                           \/ \E v \in Values : Put(k, v)
        /\ UNCHANGED fifo

Spec == Init /\ [][Next]_<<entries, fifo, result>>
==============================================================================
