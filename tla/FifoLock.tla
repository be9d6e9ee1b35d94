------------------------------ MODULE FifoLock -------------------------------
(***************************************************************************)
(* What a mutex of util/sync.js promises: a first-come first-served lock.  *)
(***************************************************************************)
EXTENDS LockOps

CONSTANT Callers

VARIABLE lock

Idle(c) == lock.holder # c /\ \A i \in DOMAIN lock.queue : lock.queue[i] # c

Init == lock = FreeLock

Arrive(c)  == Idle(c) /\ lock' = Ask(lock, c)
Enter(c)   == IsNext(lock, c) /\ lock' = Grant(lock)
Leave(c)   == lock.holder = c /\ lock' = Release(lock)

Next == \E c \in Callers : Arrive(c) \/ Enter(c) \/ Leave(c)

Spec == /\ Init /\ [][Next]_lock
        /\ \A c \in Callers : WF_lock(Enter(c)) /\ WF_lock(Leave(c))
==============================================================================
