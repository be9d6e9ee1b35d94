------------------------------- MODULE LockOps -------------------------------
(***************************************************************************)
(* The mutex of util/sync.js as its users see it: a lock is held by one    *)
(* task or by nobody, and the tasks that wait for it are served in the     *)
(* order in which they asked.  Module Mutex models the ticket counters and *)
(* the polling behind this view and checks that they implement it.         *)
(***************************************************************************)
EXTENDS Sequences

CONSTANT Nobody     \* the holder of a lock that no task holds

\* A mutex as createMutex returns it.
FreeLock == [holder |-> Nobody, queue |-> << >>]

LocksOver(Tasks) == [holder : Tasks \cup {Nobody}, queue : Seq(Tasks)]

\* lockMutex: the caller runs its critical section at once when the mutex is
\* unlocked and it is next in line, otherwise it starts to poll.
Ask(lock, task) ==
    IF lock.holder = Nobody /\ lock.queue = << >>
    THEN [lock EXCEPT !.holder = task]
    ELSE [lock EXCEPT !.queue  = Append(@, task)]

\* A timer of lockWithIndex finds the mutex unlocked and its ticket next.
IsNext(lock, task) ==
    lock.holder = Nobody /\ lock.queue # << >> /\ Head(lock.queue) = task

Grant(lock) == [holder |-> Head(lock.queue), queue |-> Tail(lock.queue)]

\* unlockMutex.
Release(lock) == [lock EXCEPT !.holder = Nobody]
==============================================================================
