-------------------------------- MODULE Mutex --------------------------------
(***************************************************************************)
(* The mutex of util/sync.js.  lockMutex draws a ticket and calls          *)
(* lockWithIndex, which either enters the critical section or polls again  *)
(* 5 ms later; unlockMutex advances the ticket being served.  JavaScript   *)
(* runs one callback at a time, so every call is one atomic step and the   *)
(* interleaving is that of timers and of the callers' own callbacks.       *)
(*                                                                         *)
(* A caller is an asynchronous task.  It may lock again after it unlocked, *)
(* which the bound MaxTickets on waitIndex keeps finite for TLC.           *)
(***************************************************************************)
EXTENDS Naturals

CONSTANTS Callers,      \* the asynchronous tasks that share the mutex
          MaxTickets,   \* bound on the tickets drawn
          Nobody        \* no holder, in the abstract view of the lock

ASSUME MutexAssumption == MaxTickets \in Nat /\ Nobody \notin Callers

VARIABLES locked,       \* state.locked
          index,        \* state.index, the ticket being served
          waitIndex,    \* state.waitIndex, the next ticket to draw
          ticket,       \* the argument index of each caller's lockWithIndex
          phase         \* where each caller is with respect to the mutex

vars == <<locked, index, waitIndex, ticket, phase>>

TypeOK == /\ locked \in BOOLEAN
          /\ waitIndex \in 0 .. MaxTickets
          /\ index \in 0 .. waitIndex
          /\ ticket \in [Callers -> Nat]
          /\ phase \in [Callers -> {"idle", "polling", "inside"}]

Init == /\ locked = FALSE
        /\ index = 0
        /\ waitIndex = 0
        /\ ticket = [c \in Callers |-> 0]
        /\ phase = [c \in Callers |-> "idle"]

\* Faulty variants of the definitions that follow them: the two tests of
\* lockWithIndex swapped for either alone, a counter that does not advance.
MayEnterOnEither(t) == ~locked \/ index = t
MayEnterUnlocked(t) == ~locked
TicketKept == waitIndex
ServingKept == index

\* The test of lockWithIndex, negated: the caller may enter.
MayEnter(t) == ~locked /\ index = t

NextTicket  == waitIndex + 1
NextServing == index + 1

\* lockMutex, with its first call of lockWithIndex.
Lock(c) ==
    /\ phase[c] = "idle"
    /\ waitIndex < MaxTickets
    /\ ticket' = [ticket EXCEPT ![c] = waitIndex]
    /\ waitIndex' = NextTicket
    /\ \/ /\ MayEnter(waitIndex)
          /\ locked' = TRUE
          /\ phase' = [phase EXCEPT ![c] = "inside"]
       \/ /\ ~MayEnter(waitIndex)
          /\ phase' = [phase EXCEPT ![c] = "polling"]
          /\ UNCHANGED locked
    /\ UNCHANGED index

\* The timer of lockWithIndex, when it stops polling.  A timer that polls
\* again changes nothing.
Poll(c) ==
    /\ phase[c] = "polling"
    /\ MayEnter(ticket[c])
    /\ locked' = TRUE
    /\ phase' = [phase EXCEPT ![c] = "inside"]
    /\ UNCHANGED <<index, waitIndex, ticket>>

\* unlockMutex, called at the end of a critical section.  It would throw on a
\* mutex that is not locked, and the caller would stay inside.
Unlock(c) ==
    /\ phase[c] = "inside"
    /\ locked
    /\ index' = NextServing
    /\ locked' = FALSE
    /\ phase' = [phase EXCEPT ![c] = "idle"]
    /\ UNCHANGED <<waitIndex, ticket>>

Next == \E c \in Callers : Lock(c) \/ Poll(c) \/ Unlock(c)

\* A timer that is due fires, and every critical section ends.
Fairness == \A c \in Callers : WF_vars(Poll(c)) /\ WF_vars(Unlock(c))

Spec == Init /\ [][Next]_vars /\ Fairness

------------------------------------------------------------------------------
Inside  == {c \in Callers : phase[c] = "inside"}
Waiting == {c \in Callers : phase[c] = "polling"}

\* Two callbacks never run their critical sections at the same time
\* (lockWithIndex sets locked before it calls back).
MutualExclusion == \A c, d \in Inside : c = d

\* Tickets are served in the order in which they were drawn: a timer never
\* enters before a caller that asked earlier, whatever the order in which
\* the timers fire, and a new call never overtakes a caller that polls.
ServedInOrder ==
    [][\A c \in Callers :
          (phase[c] # "inside" /\ phase'[c] = "inside") =>
              \A d \in Waiting : d = c \/ ticket'[c] < ticket[d]]_vars

\* No caller polls for ever.
EveryCallerServed == \A c \in Callers : phase[c] = "polling" ~> phase[c] = "inside"

------------------------------------------------------------------------------
\* The counters implement a first-come first-served lock.
\* The ticket to be served when the mutex is next unlocked, or is already, and
\* the caller that polls with a ticket.
FirstWaiting == IF locked THEN index + 1 ELSE index
PollingWith(t) ==
    IF \E c \in Waiting : ticket[c] = t THEN CHOOSE c \in Waiting : ticket[c] = t ELSE Nobody

lockView ==
    [holder |-> IF Inside = {} THEN Nobody ELSE CHOOSE c \in Inside : TRUE,
     queue  |-> [i \in 1 .. (waitIndex - FirstWaiting) |-> PollingWith(FirstWaiting + i - 1)]]

Abstract == INSTANCE FifoLock WITH lock <- lockView

\* Every behaviour of the ticket counters is one of a first-come
\* first-served lock, fairness included (lockMutex and unlockMutex).
ImplementsFifoLock == Abstract!Spec
==============================================================================
