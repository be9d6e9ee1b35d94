----------------------------- MODULE Mutex_proofs ----------------------------
(***************************************************************************)
(* Proofs about the mutex of util/sync.js, for every set of callers and    *)
(* every bound on the tickets.                                             *)
(*                                                                         *)
(* Mutual exclusion is not inductive: it needs that the ticket being       *)
(* served belongs to the caller inside, and that no two callers that wait  *)
(* or are inside hold the same ticket.  IndInv says so.                    *)
(***************************************************************************)
EXTENDS Mutex, SequenceTheorems, TLAPS

Active == {c \in Callers : phase[c] # "idle"}

\* Tickets in use were drawn and are not served yet.
TicketsPending == \A c \in Active : index <= ticket[c] /\ ticket[c] < waitIndex

\* No two callers wait with the same ticket.
TicketsDistinct == \A c, d \in Active : ticket[c] = ticket[d] => c = d

\* Who is inside holds the ticket being served, and the mutex is locked
\* exactly while somebody is inside.
InsideServed == /\ \A c \in Inside : ticket[c] = index
                /\ locked => Inside # {}
                /\ Inside # {} => locked

IndInv == TypeOK /\ TicketsPending /\ TicketsDistinct /\ InsideServed

------------------------------------------------------------------------------
LEMMA InitIndInv == Init => IndInv
<1> SUFFICES ASSUME Init
             PROVE  IndInv
  OBVIOUS
<1> USE MutexAssumption DEF MutexAssumption, Init
<1>1. locked \in BOOLEAN
  OBVIOUS
<1>2. index \in 0 .. waitIndex /\ waitIndex \in 0 .. MaxTickets
  OBVIOUS
<1>3. ticket \in [Callers -> Nat] /\ phase \in [Callers -> {"idle", "polling", "inside"}]
  OBVIOUS
<1>4. Active = {} /\ Inside = {} /\ ~locked
  BY DEF Active, Inside
<1> QED
  BY <1>1, <1>2, <1>3, <1>4 DEF IndInv, TypeOK, TicketsPending, TicketsDistinct, InsideServed

\* lockMutex keeps the invariant: the ticket drawn is larger than all others.
LEMMA LockKeepsIndInv ==
  ASSUME IndInv, NEW c \in Callers, Lock(c)
  PROVE  IndInv'
<1> USE MutexAssumption DEF MutexAssumption, NextTicket, MayEnter
<1>1. TypeOK'
  <2>1. locked' \in BOOLEAN
    BY DEF Lock, IndInv, TypeOK
  <2>2. waitIndex' \in 0 .. MaxTickets /\ index' \in 0 .. waitIndex'
    BY DEF Lock, IndInv, TypeOK
  <2>3. ticket' \in [Callers -> Nat]
    BY DEF Lock, IndInv, TypeOK
  <2>4. phase' \in [Callers -> {"idle", "polling", "inside"}]
    BY DEF Lock, IndInv, TypeOK
  <2> QED
    BY <2>1, <2>2, <2>3, <2>4 DEF TypeOK
<1>2. /\ waitIndex \in Nat /\ waitIndex' = waitIndex + 1
      /\ index \in Nat /\ index <= waitIndex /\ index' = index
      /\ c \notin Active
      /\ \A d \in Callers : ticket'[d] = IF d = c THEN waitIndex ELSE ticket[d]
      /\ Active' = Active \cup {c}
  BY DEF Lock, IndInv, TypeOK, Active
<1>3. \A d \in Active : ticket[d] \in Nat /\ index <= ticket[d] /\ ticket[d] < waitIndex
  BY DEF IndInv, TypeOK, TicketsPending, Active
<1>4. TicketsPending'
  BY <1>2, <1>3 DEF TicketsPending, Active
<1>5. TicketsDistinct'
  <2> SUFFICES ASSUME NEW d \in Active', NEW e \in Active', ticket'[d] = ticket'[e]
               PROVE  d = e
    BY DEF TicketsDistinct
  <2>1. d \in Callers /\ e \in Callers
    BY DEF Active
  <2>2. CASE d # c /\ e # c
    BY <1>2, <2>1, <2>2 DEF IndInv, TicketsDistinct
  <2>3. CASE d = c /\ e # c
    BY <1>2, <1>3, <2>1, <2>3
  <2>4. CASE d # c /\ e = c
    BY <1>2, <1>3, <2>1, <2>4
  <2> QED
    BY <2>2, <2>3, <2>4
<1>6. InsideServed'
  <2>1. CASE MayEnter(waitIndex)
    <3>1. locked' = TRUE /\ Inside' = Inside \cup {c} /\ index = waitIndex
      BY <2>1 DEF Lock, IndInv, TypeOK, Inside
    <3>2. Inside = {}
      BY <2>1 DEF IndInv, InsideServed
    <3> QED
      BY <1>2, <3>1, <3>2 DEF InsideServed, Inside
  <2>2. CASE ~MayEnter(waitIndex)
    <3>1. locked' = locked /\ Inside' = Inside /\ c \notin Inside
      BY <2>2 DEF Lock, IndInv, TypeOK, Inside
    <3> QED
      BY <1>2, <3>1 DEF IndInv, InsideServed, Inside
  <2> QED
    BY <2>1, <2>2
<1> QED
  BY <1>1, <1>4, <1>5, <1>6 DEF IndInv

\* A timer that enters keeps the invariant: it holds the ticket being served.
LEMMA PollKeepsIndInv ==
  ASSUME IndInv, NEW c \in Callers, Poll(c)
  PROVE  IndInv'
<1>1. TypeOK'
  BY DEF Poll, IndInv, TypeOK
<1>2. Active' = Active /\ Inside' = Inside \cup {c} /\ Inside = {}
  BY DEF Poll, MayEnter, IndInv, TypeOK, InsideServed, Active, Inside
<1>3. TicketsPending' /\ TicketsDistinct'
  BY <1>2 DEF Poll, IndInv, TicketsPending, TicketsDistinct
<1>4. InsideServed'
  BY <1>2 DEF Poll, MayEnter, InsideServed
<1> QED
  BY <1>1, <1>3, <1>4 DEF IndInv

\* unlockMutex keeps the invariant: all other tickets are larger than the one
\* that was served.
LEMMA UnlockKeepsIndInv ==
  ASSUME IndInv, NEW c \in Callers, Unlock(c)
  PROVE  IndInv'
<1> USE DEF NextServing
<1>1. /\ c \in Inside /\ c \in Active /\ ticket[c] = index
      /\ index \in Nat /\ waitIndex \in Nat /\ index < waitIndex
  BY DEF Unlock, IndInv, TypeOK, InsideServed, TicketsPending, Active, Inside
<1>2. TypeOK'
  <2>1. locked' \in BOOLEAN
    BY DEF Unlock
  <2>2. waitIndex' \in 0 .. MaxTickets /\ index' \in 0 .. waitIndex'
    BY <1>1 DEF Unlock, IndInv, TypeOK
  <2>3. /\ ticket' \in [Callers -> Nat]
        /\ phase' \in [Callers -> {"idle", "polling", "inside"}]
    BY DEF Unlock, IndInv, TypeOK
  <2> QED
    BY <2>1, <2>2, <2>3 DEF TypeOK
<1>3. Inside = {c}
  BY <1>1 DEF IndInv, InsideServed, TicketsDistinct, Active, Inside
<1>4. Active' = Active \ {c} /\ Inside' = {}
  BY <1>3 DEF Unlock, IndInv, TypeOK, Active, Inside
<1>5. \A d \in Active' : /\ ticket[d] \in Nat
                         /\ index + 1 <= ticket[d] /\ ticket[d] < waitIndex
  <2> SUFFICES ASSUME NEW d \in Active'
               PROVE  /\ ticket[d] \in Nat
                      /\ index + 1 <= ticket[d] /\ ticket[d] < waitIndex
    OBVIOUS
  <2>1. d \in Active /\ d # c
    BY <1>4
  <2>2. ticket[d] \in Nat /\ index <= ticket[d] /\ ticket[d] < waitIndex
    BY <2>1 DEF IndInv, TypeOK, TicketsPending, Active
  <2>3. ticket[d] # index
    BY <1>1, <2>1 DEF IndInv, TicketsDistinct
  <2> QED
    BY <1>1, <2>2, <2>3
<1>6. TicketsPending'
  BY <1>5 DEF Unlock, TicketsPending
<1>7. TicketsDistinct'
  BY <1>4 DEF Unlock, IndInv, TicketsDistinct
<1>8. InsideServed'
  BY <1>4 DEF Unlock, InsideServed
<1> QED
  BY <1>2, <1>6, <1>7, <1>8 DEF IndInv

LEMMA StepKeepsIndInv == IndInv /\ [Next]_vars => IndInv'
<1> SUFFICES ASSUME IndInv, [Next]_vars
             PROVE  IndInv'
  OBVIOUS
<1>1. ASSUME NEW c \in Callers, Lock(c)
      PROVE  IndInv'
  BY <1>1, LockKeepsIndInv
<1>2. ASSUME NEW c \in Callers, Poll(c)
      PROVE  IndInv'
  BY <1>2, PollKeepsIndInv
<1>3. ASSUME NEW c \in Callers, Unlock(c)
      PROVE  IndInv'
  BY <1>3, UnlockKeepsIndInv
<1>4. CASE UNCHANGED vars
  BY <1>4 DEF vars, IndInv, TypeOK, TicketsPending, TicketsDistinct, InsideServed,
              Active, Inside
<1> QED
  BY <1>1, <1>2, <1>3, <1>4 DEF Next

\* The tickets of the callers that wait or are inside are distinct and not
\* yet served, in every reachable state.
THEOREM TicketInvariant == Spec => []IndInv
  BY InitIndInv, StepKeepsIndInv, PTL DEF Spec

\* The mutex's state is of the types declared (createMutex, lockMutex).
THEOREM TypeCorrect == Spec => []TypeOK
<1>1. IndInv => TypeOK
  BY DEF IndInv
<1> QED
  BY <1>1, TicketInvariant, PTL

\* Two callbacks of lockMutex are never in their critical sections together.
THEOREM MutualExclusionHolds == Spec => []MutualExclusion
<1>1. IndInv => MutualExclusion
  BY DEF IndInv, TicketsDistinct, InsideServed, MutualExclusion, Active, Inside
<1> QED
  BY <1>1, TicketInvariant, PTL

\* One step never lets a caller in before one that asked earlier.
ServedInOrderStep ==
    \A c \in Callers :
        (phase[c] # "inside" /\ phase'[c] = "inside") =>
            \A d \in Waiting : d = c \/ ticket'[c] < ticket[d]

LEMMA StepInOrder == IndInv /\ [Next]_vars => ServedInOrderStep
<1> SUFFICES ASSUME IndInv, [Next]_vars,
                    NEW c \in Callers, phase[c] # "inside", phase'[c] = "inside",
                    NEW d \in Waiting, d # c
             PROVE  ticket'[c] < ticket[d]
  BY DEF ServedInOrderStep
<1>1. /\ d \in Active /\ ticket[d] \in Nat /\ index \in Nat /\ waitIndex \in Nat
      /\ index <= ticket[d] /\ ticket[d] < waitIndex
  BY MutexAssumption DEF MutexAssumption, IndInv, TypeOK, TicketsPending, Active, Waiting
<1>2. ASSUME NEW e \in Callers, Lock(e)
      PROVE  ticket'[c] < ticket[d]
  <2>1. e = c /\ MayEnter(waitIndex)
    BY <1>2 DEF Lock, IndInv, TypeOK
  <2> QED  \* the ticket drawn is served at once only when nobody waits
    BY <1>1, <2>1 DEF MayEnter
<1>3. ASSUME NEW e \in Callers, Poll(e)
      PROVE  ticket'[c] < ticket[d]
  <2>1. e = c /\ ticket[c] = index /\ ticket' = ticket /\ c \in Active
    BY <1>3 DEF Poll, MayEnter, IndInv, TypeOK, Active
  <2>2. ticket[d] # index
    BY <1>1, <2>1 DEF IndInv, TicketsDistinct
  <2> QED
    BY <1>1, <2>1, <2>2
<1>4. ASSUME NEW e \in Callers, Unlock(e)
      PROVE  FALSE
  BY <1>4 DEF Unlock, IndInv, TypeOK
<1>5. CASE UNCHANGED vars
  BY <1>5 DEF vars
<1> QED
  BY <1>2, <1>3, <1>4, <1>5 DEF Next

\* Callers enter in the order in which they asked, whatever the order in
\* which their timers fire.
THEOREM ServedInOrderHolds == Spec => ServedInOrder
<1>1. IndInv /\ [Next]_vars => [ServedInOrderStep]_vars
  BY StepInOrder
<1> QED
  BY <1>1, TicketInvariant, PTL DEF Spec, ServedInOrder, ServedInOrderStep

------------------------------------------------------------------------------
\* The view of the mutex as a first-come first-served lock.
Seats == waitIndex - FirstWaiting
Entry(i) == PollingWith(FirstWaiting + i - 1)


\* The holder of the view is the caller inside, its queue has a seat for each ticket
\* that waits, and who polls is found by its ticket.
ViewFits ==
    /\ FirstWaiting \in Nat /\ Seats \in Nat
    /\ lockView.queue \in Seq(Callers \cup {Nobody}) /\ Len(lockView.queue) = Seats
    /\ \A i \in 1 .. Seats : lockView.queue[i] = Entry(i)
    /\ lockView.holder = Nobody <=> ~locked
    /\ \A c \in Inside : lockView.holder = c
    /\ \A c \in Waiting : PollingWith(ticket[c]) = c
    /\ lockView = [holder |-> lockView.holder, queue |-> lockView.queue]

LEMMA ViewAlwaysFits == IndInv => ViewFits
<1> SUFFICES ASSUME IndInv
             PROVE  ViewFits
  OBVIOUS
<1>1. FirstWaiting \in Nat /\ Seats \in Nat
  <2>1. waitIndex \in Nat /\ index \in Nat /\ index <= waitIndex
    BY MutexAssumption DEF MutexAssumption, IndInv, TypeOK
  <2>2. ASSUME locked
        PROVE  index + 1 <= waitIndex
    <3>1. PICK c \in Inside : TRUE
      BY <2>2 DEF IndInv, InsideServed
    <3>2. c \in Active /\ ticket[c] = index
      BY DEF IndInv, InsideServed, Inside, Active
    <3>3. index < waitIndex
      BY <3>2 DEF IndInv, TicketsPending
    <3> QED
      BY <2>1, <3>3
  <2> QED
    BY <2>1, <2>2 DEF FirstWaiting, Seats
<1>2. \A t : PollingWith(t) \in Callers \cup {Nobody}
  BY DEF PollingWith, Waiting
<1>3. lockView.queue = [i \in 1 .. Seats |-> Entry(i)]
  BY DEF lockView, Seats, Entry
<1>4. \A i \in 1 .. Seats : Entry(i) \in Callers \cup {Nobody}
  BY <1>2 DEF Entry
<1>5. lockView.queue \in Seq(Callers \cup {Nobody}) /\ Len(lockView.queue) = Seats
  BY <1>1, <1>3, <1>4
<1>6. /\ lockView.holder = Nobody <=> ~locked
      /\ \A c \in Inside : lockView.holder = c
  <2>1. CASE Inside = {}
    BY <2>1 DEF lockView, IndInv, InsideServed
  <2>2. CASE Inside # {}
    <3>1. PICK c \in Inside : TRUE
      BY <2>2
    <3>2. Inside = {c}
      BY DEF IndInv, InsideServed, TicketsDistinct, Active, Inside
    <3>3. lockView.holder = c
      BY <2>2, <3>2 DEF lockView
    <3>4. c # Nobody /\ locked
      BY <2>2, MutexAssumption DEF MutexAssumption, Inside, IndInv, InsideServed
    <3> QED
      BY <3>2, <3>3, <3>4
  <2> QED
    BY <2>1, <2>2
<1>7. \A c \in Waiting : PollingWith(ticket[c]) = c
  <2> SUFFICES ASSUME NEW c \in Waiting
               PROVE  PollingWith(ticket[c]) = c
    OBVIOUS
  <2>1. \A d \in Waiting : ticket[d] = ticket[c] => d = c
    BY DEF IndInv, TicketsDistinct, Waiting, Active
  <2> QED
    BY <2>1 DEF PollingWith
<1>8. lockView = [holder |-> lockView.holder, queue |-> lockView.queue]
  BY DEF lockView
<1> QED
  BY <1>1, <1>3, <1>5, <1>6, <1>7, <1>8 DEF ViewFits

LEMMA InitFree == Init => Abstract!Init
<1> SUFFICES ASSUME Init
             PROVE  Abstract!Init
  OBVIOUS
<1>1. Inside = {} /\ waitIndex - FirstWaiting = 0
  <2>1. Inside = {}
    BY DEF Init, Inside
  <2>2. waitIndex = 0 /\ FirstWaiting = 0
    BY DEF Init, FirstWaiting
  <2> QED
    BY <2>1, <2>2
<1>2. lockView.queue = [i \in 1 .. 0 |-> PollingWith(FirstWaiting + i - 1)]
  BY <1>1 DEF lockView
<1>3. lockView.queue = << >>
  BY <1>2
<1>4. lockView.holder = Nobody
  BY <1>1 DEF lockView
<1> QED
  BY <1>3, <1>4, InitIndInv, ViewAlwaysFits DEF ViewFits, Abstract!Init, Abstract!FreeLock

\* A step that neither draws nor serves a ticket of another caller leaves the
\* seats of the others.
LEMMA SeatsStay ==
  ASSUME ViewFits, ViewFits', NEW t,
         \A d : d \in Waiting' /\ ticket'[d] = t <=> d \in Waiting /\ ticket[d] = t
  PROVE  PollingWith(t)' = PollingWith(t)
<1>1. CASE \E d \in Waiting : ticket[d] = t
  <2>1. PICK d \in Waiting : ticket[d] = t
    BY <1>1
  <2>2. d \in Waiting' /\ ticket'[d] = t
    BY <2>1
  <2>3. PollingWith(t) = d
    BY <2>1 DEF ViewFits
  <2>4. PollingWith(t)' = d
    BY <2>2 DEF ViewFits
  <2> QED
    BY <2>3, <2>4
<1>2. CASE ~\E d \in Waiting : ticket[d] = t
  BY <1>2 DEF PollingWith
<1> QED
  BY <1>1, <1>2

\* lockMutex enters a free lock at once, and otherwise joins the end of the queue.
LEMMA LockArrives ==
  ASSUME IndInv, ViewFits, ViewFits', NEW c \in Callers, Lock(c)
  PROVE  Abstract!Arrive(c)
<1>1. /\ c \notin Waiting /\ c \notin Inside /\ c # Nobody
      /\ ticket' = [ticket EXCEPT ![c] = waitIndex] /\ ticket \in [Callers -> Nat]
      /\ waitIndex' = waitIndex + 1 /\ index' = index
      /\ waitIndex \in Nat /\ index \in Nat
  BY MutexAssumption
     DEF MutexAssumption, Lock, NextTicket, IndInv, TypeOK, Waiting, Inside
<1>2. lockView.holder # c
  BY <1>1 DEF lockView, Inside
<1>3. \A i \in DOMAIN lockView.queue : lockView.queue[i] # c
  <2>1. \A t : PollingWith(t) # c
    BY <1>1 DEF PollingWith
  <2> QED
    BY <2>1 DEF ViewFits, Entry
<1>4. Abstract!Idle(c)
  BY <1>2, <1>3 DEF Abstract!Idle
<1>5. CASE MayEnter(waitIndex)
  <2>1. ~locked /\ index = waitIndex /\ locked' = TRUE /\ c \in Inside'
    BY <1>5 DEF Lock, MayEnter, Inside, IndInv, TypeOK
  <2>2. Seats = 0 /\ Seats' = 0
    BY <1>1, <2>1 DEF Seats, FirstWaiting
  <2>3. lockView.queue = << >> /\ (lockView.queue)' = << >>
    BY <2>2 DEF ViewFits
  <2>4. lockView.holder = Nobody /\ (lockView.holder)' = c
    BY <2>1 DEF ViewFits
  <2>5. lockView = [holder |-> Nobody, queue |-> << >>]
    BY <2>3, <2>4 DEF ViewFits
  <2>6. lockView' = [holder |-> c, queue |-> << >>]
    BY <2>3, <2>4 DEF ViewFits
  <2> QED
    BY <1>4, <2>5, <2>6 DEF Abstract!Arrive, Abstract!Ask
<1>6. CASE ~MayEnter(waitIndex)
  <2>1. /\ locked' = locked /\ Waiting' = Waiting \cup {c} /\ Inside' = Inside
        /\ locked \/ index # waitIndex
    BY <1>6 DEF Lock, Inside, Waiting, MayEnter, IndInv, TypeOK
  <2>2. FirstWaiting' = FirstWaiting /\ Seats' = Seats + 1
    BY <1>1, <2>1 DEF Seats, FirstWaiting
  <2>3. ASSUME NEW i \in 1 .. Seats
        PROVE  Entry(i)' = Entry(i)
    <3>1. FirstWaiting + i - 1 # waitIndex
      BY <1>1 DEF ViewFits, Seats
    <3>2. ASSUME NEW t, t = FirstWaiting + i - 1
          PROVE  PollingWith(t)' = PollingWith(t)
      <4>1. \A d : d \in Waiting' /\ ticket'[d] = t <=> d \in Waiting /\ ticket[d] = t
        BY <1>1, <2>1, <3>1, <3>2 DEF Waiting
      <4> QED
        BY <4>1, SeatsStay
    <3> QED
      BY <2>2, <3>2 DEF Entry
  <2>4. ASSUME NEW i, i = Seats + 1
        PROVE  Entry(i)' = c
    <3>1. c \in Waiting' /\ ticket'[c] = waitIndex
      BY <1>1, <2>1
    <3>2. FirstWaiting' + i - 1 = waitIndex
      BY <1>1, <2>2, <2>4 DEF ViewFits, Seats
    <3>3. PollingWith(ticket[c])' = c
      BY <3>1 DEF ViewFits
    <3> QED
      BY <3>1, <3>2, <3>3 DEF Entry
  <2>5. (lockView.queue)' = Append(lockView.queue, c)
    <3>1. Append(lockView.queue, c) \in Seq(Callers \cup {Nobody})
      BY AppendProperties DEF ViewFits
    <3>2. /\ Len(Append(lockView.queue, c)) = Seats + 1
          /\ Append(lockView.queue, c)[Seats + 1] = c
          /\ \A i \in 1 .. Seats : Append(lockView.queue, c)[i] = lockView.queue[i]
      BY AppendProperties DEF ViewFits
    <3>3. ASSUME NEW i \in 1 .. (Seats + 1)
          PROVE  (lockView.queue)'[i] = Append(lockView.queue, c)[i]
      <4>1. (lockView.queue)'[i] = Entry(i)'
        BY <2>2 DEF ViewFits
      <4>2. CASE i = Seats + 1
        BY <2>4, <3>2, <4>1, <4>2
      <4>3. CASE i \in 1 .. Seats
        <5>1. lockView.queue[i] = Entry(i)
          BY <4>3 DEF ViewFits
        <5> QED
          BY <2>3, <3>2, <4>1, <4>3, <5>1
      <4> QED
        BY <4>2, <4>3 DEF ViewFits
    <3> QED
      BY <2>2, <3>1, <3>2, <3>3, SeqEqual DEF ViewFits
  <2>6. ~(lockView.holder = Nobody /\ lockView.queue = << >>)
    <3>1. CASE locked
      BY <3>1 DEF ViewFits
    <3>2. CASE ~locked
      BY <1>1, <2>1, <3>2 DEF ViewFits, Seats, FirstWaiting
    <3> QED
      BY <3>1, <3>2
  <2>7. (lockView.holder)' = lockView.holder
    BY <2>1 DEF lockView
  <2>8. lockView' = [lockView EXCEPT !.queue = Append(@, c)]
    BY <2>5, <2>7 DEF ViewFits
  <2> QED
    BY <1>4, <2>6, <2>8 DEF Abstract!Arrive, Abstract!Ask
<1> QED
  BY <1>5, <1>6

\* A timer that enters takes the first seat, and the others move up.
LEMMA PollEnters ==
  ASSUME IndInv, ViewFits, ViewFits', NEW c \in Callers, Poll(c)
  PROVE  Abstract!Enter(c)
<1>1. /\ c \in Waiting /\ ticket[c] = index /\ ~locked /\ locked' = TRUE
      /\ ticket' = ticket /\ waitIndex' = waitIndex /\ index' = index
      /\ Waiting' = Waiting \ {c} /\ c \in Inside'
      /\ index < waitIndex /\ waitIndex \in Nat /\ index \in Nat
  BY MutexAssumption
     DEF MutexAssumption, Poll, MayEnter, IndInv, TypeOK, TicketsPending, Waiting, Inside,
         Active
<1>2. FirstWaiting' = FirstWaiting + 1 /\ Seats' = Seats - 1 /\ Seats >= 1
  BY <1>1 DEF Seats, FirstWaiting
<1>3. lockView.queue # << >> /\ Head(lockView.queue) = c
  <2>1. FirstWaiting + 1 - 1 = ticket[c]
    BY <1>1 DEF FirstWaiting
  <2>2. Entry(1) = c
    BY <1>1, <2>1 DEF ViewFits, Entry
  <2> QED
    BY <1>2, <2>2 DEF ViewFits
<1>4. ASSUME NEW i \in 1 .. Seats'
      PROVE  Entry(i)' = Entry(i + 1)
  <2>1. FirstWaiting' + i - 1 = FirstWaiting + (i + 1) - 1
    BY <1>2 DEF ViewFits
  <2>2. FirstWaiting + (i + 1) - 1 # index
    BY <1>1 DEF FirstWaiting
  <2>3. \A d : d \in Waiting' /\ ticket'[d] = FirstWaiting + (i + 1) - 1
                  <=> d \in Waiting /\ ticket[d] = FirstWaiting + (i + 1) - 1
    BY <1>1, <2>2
  <2>4. ASSUME NEW t, t = FirstWaiting + (i + 1) - 1
        PROVE  PollingWith(t)' = PollingWith(t)
    BY <2>3, <2>4, SeatsStay
  <2> QED
    BY <2>1, <2>4 DEF Entry
<1>5. (lockView.queue)' = Tail(lockView.queue)
  <2>1. /\ Tail(lockView.queue) \in Seq(Callers \cup {Nobody})
        /\ Len(Tail(lockView.queue)) = Seats - 1
        /\ \A i \in 1 .. (Seats - 1) : Tail(lockView.queue)[i] = lockView.queue[i + 1]
    BY <1>3, HeadTailProperties DEF ViewFits
  <2>2. ASSUME NEW i \in 1 .. (Seats - 1)
        PROVE  (lockView.queue)'[i] = Tail(lockView.queue)[i]
    <3>1. i \in 1 .. Seats' /\ i + 1 \in 1 .. Seats
      BY <1>2 DEF ViewFits
    <3>2. (lockView.queue)'[i] = Entry(i)' /\ lockView.queue[i + 1] = Entry(i + 1)
      BY <3>1 DEF ViewFits
    <3> QED
      BY <1>4, <2>1, <3>1, <3>2
  <2> QED
    BY <1>2, <2>1, <2>2, SeqEqual DEF ViewFits
<1>6. lockView.holder = Nobody /\ (lockView.holder)' = c
  BY <1>1 DEF ViewFits
<1>7. lockView' = [holder |-> c, queue |-> Tail(lockView.queue)]
  BY <1>5, <1>6 DEF ViewFits
<1> QED
  BY <1>3, <1>6, <1>7 DEF Abstract!Enter, Abstract!IsNext, Abstract!Grant

\* unlockMutex leaves the queue as it is.
LEMMA UnlockLeaves ==
  ASSUME IndInv, ViewFits, ViewFits', NEW c \in Callers, Unlock(c)
  PROVE  Abstract!Leave(c)
<1>1. /\ c \in Inside /\ locked /\ ~locked' /\ index' = index + 1
      /\ ticket' = ticket /\ waitIndex' = waitIndex /\ Waiting' = Waiting
  BY DEF Unlock, NextServing, IndInv, TypeOK, Waiting, Inside
<1>2. FirstWaiting' = FirstWaiting
  BY <1>1 DEF FirstWaiting
<1>3. \A t : PollingWith(t)' = PollingWith(t)
  BY <1>1 DEF PollingWith
<1>4. (lockView.queue)' = lockView.queue
  BY <1>1, <1>2, <1>3 DEF lockView
<1>5. lockView.holder = c /\ (lockView.holder)' = Nobody
  BY <1>1 DEF ViewFits
<1>6. lockView' = [lockView EXCEPT !.holder = Nobody]
  BY <1>4, <1>5 DEF ViewFits
<1> QED
  BY <1>5, <1>6 DEF Abstract!Leave, Abstract!Release

LEMMA StepIsFifo ==
  ASSUME IndInv, ViewFits, ViewFits', [Next]_vars
  PROVE  [Abstract!Next]_lockView
<1>1. ASSUME NEW c \in Callers, Lock(c)
      PROVE  Abstract!Next
  BY <1>1, LockArrives DEF Abstract!Next
<1>2. ASSUME NEW c \in Callers, Poll(c)
      PROVE  Abstract!Next
  BY <1>2, PollEnters DEF Abstract!Next
<1>3. ASSUME NEW c \in Callers, Unlock(c)
      PROVE  Abstract!Next
  BY <1>3, UnlockLeaves DEF Abstract!Next
<1>4. CASE UNCHANGED vars
  BY <1>4 DEF vars, lockView, Inside, Waiting, FirstWaiting, PollingWith
<1> QED
  BY <1>1, <1>2, <1>3, <1>4 DEF Next

\* The ticket counters and the polling timers are a first-come first-served
\* lock (lockMutex, lockWithIndex, unlockMutex): a call joins the end of a
\* queue, and only the head of the queue enters.  The fairness of that lock,
\* the rest of ImplementsFifoLock, is left to TLC.
THEOREM MutexRefinesFifo == Spec => Abstract!Init /\ [][Abstract!Next]_lockView
<1>1. IndInv /\ IndInv' /\ [Next]_vars => [Abstract!Next]_lockView
  <2> SUFFICES ASSUME IndInv, IndInv', [Next]_vars
               PROVE  [Abstract!Next]_lockView
    OBVIOUS
  <2>1. ViewFits
    BY ViewAlwaysFits
  <2>2. ViewFits'
    BY ViewAlwaysFits, PTL
  <2> QED
    BY <2>1, <2>2, StepIsFifo
<1> QED
  BY <1>1, InitFree, TicketInvariant, PTL DEF Spec
==============================================================================
