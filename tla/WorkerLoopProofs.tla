-------------------------- MODULE WorkerLoopProofs ---------------------------
(***************************************************************************)
(* NoEventSleptThrough of WorkerLoop, for any number of tasks and events.  *)
(***************************************************************************)
EXTENDS WorkerLoop, TLAPS

\* Only event_poll calls arm() and sleeps on the descriptor.
OnlyEventPollArms ==
    \A p \in Pollers : pc[p] \in {"arm", "asleep"} => kind[p] = "event_poll"

\* Arming is refused when there is something to do, and an event disarms.
ArmedMeansIdle == armed => work = 0

\* A sleeper will hear of the next event, or has heard of one.
SleeperWillHear ==
    \A p \in Pollers : pc[p] = "asleep" => armed \/ ready[p]

\* Progress handles what has arrived.
WorkHasArrived == work <= arrived

IInv == TypeOK /\ WorkHasArrived /\ OnlyEventPollArms /\ ArmedMeansIdle /\ SleeperWillHear

-----------------------------------------------------------------------------
LEMMA InitInv == Init => IInv
<1> SUFFICES ASSUME Init PROVE IInv
    OBVIOUS
<1>1. ready \in [Pollers -> BOOLEAN]
      BY Zenon DEF Init
<1>2. work \in 0 .. MaxEvents /\ arrived \in 0 .. MaxEvents /\ WorkHasArrived
      BY EventsAssumption DEF Init, WorkHasArrived
<1>3. TypeOK
      BY <1>1, <1>2, Zenon DEF Init, TypeOK, Awaits, Runs
<1>4. OnlyEventPollArms /\ ArmedMeansIdle /\ SleeperWillHear
      BY DEF Init, OnlyEventPollArms, ArmedMeansIdle, SleeperWillHear
<1> QED
    BY <1>2, <1>3, <1>4 DEF IInv

LEMMA TypeStep ==
    TypeOK /\ WorkHasArrived /\ [Next]_vars => (TypeOK /\ WorkHasArrived)'
<1> SUFFICES ASSUME TypeOK, WorkHasArrived, [Next]_vars
             PROVE  (TypeOK /\ WorkHasArrived)'
    OBVIOUS
<1> USE EventsAssumption DEF TypeOK, WorkHasArrived, Awaits, Runs
<1>1. CASE Event
  <2>1. ready' \in [Pollers -> BOOLEAN]
        BY <1>1, Zenon DEF Event, EventComes
  <2>2. work' \in 0 .. MaxEvents /\ arrived' \in 0 .. MaxEvents /\ WorkHasArrived'
        BY <1>1 DEF Event, EventComes
  <2>3. UNCHANGED <<users, kind, pc>> /\ armed' \in BOOLEAN
        BY <1>1, Zenon DEF Event, EventComes
  <2> QED
      BY <2>1, <2>2, <2>3
<1>2. ASSUME NEW u \in Users, CloneRef(u) \/ DropRef(u)
      PROVE  (TypeOK /\ WorkHasArrived)'
      BY <1>2 DEF CloneRef, DropRef
<1>3. ASSUME NEW p \in Pollers, NEW k \in {"polling", "event_poll"}, Spawn(p, k)
      PROVE  (TypeOK /\ WorkHasArrived)'
      BY <1>3 DEF Spawn, Goto
<1>4. ASSUME NEW p \in Pollers, Abort(p) \/ While(p) \/ Arm(p) \/ Resume(p)
      PROVE  (TypeOK /\ WorkHasArrived)'
  <2>1. CASE Abort(p)
        BY <2>1 DEF Abort, Goto
  <2>2. CASE While(p)
        BY <2>2 DEF While, Goto
  <2>3. CASE Arm(p)
        BY <2>3 DEF Arm, Goto
  <2>4. CASE Resume(p)
        BY <2>4 DEF Resume, Goto
  <2> QED
      BY <1>4, <2>1, <2>2, <2>3, <2>4
<1>5. ASSUME NEW p \in Pollers, Progress(p)
      PROVE  (TypeOK /\ WorkHasArrived)'
      BY <1>5 DEF Progress, Goto
<1>6. CASE UNCHANGED vars
      BY <1>6 DEF vars
<1> QED
    BY <1>1, <1>2, <1>3, <1>4, <1>5, <1>6 DEF Next

-----------------------------------------------------------------------------
(* Sleeping and waking.                                                    *)

\* An event wakes every sleeper that relied on being armed.
LEMMA EventWakes == IInv /\ Event => (OnlyEventPollArms /\ ArmedMeansIdle /\ SleeperWillHear)'
<1> SUFFICES ASSUME IInv, Event
             PROVE  (OnlyEventPollArms /\ ArmedMeansIdle /\ SleeperWillHear)'
    OBVIOUS
<1> USE DEF IInv, TypeOK, Event, EventComes
<1>1. OnlyEventPollArms' /\ ArmedMeansIdle'
      BY DEF OnlyEventPollArms, ArmedMeansIdle
<1>2. ASSUME NEW p \in Pollers, pc'[p] = "asleep"
      PROVE  ready'[p]
  <2>1. p \in Active /\ kind[p] = "event_poll"
        BY <1>2 DEF Active, Awaits, OnlyEventPollArms
  <2>2. CASE armed
        BY <2>1, <2>2
  <2>3. CASE ~armed
        BY <1>2, <2>1, <2>3 DEF SleeperWillHear
  <2> QED
      BY <2>2, <2>3
<1> QED
    BY <1>1, <1>2 DEF SleeperWillHear

\* Nor does a step of a loop put a task to sleep for good, its own or another.
LEMMA LoopStep ==
    ASSUME IInv, NEW p \in Pollers,
           While(p) \/ Progress(p) \/ Arm(p) \/ Resume(p) \/ Abort(p)
           \/ \E k \in {"polling", "event_poll"} : Spawn(p, k)
    PROVE  (OnlyEventPollArms /\ ArmedMeansIdle /\ SleeperWillHear)'
<1> USE DEF IInv, TypeOK, OnlyEventPollArms, ArmedMeansIdle, SleeperWillHear, Goto
<1>1. CASE While(p) \/ Abort(p)
      BY <1>1 DEF While, Abort
<1>2. CASE Progress(p)
      BY <1>2, EventsAssumption DEF Progress
<1>3. CASE Arm(p)
      BY <1>3 DEF Arm
<1>4. CASE Resume(p)
      BY <1>4 DEF Resume
<1>5. ASSUME NEW k \in {"polling", "event_poll"}, Spawn(p, k)
      PROVE  (OnlyEventPollArms /\ ArmedMeansIdle /\ SleeperWillHear)'
      BY <1>5 DEF Spawn
<1> QED
    BY <1>1, <1>2, <1>3, <1>4, <1>5

LEMMA StepInv == IInv /\ [Next]_vars => IInv'
<1> SUFFICES ASSUME IInv, [Next]_vars PROVE IInv'
    OBVIOUS
<1>1. (TypeOK /\ WorkHasArrived)'
      BY TypeStep DEF IInv
<1>2. (OnlyEventPollArms /\ ArmedMeansIdle /\ SleeperWillHear)'
  <2>1. CASE Event
        BY <2>1, EventWakes
  <2>2. ASSUME NEW u \in Users, CloneRef(u) \/ DropRef(u)
        PROVE  (OnlyEventPollArms /\ ArmedMeansIdle /\ SleeperWillHear)'
        BY <2>2 DEF CloneRef, DropRef, IInv, OnlyEventPollArms, ArmedMeansIdle,
           SleeperWillHear
  <2>3. CASE UNCHANGED vars
        BY <2>3 DEF vars, IInv, OnlyEventPollArms, ArmedMeansIdle, SleeperWillHear
  <2> QED
      BY <2>1, <2>2, <2>3, LoopStep DEF Next
<1> QED
    BY <1>1, <1>2 DEF IInv

LEMMA Invariance == Spec => []IInv
  BY InitInv, StepInv, PTL DEF Spec

-----------------------------------------------------------------------------
\* The variables of the loops keep their types.
THEOREM TypeCorrect == Spec => []TypeOK
  BY Invariance, PTL DEF IInv

\* event_poll never sleeps on an event that nobody will wake it for, however
\* many tasks call progress() and whenever the event arrives.
THEOREM NeverSleepsThrough == Spec => []NoEventSleptThrough
<1>1. IInv => NoEventSleptThrough
      BY DEF IInv, TypeOK, ArmedMeansIdle, SleeperWillHear, NoEventSleptThrough
<1> QED
    BY <1>1, Invariance, PTL
=============================================================================
