---------------------------- MODULE RequestProofs ----------------------------
(***************************************************************************)
(* Proofs about Request and then about Runtime, which adds the loops that  *)
(* drive the worker, for any set of tasks and loops and any pool of slots. *)
(* NoLostWakeup is not inductive: it rests on who owns a slot, and on what *)
(* is known of the waker between the registration and the second look.     *)
(***************************************************************************)
EXTENDS Runtime, FiniteSetTheorems, TLAPS

\* A call has a request from its first poll to its last.
IdleHoldsNothing == \A t \in Tasks : pc[t] = "idle" <=> handle[t] = NoSlot

\* Between registering and the second look: the waker is in place unless
\* the request has ended meanwhile or the task is to be polled anyway.
RegistrationHolds ==
    \A t \in Tasks : pc[t] = "recheck" =>
        waker[handle[t]] = t \/ Ended(handle[t]) \/ ready[t]

\* The loop of close never registers and never sleeps unwoken.
CloseWakesItself ==
    \A t \in Tasks : kind[t] = "close" =>
        pc[t] \notin {"register", "recheck"} /\ (pc[t] = "parked" => ready[t])

IInv ==
    /\ TypeOK
    /\ IdleHoldsNothing
    /\ SlotsAccounted
    /\ RegistrationHolds
    /\ CloseWakesItself
    /\ SleeperRegistered
    /\ NoLostWakeup

-----------------------------------------------------------------------------
\* The invariant holds of an empty pool and idle tasks.
LEMMA InitIInv == Init => IInv
  BY NobodyAssumption
  DEF Init, IInv, TypeOK, IdleHoldsNothing, SlotsAccounted, RegistrationHolds,
      CloseWakesItself, SleeperRegistered, NoLostWakeup, Ended, Kinds, Outcomes,
      OneOwner, OwnersHold, SomeOwner, LostForGood, InUse

\* Whatever the operation, UCX answers at once or with a request.
LEMMA StartIssues ==
  ASSUME NEW t \in Tasks, Start(t)
  PROVE  \E k \in Kinds : \/ \E r \in Outcomes : Immediate(t, k, r)
                          \/ \E s \in Slots : Post(t, s, k)
  BY DEF Start, StartSend, StartTagRecv, StartStreamRecv, StartAmRecv,
         StartClose, Issue, Kinds, Outcomes

\* A call that sees its request ended gives it back and disturbs nobody.
LEMMA FinishIInv ==
  ASSUME IInv, NEW t \in Tasks, pc[t] # "idle", Ended(handle[t]), Finish(t)
  PROVE  IInv'
<1> USE NobodyAssumption
    DEF IInv, TypeOK, Outcomes, Ended, InUse, OneOwner, OwnersHold, SomeOwner,
        LostForGood
<1>1. TypeOK'
  BY DEF Finish, IdleHoldsNothing
<1>2. IdleHoldsNothing' /\ SlotsAccounted'
  BY DEF Finish, IdleHoldsNothing, SlotsAccounted
<1>3. \A u \in Tasks \ {t} : handle[u] # handle[t]
  BY DEF IdleHoldsNothing, SlotsAccounted
<1>4. RegistrationHolds' /\ SleeperRegistered' /\ NoLostWakeup'
  BY <1>3 DEF Finish, IdleHoldsNothing, RegistrationHolds, SleeperRegistered,
              NoLostWakeup
<1>5. CloseWakesItself'
  BY DEF Finish, CloseWakesItself
<1> QED  BY <1>1, <1>2, <1>4, <1>5

\* A completion leaves wakers and marks what they are.
LEMMA WakeTypes ==
  ASSUME TypeOK, NEW s \in Slots, NEW r, Complete(s, r)
  PROVE  waker' \in [Slots -> Tasks \cup {NoTask}] /\ ready' \in [Tasks -> BOOLEAN]
<1>1. /\ waker \in [Slots -> Tasks \cup {NoTask}]
      /\ ready \in [Tasks -> BOOLEAN]
  BY DEF TypeOK
<1>2. CASE HasCallback(s)
  <2>1. Wake(s)
    BY <1>2 DEF Complete
  <2>2. waker' \in [Slots -> Tasks \cup {NoTask}]
    BY <1>1, <2>1 DEF Wake
  <2>3. ready' = ready \/ ready' = [ready EXCEPT ![waker[s]] = TRUE]
    BY <2>1 DEF Wake
  <2> QED  BY <1>1, <2>2, <2>3, Zenon
<1>3. CASE ~HasCallback(s)
  BY <1>1, <1>3 DEF Complete
<1> QED  BY <1>2, <1>3

\* Every step of every task and of UCX preserves the invariant.
LEMMA NextIInv == IInv /\ [Next]_vars => IInv'
<1> SUFFICES ASSUME IInv, [Next]_vars PROVE IInv'
  OBVIOUS
<1> USE NobodyAssumption
    DEF IInv, TypeOK, Kinds, Outcomes, Ended, IdleHoldsNothing, SlotsAccounted,
        RegistrationHolds, CloseWakesItself, SleeperRegistered, NoLostWakeup,
        InUse, OneOwner, OwnersHold, SomeOwner, LostForGood
<1>1. ASSUME NEW t \in Tasks, NEW k \in Kinds, NEW r \in Outcomes,
             Immediate(t, k, r)
      PROVE IInv'
  BY <1>1 DEF Immediate
<1>2. ASSUME NEW t \in Tasks, NEW k \in Kinds, NEW s \in Slots, Post(t, s, k)
      PROVE IInv'
  <2>0. handle[t] = NoSlot
    BY <1>2 DEF Post
  <2>1. TypeOK' /\ IdleHoldsNothing'
    BY <1>2 DEF Post
  <2>6. OneOwner' /\ OwnersHold'
    BY <1>2, <2>0 DEF Post
  <2>7. SomeOwner' /\ LostForGood'
    BY <1>2, <2>0 DEF Post
  <2>2. \A u \in Tasks \ {t} :
           /\ handle'[u] = handle[u] /\ handle[u] # s
           /\ pc'[u] = pc[u] /\ kind'[u] = kind[u]
    BY <1>2 DEF Post
  <2>3. pc'[t] = "check"
    BY <1>2 DEF Post
  <2>4. RegistrationHolds' /\ CloseWakesItself'
    BY <1>2, <2>2, <2>3 DEF Post
  <2>5. SleeperRegistered' /\ NoLostWakeup'
    BY <1>2, <2>2, <2>3 DEF Post
  <2> QED  BY <2>1, <2>4, <2>5, <2>6, <2>7
<1>3. ASSUME NEW s \in Slots, ForgetClose(s) PROVE IInv'
  <2>1. \A u \in Tasks : handle[u] # s
    BY <1>3 DEF ForgetClose
  <2> QED  BY <1>3, <2>1 DEF ForgetClose
<1>4. ASSUME NEW t \in Tasks, Check(t) PROVE IInv'
  <2>1. CASE Ended(handle[t])
    BY <1>4, <2>1, FinishIInv DEF Check
  <2>2. CASE ~Ended(handle[t])
    <3>1. CASE kind[t] = "close"
      <4>1. /\ pc' = [pc EXCEPT ![t] = "parked"]
            /\ ready' = [ready EXCEPT ![t] = TRUE]
        BY <1>4, <2>2, <3>1 DEF Check, Goto
      <4>2. UNCHANGED <<slot, waker, handle, kind, answer, truth, forgotten>>
        BY <1>4, <2>2, <3>1 DEF Check
      <4>3. TypeOK' /\ IdleHoldsNothing' /\ SlotsAccounted'
        BY <1>4, <4>1, <4>2 DEF Check
      <4> QED  BY <1>4, <3>1, <4>1, <4>2, <4>3
    <3>2. CASE kind[t] # "close"
      <4>1. pc' = [pc EXCEPT ![t] = "register"]
        BY <1>4, <2>2, <3>2 DEF Check, Goto
      <4>2. UNCHANGED <<slot, waker, handle, kind, ready, answer, truth, forgotten>>
        BY <1>4, <2>2, <3>2 DEF Check
      <4>3. TypeOK' /\ IdleHoldsNothing' /\ SlotsAccounted'
        BY <1>4, <4>1, <4>2 DEF Check
      <4> QED  BY <1>4, <3>2, <4>1, <4>2, <4>3
    <3> QED  BY <3>1, <3>2
  <2> QED  BY <2>1, <2>2
<1>5. ASSUME NEW t \in Tasks, Register(t) PROVE IInv'
  <2>1. \A u \in Tasks \ {t} : handle[u] # handle[t]
    BY <1>5 DEF Register
  <2>2. TypeOK' /\ IdleHoldsNothing' /\ SlotsAccounted'
    <3>1. handle[t] \in Slots
      BY <1>5 DEF Register
    <3> QED  BY <1>5, <3>1 DEF Register, Goto
  <2>3. RegistrationHolds' /\ CloseWakesItself'
    BY <1>5, <2>1 DEF Register, Goto
  <2>4. SleeperRegistered' /\ NoLostWakeup'
    BY <1>5, <2>1 DEF Register, Goto
  <2> QED  BY <2>2, <2>3, <2>4
<1>6. ASSUME NEW t \in Tasks, Recheck(t) PROVE IInv'
  <2>1. CASE Ended(handle[t])
    BY <1>6, <2>1, FinishIInv DEF Recheck
  <2>2. CASE ~Ended(handle[t])
    BY <1>6, <2>2 DEF Recheck, Goto
  <2> QED  BY <2>1, <2>2
<1>7. ASSUME NEW t \in Tasks, Poll(t) PROVE IInv'
  BY <1>7 DEF Poll, Goto
<1>8. ASSUME NEW t \in Tasks, Abandon(t) PROVE IInv'
  <2>1. \A u \in Tasks \ {t} : handle[u] # handle[t]
    BY <1>8 DEF Abandon
  <2>2. handle[t] \in Slots
    BY <1>8 DEF Abandon
  <2>3. TypeOK' /\ IdleHoldsNothing'
    BY <1>8, <2>2 DEF Abandon, Goto
  <2>4. SlotsAccounted'
    BY <1>8, <2>1, <2>2 DEF Abandon, Goto
  <2>5. RegistrationHolds' /\ SleeperRegistered' /\ NoLostWakeup'
    BY <1>8, <2>1, <2>2 DEF Abandon, Goto
  <2>6. CloseWakesItself'
    BY <1>8 DEF Abandon, Goto
  <2> QED  BY <2>3, <2>4, <2>5, <2>6
<1>9. ASSUME NEW s \in Slots, NEW r \in Outcomes, Complete(s, r) PROVE IInv'
  <2>1. TypeOK'
    <3>1. waker' \in [Slots -> Tasks \cup {NoTask}] /\ ready' \in [Tasks -> BOOLEAN]
      BY <1>9, WakeTypes
    <3> QED  BY <1>9, <3>1 DEF Complete
  <2>4. IdleHoldsNothing' /\ SlotsAccounted'
    BY <1>9 DEF Complete
  <2>5. CloseWakesItself'
    BY <1>9 DEF Complete, Wake
  <2>2. RegistrationHolds'
    BY <1>9 DEF Complete, Wake
  <2>3. ASSUME NEW t \in Tasks, pc'[t] = "parked"
        PROVE  /\ ~ready'[t] => waker'[handle'[t]] = t
               /\ Ended(handle[t])' => ready'[t]
    <3>1. pc[t] = "parked" /\ handle'[t] = handle[t] /\ (ready[t] => ready'[t])
      BY <1>9, <2>3 DEF Complete, Wake
    <3>2. CASE handle[t] # s
      <4>1. ~ready'[t] => waker'[handle'[t]] = t
        BY <1>9, <3>1, <3>2 DEF Complete, Wake
      <4>2. Ended(handle[t])' => ready'[t]
        BY <1>9, <3>1, <3>2 DEF Complete, Wake
      <4> QED  BY <4>1, <4>2
    <3>3. CASE handle[t] = s
      <4>1. CASE ready[t]
        BY <3>1, <4>1
      <4>2. CASE ~ready[t]
        <5>1. waker[s] = t /\ HasCallback(s)
          BY <3>1, <3>3, <4>2 DEF HasCallback
        <5> QED  BY <1>9, <3>1, <5>1 DEF Complete, Wake
      <4> QED  BY <4>1, <4>2
    <3> QED  BY <3>2, <3>3
  <2> QED  BY <2>1, <2>2, <2>3, <2>4, <2>5
<1>10. ASSUME NEW s \in Slots, Reclaim(s) PROVE IInv'
  BY <1>10 DEF Reclaim
<1>11. CASE UNCHANGED vars
  BY <1>11 DEF vars
<1>12. ASSUME NEW t \in Tasks, Start(t) PROVE IInv'
  BY <1>12, <1>1, <1>2, StartIssues
<1> HIDE NobodyAssumption
    DEF IInv, TypeOK, Kinds, Outcomes, Ended, IdleHoldsNothing, SlotsAccounted,
        RegistrationHolds, CloseWakesItself, SleeperRegistered, NoLostWakeup,
        InUse, OneOwner, OwnersHold, SomeOwner, LostForGood
<1> QED
  BY <1>1, <1>2, <1>3, <1>4, <1>5, <1>6, <1>7, <1>8, <1>9, <1>10, <1>11,
     <1>12
  DEF Next, CallStep, UcxStep

\* The invariant holds in every state of every behaviour.
THEOREM Invariance == Spec => []IInv
  BY InitIInv, NextIInv, PTL DEF Spec

\* TypeOK: the variables keep their types.
THEOREM TypeCorrect == Spec => []TypeOK
  BY Invariance, PTL DEF IInv

\* No call sleeps on a request that has ended: whatever stale wakers the
\* slots hold, the callback of a request wakes the call that waits for it.
THEOREM NeverSleepsOnEnded == Spec => []NoLostWakeup
  BY Invariance, PTL DEF IInv

\* Every request has one owner, which frees it; only closes lose theirs.
THEOREM RequestsAccounted == Spec => []SlotsAccounted
  BY Invariance, PTL DEF IInv

-----------------------------------------------------------------------------
(* The refinement of Operation.                                            *)

\* A step that leaves the slots and handles alone leaves the operations.
LEMMA SameOps ==
  ASSUME UNCHANGED <<slot, handle>>
  PROVE  OpOf' = OpOf
  BY DEF OpOf

\* A call that gives its request back has no operation any more, and the
\* operations of the other calls are what they were.
LEMMA LetGo ==
  ASSUME IInv, NEW t \in Tasks, handle[t] # NoSlot,
         handle' = [handle EXCEPT ![t] = NoSlot],
         \A s \in Slots : s # handle[t] => slot'[s] = slot[s]
  PROVE  OpOf' = [OpOf EXCEPT ![t] = "none"]
<1> USE NobodyAssumption DEF IInv, TypeOK, SlotsAccounted, OneOwner
<1>1. OpOf'[t] = "none"
  BY DEF OpOf
<1>2. ASSUME NEW u \in Tasks, u # t PROVE OpOf'[u] = OpOf[u]
  <2>1. handle'[u] = handle[u] /\ (handle[u] # NoSlot => handle[u] # handle[t])
    BY <1>2
  <2> QED  BY <2>1, <1>2 DEF OpOf
<1>3. OpOf \in [Tasks -> {OpOf[u] : u \in Tasks}] /\ DOMAIN OpOf' = Tasks
  BY DEF OpOf
<1> QED  BY <1>1, <1>2, <1>3 DEF OpOf

\* The end of a poll that found the request ended is the return of the call.
LEMMA FinishReturns ==
  ASSUME IInv, NEW t \in Tasks, pc[t] # "idle", Ended(handle[t]), Finish(t)
  PROVE  Calls!Next
<1>1. handle[t] \in Slots
  BY DEF IInv, TypeOK, IdleHoldsNothing
<1>2. OpOf[t] = slot[handle[t]] /\ OpOf[t] \in Outcomes
  BY <1>1, NobodyAssumption DEF OpOf, Ended, Outcomes
<1>3. OpOf' = [OpOf EXCEPT ![t] = "none"]
  BY <1>1, LetGo, NobodyAssumption DEF Finish, IInv, TypeOK
<1>4. Calls!Return(t)
  BY <1>2, <1>3 DEF Finish, Calls!Return, Calls!Outcomes, Outcomes
<1> QED  BY <1>4 DEF Calls!Next

\* Every step of the futures is a step of the abstract calls or invisible.
LEMMA NextOperation == IInv /\ [Next]_vars => [Calls!Next]_(Calls!vars)
<1> SUFFICES ASSUME IInv, [Next]_vars PROVE [Calls!Next]_(Calls!vars)
  OBVIOUS
<1> USE NobodyAssumption
<1>1. ASSUME NEW t \in Tasks, NEW k \in Kinds, NEW r \in Outcomes,
             Immediate(t, k, r)
      PROVE Calls!Next
  <2>1. OpOf' = OpOf
    BY <1>1, SameOps DEF Immediate
  <2>2. OpOf[t] = "none"
    BY <1>1 DEF Immediate, OpOf, IInv, IdleHoldsNothing
  <2>3. Calls!Immediate(t, k, r)
    BY <1>1, <2>1, <2>2 DEF Immediate, Calls!Immediate
  <2> QED  BY <2>3 DEF Calls!Next, Calls!Outcomes, Outcomes
<1>2. ASSUME NEW t \in Tasks, NEW k \in Kinds, NEW s \in Slots, Post(t, s, k)
      PROVE Calls!Next
  <2>1. handle[t] = NoSlot /\ OpOf[t] = "none"
    BY <1>2 DEF Post, OpOf, IInv, IdleHoldsNothing
  <2>2. \A u \in Tasks : handle[u] # s
    BY <1>2 DEF Post, IInv, SlotsAccounted, OwnersHold, InUse
  <2>3. OpOf' = [OpOf EXCEPT ![t] = "running"]
    <3>1. OpOf'[t] = "running"
      BY <1>2 DEF Post, OpOf, IInv, TypeOK
    <3>2. ASSUME NEW u \in Tasks, u # t PROVE OpOf'[u] = OpOf[u]
      BY <1>2, <2>2, <3>2 DEF Post, OpOf, IInv, TypeOK
    <3> QED  BY <3>1, <3>2 DEF OpOf
  <2>4. Calls!Start(t, k)
    BY <1>2, <2>1, <2>3 DEF Post, Calls!Start
  <2> QED  BY <2>4 DEF Calls!Next
<1>3. ASSUME NEW s \in Slots, ForgetClose(s) \/ Reclaim(s)
      PROVE UNCHANGED Calls!vars
  <2>1. \A u \in Tasks : handle[u] # s
    BY <1>3 DEF ForgetClose, Reclaim, IInv, SlotsAccounted, OwnersHold, InUse
  <2>2. OpOf' = OpOf
    BY <1>3, <2>1 DEF ForgetClose, Reclaim, OpOf, IInv, TypeOK
  <2> QED  BY <1>3, <2>2 DEF ForgetClose, Reclaim, Calls!vars
<1>4. ASSUME NEW t \in Tasks, Check(t) PROVE [Calls!Next]_(Calls!vars)
  <2>1. CASE Ended(handle[t])
    BY <1>4, <2>1, FinishReturns DEF Check
  <2>2. CASE ~Ended(handle[t])
    BY <1>4, <2>2, SameOps DEF Check, Calls!vars
  <2> QED  BY <2>1, <2>2
<1>5. ASSUME NEW t \in Tasks, Register(t) \/ Poll(t)
      PROVE UNCHANGED Calls!vars
  BY <1>5, SameOps DEF Register, Poll, Calls!vars
<1>6. ASSUME NEW t \in Tasks, Recheck(t) PROVE [Calls!Next]_(Calls!vars)
  <2>1. CASE Ended(handle[t])
    BY <1>6, <2>1, FinishReturns DEF Recheck
  <2>2. CASE ~Ended(handle[t])
    BY <1>6, <2>2, SameOps DEF Recheck, Calls!vars
  <2> QED  BY <2>1, <2>2
<1>7. ASSUME NEW t \in Tasks, Abandon(t) PROVE Calls!Next
  <2>1. handle[t] \in Slots
    BY <1>7 DEF Abandon, IInv, TypeOK, IdleHoldsNothing
  <2>2. OpOf[t] # "none"
    BY <2>1 DEF OpOf, IInv, TypeOK, Outcomes
  <2>3. \A s \in Slots : s # handle[t] => slot'[s] = slot[s]
    BY <1>7 DEF Abandon, IInv, TypeOK
  <2>4. OpOf' = [OpOf EXCEPT ![t] = "none"]
    BY <1>7, <2>1, <2>3, LetGo DEF Abandon
  <2>5. Calls!GiveUp(t)
    BY <1>7, <2>2, <2>4 DEF Abandon, Calls!GiveUp
  <2> QED  BY <2>5 DEF Calls!Next
<1>8. ASSUME NEW s \in Slots, NEW r \in Outcomes, Complete(s, r)
      PROVE [Calls!Next]_(Calls!vars)
  <2>1. CASE \E t \in Tasks : handle[t] = s
    <3>1. PICK t \in Tasks : handle[t] = s
      BY <2>1
    <3>2. OpOf[t] = "running" /\ OpOf'[t] = r
      BY <1>8, <3>1 DEF Complete, OpOf, IInv, TypeOK, Outcomes
    <3>3. ASSUME NEW u \in Tasks, u # t PROVE OpOf'[u] = OpOf[u]
      <4>1. handle[u] # s
        BY <3>1, <3>3 DEF IInv, SlotsAccounted, OneOwner
      <4> QED  BY <1>8, <4>1 DEF Complete, OpOf, IInv, TypeOK
    <3>4. OpOf' = [OpOf EXCEPT ![t] = r]
      BY <3>2, <3>3 DEF OpOf
    <3>5. Calls!Finish(t, r)
      BY <1>8, <3>2, <3>4 DEF Complete, Calls!Finish
    <3> QED  BY <3>5 DEF Calls!Next, Calls!Outcomes, Outcomes
  <2>2. CASE \A t \in Tasks : handle[t] # s
    <3>1. OpOf' = OpOf
      BY <1>8, <2>2 DEF Complete, OpOf, IInv, TypeOK
    <3> QED  BY <1>8, <3>1 DEF Complete, Calls!vars
  <2> QED  BY <2>1, <2>2
<1>9. CASE UNCHANGED vars
  BY <1>9, SameOps DEF vars, Calls!vars
<1>10. ASSUME NEW t \in Tasks, Start(t) PROVE Calls!Next
  BY <1>10, <1>1, <1>2, StartIssues
<1> QED
  BY <1>1, <1>2, <1>3, <1>4, <1>5, <1>6, <1>7, <1>8, <1>9, <1>10
  DEF Next, CallStep, UcxStep

\* A sleeping call is registered with its own request, or already woken
\* (SleeperRegistered), whatever wakers earlier users left in the slots.
THEOREM SleepersRegistered == Spec => []SleeperRegistered
  BY Invariance, PTL DEF IInv

\* The futures implement one-shot operations: over a shared pool of reused
\* requests, each call answers once, with the outcome of its own operation.
THEOREM Refinement == Spec => ImplementsOperation
<1>1. Init => Calls!Init
  BY DEF Init, OpOf, Calls!Init, Kinds
<1> QED
  BY <1>1, Invariance, NextOperation, PTL
  DEF Spec, ImplementsOperation, Calls!Spec

-----------------------------------------------------------------------------
(* Runtime: the calls and the loops that serve them.                       *)

\* A call does in Runtime what it does in Request, and so does UCX.
LEMMA RequestPart ==
  ASSUME pending \in SUBSET Slots, [RuntimeNext]_runtimeVars
  PROVE  [Next]_vars
<1>1. ASSUME NEW t \in Tasks, StartCall(t) \/ PollCall(t) \/ AbandonCall(t) \/ GoOn(t)
      PROVE  Next
  BY <1>1 DEF StartCall, PollCall, AbandonCall, GoOn, Next, CallStep
<1>2. ASSUME NEW u, CloneRef(u) \/ DropRef(u) PROVE UNCHANGED vars
  BY <1>2 DEF CloneRef, DropRef
<1>3. ASSUME NEW s \in Slots, DropUnclosed(s) PROVE Next
  BY <1>3 DEF DropUnclosed, Next, UcxStep
<1>4. ASSUME NEW s \in Slots, Finished(s) PROVE UNCHANGED vars
  BY <1>4 DEF Finished
<1>5. ASSUME NEW p \in Pollers, Runs(p) PROVE [Next]_vars
  BY <1>5 DEF Runs, Progress, Next, UcxStep
<1>6. ASSUME NEW p \in Pollers, Resume(p) \/ Spawn(p) \/ Abort(p)
      PROVE  UNCHANGED vars
  BY <1>6 DEF Resume, Spawn, Abort
<1> QED
  BY <1>1, <1>2, <1>3, <1>4, <1>5, <1>6 DEF RuntimeNext, runtimeVars

\* What is pending can be counted, and is nothing when the count is 0.
LEMMA PendingCount ==
  ASSUME NEW S \in SUBSET Slots
  PROVE  /\ IsFiniteSet(S)
         /\ Cardinality(S) \in 0 .. Cardinality(Slots)
         /\ Cardinality(S) = 0 <=> S = {}
  BY PoolAssumption, FS_Subset, FS_CardinalityType, FS_EmptySet

\* Only event_poll calls arm() and sleeps on the descriptor.
OnlyEventPollArms ==
    \A p \in Pollers : at[p] \in {"arm", "asleep"} => loop[p] = "event_poll"

\* Arming is refused when a request is pending, and the next one disarms.
ArmedMeansIdle == armed => pending = {}

\* A sleeper will hear of the next request, or has heard of one.
SleeperWillHear ==
    \A p \in Pollers : at[p] = "asleep" => armed \/ readable[p]

\* A loop that ended by itself was the last to hold the worker.
EndsLast ==
    \A p \in Pollers : at[p] = "ended" /\ p \notin aborted => users = {}

LoopsInv == OnlyEventPollArms /\ ArmedMeansIdle /\ SleeperWillHear /\ EndsLast

RInv == IInv /\ RuntimeTypeOK /\ LoopsInv

\* The invariant holds when no loop has been spawned.
LEMMA InitRInv == RuntimeInit => RInv
<1> SUFFICES ASSUME RuntimeInit PROVE RInv
  OBVIOUS
<1>1. IInv
  BY InitIInv DEF RuntimeInit
<1>2. L!TypeOK
  <2>1. Cardinality(pending) \in 0 .. Cardinality(Slots) /\ 0 \in 0 .. Cardinality(Slots)
    BY PendingCount DEF RuntimeInit
  <2>2. readable \in [Pollers -> BOOLEAN]
    BY Zenon DEF RuntimeInit, L!Init
  <2> QED  BY <2>1, <2>2, Zenon DEF RuntimeInit, L!Init, L!TypeOK, L!Awaits, L!Runs
<1>3. RuntimeTypeOK
  BY <1>1, <1>2 DEF RuntimeInit, RuntimeTypeOK, IInv, Init
<1>4. LoopsInv
  BY DEF RuntimeInit, L!Init, LoopsInv, OnlyEventPollArms, ArmedMeansIdle, SleeperWillHear, EndsLast
<1> QED  BY <1>1, <1>3, <1>4 DEF RInv

\* A step of a call takes no request from those that are pending: only the
\* handle of an ended one frees it, and one that is new was free.
LEMMA CallStepRInv ==
  ASSUME RInv, IInv',
         \/ \E t \in Tasks : StartCall(t) \/ PollCall(t) \/ AbandonCall(t) \/ GoOn(t)
         \/ \E s \in Slots : DropUnclosed(s)
  PROVE  RInv'
<1>1. UNCHANGED <<loops, pending, aborted>>
  BY DEF StartCall, PollCall, AbandonCall, GoOn, DropUnclosed
<1>2. LoopsInv' /\ L!TypeOK'
  BY <1>1 DEF RInv, RuntimeTypeOK, LoopsInv, OnlyEventPollArms, ArmedMeansIdle,
     SleeperWillHear, EndsLast, L!TypeOK, loops
<1>3. \A s \in pending : slot'[s] \in {"active", "released"}
  <2> USE DEF RInv, RuntimeTypeOK, IInv, TypeOK, Outcomes, IdleHoldsNothing
  <2>1. ASSUME NEW t \in Tasks, Start(t)
        PROVE  UNCHANGED slot \/ \E s \in Slots : slot[s] = "free"
                                     /\ slot' = [slot EXCEPT ![s] = "active"]
    <3>1. PICK k \in Kinds : \/ \E r \in Outcomes : Immediate(t, k, r)
                             \/ \E s \in Slots : Post(t, s, k)
      BY <2>1, StartIssues
    <3> QED  BY <3>1 DEF Immediate, Post
  <2>2. ASSUME NEW t \in Tasks, Check(t) \/ Register(t) \/ Recheck(t) \/ Poll(t)
        PROVE  UNCHANGED slot \/ \E s \in Slots : slot[s] \in Outcomes
                                     /\ slot' = [slot EXCEPT ![s] = "free"]
    BY <2>2 DEF Check, Register, Recheck, Poll, Finish, Ended
  <2>3. ASSUME NEW t \in Tasks, Abandon(t), NEW s \in pending
        PROVE  slot'[s] \in {"active", "released"}
    <3>1. handle[t] \in Slots /\ slot[handle[t]] # "released"
      BY <2>3 DEF Abandon, SlotsAccounted, OwnersHold, InUse
    <3> QED  BY <2>3, <3>1 DEF Abandon
  <2>4. ASSUME NEW s \in Slots, ForgetClose(s)
        PROVE  slot[s] = "free" /\ slot' = [slot EXCEPT ![s] = "active"]
    BY <2>4 DEF ForgetClose
  <2> QED  BY <2>1, <2>2, <2>3, <2>4 DEF StartCall, PollCall, AbandonCall, GoOn, DropUnclosed
<1>4. \A t \in Tasks : pc'[t] # "idle" => t \in users
  <2> USE DEF RInv, RuntimeTypeOK, IInv, TypeOK
  <2>1. ASSUME NEW t \in Tasks, StartCall(t), NEW u \in Tasks, pc'[u] # "idle"
        PROVE  u \in users
    <3>1. PICK k \in Kinds : \/ \E r \in Outcomes : Immediate(t, k, r)
                             \/ \E s \in Slots : Post(t, s, k)
      BY <2>1, StartIssues DEF StartCall
    <3> QED  BY <2>1, <3>1 DEF Immediate, Post, StartCall
  <2>2. ASSUME NEW t \in Tasks, PollCall(t) \/ AbandonCall(t) \/ GoOn(t),
               NEW u \in Tasks, pc'[u] # "idle"
        PROVE  pc[u] # "idle"
    BY <2>2 DEF PollCall, AbandonCall, GoOn, Poll, Abandon, Check, Register, Recheck,
       Finish, Goto
  <2>3. ASSUME NEW s \in Slots, DropUnclosed(s) PROVE UNCHANGED pc
    BY <2>3 DEF DropUnclosed, ForgetClose
  <2> QED  BY <2>1, <2>2, <2>3
<1> QED
  BY <1>1, <1>2, <1>3, <1>4 DEF RInv, RuntimeTypeOK, IInv, loops

\* References come and go, but not those that calls borrow.
LEMMA RefStepRInv ==
  ASSUME RInv, NEW u \in Tasks \cup {Program}, CloneRef(u) \/ DropRef(u)
  PROVE  RInv'
<1>1. UNCHANGED <<vars, pending, aborted, loop, at, armed, readable>>
  BY DEF CloneRef, DropRef, L!CloneRef, L!DropRef
<1>2. IInv' /\ TypeOK'
  BY <1>1, NextIInv DEF RInv, IInv
<1>3. L!TypeOK'
  BY <1>1 DEF CloneRef, DropRef, L!CloneRef, L!DropRef, RInv, RuntimeTypeOK, L!TypeOK
<1>4. /\ users' # {} => users # {}
      /\ \A t \in Tasks : pc[t] # "idle" => t \in users'
  BY DEF CloneRef, DropRef, L!CloneRef, L!DropRef, RInv, RuntimeTypeOK
<1> QED
  BY <1>1, <1>2, <1>3, <1>4
  DEF RInv, RuntimeTypeOK, LoopsInv, OnlyEventPollArms, ArmedMeansIdle,
      SleeperWillHear, EndsLast, vars

\* A request that ends wakes every loop that relied on being armed.
LEMMA FinishedRInv == ASSUME RInv, NEW s \in Slots, Finished(s) PROVE RInv'
<1>1. /\ UNCHANGED <<vars, aborted, users, loop, at>>
      /\ pending' = pending \cup {s} /\ armed' = FALSE
      /\ slot[s] \in {"active", "released"}
  BY DEF Finished, L!EventComes
<1>2. IInv' /\ TypeOK'
  BY <1>1, NextIInv DEF RInv, IInv
<1>3. pending' \in SUBSET Slots /\ Cardinality(pending') \in 0 .. Cardinality(Slots)
  <2>1. pending' \in SUBSET Slots
    BY <1>1 DEF RInv, RuntimeTypeOK
  <2> QED  BY <2>1, PendingCount
<1>4. readable' \in [Pollers -> BOOLEAN]
  <2>1. \/ readable' = [p \in Pollers |->
                          readable[p] \/ (p \in L!Active /\ loop[p] = "event_poll")]
        \/ UNCHANGED readable
    BY DEF Finished, L!EventComes
  <2>2. readable \in [Pollers -> BOOLEAN]
    BY DEF RInv, RuntimeTypeOK, L!TypeOK
  <2> QED  BY <2>1, <2>2, Zenon
<1>5. L!TypeOK'
  BY <1>1, <1>3, <1>4 DEF RInv, RuntimeTypeOK, L!TypeOK
<1>6. ASSUME NEW p \in Pollers, at[p] = "asleep" PROVE readable'[p]
  <2>1. p \in L!Active /\ loop[p] = "event_poll"
    BY <1>6 DEF L!Active, L!Awaits, RInv, LoopsInv, OnlyEventPollArms
  <2>2. CASE armed
    BY <2>1, <2>2 DEF Finished, L!EventComes
  <2>3. CASE ~armed
    <3>1. readable[p]
      BY <1>6, <2>3 DEF RInv, LoopsInv, SleeperWillHear
    <3> QED  BY <3>1, <2>1 DEF Finished, L!EventComes
  <2> QED  BY <2>2, <2>3
<1>7. LoopsInv'
  BY <1>1, <1>6 DEF RInv, LoopsInv, OnlyEventPollArms, ArmedMeansIdle, SleeperWillHear, EndsLast
<1> QED
  BY <1>1, <1>2, <1>3, <1>5, <1>7 DEF RInv, RuntimeTypeOK, vars

\* Progress tells the caller of a pending request, or finds none and goes on.
LEMMA ProgressRInv == ASSUME RInv, NEW p \in Pollers, Progress(p), IInv' PROVE RInv'
<1>1. UNCHANGED <<users, loop, armed, readable, aborted>> /\ at[p] = "progress"
  BY DEF Progress, L!Progress
<1>2. \/ UNCHANGED <<pending, vars>>
      \/ \E s \in pending : /\ pending' = pending \ {s}
                            /\ \E x : slot' = [slot EXCEPT ![s] = x]
                            /\ UNCHANGED pc
  BY DEF Progress, Reclaim, Complete
<1>3. \/ UNCHANGED at
      \/ /\ pending = {} /\ UNCHANGED pending
         /\ at' = [at EXCEPT ![p] = IF loop[p] = "polling" THEN "yielded" ELSE "arm"]
  <2>1. Cardinality(pending) = 0 <=> pending = {}
    BY PendingCount DEF RInv, RuntimeTypeOK
  <2> QED  BY <2>1 DEF Progress, L!Progress, L!Goto
<1>4. pending' \in SUBSET Slots /\ \A s \in pending' : slot'[s] \in {"active", "released"}
  BY <1>2 DEF RInv, RuntimeTypeOK, IInv, TypeOK, vars
<1>5. L!TypeOK'
  <2>1. Cardinality(pending') \in 0 .. Cardinality(Slots)
    BY <1>4, PendingCount
  <2>2. at' \in [Pollers -> L!Awaits \cup L!Runs \cup {"none", "ended"}]
    BY <1>3 DEF RInv, RuntimeTypeOK, L!TypeOK, L!Awaits, L!Runs
  <2> QED  BY <1>1, <2>1, <2>2 DEF RInv, RuntimeTypeOK, L!TypeOK
<1>6. LoopsInv'
  BY <1>1, <1>2, <1>3
  DEF RInv, RuntimeTypeOK, L!TypeOK, LoopsInv, OnlyEventPollArms, ArmedMeansIdle,
      SleeperWillHear, EndsLast
<1>7. \A t \in Tasks : pc'[t] # "idle" => t \in users'
  BY <1>1, <1>2 DEF RInv, RuntimeTypeOK, vars
<1> QED
  BY <1>1, <1>4, <1>5, <1>6, <1>7 DEF RInv, RuntimeTypeOK, IInv

\* The other steps of the loops touch no call.
LEMMA LoopStepRInv ==
  ASSUME RInv, NEW p \in Pollers, UNCHANGED <<vars, pending>>,
         \/ L!While(p) /\ UNCHANGED aborted
         \/ L!Arm(p) /\ UNCHANGED aborted
         \/ Resume(p) \/ Spawn(p) \/ Abort(p)
  PROVE  RInv'
<1> USE DEF L!Goto
<1>1. IInv' /\ TypeOK'
  BY NextIInv DEF RInv, IInv
<1>2. UNCHANGED users
  BY DEF L!While, L!Arm, Resume, Spawn, Abort, L!Resume, L!Spawn, L!Abort
<1>3. L!TypeOK' /\ aborted' \in SUBSET Pollers
  BY DEF RInv, RuntimeTypeOK, L!TypeOK, L!Awaits, L!Runs, L!While, L!Arm,
     Resume, Spawn, Abort, L!Resume, L!Spawn, L!Abort
<1>4. LoopsInv'
  <2> USE DEF RInv, RuntimeTypeOK, L!TypeOK, LoopsInv, OnlyEventPollArms,
          ArmedMeansIdle, SleeperWillHear, EndsLast
  <2>1. CASE L!While(p) /\ UNCHANGED aborted
    BY <2>1 DEF L!While, L!OthersExist
  <2>2. CASE L!Arm(p) /\ UNCHANGED aborted
    <3>1. Cardinality(pending) > 0 \/ pending = {}
      BY PendingCount
    <3> QED  BY <2>2, <3>1 DEF L!Arm
  <2>3. CASE Resume(p)
    BY <2>3 DEF Resume, L!Resume
  <2>4. CASE Spawn(p)
    BY <2>4 DEF Spawn, L!Spawn
  <2>5. CASE Abort(p)
    BY <2>5 DEF Abort, L!Abort
  <2> QED  BY <2>1, <2>2, <2>3, <2>4, <2>5
<1> QED
  BY <1>1, <1>2, <1>3, <1>4 DEF RInv, RuntimeTypeOK, vars

LEMMA NextRInv == RInv /\ [RuntimeNext]_runtimeVars => RInv'
<1> SUFFICES ASSUME RInv, [RuntimeNext]_runtimeVars PROVE RInv'
  OBVIOUS
<1>1. IInv'
  BY RequestPart, NextIInv DEF RInv, RuntimeTypeOK
<1>2. ASSUME NEW p \in Pollers, Runs(p) PROVE RInv'
  BY <1>1, <1>2, ProgressRInv, LoopStepRInv DEF Runs
<1>3. ASSUME NEW p \in Pollers, Resume(p) \/ Spawn(p) \/ Abort(p) PROVE RInv'
  <2>1. UNCHANGED <<vars, pending>>
    BY <1>3 DEF Resume, Spawn, Abort
  <2> QED  BY <1>3, <2>1, LoopStepRInv
<1>4. CASE UNCHANGED runtimeVars
  BY <1>1, <1>4
  DEF runtimeVars, vars, loops, RInv, RuntimeTypeOK, IInv, L!TypeOK, LoopsInv,
      OnlyEventPollArms, ArmedMeansIdle, SleeperWillHear, EndsLast
<1> QED
  BY <1>1, <1>2, <1>3, <1>4, CallStepRInv, RefStepRInv, FinishedRInv DEF RuntimeNext

LEMMA RuntimeInvariance == RuntimeSpec => []RInv
  BY InitRInv, NextRInv, PTL DEF RuntimeSpec

-----------------------------------------------------------------------------
\* The variables keep their types; what is pending is a request nobody was
\* told of; and a call is made by a task that holds the worker.
THEOREM RuntimeTypeCorrect == RuntimeSpec => []RuntimeTypeOK
  BY RuntimeInvariance, PTL DEF RInv

\* No sleeping call waits for a request that has ended unless a loop will get
\* to it, and no loop has ended by itself while there are such calls.
THEOREM SleepersAreServed == RuntimeSpec => []NobodySleepsOnAnAnswer
<1>1. RInv => NobodySleepsOnAnAnswer
  BY DEF RInv, RuntimeTypeOK, LoopsInv, ArmedMeansIdle, SleeperWillHear, EndsLast,
     IInv, NoLostWakeup, L!Active, NobodySleepsOnAnAnswer
<1> QED  BY <1>1, RuntimeInvariance, PTL

\* Whatever the loops do, the calls they serve behave as those of Request.
THEOREM ImplementsRequest == RuntimeSpec => Spec
<1>1. RuntimeInit => Init
  BY DEF RuntimeInit
<1>2. RInv /\ [RuntimeNext]_runtimeVars => [Next]_vars
  BY RequestPart DEF RInv, RuntimeTypeOK
<1> QED  BY <1>1, <1>2, RuntimeInvariance, PTL DEF RuntimeSpec, Spec

\* So each call that a loop serves answers once, with the outcome of its own
\* operation, whoever used the memory of its request before.
COROLLARY RuntimeRefinement == RuntimeSpec => ImplementsOperation
  BY ImplementsRequest, Refinement, PTL
=============================================================================
