--------------------------- MODULE EndpointProofs ---------------------------
(***************************************************************************)
(* Proofs about Endpoint, for any set of tasks and any set of fault        *)
(* statuses.  The invariant below is inductive; every safety property of   *)
(* Endpoint and the refinement of EndpointContract follow from it.         *)
(***************************************************************************)
EXTENDS Endpoint, TLAPS

\* Before create() has succeeded there is nothing to hold or to close.
NothingBeforeCreate ==
    IF phase = "live" THEN ep # "none"
    ELSE held = {} /\ ~closed /\ status = Ok /\ ep = "none"

\* The flag is set, and a close() waits, only after UCX was told to close;
\* the last drop leaves the endpoint closed.
ClosedAfterUcx ==
    closed \/ (\E t \in Tasks : call[t] = "close") => ep # "open"
DroppedIsClosed == phase = "live" /\ held = {} => closed

\* A call borrows the clone of its task.
CallsBorrow == \A t \in Tasks : call[t] # "none" => t \in held

\* While is_closed() lags, some close() is still to see UCX's answer.
LagHasWitness ==
    phase = "live" /\ ep # "open" /\ ~closed /\ ~unseen
        => \E t \in Tasks : call[t] = "close"

IInv ==
    /\ TypeOK
    /\ NothingBeforeCreate
    /\ ClosedAfterUcx
    /\ DroppedIsClosed
    /\ CallsBorrow
    /\ LagHasWitness
    /\ WeakHeldUntilClosed
    /\ OnlyUnpackOnceClosed
    /\ ClosedMeansReset

-----------------------------------------------------------------------------
\* The invariant holds of an endpoint that is yet to be created.
LEMMA InitIInv == Init => IInv
  BY DEF Init, IInv, TypeOK, Statuses, ReqStates, Uses, NothingBeforeCreate,
         ClosedAfterUcx, DroppedIsClosed, CallsBorrow, LagHasWitness,
         WeakHeldUntilClosed, OnlyUnpackOnceClosed, ClosedMeansReset

\* ConnReset is an error: check() fails on a closed endpoint.
LEMMA ResetIsNotOk == ConnReset # Ok /\ ConnReset \in Statuses /\ Ok \in Statuses
  BY FaultsAssumption DEF Statuses

\* EndpointInner::closed, run on a live endpoint that UCX no longer holds
\* open, leaves it closed with its weak reference given back.
LEMMA ClosedEffect ==
  ASSUME IInv, phase = "live", Closed
  PROVE  /\ closed' = TRUE
         /\ weak' = 0
         /\ status' = ConnReset
  BY ResetIsNotOk
  DEF Closed, SetStatus, IInv, TypeOK, WeakHeldUntilClosed, ClosedMeansReset

\* Whatever UCX answers to ucp_ep_close_nb, the handle is not open after it.
LEMMA CloseNbEffect ==
  ASSUME IInv, phase = "live", CloseNb
  PROVE  ep' \in {"closing", "released"}
  BY DEF CloseNb, CloseDone, CloseStarted, CloseRefused, IInv, TypeOK,
         NothingBeforeCreate

\* Every step of every task and of UCX preserves the invariant.
LEMMA NextIInv == IInv /\ [Next]_vars => IInv'
<1> SUFFICES ASSUME IInv, [Next]_vars PROVE IInv'
  OBVIOUS
<1> USE DEF IInv, TypeOK, Statuses, ReqStates, NothingBeforeCreate,
            ClosedAfterUcx, DroppedIsClosed, CallsBorrow, LagHasWitness,
            WeakHeldUntilClosed, OnlyUnpackOnceClosed, ClosedMeansReset, Uses
<1>1. CASE CreateFails
  BY <1>1 DEF CreateFails
<1>2. ASSUME NEW t \in Tasks, CreateOk(t) PROVE IInv'
  BY <1>2 DEF CreateOk
<1>3. ASSUME NEW t \in Tasks, NEW u \in Tasks, Clone(t, u) PROVE IInv'
  BY <1>3 DEF Clone
<1>4. ASSUME NEW t \in Tasks, Drop(t) PROVE IInv'
  <2>1. phase = "live"
    BY <1>4 DEF Drop
  <2>2. CallsBorrow'
    BY <1>4 DEF Drop, InFlight
  <2>3. CASE closed
    BY <1>4, <2>1, <2>2, <2>3 DEF Drop
  <2>4. CASE ~closed
    <3>1. PassHandle("drop") /\ CloseNb /\ Closed
      BY <1>4, <2>4 DEF Drop
    <3>2. closed' = TRUE /\ weak' = 0 /\ status' = ConnReset
      BY <3>1, <2>1, ClosedEffect
    <3>3. ep' \in {"closing", "released"}
      BY <3>1, <2>1, CloseNbEffect
    <3> QED
      BY <1>4, <2>1, <2>2, <2>4, <3>1, <3>2, <3>3, ResetIsNotOk
      DEF Drop, PassHandle
  <2> QED  BY <2>3, <2>4
<1>5. ASSUME NEW t \in Tasks, OpBegin(t) PROVE IInv'
  <2>1. ~closed
    BY <1>5, ResetIsNotOk DEF OpBegin, Check
  <2>2. reused' = reused
    BY <1>5, <2>1 DEF OpBegin, PassHandle
  <2> QED
    BY <1>5, <2>2 DEF OpBegin, StartCall, InFlight
<1>6. ASSUME NEW t \in Tasks, OpEnd(t) PROVE IInv'
  BY <1>6 DEF OpEnd, EndCall
<1>7. ASSUME NEW t \in Tasks, NEW force \in BOOLEAN, CloseBegin(t, force)
      PROVE IInv'
  <2>1. phase = "live" /\ ~closed
    BY <1>7, ResetIsNotOk DEF CloseBegin, Check
  <2>2. reused' = reused
    BY <1>7, <2>1 DEF CloseBegin, PassHandle
  <2>3. ep' \in {"closing", "released"}
    BY <1>7, <2>1, CloseNbEffect DEF CloseBegin, CloseNb
  <2>4. CASE CloseDone /\ Closed /\ UNCHANGED <<call, req, unseen>>
    <3>1. closed' = TRUE /\ weak' = 0 /\ status' = ConnReset
      BY <2>1, <2>4, ClosedEffect
    <3> QED
      BY <1>7, <2>1, <2>2, <2>3, <2>4, <3>1, ResetIsNotOk DEF CloseBegin
  <2>5. CASE /\ CloseStarted /\ StartCall(t, "close")
             /\ UNCHANGED <<closed, status, weak, unseen>>
    BY <1>7, <2>1, <2>2, <2>3, <2>5 DEF CloseBegin, StartCall
  <2>6. CASE /\ CloseRefused /\ unseen' = TRUE
             /\ UNCHANGED <<closed, status, weak, call, req>>
    BY <1>7, <2>1, <2>2, <2>3, <2>6 DEF CloseBegin
  <2> QED  BY <1>7, <2>4, <2>5, <2>6 DEF CloseBegin
<1>8. ASSUME NEW t \in Tasks, CloseSees(t) PROVE IInv'
  <2>1. phase = "live" /\ ep # "open"
    BY <1>8 DEF CloseSees
  <2>2. CallsBorrow' /\ call' \in [Tasks -> {"none", "op", "close"}]
                     /\ req' \in [Tasks -> ReqStates]
    BY <1>8 DEF CloseSees, EndCall
  <2>3. CASE req[t] = "ok"
    <3>1. Closed /\ unseen' = unseen
      BY <1>8, <2>3 DEF CloseSees
    <3>2. closed' = TRUE /\ weak' = 0 /\ status' = ConnReset
      BY <2>1, <3>1, ClosedEffect
    <3> QED
      BY <1>8, <2>1, <2>2, <3>1, <3>2, ResetIsNotOk DEF CloseSees
  <2>4. CASE req[t] # "ok"
    BY <1>8, <2>1, <2>2, <2>4 DEF CloseSees, EndCall
  <2> QED  BY <2>3, <2>4
<1>9. ASSUME NEW t \in Tasks, CloseAbandoned(t) PROVE IInv'
  BY <1>9 DEF CloseAbandoned, EndCall
<1>10. ASSUME NEW s \in Faults, ErrHandler(s) PROVE IInv'
  <2>1. phase = "live" /\ ~closed /\ held # {}
    BY <1>10 DEF ErrHandler
  <2> QED
    BY <1>10, <2>1 DEF ErrHandler, SetStatus
<1>11. ASSUME NEW t \in Tasks, NEW r \in {"ok", "error"}, UcxCompletesOp(t, r)
       PROVE IInv'
  BY <1>11 DEF UcxCompletesOp
<1>12. CASE UcxCompletesClose
  <2>1. phase = "live" /\ ep # "open"
    BY <1>12 DEF UcxCompletesClose, CloseWaits
  <2>2. req' \in [Tasks -> ReqStates]
    BY <1>12 DEF UcxCompletesClose
  <2> QED
    BY <1>12, <2>1, <2>2 DEF UcxCompletesClose
<1>13. ASSUME NEW t \in Tasks, Unpack(t) \/ PrintInfo(t) PROVE IInv'
  <2>1. UNCHANGED <<phase, held, closed, status, weak, ep, call, req, unseen>>
    BY <1>13 DEF Unpack, PrintInfo
  <2>2. reused' = reused \/ reused' = reused \cup {"unpack"}
    BY <1>13, Zenon DEF Unpack, PrintInfo, PassHandle
  <2>3. OnlyUnpackOnceClosed' /\ reused' \in SUBSET Uses
    BY <2>2
  <2> QED
    BY <2>1, <2>3
<1>14. CASE UNCHANGED vars
  BY <1>14 DEF vars
<1> QED
  BY <1>1, <1>2, <1>3, <1>4, <1>5, <1>6, <1>7, <1>8, <1>9, <1>10, <1>11,
     <1>12, <1>13, <1>14
  DEF Next, TaskStep, UcxStep

\* The invariant holds in every state of every behaviour.
THEOREM Invariance == Spec => []IInv
  BY InitIInv, NextIInv, PTL DEF Spec

\* TypeOK: the variables keep their types.
THEOREM TypeCorrect == Spec => []TypeOK
  BY Invariance, PTL DEF IInv

\* The error handler never runs with a stale argument: the weak reference of
\* UCX and some clone exist as long as UCX may report a fault.
THEOREM HandlerArgAlwaysValid == Spec => []HandlerArgValid
<1>1. IInv => HandlerArgValid
  BY DEF IInv, TypeOK, HandlerArgValid, NothingBeforeCreate, ClosedAfterUcx,
         DroppedIsClosed, WeakHeldUntilClosed
<1> QED  BY <1>1, Invariance, PTL

\* The reference lent to UCX is neither leaked nor given back twice.
THEOREM WeakAccounted == Spec => []WeakHeldUntilClosed
  BY Invariance, PTL DEF IInv

\* After any clone ran closed(), no call but RKey::unpack passes the handle
\* to UCX, and every clone reports a connection reset.
THEOREM UsedOnceClosedByUnpack ==
    Spec => [](OnlyUnpackOnceClosed /\ ClosedMeansReset)
  BY Invariance, PTL DEF IInv

\* is_closed() lags behind UCX only on account of a failed or abandoned
\* close(), or of one whose task is yet to be polled.
THEOREM ClosedFlagExact == Spec => []ClosedIfSeen
<1>1. IInv => ClosedIfSeen
  BY DEF IInv, TypeOK, ClosedIfSeen, NothingBeforeCreate, LagHasWitness
<1> QED  BY <1>1, Invariance, PTL

-----------------------------------------------------------------------------
(* The refinement of EndpointContract.                                     *)

\* An endpoint that is still open or failed is shut down, in the abstract,
\* by running closed() on it.
LEMMA ClosedShutsDown ==
  ASSUME IInv, phase = "live", phase' = "live", ~closed, Closed
  PROVE  Contract!ShutDown
  BY ClosedEffect
  DEF Contract!ShutDown, IInv, WeakHeldUntilClosed

\* Every step of the endpoint is a step of the contract, or changes nothing
\* that the contract speaks of.
LEMMA NextContract ==
  IInv /\ IInv' /\ [Next]_vars => [Contract!Next]_(Contract!vars)
<1> SUFFICES ASSUME IInv, IInv', [Next]_vars
             PROVE [Contract!Next]_(Contract!vars)
  OBVIOUS
<1> USE DEF IInv, TypeOK, Statuses, NothingBeforeCreate, ClosedAfterUcx,
            DroppedIsClosed, CallsBorrow, WeakHeldUntilClosed,
            ClosedMeansReset
<1>1. CASE CreateFails
  BY <1>1 DEF CreateFails, Contract!Next, Contract!Reject
<1>2. ASSUME NEW t \in Tasks, CreateOk(t) PROVE Contract!Next
  BY <1>2 DEF CreateOk, Contract!Next, Contract!Create
<1>3. ASSUME NEW t \in Tasks, NEW u \in Tasks, Clone(t, u)
      PROVE Contract!Next
  BY <1>3 DEF Clone, Contract!Next, Contract!Share
<1>4. ASSUME NEW t \in Tasks, Drop(t) PROVE Contract!Next
  <2>1. phase = "live" /\ phase' = "live" /\ t \in held /\ held' = held \ {t}
    BY <1>4 DEF Drop
  <2>2. CASE closed
    BY <1>4, <2>1, <2>2 DEF Drop, Contract!Next, Contract!Release
  <2>3. CASE ~closed
    <3>1. Contract!ShutDown
      BY <1>4, <2>1, <2>3, ClosedShutsDown DEF Drop
    <3> QED  BY <2>1, <3>1 DEF Contract!Next, Contract!Release
  <2> QED  BY <2>2, <2>3
<1>5. ASSUME NEW t \in Tasks, OpBegin(t) PROVE UNCHANGED Contract!vars
  BY <1>5 DEF OpBegin, Contract!vars
<1>6. ASSUME NEW t \in Tasks, OpEnd(t) PROVE UNCHANGED Contract!vars
  BY <1>6 DEF OpEnd, Contract!vars
<1>7. ASSUME NEW t \in Tasks, NEW force \in BOOLEAN, CloseBegin(t, force)
      PROVE [Contract!Next]_(Contract!vars)
  <2>1. /\ phase = "live" /\ phase' = "live" /\ ~closed
        /\ held # {} /\ held' = held
    BY <1>7, ResetIsNotOk DEF CloseBegin, Check
  <2>2. CASE Closed
    BY <2>1, <2>2, ClosedShutsDown DEF Contract!Next, Contract!Close
  <2>3. CASE UNCHANGED <<closed, status, weak>>
    BY <2>1, <2>3 DEF Contract!vars
  <2> QED  BY <1>7, <2>2, <2>3 DEF CloseBegin
<1>8. ASSUME NEW t \in Tasks, CloseSees(t)
      PROVE [Contract!Next]_(Contract!vars)
  <2>1. /\ phase = "live" /\ phase' = "live"
        /\ held # {} /\ held' = held
    BY <1>8 DEF CloseSees
  <2>2. CASE Closed /\ ~closed
    BY <2>1, <2>2, ClosedShutsDown DEF Contract!Next, Contract!Close
  <2>3. CASE UNCHANGED <<closed, status, weak>>
    BY <2>1, <2>3 DEF Contract!vars
  <2> QED  BY <1>8, <2>2, <2>3 DEF CloseSees, Closed
<1>9. ASSUME NEW t \in Tasks, CloseAbandoned(t) PROVE UNCHANGED Contract!vars
  BY <1>9 DEF CloseAbandoned, Contract!vars
<1>10. ASSUME NEW s \in Faults, ErrHandler(s) PROVE Contract!Next
  <2>1. /\ phase = "live" /\ phase' = "live" /\ ~closed /\ ~closed'
        /\ held # {} /\ held' = held /\ status' = s /\ weak' = weak
    BY <1>10, FaultsAssumption DEF ErrHandler, SetStatus
  <2> QED
    BY <2>1, FaultsAssumption DEF Contract!Next, Contract!Fail
<1>11. ASSUME NEW t \in Tasks, NEW r \in {"ok", "error"}, UcxCompletesOp(t, r)
       PROVE UNCHANGED Contract!vars
  BY <1>11 DEF UcxCompletesOp, Contract!vars
<1>12. CASE UcxCompletesClose
  BY <1>12 DEF UcxCompletesClose, Contract!vars
<1>13. ASSUME NEW t \in Tasks, Unpack(t) \/ PrintInfo(t)
       PROVE UNCHANGED Contract!vars
  BY <1>13 DEF Unpack, PrintInfo, Contract!vars
<1>14. CASE UNCHANGED vars
  BY <1>14 DEF vars, Contract!vars
<1> QED
  BY <1>1, <1>2, <1>3, <1>4, <1>5, <1>6, <1>7, <1>8, <1>9, <1>10, <1>11,
     <1>12, <1>13, <1>14
  DEF Next, TaskStep, UcxStep

\* Once closed() has run get_status() says connection reset for good
\* (ClosedMeansReset), whatever the error handler reported before.
THEOREM ClosedReportsReset == Spec => []ClosedMeansReset
  BY Invariance, PTL DEF IInv

\* The endpoint implements its contract, whatever the tasks, the interleaving
\* of their calls and the answers of UCX.
THEOREM Refinement == Spec => ImplementsContract
<1>1. Init => Contract!Init
  BY DEF Init, Contract!Init
<1> QED
  BY <1>1, Invariance, NextContract, PTL
  DEF Spec, ImplementsContract, Contract!Spec
=============================================================================
