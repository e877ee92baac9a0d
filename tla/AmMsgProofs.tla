----------------------------- MODULE AmMsgProofs -----------------------------
(***************************************************************************)
(* Who owns the descriptor of a message, for any number of messages.       *)
(***************************************************************************)
EXTENDS AmMsg, TLAPS

\* Nothing has come of a message that was not sent.
UnsentIsBlank ==
    \A m \in Messages : place[m] = "unsent" =>
        ~data[m] /\ call[m] = "none" /\ desc[m] = "ucx" /\ lost[m] = "no"
        /\ type[m] = "empty" /\ returned[m] = 0

\* Descriptors belong to messages that say so, but for the empty ones.
OnlyLentHasDesc ==
    \A m \in Messages : type[m] \notin Lent => desc[m] = "ucx" \/ lost[m] = "empty"

\* A message is received while it is held, and its data is out of it then.
CallHasTaken ==
    \A m \in Messages : call[m] = "waits" => place[m] = "held" /\ ~data[m]

\* What was lost is with the library still, and is in no message.
LostIsGone ==
    \A m \in Messages : lost[m] # "no" =>
        desc[m] = "lent" /\ ~data[m] /\ place[m] # "unsent"

\* The data of a message is dropped with it.
DataIsPlaced ==
    \A m \in Messages : data[m] => place[m] \in {"queued", "held"}

IInv ==
    /\ TypeOK
    /\ UnsentIsBlank /\ OnlyLentHasDesc /\ CallHasTaken /\ LostIsGone /\ DataIsPlaced
    /\ DataIsValid /\ DescriptorReachable /\ ReturnedOnce

-----------------------------------------------------------------------------
\* The parts of the invariant for one message: actions touch one at a time.
MsgInv(m) ==
    /\ place[m] \in {"unsent", "queued", "held", "dropped"}
    /\ type[m] \in Flags \cup {"empty"}
    /\ data[m] \in BOOLEAN
    /\ call[m] \in {"none", "waits"}
    /\ desc[m] \in {"ucx", "lent", "receiving"}
    /\ returned[m] \in 0 .. 1
    /\ lost[m] \in {"no", "empty", "truncated", "refused", "discarded"}
    /\ place[m] = "unsent" =>
           ~data[m] /\ call[m] = "none" /\ desc[m] = "ucx" /\ lost[m] = "no"
           /\ type[m] = "empty" /\ returned[m] = 0
    /\ type[m] \notin Lent => desc[m] = "ucx" \/ lost[m] = "empty"
    /\ call[m] = "waits" => place[m] = "held" /\ ~data[m]
    /\ lost[m] # "no" => desc[m] = "lent" /\ ~data[m] /\ place[m] # "unsent"
    /\ data[m] => place[m] \in {"queued", "held"}
    /\ data[m] /\ type[m] \in Lent => desc[m] = "lent"
    /\ desc[m] = "lent" /\ lost[m] = "no" =>
           data[m] /\ place[m] \in {"queued", "held"}
    /\ returned[m] = IF type[m] \in Lent /\ desc[m] = "ucx" THEN 1 ELSE 0

\* The variables are functions on the messages.
Shape ==
    /\ place = [m \in Messages |-> place[m]]
    /\ type = [m \in Messages |-> type[m]]
    /\ data = [m \in Messages |-> data[m]]
    /\ call = [m \in Messages |-> call[m]]
    /\ desc = [m \in Messages |-> desc[m]]
    /\ returned = [m \in Messages |-> returned[m]]
    /\ lost = [m \in Messages |-> lost[m]]

LEMMA Pointwise == IInv <=> Shape /\ \A m \in Messages : MsgInv(m)
<1>1. IInv => Shape /\ \A m \in Messages : MsgInv(m)
  <2> SUFFICES ASSUME IInv PROVE Shape /\ \A m \in Messages : MsgInv(m)
      OBVIOUS
  <2>1. Shape
        BY DEF IInv, TypeOK, Shape
  <2>2. ASSUME NEW m \in Messages PROVE MsgInv(m)
        BY DEF IInv, TypeOK, UnsentIsBlank, OnlyLentHasDesc, CallHasTaken, LostIsGone,
           DataIsPlaced, DataIsValid, DescriptorReachable, ReturnedOnce, MsgInv
  <2> QED
      BY <2>1, <2>2
<1>2. Shape /\ (\A m \in Messages : MsgInv(m)) => TypeOK
      BY DEF TypeOK, Shape, MsgInv
<1>3. (\A m \in Messages : MsgInv(m)) =>
          UnsentIsBlank /\ OnlyLentHasDesc /\ CallHasTaken /\ LostIsGone /\ DataIsPlaced
      BY DEF UnsentIsBlank, OnlyLentHasDesc, CallHasTaken, LostIsGone, DataIsPlaced, MsgInv
<1>4. (\A m \in Messages : MsgInv(m)) =>
          DataIsValid /\ DescriptorReachable /\ ReturnedOnce
      BY DEF DataIsValid, DescriptorReachable, ReturnedOnce, MsgInv
<1> QED
    BY <1>1, <1>2, <1>3, <1>4 DEF IInv

LEMMA PointwiseNext == (Shape /\ \A m \in Messages : MsgInv(m))' => IInv'
  BY Pointwise, PTL

-----------------------------------------------------------------------------
LEMMA InitInv == Init => IInv
  BY DEF Init, IInv, TypeOK, UnsentIsBlank, OnlyLentHasDesc, CallHasTaken, LostIsGone,
     DataIsPlaced, DataIsValid, DescriptorReachable, ReturnedOnce, Flags, Lent

\* A step of message m leaves the others alone.
OthersAlone(m) ==
    \A n \in Messages \ {m} :
        /\ place'[n] = place[n] /\ type'[n] = type[n] /\ data'[n] = data[n]
        /\ call'[n] = call[n] /\ desc'[n] = desc[n]
        /\ returned'[n] = returned[n] /\ lost'[n] = lost[n]

\* Every action but DiscardQueue.
MessageStep(m) ==
    \/ \E flag \in Flags, empty \in BOOLEAN : Arrive(m, flag, empty)
    \/ Take(m) \/ RecvData(m)
    \/ \E fits \in BOOLEAN : RecvDataVectored(m, fits)
    \/ RecvEnds(m) \/ RecvAbandoned(m) \/ DropMsg(m) \/ UcxReceived(m)

LEMMA TouchesOne ==
    ASSUME IInv, NEW m \in Messages, MessageStep(m)
    PROVE  Shape' /\ OthersAlone(m)
<1> USE DEF Idle, TakeData, Release, GiveBack, ReceiveRndv, Shape, OthersAlone
<1>1. Shape
      BY Pointwise
<1>2. ASSUME NEW flag \in Flags, NEW empty \in BOOLEAN, Arrive(m, flag, empty)
      PROVE  Shape' /\ OthersAlone(m)
      BY <1>1, <1>2 DEF Arrive
<1>3. CASE Take(m) \/ RecvEnds(m) \/ RecvAbandoned(m) \/ DropMsg(m) \/ UcxReceived(m)
      BY <1>1, <1>3 DEF Take, RecvEnds, RecvAbandoned, DropMsg, UcxReceived
<1>4. CASE RecvData(m)
      BY <1>1, <1>4 DEF RecvData
<1>5. ASSUME NEW fits \in BOOLEAN, RecvDataVectored(m, fits)
      PROVE  Shape' /\ OthersAlone(m)
      BY <1>1, <1>5 DEF RecvDataVectored
<1> QED
    BY <1>2, <1>3, <1>4, <1>5 DEF MessageStep

LEMMA OneAtATime ==
    ASSUME IInv, NEW m \in Messages, Shape', OthersAlone(m), MsgInv(m)'
    PROVE  IInv'
<1>1. \A n \in Messages \ {m} : MsgInv(n)'
      BY Pointwise DEF OthersAlone, MsgInv
<1> QED
    BY <1>1, PointwiseNext

LEMMA ArrivalStep ==
    ASSUME IInv, NEW m \in Messages,
           Take(m) \/ \E flag \in Flags, empty \in BOOLEAN : Arrive(m, flag, empty)
    PROVE  IInv'
<1>0. Shape /\ MsgInv(m)
      BY Pointwise
<1>1. Shape' /\ OthersAlone(m)
      BY TouchesOne DEF MessageStep
<1>2. ASSUME Take(m) PROVE MsgInv(m)'
      BY <1>0, <1>2 DEF Take, Shape, MsgInv
<1>3. ASSUME NEW flag \in Flags, NEW empty \in BOOLEAN, Arrive(m, flag, empty)
      PROVE  MsgInv(m)'
      BY <1>0, <1>3 DEF Arrive, Shape, MsgInv, Flags, Lent
<1> QED
    BY <1>1, <1>2, <1>3, OneAtATime

\* Giving up a queue loses the descriptors in it and no others.
LEMMA DiscardStep == IInv /\ DiscardQueue => IInv'
<1> SUFFICES ASSUME IInv, DiscardQueue PROVE IInv'
    OBVIOUS
<1>0. Shape
      BY Pointwise
<1>1. Shape'
      BY <1>0 DEF DiscardQueue, Shape
<1>2. ASSUME NEW m \in Messages PROVE MsgInv(m)'
  <2>1. Shape /\ MsgInv(m)
        BY Pointwise
  <2> QED
      BY <2>1 DEF DiscardQueue, Shape, MsgInv, Flags, Lent
<1> QED
    BY <1>1, <1>2, PointwiseNext

\* A call takes the data, and what was lent goes back, to UCX's care, or is
\* counted as lost.
LEMMA ReceiveStep ==
    ASSUME IInv, NEW m \in Messages,
           RecvData(m) \/ \E fits \in BOOLEAN : RecvDataVectored(m, fits)
    PROVE  IInv'
<1> USE DEF Idle, TakeData, Release, GiveBack, ReceiveRndv
<1>0. Shape /\ MsgInv(m)
      BY Pointwise
<1>1. CASE RecvData(m)
  <2>1. Shape' /\ OthersAlone(m)
        BY <1>1, TouchesOne DEF MessageStep
  <2>2. MsgInv(m)'
        BY <1>0, <1>1 DEF RecvData, Shape, MsgInv, Flags, Lent
  <2> QED
      BY <2>1, <2>2, OneAtATime
<1>2. ASSUME NEW fits \in BOOLEAN, RecvDataVectored(m, fits) PROVE IInv'
  <2>1. Shape' /\ OthersAlone(m)
        BY <1>2, TouchesOne DEF MessageStep
  <2>2. MsgInv(m)'
        BY <1>0, <1>2 DEF RecvDataVectored, Shape, MsgInv, Flags, Lent
  <2> QED
      BY <2>1, <2>2, OneAtATime
<1> QED
    BY <1>1, <1>2

LEMMA EndStep ==
    ASSUME IInv, NEW m \in Messages,
           RecvEnds(m) \/ RecvAbandoned(m) \/ DropMsg(m) \/ UcxReceived(m)
    PROVE  IInv'
<1> USE DEF Idle, TakeData, Release, GiveBack
<1>1. Shape /\ MsgInv(m)
      BY Pointwise
<1>2. Shape' /\ OthersAlone(m)
      BY TouchesOne DEF MessageStep
<1>3. RecvEnds(m) \/ RecvAbandoned(m) => MsgInv(m)'
      BY <1>1 DEF RecvEnds, RecvAbandoned, Shape, MsgInv, Flags, Lent
<1>4. ASSUME DropMsg(m) PROVE MsgInv(m)'
  <2>1. CASE ~data[m]
    <3>1. /\ place'[m] = "dropped" /\ UNCHANGED <<type, data, call, desc, returned, lost>>
          /\ call[m] = "none" /\ place[m] = "held"
          BY <1>1, <1>4, <2>1 DEF DropMsg, Shape
    <3> QED
        BY <1>1, <2>1, <3>1 DEF MsgInv
  <2>2. CASE data[m] /\ type[m] \in Lent
    <3>1. desc[m] = "lent" /\ lost[m] = "no" /\ returned[m] = 0
          BY <1>1, <2>2 DEF MsgInv
    <3>2. /\ place'[m] = "dropped" /\ desc'[m] = "ucx" /\ returned'[m] = 1
          /\ call[m] = "none" /\ UNCHANGED <<type, call, lost>>
          BY <1>1, <1>4, <2>2, <3>1 DEF DropMsg, Shape
    <3>3. data'[m] \in BOOLEAN /\ ~data'[m]
          BY <1>1, <1>4, <2>2, Zenon DEF DropMsg, Shape
    <3> QED
        BY <1>1, <2>2, <3>1, <3>2, <3>3 DEF MsgInv
  <2>3. CASE data[m] /\ type[m] \notin Lent
        BY <1>1, <1>4, <2>3 DEF DropMsg, Shape, MsgInv, Flags, Lent
  <2> QED
      BY <2>1, <2>2, <2>3
<1>5. UcxReceived(m) => MsgInv(m)'
      BY <1>1 DEF UcxReceived, Shape, MsgInv, Flags, Lent
<1> QED
    BY <1>2, <1>3, <1>4, <1>5, OneAtATime

LEMMA StepInv == IInv /\ [Next]_vars => IInv'
<1> SUFFICES ASSUME IInv, [Next]_vars PROVE IInv'
    OBVIOUS
<1>1. CASE UNCHANGED vars
      BY <1>1 DEF vars, IInv, TypeOK, UnsentIsBlank, OnlyLentHasDesc, CallHasTaken,
         LostIsGone, DataIsPlaced, DataIsValid, DescriptorReachable, ReturnedOnce
<1> QED
    BY <1>1, ArrivalStep, DiscardStep, ReceiveStep, EndStep DEF Next

LEMMA Invariance == Spec => []IInv
  BY InitInv, StepInv, PTL DEF Spec

-----------------------------------------------------------------------------
\* The variables of the messages keep their types.
THEOREM TypeCorrect == Spec => []TypeOK
  BY Invariance, PTL DEF IInv

\* What a message shows of UCX's memory is lent to it, whatever calls were
\* made or abandoned.
THEOREM DataAlwaysValid == Spec => []DataIsValid
  BY Invariance, PTL DEF IInv

\* Descriptors are forgotten in the four places named and nowhere else: with
\* an empty message that is flagged, by a receive into too small buffers or one
\* that UCX refuses, and with a queue that is dropped.
THEOREM ForgottenNowhereElse == Spec => []DescriptorReachable
  BY Invariance, PTL DEF IInv

\* No descriptor is given back twice, and what UCX has was given back.
THEOREM GivenBackOnce == Spec => []ReturnedOnce
  BY Invariance, PTL DEF IInv

-----------------------------------------------------------------------------
(* The refinement of DescriptorLoan.                                       *)

Shown == {m \in Messages : data[m] /\ type[m] \in Lent}

\* What becomes of the loan of one message, of what the message shows and of
\* how often the descriptor was given back.
SameLoan(m) ==
    /\ LoanOf'[m] = LoanOf[m] /\ returned'[m] = returned[m]
    /\ m \in Shown' <=> m \in Shown
LoanMoves(m) ==
    LET l == LoanOf[m] new == LoanOf'[m] IN
    \/ /\ l = "none" /\ new = "message" /\ m \in Shown' /\ returned'[m] = returned[m]
    \/ /\ l = "none" /\ new = "forgotten" /\ m \notin Shown /\ m \notin Shown'
       /\ returned'[m] = returned[m]
    \/ /\ l = "message" /\ new \in {"receive", "forgotten"} /\ m \notin Shown'
       /\ returned'[m] = returned[m]
    \/ /\ l \in {"message", "receive"} /\ new = "returned" /\ m \notin Shown'
       /\ returned'[m] = returned[m] + 1

\* A step of one message that moves its loan is a step of the loans.
LEMMA OneLoan ==
    ASSUME IInv, IInv', NEW m \in Messages, OthersAlone(m), SameLoan(m) \/ LoanMoves(m)
    PROVE  [Loans!Next]_(Loans!vars)
<1>1. /\ LoanOf' = [LoanOf EXCEPT ![m] = LoanOf'[m]]
      /\ returned' = [returned EXCEPT ![m] = returned'[m]]
      /\ LoanOf = [n \in Messages |-> LoanOf[n]]
      /\ returned \in [Messages -> 0 .. 1]
      /\ \A n \in Messages : n # m => (n \in Shown' <=> n \in Shown)
      /\ Shown \subseteq Messages /\ Shown' \subseteq Messages
  <2>1. \A n \in Messages \ {m} : LoanOf'[n] = LoanOf[n]
        BY DEF OthersAlone, LoanOf
  <2>2. /\ LoanOf = [n \in Messages |-> LoanOf[n]]
        /\ LoanOf' = [n \in Messages |-> LoanOf'[n]]
        BY Zenon DEF LoanOf
  <2>3. LoanOf' = [LoanOf EXCEPT ![m] = LoanOf'[m]]
        BY <2>1, <2>2
  <2>4. returned' = [returned EXCEPT ![m] = returned'[m]]
        BY DEF OthersAlone, IInv, TypeOK
  <2>5. ASSUME NEW n \in Messages, n # m PROVE n \in Shown' <=> n \in Shown
    <3>1. data'[n] = data[n] /\ type'[n] = type[n]
          BY <2>5 DEF OthersAlone
    <3> QED
        BY <3>1, Zenon DEF Shown
  <2>6. Shown \subseteq Messages /\ Shown' \subseteq Messages
        BY DEF Shown
  <2>7. returned \in [Messages -> 0 .. 1]
        BY DEF IInv, TypeOK
  <2> QED
      BY <2>3, <2>4, <2>5, <2>6, <2>2, <2>7
<1>2. CASE SameLoan(m)
  <2>1. LoanOf' = LoanOf /\ returned' = returned /\ Shown' = Shown
        BY <1>1, <1>2 DEF SameLoan
  <2> QED
      BY <2>1 DEF Loans!vars, Shown
<1>3. ASSUME LoanMoves(m) PROVE Loans!Next
  <2>1. CASE LoanOf'[m] = "message"
    <3>1. LoanOf[m] = "none" /\ returned' = returned /\ m \in Shown'
          BY <1>1, <1>3, <2>1 DEF LoanMoves
    <3>2. LoanOf' = [LoanOf EXCEPT ![m] = "message"] /\ Shown' = Shown \cup {m}
          BY <1>1, <2>1, <3>1
    <3>3. Loans!Lend(m)
          BY <3>1, <3>2 DEF Loans!Lend, Shown
    <3> QED
        BY <3>3 DEF Loans!Next
  <2>2. CASE LoanOf'[m] # "message"
    <3>1. Shown' = Shown \ {m}
          BY <1>1, <1>3, <2>2 DEF LoanMoves
    <3>2. CASE LoanOf'[m] = "receive"
      <4>1. LoanOf[m] = "message" /\ returned' = returned
            BY <1>1, <1>3, <3>2 DEF LoanMoves
      <4>2. LoanOf' = [LoanOf EXCEPT ![m] = "receive"]
            BY <1>1, <3>2
      <4>3. Loans!Receive(m)
            BY <3>1, <4>1, <4>2 DEF Loans!Receive, Shown
      <4> QED
          BY <4>3 DEF Loans!Next
    <3>3. CASE LoanOf'[m] = "forgotten"
      <4>1. /\ LoanOf[m] = "message" \/ (LoanOf[m] = "none" /\ m \notin Shown)
            /\ returned' = returned
            BY <1>1, <1>3, <3>3 DEF LoanMoves
      <4>2. LoanOf' = [n \in Messages |-> IF n \in {m} THEN "forgotten" ELSE LoanOf[n]]
            BY <1>1, <3>3
      <4>3. CASE LoanOf[m] = "message"
        <5>1. Loans!Forget({m})
              BY <3>1, <4>1, <4>2, <4>3 DEF Loans!Forget, Shown
        <5> QED
            BY <5>1 DEF Loans!Next
      <4>4. CASE LoanOf[m] = "none" /\ m \notin Shown
        <5>1. LoanOf' = [LoanOf EXCEPT ![m] = "forgotten"] /\ Shown' = Shown
              BY <1>1, <3>1, <3>3, <4>4
        <5>2. Loans!LendUnseen(m)
              BY <4>1, <4>4, <5>1 DEF Loans!LendUnseen, Shown
        <5> QED
            BY <5>2 DEF Loans!Next
      <4> QED
          BY <4>1, <4>3, <4>4
    <3>4. CASE LoanOf'[m] = "returned"
      <4>1. /\ LoanOf[m] \in {"message", "receive"}
            /\ returned' = [returned EXCEPT ![m] = returned[m] + 1]
            BY <1>1, <1>3, <3>4 DEF LoanMoves
      <4>2. LoanOf' = [LoanOf EXCEPT ![m] = "returned"]
            BY <1>1, <3>4
      <4>3. Loans!Return(m)
            BY <3>1, <4>1, <4>2 DEF Loans!Return, Shown
      <4> QED
          BY <4>3 DEF Loans!Next
    <3> QED
        BY <1>3, <2>2, <3>2, <3>3, <3>4 DEF LoanMoves
  <2> QED
      BY <2>1, <2>2
<1> QED
    BY <1>2, <1>3

\* A message that arrives brings a loan or none; a call, a drop and the end of
\* a receive move it forward, each from where the invariant says it is.
LEMMA ArrivalLoan ==
    ASSUME IInv, NEW m \in Messages,
           Take(m) \/ \E flag \in Flags, empty \in BOOLEAN : Arrive(m, flag, empty)
    PROVE  SameLoan(m) \/ LoanMoves(m)
<1> USE DEF SameLoan, LoanMoves, LoanOf, Shown
<1>1. Shape /\ MsgInv(m)
      BY Pointwise
<1>2. CASE Take(m)
      BY <1>2 DEF Take
<1>3. ASSUME NEW flag \in Flags, NEW empty \in BOOLEAN, Arrive(m, flag, empty)
      PROVE  SameLoan(m) \/ LoanMoves(m)
  <2>1. /\ LoanOf[m] = "none" /\ ~data[m]
        /\ desc[m] = "ucx" /\ lost[m] = "no" /\ returned[m] = 0 /\ returned'[m] = 0
        BY <1>1, <1>3 DEF Arrive, MsgInv
  <2>2. /\ data'[m] <=> ~empty
        /\ type'[m] = IF empty THEN "empty" ELSE flag
        BY <1>1, <1>3 DEF Arrive, Shape
  <2>3. CASE flag \in Lent
    <3>1. desc'[m] = "lent" /\ lost'[m] = IF empty THEN "empty" ELSE "no"
          BY <1>1, <1>3, <2>3 DEF Arrive, Shape
    <3> QED
        BY <2>1, <2>2, <2>3, <3>1 DEF Lent
  <2>4. CASE flag \notin Lent
    <3>1. desc'[m] = "ucx" /\ lost'[m] = "no"
          BY <1>3, <2>1, <2>4 DEF Arrive
    <3> QED
        BY <2>1, <2>2, <2>4, <3>1 DEF Lent
  <2> QED
      BY <2>3, <2>4
<1> QED
    BY <1>2, <1>3

LEMMA ReceiveLoan ==
    ASSUME IInv, NEW m \in Messages,
           RecvData(m) \/ \E fits \in BOOLEAN : RecvDataVectored(m, fits)
    PROVE  SameLoan(m) \/ LoanMoves(m)
<1> USE DEF SameLoan, LoanMoves, LoanOf, Shown, Idle, TakeData, Release, GiveBack, ReceiveRndv
<1>1. Shape /\ MsgInv(m)
      BY Pointwise
<1>2. CASE RecvData(m)
      BY <1>1, <1>2 DEF RecvData, Shape, MsgInv, Flags, Lent
<1>3. ASSUME NEW fits \in BOOLEAN, RecvDataVectored(m, fits)
      PROVE  SameLoan(m) \/ LoanMoves(m)
      BY <1>1, <1>3 DEF RecvDataVectored, Shape, MsgInv, Flags, Lent
<1> QED
    BY <1>2, <1>3

LEMMA EndLoan ==
    ASSUME IInv, NEW m \in Messages,
           RecvEnds(m) \/ RecvAbandoned(m) \/ DropMsg(m) \/ UcxReceived(m)
    PROVE  SameLoan(m) \/ LoanMoves(m)
<1> USE DEF SameLoan, LoanMoves, LoanOf, Shown, Idle, TakeData, Release, GiveBack
<1>1. Shape /\ MsgInv(m)
      BY Pointwise
<1>2. CASE RecvEnds(m) \/ RecvAbandoned(m)
      BY <1>2 DEF RecvEnds, RecvAbandoned
<1>3. CASE DropMsg(m)
      BY <1>1, <1>3 DEF DropMsg, Shape, MsgInv, Flags, Lent
<1>4. CASE UcxReceived(m)
      BY <1>1, <1>4 DEF UcxReceived, Shape, MsgInv, Flags, Lent
<1> QED
    BY <1>2, <1>3, <1>4

\* A queue that is dropped takes the descriptors in it along.
LEMMA DiscardLoans == IInv /\ DiscardQueue => Loans!Next
<1> SUFFICES ASSUME IInv, DiscardQueue PROVE Loans!Next
    OBVIOUS
<1>0. PICK S \in SUBSET Messages :
             S = {m \in Messages : place[m] = "queued" /\ data[m] /\ type[m] \in Lent}
      OBVIOUS
<1>1. UNCHANGED returned
      BY DEF DiscardQueue
<1>2. ASSUME NEW m \in Messages
      PROVE  /\ m \in S => LoanOf[m] = "message" /\ LoanOf'[m] = "forgotten"
             /\ m \notin S => LoanOf'[m] = LoanOf[m]
             /\ m \in Shown' <=> m \in Shown /\ m \notin S
  <2>1. Shape /\ MsgInv(m)
        BY Pointwise
  <2>2. /\ type'[m] = type[m] /\ desc'[m] = desc[m]
        /\ lost'[m] = IF m \in S THEN "discarded" ELSE lost[m]
        /\ data'[m] <=> place[m] # "queued" /\ data[m]
        BY <1>0, <2>1 DEF DiscardQueue, Shape
  <2>3. m \in S => desc[m] = "lent" /\ lost[m] = "no"
        BY <1>0, <2>1 DEF MsgInv
  <2>4. LoanOf'[m] = IF m \in S THEN "forgotten" ELSE LoanOf[m]
        BY <2>2, <1>1 DEF LoanOf
  <2>5. m \in Shown' <=> m \in Shown /\ m \notin S
        BY <1>0, <2>2 DEF Shown
  <2> QED
      BY <2>3, <2>4, <2>5 DEF LoanOf
<1>3. LoanOf' = [m \in Messages |-> IF m \in S THEN "forgotten" ELSE LoanOf[m]]
  <2>1. LoanOf' = [m \in Messages |-> LoanOf'[m]]
        BY Zenon DEF LoanOf
  <2> QED
      BY <1>2, <2>1
<1>4. Shown' = Shown \ S
  <2>1. Shown \subseteq Messages /\ Shown' \subseteq Messages
        BY DEF Shown
  <2> QED
      BY <1>0, <1>2, <2>1
<1>5. Loans!Forget(S)
      BY <1>2, <1>3, <1>4, <1>1 DEF Loans!Forget, Shown
<1> QED
    BY <1>5 DEF Loans!Next

LEMMA NextLoan == IInv /\ [Next]_vars => [Loans!Next]_(Loans!vars)
<1> SUFFICES ASSUME IInv, [Next]_vars PROVE [Loans!Next]_(Loans!vars)
    OBVIOUS
<1>1. IInv'
      BY StepInv
<1>2. CASE UNCHANGED vars
  <2>1. LoanOf' = LoanOf /\ Shown' = Shown /\ returned' = returned
        BY <1>2 DEF vars, LoanOf, Shown
  <2> QED
      BY <2>1 DEF Loans!vars, Shown
<1>3. ASSUME NEW m \in Messages, MessageStep(m) PROVE [Loans!Next]_(Loans!vars)
  <2>1. OthersAlone(m)
        BY <1>3, TouchesOne
  <2>2. SameLoan(m) \/ LoanMoves(m)
        BY <1>3, ArrivalLoan, ReceiveLoan, EndLoan DEF MessageStep
  <2> QED
      BY <1>1, <2>1, <2>2, OneLoan
<1> QED
    BY <1>2, <1>3, DiscardLoans DEF Next, MessageStep

\* The library is a proper borrower of UCX's descriptors: in any interleaving
\* of arrivals, calls, abandoned calls and drops, loans only move forward.
THEOREM Refinement == Spec => ImplementsLoan
<1>1. Init => Loans!Init
      BY DEF Init, Loans!Init, LoanOf, Lent
<1> QED
    BY <1>1, Invariance, NextLoan, PTL DEF Spec, ImplementsLoan, Loans!Spec
=============================================================================
