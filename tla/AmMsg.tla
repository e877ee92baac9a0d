-------------------------------- MODULE AmMsg --------------------------------
(***************************************************************************)
(* The data of active messages (src/ucp/endpoint/am.rs).  A small message  *)
(* is copied when it arrives.  Of the others UCX lends a descriptor: the   *)
(* data itself, or the announcement of a rendezvous.  It is to be given    *)
(* back once, by ucp_am_data_release or by receiving what it announces,    *)
(* and there are several ways for a message to come to its end.            *)
(*                                                                         *)
(* In which order the messages of a stream are taken is a question for     *)
(* AmStream; here its queue is a set.                                      *)
(***************************************************************************)
EXTENDS Naturals

CONSTANT Messages

\* AmDataType, which is what UCX's flags say of a message: DATA, RNDV or
\* neither.  With the first two comes a descriptor.
Flags == {"eager", "data", "rndv"}
Lent == {"data", "rndv"}

VARIABLES
    place,      \* where each message is: unsent, queued, held, dropped
    type,       \* its AmDataType, "empty" for a message without data
    data,       \* RawMsg::data is Some
    call,       \* the rendezvous receive of a call that waits for it
    desc,       \* the descriptor: with UCX, lent to the library, receiving
    returned,   \* history: how often it was given back
    lost        \* history: why nobody will ever give it back

vars == <<place, type, data, call, desc, returned, lost>>

\* The invariant that the variables range over the values listed above.
TypeOK ==
    /\ place \in [Messages -> {"unsent", "queued", "held", "dropped"}]
    /\ type \in [Messages -> Flags \cup {"empty"}]
    /\ data \in [Messages -> BOOLEAN]
    /\ call \in [Messages -> {"none", "waits"}]
    /\ desc \in [Messages -> {"ucx", "lent", "receiving"}]
    /\ returned \in [Messages -> 0 .. 1]
    /\ lost \in [Messages -> {"no", "empty", "truncated", "refused", "discarded"}]

Init ==
    /\ place = [m \in Messages |-> "unsent"]
    /\ type = [m \in Messages |-> "empty"]
    /\ data = [m \in Messages |-> FALSE]
    /\ call = [m \in Messages |-> "none"]
    /\ desc = [m \in Messages |-> "ucx"]
    /\ returned = [m \in Messages |-> 0]
    /\ lost = [m \in Messages |-> "no"]

-----------------------------------------------------------------------------
(* Arrival, the queue, and the end of the stream.                          *)

\* RawMsg::from_raw, and what the callback tells UCX.  from_raw looks whether
\* there is data before it looks at the flags; the callback looks at the flags
\* only, and INPROGRESS keeps the descriptor, of a message without data too.
Arrive(m, flag, empty) ==
    /\ place[m] = "unsent"
    /\ place' = [place EXCEPT ![m] = "queued"]
    /\ type' = [type EXCEPT ![m] = IF empty THEN "empty" ELSE flag]
    /\ data' = [data EXCEPT ![m] = ~empty]
    /\ IF flag \in Lent
       THEN /\ desc' = [desc EXCEPT ![m] = "lent"]
            /\ lost' = [lost EXCEPT ![m] = IF empty THEN "empty" ELSE "no"]
       ELSE UNCHANGED <<desc, lost>>
    /\ UNCHANGED <<call, returned>>

\* wait_msg makes an AmMsg of it.
Take(m) ==
    /\ place[m] = "queued"
    /\ place' = [place EXCEPT ![m] = "held"]
    /\ UNCHANGED <<type, data, call, desc, returned, lost>>

\* The last clone and the map let the stream go: the queue is dropped, and a
\* RawMsg, unlike an AmMsg, gives nothing back.
DiscardQueue ==
    LET queued == {m \in Messages : place[m] = "queued"} IN
    /\ queued # {}
    /\ place' = [m \in Messages |-> IF m \in queued THEN "dropped" ELSE place[m]]
    /\ data' = [m \in Messages |-> m \notin queued /\ data[m]]
    /\ lost' = [m \in Messages |->
                   IF m \in queued /\ data[m] /\ type[m] \in Lent
                   THEN "discarded" ELSE lost[m]]
    /\ UNCHANGED <<type, call, desc, returned>>

-----------------------------------------------------------------------------
(* AmMsg.                                                                  *)

\* ucp_am_data_release, and the end of a receive: UCX has its own back.
GiveBack(m) ==
    /\ desc' = [desc EXCEPT ![m] = "ucx"]
    /\ returned' = [returned EXCEPT ![m] = @ + 1]

\* AmMsg::drop_msg, of data that has been taken out of the message.
ReleaseRndvNot(m) ==
    IF type[m] = "data" THEN GiveBack(m) ELSE UNCHANGED <<desc, returned>>
Release(m) ==
    IF type[m] \in Lent THEN GiveBack(m) ELSE UNCHANGED <<desc, returned>>

\* Option::take
TakeDataNot(m) == UNCHANGED data
TakeData(m) == data' = [data EXCEPT ![m] = FALSE]

Idle(m) == place[m] = "held" /\ call[m] = "none"

\* ucp_am_recv_data_nbx: over at once, begun, or refused.  In the last case the
\* library forgets the descriptor, and the model does not trust UCX with it.
ReceiveRndv(m) ==
    \/ GiveBack(m) /\ UNCHANGED <<call, lost>>
    \/ /\ desc' = [desc EXCEPT ![m] = "receiving"]
       /\ call' = [call EXCEPT ![m] = "waits"]
       /\ UNCHANGED <<returned, lost>>
    \/ /\ lost' = [lost EXCEPT ![m] = "refused"]
       /\ UNCHANGED <<desc, call, returned>>

\* recv_data: a buffer of the right size is made for the data.
RecvData(m) ==
    /\ Idle(m) /\ data[m]
    /\ TakeData(m)
    /\ IF type[m] = "rndv" THEN ReceiveRndv(m)
       ELSE Release(m) /\ UNCHANGED <<call, lost>>
    /\ UNCHANGED <<place, type>>

\* recv_data_vectored and recv_data_single: the buffers may be too small,
\* which is found out here for what has arrived, by UCX for a rendezvous.
\* The early return leaves the descriptor of a Data message behind.
RecvDataVectored(m, fits) ==
    /\ Idle(m) /\ data[m]
    /\ TakeData(m)
    /\ CASE type[m] = "rndv" -> ReceiveRndv(m)
         [] type[m] # "rndv" /\ fits -> Release(m) /\ UNCHANGED <<call, lost>>
         [] OTHER -> /\ lost' = [lost EXCEPT ![m] = IF type[m] = "data"
                                                    THEN "truncated" ELSE @]
                     /\ UNCHANGED <<call, desc, returned>>
    /\ UNCHANGED <<place, type>>

\* The RequestHandle of the receive is polled to its end.
RecvEnds(m) ==
    /\ call[m] = "waits" /\ desc[m] = "ucx"
    /\ call' = [call EXCEPT ![m] = "none"]
    /\ UNCHANGED <<place, type, data, desc, returned, lost>>

\* The future is dropped while UCX receives, and UCX goes on.  The data does
\* not go back into the message.
RecvAbandonedRestores(m) ==
    /\ call[m] = "waits"
    /\ call' = [call EXCEPT ![m] = "none"]
    /\ data' = [data EXCEPT ![m] = TRUE]
    /\ UNCHANGED <<place, type, desc, returned, lost>>
RecvAbandoned(m) ==
    /\ call[m] = "waits"
    /\ call' = [call EXCEPT ![m] = "none"]
    /\ UNCHANGED <<place, type, data, desc, returned, lost>>

\* Drop of an AmMsg: what was not received is released.
DropMsg(m) ==
    /\ Idle(m)
    /\ place' = [place EXCEPT ![m] = "dropped"]
    /\ IF data[m] THEN TakeData(m) /\ Release(m)
       ELSE UNCHANGED <<data, desc, returned>>
    /\ UNCHANGED <<type, call, lost>>

\* UCX ends a receive, well or not, and is done with the descriptor.
UcxReceived(m) ==
    /\ desc[m] = "receiving"
    /\ GiveBack(m)
    /\ UNCHANGED <<place, type, data, call, lost>>

-----------------------------------------------------------------------------
Next ==
    \/ DiscardQueue
    \/ \E m \in Messages :
          \/ \E flag \in Flags, empty \in BOOLEAN : Arrive(m, flag, empty)
          \/ Take(m) \/ RecvData(m)
          \/ \E fits \in BOOLEAN : RecvDataVectored(m, fits)
          \/ RecvEnds(m) \/ RecvAbandoned(m) \/ DropMsg(m) \/ UcxReceived(m)

Spec == Init /\ [][Next]_vars

-----------------------------------------------------------------------------
\* A message that says it has data can be read: get_data() returns a slice
\* of UCX's memory, which must not have been given back, nor be the subject
\* of a receive that an abandoned call left running.
DataIsValid ==
    \A m \in Messages : data[m] /\ type[m] \in Lent => desc[m] = "lent"

\* A descriptor that the library holds can still be given back: it is in a
\* message that is queued or held.  It is forgotten in four places only: an
\* empty message that UCX flags as Data or Rndv, the early return of
\* recv_data_vectored, a receive that UCX refuses, and a queue that is dropped.
DescriptorReachable ==
    \A m \in Messages :
        desc[m] = "lent" /\ lost[m] = "no" =>
            data[m] /\ place[m] \in {"queued", "held"}

\* A descriptor is given back once, whoever does it: drop_msg on some path,
\* or UCX at the end of a receive; and what is lost was never given back.
ReturnedOnce ==
    \A m \in Messages :
        returned[m] = IF type[m] \in Lent /\ desc[m] = "ucx" THEN 1 ELSE 0

\* Each descriptor as UCX sees it: lent with the message that was sent, used
\* by that message or by a receive, given back, or forgotten.
LoanOf == [m \in Messages |->
              IF lost[m] # "no" THEN "forgotten"
              ELSE IF desc[m] = "lent" THEN "message"
              ELSE IF desc[m] = "receiving" THEN "receive"
              ELSE IF returned[m] > 0 THEN "returned" ELSE "none"]

Loans == INSTANCE DescriptorLoan WITH
             loan <- LoanOf, shown <- {m \in Messages : data[m] /\ type[m] \in Lent}

\* Whatever is called, abandoned or dropped in whatever order, the library is
\* a proper borrower: no descriptor is given back twice, or shown or received
\* after it was given back or forgotten; and one that its message no longer
\* shows was given back, or is being received, or is forgotten for good.
ImplementsLoan == Loans!Spec
=============================================================================
