------------------------------ MODULE Endpoint ------------------------------
(***************************************************************************)
(* The life of one UCP endpoint (src/ucp/endpoint/mod.rs): the Rust value  *)
(* `Endpoint`, which may be cloned, the shared `EndpointInner` behind it,  *)
(* the reference to EndpointInner that UCX keeps as the argument of its    *)
(* error handler, and the handle `ucp_ep_h` on the side of UCX.            *)
(*                                                                         *)
(* Every task owns at most one clone and runs at most one call on it, so   *)
(* calls of different tasks interleave at every await.  A `&self` method   *)
(* borrows its clone: the clone is not dropped while the call runs, but a  *)
(* call may be abandoned at an await by dropping its future.               *)
(***************************************************************************)
EXTENDS Integers

CONSTANTS Tasks,     \* the tasks that may own a clone of the endpoint
          Faults     \* the error statuses UCX may report, ConnReset among them

ConnReset == "UCS_ERR_CONNECTION_RESET"
Ok == "UCS_OK"

ASSUME FaultsAssumption == ConnReset \in Faults /\ Ok \notin Faults

VARIABLES
    phase,    \* "new", then "live" or "failed": the outcome of Endpoint::create
    held,     \* the tasks that own an Endpoint value: the strong references
    closed,   \* EndpointInner::closed
    status,   \* EndpointInner::status
    weak,     \* weak references to the EndpointInner that UCX owns
    ep,       \* the handle as UCX sees it
    call,     \* the call each task has in flight
    req,      \* the UCX request that call waits for
    unseen,   \* history: a close UCX accepted ended without closed()
    reused    \* history: which calls passed the handle to UCX after closed()

vars == <<phase, held, closed, status, weak, ep, call, req, unseen, reused>>

Statuses == Faults \cup {Ok}
ReqStates == {"none", "pending", "ok", "error"}

\* The calls that pass their handle to UCX.
Uses == {"op", "close", "drop", "unpack", "print"}

\* The invariant that the variables range over the values listed above.
TypeOK ==
    /\ phase \in {"new", "live", "failed"}
    /\ held \in SUBSET Tasks
    /\ closed \in BOOLEAN
    /\ status \in Statuses
    /\ weak \in {0, 1}
    /\ ep \in {"none", "open", "closing", "released"}
    /\ call \in [Tasks -> {"none", "op", "close"}]
    /\ req \in [Tasks -> ReqStates]
    /\ unseen \in BOOLEAN
    /\ reused \in SUBSET Uses

Init ==
    /\ phase = "new" /\ held = {} /\ closed = FALSE /\ status = Ok
    /\ weak = 0 /\ ep = "none"
    /\ call = [t \in Tasks |-> "none"] /\ req = [t \in Tasks |-> "none"]
    /\ unseen = FALSE /\ reused = {}

-----------------------------------------------------------------------------
(* EndpointInner.                                                          *)

\* EndpointInner::check: the status decides whether the handle may be used.
CheckAlways == TRUE
Check == status = Ok

\* EndpointInner::set_status: an OK status never overwrites anything.
SetStatus(s) == status' = IF s # Ok THEN s ELSE status

\* EndpointInner::closed: the first caller releases the reference of UCX.
Closed ==
    IF closed THEN UNCHANGED <<closed, status, weak>>
    ELSE /\ closed' = TRUE
         /\ weak' = weak - 1
         /\ SetStatus(ConnReset)

-----------------------------------------------------------------------------
(* UCX, as the code uses it.  ucp_ep_close_nb answers NULL (done), a       *)
(* request to wait for, or an error; an error, too, takes the handle away  *)
(* from the caller, which is why Drop calls closed() whatever it answers.  *)

InFlight(t) == call[t] # "none"
CloseWaits(t) == call[t] = "close" /\ req[t] = "pending"

\* A call hands the endpoint handle to UCX.
PassHandle(use) == reused' = IF closed THEN reused \cup {use} ELSE reused

CloseDone    == ep' = "released"
CloseStarted == ep' = IF ep = "released" THEN ep ELSE "closing"
CloseRefused == ep' = IF ep = "open" THEN "released" ELSE ep

CloseNb == CloseDone \/ CloseStarted \/ CloseRefused

StartCall(t, kind) ==
    /\ call' = [call EXCEPT ![t] = kind]
    /\ req' = [req EXCEPT ![t] = "pending"]

EndCall(t) ==
    /\ call' = [call EXCEPT ![t] = "none"]
    /\ req' = [req EXCEPT ![t] = "none"]

-----------------------------------------------------------------------------
(* Endpoint::create, Clone and Drop.                                       *)

CreateOk(t) ==
    /\ phase = "new"
    /\ phase' = "live" /\ held' = {t} /\ weak' = 1 /\ ep' = "open"
    /\ UNCHANGED <<closed, status, call, req, unseen, reused>>

\* ucp_ep_create failed: the weak reference made for UCX is taken back and
\* the EndpointInner is dropped with it.
CreateFailsKeepsWeak ==
    /\ phase = "new"
    /\ phase' = "failed" /\ weak' = 1
    /\ UNCHANGED <<held, closed, status, ep, call, req, unseen, reused>>
CreateFails ==
    /\ phase = "new"
    /\ phase' = "failed" /\ weak' = 0
    /\ UNCHANGED <<held, closed, status, ep, call, req, unseen, reused>>

Clone(t, u) ==
    /\ t \in held /\ u \notin held
    /\ held' = held \cup {u}
    /\ UNCHANGED <<phase, closed, status, weak, ep, call, req, unseen, reused>>

\* Drop of any clone, the last one or not: force the endpoint closed unless
\* is_closed().  The answer is logged, a request in it is not kept.
DropOnlyHealthy(t) ==
    /\ t \in held /\ ~InFlight(t)
    /\ held' = held \ {t}
    /\ IF closed \/ ~Check THEN UNCHANGED <<closed, status, weak, ep, reused>>
       ELSE PassHandle("drop") /\ CloseNb /\ Closed
    /\ UNCHANGED <<phase, call, req, unseen>>
Drop(t) ==
    /\ t \in held /\ ~InFlight(t)
    /\ held' = held \ {t}
    /\ IF closed THEN UNCHANGED <<closed, status, weak, ep, reused>>
       ELSE PassHandle("drop") /\ CloseNb /\ Closed
    /\ UNCHANGED <<phase, call, req, unseen>>

-----------------------------------------------------------------------------
(* An operation on the endpoint: flush here, and send, put, get and the    *)
(* others alike.  Without a request it is over within the call.            *)

OpBegin(t) ==
    /\ t \in held /\ ~InFlight(t)
    /\ Check
    /\ PassHandle("op")
    /\ StartCall(t, "op") \/ UNCHANGED <<call, req>>
    /\ UNCHANGED <<phase, held, closed, status, weak, ep, unseen>>

\* The RequestHandle is polled to its end, or dropped early with the future.
OpEnd(t) ==
    /\ call[t] = "op"
    /\ EndCall(t)
    /\ UNCHANGED <<phase, held, closed, status, weak, ep, unseen, reused>>

\* RKey::unpack takes the handle out of the endpoint without get_handle():
\* it looks neither at the status nor at the flag.
Unpack(t) ==
    /\ t \in held /\ ~InFlight(t)
    /\ PassHandle("unpack")
    /\ UNCHANGED <<phase, held, closed, status, weak, ep, call, req, unseen>>

\* Endpoint::print_to_stderr looks at the flag only.
PrintInfo(t) ==
    /\ t \in held /\ ~InFlight(t)
    /\ ~closed
    /\ PassHandle("print")
    /\ UNCHANGED <<phase, held, closed, status, weak, ep, call, req, unseen>>

-----------------------------------------------------------------------------
(* Endpoint::close, up to its first await and from there on.               *)

\* A forced close of a closed endpoint returns Ok(()), a graceful close of
\* an endpoint with an error status returns that error: neither is a step.
CloseBegin(t, force) ==
    /\ t \in held /\ ~InFlight(t)
    /\ IF force THEN ~closed ELSE Check
    /\ PassHandle("close")
    /\ \/ CloseDone /\ Closed /\ UNCHANGED <<call, req, unseen>>
       \/ /\ CloseStarted /\ StartCall(t, "close")
          /\ UNCHANGED <<closed, status, weak, unseen>>
       \/ /\ CloseRefused
          /\ unseen' = TRUE
          /\ UNCHANGED <<closed, status, weak, call, req>>
    /\ UNCHANGED <<phase, held>>

\* The loop sees the request completed, frees it and records success only.
CloseSeesOnlyOk(t) ==
    /\ call[t] = "close" /\ req[t] = "ok"
    /\ EndCall(t)
    /\ Closed
    /\ UNCHANGED <<phase, held, ep, unseen, reused>>
CloseSeesForgets(t) ==
    /\ call[t] = "close" /\ req[t] \in {"ok", "error"}
    /\ EndCall(t)
    /\ unseen' = (unseen \/ req[t] # "ok")
    /\ UNCHANGED <<phase, held, closed, status, weak, ep, reused>>
CloseSees(t) ==
    /\ call[t] = "close" /\ req[t] \in {"ok", "error"}
    /\ EndCall(t)
    /\ IF req[t] = "ok" THEN Closed /\ UNCHANGED unseen
       ELSE unseen' = TRUE /\ UNCHANGED <<closed, status, weak>>
    /\ UNCHANGED <<phase, held, ep, reused>>

\* The future of close() is dropped at its yield point.
CloseAbandoned(t) ==
    /\ call[t] = "close"
    /\ EndCall(t)
    /\ unseen' = TRUE
    /\ UNCHANGED <<phase, held, closed, status, weak, ep, reused>>

-----------------------------------------------------------------------------
(* Steps of UCX, taken inside Worker::progress.                            *)

\* The error handler: UCX reports a failure of an endpoint the program has
\* not closed.  `Weak::upgrade` succeeds while some clone is held.
ErrHandlerForgetsLess(s) ==
    /\ ep = "open"
    /\ IF held # {} THEN SetStatus(s) /\ weak' = weak - 1 /\ UNCHANGED ep
       ELSE CloseNb /\ weak' = weak - 1 /\ UNCHANGED status
    /\ UNCHANGED <<phase, held, closed, call, req, unseen, reused>>
ErrHandler(s) ==
    /\ ep = "open"
    /\ IF held # {} THEN SetStatus(s) /\ UNCHANGED <<weak, ep>>
       ELSE CloseNb /\ weak' = weak - 1 /\ UNCHANGED status
    /\ UNCHANGED <<phase, held, closed, call, req, unseen, reused>>

\* A send, receive, put, get or flush completes.
UcxCompletesOp(t, r) ==
    /\ call[t] = "op" /\ req[t] = "pending"
    /\ req' = [req EXCEPT ![t] = r]
    /\ UNCHANGED <<phase, held, closed, status, weak, ep, call, unseen, reused>>

\* A close completes: the handle is gone, operations still in flight are
\* cancelled, and every close() that waits gets an answer.
UcxCompletesClose ==
    /\ ep = "closing" \/ \E t \in Tasks : CloseWaits(t)
    /\ ep' = "released"
    /\ \E answer \in [Tasks -> {"ok", "error"}] :
          req' = [t \in Tasks |-> IF req[t] # "pending" THEN req[t]
                                  ELSE IF call[t] = "close" THEN answer[t]
                                  ELSE "error"]
    /\ UNCHANGED <<phase, held, closed, status, weak, call, unseen, reused>>

-----------------------------------------------------------------------------
TaskStep(t) ==
    \/ CreateOk(t) \/ Drop(t) \/ OpBegin(t) \/ OpEnd(t)
    \/ Unpack(t) \/ PrintInfo(t)
    \/ CloseSees(t) \/ CloseAbandoned(t)
    \/ \E u \in Tasks : Clone(t, u)
    \/ \E force \in BOOLEAN : CloseBegin(t, force)

UcxStep ==
    \/ \E s \in Faults : ErrHandler(s)
    \/ \E t \in Tasks, r \in {"ok", "error"} : UcxCompletesOp(t, r)
    \/ UcxCompletesClose

Next == CreateFails \/ UcxStep \/ \E t \in Tasks : TaskStep(t)

\* The worker's polling task keeps calling progress(), and the executor
\* polls a close() that has yielded again.
Fairness ==
    /\ WF_vars(UcxCompletesClose)
    /\ \A t \in Tasks : WF_vars(CloseSees(t))

Spec == Init /\ [][Next]_vars
FairSpec == Spec /\ Fairness

-----------------------------------------------------------------------------
(* Safety.                                                                 *)

\* While UCX may call the error handler, the argument it passes is live:
\* the weak reference made by create() has not been given back, and some
\* clone keeps the EndpointInner itself alive, so the handler never gets to
\* its "no strong rc" branch.
HandlerArgValid == ep = "open" => weak = 1 /\ held # {}

\* The weak reference lent to UCX is given back exactly once, by the first
\* of all closes and drops, and is never left behind (a leak) nor returned
\* twice (a dangling pointer): "ucp endpoint keep a weak reference to inner,
\* this reference will drop when endpoint is closed".
WeakHeldUntilClosed == weak = IF phase = "live" /\ ~closed THEN 1 ELSE 0

\* Of all the calls that hand the handle to UCX only RKey::unpack does so
\* once closed() has run, whichever clone ran it: operations and graceful
\* closes of the other clones find out through the status, forced closes,
\* drops and print_to_stderr through the flag, and unpack asks neither.
OnlyUnpackOnceClosed == reused \subseteq {"unpack"}

\* is_closed() and get_status() agree: whatever the handler reported before
\* the close, a closed endpoint reports a connection reset ever after.
ClosedMeansReset == closed => status = ConnReset

\* If every accepted close was awaited and succeeded, is_closed() is right
\* as soon as no close() is between UCX's answer and its own next poll.
ClosedIfSeen ==
    ep = "released" /\ ~unseen /\ (\A t \in Tasks : call[t] # "close")
        => closed

\* The doc of is_closed(): "Whether the endpoint is closed."  UCX may have
\* released the handle although no close() is under way to say so.
IsClosedExact ==
    ep = "released" /\ (\A t \in Tasks : call[t] # "close") => closed

Contract == INSTANCE EndpointContract WITH
    state <- CASE phase = "new" -> "new"
               [] phase = "failed" -> "rejected"
               [] phase = "live" /\ closed -> "closed"
               [] phase = "live" /\ ~closed /\ status # Ok -> "failed"
               [] OTHER -> "open",
    error <- status, holders <- held, argument <- weak > 0

\* The endpoint keeps its contract: closed once and for all by the first
\* close or drop, errors never taken back, and the argument of the handler
\* released by the very step that closes.
ImplementsContract == Contract!Spec

-----------------------------------------------------------------------------
(* Liveness, under Fairness.                                               *)

\* When the last clone is gone the handle is released in the end: dropping
\* leaks no UCX endpoint, not even one that had failed before.
DroppedIsReleased == (phase = "live" /\ held = {}) ~> ep = "released"

\* A close() that waits gets its answer, even when another task closes or
\* drops its clone meanwhile.
CloseReturns == \A t \in Tasks : call[t] = "close" ~> call[t] = "none"
=============================================================================
