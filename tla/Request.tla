------------------------------ MODULE Request -------------------------------
(***************************************************************************)
(* The futures of the library (RequestHandle in src/ucp/endpoint/mod.rs)   *)
(* and the UCX requests behind them.  UCX takes a request from a pool of   *)
(* its own; the Request at its head, an AtomicWaker, is initialised when   *)
(* the memory is first used and never again, so a waker left there by one  *)
(* call is found by the next one that is given the same memory.            *)
(*                                                                         *)
(* A poll takes several steps here, and UCX may complete a request between *)
(* any two of them.  On the one thread the library runs on that cannot     *)
(* happen; the double check in poll() is written for a callback that is    *)
(* concurrent, and it is this stronger claim that the module examines.     *)
(***************************************************************************)
CONSTANTS Tasks,     \* the tasks that call the library, one call at a time
          Slots,     \* the request memory of UCX's pool: bounds its requests
          NoSlot, NoTask

ASSUME NobodyAssumption == NoSlot \notin Slots /\ NoTask \notin Tasks

\* How a call learns that its request has ended: by poll_normal or poll_tag,
\* which return the status; by poll_stream or poll_recv, which do not; or by
\* the loop of Endpoint::close, which has no waker and no RequestHandle.
Kinds == {"checked", "unchecked", "close"}
Outcomes == {"ok", "error"}

VARIABLES
    slot,       \* free, active, ok, error, or released: freed while active
    waker,      \* Request::waker in each slot
    handle,     \* the request each task's call waits for
    kind,       \* the kind of that call
    pc,         \* where the call is in its poll
    ready,      \* the executor is going to poll the task
    answer,     \* what the last call of each task returned
    truth,      \* history: how the operation of that call really ended
    forgotten   \* history: close requests nobody will ever free

vars == <<slot, waker, handle, kind, pc, ready, answer, truth, forgotten>>

\* The invariant that the variables range over the values listed above.
TypeOK ==
    /\ slot \in [Slots -> {"free", "active", "released"} \cup Outcomes]
    /\ waker \in [Slots -> Tasks \cup {NoTask}]
    /\ handle \in [Tasks -> Slots \cup {NoSlot}]
    /\ kind \in [Tasks -> Kinds]
    /\ pc \in [Tasks -> {"idle", "check", "register", "recheck", "parked"}]
    /\ ready \in [Tasks -> BOOLEAN]
    /\ answer \in [Tasks -> {"none"} \cup Outcomes]
    /\ truth \in [Tasks -> {"none"} \cup Outcomes]
    /\ forgotten \in SUBSET Slots

Init ==
    /\ slot = [s \in Slots |-> "free"]
    /\ waker = [s \in Slots |-> NoTask]        \* Request::init
    /\ handle = [t \in Tasks |-> NoSlot]
    /\ kind \in [Tasks -> {"checked"}]
    /\ pc = [t \in Tasks |-> "idle"]
    /\ ready = [t \in Tasks |-> FALSE]
    /\ answer = [t \in Tasks |-> "none"]
    /\ truth = [t \in Tasks |-> "none"]
    /\ forgotten = {}

Ended(s) == slot[s] \in Outcomes

\* A completion callback was given with the request and is still in force:
\* close gives none, and ucp_request_free takes it back.
HasCallback(s) == \E t \in Tasks : handle[t] = s /\ kind[t] # "close"

-----------------------------------------------------------------------------
(* Starting a call.                                                        *)

\* UCX completed the operation at once (NULL), or refused it.
Immediate(t, k, r) ==
    /\ pc[t] = "idle"
    /\ kind' = [kind EXCEPT ![t] = k]
    /\ answer' = [answer EXCEPT ![t] = r]
    /\ truth' = [truth EXCEPT ![t] = r]
    /\ UNCHANGED <<slot, waker, handle, pc, ready, forgotten>>

\* UCX answered with a request; its waker is what the last user left there.
Post(t, s, k) ==
    /\ pc[t] = "idle" /\ slot[s] = "free"
    /\ slot' = [slot EXCEPT ![s] = "active"]
    /\ handle' = [handle EXCEPT ![t] = s]
    /\ kind' = [kind EXCEPT ![t] = k]
    /\ pc' = [pc EXCEPT ![t] = "check"]
    /\ answer' = [answer EXCEPT ![t] = "none"]
    /\ truth' = [truth EXCEPT ![t] = "none"]
    /\ UNCHANGED <<waker, ready, forgotten>>

\* The three-way answer of UCX: NULL, a pointer or an error.
Issue(t, k, answers) ==
    \/ \E r \in answers : Immediate(t, k, r)
    \/ \E s \in Slots : Post(t, s, k)

\* Sends, put, get and flush; a tag receive, which UCX never answers with
\* NULL; the receives whose poll function drops the status; and close.
StartSend(t) == Issue(t, "checked", Outcomes)
StartTagRecv(t) == Issue(t, "checked", {"error"})
StartStreamRecv(t) == Issue(t, "unchecked", Outcomes)
StartAmRecv(t) == Issue(t, "unchecked", Outcomes)
StartClose(t) == Issue(t, "close", Outcomes)

\* Drop of an Endpoint, and its error handler, start a close and keep no
\* track of the request they are given.
ForgetClose(s) ==
    /\ slot[s] = "free"
    /\ slot' = [slot EXCEPT ![s] = "active"]
    /\ forgotten' = forgotten \cup {s}
    /\ UNCHANGED <<waker, handle, kind, pc, ready, answer, truth>>

-----------------------------------------------------------------------------
(* RequestHandle::poll, and the loop of close.                             *)

\* The request has ended: the call reports it and the handle is dropped,
\* which frees the request.  poll_stream and poll_recv report success
\* whatever the status.
FinishKeeps(t) ==
    /\ pc' = [pc EXCEPT ![t] = "idle"]
    /\ handle' = [handle EXCEPT ![t] = NoSlot]
    /\ truth' = [truth EXCEPT ![t] = slot[handle[t]]]
    /\ answer' = [answer EXCEPT ![t] =
                     IF kind[t] = "unchecked" THEN "ok" ELSE slot[handle[t]]]
    /\ UNCHANGED <<slot, waker, kind, ready, forgotten>>
FinishTrusts(t) ==
    /\ pc' = [pc EXCEPT ![t] = "idle"]
    /\ handle' = [handle EXCEPT ![t] = NoSlot]
    /\ slot' = [slot EXCEPT ![handle[t]] = "free"]
    /\ truth' = [truth EXCEPT ![t] = slot[handle[t]]]
    /\ answer' = [answer EXCEPT ![t] = "ok"]
    /\ UNCHANGED <<waker, kind, ready, forgotten>>
Finish(t) ==
    /\ pc' = [pc EXCEPT ![t] = "idle"]
    /\ handle' = [handle EXCEPT ![t] = NoSlot]
    /\ slot' = [slot EXCEPT ![handle[t]] = "free"]
    /\ truth' = [truth EXCEPT ![t] = slot[handle[t]]]
    /\ answer' = [answer EXCEPT ![t] =
                     IF kind[t] = "unchecked" THEN "ok" ELSE slot[handle[t]]]
    /\ UNCHANGED <<waker, kind, ready, forgotten>>

Goto(t, label) == pc' = [pc EXCEPT ![t] = label]

\* The first poll_fn of a poll, and the only one in a turn of close's loop:
\* yield_now wakes the task itself before it returns Pending.
CheckParks(t) ==
    /\ pc[t] = "check"
    /\ IF Ended(handle[t]) THEN Finish(t)
       ELSE /\ Goto(t, IF kind[t] = "close" THEN "parked" ELSE "register")
            /\ UNCHANGED <<slot, waker, handle, kind, ready, answer, truth,
                           forgotten>>
Check(t) ==
    /\ pc[t] = "check"
    /\ IF Ended(handle[t]) THEN Finish(t)
       ELSE /\ IF kind[t] = "close"
                 THEN Goto(t, "parked") /\ ready' = [ready EXCEPT ![t] = TRUE]
                 ELSE Goto(t, "register") /\ UNCHANGED ready
            /\ UNCHANGED <<slot, waker, handle, kind, answer, truth, forgotten>>

\* AtomicWaker::register
Register(t) ==
    /\ pc[t] = "register" /\ Goto(t, "recheck")
    /\ waker' = [waker EXCEPT ![handle[t]] = t]
    /\ UNCHANGED <<slot, handle, kind, ready, answer, truth, forgotten>>

\* The second poll_fn, for a request that ended before the registration.
RecheckSkipped(t) ==
    /\ pc[t] = "recheck" /\ Goto(t, "parked")
    /\ UNCHANGED <<slot, waker, handle, kind, ready, answer, truth, forgotten>>
Recheck(t) ==
    /\ pc[t] = "recheck"
    /\ IF Ended(handle[t]) THEN Finish(t)
       ELSE /\ Goto(t, "parked")
            /\ UNCHANGED <<slot, waker, handle, kind, ready, answer, truth,
                           forgotten>>

\* The executor polls a woken task.  A call may also be polled when nothing
\* woke it, as one branch of a join or a select.
Poll(t) ==
    /\ pc[t] = "parked" /\ Goto(t, "check")
    /\ ready' = [ready EXCEPT ![t] = FALSE]
    /\ UNCHANGED <<slot, waker, handle, kind, answer, truth, forgotten>>

\* The future is dropped while it waits.  RequestHandle::drop frees the
\* request, ended or not; close() has no handle and nothing is freed.
AbandonKeeps(t) ==
    /\ pc[t] = "parked" /\ Goto(t, "idle")
    /\ handle' = [handle EXCEPT ![t] = NoSlot]
    /\ ready' = [ready EXCEPT ![t] = FALSE]
    /\ forgotten' = IF kind[t] = "close" THEN forgotten \cup {handle[t]}
                    ELSE forgotten
    /\ UNCHANGED <<slot, waker, kind, answer, truth>>
Abandon(t) ==
    /\ pc[t] = "parked" /\ Goto(t, "idle")
    /\ handle' = [handle EXCEPT ![t] = NoSlot]
    /\ ready' = [ready EXCEPT ![t] = FALSE]
    /\ IF kind[t] = "close"
         THEN forgotten' = forgotten \cup {handle[t]} /\ UNCHANGED slot
         ELSE /\ slot' = [slot EXCEPT ![handle[t]] =
                             IF @ = "active" THEN "released" ELSE "free"]
              /\ UNCHANGED forgotten
    /\ UNCHANGED <<waker, kind, answer, truth>>

-----------------------------------------------------------------------------
(* Steps of UCX, taken inside Worker::progress.                            *)

\* AtomicWaker::wake, called by each of the completion callbacks: takes the
\* waker, if there is one, and has its task polled.
Wake(s) ==
    /\ waker' = [waker EXCEPT ![s] = NoTask]
    /\ ready' = IF waker[s] = NoTask THEN ready
                ELSE [ready EXCEPT ![waker[s]] = TRUE]

\* A request ends, with success or with an error (a cancellation is one).
Complete(s, r) ==
    /\ slot[s] = "active"
    /\ slot' = [slot EXCEPT ![s] = r]
    /\ IF HasCallback(s) THEN Wake(s) ELSE UNCHANGED <<waker, ready>>
    /\ UNCHANGED <<handle, kind, pc, answer, truth, forgotten>>

\* The request was freed before it ended: it goes back to the pool.
Reclaim(s) ==
    /\ slot[s] = "released"
    /\ slot' = [slot EXCEPT ![s] = "free"]
    /\ UNCHANGED <<waker, handle, kind, pc, ready, answer, truth, forgotten>>

-----------------------------------------------------------------------------
CallStep(t) == Check(t) \/ Register(t) \/ Recheck(t) \/ Poll(t) \/ Abandon(t)

Start(t) ==
    \/ StartSend(t) \/ StartTagRecv(t) \/ StartStreamRecv(t)
    \/ StartAmRecv(t) \/ StartClose(t)

UcxStep(s) ==
    \/ \E r \in Outcomes : Complete(s, r)
    \/ Reclaim(s)
    \/ ForgetClose(s)

Next ==
    \/ \E t \in Tasks : Start(t) \/ CallStep(t)
    \/ \E s \in Slots : UcxStep(s)

\* A poll that has begun runs to its end, the executor polls a task that was
\* woken, and a worker that is polled for progress ends every request.
Fairness ==
    /\ \A t \in Tasks :
        /\ WF_vars(Check(t)) /\ WF_vars(Register(t)) /\ WF_vars(Recheck(t))
        /\ WF_vars(ready[t] /\ Poll(t))
    /\ \A s \in Slots : WF_vars(Reclaim(s) \/ \E r \in Outcomes : Complete(s, r))

Spec == Init /\ [][Next]_vars
FairSpec == Spec /\ Fairness

-----------------------------------------------------------------------------
(* Safety.                                                                 *)

\* No lost wake-up: a call that sleeps although its request has ended is on
\* the executor's list.  A stale waker, left in the slot by a call that was
\* abandoned, may be taken first, and the request may end while the poll is
\* between its first look at the status and its registration.
NoLostWakeup ==
    \A t \in Tasks :
        pc[t] = "parked" /\ Ended(handle[t]) => ready[t]

\* A sleeping call that is not on the list is registered with its request:
\* the callback will find it, not somebody who used that memory before.
SleeperRegistered ==
    \A t \in Tasks :
        pc[t] = "parked" /\ ~ready[t] => waker[handle[t]] = t

\* Every request UCX handed out is freed exactly once: it belongs to one
\* call, which alone may free it, until the handle of that call is dropped.
\* Only the requests of closes that nobody waits for are lost to the pool.
InUse(s) == slot[s] \notin {"free", "released"}
OneOwner ==
    \A t, u \in Tasks : handle[t] = handle[u] /\ handle[t] # NoSlot => t = u
OwnersHold ==
    \A t \in Tasks : handle[t] # NoSlot =>
        InUse(handle[t]) /\ handle[t] \notin forgotten
SomeOwner ==
    \A s \in Slots \ forgotten : InUse(s) => \E t \in Tasks : handle[t] = s
LostForGood == \A s \in forgotten : InUse(s)
SlotsAccounted == OneOwner /\ OwnersHold /\ SomeOwner /\ LostForGood

\* The operation of each call, found in the slot that the call holds.
OpOf == [t \in Tasks |->
            IF handle[t] = NoSlot THEN "none"
            ELSE IF slot[handle[t]] = "active" THEN "running"
            ELSE slot[handle[t]]]

Calls == INSTANCE Operation WITH op <- OpOf

\* Calls share the pool, its stale wakers and the worker, and still each
\* behaves as if it had an operation of its own: it answers once, with the
\* outcome of that operation and of no earlier user of the same memory.
ImplementsOperation == Calls!Spec

\* The doc of recv_data_single: "Returns the number of bytes received."  A
\* call that answered ok had an operation that ended well.
AnswersHonest == \A t \in Tasks : answer[t] = "ok" => truth[t] = "ok"

-----------------------------------------------------------------------------
(* Liveness, under Fairness.                                               *)

\* Every call returns, although it is polled again only when it is woken:
\* by the callback of its own request or, in close(), by itself.
CallsReturn == \A t \in Tasks : pc[t] # "idle" ~> pc[t] = "idle"

\* A request freed too early is not lost to the pool, and one that is held
\* is given back in the end: the pool recovers from every call but a close.
SlotsReturn ==
    \A s \in Slots : slot[s] # "free" ~> slot[s] = "free" \/ s \in forgotten
=============================================================================
