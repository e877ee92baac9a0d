------------------------------ MODULE Listener -------------------------------
(***************************************************************************)
(* A listener and the connection requests it is handed by UCX              *)
(* (src/ucp/listener.rs).  UCX calls connect_handler with a raw pointer to *)
(* the sending half of a channel; next() waits on the receiving half; the  *)
(* program accepts a request, on any worker and in any thread, rejects it, *)
(* or lets it go.  A ConnectionRequest is moved, never copied, and has no  *)
(* Drop of its own.                                                        *)
(*                                                                         *)
(* next() takes &mut self: one task waits at a time, but its future may be *)
(* dropped and another task call next() with a waker of its own.           *)
(***************************************************************************)
EXTENDS Integers, Sequences

CONSTANTS Requests,   \* the connection requests that clients may send
          Tasks,      \* the tasks of the program that call next()
          NoTask      \* no task's waker is registered

ASSUME NobodyAssumption == NoTask \notin Tasks

VARIABLES
    phase,     \* the Listener value; "destroyed" between Drop::drop and its fields
    handle,    \* the listener as UCX sees it
    sender,    \* the sending half exists: the argument of connect_handler
    recver,    \* the receiving half exists
    came,      \* the requests sent into the channel, in order
    taken,     \* how many of them next() has returned; the rest are queued
    waker,     \* the task whose waker the channel keeps
    waiting,   \* the tasks inside next()
    ready,     \* the tasks among them that were woken and not yet polled
    place,     \* where each request has got to
    used       \* history: how often its handle was passed to UCX

vars == <<phase, handle, sender, recver, came, taken, waker, waiting, ready, place, used>>
chan == <<sender, recver, came, taken, waker, waiting, ready>>

Settled == {"accepted", "rejected"}
Spent == Settled \cup {"refused"}
Lost == {"dropped", "refused", "stranded"}

\* The invariant that the variables range over the values listed above.
TypeOK ==
    /\ phase \in {"new", "failed", "open", "destroyed", "gone"}
    /\ handle \in {"none", "open", "closed"}
    /\ sender \in BOOLEAN
    /\ recver \in BOOLEAN
    /\ came \in Seq(Requests)
    /\ taken \in 0 .. Len(came)
    /\ waker \in Tasks \cup {NoTask}
    /\ waiting \in SUBSET Tasks
    /\ ready \in SUBSET Tasks
    /\ place \in [Requests -> {"away", "queued", "held"} \cup Settled \cup Lost]
    /\ used \in [Requests -> Nat]

Init ==
    /\ phase = "new" /\ handle = "none" /\ sender = FALSE /\ recver = FALSE
    /\ came = <<>> /\ taken = 0 /\ waker = NoTask /\ waiting = {} /\ ready = {}
    /\ place = [r \in Requests |-> "away"]
    /\ used = [r \in Requests |-> 0]

Queued == taken < Len(came)

-----------------------------------------------------------------------------
(* Listener::new and Drop.                                                 *)

\* The channel is made before ucp_listener_create gets a pointer into it and
\* is dropped again when that fails.
NewOk ==
    /\ phase = "new"
    /\ phase' = "open" /\ handle' = "open" /\ sender' = TRUE /\ recver' = TRUE
    /\ UNCHANGED <<came, taken, waker, waiting, ready, place, used>>

NewFails ==
    /\ phase = "new"
    /\ phase' = "failed"
    /\ UNCHANGED <<handle, chan, place, used>>

\* Drop::drop; nobody is inside next(), which borrows the listener.
DestroyNothing ==
    /\ phase = "open" /\ waiting = {}
    /\ phase' = "destroyed"
    /\ UNCHANGED <<handle, chan, place, used>>
Destroy ==
    /\ phase = "open" /\ waiting = {}
    /\ phase' = "destroyed" /\ handle' = "closed"
    /\ UNCHANGED <<chan, place, used>>

\* The fields after it: the requests still in the channel go with them.
DropFields ==
    /\ phase = "destroyed"
    /\ phase' = "gone" /\ sender' = FALSE /\ recver' = FALSE
    /\ place' = [r \in Requests |-> IF place[r] = "queued" THEN "stranded" ELSE place[r]]
    /\ UNCHANGED <<handle, came, taken, waker, waiting, ready, used>>

-----------------------------------------------------------------------------
(* The channel of futures: unbounded_send wakes the registered task once,  *)
(* and a poll of next() takes a request or registers the task that polls.  *)

Wake ==
    /\ ready' = ready \cup (waiting \cap {waker})
    /\ waker' = NoTask

\* connect_handler, called inside progress().  Its unwrap() and its argument
\* are sound only while both halves exist: see HandlerArgValid.
ConnectHandlerSilently(r) ==
    /\ handle = "open" /\ place[r] = "away"
    /\ came' = Append(came, r)
    /\ place' = [place EXCEPT ![r] = "queued"]
    /\ UNCHANGED <<phase, handle, sender, recver, taken, waker, waiting, ready, used>>
ConnectHandler(r) ==
    /\ handle = "open" /\ place[r] = "away"
    /\ came' = Append(came, r)
    /\ place' = [place EXCEPT ![r] = "queued"]
    /\ Wake
    /\ UNCHANGED <<phase, handle, sender, recver, taken, waiting, used>>

TakeFirst(t) ==
    /\ Queued
    /\ taken' = taken + 1
    /\ place' = [place EXCEPT ![came[taken + 1]] = "held"]
    /\ waiting' = waiting \ {t}
    /\ UNCHANGED waker

Wait(t) ==
    /\ ~Queued
    /\ waiting' = waiting \cup {t}
    /\ waker' = t
    /\ UNCHANGED <<taken, place>>

Turn(t) ==
    /\ TakeFirst(t) \/ Wait(t)
    /\ ready' = ready \ {t}
    /\ UNCHANGED <<phase, handle, sender, recver, came, used>>

NextBegin(t) == phase = "open" /\ waiting = {} /\ Turn(t)

\* A waiting future may be polled whether it was woken or not.
Poll(t) == t \in waiting /\ Turn(t)

\* The future of next() is dropped; the channel still has its waker.
NextAbandoned(t) ==
    /\ t \in waiting
    /\ waiting' = waiting \ {t} /\ ready' = ready \ {t}
    /\ UNCHANGED <<phase, handle, sender, recver, came, taken, waker, place, used>>

-----------------------------------------------------------------------------
(* What becomes of a request that next() returned.                         *)

MoveTo(r, p) == place' = [place EXCEPT ![r] = p]
PassToUcx(r) == used' = [used EXCEPT ![r] = @ + 1]

\* Worker::accept: ucp_ep_create takes the request whether it succeeds or not.
Accept(r) ==
    /\ place[r] = "held"
    /\ MoveTo(r, "accepted") /\ PassToUcx(r)
    /\ UNCHANGED <<phase, handle, chan>>

\* Listener::reject takes the request by value.  UCX refuses one that came
\* from another listener, and then nobody has its handle any more: the program
\* does not get the request back with the error.
RejectBorrowing(r) ==
    /\ place[r] = "held" /\ phase = "open"
    /\ PassToUcx(r)
    /\ \/ MoveTo(r, "rejected")
       \/ UNCHANGED place
    /\ UNCHANGED <<phase, handle, chan>>
Reject(r) ==
    /\ place[r] = "held" /\ phase = "open"
    /\ PassToUcx(r)
    /\ \E end \in {"rejected", "refused"} : MoveTo(r, end)
    /\ UNCHANGED <<phase, handle, chan>>

\* The value is dropped, which UCX does not learn of.
DropRequest(r) ==
    /\ place[r] = "held"
    /\ MoveTo(r, "dropped")
    /\ UNCHANGED <<phase, handle, chan, used>>

-----------------------------------------------------------------------------
Next ==
    \/ NewOk \/ NewFails \/ Destroy \/ DropFields
    \/ \E t \in Tasks : NextBegin(t) \/ Poll(t) \/ NextAbandoned(t)
    \/ \E r \in Requests : ConnectHandler(r) \/ Accept(r) \/ Reject(r) \/ DropRequest(r)

\* The executor polls a task that was woken.
Fairness == \A t \in Tasks : WF_vars(t \in ready /\ Poll(t))

Spec == Init /\ [][Next]_vars
FairSpec == Spec /\ Fairness

-----------------------------------------------------------------------------
\* While UCX may call connect_handler, its argument is alive and the send
\* cannot fail, so no panic crosses into C; and while a task is in next() the
\* channel cannot end, so its unwrap() does not panic either.
HandlerArgValid == handle = "open" \/ waiting # {} => sender /\ recver

\* A task in next() never sleeps on a request, even when the waker it finds
\* in the channel is that of a task that gave up before it.
NoLostRequest == Queued => waiting \subseteq ready

\* The handle of a request is passed to UCX at most once, by an accept or a
\* reject, and then the program has the request no more, whatever UCX made of
\* it, whoever took it from the channel and whatever waits were given up
\* before; and a request that was dropped or stranded is never passed.
SettledOnce ==
    \A r \in Requests : used[r] = IF place[r] \in Spent THEN 1 ELSE 0

\* Under Fairness, a task that waits while a request is queued gets it, unless
\* it gives up.
NextReturns ==
    \A t \in Tasks : t \in waiting /\ Queued ~> t \notin waiting
=============================================================================
