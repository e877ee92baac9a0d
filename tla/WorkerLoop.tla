----------------------------- MODULE WorkerLoop ------------------------------
(***************************************************************************)
(* The tasks that drive a worker (src/ucp/worker.rs): polling(), which     *)
(* calls progress() and yields, and event_poll(), which sleeps on UCX's    *)
(* event descriptor when there is nothing to do.  Either runs until its    *)
(* own reference is the last one to the worker.                            *)
(*                                                                         *)
(* The tasks share one thread, so between two awaits of one no other runs; *)
(* UCX's events come from elsewhere and may arrive at any moment.          *)
(***************************************************************************)
EXTENDS Integers

CONSTANTS Users,       \* the other references to the worker: tasks, endpoints
          Pollers,     \* the tasks that drive it
          MaxEvents    \* bound: events that arrive

ASSUME EventsAssumption == MaxEvents \in Nat

VARIABLES
    users,      \* the references that exist, those of the pollers left out
    kind,       \* which of the two loops a poller runs
    pc,         \* where it is in the loop
    armed,      \* the next event will make the descriptor readable
    ready,      \* the readiness that tokio keeps for a poller's AsyncFd
    work,       \* events that progress() has yet to handle
    arrived     \* how many have arrived

vars == <<users, kind, pc, armed, ready, work, arrived>>

Awaits == {"yielded", "asleep"}
Runs == {"head", "progress", "arm"}

\* The invariant that the variables range over the values listed above.
TypeOK ==
    /\ users \in SUBSET Users
    /\ kind \in [Pollers -> {"polling", "event_poll"}]
    /\ pc \in [Pollers -> Awaits \cup Runs \cup {"none", "ended"}]
    /\ armed \in BOOLEAN
    /\ ready \in [Pollers -> BOOLEAN]
    /\ work \in 0 .. MaxEvents
    /\ arrived \in 0 .. MaxEvents

Init ==
    /\ users = Users
    /\ kind = [p \in Pollers |-> "polling"]
    /\ pc = [p \in Pollers |-> "none"]
    /\ armed = FALSE
    /\ ready = [p \in Pollers |-> FALSE]
    /\ work = 0 /\ arrived = 0

Active == {p \in Pollers : pc[p] \in Awaits \cup Runs}

\* The thread is free: every task is at an await.
Quiet == \A p \in Pollers : pc[p] \notin Runs

Goto(p, label) == pc' = [pc EXCEPT ![p] = label]

\* Rc::strong_count of a worker that an active poller p refers to.
OthersExist(p) == users # {} \/ Active # {p}

-----------------------------------------------------------------------------
(* The program around the loops.                                           *)

CloneRef(u) ==
    /\ Quiet /\ users # {} /\ u \notin users
    /\ users' = users \cup {u}
    /\ UNCHANGED <<kind, pc, armed, ready, work, arrived>>

DropRef(u) ==
    /\ Quiet /\ u \in users
    /\ users' = users \ {u}
    /\ UNCHANGED <<kind, pc, armed, ready, work, arrived>>

\* A loop is spawned.  AsyncFd::new refuses a descriptor that is registered
\* already, so one event_poll at a time.
Spawn(p, k) ==
    /\ Quiet /\ users # {} /\ pc[p] = "none"
    /\ k = "event_poll" => \A q \in Active : kind[q] # "event_poll"
    /\ kind' = [kind EXCEPT ![p] = k]
    /\ Goto(p, "head")
    /\ ready' = [ready EXCEPT ![p] = FALSE]
    /\ UNCHANGED <<users, armed, work, arrived>>

\* The task is aborted at an await and its reference is dropped with it.
Abort(p) ==
    /\ Quiet /\ pc[p] \in Awaits
    /\ Goto(p, "ended")
    /\ UNCHANGED <<users, kind, armed, ready, work, arrived>>

-----------------------------------------------------------------------------
(* The loops.                                                              *)

\* while Rc::strong_count(&self) > 1
WhileAlways(p) ==
    /\ pc[p] = "head"
    /\ Goto(p, "progress")
    /\ UNCHANGED <<users, kind, armed, ready, work, arrived>>
While(p) ==
    /\ pc[p] = "head"
    /\ Goto(p, IF OthersExist(p) THEN "progress" ELSE "ended")
    /\ UNCHANGED <<users, kind, armed, ready, work, arrived>>

\* while self.progress() != 0 {}
Progress(p) ==
    /\ pc[p] = "progress"
    /\ \/ /\ work > 0
          /\ work' \in 0 .. work - 1
          /\ UNCHANGED pc
       \/ /\ work = 0
          /\ Goto(p, IF kind[p] = "polling" THEN "yielded" ELSE "arm")
          /\ UNCHANGED work
    /\ UNCHANGED <<users, kind, armed, ready, arrived>>

\* if self.arm().unwrap(): UCX answers BUSY when an event has come since.
ArmHeedless(p) ==
    /\ pc[p] = "arm"
    /\ Goto(p, "asleep")
    /\ armed' = (work = 0)
    /\ UNCHANGED <<users, kind, ready, work, arrived>>
Arm(p) ==
    /\ pc[p] = "arm"
    /\ IF work > 0 THEN Goto(p, "head") /\ UNCHANGED armed
       ELSE Goto(p, "asleep") /\ armed' = TRUE
    /\ UNCHANGED <<users, kind, ready, work, arrived>>

\* yield_now() comes back by itself, readable() when the flag is set; the
\* flag is cleared before anything else is done.
Resume(p) ==
    /\ Quiet
    /\ \/ pc[p] = "yielded" /\ UNCHANGED ready
       \/ pc[p] = "asleep" /\ ready[p] /\ ready' = [ready EXCEPT ![p] = FALSE]
    /\ Goto(p, "head")
    /\ UNCHANGED <<users, kind, armed, work, arrived>>

-----------------------------------------------------------------------------
\* An event of UCX.  When the worker is armed the descriptor becomes readable
\* and the flag of the AsyncFd is set; it may be set otherwise, too.
EventComes ==
    /\ users # {} \/ Active # {}
    /\ work' = work + 1
    /\ armed' = FALSE
    /\ \/ ready' = [p \in Pollers |->
                       ready[p] \/ (p \in Active /\ kind[p] = "event_poll")]
       \/ ~armed /\ UNCHANGED ready
    /\ UNCHANGED <<users, kind, pc>>

Event == arrived < MaxEvents /\ arrived' = arrived + 1 /\ EventComes

Next ==
    \/ Event
    \/ \E u \in Users : CloneRef(u) \/ DropRef(u)
    \/ \E p \in Pollers :
          \/ \E k \in {"polling", "event_poll"} : Spawn(p, k)
          \/ Abort(p) \/ While(p) \/ Progress(p) \/ Arm(p) \/ Resume(p)

\* A task that runs goes on to its next await; one that is woken, by itself
\* or by the reactor, has its turn although others have theirs.
Fairness ==
    \A p \in Pollers :
        /\ WF_vars(While(p) \/ Progress(p) \/ Arm(p))
        /\ SF_vars(Resume(p))

Spec == Init /\ [][Next]_vars
FairSpec == Spec /\ Fairness

-----------------------------------------------------------------------------
\* No event is slept through: when something is to be done, event_poll does
\* not sleep unless its wake-up is on the way - whether the event came before
\* arm(), after it, or while another task was making progress.
NoEventSleptThrough ==
    \A p \in Pollers : pc[p] = "asleep" /\ work > 0 => ready[p]

\* Under Fairness, whatever arrives is handled as long as a loop runs.
EventsHandled == work > 0 /\ Active # {} ~> work = 0 \/ Active = {}

\* Under Fairness, polling() ends, and drops its reference to the worker,
\* once it is the last to hold one.  (An event_poll that sleeps does not.)
PollingEnds ==
    \A p \in Pollers :
        users = {} /\ Active = {p} /\ kind[p] = "polling" ~> pc[p] = "ended"
=============================================================================
