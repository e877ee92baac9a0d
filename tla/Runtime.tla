------------------------------- MODULE Runtime -------------------------------
(***************************************************************************)
(* The calls of Request and the loops of WorkerLoop on the one thread that *)
(* owns a worker.  A request ends in two steps: UCX finishes it, which is  *)
(* an event of the worker, and a loop that makes progress handles the      *)
(* event and runs the callback.  So a call returns because some loop runs, *)
(* and the loop runs because the call holds a reference to the worker, by  *)
(* way of its endpoint.                                                    *)
(***************************************************************************)
EXTENDS Request, FiniteSets, Integers

CONSTANTS Pollers,
          Program    \* the rest of the program, which may hold a reference, too

\* UCX has handed out finitely many requests at any time.
ASSUME PoolAssumption == IsFiniteSet(Slots)

VARIABLES
    users,      \* who holds a reference to the worker
    loop, at, armed, readable,    \* kind, pc, armed and ready of WorkerLoop
    pending,    \* requests that UCX has finished and nobody has handled
    aborted     \* history: the loops that were aborted

loops == <<users, loop, at, armed, readable>>
runtimeVars == <<vars, loops, pending, aborted>>

L == INSTANCE WorkerLoop WITH
         Users <- Tasks \cup {Program}, MaxEvents <- Cardinality(Slots),
         kind <- loop, pc <- at, ready <- readable,
         work <- Cardinality(pending), arrived <- 0

\* The variables range over their values; what is
\* pending is a request that nobody was told of; and that a call is made by
\* a task that holds a reference.
RuntimeTypeOK ==
    /\ TypeOK /\ L!TypeOK
    /\ pending \in SUBSET Slots
    /\ \A s \in pending : slot[s] \in {"active", "released"}
    /\ \A t \in Tasks : pc[t] # "idle" => t \in users
    /\ aborted \in SUBSET Pollers

RuntimeInit == pending = {} /\ aborted = {} /\ Init /\ L!Init

\* The thread is between two polls: of a call, and of a loop.
Free == L!Quiet /\ \A t \in Tasks : pc[t] \in {"idle", "parked"}

-----------------------------------------------------------------------------
(* The calls.                                                              *)

StartCall(t) ==
    /\ Free /\ t \in users
    /\ Start(t)
    /\ UNCHANGED <<loops, pending, aborted>>

PollCall(t) ==
    /\ Free
    /\ Poll(t)
    /\ UNCHANGED <<loops, pending, aborted>>

AbandonCall(t) ==
    /\ Free
    /\ Abandon(t)
    /\ UNCHANGED <<loops, pending, aborted>>

\* A poll goes on without a break.
GoOn(t) ==
    /\ Check(t) \/ Register(t) \/ Recheck(t)
    /\ UNCHANGED <<loops, pending, aborted>>

\* Drop of an endpoint whose close nobody waits for.
DropUnclosed(s) ==
    /\ Free /\ users # {}
    /\ ForgetClose(s)
    /\ UNCHANGED <<loops, pending, aborted>>

\* References come and go between the polls, those to endpoints, which hold
\* one to the worker, included; a call borrows that of its task.
CloneRef(u) ==
    /\ Free
    /\ UNCHANGED <<vars, pending, aborted>>
    /\ L!CloneRef(u)

DropRefEarly(u) ==
    /\ Free
    /\ UNCHANGED <<vars, pending, aborted>>
    /\ L!DropRef(u)
DropRef(u) ==
    /\ Free /\ (u \in Tasks => pc[u] = "idle")
    /\ UNCHANGED <<vars, pending, aborted>>
    /\ L!DropRef(u)

-----------------------------------------------------------------------------
(* UCX, and the loops.                                                     *)

\* UCX finishes a request, of a call that waits or of one that gave up.
Finished(s) ==
    /\ slot[s] \in {"active", "released"} /\ s \notin pending
    /\ pending' = pending \cup {s}
    /\ L!EventComes
    /\ UNCHANGED <<vars, aborted>>

\* ucp_worker_progress: the callback of one request, or nothing to do.
Progress(p) ==
    /\ \/ \E s \in pending :
             /\ pending' = pending \ {s}
             /\ Reclaim(s) \/ \E r \in Outcomes : Complete(s, r)
       \/ pending = {} /\ UNCHANGED <<vars, pending>>
    /\ L!Progress(p)
    /\ UNCHANGED aborted

Runs(p) ==
    \/ Progress(p)
    \/ UNCHANGED <<vars, pending, aborted>> /\ (L!While(p) \/ L!Arm(p))

Resume(p) ==
    /\ Free
    /\ UNCHANGED <<vars, pending, aborted>>
    /\ L!Resume(p)

Spawn(p) ==
    /\ Free
    /\ UNCHANGED <<vars, pending, aborted>>
    /\ \E k \in {"polling", "event_poll"} : L!Spawn(p, k)

Abort(p) ==
    /\ Free
    /\ aborted' = aborted \cup {p}
    /\ UNCHANGED <<vars, pending>>
    /\ L!Abort(p)

-----------------------------------------------------------------------------
RuntimeNext ==
    \/ \E t \in Tasks :
          StartCall(t) \/ PollCall(t) \/ AbandonCall(t) \/ GoOn(t)
    \/ \E u \in Tasks \cup {Program} : CloneRef(u) \/ DropRef(u)
    \/ \E s \in Slots : DropUnclosed(s) \/ Finished(s)
    \/ \E p \in Pollers : Runs(p) \/ Resume(p) \/ Spawn(p) \/ Abort(p)

\* A poll runs to its end.  The executor is fair to the tasks that were
\* woken, though others take the thread in between.  UCX finishes every
\* request; that somebody is told is not assumed.
RuntimeFairness ==
    /\ \A t \in Tasks : WF_runtimeVars(GoOn(t)) /\ SF_runtimeVars(ready[t] /\ PollCall(t))
    /\ \A p \in Pollers : WF_runtimeVars(Runs(p)) /\ SF_runtimeVars(Resume(p))
    /\ \A s \in Slots : WF_runtimeVars(Finished(s))

RuntimeSpec == RuntimeInit /\ [][RuntimeNext]_runtimeVars
RuntimeFairSpec == RuntimeSpec /\ RuntimeFairness

-----------------------------------------------------------------------------
\* Nobody sleeps on an answer: when the request of a sleeping call is over,
\* the task is on the executor's list, or every loop is on its way to the
\* callback - and no loop has ended but those that were aborted.
NobodySleepsOnAnAnswer ==
    \A t \in Tasks :
        pc[t] = "parked" /\ ~ready[t] =>
            /\ ~Ended(handle[t])
            /\ handle[t] \in pending => \A p \in L!Active : at[p] = "asleep" => readable[p]
            /\ \A p \in Pollers : at[p] = "ended" => p \in aborted

\* Every loop that was spawned was aborted.
Orphaned == \A p \in Pollers : at[p] # "none" => p \in aborted

\* Under Fairness, a call returns when a loop drives its worker, of either
\* kind: the loop neither sleeps for good nor ends while the call waits.
\* Only a worker whose loops were all aborted leaves its calls alone.
CallsServed ==
    \A t \in Tasks : pc[t] # "idle" /\ ~Orphaned ~> pc[t] = "idle" \/ Orphaned
=============================================================================
