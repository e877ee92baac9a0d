------------------------------ MODULE Ownership ------------------------------
(***************************************************************************)
(* Who keeps what alive: contexts (Arc), workers (Rc), endpoints (Rc, by   *)
(* their EndpointInner), memory regions, listeners, remote keys, and the   *)
(* tasks that poll a worker (src/ucp/mod.rs, worker.rs, listener.rs,       *)
(* endpoint/mod.rs, endpoint/rma.rs).  Each object stands for a UCX object *)
(* that its Drop destroys; most also hold a reference to the object they   *)
(* were made with.  An endpoint is closed by close() or by the drop of any *)
(* of its clones, and goes on as an EndpointInner while others are left;   *)
(* how often UCX is told and how its closes end is a matter of Endpoint.   *)
(*                                                                         *)
(* A drop that takes the last reference runs Drop::drop, which calls UCX,  *)
(* and then drops the fields, which may be the last reference to the next  *)
(* object.  Here these are steps, so that two threads which share a        *)
(* context, or two tasks, may be in the middle of one each.                *)
(***************************************************************************)
EXTENDS Integers

CONSTANTS Contexts, Workers, Regions, Endpoints, Listeners, Keys, Loops,
          Users,    \* the variables of the program that can hold a value
          Nothing   \* the maker of a context

Objects == Contexts \cup Workers \cup Regions \cup Endpoints
               \cup Listeners \cup Keys \cup Loops

ASSUME KindsAssumption ==
    /\ Users \cap Objects = {} /\ Nothing \notin Objects
    /\ Contexts \cap (Workers \cup Regions \cup Endpoints \cup Listeners
                          \cup Keys \cup Loops) = {}
    /\ Workers \cap (Regions \cup Endpoints \cup Listeners \cup Keys \cup Loops) = {}
    /\ Endpoints \cap (Regions \cup Listeners \cup Keys \cup Loops) = {}
    /\ (Listeners \cup Keys) \cap (Regions \cup Loops) = {}
    /\ Regions \cap Loops = {} /\ Listeners \cap Keys = {}

VARIABLES
    stage,     \* how far each object is in its life
    maker,     \* the object it was made with
    refs,      \* who holds a strong reference to it
    told,      \* the endpoints that UCX was told to close
    aborted    \* history: the polling tasks that were aborted

vars == <<stage, maker, refs, told, aborted>>

Exists == {"live", "dropping", "destroyed"}

\* What an object of each kind is made with.
Makers(o) ==
    IF o \in Workers \cup Regions THEN Contexts
    ELSE IF o \in Endpoints \cup Listeners \cup Loops THEN Workers
    ELSE IF o \in Keys THEN Endpoints
    ELSE {}

\* The kinds that have an Arc or Rc of their maker among their fields; a
\* Listener and an RKey have a raw handle only.
Kept == Workers \cup Regions \cup Endpoints \cup Loops

\* The objects that exist and have a field that refers to o.
KeptWith(o) == {c \in Kept : maker[c] = o /\ stage[c] \in Exists}

\* The invariant that the variables range over the values listed above; only
\* variables, and objects that exist and were made with it, hold an object.
TypeOK ==
    /\ stage \in [Objects -> Exists \cup {"none", "gone"}]
    /\ maker \in [Objects -> Objects \cup {Nothing}]
    /\ refs \in [Objects -> SUBSET (Users \cup Objects)]
    /\ \A o \in Objects : refs[o] \subseteq Users \cup KeptWith(o)
    /\ told \in SUBSET Endpoints
    /\ aborted \in SUBSET Loops

Init ==
    /\ stage = [o \in Objects |-> "none"]
    /\ maker = [o \in Objects |-> Nothing]
    /\ refs = [o \in Objects |-> {}]
    /\ told = {}
    /\ aborted = {}

-----------------------------------------------------------------------------
(* Making, cloning and dropping.                                           *)

\* Context::new
NewContext(u, c) ==
    /\ stage[c] = "none"
    /\ stage' = [stage EXCEPT ![c] = "live"]
    /\ refs' = [refs EXCEPT ![c] = {u}]
    /\ UNCHANGED <<maker, told, aborted>>

\* The other constructors are called through a reference to the maker p and
\* clone it when UCX has made its object; one that fails leaves nothing.
MakeUncounted(p, o, owners) ==
    /\ stage[o] = "none"
    /\ stage' = [stage EXCEPT ![o] = "live"]
    /\ maker' = [maker EXCEPT ![o] = p]
    /\ refs' = [refs EXCEPT ![o] = owners]
Make(p, o, owners) ==
    /\ stage[o] = "none"
    /\ stage' = [stage EXCEPT ![o] = "live"]
    /\ maker' = [maker EXCEPT ![o] = p]
    /\ refs' = [refs EXCEPT ![o] = owners, ![p] = IF o \in Kept THEN @ \cup {o} ELSE @]

Create(u, p, o) ==
    /\ u \in refs[p] /\ p \in Makers(o) /\ o \notin Loops
    /\ Make(p, o, {u})
    /\ UNCHANGED <<told, aborted>>

\* polling() takes its reference by value, and nobody holds the task.
Spawn(u, w, l) ==
    /\ u \in refs[w] /\ w \in Workers /\ l \in Loops
    /\ Make(w, l, {})
    /\ UNCHANGED <<told, aborted>>

Clone(u, v, o) ==
    /\ u \in refs[o] /\ v \notin refs[o]
    /\ o \in Contexts \cup Workers \cup Endpoints
    /\ refs' = [refs EXCEPT ![o] = @ \cup {v}]
    /\ UNCHANGED <<stage, maker, told, aborted>>

\* Endpoint::close tells UCX to close, whatever clones there are.
Close(u, e) ==
    /\ e \in Endpoints /\ u \in refs[e]
    /\ told' = told \cup {e}
    /\ UNCHANGED <<stage, maker, refs, aborted>>

\* Holder h lets go of o, which comes to its end when it was the last one; an
\* EndpointInner has no Drop of its own, and its fields are next.
Unref(h, o, s) ==
    /\ refs' = [refs EXCEPT ![o] = @ \ {h}]
    /\ stage' = IF refs[o] # {h} THEN s
                ELSE [s EXCEPT ![o] = IF o \in Endpoints THEN "destroyed" ELSE "dropping"]

\* A variable goes out of scope.  Drop of any clone of an endpoint has UCX
\* close the handle, unless that was done.
Drop(u, o) ==
    /\ u \in refs[o]
    /\ told' = IF o \in Endpoints THEN told \cup {o} ELSE told
    /\ Unref(u, o, stage)
    /\ UNCHANGED <<maker, aborted>>

\* Drop::drop of the others: ucp_cleanup, ucp_worker_destroy, ucp_mem_unmap,
\* ucp_listener_destroy, ucp_rkey_destroy.
Destroy(o) ==
    /\ stage[o] = "dropping"
    /\ stage' = [stage EXCEPT ![o] = "destroyed"]
    /\ UNCHANGED <<maker, refs, told, aborted>>

\* The fields follow, the reference to the maker among them.
DropFieldsForgets(o) ==
    /\ stage[o] = "destroyed"
    /\ stage' = [stage EXCEPT ![o] = "gone"]
    /\ UNCHANGED <<maker, refs, told, aborted>>
DropFields(o) ==
    /\ stage[o] = "destroyed"
    /\ IF o \in Kept THEN Unref(o, maker[o], [stage EXCEPT ![o] = "gone"])
       ELSE stage' = [stage EXCEPT ![o] = "gone"] /\ UNCHANGED refs
    /\ UNCHANGED <<maker, told, aborted>>

\* while Rc::strong_count(&self) > 1
LoopEndsAtZero(l) ==
    /\ l \in Loops /\ stage[l] = "live" /\ refs[maker[l]] = {}
    /\ stage' = [stage EXCEPT ![l] = "destroyed"]
    /\ UNCHANGED <<maker, refs, told, aborted>>
LoopEndsEarly(l) ==
    /\ l \in Loops /\ stage[l] = "live" /\ refs[maker[l]] \cap Users = {}
    /\ stage' = [stage EXCEPT ![l] = "destroyed"]
    /\ UNCHANGED <<maker, refs, told, aborted>>
LoopEnds(l) ==
    /\ l \in Loops /\ stage[l] = "live" /\ refs[maker[l]] = {l}
    /\ stage' = [stage EXCEPT ![l] = "destroyed"]
    /\ UNCHANGED <<maker, refs, told, aborted>>

LoopAborted(l) ==
    /\ l \in Loops /\ stage[l] = "live"
    /\ stage' = [stage EXCEPT ![l] = "destroyed"]
    /\ aborted' = aborted \cup {l}
    /\ UNCHANGED <<maker, refs, told>>

-----------------------------------------------------------------------------
Program ==
    \E u \in Users :
        \/ \E c \in Contexts : NewContext(u, c)
        \/ \E o \in Objects :
              \/ Drop(u, o) \/ Close(u, o)
              \/ \E p \in Objects : Create(u, p, o) \/ Spawn(u, p, o)
              \/ \E v \in Users : Clone(u, v, o)

Teardown(o) == Destroy(o) \/ DropFields(o) \/ LoopEnds(o)

Next == Program \/ \E o \in Objects : Teardown(o) \/ LoopAborted(o)

\* A drop that has begun goes on, and a polling task has its turns.
Fairness == \A o \in Objects : WF_vars(Teardown(o))

Spec == Init /\ [][Next]_vars
FairSpec == Spec /\ Fairness

-----------------------------------------------------------------------------
\* What UCX has and was not asked to give up: an endpoint until it is told to
\* close it, anything else until its Drop.
InUcx(o) == IF o \in Endpoints THEN stage[o] # "none" /\ o \notin told
            ELSE stage[o] \in {"live", "dropping"}

\* Nothing is destroyed in UCX before what was made with it, in any order in
\* which variables, tasks and threads let go: a worker not before UCX was told
\* to close each of its endpoints, or while some clone could still tell it; a
\* context not before its workers and regions.  Listeners and remote keys are
\* the exceptions: they can outlive their worker, and then pass UCX a pointer
\* into it.
MakersOutlive ==
    \A o \in Kept : InUcx(o) \/ stage[o] = "live" => stage[maker[o]] = "live"

\* An endpoint keeps the polling tasks of its worker going, so a call that
\* waits on it is polled until it ends, whatever else is dropped.
CallsArePolled ==
    \A l \in Loops \ aborted, e \in Endpoints :
        stage[l] # "none" /\ stage[e] = "live" /\ maker[e] = maker[l]
            => stage[l] = "live"

NobodyHolds == \A u \in Users, o \in Objects : u \notin refs[o]
LoopsOf(w) == {l \in Loops : stage[l] = "live" /\ maker[l] = w}
OneLoopEach == \A w \in Workers : \A k, l \in LoopsOf(w) : k = l

\* Under Fairness, when the program holds nothing any more everything is
\* given back to UCX, by way of polling tasks that end by themselves - if no
\* worker has two, which would wait for each other.
ReleasedInTheEnd ==
    NobodyHolds /\ OneLoopEach
        ~> ~NobodyHolds \/ \A o \in Objects : stage[o] \in {"none", "gone"}
=============================================================================
