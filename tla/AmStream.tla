------------------------------ MODULE AmStream ------------------------------
(***************************************************************************)
(* The active-message streams of one id (src/ucp/endpoint/am.rs): the      *)
(* handler that UCX calls for the id, the worker's map of streams, and for *)
(* every AmStreamInner its queue of messages and its tokio::sync::Notify.  *)
(*                                                                         *)
(* Clones of a stream are held by several tasks of the worker's thread.    *)
(* Between two awaits a task runs alone, so one turn of the loop of        *)
(* wait_msg is one step; messages arrive inside Worker::progress, between  *)
(* the steps of the tasks.                                                 *)
(***************************************************************************)
EXTENDS Naturals, SequencesExt, FiniteSets

CONSTANTS Tasks,        \* tasks that may hold a clone of a stream
          MaxStreams,   \* bound: streams made for the id, one after another
          MaxMessages   \* bound: messages that arrive for the id

ASSUME BoundsAssumption ==
    MaxStreams \in Nat /\ MaxMessages \in Nat /\ IsFiniteSet(Tasks)

Streams == 1 .. MaxStreams
NoStream == 0
Messages == 1 .. MaxMessages
None == 0

VARIABLES
    handler,       \* the stream UCX's handler for the id was registered with
    registered,    \* the stream in Worker::am_streams
    made,          \* the streams made so far
    held,          \* the stream each task holds a clone of
    msgs,          \* AmStreamInner::msgs
    unregistered,  \* AmStreamInner::unregistered
    permit,        \* AmStreamInner::notify: a stored notification,
    waiters,       \*   the tasks in its list, first come first,
    notified,      \*   and those taken off it that have not run yet
    sent,          \* messages that have arrived
    taken,         \* history: the messages taken from each stream
    answer         \* what wait_msg last returned to each task

notify == <<permit, waiters, notified>>
vars == <<handler, registered, made, held, msgs, unregistered, permit, waiters,
          notified, sent, taken, answer>>

\* A task is in a list once, and not if it has been taken off that list.
Once(list, off) ==
    \A i, j \in DOMAIN list : /\ list[i] = list[j] => i = j
                              /\ list[i] \notin off

\* The invariant that the variables range over the values listed above.
TypeOK ==
    /\ handler \in Streams \cup {NoStream}
    /\ registered \in Streams \cup {NoStream}
    /\ made \in 0 .. MaxStreams
    /\ held \in [Tasks -> Streams \cup {NoStream}]
    /\ msgs \in [Streams -> Seq(Messages)]
    /\ unregistered \in [Streams -> BOOLEAN]
    /\ permit \in [Streams -> BOOLEAN]
    /\ waiters \in [Streams -> Seq(Tasks)]
    /\ notified \in [Streams -> SUBSET Tasks]
    /\ sent \in 0 .. MaxMessages
    /\ taken \in [Streams -> Seq(Messages)]
    /\ answer \in [Tasks -> Messages \cup {None}]
    /\ \A g \in Streams : Once(waiters[g], notified[g])

Init ==
    /\ handler = NoStream /\ registered = NoStream /\ made = 0 /\ sent = 0
    /\ held = [t \in Tasks |-> NoStream]
    /\ msgs = [g \in Streams |-> <<>>]
    /\ unregistered = [g \in Streams |-> FALSE]
    /\ permit = [g \in Streams |-> FALSE]
    /\ waiters = [g \in Streams |-> <<>>]
    /\ notified = [g \in Streams |-> {}]
    /\ taken = [g \in Streams |-> <<>>]
    /\ answer = [t \in Tasks |-> None]

InList(t, g) == \E i \in DOMAIN waiters[g] : waiters[g][i] = t
Waiting(t, g) == InList(t, g) \/ t \in notified[g]
Busy(t) == \E g \in Streams : Waiting(t, g)

-----------------------------------------------------------------------------
(* Worker::am_register and Worker::am_stream.                              *)

\* am_register, once UCX has taken the new handler: the stream in the map,
\* if there is one, is removed and told.
Unregister ==
    unregistered' = IF registered = NoStream THEN unregistered
                    ELSE [unregistered EXCEPT ![registered] = TRUE]

\* am_register called by the program, with a callback that is not ours.
RegisterOther ==
    /\ handler' = NoStream
    /\ Unregister /\ registered' = NoStream
    /\ UNCHANGED <<made, held, msgs, permit, waiters, notified, sent, taken,
                   answer>>

\* am_stream of an id that is in the map: a clone of what is there.
Share(t) ==
    /\ held[t] = NoStream /\ registered # NoStream
    /\ held' = [held EXCEPT ![t] = registered]
    /\ UNCHANGED <<handler, registered, made, msgs, unregistered, permit,
                   waiters, notified, sent, taken, answer>>

\* am_stream of an id that is not: a new stream, for UCX and then the map.
\* When UCX refuses the handler nothing changes, which is no step.
MakeInsertsFirst(t) ==
    /\ held[t] = NoStream /\ registered = NoStream /\ made < MaxStreams
    /\ made' = made + 1
    /\ held' = [held EXCEPT ![t] = made + 1]
    /\ handler' = made + 1 /\ registered' = NoStream
    /\ unregistered' = [unregistered EXCEPT ![made + 1] = TRUE]
    /\ UNCHANGED <<msgs, permit, waiters, notified, sent, taken, answer>>
Make(t) ==
    /\ held[t] = NoStream /\ registered = NoStream /\ made < MaxStreams
    /\ made' = made + 1
    /\ held' = [held EXCEPT ![t] = made + 1]
    /\ handler' = made + 1 /\ registered' = made + 1
    /\ Unregister
    /\ UNCHANGED <<msgs, permit, waiters, notified, sent, taken, answer>>

\* A clone of the stream is dropped.
Discard(t) ==
    /\ held[t] # NoStream /\ ~Busy(t)
    /\ held' = [held EXCEPT ![t] = NoStream]
    /\ UNCHANGED <<handler, registered, made, msgs, unregistered, permit,
                   waiters, notified, sent, taken, answer>>

-----------------------------------------------------------------------------
(* tokio::sync::Notify, as the streams use it.                             *)

\* notify_one, called while the tasks in `others` have been notified but not
\* run: the first waiter is taken off the list, or a permit is stored.
NotifyOne(g, others) ==
    IF waiters[g] = <<>>
      THEN /\ permit' = [permit EXCEPT ![g] = TRUE]
           /\ notified' = [notified EXCEPT ![g] = others]
           /\ UNCHANGED waiters
      ELSE /\ notified' = [notified EXCEPT ![g] = others \cup {Head(waiters[g])}]
           /\ waiters' = [waiters EXCEPT ![g] = Tail(@)]
           /\ UNCHANGED permit

\* notified().await of a task that is not in the list: a stored permit lets
\* it pass (and the loop, finding nothing, comes back), else it waits.
Enlist(t, g) ==
    /\ permit' = [permit EXCEPT ![g] = FALSE]
    /\ waiters' = [waiters EXCEPT ![g] = Append(@, t)]
    /\ notified' = [notified EXCEPT ![g] = @ \ {t}]

Leave(t, g) ==
    /\ notified' = [notified EXCEPT ![g] = @ \ {t}]
    /\ UNCHANGED <<permit, waiters>>

-----------------------------------------------------------------------------
(* AmStreamInner::callback and wait_msg.                                   *)

\* A message arrives: the handler queues it and notifies one waiter.
ArriveSilently ==
    /\ handler # NoStream /\ sent < MaxMessages
    /\ sent' = sent + 1
    /\ msgs' = [msgs EXCEPT ![handler] = Append(@, sent + 1)]
    /\ IF msgs[handler] = <<>> THEN NotifyOne(handler, notified[handler])
       ELSE UNCHANGED notify
    /\ UNCHANGED <<handler, registered, made, held, unregistered, taken, answer>>
Arrive ==
    /\ handler # NoStream /\ sent < MaxMessages
    /\ sent' = sent + 1
    /\ msgs' = [msgs EXCEPT ![handler] = Append(@, sent + 1)]
    /\ NotifyOne(handler, notified[handler])
    /\ UNCHANGED <<handler, registered, made, held, unregistered, taken, answer>>

\* The three ways a turn of the loop of wait_msg ends.  The queue is looked
\* at whether the stream is unregistered or not.
TakeMsg(t, g) ==
    /\ msgs[g] # <<>>
    /\ msgs' = [msgs EXCEPT ![g] = Tail(@)]
    /\ taken' = [taken EXCEPT ![g] = Append(@, Head(msgs[g]))]
    /\ answer' = [answer EXCEPT ![t] = Head(msgs[g])]
    /\ Leave(t, g)

NoMoreHasty(t, g) ==
    /\ msgs[g] = <<>> /\ (unregistered[g] \/ t \in notified[g])
    /\ answer' = [answer EXCEPT ![t] = None]
    /\ Leave(t, g)
    /\ UNCHANGED <<msgs, taken>>
NoMore(t, g) ==
    /\ msgs[g] = <<>> /\ unregistered[g]
    /\ answer' = [answer EXCEPT ![t] = None]
    /\ Leave(t, g)
    /\ UNCHANGED <<msgs, taken>>

Sleep(t, g) ==
    /\ msgs[g] = <<>> /\ ~unregistered[g]
    /\ Enlist(t, g)
    /\ UNCHANGED <<msgs, taken, answer>>

Turn(t, g) ==
    /\ TakeMsg(t, g) \/ NoMore(t, g) \/ Sleep(t, g)
    /\ UNCHANGED <<handler, registered, made, held, unregistered, sent>>

\* wait_msg is called, or runs on because it was notified.
Begin(t) == held[t] # NoStream /\ ~Busy(t) /\ Turn(t, held[t])
Resume(t) == \E g \in Streams : t \in notified[g] /\ Turn(t, g)

\* The future of wait_msg is dropped while it waits.  Notified::drop hands a
\* notification that was not used on to the next in the list.
Abandon(t) ==
    \E g \in Streams :
        /\ \/ /\ t \in notified[g]
              /\ NotifyOne(g, notified[g] \ {t})
           \/ \E i \in DOMAIN waiters[g] :
                 /\ waiters[g][i] = t
                 /\ waiters' = [waiters EXCEPT ![g] = RemoveAt(@, i)]
                 /\ UNCHANGED <<permit, notified>>
        /\ UNCHANGED <<handler, registered, made, held, msgs, unregistered,
                       sent, taken, answer>>

-----------------------------------------------------------------------------
Next ==
    \/ RegisterOther \/ Arrive
    \/ \E t \in Tasks :
          \/ Share(t) \/ Make(t) \/ Discard(t)
          \/ Begin(t) \/ Resume(t) \/ Abandon(t)

\* The executor runs a task that was notified.
Fairness == \A t \in Tasks : WF_vars(Resume(t))

Spec == Init /\ [][Next]_vars
FairSpec == Spec /\ Fairness

-----------------------------------------------------------------------------
(* Safety.                                                                 *)

\* UCX calls back the stream in the map and no other, so the pointer it was
\* given is kept alive by the map; and a stream in the map is served, so
\* am_stream never hands out one that will stay silent.
HandlerIsMapped == handler = registered

\* A stream is unregistered exactly when the map has dropped it.
UnregisteredIsUnmapped ==
    \A g \in 1 .. made : unregistered[g] <=> registered # g

\* No message waits while a task sleeps that nobody is going to wake: for
\* every queued message some task has been notified and is still to run.
\* Notifications are fewer than messages when they meet no waiter, and may
\* be lost to a task that finds its message taken; the loop makes up for it.
NoMissedMessage ==
    \A g \in Streams :
        waiters[g] # <<>> => Len(msgs[g]) <= Cardinality(notified[g])

\* What has arrived on each stream: what was taken and what is queued.
Arrived == [g \in Streams |-> taken[g] \o msgs[g]]

Channel == INSTANCE AmChannel WITH
    open <- {registered} \ {NoStream},
    arrived <- Arrived,
    taken <- [g \in Streams |-> Len(taken[g])]

\* A stream delivers every message of its time once and in order, to some
\* one of its tasks, and says None only for good.
ImplementsChannel == Channel!Spec

-----------------------------------------------------------------------------
(* Liveness, under Fairness.                                               *)

\* A message is taken as long as anyone waits for one, even on a stream that
\* was unregistered meanwhile.
MessagesTaken ==
    \A g \in Streams :
        \A m \in Messages :
            LET queued == \E i \in DOMAIN msgs[g] : msgs[g][i] = m
                awaited == \E t \in Tasks : Waiting(t, g)
            IN  queued /\ awaited ~> ~queued \/ ~awaited
=============================================================================
