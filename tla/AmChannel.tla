----------------------------- MODULE AmChannel ------------------------------
(***************************************************************************)
(* What an active-message stream promises the tasks that share it, with    *)
(* nothing said of waiting: the messages that arrive while it is open are  *)
(* taken one at a time, in order, each by one task; and a task is told     *)
(* that there is no message only once the stream is closed and everything  *)
(* that ever arrived has been taken, so that the answer is final.          *)
(***************************************************************************)
EXTENDS Naturals, Sequences

CONSTANTS Tasks, Streams, Messages, None

VARIABLES
    open,       \* the streams that may still receive
    arrived,    \* all that has arrived on each stream
    taken,      \* how much of it has been taken
    answer      \* what each task was given last

vars == <<open, arrived, taken, answer>>

Init ==
    /\ open = {}
    /\ arrived = [g \in Streams |-> <<>>]
    /\ taken = [g \in Streams |-> 0]
    /\ answer = [t \in Tasks |-> None]

Open(g) ==
    /\ arrived[g] = <<>>
    /\ open' = open \cup {g}
    /\ UNCHANGED <<arrived, taken, answer>>

Shut(g) ==
    /\ open' = open \ {g}
    /\ UNCHANGED <<arrived, taken, answer>>

Arrive(g, m) ==
    /\ g \in open
    /\ arrived' = [arrived EXCEPT ![g] = Append(@, m)]
    /\ UNCHANGED <<open, taken, answer>>

Take(t, g) ==
    /\ taken[g] < Len(arrived[g])
    /\ taken' = [taken EXCEPT ![g] = @ + 1]
    /\ answer' = [answer EXCEPT ![t] = arrived[g][taken[g] + 1]]
    /\ UNCHANGED <<open, arrived>>

NoMore(t, g) ==
    /\ g \notin open /\ taken[g] = Len(arrived[g])
    /\ answer' = [answer EXCEPT ![t] = None]
    /\ UNCHANGED <<open, arrived, taken>>

Next ==
    \E g \in Streams :
        \/ Open(g) \/ Shut(g)
        \/ \E m \in Messages : Arrive(g, m)
        \/ \E t \in Tasks : Take(t, g) \/ NoMore(t, g)

Spec == Init /\ [][Next]_vars
=============================================================================
