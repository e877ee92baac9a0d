----------------------------- MODULE Operation ------------------------------
(***************************************************************************)
(* What an asynchronous call promises its task, with nothing said of       *)
(* requests, wakers and polls: the call has one UCX operation of its own,  *)
(* it answers once, after that operation has ended, and the answer is how  *)
(* it ended - except for a call that does not look at the status, which    *)
(* always answers ok.                                                      *)
(***************************************************************************)
CONSTANTS Tasks, Kinds

VARIABLES
    kind,      \* what each task called last
    op,        \* its operation: none, running, or how it ended
    answer     \* what its last call answered

vars == <<kind, op, answer>>

Outcomes == {"ok", "error"}

Init ==
    /\ kind \in [Tasks -> Kinds]
    /\ op = [t \in Tasks |-> "none"]
    /\ answer = [t \in Tasks |-> "none"]

Start(t, k) ==
    /\ op[t] = "none"
    /\ kind' = [kind EXCEPT ![t] = k]
    /\ op' = [op EXCEPT ![t] = "running"]
    /\ answer' = [answer EXCEPT ![t] = "none"]

Immediate(t, k, r) ==
    /\ op[t] = "none"
    /\ kind' = [kind EXCEPT ![t] = k]
    /\ answer' = [answer EXCEPT ![t] = r]
    /\ UNCHANGED op

Finish(t, r) ==
    /\ op[t] = "running"
    /\ op' = [op EXCEPT ![t] = r]
    /\ UNCHANGED <<kind, answer>>

Return(t) ==
    /\ op[t] \in Outcomes
    /\ op' = [op EXCEPT ![t] = "none"]
    /\ answer' = [answer EXCEPT ![t] = IF kind[t] = "unchecked" THEN "ok"
                                       ELSE op[t]]
    /\ UNCHANGED kind

GiveUp(t) ==
    /\ op[t] # "none"
    /\ op' = [op EXCEPT ![t] = "none"]
    /\ UNCHANGED <<kind, answer>>

Next == \E t \in Tasks :
    \/ Return(t) \/ GiveUp(t)
    \/ \E k \in Kinds : Start(t, k)
    \/ \E r \in Outcomes : Finish(t, r)
    \/ \E k \in Kinds, r \in Outcomes : Immediate(t, k, r)

Spec == Init /\ [][Next]_vars
=============================================================================
