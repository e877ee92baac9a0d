-------------------------- MODULE EndpointContract --------------------------
(***************************************************************************)
(* What an endpoint promises to the tasks that share it: it is created     *)
(* open, may fail, and is closed once and for all by a close or by the     *)
(* first of its holders that lets go of it.  An error it has reported is   *)
(* never taken back, and the argument of the error handler lives exactly   *)
(* as long as UCX may use it: while the endpoint is open or failed.        *)
(***************************************************************************)
CONSTANTS Tasks, Faults, ConnReset, Ok

VARIABLES
    state,      \* what is_closed() and get_status() tell
    error,      \* the status get_status() returns
    holders,    \* the tasks that own a clone
    argument    \* the handler's argument may be dereferenced

vars == <<state, error, holders, argument>>

Init == state = "new" /\ error = Ok /\ holders = {} /\ argument = FALSE

Create(t) ==
    /\ state = "new"
    /\ state' = "open" /\ holders' = {t} /\ argument' = TRUE
    /\ UNCHANGED error

Reject ==
    /\ state = "new" /\ state' = "rejected"
    /\ UNCHANGED <<error, holders, argument>>

Share(t, u) ==
    /\ t \in holders
    /\ holders' = holders \cup {u}
    /\ UNCHANGED <<state, error, argument>>

Fail(s) ==
    /\ state \in {"open", "failed"} /\ holders # {}
    /\ state' = "failed" /\ error' = s
    /\ UNCHANGED <<holders, argument>>

ShutDown ==
    /\ state \in {"open", "failed"}
    /\ state' = "closed" /\ error' = ConnReset /\ argument' = FALSE

Close == ShutDown /\ holders # {} /\ UNCHANGED holders

Release(t) ==
    /\ t \in holders
    /\ holders' = holders \ {t}
    /\ ShutDown \/ (state = "closed" /\ UNCHANGED <<state, error, argument>>)

Next ==
    \/ Reject \/ Close
    \/ \E s \in Faults : Fail(s)
    \/ \E t \in Tasks : Create(t) \/ Release(t)
    \/ \E t, u \in Tasks : Share(t, u)

Spec == Init /\ [][Next]_vars
=============================================================================
