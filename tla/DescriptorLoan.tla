--------------------------- MODULE DescriptorLoan ----------------------------
(***************************************************************************)
(* What UCX may expect of those it lends a descriptor, and the program of  *)
(* a message that shows one.  A loan only moves forward: it is used by its *)
(* message, or by a receive that UCX carries out, until UCX has it back,   *)
(* which happens once, or until it is forgotten, which is final.  The      *)
(* memory is shown as long as the loan is with the message, no longer and  *)
(* no less.                                                                *)
(***************************************************************************)
EXTENDS Naturals

CONSTANT Messages

VARIABLES
    loan,       \* none, message, receive, returned, forgotten
    shown,      \* the messages through which the program can read the memory
    returned    \* how often UCX was given each descriptor back

vars == <<loan, shown, returned>>

Init ==
    /\ loan = [m \in Messages |-> "none"]
    /\ shown = {}
    /\ returned = [m \in Messages |-> 0]

Lend(m) ==
    /\ loan[m] = "none"
    /\ loan' = [loan EXCEPT ![m] = "message"]
    /\ shown' = shown \cup {m}
    /\ UNCHANGED returned

\* Nobody is shown the memory that comes with a message without data.
LendUnseen(m) ==
    /\ loan[m] = "none"
    /\ loan' = [loan EXCEPT ![m] = "forgotten"]
    /\ UNCHANGED <<shown, returned>>

Receive(m) ==
    /\ loan[m] = "message"
    /\ loan' = [loan EXCEPT ![m] = "receive"]
    /\ shown' = shown \ {m}
    /\ UNCHANGED returned

Return(m) ==
    /\ loan[m] \in {"message", "receive"}
    /\ loan' = [loan EXCEPT ![m] = "returned"]
    /\ shown' = shown \ {m}
    /\ returned' = [returned EXCEPT ![m] = @ + 1]

\* Several loans may be forgotten at once, with the queue they are in.
Forget(S) ==
    /\ \A m \in S : loan[m] = "message"
    /\ loan' = [m \in Messages |-> IF m \in S THEN "forgotten" ELSE loan[m]]
    /\ shown' = shown \ S
    /\ UNCHANGED returned

Next ==
    \/ \E m \in Messages : Lend(m) \/ LendUnseen(m) \/ Receive(m) \/ Return(m)
    \/ \E S \in SUBSET Messages : Forget(S)

Spec == Init /\ [][Next]_vars
=============================================================================
