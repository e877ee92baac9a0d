------------------------------ MODULE Handshake ------------------------------
(***************************************************************************)
(* What connect_socket and accept promise the programs on the two sides of *)
(* a connection.  A connection is asked for, comes up once, and is final   *)
(* when it is down.  Each side is given its endpoint at most once and      *)
(* keeps it; the client only while the connection is up, and the server    *)
(* not before the client, unless the connection is gone by then.           *)
(***************************************************************************)
CONSTANT Requests

VARIABLES
    link,         \* none, pending, up, down
    connected,    \* the clients whose connect_socket returned an endpoint
    accepted      \* the requests whose accept returned one

vars == <<link, connected, accepted>>

Init ==
    /\ link = [r \in Requests |-> "none"]
    /\ connected = {}
    /\ accepted = {}

Moves(r, from, to) ==
    /\ link[r] \in from
    /\ link' = [link EXCEPT ![r] = to]
    /\ UNCHANGED <<connected, accepted>>

Ask(r) == Moves(r, {"none"}, "pending")
Meet(r) == Moves(r, {"pending"}, "up")
Break(r) == Moves(r, {"none", "pending", "up"}, "down")

ClientDone(r) ==
    /\ link[r] = "up" /\ r \notin connected
    /\ connected' = connected \cup {r}
    /\ UNCHANGED <<link, accepted>>

ServerDone(r) ==
    /\ r \notin accepted
    /\ link[r] = "down" \/ (link[r] = "up" /\ r \in connected)
    /\ accepted' = accepted \cup {r}
    /\ UNCHANGED <<link, connected>>

Next ==
    \E r \in Requests :
        Ask(r) \/ Meet(r) \/ Break(r) \/ ClientDone(r) \/ ServerDone(r)

Spec == Init /\ [][Next]_vars
=============================================================================
