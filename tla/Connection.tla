----------------------------- MODULE Connection ------------------------------
(***************************************************************************)
(* A listener together with the clients that connect to it: connect_socket *)
(* on one side, accept on the other (src/ucp/endpoint/mod.rs:125-185), and *)
(* between them what UCX makes of the connection.  Both calls end with a   *)
(* workaround: the client sends four bytes and the server receives them    *)
(* before either has its endpoint.  A call that fails, or whose future is  *)
(* dropped, drops its endpoint and so closes it by force.                  *)
(*                                                                         *)
(* A client is known by the request it sends.  The listener's part of each *)
(* step is that of module Listener, whose variables these are as well.     *)
(***************************************************************************)
EXTENDS Listener

VARIABLES
    client,    \* the connect_socket of each client
    server,    \* the accept of its request
    link,      \* the connection as UCX sees it
    bytes      \* the four bytes of the workaround

conn == <<client, server, link, bytes>>
connVars == <<vars, conn>>

Accepts == {"receiving", "accepted", "failed", "abandoned"}

\* The invariant that the variables range over the values listed here; there
\* is an accept for the requests that were accepted and for no others.
ConnectionTypeOK ==
    /\ TypeOK
    /\ client \in [Requests -> {"none", "connecting", "connected", "failed", "abandoned"}]
    /\ server \in [Requests -> {"none"} \cup Accepts]
    /\ \A r \in Requests : server[r] \in Accepts <=> place[r] = "accepted"
    /\ link \in [Requests -> {"none", "pending", "up", "down"}]
    /\ bytes \in [Requests -> {"none", "sent", "received"}]

ConnectionInit ==
    /\ Init
    /\ client = [r \in Requests |-> "none"]
    /\ server = [r \in Requests |-> "none"]
    /\ link = [r \in Requests |-> "none"]
    /\ bytes = [r \in Requests |-> "none"]

Becomes(f, r, s) == f' = [f EXCEPT ![r] = s]

-----------------------------------------------------------------------------
(* UCX.  It hands a request over late, or when the client has given up, or *)
(* never; it takes a connection down when either side closes or rejects    *)
(* it, or when the network fails.                                          *)

Deliver(r) ==
    /\ link[r] # "none"
    /\ ConnectHandler(r)
    /\ UNCHANGED conn

Fault(r) ==
    /\ link[r] \in {"pending", "up"}
    /\ Becomes(link, r, "down")
    /\ UNCHANGED <<vars, client, server, bytes>>

-----------------------------------------------------------------------------
(* connect_socket.                                                         *)

\* Endpoint::create succeeds and stream_send has to wait: UCX cannot send
\* before the server has accepted.
ConnectNoWait(r) ==
    /\ client[r] = "none"
    /\ Becomes(client, r, "connected") /\ Becomes(link, r, "pending")
    /\ UNCHANGED <<vars, server, bytes>>
Connect(r) ==
    /\ client[r] = "none"
    /\ Becomes(client, r, "connecting") /\ Becomes(link, r, "pending")
    /\ UNCHANGED <<vars, server, bytes>>

\* Either of them fails at once; in the second case the new endpoint is dropped.
ConnectFails(r) ==
    /\ client[r] = "none"
    /\ Becomes(client, r, "failed")
    /\ \E l \in {"none", "down"} : Becomes(link, r, l)
    /\ UNCHANGED <<vars, server, bytes>>

\* stream_send(&buf).await?
SendEndsWell(r) ==
    /\ client[r] = "connecting" /\ link[r] = "up"
    /\ Becomes(client, r, "connected") /\ Becomes(bytes, r, "sent")
    /\ UNCHANGED <<vars, server, link>>
SendEnds(r) ==
    /\ client[r] = "connecting"
    /\ \/ /\ link[r] = "up"
          /\ Becomes(client, r, "connected") /\ Becomes(bytes, r, "sent")
       \/ /\ link[r] = "down"
          /\ Becomes(client, r, "failed") /\ UNCHANGED bytes
    /\ UNCHANGED <<vars, server, link>>

ConnectAbandonedOpen(r) ==
    /\ client[r] = "connecting"
    /\ Becomes(client, r, "abandoned")
    /\ UNCHANGED <<vars, server, link, bytes>>
ConnectAbandoned(r) ==
    /\ client[r] = "connecting"
    /\ Becomes(client, r, "abandoned") /\ Becomes(link, r, "down")
    /\ UNCHANGED <<vars, server, bytes>>

-----------------------------------------------------------------------------
(* Worker::accept.                                                         *)

\* Endpoint::create takes the request and connects, unless it fails or the
\* client is gone; stream_recv waits, or is refused and the endpoint dropped.
AcceptNoRecv(r) ==
    /\ Accept(r)
    /\ Becomes(server, r, "accepted")
    /\ link' = [link EXCEPT ![r] = IF @ = "pending" THEN "up" ELSE @]
    /\ UNCHANGED <<client, bytes>>
AcceptBorrowing(r) ==
    /\ place[r] = "held" /\ PassToUcx(r)
    /\ Becomes(server, r, "receiving")
    /\ link' = [link EXCEPT ![r] = IF @ = "pending" THEN "up" ELSE @]
    /\ UNCHANGED <<phase, handle, sender, recver, came, taken, waker, waiting, ready, place,
                   client, bytes>>
WorkerAccept(r) ==
    /\ Accept(r)
    /\ \/ /\ Becomes(server, r, "receiving")
          /\ link' = [link EXCEPT ![r] = IF @ = "pending" THEN "up" ELSE @]
       \/ Becomes(server, r, "failed") /\ Becomes(link, r, "down")
    /\ UNCHANGED <<client, bytes>>

\* stream_recv(buf).await?  poll_stream drops the status of the receive, so
\* that it ends well, as far as accept() can tell, when the connection fails.
RecvEnds(r) ==
    /\ server[r] = "receiving"
    /\ \/ bytes[r] = "sent" /\ Becomes(bytes, r, "received")
       \/ link[r] = "down" /\ UNCHANGED bytes
    /\ Becomes(server, r, "accepted")
    /\ UNCHANGED <<vars, client, link>>

AcceptAbandoned(r) ==
    /\ server[r] = "receiving"
    /\ Becomes(server, r, "abandoned") /\ Becomes(link, r, "down")
    /\ UNCHANGED <<vars, client, bytes>>

\* Listener::reject tells the client, if UCX takes the request.
ListenerReject(r) ==
    /\ Reject(r)
    /\ link' = [link EXCEPT ![r] = IF place'[r] = "rejected" THEN "down" ELSE @]
    /\ UNCHANGED <<client, server, bytes>>

-----------------------------------------------------------------------------
ListenerAlone ==
    /\ \/ NewOk \/ NewFails \/ Destroy \/ DropFields
       \/ \E t \in Tasks : NextBegin(t) \/ Poll(t) \/ NextAbandoned(t)
       \/ \E r \in Requests : DropRequest(r)
    /\ UNCHANGED conn

ConnectionNext ==
    \/ ListenerAlone
    \/ \E r \in Requests :
          \/ Deliver(r) \/ Fault(r)
          \/ Connect(r) \/ ConnectFails(r) \/ SendEnds(r) \/ ConnectAbandoned(r)
          \/ WorkerAccept(r) \/ RecvEnds(r) \/ AcceptAbandoned(r) \/ ListenerReject(r)

\* The workers of both sides are polled, so UCX ends what it can end.
ConnectionFairness == \A r \in Requests : WF_connVars(SendEnds(r)) /\ WF_connVars(RecvEnds(r))

ConnectionSpec == ConnectionInit /\ [][ConnectionNext]_connVars
ConnectionFairSpec == ConnectionSpec /\ ConnectionFairness

-----------------------------------------------------------------------------
\* A connect_socket that returned Ok has an endpoint on the other side: its
\* request is not in a queue, or in a variable, or lost with the listener.
ConnectedMeansAccepted ==
    \A r \in Requests :
        client[r] = "connected" => place[r] = "accepted" /\ server[r] # "none"

\* The bytes of the workaround are out of the stream before the program uses
\* it: a client that has its endpoint has sent them, and an accepted endpoint
\* that still has its connection has received them.
StreamClean ==
    \A r \in Requests :
        /\ client[r] = "connected" => bytes[r] # "none"
        /\ server[r] = "accepted" /\ link[r] = "up" => bytes[r] = "received"

Pair == INSTANCE Handshake WITH
            connected <- {r \in Requests : client[r] = "connected"},
            accepted <- {r \in Requests : server[r] = "accepted"}

\* Across the listener, the two awaits and whatever goes wrong on either side,
\* a connection comes up once and stays down once it is, each side has one
\* endpoint for good, and a server that has a working one has it after its
\* client.
ImplementsHandshake == Pair!Spec

\* Under Fairness, connect_socket returns once its request was accepted or
\* rejected, whatever becomes of the accept.  While the request is queued, or
\* was dropped or stranded, nothing ends it but a fault or its own future.
ConnectReturns ==
    \A r \in Requests :
        client[r] = "connecting" /\ place[r] \in Settled ~> client[r] # "connecting"

\* Under Fairness, accept() returns, also when the client fails or gives up
\* before, during or after the accept.
AcceptReturns == \A r \in Requests : server[r] = "receiving" ~> server[r] # "receiving"
=============================================================================
