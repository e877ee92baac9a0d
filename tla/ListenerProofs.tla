--------------------------- MODULE ListenerProofs ----------------------------
(***************************************************************************)
(* Proofs about Listener and then about Connection, which adds the clients *)
(* and the accepts to it, for any number of requests, clients and tasks.   *)
(***************************************************************************)
EXTENDS Connection, SequenceTheorems, TLAPS

\* The channel lives as long as its Listener value, the UCX listener until
\* Drop::drop; only an open listener has a task in next().
PhaseFits ==
    /\ handle = "open" <=> phase = "open"
    /\ sender <=> phase \in {"open", "destroyed"}
    /\ recver <=> phase \in {"open", "destroyed"}
    /\ waiting # {} => phase = "open"
    /\ phase = "new" => came = <<>>

\* &mut self: one task waits at a time; it is registered or already woken.
OneWaits == \A t, u \in waiting : t = u
WaiterRegistered == waiting \subseteq ready \cup {waker}

\* What next() has yet to return is queued, and no request came twice.
CameHasLeft == \A i \in 1 .. Len(came) : place[came[i]] # "away"
QueueIsPlaced ==
    phase = "open" =>
        \A i \in 1 .. Len(came) : i > taken =>
            /\ place[came[i]] = "queued"
            /\ \A j \in 1 .. Len(came) : came[i] = came[j] => i = j

IInv ==
    /\ TypeOK
    /\ PhaseFits
    /\ OneWaits
    /\ WaiterRegistered
    /\ CameHasLeft
    /\ QueueIsPlaced
    /\ NoLostRequest
    /\ SettledOnce

-----------------------------------------------------------------------------
LEMMA InitInv == Init => IInv
<1> SUFFICES ASSUME Init PROVE IInv
    OBVIOUS
<1>1. came \in Seq(Requests) /\ Len(came) = 0 /\ taken = 0
      BY EmptySeq DEF Init
<1>2. TypeOK
  <2>1. taken \in 0 .. Len(came)
        BY <1>1
  <2>2. used \in [Requests -> Nat]
        BY DEF Init
  <2> QED
      BY <1>1, <2>1, <2>2, Zenon DEF Init, TypeOK
<1>3. PhaseFits /\ OneWaits /\ WaiterRegistered
      BY DEF Init, PhaseFits, OneWaits, WaiterRegistered
<1>5. CameHasLeft /\ QueueIsPlaced
      BY <1>1 DEF CameHasLeft, QueueIsPlaced
<1>4. NoLostRequest /\ SettledOnce
      BY <1>1 DEF Init, NoLostRequest, SettledOnce, Queued, Spent, Settled
<1> QED
    BY <1>2, <1>3, <1>4, <1>5 DEF IInv

\* Making, destroying and dropping the listener.
LEMMA PhaseStep ==
    IInv /\ (NewOk \/ NewFails \/ Destroy \/ DropFields) => IInv'
<1> SUFFICES ASSUME IInv, NewOk \/ NewFails \/ Destroy \/ DropFields PROVE IInv'
    OBVIOUS
<1> USE DEF NewOk, NewFails, Destroy, DropFields, chan
<1>1. TypeOK'
      BY DEF IInv, TypeOK, Lost
<1>2. PhaseFits'
      BY DEF IInv, PhaseFits
<1>3. OneWaits' /\ WaiterRegistered' /\ NoLostRequest'
      BY DEF IInv, OneWaits, WaiterRegistered, NoLostRequest, Queued
<1>4. CameHasLeft' /\ QueueIsPlaced'
      BY EmptySeq DEF IInv, TypeOK, PhaseFits, CameHasLeft, QueueIsPlaced
<1>5. SettledOnce'
      BY DEF IInv, TypeOK, SettledOnce, Spent, Settled
<1> QED
    BY <1>1, <1>2, <1>3, <1>4, <1>5 DEF IInv

\* UCX hands over a request: whoever waits is woken.
LEMMA HandlerStep == ASSUME IInv, NEW r \in Requests, ConnectHandler(r) PROVE IInv'
<1> USE DEF ConnectHandler, Wake
<1>1. /\ came' \in Seq(Requests)
      /\ Len(came') = Len(came) + 1 /\ Len(came) \in Nat
      /\ \A i \in 1 .. Len(came) : came'[i] = came[i]
      /\ came'[Len(came) + 1] = r
  <2>1. came \in Seq(Requests) /\ came' = Append(came, r)
        BY DEF IInv, TypeOK
  <2> QED
      BY <2>1, AppendProperties, LenProperties
<1>2. TypeOK'
      BY <1>1 DEF IInv, TypeOK
<1>3. PhaseFits' /\ OneWaits'
      BY DEF IInv, PhaseFits, OneWaits
<1>4. WaiterRegistered' /\ NoLostRequest'
      BY DEF IInv, WaiterRegistered, NoLostRequest
<1>5. SettledOnce'
      BY DEF IInv, TypeOK, SettledOnce, Spent, Settled
<1>6. \A j \in 1 .. Len(came) : came[j] # r /\ place'[came[j]] = place[came[j]]
      BY <1>1 DEF IInv, TypeOK, CameHasLeft
<1>7. CameHasLeft'
      BY <1>1, <1>6 DEF IInv, TypeOK, CameHasLeft
<1>8. QueueIsPlaced'
      BY <1>1, <1>6 DEF IInv, TypeOK, QueueIsPlaced
<1> QED
    BY <1>2, <1>3, <1>4, <1>5, <1>7, <1>8 DEF IInv

\* A turn of next() takes the first request, or registers the one that waits.
LEMMA TurnStep ==
    ASSUME IInv, NEW t \in Tasks, NextBegin(t) \/ Poll(t)
    PROVE  IInv'
<1> USE DEF NextBegin, Poll, Turn
<1>1. phase = "open" /\ waiting \subseteq {t} /\ Turn(t)
      BY DEF IInv, PhaseFits, OneWaits
<1>2. CASE TakeFirst(t)
  <2> USE <1>2 DEF TakeFirst, Queued
  <2>1. /\ Len(came) \in Nat /\ taken + 1 \in 1 .. Len(came)
        /\ came[taken + 1] \in Requests /\ place[came[taken + 1]] = "queued"
        BY <1>1, LenProperties, ElementOfSeq DEF IInv, TypeOK, QueueIsPlaced
  <2>2. TypeOK'
        BY <2>1, <1>1 DEF IInv, TypeOK
  <2>3. PhaseFits' /\ OneWaits' /\ WaiterRegistered' /\ NoLostRequest'
        BY <1>1 DEF IInv, PhaseFits, OneWaits, WaiterRegistered, NoLostRequest
  <2>4. CameHasLeft' /\ SettledOnce'
        BY <2>1, <1>1 DEF IInv, TypeOK, CameHasLeft, SettledOnce, Spent, Settled
  <2>5. QueueIsPlaced'
        BY <2>1, <1>1 DEF IInv, TypeOK, QueueIsPlaced
  <2> QED
      BY <2>2, <2>3, <2>4, <2>5 DEF IInv
<1>3. CASE Wait(t)
  <2> USE <1>3 DEF Wait, Queued
  <2>1. TypeOK' /\ PhaseFits'
        BY <1>1 DEF IInv, TypeOK, PhaseFits
  <2>2. OneWaits' /\ WaiterRegistered' /\ NoLostRequest'
        BY <1>1 DEF IInv, TypeOK, OneWaits, WaiterRegistered, NoLostRequest
  <2>3. CameHasLeft' /\ QueueIsPlaced' /\ SettledOnce'
        BY <1>1 DEF IInv, CameHasLeft, QueueIsPlaced, SettledOnce
  <2> QED
      BY <2>1, <2>2, <2>3 DEF IInv
<1> QED
    BY <1>1, <1>2, <1>3

LEMMA AbandonStep == ASSUME IInv, NEW t \in Tasks, NextAbandoned(t) PROVE IInv'
<1> USE DEF NextAbandoned
<1>1. TypeOK' /\ PhaseFits'
      BY DEF IInv, TypeOK, PhaseFits
<1>2. OneWaits' /\ WaiterRegistered' /\ NoLostRequest'
      BY DEF IInv, OneWaits, WaiterRegistered, NoLostRequest, Queued
<1>3. CameHasLeft' /\ QueueIsPlaced' /\ SettledOnce'
      BY DEF IInv, CameHasLeft, QueueIsPlaced, SettledOnce
<1> QED
    BY <1>1, <1>2, <1>3 DEF IInv

\* A request that next() returned is in the queue no more.
LEMMA RequestStep ==
    ASSUME IInv, NEW r \in Requests, Accept(r) \/ Reject(r) \/ DropRequest(r)
    PROVE  IInv'
<1> USE DEF Accept, Reject, DropRequest, MoveTo, PassToUcx, chan
<1>1. /\ place[r] = "held" /\ UNCHANGED <<phase, handle, chan>>
      /\ \E p \in Settled \cup Lost : place' = [place EXCEPT ![r] = p]
      BY DEF Settled, Lost
<1>2. TypeOK'
  <2>1. place' \in [Requests -> {"away", "queued", "held"} \cup Settled \cup Lost]
        BY <1>1 DEF IInv, TypeOK
  <2>2. used' \in [Requests -> Nat]
        BY DEF IInv, TypeOK
  <2> QED
      BY <1>1, <2>1, <2>2 DEF IInv, TypeOK
<1>3. PhaseFits' /\ OneWaits' /\ WaiterRegistered' /\ NoLostRequest'
      BY <1>1 DEF IInv, PhaseFits, OneWaits, WaiterRegistered, NoLostRequest, Queued
<1>4. CameHasLeft' /\ QueueIsPlaced'
      BY <1>1 DEF IInv, TypeOK, CameHasLeft, QueueIsPlaced, Settled, Lost
<1>5. SettledOnce'
      BY DEF IInv, TypeOK, SettledOnce, Spent, Settled
<1> QED
    BY <1>2, <1>3, <1>4, <1>5 DEF IInv

LEMMA StepInv == IInv /\ [Next]_vars => IInv'
<1> SUFFICES ASSUME IInv, [Next]_vars PROVE IInv'
    OBVIOUS
<1>1. CASE UNCHANGED vars
      BY <1>1 DEF vars, IInv, TypeOK, PhaseFits, OneWaits, WaiterRegistered,
         CameHasLeft, QueueIsPlaced, NoLostRequest, SettledOnce, Queued
<1> QED
    BY <1>1, PhaseStep, HandlerStep, TurnStep, AbandonStep, RequestStep DEF Next

LEMMA Invariance == Spec => []IInv
  BY InitInv, StepInv, PTL DEF Spec

-----------------------------------------------------------------------------
\* The variables of the listener keep their types.
THEOREM TypeCorrect == Spec => []TypeOK
  BY Invariance, PTL DEF IInv

\* As long as UCX may call connect_handler, or a task is in next(), both
\* halves of the channel exist.
THEOREM HandlerArgAlwaysValid == Spec => []HandlerArgValid
<1>1. IInv => HandlerArgValid
      BY DEF IInv, PhaseFits, HandlerArgValid
<1> QED
    BY <1>1, Invariance, PTL

\* No task sleeps in next() while a request is queued.
THEOREM NeverMissesRequest == Spec => []NoLostRequest
  BY Invariance, PTL DEF IInv

\* The handle of a request is passed to UCX once if the program accepts or
\* rejects it, and otherwise never, in any interleaving of arrivals, waits that
\* are given up and the end of the listener.
THEOREM EachSettledOnce == Spec => []SettledOnce
  BY Invariance, PTL DEF IInv

-----------------------------------------------------------------------------
(* Connection: the clients of a listener and the accepts of their requests. *)

\* A connection does nothing to its listener that a listener does not do.
LEMMA ListenerPart == [ConnectionNext]_connVars => [Next]_vars
<1> SUFFICES ASSUME [ConnectionNext]_connVars PROVE [Next]_vars
    OBVIOUS
<1>1. CASE ListenerAlone
      BY <1>1 DEF ListenerAlone, Next
<1>2. ASSUME NEW r \in Requests, Deliver(r) \/ WorkerAccept(r) \/ ListenerReject(r)
      PROVE  Next
      BY <1>2 DEF Deliver, WorkerAccept, ListenerReject, Next
<1>3. ASSUME NEW r \in Requests,
             \/ Fault(r) \/ Connect(r) \/ ConnectFails(r) \/ SendEnds(r)
             \/ ConnectAbandoned(r) \/ RecvEnds(r) \/ AcceptAbandoned(r)
      PROVE  UNCHANGED vars
      BY <1>3 DEF Fault, Connect, ConnectFails, SendEnds, ConnectAbandoned,
         RecvEnds, AcceptAbandoned, vars
<1> QED
    BY <1>1, <1>2, <1>3 DEF ConnectionNext, connVars, vars

\* Whatever clients, accepts and the network do, the listener of Connection is
\* a Listener: what is proved of one holds of the other.
THEOREM ImplementsListener == ConnectionSpec => Spec
<1>1. ConnectionInit => Init
      BY DEF ConnectionInit
<1> QED
    BY <1>1, ListenerPart, PTL DEF ConnectionSpec, Spec

-----------------------------------------------------------------------------
(* The two ends of a connection.                                           *)

\* A client that has not called connect_socket left no trace, and only what
\* it sent can be delivered.
NothingBefore ==
    \A r \in Requests :
        /\ client[r] = "none" => link[r] = "none"
        /\ link[r] = "none" => place[r] = "away"

\* Only an accept brings a connection up, and its failure takes it down; there
\* is none for a connection that is still pending.
UpMeansServed ==
    \A r \in Requests :
        /\ link[r] = "up" => server[r] \in {"receiving", "accepted"}
        /\ link[r] = "pending" => server[r] = "none"

\* The four bytes are sent once, by the call that returns with the endpoint.
SentByConnected ==
    \A r \in Requests : bytes[r] # "none" <=> client[r] = "connected"

\* What holds of the two ends, whatever else the listener does.
Ends ==
    /\ ConnectionTypeOK
    /\ NothingBefore
    /\ UpMeansServed
    /\ SentByConnected
    /\ ConnectedMeansAccepted
    /\ StreamClean

CInv == IInv /\ Ends

\* Nobody has called anything yet.
LEMMA InitConnection == ConnectionInit => CInv
<1> SUFFICES ASSUME ConnectionInit PROVE CInv
    OBVIOUS
<1>1. Init /\ IInv
      BY InitInv DEF ConnectionInit
<1>2. ConnectionTypeOK
      BY <1>1 DEF ConnectionInit, Init, ConnectionTypeOK, IInv, Accepts
<1> QED
    BY <1>1, <1>2 DEF ConnectionInit, Init, CInv, Ends, NothingBefore, UpMeansServed,
       SentByConnected, ConnectedMeansAccepted, StreamClean

\* The listener alone settles no request and forgets none.
LEMMA AloneStep == CInv /\ IInv' /\ ListenerAlone => Ends'
<1> SUFFICES ASSUME CInv, IInv', ListenerAlone PROVE Ends'
    OBVIOUS
<1>1. \A r \in Requests : /\ place'[r] = "away" <=> place[r] = "away"
                          /\ place'[r] = "accepted" <=> place[r] = "accepted"
  <2>1. CASE NewOk \/ NewFails \/ Destroy \/ DropFields
        BY <2>1 DEF NewOk, NewFails, Destroy, DropFields, CInv, IInv, TypeOK
  <2>2. ASSUME NEW t \in Tasks, NextBegin(t) \/ Poll(t) \/ NextAbandoned(t)
        PROVE  \/ UNCHANGED place
               \/ \E r \in Requests : /\ place[r] = "queued"
                                      /\ place' = [place EXCEPT ![r] = "held"]
    <3>1. CASE TakeFirst(t) /\ (NextBegin(t) \/ Poll(t))
      <4>1. phase = "open"
            BY <3>1 DEF NextBegin, Poll, CInv, IInv, PhaseFits
      <4>2. /\ taken + 1 \in 1 .. Len(came) /\ taken + 1 > taken
            /\ came[taken + 1] \in Requests
            BY <3>1, LenProperties, ElementOfSeq DEF TakeFirst, Queued, CInv, IInv, TypeOK
      <4> QED
          BY <3>1, <4>1, <4>2 DEF TakeFirst, CInv, IInv, QueueIsPlaced
    <3> QED
        BY <2>2, <3>1 DEF NextBegin, Poll, NextAbandoned, Turn, Wait
  <2>3. ASSUME NEW r \in Requests, DropRequest(r)
        PROVE  place[r] = "held" /\ place' = [place EXCEPT ![r] = "dropped"]
        BY <2>3 DEF DropRequest, MoveTo
  <2> QED
      BY <2>1, <2>2, <2>3 DEF ListenerAlone, CInv, IInv, TypeOK
<1>2. UNCHANGED <<client, server, link, bytes>>
      BY DEF ListenerAlone, conn
<1> QED
    BY <1>1, <1>2 DEF CInv, Ends, IInv, ConnectionTypeOK, NothingBefore, UpMeansServed,
       SentByConnected, ConnectedMeansAccepted, StreamClean

\* UCX hands over the request of a client that has called connect_socket, and
\* a connection that fails stays down.
LEMMA UcxStep ==
    ASSUME CInv, IInv', NEW r \in Requests, Deliver(r) \/ Fault(r)
    PROVE  Ends'
<1> USE DEF CInv, Ends, NothingBefore, UpMeansServed, SentByConnected,
        ConnectedMeansAccepted, StreamClean
<1>1. CASE Deliver(r)
  <2>1. /\ place[r] = "away" /\ place' = [place EXCEPT ![r] = "queued"]
        /\ link[r] # "none" /\ UNCHANGED <<client, server, link, bytes>>
        BY <1>1 DEF Deliver, conn, ConnectHandler
  <2>2. ConnectionTypeOK'
        BY <2>1 DEF ConnectionTypeOK, IInv, TypeOK, Accepts
  <2> QED
      BY <2>1, <2>2 DEF ConnectionTypeOK, IInv, TypeOK
<1>2. CASE Fault(r)
      BY <1>2 DEF Fault, Becomes, vars, ConnectionTypeOK, IInv
<1> QED
    BY <1>1, <1>2

\* A step of connect_socket.
LEMMA ClientStep ==
    ASSUME CInv, IInv', NEW r \in Requests,
           Connect(r) \/ ConnectFails(r) \/ SendEnds(r) \/ ConnectAbandoned(r)
    PROVE  Ends'
<1> USE DEF CInv, Ends, NothingBefore, UpMeansServed, SentByConnected,
        ConnectedMeansAccepted, StreamClean
<1>1. UNCHANGED <<place, server>> /\ ConnectionTypeOK'
      BY DEF Connect, ConnectFails, SendEnds, ConnectAbandoned,
         Becomes, vars, ConnectionTypeOK, IInv
<1>2. CASE Connect(r) \/ ConnectFails(r) \/ ConnectAbandoned(r)
      BY <1>1, <1>2 DEF Connect, ConnectFails, ConnectAbandoned, Becomes, ConnectionTypeOK
<1>3. CASE SendEnds(r)
      BY <1>1, <1>3 DEF SendEnds, Becomes, ConnectionTypeOK, Accepts
<1> QED
    BY <1>2, <1>3

\* A step of accept(), or the end of a request that is not accepted.
LEMMA ServerStep ==
    ASSUME CInv, IInv', NEW r \in Requests,
           WorkerAccept(r) \/ RecvEnds(r) \/ AcceptAbandoned(r) \/ ListenerReject(r)
    PROVE  Ends'
<1> USE DEF CInv, Ends, NothingBefore, UpMeansServed, SentByConnected,
        ConnectedMeansAccepted, StreamClean
<1>1. CASE WorkerAccept(r)
  <2>1. /\ place[r] = "held" /\ place' = [place EXCEPT ![r] = "accepted"]
        /\ UNCHANGED <<client, bytes>>
        BY <1>1 DEF WorkerAccept, Accept, MoveTo
  <2>2. server[r] = "none" /\ link[r] # "up" /\ client[r] # "connected"
        BY <2>1 DEF ConnectionTypeOK, Accepts
  <2>3. PICK x \in {"receiving", "failed"}, l \in {"none", "up", "down"} :
            /\ server' = [server EXCEPT ![r] = x] /\ link' = [link EXCEPT ![r] = l]
            /\ (l = "up" => x = "receiving") /\ (l = "none" => link[r] = "none")
        BY <1>1, <2>2 DEF WorkerAccept, Becomes, ConnectionTypeOK
  <2>4. ConnectionTypeOK'
        BY <2>1, <2>3 DEF ConnectionTypeOK, Accepts, IInv, TypeOK
  <2> QED
      BY <2>1, <2>2, <2>3, <2>4 DEF ConnectionTypeOK, IInv, TypeOK
<1>2. CASE RecvEnds(r) \/ AcceptAbandoned(r)
      BY <1>2
      DEF RecvEnds, AcceptAbandoned, Becomes, vars, ConnectionTypeOK, Accepts, IInv
<1>3. CASE ListenerReject(r)
  <2>1. /\ place[r] = "held"
        /\ place' \in {[place EXCEPT ![r] = "rejected"], [place EXCEPT ![r] = "refused"]}
        /\ UNCHANGED <<client, server, bytes>>
        BY <1>3 DEF ListenerReject, Reject, MoveTo
  <2>2. ConnectionTypeOK'
        BY <1>3, <2>1 DEF ListenerReject, ConnectionTypeOK, Accepts, IInv, TypeOK
  <2> QED
      BY <1>3, <2>1, <2>2 DEF ListenerReject, ConnectionTypeOK, IInv, TypeOK
<1> QED
    BY <1>1, <1>2, <1>3

LEMMA StepConnection == CInv /\ [ConnectionNext]_connVars => CInv'
<1> SUFFICES ASSUME CInv, [ConnectionNext]_connVars PROVE CInv'
    OBVIOUS
<1>1. IInv'
      BY ListenerPart, StepInv DEF CInv
<1>2. CASE UNCHANGED connVars
      BY <1>1, <1>2
      DEF connVars, vars, conn, CInv, Ends, ConnectionTypeOK, IInv, NothingBefore, UpMeansServed,
          SentByConnected, ConnectedMeansAccepted, StreamClean
<1> QED
    BY <1>1, <1>2, AloneStep, UcxStep, ClientStep, ServerStep DEF ConnectionNext, CInv

LEMMA ConnectionInvariance == ConnectionSpec => []CInv
  BY InitConnection, StepConnection, PTL DEF ConnectionSpec

-----------------------------------------------------------------------------
\* The variables of both ends keep their types, and an accept exists for the
\* requests that were accepted and for no others.
THEOREM ConnectionTypeCorrect == ConnectionSpec => []ConnectionTypeOK
  BY ConnectionInvariance, PTL DEF CInv, Ends

\* A connect_socket that returned Ok has an endpoint on the other side.
THEOREM ConnectedAreAccepted == ConnectionSpec => []ConnectedMeansAccepted
  BY ConnectionInvariance, PTL DEF CInv, Ends

\* The bytes of the workaround never get in the way of the program's own.
THEOREM StreamsAreClean == ConnectionSpec => []StreamClean
  BY ConnectionInvariance, PTL DEF CInv, Ends

-----------------------------------------------------------------------------
(* Refinement of Handshake.                                                *)

Connected == {r \in Requests : client[r] = "connected"}
Accepted == {r \in Requests : server[r] = "accepted"}

\* One client's connection moves on, and nobody is given an endpoint.
LEMMA LinkMoves ==
    ASSUME NEW r \in Requests, NEW l \in {"none", "pending", "up", "down"},
           link \in [Requests -> {"none", "pending", "up", "down"}],
           link' = [link EXCEPT ![r] = l], Connected' = Connected, Accepted' = Accepted,
           \/ l = link[r] \/ l = "down"
           \/ link[r] = "none" /\ l = "pending"
           \/ link[r] = "pending" /\ l = "up"
    PROVE  [Pair!Next]_(Pair!vars)
<1>1. CASE l = link[r]
  <2>1. link' = link
        BY <1>1
  <2> QED
      BY <2>1 DEF Pair!vars, Connected, Accepted
<1>2. CASE l # link[r]
  <2>1. Pair!Ask(r) \/ Pair!Meet(r) \/ Pair!Break(r)
        BY <1>2 DEF Pair!Ask, Pair!Meet, Pair!Break, Pair!Moves, Connected, Accepted
  <2> QED
      BY <2>1 DEF Pair!Next
<1> QED
    BY <1>1, <1>2

\* The client's side.
LEMMA ClientShakes ==
    ASSUME CInv, NEW r \in Requests,
           Connect(r) \/ ConnectFails(r) \/ SendEnds(r) \/ ConnectAbandoned(r)
    PROVE  [Pair!Next]_(Pair!vars)
<1>1. /\ link \in [Requests -> {"none", "pending", "up", "down"}]
      /\ DOMAIN client = Requests /\ UNCHANGED server
      /\ client[r] = "none" => link[r] = "none"
      BY DEF CInv, Ends, ConnectionTypeOK, NothingBefore,
         Connect, ConnectFails, SendEnds, ConnectAbandoned
<1>2. CASE SendEnds(r) /\ link[r] = "up"
  <2>1. /\ client[r] = "connecting" /\ client' = [client EXCEPT ![r] = "connected"]
        /\ UNCHANGED link
        BY <1>2 DEF SendEnds, Becomes
  <2>2. Connected' = Connected \cup {r} /\ r \notin Connected
        BY <1>1, <2>1 DEF Connected
  <2>3. Pair!ClientDone(r)
        BY <1>1, <1>2, <2>1, <2>2 DEF Pair!ClientDone, Connected
  <2> QED
      BY <2>3 DEF Pair!Next
<1>3. CASE ~(SendEnds(r) /\ link[r] = "up")
  <2>1. PICK l \in {"none", "pending", "up", "down"} :
            /\ link' = [link EXCEPT ![r] = l]
            /\ l \in {link[r], "down"} \/ (link[r] = "none" /\ l = "pending")
        BY <1>1, <1>3 DEF Connect, ConnectFails, SendEnds, ConnectAbandoned, Becomes
  <2>2. Connected' = Connected /\ Accepted' = Accepted
        BY <1>1, <1>3 DEF Connect, ConnectFails, SendEnds, ConnectAbandoned, Becomes,
           Connected, Accepted
  <2> QED
      BY <1>1, <2>1, <2>2, LinkMoves
<1> QED
    BY <1>2, <1>3

\* The server's side.
LEMMA ServerShakes ==
    ASSUME CInv, NEW r \in Requests,
           WorkerAccept(r) \/ RecvEnds(r) \/ AcceptAbandoned(r) \/ ListenerReject(r)
    PROVE  [Pair!Next]_(Pair!vars)
<1>1. /\ link \in [Requests -> {"none", "pending", "up", "down"}]
      /\ DOMAIN server = Requests /\ UNCHANGED client
      BY DEF CInv, Ends, ConnectionTypeOK, WorkerAccept, RecvEnds, AcceptAbandoned,
         ListenerReject
<1>2. CASE RecvEnds(r)
  <2>1. /\ server[r] = "receiving" /\ server' = [server EXCEPT ![r] = "accepted"]
        /\ UNCHANGED link /\ (bytes[r] = "sent" \/ link[r] = "down")
        BY <1>2 DEF RecvEnds, Becomes
  <2>2. Accepted' = Accepted \cup {r} /\ r \notin Accepted
        BY <1>1, <2>1 DEF Accepted
  <2>3. link[r] = "down" \/ (link[r] = "up" /\ r \in Connected)
    <3>1. link[r] \notin {"none", "pending"}
          BY <2>1 DEF CInv, Ends, ConnectionTypeOK, Accepts, NothingBefore, UpMeansServed
    <3>2. bytes[r] = "sent" => r \in Connected
          BY DEF CInv, Ends, SentByConnected, Connected
    <3> QED
        BY <1>1, <2>1, <3>1, <3>2
  <2>4. Pair!ServerDone(r)
        BY <1>1, <2>1, <2>2, <2>3 DEF Pair!ServerDone, Connected, Accepted
  <2> QED
      BY <2>4 DEF Pair!Next
<1>3. CASE WorkerAccept(r) \/ AcceptAbandoned(r) \/ ListenerReject(r)
  <2>1. PICK l \in {"none", "pending", "up", "down"} :
            /\ link' = [link EXCEPT ![r] = l]
            /\ l \in {link[r], "down"} \/ (link[r] = "pending" /\ l = "up")
        BY <1>1, <1>3 DEF WorkerAccept, AcceptAbandoned, ListenerReject, Becomes
  <2>2. server[r] # "accepted"
        BY <1>3 DEF WorkerAccept, Accept, MoveTo, AcceptAbandoned, ListenerReject, Reject,
           CInv, Ends, ConnectionTypeOK, Accepts
  <2>3. Accepted' = Accepted /\ Connected' = Connected
        BY <1>1, <1>3, <2>2 DEF WorkerAccept, AcceptAbandoned, ListenerReject, Becomes,
           Connected, Accepted
  <2> QED
      BY <1>1, <2>1, <2>3, LinkMoves
<1> QED
    BY <1>2, <1>3

LEMMA NextShakes == CInv /\ [ConnectionNext]_connVars => [Pair!Next]_(Pair!vars)
<1> SUFFICES ASSUME CInv, [ConnectionNext]_connVars PROVE [Pair!Next]_(Pair!vars)
    OBVIOUS
<1>1. CASE UNCHANGED conn
      BY <1>1 DEF conn, Pair!vars
<1>2. ASSUME NEW r \in Requests, Fault(r) PROVE [Pair!Next]_(Pair!vars)
  <2>1. link' = [link EXCEPT ![r] = "down"] /\ UNCHANGED <<client, server>>
        BY <1>2 DEF Fault, Becomes
  <2> QED
      BY <2>1, LinkMoves DEF CInv, Ends, ConnectionTypeOK, Connected, Accepted
<1> QED
    BY <1>1, <1>2, ClientShakes, ServerShakes
    DEF ConnectionNext, ListenerAlone, Deliver, connVars

\* Whatever goes wrong on either side, a connection comes up once, each side
\* has its endpoint once and for good, and a server with a working one has it
\* after its client (ImplementsHandshake).
THEOREM ConnectionRefinement == ConnectionSpec => ImplementsHandshake
<1>1. ConnectionInit => Pair!Init
      BY DEF ConnectionInit, Pair!Init
<1> QED
    BY <1>1, ConnectionInvariance, NextShakes, PTL
    DEF ConnectionSpec, ImplementsHandshake, Pair!Spec

\* What is proved of a Listener, for the listener of Connection: its callback
\* has its argument, no task sleeps on a queued request, and each request is
\* passed to UCX once at most.
COROLLARY ListenerSafe == ConnectionSpec => [](HandlerArgValid /\ NoLostRequest /\ SettledOnce)
  BY ImplementsListener, HandlerArgAlwaysValid, NeverMissesRequest, EachSettledOnce, PTL
=============================================================================
