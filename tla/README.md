# A TLA+ model of async-ucx

async-ucx wraps UCX, a C library for network communication, in Rust futures.
This directory holds TLA+ modules that model its core, TLC configurations that
check them on small instances, and TLAPS proofs for every value of their
constants. Paths below are relative to the root of the repository
(`src/ucp/...`); `am.rs:411` is line 411 of `src/ucp/endpoint/am.rs`, `mod.rs`
without a directory is `src/ucp/endpoint/mod.rs`.

## 1. The system

Everything runs on one thread: `Worker` is an `Rc`, and its tasks are spawned
with `spawn_local`. Between two awaits a task runs alone. UCX acts only inside
`Worker::progress`, called by the polling task, and from there calls back into
the library: the error handler of an endpoint, the completion callback of a
request, the handler of an active-message id.

| Component | State | Operations | What is hard |
|---|---|---|---|
| Endpoint life cycle (`endpoint/mod.rs`) | `closed`, `status`, the raw handle in every clone, a weak reference lent to UCX | `create`, clone, `close`, drop, error handler, `is_closed`, `get_status`, every operation | clones share one handle; closes and drops of several tasks; failed, refused and abandoned closes |
| Futures and requests (`endpoint/mod.rs`, `ucp/mod.rs`) | the UCX request, its `AtomicWaker`, the `RequestHandle` of the call | `poll`, drop, the completion callbacks, the loop of `close` | requests are reused with what is left in them; completion between the two looks of a poll; futures dropped early |
| Active-message streams (`am.rs:361-493`) | UCX's handler, `am_streams`, per stream a queue, a `Notify` and `unregistered` | `am_stream`, `am_register`, callback, `wait_msg` | several waiters, cancelled waiters, replacing the handler while messages are queued |
| Active-message data (`am.rs:28-359`) | the descriptor of a Data or Rndv message | `recv_data*`, drop | who releases the descriptor on each path |
| Tag, stream, RMA and AM transfers (`tag.rs`, `stream.rs`, `rma.rs`, `am.rs:497-602`) | none of their own | `tag_send`, `tag_recv`, `stream_send`, `stream_recv`, `put`, `get`, `am_send`, `flush` | the three-way answer of UCX (NULL, pointer, error); poll functions that drop the status |
| Worker loop (`ucp/worker.rs`) | `Rc` count, UCX's event descriptor | `polling`, `event_poll`, `arm`, `progress` | arm against a late event; ending when the last user is gone |
| Listener (`ucp/listener.rs`) | the channel of connection requests, UCX's pointer to its sending half | connection handler, `next`, `reject`, accept and drop of a request, drop | waits that are given up; requests that are used up whatever UCX answers, or queued when the listener is dropped |
| Connection (`endpoint/mod.rs:125-185`) | none but the endpoints it makes | `connect_socket`, `accept` and their stream workaround | either side fails or gives up at any point of the other's |
| Ownership (`ucp/mod.rs`, `worker.rs`, `listener.rs`, `endpoint/*`) | `Arc<Context>`, `Rc<Worker>`, `Rc<EndpointInner>`, raw handles | constructors, clones and drops | the order of teardown; loops that hold the worker they poll |
| Statuses (`src/lib.rs`, `ucx1-sys/src/lib.rs`) | none | `Error::from_*`, `UCS_PTR_*` | one word that is NULL, a pointer or an 8-bit error |

What makes each correct:

* Endpoint: UCX never holds a dangling argument for its error handler; the weak
  reference is given back once; nobody uses the handle after `closed()`, but to
  unpack a remote key; a dropped endpoint is released; `close` returns.
* Futures: a call that waits is woken; it answers once and with its own
  outcome; every request is freed once.
* Streams: each message is delivered once and in order to one task; no message
  is left in the queue while everybody sleeps; `None` is final.
* Message data: a descriptor is released at most once, and not forgotten but in
  four places.
* Worker loop: no event is slept through; the loop ends.
* Listener: its callback's argument is alive; no task sleeps on a request; each
  is passed to UCX once at most.
* Connection: who is connected was accepted; both calls return; the bytes of the
  workaround never reach the program.
* Ownership: nothing is destroyed before what was made with it is gone, or, for an
  endpoint, before UCX was told to close it; a call's worker is
  polled as long as the call can wait; all is released in the end.
* Statuses: the caller is told what UCX meant, wherever the library asks.

`PROJECT.json` lists, under `hazards`, where each of these is at risk in the
code and which property watches over it.

## 2. Modules

### Endpoint (abstract: EndpointContract; proofs: EndpointProofs)

One endpoint, its clones, and UCX's side of it. `closed` and `status` are the
fields of `EndpointInner`; `weak` counts the references UCX owns; `held` is the
set of tasks with a clone, so `held # {}` is when `Weak::upgrade` succeeds;
`ep` is the handle as UCX sees it; `call` and `req` are the call of each task
and the request it waits for. Two history variables record that a close was
accepted and not seen to succeed (`unseen`) and which uses were made of the
handle after `closed()` (`reused`).

| Action | Code |
|---|---|
| `CreateOk`, `CreateFails` | `Endpoint::create`, mod.rs:82-123 |
| `Clone`, `Drop` | `#[derive(Clone)]`, `Drop`, mod.rs:287-301 |
| `OpBegin`, `OpEnd` | `get_handle`, then any operation (`flush`), to its end or to the drop of its future |
| `Unpack`, `PrintInfo` | `RKey::unpack`, rma.rs:89, which passes the handle unchecked, and `print_to_stderr`, mod.rs:204 |
| `CloseBegin`, `CloseSees`, `CloseAbandoned` | `close`, mod.rs:235-273, up to the yield, a turn of the loop that finds the end, the future dropped at the yield |
| `ErrHandler` | the callback of `create`, mod.rs:89-101 |
| `UcxCompletesOp`, `UcxCompletesClose` | external: inside `progress` |

A call that returns without touching anything (a forced close of a closed
endpoint, `get_status`) is no step. Every use of the handle is one, and is
recorded in `reused` when `closed()` ran before: `OnlyUnpackOnceClosed` says that
`RKey::unpack` is the only one ever recorded.

UCX is modelled as its header documents it: `ucp_ep_close_nb` may finish at
once, hand out a request, or answer with an error, and in the last case, too,
the endpoint can no longer be used. It never calls the error handler of an
endpoint whose close it has accepted. The branch of `ErrHandler` that finds no
clone is kept, as in the code; `HandlerArgValid` says that it is never taken.

`EndpointContract` is what the tasks may rely on: open, failed or closed once
and for all; errors not taken back; the argument of the handler alive exactly
while the endpoint is open or failed.

### Request (abstract: Operation; proofs: RequestProofs)

The pool of UCX requests (`slot`), the `AtomicWaker` that stays in each slot
from one use to the next (`waker`), and the calls (`pc`, `handle`, `kind`,
`ready`). A poll is three steps (`Check`, `Register`, `Recheck`,
mod.rs:311-318), and UCX may complete a request between any two of them. On
the one thread of the library that cannot happen, so the model has more
behaviours than the code; the double check is written for that case, and
every property is shown of the larger set.

`Post` and `Immediate` are the answers of UCX, taken by `StartSend` (the sends,
`put`, `get`, `flush`), `StartTagRecv`, `StartStreamRecv`, `StartAmRecv` and
`StartClose`. `kind` says how the call learns of the end: through `poll_normal`
or `poll_tag` (checked), `poll_stream` or `poll_recv` (unchecked: the status is
dropped), or the loop of `close`, which neither registers nor frees on drop.
`ForgetClose` is the close started by `Drop` or by the error handler, whose
request nobody keeps. `Abandon` is the drop of a future: the request is freed,
and if it was active UCX takes it back later (`Reclaim`). `Poll` happens to any
parked call, since a future inside a `join` or `select` is polled for reasons
of its own; `truth` and `forgotten` are history.

`Operation` knows nothing of slots, wakers or polls: a call has one operation,
answers once, after it has ended, with its outcome.

### AmStream (abstract: AmChannel; proofs: AmStreamProofs)

The streams of one id, made one after another. `handler` is what UCX calls,
`registered` the entry of `Worker::am_streams`; each stream has its queue
`msgs`, its flag `unregistered` and its `Notify`: `permit`, `waiters` (in order)
and `notified` (taken off the list, not yet run). A turn of the loop of
`wait_msg` (am.rs:411-422) is one step: `TakeMsg`, `NoMore` or `Sleep`.
`Make` and `RegisterOther` contain the whole of `am_register`, the removal and
the flag of the old stream included. `Abandon` is the drop of a waiting
`wait_msg`, where tokio hands an unused notification on.

`AmChannel` says what the tasks get: messages in order, each to one task, and
`None` only when the stream is closed and empty.

### AmMsg (abstract: DescriptorLoan; proofs: AmMsgProofs)

The messages themselves: `type` is the `AmDataType`, `data` whether
`RawMsg::data` is `Some`, `desc` where the descriptor of a Data or Rndv message
is (with UCX, lent to the library, being received), `call` a receive that waits.
`returned` counts how often it was given back, and `lost` says why it never
will be; both are history. `Arrive` is `AmData::from_raw` with the answer of the
callback to UCX, for any flags, with data and without: `from_raw` looks for data
first (am.rs:36), the callback at the flags alone (am.rs:450), so that a flagged
message without data leaves its descriptor with nobody. `RecvData` and `RecvDataVectored` are the two receives with
everything up to their await (`recv_data_single` is the second with one buffer;
`fits` says whether the buffers are large enough); `RecvEnds` and
`RecvAbandoned` are the end of that await; `DropMsg` is `Drop`. `DiscardQueue` is
the drop of a stream with messages queued. Of `AmStream` only the set of queued
messages is kept.

`DescriptorLoan` is what UCX may expect of a borrower: the loan of a descriptor
goes from the message to a receive or straight back, is over once it was returned
or forgotten, and the memory is shown exactly while the message has it. `LoanOf`
reads the loan off `type`, `desc`, `call` and `lost`.

### WorkerLoop (proofs: WorkerLoopProofs)

The tasks that run `polling` and `event_poll` on one worker. `pc` is the place
in the loop: its condition (`head`), `progress`, `arm`, or one of the two awaits,
`yielded` and `asleep`. A step between awaits excludes other tasks (`Quiet`), but
not UCX: `Event` may happen at any point. `users` are the other references to
the worker, so `OthersExist` is `Rc::strong_count(&self) > 1`; `ready` is the
readiness tokio keeps for the `AsyncFd`; `work` what `progress` has yet to handle.

Of UCX and tokio it is assumed that `ucp_worker_arm` answers BUSY when there is
something to do, that the first event after arming makes the descriptor
readable, and that the descriptor may become readable otherwise, too. A second
`AsyncFd` on a descriptor is refused, so one `event_poll` runs at a time.

### Runtime (extends Request, composes WorkerLoop; proofs: RequestProofs)

Request assumes that UCX ends every active request; Runtime does not. A request
ends in two steps here: UCX finishes it (`Finished`, an event of the worker), and
a loop that makes progress handles the event and runs the callback
(`Progress` of WorkerLoop together with `Complete` or `Reclaim` of Request).
`Free` says that the one thread is between two polls, which every start, poll,
drop and resumption waits for. The users of WorkerLoop are the tasks and the
rest of the program: a call borrows the reference of its task, since its endpoint
holds one. The variables of
Request are variables here; `kind`, `pc`, `armed` and `ready` of WorkerLoop are
called `loop`, `at`, `armed` and `readable`, and its `work` is the number of
requests in `pending`. What the two modules have in common in name is prefixed
here: `RuntimeInit`, `RuntimeNext`, `RuntimeSpec`, `RuntimeTypeOK`.

### Listener (proofs: ListenerProofs)

A `Listener` and the requests UCX hands it. `sender` and `recver` are the two
halves of the channel, `came` what was sent into it, `taken` how many of them
`next()` has returned, `waker` the task that futures' channel will wake, `place`
where each request has got to.

| Action | Code |
|---|---|
| `NewOk`, `NewFails` | `Listener::new`, listener.rs:45-91 |
| `ConnectHandler` | the callback of `new`, listener.rs:49-56 |
| `NextBegin`, `Poll`, `NextAbandoned` | `next`, listener.rs:102, a poll of its future, its drop |
| `Accept` | `Worker::accept` up to `Endpoint::create`, mod.rs:169-178 |
| `Reject`, `DropRequest` | `reject`, listener.rs:106, and the drop of a request |
| `Destroy`, `DropFields` | `Drop`, listener.rs:113, and the fields after it |

`next` takes `&mut self`, so one task waits at a time; it may give up and another
wait after it, which finds the waker of the first in the channel. That requests
come out once and in order is what the channel of `futures` promises, and is
assumed here (`came`, `taken`); `used` counts how often the handle of a request
was passed to UCX. `Reject` takes the request with it, whether UCX rejects it or
refuses to.

### Connection (extends Listener; abstract: Handshake; proofs: ListenerProofs)

Each request belongs to a client; `client` and `server` are its `connect_socket`
and the `accept` of its request, `link` the connection as UCX sees it, `bytes`
the four bytes that both calls end with. A step that touches the listener is a
step of Listener and what it does to the connection. `SendEnds` and `RecvEnds`
are the ends of the two awaits: `stream_send` reports a failure, `stream_recv`
does not (see Findings). A call that fails or whose future is dropped drops its
endpoint, and so takes the connection down. What UCX does in between - late
delivery, delivery of a request whose client has given up, faults - is external.

`Handshake` knows of no listener, bytes or waiting calls: a connection is asked
for, comes up once and stays down once it is; each side is given its endpoint
once, the client while the connection is up, the server after its client unless
the connection is gone.

### Ownership (proofs: OwnershipProofs)

Objects of seven kinds, from contexts to polling tasks, in one map: how far each
is in its life (`stage`), what it was made with (`maker`), who holds it (`refs`:
variables of the program, and objects that have it as a field). `Kept` are the
kinds that hold their maker; listeners and remote keys do not. A drop has two
steps, as in Rust: `Destroy` is `Drop::drop`, which calls UCX, `DropFields` lets
go of the maker, whose own drop may begin with that. `LoopEnds` is the condition
of `polling` (worker.rs:52).

An endpoint has no such destructor for its last reference: UCX is told to close
it by `close` (mod.rs:248) and by the drop of any clone (mod.rs:291), perhaps more
than once and with the close still under way when the last clone is gone. `told`
says of which endpoints it was told, by `Close` or by `Drop`, and an endpoint
whose last clone goes has nothing left to do but to drop the fields of its
`EndpointInner`. How often UCX is told, and how its closes end, is in Endpoint.

### Status (proofs: StatusProofs)

The word UCX answers with, the tests on it, and the forms of call site: `"send"`
for the sends, `put`, `get` and `flush` (NULL, then `UCS_PTR_IS_PTR`, then
`from_ptr(..).unwrap_err()`), `"recv"` for the receives of a stream and of
active-message data (the same, but their poll functions, stream.rs:81 and
am.rs:604, drop the status of the request), tag receives (`from_ptr` only), `close` (`from_status` of the raw status), and
the closes of `Drop` and of the error handler, which only log. `Units` sets the
width of a word, so that sign extension, the unsigned comparison and the cut to
8 bits are what they are in the code. `said` is what UCX meant. `FromError` gives
each code its own variant of `Error`, named by the code itself: the 31 arms of
the match (lib.rs:109-144) were compared by reading, not by a run. A program may
call `UCS_PTR_STATUS`, which is public in ucx1-sys and not used by the library.

### Faulty variants

Next to some operators stand variants of them (`DropOnlyHealthy`,
`MakeUncounted`, `ArriveSilently`, ...). They are mistakes that could be made
in that code; no specification uses them. Put in the place of the operator that
follows them they break a property, as listed under `mutants` in `PROJECT.json`,
which shows that the property speaks about the code.

## 3. Runs

| Run | Bounds | What it shows |
|---|---|---|
| `endpoint` | 3 tasks, 2 statuses | `HandlerArgValid`, `WeakHeldUntilClosed`, `OnlyUnpackOnceClosed`, `ClosedIfSeen`, refinement of the contract, `DroppedIsReleased`, `CloseReturns` |
| `endpoint_isclosed` | 2 tasks | finding: `is_closed()` is wrong after a failed or abandoned close |
| `request` | 2 tasks, 2 slots | `NoLostWakeup`, `SlotsAccounted`, refinement of `Operation`, `CallsReturn`, `SlotsReturn` |
| `request_answers` | 2 tasks, 2 slots | finding: a failed receive answers Ok |
| `amstream` | 3 tasks, 2 streams, 3 messages | `HandlerIsMapped`, `NoMissedMessage`, refinement of `AmChannel`, `MessagesTaken` |
| `ammsg` | 2 messages | `DataIsValid`, `DescriptorReachable`, refinement of `DescriptorLoan` |
| `workerloop` | 2 references, 3 loops, 3 events | `NoEventSleptThrough`, `EventsHandled`, `PollingEnds` |
| `runtime` | 1 task and the rest of the program, 1 slot, 2 loops | `NobodySleepsOnAnAnswer`, `CallsServed` |
| `listener` | 3 requests, 2 tasks | `HandlerArgValid`, `NoLostRequest`, `SettledOnce`, `NextReturns` |
| `connection` | 2 clients, 1 task | `ConnectedMeansAccepted`, `StreamClean`, refinement of `Handshake`, `ConnectReturns`, `AcceptReturns` |
| `ownership` | one object of each kind, 2 polling tasks, 2 variables | `MakersOutlive`, `CallsArePolled`, `ReleasedInTheEnd` |
| `status` | words of 9 bits, UCX's error codes | `ToldWhatWasSaid` |

The type invariants, which are proved for all bounds, and the few simple
invariants that the proofs state as theorems besides (`ClosedMeansReset`,
`SleeperRegistered`, `UnregisteredIsUnmapped`, `ReturnedOnce`), are not repeated
by a run.

Why the bounds suffice. Three tasks let one wait in `close`, one use the handle
and one drop its clone; two statuses tell the one `closed()` sets from another.
Two slots let one be reused while the other is in flight and leave room for a
stale waker of each; two tasks are its owner and the owner of the slot. Three
waiters and three messages give one notified, one sleeping and one cancelled;
two streams give one replaced by the next. Messages of `AmMsg` meet only in the
queue that is dropped, so two are enough. Three loops are a sleeper, one that
makes progress under it, and one spawned in place of another; three events come
before, at and after `arm`. In Runtime two loops are needed for one to handle
what the other is about to sleep on, and a task and the rest of the program to
hand the last reference on; calls meet only in Request, events only in
WorkerLoop, with more of each. The run passes with two slots, too, in some
minutes. Three requests are one waited for, one queued behind it and one that
comes later; two tasks, one that gives up and one that waits after it. Two
clients are one that waits while the other is served, since connections do not
meet but in the listener. In Ownership the context is shared by a worker and a
region, the worker by an endpoint and two loops, and two variables hold clones
of everything that can be cloned. Nine bits are a byte and one bit above it; the
proof is for any width. The spaces are exhausted. Every safety
property and every refinement that a run checks is proved for all bounds as well
(section 4).

`CHECK_DEADLOCK FALSE` appears where the system may stop: when all clones of an
endpoint are dropped, or its creation failed; when every message is dropped;
when all loops have ended, or one sleeps and no further event comes; when the
listener is gone and its requests have come to their ends; when everything was
released.

### Fairness

* `Endpoint!Fairness`: UCX completes an accepted close (the worker's polling
  task keeps calling `progress`, as the examples set it up and as every await
  of the library requires), and the task inside `close` is polled again, since
  `yield_now` wakes it. Nobody is assumed to close, drop or operate.
* `Request!Fairness`: a poll that has begun ends; a task that was woken is
  polled; UCX ends every active request and takes back a released one. The
  fairness of `Poll` requires `ready`: a task that is not woken may sleep for
  ever, so `CallsReturn` fails if a wake-up is lost.
* `AmStream!Fairness`: a notified task runs. Messages need not arrive.
* `WorkerLoop!Fairness`: a loop that runs goes on to its next await (weak
  fairness), and a task that yielded, or whose descriptor is readable, gets its
  turn (strong fairness, since the thread is busy in between; the queue of the
  executor is first in, first out). Nothing is assumed of users and events.
* `Runtime!Fairness`: UCX finishes every request; a poll that has begun goes on,
  and so does a loop that runs (weak fairness); a task that was woken and a loop
  that may resume get their turns (strong fairness, since others take the thread
  in between). That anybody is told of a finished request is not assumed:
  `CallsServed` shows it, unless every loop was aborted.
* `Listener!Fairness`: a task in `next()` that was woken is polled. Requests
  need not arrive.
* `Connection!Fairness`: `stream_send` and `stream_recv` end once the connection
  lets them, that is, the workers of both sides are polled. Nobody is assumed to
  accept, reject, fail or give up, and no connection is assumed to be delivered.
* `Ownership!Fairness`: a drop that has begun goes on to its end, and a polling
  task looks at its condition. The program need not drop anything.

A worker that nobody polls makes no progress: the liveness results say nothing
of such a program.

### Findings

* `endpoint_isclosed`: `close` calls `closed()` only when its request ended
  well (mod.rs:262). After an error, a refusal (mod.rs:268-271) or a dropped
  future, UCX has released the handle, yet `is_closed()` ("Whether the endpoint
  is closed.", mod.rs:187) answers false for ever, and `Drop` closes the handle
  again. `ClosedIfSeen` states, and is proved for, the case that remains.
* `request_answers`: `poll_recv` and `poll_stream` drop the status of the
  request, so a failed receive answers Ok with the announced length
  (am.rs:288) or with a length nobody wrote (stream.rs:87), against "Returns
  the number of bytes received." (am.rs:178).

Not checked as findings, but worth knowing: requests queued when a `Listener` is
dropped are neither accepted nor rejected (`"stranded"`, listener.rs:113; the doc
of the type asks the program for one of the two); a listener or a remote key may outlive its worker and then
passes UCX a handle into it (`MakersOutlive` excepts them); two polling tasks of
one worker keep it alive for ever (`ReleasedInTheEnd` excepts them);
`UCS_PTR_STATUS(NULL)` panics in a debug build, unlike the macro quoted under it
(`ToldWhatWasSaid` names the case); `RKey::unpack` passes UCX the handle of an
endpoint that was closed (`OnlyUnpackOnceClosed` excepts it); and a message
without data that carries the DATA or RNDV flag leaves its descriptor with
nobody, one of the four places where descriptors are forgotten that
`DescriptorReachable` names: an empty flagged message, buffers too small for a
Data message, a receive that UCX refuses, and a queue that is dropped.

## 4. Proofs

TLAPS checks the eight `*Proofs` modules. Assumptions: `ConnReset` is one of the
faults and `Ok` is not; `NoSlot` and `NoTask` are outside their sets; the tasks
of `AmStream` are finitely many, its bounds and that of `WorkerLoop` natural
numbers; the kinds of `Ownership` do not overlap; a word of `Status` has more
than one byte, and UCX's codes lie above `UCS_ERR_LAST` in an 8-bit integer; in
`Runtime` the requests that UCX can have handed out at a time are finitely many.

**Endpoint.** The properties are not inductive alone. `IInv` adds: before
creation nothing exists (`NothingBeforeCreate`); the flag is set, and a `close`
waits, only after UCX was told to close (`ClosedAfterUcx`); the last drop leaves
the endpoint closed (`DroppedIsClosed`); a call keeps its clone (`CallsBorrow`);
while `is_closed()` lags without a failed or abandoned close, some `close` is
still to see the answer (`LagHasWitness`). From it follow `HandlerArgAlwaysValid`,
`WeakAccounted`, `UsedOnceClosedByUnpack`, `ClosedFlagExact` and `Refinement`, which
maps each step that runs `closed()` to `ShutDown` of the contract.

**Request.** `NoLostWakeup` rests on who owns a slot (`IdleHoldsNothing`,
`SlotsAccounted`), on the waker between registration and second look
(`RegistrationHolds`: it is in place, or the request has ended, or the task will
be polled), on `SleeperRegistered`, and on the loop of `close` waking itself
(`CloseWakesItself`). `Refinement` maps a call to the operation in its slot; the
lemma `LetGo` says that giving a request back leaves the other calls' operations
alone.

**Runtime.** Every step of Runtime is one of Request or leaves its variables as
they are (`RequestPart`), so that `ImplementsRequest` brings the invariant of
Request along, and `RuntimeRefinement` its refinement. `RInv` adds what the loops
need, in terms of pending requests instead of counted events: only an `event_poll`
arms, an armed worker has nothing pending, a sleeper that is not about to wake is
armed, and a loop that ended by itself was the last to hold the worker
(`EndsLast`). `PendingCount` ties the set to the count. `SleepersAreServed`
follows, with `NoLostWakeup` for the requests that have ended, and because a
waiting call keeps a reference.

**AmStream.** `NoMissedMessage` counts: the messages queued on a stream with
sleepers are at most the tasks notified and not yet run. It is carried by each
turn of the loop, since a task that leaves has taken a message or found none,
and by `notify_one`, which adds a task for each message added. `Once` (no task
twice in a list, none both waiting and notified) makes the count exact, and the
lemmas about `Tail`, `Append` and `RemoveAt` keep it. `FreshStreams` says that a
stream that was not made is empty. `Refinement` needs that moving the head of
the queue to the messages taken leaves their concatenation as it is
(`MoveHead`).

**AmMsg.** The three properties need each other and four facts more: data is in
messages queued or held (`DataIsPlaced`), a receive that waits has taken it
(`CallHasTaken`), what is lost is still lent but in no message (`LostIsGone`), and
only lent messages have a descriptor, or empty ones whose flag said so
(`OnlyLentHasDesc`). The invariant is
restated for one message (`Pointwise`), since every action but `DiscardQueue`
touches one (`OneAtATime`, `TouchesOne`). `Refinement` is shown message by message
in the same way: each step leaves the loan as it is or moves it forward
(`LoanMoves`), and `DiscardQueue` forgets a set of loans at once.

**WorkerLoop.** `NoEventSleptThrough` follows from `ArmedMeansIdle`, which `arm`
establishes and an event ends, and `SleeperWillHear`: while `event_poll` sleeps
the worker is armed or the flag is set. The latter is kept because the event that
disarms sets the flag (`EventWakes`), and because no other loop touches either.

**Listener.** `IInv` adds that the two halves of the channel live as long as the
value (`PhaseFits`), that one task waits (`OneWaits`) and is registered or woken
(`WaiterRegistered`), which is what a stale waker endangers, and that the queue
holds requests that are nowhere else (`CameHasLeft`, `QueueIsPlaced`), without
which `SettledOnce` is not inductive: `next()` would put a request into a
variable twice.

**Connection.** Every step is one of Listener or leaves its variables alone
(`ListenerPart`), so that Connection implements Listener and inherits what is
proved of it (`ListenerSafe`). `CInv` adds that a client leaves no trace before it
connects (`NothingBefore`), that a connection is up only while its server holds
an endpoint or waits for the bytes and pending only before (`UpMeansServed`), and
that the bytes are sent exactly by the calls that returned (`SentByConnected`).
The last is what orders the two sides: the server learns of the client only by
the bytes. `ConnectionRefinement` maps the end of `stream_send` to `ClientDone`,
that of `stream_recv` to `ServerDone`, and every failure to `Break`.

**Ownership.** A reference count is right because every object that keeps its
maker is among the maker's holders as long as it has its fields (`Counted`), and
was made with an object of the right kind (`MakersFit`); so the maker's last
holder is gone only after it. A polling task is held by nobody (`LoopsUnheld`)
and one that ended by itself was its worker's last holder (`EndedWasLast`),
which contradicts a live endpoint. What somebody holds is live
(`HoldersHoldLive`), which Rc and Arc promise and the argument needs. For
endpoints `MakersOutlive` needs besides that the last clone does not go without
telling UCX (`DroppedAreTold`), which holds since every way of letting go of a
clone is a `Drop`.

**Status.** The lemma `CodeSurvives` follows a code through sign extension, the
unsigned comparison and the cut to a byte, for words of any width;
`AddressIsPtr` and `NullIsOk` tell the other two answers from it, and one lemma
reads each call site. For the receives that do not ask, `RequestsHaveAddresses`
tells an answer at once from one that came later.

Only model-checked: the liveness properties (`DroppedIsReleased`, `CloseReturns`,
`CallsReturn`, `SlotsReturn`, `MessagesTaken`, `EventsHandled`, `PollingEnds`,
`CallsServed`, `NextReturns`, `ConnectReturns`, `AcceptReturns`,
`ReleasedInTheEnd`), since TLAPS has no reasoning about `ENABLED` here. Every
invariant and every refinement that a passing run checks is a theorem.

## 5. Not modelled, and the plan

Next, in this order:

1. two workers in `Connection`, each polled or not, as `Runtime` polls one;
2. a task in `next()` that waits for a loop which may have ended, since it keeps
   no reference to the worker (listener.rs:102), while `Runtime` has calls only.

Left out, and why:

* contents of buffers, tags and lengths: no protocol depends on them;
* `reply` of a message (am.rs:311-359): it sends like `am_send`, through a
  handle that UCX owns and the library cannot check, as its doc says;
* `MemoryHandle::pack`, `RKeyBuffer`, `Config`: each owns one UCX object from
  its constructor to its drop and is held by nothing; `WorkerAddress` borrows
  its worker, which the compiler checks;
* the blocking `wait`, and queries and printing: they change nothing of the
  library;
* `Request::cleanup` and the destruction of the pool, which come after everything
  else;
* error codes the bindings do not name: what a build makes of them is undefined
  (`CodesAssumption`);
* `ucx1-sys/build.rs`, generated bindings and the examples.

Contexts in other threads share no mutable state with this one but the count of
the `Arc`, which Ownership counts in atomic steps. What UCX does between peers
is outside the library and appears only as the nondeterminism of its answers.
