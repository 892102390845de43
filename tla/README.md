# Robot Raconteur: a verification project

Robot Raconteur is a communication framework for robotics: a *service* node
publishes objects with members (properties, functions, events, pipes, wires,
memories, callbacks, generators), and *client* nodes use them through stubs. The
core is the C++ library `src/RobotRaconteurCore` (about 100 000 lines); language
bindings, the code generator, documentation and examples sit around it. This
project models the concurrent core of that library in TLA+, checks small
instances with TLC, and proves its central safety properties with TLAPS for every
instance. Paths below are relative to `src/RobotRaconteurCore/src` or
`include/RobotRaconteur` unless they say otherwise.

## 1. The system

Threads come from one pool per node (`ThreadPool.cpp`, an ASIO `io_context`). A
stream transport starts the next read before it hands the message it has read to
the node (`ASIOStreamBaseTransport.cpp:1123-1150`), so on a node with several
threads **messages of one connection are dispatched concurrently**, and their
handlers run in any order. Timers and user callbacks run on the same pool. Almost
every object has a mutex of its own and gives it up before it calls anything
else, so the steps worth modelling are the critical sections, and the questions
worth asking are about what comes between two of them.

A client's stub sends *requests* (`ClientContext::AsyncProcessRequest`), which
the service answers, and *packets* of pipes and wires, which are not answered
(pipes optionally acknowledge them). On the service side a skeleton (`ServiceSkel`) per
object is found by its service path; `ServerContext` holds the skels, the locks and
the client sessions. Members on both sides keep tables of endpoints. The node
dispatches messages to endpoints, transports carry them.

| Component | State | Operations | What is hard | Correct means |
|---|---|---|---|---|
| Pipe endpoints (`PipeMember.cpp`) | packet numbers, receive queue, out-of-order map, waiting readers | send, receive, peek, wait, close, ignore | reordering, wrap-around, refused sends, several readers | in order, exactly once, no forgotten reader |
| Pipe broadcaster (`PipeMember.cpp`) | per endpoint: active sends, backlog, early acks; per send: keys | send, send handler, ack, endpoint opened and closed | ack before the send handler, failing sends, endpoints that go | flow bounded and resumed, each send completes once |
| Pipe members (`PipeMember.cpp`) | endpoint tables on both sides, pending connects, early endpoints | connect, close, remote close, client disconnect | connect racing close, index reuse, packets before the connect reply | both ends agree which endpoints exist |
| Wires (`WireMember.cpp`) | last value and timestamp in and out, validity, waiting readers | set, packet, wait, lifespan, broadcast | overtaking, equal timestamps, expiry, a close for an older connection | value never older than the last one |
| Event semaphore (`AsyncUtils.h`) | `running`, `next`, `next_id` | `try_fire_next` | merging of calls from many threads | one handler at a time, last event never lost |
| Pool semaphore, handler helpers (`AsyncUtils.h`) | `running`, `next` | post, run, post again | the first handler does not set `running` | one handler at a time |
| Requests (`Client.cpp`) | `outstanding_requests`, timers, connection test | sync and async request, response, timeout, close | response racing timeout, connection test and close | every handler called, once |
| Client object table (`Client.cpp`) | stubs, active searches and who joined them | `FindObjRef`, path released, close | searches that race, time out and end twice | one stub per path, everyone answered |
| Object locks (`Service.cpp`, `Service_lock.cpp`) | locks by path, pointer of each skel to its lock, sessions | lock, release, object made and released, logout, disconnect | a locked subtree that changes; cleanup | only the owner gets through |
| Monitor locks (`Service_lock.cpp`) | monitor thread, lease timer, waiting clients | enter, continue, refresh, exit | lease expiry, disconnect while waiting | mutual exclusion, lock always released |
| Generators (`Service.cpp`, `Generator.cpp`) | generators by id, last access | next, abort, close, cleanup | cleanup racing calls | only the owner uses it |
| Service callbacks, clients (`Service.cpp`) | outstanding callbacks, client endpoints | callback, response, periodic cleanup | as requests | as requests |
| Stream transport (`ASIOStreamBaseTransport.cpp`) | send queue, heartbeat | send, end send, receive, close | replacement of queued packets, close while sending | every send answered once, in order |
| Connector (`RobotRaconteurNode_connector.cpp`) | candidates, timeouts | connect attempts | the first wins, late ones are closed | one connection |
| Subscriptions (`Subscription.cpp`) | services found, connecting, clients | discovery, connect, retry, close | retry racing close | no client after close |
| Discovery (`Discovery.cpp`) | discovered nodes and services | announce, update, expiry | stale information | freshest information |
| Timers, pool, auto-reset event | queue, running flags | start, stop, set, wait | stop racing expiry | no callback after stop |
| Memories, downsampler, parsing, packing | none shared | encode, decode, transfer | widths and sizes | round trip |

`PROJECT.json` lists every component with its state of modelling, and the
hazards of this code, each at the line where it bites, with the properties that
are aimed at it.

## 2. Modules

| Module | What it is | Code |
|---|---|---|
| `PipeEndpoint` | one direction of a connected pair of pipe endpoints | `PipeMember.cpp:55-385` |
| `PipeStream` | abstract: the stream a reliable pipe promises | `PipeMember.h:339` |
| `PipeMember` | the tables of endpoints of a pipe, on both sides, for one client | `PipeMember.cpp:387-1298` |
| `PipeProofs` | safety of `PipeEndpoint`, and that it implements `PipeStream`, with lemmas on `%`; safety of `PipeMember` | |
| `Wire` | the two connections of a wire for one client, with the transport's queue | `WireMember.cpp`, `ASIOStreamBaseTransport.cpp:322-377` |
| `WireRegister` | abstract: the register a wire promises | `WireMember.h:615-625` |
| `AsyncSignalSemaphore` | `async_signal_semaphore`, which runs the handlers of wires and pipes | `AsyncUtils.h:284-338` |
| `WireProofs` | safety of `Wire`, and that it implements `WireRegister`; safety of `AsyncSignalSemaphore` | |
| `RequestResponse`, `...Proofs` | requests of a client and `AsyncClose` | `Client.cpp:650-1200, 2210-2370` |
| `ObjectLock`, `...Proofs` | user and client locks of a service | `Service.cpp`, `Service_lock.cpp:28-178` |
| `MonitorLock`, `...Proofs` | monitor locks of an object | `Service_lock.cpp:181-372`, `ClientLockOp` and the lock checks of `Service.cpp`, `Client.cpp:2917-3041` |
| `Subscription`, `...Proofs` | `ServiceSubscription` for the services of one node | `Subscription.cpp`, `RobotRaconteurNode_connector.cpp` |
| `PipeBroadcaster`, `...Proofs` | `PipeBroadcasterBase` and the life of its endpoints | `PipeMember.cpp:1300-1727` |
| `ObjectSearch`, `...Proofs` | `AsyncFindObjRef` and the table of stubs | `Client.cpp:277-595` |
| `MC...` | small instances for TLC, one or more `.cfg` each | |

Each action is one critical section (or one step of the network, the user or the
operating system) and bears the name of its function where it is the whole of
it; `PROJECT.json` maps each definition to its lines. Next to some
operators stands a *slip*: the same operator with a plausible mistake. No
specification uses it; replacing the operator by its slip has to break a property.

How state corresponds:

* **PipeEndpoint.** `send_packet_number`, `recv_packet_number`,
  `out_of_order_packets`, `recv_packets`, `closed` and `ignore_incoming_packets`
  are the members of `PipeEndpointBase`. A packet is named by its place in the
  sequence of sends (`id`), and carries its number modulo `Modulus`. `network` is
  a set: any message can be dispatched next. `consumed` is a history of what
  readers took. `receiver` says where each thread in
  `TryReceivePacketBaseWait` is; a wait that ends looks once at the queue and does
  not wait again, so a reader with an infinite timeout can come back with nothing
  when another was faster.
* **AsyncSignalSemaphore.** `running`, `next`, `next_id`, and `my_id` of each
  call; `unseen` is a history variable: an event has come that no handler was
  started after. Condition variables may wake for no reason (`SpuriousWakeup`).
* **RequestResponse.** `outstanding`, `id`, `ret`, `timer` are the entries of
  `outstanding_requests`. `MessageEntryReceived` has two critical sections
  (`MatchResponse`, `AnswerHandler`), a timer has two steps (`TimerExpires`,
  `RequestTimeout`), the connection test has two, and a run of `AsyncClose1` five.
  `values`, `errors` and `reports` count calls of the handlers.
* **ObjectLock.** `objectlock` is the pointer of each skel, as the path of the
  root of the lock it points to; `active` is `active_object_locks`. `Below` is
  "this path or one that continues it with a dot", `Prefixed` is
  `boost::starts_with`, as the code uses either. `request` is the request each
  session has under way: it keeps the user read when it was dispatched and is
  carried out in a later step, which is how locks and disconnects overtake it.
* **PipeBroadcaster.** `active_sends`, `backlog` and `forward_backlog` are the lists of
  each connected endpoint; `sending` is what the transport still has to call back,
  `unacked` what is on its way to an ack, `keys` and `done` the completion of each
  broadcast. `pipe`, `connecting`, `closing` and `deleting` follow an endpoint
  through the pipe server, whose three ways of closing an endpoint differ in whether
  and when the broadcaster hears of it. The two halves of `handle_send` are one
  action: the second touches only `keys` and `done`, which nothing but the second
  half of another `handle_send` of the same broadcast uses.
* **ObjectSearch.** `stubs`, `searching` (`active_stub_searches`, each entry with
  its search; the code strikes out all of a path at once) and `joined`
  (`active_stub_searches_handlers`). `handled` and `outcome` belong to the
  `async_timeout_wrapper` around a search. `AsyncFindObjRef3` runs twice for a
  search: at its end with the wrapper as handler (`EndSearch`), and again as the
  handler of the wrapper, after the result or the timeout.
* **PipeMember.** A pair of endpoints is named by the `AsyncConnect` that asked for
  it. `connecting_endpoints`, `early_endpoints`, `pipeendpoints` and, for the
  server, `server_endpoints` are the tables, the last two as functions from index to
  pair; `index` is what the server gave out, `replying` a connect callback under
  way, `removing` an endpoint that is closed and not yet out of its table. The
  network is a set. Packets are numbers per end and a set of those received:
  their order is the subject of `PipeEndpoint`, of which each end of a pair is an
  instance. A closed end can send and be closed again: the code asks only whether the
  index is in the table (the server) or nothing (the client). Three histories: `fresh` holds
  the pairs whose index was used by nothing else when they got it and that no later close of
  another pair reached, `late` the packets of ends that were closed when they sent, `missed`
  the pairs whose `PipeClosed` found no endpoint.
* **Wire.** Client objects are named by their `AsyncConnect`, server objects by the
  request that made them, which need not be the same since the server keeps its
  connection. `connection` and `server` are what is current on each side,
  `closing` the closes that have begun, each with the message it sent or came with, and that
  will clear whatever is current when they end; an object may be closed again, and from both
  ends at once (`closes` counts the calls). `outval` and `inval` are value and time; setting a
  value takes the place of a queued packet of that wire (`ReplacePacket`, the transport's
  queue). `ignoring` are the ends told to `SetIgnoreInValue`. `owner` is the connect that has
  had the wire for itself, `dropped` the last value of each object that the other side dropped,
  with no connection yet or ignoring it. `"client"` in `ended` is a crash: a
  `WireClosed` with no connection calls through a null pointer.
* **MonitorLock.** A monitor is one `ServerContext_MonitorObjectSkel`, made by a
  request; `thread` is its place in `thread_func`, `holder` who is in the lock of the
  user's object, `monitorlocks` and `monitorlock` the two fields of the skel.
  `monitorlocks_lock` and `ClientLockOp_lockobj` are mutexes held across several
  steps, everything else is done in one. `request` is where the client's
  operation of each session is.
* **Subscription.** One entry per service: `client`, `attempt` (an
  `AsyncConnectService` under way, with the version of the URL it was given),
  `retry_timer`, `error_count`, `claimed`. A connection comes to its entry in three steps:
  the connector takes it (`ConnectorTakes`, after which the attempt does not fail any more; it is
  the `candidate`), attaches the listener of the subscription (`AttachListener`; it is
  `heard`), and calls `ClientConnected`. It may end between any two. `status` is the fate of
  each connection, `events` the calls of `ClientEvent` still to come, each of which says which
  connection it is of. A loss is told again and again (`PeriodicCleanup`), a close only
  once. `client` is a weak pointer: `StubReleased` is the end of the stub of a closed connection.
  Two histories: `late`, connections that became a client after `Close`; `missed`, entries
  whose connection was closed, with nothing left to tell of it, when `ClientConnected` came.
  The handler of an event keeps its entry alive, so an event of an entry that has left the map
  reaches that old entry alone (`Forget`).

## 3. What is checked

| Run | Asks | Result | Distinct states |
|---|---|---|---|
| `pipe_endpoint` | on a reliable and on an unreliable pipe: does each implement the stream of its kind (none twice, the reliable one in order), does no reader sleep over a packet, and does the reliable one stop at nothing but a refused packet and deliver in turn what was accepted before it | holds | 69 246 |
| `pipe_refused_send` | is a packet delivered whose send was accepted | **violated** | |
| `pipe_members` | do both tables know an open pair; are early packets kept; does an endpoint get its own packets only; does a close reach the peer | holds | 2 252 966 |
| `pipe_broadcaster` | lists exact, flow bounded, broadcasts complete once and always, flow resumes | holds | 661 434 |
| `wires` | is what is current open; does the peer end with the last value; do its ends implement the register; does a close reach the peer | holds | 1 066 528 |
| `semaphore` | one handler at a time, no event lost, every caller returns | holds | 1 192 |
| `requests` | ids unique when they wrap, responses reach their own request, one failure per handler, handlers watched over and called, synchronous calls and closes end | holds | 852 327 |
| `object_search` | one live object per path, no handler called twice, every call answered | holds | 348 858 |
| `locks` | locks cover what is below, shut out others, end by their owner only | holds | 690 417 |
| `locks_relock` | has a request answered OK locked the object | **violated** | |
| `monitor_lock` | is a session alone while it holds the lock; does every monitor end; does every exit end | holds | 678 536 |
| `subscription` | one connection per service, no entry forgotten, nothing left open, stale events harmless, claimed clients left alone, retries go on | holds | 630 310 |

Where a violation run disagrees with the documentation:

* **A refused send stops a reliable pipe for good** (`PipeMember.cpp:164`). The
  packet number is incremented before `PackPacket` and the transport may throw.
  The receiver waits for the missing number for ever and keeps every later packet
  in `out_of_order_packets`. `AcceptedIsDeliveredInTurn` says what does hold:
  everything up to the refused packet arrives.
* **A lock answered OK does not lock** (`Service.cpp:2216`).
  `ReleaseServicePath1` erases the lock of a released object from
  `active_object_locks` by the user's name, but the map is kept by path. The stale
  entry makes the next insert for that path a no-op.

Seen while modelling, without a run of their own. The models contain these
behaviours; the properties are stated so as to say what holds in spite of them.

*Pipes*

* `PipeMember.h:110` says the peer endpoint is destroyed automatically. It is not
  when `PipeClosed` overtakes the reply to the connect: the client finds no
  endpoint to close and then makes one (`PipeMember.cpp:554`). This is `missed`.
* A connect that times out at the client leaves the endpoint of the server open;
  one whose request throws leaves its entry in `connecting_endpoints`, after
  which packets of unknown indexes are kept for ever.
* The client keeps early packets only for an index it can foresee: when the server
  moves a requested index up, they are dropped (`Foreseen`).
* The index of a closed endpoint is given out again at once; messages of the earlier
  pair then reach the later one. So does what a closed endpoint still sends, and a second close
  of it: `AsyncSendPacketBase` (150) asks nothing, `PipeServerBase::AsyncSendPipePacket` (1157)
  only whether some endpoint has the index. The properties speak of `fresh` pairs and leave out
  packets of closed ends (`late`).
* A packet that `DispatchPacket` cannot unpack is logged and gone (663, 1033); on a reliable
  pipe it leaves the same hole as a refused send. Not modelled, as contents are not.
* A broadcaster lets `maximum_backlog + 1` packets be in flight, where
  `PipeMember.h:1140` says "maximum number of packets in flight"
  (`InFlightBounded` states the bound that holds). With the default -1 it still asks for acks,
  which only grow `forward_backlog`; with 0 it asks for none and an endpoint gets
  one packet ever. A send that throws or fails keeps its slot (`Exhausted` in
  `FlowResumes`).

*Wires*

* A value that arrives before the reply to the connect is dropped
  (`WireMember.cpp:634`), and so is one that comes while `SetIgnoreInValue` is on (146). If it
  was the last one set, the end stays without (`dropped` in `Newest`), where
  `WireMember.h:622` speaks of the most recent value.
* `WireClosed` with no connection calls through a null pointer (`WireMember.cpp:617`).
  A second connect that is refused clears the connection that was there (741).
* A closed object can still send, and the end of its `AsyncClose` clears a newer
  connection (707). A server object that is used again keeps the time of the
  last value of an earlier client and drops values that are not newer.

*Requests and searches*

* A handler can get an exception and then the value (`Client.cpp:1172`): the entry stays
  in the table between two critical sections of `MessageEntryReceived`, and a
  timer that has begun to run, a connection test or `AsyncClose1` takes it in
  between. `Generator.h:111` promises one call. `OneFailure` shows what does hold: never two
  failures and never two responses. (A response may be an error, so that the handler may
  get two exceptions: one of a timeout, a test or a close, and that of the response.)
* `AsyncClose` on a client that is already closed drops its handler
  (`Client.cpp:2237`), and `Close`, which waits for that handler, does not return.
* When `CheckConnection` or `SendMessage` throws, the entry stays in
  `outstanding_requests` (716), and an asynchronous caller gets the exception and
  later a timeout as well (866).
* `AsyncFindObjRef` drops the timeout of a call that joins a search
  (`Client.cpp:306`): it ends with the search it joined. A stub that enters the
  table while `AsyncClose1` empties it is never closed (`Client.cpp:2347`).

*Locks*

* A lock on `s.a` also covers `s.ab` (`Service.cpp:2017` uses `starts_with`
  without the dot; `docs/framework/object_locking.md:9` speaks of objects below).
  The proofs of `ObjectLock` allow for it: `Prefixed` may be larger than `Below`.
* The test that a client lock is released by its own session stands inside a
  test that the user is another one (`Service.cpp:2072-2074`) and never throws: any
  session of the same user can release it. `EndedByOwner` states what holds.
* A lock requested on one thread while `RemoveClient` of its session runs on
  another may be granted after the cleanup, to nobody; two last sessions of one user
  that end together each see the other and leave the user lock behind
  (`Service.cpp:1685-1722`; `test/cpp/service/ServiceTestClient.cpp:3025` expects the
  locks of a closed session to be released).
* `MonitorExit` spins for ever on `monitor_acquired` when the object is released
  meanwhile (`Service_lock.cpp:275`), which is why `ExitEnds` and `EveryMonitorEnds` exempt it. `RRMutex` stays
  locked when its `ProcessRequest` throws (`Client.cpp:2938`). The lease is 30 s,
  `docs/python/source/tutorial/ObjectLocks.rst:59` says 15.

*Subscriptions*

* A subscription can lose a service for good. `ClientConnected` does not ask whether the
  connection it is given still lasts (`Subscription.cpp:1142`). When it was closed after the
  reply to the connect, its `ClientClosed` was told before the listener was there
  (`RobotRaconteurNode_connector.cpp:204`) or found no client and was ignored (1347). The
  entry is left with a client that is gone, without attempt or timer, and `NodeUpdated`
  passes over services that have an entry; `Subscription.h:595` says that the connection is
  retried. `Attended` and `TriedAgain` say what does hold: this is the only way
  (`missed`). Without it TLC refutes both.
* `Close` disconnects claimed clients too, where `Subscription.h:602` says the
  subscription no longer manages them (`ClaimedIsLeft` is stated until `Close`). A
  client that connects after `Close` stays connected (`Subscription.cpp:1141`, `late`).
* `NodeUpdated` returns at the first service that has a client and does not look at
  those after it (994). An entry is lost when `AsyncConnectService` throws
  (960, 1053), and given up after 26 errors (1183).

*Elsewhere*

* `async_signal_pool_semaphore` posts its first handler without setting `running`
  (`AsyncUtils.h:357`). A connection test that fails to start is
  dropped without a callback (`ASIOStreamBaseTransport.cpp:342`).

### Bounds, and why they are enough

* `Modulus = 3`, five packets: the numbers wrap in every position of the window.
  The code relies on fewer than 2^32 packets being outstanding and never tests
  it; this is `WindowOpen`. `MaxFailures = 1` is the refused send. `Init` chooses
  whether the pipe is reliable, so the run covers both kinds.
* `Receivers = {r1, r2}`, one of them timed: the fewest for which notifying one
  thread differs from notifying all, and for a timeout to race a packet.
* Semaphore: three threads and four calls that wait: a handler, a waiter, and a
  caller that supersedes it, once more than it takes to reuse a thread.
* Pipe members: two connects, one for any index and one for index 1, so that both
  ways to choose one and a clash of the two occur. `MaxPackets`: one packet from each end of the
  first pair and from the server of the second, which can overtake the connect reply, a close
  or nothing, and be sent by an end that is closed. `MaxCloses`: one close of each client end and
  of the first server end, also after the peer has closed it. Pairs do not interact but by
  their indexes, for which two are enough.
* Wires: two connects, so that an older connection can disturb a newer one; the first
  service object sets two values and the second client object one; the objects these are sent
  to may ignore them for a while (`MayIgnore`). The clock has one reading (`MaxClock`), that is, it stands
  still between any two values: `Stamp` treats a clock that was set back the same way.
  Each side closes its first object once, also after the peer has (`MaxCloses`).
* Requests: `IdSpace = 2` ids, shared by three requests, so that ids wrap onto a
  request that still waits. `NoStaleId` keeps an id from coming round while a message or
  timer of its earlier owner is still about: in the code 2^32 requests lie between.
  One closer races the close by the service and the loss of the connection; the
  safety properties are proved for any number of closers and requests.
* Monitor locks: two sessions and three monitors, so that one session asks again while
  an earlier monitor of its own is still ending; two threads of the pool, fewer than monitors;
  one call that renews a lease.
* Subscriptions: two services, since `NodeUpdated` treats the second depending on the
  first; the first with two connections, so that events of one can come when the other is
  about to be, or is, the client, the second with one. `MaxErrors = 0` for the 25 of the code,
  one update of the URL. All proofs are for any number of each.
* Locks: two paths (an object and one below), two sessions of one user and one of
  another who is an overrider; `MaxPending = 2` requests under way, so that each
  can overtake the other. Deeper trees and `Prefixed` larger than `Below` are
  covered by the proofs. `MayLogout` keeps logouts to one session.
* Broadcaster: two endpoints, of which one may leave (`Leaving`), backlog limits
  -1, 0 and 1, three broadcasts (one more than a full endpoint takes), one
  failure. `maximum_backlog` is changed only while no endpoint is connected.
* Searches: three calls, two of one path and one of either path: a search, one
  that joins it, and a second search that the late end of the first can strike
  out. `MayAsk` gives each call its paths.

### Fairness

Weak fairness only, of steps that a thread takes by itself once it has begun:
messages handed to the pool are dispatched, posted handlers run, a woken thread
runs, timers that are armed expire, the transport calls its handlers back, a
user's event handler returns. Nobody is obliged to call anything, to answer a
request, to release an object, to close, or to send again. `HandlerCalled` does
not assume that the service answers: for a request without a timeout it only
claims the call once the connection is lost. In `ObjectSearch` a search always
gets an outcome, because its request has a timeout (that is `HandlerCalled`).
In `PipeBroadcaster` fairness is stated per endpoint for *some* packet, which is
enough as no step can be taken twice for a packet; since broadcasts are bounded,
`[]<>` of "everything is complete" says that the backlog drains whenever the service pauses.
In `PipeMember` and `Wire` messages are dispatched, replies come back or time out, and a
close that has begun ends; nobody has to close. In `MonitorLock` a monitor's thread goes on
and its lease timer runs out if nobody renews it, which the code sees to with a timed wait;
sessions need not exit. In `Subscription` an `AsyncConnectService` ends one way or the
other, a connection that was taken is handed over, the retry timer fires, the periodic
cleanup tells of lost connections, and events are delivered; no stub need ever be released.

Deadlock is checked for the semaphore; elsewhere the program may stop (the sender has sent
all its packets, every session has ended, no service is announced any more), which the
configurations say.

## 4. What is proved

All proofs are for arbitrary constants under the named assumptions of the
modules, and are checked to the last leaf.

| Theorem | Says | Argument |
|---|---|---|
| `PipeProofs!Invariance`, `TypeCorrect` | `IInv` always | see below |
| `PipeProofs!PacketsInOrder` | a reliable pipe delivers 1, 2, 3, ... for every modulus, order of dispatch, number of readers and of sends | |
| `PipeProofs!NoneStranded` | the packet whose turn it is is never in the out-of-order map | |
| `PipeProofs!ReadAtMostOnce` | no packet is read twice, on either kind of pipe | each packet is in one place: network, early map, queue or read |
| `PipeProofs!OnlyRefusedBlock` | with no message under way, an open reliable pipe has handed over all packets up to the first that was refused | from `NothingLost` and `NothingStranded` |
| `PipeProofs!NoReceiverForgotten` | while there is a packet and a reader asleep, some reader has been woken | |
| `PipeProofs!PipeImplementsStream` | every behaviour implements the stream of its kind | each step is a `Send`, a `Deliver` of one or more, or a stutter |
| `PipeProofs!OpenPairsAreFound`, `PacketsArrive`, `PacketsAreOwn` | of a pair whose index nobody else was using when it got it and that no later close of another pair reached: open at both ends, it is found under its index on both sides; its packets are under way or received, early ones too; it gets no others but those of ends that were closed | from `OwnIndex` and `PacketsKept` |
| `WireProofs!ClosedIsNotCurrent` | a closed object is current only while its close is under way | |
| `WireProofs!NewestReaches` | the last value set is at the peer or on its way, if the connection has the wire for itself and the peer did not drop just this value, before the reply to the connect or while ignoring values | from `Alone` and `LastKept` |
| `WireProofs!WireImplementsRegister` | every behaviour implements `WireRegister`: an end sees only values that were set, none of them again or after a later one | each step is a `Set`, a `See` or a stutter, by `InOrder` |
| `WireProofs!HandlersExclude`, `EventsKept` | one handler at a time; an unseen event has a caller that will run its handler | from `WaitersMatch` |
| `ObjectLockProofs!LocksExclude` | a call passes `check_lock` only if all locks in force on its object or above admit it (an action property) | `Coverage` reduces "all locks above" to the one pointer the code looks at |
| `ObjectLockProofs!LocksEndByOwner` | a lock ends by a release of its user or of an overrider, with the session it is bound to, with the last session of its user, or with its object (an action property) | |
| `RequestResponseProofs!IdsUnique`, `ResponsesMatch` | ids in the table are unique, a response completes the request it answers | |
| `RequestResponseProofs!FailuresOnce` | a handler gets one response and one failure at most | from `HandlerInv` and `TodoInv` |
| `RequestResponseProofs!ConnectionWatched` | a request without a timeout that waits has a connection test to come or an `AsyncClose` that will fail it | |
| `MonitorLockProofs!LockProtects` | a session whose lease lasts is in the lock of the user's object and no other is admitted | from `MonitorInv` |
| `SubscriptionProofs!OneConnectionEach`, `EntriesAttended` | one connection to a service at most; an entry has a client whose end it will hear of, an attempt or a timer, unless it was given up or its connection had been closed before `ClientConnected` | |
| `SubscriptionProofs!CloseLeavesNone` | after `Close` only connections of attempts that were under way are up | |
| `SubscriptionProofs!ClientsKept`, `ClaimedLeftAlone` | action properties: no client is dropped while it is up, no claimed one disconnected before `Close` | from `EventsOfEnded` |
| `PipeBroadcasterProofs!ListsExact`, `FlowBounded` | the three lists of an endpoint are exactly the packets under way; at most `maximum_backlog + 1` unacknowledged | |
| `PipeBroadcasterProofs!HandlerCalledOnce` | the handler of a broadcast is called once, after `handle_send` has run for all of its endpoints | from `KeysMatch` |
| `ObjectSearchProofs!ObjectIsOne`, `HandlersCalledOnce` | a stub given out is the one in the table or was removed; handlers are called once | |

Every component with proofs has a theorem `Invariance: Spec => []IInv` (`MemberInvariance` and
`SemaphoreInvariance` where two components share a module). The inductive invariants, and why
the properties alone are not inductive:

* *PipeEndpoint*: order follows from what numbers mean. `NumbersMatch` says that
  every message and every early packet carries the number of its place modulo
  `Modulus`, and lies in the window of the last `Modulus` sends; two packets of the
  window with one number are then the same packet, which is the only use of
  arithmetic on `%`, in the lemmas at the head of the module. `NothingLost` says that
  a packet that has not come out was refused, is under way or waits for its turn; it
  lasts because `insert()` never finds an older packet under the number of a new one.
* *AsyncSignalSemaphore*: `WaitersMatch`: at most one waiter holds the latest id,
  exactly while `next` is set, and a caller sleeps only while a handler runs.
* *ObjectLock*: `LockTable` (a pointer leads to an existing root, which points to
  itself and whose lock is in force) and `Coverage` (all skels below a locked
  root point to it). New skels inherit; released ones take pointers with them. The
  assumptions on the tree are that `Below` is reflexive, transitive and follows `Parent`,
  and that `Prefixed` contains it.
* *PipeBroadcaster*: an endpoint not yet connected has empty lists, and for a
  connected one the slots taken are the packets being sent, unacknowledged or
  failed, in whichever list the order of callbacks put them; their number is at
  most `maximum_backlog + 1`. Failed packets are part of it: they keep slots.
  `KeysMatch` says that the keys of a broadcast are those of its endpoints whose
  `handle_send` is still to come, and that it is done when none is left.
* *PipeMember*: `Connected` says how far a pair has come, the same at both ends;
  `IndexesMatch` that tables and messages name a pair by the index it has. Indexes
  are given out again, so neither keeps two pairs apart: `OwnIndex` says that while
  the server end of a pair with a fresh index is open, every other pair with that
  index has given up, and no message, early packet or pending removal under it is of
  another pair, but for packets that a closed end sent (`late`). This lasts because the
  server gives out no index its table has.
  `PacketsKept` follows each packet from the network through `early_endpoints`
  to the endpoint; early endpoints survive since the connect is still in
  `connecting_endpoints`, and are kept at all because its index could be foreseen.
* *Wire*: `InOrder` says of the values known of an object (in packets, or taken
  by an end) that order in time and order of setting are the same and that the last one
  set is the latest, which is what `Stamp` is for when the clock stands still or is
  set back. `Alone` says that while a connect has the wire for itself every
  message, reply, close and current object is of that connect, and
  `LastKept` that its last value is in a packet, taken, or just what the peer dropped with no
  connection yet or ignoring it. A packet may also go when it is replaced (a later one of
  the same object is there) or is older than what the peer has; `InOrder` says that
  neither can be the last.
* *ObjectSearch*: each call, by where it is, has or has not been answered; who
  joined waits on a search that is listed and has its end before it; whatever
  outcome any step holds in its hands is a stub known to the table.

* *RequestResponse*: what each message, request, handler and run of `AsyncClose1` can
  still do. `HandlerInv` counts the calls a handler has had against where its
  request stands, `TodoInv` says that the handlers a run of `AsyncClose1` has still to
  call are its own alone, are out of the table and have had no exception.
* *MonitorLock*: `MonitorInv` ties the place of a monitor's thread to its flags: a
  lease that is not over means the thread is at its wait, and a thread between its two calls
  of the user's object is the holder. `SessionInv` keeps the monitors of two
  sessions apart.
* *Subscription*: `UpIsClient` (the one connection that can be up is the client of
  its entry or the candidate), `OwnClient` (a candidate belongs to an attempt, so there is no
  client beside it), `EventsOfEnded` (an event tells of a connection that is up no
  more) and `NoEntryNothing` (without an entry nothing is under way).

Only model-checked: all liveness (TLAPS has no reasoning about fairness here). Of
`AcceptedIsDeliveredInTurn` the part that needs no fairness is `OnlyRefusedBlock`. Every safety invariant, action property and
refinement of a passing run is proved.

## 5. Not modelled

Contents of packets, types and service definitions; sockets, TLS and websocket
handshakes; discovery files; logging; language bindings and generated code. Their
state is sequential or belongs to the operating system. Exceptions thrown by user
callbacks are caught and reported by the code and leave state as after a normal
return. Allocation failures and the release of the node itself while
callbacks run are left out. Time appears as "a timer may expire" and, for wires, as a
clock with few readings.

Within the modelled components: `GetActivePipeEndpointCount` and `copy_element` of the
broadcaster; `GetObjectLockUsername` and members exempt from locks; the first connect of
a client, and what each member does with its response; several clients of one
pipe or wire, which share only the table they are looked up in; peek requests,
lifespans, waiting for a value and the broadcaster of wires; `SoftClose`,
`UpdateServiceByType` and the members of a subscription (pipe, wire and
sub-object subscriptions). Nothing of generators, service
callbacks, the connector (but for the hand-over of a connection to a subscription),
discovery and the stream transports is modelled but for the queue that replaces wire
packets and the connection test.

## 6. Plan

1. Done: the modules of section 2 and the proofs of section 4.
2. Done: proofs of every safety property of the passing runs.
3. `Generators`: calls against close, abort and expiry (`Service.cpp:477-578`).
4. `StreamTransport`: the send queue with its callbacks
   (`ASIOStreamBaseTransport.cpp:244-450`), abstractly a queue that answers each
   send once; `Wire` would then refine its use of it.
5. The connector (the first candidate wins, late ones are closed), discovery, and the
   auto-reset event and timers they share.
6. In `Subscription`, `SoftClose` and `UpdateServiceByType`, with services that have two
   entries, and the pipe and wire subscriptions built on it.
