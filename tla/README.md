# TLA+ models of the OCPP server

This directory holds a formal model of the server: TLA+ modules, the TLC
configurations that check them on small instances, and theorems that TLAPS
proves for every instance. Paths below are relative to the root of the
repository.

## The system

| Part | Source | State | Operations |
| --- | --- | --- | --- |
| OCPP websocket server | `3rdparty/ocpp/src/websockets/libwebsockets/LibWebsocketServer.cpp` | the clients by socket; of each client `m_connected`, `m_listener`, `m_send_msgs` | the libwebsockets callbacks (ESTABLISHED, RECEIVE, WRITEABLE, CLOSED, WSI_DESTROY, EVENT_WAIT_CANCELLED), all on one thread; `send`, `disconnect`, from any thread |
| RPC session | `3rdparty/ocpp/src/rpc/RpcServer.cpp`, `RpcBase.cpp` | `RpcMessageOwner` (lock, `is_operational`), results queue, transaction id, `m_call_mutex` | `call`, `processReceivedData`, `processIncomingRequest`, `processDisconnected`, `start`, `stop` |
| RPC pool | `3rdparty/ocpp/src/rpc/RpcPool.cpp` | one queue of requests shared by all sessions, the threads | pop, lock the owner, process |
| Charge point lists | `src/ocpp/event/DefaultCentralSystemEventsHandler.cpp` | `m_chargepoints`, `m_pending_chargepoints`, `m_accepted_chargepoints`, their mutex | `chargePointConnected`, `removeChargePoint` (a detached thread, 50 ms later), `chargePoints`, the request handlers of a station |
| Operator API | `src/ocpp/manager/OcppManager.cpp` | the stack, the event handler, `m_init`, `m_start` | `init`, `start`, `stop`, `getChargePointIds`, the `send*` requests |
| Stack | `3rdparty/ocpp/src/ocpp20/centralsystem/` | the servers, the database, the proxies | `start`, `stop`, `resetData`, `rpcClientConnected` |
| Web server | `src/web/WebServer.cpp` | connections with their write buffers, `values_`, metrics | the libwebsockets callbacks on one thread, the JSON-RPC methods, broadcast of changes |
| Monitoring page | `web/client/index.html` | `pendingRequests`, `connected`, the reconnection timer, `values`, what it displays | `call`, the socket events, `handleReconnect`, the notifications |
| Other pages of `web/client` | `web/client/js/rpc-client.js`, `monitoring.js`, `web/client/admin/js/admin.js` | the same, and intervals, buttons | the same, and the buttons |
| Operator panel | `web/js/rpc-client.js`, `web/js/central_system.js` | `pendingRequests`, `connected`, the current station and connector, what is described | the websocket buttons, the selections, the commands, their answers |
| Program | `main.cpp` | the manager, the web server, its thread | start, the key that stops it, stop, destruction |

How the parts interact:

- The websocket thread of the OCPP server creates a session for each
  connection and hands it to `chargePointConnected`, which registers it or drops
  it. A request of a station goes from that thread, through the queue of the
  pool, to a pool thread, which takes the lock of the session, calls the
  handlers of the application and queues the response. An answer of a station
  goes from the websocket thread to the results queue of the session, where the
  operator thread that called `RpcBase::call` waits for it.
- A disconnection runs in the websocket thread: it takes the lock of the session
  (so it waits for the request in progress), disables the results queue, then
  notifies the application, whose removal of the station runs 50 ms later in a
  detached thread.
- The web server is one thread of its own. Its pages send it JSON-RPC requests;
  it answers each one to its connection and tells every connection the values
  that have changed. For `GetStations` it asks the manager for the identifiers of
  the connected stations (`WebServer.cpp:998`, `getChargePointIds`), which copies the
  list of sessions on the web thread; a fixed list is only the answer when nobody is
  connected. What it says of the state of a station or of a connector is a fixed text.
  Nothing in the program calls the `send*` methods of `OcppManager` so far; the
  operator threads of the models are the web thread and the callers of these methods.
- Of the three lists of the events handler, only `m_chargepoints` ever holds
  anything: `OcppManager.cpp:20` builds the handler without `set_pending_status`, which
  `DefaultCentralSystemEventsHandler.h:23` sets to false by default, and nothing
  calls `addAcceptedChargePoint`. The pending and the accepted list are therefore not
  modelled, nor is the answer to a boot notification, which depends on them.

What is hard here: a station that reconnects while the removal of its former
session is still asleep; raw pointers from the pool and from the websocket
thread to sessions that shared pointers own; a lock that the websocket thread, the
pool and the removal threads share; a thread that has to be woken up to send or to
close;
an answer that comes after the timeout of its request, or twice; a disconnection
in the middle of a call; several messages of the web server that leave in one
frame; a page that reconnects while the server still serves its former socket; a
panel whose selections take effect in answers that come later; threads that are
stopped while they wait for one another.
`PROJECT.json` lists each hazard at its line.

## The modules

| Module | What it is |
| --- | --- |
| `StationRegistry` | abstract: one slot per station; a session takes it while it is free, is refused otherwise, and the slot is given back when its session is over |
| `ChargePointSessions` | the sessions of the stations: websocket thread, pool, lists, removal threads, operator threads; implements `StationRegistry` |
| `ChargePointSessions_proofs` | its theorems |
| `RequestReply` | abstract: one request outstanding at a time, answered by its own reply, once |
| `RpcCalls` | the requests to one station: `RpcBase::call`, the results queue, the disconnection, the station; implements `RequestReply` |
| `RpcCalls_proofs` | its theorems |
| `ServerValues` | the values of the web server and what each JSON-RPC method writes and announces |
| `WebRpc` | the web server, the network and the monitoring pages |
| `WebRpc_proofs` | its theorems |
| `CallOnce` | abstract: a call is carried out at most once and settled at most once, by its own answer |
| `RpcClient` | `RPCClient` of a page: its sockets, its calls and their connections; implements `CallOnce` |
| `RpcClient_proofs` | its theorems |
| `OperatorPanel` | the operator panel on its `RpcClient` |
| `OperatorPanel_proofs` | its theorems |
| `ReconnectingClient` | the client of `web/client/js`: `RpcClient` with reconnection, and the notifications of one value |
| `ClientPages` | the monitoring of `monitoring.js` and the administration panel, on `ReconnectingClient` |
| `ClientPages_proofs` | its theorems, and those of `ReconnectingClient` |
| `ServerProcess` | the program: start, stop and destruction, with the threads meanwhile |
| `ServerProcess_proofs` | its theorems |
| `MC*` | instances for TLC |

### ChargePointSessions

A connection `c` stands for the socket, the `Client` of the websocket server, the
RPC session and the proxy created for it; each is opened once. `conn` is the life
of the socket, `listener` the connections whose `m_listener` is set, `operational`
and `lock` the `RpcMessageOwner` of the session, `registry` the list of the events
handler, `mutex` its mutex when a removal holds it over several steps, `removals`
the sleeping threads, `queue`, `wAt` and `wReq` the pool, `held` the shared
pointers of the operator threads and `calling` those of them that make a call.
`unsent` is the connections with messages to send, `wake` the call of
`lws_cancel_service_pt` that the websocket thread has not seen, and `writable` the
connections for which it has asked for a WRITEABLE callback.

| Action | Code |
| --- | --- |
| `Established` = `Register` or `Refuse` | LWS_CALLBACK_ESTABLISHED, `RpcServer`, `CentralSystem20::rpcClientConnected`, `chargePointConnected` |
| `Receive`, `Writeable`, `WsiDestroy` | the callbacks of the same names |
| `WaitCancelled` | LWS_CALLBACK_EVENT_WAIT_CANCELLED, which asks for the WRITEABLE callbacks |
| `CloseDropped` | the WRITEABLE callback of a connection that the server has dropped: -1, and CLOSED |
| `Closed`, `Quiesce`, `Notify` | LWS_CALLBACK_CLOSED: the flag, `processDisconnected`, `rpcDisconnected` |
| `RemovalLock`, `RemovalErase` | `removeChargePoint`, after its sleep |
| `Pop`, `LockOwner`, `Respond` | the threads of `RpcPool::start`, `processIncomingRequest`, `send` |
| `Snapshot`, `Find`, `SendCall`, `Return` | the copy of the list, `getChargePointById`, the send of a `send*` method, the return of it or of `getChargePointIds` |

`DestroyClients` is what the destructor of a session does, at the step in which
its last shared pointer is dropped. It takes the lock of the session, and so do
`Quiesce` and `LockOwner`: these steps are disabled while another thread has it.
The 50 ms of the removal are not counted on: a removal may run at any time after
its disconnection.

The requests of a station are all of one kind: with the pending list empty, their
handlers print and answer without touching shared state.

### RpcCalls

One session. `pc[k]` is where the execution `k` of `RpcBase::call` is; `mutex` is
`m_call_mutex`, `tid` is `m_transaction_id`, `enabled` and `results` are
`m_results_queue`. A message carries the id that the code compares, and the call
it is of, which is a history: no guard reads it but the bound on the copies.
`requests` and `answers` are the two directions of the connection, in order. The
station answers what it has received in any order, any number of times up to
`MaxCopies`, and never has to. `Drop` is a write error, `Close` and `Disable` the
CLOSED callback, with the moment between the two in which the link is closed and
the queue still enabled. `Timeout` may happen at any time when the queue is empty
or an answer was thrown away: the duration of a call is not modelled.
`ChargePointSessions` has the pool and the lists around the same session; its
`SendCall` and `Return` are the call seen from outside.

### ServerValues and WebRpc

`Writes`, `Notices` and `Accepted` give, for each JSON-RPC method, what it writes
into `values_`, what it broadcasts and whether it answers an error; the writes and the
broadcasts of a handler are translated apart from each other. Values are
the texts that the code keeps; `maxPower` stands for every value that `setValue`
alone writes. In `WebRpc` a socket is a page and a number: the last one a page has
created is its `ws`. A socket has a state at each end, because the browser may see
it closed before the server does, and the reverse. `uplink` holds requests;
`buffer` is the `write_buffer` of the server, a list of messages; `downlink` holds
the frames, each with all the messages that were in the buffer when the WRITEABLE
callback ran. `view` is the `this.values` of the page, whether or not an element displays a value.
`announced` and `lost` are histories for the properties, and
`pending[..].n` another one: no guard reads them. The properties speak of what is on
its way to a page by places: a frame (`Frames`: those of `downlink`, then the one that
the buffer will be) and a message in it, in the order `Before`.

| Action | Code |
| --- | --- |
| `Establish`, `Receive`, `Writeable`, `Closed` | the callbacks of `WebServer`, `handleRpcMessage`, the method handlers, `broadcastValueChange` |
| `Open`, `Message`, `Close` | `onopen`, `onmessage`, `onclose` of the page, with the events that `RPCClient` emits to `MonitoringSystem` |
| `Reconnect` | the timer of `handleReconnect` |
| `Click`, `Tick`, `ToggleRPC` | the buttons, the metrics timer, the pause button |

An answer carries its type. All results are sent as JSON strings, the text of an
object included, and the page tests for an object. `getMetrics` builds a whole
response of id 1 (`src/src/web/WebServer.cpp:1221`, "will be overwritten") and
it is that text which travels inside the result. `index.html` reads the metrics out of
it (`processMetricsResponse`, line 619); `monitoring.js` does not find them there, and
shows default ones. The values of the metrics are not modelled.

### RpcClient and OperatorPanel

`RpcClient` is the client of `web/js/rpc-client.js`. All the websockets that a page
has created write the same fields: `connected`, `requestId` and `pendingRequests`.
`socket` is their `readyState`, `used` the number of the last one, which is `ws`.
A message of the server shares a frame with another at most `MaxGarbled` times; the
page then cannot read it (`WebRpc` shows where this comes from). The operators with a
parameter `q` take the call that an event handler of the page makes in the same turn
of the browser's loop.

| Action | Code |
| --- | --- |
| `Connect`, `Disconnect`, `Ask` | `connect`, `disconnect`, `call` |
| `Open`, `Welcomed`, `Settle`, `Close` | `onopen`, `handleMessage` of the welcome and of an answer, `onclose` |
| `Establish`, `Receive`, `Closed` | the callbacks of the connection at the server |
| `ConnectClick`, `DisconnectClick` | the websocket buttons |
| `SelectStation`, `SelectConnector`, `Command` | `handleStationChange`, `handleConnectorChange`, the buttons of the commands |
| `ListStations`, `ApplyStation`, `ApplyConnector`, `Logged` | what follows the `await` of each call, in `Continue` |

The effects of a selection are in the answer, as in the code: `Settle` and what
follows the `await` are one step, since microtasks run before the next event.
`ApplyStation` describes the first connector of the new station and, as the code
(`web/js/central_system.js:131`), leaves the current connector as it was: the commands
of a connector then send none, or one of the former station.
`hasty` and `impatient` are histories of the operator: he has chosen a connector
while the answer about a station was awaited, or asked for a connection while one
lasted. The properties that hold only for a patient operator say so.

### ReconnectingClient and ClientPages

The client of `web/client/js/rpc-client.js` asks for no subprotocol, and libwebsockets
then gives it its first protocol, `callback_http`, in which the socket opens and
nothing is read or written: `served` is either. `timers` counts the reconnections that
are scheduled, of which each close event adds one. Of the values of the server, the
model keeps `status`, the `systemStatus` of `index.html`: that is the page with the
elements that `monitoring.js` looks for, though no page includes that script at this
commit. `index.html` has no element `chargingEnabled`, so `updateValue` returns early
for that value (`monitoring.js:165`), shows nothing and never disables a button. The
commands that announce other values only matter in that their answers share a frame
(`garbled`). `told` says that the last status sent to the page alone in a frame is the
one that the server has: a start or a stop announces its status in a frame with another
value, and a reset announces one that the server does not have, so neither sets it.

| Action | Code |
| --- | --- |
| `Answer`, `Ignore`, `Elsewhere` | `handleRpcMessage`, `callback_http`, a change by another page |
| `Opened`, `Dropped`, `HandleReconnect`, `Redial` | `onopen`, `onclose`, `handleReconnect`, its timer |
| `OnConnected`, `StartMonitoring`, `ShowMetrics` | the `connected` event, `startMonitoring`, `updateMetrics` after its answer |
| `UpdateMetrics`, `UpdateOffline`, `DebugMetrics` | the interval, while connected or not, and `debugMetrics` |
| `SendCommand`, `DebugTest`, `Administer` | the buttons of the two pages |

### ServerProcess

`main` is the next step of the main thread. The start may fail at each of its steps,
as in the code; the destructors of the members of `OcppManager` then stop what runs.
`init` is `m_init`, which nothing initialises: either value. The sessions are those of
`ChargePointSessions`, reduced to what the stop depends on: a connection, its entry in
the list, its delayed removal, its requests in the pool and the thread that handles
one of them. A request is taken from the queue and its session locked in one step.

| Action | Code |
| --- | --- |
| `InitManager`, `StartStack`, `StartWeb` | `OcppManager::init`, `CentralSystem20::start` with `RpcServer::start` and `RpcPool::start`, `WebServer::start` |
| `Enter`, `DestroyWeb`, `ForgetWeb`, `ClearWeb`, `JoinWeb` | the statements of `WebServer::stop`, and the join of `main` |
| `Return`, `JoinSockets`, `StopPool`, `JoinPool`, `DestroyHandler` | the destructors: `CentralSystem20::stop`, `RpcServer::stop`, `LibWebsocketServer::stop`, `RpcPool::stop`, then the events handler |
| `Accept`, `Request`, `CloseConn`, `LeaveLoop`, `EndContext` | the callbacks and `LibWebsocketServer::process` |
| `Take`, `Finish`, `Quit` | the loop of a pool thread |
| `Remove` | the detached thread of `removeChargePoint` |
| `WebTest`, `WebRead`, `WebWake`, `WebDone` | `WebServer::run`: the test of `running`, the read of `context`, `lws_service` |

Where the code has undefined behaviour, a step sets `fault` and the model stops there:
the context of the web server used after its destruction, `connections` cleared under
a callback, a removal on a handler that is gone. The first is a finding; the last is a
hazard that the code does not guard against (the 50 ms of the removal are then longer
than the rest of the program).

## The runs

| Run | Instance | Shows |
| --- | --- | --- |
| `sessions` | 2 stations, 3 connections (2 of one station), 2 pool threads, 1 operator, 1 request per connection | the safety of the sessions, and that they implement `StationRegistry` |
| `sessions_live` | 1 station, 2 connections, 2 pool threads, 1 operator, 2 requests per connection, fair | a finished session is forgotten, no pool thread waits for ever, a dropped connection gets closed, a queued message leaves |
| `calls` | 3 calls, 2 answers to each at most, fair | each call gets its own answer; `RequestReply` is implemented; a disconnection wakes the calls, an answer ends its call, and every call ends if timeouts expire |
| `web` | 2 pages, 1 socket and 1 button each: `setMaxPower`, `setValue`, `resetSystem` | the pages follow what is announced; only a reset makes an announcement stale |
| `web_reconnect` | 1 page, 2 sockets, 1 attempt, 1 button: start, stop, accepted and refused edits; fair | no answer crosses connections, no call is forgotten, one connection at a time; calls settle, a page that was connected dials again |
| `web_notices`, `web_reset`, `web_defaults` | 1 page, 1 socket, 2 calls | violations, see the findings |
| `panel` | 2 sockets, 2 stations with 1 and 2 connectors, 2 selections, 1 command of a station or of a connector, 1 shared frame, fair | the indicator is right, selections take effect in order, what is described is of the current station, `CallOnce` is implemented, calls settle |
| `client` | either page, served or not, 2 sockets, 1 attempt, 2 events, 2 messages in shared frames, fair | one connection, bounded intervals, a current view, own answers, a monitoring that starts |
| `process` | 3 connections, 2 pool threads, fair | the threads end before the stack, destroyed sessions are over, the stop ends |
| `process_web` | 1 connection, 1 pool thread | violation, see the findings |

`sessions_live` has a station that connects twice, and two requests of one session
that two pool threads hold at once while the websocket thread closes it. `web` has
commands that announce one value each: their notifications travel alone unless they
meet another message. A start or a stop announces two values in one callback, which
always share a frame and are always lost (`web_notices`); the theorem
`AnnouncementsHold` covers what they announce. What `resetSystem` announces is false,
and is the subject of `web_reset`; that no other handler does the same is
`StaleOnlyByReset`.

The runs say CHECK_DEADLOCK FALSE because each instance has a finite supply of
connections, calls or sockets, used once each, and stops when it is used up; the
program of `process` ends when main returns. That nothing waits for ever before is
what the liveness properties say.

Bounds, all of them constants:

- `Conns`: three are enough for an old session whose removal is asleep, a
  connection refused in front of it, and either one admitted after it or
  one of another station that shares the pool and the list mutex. Two pool threads
  are enough for two requests of one session to compete for its lock while the
  websocket thread closes it.
- `MaxReq = 1` in `sessions`: three connections bring up to three requests to the
  pool. `MaxReq = 2` in `sessions_live` lets two requests of one session compete. The
  theorems, which need no bound, cover the rest.
- `Calls = {k1, k2, k3}` and `MaxCopies = 2`: a call that holds the mutex, one that
  queues behind it, and one that has timed out and whose answer comes late, twice.
- `MaxSockets = 2`: a socket and the one that replaces it while the server may
  still serve the first; `MaxReconnectAttempts = 1` is both one retry and the last
  one. `MaxCalls` counts the buttons and the ticks; each opening of a socket adds
  two calls of `getValues` by itself.
- `MaxSelections = 2` and `MaxCommands = 1` in `panel`: a selection whose answer is
  awaited while another is made, and a connector or a command among them; a second
  socket may be opened at any time. The stations have one connector less each than the
  server gives them, so that one has a single connector and the other a choice.
- `MaxGarbled = 1` in `panel`: one answer that cannot be read, among others that can.
  `MaxGarbled = 2` in `client`: a frame of two messages that are both lost, such as the
  welcome and the answer with the values.
- `MaxEvents = 2` in `client` counts the buttons, the intervals while connected and the
  changes by other pages; it leaves the commands of both pages, one after the other,
  and a raw request with the id of a call that waits.
- `Conns` and `Threads` of `process`: a session at work, one whose requests wait, and
  one that closes or whose removal is late, over two threads that end apart.

`PoolSymmetry` and `PageSymmetry` permute values that the modules do not tell apart;
runs with temporal properties of liveness do not use them. The property
`RegistrySpec` of `sessions` is about stations and connections, which are not
permuted.

### Fairness

- Sessions: the websocket thread serves its wake-up (`WaitCancelled`) and goes on
  with a callback that it has begun (`Quiesce`, `Notify`), a socket whose WRITEABLE
  callback was asked for becomes writable (`Writeable`, `CloseDropped`), a detached
  thread runs in the end, the pool threads run. That a connection dropped by the server
  is closed is not assumed: it follows from the wake-up of each drop. Nothing makes a
  station connect, send or close, nor an operator call.
- Calls: the threads and the websocket thread run. `PromptSpec` has no fairness of
  `Timeout`: what it shows does not wait for one. `CallEnds` has the assumption
  `TimeoutsExpire` besides, since the wait on the queue is bounded.
- Web: the server thread serves ready sockets, the browser runs its events and its
  timers. Users need not click, connections need not fail, and the metrics timer
  needs not tick.
- Operator panel: the server serves, the browser runs `onopen` and `onmessage`. Nobody
  clicks, no connection closes.
- Client pages: the server answers, the browser runs the events of the sockets. No
  connection has to be made, no timer to fire.
- Program: the main thread, the pool threads and the websocket thread run; what is open
  when its loop is over gets closed, as `lws_context_destroy` does. Nobody has to press
  Enter and no station to do anything. The thread of the web server is not counted on.

### Findings

The violation runs are disagreements between the code and what its comments or those
of its library say:

- `web_notices`: the WRITEABLE callback sends the whole buffer as one text frame. A
  notification that shares a frame is lost by the page, which parses a frame as
  one JSON text; this happens to the page that makes each change, and to its answer.
- `web_reset`: `resetSystem` announces the status "reset", sets "running", and does
  not announce the other values that it resets.
- `web_defaults`: `getValues` returns a text where its comment promises an object,
  and a connected page shows the values of a disconnection.
- `process_web`: `WebServer::stop` destroys the libwebsockets context before its thread
  is joined, and that thread may be in `lws_service`, or about to call it.

## The proofs

The proof modules hold for every value of the constants, from the assumptions
that the modules name: identifiers of connections (`StationOfAssumption`), null
values that are not connections, threads or calls (`NoConnAssumption`,
`UnlockedAssumption`, `NoCallAssumption`, `ConnsAssumption`, `NoneAssumption`), a first
id that is a natural number, bounds that are natural numbers, stations with at least
one connector (`ConnectorsOfAssumption`), and commands `setValue` of a value that the
server has (`CommandsAssumption`).

`ChargePointSessions_proofs`. `IInv` is the type invariant and five parts:

- `SessionInv`: a session is operational from its registration until the CLOSED
  callback of its socket has taken its lock; an open connection is operational;
- `ListInv`: an entry is of its own station;
- `RemovalInv`: a removal that has not run is of a session that is in the list and
  over, and a session that is in the list and over has its removal ahead;
- `CallbackInv`: what the websocket thread is doing, and to which session;
- `LockInv`: the lock of a session is held by the thread that handles one of its
  requests, and while the session is operational.

None of the properties is inductive by itself: that a removal finds its own
session needs `RemovalInv` in both directions, because it is the presence of the
old entry that has the new session refused; that entry is there because only a
removal deletes it. That the removal thread never waits for the lock of the session,
though it holds the mutex of the list, needs `LockInv`: once `Quiesce` has taken the
lock no pool thread handles a request of that session. From `IInv`: `TypeCorrect`,
`RemovalsMatch`, `RemovalsNeverWait`, `HandlersSafe`, `CallbacksSafe`,
`NoDeadEntries`, the action property `LiveErasure` and the refinement
`Implementation`.

`RpcCalls_proofs`. `IInv` is `TypeOK`, `MutexInv` (the mutex is held from `Lock` to
`Return`), `ExpectedInv` (who waits, waits for the current id), `SpentInv` (a
message on its way has the id of the call that waits, or a smaller one of a call
that has ended), `AnswerInv` (an answer exists because the station has answered)
and `OwnAnswer`. `OwnAnswer` needs `SpentInv`, which says that equal ids mean the
same call, and `SpentInv` needs `MutexInv`, as two calls under way would share an
id. The lemmas on the elements of sequences say what the queues hold after each
operation. Theorems: `TypeCorrect`, `OwnAnswers`, `SpentIds`, `Implementation`.

`WebRpc_proofs`. `IInv` is `TypeOK` and six parts, each about one socket or one page:

- `SocketInv`: the sockets of a page are created in turn and all but the last are
  closed; it has a timer only while the last one is closed, and has neither only when
  its attempts are used up;
- `FreshInv`: a connection that the server does not have yet holds nothing and has
  been told nothing; over a socket that is not open yet no call was made;
- `OrderInv`: the ids of the answers, then of the requests, increase along a
  connection, and are ids of calls that were made;
- `OwnInv`: what goes round an open connection is of a call that is pending on it;
- `AccountInv` and `ViewInv`: what `CallsAccounted` and `ViewFollows` say, of every
  socket that is served rather than of the last one, and for `ViewInv` before `onopen`
  too.

`AnswersInOrder` needs `OrderInv` with its bound by `requestId` (a new call comes after
all that is on its way) and `FreshInv` (a socket opens empty of answers, so `OwnInv`
holds when it does). `CallsAccounted` and `ViewFollows` are about the last socket, and a
reconnection changes which one it is: `AccountInv` and `ViewInv` cover them all, and
`SocketInv` makes a socket that is open the last one. A frame of several messages is thrown away
as a whole; that is why the lemmas on places (what appending to the buffer, sending it
as a frame, and taking the first frame do to places, answers and notices) come first and
carry most of the work. Theorems: `TypeCorrect`, `InOrderOnce`, `NoCallForgotten`,
`SingleConnection`, `PagesFollow`, and `AnnouncementsHold`. The last one is
`StaleOnlyByReset`, for any commands: `NoticesWrites` compares, handler by handler, what
is announced of a value with what is written, and `resetSystem`, which fails that
comparison, leaves every value at its initial one.

`RpcClient_proofs`. `IInv` is the types and `UsedInv` (websockets are created in turn),
`IdsInv` (a message has the id of a call that was made, and a call never has a request
and an answer on their way at once), `OwnInv` (the messages of a call are about what it
asks for), and `Distinct`: no two messages of a direction have one id, on whatever
connections they are. `IdsInv` and `Distinct` make the id that the code compares the
identity of the call, from which `Implementation` of `CallOnce` follows step by step.
Two more invariants are for the pages: `OrderInv` (on one connection ids are sorted,
and answers precede requests) and `FreshInv` (a connection that is not served yet
holds nothing).

`OperatorPanel_proofs`. The steps of the panel are steps of its client (`ClientStep`),
so what is proved of `RpcClient` carries over, `PanelCalls` among it. `PanelInv` adds
`SoundInv` (what a call is about exists), `Online`, `AppliedInv` (the selections
that took effect are older than the calls on their way on the same connection),
`LatestInv` and `OneAlive` (which say, for an operator who asks for one connection at a
time, that there is one, and compare selections across connections), and `ChosenInv` (a
connector that is awaited is of the current station and was chosen before any station
that is awaited). `SelectionOrder` needs `OrderInv`: it is the order of the answers on
one connection that orders the effects.

`ClientPages_proofs`. `IInv` is `TypeOK` and seven parts:

- `SocketInv` and `FreshInv`, as in `WebRpc_proofs`; `FreshInv` adds that the welcome is
  in front of a queue, and that a page with an open socket has made a call, which is
  what the raw request of the test button, whose id is 1, takes the place of;
- `OrderInv`: the ids of the answers, then of the requests, increase along a
  connection, whatever raw requests stand between them;
- `RoundInv`: what is on its way over a socket that is not closed is of a call that is
  pending over it, or is raw;
- `PendingInv`: the id of a pending call identifies it;
- `ViewInv`: `ViewIsCurrent` before `onopen` too: the last message on its way that
  holds the status has that of the server, or there is none and the page shows it;
- `IntervalInv`: the intervals, the calls of `getValues` over the last socket and those
  that its `onopen` and its welcome may still make (`Owed`) are two a socket at most.

`OwnAnswer` needs all of `OrderInv`, `RoundInv` and `PendingInv`: an answer settles one
call at most, and what stays behind it on the connection has a greater id, so is still
pending. `ViewIsCurrent` needs them too: were an answer with the values taken by another
call, the page would not show them. `IntervalsBounded` needs `Owed`, because a socket
that has just opened has made one of its two calls. Theorems: `TypeCorrect`,
`SingleConnection`, `SettledByItsAnswer`, `FewIntervals`, `ViewFollows`.

`ServerProcess_proofs`. `IInv` is the types and `StackInv` (where the main thread is says
what became of the stack), `HandlerInv`, `ThreadInv` (threads run only in a stack that
is up; it counts as started exactly if the websocket thread was created, which is why
a start that failed leaves nothing to join but the pool) and `ClosedInv` (the websocket
thread ends with its connections). From it: `ProcessTypeCorrect`,
`StackOutlivesThreads`, `SessionsOver`.

Model-checked only: the liveness properties, out of reach of the prover;
and what the violation runs refute. Of `ServerValues`, what `ToText` gives for a number is not used.

## Not modelled

- Charge point and local controller sides of the OCPP library, its database, INI
  files, timers, certificates and logs: vendored, and unused by the program or of no
  consequence to its state.
- OCPP messages: converters and validators work on one message at a time.
- The reception of fragmented frames, TLS, the check of credentials, HTTP and static
  files: what comes before a message of an established connection.
- The spy that each `ChargePointProxy20` registers with its session
  (`ChargePointProxy20.cpp:51`), which only logs the messages, and the reception thread
  of a session without a pool, which the program does not use.
- The pending and accepted lists of stations, always empty in the program, as said above.
- The metrics of the web server (random numbers) and the texts of its answers about
  stations; the copy of the list that `GetStations` takes is a `Snapshot` and a `Return`
  of `ChargePointSessions`.
- What `index.html` displays: `WebRpc` stops at its `this.values`.
- `send` from an operator thread while the socket is being destroyed
  (`LibWebsocketServer.cpp:673`): the code has no protection there, and no property
  states one.
- Transaction ids are natural numbers, where the code has an `int`.
- `web/js/central_system_bak.js` and `dashboard.js`, which no page includes, `tooltips.js`,
  which only shows texts, and `index.js`, which is only in `index copy.html` and only
  ever shows its demonstration data.
- The refusal of `UnlockConnector`, whose handler names its error `errro` and uses
  `error` (`web/js/central_system.js:446`): only the log differs.
- In the operator panel: the change of the address and of the polling period, the
  handlers of notifications that the server never sends, the log.
- The end of the websocket thread by an error (`LibWebsocketServer.cpp:253`): the
  vendored `lws_service` returns none before its context is destroyed.
- `OcppManager::stop` and `resetData`, which nothing calls.
- The timeout of 49.7 days of `Queue::pop`, after which a pool thread ends.

## Plan

1. Done: `StationRegistry`, `ChargePointSessions` and their proofs.
2. Done: `RequestReply`, `RpcCalls` and their proofs.
3. Done: `ServerValues`, `WebRpc` and their runs.
4. Done: `ServerProcess`, its runs and its proofs.
5. Done: `CallOnce`, `RpcClient`, `OperatorPanel` and their proofs; `ReconnectingClient`
   and `ClientPages`.
6. Done: the proofs of the safety properties of `WebRpc`.
7. Done: the proofs of the safety properties of `ReconnectingClient` and `ClientPages`.
   Left: `WebRpc` shown to implement `CallOnce`, page by page.
8. Left: composition of `RpcCalls` with `ChargePointSessions`, a proxy held by an
   operator over the end of its session.
