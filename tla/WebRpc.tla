-------------------------------- MODULE WebRpc --------------------------------
(***************************************************************************)
(* The web server and the pages that monitor it (web/client/index.html): the *)
(* websockets of each page and its reconnections, the calls of its RPCClient, *)
(* the single thread of WebServer that executes them in the order in which    *)
(* they arrive, its write buffers, and the values that each page keeps.       *)
(***************************************************************************)
EXTENDS ServerValues, FiniteSets, Functions

CONSTANTS
    Pages,
    Commands,              \* what the users of the pages ask for
    MaxReconnectAttempts,  \* maxReconnectAttempts
    MaxSockets,            \* bound on the websockets of one page
    MaxCalls               \* bound on the calls made by buttons and by the timer of one page

ASSUME CommandsAssumption == \A c \in Commands : c.method = "setValue" => c.key \in Keys
ASSUME MaxReconnectAttemptsAssumption == MaxReconnectAttempts \in Nat
ASSUME MaxSocketsAssumption == MaxSockets \in Nat \ {0}
ASSUME MaxCallsAssumption == MaxCalls \in Nat

Sockets == Pages \X (1..MaxSockets)

(* What the pages ask for by themselves. *)
GetValues  == [method |-> "getValues"]
GetMetrics == [method |-> "getMetrics"]

Asked == Commands \cup {GetValues, GetMetrics}

VARIABLES
    \* the server
    values,      \* values_
    server,      \* each socket at the server: "none", "up" (in connections) or "down"
    buffer,      \* write_buffer of each connection: the messages it holds
    announced,   \* history: the last value broadcast to each connection, by key
    \* the network
    uplink,      \* requests on their way to the server
    downlink,    \* text frames on their way to the page, each with its messages
    \* RPCClient
    socket,      \* each socket in the browser: "none", "connecting", "open" or "closed"
    used,        \* number of sockets each page has created; the last one is its ws
    connected,   \* connected, which connectionState follows
    requestId,   \* requestId
    pending,     \* pendingRequests, each with its method and (history) its socket
    attempts,    \* reconnectAttempts
    timers,      \* reconnections that setTimeout has scheduled
    \* MonitoringSystem
    rpcEnabled,  \* rpcEnabled, of both classes
    metrics,     \* metricsInterval is set
    view,        \* values, from which the page fills the elements that it has
    calls,       \* number of calls made by buttons and by the timer
    lost         \* history, never cleared: messages each page has received and thrown away

serverVars  == <<values, server, buffer, announced>>
networkVars == <<uplink, downlink>>
clientVars  == <<socket, used, connected, requestId, pending, attempts, timers>>
pageVars    == <<rpcEnabled, metrics, view, calls, lost>>
vars        == <<serverVars, networkVars, clientVars, pageVars>>

Ws(p) == <<p, used[p]>>

None == "none"

-----------------------------------------------------------------------------
(* Messages from the server. handleRpcMessage answers every method with a     *)
(* string, be it the text of a JSON object.                                   *)

Answer(r, ok) == [kind |-> "answer", id |-> r.id, method |-> r.method, ok |-> ok, type |-> "string"]

Notice(ch) == [kind |-> "valueChanged", key |-> ch.key, value |-> ch.value]

Welcome == [kind |-> "connected"]

Init ==
    /\ values = InitialValues
    /\ server = [s \in Sockets |-> "none"]
    /\ buffer = [s \in Sockets |-> <<>>]
    /\ announced = [s \in Sockets |-> [k \in Keys |-> None]]
    /\ uplink = [s \in Sockets |-> <<>>]
    /\ downlink = [s \in Sockets |-> <<>>]
    /\ socket = [s \in Sockets |-> IF s[2] = 1 THEN "connecting" ELSE "none"]
    /\ used = [p \in Pages |-> 1]
    /\ connected = [p \in Pages |-> FALSE]
    /\ requestId = [p \in Pages |-> 0]
    /\ pending = [p \in Pages |-> {}]
    /\ attempts = [p \in Pages |-> 0]
    /\ timers = [p \in Pages |-> 0]
    /\ rpcEnabled = [p \in Pages |-> TRUE]
    /\ metrics = [p \in Pages |-> FALSE]
    /\ view = [p \in Pages |-> [k \in Keys |-> None]]
    /\ calls = [p \in Pages |-> 0]
    /\ lost = [p \in Pages |-> {}]

-----------------------------------------------------------------------------
(* The server: callbacks of libwebsockets, all in the thread of run(). *)

Up == {s \in Sockets : server[s] = "up"}

Establish(s) ==
    /\ server[s] = "none"
    /\ socket[s] # "none"
    /\ server' = [server EXCEPT ![s] = "up"]
    /\ buffer' = [buffer EXCEPT ![s] = <<Welcome>>]
    /\ UNCHANGED <<values, announced, networkVars, clientVars, pageVars>>

(* Mutant: an error is not answered. *)
RespondNoError(s, notices, answer) ==
    buffer' = [t \in Sockets |-> buffer[t] \o (IF t \in Up THEN notices ELSE <<>>)
                                           \o (IF t = s /\ answer.ok THEN <<answer>> ELSE <<>>)]

(* The notifications go to every connection, the answer follows on its own. *)
Respond(s, notices, answer) ==
    buffer' = [t \in Sockets |-> buffer[t] \o (IF t \in Up THEN notices ELSE <<>>)
                                           \o (IF t = s THEN <<answer>> ELSE <<>>)]

(* handleRpcMessage *)
Receive(s) ==
    /\ s \in Up
    /\ uplink[s] # <<>>
    /\ LET r  == Head(uplink[s])
           ok == Accepted(r.command)
           notices == IF ok THEN Notices(r.command) ELSE <<>>
       IN /\ values' = IF ok THEN Effect(values, r.command) ELSE values
          /\ Respond(s, [i \in DOMAIN notices |-> Notice(notices[i])], Answer(r, ok))
          /\ announced' = [t \in Sockets |-> IF t \in Up THEN Written(announced[t], notices)
                                                         ELSE announced[t]]
    /\ uplink' = [uplink EXCEPT ![s] = Tail(@)]
    /\ UNCHANGED <<server, downlink, clientVars, pageVars>>

(* Mutant: what has been written stays in the buffer. *)
WriteableKeeps(s) ==
    /\ s \in Up
    /\ buffer[s] # <<>> /\ Len(downlink[s]) < 3
    /\ downlink' = IF socket[s] = "closed" THEN downlink ELSE [downlink EXCEPT ![s] = Append(@, buffer[s])]
    /\ UNCHANGED <<values, server, buffer, announced, uplink, clientVars, pageVars>>

(* The whole buffer is written as one text frame. *)
Writeable(s) ==
    /\ s \in Up
    /\ buffer[s] # <<>>
    /\ downlink' = IF socket[s] = "closed" THEN downlink ELSE [downlink EXCEPT ![s] = Append(@, buffer[s])]
    /\ buffer' = [buffer EXCEPT ![s] = <<>>]
    /\ UNCHANGED <<values, server, announced, uplink, clientVars, pageVars>>

(* The connection is over for the server, with what it had not read or sent. *)
Closed(s) ==
    /\ s \in Up
    /\ server' = [server EXCEPT ![s] = "down"]
    /\ buffer' = [buffer EXCEPT ![s] = <<>>]
    /\ uplink' = [uplink EXCEPT ![s] = <<>>]
    /\ UNCHANGED <<values, announced, downlink, clientVars, pageVars>>

-----------------------------------------------------------------------------
(* The pages: each step is one event of the browser's loop. *)

(* RPCClient.call when it goes through; a socket that the server has closed   *)
(* takes the request and loses it.                                            *)
Send(p, command) ==
    LET r == [id |-> requestId[p] + 1, method |-> command.method]
    IN /\ requestId' = [requestId EXCEPT ![p] = r.id]
       /\ pending' = [pending EXCEPT ![p] = @ \cup {[id |-> r.id, method |-> r.method, n |-> used[p]]}]
       /\ uplink' = IF server[Ws(p)] = "down" THEN uplink
                    ELSE [uplink EXCEPT ![Ws(p)] =
                            Append(@, [id |-> r.id, method |-> r.method, command |-> command])]

SetDefaultValues(p) == view' = [view EXCEPT ![p]["systemStatus"] = "disconnected"]

(* startMonitoring, up to its await: the initial values are asked for. *)
StartMonitoring(p) ==
    IF rpcEnabled[p]
    THEN Send(p, GetValues) /\ UNCHANGED view
    ELSE SetDefaultValues(p) /\ UNCHANGED <<requestId, pending, uplink>>

(* Mutant: the attempts are counted over the whole life of the page. *)
OpenKeepsAttempts(p) ==
    /\ socket[Ws(p)] = "connecting"
    /\ server[Ws(p)] # "none"
    /\ socket' = [socket EXCEPT ![Ws(p)] = "open"]
    /\ connected' = [connected EXCEPT ![p] = TRUE]
    /\ StartMonitoring(p)
    /\ UNCHANGED <<serverVars, downlink, used, timers, attempts, rpcEnabled, metrics, calls, lost>>

(* onopen *)
Open(p) ==
    /\ socket[Ws(p)] = "connecting"
    /\ server[Ws(p)] # "none"
    /\ socket' = [socket EXCEPT ![Ws(p)] = "open"]
    /\ connected' = [connected EXCEPT ![p] = TRUE]
    /\ attempts' = [attempts EXCEPT ![p] = 0]
    /\ StartMonitoring(p)
    /\ UNCHANGED <<serverVars, downlink, used, timers, rpcEnabled, metrics, calls, lost>>

(* An answer settles the call it is of, if any. startMonitoring goes on with   *)
(* the metrics; the text of the initial values is not the object it expects,  *)
(* and it shows the default ones.                                             *)
Settle(p, m) ==
    LET settled    == {r \in pending[p] : r.id = m.id}
        monitoring == \E r \in settled : r.method = "getValues"
    IN /\ pending' = [pending EXCEPT ![p] = @ \ settled]
       /\ metrics' = [metrics EXCEPT ![p] = @ \/ monitoring]
       /\ IF monitoring /\ m.type # "object" THEN SetDefaultValues(p) ELSE UNCHANGED view
       /\ UNCHANGED <<requestId, uplink, lost>>

(* Mutant: only a value that is known already is updated. *)
ShowKnown(p, m) ==
    /\ view' = IF view[p][m.key] = None THEN view ELSE [view EXCEPT ![p][m.key] = m.value]
    /\ UNCHANGED <<requestId, pending, uplink, metrics, lost>>

Show(p, m) ==
    /\ view' = [view EXCEPT ![p][m.key] = m.value]
    /\ UNCHANGED <<requestId, pending, uplink, metrics, lost>>

(* handleMessage. The method of the server's welcome is the name of the event *)
(* that the client itself emits in onopen: the monitoring starts again.       *)
Handle(p, m) ==
    \/ m.kind = "answer" /\ Settle(p, m)
    \/ m.kind = "valueChanged" /\ Show(p, m)
    \/ m.kind = "connected" /\ StartMonitoring(p) /\ UNCHANGED <<metrics, lost>>

Discard(p, frame) ==
    /\ lost' = [lost EXCEPT ![p] = @ \cup {[message |-> frame[i], paused |-> ~rpcEnabled[p]] : i \in DOMAIN frame}]
    /\ UNCHANGED <<requestId, pending, uplink, metrics, view>>

(* onmessage: nothing is handled while the RPC is paused, and a frame of more *)
(* than one message is not a JSON text.                                       *)
Message(p) ==
    /\ socket[Ws(p)] = "open"
    /\ downlink[Ws(p)] # <<>>
    /\ LET frame == Head(downlink[Ws(p)])
       IN IF rpcEnabled[p] /\ Len(frame) = 1 THEN Handle(p, frame[1]) ELSE Discard(p, frame)
    /\ downlink' = [downlink EXCEPT ![Ws(p)] = Tail(@)]
    /\ UNCHANGED <<serverVars, socket, used, connected, attempts, timers, rpcEnabled, calls>>

(* A button: sendCommand. *)
Click(p, command) ==
    /\ rpcEnabled[p] /\ connected[p]
    /\ calls[p] < MaxCalls
    /\ calls' = [calls EXCEPT ![p] = @ + 1]
    /\ Send(p, command)
    /\ UNCHANGED <<serverVars, downlink, socket, used, connected, attempts, timers,
                   rpcEnabled, metrics, view, lost>>

(* The interval of updateMetrics. A failure shows the default values. *)
Tick(p) ==
    /\ metrics[p]
    /\ calls[p] < MaxCalls
    /\ calls' = [calls EXCEPT ![p] = @ + 1]
    /\ IF connected[p]
       THEN Send(p, GetMetrics) /\ UNCHANGED view
       ELSE SetDefaultValues(p) /\ UNCHANGED <<requestId, pending, uplink>>
    /\ UNCHANGED <<serverVars, downlink, socket, used, connected, attempts, timers,
                   rpcEnabled, metrics, lost>>

(* The button that pauses and resumes the RPC, at any time. *)
ToggleRPC(p) ==
    /\ calls[p] < MaxCalls
    /\ calls' = [calls EXCEPT ![p] = @ + 1]
    /\ rpcEnabled' = [rpcEnabled EXCEPT ![p] = ~@]
    /\ metrics' = [metrics EXCEPT ![p] = ~rpcEnabled[p]]
    /\ UNCHANGED <<serverVars, networkVars, clientVars, view, lost>>

(* Mutant: the error of the socket schedules a reconnection too. *)
ReconnectTwice(p) ==
    IF attempts[p] < MaxReconnectAttempts
    THEN /\ attempts' = [attempts EXCEPT ![p] = @ + 1]
         /\ timers' = [timers EXCEPT ![p] = @ + 2]
    ELSE UNCHANGED <<attempts, timers>>

(* Mutant: one attempt too many. *)
ReconnectOnceMore(p) ==
    IF attempts[p] <= MaxReconnectAttempts
    THEN /\ attempts' = [attempts EXCEPT ![p] = @ + 1]
         /\ timers' = [timers EXCEPT ![p] = @ + 1]
    ELSE UNCHANGED <<attempts, timers>>

HandleReconnect(p) ==
    IF attempts[p] < MaxReconnectAttempts
    THEN /\ attempts' = [attempts EXCEPT ![p] = @ + 1]
         /\ timers' = [timers EXCEPT ![p] = @ + 1]
    ELSE UNCHANGED <<attempts, timers>>

(* onclose, at any time: a connection may fail or never be established. What  *)
(* had not been delivered is lost.                                            *)
Close(p, n) ==
    /\ socket[<<p, n>>] \in {"connecting", "open"}
    /\ socket' = [socket EXCEPT ![<<p, n>>] = "closed"]
    /\ downlink' = [downlink EXCEPT ![<<p, n>>] = <<>>]
    /\ connected' = [connected EXCEPT ![p] = FALSE]
    /\ metrics' = [metrics EXCEPT ![p] = FALSE]
    /\ SetDefaultValues(p)
    /\ HandleReconnect(p)
    /\ UNCHANGED <<serverVars, uplink, used, requestId, pending, rpcEnabled, calls, lost>>

(* The timer of handleReconnect: connect(). *)
Reconnect(p) ==
    /\ timers[p] > 0
    /\ used[p] < MaxSockets
    /\ timers' = [timers EXCEPT ![p] = @ - 1]
    /\ used' = [used EXCEPT ![p] = @ + 1]
    /\ socket' = [socket EXCEPT ![<<p, used[p] + 1>>] = "connecting"]
    /\ UNCHANGED <<serverVars, networkVars, connected, requestId, pending, attempts, pageVars>>

-----------------------------------------------------------------------------

Server(s) == Establish(s) \/ Receive(s) \/ Writeable(s) \/ Closed(s)

Page(p) == \/ Open(p) \/ Message(p) \/ Tick(p) \/ ToggleRPC(p) \/ Reconnect(p)
           \/ \E c \in Commands : Click(p, c)
           \/ \E n \in 1..MaxSockets : Close(p, n)

Next == (\E s \in Sockets : Server(s)) \/ (\E p \in Pages : Page(p))

Spec == Init /\ [][Next]_vars

(* The thread of run() serves every ready socket, the browser runs its events *)
(* and its timers; users click when they like and connections may never fail. *)
FairSpec ==
    /\ Spec
    /\ \A s \in Sockets : WF_vars(Establish(s)) /\ WF_vars(Receive(s)) /\ WF_vars(Writeable(s))
    /\ \A p \in Pages : WF_vars(Open(p)) /\ WF_vars(Message(p)) /\ WF_vars(Reconnect(p))

-----------------------------------------------------------------------------
(* Properties *)

(* The texts that the values take: the fixed ones, and those of the commands. *)
Texts == {"running", "charging", "ready", "reset", "true", "false", "50"}
            \cup {ToText(n) : n \in MaxPowerRange}
            \cup {c.value : c \in {d \in Commands : d.method = "setValue"}}

Methods == {c.method : c \in Asked}

Messages ==
    [kind : {"answer"}, id : Nat, method : Methods, ok : BOOLEAN, type : {"string"}]
        \cup [kind : {"valueChanged"}, key : Keys, value : Texts]
        \cup {Welcome}

(* Types of the variables of the server, the network and the pages. *)
TypeOK ==
    /\ values \in [Keys -> Texts]
    /\ server \in [Sockets -> {"none", "up", "down"}]
    /\ buffer \in [Sockets -> Seq(Messages)]
    /\ announced \in [Sockets -> [Keys -> Texts \cup {None}]]
    /\ uplink \in [Sockets -> Seq([id : Nat, method : Methods, command : Asked])]
    /\ downlink \in [Sockets -> Seq(Seq(Messages))]
    /\ socket \in [Sockets -> {"none", "connecting", "open", "closed"}]
    /\ used \in [Pages -> 1..MaxSockets]
    /\ connected \in [Pages -> BOOLEAN]
    /\ requestId \in [Pages -> Nat]
    /\ pending \in [Pages -> SUBSET [id : Nat, method : Methods, n : 1..MaxSockets]]
    /\ attempts \in [Pages -> 0..MaxReconnectAttempts]
    /\ timers \in [Pages -> Nat]
    /\ rpcEnabled \in [Pages -> BOOLEAN]
    /\ metrics \in [Pages -> BOOLEAN]
    /\ view \in [Pages -> [Keys -> Texts \cup {None, "disconnected"}]]
    /\ calls \in [Pages -> 0..MaxCalls]
    /\ lost \in [Pages -> SUBSET [message : Messages, paused : BOOLEAN]]

(* What is on its way to the page: the frames, and the one that the write     *)
(* buffer will be. A place is a frame and a message in it.                    *)
Frames(s) == Append(downlink[s], buffer[s])

Places(F) == UNION {{<<i, k>> : k \in DOMAIN F[i]} : i \in DOMAIN F}

At(F, a) == F[a[1]][a[2]]

Before(a, b) == a[1] < b[1] \/ (a[1] = b[1] /\ a[2] < b[2])

AnswerPlaces(F) == {a \in Places(F) : At(F, a).kind = "answer"}

AnswersIn(F) == {At(F, a) : a \in AnswerPlaces(F)}

NoticePlaces(F, k) == {a \in Places(F) : At(F, a).kind = "valueChanged" /\ At(F, a).key = k}

(* What goes round a connection: requests, and the answers to those before.   *)
Trip(s) == AnswersIn(Frames(s)) \cup Range(uplink[s])

(* The call that a request or an answer is of. *)
OfCall(m, s) == [id |-> m.id, method |-> m.method, n |-> s[2]]

Live(p) == socket[Ws(p)] = "open" /\ server[Ws(p)] = "up"

(* The answers of a connection come in the order of the requests, once, and   *)
(* each one to the page, and for the call, that it belongs to (the ids of     *)
(* RPCClient.call, the connection ids of handleWebSocketMessage).             *)
AnswersInOrder ==
    \A s \in Sockets : LET F == Frames(s)  Q == uplink[s] IN
       /\ \A a, b \in AnswerPlaces(F) : Before(a, b) => At(F, a).id < At(F, b).id
       /\ \A i, j \in DOMAIN Q : i < j => Q[i].id < Q[j].id
       /\ \A m \in AnswersIn(F), r \in Range(Q) : m.id < r.id
       /\ socket[s] = "open" => \A m \in Trip(s) : OfCall(m, s) \in pending[s[1]]

(* While a connection lasts, a call that is still pending on it is on its way *)
(* round, or its answer has reached the page and was thrown away (a frame with *)
(* other messages, the RPC paused): the server forgets none.                  *)
CallsAccounted ==
    \A p \in Pages : Live(p) =>
       \A r \in pending[p] : r.n = used[p] =>
          \/ \E m \in Trip(Ws(p)) : m.id = r.id
          \/ \E x \in lost[p] : x.message.kind = "answer" /\ x.message.id = r.id

(* A page has one connection or one reconnection under way, unless it has     *)
(* given up (handleReconnect), and believes it is connected just when its     *)
(* websocket is open.                                                         *)
OneConnection ==
    \A p \in Pages :
       LET alive == Cardinality({n \in 1..MaxSockets : socket[<<p, n>>] \in {"connecting", "open"}})
       IN /\ alive + timers[p] <= 1
          /\ alive + timers[p] = 0 => attempts[p] = MaxReconnectAttempts
          /\ connected[p] <=> socket[Ws(p)] = "open"

(* What the server has last told a connection about a value is the value it   *)
(* has (broadcastValueChange, called by each handler that writes it).         *)
AnnouncedIsCurrent ==
    \A s \in Up, k \in Keys : announced[s][k] \in {None, values[k]}

(* What the server has last told a connection about a value is the value it   *)
(* has, unless a reset, which does not announce what it writes, has put back   *)
(* the initial value since (the writes and the calls of broadcastValueChange  *)
(* of each handler).                                                          *)
StaleOnlyByReset ==
    \A s \in Up, k \in Keys :
       announced[s][k] \in {None, values[k]} \/ values[k] = InitialValues[k]

(* The notifications reach the page in order: its values hold, or will hold    *)
(* when it has received everything, what the server has last told its         *)
(* connection, unless a notification was thrown away (this.values, set by     *)
(* updateValue on valueChanged). After a notification of a value has been     *)
(* thrown away nothing is said of that value any more. systemStatus is left   *)
(* out: the default values overwrite it.                                      *)
ViewFollows ==
    \A p \in Pages, k \in Keys \ {"systemStatus"} :
       LET s == Ws(p)  F == Frames(s)  Q == NoticePlaces(F, k)
       IN  Live(p) /\ announced[s][k] # None =>
             \/ \E a \in Q : At(F, a).value = announced[s][k] /\ \A b \in Q : ~Before(a, b)
             \/ Q = {} /\ view[p][k] = announced[s][k]
             \/ Q = {} /\ \E x \in lost[p] : x.message.kind = "valueChanged" /\ x.message.key = k

(* WebServer.cpp:1171, "notify all clients of the change": a page that does   *)
(* not pause the RPC throws no notification away.                             *)
NotificationsHandled ==
    \A p \in Pages : \A x \in lost[p] : x.message.kind = "valueChanged" => x.paused

(* client/index.html:340, "set the default values at the disconnection": a    *)
(* connected page, whose user has pressed no button, does not show them.      *)
DefaultsOnlyOffline ==
    \A p \in Pages : connected[p] /\ calls[p] = 0 => view[p]["systemStatus"] # "disconnected"

Ids == 1..(2 * MaxSockets + MaxCalls)

(* A call settles, or its answer is thrown away, or its connection is over.   *)
CallSettles ==
    \A p \in Pages, i \in Ids, n \in 1..MaxSockets :
       (\E r \in pending[p] : r.id = i /\ r.n = n)
          ~> \/ ~ \E r \in pending[p] : r.id = i
             \/ \E x \in lost[p] : x.message.kind = "answer" /\ x.message.id = i
             \/ socket[<<p, n>>] = "closed" \/ server[<<p, n>>] = "down"

(* A page that was connected and whose connection is over opens another      *)
(* websocket, however many attempts it took to connect before: the attempts   *)
(* are counted again from onopen. At the bound on the websockets, it has      *)
(* scheduled one.                                                             *)
Redials ==
    \A p \in Pages, n \in 1..MaxSockets :
       [](socket[<<p, n>>] = "open"
            => [](socket[<<p, n>>] = "closed"
                    => <>(used[p] > n \/ (n = MaxSockets /\ timers[p] > 0))))
=============================================================================
