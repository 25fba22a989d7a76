------------------------------- MODULE RpcClient -------------------------------
(***************************************************************************)
(* RPCClient of a page (web/js/rpc-client.js), the websockets that it has    *)
(* created, which all write its fields, and the connection of each of them   *)
(* at the web server. The page itself is another module: an event that the   *)
(* client emits may have the page make a call in the same turn of the        *)
(* browser's loop.                                                           *)
(***************************************************************************)
EXTENDS Integers, Sequences, FiniteSets

CONSTANTS
    Requests,    \* the calls a page may make: methods with their parameters
    Known,       \* those the server carries out; the others get an error
    MaxSockets,  \* bound on the websockets a page creates
    MaxGarbled   \* bound on the answers that share a frame with another message

ASSUME KnownAssumption == Known \subseteq Requests
ASSUME MaxSocketsAssumption == MaxSockets \in Nat
ASSUME MaxGarbledAssumption == MaxGarbled \in Nat

Sockets == 1..MaxSockets

VARIABLES
    \* the server and the network
    server,     \* each connection at the server: "none", "up" or "down"
    uplink,     \* requests on their way to the server
    downlink,   \* messages on their way to the page
    \* RPCClient
    socket,     \* each websocket: "none", "connecting", "open", "closing" or "closed"
    used,       \* number of websockets created; the last one is ws
    connected,  \* connected
    requestId,  \* requestId
    pending,    \* pendingRequests, each with what it asks for and (history) its ws
    \* history
    garbled     \* ids of the messages that left the server in a frame with another one

serverVars == <<server, uplink, downlink>>
socketVars == <<socket, used, connected>>
callVars   == <<requestId, pending>>
clientVars == <<serverVars, socketVars, callVars, garbled>>

Welcome == [kind |-> "connected", id |-> 0]

ClientInit ==
    /\ server = [n \in Sockets |-> "none"]
    /\ uplink = [n \in Sockets |-> <<>>]
    /\ downlink = [n \in Sockets |-> <<>>]
    /\ socket = [n \in Sockets |-> "none"]
    /\ used = 0
    /\ connected = FALSE
    /\ requestId = 0
    /\ pending = {}
    /\ garbled = {}

-----------------------------------------------------------------------------
(* The server: the callbacks of a connection. Its write buffer leaves as one  *)
(* text frame, which the page parses as one JSON text: a message that shares  *)
(* a frame, be it with a notification that another page has caused, has no    *)
(* effect on the page (see WebRpc).                                           *)

(* Mutant: a message goes in front of those that are waiting. *)
WriteInFront(n, m) ==
    /\ downlink' = IF socket[n] = "closed" THEN downlink
                   ELSE [downlink EXCEPT ![n] = <<m>> \o @]
    /\ UNCHANGED garbled

Write(n, m) ==
    \/ /\ downlink' = IF socket[n] = "closed" THEN downlink
                      ELSE [downlink EXCEPT ![n] = Append(@, m)]
       /\ UNCHANGED garbled
    \/ /\ socket[n] # "closed" /\ Cardinality(garbled) < MaxGarbled
       /\ garbled' = garbled \cup {m.id}
       /\ UNCHANGED downlink

(* handleWebSocketConnect *)
Establish(n) ==
    /\ server[n] = "none" /\ socket[n] # "none"
    /\ server' = [server EXCEPT ![n] = "up"]
    /\ Write(n, Welcome)
    /\ UNCHANGED <<uplink, socketVars, callVars>>

(* Mutant: an error is not answered. *)
ReceiveNoError(n) ==
    /\ server[n] = "up" /\ uplink[n] # <<>>
    /\ LET r == Head(uplink[n])
       IN IF r.of \in Known THEN Write(n, [kind |-> "result", id |-> r.id, of |-> r.of])
                            ELSE UNCHANGED <<downlink, garbled>>
    /\ uplink' = [uplink EXCEPT ![n] = Tail(@)]
    /\ UNCHANGED <<server, socketVars, callVars>>

(* handleRpcMessage: a result or an error, to the connection that asked. *)
Receive(n) ==
    /\ server[n] = "up" /\ uplink[n] # <<>>
    /\ LET r == Head(uplink[n])
       IN Write(n, [kind |-> IF r.of \in Known THEN "result" ELSE "error", id |-> r.id, of |-> r.of])
    /\ uplink' = [uplink EXCEPT ![n] = Tail(@)]
    /\ UNCHANGED <<server, socketVars, callVars>>

(* The connection is over for the server, with what it had not read. *)
Closed(n) ==
    /\ server[n] = "up"
    /\ server' = [server EXCEPT ![n] = "down"]
    /\ uplink' = [uplink EXCEPT ![n] = <<>>]
    /\ UNCHANGED <<downlink, socketVars, callVars, garbled>>

-----------------------------------------------------------------------------
(* RPCClient. "online" and "ws" are what call() finds in connected and in the *)
(* state of ws, which the event that the call belongs to may just have set.   *)

(* call: rejected while offline. send throws on a socket that is still        *)
(* connecting, and discards the text on one that is closing or closed: the    *)
(* promise then stays in pendingRequests.                                     *)
Call(q, online, ws) ==
    \/ ~online /\ UNCHANGED <<requestId, pending, uplink>>
    \/ /\ online /\ ws = "connecting"
       /\ requestId' = requestId + 1
       /\ UNCHANGED <<pending, uplink>>
    \/ /\ online /\ ws # "connecting"
       /\ requestId' = requestId + 1
       /\ pending' = pending \cup {[id |-> requestId + 1, of |-> q, n |-> used]}
       /\ uplink' = IF ws # "open" \/ server[used] # "up" THEN uplink
                    ELSE [uplink EXCEPT ![used] = Append(@, [id |-> requestId + 1, of |-> q])]

(* A call made by an event of the page's own. *)
Ask(q) ==
    /\ used > 0
    /\ Call(q, connected, socket[used])
    /\ UNCHANGED <<server, downlink, socketVars, garbled>>

(* Mutant: each connection counts its calls anew. *)
ConnectAnew ==
    /\ used < MaxSockets
    /\ used' = used + 1
    /\ socket' = [socket EXCEPT ![used + 1] = "connecting"]
    /\ requestId' = 0
    /\ UNCHANGED <<serverVars, connected, pending, garbled>>

(* connect() *)
Connect ==
    /\ used < MaxSockets
    /\ used' = used + 1
    /\ socket' = [socket EXCEPT ![used + 1] = "connecting"]
    /\ UNCHANGED <<serverVars, connected, callVars, garbled>>

(* disconnect(): ws.close(), whose close event comes later. *)
Disconnect ==
    /\ connected' = FALSE
    /\ socket' = IF used > 0 /\ socket[used] \in {"connecting", "open"}
                 THEN [socket EXCEPT ![used] = "closing"] ELSE socket
    /\ UNCHANGED <<serverVars, used, callVars, garbled>>

(* onopen, and the call that the handlers of 'connected' make. *)
Open(n, q) ==
    /\ socket[n] = "connecting" /\ server[n] # "none"
    /\ socket' = [socket EXCEPT ![n] = "open"]
    /\ connected' = TRUE
    /\ Call(q, TRUE, IF n = used THEN "open" ELSE socket[used])
    /\ UNCHANGED <<server, downlink, used, garbled>>

(* Mutant: the close event does not reset connected. *)
CloseConnected(n) ==
    /\ socket[n] \in {"connecting", "open", "closing"}
    /\ socket' = [socket EXCEPT ![n] = "closed"]
    /\ downlink' = [downlink EXCEPT ![n] = <<>>]
    /\ UNCHANGED <<server, uplink, used, connected, callVars, garbled>>

(* onclose, also of a connection that fails; it may come at any time. *)
Close(n) ==
    /\ socket[n] \in {"connecting", "open", "closing"}
    /\ socket' = [socket EXCEPT ![n] = "closed"]
    /\ connected' = FALSE
    /\ downlink' = [downlink EXCEPT ![n] = <<>>]
    /\ UNCHANGED <<server, uplink, used, callVars, garbled>>

(* A message reaches an open socket; one that is closing drops it. *)
Incoming(n, kinds) ==
    /\ socket[n] = "open" /\ downlink[n] # <<>>
    /\ Head(downlink[n]).kind \in kinds
    /\ downlink' = [downlink EXCEPT ![n] = Tail(@)]
    /\ UNCHANGED <<server, socketVars, garbled>>

(* Mutant: an answer is matched by what was asked for. *)
SettledByRequest(m) == {r \in pending : r.of = m.of}

(* handleMessage of an answer: the calls that it settles, one or none. *)
Settled(m) == {r \in pending : r.id = m.id}

Settle(n) ==
    /\ Incoming(n, {"result", "error"})
    /\ pending' = pending \ Settled(Head(downlink[n]))
    /\ UNCHANGED <<uplink, requestId>>

(* handleMessage of the welcome: its method is the name of the event that     *)
(* onopen emits, and the same handlers run.                                   *)
Welcomed(n, q) ==
    /\ Incoming(n, {"connected"})
    /\ Call(q, connected, socket[used])

-----------------------------------------------------------------------------

Server(n) == Establish(n) \/ Receive(n) \/ Closed(n)

ClientNext ==
    \/ \E n \in Sockets : Server(n) \/ Close(n) \/ Settle(n)
    \/ \E n \in Sockets, q \in Requests : Open(n, q) \/ Welcomed(n, q)
    \/ \E q \in Requests : Ask(q)
    \/ Connect \/ Disconnect

ClientSpec == ClientInit /\ [][ClientNext]_clientVars

-----------------------------------------------------------------------------
(* Properties *)

Calls == [id : Nat, of : Requests]

Answers == [kind : {"result", "error"}, id : Nat, of : Requests]

(* Types of the variables of the client, its sockets and their connections. *)
ClientTypeOK ==
    /\ server \in [Sockets -> {"none", "up", "down"}]
    /\ uplink \in [Sockets -> Seq(Calls)]
    /\ downlink \in [Sockets -> Seq(Answers \cup {Welcome})]
    /\ socket \in [Sockets -> {"none", "connecting", "open", "closing", "closed"}]
    /\ used \in 0..MaxSockets
    /\ connected \in BOOLEAN
    /\ requestId \in Nat
    /\ pending \subseteq [id : 1..requestId, of : Requests, n : Sockets]
    /\ garbled \subseteq Nat

Elements(q) == {q[i] : i \in DOMAIN q}

(* The messages of all the connections, in one direction. *)
All(q) == UNION {Elements(q[n]) : n \in Sockets}

Waits == {[id |-> r.id, of |-> r.of] : r \in pending}

Answering == All(downlink) \ {Welcome}

Once == INSTANCE CallOnce WITH
            made <- requestId, waiting <- Waits, requests <- All(uplink), answers <- Answering

(* RPCClient.call and handleMessage, over sockets that come and go: see        *)
(* CallOnce.                                                                  *)
CallOnceSpec == Once!Spec
=============================================================================
