--------------------------- MODULE ReconnectingClient ---------------------------
(***************************************************************************)
(* RPCClient of the pages of web/client (client/js/rpc-client.js): a copy of  *)
(* the one of RpcClient, that reconnects, and asks for no subprotocol. Then   *)
(* libwebsockets chooses: with its first protocol, callback_http, the socket  *)
(* opens but nothing is ever read or written. Of the values of the server, the *)
(* model keeps systemStatus.                                                  *)
(***************************************************************************)
EXTENDS RpcClient

CONSTANT MaxReconnectAttempts  \* maxReconnectAttempts

ASSUME MaxReconnectAttemptsAssumption == MaxReconnectAttempts \in Nat

VARIABLES
    served,    \* callback_websocket has the connections
    status,    \* systemStatus
    told,      \* history: the last status sent to ws alone in a frame is this one
    attempts,  \* reconnectAttempts
    timers     \* reconnections that setTimeout has scheduled

serviceVars == <<served, status, told>>
reconnectVars == <<attempts, timers>>

Statuses == {"running", "charging", "ready"}

ReconnectingInit ==
    /\ ClientInit
    /\ served \in BOOLEAN
    /\ status = "running"
    /\ told = FALSE
    /\ attempts = 0
    /\ timers = 0

-----------------------------------------------------------------------------
(* The server *)

Accept(n) ==
    /\ \/ served /\ Establish(n)
       \/ /\ ~served /\ server[n] = "none" /\ socket[n] # "none"
          /\ server' = [server EXCEPT ![n] = "up"]
          /\ UNCHANGED <<uplink, downlink, socketVars, callVars, garbled>>
    /\ UNCHANGED <<serviceVars, reconnectVars>>

Listening(n) == server[n] = "up" /\ socket[n] # "closed"

(* The status changes, and no connection gets a frame that tells it so. *)
Silent(value) == status' = value /\ told' = (told /\ status = value) /\ UNCHANGED downlink

(* startCharging and stopCharging change two values and announce both in one  *)
(* frame, with the answer: the page that asks cannot read it (see WebRpc), nor *)
(* can any other page.                                                        *)
Change(r, value) == Silent(value) /\ garbled' = garbled \cup {r.id}

(* A notification of the status, alone in a frame for some connections. *)
Notify(N, value) ==
    downlink' = [n \in Sockets |-> IF n \notin N \/ ~Listening(n) THEN downlink[n] ELSE
                    Append(downlink[n], [kind |-> "valueChanged", value |-> value])]

(* resetSystem sets one status and announces another. In the frame of the     *)
(* answer the page that asks cannot read it; the others can, unless it shares *)
(* a frame for them too.                                                      *)
Reset(n, r) ==
    /\ garbled' = garbled \cup {r.id}
    /\ \/ Silent("running")
       \/ /\ Notify(Sockets \ {n}, "reset")
          /\ status' = "running"
          /\ told' = (told /\ status = "running" /\ n = used)

(* setValue and setMaxPower announce another value, in the frame of the answer. *)
ChangeOther(r) ==
    /\ garbled' = garbled \cup {r.id}
    /\ UNCHANGED <<status, told, downlink>>

(* Mutant: the answer holds the value that the server started with. *)
ReplyInitial(n, r) ==
    /\ Write(n, [kind |-> "result", id |-> r.id, of |-> r.of, value |-> "running"])
    /\ told' = (told \/ (n = used /\ r.of = "getValues" /\ downlink' # downlink))
    /\ UNCHANGED status

Reply(n, r) ==
    /\ Write(n, [kind |-> "result", id |-> r.id, of |-> r.of, value |-> status])
    /\ told' = (told \/ (n = used /\ r.of = "getValues" /\ downlink' # downlink))
    /\ UNCHANGED status

(* handleRpcMessage *)
Answer(n) ==
    /\ served /\ server[n] = "up" /\ uplink[n] # <<>>
    /\ LET r == Head(uplink[n])
       IN CASE r.of = "startCharging" -> Change(r, "charging")
            [] r.of = "stopCharging" -> Change(r, "ready")
            [] r.of = "resetSystem" -> Reset(n, r)
            [] r.of \in {"setValue", "setMaxPower"} -> ChangeOther(r)
            [] OTHER -> Reply(n, r)
    /\ uplink' = [uplink EXCEPT ![n] = Tail(@)]
    /\ UNCHANGED <<server, socketVars, callVars, served, reconnectVars>>

(* callback_http does nothing with a message. *)
Ignore(n) ==
    /\ ~served /\ server[n] = "up" /\ uplink[n] # <<>>
    /\ uplink' = [uplink EXCEPT ![n] = Tail(@)]
    /\ UNCHANGED <<server, downlink, socketVars, callVars, garbled, serviceVars, reconnectVars>>

(* Another client changes the status: with a command, with setValue, whose     *)
(* notification may share a frame, or with resetSystem.                       *)
Elsewhere ==
    /\ served
    /\ \/ \E value \in Statuses \ {status} :
             \/ Silent(value)
             \/ /\ Notify(Sockets, value)
                /\ status' = value
                /\ told' = (used > 0 /\ Listening(used))
       \/ Notify(Sockets, "reset") /\ status' = "running" /\ told' = FALSE
    /\ UNCHANGED <<server, uplink, socketVars, callVars, garbled, served, reconnectVars>>

Leave(n) == Closed(n) /\ UNCHANGED <<serviceVars, reconnectVars>>

-----------------------------------------------------------------------------
(* RPCClient *)

(* connect(), when the page is loaded. *)
Dial ==
    /\ used = 0
    /\ Connect
    /\ UNCHANGED <<serviceVars, reconnectVars>>

(* onopen, and the call of the handlers of 'connected' *)
Opened(n, q) ==
    /\ Open(n, q)
    /\ attempts' = 0
    /\ UNCHANGED <<serviceVars, timers>>

(* Mutant: one attempt too many. *)
HandleReconnectOnceMore ==
    IF attempts <= MaxReconnectAttempts
    THEN attempts' = attempts + 1 /\ timers' = timers + 1
    ELSE UNCHANGED reconnectVars

(* Mutant: an attempt schedules two reconnections. *)
HandleReconnectTwice ==
    IF attempts < MaxReconnectAttempts
    THEN attempts' = attempts + 1 /\ timers' = timers + 2
    ELSE UNCHANGED reconnectVars

HandleReconnect ==
    IF attempts < MaxReconnectAttempts
    THEN attempts' = attempts + 1 /\ timers' = timers + 1
    ELSE UNCHANGED reconnectVars

(* onclose *)
Dropped(n) ==
    /\ Close(n)
    /\ HandleReconnect
    /\ UNCHANGED serviceVars

(* The timer of handleReconnect. *)
Redial ==
    /\ timers > 0
    /\ Connect
    /\ timers' = timers - 1
    /\ told' = FALSE
    /\ UNCHANGED <<served, status, attempts>>

(* call() *)
Request(q) == Ask(q) /\ UNCHANGED <<serviceVars, reconnectVars>>

(* handleMessage: an answer to a call, or to none; the server's welcome, whose *)
(* method is the name of the event of onopen; a notification.                 *)
Answered(n) == Settle(n) /\ UNCHANGED <<serviceVars, reconnectVars>>

Greeted(n, q) == Welcomed(n, q) /\ UNCHANGED <<serviceVars, reconnectVars>>

Notified(n) ==
    /\ Incoming(n, {"valueChanged"})
    /\ UNCHANGED <<uplink, callVars, serviceVars, reconnectVars>>

-----------------------------------------------------------------------------
(* Properties *)

(* A page has one connection or one reconnection under way, unless it has     *)
(* given up, and believes it is connected just when its websocket is open     *)
(* (handleReconnect, onopen, onclose).                                        *)
OneConnection ==
    LET alive == Cardinality({n \in Sockets : socket[n] \in {"connecting", "open"}})
    IN used > 0 =>
          /\ alive + timers <= 1
          /\ alive + timers = 0 => attempts = MaxReconnectAttempts
          /\ connected <=> socket[used] = "open"
=============================================================================
