------------------------------ MODULE ClientPages ------------------------------
(***************************************************************************)
(* The two pages that are written on the client of client/js/rpc-client.js:  *)
(* the monitoring of client/js/monitoring.js and the administration panel of *)
(* client/admin/js/admin.js.                                                 *)
(***************************************************************************)
EXTENDS ReconnectingClient

CONSTANTS
    Commands,  \* the commands that the users give
    MaxEvents  \* bound on the calls of buttons and timers, and on changes elsewhere

ASSUME MaxEventsAssumption == MaxEvents \in Nat

VARIABLES
    page,       \* "monitoring" or "admin"
    online,     \* the status shown, and connectionState
    intervals,  \* intervals that setInterval runs, which nothing clears
    debugs,     \* debugMetrics that setTimeout has scheduled
    view,       \* the text of the element systemStatus
    metrics,    \* the metrics displayed: "none", "live" or "default" (zero)
    listing,    \* the administration panel shows its buttons
    events,     \* number of events, bounded by MaxEvents
    debugged    \* history: the test button has sent its raw request

displayVars == <<online, intervals, view, metrics, listing>>
pageVars == <<page, displayVars, debugs, events, debugged>>
vars == <<clientVars, serviceVars, reconnectVars, pageVars>>

MonitoringCommands == {"startCharging", "stopCharging", "resetSystem", "setMaxPower"}

AdminCommands == {"setValue", "resetSystem"}

(* What the pages ask for; debugMetrics asks for the metrics too. *)
PageRequests == MonitoringCommands \cup AdminCommands \cup {"getValues", "getMetrics", "debugMetrics"}

Init ==
    /\ ReconnectingInit
    /\ page \in {"monitoring", "admin"}
    /\ online = FALSE
    /\ intervals = 0
    /\ debugs = 0
    /\ view = "unknown"
    /\ metrics = "none"
    /\ listing = FALSE
    /\ events = 0
    /\ debugged = FALSE

Count == events < MaxEvents /\ events' = events + 1

Serve(n) == (Accept(n) \/ Answer(n) \/ Ignore(n) \/ Leave(n)) /\ UNCHANGED pageVars

OthersChange ==
    /\ Count
    /\ Elsewhere
    /\ UNCHANGED <<page, displayVars, debugs, debugged>>

-----------------------------------------------------------------------------
(* The connection. Both pages ask for the values when they hear 'connected',   *)
(* and the monitoring schedules a look at the metrics.                        *)

Load == Dial /\ UNCHANGED pageVars

Reload == Redial /\ UNCHANGED pageVars

(* updateConnectionStatus *)
ShowStatus(flag) == online' = flag /\ UNCHANGED <<intervals, view, metrics, listing>>

OnConnected ==
    /\ ShowStatus(TRUE)
    /\ debugs' = IF page = "monitoring" THEN debugs + 1 ELSE debugs
    /\ UNCHANGED <<page, events, debugged>>

PageOpen(n) == Opened(n, "getValues") /\ OnConnected

PageGreeted(n) == Greeted(n, "getValues") /\ OnConnected

PageClose(n) ==
    /\ Dropped(n)
    /\ ShowStatus(FALSE)
    /\ UNCHANGED <<page, debugs, events, debugged>>

-----------------------------------------------------------------------------
(* The answers *)

(* updateValue, of systemStatus. For chargingEnabled, which would disable one   *)
(* of two buttons, index.html has no element: it returns early.               *)
ShowValue(value) == view' = value

(* Mutant: the values are expected as an object. *)
StartMonitoringObject(m) == UNCHANGED <<online, intervals, view, metrics, listing>>

(* startMonitoring, after its await: the values hold the metrics too. The text *)
(* of a single value, which is not JSON, is an error.                         *)
StartMonitoring(m) ==
    /\ IF m.of = "getValues"
       THEN ShowValue(m.value) /\ metrics' = "live" /\ intervals' = intervals + 1
       ELSE UNCHANGED <<view, metrics, intervals>>
    /\ UNCHANGED <<online, listing>>

(* Mutant: every update schedules the next ones. *)
ShowMetricsAgain ==
    /\ metrics' = "default"
    /\ intervals' = intervals + 1
    /\ UNCHANGED <<online, view, listing>>

(* updateMetrics, after its await. The server wraps the metrics in one more     *)
(* response, in which they are not found.                                     *)
ShowMetrics == metrics' = "default" /\ UNCHANGED <<online, intervals, view, listing>>

(* displaySystemInfo *)
DisplaySystemInfo == listing' = TRUE /\ UNCHANGED <<online, intervals, view, metrics>>

(* The code after the await of the call that an answer settles. *)
Continue(m) ==
    IF Settled(m) = {} THEN UNCHANGED displayVars
    ELSE \E r \in Settled(m) :
            CASE r.of = "getValues" -> IF page = "admin" THEN DisplaySystemInfo ELSE StartMonitoring(m)
              [] r.of = "getMetrics" -> ShowMetrics
              [] OTHER -> UNCHANGED displayVars

PageAnswered(n) ==
    /\ Answered(n)
    /\ Continue(Head(downlink[n]))
    /\ UNCHANGED <<page, debugs, events, debugged>>

(* The administration panel has no handler for the notifications. *)
PageNotified(n) ==
    /\ Notified(n)
    /\ IF page = "admin" THEN UNCHANGED view ELSE ShowValue(Head(downlink[n]).value)
    /\ UNCHANGED <<page, online, intervals, metrics, listing, debugs, events, debugged>>

-----------------------------------------------------------------------------
(* Timers and buttons *)

(* The interval of updateMetrics. While offline its call fails. *)
UpdateMetrics ==
    /\ intervals > 0 /\ connected
    /\ Count
    /\ Request("getMetrics")
    /\ UNCHANGED <<page, displayVars, debugs, debugged>>

UpdateOffline ==
    /\ intervals > 0 /\ ~connected
    /\ Request("getMetrics")
    /\ metrics' = "default"
    /\ UNCHANGED <<page, online, intervals, view, listing, debugs, events, debugged>>

DebugMetrics ==
    /\ debugs > 0
    /\ debugs' = debugs - 1
    /\ Count
    /\ Request("debugMetrics")
    /\ UNCHANGED <<page, displayVars, debugged>>

(* sendCommand *)
SendCommand(command) ==
    /\ page = "monitoring" /\ command \in MonitoringCommands
    /\ online /\ used > 0 /\ socket[used] = "open"
    /\ Count
    /\ Request(command)
    /\ UNCHANGED <<page, displayVars, debugs, debugged>>

(* debugTest sends a text of its own on the websocket, with the id 1. *)
DebugTest ==
    /\ page = "monitoring"
    /\ used > 0 /\ socket[used] = "open"
    /\ Count
    /\ debugged' = TRUE
    /\ uplink' = IF server[used] # "up" THEN uplink
                 ELSE [uplink EXCEPT ![used] = Append(@, [id |-> 1, of |-> "getValue"])]
    /\ UNCHANGED <<server, downlink, socketVars, callVars, garbled, serviceVars, reconnectVars,
                   page, displayVars, debugs>>

(* setValue and rebootSystem *)
Administer(command) ==
    /\ page = "admin" /\ command \in AdminCommands
    /\ listing
    /\ Count
    /\ Request(command)
    /\ UNCHANGED <<page, displayVars, debugs, debugged>>

-----------------------------------------------------------------------------

User == \E c \in Commands : SendCommand(c) \/ Administer(c)

Next ==
    \/ \E n \in Sockets : \/ Serve(n) \/ PageOpen(n) \/ PageGreeted(n) \/ PageClose(n)
                          \/ PageAnswered(n) \/ PageNotified(n)
    \/ Load \/ Reload
    \/ OthersChange
    \/ UpdateMetrics \/ UpdateOffline \/ DebugMetrics \/ DebugTest
    \/ User

Spec == Init /\ [][Next]_vars

(* The server answers the requests that it gets, and the browser runs the      *)
(* events of its sockets. No connection has to be made or to fail, no timer   *)
(* to fire, no user to press a button.                                        *)
FairSpec ==
    /\ Spec
    /\ \A n \in Sockets : /\ WF_vars(Answer(n) /\ UNCHANGED pageVars)
                          /\ WF_vars(PageOpen(n) \/ PageGreeted(n) \/ PageAnswered(n) \/ PageNotified(n))

-----------------------------------------------------------------------------
(* Properties *)

Texts == Statuses \cup {"reset"}

PageMessages ==
    [kind : {"result"}, id : Nat, of : PageRequests \cup {"getValue"}, value : Texts]
        \cup [kind : {"valueChanged"}, value : Texts] \cup {Welcome}

(* Types of the variables of the client, the server and the pages. *)
TypeOK ==
    /\ server \in [Sockets -> {"none", "up", "down"}]
    /\ uplink \in [Sockets -> Seq([id : Nat, of : PageRequests \cup {"getValue"}])]
    /\ downlink \in [Sockets -> Seq(PageMessages)]
    /\ socket \in [Sockets -> {"none", "connecting", "open", "closed"}]
    /\ used \in 0..MaxSockets
    /\ connected \in BOOLEAN /\ served \in BOOLEAN /\ told \in BOOLEAN
    /\ requestId \in Nat
    /\ pending \subseteq [id : 1..requestId, of : PageRequests, n : Sockets]
    /\ garbled \subseteq Nat
    /\ status \in Statuses
    /\ attempts \in 0..MaxReconnectAttempts /\ timers \in Nat
    /\ page \in {"monitoring", "admin"}
    /\ online \in BOOLEAN /\ listing \in BOOLEAN /\ debugged \in BOOLEAN
    /\ intervals \in Nat /\ debugs \in Nat
    /\ view \in Texts \cup {"unknown"}
    /\ metrics \in {"none", "live", "default"}
    /\ events \in 0..MaxEvents

(* A call is settled by the answer to it, over the connection that it was made *)
(* on; the raw request of the test button can only take the place of call 1   *)
(* (call, handleMessage, debugTest).                                          *)
OwnAnswer ==
    [][\A r \in pending \ pending', n \in Sockets : downlink'[n] # downlink[n] =>
          \/ Head(downlink[n]).id = r.id /\ Head(downlink[n]).of = r.of /\ n = r.n
          \/ debugged /\ r.id = 1]_vars

(* Each 'connected' starts one interval at most, and a connection brings two:  *)
(* that of onopen and the welcome (startMonitoring).                          *)
IntervalsBounded ==
    intervals + Cardinality({r \in pending : r.of = "getValues" /\ r.n = used}) <= 2 * used

(* The messages on their way that hold the status. *)
Telling(D) == {i \in DOMAIN D : \/ D[i].kind = "valueChanged"
                                \/ D[i].kind = "result" /\ D[i].of = "getValues"}

(* A monitoring page that has been sent the status in a frame of its own       *)
(* displays it as soon as it has received everything: the values that it      *)
(* asked for and the notifications overtake one another nowhere, and the      *)
(* status announced by a reset is followed by the true one only in an answer  *)
(* (startMonitoring, valueChanged, updateValue).                              *)
ViewIsCurrent ==
    (page = "monitoring" /\ told /\ connected /\ server[used] = "up") =>
        LET D == downlink[used]
        IN \/ Telling(D) = {} /\ view = status
           \/ \E i \in Telling(D) : D[i].value = status /\ \A j \in Telling(D) : j <= i

(* The monitoring of a page that stays connected to a server that serves it    *)
(* starts, unless the answer with the values shares a frame. The answer to the *)
(* test button then settles the call in its place (startMonitoring).          *)
MonitoringStarts ==
    (page = "monitoring" /\ served /\ connected)
        ~> \/ intervals > 0 \/ ~connected \/ server[used] = "down"
           \/ \E r \in pending : r.of = "getValues" /\ r.id \in garbled
           \/ debugged /\ 1 \in garbled
=============================================================================
