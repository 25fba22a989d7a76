----------------------------- MODULE OperatorPanel -----------------------------
(***************************************************************************)
(* The operator panel (web/index.html, web/js/central_system.js) on top of   *)
(* its RPCClient: the websocket buttons and their indicator, the selection   *)
(* of a station and of a connector, whose effects wait for answers, and the  *)
(* commands to what is selected.                                             *)
(***************************************************************************)
EXTENDS RpcClient

CONSTANTS
    Stations,       \* identifiers of stations
    ConnectorsOf,   \* number of connectors of each station
    Methods,        \* the commands that the operator uses
    MaxSelections,  \* bound on the selections of a station
    MaxCommands     \* bound on the selections of a connector and the commands

ASSUME ConnectorsOfAssumption == ConnectorsOf \in [Stations -> Nat \ {0}]
ASSUME NoneAssumption == "none" \notin Stations
ASSUME BoundsAssumption == MaxSelections \in Nat /\ MaxCommands \in Nat

VARIABLES
    led,            \* the indicator; it also says which websocket button is enabled
    listed,         \* the stations are in their dropdown
    station,        \* current_station
    connector,      \* current_connector, with (history) the station it was chosen for
    info,           \* the connector described by the panel, and its station
    \* histories
    selections,     \* selections of a station so far
    commands,       \* selections of a connector and commands so far
    applied,        \* for each websocket, the last selection of a station that took effect
    hasty,          \* a connector was chosen while the answer about a station was awaited
    impatient       \* a connection was asked for while another one lasted

selectionVars == <<listed, station, connector, info, applied>>
countVars == <<selections, commands>>
panelVars == <<led, selectionVars, countVars, hasty, impatient>>
vars == <<clientVars, panelVars>>

Nothing == [station |-> "none", id |-> 0]

-----------------------------------------------------------------------------
(* The requests *)

GetStations == [method |-> "GetStations", station |-> "none", connector |-> 0]

GetStationStatus(s) == [method |-> "GetStationStatus", station |-> s, connector |-> 0]

GetConnectorStatus(s, c) == [method |-> "GetConnectorStatus", station |-> s, connector |-> c]

(* The commands of a station send the current station only ... *)
StationMethods == {"DisconnectStation", "ChangeAvailability", "GetStationInfo", "GetConfiguration",
                   "GetVariable", "SetVariable", "RebootStation", "ClearCache"}

(* ... and those of a connector the current one too. *)
ConnectorMethods == {"RequestStartTransaction", "RequestStopTransaction", "UnlockConnector"}

TriggerMethods == {"TriggerMeterValues", "TriggerStatusNotification", "TriggerHeartbeat"}

Buttons == StationMethods \cup ConnectorMethods \cup TriggerMethods

ASSUME MethodsAssumption == Methods \subseteq Buttons

(* The connectors that a dropdown offers for a station. *)
Ids(s) == IF s = "none" THEN {} ELSE 1..ConnectorsOf[s]

AllConnectors == {0} \cup UNION {Ids(s) : s \in Stations}

PanelRequests ==
    [method : {"GetStations", "GetStationStatus", "GetConnectorStatus"} \cup Methods,
     station : Stations \cup {"none"}, connector : AllConnectors]

ASSUME RequestsAssumption == PanelRequests \subseteq Requests

(* What handleRpcMessage knows of these methods, and what their handlers want. *)
PanelKnown ==
    {q \in PanelRequests : \/ q.method = "GetStations"
                           \/ q.method \in {"GetStationStatus", "GetConnectorStatus"} /\ q.station # "none"}

-----------------------------------------------------------------------------

Init ==
    /\ ClientInit
    /\ led = FALSE
    /\ listed = FALSE
    /\ station = "none"
    /\ connector = Nothing
    /\ info = Nothing
    /\ selections = 0
    /\ commands = 0
    /\ applied = [n \in Sockets |-> 0]
    /\ hasty = FALSE
    /\ impatient = FALSE

(* The server's own steps. *)
Serve(n) == Server(n) /\ UNCHANGED panelVars

-----------------------------------------------------------------------------
(* The websocket buttons *)

Alive == {n \in Sockets : socket[n] \in {"connecting", "open", "closing"}}

(* connectWebsocket: the button is enabled while the indicator is off. *)
ConnectClick ==
    /\ ~led
    /\ Connect
    /\ impatient' = (impatient \/ Alive # {})
    /\ UNCHANGED <<led, selectionVars, countVars, hasty>>

DisconnectClick ==
    /\ led
    /\ Disconnect
    /\ UNCHANGED panelVars

WebsocketButtons == ConnectClick \/ DisconnectClick

(* updateConnectionStatus *)
Indicate(flag) ==
    /\ led' = flag
    /\ UNCHANGED <<selectionVars, countVars, hasty, impatient>>

PanelOpen(n) == Open(n, GetStations) /\ Indicate(TRUE)

PanelWelcomed(n) == Welcomed(n, GetStations) /\ Indicate(TRUE)

PanelClose(n) == Close(n) /\ Indicate(FALSE)

-----------------------------------------------------------------------------
(* The operator *)

Count == commands < MaxCommands /\ commands' = commands + 1 /\ UNCHANGED selections

(* The change event of a dropdown: the rest waits for the answer. The empty     *)
(* line of a dropdown asks for nothing, and lets the same choice be made again. *)
SelectStation(s) ==
    /\ listed
    /\ selections < MaxSelections /\ selections' = selections + 1
    /\ Ask(GetStationStatus(s))
    /\ UNCHANGED <<led, selectionVars, commands, hasty, impatient>>

Awaiting(method) == {r \in pending : r.of.method = method}

SelectConnector(c) ==
    /\ c \in Ids(station)
    /\ Count
    /\ hasty' = (hasty \/ Awaiting("GetStationStatus") # {})
    /\ Ask(GetConnectorStatus(station, c))
    /\ UNCHANGED <<led, selectionVars, impatient>>

ValidateCurrentStation == station # "none"

(* The connector that a command is about, 0 for none. For the meter values, the *)
(* button that is read for a connector has none, and the current one is sent.  *)
Subject(m) == IF m \in ConnectorMethods \cup {"TriggerMeterValues"} THEN connector.id ELSE 0

(* A button that sends a command about the current station. *)
Command(m) ==
    /\ ValidateCurrentStation
    /\ Count
    /\ Ask([method |-> m, station |-> station, connector |-> Subject(m)])
    /\ UNCHANGED <<led, selectionVars, hasty, impatient>>

-----------------------------------------------------------------------------
(* The answers *)

(* updateStationDropdown *)
ListStations == listed' = TRUE /\ UNCHANGED <<station, connector, info, applied>>

(* setFirstConnectorInDropdown: a station has a connector. *)
FirstConnector(s) == [station |-> s, id |-> 1]

(* updateConnectorInfo *)
Describe(c) == info' = c

(* Mutant: the connector described before stays in the panel. *)
ApplyStationOnly(n, i, s) ==
    /\ station' = s
    /\ applied' = [applied EXCEPT ![n] = i]
    /\ UNCHANGED <<listed, connector, info>>

(* handleStationChange, after its await: the first connector is selected in    *)
(* the dropdown and described, current_connector stays as it is.              *)
ApplyStation(n, i, s) ==
    /\ station' = s
    /\ Describe(FirstConnector(s))
    /\ applied' = [applied EXCEPT ![n] = i]
    /\ UNCHANGED <<listed, connector>>

(* Mutant: the connector is taken for one of the station that is current now. *)
ApplyConnectorHere(s, c) ==
    /\ connector' = [station |-> station, id |-> c]
    /\ Describe([station |-> s, id |-> c])
    /\ UNCHANGED <<listed, station, applied>>

(* handleConnectorChange, after its await *)
ApplyConnector(s, c) ==
    /\ connector' = [station |-> s, id |-> c]
    /\ Describe([station |-> s, id |-> c])
    /\ UNCHANGED <<listed, station, applied>>

(* An error is logged, and so is the result of a command. *)
Logged == UNCHANGED selectionVars

(* The code after the await of the call that an answer settles. *)
Continue(n, m) ==
    IF m.kind = "error" \/ Settled(m) = {} THEN Logged
    ELSE \E r \in Settled(m) :
            CASE r.of.method = "GetStations" -> ListStations
              [] r.of.method = "GetStationStatus" -> ApplyStation(n, r.id, r.of.station)
              [] r.of.method = "GetConnectorStatus" -> ApplyConnector(r.of.station, r.of.connector)
              [] OTHER -> Logged

PanelSettle(n) ==
    /\ Settle(n)
    /\ Continue(n, Head(downlink[n]))
    /\ UNCHANGED <<led, countVars, hasty, impatient>>

-----------------------------------------------------------------------------

Operator ==
    \/ WebsocketButtons
    \/ \E s \in Stations : SelectStation(s)
    \/ \E c \in AllConnectors : SelectConnector(c)
    \/ \E m \in Methods : Command(m)

Next ==
    \/ \E n \in Sockets : Serve(n) \/ PanelOpen(n) \/ PanelWelcomed(n) \/ PanelSettle(n) \/ PanelClose(n)
    \/ Operator

Spec == Init /\ [][Next]_vars

(* The server serves its connections, the browser runs its events. Nobody has  *)
(* to click, and no connection to fail.                                       *)
FairSpec ==
    /\ Spec
    /\ \A n \in Sockets : /\ WF_vars(Establish(n) /\ UNCHANGED panelVars)
                          /\ WF_vars(Receive(n) /\ UNCHANGED panelVars)
                          /\ WF_vars(PanelOpen(n) \/ PanelWelcomed(n) \/ PanelSettle(n))

-----------------------------------------------------------------------------
(* Properties *)

Connectors == {Nothing} \cup UNION {[station : {s}, id : Ids(s)] : s \in Stations}

(* Types of the variables of the panel and of its client. *)
TypeOK ==
    /\ ClientTypeOK
    /\ led \in BOOLEAN /\ listed \in BOOLEAN /\ hasty \in BOOLEAN /\ impatient \in BOOLEAN
    /\ station \in Stations \cup {"none"}
    /\ connector \in Connectors /\ info \in Connectors
    /\ selections \in 0..MaxSelections /\ commands \in 0..MaxCommands
    /\ applied \in [Sockets -> 0..requestId]

(* The client never believes it is connected without an open socket, nor the   *)
(* indicator that it is off while the client is connected. An operator who    *)
(* asks for one connection at a time sees the indicator on from the opening   *)
(* of the socket to its close event, and can make calls until he disconnects  *)
(* (onopen, onclose, disconnect, updateConnectionStatus).                     *)
Online ==
    /\ connected => led /\ \E n \in Sockets : socket[n] = "open"
    /\ ~impatient =>
          /\ led <=> \E n \in Sockets : socket[n] \in {"open", "closing"}
          /\ connected <=> used > 0 /\ socket[used] = "open"

(* The stations selected over one connection become the current one in the     *)
(* order in which they were selected, though each waits for an answer, and    *)
(* over all of them if one connection is asked for at a time                  *)
(* (handleStationChange).                                                     *)
SelectionsInOrder ==
    [][\A n \in Sockets : applied'[n] # applied[n] =>
          \A k \in Sockets : k = n \/ ~impatient => applied'[n] > applied[k]]_vars

(* The connector that the panel describes is one of the current station, if    *)
(* the operator waits for the answer about a station before he chooses a      *)
(* connector (handleConnectorChange reads current_station before its await).  *)
DescribedOfStation == ~hasty /\ ~impatient => info.station = station

(* The calls made over the last connection are settled in the end, all but     *)
(* those whose answers share a frame with another message, unless that        *)
(* connection is over (call, handleMessage).                                  *)
Unsettled == {r \in pending : r.n = used /\ r.id \notin garbled}

CallsSettle ==
    (connected /\ ~impatient) ~> (Unsettled = {} \/ ~connected \/ server[used] = "down" \/ impatient)
=============================================================================
