------------------------- MODULE OperatorPanel_proofs -------------------------
(***************************************************************************)
(* The operator panel uses its RPCClient as RpcClient allows, and keeps what *)
(* is said of its indicator and of the order of its selections, for any      *)
(* number of stations, selections, commands and websockets.                  *)
(***************************************************************************)
EXTENDS OperatorPanel, RpcClient_proofs

USE ConnectorsOfAssumption, NoneAssumption, MethodsAssumption, RequestsAssumption, BoundsAssumption,
    MaxSocketsAssumption
    DEF ConnectorsOfAssumption, NoneAssumption, MethodsAssumption, RequestsAssumption, BoundsAssumption,
        MaxSocketsAssumption, serverVars, socketVars, callVars, selectionVars, countVars

(* The calls of the panel are about stations and connectors that exist. *)
Sound(q) ==
    /\ q.method = "GetStationStatus" => q.station \in Stations
    /\ q.method = "GetConnectorStatus" => q.station \in Stations /\ q.connector \in Ids(q.station)

SoundInv == \A r \in pending : Sound(r.of)

(* The selections that took effect were made before the calls that are still *)
(* on their way, over the same connection ...                                *)
AppliedInv == \A n \in Sockets : \A i \in IdsAt(n) : applied[n] < i

(* ... and, if the operator asks for one connection at a time, over the last *)
(* one.                                                                      *)
LatestInv ==
    ~impatient => \A n \in Sockets : n = used => \A i \in IdsAt(n), k \in Sockets : applied[k] < i

(* The only websocket alive, then. *)
OneAlive == ~impatient => \A n \in Alive : n = used

(* A patient operator chose every connector he still waits for on the station *)
(* that is current, and before any station that he waits for.                *)
ChosenInv ==
    ~hasty /\ ~impatient =>
        /\ info.station = station
        /\ \A r \in pending : r.of.method = "GetConnectorStatus" =>
              /\ used \in Sockets /\ r.id \in IdsAt(used) => r.of.station = station
              /\ \A t \in pending : t.of.method = "GetStationStatus" => r.id < t.id

PanelInv ==
    /\ IInv /\ OrderInv /\ FreshInv
    /\ TypeOK /\ SoundInv /\ Online
    /\ AppliedInv /\ LatestInv /\ OneAlive /\ ChosenInv

-----------------------------------------------------------------------------
(* The requests. *)

LEMMA Connectable ==
  /\ \A s \in Stations : 1 \in Ids(s) /\ Ids(s) \subseteq AllConnectors
  /\ 0 \in AllConnectors
  /\ \A c \in Connectors : c.id \in AllConnectors
  /\ \A s \in Stations : \A c \in Ids(s) : [station |-> s, id |-> c] \in Connectors
  /\ Nothing \in Connectors
<1>1. \A s \in Stations : 1 \in Ids(s)
  BY DEF Ids
<1>2. \A s \in Stations : Ids(s) \subseteq AllConnectors
  BY DEF AllConnectors
<1>3. 0 \in AllConnectors
  BY DEF AllConnectors
<1>4. \A c \in Connectors : c.id \in AllConnectors
  BY <1>2, <1>3 DEF Connectors, Nothing
<1>5. \A s \in Stations : \A c \in Ids(s) : [station |-> s, id |-> c] \in Connectors
  BY DEF Connectors
<1>6. Nothing \in Connectors
  BY DEF Connectors
<1> QED
  BY <1>1, <1>2, <1>3, <1>4, <1>5, <1>6

LEMMA Requested ==
  /\ GetStations \in Requests /\ Sound(GetStations)
  /\ \A s \in Stations : GetStationStatus(s) \in Requests /\ Sound(GetStationStatus(s))
  /\ \A s \in Stations : \A c \in Ids(s) :
        GetConnectorStatus(s, c) \in Requests /\ Sound(GetConnectorStatus(s, c))
  /\ \A m \in Methods, s \in Stations, c \in AllConnectors :
        LET q == [method |-> m, station |-> s, connector |-> c] IN q \in Requests /\ Sound(q)
<1>1. GetStations \in Requests /\ Sound(GetStations)
  BY Connectable DEF GetStations, PanelRequests, Sound
<1>2. \A s \in Stations : GetStationStatus(s) \in Requests /\ Sound(GetStationStatus(s))
  BY Connectable DEF GetStationStatus, PanelRequests, Sound
<1>3. \A s \in Stations : \A c \in Ids(s) :
         GetConnectorStatus(s, c) \in Requests /\ Sound(GetConnectorStatus(s, c))
  BY Connectable DEF GetConnectorStatus, PanelRequests, Sound
<1>4. \A m \in Methods : m \notin {"GetStationStatus", "GetConnectorStatus"}
  BY DEF Buttons, StationMethods, ConnectorMethods, TriggerMethods
<1>5. ASSUME NEW m \in Methods, NEW s \in Stations, NEW c \in AllConnectors
      PROVE  LET q == [method |-> m, station |-> s, connector |-> c] IN q \in Requests /\ Sound(q)
  BY <1>4, <1>5 DEF PanelRequests, Sound
<1> QED
  BY <1>1, <1>2, <1>3, <1>5

(* What a command names exists. *)
LEMMA Subjects == ASSUME TypeOK, NEW m \in Methods PROVE Subject(m) \in AllConnectors
BY Connectable DEF TypeOK, Subject

-----------------------------------------------------------------------------
(* Every step of the panel is one of its client, or none of it. *)

LEMMA ClientStep == ASSUME TypeOK, [Next]_vars PROVE [ClientNext]_clientVars
<1>1. ASSUME NEW n \in Sockets, Serve(n) \/ PanelSettle(n) \/ PanelClose(n) PROVE ClientNext
  BY <1>1 DEF Serve, PanelSettle, PanelClose, ClientNext
<1>2. ASSUME NEW n \in Sockets, PanelOpen(n) \/ PanelWelcomed(n) PROVE ClientNext
  BY <1>2, Requested DEF PanelOpen, PanelWelcomed, ClientNext
<1>3. ASSUME WebsocketButtons PROVE ClientNext
  BY <1>3 DEF WebsocketButtons, ConnectClick, DisconnectClick, ClientNext
<1>4. ASSUME NEW s \in Stations, SelectStation(s) PROVE ClientNext
  BY <1>4, Requested DEF SelectStation, ClientNext
<1>5. ASSUME NEW c \in AllConnectors, SelectConnector(c) PROVE ClientNext
  <2>1. station \in Stations /\ c \in Ids(station)
    BY <1>5 DEF SelectConnector, TypeOK, Ids
  <2> QED
    BY <1>5, <2>1, Requested DEF SelectConnector, ClientNext
<1>6. ASSUME NEW m \in Methods, Command(m) PROVE ClientNext
  <2>1. station \in Stations /\ Subject(m) \in AllConnectors
    BY <1>6, Subjects DEF Command, ValidateCurrentStation, TypeOK
  <2>2. [method |-> m, station |-> station, connector |-> Subject(m)] \in Requests
    BY <2>1, Requested
  <2> QED
    BY <1>6, <2>2 DEF Command, ClientNext
<1>7. CASE UNCHANGED vars
  BY <1>7 DEF vars
<1> QED
  BY <1>1, <1>2, <1>3, <1>4, <1>5, <1>6, <1>7 DEF Next, Operator

(* The calls that wait after a call. *)
LEMMA CallSound ==
  ASSUME SoundInv, NEW q, Sound(q), NEW online, NEW ws, Call(q, online, ws)
  PROVE  SoundInv'
<1>1. CASE pending' = pending
  BY <1>1 DEF SoundInv
<1>2. CASE pending' = pending \cup {[id |-> requestId + 1, of |-> q, n |-> used]}
  <2> DEFINE r == [id |-> requestId + 1, of |-> q, n |-> used]
  <2>1. pending' = pending \cup {r} /\ r.of = q
    BY <1>2
  <2> HIDE DEF r
  <2> QED
    BY <2>1 DEF SoundInv
<1> QED
  BY <1>1, <1>2, CallCases

LEMMA SoundStep == ASSUME TypeOK, SoundInv, [Next]_vars PROVE SoundInv'
<1>1. ASSUME NEW n \in Sockets, Serve(n) \/ PanelSettle(n) \/ PanelClose(n) PROVE pending' \subseteq pending
  BY <1>1 DEF Serve, Server, Establish, Receive, Closed, PanelSettle, Settle, PanelClose, Close
<1>2. ASSUME NEW n \in Sockets, PanelOpen(n) \/ PanelWelcomed(n) PROVE SoundInv'
  BY <1>2, Requested, CallSound DEF PanelOpen, Open, PanelWelcomed, Welcomed
<1>3. ASSUME WebsocketButtons \/ UNCHANGED vars PROVE pending' = pending
  BY <1>3 DEF WebsocketButtons, ConnectClick, Connect, DisconnectClick, Disconnect, vars, clientVars
<1>4. ASSUME NEW s \in Stations, SelectStation(s) PROVE SoundInv'
  BY <1>4, Requested, CallSound DEF SelectStation, Ask
<1>5. ASSUME NEW c \in AllConnectors, SelectConnector(c) PROVE SoundInv'
  <2>1. station \in Stations /\ c \in Ids(station)
    BY <1>5 DEF SelectConnector, TypeOK, Ids
  <2> QED
    BY <1>5, <2>1, Requested, CallSound DEF SelectConnector, Ask
<1>6. ASSUME NEW m \in Methods, Command(m) PROVE SoundInv'
  <2>1. station \in Stations /\ Subject(m) \in AllConnectors
    BY <1>6, Subjects DEF Command, ValidateCurrentStation, TypeOK
  <2>2. Sound([method |-> m, station |-> station, connector |-> Subject(m)])
    BY <2>1, Requested
  <2> QED
    BY <1>6, <2>2, CallSound DEF Command, Ask
<1> QED
  BY <1>1, <1>2, <1>3, <1>4, <1>5, <1>6 DEF Next, Operator, SoundInv

-----------------------------------------------------------------------------
(* The effects of an answer. *)

LEMMA Effects ==
  ASSUME SoundInv, NEW n \in Sockets, PanelSettle(n)
  PROVE  \/ UNCHANGED selectionVars
         \/ ListStations
         \/ \E r \in pending : /\ r.id = Head(downlink[n]).id
                               /\ r.of.method = "GetStationStatus" /\ r.of.station \in Stations
                               /\ ApplyStation(n, r.id, r.of.station)
         \/ \E r \in pending : /\ r.id = Head(downlink[n]).id
                               /\ r.of.method = "GetConnectorStatus" /\ r.of.station \in Stations
                               /\ r.of.connector \in Ids(r.of.station)
                               /\ ApplyConnector(r.of.station, r.of.connector)
<1> DEFINE m == Head(downlink[n])
<1>1. CASE m.kind = "error" \/ Settled(m) = {}
  BY <1>1 DEF PanelSettle, Continue, Logged
<1>2. CASE ~(m.kind = "error" \/ Settled(m) = {})
  <2>1. PICK r \in Settled(m) :
           CASE r.of.method = "GetStations" -> ListStations
             [] r.of.method = "GetStationStatus" -> ApplyStation(n, r.id, r.of.station)
             [] r.of.method = "GetConnectorStatus" -> ApplyConnector(r.of.station, r.of.connector)
             [] OTHER -> Logged
    BY <1>2 DEF PanelSettle, Continue
  <2>2. r \in pending /\ r.id = m.id /\ Sound(r.of)
    BY DEF Settled, SoundInv
  <2> QED
    BY <2>1, <2>2 DEF Logged, Sound
<1> QED
  BY <1>1, <1>2

LEMMA TypeStep ==
  ASSUME IInv, TypeOK, SoundInv, [Next]_vars, ClientTypeOK'
  PROVE  TypeOK'
<1>0. requestId \in Nat /\ requestId' \in {requestId, requestId + 1}
  BY ClientStep, Counting
<1>1. 0..requestId \subseteq 0..requestId'
  BY <1>0
<1>2. ASSUME NEW n \in Sockets, PanelSettle(n) PROVE TypeOK'
  <2>1. UNCHANGED <<led, selections, commands, hasty, impatient>>
    BY <1>2 DEF PanelSettle
  <2>2. CASE UNCHANGED selectionVars
    BY <1>1, <2>1, <2>2 DEF TypeOK
  <2>3. CASE ListStations
    BY <1>1, <2>1, <2>3 DEF ListStations, TypeOK
  <2>4. ASSUME NEW r \in pending, NEW s \in Stations, ApplyStation(n, r.id, s) PROVE TypeOK'
    <3>1. r.id \in 1..requestId
      BY DEF TypeOK, ClientTypeOK
    <3>2. r.id \in 0..requestId'
      BY <1>0, <1>1, <3>1
    <3>3. FirstConnector(s) \in Connectors
      BY Connectable DEF FirstConnector
    <3> QED
      BY <1>1, <2>1, <2>4, <3>2, <3>3 DEF ApplyStation, Describe, TypeOK
  <2>5. ASSUME NEW s \in Stations, NEW c \in Ids(s), ApplyConnector(s, c) PROVE TypeOK'
    BY <1>1, <2>1, <2>5, Connectable DEF ApplyConnector, Describe, TypeOK
  <2> QED
    BY <1>2, <2>2, <2>3, <2>4, <2>5, Effects
<1>3. ASSUME NEW n \in Sockets, Serve(n) \/ PanelOpen(n) \/ PanelWelcomed(n) \/ PanelClose(n) PROVE TypeOK'
  BY <1>1, <1>3 DEF Serve, panelVars, PanelOpen, PanelWelcomed, PanelClose, Indicate, TypeOK
<1>4. ASSUME WebsocketButtons PROVE TypeOK'
  BY <1>1, <1>4 DEF WebsocketButtons, ConnectClick, DisconnectClick, panelVars, TypeOK
<1>5. ASSUME NEW s \in Stations, SelectStation(s) PROVE TypeOK'
  BY <1>1, <1>5 DEF SelectStation, TypeOK
<1>6. ASSUME NEW c \in AllConnectors, SelectConnector(c) PROVE TypeOK'
  BY <1>1, <1>6 DEF SelectConnector, Count, TypeOK
<1>7. ASSUME NEW m \in Methods, Command(m) PROVE TypeOK'
  BY <1>1, <1>7 DEF Command, Count, TypeOK
<1>8. ASSUME UNCHANGED vars PROVE TypeOK'
  BY <1>1, <1>8 DEF vars, panelVars, TypeOK
<1> QED
  BY <1>2, <1>3, <1>4, <1>5, <1>6, <1>7, <1>8 DEF Next, Operator

-----------------------------------------------------------------------------
(* The indicator. *)

(* The steps that leave alone the websockets, the indicator and the answers  *)
(* that the operator waits for.                                              *)
LEMMA QuietSteps ==
  ASSUME [Next]_vars
  PROVE  \/ ConnectClick \/ DisconnectClick
         \/ \E n \in Sockets : PanelOpen(n) \/ PanelClose(n) \/ PanelWelcomed(n)
         \/ UNCHANGED <<socket, used, connected, led, impatient>>
<1>1. ASSUME NEW n \in Sockets, Serve(n) \/ PanelSettle(n)
      PROVE  UNCHANGED <<socket, used, connected, led, impatient>>
  BY <1>1 DEF Serve, Server, Establish, Receive, Closed, panelVars, PanelSettle, Settle, Incoming
<1>2. ASSUME NEW s \in Stations, SelectStation(s) PROVE UNCHANGED <<socket, used, connected, led, impatient>>
  BY <1>2 DEF SelectStation, Ask
<1>3. ASSUME NEW c \in AllConnectors, SelectConnector(c)
      PROVE  UNCHANGED <<socket, used, connected, led, impatient>>
  BY <1>3 DEF SelectConnector, Ask
<1>4. ASSUME NEW m \in Methods, Command(m) PROVE UNCHANGED <<socket, used, connected, led, impatient>>
  BY <1>4 DEF Command, Ask
<1>5. ASSUME UNCHANGED vars PROVE UNCHANGED <<socket, used, connected, led, impatient>>
  BY <1>5 DEF vars, clientVars, panelVars
<1> QED
  BY <1>1, <1>2, <1>3, <1>4, <1>5 DEF Next, Operator, WebsocketButtons

LEMMA AliveStep == ASSUME IInv, OneAlive, [Next]_vars PROVE OneAlive'
<1>1. /\ socket \in [Sockets -> {"none", "connecting", "open", "closing", "closed"}]
      /\ used \in 0..MaxSockets
  BY DEF IInv, ClientTypeOK
<1>2. CASE ConnectClick
  BY <1>1, <1>2 DEF ConnectClick, Connect, OneAlive, Alive
<1>3. CASE DisconnectClick
  BY <1>1, <1>3 DEF DisconnectClick, Disconnect, panelVars, OneAlive, Alive
<1>4. ASSUME NEW n \in Sockets, PanelOpen(n) \/ PanelClose(n) \/ PanelWelcomed(n) PROVE OneAlive'
  BY <1>1, <1>4 DEF PanelOpen, Open, PanelClose, Close, PanelWelcomed, Welcomed, Incoming, Indicate,
                    OneAlive, Alive
<1>5. CASE UNCHANGED <<socket, used, connected, led, impatient>>
  BY <1>5 DEF OneAlive, Alive
<1> QED
  BY <1>2, <1>3, <1>4, <1>5, QuietSteps

LEMMA OnlineStep == ASSUME IInv, TypeOK, OneAlive, Online, [Next]_vars PROVE Online'
<1>1. /\ socket \in [Sockets -> {"none", "connecting", "open", "closing", "closed"}]
      /\ used \in 0..MaxSockets
      /\ \A n \in Sockets : n > used => socket[n] = "none"
      /\ Sockets = 1..MaxSockets /\ MaxSockets \in Nat
  <2>1. \A n \in Sockets : n \in Int /\ (socket[n] # "none" => n <= used)
    BY DEF IInv, UsedInv, Sockets
  <2>2. /\ socket \in [Sockets -> {"none", "connecting", "open", "closing", "closed"}]
        /\ used \in 0..MaxSockets
    BY DEF IInv, ClientTypeOK
  <2> QED
    BY <2>1, <2>2 DEF Sockets
<1>2. CASE ConnectClick
  <2>1. /\ used' = used + 1 /\ used' \in Sockets /\ socket[used'] = "none" /\ socket'[used'] = "connecting"
        /\ \A n \in Sockets : n # used' => socket'[n] = socket[n]
        /\ UNCHANGED <<connected, led>> /\ ~led /\ ~connected
        /\ ~impatient' => ~impatient /\ \A n \in Sockets : socket[n] \notin {"open", "closing"}
    <3>1. /\ used' = used + 1 /\ used' \in Sockets /\ socket[used'] = "none" /\ socket'[used'] = "connecting"
          /\ \A n \in Sockets : n # used' => socket'[n] = socket[n]
      BY <1>1, <1>2 DEF ConnectClick, Connect
    <3>2. UNCHANGED <<connected, led>> /\ ~led /\ ~connected
      BY <1>2 DEF ConnectClick, Connect, Online
    <3>3. ~impatient' => ~impatient /\ \A n \in Sockets : socket[n] \notin {"open", "closing"}
      BY <1>2 DEF ConnectClick, Alive
    <3> QED
      BY <3>1, <3>2, <3>3
  <2> QED
    BY <2>1 DEF Online
<1>3. CASE DisconnectClick
  <2>1. /\ ~connected' /\ led' = led /\ led /\ used' = used /\ impatient' = impatient
        /\ \A n \in Sockets : \/ socket'[n] = socket[n]
                              \/ n = used /\ socket'[n] = "closing"
        /\ used > 0 => socket'[used] # "open"
        /\ \A n \in Sockets : socket[n] \in {"open", "closing"} => socket'[n] \in {"open", "closing"}
    BY <1>1, <1>3 DEF DisconnectClick, Disconnect, panelVars
  <2> QED
    BY <2>1 DEF Online
<1>4. ASSUME NEW n \in Sockets, PanelOpen(n) PROVE Online'
  <2>1. /\ connected' /\ led' /\ used' = used /\ impatient' = impatient
        /\ socket[n] = "connecting" /\ socket'[n] = "open"
        /\ ~impatient => n = used
    BY <1>1, <1>4 DEF PanelOpen, Open, Indicate, OneAlive, Alive
  <2> QED
    BY <1>1, <2>1 DEF Online
<1>5. ASSUME NEW n \in Sockets, PanelClose(n) PROVE Online'
  <2>1. /\ ~connected' /\ ~led' /\ used' = used /\ impatient' = impatient
        /\ socket'[n] = "closed" /\ \A k \in Sockets : k # n => socket'[k] = socket[k]
        /\ ~impatient => n = used /\ \A k \in Sockets : k # n => socket[k] \notin {"open", "closing"}
    BY <1>1, <1>5 DEF PanelClose, Close, Indicate, OneAlive, Alive
  <2> QED
    BY <2>1 DEF Online
<1>6. ASSUME NEW n \in Sockets, PanelWelcomed(n) PROVE Online'
  <2>1. /\ socket[n] = "open" /\ led' /\ UNCHANGED <<socket, used, connected, impatient>>
    BY <1>6 DEF PanelWelcomed, Welcomed, Incoming, Indicate
  <2> QED
    BY <2>1 DEF Online
<1>7. CASE UNCHANGED <<socket, used, connected, led, impatient>>
  BY <1>7 DEF Online
<1> QED
  BY <1>2, <1>3, <1>4, <1>5, <1>6, <1>7, QuietSteps

-----------------------------------------------------------------------------
(* The order of the selections. *)

LEMMA AppliedCases ==
  ASSUME TypeOK, SoundInv, [Next]_vars
  PROVE  \/ applied' = applied
         \/ \E n \in Sockets : /\ PanelSettle(n)
                               /\ applied' = [applied EXCEPT ![n] = Head(downlink[n]).id]
<1>1. ASSUME NEW n \in Sockets, Serve(n) \/ PanelOpen(n) \/ PanelWelcomed(n) \/ PanelClose(n)
      PROVE  applied' = applied
  BY <1>1 DEF Serve, panelVars, PanelOpen, PanelWelcomed, PanelClose, Indicate
<1>2. ASSUME Operator \/ UNCHANGED vars PROVE applied' = applied
  BY <1>2 DEF Operator, WebsocketButtons, ConnectClick, DisconnectClick, SelectStation, SelectConnector,
              Command, vars, panelVars
<1>3. ASSUME NEW n \in Sockets, PanelSettle(n)
      PROVE  applied' \in {applied, [applied EXCEPT ![n] = Head(downlink[n]).id]}
  BY <1>3, Effects DEF ListStations, ApplyStation, ApplyConnector
<1> QED
  BY <1>1, <1>2, <1>3 DEF Next

(* A selection that takes effect precedes what is left on its connection.    *)
LEMMA AppliedStep ==
  ASSUME IInv, OrderInv, TypeOK, SoundInv, AppliedInv, [Next]_vars PROVE AppliedInv'
<1>1. \A k \in Sockets : IdsAt(k)' \subseteq IdsAt(k) \cup {requestId + 1}
  BY ClientStep, OrderStep
<1>2. requestId \in Nat /\ applied \in [Sockets -> 0..requestId]
  BY DEF TypeOK, ClientTypeOK
<1>3. \A k \in Sockets : \A i \in IdsAt(k)' : applied[k] < i
  BY <1>1, <1>2 DEF AppliedInv
<1>4. ASSUME NEW n \in Sockets, PanelSettle(n), applied' = [applied EXCEPT ![n] = Head(downlink[n]).id]
      PROVE  AppliedInv'
  <2>1. \A i \in IdsAt(n)' : Head(downlink[n]).id < i
    BY <1>4, SettleOrder DEF PanelSettle
  <2> QED
    BY <1>2, <1>3, <1>4, <2>1 DEF AppliedInv
<1> QED
  BY <1>3, <1>4, AppliedCases DEF AppliedInv

LEMMA LatestStep ==
  ASSUME IInv, OrderInv, FreshInv, TypeOK, SoundInv, LatestInv, OneAlive, [Next]_vars
  PROVE  LatestInv'
<1>1. \A k \in Sockets : IdsAt(k)' \subseteq IdsAt(k) \cup {requestId + 1}
  BY ClientStep, OrderStep
<1>2. requestId \in Nat /\ applied \in [Sockets -> 0..requestId]
  BY DEF TypeOK, ClientTypeOK
<1>3. CASE ConnectClick
  <2>1. /\ used' = used + 1 /\ UNCHANGED <<server, uplink, downlink>>
        /\ \A n \in Sockets : n = used' => socket[n] = "none"
    <3>1. used \in 0..MaxSockets /\ \A n \in Sockets : socket[n] # "none" => n <= used
      BY DEF IInv, ClientTypeOK, UsedInv
    <3> QED
      BY <1>3, <3>1 DEF ConnectClick, Connect, Sockets
  <2>2. \A n \in Sockets : n = used' => uplink'[n] = <<>> /\ downlink'[n] = <<>>
    BY <2>1 DEF FreshInv
  <2>3. Elements(<<>>) = {}
    BY DEF Elements
  <2>4. \A n \in Sockets : n = used' => IdsAt(n)' = {}
    BY <2>2, <2>3 DEF IdsAt
  <2> QED
    BY <2>4 DEF LatestInv
<1>4. CASE UNCHANGED <<used, impatient>>
  <2> SUFFICES ASSUME ~impatient, used \in Sockets
               PROVE  \A i \in IdsAt(used)', k \in Sockets : applied'[k] < i
    BY <1>4 DEF LatestInv
  <2>1. \A i \in IdsAt(used)', k \in Sockets : applied[k] < i
    BY <1>1, <1>2, <1>4 DEF LatestInv
  <2>2. ASSUME NEW n \in Sockets, PanelSettle(n), applied' = [applied EXCEPT ![n] = Head(downlink[n]).id]
        PROVE  \A i \in IdsAt(used)', k \in Sockets : applied'[k] < i
    <3>1. n = used
      BY <2>2 DEF PanelSettle, Settle, Incoming, OneAlive, Alive
    <3>2. \A i \in IdsAt(n)' : Head(downlink[n]).id < i
      BY <2>2, SettleOrder DEF PanelSettle
    <3> QED
      BY <1>2, <1>4, <2>1, <2>2, <3>1, <3>2
  <2> QED
    BY <2>1, <2>2, AppliedCases
<1>5. ConnectClick \/ UNCHANGED <<used, impatient>>
  BY QuietSteps DEF DisconnectClick, Disconnect, panelVars, PanelOpen, Open, PanelClose, Close,
                    PanelWelcomed, Welcomed, Incoming, Indicate
<1> QED
  BY <1>3, <1>4, <1>5

(* What takes effect was selected after what has taken effect.               *)
LEMMA OrderedStep ==
  ASSUME PanelInv, [Next]_vars, NEW n \in Sockets, applied'[n] # applied[n],
         NEW k \in Sockets, k = n \/ ~impatient
  PROVE  applied'[n] > applied[k]
<1> USE DEF PanelInv
<1>1. applied \in [Sockets -> 0..requestId] /\ requestId \in Nat
  BY DEF TypeOK, ClientTypeOK
<1>2. PanelSettle(n) /\ applied'[n] = Head(downlink[n]).id
  BY <1>1, AppliedCases
<1>3. Head(downlink[n]).id \in IdsAt(n)
  BY <1>2, SettleOrder DEF PanelSettle
<1>4. CASE k = n
  BY <1>2, <1>3, <1>4 DEF AppliedInv
<1>5. CASE ~impatient
  <2>1. n = used
    BY <1>2, <1>5 DEF PanelSettle, Settle, Incoming, OneAlive, Alive
  <2> QED
    BY <1>2, <1>3, <1>5, <2>1 DEF LatestInv
<1> QED
  BY <1>4, <1>5

-----------------------------------------------------------------------------
(* What the panel describes. *)

(* A call that is no choice of a connector, or one on the current station    *)
(* while no answer about a station is awaited.                               *)
LEMMA CallChosen ==
  ASSUME IInv, ChosenInv, NEW q, NEW online, NEW ws, Call(q, online, ws),
         q.method = "GetConnectorStatus" =>
             q.station = station /\ (~hasty' => Awaiting("GetStationStatus") = {}),
         IdsAt(used)' \subseteq IdsAt(used) \cup {requestId + 1},
         UNCHANGED <<station, info, used, impatient>>, hasty => hasty'
  PROVE  ChosenInv'
<1> SUFFICES ASSUME ~hasty', ~impatient PROVE ChosenInv'
  BY DEF ChosenInv
<1>1. requestId \in Nat /\ \A r \in pending : r.id \in 1..requestId
  BY DEF IInv, ClientTypeOK
<1>2. CASE pending' = pending
  BY <1>1, <1>2 DEF ChosenInv
<1>3. CASE pending' = pending \cup {[id |-> requestId + 1, of |-> q, n |-> used]}
  <2> DEFINE new == [id |-> requestId + 1, of |-> q, n |-> used]
  <2>1. pending' = pending \cup {new} /\ new.id = requestId + 1 /\ new.of = q
    BY <1>3
  <2> HIDE DEF new
  <2>2. q.method = "GetConnectorStatus" => \A t \in pending : t.of.method # "GetStationStatus"
    BY DEF Awaiting
  <2> QED
    BY <1>1, <2>1, <2>2 DEF ChosenInv
<1> QED
  BY <1>2, <1>3, CallCases

LEMMA ChosenStep ==
  ASSUME IInv, OrderInv, FreshInv, TypeOK, SoundInv, OneAlive, ChosenInv, [Next]_vars
  PROVE  ChosenInv'
<1>0. requestId \in Nat /\ \A r \in pending : r.id \in 1..requestId
  BY DEF IInv, ClientTypeOK
<1>1. used \in Sockets => IdsAt(used)' \subseteq IdsAt(used) \cup {requestId + 1} \/ used' # used
  BY ClientStep, OrderStep
<1>2. ASSUME UNCHANGED <<station, info, used, impatient, hasty>>, pending' \subseteq pending
      PROVE  ChosenInv'
  BY <1>0, <1>1, <1>2 DEF ChosenInv
<1>3. ASSUME NEW n \in Sockets, Serve(n) \/ PanelClose(n) PROVE ChosenInv'
  BY <1>2, <1>3 DEF Serve, Server, Establish, Receive, Closed, panelVars, PanelClose, Close, Indicate
<1>4. CASE DisconnectClick \/ UNCHANGED vars
  BY <1>2, <1>4 DEF DisconnectClick, Disconnect, panelVars, vars, clientVars
<1>5. CASE ConnectClick
  <2>1. /\ used' = used + 1 /\ UNCHANGED <<server, uplink, downlink, pending, station, info, hasty>>
        /\ ~impatient' => ~impatient
        /\ used' \in Sockets => socket[used'] = "none"
    <3>1. used \in 0..MaxSockets /\ \A n \in Sockets : socket[n] # "none" => n <= used
      BY DEF IInv, ClientTypeOK, UsedInv
    <3>2. used' = used + 1 /\ UNCHANGED <<server, uplink, downlink, pending, station, info, hasty>>
      BY <1>5 DEF ConnectClick, Connect
    <3>3. ~impatient' => ~impatient
      BY <1>5 DEF ConnectClick
    <3>4. used' \in Sockets => socket[used'] = "none"
      BY <3>1, <3>2
    <3> QED
      BY <3>2, <3>3, <3>4
  <2>2. used' \in Sockets => uplink'[used'] = <<>> /\ downlink'[used'] = <<>>
    BY <2>1 DEF FreshInv
  <2>3. Elements(<<>>) = {}
    BY DEF Elements
  <2>4. used' \in Sockets => IdsAt(used)' = {}
    BY <2>2, <2>3 DEF IdsAt
  <2> QED
    BY <2>1, <2>4 DEF ChosenInv
<1>6. ASSUME NEW n \in Sockets, PanelOpen(n) \/ PanelWelcomed(n) PROVE ChosenInv'
  <2>1. used \in Sockets
    <3>1. socket[n] # "none"
      BY <1>6 DEF PanelOpen, Open, PanelWelcomed, Welcomed, Incoming
    <3>2. used \in 0..MaxSockets /\ n <= used
      BY <3>1 DEF IInv, ClientTypeOK, UsedInv
    <3> QED
      BY <3>2 DEF Sockets
  <2>2. \E online, ws : Call(GetStations, online, ws)
    BY <1>6 DEF PanelOpen, Open, PanelWelcomed, Welcomed
  <2>3. UNCHANGED <<station, info, used, impatient, hasty>>
    BY <1>6 DEF PanelOpen, Open, PanelWelcomed, Welcomed, Incoming, Indicate
  <2>4. GetStations.method # "GetConnectorStatus"
    BY DEF GetStations
  <2> QED
    BY <1>1, <2>1, <2>2, <2>3, <2>4, CallChosen
<1>7. ASSUME NEW q, Ask(q), UNCHANGED <<station, info, impatient>>, hasty => hasty',
             q.method = "GetConnectorStatus" =>
                 q.station = station /\ (~hasty' => Awaiting("GetStationStatus") = {})
      PROVE  ChosenInv'
  <2>1. used \in Sockets /\ used' = used /\ Call(q, connected, socket[used])
    BY <1>7 DEF Ask, IInv, ClientTypeOK, Sockets
  <2> QED
    BY <1>1, <1>7, <2>1, CallChosen
<1>8. ASSUME NEW s \in Stations, SelectStation(s) PROVE ChosenInv'
  BY <1>7, <1>8 DEF SelectStation, GetStationStatus
<1>9. ASSUME NEW c \in AllConnectors, SelectConnector(c) PROVE ChosenInv'
  BY <1>7, <1>9 DEF SelectConnector, GetConnectorStatus
<1>10. ASSUME NEW m \in Methods, Command(m) PROVE ChosenInv'
  <2>1. m # "GetConnectorStatus"
    BY DEF Buttons, StationMethods, ConnectorMethods, TriggerMethods
  <2> QED
    BY <1>7, <1>10, <2>1 DEF Command
<1>11. ASSUME NEW n \in Sockets, PanelSettle(n) PROVE ChosenInv'
  <2> SUFFICES ASSUME ~hasty, ~impatient PROVE ChosenInv'
    BY <1>11 DEF PanelSettle, ChosenInv
  <2>1. /\ UNCHANGED <<used, impatient, hasty>> /\ pending' \subseteq pending
        /\ n = used /\ used \in Sockets
    BY <1>11 DEF PanelSettle, Settle, Incoming, OneAlive, Alive
  <2>2. CASE UNCHANGED selectionVars \/ ListStations
    BY <1>2, <2>1, <2>2 DEF ListStations
  <2>3. ASSUME NEW r \in pending, r.id = Head(downlink[n]).id, r.of.method = "GetStationStatus",
               ApplyStation(n, r.id, r.of.station)
        PROVE  ChosenInv'
    <3>1. info'.station = station'
      BY <2>3 DEF ApplyStation, Describe, FirstConnector
    <3>2. \A i \in IdsAt(n)' : r.id < i
      BY <1>11, <2>3, SettleOrder DEF PanelSettle
    <3>3. \A t \in pending : t.of.method = "GetConnectorStatus" => t.id < r.id
      BY <2>3 DEF ChosenInv
    <3>4. \A t \in pending : t.of.method = "GetConnectorStatus" => t.id \notin IdsAt(n)'
      BY <1>0, <3>2, <3>3
    <3> QED
      BY <2>1, <3>1, <3>4 DEF ChosenInv
  <2>4. ASSUME NEW r \in pending, r.id = Head(downlink[n]).id, r.of.method = "GetConnectorStatus",
               ApplyConnector(r.of.station, r.of.connector)
        PROVE  ChosenInv'
    <3>1. r.of.station = station
      BY <1>11, <2>1, <2>4, SettleOrder DEF PanelSettle, ChosenInv
    <3>2. info'.station = station /\ station' = station
      BY <2>4, <3>1 DEF ApplyConnector, Describe
    <3>3. IdsAt(used)' \subseteq IdsAt(used) \cup {requestId + 1}
      BY <1>1, <2>1
    <3> QED
      BY <1>0, <2>1, <3>2, <3>3 DEF ChosenInv
  <2> QED
    BY <1>11, <2>2, <2>3, <2>4, Effects
<1> QED
  BY <1>3, <1>4, <1>5, <1>6, <1>8, <1>9, <1>10, <1>11 DEF Next, Operator, WebsocketButtons

-----------------------------------------------------------------------------

LEMMA PanelInit == Init => PanelInv
<1> SUFFICES ASSUME Init PROVE PanelInv
  OBVIOUS
<1>1. IInv /\ ClientTypeOK
  BY InitInv DEF Init, IInv
<1>2. /\ \A n \in Sockets : /\ uplink[n] = <<>> /\ downlink[n] = <<>>
                            /\ socket[n] = "none" /\ server[n] = "none"
      /\ pending = {} /\ used = 0 /\ ~connected /\ requestId = 0
  BY DEF Init, ClientInit
<1>3. Sorted(<<>>) /\ Elements(<<>>) = {}
  BY DEF Sorted, Elements
<1>4. OrderInv /\ FreshInv /\ AppliedInv /\ LatestInv
  BY <1>2, <1>3 DEF OrderInv, FreshInv, AppliedInv, LatestInv, IdsAt
<1>5. SoundInv /\ OneAlive /\ ChosenInv
  BY <1>2 DEF SoundInv, OneAlive, Alive, ChosenInv, Init, Nothing
<1>6. Online
  BY <1>2 DEF Init, Online
<1>7. TypeOK
  <2>1. led \in BOOLEAN /\ listed \in BOOLEAN /\ hasty \in BOOLEAN /\ impatient \in BOOLEAN
    BY DEF Init
  <2>2. selections \in 0..MaxSelections /\ commands \in 0..MaxCommands
    BY DEF Init
  <2>3. connector \in Connectors /\ info \in Connectors /\ station \in Stations \cup {"none"}
    BY Connectable DEF Init
  <2>4. applied \in [Sockets -> 0..requestId]
    BY <1>2 DEF Init
  <2> QED
    BY <1>1, <2>1, <2>2, <2>3, <2>4 DEF TypeOK
<1> QED
  BY <1>1, <1>4, <1>5, <1>6, <1>7 DEF PanelInv

LEMMA PanelStep == ASSUME PanelInv, [Next]_vars PROVE PanelInv'
<1> USE DEF PanelInv
<1>1. IInv' /\ OrderInv' /\ FreshInv'
  BY ClientStep, Step, OrderStep, FreshStep
<1>2. TypeOK'
  BY <1>1, TypeStep DEF IInv
<1> QED
  BY <1>1, <1>2, SoundStep, OnlineStep, AppliedStep, LatestStep, AliveStep, ChosenStep

THEOREM PanelInvariance == Spec => []PanelInv
<1>1. PanelInv /\ [Next]_vars => PanelInv'
  BY PanelStep
<1> QED
  BY PanelInit, <1>1, PTL DEF Spec

(* Types of the variables of the panel and of its client.                    *)
THEOREM PanelTypeCorrect == Spec => []TypeOK
BY PanelInvariance, PTL DEF PanelInv

(* onopen, onclose, disconnect, updateConnectionStatus: the client is never  *)
(* connected without an open socket, and the indicator tells a patient       *)
(* operator whether there is one.                                            *)
THEOREM PanelOnline == Spec => []Online
BY PanelInvariance, PTL DEF PanelInv

(* handleStationChange: the selections take effect in their order.           *)
THEOREM SelectionOrder == Spec => SelectionsInOrder
<1>1. PanelInv /\ [Next]_vars =>
         [\A n \in Sockets : applied'[n] # applied[n] =>
             \A k \in Sockets : k = n \/ ~impatient => applied'[n] > applied[k]]_vars
  BY OrderedStep
<1> QED
  BY <1>1, PanelInvariance, PTL DEF Spec, SelectionsInOrder

(* handleConnectorChange: what the panel describes is of the current station, *)
(* for an operator who waits for the answers about his stations.             *)
THEOREM DescribedStation == Spec => []DescribedOfStation
<1>1. PanelInv => DescribedOfStation
  BY DEF PanelInv, ChosenInv, DescribedOfStation
<1> QED
  BY <1>1, PanelInvariance, PTL

(* Whatever the operator does, his page uses the client as RpcClient says,   *)
(* so each of its calls is carried out at most once and settled at most once *)
(* by its own answer.                                                        *)
THEOREM PanelCalls == Spec => CallOnceSpec
<1>1. Init => ClientInit
  BY DEF Init
<1>2. PanelInv /\ [Next]_vars => [ClientNext]_clientVars
  BY ClientStep DEF PanelInv
<1>3. Spec => ClientSpec
  BY <1>1, <1>2, PanelInvariance, PTL DEF Spec, ClientSpec
<1> QED
  BY <1>3, Implementation, PTL
=============================================================================
