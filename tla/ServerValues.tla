----------------------------- MODULE ServerValues -----------------------------
(***************************************************************************)
(* The values that the web server keeps (WebServer::values_) and what each   *)
(* JSON-RPC request does to them. The metrics, drawn at random at every      *)
(* request, and the contents of the answers about stations, are left out.    *)
(***************************************************************************)
EXTENDS Integers, Sequences, FiniteSetsExt

LOCAL INSTANCE TLC

(* The other values behave as maxPower does under setValue, and nothing else *)
(* writes them.                                                              *)
Keys == {"systemStatus", "chargingEnabled", "maxPower"}

InitialValues == [systemStatus |-> "running", chargingEnabled |-> "false", maxPower |-> "50"]

ToText(n) == ToString(n)

Change(key, value) == [key |-> key, value |-> value]

(* Requests that only read. *)
Reads == {"getValue", "getValues", "getMetrics", "ping",
          "GetStations", "GetStationStatus", "GetConnectorStatus"}

(* The bounds tested by handleSetMaxPower. *)
MaxPowerRange == 1..100

(* The values written by a command, in order (resetSystem writes them all).  *)
Writes(c) ==
    CASE c.method = "startCharging" -> <<Change("chargingEnabled", "true"), Change("systemStatus", "charging")>>
      [] c.method = "stopCharging" -> <<Change("chargingEnabled", "false"), Change("systemStatus", "ready")>>
      [] c.method = "setMaxPower" -> <<Change("maxPower", ToText(c.value))>>
      [] c.method = "setValue" -> <<Change(c.key, c.value)>>
      [] OTHER -> <<>>

(* Mutant: setMaxPower announces the power that it replaces. *)
NoticesOfFormer(c) ==
    CASE c.method = "startCharging" -> <<Change("chargingEnabled", "true"), Change("systemStatus", "charging")>>
      [] c.method = "stopCharging" -> <<Change("chargingEnabled", "false"), Change("systemStatus", "ready")>>
      [] c.method = "resetSystem" -> <<Change("systemStatus", "reset")>>
      [] c.method = "setMaxPower" -> <<Change("maxPower", InitialValues["maxPower"])>>
      [] c.method = "setValue" -> <<Change(c.key, c.value)>>
      [] OTHER -> <<>>

(* The calls of broadcastValueChange in the handler of each command.          *)
Notices(c) ==
    CASE c.method = "startCharging" -> <<Change("chargingEnabled", "true"), Change("systemStatus", "charging")>>
      [] c.method = "stopCharging" -> <<Change("chargingEnabled", "false"), Change("systemStatus", "ready")>>
      [] c.method = "resetSystem" -> <<Change("systemStatus", "reset")>>
      [] c.method = "setMaxPower" -> <<Change("maxPower", ToText(c.value))>>
      [] c.method = "setValue" -> <<Change(c.key, c.value)>>
      [] OTHER -> <<>>

(* A request that the server carries out; any other one gets an error. *)
Accepted(c) ==
    \/ c.method \in Reads \cup {"startCharging", "stopCharging", "resetSystem", "setValue"}
    \/ c.method = "setMaxPower" /\ c.value \in MaxPowerRange

Written(values, changes) ==
    [k \in Keys |-> LET of == {i \in DOMAIN changes : changes[i].key = k}
                    IN  IF of = {} THEN values[k] ELSE changes[Max(of)].value]

Effect(values, c) ==
    IF c.method = "resetSystem" THEN InitialValues ELSE Written(values, Writes(c))
=============================================================================
