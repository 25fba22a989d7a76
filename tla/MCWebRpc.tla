------------------------------- MODULE MCWebRpc -------------------------------
(* Instances of WebRpc, and the requests of the pages: those of the buttons,   *)
(* and setValue, which the server takes from any client.                      *)
EXTENDS WebRpc, TLC

StartCharging == [method |-> "startCharging"]
StopCharging  == [method |-> "stopCharging"]
ResetSystem   == [method |-> "resetSystem"]
SetMaxPower   == [method |-> "setMaxPower", value |-> 100]
TooMuchPower  == [method |-> "setMaxPower", value |-> 101]
EditMaxPower  == [method |-> "setValue", key |-> "maxPower", value |-> "500"]

AnnouncedCommands == {SetMaxPower, EditMaxPower, ResetSystem}

ChangeCommands == {StartCharging, StopCharging, EditMaxPower, SetMaxPower, TooMuchPower}

ResetCommands == {StartCharging, StopCharging, ResetSystem}

PageSymmetry == Permutations(Pages)
=============================================================================
