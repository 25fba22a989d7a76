---------------------------- MODULE MCOperatorPanel ----------------------------
(* Instances of OperatorPanel: the stations of handleGetStations, with one      *)
(* connector less each than handleGetStationStatus gives them.                 *)
EXTENDS OperatorPanel, TLC

MCConnectorsOf == "ST0000" :> 1 @@ "ST0001" :> 2
=============================================================================
