------------------------ MODULE MCChargePointSessions ------------------------
(***************************************************************************)
(* Instance of ChargePointSessions: a station that connects twice, so that a *)
(* reconnection can meet the entry, then the removal, of the first session, *)
(* with a second station that shares the pool and the list or with pool     *)
(* threads that meet on one session.                                        *)
(***************************************************************************)
EXTENDS ChargePointSessions, TLC

CONSTANTS s1, s2, c1, c2, c3, w1, w2, o1

MCOneStation == c1 :> s1 @@ c2 :> s1
MCTwoStations == c1 :> s1 @@ c2 :> s1 @@ c3 :> s2

PoolSymmetry == Permutations({w1, w2})
=============================================================================
