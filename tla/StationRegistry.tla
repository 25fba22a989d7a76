--------------------------- MODULE StationRegistry ---------------------------
(***************************************************************************)
(* What the central system promises about the list of connected charge     *)
(* points: a station has one slot, a session takes it only while it is      *)
(* free, a session that finds it taken is refused for good, and the slot is *)
(* given back only once the session that holds it is over.                  *)
(* ChargePointSessions, the detailed model, implements this specification.  *)
(***************************************************************************)
CONSTANTS Stations,   \* identities of the charge points
          Conns,      \* websocket connections, each used at most once
          NoConn,     \* no connection
          StationOf   \* the identity a connection carries in its URI

VARIABLES holder,     \* holder[s]: the session registered for station s
          life        \* life[c]: "new", "up" or "over"

vars == <<holder, life>>

Init == /\ holder = [s \in Stations |-> NoConn]
        /\ life = [c \in Conns |-> "new"]

Admit(c) == /\ life[c] = "new"
            /\ holder[StationOf[c]] = NoConn
            /\ holder' = [holder EXCEPT ![StationOf[c]] = c]
            /\ life' = [life EXCEPT ![c] = "up"]

Refuse(c) == /\ life[c] = "new"
             /\ holder[StationOf[c]] # NoConn
             /\ life' = [life EXCEPT ![c] = "over"]
             /\ UNCHANGED holder

End(c) == /\ life[c] = "up"
          /\ life' = [life EXCEPT ![c] = "over"]
          /\ UNCHANGED holder

Release(s) == /\ holder[s] # NoConn
              /\ life[holder[s]] = "over"
              /\ holder' = [holder EXCEPT ![s] = NoConn]
              /\ UNCHANGED life

Next == \/ \E c \in Conns : Admit(c) \/ Refuse(c) \/ End(c)
        \/ \E s \in Stations : Release(s)

Spec == Init /\ [][Next]_vars
=============================================================================
