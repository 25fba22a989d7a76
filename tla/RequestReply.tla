---------------------------- MODULE RequestReply ----------------------------
(***************************************************************************)
(* What a session promises to the threads that send requests to its         *)
(* station: one request is outstanding at a time, a request succeeds only    *)
(* with the reply that the station gave to it, and it ends once. RpcCalls,   *)
(* the detailed model, implements this specification.                        *)
(***************************************************************************)
CONSTANT Calls      \* requests to the station, each made once

VARIABLES phase,    \* phase[k]: "idle", "asked", "answered" or "failed"
          replied   \* the requests the station has replied to

vars == <<phase, replied>>

Init == /\ phase = [k \in Calls |-> "idle"]
        /\ replied = {}

Ask(k) == /\ phase[k] = "idle"
          /\ \A j \in Calls : phase[j] # "asked"
          /\ phase' = [phase EXCEPT ![k] = "asked"]
          /\ UNCHANGED replied

\* The station may reply late, when the request has failed already.
Reply(k) == /\ phase[k] \in {"asked", "failed"}
            /\ replied' = replied \cup {k}
            /\ UNCHANGED phase

Succeed(k) == /\ phase[k] = "asked"
              /\ k \in replied
              /\ phase' = [phase EXCEPT ![k] = "answered"]
              /\ UNCHANGED replied

Fail(k) == /\ phase[k] \in {"idle", "asked"}
           /\ phase' = [phase EXCEPT ![k] = "failed"]
           /\ UNCHANGED replied

Next == \E k \in Calls : Ask(k) \/ Reply(k) \/ Succeed(k) \/ Fail(k)

Spec == Init /\ [][Next]_vars
=============================================================================
