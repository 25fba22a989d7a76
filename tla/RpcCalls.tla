------------------------------ MODULE RpcCalls ------------------------------
(***************************************************************************)
(* The requests that the server sends to one station (RpcBase::call): the   *)
(* threads that make them, one at a time, the websocket server thread that   *)
(* hands the answers over through the results queue of the session, and the  *)
(* station, which may answer late, several times or never.                   *)
(***************************************************************************)
EXTENDS Naturals, Sequences, Functions

CONSTANTS
    Calls,        \* executions of RpcBase::call, by any threads
    NoCall,       \* m_call_mutex is free
    FirstId,      \* the first transaction id of the session, std::rand()
    MaxCopies     \* bound on the answers the station sends for one request

ASSUME NoCallAssumption == NoCall \notin Calls
ASSUME FirstIdAssumption == FirstId \in Nat
ASSUME MaxCopiesAssumption == MaxCopies \in Nat

VARIABLES
    link,         \* the connection, see Links
    enabled,      \* m_results_queue is enabled
    results,      \* m_results_queue
    mutex,        \* the call that holds m_call_mutex
    tid,          \* m_transaction_id
    pc,           \* where each call is, see Places
    expected,     \* the id each call has sent its request with
    got,          \* the calls whose answer each call has returned
    requests,     \* requests queued for sending or on their way
    received,     \* requests the station has received
    copies,       \* number of answers sent to each call
    answers       \* answers on their way to the server

rpcVars     == <<enabled, results, mutex, tid, pc, expected, got>>
stationVars == <<received, copies>>
vars        == <<link, rpcVars, requests, stationVars, answers>>

(* "open": m_connected; "dropped": m_connected cleared by the server after a *)
(* write error; "closed": the CLOSED callback has run.                       *)
Links == {"open", "dropped", "closed"}

Places == {"idle", "lock", "send", "wait", "retry", "answered", "failed"}

(* A request, or an answer to it: the id it carries, and the call it is of.  *)
Messages == [id : Nat, call : Calls]

-----------------------------------------------------------------------------

Init ==
    /\ link = "open"
    /\ enabled = TRUE
    /\ results = <<>>
    /\ mutex = NoCall
    /\ tid = FirstId
    /\ pc = [k \in Calls |-> "idle"]
    /\ expected = [k \in Calls |-> FirstId]
    /\ got = [k \in Calls |-> {}]
    /\ requests = <<>>
    /\ received = {}
    /\ copies = [k \in Calls |-> 0]
    /\ answers = <<>>

-----------------------------------------------------------------------------
(* RpcBase::call *)

(* The connection is tested before the mutex is taken. *)
Enter(k) ==
    /\ pc[k] = "idle"
    /\ pc' = [pc EXCEPT ![k] = IF link = "open" THEN "lock" ELSE "failed"]
    /\ UNCHANGED <<link, enabled, results, mutex, tid, expected, got, requests, stationVars, answers>>

(* Mutant: a request does not wait for the one before it. *)
LockNone(k) ==
    /\ pc[k] = "lock"
    /\ mutex' = k
    /\ pc' = [pc EXCEPT ![k] = "send"]
    /\ UNCHANGED <<link, enabled, results, tid, expected, got, requests, stationVars, answers>>

Lock(k) ==
    /\ pc[k] = "lock"
    /\ mutex = NoCall
    /\ mutex' = k
    /\ pc' = [pc EXCEPT ![k] = "send"]
    /\ UNCHANGED <<link, enabled, results, tid, expected, got, requests, stationVars, answers>>

(* Mutant: the ids go backwards. *)
ReturnBackwards(k, place) ==
    /\ pc' = [pc EXCEPT ![k] = place]
    /\ tid' = tid - 1
    /\ mutex' = NoCall

(* Mutant: the mutex is not released. *)
ReturnLocked(k, place) ==
    /\ pc' = [pc EXCEPT ![k] = place]
    /\ tid' = tid + 1
    /\ UNCHANGED mutex

(* The end of the call: the next request has another id. *)
Return(k, place) ==
    /\ pc' = [pc EXCEPT ![k] = place]
    /\ tid' = tid + 1
    /\ mutex' = NoCall

Send(k) ==
    /\ pc[k] = "send"
    /\ IF link = "open"
       THEN /\ requests' = Append(requests, [id |-> tid, call |-> k])
            /\ expected' = [expected EXCEPT ![k] = tid]
            /\ pc' = [pc EXCEPT ![k] = "wait"]
            /\ UNCHANGED <<mutex, tid>>
       ELSE /\ Return(k, "failed")
            /\ UNCHANGED <<requests, expected>>
    /\ UNCHANGED <<link, enabled, results, got, stationVars, answers>>

(* Mutant: whatever answer comes first is returned. *)
PopFirst(k) ==
    /\ pc[k] = "wait"
    /\ enabled
    /\ results # <<>>
    /\ results' = Tail(results)
    /\ got' = [got EXCEPT ![k] = @ \cup {Head(results).call}]
    /\ Return(k, "answered")
    /\ UNCHANGED <<link, enabled, expected, requests, stationVars, answers>>

(* Mutant: an answer that is not expected stays in the queue. *)
PopExpected(k) ==
    /\ pc[k] = "wait"
    /\ enabled
    /\ results # <<>>
    /\ Head(results).id = expected[k]
    /\ results' = Tail(results)
    /\ got' = [got EXCEPT ![k] = @ \cup {Head(results).call}]
    /\ Return(k, "answered")
    /\ UNCHANGED <<link, enabled, expected, requests, stationVars, answers>>

(* An answer is popped: the expected one ends the call, any other one is     *)
(* thrown away.                                                              *)
Pop(k) ==
    /\ pc[k] = "wait"
    /\ enabled
    /\ results # <<>>
    /\ results' = Tail(results)
    /\ IF Head(results).id = expected[k]
       THEN /\ got' = [got EXCEPT ![k] = @ \cup {Head(results).call}]
            /\ Return(k, "answered")
       ELSE /\ pc' = [pc EXCEPT ![k] = "retry"]
            /\ UNCHANGED <<got, mutex, tid>>
    /\ UNCHANGED <<link, enabled, expected, requests, stationVars, answers>>

(* After an answer thrown away, the call waits again if there is time left. *)
Retry(k) ==
    /\ pc[k] = "retry"
    /\ pc' = [pc EXCEPT ![k] = "wait"]
    /\ UNCHANGED <<link, enabled, results, mutex, tid, expected, got, requests, stationVars, answers>>

(* The timeout of the call: nothing in the queue, or no time left after an   *)
(* answer thrown away.                                                       *)
Timeout(k) ==
    /\ \/ pc[k] = "wait" /\ enabled /\ results = <<>>
       \/ pc[k] = "retry"
    /\ Return(k, "failed")
    /\ UNCHANGED <<link, enabled, results, expected, got, requests, stationVars, answers>>

(* The queue is disabled: the wait is over. *)
Abort(k) ==
    /\ pc[k] = "wait"
    /\ ~enabled
    /\ Return(k, "failed")
    /\ UNCHANGED <<link, enabled, results, expected, got, requests, stationVars, answers>>

-----------------------------------------------------------------------------
(* The websocket server thread. *)

(* decodeCallResult, decodeCallError: the answer goes to the queue, that a   *)
(* call is waiting or not. The connection may have been dropped.             *)
Deliver ==
    /\ link # "closed"
    /\ answers # <<>>
    /\ results' = Append(results, Head(answers))
    /\ answers' = Tail(answers)
    /\ UNCHANGED <<link, enabled, mutex, tid, pc, expected, got, requests, stationVars>>

(* A write error: what was still to be sent is lost, what had been written   *)
(* before may still reach the station, and its answers be received.          *)
Drop ==
    /\ link = "open"
    /\ link' = "dropped"
    /\ \E n \in 0..Len(requests) : requests' = SubSeq(requests, 1, n)
    /\ UNCHANGED <<rpcVars, stationVars, answers>>

(* LWS_CALLBACK_CLOSED: nothing more is sent or received. *)
Close ==
    /\ link # "closed"
    /\ link' = "closed"
    /\ requests' = <<>>
    /\ answers' = <<>>
    /\ UNCHANGED <<rpcVars, stationVars>>

(* Mutant: the disconnection leaves the queue alone. *)
DisableNothing ==
    /\ link = "closed"
    /\ enabled
    /\ UNCHANGED vars

(* processDisconnected disables the queue, after m_connected was cleared. *)
Disable ==
    /\ link = "closed"
    /\ enabled
    /\ enabled' = FALSE
    /\ UNCHANGED <<link, results, mutex, tid, pc, expected, got, requests, stationVars, answers>>

-----------------------------------------------------------------------------
(* The station. *)

Receive ==
    /\ requests # <<>>
    /\ received' = received \cup {Head(requests)}
    /\ requests' = Tail(requests)
    /\ UNCHANGED <<link, rpcVars, copies, answers>>

(* It answers what it has received, in any order, as often as it likes. *)
Answer(r) ==
    /\ link # "closed"
    /\ r \in received
    /\ copies[r.call] < MaxCopies
    /\ copies' = [copies EXCEPT ![r.call] = @ + 1]
    /\ answers' = Append(answers, r)
    /\ UNCHANGED <<link, rpcVars, requests, received>>

-----------------------------------------------------------------------------

Call(k) == Enter(k) \/ Lock(k) \/ Send(k) \/ Pop(k) \/ Retry(k) \/ Timeout(k) \/ Abort(k)

Station == Receive \/ \E r \in received : Answer(r)

Next == \/ \E k \in Calls : Call(k)
        \/ Deliver \/ Drop \/ Close \/ Disable
        \/ Station

Spec == Init /\ [][Next]_vars

(* The threads are scheduled and the websocket server thread reads what has  *)
(* arrived. Timeouts need not expire: only CallEnds assumes that they do.    *)
PromptSpec ==
    /\ Spec
    /\ WF_vars(Deliver) /\ WF_vars(Disable)
    /\ \A k \in Calls : WF_vars(Lock(k) \/ Send(k) \/ Pop(k) \/ Retry(k) \/ Abort(k))

(* A call that waits does not wait for ever. *)
TimeoutsExpire == \A k \in Calls : WF_vars(Timeout(k))

-----------------------------------------------------------------------------
(* Properties *)

Ended(k) == pc[k] \in {"answered", "failed"}

(* Types of the variables of the session, the calls and the station. *)
TypeOK ==
    /\ link \in Links
    /\ enabled \in BOOLEAN
    /\ results \in Seq(Messages)
    /\ mutex \in Calls \cup {NoCall}
    /\ tid \in Nat
    /\ pc \in [Calls -> Places]
    /\ expected \in [Calls -> Nat]
    /\ got \in [Calls -> SUBSET Calls]
    /\ requests \in Seq(Messages)
    /\ received \subseteq Messages
    /\ copies \in [Calls -> Nat]
    /\ answers \in Seq(Messages)

(* A call returns the answer that the station gave to its own request, never *)
(* the late or repeated answer to an earlier request that was still in the   *)
(* queue (the comparison of the ids in RpcBase::call).                       *)
OwnAnswer == \A k \in Calls : got[k] \subseteq {k}

(* Every message on its way, and every answer waiting in the queue, carries  *)
(* an id that no later request will have: it can only match the call it is   *)
(* of, which has ended or holds the mutex (m_transaction_id, m_call_mutex).  *)
IdsAreSpent ==
    \A m \in received \cup Range(requests) \cup Range(answers) \cup Range(results) :
       \/ m.id < tid /\ Ended(m.call)
       \/ m.id = tid /\ mutex = m.call

(* What the callers are promised, see RequestReply. *)
PhaseOf(place) == IF place \in {"idle", "lock", "send"} THEN "idle"
                  ELSE IF place \in {"wait", "retry"} THEN "asked" ELSE place

Phase == [k \in Calls |-> PhaseOf(pc[k])]

Abs == INSTANCE RequestReply WITH phase <- Phase, replied <- {k \in Calls : copies[k] > 0}

(* RpcBase::call, "Only one RPC request/response at a time": every step is   *)
(* one of RequestReply or is hidden from the callers.                        *)
RequestReplySpec == Abs!Spec

(* The disconnection wakes the call that waits for an answer and the calls   *)
(* queued behind it, without waiting for their timeouts (processDisconnected *)
(* disables the results queue).                                              *)
DisconnectWakes ==
    \A k \in Calls : (pc[k] # "idle" /\ link = "closed") ~> Ended(k)

(* The answers thrown away do not hide the expected one: if it is on its way *)
(* or in the queue, the call ends without its timeout.                       *)
AnswerEndsCall ==
    \A k \in Calls :
       (pc[k] = "wait" /\ \E m \in Range(answers) \cup Range(results) : m.call = k) ~> Ended(k)

(* Whatever the station does, a call that has begun ends, if the timeouts     *)
(* expire.                                                                   *)
CallEnds == TimeoutsExpire => \A k \in Calls : (pc[k] # "idle") ~> Ended(k)
=============================================================================
