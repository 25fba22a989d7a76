--------------------------- MODULE RpcCalls_proofs ---------------------------
(***************************************************************************)
(* Safety of the requests to a station, for any number of calls, any first  *)
(* transaction id and a station that repeats its answers as it likes.        *)
(***************************************************************************)
EXTENDS RpcCalls, SequenceTheorems, TLAPS

(* The inductive invariant. *)

Waiting(k) == pc[k] \in {"wait", "retry"}

(* m_call_mutex is held from Lock to Return. *)
MutexInv == \A k \in Calls : mutex = k <=> Waiting(k) \/ pc[k] = "send"

ExpectedInv == \A k \in Calls : Waiting(k) => expected[k] = tid

(* What is on its way, in both directions, and in the queue. *)
InFlight == received \cup Range(requests) \cup Range(answers) \cup Range(results)

(* A message is of a call that has ended, or of the one that waits.          *)
SpentInv ==
    \A m \in InFlight : \/ m.id < tid /\ Ended(m.call)
                        \/ m.id = tid /\ Waiting(m.call)

(* An answer has been sent by the station, and only an answer ends a call    *)
(* successfully.                                                             *)
AnswerInv ==
    /\ \A m \in Range(answers) \cup Range(results) : copies[m.call] > 0
    /\ \A k \in Calls : pc[k] = "answered" => copies[k] > 0

IInv == TypeOK /\ MutexInv /\ ExpectedInv /\ SpentInv /\ AnswerInv /\ OwnAnswer

-----------------------------------------------------------------------------
(* The elements of a sequence of messages after each operation on it. *)

LEMMA RangeAppend ==
  ASSUME NEW S, NEW s \in Seq(S), NEW e \in S
  PROVE  Append(s, e) \in Seq(S) /\ Range(Append(s, e)) = Range(s) \cup {e}
BY DEF Range

LEMMA RangeTail ==
  ASSUME NEW S, NEW s \in Seq(S), s # <<>>
  PROVE  /\ Tail(s) \in Seq(S) /\ Head(s) \in S
         /\ Range(Tail(s)) \subseteq Range(s) /\ Head(s) \in Range(s)
BY DEF Range

LEMMA RangePrefix ==
  ASSUME NEW S, NEW s \in Seq(S), NEW n \in 0..Len(s)
  PROVE  SubSeq(s, 1, n) \in Seq(S) /\ Range(SubSeq(s, 1, n)) \subseteq Range(s)
<1>1. \A i \in 1..n : s[i] \in S
  BY LenProperties, ElementOfSeq
<1>2. /\ SubSeq(s, 1, n) \in Seq(S)
      /\ Len(SubSeq(s, 1, n)) = n
      /\ \A i \in 1..n : SubSeq(s, 1, n)[i] = s[i]
  BY <1>1, SubSeqProperties
<1> QED
  BY <1>2, LenProperties DEF Range

LEMMA RangeEmpty == ASSUME NEW S PROVE <<>> \in Seq(S) /\ Range(<<>>) = {}
BY DEF Range

LEMMA RangeElements == ASSUME NEW S, NEW s \in Seq(S) PROVE Range(s) \subseteq S
BY RangeOfSeq

-----------------------------------------------------------------------------
USE NoCallAssumption, FirstIdAssumption, MaxCopiesAssumption DEF rpcVars, stationVars

LEMMA InitInv == Init => IInv
BY RangeEmpty DEF Init, IInv, TypeOK, MutexInv, ExpectedInv, SpentInv, AnswerInv, OwnAnswer,
                  InFlight, Waiting, Links, Places

(* Every message in flight is a message. *)
LEMMA InFlightTypes == ASSUME TypeOK PROVE InFlight \subseteq Messages
BY RangeElements DEF TypeOK, InFlight

(* A step that changes no message, and only moves one call between places    *)
(* before its request is sent.                                               *)
LEMMA EnterStep == ASSUME IInv, NEW k \in Calls, Enter(k) PROVE IInv'
<1> USE DEF Enter, Waiting, Ended, Places
<1>1. TypeOK' /\ MutexInv' /\ ExpectedInv' /\ OwnAnswer'
  BY DEF IInv, TypeOK, MutexInv, ExpectedInv, OwnAnswer
<1>2. \A m \in InFlight : m.call # k
  BY InFlightTypes DEF IInv, TypeOK, SpentInv, Messages
<1>3. SpentInv' /\ AnswerInv'
  BY <1>2, InFlightTypes DEF IInv, TypeOK, SpentInv, AnswerInv, InFlight, Messages
<1> QED
  BY <1>1, <1>3 DEF IInv

LEMMA LockStep == ASSUME IInv, NEW k \in Calls, Lock(k) PROVE IInv'
<1> USE DEF Lock, Waiting, Ended, Places
<1>1. TypeOK' /\ MutexInv' /\ ExpectedInv' /\ OwnAnswer'
  BY DEF IInv, TypeOK, MutexInv, ExpectedInv, OwnAnswer
<1>2. \A m \in InFlight : m.call # k
  BY InFlightTypes DEF IInv, TypeOK, SpentInv, Messages
<1>3. SpentInv' /\ AnswerInv'
  BY <1>2, InFlightTypes DEF IInv, TypeOK, SpentInv, AnswerInv, InFlight, Messages
<1> QED
  BY <1>1, <1>3 DEF IInv

(* The end of the call that holds the mutex: whatever was in flight with its *)
(* id is spent.                                                              *)
LEMMA ReturnStep ==
  ASSUME IInv, NEW k \in Calls, NEW p \in {"answered", "failed"},
         Waiting(k) \/ pc[k] = "send", Return(k, p),
         p = "answered" => copies[k] > 0,
         UNCHANGED <<expected, copies, received>>,
         InFlight' \subseteq InFlight,
         Range(answers)' \subseteq Range(answers), Range(results)' \subseteq Range(results)
  PROVE  /\ pc' \in [Calls -> Places] /\ tid' \in Nat /\ mutex' \in Calls \cup {NoCall}
         /\ MutexInv' /\ ExpectedInv' /\ SpentInv' /\ AnswerInv'
<1> USE DEF Return, Waiting, Places
<1>1. mutex = k /\ \A j \in Calls \ {k} : ~Waiting(j) /\ pc[j] # "send" /\ pc'[j] = pc[j]
  BY DEF IInv, TypeOK, MutexInv
<1>2. pc'[k] = p /\ tid' = tid + 1 /\ mutex' = NoCall /\ tid \in Nat
  BY DEF IInv, TypeOK
<1>3. pc' \in [Calls -> Places] /\ tid' \in Nat /\ mutex' \in Calls \cup {NoCall}
  BY <1>2 DEF IInv, TypeOK
<1>4. MutexInv' /\ ExpectedInv'
  BY <1>1, <1>2 DEF MutexInv, ExpectedInv
<1>5. ASSUME NEW m \in InFlight' PROVE m.id < tid' /\ Ended(m.call)'
  <2>1. m \in InFlight /\ m.id \in Nat /\ m.call \in Calls
    BY InFlightTypes DEF IInv, Messages
  <2>2. \/ m.id < tid /\ Ended(m.call)
        \/ m.id = tid /\ m.call = k
    BY <1>1, <2>1 DEF IInv, SpentInv
  <2>3. CASE m.call = k
    BY <1>2, <2>1, <2>2, <2>3 DEF Ended
  <2>4. CASE m.call # k
    BY <1>1, <1>2, <2>1, <2>2, <2>4 DEF Ended
  <2> QED
    BY <2>3, <2>4
<1>6. SpentInv'
  BY <1>5 DEF SpentInv
<1>7. AnswerInv'
  BY <1>1, <1>2 DEF IInv, AnswerInv
<1> QED
  BY <1>3, <1>4, <1>6, <1>7

LEMMA SendStep == ASSUME IInv, NEW k \in Calls, Send(k) PROVE IInv'
<1>1. CASE link # "open"
  <2>1. Return(k, "failed") /\ pc[k] = "send"
        /\ UNCHANGED <<link, enabled, results, got, received, copies, answers, requests, expected>>
    BY <1>1 DEF Send
  <2>2. InFlight' = InFlight
    BY <2>1 DEF InFlight
  <2> QED
    BY <2>1, <2>2, ReturnStep DEF IInv, TypeOK, OwnAnswer
<1>2. CASE link = "open"
  <2> DEFINE r == [id |-> tid, call |-> k]
  <2>1. /\ requests' = Append(requests, r) /\ r \in Messages
        /\ expected' = [expected EXCEPT ![k] = tid]
        /\ pc' = [pc EXCEPT ![k] = "wait"] /\ pc[k] = "send"
        /\ UNCHANGED <<link, enabled, results, mutex, tid, got, received, copies, answers>>
    BY <1>2 DEF Send, IInv, TypeOK, Messages
  <2>2. requests' \in Seq(Messages) /\ Range(requests') = Range(requests) \cup {r}
    BY <2>1, RangeAppend DEF IInv, TypeOK
  <2>3. TypeOK' /\ OwnAnswer'
    BY <2>1, <2>2 DEF IInv, TypeOK, OwnAnswer, Places
  <2>4. MutexInv' /\ ExpectedInv'
    BY <2>1 DEF IInv, TypeOK, MutexInv, ExpectedInv, Waiting
  <2>5. InFlight' = InFlight \cup {r}
    BY <2>1, <2>2 DEF InFlight
  <2>6. \A m \in InFlight : m.call # k
    BY <2>1, InFlightTypes DEF IInv, SpentInv, Waiting, Ended, Messages
  <2>7. SpentInv'
    BY <2>1, <2>5, <2>6, InFlightTypes DEF IInv, TypeOK, SpentInv, Waiting, Ended, Messages
  <2>8. AnswerInv'
    BY <2>1 DEF IInv, TypeOK, AnswerInv
  <2> QED
    BY <2>3, <2>4, <2>7, <2>8 DEF IInv
<1> QED
  BY <1>1, <1>2

(* The expected id is the one that no other call ever had. *)
LEMMA PopStep == ASSUME IInv, NEW k \in Calls, Pop(k) PROVE IInv'
<1> DEFINE m == Head(results)
<1>1. /\ pc[k] = "wait" /\ results' = Tail(results)
      /\ UNCHANGED <<link, enabled, expected, requests, received, copies, answers>>
  BY DEF Pop
<1>2. /\ results' \in Seq(Messages) /\ m \in Messages /\ m \in Range(results)
      /\ Range(results') \subseteq Range(results)
  BY RangeTail DEF Pop, IInv, TypeOK
<1>3. InFlight' \subseteq InFlight
  BY <1>1, <1>2 DEF InFlight
<1>4. CASE m.id = expected[k]
  <2>1. m.call = k
    <3>1. \A j \in Calls : Waiting(j) => j = k
      BY <1>1 DEF IInv, MutexInv, Waiting
    <3>2. m.id = tid /\ m \in InFlight /\ m.call \in Calls
      BY <1>1, <1>2, <1>4 DEF IInv, ExpectedInv, Waiting, InFlight, Messages
    <3> QED
      BY <3>1, <3>2 DEF IInv, TypeOK, SpentInv
  <2>2. got' = [got EXCEPT ![k] = @ \cup {k}] /\ Return(k, "answered")
    BY <1>4, <2>1 DEF Pop
  <2>3. copies[k] > 0
    BY <1>2, <2>1 DEF IInv, AnswerInv
  <2>4. OwnAnswer' /\ got' \in [Calls -> SUBSET Calls]
    BY <2>2 DEF IInv, TypeOK, OwnAnswer
  <2>5. Range(answers)' \subseteq Range(answers) /\ Range(results)' \subseteq Range(results)
    BY <1>1, <1>2
  <2> QED
    BY <1>1, <1>2, <1>3, <2>2, <2>3, <2>4, <2>5, ReturnStep DEF IInv, TypeOK, Waiting
<1>5. CASE m.id # expected[k]
  <2>1. pc' = [pc EXCEPT ![k] = "retry"] /\ UNCHANGED <<got, mutex, tid>>
    BY <1>5 DEF Pop
  <2>2. TypeOK' /\ OwnAnswer' /\ MutexInv' /\ ExpectedInv'
    BY <1>1, <1>2, <2>1 DEF IInv, TypeOK, OwnAnswer, MutexInv, ExpectedInv, Waiting, Places
  <2>3. \A j \in Calls : Waiting(j)' = Waiting(j) /\ Ended(j)' = Ended(j)
    BY <1>1, <2>1 DEF IInv, TypeOK, Waiting, Ended
  <2>4. SpentInv'
    BY <1>3, <2>1, <2>3, InFlightTypes DEF IInv, SpentInv, Messages
  <2>5. AnswerInv'
    BY <1>1, <1>2, <2>1 DEF IInv, TypeOK, AnswerInv
  <2> QED
    BY <2>2, <2>4, <2>5 DEF IInv
<1> QED
  BY <1>4, <1>5

LEMMA RetryStep == ASSUME IInv, NEW k \in Calls, Retry(k) PROVE IInv'
<1> USE DEF Retry
<1>1. TypeOK' /\ OwnAnswer' /\ MutexInv' /\ ExpectedInv'
  BY DEF IInv, TypeOK, OwnAnswer, MutexInv, ExpectedInv, Waiting, Places
<1>2. \A j \in Calls : Waiting(j)' = Waiting(j) /\ Ended(j)' = Ended(j)
  BY DEF IInv, TypeOK, Waiting, Ended
<1>3. SpentInv' /\ AnswerInv'
  BY <1>2, InFlightTypes DEF IInv, TypeOK, SpentInv, AnswerInv, InFlight, Messages
<1> QED
  BY <1>1, <1>3 DEF IInv

LEMMA FailStep == ASSUME IInv, NEW k \in Calls, Timeout(k) \/ Abort(k) PROVE IInv'
<1>1. /\ Return(k, "failed") /\ Waiting(k)
      /\ UNCHANGED <<link, enabled, results, expected, got, requests, received, copies, answers>>
  BY DEF Timeout, Abort, Waiting
<1>2. InFlight' = InFlight
  BY <1>1 DEF InFlight
<1> QED
  BY <1>1, <1>2, ReturnStep DEF IInv, TypeOK, OwnAnswer

-----------------------------------------------------------------------------
(* The connection and the station move messages and leave the calls alone. *)

LEMMA MovesStep ==
  ASSUME IInv, UNCHANGED <<mutex, tid, pc, expected, got>>,
         TypeOK', InFlight' \subseteq InFlight,
         \A k \in Calls : copies[k] > 0 => copies'[k] > 0,
         \A m \in (Range(answers) \cup Range(results))' :
            m \in Range(answers) \cup Range(results) \/ copies'[m.call] > 0
  PROVE  IInv'
<1>1. MutexInv' /\ ExpectedInv' /\ OwnAnswer'
  BY DEF IInv, MutexInv, ExpectedInv, OwnAnswer, Waiting
<1>2. SpentInv'
  BY DEF IInv, SpentInv, Waiting, Ended
<1>3. ASSUME NEW m \in (Range(answers) \cup Range(results))' PROVE copies'[m.call] > 0
  <2>1. CASE m \in Range(answers) \cup Range(results)
    <3>1. m.call \in Calls
      <4>1. Range(answers) \subseteq Messages /\ Range(results) \subseteq Messages
        BY RangeElements DEF IInv, TypeOK
      <4> QED
        BY <2>1, <4>1 DEF Messages
    <3> QED
      BY <2>1, <3>1 DEF IInv, AnswerInv
  <2> QED
    BY <2>1
<1>4. AnswerInv'
  BY <1>3 DEF IInv, AnswerInv
<1> QED
  BY <1>1, <1>2, <1>4 DEF IInv

LEMMA DeliverStep == ASSUME IInv, Deliver PROVE IInv'
<1>1. /\ Head(answers) \in Range(answers) /\ Head(answers) \in Messages
      /\ answers' \in Seq(Messages) /\ Range(answers') \subseteq Range(answers)
  BY RangeTail DEF Deliver, IInv, TypeOK
<1>2. results' \in Seq(Messages) /\ Range(results') = Range(results) \cup {Head(answers)}
  BY <1>1, RangeAppend DEF Deliver, IInv, TypeOK
<1>3. TypeOK' /\ UNCHANGED <<received, requests, copies>>
  BY <1>1, <1>2 DEF Deliver, IInv, TypeOK
<1>4. InFlight' \subseteq InFlight
  BY <1>1, <1>2, <1>3 DEF InFlight
<1> QED
  BY <1>1, <1>2, <1>3, <1>4, MovesStep DEF Deliver

LEMMA LinkStep == ASSUME IInv, Drop \/ Close \/ Disable PROVE IInv'
<1>1. requests' \in Seq(Messages) /\ Range(requests') \subseteq Range(requests)
  <2>1. CASE Drop
    <3>1. PICK n \in 0..Len(requests) : requests' = SubSeq(requests, 1, n)
      BY <2>1 DEF Drop
    <3> QED
      BY <3>1, RangePrefix DEF IInv, TypeOK
  <2>2. CASE Close
    BY <2>2, RangeEmpty DEF Close
  <2>3. CASE Disable
    BY <2>3 DEF Disable, IInv, TypeOK
  <2> QED
    BY <2>1, <2>2, <2>3
<1>2. answers' \in Seq(Messages) /\ Range(answers') \subseteq Range(answers)
  BY RangeEmpty DEF Drop, Close, Disable, IInv, TypeOK
<1>3. TypeOK' /\ UNCHANGED <<received, results, copies, mutex, tid, pc, expected, got>>
  BY <1>1, <1>2 DEF Drop, Close, Disable, IInv, TypeOK, Links
<1>4. InFlight' \subseteq InFlight
  BY <1>1, <1>2, <1>3 DEF InFlight
<1> QED
  BY <1>2, <1>3, <1>4, MovesStep

LEMMA ReceiveStep == ASSUME IInv, Receive PROVE IInv'
<1>1. /\ Head(requests) \in Range(requests) /\ Head(requests) \in Messages
      /\ requests' \in Seq(Messages) /\ Range(requests') \subseteq Range(requests)
  BY RangeTail DEF Receive, IInv, TypeOK
<1>2. TypeOK' /\ UNCHANGED <<results, answers, copies, mutex, tid, pc, expected, got>>
  BY <1>1 DEF Receive, IInv, TypeOK
<1>3. InFlight' \subseteq InFlight
  BY <1>1, <1>2 DEF InFlight, Receive
<1> QED
  BY <1>2, <1>3, MovesStep

LEMMA AnswerStep == ASSUME IInv, NEW r \in received, Answer(r) PROVE IInv'
<1>1. r \in Messages /\ r.call \in Calls
  BY DEF IInv, TypeOK, Messages
<1>2. answers' \in Seq(Messages) /\ Range(answers') = Range(answers) \cup {r}
  BY <1>1, RangeAppend DEF Answer, IInv, TypeOK
<1>3. /\ copies' \in [Calls -> Nat] /\ copies'[r.call] > 0
      /\ \A k \in Calls : copies[k] > 0 => copies'[k] > 0
  BY <1>1 DEF Answer, IInv, TypeOK
<1>4. TypeOK' /\ UNCHANGED <<results, requests, received, mutex, tid, pc, expected, got>>
  BY <1>2, <1>3 DEF Answer, IInv, TypeOK
<1>5. InFlight' \subseteq InFlight
  BY <1>2, <1>4 DEF InFlight
<1> QED
  BY <1>2, <1>3, <1>4, <1>5, MovesStep

-----------------------------------------------------------------------------
LEMMA NextStep == IInv /\ [Next]_vars => IInv'
<1> SUFFICES ASSUME IInv, [Next]_vars PROVE IInv'
  OBVIOUS
<1>1. ASSUME NEW k \in Calls, Call(k) PROVE IInv'
  BY <1>1, EnterStep, LockStep, SendStep, PopStep, RetryStep, FailStep DEF Call
<1>2. CASE Deliver \/ Drop \/ Close \/ Disable
  BY <1>2, DeliverStep, LinkStep
<1>3. CASE Station
  BY <1>3, ReceiveStep, AnswerStep DEF Station
<1>4. CASE UNCHANGED vars
  BY <1>4 DEF vars, IInv, TypeOK, MutexInv, ExpectedInv, SpentInv, AnswerInv, OwnAnswer,
              InFlight, Waiting, Ended
<1> QED
  BY <1>1, <1>2, <1>3, <1>4 DEF Next

LEMMA Invariance == Spec => []IInv
BY InitInv, NextStep, PTL DEF Spec

-----------------------------------------------------------------------------
(* Theorems *)

(* Every variable of the session, of the calls and of the station keeps its  *)
(* type.                                                                     *)
THEOREM TypeCorrect == Spec => []TypeOK
BY Invariance, PTL DEF IInv

(* RpcBase::call returns the answer to its own request, however late, often  *)
(* or out of order the station answers.                                      *)
THEOREM OwnAnswers == Spec => []OwnAnswer
BY Invariance, PTL DEF IInv

(* m_transaction_id under m_call_mutex: an id on its way belongs to the call *)
(* that holds the mutex or to one that has ended.                            *)
THEOREM SpentIds == Spec => []IdsAreSpent
<1>1. IInv => IdsAreSpent
  <2> SUFFICES ASSUME IInv, NEW m \in InFlight
               PROVE  (m.id < tid /\ Ended(m.call)) \/ (m.id = tid /\ mutex = m.call)
    BY DEF IdsAreSpent, InFlight
  <2>1. m.call \in Calls
    BY InFlightTypes DEF IInv, Messages
  <2> QED
    BY <2>1 DEF IInv, SpentInv, MutexInv
<1> QED
  BY <1>1, Invariance, PTL

(* The phase of a call changes with its place only. *)
LEMMA PhaseStep ==
  ASSUME TypeOK, NEW k \in Calls, NEW p \in Places, pc' = [pc EXCEPT ![k] = p]
  PROVE  /\ Phase[k] = PhaseOf(pc[k])
         /\ Phase' = [Phase EXCEPT ![k] = PhaseOf(p)]
         /\ PhaseOf(p) = PhaseOf(pc[k]) => Phase' = Phase
BY DEF TypeOK, Phase

Replied == {k \in Calls : copies[k] > 0}

(* A call that returns ends its request, successfully if it was replied to.  *)
LEMMA ReturnRefines ==
  ASSUME IInv, NEW k \in Calls, NEW p \in {"answered", "failed"}, Return(k, p),
         pc[k] \in {"send", "wait", "retry"}, UNCHANGED copies,
         p = "answered" => Waiting(k) /\ copies[k] > 0
  PROVE  Abs!Next
<1>1. /\ Phase' = [Phase EXCEPT ![k] = p]
      /\ Phase[k] \in {"idle", "asked"}
      /\ p = "answered" => Phase[k] = "asked"
  BY PhaseStep DEF Return, PhaseOf, IInv, Places, Waiting
<1>2. Replied' = Replied
  BY DEF Replied
<1>3. CASE p = "failed"
  BY <1>1, <1>2, <1>3 DEF Abs!Next, Abs!Fail, Replied
<1>4. CASE p = "answered"
  BY <1>1, <1>2, <1>4 DEF Abs!Next, Abs!Succeed, Replied
<1> QED
  BY <1>3, <1>4

LEMMA SendRefines == ASSUME IInv, NEW k \in Calls, Send(k) PROVE Abs!Next
<1>1. CASE link # "open"
  BY <1>1, ReturnRefines DEF Send
<1>2. CASE link = "open"
  <2>1. Phase' = [Phase EXCEPT ![k] = "asked"] /\ Phase[k] = "idle"
    BY <1>2, PhaseStep DEF Send, IInv, Places, PhaseOf
  <2>2. \A j \in Calls : Phase[j] # "asked"
    BY DEF IInv, TypeOK, MutexInv, Waiting, Send, Phase, PhaseOf, Places
  <2>3. Replied' = Replied
    BY DEF Send, Replied
  <2> QED
    BY <2>1, <2>2, <2>3 DEF Abs!Next, Abs!Ask, Replied
<1> QED
  BY <1>1, <1>2

LEMMA PopRefines == ASSUME IInv, NEW k \in Calls, Pop(k) PROVE Abs!Next \/ UNCHANGED Abs!vars
<1> DEFINE m == Head(results)
<1>1. m \in Messages /\ m \in Range(results)
  BY RangeTail DEF Pop, IInv, TypeOK
<1>2. CASE m.id = expected[k]
  <2>1. m \in InFlight /\ m.call \in Calls /\ m.id = tid
    BY <1>1, <1>2 DEF IInv, ExpectedInv, Waiting, InFlight, Messages, Pop
  <2>2. m.call = k
    BY <2>1 DEF IInv, TypeOK, SpentInv, MutexInv, Waiting, Pop
  <2> QED
    BY <1>1, <1>2, <2>2, ReturnRefines DEF Pop, IInv, AnswerInv, Waiting
<1>3. CASE m.id # expected[k]
  BY <1>3, PhaseStep DEF Pop, IInv, Places, PhaseOf, Abs!vars
<1> QED
  BY <1>2, <1>3

LEMMA AnswerRefines ==
  ASSUME IInv, NEW r \in received, Answer(r) PROVE Abs!Next \/ UNCHANGED Abs!vars
<1>1. r \in InFlight /\ r.call \in Calls
  BY DEF IInv, TypeOK, InFlight, Messages
<1>2. Replied' = Replied \cup {r.call} /\ Phase' = Phase
  BY <1>1 DEF Answer, Replied, Phase, IInv, TypeOK
<1>3. Waiting(r.call) \/ Ended(r.call)
  BY <1>1 DEF IInv, SpentInv
<1>4. CASE pc[r.call] = "answered"
  BY <1>1, <1>2, <1>4 DEF IInv, AnswerInv, Replied, Abs!vars
<1>5. CASE pc[r.call] # "answered"
  BY <1>1, <1>2, <1>3, <1>5 DEF Waiting, Ended, Phase, PhaseOf, Abs!Next, Abs!Reply, Replied
<1> QED
  BY <1>4, <1>5

(* RpcBase::call: one request at a time, answered by its own reply, once.    *)
THEOREM Implementation == Spec => RequestReplySpec
<1>1. Init => Abs!Init
  BY DEF Init, Abs!Init, Phase, PhaseOf
<1>2. IInv /\ [Next]_vars => [Abs!Next]_(Abs!vars)
  <2> SUFFICES ASSUME IInv, [Next]_vars PROVE Abs!Next \/ UNCHANGED Abs!vars
    OBVIOUS
  <2>1. ASSUME NEW k \in Calls, Enter(k) PROVE Abs!Next \/ UNCHANGED Abs!vars
    <3>1. CASE link = "open"
      BY <2>1, <3>1, PhaseStep DEF Enter, IInv, PhaseOf, Places, Abs!vars
    <3>2. CASE link # "open"
      <4>1. Phase' = [Phase EXCEPT ![k] = "failed"] /\ Phase[k] = "idle" /\ Replied' = Replied
        BY <2>1, <3>2, PhaseStep DEF Enter, IInv, PhaseOf, Places, Replied
      <4> QED
        BY <4>1 DEF Abs!Next, Abs!Fail, Replied
    <3> QED
      BY <3>1, <3>2
  <2>2. ASSUME NEW k \in Calls, Lock(k) \/ Retry(k) PROVE UNCHANGED Abs!vars
    BY <2>2, PhaseStep DEF Lock, Retry, IInv, PhaseOf, Places, Abs!vars
  <2>3. ASSUME NEW k \in Calls, Timeout(k) \/ Abort(k) PROVE Abs!Next
    BY <2>3, ReturnRefines DEF Timeout, Abort
  <2>4. CASE Deliver \/ Drop \/ Close \/ Disable \/ Receive \/ UNCHANGED vars
    BY <2>4 DEF Deliver, Drop, Close, Disable, Receive, vars, Phase, Abs!vars
  <2> QED
    BY <2>1, <2>2, <2>3, <2>4, SendRefines, PopRefines, AnswerRefines DEF Next, Call, Station
<1> QED
  BY <1>1, <1>2, Invariance, PTL DEF Spec, RequestReplySpec, Abs!Spec
=============================================================================
