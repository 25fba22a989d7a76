----------------------- MODULE ChargePointSessions_proofs -----------------------
(***************************************************************************)
(* Safety of the sessions and of the list of charge points, for any number  *)
(* of stations, connections, pool threads and operator threads.             *)
(***************************************************************************)
EXTENDS ChargePointSessions, TLAPS

(* The inductive invariant, by the piece of state each part is about. *)

(* A session is operational from its registration until the CLOSED callback  *)
(* of its socket has waited for its last request.                            *)
SessionInv ==
    \A c \in Conns :
       /\ operational[c] => /\ Registered(c)
                            /\ c \in listener
                            /\ conn[c] \in {"open", "dropped", "closed"}
       /\ conn[c] = "open" => operational[c]
       /\ c \in listener => conn[c] # "none"
       /\ c \in listener /\ conn[c] = "dropped" => operational[c]
       /\ operational[c] /\ conn[c] = "closed" => wsAt = "quiesce" /\ wsConn = c

ListInv ==
    \A s \in Stations : registry[s] # NoConn => StationOf[registry[s]] = s

(* A session that is listed and no longer operational has its removal ahead. *)
RemovalInv ==
    /\ \A c \in Conns :
          /\ c \in removals => /\ Registered(c)
                               /\ ~operational[c]
                               /\ conn[c] \in {"closed", "freed"}
          /\ Registered(c) /\ ~operational[c]
             => /\ conn[c] \in {"closed", "freed"}
                /\ c \in removals \/ (wsAt = "notify" /\ wsConn = c)
    /\ mutex # NoConn => mutex \in removals

CallbackInv ==
    /\ wsAt = "service" <=> wsConn = NoConn
    /\ wsAt = "quiesce" => operational[wsConn] /\ conn[wsConn] = "closed"
    /\ wsAt = "notify" => /\ Registered(wsConn)
                          /\ ~operational[wsConn]
                          /\ conn[wsConn] = "closed"
                          /\ wsConn \notin removals

(* The lock of a session is held exactly by the thread that processes one of *)
(* its requests, and only while the session is operational.                  *)
LockInv ==
    /\ \A w \in Workers : wAt[w] # "pop" => wReq[w] \in Conns
    /\ \A w \in Workers, c \in Conns : lock[c] = w <=> Handling(w, c)
    /\ \A c \in Conns : lock[c] # Unlocked => operational[c]

IInv == TypeOK /\ SessionInv /\ ListInv /\ RemovalInv /\ CallbackInv /\ LockInv

-----------------------------------------------------------------------------
USE DEF wsVars, rpcVars, regVars, poolVars, opVars, MaybeConn, ConnStates
USE StationOfAssumption, NoConnAssumption, UnlockedAssumption

LEMMA InitInv == Init => IInv
<1> SUFFICES ASSUME Init PROVE IInv
  OBVIOUS
<1>1. TypeOK
  <2>1. queue \in Seq(Conns) /\ wAt \in [Workers -> {"pop", "lock", "handle"}]
    BY DEF Init
  <2>2. wake \in BOOLEAN /\ listener \subseteq Conns /\ unsent \subseteq Conns /\ writable \subseteq Conns
    BY DEF Init
  <2>3. /\ operational \in [Conns -> BOOLEAN] /\ sent \in [Conns -> Nat]
        /\ lock \in [Conns -> Workers \cup {Unlocked}] /\ conn \in [Conns -> ConnStates]
    BY DEF Init
  <2>4. /\ held \in [Operators -> SUBSET Conns] /\ calling \subseteq Operators
        /\ wReq \in [Workers -> MaybeConn] /\ registry \in [Stations -> MaybeConn]
    BY DEF Init
  <2> QED
    BY <2>1, <2>2, <2>3, <2>4 DEF Init, TypeOK
<1>2. SessionInv /\ ListInv
  BY DEF Init, SessionInv, ListInv, Registered
<1>3. RemovalInv /\ CallbackInv /\ LockInv
  BY DEF Init, RemovalInv, CallbackInv, LockInv, Registered, Handling
<1> QED
  BY <1>1, <1>2, <1>3 DEF IInv

(* ESTABLISHED registers a session nobody has seen yet, or refuses one       *)
(* without giving it a listener.                                             *)
LEMMA EstablishedStep == ASSUME IInv, NEW c \in Conns, Established(c) PROVE IInv'
<1> USE DEF Established, Registered
<1>1. conn[c] = "none" /\ ~operational[c] /\ ~Registered(c) /\ c \notin removals
  BY DEF IInv, TypeOK, SessionInv, RemovalInv
<1>2. CASE Register(c)
  <2>1. \A d \in Conns \ {c} : /\ conn'[d] = conn[d] /\ operational'[d] = operational[d]
                               /\ d \in listener' <=> d \in listener
                               /\ Registered(d) => Registered(d)'
                               /\ Registered(d)' => Registered(d)
    BY <1>2 DEF IInv, TypeOK, Register
  <2>2. operational'[c] /\ Registered(c)' /\ c \in listener' /\ conn'[c] = "open"
    BY <1>2 DEF IInv, TypeOK, Register
  <2>3. TypeOK'
    BY <1>2 DEF IInv, TypeOK, Register
  <2>4. SessionInv'
    BY <2>1, <2>2 DEF IInv, SessionInv
  <2>5. ListInv'
    BY <1>2 DEF IInv, TypeOK, ListInv, Register
  <2>6. RemovalInv'
    BY <1>1, <2>1, <2>2 DEF IInv, RemovalInv
  <2>7. CallbackInv'
    BY <1>1, <2>1 DEF IInv, TypeOK, CallbackInv
  <2>8. LockInv'
    <3>1. UNCHANGED <<lock, wAt, wReq>>
      OBVIOUS
    <3>2. \A d \in Conns : operational[d] => operational'[d]
      BY <2>1, <2>2
    <3> QED
      BY <3>1, <3>2 DEF IInv, LockInv, Handling
  <2> QED
    BY <2>3, <2>4, <2>5, <2>6, <2>7, <2>8 DEF IInv
<1>3. CASE Refuse(c)
  <2>1. \A d \in Conns \ {c} : conn'[d] = conn[d]
    BY <1>3 DEF IInv, TypeOK, Refuse
  <2>2. conn'[c] = "dropped" /\ c \notin listener'
    BY <1>1, <1>3 DEF IInv, TypeOK, SessionInv, Refuse
  <2>3. TypeOK'
    BY <1>3 DEF IInv, TypeOK, Refuse
  <2>4. SessionInv'
    BY <1>1, <1>3, <2>1, <2>2 DEF IInv, SessionInv, Refuse
  <2>5. ListInv' /\ RemovalInv' /\ CallbackInv' /\ LockInv'
    BY <1>1, <1>3, <2>1 DEF IInv, TypeOK, ListInv, RemovalInv, CallbackInv, LockInv, Handling, Refuse
  <2> QED
    BY <2>3, <2>4, <2>5 DEF IInv
<1> QED
  BY <1>2, <1>3 DEF Established

(* RECEIVE only queues a request. *)
LEMMA ReceiveStep == ASSUME IInv, NEW c \in Conns, Receive(c) PROVE IInv'
<1>1. TypeOK'
  BY DEF IInv, TypeOK, Receive
<1>2. SessionInv' /\ ListInv' /\ RemovalInv' /\ CallbackInv' /\ LockInv'
  BY DEF IInv, SessionInv, ListInv, RemovalInv, CallbackInv, LockInv, Registered, Handling, Receive
<1> QED
  BY <1>1, <1>2 DEF IInv

(* A failed write drops a connection that is operational and stays so. *)
LEMMA WriteableStep == ASSUME IInv, NEW c \in Conns, Writeable(c) PROVE IInv'
<1> USE DEF Writeable, Registered
<1>1. operational[c] /\ c \notin removals /\ wsConn # c
  BY DEF IInv, TypeOK, SessionInv, RemovalInv, CallbackInv
<1>2. \A d \in Conns \ {c} : conn'[d] = conn[d]
  BY DEF IInv, TypeOK
<1>3. conn'[c] \in {"open", "dropped"}
  BY DEF IInv, TypeOK
<1>4. TypeOK'
  <2>1. conn' \in [Conns -> ConnStates]
    BY DEF IInv, TypeOK
  <2>2. wake' \in BOOLEAN
    BY Zenon DEF IInv, TypeOK
  <2> QED
    BY <2>1, <2>2 DEF IInv, TypeOK
<1>5. SessionInv'
  BY <1>1, <1>2, <1>3 DEF IInv, SessionInv
<1>6. RemovalInv' /\ CallbackInv'
  BY <1>1, <1>2 DEF IInv, TypeOK, RemovalInv, CallbackInv
<1>7. ListInv' /\ LockInv'
  BY DEF IInv, ListInv, LockInv, Handling
<1> QED
  BY <1>4, <1>5, <1>6, <1>7 DEF IInv

(* EVENT_WAIT_CANCELLED only asks for callbacks. *)
LEMMA WaitCancelledStep == ASSUME IInv, WaitCancelled PROVE IInv'
<1>1. TypeOK'
  BY DEF IInv, TypeOK, WaitCancelled
<1>2. SessionInv' /\ ListInv' /\ RemovalInv' /\ CallbackInv' /\ LockInv'
  BY DEF IInv, SessionInv, ListInv, RemovalInv, CallbackInv, LockInv, Registered, Handling, WaitCancelled
<1> QED
  BY <1>1, <1>2 DEF IInv

(* CLOSED starts the notification exactly for the operational sessions. *)
LEMMA ClosedStep == ASSUME IInv, NEW c \in Conns, Closed(c) \/ CloseDropped(c) PROVE IInv'
<1> USE DEF Closed, CloseDropped, Close, Registered
<1>1. operational[c] <=> c \in listener
  BY DEF IInv, TypeOK, SessionInv
<1>2. TypeOK'
  BY DEF IInv, TypeOK
<1>3. SessionInv'
  BY <1>1 DEF IInv, TypeOK, SessionInv, CallbackInv
<1>4. RemovalInv'
  <2>1. c \notin removals
    BY DEF IInv, RemovalInv
  <2>2. Registered(c) => operational[c]
    BY DEF IInv, RemovalInv
  <2>3. conn'[c] = "closed" /\ \A d \in Conns \ {c} : conn'[d] = conn[d]
    BY DEF IInv, TypeOK
  <2> QED
    BY <1>1, <2>1, <2>2, <2>3 DEF IInv, RemovalInv, CallbackInv
<1>5. CallbackInv'
  BY <1>1 DEF IInv, TypeOK, CallbackInv
<1>6. ListInv' /\ LockInv'
  BY DEF IInv, ListInv, LockInv, Handling
<1> QED
  BY <1>2, <1>3, <1>4, <1>5, <1>6 DEF IInv

LEMMA WsiDestroyStep == ASSUME IInv, NEW c \in Conns, WsiDestroy(c) PROVE IInv'
<1> USE DEF WsiDestroy, Registered
<1>1. TypeOK'
  BY DEF IInv, TypeOK
<1>2. SessionInv'
  BY DEF IInv, TypeOK, SessionInv
<1>3. RemovalInv' /\ CallbackInv'
  BY DEF IInv, TypeOK, RemovalInv, CallbackInv
<1>4. ListInv' /\ LockInv'
  BY DEF IInv, ListInv, LockInv, Handling
<1> QED
  BY <1>1, <1>2, <1>3, <1>4 DEF IInv

(* The CLOSED callback has the lock of the session, so that no thread is in  *)
(* its handler when it stops being operational.                              *)
LEMMA QuiesceStep == ASSUME IInv, Quiesce PROVE IInv'
<1> USE DEF Quiesce, Registered
<1>1. wsConn \in Conns /\ operational[wsConn] /\ Registered(wsConn) /\ wsConn \notin removals
  BY DEF IInv, TypeOK, CallbackInv, SessionInv, RemovalInv
<1>2. TypeOK'
  BY DEF IInv, TypeOK
<1>3. SessionInv'
  BY <1>1 DEF IInv, TypeOK, SessionInv, CallbackInv
<1>4. RemovalInv' /\ CallbackInv'
  BY <1>1 DEF IInv, TypeOK, RemovalInv, CallbackInv
<1>5. LockInv'
  BY <1>1 DEF IInv, TypeOK, LockInv, Handling
<1>6. ListInv'
  BY DEF IInv, ListInv
<1> QED
  BY <1>2, <1>3, <1>4, <1>5, <1>6 DEF IInv

LEMMA NotifyStep == ASSUME IInv, Notify PROVE IInv'
<1> USE DEF Notify, Registered
<1>1. wsConn \in Conns /\ ~operational[wsConn] /\ Registered(wsConn)
  BY DEF IInv, TypeOK, CallbackInv
<1>2. TypeOK'
  BY <1>1 DEF IInv, TypeOK
<1>3. SessionInv'
  BY <1>1 DEF IInv, SessionInv
<1>4. RemovalInv' /\ CallbackInv'
  BY <1>1 DEF IInv, TypeOK, RemovalInv, CallbackInv
<1>5. ListInv' /\ LockInv'
  BY DEF IInv, ListInv, LockInv, Handling
<1> QED
  BY <1>2, <1>3, <1>4, <1>5 DEF IInv

-----------------------------------------------------------------------------
(* Destroying sessions that are no longer operational changes nothing but    *)
(* what they had left to send.                                               *)
LEMMA DestroyClosed ==
  ASSUME IInv, NEW S \in SUBSET Conns, \A c \in S : ~operational[c], DestroyClients(S)
  PROVE  /\ conn' = conn /\ listener' = listener /\ operational' = operational
         /\ unsent' \subseteq Conns /\ wake' = wake
<1>1. \A c \in S : conn[c] # "open"
  BY DEF IInv, SessionInv
<1> QED
  BY <1>1 DEF DestroyClients, IInv, TypeOK

LEMMA RemovalLockStep == ASSUME IInv, NEW c \in Conns, RemovalLock(c) PROVE IInv'
<1> USE DEF RemovalLock
<1>1. TypeOK'
  BY DEF IInv, TypeOK
<1>2. SessionInv' /\ ListInv' /\ RemovalInv' /\ CallbackInv' /\ LockInv'
  BY DEF IInv, SessionInv, ListInv, RemovalInv, CallbackInv, LockInv, Registered, Handling
<1> QED
  BY <1>1, <1>2 DEF IInv

(* The thread that session c started erases session c. *)
LEMMA RemovalEraseStep == ASSUME IInv, NEW c \in Conns, RemovalErase(c) PROVE IInv'
<1> DEFINE s == StationOf[c]
           gone == Unreferenced({registry[s]}, registry', held)
<1>1. /\ s \in Stations
      /\ c \in removals /\ registry[s] = c /\ ~operational[c] /\ wsConn # c
  BY DEF RemovalErase, IInv, TypeOK, RemovalInv, CallbackInv, ListInv, Registered
<1>2. gone \in SUBSET Conns /\ \A d \in gone : ~operational[d]
  BY <1>1 DEF Unreferenced
<1>3. DestroyClients(gone)
  BY DEF RemovalErase
<1>4. /\ conn' = conn /\ listener' = listener /\ operational' = operational
      /\ unsent' \subseteq Conns /\ wake' = wake
  BY <1>2, <1>3, DestroyClosed
<1>5. /\ \A d \in Conns \ {c} : Registered(d)' <=> Registered(d)
      /\ ~Registered(c)'
  BY <1>1 DEF RemovalErase, Registered, IInv, TypeOK
<1>6. UNCHANGED <<writable, wsAt, wsConn, lock, queue, sent, wAt, wReq, held, calling>> /\ mutex' = NoConn
  BY DEF RemovalErase
<1>7. TypeOK'
  BY <1>4, <1>6 DEF RemovalErase, IInv, TypeOK
<1>8. SessionInv'
  BY <1>1, <1>4, <1>5, <1>6 DEF IInv, SessionInv
<1>9. ListInv'
  BY <1>1 DEF RemovalErase, IInv, TypeOK, ListInv
<1>10. RemovalInv'
  BY <1>1, <1>4, <1>5, <1>6 DEF RemovalErase, IInv, RemovalInv
<1>11. CallbackInv'
  BY <1>1, <1>4, <1>5, <1>6 DEF RemovalErase, IInv, TypeOK, CallbackInv
<1>12. LockInv'
  BY <1>4, <1>6 DEF IInv, LockInv, Handling
<1> QED
  BY <1>7, <1>8, <1>9, <1>10, <1>11, <1>12 DEF IInv

-----------------------------------------------------------------------------
(* The steps of a pool thread change no session and no list. *)
LEMMA PopStep == ASSUME IInv, NEW w \in Workers, Pop(w) PROVE IInv'
<1> USE DEF Pop
<1>1. Head(queue) \in Conns /\ Tail(queue) \in Seq(Conns)
  <2>1. queue \in Seq(Conns) /\ queue # <<>>
    BY DEF IInv, TypeOK
  <2> QED
    BY <2>1
<1>2. wReq'[w] \in Conns /\ \A v \in Workers \ {w} : wReq'[v] = wReq[v] /\ wAt'[v] = wAt[v]
  BY <1>1 DEF IInv, TypeOK
<1>3. wReq' \in [Workers -> MaybeConn]
  BY <1>1 DEF IInv, TypeOK
<1>4. TypeOK'
  BY <1>1, <1>3 DEF IInv, TypeOK
<1>5. LockInv'
  BY <1>2 DEF IInv, TypeOK, LockInv, Handling
<1>6. SessionInv' /\ ListInv' /\ RemovalInv' /\ CallbackInv'
  BY DEF IInv, SessionInv, ListInv, RemovalInv, CallbackInv, Registered
<1> QED
  BY <1>4, <1>5, <1>6 DEF IInv

LEMMA LockOwnerStep == ASSUME IInv, NEW w \in Workers, LockOwner(w) PROVE IInv'
<1> USE DEF LockOwner
<1>1. wReq[w] \in Conns
  BY DEF IInv, LockInv
<1>2. TypeOK'
  <2>1. lock' \in [Conns -> Workers \cup {Unlocked}]
    BY <1>1 DEF IInv, TypeOK
  <2>2. wAt' \in [Workers -> {"pop", "lock", "handle"}]
    BY DEF IInv, TypeOK
  <2> QED
    BY <2>1, <2>2 DEF IInv, TypeOK
<1>3. LockInv'
  BY <1>1 DEF IInv, TypeOK, LockInv, Handling
<1>4. SessionInv' /\ ListInv' /\ RemovalInv' /\ CallbackInv'
  BY DEF IInv, SessionInv, ListInv, RemovalInv, CallbackInv, Registered
<1> QED
  BY <1>2, <1>3, <1>4 DEF IInv

LEMMA RespondStep == ASSUME IInv, NEW w \in Workers, Respond(w) PROVE IInv'
<1> USE DEF Respond
<1>1. wReq[w] \in Conns
  BY DEF IInv, LockInv
<1>2. TypeOK'
  BY <1>1 DEF IInv, TypeOK
<1>3. LockInv'
  BY <1>1 DEF IInv, TypeOK, LockInv, Handling
<1>4. SessionInv' /\ ListInv' /\ RemovalInv' /\ CallbackInv'
  BY DEF IInv, SessionInv, ListInv, RemovalInv, CallbackInv, Registered
<1> QED
  BY <1>2, <1>3, <1>4 DEF IInv

-----------------------------------------------------------------------------
(* The operator threads. *)
LEMMA SnapshotStep == ASSUME IInv, NEW o \in Operators, Snapshot(o) \/ SendCall(o) PROVE IInv'
<1> USE DEF Snapshot, SendCall
<1>1. TypeOK'
  <2>1. CASE Snapshot(o)
    <3>1. held' \in [Operators -> SUBSET Conns]
      BY <2>1 DEF IInv, TypeOK, Listed
    <3> QED
      BY <2>1, <3>1 DEF IInv, TypeOK
  <2>2. CASE SendCall(o)
    BY <2>2 DEF IInv, TypeOK
  <2> QED
    BY <2>1, <2>2
<1>2. SessionInv' /\ ListInv' /\ RemovalInv' /\ CallbackInv' /\ LockInv'
  BY DEF IInv, SessionInv, ListInv, RemovalInv, CallbackInv, LockInv, Registered, Handling
<1> QED
  BY <1>1, <1>2 DEF IInv

(* A session that only an operator still refers to has left the list, hence  *)
(* is not operational.                                                       *)
LEMMA KeepEffect ==
  ASSUME IInv, NEW o \in Operators, NEW S \in SUBSET Conns, Keep(o, S)
  PROVE  /\ conn' = conn /\ listener' = listener /\ operational' = operational
         /\ unsent' \subseteq Conns /\ wake' = wake
<1> DEFINE gone == Unreferenced(held[o] \ S, registry, held')
<1>1. gone \in SUBSET Conns
  BY DEF Unreferenced, IInv, TypeOK
<1>2. \A c \in gone : ~operational[c]
  BY DEF Unreferenced, IInv, TypeOK, SessionInv, Registered
<1>3. DestroyClients(gone)
  BY DEF Keep
<1> QED
  BY <1>1, <1>2, <1>3, DestroyClosed

LEMMA KeepStep ==
  ASSUME IInv, NEW o \in Operators, NEW S \in SUBSET Conns, Keep(o, S), calling' \subseteq Operators
  PROVE  IInv'
<1>1. /\ conn' = conn /\ listener' = listener /\ operational' = operational
      /\ unsent' \subseteq Conns /\ wake' = wake
  BY KeepEffect
<1>2. TypeOK'
  BY <1>1 DEF Keep, IInv, TypeOK
<1>3. SessionInv' /\ ListInv' /\ RemovalInv' /\ CallbackInv' /\ LockInv'
  BY <1>1 DEF Keep, IInv, SessionInv, ListInv, RemovalInv, CallbackInv, LockInv, Registered, Handling
<1> QED
  BY <1>2, <1>3 DEF IInv

(* A call and the return from one keep some sessions and release the others. *)
LEMMA Keeps ==
  ASSUME IInv, NEW o \in Operators, Find(o) \/ Return(o)
  PROVE  calling' \subseteq Operators /\ \E S \in SUBSET Conns : Keep(o, S)
<1>1. CASE Find(o)
  <2>1. PICK c \in held[o] : Keep(o, {c})
    BY <1>1 DEF Find
  <2>2. {c} \in SUBSET Conns
    BY DEF IInv, TypeOK
  <2> QED
    BY <1>1, <2>1, <2>2 DEF Find, IInv, TypeOK
<1>2. CASE Return(o)
  BY <1>2 DEF Return, IInv, TypeOK
<1> QED
  BY <1>1, <1>2

-----------------------------------------------------------------------------
LEMMA NextInv == IInv /\ [Next]_vars => IInv'
<1> SUFFICES ASSUME IInv, [Next]_vars PROVE IInv'
  OBVIOUS
<1>1. CASE WsThread
  BY <1>1, EstablishedStep, ReceiveStep, WriteableStep, ClosedStep, WsiDestroyStep,
     WaitCancelledStep, QuiesceStep, NotifyStep DEF WsThread
<1>2. CASE Removal
  BY <1>2, RemovalLockStep, RemovalEraseStep DEF Removal
<1>3. CASE Pool
  BY <1>3, PopStep, LockOwnerStep, RespondStep DEF Pool
<1>4. CASE Manager
  BY <1>4, SnapshotStep, Keeps, KeepStep DEF Manager
<1>5. CASE UNCHANGED vars
  BY <1>5 DEF vars, IInv, TypeOK, SessionInv, ListInv, RemovalInv, CallbackInv, LockInv,
              Registered, Handling
<1> QED
  BY <1>1, <1>2, <1>3, <1>4, <1>5 DEF Next

LEMMA Invariance == Spec => []IInv
<1> QED
  BY InitInv, NextInv, PTL DEF Spec

-----------------------------------------------------------------------------
(* Theorems *)

(* Every variable of the sessions keeps its type, whatever the stations, the *)
(* pool threads and the operators do.                                        *)
THEOREM TypeCorrect == Spec => []TypeOK
<1> QED
  BY Invariance, PTL DEF IInv

(* removeChargePoint: the removal that is on its way for a station will find *)
(* in the list the session whose disconnection started it.                   *)
THEOREM RemovalsMatch == Spec => []RemovalsMatchList
<1>1. IInv => RemovalsMatchList
  BY DEF IInv, TypeOK, RemovalInv, RemovalsMatchList
<1> QED
  BY <1>1, Invariance, PTL

(* removeChargePoint: the thread that destroys a session under               *)
(* m_chargepoints_mutex never waits for a request of that session.           *)
THEOREM RemovalsNeverWait == Spec => []RemovalNeverWaits
<1>1. IInv => RemovalNeverWaits
  BY DEF IInv, TypeOK, RemovalInv, LockInv, Registered, RemovalNeverWaits
<1> QED
  BY <1>1, Invariance, PTL

(* RpcPool: no request is processed, and no response sent, for a session     *)
(* that has left the list or whose socket is freed.                          *)
THEOREM HandlersSafe == Spec => []HandlerSafe
<1>1. IInv => HandlerSafe
  BY DEF IInv, TypeOK, SessionInv, LockInv, HandlerSafe
<1> QED
  BY <1>1, Invariance, PTL

(* wsClientDisconnected: the session and the handler it notifies exist. *)
THEOREM CallbacksSafe == Spec => []CallbackSafe
<1>1. IInv => CallbackSafe
  BY DEF IInv, TypeOK, CallbackInv, SessionInv, CallbackSafe
<1> QED
  BY <1>1, Invariance, PTL

(* chargePointConnected refuses a station that is in the list: no session    *)
(* stays in it after its connection is closed without a removal ahead.       *)
THEOREM NoDeadEntries == Spec => []NoDeadEntry
<1>1. IInv => NoDeadEntry
  BY DEF IInv, TypeOK, SessionInv, RemovalInv, CallbackInv, NoDeadEntry
<1> QED
  BY <1>1, Invariance, PTL

-----------------------------------------------------------------------------
(* The only steps that change the list of connected charge points. *)
LEMMA RegistryChanges ==
  ASSUME IInv, [Next]_vars, registry' # registry
  PROVE  \/ \E c \in Conns : /\ conn[c] = "none"
                             /\ registry[StationOf[c]] = NoConn
                             /\ registry' = [registry EXCEPT ![StationOf[c]] = c]
                             /\ conn' = [conn EXCEPT ![c] = "open"]
         \/ \E s \in Stations : /\ registry[s] # NoConn
                                /\ conn[registry[s]] \in {"closed", "freed"}
                                /\ ~operational[registry[s]]
                                /\ registry' = [registry EXCEPT ![s] = NoConn]
                                /\ conn' = conn
<1>1. CASE \E c \in Conns : Established(c)
  BY <1>1 DEF Established, Register, Refuse
<1>2. ASSUME NEW c \in Conns, RemovalErase(c)
      PROVE /\ registry[StationOf[c]] = c
            /\ conn[c] \in {"closed", "freed"} /\ ~operational[c]
            /\ registry' = [registry EXCEPT ![StationOf[c]] = NoConn]
            /\ conn' = conn
  <2> DEFINE s == StationOf[c]
             gone == Unreferenced({registry[s]}, registry', held)
  <2>1. registry[s] = c /\ ~operational[c] /\ c \in removals
    BY <1>2 DEF RemovalErase, IInv, TypeOK, RemovalInv, ListInv, Registered
  <2>2. DestroyClients(gone)
    BY <1>2 DEF RemovalErase
  <2>3. conn' = conn
    BY <2>1, <2>2, DestroyClosed DEF Unreferenced
  <2> QED
    BY <1>2, <2>1, <2>3 DEF RemovalErase, IInv, RemovalInv
<1>3. CASE \E c \in Conns : RemovalErase(c)
  <2>1. PICK c \in Conns : RemovalErase(c)
    BY <1>3
  <2>2. StationOf[c] \in Stations
    OBVIOUS
  <2> QED
    BY <1>2, <2>1, <2>2
<1>4. ASSUME ~\E c \in Conns : Established(c) \/ RemovalErase(c)
      PROVE FALSE
  BY <1>4 DEF Next, vars, WsThread, Removal, Pool, Manager, Receive, Writeable, Closed,
              CloseDropped, Close, WaitCancelled, Quiesce, Notify, WsiDestroy, RemovalLock,
              Pop, LockOwner, Respond, Snapshot, Find, SendCall, Return, Keep
<1> QED
  BY <1>1, <1>3, <1>4

(* removeChargePoint and chargePointConnected: the list forgets a session    *)
(* only when it is over, and never overwrites one.                           *)
THEOREM LiveErasure == Spec => NoLiveErasure
<1>1. IInv /\ [Next]_vars =>
        [\A s \in Stations :
          registry[s] # NoConn /\ registry'[s] # registry[s]
          => /\ registry'[s] = NoConn
             /\ conn[registry[s]] \in {"closed", "freed"}
             /\ ~operational[registry[s]]]_vars
  BY RegistryChanges DEF IInv, TypeOK, vars
<1> QED
  BY <1>1, Invariance, PTL DEF Spec, NoLiveErasure

-----------------------------------------------------------------------------
(* Implementation of StationRegistry. *)

(* The steps that leave the list alone move one connection at most. *)
LEMMA ConnChanges ==
  ASSUME IInv, [Next]_vars, registry' = registry
  PROVE  \/ conn' = conn
         \/ \E c \in Conns, x \in {"dropped", "closed", "freed"} :
               /\ conn' = [conn EXCEPT ![c] = x]
               /\ \/ conn[c] = "none" /\ registry[StationOf[c]] # NoConn
                  \/ conn[c] \in {"open", "dropped", "closed"}
<1>1. ASSUME NEW c \in Conns, Established(c) PROVE Refuse(c) /\ conn[c] = "none"
  BY <1>1 DEF Established, Register, IInv, TypeOK
<1>2. CASE \E c \in Conns : Established(c)
  BY <1>1, <1>2 DEF Refuse
<1>3. CASE \E c \in Conns : Writeable(c) \/ Closed(c) \/ CloseDropped(c) \/ WsiDestroy(c)
  BY <1>3 DEF Writeable, Closed, CloseDropped, Close, WsiDestroy
<1>4. CASE \E c \in Conns : RemovalErase(c)
  <2>1. PICK c \in Conns : RemovalErase(c)
    BY <1>4
  <2>2. registry[StationOf[c]] = c /\ StationOf[c] \in Stations
    BY <2>1 DEF RemovalErase, IInv, RemovalInv, Registered
  <2>3. registry'[StationOf[c]] = NoConn
    BY <2>1, <2>2 DEF RemovalErase, IInv, TypeOK
  <2> QED
    BY <2>2, <2>3
<1>5. CASE \E o \in Operators : Find(o) \/ Return(o)
  BY <1>5, Keeps, KeepEffect
<1>6. ASSUME ~\E c \in Conns : Established(c) \/ Writeable(c) \/ Closed(c) \/ CloseDropped(c)
                               \/ WsiDestroy(c) \/ RemovalErase(c),
             ~\E o \in Operators : Find(o) \/ Return(o)
      PROVE conn' = conn
  BY <1>6 DEF Next, vars, WsThread, Removal, Pool, Manager, Receive, WaitCancelled, Quiesce,
              Notify, RemovalLock, Pop, LockOwner, Respond, Snapshot, SendCall
<1> QED
  BY <1>2, <1>3, <1>4, <1>5, <1>6

LEMMA LifeOf ==
  ASSUME TypeOK, NEW c \in Conns
  PROVE  /\ Life[c] = IF conn[c] = "none" THEN "new" ELSE IF conn[c] = "open" THEN "up" ELSE "over"
BY DEF TypeOK, Life

LEMMA LifeUpdate ==
  ASSUME TypeOK, NEW c \in Conns, NEW x \in ConnStates, conn' = [conn EXCEPT ![c] = x]
  PROVE  Life' = [Life EXCEPT ![c] = IF x = "none" THEN "new" ELSE IF x = "open" THEN "up" ELSE "over"]
BY DEF TypeOK, Life

(* The registration and the refusal of a session, its end and the removal of *)
(* a station are the steps of the abstract list; every other step of the     *)
(* threads leaves the list and the life of the sessions alone.               *)
THEOREM Implementation == Spec => RegistrySpec
<1>1. Init => Abs!Init
  BY DEF Init, Abs!Init, Life
<1>2. ASSUME IInv, [Next]_vars PROVE [Abs!Next]_Abs!vars
  <2> USE DEF Abs!vars
  <2>1. TypeOK
    BY <1>2 DEF IInv
  <2>2. CASE registry' # registry
    <3>1. CASE \E c \in Conns : /\ conn[c] = "none"
                                /\ registry[StationOf[c]] = NoConn
                                /\ registry' = [registry EXCEPT ![StationOf[c]] = c]
                                /\ conn' = [conn EXCEPT ![c] = "open"]
      <4>1. PICK c \in Conns : /\ conn[c] = "none"
                               /\ registry[StationOf[c]] = NoConn
                               /\ registry' = [registry EXCEPT ![StationOf[c]] = c]
                               /\ conn' = [conn EXCEPT ![c] = "open"]
        BY <3>1
      <4>2. Life[c] = "new" /\ Life' = [Life EXCEPT ![c] = "up"]
        BY <2>1, <4>1, LifeOf, LifeUpdate
      <4>3. Abs!Admit(c)
        BY <4>1, <4>2 DEF Abs!Admit
      <4> QED
        BY <4>3 DEF Abs!Next
    <3>2. CASE \E s \in Stations : /\ registry[s] # NoConn
                                   /\ conn[registry[s]] \in {"closed", "freed"}
                                   /\ ~operational[registry[s]]
                                   /\ registry' = [registry EXCEPT ![s] = NoConn]
                                   /\ conn' = conn
      <4>1. PICK s \in Stations : /\ registry[s] # NoConn
                                  /\ conn[registry[s]] \in {"closed", "freed"}
                                  /\ registry' = [registry EXCEPT ![s] = NoConn]
                                  /\ conn' = conn
        BY <3>2
      <4>2. registry[s] \in Conns
        BY <2>1, <4>1 DEF TypeOK
      <4>3. Life[registry[s]] = "over" /\ Life' = Life
        BY <2>1, <4>1, <4>2, LifeOf DEF Life
      <4>4. Abs!Release(s)
        BY <4>1, <4>3 DEF Abs!Release
      <4> QED
        BY <4>4 DEF Abs!Next
    <3> QED
      BY <1>2, <2>2, <3>1, <3>2, RegistryChanges
  <2>3. CASE registry' = registry /\ conn' = conn
    BY <2>3 DEF Life
  <2>4. CASE registry' = registry /\ conn' # conn
    <3>1. PICK c \in Conns, x \in {"dropped", "closed", "freed"} :
             /\ conn' = [conn EXCEPT ![c] = x]
             /\ \/ conn[c] = "none" /\ registry[StationOf[c]] # NoConn
                \/ conn[c] \in {"open", "dropped", "closed"}
      BY <1>2, <2>4, ConnChanges
    <3>2. Life' = [Life EXCEPT ![c] = "over"]
      BY <2>1, <3>1, LifeUpdate
    <3>3. CASE conn[c] = "none"
      <4>1. Life[c] = "new"
        BY <2>1, <3>3, LifeOf
      <4>2. Abs!Refuse(c)
        BY <2>4, <3>1, <3>2, <3>3, <4>1 DEF Abs!Refuse
      <4> QED
        BY <4>2 DEF Abs!Next
    <3>4. CASE conn[c] = "open"
      <4>1. Life[c] = "up"
        BY <2>1, <3>4, LifeOf
      <4>2. Abs!End(c)
        BY <2>4, <3>2, <4>1 DEF Abs!End
      <4> QED
        BY <4>2 DEF Abs!Next
    <3>5. CASE conn[c] \in {"dropped", "closed"}
      <4>1. Life[c] = "over"
        BY <2>1, <3>5, LifeOf
      <4>2. Life' = Life
        BY <3>2, <4>1 DEF Life
      <4> QED
        BY <2>4, <4>2
    <3> QED
      BY <3>1, <3>3, <3>4, <3>5
  <2> QED
    BY <2>2, <2>3, <2>4
<1> QED
  BY <1>1, <1>2, Invariance, PTL DEF Spec, RegistrySpec, Abs!Spec
=============================================================================
