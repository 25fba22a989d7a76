------------------------- MODULE ChargePointSessions -------------------------
(***************************************************************************)
(* The sessions of the charge points on the OCPP side of the server: the    *)
(* websocket server thread (LibWebsocketServer), the RPC session it creates *)
(* for each connection (RpcServer::Client / RpcBase), the pool of threads   *)
(* that process incoming requests (RpcPool), the list of connected charge   *)
(* points (DefaultCentralSystemEventsHandler) with its detached removal     *)
(* threads, and the threads that look a station up to send it a request     *)
(* (OcppManager).                                                           *)
(*                                                                          *)
(* Objects are destroyed where the last shared_ptr to them is dropped.      *)
(***************************************************************************)
EXTENDS Naturals, Sequences, FiniteSets

CONSTANTS
    Stations,     \* charge point identifiers (last component of the URI)
    Conns,        \* websocket connections; each one is opened at most once
    Workers,      \* threads of the RPC pool
    Operators,    \* threads calling OcppManager (the web server's is one)
    NoConn,       \* no connection (a null pointer, an absent map entry)
    Unlocked,     \* the value of a mutex that no thread holds
    StationOf,    \* StationOf[c]: the identifier in the URI of connection c
    MaxReq        \* bound on the requests a station sends on one connection

ASSUME StationOfAssumption == StationOf \in [Conns -> Stations]
ASSUME NoConnAssumption    == NoConn \notin Conns
ASSUME UnlockedAssumption  == Unlocked \notin Workers
ASSUME MaxReqAssumption    == MaxReq \in Nat

VARIABLES
    conn,         \* LibWebsocketServer::Client of each connection, see ConnStates
    listener,     \* connections whose Client::m_listener is set
    unsent,       \* connections with messages in Client::m_send_msgs
    wake,         \* lws_cancel_service_pt has been called since the last event
    writable,     \* connections whose WRITEABLE callback has been asked for
    wsAt,         \* what the websocket server thread is doing
    wsConn,       \* the connection its CLOSED callback is about
    operational,  \* RpcMessageOwner::is_operational of each session
    lock,         \* RpcMessageOwner::lock of each session
    registry,     \* m_chargepoints
    mutex,        \* m_chargepoints_mutex, when held over several steps
    removals,     \* sessions whose delayed removal has not run yet
    queue,        \* the sessions whose requests are in the queue of the pool
    sent,         \* number of requests received on each connection
    wAt,          \* what each pool thread is doing
    wReq,         \* the session of the request each pool thread has popped
    held,         \* the sessions each operator thread keeps alive
    calling       \* the operator threads that have found a station to call

wsVars     == <<conn, listener, unsent, wake, writable, wsAt, wsConn>>
rpcVars    == <<operational, lock>>
regVars    == <<registry, mutex, removals>>
poolVars   == <<queue, sent, wAt, wReq>>
opVars     == <<held, calling>>
vars       == <<wsVars, rpcVars, regVars, poolVars, opVars>>

(* "none": not connected yet; "open": m_connected; "dropped": m_connected    *)
(* cleared by the server, which has still to close the socket; "closed": the *)
(* CLOSED callback has run; "freed": WSI_DESTROY has freed the socket.       *)
ConnStates == {"none", "open", "dropped", "closed", "freed"}

MaybeConn == Conns \cup {NoConn}

-----------------------------------------------------------------------------

Init ==
    /\ conn = [c \in Conns |-> "none"]
    /\ listener = {}
    /\ unsent = {}
    /\ wake = FALSE /\ writable = {}
    /\ wsAt = "service" /\ wsConn = NoConn
    /\ operational = [c \in Conns |-> FALSE]
    /\ lock = [c \in Conns |-> Unlocked]
    /\ registry = [s \in Stations |-> NoConn]
    /\ mutex = NoConn
    /\ removals = {}
    /\ queue = <<>>
    /\ sent = [c \in Conns |-> 0]
    /\ wAt = [w \in Workers |-> "pop"]
    /\ wReq = [w \in Workers |-> NoConn]
    /\ held = [o \in Operators |-> {}] /\ calling = {}

-----------------------------------------------------------------------------
(* Destruction of the RPC sessions of a set S of connections: disconnect     *)
(* without notification, which wakes the websocket thread for the sockets    *)
(* that were connected, then RpcBase::stop, which takes the owner's lock.    *)

DestroyClients(S) ==
    /\ \A c \in S : lock[c] = Unlocked
    /\ conn' = [c \in Conns |-> IF c \in S /\ conn[c] = "open" THEN "dropped" ELSE conn[c]]
    /\ listener' = listener \ {c \in S : conn[c] = "open"}
    /\ unsent' = unsent \ S
    /\ wake' = (wake \/ \E c \in S : conn[c] = "open")
    /\ operational' = [c \in Conns |-> operational[c] /\ c \notin S]

Registered(c) == registry[StationOf[c]] = c

(* Sessions of S that neither the charge point list nor an operator, but the *)
(* ones about to be dropped, refers to.                                      *)
Unreferenced(S, reg, hold) ==
    {c \in S : /\ \A s \in Stations : reg[s] # c
               /\ \A o \in Operators : c \notin hold[o]}

-----------------------------------------------------------------------------
(* The websocket server thread. *)

(* Mutant: a new session takes the place of the one in the list. *)
RegisterOverwrites(c) ==
    /\ conn' = [conn EXCEPT ![c] = "open"]
    /\ listener' = listener \cup {c}
    /\ operational' = [operational EXCEPT ![c] = TRUE]
    /\ registry' = [registry EXCEPT ![StationOf[c]] = c]
    /\ UNCHANGED wake

(* Mutant: the refused session stays the listener of its connection. *)
RefuseKeepsListener(c) ==
    /\ registry[StationOf[c]] # NoConn
    /\ conn' = [conn EXCEPT ![c] = "dropped"]
    /\ wake' = TRUE
    /\ listener' = listener \cup {c}
    /\ UNCHANGED <<operational, registry>>

(* LWS_CALLBACK_ESTABLISHED for a station that is not in the list: the       *)
(* session is created, started and registered.                               *)
Register(c) ==
    /\ registry[StationOf[c]] = NoConn
    /\ conn' = [conn EXCEPT ![c] = "open"]
    /\ listener' = listener \cup {c}
    /\ operational' = [operational EXCEPT ![c] = TRUE]
    /\ registry' = [registry EXCEPT ![StationOf[c]] = c]
    /\ UNCHANGED wake

(* ... and for one that is already connected: the proxy is dropped, and the  *)
(* session it owns is destroyed before the callback returns.                 *)
Refuse(c) ==
    /\ registry[StationOf[c]] # NoConn
    /\ conn' = [conn EXCEPT ![c] = "dropped"]
    /\ wake' = TRUE
    /\ UNCHANGED <<listener, operational, registry>>

Established(c) ==
    /\ wsAt = "service"
    /\ conn[c] = "none"
    /\ mutex = NoConn
    /\ Register(c) \/ Refuse(c)
    /\ UNCHANGED <<unsent, writable, wsAt, wsConn, lock, mutex, removals, poolVars, opVars>>

(* LWS_CALLBACK_RECEIVE of a CALL: it goes to the queue of the pool. The     *)
(* callback looks at the listener, not at m_connected.                       *)
Receive(c) ==
    /\ wsAt = "service"
    /\ conn[c] \in {"open", "dropped"}
    /\ c \in listener
    /\ sent[c] < MaxReq
    /\ sent' = [sent EXCEPT ![c] = @ + 1]
    /\ queue' = Append(queue, c)
    /\ UNCHANGED <<wsVars, rpcVars, regVars, wAt, wReq, opVars>>

(* Mutant: only the connections with messages are looked at. *)
WaitCancelledForMessages ==
    /\ wsAt = "service"
    /\ wake
    /\ wake' = FALSE
    /\ writable' = writable \cup {c \in unsent : conn[c] = "open"}
    /\ UNCHANGED <<conn, listener, unsent, wsAt, wsConn, rpcVars, regVars, poolVars, opVars>>

(* LWS_CALLBACK_EVENT_WAIT_CANCELLED: the thread was woken by a send or by a  *)
(* disconnection; it asks for the WRITEABLE callback of every connection     *)
(* that has messages to send or is to be closed.                             *)
WaitCancelled ==
    /\ wsAt = "service"
    /\ wake
    /\ wake' = FALSE
    /\ writable' = writable \cup {c \in Conns : \/ conn[c] = "dropped"
                                                \/ conn[c] = "open" /\ c \in unsent}
    /\ UNCHANGED <<conn, listener, unsent, wsAt, wsConn, rpcVars, regVars, poolVars, opVars>>

(* LWS_CALLBACK_SERVER_WRITEABLE of a connection that is up: all its messages *)
(* are written, or a write fails and the server drops the connection,        *)
(* keeping the listener so that the disconnection is notified.               *)
Writeable(c) ==
    /\ wsAt = "service"
    /\ c \in writable
    /\ conn[c] = "open"
    /\ writable' = writable \ {c}
    /\ unsent' = unsent \ {c}
    /\ \/ UNCHANGED <<conn, wake>>
       \/ /\ c \in unsent
          /\ conn' = [conn EXCEPT ![c] = "dropped"]
          /\ wake' = TRUE
    /\ UNCHANGED <<listener, wsAt, wsConn, rpcVars, regVars, poolVars, opVars>>

(* LWS_CALLBACK_CLOSED: the listener, if there is one, is notified.           *)
Close(c) ==
    /\ wsAt = "service"
    /\ conn' = [conn EXCEPT ![c] = "closed"]
    /\ writable' = writable \ {c}
    /\ IF c \in listener
       THEN wsAt' = "quiesce" /\ wsConn' = c
       ELSE UNCHANGED <<wsAt, wsConn>>
    /\ UNCHANGED <<listener, unsent, wake, rpcVars, regVars, poolVars, opVars>>

(* The peer or the network closes the connection. *)
Closed(c) == conn[c] \in {"open", "dropped"} /\ Close(c)

(* LWS_CALLBACK_SERVER_WRITEABLE of a connection that the server has dropped *)
(* returns -1: the library closes the socket and calls CLOSED.               *)
CloseDropped(c) == c \in writable /\ conn[c] = "dropped" /\ Close(c)

(* Mutant: the disconnection does not wait for the request in progress. *)
QuiesceNoWait ==
    /\ wsAt = "quiesce"
    /\ operational' = [operational EXCEPT ![wsConn] = FALSE]
    /\ wsAt' = "notify"
    /\ UNCHANGED <<conn, listener, unsent, wake, writable, wsConn, lock, regVars, poolVars, opVars>>

(* processDisconnected: waits for the request in progress, if any, and       *)
(* forbids the next ones.                                                    *)
Quiesce ==
    /\ wsAt = "quiesce"
    /\ lock[wsConn] = Unlocked
    /\ operational' = [operational EXCEPT ![wsConn] = FALSE]
    /\ wsAt' = "notify"
    /\ UNCHANGED <<conn, listener, unsent, wake, writable, wsConn, lock, regVars, poolVars, opVars>>

(* Mutant: the disconnection is notified to nobody. *)
NotifyNobody ==
    /\ wsAt = "notify"
    /\ wsAt' = "service" /\ wsConn' = NoConn
    /\ UNCHANGED <<conn, listener, unsent, wake, writable, rpcVars, regVars, poolVars, opVars>>

(* rpcDisconnected: the request handler starts the delayed removal of its    *)
(* identifier, in a detached thread that first sleeps 50 ms.                 *)
Notify ==
    /\ wsAt = "notify"
    /\ removals' = removals \cup {wsConn}
    /\ wsAt' = "service" /\ wsConn' = NoConn
    /\ UNCHANGED <<conn, listener, unsent, wake, writable, rpcVars, registry, mutex, poolVars, opVars>>

(* LWS_CALLBACK_WSI_DESTROY: the socket is freed. *)
WsiDestroy(c) ==
    /\ wsAt = "service"
    /\ conn[c] = "closed"
    /\ conn' = [conn EXCEPT ![c] = "freed"]
    /\ UNCHANGED <<listener, unsent, wake, writable, wsAt, wsConn, rpcVars, regVars, poolVars, opVars>>

-----------------------------------------------------------------------------
(* The removal threads. The thread that session c started knows only the     *)
(* identifier: it erases whatever the list holds for it.                     *)

RemovalLock(c) ==
    /\ c \in removals
    /\ mutex = NoConn
    /\ mutex' = c
    /\ UNCHANGED <<wsVars, rpcVars, registry, removals, poolVars, opVars>>

(* Mutant: the slot of the station keeps its identifier. *)
RemovalErasesValue(c) ==
    LET s   == StationOf[c]
        reg == [registry EXCEPT ![s] = s]
    IN  /\ mutex = c
        /\ registry' = reg
        /\ DestroyClients(Unreferenced({registry[s]}, reg, held))
        /\ mutex' = NoConn
        /\ removals' = removals \ {c}
        /\ UNCHANGED <<writable, wsAt, wsConn, lock, poolVars, opVars>>

RemovalErase(c) ==
    LET s   == StationOf[c]
        reg == [registry EXCEPT ![s] = NoConn]
    IN  /\ mutex = c
        /\ registry' = reg
        /\ DestroyClients(Unreferenced({registry[s]}, reg, held))
        /\ mutex' = NoConn
        /\ removals' = removals \ {c}
        /\ UNCHANGED <<writable, wsAt, wsConn, lock, poolVars, opVars>>

-----------------------------------------------------------------------------
(* The pool threads. *)

Pop(w) ==
    /\ wAt[w] = "pop"
    /\ queue # <<>>
    /\ queue' = Tail(queue)
    /\ wReq' = [wReq EXCEPT ![w] = Head(queue)]
    /\ wAt' = [wAt EXCEPT ![w] = "lock"]
    /\ UNCHANGED <<wsVars, rpcVars, regVars, sent, opVars>>

(* Mutant: the request of a session that is over is processed all the same. *)
LockAnyOwner(w) ==
    LET c == wReq[w] IN
    /\ wAt[w] = "lock"
    /\ lock[c] = Unlocked
    /\ lock' = [lock EXCEPT ![c] = w]
    /\ wAt' = [wAt EXCEPT ![w] = "handle"]
    /\ UNCHANGED <<wsVars, operational, regVars, queue, sent, wReq, opVars>>

(* Mutant: the thread waits for a session that will never be back. *)
LockWaitsForOwner(w) ==
    LET c == wReq[w] IN
    /\ wAt[w] = "lock"
    /\ lock[c] = Unlocked
    /\ operational[c]
    /\ lock' = [lock EXCEPT ![c] = w]
    /\ wAt' = [wAt EXCEPT ![w] = "handle"]
    /\ UNCHANGED <<wsVars, operational, regVars, queue, sent, wReq, opVars>>

(* Takes the owner's lock; the request of a session that is disconnected or  *)
(* destroyed is thrown away.                                                 *)
LockOwner(w) ==
    LET c == wReq[w] IN
    /\ wAt[w] = "lock"
    /\ lock[c] = Unlocked
    /\ IF operational[c]
       THEN /\ lock' = [lock EXCEPT ![c] = w]
            /\ wAt' = [wAt EXCEPT ![w] = "handle"]
       ELSE /\ wAt' = [wAt EXCEPT ![w] = "pop"]
            /\ UNCHANGED lock
    /\ UNCHANGED <<wsVars, operational, regVars, queue, sent, wReq, opVars>>

(* Mutant: the response is queued and nobody is woken to send it. *)
RespondWithoutWake(w) ==
    LET c == wReq[w] IN
    /\ wAt[w] = "handle"
    /\ unsent' = IF conn[c] = "open" THEN unsent \cup {c} ELSE unsent
    /\ lock' = [lock EXCEPT ![c] = Unlocked]
    /\ wAt' = [wAt EXCEPT ![w] = "pop"]
    /\ UNCHANGED <<conn, listener, wake, writable, wsAt, wsConn, operational, regVars, queue,
                   sent, wReq, opVars>>

(* The handler of the request returns (none of them touches a list: the      *)
(* program does not ask for the pending status); the response is queued if   *)
(* the connection is still up, and the lock is released.                     *)
Respond(w) ==
    LET c == wReq[w] IN
    /\ wAt[w] = "handle"
    /\ IF conn[c] = "open"
       THEN unsent' = unsent \cup {c} /\ wake' = TRUE
       ELSE UNCHANGED <<unsent, wake>>
    /\ lock' = [lock EXCEPT ![c] = Unlocked]
    /\ wAt' = [wAt EXCEPT ![w] = "pop"]
    /\ UNCHANGED <<conn, listener, writable, wsAt, wsConn, operational, regVars, queue, sent,
                   wReq, opVars>>

-----------------------------------------------------------------------------
(* The threads that ask for the stations or send them requests. *)

(* The sessions in the list. *)
Listed == {c \in Conns : Registered(c)}

(* chargePoints: the thread works on a copy of the list, which keeps all the *)
(* sessions in it alive (getChargePointIds, getChargePointById).             *)
Snapshot(o) ==
    /\ held[o] = {}
    /\ mutex = NoConn
    /\ held' = [held EXCEPT ![o] = Listed]
    /\ UNCHANGED <<wsVars, rpcVars, regVars, poolVars, calling>>

(* Operator o keeps the sessions of S only. It destroys the sessions that    *)
(* left the list meanwhile and that nobody else holds.                       *)
Keep(o, S) ==
    LET hold == [held EXCEPT ![o] = S] IN
    /\ held' = hold
    /\ DestroyClients(Unreferenced(held[o] \ S, registry, hold))
    /\ UNCHANGED <<writable, wsAt, wsConn, lock, regVars, poolVars>>

(* getChargePointById has found the station: the proxy is kept for the call. *)
Find(o) ==
    /\ o \notin calling
    /\ calling' = calling \cup {o}
    /\ \E c \in held[o] : Keep(o, {c})

SendCall(o) ==
    /\ o \in calling
    /\ \E c \in held[o] : conn[c] = "open" /\ unsent' = unsent \cup {c}
    /\ wake' = TRUE
    /\ UNCHANGED <<conn, listener, writable, wsAt, wsConn, rpcVars, regVars, poolVars, opVars>>

(* The identifiers are known, the station is not found, or the call has been *)
(* answered, has timed out or failed.                                        *)
Return(o) ==
    /\ held[o] # {}
    /\ calling' = calling \ {o}
    /\ Keep(o, {})

-----------------------------------------------------------------------------

WsThread == \/ \E c \in Conns : \/ Established(c) \/ Receive(c) \/ Writeable(c)
                                \/ Closed(c) \/ CloseDropped(c) \/ WsiDestroy(c)
            \/ WaitCancelled \/ Quiesce \/ Notify

Removal == \E c \in Conns : RemovalLock(c) \/ RemovalErase(c)

Pool == \E w \in Workers : Pop(w) \/ LockOwner(w) \/ Respond(w)

Manager == \E o \in Operators : Snapshot(o) \/ Find(o) \/ SendCall(o) \/ Return(o)

Next == WsThread \/ Removal \/ Pool \/ Manager

Spec == Init /\ [][Next]_vars

(* The threads are scheduled, and a socket whose WRITEABLE callback was asked *)
(* for becomes writable. Nothing makes a station connect, send or close, nor *)
(* an operator call, and no connection is closed unless that callback runs.  *)
Fairness ==
    /\ WF_vars(WaitCancelled) /\ WF_vars(Quiesce) /\ WF_vars(Notify)
    /\ \A c \in Conns : /\ WF_vars(Writeable(c)) /\ WF_vars(CloseDropped(c))
                        /\ WF_vars(RemovalLock(c)) /\ WF_vars(RemovalErase(c))
    /\ \A w \in Workers : WF_vars(Pop(w) \/ LockOwner(w) \/ Respond(w))

FairSpec == Spec /\ Fairness

-----------------------------------------------------------------------------
(* Properties *)

(* A pool thread is inside the request handler of session c. *)
Handling(w, c) == wAt[w] = "handle" /\ wReq[w] = c

(* Types of the variables of the websocket server, the RPC sessions, the     *)
(* charge point lists, the pool and the operator threads.                    *)
TypeOK ==
    /\ conn \in [Conns -> ConnStates]
    /\ listener \subseteq Conns
    /\ unsent \subseteq Conns
    /\ wake \in BOOLEAN
    /\ writable \subseteq Conns
    /\ wsAt \in {"service", "quiesce", "notify"}
    /\ wsConn \in MaybeConn
    /\ operational \in [Conns -> BOOLEAN]
    /\ lock \in [Conns -> Workers \cup {Unlocked}]
    /\ registry \in [Stations -> MaybeConn]
    /\ mutex \in MaybeConn
    /\ removals \subseteq Conns
    /\ queue \in Seq(Conns)
    /\ sent \in [Conns -> Nat]
    /\ wAt \in [Workers -> {"pop", "lock", "handle"}]
    /\ wReq \in [Workers -> MaybeConn]
    /\ held \in [Operators -> SUBSET Conns]
    /\ calling \subseteq Operators

(* A delayed removal knows only the identifier of its station. When it runs, *)
(* the list still holds the very session whose disconnection started it, so  *)
(* a session registered meanwhile can never be the one erased, and a station *)
(* never has two removals on their way (removeChargePoint, 50 ms later).     *)
RemovalsMatchList == \A c \in removals : Registered(c)

(* The list of connected charge points loses an entry only when its session  *)
(* is over: the socket closed, its last request processed, its requests      *)
(* refused; and an entry is never replaced by another session in one step.   *)
NoLiveErasure ==
    [][\A s \in Stations :
          registry[s] # NoConn /\ registry'[s] # registry[s]
          => /\ registry'[s] = NoConn
             /\ conn[registry[s]] \in {"closed", "freed"}
             /\ ~operational[registry[s]]]_vars

(* A removal thread destroys a session while it holds m_chargepoints_mutex,  *)
(* which the websocket thread needs to admit the next station, and the       *)
(* destruction takes the session's lock, which a request may hold as long as *)
(* it likes. The removal never finds that lock taken: the disconnection that *)
(* started it had waited for the last request.                               *)
RemovalNeverWaits ==
    mutex # NoConn =>
       LET c == registry[StationOf[mutex]] IN c # NoConn => lock[c] = Unlocked

(* While a request of a session is processed, the session is operational,    *)
(* in the list, and its socket has not been freed: the handler and the send  *)
(* of the response never touch a destroyed object.                           *)
HandlerSafe ==
    \A w \in Workers, c \in Conns :
       Handling(w, c) => operational[c] /\ Registered(c) /\ conn[c] # "freed"

(* A disconnection is notified through raw pointers to the session and to    *)
(* the request handler: both are still there.                                *)
CallbackSafe == wsAt # "service" => Registered(wsConn)

(* A session that is closed and still in the list has a removal on its way   *)
(* or is about to start one: a station is never locked out by a dead entry.  *)
NoDeadEntry ==
    \A c \in Conns : Registered(c) /\ conn[c] \in {"closed", "freed"}
                     => c \in removals \/ wsConn = c

(* What the lists promise, see StationRegistry. *)
Life == [c \in Conns |-> IF conn[c] = "none" THEN "new"
                        ELSE IF conn[c] = "open" THEN "up" ELSE "over"]

Abs == INSTANCE StationRegistry WITH holder <- registry, life <- Life

(* Every step of the sessions is a step of the abstract list or leaves it    *)
(* alone (chargePointConnected, removeChargePoint).                          *)
RegistrySpec == Abs!Spec

(* A session that the server gave up or that closed leaves the list, so that *)
(* its station can connect again (disconnected, removeChargePoint).          *)
ClosedForgotten ==
    \A c \in Conns : (Registered(c) /\ conn[c] # "open") ~> ~Registered(c)

(* A connection refused because its station is already connected, or dropped *)
(* after a write error, is really closed: disconnect wakes the websocket     *)
(* thread, whose EVENT_WAIT_CANCELLED callback asks for the WRITEABLE one,   *)
(* which closes it; wake-ups that come together are served as one.           *)
DroppedGetsClosed ==
    \A c \in Conns : (conn[c] = "dropped") ~> (conn[c] \in {"closed", "freed"})

(* A message queued by another thread is written, or its connection is over: *)
(* the wake-up of a send is never lost, whatever the websocket thread was    *)
(* doing (send, EVENT_WAIT_CANCELLED).                                       *)
MessagesLeave ==
    \A c \in Conns : (c \in unsent) ~> (c \notin unsent \/ conn[c] \in {"closed", "freed"})

(* A request that a pool thread has popped is processed or thrown away; it   *)
(* never waits for ever for a lock.                                          *)
WorkersProgress == \A w \in Workers : (wAt[w] # "pop") ~> (wAt[w] = "pop")
=============================================================================
