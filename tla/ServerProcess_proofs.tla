------------------------- MODULE ServerProcess_proofs -------------------------
(***************************************************************************)
(* However the start went, and whatever the threads were doing at the stop:  *)
(* no thread of the stack outlives it, and no session that is connected      *)
(* outlives the websocket thread. For any number of connections and threads. *)
(***************************************************************************)
EXTENDS ServerProcess, TLAPS

(* The threads of the stack that run *)
SocketsRun == sockets \in {"loop", "ending"}

PoolRuns == \E t \in Threads : pool[t] \in Conns \cup {"wait"}

(* The stack is where the main thread says. *)
StackInv ==
    /\ stack = "none" => main \in {"init", "return", "exit"}
    /\ stack = "idle" => main \in {"start", "return", "handler", "exit"}
    /\ stack = "up" => main \notin {"init", "start", "handler", "exit"}
    /\ stack = "gone" => main \in {"handler", "exit"}

(* The events handler is there before the stack, and after it. *)
HandlerInv == stack = "up" \/ main = "start" => handler = "alive"

(* The threads are those of a stack that is up. *)
ThreadInv ==
    /\ SocketsRun \/ PoolRuns => stack = "up"
    /\ stack \in {"none", "idle"} => sockets = "none"
    /\ started <=> stack = "up" /\ sockets # "none"
    /\ main \in {"stopPool", "joinPool"} => ~SocketsRun

(* The websocket thread ends with its connections. *)
ClosedInv == sockets = "over" => \A c \in Conns : conn[c] # "open"

IInv == TypeOK /\ StackInv /\ HandlerInv /\ ThreadInv /\ ClosedInv

-----------------------------------------------------------------------------

LEMMA Initially == Init => IInv
  BY ConnsAssumption
  DEF Init, IInv, TypeOK, Made, StackInv, HandlerInv, ThreadInv, ClosedInv, SocketsRun, PoolRuns

(* The Boolean variables, which the steps of the main thread set. *)
Flags ==
    /\ init \in BOOLEAN /\ started \in BOOLEAN /\ end \in BOOLEAN
    /\ enabled \in BOOLEAN /\ running \in BOOLEAN /\ pointer \in BOOLEAN

(* Every step of the main thread leaves them Boolean. *)
LEMMA FlagsStep == ASSUME IInv, Main \/ Enter PROVE Flags'
<1> USE DEF IInv, TypeOK, Flags, mainVars, socketVars, listVars, poolVars, webVars, stackVars
<1>1. CASE InitManager
  BY <1>1, Zenon DEF InitManager
<1>2. CASE StartStack \/ StartWeb
  BY <1>2, Zenon DEF StartStack, StartWeb
<1>3. CASE Enter \/ DestroyWeb \/ ForgetWeb \/ ClearWeb \/ JoinWeb
  BY <1>3, Zenon DEF Enter, DestroyWeb, ForgetWeb, ClearWeb, JoinWeb
<1>4. CASE Return
  BY <1>4, Zenon DEF Return
<1>5. CASE JoinSockets \/ StopPool \/ JoinPool \/ DestroyHandler
  BY <1>5, Zenon DEF JoinSockets, StopPool, JoinPool, DestroyHandler
<1> QED
  BY <1>1, <1>2, <1>3, <1>4, <1>5 DEF Main

(* Each step of the main thread keeps the invariant. *)
LEMMA MainStep == ASSUME IInv, Main \/ Enter PROVE IInv'
<1> USE FlagsStep
    DEF IInv, TypeOK, Made, StackInv, HandlerInv, ThreadInv, ClosedInv, SocketsRun, PoolRuns,
        Flags, GoTo, mainVars, socketVars, listVars, poolVars, webVars, stackVars
<1>1. CASE InitManager
  BY <1>1 DEF InitManager
<1>2. CASE StartStack
  <2>1. TypeOK' /\ StackInv' /\ HandlerInv' /\ ClosedInv'
    BY <1>2 DEF StartStack
  <2>2. \/ stack' = stack /\ started' = started /\ sockets' = sockets /\ pool' = pool
        \/ stack' = "up" /\ started' = started /\ sockets' = sockets
        \/ stack' = "up" /\ started' /\ sockets' = "loop"
    BY <1>2, Zenon DEF StartStack
  <2>3. main = "start" /\ main' \in {"return", "web"}
    BY <1>2 DEF StartStack
  <2>4. stack = "idle"
    BY <2>3
  <2> QED
    BY <2>1, <2>2, <2>3, <2>4
<1>3. CASE StartWeb
  BY <1>3 DEF StartWeb
<1>4. CASE Enter \/ DestroyWeb \/ ForgetWeb \/ ClearWeb \/ JoinWeb
  <2>1. CASE Enter
    <3>1. main = "prompt" /\ main' = "destroyWeb" /\ UNCHANGED <<stackVars, context, web, fault>>
      BY <2>1, Zenon DEF Enter
    <3> QED
      BY <3>1
  <2>2. CASE DestroyWeb
    BY <2>2 DEF DestroyWeb
  <2>3. CASE ForgetWeb
    BY <2>3 DEF ForgetWeb
  <2>4. CASE ClearWeb
    BY <2>4 DEF ClearWeb
  <2>5. CASE JoinWeb
    BY <2>5 DEF JoinWeb
  <2> QED
    BY <1>4, <2>1, <2>2, <2>3, <2>4, <2>5
<1>5. CASE Return
  BY <1>5 DEF Return
<1>6. CASE JoinSockets
  BY <1>6 DEF JoinSockets
<1>7. CASE StopPool
  BY <1>7 DEF StopPool
<1>8. CASE JoinPool
  BY <1>8, ConnsAssumption DEF JoinPool
<1>9. CASE DestroyHandler
  BY <1>9 DEF DestroyHandler
<1> QED
  BY <1>1, <1>2, <1>3, <1>4, <1>5, <1>6, <1>7, <1>8, <1>9 DEF Main

(* Each step of the websocket thread. *)
LEMMA SocketsStep == ASSUME IInv, WebSockets PROVE IInv'
<1> USE DEF IInv, TypeOK, Made, StackInv, HandlerInv, ThreadInv, ClosedInv, SocketsRun, PoolRuns,
            mainVars, socketVars, listVars, poolVars, webVars
<1>1. CASE LeaveLoop
  BY <1>1 DEF LeaveLoop
<1>2. CASE EndContext
  BY <1>2 DEF EndContext
<1>3. ASSUME NEW c \in Conns, Accept(c) PROVE IInv'
  BY <1>3 DEF Accept
<1>4. ASSUME NEW c \in Conns, Request(c) PROVE IInv'
  BY <1>4 DEF Request
<1>5. ASSUME NEW c \in Conns, CloseConn(c) PROVE IInv'
  BY <1>5 DEF CloseConn
<1> QED
  BY <1>1, <1>2, <1>3, <1>4, <1>5 DEF WebSockets

(* Each step of a pool thread. *)
LEMMA PoolStep == ASSUME IInv, NEW t \in Threads, PoolThread(t) PROVE IInv'
<1> USE DEF IInv, TypeOK, Made, StackInv, HandlerInv, ThreadInv, ClosedInv, SocketsRun, PoolRuns,
            mainVars, socketVars, listVars, webVars
<1>1. CASE Finish(t)
  BY <1>1 DEF Finish
<1>2. CASE Quit(t)
  BY <1>2, ConnsAssumption DEF Quit
<1>3. ASSUME NEW c \in Conns, Take(t, c) PROVE IInv'
  BY <1>3 DEF Take
<1> QED
  BY <1>1, <1>2, <1>3 DEF PoolThread

(* Each removal, and each step of the thread of the web server. *)
LEMMA OtherStep == ASSUME IInv, Web \/ \E c \in Conns : Remove(c) PROVE IInv'
<1> USE DEF IInv, TypeOK, Made, StackInv, HandlerInv, ThreadInv, ClosedInv, SocketsRun, PoolRuns,
            mainVars, socketVars, listVars, poolVars, webVars, stackVars
<1>1. CASE Web
  BY <1>1 DEF Web, WebTest, WebRead, WebWake, WebDone
<1>2. ASSUME NEW c \in Conns, Remove(c) PROVE IInv'
  BY <1>2 DEF Remove
<1> QED
  BY <1>1, <1>2

(* The invariant holds throughout. *)
LEMMA Invariance == Spec => []IInv
<1>1. ASSUME IInv, [Next]_vars PROVE IInv'
  <2>1. CASE Next
    BY <1>1, <2>1, MainStep, SocketsStep, PoolStep, OtherStep DEF Next
  <2>2. CASE UNCHANGED vars
    BY <1>1, <2>2
    DEF vars, mainVars, socketVars, listVars, poolVars, webVars, stackVars,
        IInv, TypeOK, Made, StackInv, HandlerInv, ThreadInv, ClosedInv, SocketsRun, PoolRuns
  <2> QED
    BY <1>1, <2>1, <2>2
<1> QED
  BY Initially, <1>1, PTL DEF Spec

(* The variables have their types, and the lists hold connections that exist. *)
THEOREM ProcessTypeCorrect == Spec => []TypeOK
<1>1. IInv => TypeOK
  BY DEF IInv
<1> QED
  BY <1>1, Invariance, PTL

(* No thread of the stack runs without the stack and its events handler: the   *)
(* stops of RpcServer and of RpcPool and the order of OcppManager's members.  *)
THEOREM StackOutlivesThreads == Spec => []ThreadsHaveStack
<1>1. IInv => ThreadsHaveStack
  BY DEF IInv, HandlerInv, ThreadInv, SocketsRun, PoolRuns, ThreadsHaveStack
<1> QED
  BY <1>1, Invariance, PTL

(* Sessions that are destroyed are over: no destructor wakes a context that is *)
(* gone (RpcServer::Client::~Client).                                         *)
THEOREM SessionsOver == Spec => []SessionsAreOver
<1>1. IInv => SessionsAreOver
  BY DEF IInv, TypeOK, Made, ClosedInv, SessionsAreOver
<1> QED
  BY <1>1, Invariance, PTL
=============================================================================
