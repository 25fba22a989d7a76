----------------------------- MODULE ServerProcess -----------------------------
(***************************************************************************)
(* The program from its first step to its last (main.cpp): the main thread   *)
(* starts and stops the OCPP stack and the web server, whose threads run     *)
(* meanwhile. The stack is stopped by the destructors at the return of main. *)
(* The sessions, their locks and the lists are those of ChargePointSessions, *)
(* reduced to what the end of the program depends on. After an undefined     *)
(* behaviour (fault) nothing is said of the program any more.                *)
(***************************************************************************)
EXTENDS Naturals

CONSTANTS
    Conns,    \* connections of stations, each of a station of its own
    Threads   \* threads of the RPC pool

ASSUME ConnsAssumption == Conns \cap {"none", "wait", "over"} = {}

VARIABLES
    \* the main thread and what it creates
    main,      \* what the main thread does next
    init,      \* OcppManager::m_init, which no constructor sets
    stack,     \* the CentralSystem20: "none", "idle" (no m_rpc_server), "up", "gone"
    started,   \* RpcServer::m_started
    handler,   \* the DefaultCentralSystemEventsHandler: "none", "alive" or "gone"
    \* the stack
    end,       \* LibWebsocketServer::m_end
    sockets,   \* its thread: "none", "loop", "ending" or "over"
    conn,      \* each connection: "none", "open" or "closed"
    listed,    \* m_chargepoints, which owns the sessions
    removals,  \* sessions whose delayed removal has not run yet
    enabled,   \* the request queue of the pool is enabled
    queued,    \* connections with requests in that queue
    pool,      \* each thread: "none", "wait", "over", or the connection it works for
    \* the web server
    running,   \* WebServer::running
    pointer,   \* WebServer::context is not null
    context,   \* the libwebsockets context: "none", "live", "deferred" or "freed"
    web,       \* the thread of run(): "none", "test", "read", "poll", "callback" or "over"
    \* undefined behaviour
    fault      \* "none", or what was used after its end, or by two threads at once

mainVars == <<init, started, handler>>
socketVars == <<end, sockets, conn>>
listVars == <<listed, removals>>
poolVars == <<enabled, queued, pool>>
webVars == <<running, pointer, context, web>>
stackVars == <<stack, mainVars, socketVars, listVars, poolVars>>
vars == <<main, stackVars, webVars, fault>>

Init ==
    /\ main = "init"
    /\ init \in BOOLEAN
    /\ stack = "none" /\ handler = "none"
    /\ started = FALSE
    /\ end = FALSE /\ sockets = "none"
    /\ conn = [c \in Conns |-> "none"]
    /\ listed = {} /\ removals = {}
    /\ enabled = TRUE /\ queued = {}
    /\ pool = [t \in Threads |-> "none"]
    /\ running = FALSE /\ pointer = FALSE /\ context = "none" /\ web = "none"
    /\ fault = "none"

-----------------------------------------------------------------------------
(* The main thread: the start *)

GoTo(from, to) == main = from /\ main' = to

(* OcppManager::init *)
InitManager ==
    \/ init /\ GoTo("init", "return") /\ UNCHANGED <<stackVars, webVars, fault>>
    \/ /\ ~init /\ GoTo("init", "start")
       /\ init' = TRUE /\ handler' = "alive" /\ stack' = "idle"
       /\ UNCHANGED <<started, socketVars, listVars, poolVars, webVars, fault>>

(* CentralSystem20::start, RpcServer::start, RpcPool::start. The schemas may not *)
(* load, the pool may have no thread and the websocket server may not start.   *)
StartStack ==
    \/ GoTo("start", "return") /\ UNCHANGED <<stackVars, webVars, fault>>
    \/ /\ GoTo("start", "return")
       /\ stack' = "up" /\ pool' = [t \in Threads |-> "wait"]
       /\ UNCHANGED <<mainVars, socketVars, listVars, enabled, queued, webVars, fault>>
    \/ /\ GoTo("start", "web") /\ Threads # {}
       /\ stack' = "up" /\ started' = TRUE /\ sockets' = "loop"
       /\ pool' = [t \in Threads |-> "wait"]
       /\ UNCHANGED <<init, handler, end, conn, listVars, enabled, queued, webVars, fault>>

(* WebServer::start, and the thread of run(). *)
StartWeb ==
    \/ GoTo("web", "return") /\ UNCHANGED <<stackVars, webVars, fault>>
    \/ /\ GoTo("web", "prompt")
       /\ running' = TRUE /\ pointer' = TRUE /\ context' = "live" /\ web' = "test"
       /\ UNCHANGED <<stackVars, fault>>

-----------------------------------------------------------------------------
(* The main thread: WebServer::stop, after the user has pressed Enter *)

Enter ==
    /\ GoTo("prompt", "destroyWeb")
    /\ running' = FALSE
    /\ UNCHANGED <<stackVars, pointer, context, web, fault>>

(* libwebsockets puts the destruction off if its thread is in a callback, and   *)
(* frees the context otherwise, be that thread asleep in it.                   *)
DestroyWeb ==
    /\ GoTo("destroyWeb", "forgetWeb")
    /\ context' = IF web = "callback" THEN "deferred" ELSE "freed"
    /\ fault' \in IF web = "callback" THEN {"none", "context"} ELSE {"none"}
    /\ UNCHANGED <<stackVars, running, pointer, web>>

ForgetWeb ==
    /\ GoTo("forgetWeb", "clearWeb")
    /\ pointer' = FALSE
    /\ UNCHANGED <<stackVars, running, context, web, fault>>

(* connections.clear(), which the callbacks use. *)
ClearWeb ==
    /\ GoTo("clearWeb", "joinWeb")
    /\ fault' \in IF web = "callback" THEN {"none", "connections"} ELSE {"none"}
    /\ UNCHANGED <<stackVars, webVars>>

JoinWeb ==
    /\ GoTo("joinWeb", "return")
    /\ web = "over"
    /\ UNCHANGED <<stackVars, webVars, fault>>

-----------------------------------------------------------------------------
(* The main thread: the destructors of the manager's members. First the stack  *)
(* (CentralSystem20::stop, RpcServer::stop, LibWebsocketServer::stop,          *)
(* RpcPool::stop), then the events handler.                                    *)

Return ==
    /\ \/ stack = "none" /\ GoTo("return", "exit") /\ UNCHANGED end
       \/ stack = "idle" /\ GoTo("return", "handler") /\ UNCHANGED end
       \/ stack = "up" /\ started /\ GoTo("return", "joinSockets") /\ end' = TRUE
       \/ stack = "up" /\ ~started /\ GoTo("return", "stopPool") /\ UNCHANGED end
    /\ UNCHANGED <<stack, mainVars, sockets, conn, listVars, poolVars, webVars, fault>>

(* Mutant: the thread is left to itself. *)
DetachSockets ==
    /\ GoTo("joinSockets", "stopPool")
    /\ UNCHANGED <<stackVars, webVars, fault>>

JoinSockets ==
    /\ GoTo("joinSockets", "stopPool")
    /\ sockets = "over"
    /\ UNCHANGED <<stackVars, webVars, fault>>

(* Mutant: the queue is not disabled. *)
StopPoolEnabled ==
    /\ GoTo("stopPool", "joinPool")
    /\ UNCHANGED <<stackVars, webVars, fault>>

StopPool ==
    /\ GoTo("stopPool", "joinPool")
    /\ enabled' = FALSE
    /\ UNCHANGED <<stack, mainVars, socketVars, listVars, queued, pool, webVars, fault>>

JoinPool ==
    /\ GoTo("joinPool", "handler")
    /\ \A t \in Threads : pool[t] = "over"
    /\ queued' = {}
    /\ stack' = "gone" /\ started' = FALSE
    /\ UNCHANGED <<init, handler, socketVars, listVars, enabled, pool, webVars, fault>>

(* The handler goes with the sessions that it still lists. *)
DestroyHandler ==
    /\ GoTo("handler", "exit")
    /\ handler' = "gone"
    /\ listed' = {}
    /\ UNCHANGED <<stack, init, started, socketVars, removals, poolVars, webVars, fault>>

Main ==
    \/ InitManager \/ StartStack \/ StartWeb
    \/ DestroyWeb \/ ForgetWeb \/ ClearWeb \/ JoinWeb
    \/ Return \/ JoinSockets \/ StopPool \/ JoinPool \/ DestroyHandler

-----------------------------------------------------------------------------
(* The thread of LibWebsocketServer *)

Working(c) == \E t \in Threads : pool[t] = c

Accept(c) ==
    /\ sockets = "loop" /\ conn[c] = "none"
    /\ conn' = [conn EXCEPT ![c] = "open"]
    /\ listed' = listed \cup {c}
    /\ UNCHANGED <<main, stack, mainVars, end, sockets, removals, poolVars, webVars, fault>>

(* Mutant: a request may come before its connection. *)
RequestEarly(c) ==
    /\ sockets = "loop" /\ conn[c] # "closed"
    /\ queued' = queued \cup {c}
    /\ UNCHANGED <<main, stack, mainVars, socketVars, listVars, enabled, pool, webVars, fault>>

Request(c) ==
    /\ sockets = "loop" /\ conn[c] = "open"
    /\ queued' = queued \cup {c}
    /\ UNCHANGED <<main, stack, mainVars, socketVars, listVars, enabled, pool, webVars, fault>>

(* CLOSED: waits for the request in progress, then removeChargePoint.          *)
CloseConn(c) ==
    /\ sockets \in {"loop", "ending"} /\ conn[c] = "open"
    /\ ~Working(c)
    /\ conn' = [conn EXCEPT ![c] = "closed"]
    /\ removals' = removals \cup {c}
    /\ UNCHANGED <<main, stack, mainVars, end, sockets, listed, poolVars, webVars, fault>>

LeaveLoop ==
    /\ sockets = "loop" /\ end
    /\ sockets' = "ending"
    /\ UNCHANGED <<main, stack, mainVars, end, conn, listVars, poolVars, webVars, fault>>

(* Mutant: the context goes without its connections. *)
AbandonContext ==
    /\ sockets = "ending"
    /\ sockets' = "over"
    /\ UNCHANGED <<main, stack, mainVars, end, conn, listVars, poolVars, webVars, fault>>

(* lws_context_destroy, which closes the connections that are left. *)
EndContext ==
    /\ sockets = "ending"
    /\ \A c \in Conns : conn[c] # "open"
    /\ sockets' = "over"
    /\ UNCHANGED <<main, stack, mainVars, end, conn, listVars, poolVars, webVars, fault>>

WebSockets == \/ LeaveLoop \/ EndContext
              \/ \E c \in Conns : Accept(c) \/ Request(c) \/ CloseConn(c)

-----------------------------------------------------------------------------
(* The pool threads, and the detached removals of the handler *)

(* A request of a session that is over is dropped; one of a session at work    *)
(* waits for its lock.                                                        *)
Take(t, c) ==
    /\ pool[t] = "wait" /\ enabled
    /\ c \in queued /\ ~Working(c)
    /\ queued' = queued \ {c}
    /\ pool' = [pool EXCEPT ![t] = IF conn[c] = "open" THEN c ELSE "wait"]
    /\ UNCHANGED <<main, stack, mainVars, socketVars, listVars, enabled, webVars, fault>>

Finish(t) ==
    /\ pool[t] \in Conns
    /\ pool' = [pool EXCEPT ![t] = "wait"]
    /\ UNCHANGED <<main, stack, mainVars, socketVars, listVars, enabled, queued, webVars, fault>>

Quit(t) ==
    /\ pool[t] = "wait" /\ ~enabled
    /\ pool' = [pool EXCEPT ![t] = "over"]
    /\ UNCHANGED <<main, stack, mainVars, socketVars, listVars, enabled, queued, webVars, fault>>

PoolThread(t) == Finish(t) \/ Quit(t) \/ \E c \in Conns : Take(t, c)

Remove(c) ==
    /\ c \in removals
    /\ removals' = removals \ {c}
    /\ \/ handler = "alive" /\ listed' = listed \ {c} /\ UNCHANGED fault
       \/ handler # "alive" /\ fault' = "handler" /\ UNCHANGED listed
    /\ UNCHANGED <<main, stack, mainVars, socketVars, poolVars, webVars>>

-----------------------------------------------------------------------------
(* The thread of WebServer::run *)

WebTest ==
    /\ web = "test"
    /\ web' = IF running THEN "read" ELSE "over"
    /\ UNCHANGED <<main, stackVars, running, pointer, context, fault>>

(* lws_service does nothing without a context. *)
WebRead ==
    /\ web = "read"
    /\ IF pointer /\ context = "freed" THEN fault' = "context" /\ UNCHANGED web
       ELSE web' = (IF pointer THEN "poll" ELSE "test") /\ UNCHANGED fault
    /\ UNCHANGED <<main, stackVars, running, pointer, context>>

WebWake ==
    /\ web = "poll"
    /\ IF context = "freed" THEN fault' = "context" /\ UNCHANGED web
       ELSE web' \in {"callback", "test"} /\ UNCHANGED fault
    /\ UNCHANGED <<main, stackVars, running, pointer, context>>

(* The end of a callback, and of a context whose destruction was put off. *)
WebDone ==
    /\ web = "callback"
    /\ web' = "test"
    /\ context' = IF context = "deferred" THEN "freed" ELSE context
    /\ UNCHANGED <<main, stackVars, running, pointer, fault>>

Web == WebTest \/ WebRead \/ WebWake \/ WebDone

-----------------------------------------------------------------------------

(* The process runs until main returns, or until it has done what is undefined. *)
Alive == main # "exit" /\ fault = "none"

Next ==
    /\ Alive
    /\ \/ Main \/ Enter \/ WebSockets \/ Web
       \/ \E t \in Threads : PoolThread(t)
       \/ \E c \in Conns : Remove(c)

Spec == Init /\ [][Next]_vars

(* The threads run; closing what is open is up to lws_context_destroy at the   *)
(* latest. No user has to press Enter, and no station to do anything.         *)
FairSpec ==
    /\ Spec
    /\ WF_vars(Alive /\ Main)
    /\ WF_vars(Alive /\ (LeaveLoop \/ EndContext))
    /\ \A c \in Conns : WF_vars(Alive /\ sockets = "ending" /\ CloseConn(c))
    /\ \A t \in Threads : WF_vars(Alive /\ PoolThread(t))

-----------------------------------------------------------------------------
(* Properties *)

(* Connections that have been made *)
Made == {c \in Conns : conn[c] # "none"}

(* Types of the variables of the process; only connections that exist are in    *)
(* the lists of the handler and of the pool.                                  *)
TypeOK ==
    /\ main \in {"init", "start", "web", "prompt", "destroyWeb", "forgetWeb", "clearWeb", "joinWeb",
                 "return", "joinSockets", "stopPool", "joinPool", "handler", "exit"}
    /\ init \in BOOLEAN /\ started \in BOOLEAN /\ end \in BOOLEAN /\ enabled \in BOOLEAN
    /\ stack \in {"none", "idle", "up", "gone"}
    /\ handler \in {"none", "alive", "gone"}
    /\ sockets \in {"none", "loop", "ending", "over"}
    /\ conn \in [Conns -> {"none", "open", "closed"}]
    /\ listed \subseteq Made /\ queued \subseteq Made
    /\ removals \subseteq {c \in Conns : conn[c] = "closed"}
    /\ pool \in [Threads -> Conns \cup {"none", "wait", "over"}]
    /\ running \in BOOLEAN /\ pointer \in BOOLEAN
    /\ context \in {"none", "live", "deferred", "freed"}
    /\ web \in {"none", "test", "read", "poll", "callback", "over"}
    /\ fault \in {"none", "context", "connections", "handler"}

(* The websocket thread and the pool threads call the stack, and the handler   *)
(* through it, by raw references: they run only while both exist, however the *)
(* start went and whatever they were doing at the stop (RpcServer::stop,       *)
(* RpcPool::stop, the order of OcppManager's members).                        *)
ThreadsHaveStack ==
    (sockets \in {"loop", "ending"} \/ \E t \in Threads : pool[t] \in Conns \cup {"wait"})
        => stack = "up" /\ handler = "alive"

(* The destructor of a session would wake the websocket thread through the     *)
(* context (RpcServer::Client::~Client, disconnect) if it were connected: the *)
(* ones that a removal destroys, and those that the handler destroys after    *)
(* the end of that context, never are.                                        *)
SessionsAreOver ==
    \A c \in listed : c \in removals \/ sockets = "over" => conn[c] = "closed"

(* The stop of the stack ends, whatever its threads were doing: it waits for   *)
(* the websocket thread, which waits for the pool threads at work, then for   *)
(* the pool threads that wait for a request (CentralSystem20::stop).          *)
StackStops == main = "return" ~> main = "exit" \/ fault # "none"

(* libwebsockets' lws-context-vhost.h:975, "After calling this, any further    *)
(* use of the context is undefined".                                          *)
ContextNotUsed == fault # "context"
=============================================================================
