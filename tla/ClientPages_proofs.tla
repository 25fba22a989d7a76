--------------------------- MODULE ClientPages_proofs ---------------------------
(***************************************************************************)
(* The pages of web/client keep one connection, take only the answers to     *)
(* their own calls, and show the value that they were told last, for any     *)
(* number of websockets, of events and of commands.                          *)
(***************************************************************************)
EXTENDS ClientPages, SequenceTheorems, FiniteSetTheorems, TLAPS

-----------------------------------------------------------------------------
(* The inductive invariant. *)

(* Websockets are created in turn; all but the last are closed; the last one *)
(* is in use, or a reconnection is scheduled, or there are no attempts left. *)
SocketInv ==
    /\ \A n \in Sockets : /\ n > used => socket[n] = "none"
                          /\ n < used => socket[n] = "closed"
    /\ used = 0 => ~connected /\ timers = 0
    /\ used > 0 =>
          /\ socket[used] \in {"connecting", "open", "closed"}
          /\ timers \in {0, 1}
          /\ timers = 1 => socket[used] = "closed"
          /\ socket[used] = "closed" /\ timers = 0 => attempts = MaxReconnectAttempts
          /\ connected <=> socket[used] = "open"

Results(D) == {i \in DOMAIN D : D[i].kind = "result"}

WelcomeFirst(D) == \A i \in DOMAIN D : D[i].kind = "connected" => i = 1

(* A connection that the server does not have yet holds nothing; no request  *)
(* is on a connection that was never open; the welcome comes first.          *)
Fresh(n) ==
    /\ socket[n] = "none" => server[n] = "none"
    /\ server[n] = "none" => socket[n] # "open" /\ downlink[n] = <<>>
    /\ socket[n] \in {"none", "connecting"} =>
          uplink[n] = <<>> /\ Results(downlink[n]) = {}
    /\ socket[n] = "open" => requestId > 0
    /\ WelcomeFirst(downlink[n])

FreshInv == \A n \in Sockets : Fresh(n)

(* The raw request of the test button has no call of its own. *)
Proper(x) == x.of # "getValue"

(* A request or an answer has an id greater than all those in front of it,    *)
(* the raw one excepted.                                                     *)
Ordered(D, U) ==
    /\ \A i, j \in Results(D) : i < j /\ Proper(D[j]) => D[i].id < D[j].id
    /\ \A i, j \in DOMAIN U : i < j /\ Proper(U[j]) => U[i].id < U[j].id
    /\ \A i \in Results(D), j \in DOMAIN U : Proper(U[j]) => D[i].id < U[j].id

OrderInv == \A n \in Sockets : Ordered(downlink[n], uplink[n])

(* What is on its way round a connection: the calls it is of. *)
Round(D, U) == {[id |-> D[i].id, of |-> D[i].of] : i \in Results(D)}
                   \cup {[id |-> U[j].id, of |-> U[j].of] : j \in DOMAIN U}

(* A request or an answer is of a call that is pending over that connection,  *)
(* as long as the page has not seen it close; the raw one takes the place of  *)
(* the first call.                                                           *)
Accounted(x, n) ==
    /\ x.id \in 1..requestId
    /\ ~Proper(x) => x.id = 1 /\ debugged
    /\ Proper(x) /\ socket[n] # "closed" => [id |-> x.id, of |-> x.of, n |-> n] \in pending

RoundInv == \A n \in Sockets : \A x \in Round(downlink[n], uplink[n]) : Accounted(x, n)

(* Ids identify the calls that are pending. *)
PendingInv ==
    /\ IsFiniteSet(pending)
    /\ \A r \in pending : r.n <= used
    /\ \A q, r \in pending : q.id = r.id => q = r

(* What ViewIsCurrent says, also before onopen. *)
Current(D, shown, held) ==
    \/ Telling(D) = {} /\ shown = held
    \/ \E i \in Telling(D) : D[i].value = held /\ \A j \in Telling(D) : j <= i

ViewInv ==
    told => /\ used > 0
            /\ server[used] # "none"
            /\ page = "monitoring" /\ server[used] = "up" /\ socket[used] # "closed" =>
                  Current(downlink[used], view, status)

Greeting(D) == \E i \in DOMAIN D : D[i].kind = "connected"

(* The calls of getValues that the last socket may still make by itself. *)
Owed == IF used = 0 THEN 0
        ELSE IF socket[used] = "connecting" THEN 2
        ELSE IF socket[used] = "open" /\ Greeting(downlink[used]) THEN 1
        ELSE 0

Asking == {r \in pending : r.of = "getValues" /\ r.n = used}

IntervalInv == intervals + Cardinality(Asking) + Owed <= 2 * used

IInv ==
    /\ TypeOK /\ SocketInv /\ FreshInv /\ OrderInv /\ RoundInv /\ PendingInv
    /\ ViewInv /\ IntervalInv

USE MaxSocketsAssumption, MaxReconnectAttemptsAssumption, MaxEventsAssumption
    DEF MaxSocketsAssumption, MaxReconnectAttemptsAssumption, MaxEventsAssumption,
        serverVars, socketVars, callVars, serviceVars, reconnectVars, displayVars, pageVars

PageCalls == [id : Nat, of : PageRequests \cup {"getValue"}]

-----------------------------------------------------------------------------
(* Sequences at their ends. *)

LEMMA AtEnd ==
  ASSUME NEW S, NEW s \in Seq(S), NEW e \in S
  PROVE  /\ Append(s, e) \in Seq(S) /\ Len(s) \in Nat
         /\ DOMAIN Append(s, e) = 1..(Len(s) + 1) /\ DOMAIN s = 1..Len(s)
         /\ \A i \in DOMAIN s : Append(s, e)[i] = s[i]
         /\ Append(s, e)[Len(s) + 1] = e
OBVIOUS

LEMMA AtFront ==
  ASSUME NEW S, NEW s \in Seq(S), s # <<>>
  PROVE  /\ Tail(s) \in Seq(S) /\ Head(s) \in S /\ Head(s) = s[1]
         /\ Len(s) \in Nat /\ Len(s) > 0
         /\ DOMAIN Tail(s) = 1..(Len(s) - 1) /\ DOMAIN s = 1..Len(s)
         /\ 1 \in DOMAIN s
         /\ \A i \in DOMAIN Tail(s) : i + 1 \in DOMAIN s /\ Tail(s)[i] = s[i + 1]
<1>1. /\ Tail(s) \in Seq(S) /\ Head(s) \in S /\ Head(s) = s[1]
      /\ Len(s) \in Nat /\ Len(s) > 0
      /\ DOMAIN Tail(s) = 1..(Len(s) - 1) /\ DOMAIN s = 1..Len(s)
      /\ \A i \in DOMAIN Tail(s) : Tail(s)[i] = s[i + 1]
  OBVIOUS
<1> QED
  BY <1>1

-----------------------------------------------------------------------------
(* What goes round a connection, after each operation on its two queues: a   *)
(* request is made, read, answered; another message is sent; one is taken.   *)

Mark(x) == [id |-> x.id, of |-> x.of]

LEMMA RoundIs ==
  ASSUME NEW D, NEW U
  PROVE  Round(D, U) = {Mark(D[i]) : i \in Results(D)} \cup {Mark(U[j]) : j \in DOMAIN U}
BY DEF Round, Mark

LEMMA Requested ==
  ASSUME NEW D, NEW U \in Seq(PageCalls), NEW r \in PageCalls, Ordered(D, U),
         ~Proper(r) \/ \A x \in Round(D, U) : x.id < r.id
  PROVE  Ordered(D, Append(U, r)) /\ Round(D, Append(U, r)) \subseteq Round(D, U) \cup {Mark(r)}
<1> DEFINE V == Append(U, r)
<1> DEFINE L == Len(U) + 1
<1>1. /\ DOMAIN V = 1..L /\ DOMAIN U = 1..(L - 1) /\ L \in Nat
      /\ V[L] = r /\ \A j \in DOMAIN U : V[j] = U[j]
  BY AtEnd
<1>2. /\ \A i \in Results(D) : Proper(r) => D[i].id < r.id
      /\ \A j \in DOMAIN U : Proper(r) => U[j].id < r.id
  <2>1. \A i \in Results(D) : Mark(D[i]) \in Round(D, U) /\ Mark(D[i]).id = D[i].id
    BY RoundIs DEF Mark
  <2>2. \A j \in DOMAIN U : Mark(U[j]) \in Round(D, U) /\ Mark(U[j]).id = U[j].id
    BY RoundIs DEF Mark
  <2> QED
    BY <2>1, <2>2
<1> HIDE DEF V, L
<1>3. \A j \in DOMAIN V : (j \in DOMAIN U /\ V[j] = U[j]) \/ (j = L /\ V[j] = r)
  BY <1>1
<1>4. \A i, j \in DOMAIN V : i < j => i \in DOMAIN U /\ V[i] = U[i]
  BY <1>1
<1>5. Ordered(D, V)
  <2>1. \A i, j \in DOMAIN V : i < j /\ Proper(V[j]) => V[i].id < V[j].id
    BY <1>2, <1>3, <1>4 DEF Ordered
  <2>2. \A i \in Results(D), j \in DOMAIN V : Proper(V[j]) => D[i].id < V[j].id
    BY <1>2, <1>3 DEF Ordered
  <2> QED
    BY <2>1, <2>2 DEF Ordered
<1>6. Round(D, V) \subseteq Round(D, U) \cup {Mark(r)}
  BY <1>3, RoundIs
<1> QED
  BY <1>5, <1>6 DEF V

LEMMA Read ==
  ASSUME NEW D, NEW U \in Seq(PageCalls), U # <<>>, Ordered(D, U)
  PROVE  /\ Ordered(D, Tail(U)) /\ Round(D, Tail(U)) \subseteq Round(D, U)
         /\ Head(U) \in PageCalls /\ Mark(Head(U)) \in Round(D, U)
         /\ \A j \in DOMAIN Tail(U) : Proper(Tail(U)[j]) => Head(U).id < Tail(U)[j].id
         /\ \A i \in Results(D) : Proper(Head(U)) => D[i].id < Head(U).id
<1> DEFINE V == Tail(U)
<1>1. /\ Head(U) \in PageCalls /\ Head(U) = U[1] /\ 1 \in DOMAIN U
      /\ \A j \in DOMAIN V : j + 1 \in DOMAIN U /\ V[j] = U[j + 1] /\ j \in Nat /\ j >= 1
  BY AtFront
<1> HIDE DEF V
<1>2. \A i, j \in DOMAIN V : i < j => i + 1 < j + 1
  BY <1>1
<1>3. \A j \in DOMAIN V : 1 < j + 1
  BY <1>1
<1>4. Ordered(D, V)
  BY <1>1, <1>2 DEF Ordered
<1>5. \A j \in DOMAIN V : Proper(V[j]) => Head(U).id < V[j].id
  BY <1>1, <1>3 DEF Ordered
<1>6. Round(D, V) \subseteq Round(D, U) /\ Mark(Head(U)) \in Round(D, U)
  BY <1>1, RoundIs
<1>7. \A i \in Results(D) : Proper(Head(U)) => D[i].id < Head(U).id
  BY <1>1 DEF Ordered
<1> QED
  BY <1>1, <1>4, <1>5, <1>6, <1>7 DEF V

LEMMA Sent ==
  ASSUME NEW D \in Seq(PageMessages), NEW U, NEW m \in PageMessages, m.kind # "result", Ordered(D, U)
  PROVE  Ordered(Append(D, m), U) /\ Round(Append(D, m), U) \subseteq Round(D, U)
<1> DEFINE E == Append(D, m)
<1> DEFINE L == Len(D) + 1
<1>1. /\ DOMAIN E = 1..L /\ DOMAIN D = 1..(L - 1) /\ L \in Nat
      /\ E[L] = m /\ \A j \in DOMAIN D : E[j] = D[j]
  BY AtEnd
<1> HIDE DEF E, L
<1>2. \A i \in Results(E) : i \in Results(D) /\ E[i] = D[i]
  BY <1>1 DEF Results
<1> QED
  BY <1>2, RoundIs DEF Ordered, E

LEMMA Replied ==
  ASSUME NEW D \in Seq(PageMessages), NEW U, NEW m \in PageMessages, Ordered(D, U),
         \A i \in Results(D) : Proper(m) => D[i].id < m.id,
         \A j \in DOMAIN U : Proper(U[j]) => m.id < U[j].id
  PROVE  Ordered(Append(D, m), U) /\ Round(Append(D, m), U) \subseteq Round(D, U) \cup {Mark(m)}
<1> DEFINE E == Append(D, m)
<1> DEFINE L == Len(D) + 1
<1>1. /\ DOMAIN E = 1..L /\ DOMAIN D = 1..(L - 1) /\ L \in Nat
      /\ E[L] = m /\ \A j \in DOMAIN D : E[j] = D[j]
  BY AtEnd
<1> HIDE DEF E, L
<1>2. \A i \in Results(E) : (i \in Results(D) /\ E[i] = D[i]) \/ (i = L /\ E[i] = m)
  BY <1>1 DEF Results
<1>3. \A i, j \in Results(E) : i < j => i \in Results(D) /\ E[i] = D[i]
  BY <1>1, <1>2 DEF Results
<1>4. Ordered(E, U)
  BY <1>2, <1>3 DEF Ordered
<1>5. Round(E, U) \subseteq Round(D, U) \cup {Mark(m)}
  BY <1>2, RoundIs
<1> QED
  BY <1>4, <1>5 DEF E

LEMMA Taken ==
  ASSUME NEW D \in Seq(PageMessages), NEW U, D # <<>>, Ordered(D, U)
  PROVE  /\ Ordered(Tail(D), U) /\ Round(Tail(D), U) \subseteq Round(D, U)
         /\ Head(D) \in PageMessages
         /\ Head(D).kind = "result" =>
               /\ Mark(Head(D)) \in Round(D, U)
               /\ \A x \in Round(Tail(D), U) : Proper(x) => Head(D).id < x.id
<1> DEFINE E == Tail(D)
<1>1. /\ Head(D) \in PageMessages /\ Head(D) = D[1] /\ 1 \in DOMAIN D
      /\ \A j \in DOMAIN E : j + 1 \in DOMAIN D /\ E[j] = D[j + 1] /\ j \in Nat /\ j >= 1
  BY AtFront
<1> HIDE DEF E
<1>2. \A j \in Results(E) : j + 1 \in Results(D) /\ E[j] = D[j + 1] /\ 1 < j + 1
  BY <1>1 DEF Results
<1>3. \A i, j \in Results(E) : i < j => i + 1 < j + 1
  BY <1>1 DEF Results
<1>4. Ordered(E, U)
  BY <1>2, <1>3 DEF Ordered
<1>5. Round(E, U) \subseteq Round(D, U)
  BY <1>2, RoundIs
<1>6. ASSUME Head(D).kind = "result"
      PROVE  /\ Mark(Head(D)) \in Round(D, U)
             /\ \A x \in Round(E, U) : Proper(x) => Head(D).id < x.id
  <2>1. 1 \in Results(D) /\ Head(D) = D[1]
    BY <1>1, <1>6 DEF Results
  <2>2. \A i \in Results(E) : Proper(E[i]) => Head(D).id < E[i].id
    BY <1>2, <2>1 DEF Ordered
  <2>3. \A j \in DOMAIN U : Proper(U[j]) => Head(D).id < U[j].id
    BY <2>1 DEF Ordered
  <2> QED
    BY <2>1, <2>2, <2>3, RoundIs DEF Mark, Proper
<1> QED
  BY <1>1, <1>4, <1>5, <1>6 DEF E

LEMMA Emptied ==
  ASSUME NEW D, NEW U, Ordered(D, U)
  PROVE  /\ Ordered(<<>>, U) /\ Round(<<>>, U) \subseteq Round(D, U)
         /\ Ordered(D, <<>>) /\ Round(D, <<>>) \subseteq Round(D, U)
<1>1. DOMAIN <<>> = {} /\ Results(<<>>) = {}
  BY DEF Results
<1> QED
  BY <1>1, RoundIs DEF Ordered

-----------------------------------------------------------------------------
(* What a page shows, or will show, after each operation on its queue.       *)

Tells(m) == m.kind = "valueChanged" \/ (m.kind = "result" /\ m.of = "getValues")

LEMMA CurrentSent ==
  ASSUME NEW D \in Seq(PageMessages), NEW m \in PageMessages, NEW shown, NEW held
  PROVE  /\ Tells(m) /\ m.value = held => Current(Append(D, m), shown, held)
         /\ ~Tells(m) /\ Current(D, shown, held) => Current(Append(D, m), shown, held)
<1> DEFINE E == Append(D, m)
<1> DEFINE L == Len(D) + 1
<1>1. /\ DOMAIN E = 1..L /\ DOMAIN D = 1..(L - 1) /\ L \in Nat /\ L > 0
      /\ E[L] = m /\ \A j \in DOMAIN D : E[j] = D[j]
  BY AtEnd
<1> HIDE DEF E, L
<1>2. L \in DOMAIN E /\ \A j \in DOMAIN E : j <= L
  BY <1>1
<1>3. ASSUME Tells(m), m.value = held PROVE Current(E, shown, held)
  <2>1. L \in Telling(E) /\ \A j \in Telling(E) : j <= L
    BY <1>1, <1>2, <1>3 DEF Telling, Tells
  <2> QED
    BY <1>1, <1>3, <2>1 DEF Current
<1>4. ASSUME ~Tells(m), Current(D, shown, held) PROVE Current(E, shown, held)
  <2>1. \A j \in DOMAIN E : (j \in DOMAIN D /\ E[j] = D[j]) \/ E[j] = m
    BY <1>1
  <2>2. \A j \in DOMAIN D : j \in DOMAIN E
    BY <1>1
  <2>3. Telling(E) = Telling(D)
    BY <1>1, <1>4, <2>1, <2>2 DEF Telling, Tells
  <2>4. \A j \in Telling(D) : E[j] = D[j]
    BY <1>1 DEF Telling
  <2> QED
    BY <1>4, <2>3, <2>4 DEF Current
<1> QED
  BY <1>3, <1>4 DEF E

LEMMA CurrentTaken ==
  ASSUME NEW D \in Seq(PageMessages), D # <<>>, NEW shown, NEW new, NEW held,
         Current(D, shown, held),
         new = IF Tells(Head(D)) THEN Head(D).value ELSE shown
  PROVE  Current(Tail(D), new, held)
<1> DEFINE E == Tail(D)
<1>1. /\ Head(D) = D[1] /\ 1 \in DOMAIN D /\ DOMAIN D = 1..Len(D) /\ Len(D) \in Nat
      /\ DOMAIN E = 1..(Len(D) - 1)
      /\ \A j \in DOMAIN E : j + 1 \in DOMAIN D /\ E[j] = D[j + 1] /\ j \in Nat
  BY AtFront
<1>2. \A i \in DOMAIN D : i = 1 \/ (i - 1 \in DOMAIN E /\ E[i - 1] = D[i] /\ i \in Nat)
  BY <1>1
<1> HIDE DEF E
<1>3. \A j \in Telling(E) : j + 1 \in Telling(D) /\ D[j + 1] = E[j] /\ j \in Nat /\ j + 1 > 1
  BY <1>1 DEF Telling
<1>4. \A i \in Telling(D) : i = 1 \/ (i - 1 \in Telling(E) /\ E[i - 1] = D[i] /\ i \in Nat)
  BY <1>2 DEF Telling
<1>5. 1 \in Telling(D) <=> Tells(Head(D))
  BY <1>1 DEF Telling, Tells
<1>6. CASE Telling(D) = {}
  <2>1. Telling(E) = {}
    BY <1>3, <1>6
  <2> QED
    BY <1>5, <1>6, <2>1 DEF Current, E
<1>7. ASSUME NEW i \in Telling(D), D[i].value = held, \A j \in Telling(D) : j <= i
      PROVE  Current(E, new, held)
  <2>1. CASE i = 1
    <3>1. ASSUME NEW j \in Telling(E) PROVE FALSE
      <4>1. j + 1 \in Telling(D) /\ j \in Nat /\ j + 1 > 1
        BY <1>3
      <4>2. j + 1 <= 1
        BY <1>7, <2>1, <4>1
      <4> QED
        BY <4>1, <4>2
    <3>2. Telling(E) = {}
      BY <3>1
    <3> QED
      BY <1>1, <1>5, <1>7, <2>1, <3>2 DEF Current
  <2>2. CASE i # 1
    <3>1. i - 1 \in Telling(E) /\ E[i - 1].value = held /\ i \in Nat
      BY <1>4, <1>7, <2>2
    <3>2. \A j \in Telling(E) : j <= i - 1
      BY <1>3, <1>7, <3>1
    <3> QED
      BY <3>1, <3>2 DEF Current
  <2> QED
    BY <2>1, <2>2
<1> QED
  BY <1>6, <1>7 DEF Current, E

-----------------------------------------------------------------------------
(* The state, and the steps of the calls. *)

LEMMA Shape ==
  ASSUME TypeOK, NEW n \in Sockets
  PROVE  /\ downlink[n] \in Seq(PageMessages) /\ uplink[n] \in Seq(PageCalls)
         /\ requestId \in Nat /\ used \in Nat /\ n \in Nat /\ n > 0
<1>1. downlink[n] \in Seq(PageMessages)
  BY DEF TypeOK
<1>2. uplink[n] \in Seq(PageCalls)
  BY DEF TypeOK, PageCalls
<1>3. requestId \in Nat /\ used \in Nat /\ n \in Nat /\ n > 0
  BY DEF TypeOK, Sockets
<1> QED
  BY <1>1, <1>2, <1>3

(* The socket in use is the last one. *)
LEMMA LastSocket ==
  ASSUME TypeOK, SocketInv, NEW n \in Sockets, socket[n] \in {"connecting", "open"}
  PROVE  n = used /\ used \in Sockets /\ used > 0
<1>1. n \in Nat /\ used \in Nat
  BY Shape
<1>2. ~(n > used) /\ ~(n < used)
  BY DEF SocketInv
<1> QED
  BY <1>1, <1>2, Shape

LEMMA InUse == ASSUME TypeOK, used > 0 PROVE used \in Sockets
BY DEF TypeOK, Sockets

NewRequest(q) == [id |-> requestId + 1, of |-> q]

NewCall(q) == [id |-> requestId + 1, of |-> q, n |-> used]

Made(q) ==
    /\ requestId' = requestId + 1
    /\ pending' = pending \cup {NewCall(q)}
    /\ \/ uplink' = uplink
       \/ server[used] = "up" /\ uplink' = [uplink EXCEPT ![used] = Append(@, NewRequest(q))]

LEMMA MadeTypes ==
  ASSUME TypeOK, used \in Sockets, NEW q \in PageRequests, Made(q)
  PROVE  /\ requestId' \in Nat
         /\ uplink' \in [Sockets -> Seq(PageCalls)]
         /\ pending' \subseteq [id : 1..requestId', of : PageRequests, n : Sockets]
<1>1. requestId' \in Nat /\ requestId' = requestId + 1 /\ requestId \in Nat
  BY Shape DEF Made
<1>2. NewRequest(q) \in PageCalls
  BY <1>1 DEF NewRequest, PageCalls
<1>3. uplink \in [Sockets -> Seq(PageCalls)]
  BY DEF TypeOK, PageCalls
<1>4. Append(uplink[used], NewRequest(q)) \in Seq(PageCalls)
  BY <1>2, <1>3, AtEnd
<1>5. uplink' \in [Sockets -> Seq(PageCalls)]
  BY <1>3, <1>4 DEF Made
<1>6. NewCall(q) \in [id : 1..requestId', of : PageRequests, n : Sockets]
  BY <1>1 DEF NewCall
<1>7. pending \subseteq [id : 1..requestId', of : PageRequests, n : Sockets]
  BY <1>1 DEF TypeOK
<1> QED
  BY <1>1, <1>5, <1>6, <1>7 DEF Made

(* A page makes calls over an open socket, or none at all. *)
LEMMA CallCases ==
  ASSUME TypeOK, NEW q, NEW open \in BOOLEAN, NEW ws, open => ws = "open", Call(q, open, ws)
  PROVE  \/ ~open /\ UNCHANGED <<requestId, pending, uplink>>
         \/ open /\ Made(q)
<1>1. CASE ~open
  BY <1>1 DEF Call
<1>2. CASE open
  BY <1>2 DEF Call, Made, NewRequest, NewCall
<1> QED
  BY <1>1, <1>2

(* The buttons, and the timers of the metrics. *)
AskSteps == UpdateMetrics \/ UpdateOffline \/ DebugMetrics \/ User

LEMMA AskCases ==
  ASSUME TypeOK, SocketInv, AskSteps
  PROVE  /\ used \in Sockets
         /\ \E q \in PageRequests \ {"getValues"} :
               \/ UNCHANGED <<requestId, pending, uplink>>
               \/ socket[used] = "open" /\ Made(q)
         /\ UNCHANGED <<server, downlink, socket, used, connected, garbled, served, status, told,
                        attempts, timers, page, online, intervals, view, listing, debugged>>
         /\ metrics' \in {metrics, "default"} /\ debugs' \in Nat /\ events' \in 0..MaxEvents
<1>1. \E q \in PageRequests \ {"getValues"} : Request(q)
  <2>1. UpdateMetrics \/ UpdateOffline => Request("getMetrics")
    BY DEF UpdateMetrics, UpdateOffline
  <2>2. DebugMetrics => Request("debugMetrics")
    BY DEF DebugMetrics
  <2>3. \A c \in Commands : SendCommand(c) => c \in MonitoringCommands /\ Request(c)
    BY DEF SendCommand
  <2>4. \A c \in Commands : Administer(c) => c \in AdminCommands /\ Request(c)
    BY DEF Administer
  <2>5. /\ MonitoringCommands \subseteq PageRequests \ {"getValues"}
        /\ AdminCommands \subseteq PageRequests \ {"getValues"}
        /\ {"getMetrics", "debugMetrics"} \subseteq PageRequests \ {"getValues"}
    BY DEF MonitoringCommands, AdminCommands, PageRequests
  <2> QED
    BY <2>1, <2>2, <2>3, <2>4, <2>5 DEF AskSteps, User
<1>2. PICK q \in PageRequests \ {"getValues"} : Request(q)
  BY <1>1
<1>3. /\ used > 0 /\ Call(q, connected, socket[used])
      /\ UNCHANGED <<server, downlink, socket, used, connected, garbled, served, status, told,
                     attempts, timers>>
  BY <1>2 DEF Request, Ask
<1>4. used \in Sockets
  BY <1>3, InUse
<1>5. connected \in BOOLEAN /\ (connected <=> socket[used] = "open")
  BY <1>3 DEF TypeOK, SocketInv
<1>6. UNCHANGED <<requestId, pending, uplink>> \/ (socket[used] = "open" /\ Made(q))
  BY <1>3, <1>5, CallCases
<1>7. /\ UNCHANGED <<page, online, intervals, view, listing, debugged>>
      /\ metrics' \in {metrics, "default"}
  BY DEF AskSteps, UpdateMetrics, UpdateOffline, DebugMetrics, User, SendCommand, Administer
<1>8. debugs' \in Nat
  BY DEF TypeOK, AskSteps, UpdateMetrics, UpdateOffline, DebugMetrics, User, SendCommand, Administer
<1>9. events' \in 0..MaxEvents
  <2>1. events' = events \/ Count
    BY DEF AskSteps, UpdateMetrics, UpdateOffline, DebugMetrics, User, SendCommand, Administer
  <2> QED
    BY <2>1 DEF Count, TypeOK
<1> QED
  BY <1>2, <1>3, <1>4, <1>6, <1>7, <1>8, <1>9

-----------------------------------------------------------------------------
(* The order of the messages and the calls they are of, after the steps of   *)
(* one connection and after a call.                                          *)

(* Nothing new is on its way, and no call is settled. *)
LEMMA LinkStep ==
  ASSUME TypeOK, OrderInv, RoundInv,
         \A k \in Sockets : /\ Ordered(downlink'[k], uplink'[k])
                            /\ Round(downlink'[k], uplink'[k]) \subseteq Round(downlink[k], uplink[k])
                            /\ socket'[k] # "closed" => socket[k] # "closed",
         UNCHANGED <<requestId, pending, debugged>>
  PROVE  OrderInv' /\ RoundInv'
<1>1. OrderInv'
  BY DEF OrderInv
<1>2. RoundInv'
  BY DEF RoundInv, Accounted
<1> QED
  BY <1>1, <1>2

(* A request is added over the last socket, which is open; at most one       *)
(* message was taken before.                                                 *)
LEMMA MadeStep ==
  ASSUME TypeOK, OrderInv, RoundInv, PendingInv, used \in Sockets, NEW q \in PageRequests, Made(q),
         \A k \in Sockets : /\ Ordered(downlink'[k], uplink[k])
                            /\ Round(downlink'[k], uplink[k]) \subseteq Round(downlink[k], uplink[k])
                            /\ socket'[k] # "closed" => socket[k] # "closed",
         UNCHANGED <<used, debugged>>
  PROVE  OrderInv' /\ RoundInv' /\ PendingInv'
<1>1. requestId' = requestId + 1 /\ requestId \in Nat
  BY Shape DEF Made
<1>2. NewRequest(q) \in PageCalls /\ NewRequest(q).id = requestId + 1 /\ Mark(NewRequest(q)) = NewRequest(q)
  BY <1>1 DEF NewRequest, PageCalls, Mark
<1>3. ASSUME NEW k \in Sockets
      PROVE  /\ Ordered(downlink'[k], uplink'[k])
             /\ \A x \in Round(downlink'[k], uplink'[k]) :
                   x \in Round(downlink[k], uplink[k]) \/ (k = used /\ x = NewRequest(q))
  <2>1. CASE uplink'[k] = uplink[k]
    BY <2>1
  <2>2. CASE k = used /\ uplink'[k] = Append(uplink[k], NewRequest(q))
    <3>1. \A x \in Round(downlink'[k], uplink[k]) : x.id < NewRequest(q).id
      <4>1. \A x \in Round(downlink'[k], uplink[k]) : x.id \in 1..requestId
        BY DEF RoundInv, Accounted
      <4> QED
        BY <1>1, <1>2, <4>1
    <3>2. uplink[k] \in Seq(PageCalls)
      BY Shape
    <3>3. /\ Ordered(downlink'[k], Append(uplink[k], NewRequest(q)))
          /\ Round(downlink'[k], Append(uplink[k], NewRequest(q)))
                \subseteq Round(downlink'[k], uplink[k]) \cup {Mark(NewRequest(q))}
      BY <1>2, <3>1, <3>2, Requested
    <3> QED
      BY <1>2, <2>2, <3>3
  <2>3. uplink' = uplink \/ uplink' = [uplink EXCEPT ![used] = Append(@, NewRequest(q))]
    BY DEF Made
  <2> QED
    BY <2>1, <2>2, <2>3 DEF TypeOK
<1>4. OrderInv'
  BY <1>3 DEF OrderInv
<1>5. NewCall(q) = [id |-> NewRequest(q).id, of |-> NewRequest(q).of, n |-> used]
  BY DEF NewCall, NewRequest
<1>6. Proper(NewRequest(q))
  BY DEF Proper, NewRequest, PageRequests, MonitoringCommands, AdminCommands
<1>7. NewCall(q) \in pending' /\ pending \subseteq pending' /\ NewRequest(q).id \in 1..requestId'
  BY <1>1, <1>2 DEF Made
<1>8. RoundInv'
  <2> SUFFICES ASSUME NEW k \in Sockets, NEW x \in Round(downlink'[k], uplink'[k])
               PROVE  /\ x.id \in 1..requestId'
                      /\ ~Proper(x) => x.id = 1 /\ debugged'
                      /\ Proper(x) /\ socket'[k] # "closed" => [id |-> x.id, of |-> x.of, n |-> k] \in pending'
    BY DEF RoundInv, Accounted, Proper
  <2>1. CASE x \in Round(downlink[k], uplink[k])
    BY <1>1, <1>7, <2>1 DEF RoundInv, Accounted
  <2>2. CASE k = used /\ x = NewRequest(q)
    BY <1>5, <1>6, <1>7, <2>2
  <2> QED
    BY <1>3, <2>1, <2>2
<1>9. PendingInv'
  <2>1. IsFiniteSet(pending')
    BY FS_AddElement DEF Made, PendingInv
  <2>2. NewCall(q).n = used /\ NewCall(q).id = requestId + 1
    BY DEF NewCall
  <2>3. \A r \in pending : r.id # requestId + 1
    BY <1>1 DEF TypeOK
  <2>4. \A r \in pending' : r.n <= used
    BY <2>2, Shape DEF Made, PendingInv
  <2>5. \A r, s \in pending' : r.id = s.id => r = s
    BY <2>2, <2>3 DEF Made, PendingInv
  <2> QED
    BY <2>1, <2>4, <2>5 DEF PendingInv
<1> QED
  BY <1>4, <1>8, <1>9

-----------------------------------------------------------------------------
(* How many calls of getValues there are. *)

LEMMA AskingFinite ==
  ASSUME PendingInv
  PROVE  IsFiniteSet(Asking) /\ Cardinality(Asking) \in Nat
BY FS_Subset, FS_CardinalityType DEF PendingInv, Asking

LEMMA AskingLess ==
  ASSUME PendingInv, pending' \subseteq pending, used' = used
  PROVE  Cardinality(Asking') \in Nat /\ Cardinality(Asking') <= Cardinality(Asking)
<1>1. Asking' \subseteq Asking
  BY DEF Asking
<1> QED
  BY <1>1, AskingFinite, FS_Subset, FS_CardinalityType

LEMMA AskingMade ==
  ASSUME PendingInv, NEW q, Made(q), used' = used
  PROVE  /\ Cardinality(Asking') \in Nat /\ Cardinality(Asking') <= Cardinality(Asking) + 1
         /\ q # "getValues" => Asking' = Asking
<1>1. Asking' \subseteq Asking \cup {NewCall(q)}
  BY DEF Asking, Made
<1>2. IsFiniteSet(Asking) /\ Cardinality(Asking) \in Nat
  BY AskingFinite
<1>3. IsFiniteSet(Asking \cup {NewCall(q)}) /\ Cardinality(Asking \cup {NewCall(q)}) <= Cardinality(Asking) + 1
  BY <1>2, FS_AddElement
<1>4. IsFiniteSet(Asking') /\ Cardinality(Asking') <= Cardinality(Asking \cup {NewCall(q)})
  BY <1>1, <1>3, FS_Subset
<1>5. Cardinality(Asking') \in Nat /\ Cardinality(Asking \cup {NewCall(q)}) \in Nat
  BY <1>3, <1>4, FS_CardinalityType
<1>6. q # "getValues" => Asking' = Asking
  BY DEF Asking, Made, NewCall
<1> QED
  BY <1>2, <1>3, <1>4, <1>5, <1>6

LEMMA AskingSettled ==
  ASSUME PendingInv, NEW r \in Asking, pending' = pending \ {r}, used' = used
  PROVE  Cardinality(Asking') \in Nat /\ Cardinality(Asking') = Cardinality(Asking) - 1
<1>1. Asking' = Asking \ {r}
  BY DEF Asking
<1> QED
  BY <1>1, AskingFinite, FS_RemoveElement, FS_CardinalityType

(* Nothing to do with the intervals. *)
LEMMA IntervalStep ==
  ASSUME TypeOK, PendingInv, IntervalInv, intervals' = intervals, used' = used,
         Cardinality(Asking') \in Nat, Cardinality(Asking') <= Cardinality(Asking),
         Owed' \in Nat, Owed' <= Owed
  PROVE  IntervalInv'
<1>1. intervals \in Nat /\ used \in Nat /\ Cardinality(Asking) \in Nat /\ Owed \in Nat
  BY AskingFinite, Shape DEF TypeOK, Owed
<1> QED
  BY <1>1 DEF IntervalInv

LEMMA OwedStep ==
  ASSUME TypeOK, used' = used, socket' = socket,
         used > 0 /\ socket[used] = "open" /\ Greeting(downlink'[used]) => Greeting(downlink[used])
  PROVE  Owed' \in Nat /\ Owed' <= Owed
<1>1. Owed' = IF used = 0 THEN 0
              ELSE IF socket[used] = "connecting" THEN 2
              ELSE IF socket[used] = "open" /\ Greeting(downlink'[used]) THEN 1
              ELSE 0
  BY DEF Owed, Greeting
<1> QED
  BY <1>1, Shape DEF Owed, TypeOK

(* The welcome is sent once, and is the first to be taken. *)
LEMMA GreetingSent ==
  ASSUME NEW D \in Seq(PageMessages), NEW m \in PageMessages, m.kind # "connected", WelcomeFirst(D)
  PROVE  WelcomeFirst(Append(D, m)) /\ (Greeting(Append(D, m)) => Greeting(D))
<1> DEFINE E == Append(D, m)
<1>1. \A i \in DOMAIN E : (i \in DOMAIN D /\ E[i] = D[i]) \/ E[i] = m
  BY AtEnd
<1> HIDE DEF E
<1>2. \A i \in DOMAIN E : E[i].kind = "connected" => i \in DOMAIN D /\ E[i] = D[i]
  BY <1>1
<1> QED
  BY <1>2 DEF WelcomeFirst, Greeting, E

LEMMA GreetingTaken ==
  ASSUME NEW D \in Seq(PageMessages), D # <<>>, WelcomeFirst(D)
  PROVE  WelcomeFirst(Tail(D)) /\ ~Greeting(Tail(D))
<1> DEFINE E == Tail(D)
<1>1. \A i \in DOMAIN E : i + 1 \in DOMAIN D /\ E[i] = D[i + 1] /\ i + 1 # 1
  BY AtFront
<1> HIDE DEF E
<1>2. \A i \in DOMAIN E : E[i].kind # "connected"
  BY <1>1 DEF WelcomeFirst
<1> QED
  BY <1>2 DEF WelcomeFirst, Greeting, E

LEMMA EmptyQueue == WelcomeFirst(<<>>) /\ Results(<<>>) = {} /\ ~Greeting(<<>>)
<1>1. DOMAIN <<>> = {}
  OBVIOUS
<1> QED
  BY <1>1 DEF WelcomeFirst, Results, Greeting

LEMMA MessageKinds ==
  /\ Welcome \in PageMessages /\ Welcome.kind = "connected" /\ Welcome.id = 0
  /\ \A v \in Texts : [kind |-> "valueChanged", value |-> v] \in PageMessages
  /\ \A m \in PageMessages : m.kind \in {"result", "error"} =>
        m.kind = "result" /\ m.id \in Nat /\ m.of \in PageRequests \cup {"getValue"} /\ m.value \in Texts
  /\ \A m \in PageMessages : m.kind = "valueChanged" => m.value \in Texts
BY DEF PageMessages, Welcome, Texts

(* The queues of the other connections stay as they are. *)
LEMMA SameLink ==
  ASSUME OrderInv, NEW k \in Sockets, downlink'[k] = downlink[k], uplink'[k] = uplink[k]
  PROVE  /\ Ordered(downlink'[k], uplink'[k])
         /\ Round(downlink'[k], uplink'[k]) \subseteq Round(downlink[k], uplink[k])
BY DEF OrderInv

-----------------------------------------------------------------------------
(* The steps of the server. *)

LEMMA AcceptStep == ASSUME IInv, NEW n \in Sockets, Accept(n), UNCHANGED pageVars PROVE IInv'
<1> USE DEF IInv
<1>1. /\ server[n] = "none" /\ socket[n] # "none" /\ server' = [server EXCEPT ![n] = "up"]
      /\ UNCHANGED <<uplink, socket, used, connected, requestId, pending, served, status, told, attempts, timers>>
      /\ UNCHANGED pageVars
  BY DEF Accept, Establish
<1>2. /\ garbled' \subseteq Nat
      /\ \/ downlink' = downlink
         \/ downlink' = [downlink EXCEPT ![n] = Append(@, Welcome)]
  <2>1. CASE Establish(n)
    <3>1. Write(n, Welcome)
      BY <2>1 DEF Establish
    <3>2. Welcome.id \in Nat /\ garbled \subseteq Nat
      BY MessageKinds DEF TypeOK
    <3> QED
      BY <3>1, <3>2 DEF Write
  <2>2. CASE UNCHANGED <<downlink, garbled>>
    BY <2>2 DEF TypeOK
  <2> QED
    BY <2>1, <2>2 DEF Accept
<1>3. downlink[n] = <<>> /\ socket[n] # "open"
  BY <1>1 DEF FreshInv, Fresh
<1>4. downlink[n] \in Seq(PageMessages) /\ Append(downlink[n], Welcome) \in Seq(PageMessages)
  BY Shape, AtEnd, MessageKinds
<1>5. TypeOK'
  <2>1. downlink' \in [Sockets -> Seq(PageMessages)]
    BY <1>2, <1>4 DEF TypeOK
  <2> QED
    BY <1>1, <1>2, <2>1 DEF TypeOK
<1>6. \A k \in Sockets \ {n} : downlink'[k] = downlink[k] /\ server'[k] = server[k]
  BY <1>1, <1>2 DEF TypeOK
<1>7. downlink'[n] \in {downlink[n], Append(downlink[n], Welcome)} /\ server'[n] = "up"
  BY <1>1, <1>2 DEF TypeOK
<1>8. WelcomeFirst(downlink'[n]) /\ Results(downlink'[n]) = {}
  <2>1. CASE downlink'[n] = <<>>
    BY <2>1, EmptyQueue
  <2>2. CASE downlink'[n] = Append(<<>>, Welcome)
    <3>1. DOMAIN downlink'[n] = {1} /\ downlink'[n][1] = Welcome
      BY <2>2
    <3> QED
      BY <3>1, MessageKinds DEF WelcomeFirst, Results
  <2> QED
    BY <1>3, <1>7, <2>1, <2>2
<1>9. FreshInv'
  <2>1. Fresh(n)'
    BY <1>1, <1>7, <1>8 DEF FreshInv, Fresh
  <2>2. \A k \in Sockets \ {n} : Fresh(k)'
    BY <1>1, <1>6 DEF FreshInv, Fresh
  <2> QED
    BY <2>1, <2>2 DEF FreshInv
<1>10. OrderInv' /\ RoundInv'
  <2>1. /\ Ordered(downlink'[n], uplink[n])
        /\ Round(downlink'[n], uplink[n]) \subseteq Round(downlink[n], uplink[n])
    BY <1>4, <1>7, Sent, MessageKinds DEF OrderInv
  <2> QED
    BY <1>1, <1>6, <2>1, LinkStep, SameLink
<1>11. SocketInv' /\ PendingInv'
  BY <1>1 DEF SocketInv, PendingInv
<1>12. ViewInv'
  <2> SUFFICES ASSUME told PROVE /\ used > 0 /\ server'[used] # "none"
                                 /\ page = "monitoring" /\ server'[used] = "up" /\ socket[used] # "closed" =>
                                       Current(downlink'[used], view, status)
    BY <1>1 DEF ViewInv
  <2>1. used > 0 /\ server[used] # "none"
    BY DEF ViewInv
  <2>2. used \in Sockets \ {n}
    BY <1>1, <2>1, InUse
  <2> QED
    BY <1>6, <2>1, <2>2 DEF ViewInv
<1>13. IntervalInv'
  <2>1. used > 0 /\ socket[used] = "open" => used \in Sockets \ {n}
    BY <1>3, InUse
  <2>2. Owed' \in Nat /\ Owed' <= Owed
    BY <1>1, <1>6, <2>1, OwedStep
  <2> QED
    BY <1>1, <2>2, AskingLess, IntervalStep
<1> QED
  BY <1>5, <1>9, <1>10, <1>11, <1>12, <1>13

(* An answer leaves and tells the value, or nothing does; then the value was *)
(* not told, unless it has not changed.                                      *)
Notice(value) == [kind |-> "valueChanged", value |-> value]

(* A notification changes nothing of the calls. *)
LEMMA NoticeQueues ==
  ASSUME TypeOK, FreshInv, OrderInv, NEW N, NEW value \in Texts, Notify(N, value)
  PROVE  /\ downlink' \in [Sockets -> Seq(PageMessages)]
         /\ \A k \in Sockets :
              /\ downlink'[k] = IF k \in N /\ Listening(k) THEN Append(downlink[k], Notice(value))
                               ELSE downlink[k]
              /\ Results(downlink'[k]) = {} \/ Results(downlink[k]) # {}
              /\ WelcomeFirst(downlink'[k])
              /\ Greeting(downlink'[k]) => Greeting(downlink[k])
              /\ Ordered(downlink'[k], uplink[k])
              /\ Round(downlink'[k], uplink[k]) \subseteq Round(downlink[k], uplink[k])
<1> DEFINE m == Notice(value)
<1>1. downlink' = [k \in Sockets |-> IF k \notin N \/ ~Listening(k) THEN downlink[k]
                                     ELSE Append(downlink[k], m)]
  BY DEF Notify, Notice
<1>2. m \in PageMessages /\ m.kind = "valueChanged"
  BY MessageKinds DEF Notice
<1>3. ASSUME NEW k \in Sockets
      PROVE  /\ downlink[k] \in Seq(PageMessages) /\ Append(downlink[k], m) \in Seq(PageMessages)
             /\ downlink'[k] = IF k \in N /\ Listening(k) THEN Append(downlink[k], m) ELSE downlink[k]
  BY <1>1, <1>2, Shape, AtEnd
<1>4. downlink' \in [Sockets -> Seq(PageMessages)]
  BY <1>1, <1>3
<1> HIDE DEF m
<1>5. ASSUME NEW k \in Sockets
      PROVE  /\ Results(downlink'[k]) = {} \/ Results(downlink[k]) # {}
             /\ WelcomeFirst(downlink'[k])
             /\ Greeting(downlink'[k]) => Greeting(downlink[k])
             /\ Ordered(downlink'[k], uplink[k])
             /\ Round(downlink'[k], uplink[k]) \subseteq Round(downlink[k], uplink[k])
  <2>1. WelcomeFirst(downlink[k]) /\ Ordered(downlink[k], uplink[k])
    BY DEF FreshInv, Fresh, OrderInv
  <2>2. CASE downlink'[k] = downlink[k]
    BY <2>1, <2>2
  <2>3. CASE downlink'[k] = Append(downlink[k], m)
    <3>1. m.kind # "result" /\ m.kind # "connected"
      BY <1>2
    <3>2. \A i \in DOMAIN Append(downlink[k], m) : (i \in DOMAIN downlink[k] /\ Append(downlink[k], m)[i] = downlink[k][i])
                                                   \/ Append(downlink[k], m)[i] = m
      BY <1>2, <1>3, AtEnd
    <3>3. Results(Append(downlink[k], m)) \subseteq Results(downlink[k])
      BY <3>1, <3>2 DEF Results
    <3> QED
      BY <1>2, <1>3, <2>1, <2>3, <3>1, <3>3, GreetingSent, Sent
  <2> QED
    BY <1>3, <2>2, <2>3
<1> QED
  BY <1>3, <1>4, <1>5 DEF m

AnswerTo(r) == [kind |-> "result", id |-> r.id, of |-> r.of, value |-> status]

LEMMA AnswerCases ==
  ASSUME TypeOK, NEW n \in Sockets, Answer(n)
  PROVE  LET r == Head(uplink[n]) IN
         /\ garbled' \subseteq Nat /\ status' \in Statuses /\ told' \in BOOLEAN
         /\ \/ downlink' = downlink /\ (told' => told /\ status' = status)
            \/ Notify(Sockets \ {n}, "reset") /\ (told' => told /\ status' = status /\ n = used)
            \/ /\ socket[n] # "closed" /\ status' = status
               /\ downlink' = [downlink EXCEPT ![n] = Append(@, AnswerTo(r))]
               /\ told' => told \/ (n = used /\ r.of = "getValues")
<1> DEFINE r == Head(uplink[n])
<1>1. uplink[n] # <<>>
  BY DEF Answer
<1>2. r \in PageCalls
  BY <1>1, Shape, AtFront
<1> HIDE DEF r
<1>3. /\ garbled \subseteq Nat /\ status \in Statuses /\ told \in BOOLEAN /\ r.id \in Nat
      /\ {"running", "charging", "ready"} = Statuses
  BY <1>2 DEF TypeOK, Statuses, PageCalls
<1>4. \/ Change(r, "charging") \/ Change(r, "ready") \/ Reset(n, r) \/ ChangeOther(r) \/ Reply(n, r)
  BY DEF Answer, r
<1>5. CASE Change(r, "charging") \/ Change(r, "ready")
  BY <1>3, <1>5 DEF Change, Silent, r
<1>6. CASE Reset(n, r)
  BY <1>3, <1>6 DEF Reset, Silent, r
<1>7. CASE ChangeOther(r)
  BY <1>3, <1>7 DEF ChangeOther, r
<1>8. CASE Reply(n, r)
  <2> DEFINE m == AnswerTo(r)
  <2>1. Write(n, m) /\ m.id = r.id /\ status' = status
        /\ told' = (told \/ (n = used /\ r.of = "getValues" /\ downlink' # downlink))
    BY <1>8 DEF Reply, AnswerTo
  <2> HIDE DEF m
  <2>2. garbled' \subseteq Nat
    BY <1>3, <2>1 DEF Write
  <2>3. \/ downlink' = downlink
        \/ socket[n] # "closed" /\ downlink' = [downlink EXCEPT ![n] = Append(@, m)]
    BY <2>1 DEF Write
  <2>4. told' \in BOOLEAN /\ (downlink' = downlink => (told' => told))
    BY <1>3, <2>1
  <2>5. told' => told \/ (n = used /\ r.of = "getValues")
    BY <2>1
  <2> QED
    BY <1>3, <2>1, <2>2, <2>3, <2>4, <2>5 DEF m, r
<1> QED
  BY <1>4, <1>5, <1>6, <1>7, <1>8

LEMMA AnswerStep == ASSUME IInv, NEW n \in Sockets, Answer(n), UNCHANGED pageVars PROVE IInv'
<1> USE DEF IInv
<1> DEFINE r == Head(uplink[n])
<1> DEFINE m == AnswerTo(r)
<1>1. /\ server[n] = "up" /\ uplink[n] # <<>> /\ uplink' = [uplink EXCEPT ![n] = Tail(@)]
      /\ UNCHANGED <<server, socket, used, connected, requestId, pending, served, attempts, timers>>
      /\ UNCHANGED pageVars
  BY DEF Answer
<1>2. /\ garbled' \subseteq Nat /\ status' \in Statuses /\ told' \in BOOLEAN
      /\ \/ downlink' = downlink /\ (told' => told /\ status' = status)
         \/ Notify(Sockets \ {n}, "reset") /\ (told' => told /\ status' = status /\ n = used)
         \/ /\ socket[n] # "closed" /\ status' = status
            /\ downlink' = [downlink EXCEPT ![n] = Append(@, m)]
            /\ told' => told \/ (n = used /\ r.of = "getValues")
  BY AnswerCases
<1>3. /\ downlink[n] \in Seq(PageMessages) /\ uplink[n] \in Seq(PageCalls)
      /\ r \in PageCalls /\ Tail(uplink[n]) \in Seq(PageCalls)
  BY <1>1, Shape, AtFront
<1>4. m \in PageMessages /\ m.kind = "result" /\ m.id = r.id /\ m.of = r.of /\ m.value = status
  BY <1>3 DEF AnswerTo, PageMessages, PageCalls, TypeOK, Texts
<1> HIDE DEF r, m
<1>5. Append(downlink[n], m) \in Seq(PageMessages)
  BY <1>3, <1>4, AtEnd
<1>6. /\ downlink' \in [Sockets -> Seq(PageMessages)]
      /\ downlink'[n] \in {downlink[n], Append(downlink[n], m)}
      /\ \A k \in Sockets \ {n} :
            /\ downlink'[k] = downlink[k] \/ Listening(k)
            /\ Results(downlink'[k]) = {} \/ Results(downlink[k]) # {}
            /\ WelcomeFirst(downlink'[k])
            /\ Greeting(downlink'[k]) => Greeting(downlink[k])
            /\ Ordered(downlink'[k], uplink[k])
            /\ Round(downlink'[k], uplink[k]) \subseteq Round(downlink[k], uplink[k])
  <2>1. CASE downlink' \in {downlink, [downlink EXCEPT ![n] = Append(@, m)]}
    <3>1. downlink'[n] \in {downlink[n], Append(downlink[n], m)} /\ downlink' \in [Sockets -> Seq(PageMessages)]
      BY <1>5, <2>1 DEF TypeOK
    <3>2. \A k \in Sockets \ {n} : downlink'[k] = downlink[k]
      BY <2>1 DEF TypeOK
    <3>3. \A k \in Sockets : WelcomeFirst(downlink[k]) /\ Ordered(downlink[k], uplink[k])
      BY DEF FreshInv, Fresh, OrderInv
    <3> QED
      BY <3>1, <3>2, <3>3
  <2>2. CASE Notify(Sockets \ {n}, "reset")
    <3>1. "reset" \in Texts
      BY DEF Texts
    <3>2. /\ downlink' \in [Sockets -> Seq(PageMessages)]
          /\ \A k \in Sockets :
              /\ downlink'[k] = IF k \in Sockets \ {n} /\ Listening(k) THEN Append(downlink[k], Notice("reset"))
                               ELSE downlink[k]
              /\ Results(downlink'[k]) = {} \/ Results(downlink[k]) # {}
              /\ WelcomeFirst(downlink'[k])
              /\ Greeting(downlink'[k]) => Greeting(downlink[k])
              /\ Ordered(downlink'[k], uplink[k])
              /\ Round(downlink'[k], uplink[k]) \subseteq Round(downlink[k], uplink[k])
      BY <2>2, <3>1, NoticeQueues
    <3>3. downlink'[n] = downlink[n]
      BY <3>2
    <3> QED
      BY <3>2, <3>3
  <2> QED
    BY <1>2, <2>1, <2>2
<1>7. TypeOK'
  <2>1. uplink' \in [Sockets -> Seq(PageCalls)]
    BY <1>1, <1>3 DEF TypeOK, PageCalls
  <2> QED
    BY <1>1, <1>2, <1>6, <2>1 DEF TypeOK, PageCalls
<1>8. uplink'[n] = Tail(uplink[n]) /\ \A k \in Sockets \ {n} : uplink'[k] = uplink[k]
  BY <1>1 DEF TypeOK
<1>9. socket[n] \in {"open", "closed"}
  BY <1>1 DEF FreshInv, Fresh, TypeOK
<1>10. WelcomeFirst(downlink'[n]) /\ (Greeting(downlink'[n]) => Greeting(downlink[n]))
  <2>1. WelcomeFirst(downlink[n]) /\ m.kind # "connected"
    BY <1>4 DEF FreshInv, Fresh
  <2>2. WelcomeFirst(Append(downlink[n], m)) /\ (Greeting(Append(downlink[n], m)) => Greeting(downlink[n]))
    BY <1>3, <1>4, <2>1, GreetingSent
  <2> QED
    BY <1>6, <2>1, <2>2
<1>11. FreshInv'
  <2>1. Fresh(n)'
    BY <1>1, <1>9, <1>10 DEF FreshInv, Fresh
  <2>2. ASSUME NEW k \in Sockets \ {n} PROVE Fresh(k)'
    BY <1>1, <1>6, <1>8 DEF FreshInv, Fresh, Listening
  <2> QED
    BY <2>1, <2>2 DEF FreshInv
<1>12. OrderInv' /\ RoundInv'
  <2>1. /\ Ordered(downlink[n], Tail(uplink[n]))
        /\ Round(downlink[n], Tail(uplink[n])) \subseteq Round(downlink[n], uplink[n])
        /\ Mark(r) \in Round(downlink[n], uplink[n])
        /\ \A j \in DOMAIN Tail(uplink[n]) : Proper(Tail(uplink[n])[j]) => r.id < Tail(uplink[n])[j].id
        /\ \A i \in Results(downlink[n]) : Proper(r) => downlink[n][i].id < r.id
    BY <1>1, <1>3, Read DEF OrderInv, r
  <2>2. Mark(m) = Mark(r) /\ (Proper(m) <=> Proper(r))
    BY <1>4 DEF Mark, Proper
  <2>3. /\ Ordered(Append(downlink[n], m), Tail(uplink[n]))
        /\ Round(Append(downlink[n], m), Tail(uplink[n]))
              \subseteq Round(downlink[n], Tail(uplink[n])) \cup {Mark(m)}
    BY <1>3, <1>4, <2>1, <2>2, Replied
  <2>4. /\ Ordered(downlink'[n], uplink'[n])
        /\ Round(downlink'[n], uplink'[n]) \subseteq Round(downlink[n], uplink[n])
    BY <1>6, <1>8, <2>1, <2>2, <2>3
  <2>5. \A k \in Sockets : /\ Ordered(downlink'[k], uplink'[k])
                            /\ Round(downlink'[k], uplink'[k]) \subseteq Round(downlink[k], uplink[k])
    BY <1>6, <1>8, <2>4
  <2> QED
    BY <1>1, <2>5, LinkStep
<1>13. SocketInv' /\ PendingInv'
  BY <1>1 DEF SocketInv, PendingInv
<1>14. ViewInv'
  <2> SUFFICES ASSUME told' PROVE /\ used > 0 /\ server[used] # "none"
                                  /\ page = "monitoring" /\ server[used] = "up" /\ socket[used] # "closed" =>
                                       Current(downlink'[used], view, status')
    BY <1>1 DEF ViewInv
  <2>1. CASE downlink' = downlink /\ told /\ status' = status
    BY <2>1 DEF ViewInv
  <2>2. CASE /\ status' = status /\ downlink'[n] = Append(downlink[n], m)
             /\ \A k \in Sockets \ {n} : downlink'[k] = downlink[k]
             /\ told \/ (n = used /\ r.of = "getValues")
    <3>1. used > 0 /\ server[used] # "none"
      BY <1>1, <2>2, Shape DEF ViewInv
    <3>2. CASE n = used /\ r.of = "getValues"
      <4>1. Tells(m) /\ m.value = status
        BY <1>4, <3>2 DEF Tells
      <4> QED
        BY <1>3, <1>4, <2>2, <3>1, <3>2, <4>1, CurrentSent
    <3>3. CASE n = used /\ r.of # "getValues"
      <4>1. ~Tells(m) /\ told
        BY <1>4, <2>2, <3>3 DEF Tells
      <4> QED
        BY <1>3, <1>4, <2>2, <3>1, <3>3, <4>1, CurrentSent DEF ViewInv
    <3>4. CASE n # used
      <4>1. used \in Sockets \ {n} /\ told
        BY <2>2, <3>1, <3>4, InUse
      <4> QED
        BY <2>2, <3>1, <4>1 DEF ViewInv
    <3> QED
      BY <3>2, <3>3, <3>4
  <2>3. CASE Notify(Sockets \ {n}, "reset") /\ told /\ status' = status /\ n = used
    <3>1. "reset" \in Texts
      BY DEF Texts
    <3>2. downlink'[n] = downlink[n]
      BY <2>3, <3>1, NoticeQueues
    <3> QED
      BY <2>3, <3>2 DEF ViewInv
  <2> QED
    BY <1>2, <2>1, <2>2, <2>3 DEF TypeOK
<1>15. IntervalInv'
  <2>1. used > 0 /\ Greeting(downlink'[used]) => Greeting(downlink[used])
    BY <1>6, <1>10, InUse
  <2>2. Owed' \in Nat /\ Owed' <= Owed
    BY <1>1, <2>1, OwedStep
  <2> QED
    BY <1>1, <2>2, AskingLess, IntervalStep
<1> QED
  BY <1>7, <1>11, <1>12, <1>13, <1>14, <1>15

(* Requests are ignored, or lost with their connection. *)
LEMMA IgnoreStep ==
  ASSUME IInv, NEW n \in Sockets, Ignore(n) \/ Leave(n), UNCHANGED pageVars
  PROVE  IInv'
<1> USE DEF IInv
<1>1. /\ server[n] = "up" /\ \/ server' = server
                             \/ server' = [server EXCEPT ![n] = "down"]
      /\ \/ uplink[n] # <<>> /\ uplink' = [uplink EXCEPT ![n] = Tail(@)]
         \/ uplink' = [uplink EXCEPT ![n] = <<>>]
      /\ UNCHANGED <<downlink, socket, used, connected, requestId, pending, garbled, served, status,
                     told, attempts, timers>>
      /\ UNCHANGED pageVars
  BY DEF Ignore, Leave, Closed
<1>2. uplink[n] \in Seq(PageCalls)
  BY Shape
<1>3. \/ uplink[n] # <<>> /\ uplink'[n] = Tail(uplink[n])
      \/ uplink'[n] = <<>>
  BY <1>1 DEF TypeOK
<1>4. uplink'[n] \in Seq(PageCalls)
  <2>1. uplink[n] # <<>> => Tail(uplink[n]) \in Seq(PageCalls)
    BY <1>2, AtFront
  <2>2. <<>> \in Seq(PageCalls)
    OBVIOUS
  <2> QED
    BY <1>3, <2>1, <2>2
<1>5. TypeOK'
  <2>1. uplink' \in [Sockets -> Seq(PageCalls)]
    BY <1>1, <1>4 DEF TypeOK, PageCalls
  <2>2. server' \in [Sockets -> {"none", "up", "down"}]
    BY <1>1 DEF TypeOK
  <2> QED
    BY <1>1, <2>1, <2>2 DEF TypeOK, PageCalls
<1>6. \A k \in Sockets \ {n} : uplink'[k] = uplink[k] /\ server'[k] = server[k]
  BY <1>1 DEF TypeOK
<1>7. server'[n] \in {"up", "down"}
  BY <1>1 DEF TypeOK
<1>8. FreshInv'
  <2>1. Fresh(n)'
    <3>1. socket[n] # "none"
      BY <1>1 DEF FreshInv, Fresh
    <3>2. uplink[n] = <<>> => uplink'[n] = <<>>
      BY <1>3
    <3> QED
      BY <1>1, <1>7, <3>1, <3>2 DEF FreshInv, Fresh
  <2>2. \A k \in Sockets \ {n} : Fresh(k)'
    BY <1>1, <1>6 DEF FreshInv, Fresh
  <2> QED
    BY <2>1, <2>2 DEF FreshInv
<1>9. OrderInv' /\ RoundInv'
  <2>1. Ordered(downlink[n], uplink[n])
    BY DEF OrderInv
  <2>2. /\ Ordered(downlink[n], uplink'[n])
        /\ Round(downlink[n], uplink'[n]) \subseteq Round(downlink[n], uplink[n])
    <3>1. CASE uplink'[n] = <<>>
      BY <2>1, <3>1, Emptied
    <3>2. CASE uplink[n] # <<>> /\ uplink'[n] = Tail(uplink[n])
      BY <1>2, <2>1, <3>2, Read
    <3> QED
      BY <1>3, <3>1, <3>2
  <2> QED
    BY <1>1, <1>6, <2>2, LinkStep, SameLink
<1>10. SocketInv' /\ PendingInv'
  BY <1>1 DEF SocketInv, PendingInv
<1>11. ViewInv'
  <2> SUFFICES ASSUME told PROVE /\ used > 0 /\ server'[used] # "none"
                                 /\ page = "monitoring" /\ server'[used] = "up" /\ socket[used] # "closed" =>
                                       Current(downlink[used], view, status)
    BY <1>1 DEF ViewInv
  <2>1. used \in Sockets /\ server[used] # "none"
    BY InUse DEF ViewInv
  <2>2. server'[used] # "none" /\ (server'[used] = "up" => server[used] = "up")
    BY <1>1, <1>6, <1>7, <2>1
  <2> QED
    BY <2>2 DEF ViewInv
<1>12. IntervalInv'
  <2>1. Owed' \in Nat /\ Owed' <= Owed
    BY <1>1, OwedStep
  <2> QED
    BY <1>1, <2>1, AskingLess, IntervalStep
<1> QED
  BY <1>5, <1>8, <1>9, <1>10, <1>11, <1>12

(* Another page changes the status: the connections are told a status, or     *)
(* none can read it.                                                         *)
LEMMA OthersStep == ASSUME IInv, OthersChange PROVE IInv'
<1> USE DEF IInv
<1>0. PICK value \in Statuses : status' = value
  BY DEF OthersChange, Elsewhere, Statuses, Silent
<1>1. /\ \/ downlink' = downlink /\ told' = FALSE
         \/ /\ Notify(Sockets, value)
            /\ told' = (used > 0 /\ Listening(used))
         \/ Notify(Sockets, "reset") /\ told' = FALSE
      /\ UNCHANGED <<server, uplink, socket, used, connected, requestId, pending, garbled, served, attempts, timers,
                     page, online, intervals, view, metrics, listing, debugs, debugged>>
  BY <1>0 DEF OthersChange, Elsewhere, Statuses, Silent
<1>2. events' \in 0..MaxEvents
  BY DEF OthersChange, Count, TypeOK
<1>3. told' \in BOOLEAN /\ value \in Texts /\ "reset" \in Texts
  BY <1>1 DEF Listening, Texts
<1>4. /\ downlink' \in [Sockets -> Seq(PageMessages)]
      /\ \A k \in Sockets :
           /\ downlink'[k] = downlink[k] \/ Listening(k)
           /\ Results(downlink'[k]) = {} \/ Results(downlink[k]) # {}
           /\ WelcomeFirst(downlink'[k])
           /\ Greeting(downlink'[k]) => Greeting(downlink[k])
           /\ Ordered(downlink'[k], uplink[k])
           /\ Round(downlink'[k], uplink[k]) \subseteq Round(downlink[k], uplink[k])
  <2>1. CASE downlink' = downlink
    BY <2>1 DEF TypeOK, FreshInv, Fresh, OrderInv
  <2>2. CASE Notify(Sockets, value)
    BY <1>3, <2>2, NoticeQueues
  <2>3. CASE Notify(Sockets, "reset")
    BY <1>3, <2>3, NoticeQueues
  <2> QED
    BY <1>1, <2>1, <2>2, <2>3
<1>5. TypeOK'
  BY <1>0, <1>1, <1>2, <1>3, <1>4 DEF TypeOK
<1>6. FreshInv'
  <2> SUFFICES ASSUME NEW k \in Sockets PROVE Fresh(k)'
    BY DEF FreshInv
  <2> QED
    BY <1>1, <1>4 DEF FreshInv, Fresh, Listening
<1>7. OrderInv' /\ RoundInv'
  BY <1>1, <1>4, LinkStep
<1>8. SocketInv' /\ PendingInv'
  BY <1>1 DEF SocketInv, PendingInv
<1>9. ViewInv'
  <2> SUFFICES ASSUME told' PROVE /\ used > 0 /\ server[used] # "none"
                                  /\ Current(downlink'[used], view, value)
    BY <1>0, <1>1 DEF ViewInv
  <2>1. used > 0 /\ Listening(used) /\ used \in Sockets /\ Notify(Sockets, value)
    BY <1>1, InUse
  <2> DEFINE m == Notice(value)
  <2>2. downlink'[used] = Append(downlink[used], m)
    BY <1>3, <2>1, NoticeQueues
  <2>3. m \in PageMessages /\ Tells(m) /\ m.value = value
    BY <1>3, MessageKinds DEF Notice, Tells
  <2>4. downlink[used] \in Seq(PageMessages)
    BY <2>1, Shape
  <2> HIDE DEF m
  <2>5. Current(Append(downlink[used], m), view, value)
    BY <2>3, <2>4, CurrentSent
  <2> QED
    BY <2>1, <2>2, <2>5 DEF Listening
<1>10. IntervalInv'
  <2>1. used > 0 /\ Greeting(downlink'[used]) => Greeting(downlink[used])
    BY <1>4, InUse
  <2>2. Owed' \in Nat /\ Owed' <= Owed
    BY <1>1, <2>1, OwedStep
  <2> QED
    BY <1>1, <2>2, AskingLess, IntervalStep
<1> QED
  BY <1>5, <1>6, <1>7, <1>8, <1>9, <1>10

-----------------------------------------------------------------------------
(* The connections of the page. *)

LEMMA ConnectStep == ASSUME IInv, Load \/ Reload PROVE IInv'
<1> USE DEF IInv
<1>1. /\ used < MaxSockets /\ used' = used + 1 /\ socket' = [socket EXCEPT ![used + 1] = "connecting"]
      /\ UNCHANGED <<server, uplink, downlink, connected, requestId, pending, garbled, served, status, attempts>>
      /\ UNCHANGED pageVars
      /\ \/ used = 0 /\ timers' = timers /\ told' = told
         \/ timers > 0 /\ timers' = timers - 1 /\ told' = FALSE
  BY DEF Load, Reload, Dial, Redial, Connect
<1>2. used \in Nat /\ MaxSockets \in Nat
  BY DEF TypeOK
<1>3. used + 1 \in Sockets /\ used + 1 > used /\ used' > 0
  BY <1>1, <1>2 DEF Sockets
<1>4. timers \in Nat /\ (used > 0 => timers \in {0, 1} /\ (timers = 1 => socket[used] = "closed"))
  BY DEF SocketInv, TypeOK
<1>5. timers' = 0
  <2>1. CASE used = 0
    BY <1>1, <2>1 DEF SocketInv
  <2>2. CASE used # 0
    BY <1>1, <1>2, <1>4, <2>2
  <2> QED
    BY <2>1, <2>2
<1>6. used > 0 => socket[used] = "closed" /\ used \in Sockets
  BY <1>1, <1>2, <1>4, InUse
<1>7. told' = FALSE
  BY <1>1, <1>2 DEF ViewInv, TypeOK
<1>8. \A k \in Sockets \ {used + 1} : socket'[k] = socket[k]
  BY <1>1 DEF TypeOK
<1>9. socket'[used + 1] = "connecting" /\ socket[used + 1] = "none"
  BY <1>1, <1>3 DEF TypeOK, SocketInv
<1>10. TypeOK'
  <2>1. used' \in 0..MaxSockets
    BY <1>1, <1>2
  <2>2. socket' \in [Sockets -> {"none", "connecting", "open", "closed"}]
    BY <1>1, <1>3 DEF TypeOK
  <2> QED
    BY <1>1, <1>5, <1>7, <2>1, <2>2 DEF TypeOK
<1>11. SocketInv'
  <2>1. ~connected
    <3>1. CASE used = 0
      BY <3>1 DEF SocketInv
    <3>2. CASE used # 0
      BY <1>2, <1>6, <3>2 DEF SocketInv
    <3> QED
      BY <3>1, <3>2
  <2>2. \A n \in Sockets : /\ n > used' => socket'[n] = "none"
                           /\ n < used' => socket'[n] = "closed"
    <3> SUFFICES ASSUME NEW n \in Sockets
                 PROVE  /\ n > used' => socket'[n] = "none"
                        /\ n < used' => socket'[n] = "closed"
      OBVIOUS
    <3>1. n \in Nat
      BY Shape
    <3>2. CASE n > used'
      <4>1. n > used /\ n # used + 1 /\ ~(n < used')
        BY <1>1, <1>2, <3>1, <3>2
      <4> QED
        BY <1>8, <4>1 DEF SocketInv
    <3>3. CASE n < used'
      <4>1. n # used + 1 /\ (n < used \/ n = used) /\ ~(n > used')
        BY <1>1, <1>2, <3>1, <3>3
      <4>2. n = used => used > 0
        BY Shape
      <4> QED
        BY <1>6, <1>8, <4>1, <4>2 DEF SocketInv
    <3> QED
      BY <3>2, <3>3
  <2>3. used' # 0 /\ socket'[used'] = "connecting"
    BY <1>1, <1>2, <1>9
  <2> QED
    BY <1>1, <1>5, <2>1, <2>2, <2>3 DEF SocketInv
<1>12. server[used + 1] = "none" /\ downlink[used + 1] = <<>> /\ uplink[used + 1] = <<>>
  BY <1>3, <1>9 DEF FreshInv, Fresh
<1>13. FreshInv'
  <2>1. PICK w \in Sockets : w = used + 1
    BY <1>3
  <2>2. Fresh(w)'
    BY <1>1, <1>9, <1>12, <2>1 DEF FreshInv, Fresh
  <2>3. \A k \in Sockets \ {w} : Fresh(k)'
    BY <1>1, <1>8, <2>1 DEF FreshInv, Fresh
  <2> QED
    BY <2>2, <2>3 DEF FreshInv
<1>14. OrderInv' /\ RoundInv'
  <2>1. \A k \in Sockets : socket'[k] # "closed" => socket[k] # "closed"
    BY <1>8, <1>9
  <2> QED
    BY <1>1, <2>1, LinkStep, SameLink
<1>15. PendingInv'
  <2>1. \A r \in pending : r.n \in Nat
    BY DEF TypeOK, Sockets
  <2> QED
    BY <1>1, <1>2, <2>1 DEF PendingInv
<1>16. ViewInv'
  BY <1>7 DEF ViewInv
<1>17. IntervalInv'
  <2>1. \A r \in pending : r.n # used + 1
    <3>1. \A r \in pending : r.n <= used /\ r.n \in Nat
      BY DEF PendingInv, TypeOK, Sockets
    <3> QED
      BY <1>2, <3>1
  <2>2. Asking' = {}
    BY <1>1, <2>1 DEF Asking
  <2>3. Owed' = 2
    BY <1>1, <1>2, <1>9 DEF Owed
  <2>4. Cardinality(Asking') = 0
    BY <2>2, FS_EmptySet
  <2>5. intervals + Cardinality(Asking) + Owed <= 2 * used
    BY DEF IntervalInv
  <2>6. Cardinality(Asking) \in Nat /\ Owed \in Nat /\ intervals \in Nat
    BY AskingFinite DEF Owed, TypeOK
  <2> QED
    BY <1>1, <1>2, <2>3, <2>4, <2>5, <2>6 DEF IntervalInv
<1> QED
  BY <1>10, <1>11, <1>13, <1>14, <1>15, <1>16, <1>17

(* onopen, of the last socket: the values are asked for. *)
LEMMA OpenStep == ASSUME IInv, NEW n \in Sockets, PageOpen(n) PROVE IInv'
<1> USE DEF IInv
<1>1. /\ socket[n] = "connecting" /\ server[n] # "none" /\ socket' = [socket EXCEPT ![n] = "open"]
      /\ connected' = TRUE /\ attempts' = 0 /\ online' = TRUE
      /\ Call("getValues", TRUE, IF n = used THEN "open" ELSE socket[used])
      /\ UNCHANGED <<server, downlink, used, garbled, served, status, told, timers,
                     page, intervals, view, metrics, listing, events, debugged>>
  BY DEF PageOpen, Opened, Open, OnConnected, ShowStatus
<1>2. debugs' \in Nat
  BY DEF PageOpen, OnConnected, TypeOK
<1>3. n = used /\ used \in Sockets /\ used > 0
  BY <1>1, LastSocket
<1>4. "getValues" \in PageRequests
  BY DEF PageRequests
<1>5. Made("getValues")
  <2>1. Call("getValues", TRUE, "open")
    BY <1>1, <1>3
  <2> QED
    BY <1>4, <2>1, CallCases
<1>6. /\ requestId' \in Nat /\ uplink' \in [Sockets -> Seq(PageCalls)]
      /\ pending' \subseteq [id : 1..requestId', of : PageRequests, n : Sockets]
  BY <1>3, <1>4, <1>5, MadeTypes
<1>7. TypeOK'
  <2>1. socket' \in [Sockets -> {"none", "connecting", "open", "closed"}] /\ connected' \in BOOLEAN /\ online' \in BOOLEAN
    BY <1>1 DEF TypeOK
  <2>2. attempts' \in 0..MaxReconnectAttempts
    BY <1>1
  <2> QED
    BY <1>1, <1>2, <1>6, <2>1, <2>2 DEF TypeOK, PageCalls
<1>8. socket'[n] = "open" /\ \A k \in Sockets \ {n} : socket'[k] = socket[k]
  BY <1>1 DEF TypeOK
<1>9. \A k \in Sockets \ {n} : uplink'[k] = uplink[k]
  BY <1>3, <1>5 DEF Made, TypeOK
<1>10. requestId' > 0
  BY <1>5, Shape DEF Made
<1>11. SocketInv'
  <2>1. timers = 0
    BY <1>1, <1>3 DEF SocketInv
  <2>2. \A k \in Sockets : (k > used \/ k < used) => k # n
    BY <1>3, Shape
  <2> QED
    BY <1>1, <1>3, <1>8, <2>1, <2>2 DEF SocketInv
<1>12. FreshInv'
  <2>1. Fresh(n)'
    BY <1>1, <1>8, <1>10 DEF FreshInv, Fresh
  <2>2. \A k \in Sockets \ {n} : Fresh(k)'
    BY <1>1, <1>8, <1>9, <1>10 DEF FreshInv, Fresh
  <2> QED
    BY <2>1, <2>2 DEF FreshInv
<1>13. OrderInv' /\ RoundInv' /\ PendingInv'
  <2>1. \A k \in Sockets : /\ Ordered(downlink'[k], uplink[k])
                           /\ Round(downlink'[k], uplink[k]) \subseteq Round(downlink[k], uplink[k])
                           /\ socket'[k] # "closed" => socket[k] # "closed"
    BY <1>1, <1>8 DEF OrderInv
  <2> QED
    BY <1>1, <1>3, <1>4, <1>5, <2>1, MadeStep
<1>14. ViewInv'
  BY <1>1, <1>3 DEF ViewInv
<1>15. IntervalInv'
  <2>1. Cardinality(Asking') \in Nat /\ Cardinality(Asking') <= Cardinality(Asking) + 1
    BY <1>1, <1>5, AskingMade
  <2>2. Owed = 2 /\ Owed' \in {0, 1}
    BY <1>1, <1>3, <1>8 DEF Owed
  <2>3. Cardinality(Asking) \in Nat /\ intervals \in Nat
    BY AskingFinite DEF TypeOK
  <2>4. intervals + Cardinality(Asking) + Owed <= 2 * used
    BY DEF IntervalInv
  <2>5. 2 * used \in Nat
    BY Shape
  <2> QED
    BY <1>1, <2>1, <2>2, <2>3, <2>4, <2>5 DEF IntervalInv
<1> QED
  BY <1>7, <1>11, <1>12, <1>13, <1>14, <1>15

(* onclose, of the last socket. *)
LEMMA CloseStep == ASSUME IInv, NEW n \in Sockets, PageClose(n) PROVE IInv'
<1> USE DEF IInv
<1>1. /\ socket[n] \in {"connecting", "open", "closing"} /\ socket' = [socket EXCEPT ![n] = "closed"]
      /\ connected' = FALSE /\ online' = FALSE /\ downlink' = [downlink EXCEPT ![n] = <<>>]
      /\ UNCHANGED <<server, uplink, used, requestId, pending, garbled, served, status, told,
                     page, intervals, view, metrics, listing, debugs, events, debugged>>
      /\ HandleReconnect
  BY DEF PageClose, Dropped, Close, ShowStatus
<1>2. n = used /\ used \in Sockets /\ used > 0
  <2>1. socket[n] \in {"connecting", "open"}
    BY <1>1 DEF TypeOK
  <2> QED
    BY <2>1, LastSocket
<1>3. /\ timers = 0 /\ attempts' \in 0..MaxReconnectAttempts
      /\ timers' \in {0, 1} /\ (timers' = 0 => attempts' = MaxReconnectAttempts)
  <2>1. socket[n] # "closed"
    BY <1>1
  <2>2. timers = 0
    BY <1>2, <2>1 DEF SocketInv
  <2> QED
    BY <1>1, <2>2 DEF HandleReconnect, TypeOK
<1>4. socket'[n] = "closed" /\ downlink'[n] = <<>>
  BY <1>1 DEF TypeOK
<1>5. \A k \in Sockets \ {n} : socket'[k] = socket[k] /\ downlink'[k] = downlink[k]
  BY <1>1 DEF TypeOK
<1>6. TypeOK'
  <2>1. socket' \in [Sockets -> {"none", "connecting", "open", "closed"}] /\ connected' \in BOOLEAN /\ online' \in BOOLEAN
    BY <1>1 DEF TypeOK
  <2>2. downlink' \in [Sockets -> Seq(PageMessages)]
    BY <1>1 DEF TypeOK
  <2>3. timers' \in Nat
    BY <1>3
  <2> QED
    BY <1>1, <1>3, <2>1, <2>2, <2>3 DEF TypeOK
<1>7. SocketInv'
  <2>1. \A k \in Sockets : (k > used \/ k < used) => k # n
    BY <1>2, Shape
  <2> QED
    BY <1>1, <1>2, <1>3, <1>4, <1>5, <2>1 DEF SocketInv
<1>8. FreshInv'
  <2>1. Fresh(n)'
    BY <1>1, <1>4, EmptyQueue DEF FreshInv, Fresh
  <2>2. \A k \in Sockets \ {n} : Fresh(k)'
    BY <1>1, <1>5 DEF FreshInv, Fresh
  <2> QED
    BY <2>1, <2>2 DEF FreshInv
<1>9. OrderInv' /\ RoundInv'
  <2>1. Ordered(downlink[n], uplink[n])
    BY DEF OrderInv
  <2>2. /\ Ordered(downlink'[n], uplink'[n])
        /\ Round(downlink'[n], uplink'[n]) \subseteq Round(downlink[n], uplink[n])
    BY <1>1, <1>4, <2>1, Emptied
  <2>3. \A k \in Sockets : socket'[k] # "closed" => socket[k] # "closed"
    BY <1>4, <1>5
  <2> QED
    BY <1>1, <1>5, <2>2, <2>3, LinkStep, SameLink
<1>10. PendingInv'
  BY <1>1 DEF PendingInv
<1>11. ViewInv'
  BY <1>1, <1>2, <1>4 DEF ViewInv
<1>12. IntervalInv'
  <2>1. Owed' = 0
    BY <1>1, <1>2, <1>4 DEF Owed
  <2>2. Owed \in Nat
    BY DEF Owed
  <2> QED
    BY <1>1, <2>1, <2>2, AskingLess, IntervalStep
<1> QED
  BY <1>6, <1>7, <1>8, <1>9, <1>10, <1>11, <1>12

-----------------------------------------------------------------------------
(* The messages that the page takes. *)

LEMMA IncomingCases ==
  ASSUME IInv, NEW n \in Sockets, NEW kinds, Incoming(n, kinds)
  PROVE  LET D == downlink[n]  E == Tail(downlink[n]) IN
         /\ n = used /\ used > 0 /\ socket[n] = "open" /\ server[n] # "none" /\ connected
         /\ D # <<>> /\ D \in Seq(PageMessages) /\ Head(D) \in PageMessages /\ Head(D).kind \in kinds
         /\ downlink'[n] = E /\ \A k \in Sockets \ {n} : downlink'[k] = downlink[k]
         /\ downlink' \in [Sockets -> Seq(PageMessages)]
         /\ Ordered(E, uplink[n]) /\ Round(E, uplink[n]) \subseteq Round(D, uplink[n])
         /\ WelcomeFirst(E) /\ ~Greeting(E)
         /\ Head(D).kind = "connected" => Greeting(D)
         /\ Head(D).kind = "result" =>
               /\ Mark(Head(D)) \in Round(D, uplink[n])
               /\ \A x \in Round(E, uplink[n]) : Proper(x) => Head(D).id < x.id
<1> USE DEF IInv
<1> DEFINE D == downlink[n]
<1> DEFINE E == Tail(downlink[n])
<1>1. /\ socket[n] = "open" /\ D # <<>> /\ Head(D).kind \in kinds
      /\ downlink' = [downlink EXCEPT ![n] = E]
  BY DEF Incoming
<1>2. D \in Seq(PageMessages)
  BY Shape
<1>3. n = used /\ used > 0
  BY <1>1, LastSocket
<1>4. connected /\ server[n] # "none"
  BY <1>1, <1>3 DEF SocketInv, FreshInv, Fresh
<1>5. E \in Seq(PageMessages) /\ Head(D) \in PageMessages /\ Head(D) = D[1] /\ 1 \in DOMAIN D
  BY <1>1, <1>2, AtFront
<1>6. Ordered(D, uplink[n]) /\ WelcomeFirst(D)
  BY DEF OrderInv, FreshInv, Fresh
<1>7. WelcomeFirst(E) /\ ~Greeting(E)
  BY <1>1, <1>2, <1>6, GreetingTaken
<1>8. Head(D).kind = "connected" => Greeting(D)
  BY <1>5 DEF Greeting
<1>9. /\ downlink'[n] = E /\ \A k \in Sockets \ {n} : downlink'[k] = downlink[k]
      /\ downlink' \in [Sockets -> Seq(PageMessages)]
  BY <1>1, <1>5 DEF TypeOK
<1> HIDE DEF D, E
<1>10. /\ Ordered(E, uplink[n]) /\ Round(E, uplink[n]) \subseteq Round(D, uplink[n])
       /\ Head(D).kind = "result" =>
               /\ Mark(Head(D)) \in Round(D, uplink[n])
               /\ \A x \in Round(E, uplink[n]) : Proper(x) => Head(D).id < x.id
  BY <1>1, <1>2, <1>6, Taken DEF D, E
<1> QED
  BY <1>1, <1>2, <1>3, <1>4, <1>5, <1>7, <1>8, <1>9, <1>10 DEF D, E

(* The welcome starts the monitoring again. *)
LEMMA GreetedStep == ASSUME IInv, NEW n \in Sockets, PageGreeted(n) PROVE IInv'
<1> USE DEF IInv
<1>1. /\ Incoming(n, {"connected"}) /\ Call("getValues", connected, socket[used])
      /\ UNCHANGED <<server, socket, used, connected, garbled, served, status, told, attempts, timers,
                     page, intervals, view, metrics, listing, events, debugged>>
      /\ online' = TRUE
  BY DEF PageGreeted, Greeted, Welcomed, Incoming, OnConnected, ShowStatus
<1>2. debugs' \in Nat
  BY DEF PageGreeted, OnConnected, TypeOK
<1> DEFINE D == downlink[n]
<1>3. /\ n = used /\ used > 0 /\ socket[n] = "open" /\ server[n] # "none" /\ connected
      /\ D # <<>> /\ D \in Seq(PageMessages) /\ Head(D) \in PageMessages /\ Head(D).kind \in {"connected"}
      /\ downlink'[n] = Tail(D) /\ \A k \in Sockets \ {n} : downlink'[k] = downlink[k]
      /\ downlink' \in [Sockets -> Seq(PageMessages)]
      /\ Ordered(Tail(D), uplink[n]) /\ Round(Tail(D), uplink[n]) \subseteq Round(D, uplink[n])
      /\ WelcomeFirst(Tail(D)) /\ ~Greeting(Tail(D))
      /\ Head(D).kind = "connected" => Greeting(D)
  BY <1>1, IncomingCases
<1>4. "getValues" \in PageRequests /\ used \in Sockets
  BY <1>3 DEF PageRequests
<1>5. Made("getValues")
  <2>1. Call("getValues", TRUE, "open")
    BY <1>1, <1>3 DEF TypeOK
  <2> QED
    BY <1>4, <2>1, CallCases
<1>6. /\ requestId' \in Nat /\ uplink' \in [Sockets -> Seq(PageCalls)]
      /\ pending' \subseteq [id : 1..requestId', of : PageRequests, n : Sockets]
  BY <1>4, <1>5, MadeTypes
<1>7. TypeOK'
  <2>1. online' \in BOOLEAN
    BY <1>1
  <2> QED
    BY <1>1, <1>2, <1>3, <1>6, <2>1 DEF TypeOK, PageCalls
<1>8. \A k \in Sockets \ {n} : uplink'[k] = uplink[k]
  BY <1>3, <1>5 DEF Made, TypeOK
<1>9. requestId' > 0
  BY <1>5, Shape DEF Made
<1>10. SocketInv'
  BY <1>1 DEF SocketInv
<1>11. FreshInv'
  <2>1. Fresh(n)'
    BY <1>1, <1>3, <1>9 DEF FreshInv, Fresh
  <2>2. \A k \in Sockets \ {n} : Fresh(k)'
    BY <1>1, <1>3, <1>8, <1>9 DEF FreshInv, Fresh
  <2> QED
    BY <2>1, <2>2 DEF FreshInv
<1>12. OrderInv' /\ RoundInv' /\ PendingInv'
  <2>1. \A k \in Sockets : /\ Ordered(downlink'[k], uplink[k])
                           /\ Round(downlink'[k], uplink[k]) \subseteq Round(downlink[k], uplink[k])
                           /\ socket'[k] # "closed" => socket[k] # "closed"
    BY <1>1, <1>3 DEF OrderInv
  <2> QED
    BY <1>1, <1>4, <1>5, <2>1, MadeStep
<1>13. ViewInv'
  <2> SUFFICES ASSUME told, page = "monitoring", server[used] = "up", socket[used] # "closed"
               PROVE  Current(downlink'[used], view, status)
    BY <1>1 DEF ViewInv
  <2>1. Current(D, view, status)
    BY <1>3 DEF ViewInv
  <2>2. ~Tells(Head(D))
    BY <1>3 DEF Tells
  <2> QED
    BY <1>3, <2>1, <2>2, CurrentTaken
<1>14. IntervalInv'
  <2>1. Cardinality(Asking') \in Nat /\ Cardinality(Asking') <= Cardinality(Asking) + 1
    BY <1>1, <1>5, AskingMade
  <2>2. Owed = 1 /\ Owed' = 0
    BY <1>1, <1>3 DEF Owed
  <2>3. Cardinality(Asking) \in Nat /\ intervals \in Nat
    BY AskingFinite DEF TypeOK
  <2>4. intervals + Cardinality(Asking) + Owed <= 2 * used
    BY DEF IntervalInv
  <2>5. 2 * used \in Nat
    BY Shape
  <2> QED
    BY <1>1, <2>1, <2>2, <2>3, <2>4, <2>5 DEF IntervalInv
<1> QED
  BY <1>7, <1>10, <1>11, <1>12, <1>13, <1>14

(* A notification is displayed by the monitoring. *)
LEMMA NotifiedStep == ASSUME IInv, NEW n \in Sockets, PageNotified(n) PROVE IInv'
<1> USE DEF IInv
<1> DEFINE D == downlink[n]
<1>1. /\ Incoming(n, {"valueChanged"})
      /\ UNCHANGED <<server, uplink, socket, used, connected, requestId, pending, garbled, served, status, told,
                     attempts, timers, page, online, intervals, metrics, listing, debugs, events, debugged>>
      /\ view' = IF page = "admin" THEN view ELSE Head(D).value
  BY DEF PageNotified, Notified, Incoming, ShowValue
<1>2. /\ n = used /\ used > 0 /\ socket[n] = "open" /\ server[n] # "none"
      /\ D # <<>> /\ D \in Seq(PageMessages) /\ Head(D) \in PageMessages /\ Head(D).kind \in {"valueChanged"}
      /\ downlink'[n] = Tail(D) /\ \A k \in Sockets \ {n} : downlink'[k] = downlink[k]
      /\ downlink' \in [Sockets -> Seq(PageMessages)]
      /\ Ordered(Tail(D), uplink[n]) /\ Round(Tail(D), uplink[n]) \subseteq Round(D, uplink[n])
      /\ WelcomeFirst(Tail(D)) /\ ~Greeting(Tail(D))
  BY <1>1, IncomingCases
<1> HIDE DEF D
<1>3. Head(D).value \in Texts
  BY <1>2, MessageKinds
<1>4. TypeOK'
  <2>1. view' \in Texts \cup {"unknown"}
    BY <1>1, <1>3 DEF TypeOK
  <2> QED
    BY <1>1, <1>2, <2>1 DEF TypeOK
<1>5. SocketInv' /\ PendingInv'
  BY <1>1 DEF SocketInv, PendingInv
<1>6. FreshInv'
  <2>1. Fresh(n)'
    BY <1>1, <1>2 DEF FreshInv, Fresh
  <2>2. \A k \in Sockets \ {n} : Fresh(k)'
    BY <1>1, <1>2 DEF FreshInv, Fresh
  <2> QED
    BY <2>1, <2>2 DEF FreshInv
<1>7. OrderInv' /\ RoundInv'
  BY <1>1, <1>2, LinkStep, SameLink DEF D
<1>8. ViewInv'
  <2> SUFFICES ASSUME told, page = "monitoring", server[used] = "up", socket[used] # "closed"
               PROVE  Current(downlink'[used], view', status)
    BY <1>1 DEF ViewInv
  <2>1. Current(D, view, status)
    BY <1>2 DEF ViewInv, D
  <2>2. view' = IF Tells(Head(D)) THEN Head(D).value ELSE view
    BY <1>1, <1>2 DEF Tells
  <2> QED
    BY <1>2, <2>1, <2>2, CurrentTaken
<1>9. IntervalInv'
  <2>1. Owed' \in Nat /\ Owed' <= Owed
    BY <1>1, <1>2, OwedStep
  <2> QED
    BY <1>1, <2>1, AskingLess, IntervalStep
<1> QED
  BY <1>4, <1>5, <1>6, <1>7, <1>8, <1>9

(* The call that an answer settles. *)
LEMMA SettledIs ==
  ASSUME IInv, NEW n \in Sockets, n = used, socket[n] = "open",
         NEW m \in PageMessages, m.kind = "result", Mark(m) \in Round(downlink[n], uplink[n])
  PROVE  /\ \A r, s \in Settled(m) : r = s
         /\ Proper(m) => Settled(m) = {[id |-> m.id, of |-> m.of, n |-> n]}
         /\ ~Proper(m) => m.id = 1 /\ debugged
<1> USE DEF IInv
<1>1. Mark(m).id = m.id /\ Mark(m).of = m.of
  BY DEF Mark
<1>2. \A r, s \in Settled(m) : r = s
  BY DEF PendingInv, Settled
<1>3. ~Proper(m) => m.id = 1 /\ debugged
  BY <1>1 DEF RoundInv, Accounted, Proper
<1>4. ASSUME Proper(m) PROVE Settled(m) = {[id |-> m.id, of |-> m.of, n |-> n]}
  <2>1. Proper(Mark(m))
    BY <1>1, <1>4 DEF Proper
  <2>2. [id |-> m.id, of |-> m.of, n |-> n] \in pending
    BY <1>1, <2>1 DEF RoundInv, Accounted
  <2>3. [id |-> m.id, of |-> m.of, n |-> n] \in Settled(m)
    BY <2>2 DEF Settled
  <2> QED
    BY <1>2, <2>3
<1> QED
  BY <1>2, <1>3, <1>4

(* What follows the await of the call, on the monitoring and on the panel. *)
LEMMA ContinueCases ==
  ASSUME IInv, NEW n \in Sockets, n = used, socket[n] = "open",
         NEW m \in PageMessages, m.kind = "result", Mark(m) \in Round(downlink[n], uplink[n]),
         Continue(m)
  PROVE  /\ online' = online /\ listing' \in BOOLEAN /\ metrics' \in {metrics, "live", "default"}
         /\ view' \in {view, m.value}
         /\ page = "monitoring" => view' = IF m.of = "getValues" THEN m.value ELSE view
         /\ \/ intervals' = intervals
            \/ /\ m.of = "getValues" /\ intervals' = intervals + 1
               /\ Settled(m) = {[id |-> m.id, of |-> m.of, n |-> n]}
<1>1. /\ \A r, s \in Settled(m) : r = s
      /\ Proper(m) => Settled(m) = {[id |-> m.id, of |-> m.of, n |-> n]}
  BY SettledIs
<1>2. m.of = "getValues" => Settled(m) = {[id |-> m.id, of |-> m.of, n |-> n]}
  BY <1>1 DEF Proper
<1>3. page \in {"monitoring", "admin"} /\ listing \in BOOLEAN
  BY DEF IInv, TypeOK
<1>4. CASE Settled(m) = {}
  BY <1>2, <1>3, <1>4 DEF Continue
<1>5. CASE Settled(m) # {}
  <2>1. PICK r \in Settled(m) :
            CASE r.of = "getValues" -> IF page = "admin" THEN DisplaySystemInfo ELSE StartMonitoring(m)
              [] r.of = "getMetrics" -> ShowMetrics
              [] OTHER -> UNCHANGED displayVars
    BY <1>5 DEF Continue
  <2>2. m.of = "getValues" => r.of = "getValues"
    BY <1>2
  <2>3. CASE r.of = "getValues" /\ page = "admin"
    <3>1. DisplaySystemInfo
      BY <2>1, <2>3
    <3> QED
      BY <2>3, <3>1 DEF DisplaySystemInfo
  <2>4. CASE r.of = "getValues" /\ page # "admin"
    <3>1. StartMonitoring(m)
      BY <2>1, <2>4
    <3> QED
      BY <1>2, <1>3, <3>1 DEF StartMonitoring, ShowValue
  <2>5. CASE r.of = "getMetrics"
    <3>1. ShowMetrics
      BY <2>1, <2>5
    <3> QED
      BY <1>3, <2>2, <2>5, <3>1 DEF ShowMetrics
  <2>6. CASE r.of \notin {"getValues", "getMetrics"}
    <3>1. UNCHANGED displayVars
      BY <2>1, <2>6
    <3> QED
      BY <1>3, <2>2, <2>6, <3>1
  <2> QED
    BY <2>3, <2>4, <2>5, <2>6
<1> QED
  BY <1>4, <1>5

(* RoundInv after a step, request by request and answer by answer. *)
LEMMA RoundNext ==
  ASSUME \A k \in Sockets : \A x \in Round(downlink'[k], uplink'[k]) :
             /\ x.id \in 1..requestId'
             /\ ~Proper(x) => x.id = 1 /\ debugged'
             /\ Proper(x) /\ socket'[k] # "closed" => [id |-> x.id, of |-> x.of, n |-> k] \in pending'
  PROVE  RoundInv'
<1>1. ASSUME NEW k \in Sockets, NEW x \in Round(downlink'[k], uplink'[k])
      PROVE  Accounted(x, k)'
  BY DEF Accounted, Proper
<1> QED
  BY <1>1 DEF RoundInv

(* An answer is taken by the call that it is of. *)
LEMMA AnsweredStep == ASSUME IInv, NEW n \in Sockets, PageAnswered(n) PROVE IInv'
<1> USE DEF IInv
<1> DEFINE D == downlink[n]
<1> DEFINE m == Head(downlink[n])
<1>1. /\ Incoming(n, {"result", "error"}) /\ pending' = pending \ Settled(m) /\ Continue(m)
      /\ UNCHANGED <<server, uplink, socket, used, connected, requestId, garbled, served, status, told,
                     attempts, timers, page, debugs, events, debugged>>
  BY DEF PageAnswered, Answered, Settle, Incoming
<1>2. /\ n = used /\ used > 0 /\ socket[n] = "open" /\ server[n] # "none"
      /\ D # <<>> /\ D \in Seq(PageMessages) /\ m \in PageMessages /\ m.kind \in {"result", "error"}
      /\ downlink'[n] = Tail(D) /\ \A k \in Sockets \ {n} : downlink'[k] = downlink[k]
      /\ downlink' \in [Sockets -> Seq(PageMessages)]
      /\ Ordered(Tail(D), uplink[n]) /\ Round(Tail(D), uplink[n]) \subseteq Round(D, uplink[n])
      /\ WelcomeFirst(Tail(D)) /\ ~Greeting(Tail(D))
      /\ m.kind = "result" =>
               /\ Mark(m) \in Round(D, uplink[n])
               /\ \A x \in Round(Tail(D), uplink[n]) : Proper(x) => m.id < x.id
  BY <1>1, IncomingCases
<1>3. m.kind = "result" /\ m.id \in Nat /\ m.value \in Texts
  BY <1>2, MessageKinds
<1>4. /\ online' = online /\ listing' \in BOOLEAN /\ metrics' \in {metrics, "live", "default"}
      /\ view' \in {view, m.value}
      /\ page = "monitoring" => view' = IF m.of = "getValues" THEN m.value ELSE view
      /\ \/ intervals' = intervals
         \/ /\ m.of = "getValues" /\ intervals' = intervals + 1
            /\ Settled(m) = {[id |-> m.id, of |-> m.of, n |-> n]}
  BY <1>1, <1>2, <1>3, ContinueCases
<1>5. \A x \in Round(Tail(D), uplink[n]) : Proper(x) => m.id < x.id
  BY <1>2, <1>3
<1> HIDE DEF D, m
<1>6. pending' \subseteq pending
  BY <1>1
<1>7. TypeOK'
  <2>1. view' \in Texts \cup {"unknown"} /\ metrics' \in {"none", "live", "default"}
    BY <1>3, <1>4 DEF TypeOK
  <2>2. intervals' \in Nat
    BY <1>4 DEF TypeOK
  <2>3. pending' \subseteq [id : 1..requestId', of : PageRequests, n : Sockets]
    BY <1>1, <1>6 DEF TypeOK
  <2> QED
    BY <1>1, <1>2, <1>4, <2>1, <2>2, <2>3 DEF TypeOK
<1>8. SocketInv'
  BY <1>1 DEF SocketInv
<1>9. PendingInv'
  <2>1. IsFiniteSet(pending')
    BY <1>6, FS_Subset DEF PendingInv
  <2> QED
    BY <1>1, <1>6, <2>1 DEF PendingInv
<1>10. FreshInv'
  <2>1. Fresh(n)'
    BY <1>1, <1>2 DEF FreshInv, Fresh
  <2>2. \A k \in Sockets \ {n} : Fresh(k)'
    BY <1>1, <1>2 DEF FreshInv, Fresh
  <2> QED
    BY <2>1, <2>2 DEF FreshInv
<1>11. \A k \in Sockets : /\ Ordered(downlink'[k], uplink'[k])
                          /\ Round(downlink'[k], uplink'[k]) \subseteq Round(downlink[k], uplink[k])
  <2>1. \A k \in Sockets \ {n} : downlink'[k] = downlink[k] /\ uplink'[k] = uplink[k]
    BY <1>1, <1>2
  <2>2. \A k \in Sockets \ {n} : /\ Ordered(downlink'[k], uplink'[k])
                                 /\ Round(downlink'[k], uplink'[k]) \subseteq Round(downlink[k], uplink[k])
    BY <2>1, SameLink
  <2>3. /\ Ordered(downlink'[n], uplink'[n])
        /\ Round(downlink'[n], uplink'[n]) \subseteq Round(downlink[n], uplink[n])
    BY <1>1, <1>2 DEF D
  <2> QED
    BY <2>2, <2>3
<1>12. OrderInv'
  BY <1>11 DEF OrderInv
<1>13. RoundInv'
  <2>1. ASSUME NEW k \in Sockets, NEW x \in Round(downlink'[k], uplink'[k])
        PROVE  /\ x.id \in 1..requestId'
               /\ ~Proper(x) => x.id = 1 /\ debugged'
               /\ Proper(x) /\ socket'[k] # "closed" => [id |-> x.id, of |-> x.of, n |-> k] \in pending'
    <3>1. /\ x.id \in 1..requestId
          /\ ~Proper(x) => x.id = 1 /\ debugged
          /\ Proper(x) /\ socket[k] # "closed" => [id |-> x.id, of |-> x.of, n |-> k] \in pending
      BY <1>11 DEF RoundInv, Accounted
    <3>2. ASSUME Proper(x), socket[k] # "closed" PROVE [id |-> x.id, of |-> x.of, n |-> k] \in pending'
      <4>1. CASE k = n
        <5>1. m.id < x.id
          BY <1>1, <1>2, <1>5, <3>2, <4>1
        <5>2. [id |-> x.id, of |-> x.of, n |-> k] \notin Settled(m)
          BY <1>3, <3>1, <5>1, Shape DEF Settled
        <5> QED
          BY <1>1, <3>1, <3>2, <5>2
      <4>2. CASE k # n
        <5>1. socket[k] = "none"
          BY <1>2, <3>2, <4>2, Shape DEF SocketInv
        <5>2. uplink[k] = <<>> /\ Results(downlink[k]) = {}
          BY <5>1 DEF FreshInv, Fresh
        <5>3. DOMAIN <<>> = {}
          OBVIOUS
        <5>4. Round(downlink[k], uplink[k]) = {}
          BY <5>2, <5>3 DEF Round
        <5> QED
          BY <1>11, <5>4
      <4> QED
        BY <4>1, <4>2
    <3> QED
      BY <1>1, <3>1, <3>2
  <2> QED
    BY <2>1, RoundNext
<1>14. ViewInv'
  <2> SUFFICES ASSUME told, page = "monitoring", server[used] = "up", socket[used] # "closed"
               PROVE  Current(downlink'[used], view', status)
    BY <1>1 DEF ViewInv
  <2>1. Current(D, view, status)
    BY <1>2 DEF ViewInv, D
  <2>2. view' = IF Tells(m) THEN m.value ELSE view
    BY <1>3, <1>4 DEF Tells
  <2> QED
    BY <1>2, <2>1, <2>2, CurrentTaken DEF m, D
<1>15. IntervalInv'
  <2>1. Owed' \in Nat /\ Owed' <= Owed
    BY <1>1, <1>2, OwedStep
  <2>2. CASE intervals' = intervals
    BY <1>1, <1>6, <2>1, <2>2, AskingLess, IntervalStep
  <2>3. CASE /\ m.of = "getValues" /\ intervals' = intervals + 1
             /\ Settled(m) = {[id |-> m.id, of |-> m.of, n |-> n]}
    <3> DEFINE r == [id |-> m.id, of |-> m.of, n |-> n]
    <3>1. r \in pending /\ r.of = "getValues" /\ r.n = used
      BY <1>2, <2>3 DEF Settled
    <3>2. r \in Asking /\ pending' = pending \ {r}
      BY <1>1, <2>3, <3>1 DEF Asking
    <3> HIDE DEF r
    <3>3. Cardinality(Asking') \in Nat /\ Cardinality(Asking') = Cardinality(Asking) - 1
      BY <1>1, <3>2, AskingSettled
    <3>4. Cardinality(Asking) \in Nat /\ intervals \in Nat /\ Owed \in Nat /\ 2 * used \in Nat
      BY AskingFinite, Shape DEF TypeOK, Owed
    <3>5. intervals + Cardinality(Asking) + Owed <= 2 * used
      BY DEF IntervalInv
    <3>6. intervals' + Cardinality(Asking') + Owed' <= 2 * used
      BY <2>1, <2>3, <3>3, <3>4, <3>5
    <3> QED
      BY <1>1, <3>6 DEF IntervalInv
  <2> QED
    BY <1>4, <2>2, <2>3
<1> QED
  BY <1>7, <1>8, <1>9, <1>10, <1>12, <1>13, <1>14, <1>15

-----------------------------------------------------------------------------
(* The timers and the buttons. *)

LEMMA AskStep == ASSUME IInv, AskSteps PROVE IInv'
<1> USE DEF IInv
<1>1. PICK q \in PageRequests \ {"getValues"} :
               \/ UNCHANGED <<requestId, pending, uplink>>
               \/ socket[used] = "open" /\ Made(q)
  BY AskCases
<1>2. /\ used \in Sockets
      /\ UNCHANGED <<server, downlink, socket, used, connected, garbled, served, status, told,
                     attempts, timers, page, online, intervals, view, listing, debugged>>
      /\ metrics' \in {metrics, "default"} /\ debugs' \in Nat /\ events' \in 0..MaxEvents
  BY AskCases
<1>3. SocketInv'
  BY <1>2 DEF SocketInv
<1>4. ViewInv'
  BY <1>2 DEF ViewInv, Current
<1>5. Owed' \in Nat /\ Owed' <= Owed
  BY <1>2, OwedStep
<1>6. CASE UNCHANGED <<requestId, pending, uplink>>
  <2>1. TypeOK'
    BY <1>2, <1>6 DEF TypeOK
  <2>2. FreshInv' /\ PendingInv'
    BY <1>2, <1>6 DEF FreshInv, Fresh, PendingInv
  <2>3. OrderInv' /\ RoundInv'
    BY <1>2, <1>6, LinkStep, SameLink
  <2>4. IntervalInv'
    BY <1>2, <1>5, <1>6, AskingLess, IntervalStep
  <2> QED
    BY <1>3, <1>4, <2>1, <2>2, <2>3, <2>4
<1>7. CASE socket[used] = "open" /\ Made(q)
  <2>1. /\ requestId' \in Nat /\ uplink' \in [Sockets -> Seq(PageCalls)]
        /\ pending' \subseteq [id : 1..requestId', of : PageRequests, n : Sockets]
    BY <1>2, <1>7, MadeTypes
  <2>2. TypeOK'
    BY <1>2, <2>1 DEF TypeOK, PageCalls
  <2>3. requestId' > 0
    BY <1>2, <1>7, Shape DEF Made
  <2>4. \A k \in Sockets \ {used} : uplink'[k] = uplink[k]
    BY <1>2, <1>7 DEF Made, TypeOK
  <2>5. ASSUME NEW k \in Sockets PROVE Fresh(k)'
    <3>1. Fresh(k)
      BY DEF FreshInv
    <3>2. CASE k = used
      BY <1>2, <1>7, <2>3, <3>1, <3>2 DEF Fresh
    <3>3. CASE k # used
      BY <1>2, <2>3, <2>4, <3>1, <3>3 DEF Fresh
    <3> QED
      BY <3>2, <3>3
  <2>6. FreshInv'
    BY <2>5 DEF FreshInv
  <2>7. OrderInv' /\ RoundInv' /\ PendingInv'
    <3>1. \A k \in Sockets : /\ Ordered(downlink'[k], uplink[k])
                             /\ Round(downlink'[k], uplink[k]) \subseteq Round(downlink[k], uplink[k])
                             /\ socket'[k] # "closed" => socket[k] # "closed"
      BY <1>2 DEF OrderInv
    <3> QED
      BY <1>2, <1>7, <3>1, MadeStep
  <2>8. IntervalInv'
    <3>1. Cardinality(Asking') \in Nat /\ Cardinality(Asking') <= Cardinality(Asking)
      <4>1. Asking' = Asking
        BY <1>2, <1>7, AskingMade
      <4> QED
        BY <4>1, AskingFinite
    <3> QED
      BY <1>2, <1>5, <3>1, IntervalStep
  <2> QED
    BY <1>3, <1>4, <2>2, <2>6, <2>7, <2>8
<1> QED
  BY <1>1, <1>6, <1>7

(* The test button sends a request of its own, with the id of the first call. *)
LEMMA DebugStep == ASSUME IInv, DebugTest PROVE IInv'
<1> USE DEF IInv
<1> DEFINE raw == [id |-> 1, of |-> "getValue"]
<1>1. /\ page = "monitoring" /\ used > 0 /\ socket[used] = "open" /\ debugged' = TRUE
      /\ uplink' = IF server[used] # "up" THEN uplink ELSE [uplink EXCEPT ![used] = Append(@, raw)]
      /\ UNCHANGED <<server, downlink, socket, used, connected, requestId, pending, garbled, served, status, told,
                     attempts, timers, page, online, intervals, view, metrics, listing, debugs>>
  BY DEF DebugTest
<1>2. events' \in 0..MaxEvents
  BY DEF DebugTest, Count, TypeOK
<1>3. used \in Sockets
  BY <1>1, InUse
<1>4. raw \in PageCalls /\ Mark(raw) = raw /\ ~Proper(raw) /\ raw.id = 1
  BY DEF PageCalls, Mark, Proper
<1> HIDE DEF raw
<1>5. /\ uplink[used] \in Seq(PageCalls) /\ Append(uplink[used], raw) \in Seq(PageCalls)
      /\ uplink \in [Sockets -> Seq(PageCalls)]
  <2>1. uplink \in [Sockets -> Seq(PageCalls)]
    BY DEF TypeOK, PageCalls
  <2> QED
    BY <1>3, <1>4, <2>1, AtEnd
<1>6. uplink' \in [Sockets -> Seq(PageCalls)]
  BY <1>1, <1>5
<1>7. TypeOK'
  <2>1. debugged' \in BOOLEAN
    BY <1>1
  <2> QED
    BY <1>1, <1>2, <1>6, <2>1 DEF TypeOK, PageCalls
<1>8. SocketInv' /\ PendingInv'
  BY <1>1 DEF SocketInv, PendingInv
<1>9. ASSUME NEW k \in Sockets
      PROVE  \/ uplink'[k] = uplink[k]
             \/ k = used /\ uplink'[k] = Append(uplink[k], raw)
  BY <1>1, <1>5
<1>10. ASSUME NEW k \in Sockets PROVE Fresh(k)'
  <2>1. Fresh(k)
    BY DEF FreshInv
  <2>2. CASE uplink'[k] = uplink[k]
    BY <1>1, <2>1, <2>2 DEF Fresh
  <2>3. CASE k = used
    BY <1>1, <2>1, <2>3 DEF Fresh
  <2> QED
    BY <1>9, <2>2, <2>3
<1>11. FreshInv'
  BY <1>10 DEF FreshInv
<1>12. requestId \in Nat /\ requestId > 0
  BY <1>1, <1>3, Shape DEF FreshInv, Fresh
<1>13. ASSUME NEW k \in Sockets
       PROVE  /\ Ordered(downlink'[k], uplink'[k])
              /\ \A x \in Round(downlink'[k], uplink'[k]) : x \in Round(downlink[k], uplink[k]) \/ x = raw
  <2>1. Ordered(downlink[k], uplink[k]) /\ uplink[k] \in Seq(PageCalls)
    BY Shape DEF OrderInv
  <2>2. CASE uplink'[k] = uplink[k]
    BY <1>1, <2>1, <2>2
  <2>3. CASE uplink'[k] = Append(uplink[k], raw)
    <3>1. /\ Ordered(downlink[k], Append(uplink[k], raw))
          /\ Round(downlink[k], Append(uplink[k], raw)) \subseteq Round(downlink[k], uplink[k]) \cup {Mark(raw)}
      BY <1>4, <2>1, Requested
    <3> QED
      BY <1>1, <1>4, <2>3, <3>1
  <2> QED
    BY <1>9, <2>2, <2>3
<1>14. OrderInv'
  BY <1>13 DEF OrderInv
<1>15. RoundInv'
  <2>1. ASSUME NEW k \in Sockets, NEW x \in Round(downlink'[k], uplink'[k])
        PROVE  /\ x.id \in 1..requestId'
               /\ ~Proper(x) => x.id = 1 /\ debugged'
               /\ Proper(x) /\ socket'[k] # "closed" => [id |-> x.id, of |-> x.of, n |-> k] \in pending'
    <3>1. CASE x \in Round(downlink[k], uplink[k])
      <4>1. Accounted(x, k)
        BY <3>1 DEF RoundInv
      <4> QED
        BY <1>1, <4>1 DEF Accounted
    <3>2. CASE x = raw
      BY <1>1, <1>4, <1>12, <3>2
    <3> QED
      BY <1>13, <3>1, <3>2
  <2> QED
    BY <2>1, RoundNext
<1>16. ViewInv'
  BY <1>1 DEF ViewInv, Current
<1>17. IntervalInv'
  <2>1. Owed' \in Nat /\ Owed' <= Owed
    BY <1>1, OwedStep
  <2> QED
    BY <1>1, <2>1, AskingLess, IntervalStep
<1> QED
  BY <1>7, <1>8, <1>11, <1>14, <1>15, <1>16, <1>17

-----------------------------------------------------------------------------
(* The theorems. *)

LEMMA InitInv == Init => IInv
<1> SUFFICES ASSUME Init PROVE IInv
  OBVIOUS
<1> USE DEF Init, ReconnectingInit, ClientInit
<1>1. TypeOK
  <2>1. /\ server \in [Sockets -> {"none", "up", "down"}]
        /\ socket \in [Sockets -> {"none", "connecting", "open", "closed"}]
    OBVIOUS
  <2>2. \A S : <<>> \in Seq(S)
    OBVIOUS
  <2>3. uplink \in [Sockets -> Seq([id : Nat, of : PageRequests \cup {"getValue"}])]
    BY <2>2
  <2>4. downlink \in [Sockets -> Seq(PageMessages)]
    BY <2>2
  <2>5. /\ used \in 0..MaxSockets /\ attempts \in 0..MaxReconnectAttempts /\ events \in 0..MaxEvents
        /\ requestId \in Nat /\ timers \in Nat /\ intervals \in Nat /\ debugs \in Nat
    OBVIOUS
  <2>6. /\ connected \in BOOLEAN /\ served \in BOOLEAN /\ told \in BOOLEAN
        /\ online \in BOOLEAN /\ listing \in BOOLEAN /\ debugged \in BOOLEAN
    OBVIOUS
  <2>7. /\ pending \subseteq [id : 1..requestId, of : PageRequests, n : Sockets] /\ garbled \subseteq Nat
        /\ status \in Statuses /\ page \in {"monitoring", "admin"}
        /\ view \in Texts \cup {"unknown"} /\ metrics \in {"none", "live", "default"}
    BY DEF Statuses
  <2> QED
    BY ONLY <2>1, <2>3, <2>4, <2>5, <2>6, <2>7 DEF TypeOK
<1>2. SocketInv
  BY DEF SocketInv, Sockets
<1>3. FreshInv
  BY EmptyQueue DEF FreshInv, Fresh
<1>4. DOMAIN <<>> = {}
  OBVIOUS
<1>5. OrderInv
  BY <1>4, EmptyQueue DEF OrderInv, Ordered
<1>6. RoundInv
  <2>1. \A n \in Sockets : Round(downlink[n], uplink[n]) = {}
    BY <1>4, EmptyQueue DEF Round
  <2> QED
    BY <2>1 DEF RoundInv
<1>7. PendingInv
  BY FS_EmptySet DEF PendingInv
<1>8. ViewInv
  BY DEF ViewInv
<1>9. IntervalInv
  <2>1. Asking = {} /\ Owed = 0
    BY DEF Asking, Owed
  <2>2. Cardinality(Asking) = 0
    BY <2>1, FS_EmptySet
  <2> QED
    BY <2>1, <2>2 DEF IntervalInv
<1> QED
  BY <1>1, <1>2, <1>3, <1>5, <1>6, <1>7, <1>8, <1>9 DEF IInv

LEMMA StutterStep == ASSUME IInv, UNCHANGED vars PROVE IInv'
<1> USE DEF IInv
<1>1. UNCHANGED <<server, uplink, downlink, socket, used, connected, requestId, pending, garbled,
                  served, status, told, attempts, timers, page, online, intervals, debugs, view,
                  metrics, listing, events, debugged>>
  BY DEF vars, clientVars
<1>2. TypeOK'
  BY <1>1 DEF TypeOK
<1>3. SocketInv' /\ PendingInv' /\ FreshInv'
  BY <1>1 DEF SocketInv, PendingInv, FreshInv, Fresh
<1>4. OrderInv' /\ RoundInv'
  BY <1>1, LinkStep, SameLink
<1>5. ViewInv'
  BY <1>1 DEF ViewInv, Current
<1>6. IntervalInv'
  <2>1. Owed' \in Nat /\ Owed' <= Owed
    BY <1>1, OwedStep
  <2> QED
    BY <1>1, <2>1, AskingLess, IntervalStep
<1> QED
  BY <1>2, <1>3, <1>4, <1>5, <1>6

(* What a step is. *)
LEMMA StepCases ==
  ASSUME [Next]_vars
  PROVE  \/ UNCHANGED vars
         \/ \E n \in Sockets : Serve(n)
         \/ \E n \in Sockets : PageOpen(n)
         \/ \E n \in Sockets : PageGreeted(n)
         \/ \E n \in Sockets : PageClose(n)
         \/ \E n \in Sockets : PageAnswered(n)
         \/ \E n \in Sockets : PageNotified(n)
         \/ Load \/ Reload
         \/ OthersChange
         \/ AskSteps
         \/ DebugTest
BY DEF Next, AskSteps

LEMMA InvStep == ASSUME IInv, [Next]_vars PROVE IInv'
<1>1. CASE UNCHANGED vars
  BY <1>1, StutterStep
<1>2. ASSUME NEW n \in Sockets, Serve(n) PROVE IInv'
  BY <1>2, AcceptStep, AnswerStep, IgnoreStep DEF Serve
<1>3. ASSUME NEW n \in Sockets, PageOpen(n) PROVE IInv'
  BY <1>3, OpenStep
<1>4. ASSUME NEW n \in Sockets, PageGreeted(n) PROVE IInv'
  BY <1>4, GreetedStep
<1>5. ASSUME NEW n \in Sockets, PageClose(n) PROVE IInv'
  BY <1>5, CloseStep
<1>6. ASSUME NEW n \in Sockets, PageAnswered(n) PROVE IInv'
  BY <1>6, AnsweredStep
<1>7. ASSUME NEW n \in Sockets, PageNotified(n) PROVE IInv'
  BY <1>7, NotifiedStep
<1>8. CASE Load \/ Reload
  BY <1>8, ConnectStep
<1>9. CASE OthersChange
  BY <1>9, OthersStep
<1>10. CASE AskSteps
  BY <1>10, AskStep
<1>11. CASE DebugTest
  BY <1>11, DebugStep
<1> QED
  BY <1>1, <1>2, <1>3, <1>4, <1>5, <1>6, <1>7, <1>8, <1>9, <1>10, <1>11, StepCases

(* The invariant holds in every state of a page, its client and the server    *)
(* (monitoring.js, admin.js, client/js/rpc-client.js).                       *)
THEOREM Invariant == Spec => []IInv
BY InitInv, InvStep, PTL DEF Spec

(* The variables of the pages, the client and the server have their types:    *)
(* what RPCClient keeps and what is displayed.                               *)
THEOREM TypeCorrect == Spec => []TypeOK
<1>1. IInv => TypeOK
  BY DEF IInv
<1> QED
  BY Invariant, <1>1, PTL

(* A page has one connection or one reconnection under way, or has given up, *)
(* and is connected just when its websocket is open                          *)
(* (RPCClient.handleReconnect, onopen, onclose).                             *)
THEOREM SingleConnection == Spec => []OneConnection
<1>1. ASSUME IInv PROVE OneConnection
  <2> DEFINE S == {n \in Sockets : socket[n] \in {"connecting", "open"}}
  <2> SUFFICES ASSUME used > 0
               PROVE  /\ Cardinality(S) + timers <= 1
                      /\ Cardinality(S) + timers = 0 => attempts = MaxReconnectAttempts
                      /\ connected <=> socket[used] = "open"
    BY DEF OneConnection
  <2>1. TypeOK /\ SocketInv
    BY <1>1 DEF IInv
  <2>2. used \in Sockets
    BY <2>1, InUse
  <2>3. \A n \in S : n = used
    BY <2>1, LastSocket
  <2>4. CASE socket[used] \in {"connecting", "open"}
    <3>1. S = {used} /\ timers = 0
      BY <2>1, <2>2, <2>3, <2>4 DEF SocketInv
    <3>2. Cardinality(S) = 1
      BY <3>1, FS_Singleton
    <3> QED
      BY <2>1, <3>1, <3>2 DEF SocketInv
  <2>5. CASE socket[used] = "closed"
    <3>1. S = {}
      BY <2>2, <2>3, <2>5
    <3>2. Cardinality(S) = 0
      BY <3>1, FS_EmptySet
    <3>3. timers = 1 \/ (timers = 0 /\ attempts = MaxReconnectAttempts)
      BY <2>1, <2>5 DEF SocketInv
    <3> QED
      BY <2>1, <3>2, <3>3 DEF SocketInv
  <2> QED
    BY <2>1, <2>4, <2>5 DEF SocketInv
<1> QED
  BY Invariant, <1>1, PTL

(* Every websocket that a page opens adds two intervals at most: those of      *)
(* onopen and of the welcome (RPCClient.onopen, handleMessage,               *)
(* startMonitoring).                                                         *)
THEOREM FewIntervals == Spec => []IntervalsBounded
<1>1. ASSUME IInv PROVE IntervalsBounded
  <2>1. TypeOK /\ PendingInv /\ IntervalInv
    BY <1>1 DEF IInv
  <2>2. Cardinality(Asking) \in Nat /\ intervals \in Nat /\ Owed \in Nat /\ used \in Nat
    BY <2>1, AskingFinite DEF TypeOK, Owed
  <2>3. intervals + Cardinality(Asking) <= 2 * used
    BY <2>1, <2>2 DEF IntervalInv
  <2> QED
    BY <2>3 DEF IntervalsBounded, Asking
<1> QED
  BY Invariant, <1>1, PTL

(* A monitoring page displays, or is about to, the status of the server when   *)
(* the last frame that told it one told that (startMonitoring, the handler of *)
(* valueChanged, updateValue).                                               *)
THEOREM ViewFollows == Spec => []ViewIsCurrent
<1>1. ASSUME IInv PROVE ViewIsCurrent
  <2> SUFFICES ASSUME page = "monitoring", told, connected, server[used] = "up"
               PROVE  Current(downlink[used], view, status)
    BY DEF ViewIsCurrent, Current
  <2>1. used > 0 /\ socket[used] = "open"
    BY <1>1 DEF IInv, ViewInv, SocketInv
  <2> QED
    BY <1>1, <2>1 DEF IInv, ViewInv
<1> QED
  BY Invariant, <1>1, PTL

(* Only an answer settles a call. *)
LEMMA CallsKept ==
  ASSUME [Next]_vars, ~ \E n \in Sockets : PageAnswered(n)
  PROVE  pending \subseteq pending'
<1> USE DEF clientVars
<1>1. CASE UNCHANGED vars
  BY <1>1 DEF vars
<1>2. ASSUME NEW n \in Sockets, Serve(n) PROVE pending' = pending
  BY <1>2 DEF Serve, Accept, Answer, Ignore, Leave, Establish, Closed
<1>3. \A q, b, ws : Call(q, b, ws) => pending \subseteq pending'
  BY DEF Call
<1>4. ASSUME NEW n \in Sockets, PageOpen(n) \/ PageGreeted(n) PROVE pending \subseteq pending'
  BY <1>3, <1>4 DEF PageOpen, PageGreeted, Opened, Open, Greeted, Welcomed
<1>5. ASSUME NEW n \in Sockets, PageClose(n) \/ PageNotified(n) PROVE pending' = pending
  BY <1>5 DEF PageClose, Dropped, Close, PageNotified, Notified
<1>6. CASE Load \/ Reload \/ OthersChange \/ DebugTest
  BY <1>6 DEF Load, Reload, Dial, Redial, Connect, OthersChange, Elsewhere, DebugTest
<1>7. CASE AskSteps
  BY <1>3, <1>7 DEF AskSteps, UpdateMetrics, UpdateOffline, DebugMetrics, User, SendCommand, Administer,
                    Request, Ask
<1> QED
  BY <1>1, <1>2, <1>4, <1>5, <1>6, <1>7, StepCases

(* A call is settled by the answer to it alone, over the connection that it   *)
(* was made on; the raw request of the test button can only take the place   *)
(* of the first one (RPCClient.call, handleMessage, debugTest).              *)
THEOREM SettledByItsAnswer == Spec => OwnAnswer
<1>1. ASSUME IInv, [Next]_vars, NEW r \in pending \ pending', NEW n \in Sockets, downlink'[n] # downlink[n]
      PROVE  \/ Head(downlink[n]).id = r.id /\ Head(downlink[n]).of = r.of /\ n = r.n
             \/ debugged /\ r.id = 1
  <2>1. PICK k \in Sockets : PageAnswered(k)
    BY <1>1, CallsKept
  <2> DEFINE m == Head(downlink[k])
  <2>2. Incoming(k, {"result", "error"}) /\ pending' = pending \ Settled(m)
    BY <2>1 DEF PageAnswered, Answered, Settle
  <2>3. /\ k = used /\ socket[k] = "open" /\ m \in PageMessages /\ m.kind \in {"result", "error"}
        /\ \A s \in Sockets \ {k} : downlink'[s] = downlink[s]
        /\ m.kind = "result" => Mark(m) \in Round(downlink[k], uplink[k])
    BY <1>1, <2>2, IncomingCases
  <2>4. n = k
    BY <1>1, <2>3
  <2>5. r \in Settled(m)
    BY <1>1, <2>2
  <2> HIDE DEF m
  <2>6. m.kind = "result"
    BY <2>3, MessageKinds
  <2>7. /\ Proper(m) => Settled(m) = {[id |-> m.id, of |-> m.of, n |-> k]}
        /\ ~Proper(m) => m.id = 1 /\ debugged
    BY <1>1, <2>3, <2>6, SettledIs
  <2>8. r.id = m.id
    BY <2>5 DEF Settled
  <2> QED
    BY <2>4, <2>5, <2>7, <2>8 DEF m
<1>2. ASSUME IInv, [Next]_vars
      PROVE  \A r \in pending \ pending', n \in Sockets : downlink'[n] # downlink[n] =>
                \/ Head(downlink[n]).id = r.id /\ Head(downlink[n]).of = r.of /\ n = r.n
                \/ debugged /\ r.id = 1
  BY <1>1, <1>2
<1> QED
  BY Invariant, <1>2, PTL DEF Spec, OwnAnswer
=============================================================================
