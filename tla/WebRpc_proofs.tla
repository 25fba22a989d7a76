----------------------------- MODULE WebRpc_proofs -----------------------------
(***************************************************************************)
(* The web server and its pages keep what is said of their connections, of   *)
(* their calls and of the values that the pages show, for any number of      *)
(* pages, of sockets and of calls.                                           *)
(***************************************************************************)
EXTENDS WebRpc, SequenceTheorems, FiniteSetTheorems, TLAPS

USE MaxReconnectAttemptsAssumption, MaxSocketsAssumption, MaxCallsAssumption
    DEF MaxReconnectAttemptsAssumption, MaxSocketsAssumption, MaxCallsAssumption,
        serverVars, networkVars, clientVars, pageVars

-----------------------------------------------------------------------------
(* The values, and what is written and announced of them. *)

Changes == [key : Keys, value : Texts]

(* The last of two places at most. *)
LEMMA LastPlace ==
  ASSUME NEW S \in SUBSET {1, 2}, S # {}
  PROVE  Max(S) \in S /\ \A y \in S : Max(S) >= y
<1>1. \E x \in S : \A y \in S : x >= y
  <2>1. CASE 2 \in S
    BY <2>1
  <2>2. CASE 2 \notin S
    <3>1. 1 \in S /\ \A y \in S : y = 1
      BY <2>2
    <3> QED
      BY <3>1
  <2> QED
    BY <2>1, <2>2
<1> QED
  BY <1>1 DEF Max

(* The handler of every request but a reset announces what it writes.        *)
LEMMA NoticesWrites ==
  ASSUME NEW c, c.method # "resetSystem"
  PROVE  Notices(c) = Writes(c)
<1>1. CASE c.method = "startCharging"
  BY <1>1 DEF Notices, Writes
<1>2. CASE c.method = "stopCharging"
  BY <1>2 DEF Notices, Writes
<1>3. CASE c.method = "setMaxPower"
  BY <1>3 DEF Notices, Writes
<1>4. CASE c.method = "setValue"
  BY <1>4 DEF Notices, Writes
<1>5. CASE c.method \notin {"startCharging", "stopCharging", "setMaxPower", "setValue"}
  BY <1>5 DEF Notices, Writes
<1> QED
  BY <1>1, <1>2, <1>3, <1>4, <1>5

(* What a request announces: nothing, one change or two.                     *)
LEMMA NoticesShape ==
  ASSUME NEW c \in Asked, Accepted(c)
  PROVE  /\ \/ Notices(c) = <<>>
            \/ \E x \in Changes : Notices(c) = <<x>>
            \/ \E x, y \in Changes : Notices(c) = <<x, y>>
         /\ \/ Writes(c) = <<>>
            \/ \E x \in Changes : Writes(c) = <<x>>
            \/ \E x, y \in Changes : Writes(c) = <<x, y>>
<1>1. \A k \in Keys, v \in Texts : Change(k, v) \in Changes
  BY DEF Change, Changes
<1>2. \A k \in {"systemStatus", "chargingEnabled", "maxPower"} : k \in Keys
  BY DEF Keys
<1>3. c.method = "setMaxPower" => ToText(c.value) \in Texts
  BY DEF Accepted, Reads, Texts
<1>4. c.method = "setValue" => c.key \in Keys /\ c.value \in Texts
  BY CommandsAssumption DEF CommandsAssumption, Texts, Asked, GetValues, GetMetrics
<1>5. \/ Writes(c) = <<>>
      \/ \E x \in Changes : Writes(c) = <<x>>
      \/ \E x, y \in Changes : Writes(c) = <<x, y>>
  <2>1. CASE c.method = "startCharging"
    <3>1. Writes(c) = <<Change("chargingEnabled", "true"), Change("systemStatus", "charging")>>
      BY <2>1 DEF Writes
    <3>2. Change("chargingEnabled", "true") \in Changes /\ Change("systemStatus", "charging") \in Changes
      BY <1>2 DEF Change, Changes, Texts
    <3>3. \E x, y \in Changes : Writes(c) = <<x, y>>
      BY <3>1, <3>2
    <3> QED
      BY <3>3
  <2>2. CASE c.method = "stopCharging"
    <3>1. Writes(c) = <<Change("chargingEnabled", "false"), Change("systemStatus", "ready")>>
      BY <2>2 DEF Writes
    <3>2. Change("chargingEnabled", "false") \in Changes /\ Change("systemStatus", "ready") \in Changes
      BY <1>2 DEF Change, Changes, Texts
    <3>3. \E x, y \in Changes : Writes(c) = <<x, y>>
      BY <3>1, <3>2
    <3> QED
      BY <3>3
  <2>3. CASE c.method = "setMaxPower"
    <3>1. Writes(c) = <<Change("maxPower", ToText(c.value))>>
      BY <2>3 DEF Writes
    <3>2. Change("maxPower", ToText(c.value)) \in Changes
      BY <1>1, <1>2, <1>3, <2>3
    <3>3. \E x \in Changes : Writes(c) = <<x>>
      BY <3>1, <3>2
    <3> QED
      BY <3>3
  <2>4. CASE c.method = "setValue"
    <3>1. Writes(c) = <<Change(c.key, c.value)>>
      BY <2>4 DEF Writes
    <3>2. Change(c.key, c.value) \in Changes
      BY <1>1, <1>4, <2>4
    <3>3. \E x \in Changes : Writes(c) = <<x>>
      BY <3>1, <3>2
    <3> QED
      BY <3>3
  <2>5. CASE c.method \notin {"startCharging", "stopCharging", "setMaxPower", "setValue"}
    BY <2>5 DEF Writes
  <2> QED
    BY <2>1, <2>2, <2>3, <2>4, <2>5
<1>6. \/ Notices(c) = Writes(c)
      \/ \E x \in Changes : Notices(c) = <<x>>
  <2>1. CASE c.method = "resetSystem"
    <3>1. Notices(c) = <<Change("systemStatus", "reset")>>
      BY <2>1 DEF Notices
    <3>2. Change("systemStatus", "reset") \in Changes
      BY <1>2 DEF Change, Changes, Texts
    <3>3. \E x \in Changes : Notices(c) = <<x>>
      BY <3>1, <3>2
    <3> QED
      BY <3>3
  <2>2. CASE c.method # "resetSystem"
    BY <2>2, NoticesWrites
  <2> QED
    BY <2>1, <2>2
<1> QED
  BY <1>5, <1>6

LEMMA ShortSequence ==
  ASSUME NEW S, NEW s, s = <<>> \/ (\E x \in S : s = <<x>>) \/ (\E x, y \in S : s = <<x, y>>)
  PROVE  s \in Seq(S) /\ DOMAIN s \subseteq {1, 2} /\ \A i \in DOMAIN s : s[i] \in S
<1>1. CASE s = <<>>
  BY <1>1
<1>2. ASSUME NEW x \in S, s = <<x>> PROVE s \in Seq(S) /\ DOMAIN s = {1} /\ s[1] = x
  BY <1>2
<1>3. ASSUME NEW x \in S, NEW y \in S, s = <<x, y>>
      PROVE  s \in Seq(S) /\ DOMAIN s = {1, 2} /\ s[1] = x /\ s[2] = y
  BY <1>3
<1>4. ASSUME NEW x \in S, s = <<x>>
      PROVE  s \in Seq(S) /\ DOMAIN s \subseteq {1, 2} /\ \A i \in DOMAIN s : s[i] \in S
  BY <1>2, <1>4
<1>5. ASSUME NEW x \in S, NEW y \in S, s = <<x, y>>
      PROVE  s \in Seq(S) /\ DOMAIN s \subseteq {1, 2} /\ \A i \in DOMAIN s : s[i] \in S
  BY <1>3, <1>5
<1> QED
  BY <1>1, <1>4, <1>5

(* The last change of a key holds. *)
LEMMA WrittenIs ==
  ASSUME NEW u, NEW s \in Seq(Changes), DOMAIN s \subseteq {1, 2}, NEW k \in Keys
  PROVE  \/ (\A i \in DOMAIN s : s[i].key # k) /\ Written(u, s)[k] = u[k]
         \/ \E i \in DOMAIN s : /\ s[i].key = k /\ Written(u, s)[k] = s[i].value
                                /\ \A j \in DOMAIN s : s[j].key = k => j <= i
<1> DEFINE of == {i \in DOMAIN s : s[i].key = k}
<1>1. Written(u, s)[k] = IF of = {} THEN u[k] ELSE s[Max(of)].value
  BY DEF Written
<1>2. CASE of = {}
  BY <1>1, <1>2
<1>3. CASE of # {}
  <2>1. Max(of) \in of /\ \A y \in of : Max(of) >= y
    BY <1>3, LastPlace
  <2>2. Max(of) \in DOMAIN s /\ s[Max(of)].key = k
    BY <2>1
  <2>3. \A j \in DOMAIN s : s[j].key = k => j <= Max(of)
    BY <2>1
  <2> QED
    BY <1>1, <1>3, <2>2, <2>3
<1> QED
  BY <1>2, <1>3

LEMMA WrittenTypes ==
  ASSUME NEW T, Texts \subseteq T, NEW u \in [Keys -> T], NEW s \in Seq(Changes), DOMAIN s \subseteq {1, 2}
  PROVE  Written(u, s) \in [Keys -> T]
<1>1. Written(u, s) = [k \in Keys |-> Written(u, s)[k]]
  BY DEF Written
<1>2. ASSUME NEW k \in Keys PROVE Written(u, s)[k] \in T
  <2>1. CASE Written(u, s)[k] = u[k]
    BY <2>1
  <2>2. ASSUME NEW i \in DOMAIN s, Written(u, s)[k] = s[i].value PROVE Written(u, s)[k] \in T
    <3>1. s[i] \in Changes
      OBVIOUS
    <3> QED
      BY <2>2, <3>1 DEF Changes
  <2> QED
    BY <2>1, <2>2, WrittenIs
<1> QED
  BY <1>1, <1>2

-----------------------------------------------------------------------------
(* The inductive invariant. *)

(* A page creates its sockets in turn, and a timer runs only while the last   *)
(* one is closed.                                                            *)
PageSockets(p) ==
    /\ \A n \in 1..MaxSockets : /\ n > used[p] => socket[<<p, n>>] = "none"
                                /\ n < used[p] => socket[<<p, n>>] = "closed"
    /\ socket[Ws(p)] # "none"
    /\ timers[p] \in {0, 1}
    /\ timers[p] = 1 => socket[Ws(p)] = "closed"
    /\ timers[p] = 0 /\ socket[Ws(p)] = "closed" => attempts[p] = MaxReconnectAttempts
    /\ connected[p] <=> socket[Ws(p)] = "open"

SocketInv == \A p \in Pages : PageSockets(p)

(* A connection that the server does not have yet holds nothing, and no call  *)
(* was made over a socket that is not open yet.                              *)
Fresh(s) ==
    /\ socket[s] = "none" => server[s] = "none"
    /\ server[s] = "none" => /\ socket[s] # "open"
                             /\ buffer[s] = <<>> /\ downlink[s] = <<>>
                             /\ \A k \in Keys : announced[s][k] = None
    /\ socket[s] \in {"none", "connecting"} =>
          uplink[s] = <<>> /\ AnswersIn(Frames(s)) = {} /\ \A r \in pending[s[1]] : r.n # s[2]

FreshInv == \A s \in Sockets : Fresh(s)

(* The answers F come before the requests Q, all in the order of their ids,    *)
(* and these are ids of calls that were made.                                *)
Ordered(F, Q, top) ==
    /\ \A a, b \in AnswerPlaces(F) : Before(a, b) => At(F, a).id < At(F, b).id
    /\ \A i, j \in DOMAIN Q : i < j => Q[i].id < Q[j].id
    /\ \A m \in AnswersIn(F), r \in Range(Q) : m.id < r.id
    /\ \A m \in AnswersIn(F) \cup Range(Q) : m.id \in 1..top

OrderInv == \A s \in Sockets : Ordered(Frames(s), uplink[s], requestId[s[1]])

OwnInv ==
    \A s \in Sockets : socket[s] = "open" => \A m \in Trip(s) : OfCall(m, s) \in pending[s[1]]

(* What CallsAccounted says of a page, of its sockets. *)
Accounted(s) ==
    \A r \in pending[s[1]] : r.n = s[2] =>
       \/ \E m \in Trip(s) : m.id = r.id
       \/ \E x \in lost[s[1]] : x.message.kind = "answer" /\ x.message.id = r.id

AccountInv == \A s \in Sockets : socket[s] = "open" /\ server[s] = "up" => Accounted(s)

(* What a page shows or will show, also before onopen. *)
Shown(s, k) ==
    LET F == Frames(s)  Q == NoticePlaces(F, k)
    IN  announced[s][k] # None =>
          \/ \E a \in Q : At(F, a).value = announced[s][k] /\ \A b \in Q : ~Before(a, b)
          \/ Q = {} /\ view[s[1]][k] = announced[s][k]
          \/ Q = {} /\ \E x \in lost[s[1]] : x.message.kind = "valueChanged" /\ x.message.key = k

ViewInv ==
    \A s \in Sockets : socket[s] \in {"connecting", "open"} /\ server[s] = "up" =>
       \A k \in Keys \ {"systemStatus"} : Shown(s, k)

IInv ==
    /\ TypeOK /\ SocketInv /\ FreshInv /\ OrderInv /\ OwnInv
    /\ AccountInv /\ ViewInv

-----------------------------------------------------------------------------
(* Types. *)

Calling == [id : Nat, method : Methods, command : Asked]

LEMMA InitialTypes == InitialValues \in [Keys -> Texts]
BY DEF InitialValues, Keys, Texts

LEMMA AskedMethods == \A c \in Asked : c.method \in Methods
BY DEF Methods

(* What the server reads, and what it writes. *)
LEMMA ReadStep ==
  ASSUME TypeOK, NEW s \in Sockets, Receive(s)
  PROVE  LET r == Head(uplink[s])
             ok == Accepted(r.command)
             notices == IF ok THEN Notices(r.command) ELSE <<>>
             messages == [i \in DOMAIN notices |-> Notice(notices[i])]
         IN /\ r \in Calling /\ uplink[s] \in Seq(Calling) /\ uplink[s] # <<>>
            /\ Answer(r, ok) \in Messages
            /\ notices \in Seq(Changes) /\ DOMAIN notices \subseteq {1, 2}
            /\ messages \in Seq(Messages) /\ DOMAIN messages = DOMAIN notices
            /\ \A i \in DOMAIN notices : messages[i] = Notice(notices[i]) /\ notices[i] \in Changes
            /\ values' \in [Keys -> Texts]
<1> DEFINE r == Head(uplink[s])
<1> DEFINE ok == Accepted(r.command)
<1> DEFINE notices == IF ok THEN Notices(r.command) ELSE <<>>
<1> DEFINE messages == [i \in DOMAIN notices |-> Notice(notices[i])]
<1>1. uplink[s] \in Seq(Calling) /\ uplink[s] # <<>> /\ r \in Calling
  <2>1. uplink \in [Sockets -> Seq(Calling)]
    BY DEF TypeOK, Calling
  <2>2. uplink[s] # <<>>
    BY DEF Receive
  <2> QED
    BY <2>1, <2>2, HeadTailProperties
<1>2. r.command \in Asked
  BY <1>1 DEF Calling
<1>3. ok \in BOOLEAN
  BY Zenon DEF Accepted
<1>4. Answer(r, ok) \in Messages
  BY <1>1, <1>3 DEF Answer, Messages, Calling
<1>5. values' = IF ok THEN Effect(values, r.command) ELSE values
  BY DEF Receive
<1> HIDE DEF r
<1>6. /\ notices \in Seq(Changes) /\ DOMAIN notices \subseteq {1, 2}
      /\ \A i \in DOMAIN notices : notices[i] \in Changes
  <2>1. CASE ok
    BY <1>2, <2>1, NoticesShape, ShortSequence
  <2>2. CASE ~ok
    BY <2>2, ShortSequence
  <2> QED
    BY <2>1, <2>2
<1>7. values' \in [Keys -> Texts]
  <2>1. CASE ok /\ r.command.method # "resetSystem"
    <3>1. Writes(r.command) \in Seq(Changes) /\ DOMAIN Writes(r.command) \subseteq {1, 2}
      BY <1>2, <2>1, NoticesShape, ShortSequence
    <3>2. values \in [Keys -> Texts] /\ Texts \subseteq Texts
      BY DEF TypeOK
    <3>3. Written(values, Writes(r.command)) \in [Keys -> Texts]
      BY <3>1, <3>2, WrittenTypes
    <3> QED
      BY <1>5, <2>1, <3>3 DEF Effect
  <2>2. CASE ok /\ r.command.method = "resetSystem"
    BY <1>5, <2>2, InitialTypes DEF Effect
  <2>3. CASE ~ok
    BY <1>5, <2>3 DEF TypeOK
  <2> QED
    BY <2>1, <2>2, <2>3
<1> HIDE DEF notices
<1>8. \A c \in Changes : Notice(c) \in Messages
  BY DEF Notice, Messages, Changes
<1>9. messages \in Seq(Messages) /\ DOMAIN messages = DOMAIN notices
  <2>1. PICK n \in Nat : DOMAIN notices = 1..n
    BY <1>6
  <2>2. messages \in [1..n -> Messages]
    BY <1>6, <1>8, <2>1
  <2> QED
    BY <2>1, <2>2, SeqDef
<1>10. \A i \in DOMAIN notices : messages[i] = Notice(notices[i])
  OBVIOUS
<1> QED
  BY <1>1, <1>4, <1>6, <1>7, <1>9, <1>10 DEF r, notices

(* What a callback adds to a write buffer. *)
Added(t, s, messages, answer) ==
    (IF t \in Up THEN messages ELSE <<>>) \o (IF t = s THEN <<answer>> ELSE <<>>)

LEMMA RespondStep ==
  ASSUME TypeOK, NEW s \in Sockets, NEW messages \in Seq(Messages), NEW answer \in Messages,
         Respond(s, messages, answer), NEW t \in Sockets
  PROVE  /\ Added(t, s, messages, answer) \in Seq(Messages)
         /\ buffer'[t] = buffer[t] \o Added(t, s, messages, answer)
         /\ buffer'[t] \in Seq(Messages)
<1> DEFINE A == IF t \in Up THEN messages ELSE <<>>
<1> DEFINE B == IF t = s THEN <<answer>> ELSE <<>>
<1>1. buffer[t] \in Seq(Messages) /\ A \in Seq(Messages) /\ B \in Seq(Messages)
  BY DEF TypeOK
<1>2. buffer'[t] = buffer[t] \o A \o B
  BY DEF Respond
<1> HIDE DEF A, B
<1>3. A \o B \in Seq(Messages)
  BY <1>1, ConcatProperties
<1>4. (buffer[t] \o A) \o B = buffer[t] \o (A \o B)
  <2>1. \A x, y, z \in Seq(Messages) : (x \o y) \o z = x \o (y \o z)
    BY ConcatAssociative
  <2> QED
    BY <1>1, <2>1, Zenon
<1>5. buffer'[t] = buffer[t] \o (A \o B)
  BY <1>2, <1>4
<1> QED
  BY <1>1, <1>3, <1>5, ConcatProperties DEF Added, A, B

LEMMA ReceiveTypes == ASSUME TypeOK, NEW s \in Sockets, Receive(s) PROVE TypeOK'
<1> DEFINE r == Head(uplink[s])
<1> DEFINE ok == Accepted(r.command)
<1> DEFINE notices == IF ok THEN Notices(r.command) ELSE <<>>
<1> DEFINE messages == [i \in DOMAIN notices |-> Notice(notices[i])]
<1>1. /\ r \in Calling /\ uplink[s] \in Seq(Calling) /\ uplink[s] # <<>>
      /\ Answer(r, ok) \in Messages
      /\ notices \in Seq(Changes) /\ DOMAIN notices \subseteq {1, 2}
      /\ messages \in Seq(Messages)
      /\ values' \in [Keys -> Texts]
  BY ReadStep
<1>2. /\ Respond(s, messages, Answer(r, ok))
      /\ announced' = [t \in Sockets |-> IF t \in Up THEN Written(announced[t], notices) ELSE announced[t]]
  BY DEF Receive
<1>3. uplink' = [uplink EXCEPT ![s] = Tail(@)] /\ UNCHANGED <<server, downlink, clientVars, pageVars>>
  BY DEF Receive
<1> HIDE DEF r, ok, notices, messages
<1>4. buffer' \in [Sockets -> Seq(Messages)]
  <2>1. buffer' = [t \in Sockets |-> buffer'[t]]
    BY <1>2 DEF Respond
  <2>2. \A t \in Sockets : buffer'[t] \in Seq(Messages)
    BY <1>1, <1>2, RespondStep
  <2> QED
    BY <2>1, <2>2
<1>5. announced' \in [Sockets -> [Keys -> Texts \cup {None}]]
  <2>1. ASSUME NEW t \in Sockets PROVE Written(announced[t], notices) \in [Keys -> Texts \cup {None}]
    <3>1. announced[t] \in [Keys -> Texts \cup {None}]
      BY DEF TypeOK
    <3> QED
      BY <1>1, <3>1, WrittenTypes
  <2>2. announced \in [Sockets -> [Keys -> Texts \cup {None}]]
    BY DEF TypeOK
  <2> QED
    BY <1>2, <2>1, <2>2
<1>6. uplink' \in [Sockets -> Seq(Calling)]
  BY <1>1, <1>3, HeadTailProperties DEF TypeOK, Calling
<1> QED
  BY <1>1, <1>3, <1>4, <1>5, <1>6 DEF TypeOK, Calling

LEMMA ServerTypes ==
  ASSUME TypeOK, NEW s \in Sockets, Establish(s) \/ Writeable(s) \/ Closed(s)
  PROVE  TypeOK'
<1>1. Welcome \in Messages /\ <<Welcome>> \in Seq(Messages)
  <2>1. Welcome \in Messages
    BY DEF Messages
  <2> QED
    BY <2>1
<1>2. <<>> \in Seq(Messages) /\ <<>> \in Seq(Calling)
  OBVIOUS
<1>3. CASE Establish(s)
  BY <1>1, <1>3 DEF Establish, TypeOK
<1>4. CASE Writeable(s)
  <2>1. buffer \in [Sockets -> Seq(Messages)] /\ downlink \in [Sockets -> Seq(Seq(Messages))]
    BY DEF TypeOK
  <2>2. Append(downlink[s], buffer[s]) \in Seq(Seq(Messages))
    BY <2>1, AppendProperties
  <2>3. downlink' \in [Sockets -> Seq(Seq(Messages))] /\ buffer' \in [Sockets -> Seq(Messages)]
    BY <1>2, <1>4, <2>1, <2>2 DEF Writeable
  <2> QED
    BY <1>4, <2>3 DEF Writeable, TypeOK
<1>5. CASE Closed(s)
  BY <1>2, <1>5 DEF Closed, TypeOK, Calling
<1> QED
  BY <1>3, <1>4, <1>5

Request(p, c) == [id |-> requestId[p] + 1, method |-> c.method, command |-> c]

(* What a call adds: a pending one, and a request behind the others. *)
LEMMA SendStep ==
  ASSUME TypeOK, NEW p \in Pages, NEW c \in Asked, Send(p, c)
  PROVE  /\ Ws(p) \in Sockets
         /\ Request(p, c) \in Calling /\ Request(p, c).id = requestId[p] + 1
         /\ requestId' \in [Pages -> Nat] /\ requestId'[p] = requestId[p] + 1
         /\ \A q \in Pages \ {p} : requestId'[q] = requestId[q]
         /\ pending' \in [Pages -> SUBSET [id : Nat, method : Methods, n : 1..MaxSockets]]
         /\ pending'[p] = pending[p] \cup {OfCall(Request(p, c), Ws(p))}
         /\ \A q \in Pages \ {p} : pending'[q] = pending[q]
         /\ uplink' \in [Sockets -> Seq(Calling)]
         /\ \A t \in Sockets \ {Ws(p)} : uplink'[t] = uplink[t]
         /\ IF server[Ws(p)] = "down" THEN uplink'[Ws(p)] = uplink[Ws(p)]
            ELSE uplink'[Ws(p)] = Append(uplink[Ws(p)], Request(p, c))
<1> DEFINE r == [id |-> requestId[p] + 1, method |-> c.method]
<1>1. /\ requestId \in [Pages -> Nat] /\ uplink \in [Sockets -> Seq(Calling)]
      /\ pending \in [Pages -> SUBSET [id : Nat, method : Methods, n : 1..MaxSockets]]
      /\ used \in [Pages -> 1..MaxSockets]
  BY DEF TypeOK, Calling
<1>2. Ws(p) \in Sockets /\ Ws(p)[2] = used[p]
  BY <1>1 DEF Ws, Sockets
<1>3. Request(p, c) \in Calling /\ Request(p, c).id = requestId[p] + 1
  BY <1>1, AskedMethods DEF Request, Calling
<1>4. requestId' = [requestId EXCEPT ![p] = requestId[p] + 1]
  BY DEF Send
<1>5. pending' = [pending EXCEPT ![p] = @ \cup {OfCall(Request(p, c), Ws(p))}]
  BY <1>2 DEF Send, OfCall, Request
<1>6. uplink' = IF server[Ws(p)] = "down" THEN uplink
                ELSE [uplink EXCEPT ![Ws(p)] = Append(@, Request(p, c))]
  BY DEF Send, Request
<1>7. OfCall(Request(p, c), Ws(p)) \in [id : Nat, method : Methods, n : 1..MaxSockets]
  BY <1>1, <1>2, <1>3 DEF OfCall, Calling
<1>8. Append(uplink[Ws(p)], Request(p, c)) \in Seq(Calling)
  BY <1>1, <1>2, <1>3, AppendProperties
<1>9. requestId' \in [Pages -> Nat] /\ requestId'[p] = requestId[p] + 1
  BY <1>1, <1>4
<1>10. pending' \in [Pages -> SUBSET [id : Nat, method : Methods, n : 1..MaxSockets]]
  BY <1>1, <1>5, <1>7
<1>11. uplink' \in [Sockets -> Seq(Calling)]
  BY <1>1, <1>2, <1>6, <1>8
<1> QED
  BY <1>1, <1>2, <1>3, <1>4, <1>5, <1>6, <1>9, <1>10, <1>11

LEMMA DefaultTypes ==
  ASSUME TypeOK, NEW p \in Pages, SetDefaultValues(p)
  PROVE  /\ view' \in [Pages -> [Keys -> Texts \cup {None, "disconnected"}]]
         /\ \A q \in Pages, k \in Keys \ {"systemStatus"} : view'[q][k] = view[q][k]
BY DEF SetDefaultValues, TypeOK, Keys

(* What a page does when it starts its monitoring. *)
LEMMA StartTypes ==
  ASSUME TypeOK, NEW p \in Pages, StartMonitoring(p)
  PROVE  /\ requestId' \in [Pages -> Nat]
         /\ pending' \in [Pages -> SUBSET [id : Nat, method : Methods, n : 1..MaxSockets]]
         /\ uplink' \in [Sockets -> Seq(Calling)]
         /\ view' \in [Pages -> [Keys -> Texts \cup {None, "disconnected"}]]
         /\ \A q \in Pages, k \in Keys \ {"systemStatus"} : view'[q][k] = view[q][k]
         /\ Send(p, GetValues) \/ UNCHANGED <<requestId, pending, uplink>>
<1>1. GetValues \in Asked
  BY DEF Asked
<1>2. CASE rpcEnabled[p]
  BY <1>1, <1>2, SendStep DEF StartMonitoring, TypeOK
<1>3. CASE ~rpcEnabled[p]
  BY <1>3, DefaultTypes DEF StartMonitoring, TypeOK, Calling
<1> QED
  BY <1>2, <1>3

LEMMA MessageTypes ==
  ASSUME TypeOK, NEW p \in Pages, downlink[Ws(p)] # <<>>
  PROVE  /\ Ws(p) \in Sockets /\ downlink[Ws(p)] \in Seq(Seq(Messages))
         /\ Head(downlink[Ws(p)]) \in Seq(Messages)
         /\ \A i \in DOMAIN Head(downlink[Ws(p)]) : Head(downlink[Ws(p)])[i] \in Messages
         /\ Tail(downlink[Ws(p)]) \in Seq(Seq(Messages))
<1>1. Ws(p) \in Sockets
  BY DEF TypeOK, Ws, Sockets
<1>2. downlink[Ws(p)] \in Seq(Seq(Messages))
  BY <1>1 DEF TypeOK
<1>3. Head(downlink[Ws(p)]) \in Seq(Messages) /\ Tail(downlink[Ws(p)]) \in Seq(Seq(Messages))
  BY <1>2, HeadTailProperties
<1>4. \A i \in DOMAIN Head(downlink[Ws(p)]) : Head(downlink[Ws(p)])[i] \in Messages
  BY <1>3, LenProperties, ElementOfSeq
<1> QED
  BY <1>1, <1>2, <1>3, <1>4

LEMMA MessageStep == ASSUME TypeOK, NEW p \in Pages, Message(p) PROVE TypeOK'
<1> DEFINE frame == Head(downlink[Ws(p)])
<1> DEFINE m == frame[1]
<1>1. /\ Ws(p) \in Sockets /\ frame \in Seq(Messages)
      /\ \A i \in DOMAIN frame : frame[i] \in Messages
      /\ Tail(downlink[Ws(p)]) \in Seq(Seq(Messages))
  BY MessageTypes DEF Message
<1>2. downlink' \in [Sockets -> Seq(Seq(Messages))]
  BY <1>1 DEF Message, TypeOK
<1>3. /\ UNCHANGED <<serverVars, socket, used, connected, attempts, timers, rpcEnabled, calls>>
      /\ IF rpcEnabled[p] /\ Len(frame) = 1 THEN Handle(p, m) ELSE Discard(p, frame)
  BY DEF Message
<1> DEFINE Goal == /\ requestId' \in [Pages -> Nat]
                   /\ pending' \in [Pages -> SUBSET [id : Nat, method : Methods, n : 1..MaxSockets]]
                   /\ uplink' \in [Sockets -> Seq(Calling)]
                   /\ metrics' \in [Pages -> BOOLEAN]
                   /\ view' \in [Pages -> [Keys -> Texts \cup {None, "disconnected"}]]
                   /\ lost' \in [Pages -> SUBSET [message : Messages, paused : BOOLEAN]]
<1>4. /\ requestId \in [Pages -> Nat]
      /\ pending \in [Pages -> SUBSET [id : Nat, method : Methods, n : 1..MaxSockets]]
      /\ uplink \in [Sockets -> Seq(Calling)]
      /\ metrics \in [Pages -> BOOLEAN] /\ rpcEnabled \in [Pages -> BOOLEAN]
      /\ view \in [Pages -> [Keys -> Texts \cup {None, "disconnected"}]]
      /\ lost \in [Pages -> SUBSET [message : Messages, paused : BOOLEAN]]
  BY DEF TypeOK, Calling
<1> HIDE DEF frame
<1>5. ASSUME Discard(p, frame) PROVE Goal
  <2>1. \A i \in DOMAIN frame : [message |-> frame[i], paused |-> ~rpcEnabled[p]]
                                  \in [message : Messages, paused : BOOLEAN]
    BY <1>1, <1>4
  <2> DEFINE X == {[message |-> frame[i], paused |-> ~rpcEnabled[p]] : i \in DOMAIN frame}
  <2>2. X \in SUBSET [message : Messages, paused : BOOLEAN]
    BY <2>1
  <2>3. lost' = [lost EXCEPT ![p] = @ \cup X] /\ UNCHANGED <<requestId, pending, uplink, metrics, view>>
    BY <1>5 DEF Discard
  <2> HIDE DEF X
  <2> QED
    BY <1>4, <2>2, <2>3
<1>6. ASSUME Len(frame) = 1, Handle(p, m) PROVE Goal
  <2>1. m \in Messages
    BY <1>1, <1>6
  <2>2. CASE m.kind = "answer" /\ Settle(p, m)
    <3>1. pending' = [pending EXCEPT ![p] = @ \ {r \in pending[p] : r.id = m.id}]
      BY <2>2 DEF Settle
    <3>2. pending' \in [Pages -> SUBSET [id : Nat, method : Methods, n : 1..MaxSockets]]
      BY <1>4, <3>1
    <3>3. metrics' \in [Pages -> BOOLEAN]
      BY <1>4, <2>2, Zenon DEF Settle
    <3>4. view' \in [Pages -> [Keys -> Texts \cup {None, "disconnected"}]]
      BY <1>4, <2>2, DefaultTypes DEF Settle
    <3> QED
      BY <1>4, <2>2, <3>2, <3>3, <3>4 DEF Settle
  <2>3. CASE m.kind = "valueChanged" /\ Show(p, m)
    <3>1. m.key \in Keys /\ m.value \in Texts
      BY <2>1, <2>3 DEF Messages, Welcome
    <3> QED
      BY <1>4, <2>3, <3>1 DEF Show
  <2>4. CASE m.kind = "connected" /\ StartMonitoring(p) /\ UNCHANGED <<metrics, lost>>
    BY <1>4, <2>4, StartTypes
  <2> QED
    BY <1>6, <2>2, <2>3, <2>4 DEF Handle
<1>7. Goal
  BY <1>3, <1>5, <1>6
<1> QED
  BY <1>2, <1>3, <1>7 DEF TypeOK, Calling

LEMMA PageTypes ==
  ASSUME TypeOK, NEW p \in Pages,
         \/ Open(p) \/ Tick(p) \/ ToggleRPC(p) \/ Reconnect(p)
         \/ \E c \in Commands : Click(p, c)
         \/ \E n \in 1..MaxSockets : Close(p, n)
  PROVE  TypeOK'
<1>1. /\ GetMetrics \in Asked /\ Commands \subseteq Asked /\ Ws(p) \in Sockets
      /\ used \in [Pages -> 1..MaxSockets] /\ calls \in [Pages -> 0..MaxCalls]
      /\ attempts \in [Pages -> 0..MaxReconnectAttempts] /\ timers \in [Pages -> Nat]
  BY DEF Asked, TypeOK, Ws, Sockets
<1>2. CASE Open(p)
  <2>1. connected' \in [Pages -> BOOLEAN]
    BY <1>2 DEF Open, TypeOK
  <2>2. attempts' \in [Pages -> 0..MaxReconnectAttempts]
    BY <1>1, <1>2 DEF Open
  <2> QED
    BY <1>1, <1>2, <2>1, <2>2, StartTypes DEF Open, TypeOK, Calling
<1>3. ASSUME calls[p] < MaxCalls, calls' = [calls EXCEPT ![p] = @ + 1]
      PROVE  calls' \in [Pages -> 0..MaxCalls]
  BY <1>1, <1>3
<1>4. CASE Tick(p)
  <2>1. CASE connected[p]
    <3>1. Send(p, GetMetrics) /\ UNCHANGED view
      BY <1>4, <2>1 DEF Tick
    <3> QED
      BY <1>1, <1>3, <1>4, <3>1, SendStep DEF Tick, TypeOK, Calling
  <2>2. CASE ~connected[p]
    <3>1. SetDefaultValues(p) /\ UNCHANGED <<requestId, pending, uplink>>
      BY <1>4, <2>2 DEF Tick
    <3> QED
      BY <1>3, <1>4, <3>1, DefaultTypes DEF Tick, TypeOK
  <2> QED
    BY <2>1, <2>2
<1>5. CASE ToggleRPC(p)
  <2>1. rpcEnabled' \in [Pages -> BOOLEAN] /\ metrics' \in [Pages -> BOOLEAN]
    BY <1>5, Zenon DEF ToggleRPC, TypeOK
  <2> QED
    BY <1>3, <1>5, <2>1 DEF ToggleRPC, TypeOK
<1>6. CASE Reconnect(p)
  <2>1. <<p, used[p] + 1>> \in Sockets
    BY <1>1, <1>6 DEF Reconnect, Sockets
  <2>2. used' \in [Pages -> 1..MaxSockets] /\ timers' \in [Pages -> Nat]
    BY <1>1, <1>6 DEF Reconnect
  <2> QED
    BY <1>6, <2>1, <2>2 DEF Reconnect, TypeOK
<1>7. ASSUME NEW c \in Commands, Click(p, c) PROVE TypeOK'
  BY <1>1, <1>3, <1>7, SendStep DEF Click, TypeOK, Calling
<1>8. ASSUME NEW n \in 1..MaxSockets, Close(p, n) PROVE TypeOK'
  <2>1. <<p, n>> \in Sockets
    BY DEF Sockets
  <2>2. attempts' \in [Pages -> 0..MaxReconnectAttempts] /\ timers' \in [Pages -> Nat]
    <3>1. attempts[p] \in 0..MaxReconnectAttempts /\ timers[p] \in Nat
      BY <1>1
    <3>2. CASE attempts[p] < MaxReconnectAttempts
      <4>1. attempts' = [attempts EXCEPT ![p] = @ + 1] /\ timers' = [timers EXCEPT ![p] = @ + 1]
        BY <1>8, <3>2 DEF Close, HandleReconnect
      <4>2. attempts[p] + 1 \in 0..MaxReconnectAttempts /\ timers[p] + 1 \in Nat
        BY <3>1, <3>2
      <4> QED
        BY <1>1, <4>1, <4>2
    <3>3. CASE ~(attempts[p] < MaxReconnectAttempts)
      BY <1>1, <1>8, <3>3 DEF Close, HandleReconnect
    <3> QED
      BY <3>2, <3>3
  <2>3. connected' \in [Pages -> BOOLEAN] /\ metrics' \in [Pages -> BOOLEAN]
    BY <1>8 DEF Close, TypeOK
  <2>4. downlink' \in [Sockets -> Seq(Seq(Messages))]
    BY <1>8, <2>1 DEF Close, TypeOK
  <2> QED
    BY <1>8, <2>1, <2>2, <2>3, <2>4, DefaultTypes DEF Close, TypeOK
<1> QED
  BY <1>2, <1>4, <1>5, <1>6, <1>7, <1>8

LEMMA TypeStep == ASSUME TypeOK, [Next]_vars PROVE TypeOK'
<1>1. CASE UNCHANGED vars
  BY <1>1 DEF vars, TypeOK
<1> QED
  BY <1>1, ReceiveTypes, ServerTypes, MessageStep, PageTypes DEF Next, Server, Page

-----------------------------------------------------------------------------
(* What the steps do to the frames. *)

(* Every message of G is one of F, d frames further. *)
Kept(F, G, d) ==
    \A b \in Places(G) : <<b[1] + d, b[2]>> \in Places(F) /\ At(G, b) = At(F, <<b[1] + d, b[2]>>)

(* G is F, with messages behind its last one. *)
Grown(F, G, new) ==
    LET place(j) == <<Len(F), Len(F[Len(F)]) + j>>
    IN /\ \A a \in Places(F) : a \in Places(G) /\ At(G, a) = At(F, a) /\ \A j \in DOMAIN new : Before(a, place(j))
       /\ \A j \in DOMAIN new : place(j) \in Places(G) /\ At(G, place(j)) = new[j]
       /\ \A b \in Places(G) : b \in Places(F) \/ \E j \in DOMAIN new : b = place(j)

LEMMA PlacesIn ==
  ASSUME NEW S, NEW F \in Seq(Seq(S))
  PROVE  /\ \A i \in DOMAIN F : \A k \in DOMAIN F[i] : <<i, k>> \in Places(F) /\ At(F, <<i, k>>) = F[i][k]
         /\ \A a \in Places(F) : /\ a = <<a[1], a[2]>> /\ a[1] \in DOMAIN F /\ a[2] \in DOMAIN F[a[1]]
                                 /\ a[1] \in Nat /\ a[2] \in Nat /\ At(F, a) = F[a[1]][a[2]] /\ At(F, a) \in S
<1>1. \A i \in DOMAIN F : \A k \in DOMAIN F[i] : <<i, k>> \in Places(F) /\ At(F, <<i, k>>) = F[i][k]
  BY DEF Places, At
<1>2. \A a \in Places(F) : \E i \in DOMAIN F : \E k \in DOMAIN F[i] : a = <<i, k>>
  BY DEF Places
<1>3. \A i \in DOMAIN F : i \in Nat /\ F[i] \in Seq(S)
  OBVIOUS
<1>4. \A i \in DOMAIN F : \A k \in DOMAIN F[i] : k \in Nat /\ F[i][k] \in S
  BY <1>3
<1> QED
  BY <1>1, <1>2, <1>3, <1>4

LEMMA FrameShape ==
  ASSUME NEW S, NEW D \in Seq(Seq(S)), NEW b \in Seq(S)
  PROVE  /\ Append(D, b) \in Seq(Seq(S))
         /\ Len(Append(D, b)) = Len(D) + 1 /\ Len(D) \in Nat
         /\ DOMAIN Append(D, b) = 1..(Len(D) + 1) /\ DOMAIN D = 1..Len(D)
         /\ Append(D, b)[Len(D) + 1] = b
         /\ \A i \in DOMAIN D : Append(D, b)[i] = D[i]
<1>1. /\ Append(D, b) \in Seq(Seq(S)) /\ Len(Append(D, b)) = Len(D) + 1
      /\ \A i \in 1..Len(D) : Append(D, b)[i] = D[i]
      /\ Append(D, b)[Len(D) + 1] = b
  BY AppendProperties
<1> QED
  BY <1>1, LenProperties

(* The frames of a socket, before and after a step. *)
LEMMA FramesAre ==
  ASSUME TypeOK, NEW s \in Sockets
  PROVE  /\ Frames(s) = Append(downlink[s], buffer[s]) /\ Frames(s) \in Seq(Seq(Messages))
         /\ downlink[s] \in Seq(Seq(Messages)) /\ buffer[s] \in Seq(Messages)
<1>1. downlink[s] \in Seq(Seq(Messages)) /\ buffer[s] \in Seq(Messages)
  BY DEF TypeOK
<1> QED
  BY <1>1, FrameShape DEF Frames

LEMMA FramesNext ==
  ASSUME TypeOK', NEW s \in Sockets
  PROVE  /\ Frames(s)' = Append(downlink'[s], buffer'[s]) /\ Frames(s)' \in Seq(Seq(Messages))
         /\ downlink'[s] \in Seq(Seq(Messages)) /\ buffer'[s] \in Seq(Messages)
<1>1. downlink'[s] \in Seq(Seq(Messages)) /\ buffer'[s] \in Seq(Messages)
  BY DEF TypeOK
<1> QED
  BY <1>1, FrameShape DEF Frames

LEMMA KeptSame == ASSUME NEW S, NEW F \in Seq(Seq(S)) PROVE Kept(F, F, 0)
BY PlacesIn DEF Kept

(* Frames that are the same further on. *)
LEMMA KeptFrames ==
  ASSUME NEW S, NEW F \in Seq(Seq(S)), NEW G \in Seq(Seq(S)), NEW d \in Nat,
         \A i \in DOMAIN G : DOMAIN G[i] # {} => i + d \in DOMAIN F /\ G[i] = F[i + d]
  PROVE  Kept(F, G, d)
<1> SUFFICES ASSUME NEW b \in Places(G)
             PROVE  <<b[1] + d, b[2]>> \in Places(F) /\ At(G, b) = At(F, <<b[1] + d, b[2]>>)
  BY DEF Kept
<1>1. b[1] \in DOMAIN G /\ b[2] \in DOMAIN G[b[1]] /\ At(G, b) = G[b[1]][b[2]]
  BY PlacesIn
<1>2. b[1] + d \in DOMAIN F /\ G[b[1]] = F[b[1] + d]
  BY <1>1
<1> QED
  BY <1>1, <1>2, PlacesIn

(* The last frame grows. *)
LEMMA GrownFrames ==
  ASSUME NEW S, NEW F \in Seq(Seq(S)), NEW G \in Seq(Seq(S)), NEW new \in Seq(S),
         F # <<>>, Len(G) = Len(F), \A i \in DOMAIN F : i # Len(F) => G[i] = F[i],
         G[Len(F)] = F[Len(F)] \o new
  PROVE  Grown(F, G, new)
<1> DEFINE L == Len(F)
<1> DEFINE B == Len(F[L])
<1> DEFINE place(j) == <<L, B + j>>
<1>1. /\ L \in Nat /\ L > 0 /\ DOMAIN F = 1..L /\ DOMAIN G = 1..L /\ F[L] \in Seq(S) /\ B \in Nat
      /\ DOMAIN F[L] = 1..B
  BY LenProperties
<1>2. Len(new) \in Nat /\ DOMAIN new = 1..Len(new)
  BY LenProperties
<1>3. /\ DOMAIN G[L] = 1..(B + Len(new))
      /\ \A k \in 1..B : G[L][k] = F[L][k]
      /\ \A j \in DOMAIN new : B + j \in DOMAIN G[L] /\ G[L][B + j] = new[j]
  <2>1. /\ G[L] \in Seq(S) /\ Len(G[L]) = B + Len(new)
        /\ \A k \in 1..(B + Len(new)) : G[L][k] = IF k <= B THEN F[L][k] ELSE new[k - B]
    BY <1>1, ConcatProperties
  <2>2. DOMAIN G[L] = 1..(B + Len(new))
    BY <2>1, LenProperties
  <2>3. \A k \in 1..B : G[L][k] = F[L][k]
    BY <1>1, <1>2, <2>1
  <2>4. ASSUME NEW j \in DOMAIN new PROVE B + j \in DOMAIN G[L] /\ G[L][B + j] = new[j]
    <3>1. B + j \in 1..(B + Len(new)) /\ ~(B + j <= B) /\ (B + j) - B = j
      BY <1>1, <1>2
    <3> QED
      BY <2>1, <2>2, <3>1
  <2> QED
    BY <2>2, <2>3, <2>4
<1> HIDE DEF L, B
<1>4. ASSUME NEW a \in Places(F)
      PROVE  a \in Places(G) /\ At(G, a) = At(F, a) /\ \A j \in DOMAIN new : Before(a, place(j))
  <2>1. a = <<a[1], a[2]>> /\ a[1] \in 1..L /\ a[2] \in DOMAIN F[a[1]] /\ At(F, a) = F[a[1]][a[2]]
    BY <1>1, PlacesIn
  <2>2. CASE a[1] = L
    <3>1. a[2] \in 1..B /\ a[2] \in DOMAIN G[L] /\ G[L][a[2]] = F[L][a[2]]
      BY <1>1, <1>2, <1>3, <2>1, <2>2
    <3>2. a \in Places(G) /\ At(G, a) = G[L][a[2]]
      BY <1>1, <2>1, <2>2, <3>1, PlacesIn
    <3>3. \A j \in DOMAIN new : Before(a, place(j))
      BY <1>1, <1>2, <2>2, <3>1 DEF Before
    <3> QED
      BY <2>1, <2>2, <3>1, <3>2, <3>3
  <2>3. CASE a[1] # L
    <3>1. G[a[1]] = F[a[1]]
      BY <1>1, <2>1, <2>3 DEF L
    <3>2. a \in Places(G) /\ At(G, a) = G[a[1]][a[2]]
      BY <1>1, <2>1, <3>1, PlacesIn
    <3>3. \A j \in DOMAIN new : Before(a, place(j))
      BY <1>1, <2>1, <2>3 DEF Before
    <3> QED
      BY <2>1, <3>1, <3>2, <3>3
  <2> QED
    BY <2>2, <2>3
<1>5. ASSUME NEW j \in DOMAIN new PROVE place(j) \in Places(G) /\ At(G, place(j)) = new[j]
  <2>1. L \in DOMAIN G /\ B + j \in DOMAIN G[L] /\ G[L][B + j] = new[j]
    BY <1>1, <1>3
  <2>2. <<L, B + j>> \in Places(G) /\ At(G, <<L, B + j>>) = G[L][B + j]
    BY <2>1, PlacesIn
  <2> QED
    BY <2>1, <2>2
<1>6. ASSUME NEW b \in Places(G) PROVE b \in Places(F) \/ \E j \in DOMAIN new : b = place(j)
  <2>1. b = <<b[1], b[2]>> /\ b[1] \in 1..L /\ b[2] \in DOMAIN G[b[1]]
    BY <1>1, PlacesIn
  <2>2. CASE b[1] # L
    <3>1. b[2] \in DOMAIN F[b[1]]
      BY <1>1, <2>1, <2>2 DEF L
    <3> QED
      BY <1>1, <2>1, <3>1, PlacesIn
  <2>3. CASE b[1] = L /\ b[2] \in 1..B
    BY <1>1, <2>1, <2>3, PlacesIn
  <2>4. CASE b[1] = L /\ b[2] \notin 1..B
    <3>1. b[2] \in 1..(B + Len(new))
      BY <1>3, <2>1, <2>4
    <3>2. b[2] - B \in DOMAIN new /\ B + (b[2] - B) = b[2]
      BY <1>1, <1>2, <2>4, <3>1
    <3> QED
      BY <2>1, <2>4, <3>2
  <2> QED
    BY <2>2, <2>3, <2>4
<1> QED
  BY <1>4, <1>5, <1>6 DEF Grown, L, B

(* A write buffer grows. *)
LEMMA BufferGrows ==
  ASSUME TypeOK, TypeOK', NEW s \in Sockets, NEW new \in Seq(Messages),
         downlink'[s] = downlink[s], buffer'[s] = buffer[s] \o new
  PROVE  Grown(Frames(s), Frames(s)', new)
<1> DEFINE F == Append(downlink[s], buffer[s])
<1> DEFINE G == Append(downlink[s], buffer'[s])
<1>1. /\ downlink[s] \in Seq(Seq(Messages)) /\ buffer[s] \in Seq(Messages) /\ buffer'[s] \in Seq(Messages)
      /\ Frames(s) = F /\ Frames(s)' = G
  BY FramesAre, FramesNext
<1>2. /\ F \in Seq(Seq(Messages)) /\ G \in Seq(Seq(Messages))
      /\ Len(F) = Len(downlink[s]) + 1 /\ Len(G) = Len(F) /\ Len(downlink[s]) \in Nat
      /\ DOMAIN F = 1..(Len(downlink[s]) + 1) /\ DOMAIN downlink[s] = 1..Len(downlink[s])
      /\ F[Len(F)] = buffer[s] /\ G[Len(F)] = buffer'[s]
      /\ \A i \in DOMAIN downlink[s] : G[i] = downlink[s][i] /\ F[i] = downlink[s][i]
  BY <1>1, FrameShape
<1> HIDE DEF F, G
<1> DEFINE L == Len(downlink[s])
<1>3. \A i \in 1..(L + 1) : i # L + 1 => i \in 1..L
  BY <1>2
<1>4. \A i \in DOMAIN F : i # Len(F) => G[i] = F[i]
  BY ONLY <1>2, <1>3
<1>5. F # <<>>
  <2>1. Len(F) # 0
    BY ONLY <1>2
  <2> QED
    BY ONLY <2>1
<1>6. Grown(F, G, new)
  BY <1>2, <1>4, <1>5, GrownFrames
<1> QED
  BY <1>1, <1>6

(* A write buffer becomes a frame, or what it held is lost. *)
LEMMA BufferWritten ==
  ASSUME TypeOK, TypeOK', NEW s \in Sockets, buffer'[s] = <<>>,
         downlink'[s] \in {downlink[s], Append(downlink[s], buffer[s])}
  PROVE  /\ Kept(Frames(s), Frames(s)', 0)
         /\ downlink'[s] = Append(downlink[s], buffer[s]) => Kept(Frames(s)', Frames(s), 0)
<1> DEFINE D == downlink[s]
<1> DEFINE b == buffer[s]
<1> DEFINE F == Append(D, b)
<1>1. /\ D \in Seq(Seq(Messages)) /\ b \in Seq(Messages)
      /\ downlink'[s] \in Seq(Seq(Messages)) /\ <<>> \in Seq(Messages)
      /\ Frames(s) = F /\ Frames(s)' = Append(downlink'[s], <<>>)
  BY FramesAre, FramesNext
<1>2. /\ F \in Seq(Seq(Messages)) /\ Len(F) = Len(D) + 1 /\ Len(D) \in Nat
      /\ DOMAIN F = 1..(Len(D) + 1) /\ DOMAIN D = 1..Len(D)
      /\ F[Len(D) + 1] = b
      /\ \A i \in DOMAIN D : F[i] = D[i]
  BY <1>1, FrameShape, SMTT(30)
<1> HIDE DEF D, b, F
<1>3. DOMAIN <<>> = {}
  OBVIOUS
<1>4. CASE downlink'[s] = F
  <2> DEFINE G == Append(F, <<>>)
  <2>1. /\ G \in Seq(Seq(Messages)) /\ DOMAIN G = 1..(Len(F) + 1) /\ DOMAIN F = 1..Len(F)
        /\ G[Len(F) + 1] = <<>> /\ \A i \in DOMAIN F : G[i] = F[i]
    BY <1>1, <1>2, FrameShape
  <2>2. Frames(s)' = G
    BY <1>1, <1>4
  <2> HIDE DEF G
  <2>3. \A i \in DOMAIN F : i \in DOMAIN G /\ G[i] = F[i] /\ i + 0 = i
    BY <1>2, <2>1
  <2>4. \A i \in DOMAIN G : i \in DOMAIN F \/ G[i] = <<>>
    BY <1>2, <2>1
  <2>5. Kept(F, G, 0) /\ Kept(G, F, 0)
    <3>1. \A i \in DOMAIN G : DOMAIN G[i] # {} => i + 0 \in DOMAIN F /\ G[i] = F[i + 0]
      BY <1>3, <2>3, <2>4
    <3>2. \A i \in DOMAIN F : DOMAIN F[i] # {} => i + 0 \in DOMAIN G /\ F[i] = G[i + 0]
      BY <2>3
    <3> QED
      BY <1>2, <2>1, <3>1, <3>2, KeptFrames
  <2> QED
    BY <1>1, <2>2, <2>5
<1>5. CASE downlink'[s] = D /\ D # F
  <2> DEFINE G == Append(D, <<>>)
  <2>1. /\ G \in Seq(Seq(Messages)) /\ DOMAIN G = 1..(Len(D) + 1)
        /\ G[Len(D) + 1] = <<>> /\ \A i \in DOMAIN D : G[i] = D[i]
    BY <1>1, FrameShape
  <2>2. Frames(s)' = G
    BY <1>1, <1>5
  <2> HIDE DEF G
  <2>3. \A i \in DOMAIN D : i \in DOMAIN F /\ G[i] = F[i] /\ i + 0 = i
    BY <1>2, <2>1
  <2>4. \A i \in DOMAIN G : i \in DOMAIN D \/ G[i] = <<>>
    BY <1>2, <2>1
  <2>5. \A i \in DOMAIN G : DOMAIN G[i] # {} => i + 0 \in DOMAIN F /\ G[i] = F[i + 0]
    BY <1>3, <2>3, <2>4
  <2>6. Kept(F, G, 0)
    BY <1>2, <2>1, <2>5, KeptFrames
  <2> QED
    BY <1>1, <1>5, <2>2, <2>6 DEF F, D, b
<1>6. downlink'[s] = D \/ downlink'[s] = F
  BY DEF D, F, b
<1> QED
  BY <1>4, <1>5, <1>6

(* The first frame is read. *)
LEMMA FrameRead ==
  ASSUME TypeOK, TypeOK', NEW s \in Sockets, downlink[s] # <<>>,
         downlink'[s] = Tail(downlink[s]), buffer'[s] = buffer[s]
  PROVE  /\ Kept(Frames(s), Frames(s)', 1)
         /\ \A k \in DOMAIN Head(downlink[s]) :
               <<1, k>> \in Places(Frames(s)) /\ At(Frames(s), <<1, k>>) = Head(downlink[s])[k]
         /\ \A a \in Places(Frames(s)) :
               \/ a[1] = 1 /\ a[2] \in DOMAIN Head(downlink[s]) /\ At(Frames(s), a) = Head(downlink[s])[a[2]]
               \/ /\ a[1] > 1 /\ <<a[1] - 1, a[2]>> \in Places(Frames(s)')
                  /\ At(Frames(s)', <<a[1] - 1, a[2]>>) = At(Frames(s), a)
<1> DEFINE D == downlink[s]
<1> DEFINE b == buffer[s]
<1> DEFINE F == Append(D, b)
<1> DEFINE G == Append(Tail(D), b)
<1>1. /\ D \in Seq(Seq(Messages)) /\ b \in Seq(Messages) /\ Tail(D) \in Seq(Seq(Messages))
      /\ Frames(s) = F /\ Frames(s)' = G
  BY FramesAre, FramesNext
<1>2. /\ F \in Seq(Seq(Messages)) /\ Len(D) \in Nat /\ DOMAIN D = 1..Len(D)
      /\ DOMAIN F = 1..(Len(D) + 1) /\ F[Len(D) + 1] = b /\ \A i \in DOMAIN D : F[i] = D[i]
  BY <1>1, FrameShape
<1>3. /\ G \in Seq(Seq(Messages)) /\ Len(Tail(D)) \in Nat /\ DOMAIN Tail(D) = 1..Len(Tail(D))
      /\ DOMAIN G = 1..(Len(Tail(D)) + 1) /\ G[Len(Tail(D)) + 1] = b
      /\ \A i \in DOMAIN Tail(D) : G[i] = Tail(D)[i]
  BY <1>1, FrameShape
<1>4. /\ Len(D) > 0 /\ Len(Tail(D)) = Len(D) - 1 /\ Head(D) = D[1]
      /\ \A i \in 1..(Len(D) - 1) : Tail(D)[i] = D[i + 1]
  BY <1>1, HeadTailProperties, EmptySeq, LenProperties
<1> HIDE DEF D, b, F, G
<1>5. \A i \in DOMAIN G : i + 1 \in DOMAIN F /\ G[i] = F[i + 1]
  <2> SUFFICES ASSUME NEW i \in DOMAIN G PROVE i + 1 \in DOMAIN F /\ G[i] = F[i + 1]
    OBVIOUS
  <2>1. CASE i = Len(D)
    BY <1>2, <1>3, <1>4, <2>1
  <2>2. CASE i \in 1..(Len(D) - 1)
    <3>1. i \in DOMAIN Tail(D) /\ i + 1 \in DOMAIN D /\ i + 1 \in DOMAIN F
      <4>1. DOMAIN Tail(D) = 1..(Len(D) - 1) /\ DOMAIN D = 1..Len(D) /\ DOMAIN F = 1..(Len(D) + 1)
        BY <1>2, <1>3, <1>4
      <4>2. i + 1 \in 1..Len(D) /\ i + 1 \in 1..(Len(D) + 1)
        BY <1>2, <2>2
      <4> QED
        BY <2>2, <4>1, <4>2
    <3>2. G[i] = Tail(D)[i] /\ Tail(D)[i] = D[i + 1] /\ F[i + 1] = D[i + 1]
      BY <1>2, <1>3, <1>4, <2>2, <3>1
    <3> QED
      BY <3>1, <3>2
  <2> QED
    BY <1>2, <1>3, <1>4, <2>1, <2>2
<1>6. Kept(F, G, 1)
  BY <1>2, <1>3, <1>5, KeptFrames
<1>7. 1 \in DOMAIN F /\ F[1] = Head(D)
  <2>1. 1 \in DOMAIN F /\ 1 \in DOMAIN D
    BY <1>2, <1>4
  <2>2. F[1] = D[1]
    BY <1>2, <2>1
  <2> QED
    BY <1>4, <2>1, <2>2
<1>8. \A k \in DOMAIN Head(D) : <<1, k>> \in Places(F) /\ At(F, <<1, k>>) = Head(D)[k]
  BY <1>2, <1>7, PlacesIn
<1>9. ASSUME NEW a \in Places(F)
      PROVE  \/ a[1] = 1 /\ a[2] \in DOMAIN Head(D) /\ At(F, a) = Head(D)[a[2]]
             \/ /\ a[1] > 1 /\ <<a[1] - 1, a[2]>> \in Places(G)
                /\ At(G, <<a[1] - 1, a[2]>>) = At(F, a)
  <2>1. a[1] \in DOMAIN F /\ a[2] \in DOMAIN F[a[1]] /\ At(F, a) = F[a[1]][a[2]]
    BY <1>2, PlacesIn
  <2>2. CASE a[1] = 1
    <3>1. F[a[1]] = Head(D)
      BY <1>7, <2>2
    <3> QED
      BY <2>1, <2>2, <3>1
  <2>3. CASE a[1] # 1
    <3>1. a[1] > 1 /\ a[1] - 1 \in DOMAIN G /\ (a[1] - 1) + 1 = a[1]
      <4>1. a[1] \in 1..(Len(D) + 1) /\ Len(D) \in Nat
        BY <1>2, <2>1
      <4>2. DOMAIN G = 1..Len(D)
        BY <1>3, <1>4, <4>1
      <4> QED
        BY <2>3, <4>1, <4>2
    <3>2. G[a[1] - 1] = F[a[1]]
      BY <1>5, <3>1
    <3> DEFINE i == a[1] - 1
    <3>3. i \in DOMAIN G /\ a[2] \in DOMAIN G[i] /\ G[i][a[2]] = At(F, a)
      BY <2>1, <3>1, <3>2
    <3> HIDE DEF i
    <3>4. <<i, a[2]>> \in Places(G) /\ At(G, <<i, a[2]>>) = At(F, a)
      BY <1>3, <3>3, PlacesIn
    <3> QED
      BY <3>1, <3>4 DEF i
  <2> QED
    BY <2>2, <2>3
<1> QED
  BY <1>1, <1>6, <1>8, <1>9 DEF D

(* Nothing reaches a page that has left. *)
LEMMA FramesLost ==
  ASSUME TypeOK, TypeOK', NEW s \in Sockets, downlink'[s] = <<>>, buffer'[s] = buffer[s]
  PROVE  Kept(Frames(s), Frames(s)', Len(downlink[s]))
<1> DEFINE D == downlink[s]
<1> DEFINE b == buffer[s]
<1> DEFINE F == Append(D, b)
<1> DEFINE G == <<b>>
<1>1. /\ D \in Seq(Seq(Messages)) /\ b \in Seq(Messages)
      /\ Frames(s) = F /\ Frames(s)' = Append(<<>>, b)
  BY FramesAre, FramesNext
<1>2. /\ F \in Seq(Seq(Messages)) /\ Len(D) \in Nat
      /\ DOMAIN F = 1..(Len(D) + 1) /\ F[Len(D) + 1] = b
  BY <1>1, FrameShape
<1>3. G \in Seq(Seq(Messages)) /\ DOMAIN G = {1} /\ G[1] = b /\ Frames(s)' = G
  BY <1>1
<1> HIDE DEF D, b, F, G
<1>4. \A i \in DOMAIN G : i + Len(D) \in DOMAIN F /\ G[i] = F[i + Len(D)]
  BY <1>2, <1>3
<1>5. Kept(F, G, Len(D))
  BY <1>2, <1>3, <1>4, KeptFrames
<1> QED
  BY <1>1, <1>3, <1>5 DEF D

-----------------------------------------------------------------------------
(* What becomes of the order of answers and requests. *)

(* The answers of frames that are kept, and of those that have grown.        *)
LEMMA AnswersKept ==
  ASSUME NEW F, NEW G, NEW d, Kept(F, G, d)
  PROVE  /\ \A b \in AnswerPlaces(G) : <<b[1] + d, b[2]>> \in AnswerPlaces(F)
                                       /\ At(G, b) = At(F, <<b[1] + d, b[2]>>)
         /\ AnswersIn(G) \subseteq AnswersIn(F)
<1>1. \A b \in AnswerPlaces(G) : <<b[1] + d, b[2]>> \in AnswerPlaces(F) /\ At(G, b) = At(F, <<b[1] + d, b[2]>>)
  BY DEF Kept, AnswerPlaces
<1>2. \A m \in AnswersIn(G) : m \in AnswersIn(F)
  <2> SUFFICES ASSUME NEW b \in AnswerPlaces(G) PROVE At(G, b) \in AnswersIn(F)
    BY DEF AnswersIn
  <2>1. PICK a \in AnswerPlaces(F) : At(G, b) = At(F, a)
    BY <1>1
  <2> QED
    BY <2>1 DEF AnswersIn
<1> QED
  BY <1>1, <1>2

LEMMA AnswersGrown ==
  ASSUME NEW F, NEW G, NEW new, Grown(F, G, new)
  PROVE  /\ AnswersIn(F) \subseteq AnswersIn(G)
         /\ \A j \in DOMAIN new : new[j].kind = "answer" => new[j] \in AnswersIn(G)
         /\ \A m \in AnswersIn(G) :
               m \in AnswersIn(F) \/ \E j \in DOMAIN new : new[j].kind = "answer" /\ m = new[j]
<1> DEFINE place(j) == <<Len(F), Len(F[Len(F)]) + j>>
<1>1. \A a \in Places(F) : a \in Places(G) /\ At(G, a) = At(F, a)
  BY DEF Grown
<1>2. \A j \in DOMAIN new : place(j) \in Places(G) /\ At(G, place(j)) = new[j]
  BY DEF Grown
<1>3. \A b \in Places(G) : b \in Places(F) \/ \E j \in DOMAIN new : b = place(j)
  BY DEF Grown
<1> HIDE DEF place
<1>4. \A m \in AnswersIn(F) : m \in AnswersIn(G)
  BY <1>1 DEF AnswersIn, AnswerPlaces
<1>5. \A j \in DOMAIN new : new[j].kind = "answer" => new[j] \in AnswersIn(G)
  BY <1>2 DEF AnswersIn, AnswerPlaces
<1>6. ASSUME NEW m \in AnswersIn(G)
      PROVE  m \in AnswersIn(F) \/ \E j \in DOMAIN new : new[j].kind = "answer" /\ m = new[j]
  <2>1. PICK b \in AnswerPlaces(G) : m = At(G, b)
    BY DEF AnswersIn
  <2>2. b \in Places(G) /\ At(G, b).kind = "answer"
    BY <2>1 DEF AnswerPlaces
  <2>3. CASE b \in Places(F)
    BY <1>1, <2>1, <2>2, <2>3 DEF AnswersIn, AnswerPlaces
  <2>4. CASE \E j \in DOMAIN new : b = place(j)
    BY <1>2, <2>1, <2>2, <2>4
  <2> QED
    BY <1>3, <2>2, <2>3, <2>4
<1> QED
  BY <1>4, <1>5, <1>6

LEMMA OrderKept ==
  ASSUME NEW F \in Seq(Seq(Messages)), NEW G \in Seq(Seq(Messages)), NEW d \in Nat, Kept(F, G, d),
         NEW Q \in Seq(Calling), NEW R \in {Q, <<>>}, NEW top \in Nat, Ordered(F, Q, top)
  PROVE  Ordered(G, R, top)
<1>1. Range(R) \subseteq Range(Q)
  BY DEF Range
<1>2. \A i, j \in DOMAIN R : i < j => R[i].id < R[j].id
  BY DEF Ordered
<1>3. AnswersIn(G) \subseteq AnswersIn(F)
  BY AnswersKept
<1>4. ASSUME NEW a \in AnswerPlaces(G), NEW b \in AnswerPlaces(G), Before(a, b)
      PROVE  At(G, a).id < At(G, b).id
  <2> DEFINE u == <<a[1] + d, a[2]>>
  <2> DEFINE v == <<b[1] + d, b[2]>>
  <2>1. u \in AnswerPlaces(F) /\ v \in AnswerPlaces(F) /\ At(G, a) = At(F, u) /\ At(G, b) = At(F, v)
    BY AnswersKept
  <2>2. a[1] \in Nat /\ a[2] \in Nat /\ b[1] \in Nat /\ b[2] \in Nat
    BY PlacesIn DEF AnswerPlaces
  <2>3. Before(u, v)
    BY <1>4, <2>2 DEF Before
  <2> HIDE DEF u, v
  <2> QED
    BY <2>1, <2>3 DEF Ordered
<1> QED
  BY <1>1, <1>2, <1>3, <1>4 DEF Ordered

(* Messages that are no answers leave the order as it is. *)
LEMMA OrderGrown ==
  ASSUME NEW F \in Seq(Seq(Messages)), NEW G \in Seq(Seq(Messages)), NEW new, Grown(F, G, new),
         \A j \in DOMAIN new : new[j].kind # "answer",
         NEW Q, NEW top, Ordered(F, Q, top)
  PROVE  Ordered(G, Q, top)
<1>1. AnswersIn(G) = AnswersIn(F)
  <2>1. AnswersIn(F) \subseteq AnswersIn(G) /\ \A m \in AnswersIn(G) : m \in AnswersIn(F)
    BY AnswersGrown
  <2> QED
    BY <2>1
<1>2. \A a \in AnswerPlaces(G) : a \in AnswerPlaces(F) /\ At(G, a) = At(F, a)
  BY DEF Grown, AnswerPlaces
<1>3. \A a, b \in AnswerPlaces(G) : Before(a, b) => At(G, a).id < At(G, b).id
  BY <1>2 DEF Ordered
<1> QED
  BY <1>1, <1>3 DEF Ordered

(* The first request is answered. *)
LEMMA OrderRead ==
  ASSUME NEW F \in Seq(Seq(Messages)), NEW G \in Seq(Seq(Messages)), NEW new, Grown(F, G, new),
         NEW Q \in Seq(Calling), Q # <<>>, NEW top \in Nat, Ordered(F, Q, top),
         NEW l \in DOMAIN new, new[l].kind = "answer", new[l].id = Head(Q).id,
         \A j \in DOMAIN new : new[j].kind = "answer" => j = l
  PROVE  Ordered(G, Tail(Q), top)
<1> DEFINE place(j) == <<Len(F), Len(F[Len(F)]) + j>>
<1>1. AnswersIn(G) = AnswersIn(F) \cup {new[l]}
  <2>1. /\ AnswersIn(F) \subseteq AnswersIn(G) /\ new[l] \in AnswersIn(G)
        /\ \A m \in AnswersIn(G) : m \in AnswersIn(F) \/ m = new[l]
    BY AnswersGrown
  <2> QED
    BY <2>1
<1>2. /\ Head(Q) = Q[1] /\ 1 \in DOMAIN Q /\ Q[1].id \in Nat
      /\ \A i \in DOMAIN Tail(Q) : i \in Nat /\ i + 1 \in DOMAIN Q /\ Tail(Q)[i] = Q[i + 1] /\ 1 < i + 1
  <2>1. Q[1] \in Calling
    BY EmptySeq, LenProperties, ElementOfSeq
  <2> QED
    BY <2>1 DEF Calling
<1>3. \A r \in Range(Tail(Q)) : r \in Range(Q) /\ Q[1].id < r.id
  BY <1>2 DEF Range, Ordered
<1>4. Head(Q) \in Range(Q)
  BY <1>2 DEF Range
<1>5. \A i, j \in DOMAIN Tail(Q) : i < j => Tail(Q)[i].id < Tail(Q)[j].id
  <2>1. \A i, j \in DOMAIN Tail(Q) : i < j => i + 1 < j + 1
    BY <1>2
  <2> QED
    BY <1>2, <2>1 DEF Ordered
<1>6. ASSUME NEW a \in AnswerPlaces(G), NEW b \in AnswerPlaces(G), Before(a, b)
      PROVE  At(G, a).id < At(G, b).id
  <2>1. \A x \in AnswerPlaces(G) : (x \in AnswerPlaces(F) /\ At(G, x) = At(F, x)) \/ x = place(l)
    BY DEF Grown, AnswerPlaces
  <2>2. At(G, place(l)) = new[l] /\ \A x \in AnswerPlaces(F) : Before(x, place(l))
    BY DEF Grown, AnswerPlaces
  <2>3. place(l)[1] \in Nat /\ place(l)[2] \in Nat
    <3>1. place(l) \in Places(G)
      BY DEF Grown
    <3> QED
      BY <3>1, PlacesIn
  <2>4. \A x \in AnswerPlaces(F) : x[1] \in Nat /\ x[2] \in Nat /\ ~ Before(place(l), x)
    <3>1. \A x \in AnswerPlaces(F) : x[1] \in Nat /\ x[2] \in Nat
      BY PlacesIn DEF AnswerPlaces
    <3> HIDE DEF place
    <3> QED
      BY <2>2, <2>3, <3>1 DEF Before
  <2>5. ~ Before(place(l), place(l))
    <3> HIDE DEF place
    <3> QED
      BY <2>3 DEF Before
  <2> HIDE DEF place
  <2>6. a \in AnswerPlaces(F) /\ At(G, a) = At(F, a)
    BY <1>6, <2>1, <2>4, <2>5
  <2>7. CASE b = place(l)
    BY <1>4, <2>2, <2>6, <2>7 DEF Ordered, AnswersIn
  <2>8. CASE b \in AnswerPlaces(F) /\ At(G, b) = At(F, b)
    BY <1>6, <2>6, <2>8 DEF Ordered
  <2> QED
    BY <2>1, <2>7, <2>8
<1>7. \A m \in AnswersIn(G), r \in Range(Tail(Q)) : m.id < r.id
  BY <1>1, <1>2, <1>3 DEF Ordered
<1>8. \A m \in AnswersIn(G) \cup Range(Tail(Q)) : m.id \in 1..top
  BY <1>1, <1>3, <1>4 DEF Ordered
<1> QED
  BY <1>5, <1>6, <1>7, <1>8 DEF Ordered

(* A call is made. *)
LEMMA OrderSent ==
  ASSUME NEW F, NEW Q \in Seq(Calling), NEW top \in Nat, Ordered(F, Q, top),
         NEW r \in Calling, r.id = top + 1, NEW R, R = Q \/ R = Append(Q, r)
  PROVE  Ordered(F, R, top + 1) /\ Range(R) \subseteq Range(Q) \cup {r}
<1>1. CASE R = Q
  <2>1. 1..top \subseteq 1..(top + 1)
    OBVIOUS
  <2> QED
    BY <1>1, <2>1 DEF Ordered
<1>2. CASE R = Append(Q, r)
  <2>1. /\ Len(Q) \in Nat /\ DOMAIN Q = 1..Len(Q) /\ DOMAIN R = 1..(Len(Q) + 1)
        /\ \A i \in 1..Len(Q) : R[i] = Q[i]
        /\ R[Len(Q) + 1] = r
    BY <1>2
  <2>2. Range(R) \subseteq Range(Q) \cup {r}
    BY <2>1 DEF Range
  <2>3. \A m \in AnswersIn(F) \cup Range(Q) : m.id \in 1..top /\ m.id < top + 1
    BY DEF Ordered
  <2>4. \A i, j \in DOMAIN R : i < j => R[i].id < R[j].id
    <3> SUFFICES ASSUME NEW i \in DOMAIN R, NEW j \in DOMAIN R, i < j
                 PROVE  R[i].id < R[j].id
      OBVIOUS
    <3>1. i \in DOMAIN Q /\ R[i] = Q[i] /\ Q[i] \in Range(Q)
      BY <2>1 DEF Range
    <3>2. CASE j \in DOMAIN Q
      BY <2>1, <3>1, <3>2 DEF Ordered
    <3>3. CASE j = Len(Q) + 1
      BY <2>1, <2>3, <3>1, <3>3
    <3> QED
      BY <2>1, <3>2, <3>3
  <2>5. \A m \in AnswersIn(F), x \in Range(R) : m.id < x.id
    BY <2>2, <2>3 DEF Ordered
  <2>6. \A m \in AnswersIn(F) \cup Range(R) : m.id \in 1..(top + 1)
    BY <2>2, <2>3
  <2>7. \A a, b \in AnswerPlaces(F) : Before(a, b) => At(F, a).id < At(F, b).id
    BY DEF Ordered
  <2> QED
    BY <2>2, <2>4, <2>5, <2>6, <2>7 DEF Ordered
<1> QED
  BY <1>1, <1>2

-----------------------------------------------------------------------------
(* What each callback of the server does to the frames of a socket. *)

(* The changes that a request makes known, and its answer. *)
Told(s) == IF Accepted(Head(uplink[s]).command) THEN Notices(Head(uplink[s]).command) ELSE <<>>

Reply(s) == Answer(Head(uplink[s]), Accepted(Head(uplink[s]).command))

New(t, s) == Added(t, s, [i \in DOMAIN Told(s) |-> Notice(Told(s)[i])], Reply(s))

LEMMA ReceiveFrames ==
  ASSUME TypeOK, TypeOK', NEW s \in Sockets, Receive(s), NEW t \in Sockets
  PROVE  /\ Grown(Frames(t), Frames(t)', New(t, s))
         /\ Told(s) \in Seq(Changes) /\ DOMAIN Told(s) \subseteq {1, 2}
         /\ t \in Up => \A i \in DOMAIN Told(s) : i \in DOMAIN New(t, s) /\ New(t, s)[i] = Notice(Told(s)[i])
         /\ \A j \in DOMAIN New(t, s) :
               \/ t \in Up /\ j \in DOMAIN Told(s) /\ New(t, s)[j] = Notice(Told(s)[j])
               \/ t = s /\ j = Len(Told(s)) + 1 /\ New(t, s)[j] = Reply(s)
         /\ t = s => Len(Told(s)) + 1 \in DOMAIN New(t, s) /\ New(t, s)[Len(Told(s)) + 1] = Reply(s)
         /\ Head(uplink[s]) \in Calling /\ uplink[s] \in Seq(Calling) /\ uplink[s] # <<>>
<1> DEFINE messages == [i \in DOMAIN Told(s) |-> Notice(Told(s)[i])]
<1>1. /\ Told(s) \in Seq(Changes) /\ DOMAIN Told(s) \subseteq {1, 2}
      /\ messages \in Seq(Messages) /\ DOMAIN messages = DOMAIN Told(s)
      /\ \A i \in DOMAIN Told(s) : messages[i] = Notice(Told(s)[i])
      /\ Reply(s) \in Messages
      /\ Head(uplink[s]) \in Calling /\ uplink[s] \in Seq(Calling) /\ uplink[s] # <<>>
  BY ReadStep DEF Told, Reply
<1>2. Respond(s, messages, Reply(s)) /\ downlink' = downlink
  BY DEF Receive, Told, Reply
<1>3. New(t, s) = (IF t \in Up THEN messages ELSE <<>>) \o (IF t = s THEN <<Reply(s)>> ELSE <<>>)
  BY DEF New, Added
<1> HIDE DEF messages
<1>4. New(t, s) = Added(t, s, messages, Reply(s))
  BY <1>3 DEF Added
<1>5. New(t, s) \in Seq(Messages) /\ buffer'[t] = buffer[t] \o New(t, s)
  <2>1. /\ Added(t, s, messages, Reply(s)) \in Seq(Messages)
        /\ buffer'[t] = buffer[t] \o Added(t, s, messages, Reply(s))
    BY <1>1, <1>2, RespondStep
  <2> QED
    BY <1>4, <2>1, Zenon
<1>6. Grown(Frames(t), Frames(t)', New(t, s))
  BY <1>2, <1>5, BufferGrows
<1>7. Len(messages) = Len(Told(s)) /\ Len(Told(s)) \in Nat /\ DOMAIN Told(s) = 1..Len(Told(s))
  BY <1>1, LenProperties
<1>8. s \in Up
  BY DEF Receive
<1>9. CASE t = s
  <2>1. New(t, s) = messages \o <<Reply(s)>>
    BY <1>3, <1>8, <1>9
  <2>2. <<Reply(s)>> \in Seq(Messages) /\ Len(<<Reply(s)>>) = 1 /\ <<Reply(s)>>[1] = Reply(s)
    BY <1>1
  <2>3. /\ Len(New(t, s)) = Len(Told(s)) + 1
        /\ \A i \in 1..(Len(Told(s)) + 1) :
              New(t, s)[i] = IF i <= Len(Told(s)) THEN messages[i] ELSE <<Reply(s)>>[i - Len(Told(s))]
    BY <1>1, <1>7, <2>1, <2>2, ConcatProperties
  <2>4. DOMAIN New(t, s) = 1..(Len(Told(s)) + 1)
    BY <1>5, <2>3, LenProperties
  <2>5. \A i \in DOMAIN Told(s) : i \in DOMAIN New(t, s) /\ New(t, s)[i] = Notice(Told(s)[i])
    BY <1>1, <1>7, <2>3, <2>4
  <2>6. Len(Told(s)) + 1 \in DOMAIN New(t, s) /\ New(t, s)[Len(Told(s)) + 1] = Reply(s)
    BY <1>7, <2>2, <2>3, <2>4
  <2>7. \A j \in DOMAIN New(t, s) : j \in DOMAIN Told(s) \/ j = Len(Told(s)) + 1
    BY <1>7, <2>4
  <2> QED
    BY <1>1, <1>6, <1>8, <1>9, <2>5, <2>6, <2>7
<1>10. CASE t # s /\ t \in Up
  <2>1. New(t, s) = messages
    BY <1>1, <1>3, <1>10, ConcatEmptySeq
  <2> QED
    BY <1>1, <1>6, <1>10, <2>1
<1>11. CASE t # s /\ t \notin Up
  <2>1. DOMAIN New(t, s) = {}
    BY <1>3, <1>11
  <2> QED
    BY <1>1, <1>6, <1>11, <2>1
<1> QED
  BY <1>9, <1>10, <1>11

(* A frame is written: none of its messages is lost while the page listens.  *)
LEMMA WriteableFrames ==
  ASSUME TypeOK, TypeOK', NEW s \in Sockets, Writeable(s), NEW t \in Sockets
  PROVE  /\ Kept(Frames(t), Frames(t)', 0)
         /\ socket[t] # "closed" => Kept(Frames(t)', Frames(t), 0)
<1>1. CASE t = s
  <2>1. buffer'[s] = <<>>
    BY DEF Writeable, TypeOK
  <2>2. downlink'[s] = IF socket[s] = "closed" THEN downlink[s] ELSE Append(downlink[s], buffer[s])
    BY DEF Writeable, TypeOK
  <2> QED
    BY <1>1, <2>1, <2>2, BufferWritten
<1>2. CASE t # s
  <2>1. buffer'[t] = buffer[t] /\ downlink'[t] = downlink[t]
    BY <1>2 DEF Writeable, TypeOK
  <2>2. Frames(t)' = Frames(t)
    BY <2>1 DEF Frames
  <2> QED
    BY <2>2, FramesAre, KeptSame
<1> QED
  BY <1>1, <1>2

LEMMA ClosedFrames ==
  ASSUME TypeOK, TypeOK', NEW s \in Sockets, Closed(s), NEW t \in Sockets
  PROVE  Kept(Frames(t), Frames(t)', 0) /\ (t # s => Frames(t)' = Frames(t))
<1>1. CASE t = s
  <2>1. buffer'[s] = <<>> /\ downlink'[s] = downlink[s]
    BY DEF Closed, TypeOK
  <2> QED
    BY <1>1, <2>1, BufferWritten
<1>2. CASE t # s
  <2>1. buffer'[t] = buffer[t] /\ downlink'[t] = downlink[t]
    BY <1>2 DEF Closed, TypeOK
  <2>2. Frames(t)' = Frames(t)
    BY <2>1 DEF Frames
  <2> QED
    BY <2>2, FramesAre, KeptSame
<1> QED
  BY <1>1, <1>2

LEMMA EstablishFrames ==
  ASSUME TypeOK, TypeOK', FreshInv, NEW s \in Sockets, Establish(s), NEW t \in Sockets
  PROVE  /\ t # s => Frames(t)' = Frames(t)
         /\ t = s => Grown(Frames(t), Frames(t)', <<Welcome>>)
<1>1. CASE t = s
  <2>1. buffer'[s] = <<Welcome>> /\ buffer[s] = <<>> /\ downlink'[s] = downlink[s]
    BY DEF Establish, TypeOK, FreshInv, Fresh
  <2>2. <<Welcome>> \in Seq(Messages)
    <3>1. Welcome \in Messages
      BY DEF Messages
    <3> QED
      BY <3>1
  <2>3. buffer'[s] = buffer[s] \o <<Welcome>>
    BY <2>1, <2>2, ConcatEmptySeq
  <2> QED
    BY <1>1, <2>1, <2>2, <2>3, BufferGrows
<1>2. CASE t # s
  <2>1. buffer'[t] = buffer[t] /\ downlink'[t] = downlink[t]
    BY <1>2 DEF Establish, TypeOK
  <2> QED
    BY <1>2, <2>1 DEF Frames
<1> QED
  BY <1>1, <1>2

(* A page reads the first frame of its last socket. *)
LEMMA MessageFrames ==
  ASSUME TypeOK, TypeOK', NEW p \in Pages, Message(p), NEW s \in Sockets, s = Ws(p)
  PROVE  /\ \A t \in Sockets : t # s => Frames(t)' = Frames(t)
         /\ \A t \in Sockets : \E d \in Nat : Kept(Frames(t), Frames(t)', d)
         /\ Kept(Frames(s), Frames(s)', 1)
         /\ \A k \in DOMAIN Head(downlink[s]) :
               <<1, k>> \in Places(Frames(s)) /\ At(Frames(s), <<1, k>>) = Head(downlink[s])[k]
         /\ \A a \in Places(Frames(s)) :
               \/ a[1] = 1 /\ a[2] \in DOMAIN Head(downlink[s]) /\ At(Frames(s), a) = Head(downlink[s])[a[2]]
               \/ /\ a[1] > 1 /\ <<a[1] - 1, a[2]>> \in Places(Frames(s)')
                  /\ At(Frames(s)', <<a[1] - 1, a[2]>>) = At(Frames(s), a)
<1>1. downlink[s] # <<>> /\ downlink' = [downlink EXCEPT ![s] = Tail(@)] /\ buffer' = buffer
  BY DEF Message
<1>2. downlink'[s] = Tail(downlink[s]) /\ buffer'[s] = buffer[s]
  BY <1>1 DEF TypeOK
<1>3. \A t \in Sockets : t # s => Frames(t)' = Frames(t)
  BY <1>1 DEF TypeOK, Frames
<1>4. \A t \in Sockets : t # s => Kept(Frames(t), Frames(t)', 0)
  BY <1>3, FramesAre, KeptSame
<1>5. Kept(Frames(s), Frames(s)', 1)
  BY <1>1, <1>2, FrameRead
<1>6. \A t \in Sockets : \E d \in Nat : Kept(Frames(t), Frames(t)', d)
  <2>1. 0 \in Nat /\ 1 \in Nat
    OBVIOUS
  <2> QED
    BY <1>4, <1>5, <2>1
<1> QED
  BY <1>1, <1>2, <1>3, <1>5, <1>6, FrameRead

(* A page leaves a socket. *)
LEMMA CloseFrames ==
  ASSUME TypeOK, TypeOK', NEW p \in Pages, NEW n \in 1..MaxSockets, Close(p, n), NEW t \in Sockets
  PROVE  /\ t # <<p, n>> => Frames(t)' = Frames(t)
         /\ \E d \in Nat : Kept(Frames(t), Frames(t)', d)
<1>1. <<p, n>> \in Sockets /\ downlink' = [downlink EXCEPT ![<<p, n>>] = <<>>] /\ buffer' = buffer
  BY DEF Close, Sockets
<1>2. CASE t = <<p, n>>
  <2>1. downlink'[t] = <<>> /\ buffer'[t] = buffer[t]
    BY <1>1, <1>2 DEF TypeOK
  <2>2. Len(downlink[t]) \in Nat
    BY FramesAre, LenProperties
  <2> QED
    BY <1>2, <2>1, <2>2, FramesLost
<1>3. CASE t # <<p, n>>
  <2>1. downlink'[t] = downlink[t] /\ buffer'[t] = buffer[t]
    BY <1>1, <1>3 DEF TypeOK
  <2>2. Frames(t)' = Frames(t)
    BY <2>1 DEF Frames
  <2>3. Kept(Frames(t), Frames(t)', 0)
    BY <2>2, FramesAre, KeptSame
  <2> QED
    BY <2>2, <2>3
<1> QED
  BY <1>2, <1>3

(* Every other step of a page leaves the frames alone. *)
LEMMA OtherFrames ==
  ASSUME TypeOK, NEW p \in Pages,
         \/ Open(p) \/ Tick(p) \/ ToggleRPC(p) \/ Reconnect(p)
         \/ \E c \in Commands : Click(p, c),
         NEW t \in Sockets
  PROVE  Frames(t)' = Frames(t) /\ Kept(Frames(t), Frames(t)', 0)
<1>1. Frames(t)' = Frames(t)
  BY DEF Open, Tick, ToggleRPC, Reconnect, Click, Frames
<1> QED
  BY <1>1, FramesAre, KeptSame

-----------------------------------------------------------------------------
(* The sockets of a page. *)

LEMMA SocketShape ==
  ASSUME TypeOK, NEW p \in Pages
  PROVE  /\ used[p] \in 1..MaxSockets /\ Ws(p) = <<p, used[p]>> /\ Ws(p) \in Sockets
         /\ \A n \in 1..MaxSockets : <<p, n>> \in Sockets
         /\ \A s \in Sockets : s = <<s[1], s[2]>> /\ s[1] \in Pages /\ s[2] \in 1..MaxSockets
<1>1. used[p] \in 1..MaxSockets
  BY DEF TypeOK
<1> QED
  BY <1>1 DEF Ws, Sockets

(* Only the last socket of a page is not over. *)
LEMMA LastSocket ==
  ASSUME TypeOK, SocketInv, NEW p \in Pages, NEW n \in 1..MaxSockets, socket[<<p, n>>] \in {"connecting", "open"}
  PROVE  n = used[p] /\ <<p, n>> = Ws(p)
<1>1. used[p] \in 1..MaxSockets
  BY DEF TypeOK
<1>2. ~(n > used[p]) /\ ~(n < used[p])
  BY DEF SocketInv, PageSockets
<1>3. n = used[p]
  BY <1>1, <1>2
<1> QED
  BY <1>3 DEF Ws

LEMMA SocketsSame ==
  ASSUME SocketInv, UNCHANGED <<socket, used, timers, attempts, connected>>
  PROVE  SocketInv'
BY DEF SocketInv, PageSockets, Ws

LEMMA SocketStep ==
  ASSUME TypeOK, SocketInv, [Next]_vars
  PROVE  SocketInv'
<1>1. CASE UNCHANGED vars
  BY <1>1, SocketsSame DEF vars
<1>2. ASSUME NEW s \in Sockets, Server(s) PROVE SocketInv'
  BY <1>2, SocketsSame DEF Server, Establish, Receive, Writeable, Closed
<1>3. ASSUME NEW p \in Pages, NEW q \in Pages, q # p,
             used'[q] = used[q], timers'[q] = timers[q], attempts'[q] = attempts[q], connected'[q] = connected[q],
             \A n \in 1..MaxSockets : socket'[<<q, n>>] = socket[<<q, n>>]
      PROVE  PageSockets(q)'
  <2>1. used[q] \in 1..MaxSockets
    BY DEF TypeOK
  <2>2. socket'[<<q, used'[q]>>] = socket[<<q, used[q]>>]
    BY <1>3, <2>1
  <2> QED
    BY <1>3, <2>2 DEF SocketInv, PageSockets, Ws
<1>4. ASSUME NEW p \in Pages, Open(p) PROVE SocketInv'
  <2>1. /\ socket' = [socket EXCEPT ![<<p, used[p]>>] = "open"] /\ socket[<<p, used[p]>>] = "connecting"
        /\ connected' = [connected EXCEPT ![p] = TRUE] /\ attempts' = [attempts EXCEPT ![p] = 0]
        /\ used' = used /\ timers' = timers
    BY <1>4 DEF Open, Ws
  <2>2. PageSockets(p)'
    BY <2>1 DEF TypeOK, SocketInv, PageSockets, Ws, Sockets
  <2>3. ASSUME NEW q \in Pages, q # p PROVE PageSockets(q)'
    <3>1. /\ \A n \in 1..MaxSockets : socket'[<<q, n>>] = socket[<<q, n>>]
          /\ attempts'[q] = attempts[q] /\ connected'[q] = connected[q]
      BY <2>1, <2>3 DEF TypeOK, Sockets
    <3> QED
      BY <1>3, <2>1, <2>3, <3>1
  <2> QED
    BY <2>2, <2>3 DEF SocketInv
<1>5. ASSUME NEW p \in Pages, Reconnect(p) PROVE SocketInv'
  <2>1. /\ socket' = [socket EXCEPT ![<<p, used[p] + 1>>] = "connecting"] /\ used[p] < MaxSockets
        /\ used' = [used EXCEPT ![p] = @ + 1] /\ timers' = [timers EXCEPT ![p] = @ - 1] /\ timers[p] > 0
        /\ attempts' = attempts /\ connected' = connected
    BY <1>5 DEF Reconnect
  <2>2. PageSockets(p)'
    <3>1. timers[p] = 1 /\ socket[<<p, used[p]>>] = "closed" /\ ~connected[p]
      BY <2>1 DEF SocketInv, PageSockets, Ws
    <3>2. used[p] \in 1..MaxSockets /\ used'[p] = used[p] + 1 /\ timers'[p] = 0
      BY <2>1, <3>1 DEF TypeOK
    <3>3. socket'[<<p, used[p] + 1>>] = "connecting"
      BY <2>1, <3>2 DEF TypeOK, Sockets
    <3>4. \A n \in 1..MaxSockets : n # used[p] + 1 => socket'[<<p, n>>] = socket[<<p, n>>]
      BY <2>1 DEF TypeOK, Sockets
    <3> QED
      BY <2>1, <3>1, <3>2, <3>3, <3>4 DEF SocketInv, PageSockets, Ws
  <2>3. ASSUME NEW q \in Pages, q # p PROVE PageSockets(q)'
    <3>1. /\ \A n \in 1..MaxSockets : socket'[<<q, n>>] = socket[<<q, n>>]
          /\ used'[q] = used[q] /\ timers'[q] = timers[q]
      BY <2>1, <2>3 DEF TypeOK, Sockets
    <3> QED
      BY <1>3, <2>1, <2>3, <3>1
  <2> QED
    BY <2>2, <2>3 DEF SocketInv
<1>6. ASSUME NEW p \in Pages, NEW n \in 1..MaxSockets, Close(p, n) PROVE SocketInv'
  <2>1. /\ socket' = [socket EXCEPT ![<<p, n>>] = "closed"] /\ socket[<<p, n>>] \in {"connecting", "open"}
        /\ connected' = [connected EXCEPT ![p] = FALSE] /\ used' = used /\ HandleReconnect(p)
    BY <1>6 DEF Close
  <2>2. n = used[p] /\ timers[p] = 0 /\ attempts[p] \in 0..MaxReconnectAttempts
    BY <2>1, LastSocket DEF TypeOK, SocketInv, PageSockets, Ws
  <2>3. \/ timers'[p] = 1
        \/ timers'[p] = 0 /\ attempts'[p] = MaxReconnectAttempts
    BY <2>1, <2>2 DEF TypeOK, HandleReconnect
  <2>4. PageSockets(p)'
    BY <2>1, <2>2, <2>3 DEF TypeOK, SocketInv, PageSockets, Ws, Sockets
  <2>5. ASSUME NEW q \in Pages, q # p PROVE PageSockets(q)'
    <3>1. /\ \A i \in 1..MaxSockets : socket'[<<q, i>>] = socket[<<q, i>>]
          /\ connected'[q] = connected[q] /\ timers'[q] = timers[q] /\ attempts'[q] = attempts[q]
      BY <2>1, <2>5 DEF TypeOK, Sockets, HandleReconnect
    <3> QED
      BY <1>3, <2>1, <2>5, <3>1
  <2> QED
    BY <2>4, <2>5 DEF SocketInv
<1>7. ASSUME NEW p \in Pages, Message(p) \/ Tick(p) \/ ToggleRPC(p) \/ \E c \in Commands : Click(p, c)
      PROVE  SocketInv'
  BY <1>7, SocketsSame DEF Message, Tick, ToggleRPC, Click
<1> QED
  BY <1>1, <1>2, <1>4, <1>5, <1>6, <1>7 DEF Next, Page

(* The calls that a step of a page makes. *)
LEMMA PageCalls ==
  ASSUME TypeOK, SocketInv, NEW p \in Pages, Page(p)
  PROVE  \/ /\ UNCHANGED <<requestId, uplink>>
            /\ pending' = pending \/ Message(p)
            /\ \A q \in Pages : pending'[q] \subseteq pending[q]
         \/ \E c \in Asked : Send(p, c) /\ socket'[Ws(p)] = "open" /\ used' = used
<1>1. /\ GetMetrics \in Asked /\ GetValues \in Asked /\ Commands \subseteq Asked
      /\ Ws(p) \in Sockets
      /\ connected[p] => socket[Ws(p)] = "open"
  BY SocketShape DEF Asked, SocketInv, PageSockets
<1>2. StartMonitoring(p) => Send(p, GetValues) \/ UNCHANGED <<requestId, pending, uplink>>
  BY DEF StartMonitoring
<1>3. CASE Open(p)
  <2>1. socket'[Ws(p)] = "open" /\ used' = used
    <3>1. socket' = [socket EXCEPT ![Ws(p)] = "open"] /\ used' = used
      BY <1>3 DEF Open
    <3>2. socket \in [Sockets -> {"none", "connecting", "open", "closed"}]
      BY DEF TypeOK
    <3> QED
      BY <1>1, <3>1, <3>2
  <2> QED
    BY <1>1, <1>2, <1>3, <2>1 DEF Open
<1>4. CASE Message(p)
  <2>1. socket'[Ws(p)] = "open" /\ used' = used
    BY <1>4 DEF Message
  <2>2. \A m : Settle(p, m) => UNCHANGED <<requestId, uplink>> /\ \A q \in Pages : pending'[q] \subseteq pending[q]
    BY DEF Settle, TypeOK
  <2>3. \A m : Show(p, m) => UNCHANGED <<requestId, pending, uplink>>
    BY DEF Show
  <2>4. \A f : Discard(p, f) => UNCHANGED <<requestId, pending, uplink>>
    BY DEF Discard
  <2> QED
    BY <1>1, <1>2, <1>4, <2>1, <2>2, <2>3, <2>4 DEF Message, Handle
<1>5. CASE Tick(p)
  <2>1. CASE connected[p]
    <3>1. Send(p, GetMetrics) /\ socket' = socket /\ used' = used
      BY <1>5, <2>1 DEF Tick
    <3> QED
      BY <1>1, <2>1, <3>1
  <2>2. CASE ~connected[p]
    BY <1>5, <2>2 DEF Tick
  <2> QED
    BY <2>1, <2>2
<1>6. ASSUME NEW c \in Commands, Click(p, c) PROVE Send(p, c) /\ socket'[Ws(p)] = "open" /\ used' = used
  <2>1. Send(p, c) /\ connected[p] /\ socket' = socket /\ used' = used
    BY <1>6 DEF Click
  <2> QED
    BY <1>1, <2>1
<1>7. CASE ToggleRPC(p) \/ Reconnect(p) \/ \E n \in 1..MaxSockets : Close(p, n)
  BY <1>7 DEF ToggleRPC, Reconnect, Close
<1> QED
  BY <1>1, <1>3, <1>4, <1>5, <1>6, <1>7 DEF Page

-----------------------------------------------------------------------------
(* New connections hold nothing. *)

LEMMA PageKept ==
  ASSUME TypeOK, TypeOK', NEW p \in Pages, Page(p), NEW t \in Sockets
  PROVE  \E d \in Nat : Kept(Frames(t), Frames(t)', d)
<1>1. CASE Message(p)
  BY <1>1, SocketShape, MessageFrames
<1>2. ASSUME NEW n \in 1..MaxSockets, Close(p, n) PROVE \E d \in Nat : Kept(Frames(t), Frames(t)', d)
  BY <1>2, CloseFrames
<1>3. CASE \/ Open(p) \/ Tick(p) \/ ToggleRPC(p) \/ Reconnect(p)
           \/ \E c \in Commands : Click(p, c)
  <2>1. Kept(Frames(t), Frames(t)', 0) /\ 0 \in Nat
    BY <1>3, OtherFrames
  <2> QED
    BY <2>1
<1> QED
  BY <1>1, <1>2, <1>3 DEF Page

LEMMA FreshOfReceive ==
  ASSUME TypeOK, TypeOK', FreshInv, NEW s \in Sockets, Receive(s), NEW t \in Sockets
  PROVE  Fresh(t)'
<1>1. /\ server' = server /\ socket' = socket /\ downlink' = downlink /\ pending' = pending
      /\ uplink' = [uplink EXCEPT ![s] = Tail(@)] /\ s \in Up /\ uplink[s] # <<>>
      /\ announced'[t] = IF t \in Up THEN announced'[t] ELSE announced[t]
  BY DEF Receive
<1>2. Fresh(t)
  BY DEF FreshInv
<1>3. ASSUME server[t] = "none" PROVE buffer'[t] = <<>> /\ announced'[t] = announced[t]
  <2>1. t \notin Up /\ t # s
    BY <1>1, <1>3 DEF Up
  <2>2. buffer[t] = <<>>
    BY <1>2, <1>3 DEF Fresh
  <2>3. buffer'[t] = (buffer[t] \o <<>>) \o <<>>
    BY <2>1 DEF Receive, Respond
  <2>4. <<>> \o <<>> = <<>>
    OBVIOUS
  <2> QED
    BY <1>1, <2>1, <2>2, <2>3, <2>4
<1>4. ASSUME socket[t] \in {"none", "connecting"} PROVE uplink'[t] = <<>> /\ AnswersIn(Frames(t)') = {}
  <2>1. uplink[t] = <<>> /\ AnswersIn(Frames(t)) = {}
    BY <1>2, <1>4 DEF Fresh
  <2>2. t # s
    BY <1>1, <2>1
  <2>3. uplink'[t] = <<>>
    BY <1>1, <2>1, <2>2 DEF TypeOK
  <2>4. Grown(Frames(t), Frames(t)', New(t, s)) /\ \A j \in DOMAIN New(t, s) : New(t, s)[j].kind # "answer"
    BY <2>2, ReceiveFrames DEF Notice
  <2>5. \A m \in AnswersIn(Frames(t)') : m \in AnswersIn(Frames(t))
    BY <2>4, AnswersGrown
  <2> QED
    BY <2>1, <2>3, <2>5
<1> QED
  BY <1>1, <1>2, <1>3, <1>4 DEF Fresh

LEMMA FreshOfServer ==
  ASSUME TypeOK, TypeOK', FreshInv, NEW s \in Sockets, Establish(s) \/ Writeable(s) \/ Closed(s),
         NEW t \in Sockets
  PROVE  Fresh(t)'
<1>1. /\ socket' = socket /\ pending' = pending /\ announced' = announced
      /\ server'[t] = "none" => server[t] = "none" /\ t # s
      /\ uplink'[t] \in {uplink[t], <<>>}
      /\ t # s => server'[t] = server[t] /\ buffer'[t] = buffer[t] /\ downlink'[t] = downlink[t]
  BY DEF Establish, Writeable, Closed, TypeOK, Up
<1>2. Fresh(t)
  BY DEF FreshInv
<1>3. Establish(s) => socket[s] # "none"
  BY DEF Establish
<1>4. Writeable(s) \/ Closed(s) => server[s] = "up"
  BY DEF Writeable, Closed, Up
<1>5. socket[t] = "none" => server'[t] = "none"
  BY <1>1, <1>2, <1>3, <1>4 DEF Fresh
<1>6. ASSUME NEW m \in AnswersIn(Frames(t)') PROVE m \in AnswersIn(Frames(t))
  <2>1. CASE Writeable(s)
    BY <1>6, <2>1, WriteableFrames, AnswersKept
  <2>2. CASE Closed(s)
    BY <1>6, <2>2, ClosedFrames, AnswersKept
  <2>3. CASE Establish(s) /\ t = s
    <3>1. Grown(Frames(t), Frames(t)', <<Welcome>>)
      BY <2>3, EstablishFrames
    <3>2. DOMAIN <<Welcome>> = {1} /\ <<Welcome>>[1].kind # "answer"
      BY DEF Welcome
    <3> QED
      BY <1>6, <3>1, <3>2, AnswersGrown
  <2>4. CASE Establish(s) /\ t # s
    BY <1>6, <2>4, EstablishFrames
  <2> QED
    BY <2>1, <2>2, <2>3, <2>4
<1> QED
  BY <1>1, <1>2, <1>5, <1>6 DEF Fresh

LEMMA FreshOfPage ==
  ASSUME TypeOK, TypeOK', SocketInv, FreshInv, NEW p \in Pages, Page(p), NEW t \in Sockets
  PROVE  Fresh(t)'
<1>1. Fresh(t)
  BY DEF FreshInv
<1>2. /\ server' = server /\ announced' = announced /\ buffer' = buffer
      /\ server[t] = "none" => downlink'[t] = <<>>
  <2>1. CASE Message(p)
    <3>1. Ws(p) \in Sockets /\ downlink' = [downlink EXCEPT ![Ws(p)] = Tail(@)] /\ downlink[Ws(p)] # <<>>
      BY <2>1, SocketShape DEF Message
    <3>2. t # Ws(p) => downlink'[t] = downlink[t]
      BY <3>1 DEF TypeOK
    <3> QED
      BY <1>1, <2>1, <3>1, <3>2 DEF Fresh, Message
  <2>2. ASSUME NEW n \in 1..MaxSockets, Close(p, n)
        PROVE  /\ server' = server /\ announced' = announced /\ buffer' = buffer
               /\ server[t] = "none" => downlink'[t] = <<>>
    BY <1>1, <2>2 DEF Close, Fresh, TypeOK
  <2>3. CASE \/ Open(p) \/ Tick(p) \/ ToggleRPC(p) \/ Reconnect(p)
             \/ \E c \in Commands : Click(p, c)
    BY <1>1, <2>3 DEF Open, Tick, ToggleRPC, Reconnect, Click, Fresh
  <2> QED
    BY <2>1, <2>2, <2>3 DEF Page
<1>3. /\ socket'[t] = "none" => socket[t] = "none"
      /\ socket'[t] = "open" => socket[t] = "open" \/ server[t] # "none"
      /\ socket'[t] \in {"none", "connecting"} => socket[t] \in {"none", "connecting"}
  <2>1. CASE Open(p)
    BY <2>1, SocketShape DEF Open, TypeOK
  <2>2. CASE Reconnect(p)
    <3>1. used[p] + 1 \in 1..MaxSockets /\ used[p] + 1 > used[p] /\ <<p, used[p] + 1>> \in Sockets
      BY <2>2, SocketShape DEF Reconnect
    <3>2. socket[<<p, used[p] + 1>>] = "none"
      BY <3>1 DEF SocketInv, PageSockets
    <3>3. socket' = [socket EXCEPT ![<<p, used[p] + 1>>] = "connecting"]
      BY <2>2 DEF Reconnect
    <3> QED
      BY <3>1, <3>2, <3>3 DEF TypeOK
  <2>3. CASE \E n \in 1..MaxSockets : Close(p, n)
    BY <2>3 DEF Close, TypeOK
  <2>4. CASE Message(p) \/ Tick(p) \/ ToggleRPC(p) \/ \E c \in Commands : Click(p, c)
    BY <2>4 DEF Message, Tick, ToggleRPC, Click
  <2> QED
    BY <2>1, <2>2, <2>3, <2>4 DEF Page
<1>4. ASSUME socket'[t] \in {"none", "connecting"}
      PROVE  uplink'[t] = <<>> /\ AnswersIn(Frames(t)') = {} /\ \A r \in pending'[t[1]] : r.n # t[2]
  <2>1. uplink[t] = <<>> /\ AnswersIn(Frames(t)) = {} /\ \A r \in pending[t[1]] : r.n # t[2]
    BY <1>1, <1>3, <1>4 DEF Fresh
  <2>2. AnswersIn(Frames(t)') = {}
    BY <2>1, PageKept, AnswersKept
  <2>3. CASE /\ UNCHANGED <<requestId, uplink>>
             /\ pending' = pending \/ Message(p)
            /\ \A q \in Pages : pending'[q] \subseteq pending[q]
    BY <2>1, <2>2, <2>3, SocketShape
  <2>4. ASSUME NEW c \in Asked, Send(p, c), socket'[Ws(p)] = "open"
        PROVE  uplink'[t] = <<>> /\ \A r \in pending'[t[1]] : r.n # t[2]
    <3>1. t # Ws(p) /\ t = <<t[1], t[2]>> /\ t[1] \in Pages /\ Ws(p) = <<p, used[p]>>
      BY <1>4, <2>4, SocketShape
    <3>2. uplink'[t] = <<>>
      BY <2>1, <2>4, <3>1, SendStep
    <3>3. CASE t[1] = p
      <4>1. pending'[p] = pending[p] \cup {OfCall(Request(p, c), Ws(p))}
        BY <2>4, SendStep
      <4>2. OfCall(Request(p, c), Ws(p)).n = used[p] /\ t[2] # used[p]
        BY <3>1, <3>3 DEF OfCall
      <4> QED
        BY <2>1, <3>2, <3>3, <4>1, <4>2
    <3>4. CASE t[1] # p
      BY <2>1, <2>4, <3>1, <3>2, <3>4, SendStep
    <3> QED
      BY <3>3, <3>4
  <2> QED
    BY <2>2, <2>3, <2>4, PageCalls
<1> QED
  BY <1>1, <1>2, <1>3, <1>4 DEF Fresh

LEMMA FreshStep ==
  ASSUME TypeOK, TypeOK', SocketInv, FreshInv, [Next]_vars
  PROVE  FreshInv'
<1>1. CASE UNCHANGED vars
  BY <1>1 DEF vars, FreshInv, Fresh, Frames
<1>2. ASSUME NEW s \in Sockets, Server(s) PROVE FreshInv'
  BY <1>2, FreshOfReceive, FreshOfServer DEF Server, FreshInv
<1>3. ASSUME NEW p \in Pages, Page(p) PROVE FreshInv'
  BY <1>3, FreshOfPage DEF FreshInv
<1> QED
  BY <1>1, <1>2, <1>3 DEF Next

-----------------------------------------------------------------------------
(* The order of the calls. *)

LEMMA OrderTypes ==
  ASSUME TypeOK, TypeOK', NEW t \in Sockets
  PROVE  /\ Frames(t) \in Seq(Seq(Messages)) /\ Frames(t)' \in Seq(Seq(Messages))
         /\ uplink[t] \in Seq(Calling) /\ requestId[t[1]] \in Nat
BY FramesAre, FramesNext, SocketShape DEF TypeOK, Calling, Sockets

LEMMA ReplyOf ==
  ASSUME NEW s
  PROVE  /\ Reply(s).kind = "answer" /\ Reply(s).id = Head(uplink[s]).id
         /\ Reply(s).method = Head(uplink[s]).method
         /\ \A c : Notice(c).kind = "valueChanged" /\ Notice(c).key = c.key /\ Notice(c).value = c.value
BY DEF Reply, Answer, Notice

LEMMA OrderOfServer ==
  ASSUME TypeOK, TypeOK', FreshInv, OrderInv, NEW s \in Sockets, Server(s), NEW t \in Sockets
  PROVE  Ordered(Frames(t)', uplink'[t], requestId[t[1]])
<1> DEFINE F == Frames(t)
<1> DEFINE G == Frames(t)'
<1> DEFINE Q == uplink[t]
<1> DEFINE R == uplink'[t]
<1> DEFINE top == requestId[t[1]]
<1>1. /\ F \in Seq(Seq(Messages)) /\ G \in Seq(Seq(Messages)) /\ Q \in Seq(Calling) /\ top \in Nat
      /\ Ordered(F, Q, top)
  BY OrderTypes DEF OrderInv
<1>2. CASE Receive(s)
  <2>1. R = IF t = s THEN Tail(Q) ELSE Q
    BY <1>2 DEF Receive, TypeOK
  <2>2. /\ Grown(F, G, New(t, s)) /\ (t = s => Q # <<>>)
        /\ \A j \in DOMAIN New(t, s) :
              \/ t \in Up /\ j \in DOMAIN Told(s) /\ New(t, s)[j] = Notice(Told(s)[j])
              \/ t = s /\ j = Len(Told(s)) + 1 /\ New(t, s)[j] = Reply(s)
        /\ t = s => Len(Told(s)) + 1 \in DOMAIN New(t, s) /\ New(t, s)[Len(Told(s)) + 1] = Reply(s)
    BY <1>2, ReceiveFrames
  <2> DEFINE l == Len(Told(s)) + 1
  <2>3. t = s => /\ l \in DOMAIN New(t, s) /\ New(t, s)[l].kind = "answer" /\ New(t, s)[l].id = Head(Q).id
                 /\ \A j \in DOMAIN New(t, s) : New(t, s)[j].kind = "answer" => j = l
    BY <2>2, ReplyOf
  <2>4. t # s => \A j \in DOMAIN New(t, s) : New(t, s)[j].kind # "answer"
    BY <2>2, ReplyOf
  <2> HIDE DEF F, G, Q, R, top, l
  <2>5. ASSUME t = s PROVE Ordered(G, R, top)
    <3>1. R = Tail(Q)
      BY <2>1, <2>5
    <3>2. Ordered(G, Tail(Q), top)
      BY <1>1, <2>2, <2>3, <2>5, OrderRead
    <3> QED
      BY <3>1, <3>2
  <2>6. ASSUME t # s PROVE Ordered(G, R, top)
    BY <1>1, <2>1, <2>2, <2>4, <2>6, OrderGrown
  <2> QED
    BY <2>5, <2>6 DEF G, R, top
<1>3. CASE Establish(s)
  <2>1. R = Q /\ DOMAIN <<Welcome>> = {1} /\ <<Welcome>>[1].kind # "answer"
    BY <1>3 DEF Establish, Welcome
  <2>2. (t # s => G = F) /\ (t = s => Grown(F, G, <<Welcome>>))
    BY <1>3, EstablishFrames
  <2> HIDE DEF F, G, Q, R, top
  <2>3. Ordered(G, R, top)
    BY <1>1, <2>1, <2>2, OrderGrown
  <2> QED
    BY <2>3 DEF G, R, top
<1>4. CASE Writeable(s) \/ Closed(s)
  <2>1. R \in {Q, <<>>}
    BY <1>4 DEF Writeable, Closed, TypeOK
  <2>2. Kept(F, G, 0) /\ 0 \in Nat
    BY <1>4, WriteableFrames, ClosedFrames
  <2> HIDE DEF F, G, Q, R, top
  <2>3. Ordered(G, R, top)
    BY <1>1, <2>1, <2>2, OrderKept
  <2> QED
    BY <2>3 DEF G, R, top
<1> QED
  BY <1>2, <1>3, <1>4 DEF Server

LEMMA OrderOfPage ==
  ASSUME TypeOK, TypeOK', SocketInv, OrderInv, NEW p \in Pages, Page(p), NEW t \in Sockets
  PROVE  Ordered(Frames(t)', uplink'[t], requestId'[t[1]])
<1> DEFINE F == Frames(t)
<1> DEFINE G == Frames(t)'
<1> DEFINE Q == uplink[t]
<1> DEFINE top == requestId[t[1]]
<1>1. /\ F \in Seq(Seq(Messages)) /\ G \in Seq(Seq(Messages)) /\ Q \in Seq(Calling) /\ top \in Nat
      /\ Ordered(F, Q, top)
  BY OrderTypes DEF OrderInv
<1>2. PICK d \in Nat : Kept(F, G, d)
  BY PageKept
<1>3. Ordered(G, Q, top)
  <2> HIDE DEF F, G, Q, top
  <2> QED
    BY <1>1, <1>2, OrderKept
<1>4. CASE UNCHANGED <<requestId, uplink>>
  BY <1>3, <1>4
<1>5. ASSUME NEW c \in Asked, Send(p, c) PROVE Ordered(Frames(t)', uplink'[t], requestId'[t[1]])
  <2> DEFINE r == Request(p, c)
  <2>1. /\ r \in Calling /\ r.id = requestId[p] + 1 /\ requestId'[p] = requestId[p] + 1
        /\ \A q \in Pages \ {p} : requestId'[q] = requestId[q]
        /\ uplink'[t] \in {Q, Append(Q, r)} /\ (t # Ws(p) => uplink'[t] = Q)
    BY <1>5, SendStep
  <2>2. t[1] \in Pages /\ (t[1] # p => t # Ws(p))
    BY SocketShape DEF Ws
  <2> HIDE DEF G, Q, r
  <2>3. CASE t[1] = p
    <3>1. requestId'[t[1]] = top + 1 /\ r.id = top + 1
      BY <2>1, <2>3
    <3> DEFINE R == uplink'[t]
    <3>2. R = Q \/ R = Append(Q, r)
      BY <2>1
    <3> HIDE DEF top, R, F
    <3>3. Q \in Seq(Calling) /\ top \in Nat /\ Ordered(G, Q, top) /\ r \in Calling
      BY <1>1, <1>3, <2>1
    <3>4. Ordered(G, R, top + 1)
      BY ONLY <3>1, <3>2, <3>3, OrderSent
    <3> QED
      BY <3>1, <3>4 DEF G, R
  <2>4. CASE t[1] # p
    BY <1>3, <2>1, <2>2, <2>4 DEF G
  <2> QED
    BY <2>3, <2>4
<1> QED
  BY <1>4, <1>5, PageCalls

LEMMA OrderStep ==
  ASSUME TypeOK, TypeOK', SocketInv, FreshInv, OrderInv, [Next]_vars
  PROVE  OrderInv'
<1>1. CASE UNCHANGED vars
  BY <1>1 DEF vars, OrderInv, Frames
<1>2. ASSUME NEW s \in Sockets, Server(s) PROVE OrderInv'
  <2>1. requestId' = requestId
    BY <1>2 DEF Server, Establish, Receive, Writeable, Closed
  <2> QED
    BY <1>2, <2>1, OrderOfServer DEF OrderInv
<1>3. ASSUME NEW p \in Pages, Page(p) PROVE OrderInv'
  BY <1>3, OrderOfPage DEF OrderInv
<1> QED
  BY <1>1, <1>2, <1>3 DEF Next

-----------------------------------------------------------------------------
(* What goes round a connection. *)

LEMMA RangeTail ==
  ASSUME NEW S, NEW Q \in Seq(S), Q # <<>>
  PROVE  /\ Head(Q) \in Range(Q) /\ Range(Tail(Q)) \subseteq Range(Q)
         /\ \A r \in Range(Q) : r = Head(Q) \/ r \in Range(Tail(Q))
<1>1. /\ Len(Q) \in Nat /\ Len(Q) > 0 /\ DOMAIN Q = 1..Len(Q) /\ Head(Q) = Q[1]
      /\ DOMAIN Tail(Q) = 1..(Len(Q) - 1) /\ \A i \in 1..(Len(Q) - 1) : Tail(Q)[i] = Q[i + 1]
  BY EmptySeq, LenProperties, HeadTailProperties
<1>2. \A i \in 1..(Len(Q) - 1) : i + 1 \in DOMAIN Q
  BY <1>1
<1>3. \A i \in DOMAIN Q : i = 1 \/ (i - 1 \in 1..(Len(Q) - 1) /\ (i - 1) + 1 = i)
  BY <1>1
<1>4. \A i \in DOMAIN Q : Q[i] = Head(Q) \/ \E j \in DOMAIN Tail(Q) : Q[i] = Tail(Q)[j]
  BY <1>1, <1>3
<1>5. 1 \in DOMAIN Q
  BY <1>1
<1> QED
  BY <1>1, <1>2, <1>4, <1>5 DEF Range

LEMMA TripOfServer ==
  ASSUME TypeOK, TypeOK', FreshInv, NEW s \in Sockets, Server(s), NEW t \in Sockets
  PROVE  /\ \A m \in Trip(t)' : \E o \in Trip(t) : o.id = m.id /\ o.method = m.method
         /\ socket[t] = "open" /\ server'[t] = "up" => \A o \in Trip(t) : \E m \in Trip(t)' : m.id = o.id
<1> DEFINE F == Frames(t)
<1> DEFINE G == Frames(t)'
<1> DEFINE Q == uplink[t]
<1> DEFINE R == uplink'[t]
<1>1. Trip(t) = AnswersIn(F) \cup Range(Q) /\ Trip(t)' = AnswersIn(G) \cup Range(R)
  BY DEF Trip
<1>2. CASE Receive(s)
  <2>1. R = IF t = s THEN Tail(Q) ELSE Q
    BY <1>2 DEF Receive, TypeOK
  <2>2. /\ Grown(F, G, New(t, s)) /\ (t = s => Q # <<>> /\ Q \in Seq(Calling))
        /\ \A j \in DOMAIN New(t, s) :
              \/ t \in Up /\ j \in DOMAIN Told(s) /\ New(t, s)[j] = Notice(Told(s)[j])
              \/ t = s /\ j = Len(Told(s)) + 1 /\ New(t, s)[j] = Reply(s)
        /\ t = s => Len(Told(s)) + 1 \in DOMAIN New(t, s) /\ New(t, s)[Len(Told(s)) + 1] = Reply(s)
    BY <1>2, ReceiveFrames
  <2> HIDE DEF F, G, Q, R
  <2>3. /\ AnswersIn(F) \subseteq AnswersIn(G)
        /\ \A m \in AnswersIn(G) : m \in AnswersIn(F) \/ (t = s /\ m = Reply(s))
    BY <2>2, AnswersGrown, ReplyOf
  <2>4. CASE t = s
    <3>1. Reply(s) \in AnswersIn(G)
      BY <2>2, <2>4, AnswersGrown, ReplyOf
    <3>2. /\ Head(Q) \in Range(Q) /\ Range(R) \subseteq Range(Q)
          /\ \A r \in Range(Q) : r = Head(Q) \/ r \in Range(R)
      BY <2>1, <2>2, <2>4, RangeTail
    <3>3. Reply(s).id = Head(Q).id /\ Reply(s).method = Head(Q).method
      BY <2>4, ReplyOf DEF Q
    <3> QED
      BY <1>1, <2>3, <3>1, <3>2, <3>3
  <2>5. CASE t # s
    BY <1>1, <2>1, <2>3, <2>5
  <2> QED
    BY <2>4, <2>5
<1>3. CASE Establish(s)
  <2>1. R = Q /\ DOMAIN <<Welcome>> = {1} /\ <<Welcome>>[1].kind # "answer"
    BY <1>3 DEF Establish, Welcome
  <2>2. (t # s => G = F) /\ (t = s => Grown(F, G, <<Welcome>>))
    BY <1>3, EstablishFrames
  <2> HIDE DEF F, G, Q, R
  <2>3. AnswersIn(F) \subseteq AnswersIn(G) /\ \A m \in AnswersIn(G) : m \in AnswersIn(F)
    BY <2>1, <2>2, AnswersGrown
  <2> QED
    BY <1>1, <2>1, <2>3
<1>4. CASE Writeable(s)
  <2>1. R = Q
    BY <1>4 DEF Writeable
  <2>2. Kept(F, G, 0) /\ (socket[t] = "open" => Kept(G, F, 0))
    BY <1>4, WriteableFrames
  <2> HIDE DEF F, G, Q, R
  <2>3. AnswersIn(G) \subseteq AnswersIn(F) /\ (socket[t] = "open" => AnswersIn(F) \subseteq AnswersIn(G))
    BY <2>2, AnswersKept
  <2> QED
    BY <1>1, <2>1, <2>3
<1>5. CASE Closed(s)
  <2>1. Kept(F, G, 0) /\ (t # s => G = F)
    BY <1>5, ClosedFrames
  <2>2. /\ Range(R) \subseteq Range(Q) /\ (t # s => R = Q)
        /\ server'[s] = "down"
    <3>1. uplink' = [uplink EXCEPT ![s] = <<>>] /\ server' = [server EXCEPT ![s] = "down"]
      BY <1>5 DEF Closed
    <3>2. (t # s => R = Q) /\ (t = s => R = <<>>) /\ server'[s] = "down"
      BY <3>1 DEF TypeOK
    <3>3. Range(<<>>) = {}
      BY DEF Range
    <3> QED
      BY <3>2, <3>3
  <2> HIDE DEF F, G, Q, R
  <2>3. AnswersIn(G) \subseteq AnswersIn(F)
    BY <2>1, AnswersKept
  <2> QED
    BY <1>1, <2>1, <2>2, <2>3
<1> QED
  BY <1>2, <1>3, <1>4, <1>5 DEF Server

(* What a page reads is before everything else of its connection. *)
LEMMA FirstAnswer ==
  ASSUME TypeOK, TypeOK', OrderInv, NEW p \in Pages, Message(p), NEW s \in Sockets, s = Ws(p)
  PROVE  /\ AnswersIn(Frames(s)') \subseteq AnswersIn(Frames(s))
         /\ \A m \in AnswersIn(Frames(s)) :
               \/ m \in AnswersIn(Frames(s)')
               \/ \E k \in DOMAIN Head(downlink[s]) : m = Head(downlink[s])[k]
         /\ Len(Head(downlink[s])) = 1 /\ Head(downlink[s])[1].kind = "answer" =>
               \A m \in AnswersIn(Frames(s)') \cup Range(uplink[s]) : Head(downlink[s])[1].id < m.id
<1> DEFINE F == Frames(s)
<1> DEFINE G == Frames(s)'
<1> DEFINE frame == Head(downlink[s])
<1>1. /\ Kept(F, G, 1)
      /\ \A k \in DOMAIN frame : <<1, k>> \in Places(F) /\ At(F, <<1, k>>) = frame[k]
      /\ \A a \in Places(F) : \/ a[1] = 1 /\ a[2] \in DOMAIN frame /\ At(F, a) = frame[a[2]]
                             \/ /\ a[1] > 1 /\ <<a[1] - 1, a[2]>> \in Places(G)
                                /\ At(G, <<a[1] - 1, a[2]>>) = At(F, a)
  BY MessageFrames
<1>2. /\ F \in Seq(Seq(Messages)) /\ G \in Seq(Seq(Messages)) /\ Ordered(F, uplink[s], requestId[s[1]])
      /\ frame \in Seq(Messages)
  BY OrderTypes, MessageTypes DEF OrderInv, Message
<1> HIDE DEF F, G, frame
<1>3. AnswersIn(G) \subseteq AnswersIn(F)
  BY <1>1, AnswersKept
<1>4. ASSUME NEW m \in AnswersIn(F)
      PROVE  m \in AnswersIn(G) \/ \E k \in DOMAIN frame : m = frame[k]
  <2>1. PICK a \in Places(F) : m = At(F, a) /\ At(F, a).kind = "answer"
    BY <1>4 DEF AnswersIn, AnswerPlaces
  <2>2. CASE a[1] = 1 /\ a[2] \in DOMAIN frame /\ At(F, a) = frame[a[2]]
    BY <2>1, <2>2
  <2>3. ASSUME <<a[1] - 1, a[2]>> \in Places(G), At(G, <<a[1] - 1, a[2]>>) = At(F, a)
        PROVE  m \in AnswersIn(G)
    BY <2>1, <2>3 DEF AnswersIn, AnswerPlaces
  <2> QED
    BY <1>1, <2>2, <2>3
<1>5. ASSUME Len(frame) = 1, frame[1].kind = "answer", NEW m \in AnswersIn(G) \cup Range(uplink[s])
      PROVE  frame[1].id < m.id
  <2>1. 1 \in DOMAIN frame
    BY <1>2, <1>5, LenProperties
  <2>2. <<1, 1>> \in AnswerPlaces(F) /\ At(F, <<1, 1>>) = frame[1]
    BY <1>1, <1>5, <2>1 DEF AnswerPlaces
  <2>3. CASE m \in Range(uplink[s])
    <3>1. frame[1] \in AnswersIn(F)
      BY <2>2 DEF AnswersIn
    <3> QED
      BY <1>2, <2>3, <3>1 DEF Ordered
  <2>4. CASE m \in AnswersIn(G)
    <3>1. PICK b \in AnswerPlaces(G) : m = At(G, b)
      BY <2>4 DEF AnswersIn
    <3> DEFINE u == <<b[1] + 1, b[2]>>
    <3>2. u \in AnswerPlaces(F) /\ At(F, u) = m
      BY <1>1, <3>1, AnswersKept
    <3>3. b[1] \in Nat /\ b[1] \in DOMAIN G
      BY <1>2, PlacesIn DEF AnswerPlaces
    <3>4. DOMAIN G = 1..Len(G) /\ Len(G) \in Nat
      BY <1>2, LenProperties
    <3>5. Before(<<1, 1>>, u)
      BY <3>3, <3>4 DEF Before
    <3> HIDE DEF u
    <3> QED
      BY <1>2, <2>2, <3>2, <3>5 DEF Ordered
  <2> QED
    BY <1>5, <2>3, <2>4
<1> QED
  BY <1>3, <1>4, <1>5 DEF F, G, frame

(* What goes on with a page: read, thrown away, answered, shown, started.    *)
LEMMA MessageCases ==
  ASSUME TypeOK, NEW p \in Pages, Message(p), NEW s \in Sockets, s = Ws(p)
  PROVE  LET frame == Head(downlink[s])  m == Head(downlink[s])[1]
         IN /\ frame \in Seq(Messages) /\ \A k \in DOMAIN frame : frame[k] \in Messages
            /\ \/ Discard(p, frame)
               \/ /\ Len(frame) = 1 /\ DOMAIN frame = {1} /\ m \in Messages
                  /\ \/ m.kind = "answer" /\ Settle(p, m)
                     \/ m.kind = "valueChanged" /\ Show(p, m)
                     \/ m.kind = "connected" /\ StartMonitoring(p) /\ UNCHANGED <<metrics, lost>>
<1>1. /\ Head(downlink[s]) \in Seq(Messages)
      /\ \A i \in DOMAIN Head(downlink[s]) : Head(downlink[s])[i] \in Messages
  BY MessageTypes DEF Message
<1>2. Len(Head(downlink[s])) = 1 => DOMAIN Head(downlink[s]) = {1}
  BY <1>1, LenProperties
<1> QED
  BY <1>1, <1>2 DEF Message, Handle

LEMMA RangeAppend ==
  ASSUME NEW S, NEW Q \in Seq(S), NEW r \in S
  PROVE  Range(Append(Q, r)) = Range(Q) \cup {r}
<1>1. /\ Len(Q) \in Nat /\ DOMAIN Q = 1..Len(Q) /\ DOMAIN Append(Q, r) = 1..(Len(Q) + 1)
      /\ \A i \in 1..Len(Q) : Append(Q, r)[i] = Q[i]
      /\ Append(Q, r)[Len(Q) + 1] = r
  OBVIOUS
<1>2. \A i \in 1..(Len(Q) + 1) : i \in 1..Len(Q) \/ i = Len(Q) + 1
  BY <1>1
<1>3. 1..Len(Q) \subseteq 1..(Len(Q) + 1) /\ Len(Q) + 1 \in 1..(Len(Q) + 1)
  BY <1>1
<1> HIDE DEF Range
<1>4. \A x : x \in Range(Append(Q, r)) <=> \E i \in DOMAIN Append(Q, r) : x = Append(Q, r)[i]
  BY DEF Range
<1>5. \A x : x \in Range(Q) <=> \E i \in DOMAIN Q : x = Q[i]
  BY DEF Range
<1>6. ASSUME NEW x \in Range(Append(Q, r)) PROVE x \in Range(Q) \cup {r}
  BY <1>1, <1>2, <1>4, <1>5
<1>7. ASSUME NEW x \in Range(Q) \cup {r} PROVE x \in Range(Append(Q, r))
  BY <1>1, <1>3, <1>4, <1>5
<1> QED
  BY <1>6, <1>7

(* The sockets that are open after a step of a page. *)
LEMMA OpenAfter ==
  ASSUME TypeOK, SocketInv, NEW p \in Pages, Page(p), NEW t \in Sockets, socket'[t] = "open"
  PROVE  /\ t[1] = p => t = Ws(p) /\ used' = used /\ socket[t] \in {"connecting", "open"}
         /\ socket[t] = "open" \/ (socket[t] = "connecting" /\ Open(p) /\ t = Ws(p))
         /\ ~Message(p) => Frames(t)' = Frames(t)
<1>1. t = <<t[1], t[2]>> /\ t[1] \in Pages /\ t[2] \in 1..MaxSockets /\ Ws(p) = <<p, used[p]>>
  BY SocketShape
<1>2. CASE Open(p)
  <2>1. socket[Ws(p)] = "connecting" /\ (t # Ws(p) => socket[t] = "open") /\ used' = used
    BY <1>2, SocketShape DEF Open, TypeOK
  <2>2. Frames(t)' = Frames(t)
    BY <1>2, OtherFrames
  <2>3. t[1] = p /\ socket[t] = "open" => t = Ws(p)
    BY <1>1, LastSocket
  <2> QED
    BY <1>2, <2>1, <2>2, <2>3
<1>3. CASE Reconnect(p)
  <2>1. used[p] + 1 \in 1..MaxSockets /\ <<p, used[p] + 1>> \in Sockets
    BY <1>3, SocketShape DEF Reconnect
  <2>2. socket' = [socket EXCEPT ![<<p, used[p] + 1>>] = "connecting"] /\ timers[p] > 0
    BY <1>3 DEF Reconnect
  <2>3. socket[t] = "open"
    BY <2>1, <2>2 DEF TypeOK
  <2>4. socket[Ws(p)] = "closed" /\ (t[1] = p => t = Ws(p))
    BY <1>1, <2>2, <2>3, LastSocket DEF SocketInv, PageSockets
  <2>5. Frames(t)' = Frames(t)
    BY <1>3, OtherFrames
  <2> QED
    BY <2>3, <2>4, <2>5
<1>4. ASSUME NEW n \in 1..MaxSockets, Close(p, n)
      PROVE  socket[t] = "open" /\ t[1] # p /\ t # <<p, n>>
  <2>1. /\ socket' = [socket EXCEPT ![<<p, n>>] = "closed"] /\ socket[<<p, n>>] \in {"connecting", "open"}
        /\ <<p, n>> \in Sockets
    BY <1>4, SocketShape DEF Close
  <2>2. t # <<p, n>> /\ socket[t] = "open"
    BY <2>1 DEF TypeOK
  <2>3. <<p, n>> = Ws(p) /\ (t[1] = p => t = Ws(p))
    BY <1>1, <2>1, <2>2, LastSocket
  <2> QED
    BY <2>2, <2>3
<1>5. ASSUME NEW n \in 1..MaxSockets, Close(p, n) PROVE Frames(t)' = Frames(t)
  BY <1>4, <1>5 DEF Close, TypeOK, Frames
<1>6. CASE Message(p) \/ Tick(p) \/ ToggleRPC(p) \/ \E c \in Commands : Click(p, c)
  <2>1. socket' = socket /\ used' = used
    BY <1>6 DEF Message, Tick, ToggleRPC, Click
  <2>2. t[1] = p => t = Ws(p)
    BY <1>1, <2>1, LastSocket
  <2>3. ~Message(p) => Frames(t)' = Frames(t)
    BY <1>6, OtherFrames
  <2> QED
    BY <2>1, <2>2, <2>3
<1> QED
  BY <1>2, <1>3, <1>4, <1>5, <1>6 DEF Page

-----------------------------------------------------------------------------
(* Every answer finds its call. *)

LEMMA OwnOfServer ==
  ASSUME TypeOK, TypeOK', FreshInv, OwnInv, NEW s \in Sockets, Server(s)
  PROVE  OwnInv'
<1>1. socket' = socket /\ pending' = pending
  BY DEF Server, Establish, Receive, Writeable, Closed
<1> SUFFICES ASSUME NEW t \in Sockets, socket[t] = "open", NEW m \in Trip(t)'
             PROVE  OfCall(m, t) \in pending[t[1]]
  BY <1>1 DEF OwnInv
<1>2. PICK o \in Trip(t) : o.id = m.id /\ o.method = m.method
  BY TripOfServer
<1>3. OfCall(o, t) \in pending[t[1]] /\ OfCall(o, t) = OfCall(m, t)
  BY <1>2 DEF OwnInv, OfCall
<1> QED
  BY <1>3

(* A request is added where the page sends it. *)
LEMMA SendTrip ==
  ASSUME TypeOK, NEW p \in Pages, NEW c \in Asked, Send(p, c), NEW t \in Sockets
  PROVE  /\ Range(uplink[t]) \subseteq Range(uplink'[t])
         /\ \A r \in Range(uplink'[t]) : r \in Range(uplink[t]) \/ (t = Ws(p) /\ r = Request(p, c))
         /\ t = Ws(p) /\ server[t] # "down" => Request(p, c) \in Range(uplink'[t])
<1>1. /\ Request(p, c) \in Calling /\ uplink[t] \in Seq(Calling)
      /\ t # Ws(p) => uplink'[t] = uplink[t]
      /\ t = Ws(p) => IF server[t] = "down" THEN uplink'[t] = uplink[t]
                       ELSE uplink'[t] = Append(uplink[t], Request(p, c))
  <2>1. Request(p, c) \in Calling /\ uplink[t] \in Seq(Calling)
    BY SendStep DEF TypeOK, Calling
  <2>2. t # Ws(p) => uplink'[t] = uplink[t]
    BY SendStep
  <2>3. t = Ws(p) => IF server[t] = "down" THEN uplink'[t] = uplink[t]
                     ELSE uplink'[t] = Append(uplink[t], Request(p, c))
    BY SendStep
  <2> QED
    BY <2>1, <2>2, <2>3
<1>2. Range(Append(uplink[t], Request(p, c))) = Range(uplink[t]) \cup {Request(p, c)}
  BY <1>1, RangeAppend
<1> QED
  BY <1>1, <1>2

LEMMA OwnOfPage ==
  ASSUME TypeOK, TypeOK', SocketInv, FreshInv, OrderInv, OwnInv, NEW p \in Pages, Page(p)
  PROVE  OwnInv'
<1> SUFFICES ASSUME NEW t \in Sockets, socket'[t] = "open", NEW m \in Trip(t)'
             PROVE  OfCall(m, t) \in pending'[t[1]]
  BY DEF OwnInv
<1>1. t = <<t[1], t[2]>> /\ t[1] \in Pages /\ t[2] \in 1..MaxSockets /\ Ws(p) = <<p, used[p]>>
  BY SocketShape
<1>2. \A o \in Trip(t) : OfCall(o, t) \in pending[t[1]]
  <2>1. CASE socket[t] = "open"
    BY <2>1 DEF OwnInv
  <2>2. CASE socket[t] = "connecting"
    <3>1. uplink[t] = <<>> /\ AnswersIn(Frames(t)) = {} /\ Range(<<>>) = {}
      BY <2>2 DEF FreshInv, Fresh, Range
    <3> QED
      BY <3>1 DEF Trip
  <2> QED
    BY <2>1, <2>2, OpenAfter
<1>3. m \in AnswersIn(Frames(t)') \/ m \in Range(uplink'[t])
  BY DEF Trip
<1>4. AnswersIn(Frames(t)') \subseteq AnswersIn(Frames(t))
  BY PageKept, AnswersKept
<1>5. ASSUME NEW c \in Asked, Send(p, c) PROVE OfCall(m, t) \in pending'[t[1]]
  <2>1. pending[t[1]] \subseteq pending'[t[1]]
    BY <1>1, <1>5, SendStep
  <2>2. CASE m \in Trip(t)
    BY <1>2, <2>1, <2>2
  <2>3. CASE t = Ws(p) /\ m = Request(p, c)
    <3>1. OfCall(Request(p, c), Ws(p)) \in pending'[p]
      BY <1>5, SendStep
    <3>2. t[1] = p
      BY <1>1, <2>3
    <3> QED
      BY <2>3, <3>1, <3>2
  <2> QED
    BY <1>3, <1>4, <1>5, <2>2, <2>3, SendTrip DEF Trip
<1>6. ASSUME uplink' = uplink, Message(p) PROVE OfCall(m, t) \in pending'[t[1]]
  <2> DEFINE s == Ws(p)
  <2> DEFINE frame == Head(downlink[s])
  <2>1. m \in Trip(t)
    BY <1>3, <1>4, <1>6 DEF Trip
  <2>2. s \in Sockets
    BY SocketShape
  <2>3. CASE Discard(p, frame) \/ Show(p, frame[1])
    BY <1>2, <2>1, <2>3 DEF Discard, Show
  <2>4. CASE StartMonitoring(p)
    <3>1. Send(p, GetValues) \/ pending' = pending
      BY <2>4, StartTypes
    <3>2. GetValues \in Asked
      BY DEF Asked
    <3> QED
      BY <1>2, <1>5, <2>1, <3>1, <3>2
  <2>5. CASE Len(frame) = 1 /\ frame[1].kind = "answer" /\ Settle(p, frame[1])
    <3>1. pending' = [pending EXCEPT ![p] = @ \ {r \in pending[p] : r.id = frame[1].id}]
      BY <2>5 DEF Settle
    <3>2. CASE t[1] # p
      BY <1>1, <1>2, <2>1, <3>1, <3>2 DEF TypeOK
    <3>3. CASE t[1] = p
      <4>1. t = s
        BY <3>3, OpenAfter
      <4>2. frame[1].id < m.id
        BY <1>3, <1>6, <2>2, <2>5, <4>1, FirstAnswer
      <4>3. m.id \in Nat /\ frame[1].id # m.id
        <5>1. m.id \in 1..requestId[t[1]] /\ requestId[t[1]] \in Nat
          BY <2>1, OrderTypes DEF OrderInv, Ordered, Trip
        <5> QED
          BY <4>2, <5>1
      <4>4. OfCall(m, t) \in pending[p] /\ OfCall(m, t).id = m.id
        BY <1>2, <2>1, <3>3 DEF OfCall
      <4> QED
        BY <3>1, <3>3, <4>3, <4>4 DEF TypeOK
    <3> QED
      BY <3>2, <3>3
  <2> QED
    BY <1>6, <2>2, <2>3, <2>4, <2>5, MessageCases
<1>7. ASSUME uplink' = uplink, pending' = pending PROVE OfCall(m, t) \in pending'[t[1]]
  BY <1>2, <1>3, <1>4, <1>7 DEF Trip
<1> QED
  BY <1>5, <1>6, <1>7, PageCalls

LEMMA OwnStep ==
  ASSUME TypeOK, TypeOK', SocketInv, FreshInv, OrderInv, OwnInv, [Next]_vars
  PROVE  OwnInv'
<1>1. CASE UNCHANGED vars
  BY <1>1 DEF vars, OwnInv, Trip, Frames
<1> QED
  BY <1>1, OwnOfServer, OwnOfPage DEF Next

-----------------------------------------------------------------------------
(* Every call is accounted for. *)

LEMMA AccountOfServer ==
  ASSUME TypeOK, TypeOK', FreshInv, AccountInv, NEW s \in Sockets, Server(s)
  PROVE  AccountInv'
<1>1. socket' = socket /\ pending' = pending /\ lost' = lost
  BY DEF Server, Establish, Receive, Writeable, Closed
<1> SUFFICES ASSUME NEW t \in Sockets, socket[t] = "open", server'[t] = "up",
                    NEW r \in pending[t[1]], r.n = t[2]
             PROVE  \/ \E m \in Trip(t)' : m.id = r.id
                    \/ \E x \in lost[t[1]] : x.message.kind = "answer" /\ x.message.id = r.id
  BY <1>1 DEF AccountInv, Accounted
<1>2. server[t] = "up"
  <2>1. Establish(s) => socket[s] # "open"
    BY DEF Establish, FreshInv, Fresh
  <2> QED
    BY <2>1 DEF Server, Establish, Receive, Writeable, Closed, TypeOK
<1>3. \/ \E o \in Trip(t) : o.id = r.id
      \/ \E x \in lost[t[1]] : x.message.kind = "answer" /\ x.message.id = r.id
  BY <1>2 DEF AccountInv, Accounted
<1>4. \A o \in Trip(t) : \E m \in Trip(t)' : m.id = o.id
  BY TripOfServer
<1> QED
  BY <1>3, <1>4

(* What goes round the connection of a page: what it loses it loses knowingly. *)
LEMMA TripOfPage ==
  ASSUME TypeOK, TypeOK', SocketInv, OrderInv, NEW p \in Pages, Page(p), NEW t \in Sockets, socket'[t] = "open",
         NEW o \in Trip(t)
  PROVE  \/ o \in Trip(t)'
         \/ t = Ws(p) /\ \E x \in lost'[p] : x.message.kind = "answer" /\ x.message.id = o.id
         \/ t = Ws(p) /\ \A r \in pending'[p] : r.id # o.id
<1>1. Range(uplink[t]) \subseteq Range(uplink'[t])
  BY PageCalls, SendTrip
<1>2. Frames(t)' = Frames(t) => o \in Trip(t)'
  BY <1>1 DEF Trip
<1>3. CASE Message(p) /\ t = Ws(p)
  <2> DEFINE frame == Head(downlink[t])
  <2>1. CASE o \in Range(uplink[t]) \/ o \in AnswersIn(Frames(t)')
    BY <1>1, <2>1 DEF Trip
  <2>2. ASSUME NEW k \in DOMAIN frame, o = frame[k], o \in AnswersIn(Frames(t))
        PROVE  \/ \E x \in lost'[p] : x.message.kind = "answer" /\ x.message.id = o.id
               \/ \A r \in pending'[p] : r.id # o.id
    <3>1. o.kind = "answer"
      BY <2>2 DEF AnswersIn, AnswerPlaces
    <3>2. CASE Discard(p, frame)
      <4>1. [message |-> frame[k], paused |-> ~rpcEnabled[p]] \in lost'[p]
        BY <3>2 DEF Discard, TypeOK
      <4> QED
        BY <2>2, <3>1, <4>1
    <3>3. CASE DOMAIN frame = {1} /\ Settle(p, frame[1])
      <4>1. pending' = [pending EXCEPT ![p] = @ \ {r \in pending[p] : r.id = o.id}]
        BY <2>2, <3>3 DEF Settle
      <4>2. pending'[p] = pending[p] \ {r \in pending[p] : r.id = o.id}
        BY <4>1 DEF TypeOK
      <4> QED
        BY <4>2
    <3>4. DOMAIN frame = {1} => frame[1] = o
      BY <2>2
    <3> QED
      BY <1>3, <3>1, <3>2, <3>3, <3>4, MessageCases
  <2>3. o \in Range(uplink[t]) \/ o \in AnswersIn(Frames(t))
    BY DEF Trip
  <2> QED
    BY <1>3, <2>1, <2>2, <2>3, FirstAnswer
<1>4. CASE Message(p) /\ t # Ws(p)
  <2>1. Frames(t)' = Frames(t)
    BY <1>4, MessageFrames, SocketShape
  <2> QED
    BY <1>2, <2>1
<1>5. CASE ~Message(p)
  <2>1. Frames(t)' = Frames(t)
    BY <1>5, OpenAfter
  <2> QED
    BY <1>2, <2>1
<1> QED
  BY <1>3, <1>4, <1>5

LEMMA LostGrows ==
  ASSUME TypeOK, NEW p \in Pages, Page(p), NEW q \in Pages
  PROVE  lost[q] \subseteq lost'[q]
<1>1. CASE Message(p)
  <2>1. Discard(p, Head(downlink[Ws(p)])) => lost[q] \subseteq lost'[q]
    BY DEF Discard, TypeOK
  <2>2. \A m : Handle(p, m) => lost' = lost
    BY DEF Handle, Settle, Show
  <2> QED
    BY <1>1, <2>1, <2>2 DEF Message
<1>2. CASE ~Message(p)
  BY <1>2 DEF Page, Open, Tick, ToggleRPC, Reconnect, Click, Close, pageVars
<1> QED
  BY <1>1, <1>2

LEMMA AccountOfPage ==
  ASSUME TypeOK, TypeOK', SocketInv, FreshInv, OrderInv, AccountInv, NEW p \in Pages, Page(p)
  PROVE  AccountInv'
<1>1. server' = server
  BY DEF Page, Open, Message, Tick, ToggleRPC, Reconnect, Click, Close
<1> SUFFICES ASSUME NEW t \in Sockets, socket'[t] = "open", server[t] = "up",
                    NEW r \in pending'[t[1]], r.n = t[2]
             PROVE  \/ \E m \in Trip(t)' : m.id = r.id
                    \/ \E x \in lost'[t[1]] : x.message.kind = "answer" /\ x.message.id = r.id
  BY <1>1 DEF AccountInv, Accounted
<1>2. /\ t = <<t[1], t[2]>> /\ t[1] \in Pages /\ t[2] \in 1..MaxSockets /\ Ws(p) = <<p, used[p]>>
      /\ t = Ws(p) => t[1] = p
  BY SocketShape
<1>3. CASE r \in pending[t[1]]
  <2>1. socket[t] = "open"
    <3>1. socket[t] # "connecting"
      BY <1>3 DEF FreshInv, Fresh
    <3> QED
      BY <3>1, OpenAfter
  <2>2. \/ \E o \in Trip(t) : o.id = r.id
        \/ \E x \in lost[t[1]] : x.message.kind = "answer" /\ x.message.id = r.id
    BY <1>3, <2>1 DEF AccountInv, Accounted
  <2>3. CASE \E x \in lost[t[1]] : x.message.kind = "answer" /\ x.message.id = r.id
    BY <1>2, <2>3, LostGrows
  <2>4. ASSUME NEW o \in Trip(t), o.id = r.id
        PROVE  \/ \E m \in Trip(t)' : m.id = r.id
               \/ \E x \in lost'[t[1]] : x.message.kind = "answer" /\ x.message.id = r.id
    BY <1>2, <2>4, TripOfPage
  <2> QED
    BY <2>2, <2>3, <2>4
<1>4. ASSUME NEW c \in Asked, Send(p, c), r \notin pending[t[1]] PROVE \E m \in Trip(t)' : m.id = r.id
  <2>1. t[1] = p /\ t = Ws(p)
    BY <1>2, <1>4, SendStep, OpenAfter
  <2>2. r = OfCall(Request(p, c), Ws(p))
    BY <1>4, <2>1, SendStep
  <2>3. Request(p, c) \in Range(uplink'[t])
    BY <1>4, <2>1, SendTrip
  <2> QED
    BY <2>2, <2>3 DEF Trip, OfCall
<1>5. ASSUME \A q \in Pages : pending'[q] \subseteq pending[q] PROVE r \in pending[t[1]]
  BY <1>2, <1>5
<1> QED
  BY <1>3, <1>4, <1>5, PageCalls

LEMMA AccountStep ==
  ASSUME TypeOK, TypeOK', SocketInv, FreshInv, OrderInv, AccountInv, [Next]_vars
  PROVE  AccountInv'
<1>1. CASE UNCHANGED vars
  BY <1>1 DEF vars, AccountInv, Accounted, Trip, Frames
<1> QED
  BY <1>1, AccountOfServer, AccountOfPage DEF Next

LEMMA AccountedIs ==
  ASSUME TypeOK, AccountInv
  PROVE  CallsAccounted
<1> SUFFICES ASSUME NEW p \in Pages, Live(p), NEW r \in pending[p], r.n = used[p]
             PROVE  \/ \E m \in Trip(Ws(p)) : m.id = r.id
                    \/ \E x \in lost[p] : x.message.kind = "answer" /\ x.message.id = r.id
  BY DEF CallsAccounted
<1> DEFINE s == Ws(p)
<1>1. s \in Sockets /\ s[1] = p /\ s[2] = used[p]
  BY SocketShape
<1>2. Accounted(s)
  BY <1>1 DEF AccountInv, Live
<1> HIDE DEF s
<1>3. \/ \E m \in Trip(s) : m.id = r.id
      \/ \E x \in lost[p] : x.message.kind = "answer" /\ x.message.id = r.id
  BY <1>1, <1>2 DEF Accounted
<1> QED
  BY <1>3 DEF s

-----------------------------------------------------------------------------
(* The pages follow the notifications. *)

(* The notifications of a value that are there before and after a step. *)
LEMMA SameNotices ==
  ASSUME NEW F \in Seq(Seq(Messages)), NEW G \in Seq(Seq(Messages)), Kept(F, G, 0), Kept(G, F, 0), NEW k
  PROVE  NoticePlaces(G, k) = NoticePlaces(F, k) /\ \A a \in NoticePlaces(G, k) : At(G, a) = At(F, a)
<1>1. \A b \in Places(G) : <<b[1] + 0, b[2]>> = b
  BY PlacesIn
<1>2. \A b \in Places(F) : <<b[1] + 0, b[2]>> = b
  BY PlacesIn
<1>3. \A b \in Places(G) : b \in Places(F) /\ At(G, b) = At(F, b)
  BY <1>1 DEF Kept
<1>4. \A b \in Places(F) : b \in Places(G) /\ At(F, b) = At(G, b)
  BY <1>2 DEF Kept
<1> QED
  BY <1>3, <1>4 DEF NoticePlaces

LEMMA NoNewNotice ==
  ASSUME NEW F, NEW G, NEW new, Grown(F, G, new), NEW k,
         \A j \in DOMAIN new : ~(new[j].kind = "valueChanged" /\ new[j].key = k)
  PROVE  NoticePlaces(G, k) = NoticePlaces(F, k) /\ \A a \in NoticePlaces(G, k) : At(G, a) = At(F, a)
<1> DEFINE place(j) == <<Len(F), Len(F[Len(F)]) + j>>
<1>1. /\ \A a \in Places(F) : a \in Places(G) /\ At(G, a) = At(F, a)
      /\ \A j \in DOMAIN new : At(G, place(j)) = new[j]
      /\ \A b \in Places(G) : b \in Places(F) \/ \E j \in DOMAIN new : b = place(j)
  BY DEF Grown
<1> HIDE DEF place
<1>2. ASSUME NEW a \in NoticePlaces(F, k) PROVE a \in NoticePlaces(G, k) /\ At(G, a) = At(F, a)
  BY <1>1 DEF NoticePlaces
<1>3. ASSUME NEW b \in NoticePlaces(G, k) PROVE b \in NoticePlaces(F, k)
  <2>1. b \in Places(G) /\ At(G, b).kind = "valueChanged" /\ At(G, b).key = k
    BY DEF NoticePlaces
  <2>2. b \in Places(F)
    BY <1>1, <2>1
  <2> QED
    BY <1>1, <2>1, <2>2 DEF NoticePlaces
<1> QED
  BY <1>2, <1>3

(* What is shown of a value depends on its notifications only. *)
LEMMA ShownSame ==
  ASSUME NEW t \in Sockets, NEW k, Shown(t, k),
         NoticePlaces(Frames(t)', k) = NoticePlaces(Frames(t), k),
         \A a \in NoticePlaces(Frames(t)', k) : At(Frames(t)', a) = At(Frames(t), a),
         announced'[t][k] = announced[t][k], view'[t[1]][k] = view[t[1]][k], lost[t[1]] \subseteq lost'[t[1]]
  PROVE  Shown(t, k)'
BY DEF Shown

LEMMA ShownOfReceive ==
  ASSUME TypeOK, TypeOK', NEW s \in Sockets, Receive(s), NEW t \in Sockets, server[t] = "up",
         NEW k \in Keys, Shown(t, k)
  PROVE  Shown(t, k)'
<1> DEFINE F == Frames(t)
<1> DEFINE G == Frames(t)'
<1> DEFINE new == New(t, s)
<1> DEFINE told == Told(s)
<1> DEFINE place(j) == <<Len(F), Len(F[Len(F)]) + j>>
<1>1. /\ view' = view /\ lost' = lost
      /\ announced' = [u \in Sockets |-> IF u \in Up THEN Written(announced[u], told) ELSE announced[u]]
  BY DEF Receive, Told
<1>2. announced'[t] = Written(announced[t], told)
  BY <1>1 DEF Up
<1>3. /\ Grown(F, G, new) /\ told \in Seq(Changes) /\ DOMAIN told \subseteq {1, 2}
      /\ \A i \in DOMAIN told : i \in DOMAIN new /\ new[i] = Notice(told[i])
      /\ \A j \in DOMAIN new : new[j].kind = "answer" \/ (j \in DOMAIN told /\ new[j] = Notice(told[j]))
  BY ReceiveFrames, ReplyOf DEF Up
<1>4. \/ (\A i \in DOMAIN told : told[i].key # k) /\ Written(announced[t], told)[k] = announced[t][k]
      \/ \E i \in DOMAIN told : /\ told[i].key = k /\ Written(announced[t], told)[k] = told[i].value
                                /\ \A j \in DOMAIN told : told[j].key = k => j <= i
  <2> HIDE DEF told
  <2> QED
    BY <1>3, WrittenIs
<1>5. F \in Seq(Seq(Messages)) /\ G \in Seq(Seq(Messages))
  BY FramesAre, FramesNext
<1> HIDE DEF new, told
<1>6. CASE (\A i \in DOMAIN told : told[i].key # k) /\ Written(announced[t], told)[k] = announced[t][k]
  <2>1. \A j \in DOMAIN new : ~(new[j].kind = "valueChanged" /\ new[j].key = k)
    BY <1>3, <1>6, ReplyOf
  <2>2. NoticePlaces(G, k) = NoticePlaces(F, k) /\ \A a \in NoticePlaces(G, k) : At(G, a) = At(F, a)
    BY <1>3, <2>1, NoNewNotice
  <2> QED
    BY <1>1, <1>2, <1>6, <2>2, ShownSame
<1>7. ASSUME NEW i \in DOMAIN told, told[i].key = k, Written(announced[t], told)[k] = told[i].value,
             \A j \in DOMAIN told : told[j].key = k => j <= i
      PROVE  Shown(t, k)'
  <2>1. /\ place(i) \in Places(G) /\ At(G, place(i)) = Notice(told[i])
        /\ \A a \in Places(F) : At(G, a) = At(F, a) /\ Before(a, place(i))
        /\ \A j \in DOMAIN new : At(G, place(j)) = new[j]
        /\ \A b \in Places(G) : b \in Places(F) \/ \E j \in DOMAIN new : b = place(j)
    BY <1>3 DEF Grown
  <2>2. place(i) \in NoticePlaces(G, k) /\ At(G, place(i)).value = announced'[t][k]
    BY <1>2, <1>7, <2>1, ReplyOf DEF NoticePlaces
  <2>3. Len(F) \in Nat /\ Len(F[Len(F)]) + i \in Nat /\ \A j \in DOMAIN told : j \in Nat
    <3>1. place(i)[1] \in Nat /\ place(i)[2] \in Nat
      BY <1>5, <2>1, PlacesIn
    <3> QED
      BY <1>3, <3>1
  <2>4. ASSUME NEW b \in NoticePlaces(G, k) PROVE ~ Before(place(i), b)
    <3>1. b \in Places(G) /\ At(G, b).kind = "valueChanged" /\ At(G, b).key = k
      BY DEF NoticePlaces
    <3>2. CASE b \in Places(F)
      <4>1. Before(b, place(i)) /\ b[1] \in Nat /\ b[2] \in Nat
        BY <1>5, <2>1, <3>2, PlacesIn
      <4> QED
        BY <2>3, <4>1 DEF Before
    <3>3. ASSUME NEW j \in DOMAIN new, b = place(j) PROVE ~ Before(place(i), b)
      <4>1. new[j].kind = "valueChanged" /\ new[j].key = k
        BY <2>1, <3>1, <3>3
      <4>2. j \in DOMAIN told /\ told[j].key = k
        BY <1>3, <4>1, ReplyOf
      <4>3. j <= i /\ j \in {1, 2} /\ i \in {1, 2}
        BY <1>3, <1>7, <4>2
      <4>4. Len(F[Len(F)]) \in Nat
        <5>1. Len(F) \in DOMAIN F
          <6>1. /\ F = Append(downlink[t], buffer[t])
                /\ downlink[t] \in Seq(Seq(Messages)) /\ buffer[t] \in Seq(Messages)
            BY FramesAre
          <6>2. Len(F) = Len(downlink[t]) + 1 /\ DOMAIN F = 1..(Len(downlink[t]) + 1) /\ Len(downlink[t]) \in Nat
            BY <6>1, FrameShape
          <6> QED
            BY <6>2
        <5>2. F[Len(F)] \in Seq(Messages)
          BY <1>5, <5>1
        <5> QED
          BY <5>2, LenProperties
      <4> QED
        BY <2>3, <3>3, <4>3, <4>4 DEF Before
    <3> QED
      BY <2>1, <3>1, <3>2, <3>3
  <2> HIDE DEF place
  <2>5. \E a \in NoticePlaces(G, k) : /\ At(G, a).value = announced'[t][k]
                                      /\ \A b \in NoticePlaces(G, k) : ~Before(a, b)
    BY <2>2, <2>4
  <2> QED
    BY <2>5 DEF Shown
<1> QED
  BY <1>4, <1>6, <1>7

LEMMA ViewOfServer ==
  ASSUME TypeOK, TypeOK', FreshInv, ViewInv, NEW s \in Sockets, Server(s)
  PROVE  ViewInv'
<1>1. socket' = socket /\ view' = view /\ lost' = lost
  BY DEF Server, Establish, Receive, Writeable, Closed
<1> SUFFICES ASSUME NEW t \in Sockets, socket[t] \in {"connecting", "open"}, server'[t] = "up",
                    NEW k \in Keys \ {"systemStatus"}
             PROVE  Shown(t, k)'
  BY <1>1 DEF ViewInv
<1>2. CASE Establish(s) /\ t = s
  <2>1. announced'[t][k] = None
    BY <1>2 DEF Establish, FreshInv, Fresh
  <2> QED
    BY <2>1 DEF Shown
<1>3. ASSUME server[t] = "up" PROVE Shown(t, k)
  BY <1>3 DEF ViewInv
<1>4. CASE (Establish(s) \/ Closed(s)) /\ t # s
  <2>1. Frames(t)' = Frames(t) /\ server[t] = "up" /\ announced' = announced
    <3>1. Frames(t)' = Frames(t)
      BY <1>4, EstablishFrames, ClosedFrames
    <3>2. server[t] = "up" /\ announced' = announced
      BY <1>4 DEF Establish, Closed, TypeOK
    <3> QED
      BY <3>1, <3>2
  <2> QED
    BY <1>1, <1>3, <2>1, ShownSame
<1>5. CASE Receive(s)
  <2>1. server[t] = "up"
    BY <1>5 DEF Receive
  <2> QED
    BY <1>3, <1>5, <2>1, ShownOfReceive
<1>6. CASE Writeable(s)
  <2>1. server[t] = "up" /\ announced' = announced
    BY <1>6 DEF Writeable
  <2>2. Kept(Frames(t), Frames(t)', 0) /\ Kept(Frames(t)', Frames(t), 0)
    BY <1>6, WriteableFrames
  <2>3. /\ NoticePlaces(Frames(t)', k) = NoticePlaces(Frames(t), k)
        /\ \A a \in NoticePlaces(Frames(t)', k) : At(Frames(t)', a) = At(Frames(t), a)
    BY <2>2, SameNotices, FramesAre, FramesNext
  <2> QED
    BY <1>1, <1>3, <2>1, <2>3, ShownSame
<1>7. CASE Closed(s) /\ t = s
  BY <1>7 DEF Closed, TypeOK
<1> QED
  BY <1>2, <1>4, <1>5, <1>6, <1>7 DEF Server

(* A page that reads a frame shows what it says, or throws it away knowingly. *)
LEMMA ShownOfMessage ==
  ASSUME TypeOK, TypeOK', NEW p \in Pages, Message(p), NEW s \in Sockets, s = Ws(p),
         NEW k \in Keys \ {"systemStatus"}, Shown(s, k)
  PROVE  Shown(s, k)'
<1> DEFINE F == Frames(s)
<1> DEFINE G == Frames(s)'
<1> DEFINE frame == Head(downlink[s])
<1> DEFINE Q == NoticePlaces(F, k)
<1> DEFINE R == NoticePlaces(G, k)
<1> DEFINE says == announced[s][k]
<1> DEFINE Thrown(X) == \E x \in X : x.message.kind = "valueChanged" /\ x.message.key = k
<1>1. /\ Kept(F, G, 1)
      /\ \A i \in DOMAIN frame : <<1, i>> \in Places(F) /\ At(F, <<1, i>>) = frame[i]
      /\ \A a \in Places(F) : \/ a[1] = 1 /\ a[2] \in DOMAIN frame /\ At(F, a) = frame[a[2]]
                             \/ /\ a[1] > 1 /\ <<a[1] - 1, a[2]>> \in Places(G)
                                /\ At(G, <<a[1] - 1, a[2]>>) = At(F, a)
  BY MessageFrames
<1>2. F \in Seq(Seq(Messages)) /\ G \in Seq(Seq(Messages)) /\ s[1] = p
  BY FramesAre, FramesNext DEF Ws
<1>3. announced' = announced /\ lost[p] \subseteq lost'[p]
  <2>1. announced' = announced
    BY DEF Message
  <2> QED
    BY <2>1, LostGrows DEF Page
<1>4. says # None =>
        \/ \E a \in Q : At(F, a).value = says /\ \A b \in Q : ~Before(a, b)
        \/ Q = {} /\ view[p][k] = says
        \/ Q = {} /\ Thrown(lost[p])
  BY <1>2 DEF Shown
<1>5. \/ Discard(p, frame)
      \/ /\ DOMAIN frame = {1} /\ frame[1] \in Messages
         /\ \/ frame[1].kind = "answer" /\ Settle(p, frame[1])
            \/ frame[1].kind = "valueChanged" /\ Show(p, frame[1])
            \/ frame[1].kind = "connected" /\ StartMonitoring(p) /\ UNCHANGED <<metrics, lost>>
  BY MessageCases
<1> SUFFICES ASSUME says # None
             PROVE  \/ \E a \in R : At(G, a).value = says /\ \A b \in R : ~Before(a, b)
                    \/ R = {} /\ view'[p][k] = says
                    \/ R = {} /\ Thrown(lost'[p])
  BY <1>2, <1>3 DEF Shown
<1> HIDE DEF F, G, frame, says
<1>6. ASSUME NEW b \in R
      PROVE  /\ <<b[1] + 1, b[2]>> \in Q /\ b[1] \in Nat /\ b[2] \in Nat /\ b[1] >= 1
             /\ At(G, b) = At(F, <<b[1] + 1, b[2]>>)
  <2>1. b[1] \in Nat /\ b[2] \in Nat /\ b[1] \in DOMAIN G
    BY <1>2, PlacesIn DEF NoticePlaces
  <2>2. DOMAIN G = 1..Len(G) /\ Len(G) \in Nat
    BY <1>2, LenProperties
  <2> QED
    BY <1>1, <2>1, <2>2 DEF NoticePlaces, Kept
<1>7. CASE Q = {}
  <2>1. R = {}
    BY <1>6, <1>7
  <2>2. CASE Thrown(lost[p])
    BY <1>3, <2>1, <2>2
  <2>3. CASE view[p][k] = says
    <3>1. Discard(p, frame) => view' = view
      BY DEF Discard
    <3>2. \A m : Settle(p, m) => view'[p][k] = view[p][k]
      BY DefaultTypes DEF Settle
    <3>3. StartMonitoring(p) => view'[p][k] = view[p][k]
      BY StartTypes
    <3>4. ASSUME 1 \in DOMAIN frame, frame[1].kind = "valueChanged", Show(p, frame[1]) PROVE view'[p][k] = view[p][k]
      <4>1. frame[1].key # k
        BY <1>1, <1>7, <3>4 DEF NoticePlaces
      <4> QED
        BY <3>4, <4>1 DEF Show, TypeOK
    <3>5. view'[p][k] = says
      BY <1>5, <2>3, <3>1, <3>2, <3>3, <3>4
    <3> QED
      BY <2>1, <3>5
  <2> QED
    BY <1>4, <1>7, <2>2, <2>3
<1>8. ASSUME NEW a \in Q, At(F, a).value = says, \A b \in Q : ~Before(a, b)
      PROVE  \/ \E c \in R : At(G, c).value = says /\ \A b \in R : ~Before(c, b)
             \/ R = {} /\ view'[p][k] = says
             \/ R = {} /\ Thrown(lost'[p])
  <2>1. a \in Places(F) /\ At(F, a).kind = "valueChanged" /\ At(F, a).key = k /\ a[1] \in Nat /\ a[2] \in Nat
    BY <1>2, PlacesIn DEF NoticePlaces
  <2>2. CASE a[1] = 1 /\ a[2] \in DOMAIN frame /\ At(F, a) = frame[a[2]]
    <3>1. R = {}
      <4>1. ASSUME NEW b \in R PROVE FALSE
        <5>1. b[1] \in Nat /\ b[1] >= 1
          BY <1>6
        <5>2. a[1] < b[1] + 1
          BY <2>2, <5>1
        <5>3. Before(a, <<b[1] + 1, b[2]>>)
          BY <5>2 DEF Before
        <5> QED
          BY <1>6, <1>8, <5>3
      <4> QED
        BY <4>1
    <3>2. CASE Discard(p, frame)
      <4>1. [message |-> frame[a[2]], paused |-> ~rpcEnabled[p]] \in lost'[p]
        <5> DEFINE x == [message |-> frame[a[2]], paused |-> ~rpcEnabled[p]]
        <5>1. x \in {[message |-> frame[i], paused |-> ~rpcEnabled[p]] : i \in DOMAIN frame}
          BY <2>2
        <5> HIDE DEF x
        <5>2. x \in lost'[p]
          BY <3>2, <5>1 DEF Discard, TypeOK
        <5> QED
          BY <5>2 DEF x
      <4>2. Thrown(lost'[p])
        BY <2>1, <2>2, <4>1
      <4> QED
        BY <3>1, <4>2
    <3>3. CASE DOMAIN frame = {1} /\ Show(p, frame[1])
      <4>1. frame[1] = At(F, a)
        BY <2>2, <3>3
      <4>2. view' = [view EXCEPT ![p][k] = says]
        BY <1>8, <2>1, <3>3, <4>1 DEF Show
      <4>3. view'[p][k] = says
        BY <4>2 DEF TypeOK
      <4> QED
        BY <3>1, <4>3
    <3> QED
      BY <1>5, <2>1, <2>2, <3>2, <3>3
  <2>3. ASSUME a[1] > 1, <<a[1] - 1, a[2]>> \in Places(G), At(G, <<a[1] - 1, a[2]>>) = At(F, a)
        PROVE  \E c \in R : At(G, c).value = says /\ \A b \in R : ~Before(c, b)
    <3> DEFINE c == <<a[1] - 1, a[2]>>
    <3>1. c \in R /\ At(G, c).value = says
      BY <1>8, <2>1, <2>3 DEF NoticePlaces
    <3>2. ASSUME NEW b \in R, Before(c, b) PROVE FALSE
      <4>1. b[1] \in Nat /\ b[2] \in Nat
        BY <1>6
      <4>2. a[1] - 1 < b[1] \/ (a[1] - 1 = b[1] /\ a[2] < b[2])
        BY <3>2 DEF Before
      <4>3. a[1] < b[1] + 1 \/ (a[1] = b[1] + 1 /\ a[2] < b[2])
        BY <2>1, <4>1, <4>2
      <4>4. Before(a, <<b[1] + 1, b[2]>>)
        BY <4>3 DEF Before
      <4> QED
        BY <1>6, <1>8, <4>4
    <3> HIDE DEF c
    <3> QED
      BY <3>1, <3>2
  <2> QED
    BY <1>1, <2>1, <2>2, <2>3
<1> QED
  BY <1>4, <1>7, <1>8

LEMMA ViewOfPage ==
  ASSUME TypeOK, TypeOK', SocketInv, FreshInv, ViewInv, NEW p \in Pages, Page(p)
  PROVE  ViewInv'
<1>1. server' = server /\ announced' = announced
  BY DEF Page, Open, Message, Tick, ToggleRPC, Reconnect, Click, Close
<1> SUFFICES ASSUME NEW t \in Sockets, socket'[t] \in {"connecting", "open"}, server[t] = "up",
                    NEW k \in Keys \ {"systemStatus"}
             PROVE  Shown(t, k)'
  BY <1>1 DEF ViewInv
<1>2. /\ t = <<t[1], t[2]>> /\ t[1] \in Pages /\ t[2] \in 1..MaxSockets /\ Ws(p) = <<p, used[p]>>
      /\ Ws(p) \in Sockets
  BY SocketShape
<1>3. lost[t[1]] \subseteq lost'[t[1]]
  BY <1>2, LostGrows
<1>4. socket[t] \in {"connecting", "open"}
  <2>1. CASE Reconnect(p)
    <3>1. used[p] + 1 \in 1..MaxSockets /\ used[p] + 1 > used[p] /\ <<p, used[p] + 1>> \in Sockets
      BY <2>1, SocketShape DEF Reconnect
    <3>2. socket[<<p, used[p] + 1>>] = "none"
      BY <3>1 DEF SocketInv, PageSockets
    <3>3. server[<<p, used[p] + 1>>] = "none"
      BY <3>1, <3>2 DEF FreshInv, Fresh
    <3>4. t # <<p, used[p] + 1>>
      BY <3>3
    <3>5. socket' = [socket EXCEPT ![<<p, used[p] + 1>>] = "connecting"]
      BY <2>1 DEF Reconnect
    <3> QED
      BY <3>4, <3>5 DEF TypeOK
  <2>2. CASE Open(p)
    <3>1. socket' = [socket EXCEPT ![Ws(p)] = "open"] /\ socket[Ws(p)] = "connecting"
      BY <2>2 DEF Open
    <3> QED
      BY <1>2, <3>1 DEF TypeOK
  <2>3. CASE \E n \in 1..MaxSockets : Close(p, n)
    BY <2>3 DEF Close, TypeOK
  <2>4. CASE Message(p) \/ Tick(p) \/ ToggleRPC(p) \/ \E c \in Commands : Click(p, c)
    BY <2>4 DEF Message, Tick, ToggleRPC, Click
  <2> QED
    BY <2>1, <2>2, <2>3, <2>4 DEF Page
<1>5. Shown(t, k)
  BY <1>4 DEF ViewInv
<1>6. view'[t[1]][k] = view[t[1]][k] /\ Frames(t)' = Frames(t) => Shown(t, k)'
  BY <1>1, <1>3, <1>5, ShownSame
<1>7. CASE Message(p) /\ t = Ws(p)
  BY <1>5, <1>7, ShownOfMessage
<1>8. CASE Message(p) /\ t # Ws(p)
  <2>1. Frames(t)' = Frames(t)
    BY <1>2, <1>8, MessageFrames
  <2>2. t[1] # p
    BY <1>2, <1>4, <1>8, LastSocket
  <2>3. \A m : Show(p, m) => view'[t[1]] = view[t[1]]
    BY <1>2, <2>2 DEF Show, TypeOK
  <2>4. \A m : Settle(p, m) => view'[t[1]][k] = view[t[1]][k]
    BY <1>2, DefaultTypes DEF Settle
  <2>5. StartMonitoring(p) => view'[t[1]][k] = view[t[1]][k]
    BY <1>2, StartTypes
  <2>6. \A f : Discard(p, f) => view' = view
    BY DEF Discard
  <2>7. view'[t[1]][k] = view[t[1]][k]
    BY <1>8, <2>3, <2>4, <2>5, <2>6 DEF Message, Handle
  <2> QED
    BY <1>6, <2>1, <2>7
<1>9. CASE Open(p) \/ Tick(p) \/ ToggleRPC(p) \/ Reconnect(p) \/ \E c \in Commands : Click(p, c)
  <2>1. Frames(t)' = Frames(t)
    BY <1>9, OtherFrames
  <2>2. view'[t[1]][k] = view[t[1]][k]
    <3>1. Open(p) => StartMonitoring(p)
      BY DEF Open
    <3>2. Tick(p) => SetDefaultValues(p) \/ view' = view
      BY DEF Tick
    <3>3. ToggleRPC(p) \/ Reconnect(p) \/ (\E c \in Commands : Click(p, c)) => view' = view
      BY DEF ToggleRPC, Reconnect, Click
    <3> QED
      BY <1>2, <1>9, <3>1, <3>2, <3>3, StartTypes, DefaultTypes
  <2> QED
    BY <1>6, <2>1, <2>2
<1>10. ASSUME NEW n \in 1..MaxSockets, Close(p, n) PROVE Shown(t, k)'
  <2>1. SetDefaultValues(p) /\ socket' = [socket EXCEPT ![<<p, n>>] = "closed"] /\ <<p, n>> \in Sockets
    BY <1>10, SocketShape DEF Close
  <2>2. t # <<p, n>>
    BY <2>1 DEF TypeOK
  <2>3. Frames(t)' = Frames(t)
    BY <1>10, <2>2, CloseFrames
  <2>4. view'[t[1]][k] = view[t[1]][k]
    BY <1>2, <2>1, DefaultTypes
  <2> QED
    BY <1>6, <2>3, <2>4
<1> QED
  BY <1>7, <1>8, <1>9, <1>10 DEF Page

LEMMA ViewStep ==
  ASSUME TypeOK, TypeOK', SocketInv, FreshInv, ViewInv, [Next]_vars
  PROVE  ViewInv'
<1>1. CASE UNCHANGED vars
  BY <1>1 DEF vars, ViewInv, Shown, Frames
<1> QED
  BY <1>1, ViewOfServer, ViewOfPage DEF Next

-----------------------------------------------------------------------------
(* The theorems. *)

LEMMA InitTypes == ASSUME Init PROVE TypeOK
<1>1. <<>> \in Seq(Messages) /\ <<>> \in Seq(Calling) /\ <<>> \in Seq(Seq(Messages))
  OBVIOUS
<1>2. values \in [Keys -> Texts]
  BY InitialTypes DEF Init
<1>3. socket \in [Sockets -> {"none", "connecting", "open", "closed"}]
  BY DEF Init
<1>4. /\ server \in [Sockets -> {"none", "up", "down"}]
      /\ buffer \in [Sockets -> Seq(Messages)] /\ downlink \in [Sockets -> Seq(Seq(Messages))]
      /\ uplink \in [Sockets -> Seq(Calling)]
      /\ announced \in [Sockets -> [Keys -> Texts \cup {None}]]
  BY <1>1 DEF Init
<1>5. /\ used \in [Pages -> 1..MaxSockets] /\ connected \in [Pages -> BOOLEAN]
      /\ requestId \in [Pages -> Nat]
      /\ pending \in [Pages -> SUBSET [id : Nat, method : Methods, n : 1..MaxSockets]]
      /\ attempts \in [Pages -> 0..MaxReconnectAttempts] /\ timers \in [Pages -> Nat]
      /\ rpcEnabled \in [Pages -> BOOLEAN] /\ metrics \in [Pages -> BOOLEAN]
      /\ view \in [Pages -> [Keys -> Texts \cup {None, "disconnected"}]]
      /\ calls \in [Pages -> 0..MaxCalls]
      /\ lost \in [Pages -> SUBSET [message : Messages, paused : BOOLEAN]]
  BY DEF Init
<1> QED
  BY <1>2, <1>3, <1>4, <1>5 DEF TypeOK, Calling

LEMMA InitInv == ASSUME Init PROVE IInv
<1>1. TypeOK
  BY InitTypes
<1>2. SocketInv
  <2> SUFFICES ASSUME NEW p \in Pages PROVE PageSockets(p)
    BY DEF SocketInv
  <2>1. used[p] = 1 /\ timers[p] = 0 /\ connected[p] = FALSE /\ Ws(p) = <<p, 1>> /\ Ws(p) \in Sockets
    BY DEF Init, Ws, Sockets
  <2>2. socket[<<p, 1>>] = "connecting"
    BY <2>1 DEF Init
  <2>3. \A n \in 1..MaxSockets : n # 1 => socket[<<p, n>>] = "none"
    BY DEF Init, Sockets
  <2>4. \A n \in 1..MaxSockets : ~(n < 1)
    OBVIOUS
  <2> QED
    BY <2>1, <2>2, <2>3, <2>4 DEF PageSockets
<1>3. ASSUME NEW s \in Sockets PROVE Places(Frames(s)) = {} /\ uplink[s] = <<>>
  <2>1. Frames(s) = <<<<>>>> /\ uplink[s] = <<>>
    BY DEF Init, Frames
  <2>2. <<>> \in Seq(Messages) /\ <<<<>>>> \in Seq(Seq(Messages))
    OBVIOUS
  <2>3. \A i \in DOMAIN <<<<>>>> : DOMAIN (<<<<>>>>[i]) = {}
    OBVIOUS
  <2>4. \A a \in Places(<<<<>>>>) : a[1] \in DOMAIN <<<<>>>> /\ a[2] \in DOMAIN (<<<<>>>>[a[1]])
    BY <2>2, PlacesIn
  <2> QED
    BY <2>1, <2>3, <2>4
<1>4. ASSUME NEW s \in Sockets PROVE AnswersIn(Frames(s)) = {} /\ AnswerPlaces(Frames(s)) = {} /\ Range(uplink[s]) = {}
  BY <1>3 DEF AnswersIn, AnswerPlaces, Range
<1>5. FreshInv
  <2> SUFFICES ASSUME NEW s \in Sockets PROVE Fresh(s)
    BY DEF FreshInv
  <2>1. s[1] \in Pages
    BY DEF Sockets
  <2> QED
    BY <1>3, <1>4, <2>1 DEF Init, Fresh
<1>6. OrderInv
  BY <1>3, <1>4 DEF OrderInv, Ordered
<1>7. OwnInv /\ AccountInv /\ ViewInv
  BY DEF Init, OwnInv, AccountInv, ViewInv
<1> QED
  BY <1>1, <1>2, <1>5, <1>6, <1>7 DEF IInv

LEMMA InvStep == ASSUME IInv, [Next]_vars PROVE IInv'
<1>1. TypeOK'
  BY TypeStep DEF IInv
<1> QED
  BY <1>1, SocketStep, FreshStep, OrderStep, OwnStep, AccountStep, ViewStep DEF IInv

(* The invariant holds in every state of the server and its pages (WebServer, *)
(* client/index.html).                                                       *)
THEOREM Invariant == Spec => []IInv
BY InitInv, InvStep, PTL DEF Spec

(* The variables of the server, the network and the pages have their types:  *)
(* what WebServer keeps and RPCClient has pending.                           *)
THEOREM TypeCorrect == Spec => []TypeOK
<1>1. IInv => TypeOK
  BY DEF IInv
<1> QED
  BY Invariant, <1>1, PTL

(* Every answer comes in the order of the requests, once, to the page and for *)
(* the call it is of (RPCClient.call, WebServer::handleWebSocketMessage).    *)
THEOREM InOrderOnce == Spec => []AnswersInOrder
<1>1. IInv => AnswersInOrder
  BY DEF IInv, OrderInv, Ordered, OwnInv, AnswersInOrder
<1> QED
  BY Invariant, <1>1, PTL

(* The server forgets no call while its connection lasts                     *)
(* (WebServer::handleRpcMessage answers every request).                      *)
THEOREM NoCallForgotten == Spec => []CallsAccounted
<1>1. IInv => CallsAccounted
  BY AccountedIs DEF IInv
<1> QED
  BY Invariant, <1>1, PTL

(* A page has one connection or one reconnection under way, or has given up  *)
(* (RPCClient.handleReconnect).                                              *)
THEOREM SingleConnection == Spec => []OneConnection
<1>1. ASSUME IInv PROVE OneConnection
  <2> SUFFICES ASSUME NEW p \in Pages
               PROVE  LET alive == Cardinality({n \in 1..MaxSockets : socket[<<p, n>>] \in {"connecting", "open"}})
                      IN /\ alive + timers[p] <= 1
                         /\ alive + timers[p] = 0 => attempts[p] = MaxReconnectAttempts
                         /\ connected[p] <=> socket[Ws(p)] = "open"
    BY DEF OneConnection
  <2> DEFINE S == {n \in 1..MaxSockets : socket[<<p, n>>] \in {"connecting", "open"}}
  <2>1. TypeOK /\ SocketInv /\ PageSockets(p)
    BY <1>1 DEF IInv, SocketInv
  <2>2. used[p] \in 1..MaxSockets /\ Ws(p) = <<p, used[p]>> /\ Ws(p) \in Sockets
    BY <2>1, SocketShape
  <2>3. \A n \in S : n = used[p]
    BY <2>1, LastSocket
  <2>4. CASE socket[Ws(p)] \in {"connecting", "open"}
    <3>1. S = {used[p]} /\ timers[p] = 0
      BY <2>1, <2>2, <2>3, <2>4 DEF PageSockets
    <3>2. Cardinality(S) = 1
      BY <3>1, FS_Singleton
    <3> QED
      BY <2>1, <3>1, <3>2 DEF PageSockets
  <2>5. CASE socket[Ws(p)] = "closed"
    <3>1. S = {}
      BY <2>2, <2>3, <2>5
    <3>2. Cardinality(S) = 0
      BY <3>1, FS_EmptySet
    <3>3. timers[p] = 1 \/ (timers[p] = 0 /\ attempts[p] = MaxReconnectAttempts)
      BY <2>1, <2>5 DEF PageSockets
    <3> QED
      BY <2>1, <3>2, <3>3 DEF PageSockets
  <2> QED
    BY <2>1, <2>2, <2>4, <2>5 DEF PageSockets, TypeOK
<1> QED
  BY Invariant, <1>1, PTL

(* A page shows, or will show, what the server has last told its connection, *)
(* unless it threw a notification away (updateValue on valueChanged).        *)
THEOREM PagesFollow == Spec => []ViewFollows
<1>1. ASSUME IInv PROVE ViewFollows
  <2> SUFFICES ASSUME NEW p \in Pages, NEW k \in Keys \ {"systemStatus"}, NEW s, s = Ws(p), Live(p)
               PROVE  Shown(s, k) /\ s[1] = p
    BY DEF ViewFollows, Shown
  <2>1. TypeOK /\ ViewInv
    BY <1>1 DEF IInv
  <2>2. s \in Sockets /\ s[1] = p
    BY <2>1, SocketShape
  <2> QED
    BY <2>1, <2>2 DEF ViewInv, Live
<1> QED
  BY Invariant, <1>1, PTL

(* What a step of the server does to what it has announced. The handler of a  *)
(* reset writes the initial values; the other ones announce what they write.  *)
LEMMA AnnouncedStep ==
  ASSUME TypeOK, FreshInv, StaleOnlyByReset, [Next]_vars
  PROVE  StaleOnlyByReset'
<1>1. CASE UNCHANGED vars
  BY <1>1 DEF vars, StaleOnlyByReset, Up
<1>2. ASSUME NEW s \in Sockets, Establish(s) PROVE StaleOnlyByReset'
  <2>1. values' = values /\ announced' = announced /\ server' = [server EXCEPT ![s] = "up"] /\ server[s] = "none"
    BY <1>2 DEF Establish
  <2>2. \A k \in Keys : announced[s][k] = None
    BY <2>1 DEF FreshInv, Fresh
  <2>3. \A t \in Sockets : server'[t] = "up" => server[t] = "up" \/ t = s
    BY <2>1 DEF TypeOK
  <2> QED
    BY <2>1, <2>2, <2>3 DEF StaleOnlyByReset, Up
<1>3. ASSUME NEW s \in Sockets, Receive(s) PROVE StaleOnlyByReset'
  <2> DEFINE c == Head(uplink[s]).command
  <2> DEFINE told == Told(s)
  <2>1. /\ values' = IF Accepted(c) THEN Effect(values, c) ELSE values
        /\ announced' = [t \in Sockets |-> IF t \in Up THEN Written(announced[t], told) ELSE announced[t]]
        /\ server' = server
    BY <1>3 DEF Receive, Told
  <2>2. c \in Asked /\ told \in Seq(Changes) /\ DOMAIN told \subseteq {1, 2}
    <3>1. /\ Head(uplink[s]) \in Calling
          /\ told \in Seq(Changes) /\ DOMAIN told \subseteq {1, 2}
      BY <1>3, ReadStep DEF Told
    <3> QED
      BY <3>1 DEF Calling
  <2>3. CASE Accepted(c) /\ c.method = "resetSystem"
    <3>1. values' = InitialValues
      BY <2>1, <2>3 DEF Effect
    <3> QED
      BY <3>1 DEF StaleOnlyByReset
  <2> SUFFICES ASSUME Accepted(c) => c.method # "resetSystem" PROVE StaleOnlyByReset'
    BY <2>3
  <2>4. \A k \in Keys : values'[k] = Written(values, told)[k]
    <3>1. CASE Accepted(c)
      BY <2>1, <3>1, NoticesWrites DEF Effect, Told
    <3>2. CASE ~Accepted(c)
      <4>1. DOMAIN told = {} /\ values' = values
        BY <2>1, <3>2 DEF Told
      <4> HIDE DEF told
      <4>2. ASSUME NEW k \in Keys PROVE Written(values, told)[k] = values[k]
        <5>1. \A i \in DOMAIN told : told[i].key # k
          BY <4>1
        <5>2. told \in Seq(Changes) /\ DOMAIN told \subseteq {1, 2}
          BY <2>2
        <5> QED
          BY ONLY <5>1, <5>2, WrittenIs
      <4> QED
        BY <4>1, <4>2
    <3> QED
      BY <3>1, <3>2
  <2> HIDE DEF told, c
  <2> SUFFICES ASSUME NEW t \in Sockets, server[t] = "up", NEW k \in Keys
               PROVE  announced'[t][k] \in {None, values'[k]} \/ values'[k] = InitialValues[k]
    BY <2>1 DEF StaleOnlyByReset, Up
  <2>5. announced'[t][k] = Written(announced[t], told)[k] /\ (announced[t][k] \in {None, values[k]} \/ values[k] = InitialValues[k])
    BY <2>1 DEF StaleOnlyByReset, Up
  <2>6. CASE \A i \in DOMAIN told : told[i].key # k
    <3>1. Written(announced[t], told)[k] = announced[t][k]
      BY <2>2, <2>6, WrittenIs
    <3>2. Written(values, told)[k] = values[k]
      BY <2>2, <2>6, WrittenIs
    <3> QED
      BY <2>4, <2>5, <3>1, <3>2
  <2>7. CASE \E i \in DOMAIN told : told[i].key = k
    <3>1. PICK i \in DOMAIN told : /\ told[i].key = k /\ Written(announced[t], told)[k] = told[i].value
                                  /\ \A j \in DOMAIN told : told[j].key = k => j <= i
      BY <2>2, <2>7, WrittenIs
    <3>2. PICK l \in DOMAIN told : /\ told[l].key = k /\ Written(values, told)[k] = told[l].value
                                  /\ \A j \in DOMAIN told : told[j].key = k => j <= l
      BY <2>2, <2>7, WrittenIs
    <3>3. i = l
      <4>1. i <= l /\ l <= i /\ i \in {1, 2} /\ l \in {1, 2}
        BY <2>2, <3>1, <3>2
      <4> QED
        BY <4>1
    <3> QED
      BY <2>4, <2>5, <3>1, <3>2, <3>3
  <2> QED
    BY <2>6, <2>7
<1>4. ASSUME NEW s \in Sockets, Writeable(s) \/ Closed(s) PROVE StaleOnlyByReset'
  <2>1. values' = values /\ announced' = announced /\ \A t \in Sockets : server'[t] = "up" => server[t] = "up"
    BY <1>4 DEF Writeable, Closed, TypeOK
  <2> QED
    BY <2>1 DEF StaleOnlyByReset, Up
<1>5. ASSUME NEW p \in Pages, Page(p) PROVE StaleOnlyByReset'
  <2>1. UNCHANGED serverVars
    BY <1>5 DEF Page, Open, Message, Tick, ToggleRPC, Reconnect, Click, Close
  <2> QED
    BY <2>1 DEF StaleOnlyByReset, Up
<1> QED
  BY <1>1, <1>2, <1>3, <1>4, <1>5 DEF Next, Server

(* What the server has last told a connection about a value is the value it   *)
(* has, unless a reset has put back the initial one, whatever the users ask   *)
(* for (broadcastValueChange in the handlers of WebServer).                   *)
THEOREM AnnouncementsHold == Spec => []StaleOnlyByReset
<1>1. Init => StaleOnlyByReset
  BY DEF Init, StaleOnlyByReset, Up
<1>2. IInv /\ StaleOnlyByReset /\ [Next]_vars => StaleOnlyByReset'
  BY AnnouncedStep DEF IInv
<1> QED
  BY Invariant, <1>1, <1>2, PTL DEF Spec
=============================================================================
