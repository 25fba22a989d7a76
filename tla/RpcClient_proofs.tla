--------------------------- MODULE RpcClient_proofs ---------------------------
(***************************************************************************)
(* RPCClient keeps what CallOnce promises, for any number of websockets and  *)
(* of calls, and whatever is lost on the way.                                *)
(***************************************************************************)
EXTENDS RpcClient, SequenceTheorems, TLAPS

(* No two places hold messages with one id; the welcome has none. *)
Distinct(q) ==
    \A n, k \in Sockets : \A i \in DOMAIN q[n], j \in DOMAIN q[k] :
        q[n][i].id = q[k][j].id => q[n][i].id = 0 \/ (n = k /\ i = j)

(* What the steps do to the queues. *)
Appended(q, n, e) == [q EXCEPT ![n] = Append(@, e)]

Shortened(q, n) == [q EXCEPT ![n] = Tail(@)]

Emptied(q, n) == [q EXCEPT ![n] = <<>>]

-----------------------------------------------------------------------------
(* The elements of the queues of one connection after each operation. *)

LEMMA ElementsAppend ==
  ASSUME NEW S, NEW s \in Seq(S), NEW e \in S
  PROVE  /\ Append(s, e) \in Seq(S)
         /\ DOMAIN Append(s, e) = 1..(Len(s) + 1) /\ DOMAIN s = 1..Len(s) /\ Len(s) \in Nat
         /\ \A i \in DOMAIN s : Append(s, e)[i] = s[i]
         /\ Append(s, e)[Len(s) + 1] = e
         /\ Elements(Append(s, e)) = Elements(s) \cup {e}
<1>1. /\ Append(s, e) \in Seq(S)
      /\ DOMAIN Append(s, e) = 1..(Len(s) + 1) /\ DOMAIN s = 1..Len(s) /\ Len(s) \in Nat
      /\ \A i \in DOMAIN s : Append(s, e)[i] = s[i]
      /\ Append(s, e)[Len(s) + 1] = e
  OBVIOUS
<1> QED
  BY <1>1 DEF Elements

LEMMA ElementsTail ==
  ASSUME NEW S, NEW s \in Seq(S), s # <<>>
  PROVE  /\ Tail(s) \in Seq(S) /\ Head(s) \in S /\ Head(s) = s[1]
         /\ DOMAIN Tail(s) = 1..(Len(s) - 1) /\ DOMAIN s = 1..Len(s)
         /\ Len(s) \in Nat /\ Len(s) > 0
         /\ \A i \in DOMAIN Tail(s) : Tail(s)[i] = s[i + 1]
         /\ Elements(s) = Elements(Tail(s)) \cup {Head(s)}
<1>1. /\ Tail(s) \in Seq(S) /\ Head(s) \in S /\ Head(s) = s[1]
      /\ DOMAIN Tail(s) = 1..(Len(s) - 1) /\ DOMAIN s = 1..Len(s)
      /\ Len(s) \in Nat /\ Len(s) > 0
      /\ \A i \in DOMAIN Tail(s) : Tail(s)[i] = s[i + 1]
  OBVIOUS
<1>2. \A i \in DOMAIN s : i = 1 \/ (i - 1 \in DOMAIN Tail(s) /\ s[i] = Tail(s)[i - 1])
  BY <1>1
<1>3. \A i \in DOMAIN Tail(s) : i + 1 \in DOMAIN s
  BY <1>1
<1>4. 1 \in DOMAIN s
  BY <1>1
<1> QED
  BY <1>1, <1>2, <1>3, <1>4 DEF Elements

LEMMA AllAppend ==
  \A S, q, n, e : q \in [Sockets -> Seq(S)] /\ n \in Sockets /\ e \in S =>
      /\ Appended(q, n, e) \in [Sockets -> Seq(S)]
      /\ All(Appended(q, n, e)) = All(q) \cup {e}
<1> SUFFICES ASSUME NEW S, NEW q \in [Sockets -> Seq(S)], NEW n \in Sockets, NEW e \in S
             PROVE  /\ Appended(q, n, e) \in [Sockets -> Seq(S)]
                    /\ All(Appended(q, n, e)) = All(q) \cup {e}
  OBVIOUS
<1> DEFINE p == Appended(q, n, e)
<1>1. Append(q[n], e) \in Seq(S) /\ Elements(Append(q[n], e)) = Elements(q[n]) \cup {e}
  BY ElementsAppend
<1>2. p \in [Sockets -> Seq(S)] /\ p[n] = Append(q[n], e) /\ \A k \in Sockets \ {n} : p[k] = q[k]
  BY <1>1 DEF Appended
<1> QED
  BY <1>1, <1>2 DEF All

LEMMA AllTail ==
  ASSUME NEW S, NEW q \in [Sockets -> Seq(S)], NEW n \in Sockets, q[n] # <<>>
  PROVE  /\ Shortened(q, n) \in [Sockets -> Seq(S)] /\ Head(q[n]) \in S
         /\ All(q) = All(Shortened(q, n)) \cup {Head(q[n])}
<1> DEFINE p == Shortened(q, n)
<1>1. /\ Tail(q[n]) \in Seq(S) /\ Head(q[n]) \in S
      /\ Elements(q[n]) = Elements(Tail(q[n])) \cup {Head(q[n])}
  BY ElementsTail
<1>2. p \in [Sockets -> Seq(S)] /\ p[n] = Tail(q[n]) /\ \A k \in Sockets \ {n} : p[k] = q[k]
  BY <1>1 DEF Shortened
<1> QED
  BY <1>1, <1>2 DEF All

LEMMA AllEmpty ==
  ASSUME NEW S, NEW q \in [Sockets -> Seq(S)], NEW n \in Sockets
  PROVE  /\ Emptied(q, n) \in [Sockets -> Seq(S)]
         /\ All(Emptied(q, n)) \subseteq All(q)
         /\ Distinct(q) => Distinct(Emptied(q, n))
<1> DEFINE p == Emptied(q, n)
<1>1. <<>> \in Seq(S) /\ DOMAIN <<>> = {} /\ Elements(<<>>) = {}
  BY DEF Elements
<1>2. p \in [Sockets -> Seq(S)] /\ p[n] = <<>> /\ \A k \in Sockets \ {n} : p[k] = q[k]
  BY <1>1 DEF Emptied
<1>3. All(p) \subseteq All(q)
  BY <1>1, <1>2 DEF All
<1>4. \A k \in Sockets : \A i \in DOMAIN p[k] : k # n /\ p[k] = q[k]
  BY <1>1, <1>2
<1>5. Distinct(q) => Distinct(p)
  BY <1>4 DEF Distinct
<1> QED
  BY <1>2, <1>3, <1>5

-----------------------------------------------------------------------------
(* Ids stay distinct. *)

LEMMA DistinctAppend ==
  ASSUME NEW S, NEW q \in [Sockets -> Seq(S)], NEW n \in Sockets, NEW e \in S,
         Distinct(q), e.id = 0 \/ \A x \in All(q) : x.id # e.id
  PROVE  Distinct(Appended(q, n, e))
<1> DEFINE p == Appended(q, n, e)
<1> DEFINE L == Len(q[n]) + 1
<1>1. /\ DOMAIN Append(q[n], e) = 1..L /\ DOMAIN q[n] = 1..(L - 1) /\ L \in Nat
      /\ \A i \in DOMAIN q[n] : Append(q[n], e)[i] = q[n][i]
      /\ Append(q[n], e)[L] = e
  BY ElementsAppend
<1>2. p[n] = Append(q[n], e) /\ \A k \in Sockets \ {n} : p[k] = q[k]
  BY DEF Appended
<1> HIDE DEF L
<1>3. \A k \in Sockets : \A i \in DOMAIN p[k] :
         \/ k = n /\ i = L /\ p[k][i] = e
         \/ i \in DOMAIN q[k] /\ p[k][i] = q[k][i] /\ p[k][i] \in All(q)
  <2>1. ASSUME NEW i \in DOMAIN p[n] PROVE (i = L /\ p[n][i] = e) \/ (i \in DOMAIN q[n] /\ p[n][i] = q[n][i])
    BY <1>1, <1>2
  <2>2. \A k \in Sockets : \A i \in DOMAIN q[k] : q[k][i] \in All(q)
    BY DEF All, Elements
  <2> QED
    BY <1>2, <2>1, <2>2
<1> QED
  BY <1>3 DEF Distinct

LEMMA DistinctTail ==
  ASSUME NEW S, NEW q \in [Sockets -> Seq(S)], NEW n \in Sockets, q[n] # <<>>, Distinct(q)
  PROVE  /\ Distinct(Shortened(q, n))
         /\ Head(q[n]).id = 0 \/ \A x \in All(Shortened(q, n)) : x.id # Head(q[n]).id
<1> DEFINE p == Shortened(q, n)
<1>1. /\ DOMAIN Tail(q[n]) = 1..(Len(q[n]) - 1) /\ DOMAIN q[n] = 1..Len(q[n])
      /\ Len(q[n]) \in Nat /\ Len(q[n]) > 0 /\ Head(q[n]) = q[n][1]
      /\ \A i \in DOMAIN Tail(q[n]) : Tail(q[n])[i] = q[n][i + 1]
  BY ElementsTail
<1>2. p[n] = Tail(q[n]) /\ \A k \in Sockets \ {n} : p[k] = q[k]
  BY DEF Shortened
<1>3. \A i \in DOMAIN p[n] : i \in Nat /\ i + 1 \in DOMAIN q[n] /\ i + 1 # 1 /\ p[n][i] = q[n][i + 1]
  BY <1>1, <1>2
<1>4. 1 \in DOMAIN q[n]
  BY <1>1
<1>5. Distinct(p)
  <2> SUFFICES ASSUME NEW k \in Sockets, NEW l \in Sockets, NEW i \in DOMAIN p[k], NEW j \in DOMAIN p[l],
                      p[k][i].id = p[l][j].id, p[k][i].id # 0
               PROVE  k = l /\ i = j
    BY DEF Distinct
  <2>1. PICK g \in DOMAIN q[k] : p[k][i] = q[k][g] /\ g = IF k = n THEN i + 1 ELSE i
    BY <1>2, <1>3
  <2>2. PICK h \in DOMAIN q[l] : p[l][j] = q[l][h] /\ h = IF l = n THEN j + 1 ELSE j
    BY <1>2, <1>3
  <2>3. k = l /\ g = h
    BY <2>1, <2>2 DEF Distinct
  <2> QED
    BY <1>3, <2>1, <2>2, <2>3
<1>6. ASSUME NEW x \in All(p), x.id = Head(q[n]).id PROVE x.id = 0
  <2>1. PICK k \in Sockets : \E i \in DOMAIN p[k] : x = p[k][i]
    BY DEF All, Elements
  <2>2. PICK i \in DOMAIN p[k] : x = p[k][i]
    BY <2>1
  <2>3. CASE k = n
    BY <1>1, <1>3, <1>4, <1>6, <2>2, <2>3 DEF Distinct
  <2>4. CASE k # n
    BY <1>1, <1>2, <1>4, <1>6, <2>2, <2>4 DEF Distinct
  <2> QED
    BY <2>3, <2>4
<1> QED
  BY <1>5, <1>6

LEMMA AllElements == ASSUME NEW S, NEW q \in [Sockets -> Seq(S)] PROVE All(q) \subseteq S
BY DEF All, Elements

-----------------------------------------------------------------------------
(* The inductive invariant. *)

(* Websockets are created in turn. *)
UsedInv == \A n \in Sockets : socket[n] # "none" => n <= used

(* A message has the id of a call that was made, and no call has a request   *)
(* and an answer on their way at once.                                       *)
IdsInv ==
    /\ \A x \in All(uplink) : x.id \in 1..requestId
    /\ \A y \in All(downlink) : y = Welcome \/ y.id \in 1..requestId
    /\ \A x \in All(uplink), y \in All(downlink) : x.id # y.id

(* The messages of a call are about what it asks for. *)
OwnInv ==
    \A r \in pending : \A x \in All(uplink) \cup All(downlink) : x.id = r.id => x.of = r.of

IInv == ClientTypeOK /\ UsedInv /\ IdsInv /\ OwnInv /\ Distinct(uplink) /\ Distinct(downlink)

USE KnownAssumption, MaxSocketsAssumption, MaxGarbledAssumption
    DEF KnownAssumption, MaxSocketsAssumption, MaxGarbledAssumption, serverVars, socketVars, callVars

LEMMA InitInv == ClientInit => IInv
<1> SUFFICES ASSUME ClientInit PROVE IInv
  OBVIOUS
<1> USE DEF ClientInit
<1>1. ClientTypeOK
  <2>1. uplink \in [Sockets -> Seq(Calls)] /\ downlink \in [Sockets -> Seq(Answers \cup {Welcome})]
    OBVIOUS
  <2>2. used \in 0..MaxSockets /\ requestId \in Nat
    OBVIOUS
  <2>3. connected \in BOOLEAN
    OBVIOUS
  <2> QED
    BY <2>1, <2>2, <2>3 DEF ClientTypeOK
<1>2. \A q : q = [n \in Sockets |-> <<>>] => All(q) = {} /\ Distinct(q)
  BY DEF All, Elements, Distinct
<1> QED
  BY <1>1, <1>2 DEF IInv, UsedInv, IdsInv, OwnInv

(* The messages on their way have their types. *)
LEMMA MessageTypes ==
  ASSUME ClientTypeOK
  PROVE  All(uplink) \subseteq Calls /\ All(downlink) \subseteq Answers \cup {Welcome}
BY AllElements DEF ClientTypeOK

(* The server writes a message that it has not written before, or loses it.  *)
LEMMA WriteStep ==
  ASSUME IInv, NEW n \in Sockets, NEW m \in Answers \cup {Welcome}, Write(n, m),
         m.id = 0 \/ \A y \in All(downlink) : y.id # m.id
  PROVE  /\ downlink' \in [Sockets -> Seq(Answers \cup {Welcome})]
         /\ Distinct(downlink') /\ garbled' \subseteq Nat
         /\ All(downlink') \in {All(downlink), All(downlink) \cup {m}}
<1>1. downlink \in [Sockets -> Seq(Answers \cup {Welcome})] /\ Distinct(downlink) /\ garbled \subseteq Nat
  BY DEF IInv, ClientTypeOK
<1>2. m.id \in Nat
  BY DEF Answers, Welcome
<1>3. CASE UNCHANGED downlink
  BY <1>1, <1>2, <1>3 DEF Write
<1>4. CASE downlink' = Appended(downlink, n, m) /\ UNCHANGED garbled
  <2> DEFINE S == Answers \cup {Welcome}
  <2>1. downlink \in [Sockets -> Seq(S)] /\ m \in S
    BY <1>1
  <2> HIDE DEF S
  <2>2. Distinct(downlink')
    BY <1>1, <1>4, <2>1, DistinctAppend
  <2>3. downlink' \in [Sockets -> Seq(S)] /\ All(downlink') = All(downlink) \cup {m}
    BY <1>4, <2>1, AllAppend
  <2> QED
    BY <1>1, <1>4, <2>2, <2>3 DEF S
<1> QED
  BY <1>3, <1>4 DEF Write, Appended

LEMMA EstablishStep == ASSUME IInv, NEW n \in Sockets, Establish(n) PROVE IInv'
<1>1. /\ downlink' \in [Sockets -> Seq(Answers \cup {Welcome})]
      /\ Distinct(downlink') /\ garbled' \subseteq Nat
      /\ All(downlink') \in {All(downlink), All(downlink) \cup {Welcome}}
  BY WriteStep DEF Establish, Welcome
<1>2. ClientTypeOK' /\ UsedInv'
  BY <1>1 DEF Establish, IInv, ClientTypeOK, UsedInv
<1>3. \A x \in All(uplink) : x.id # Welcome.id
  BY DEF IInv, IdsInv, ClientTypeOK, Welcome
<1>4. \A r \in pending : r.id # Welcome.id
  BY DEF IInv, ClientTypeOK, Welcome
<1>5. IdsInv' /\ OwnInv'
  BY <1>1, <1>3, <1>4 DEF Establish, IInv, IdsInv, OwnInv
<1> QED
  BY <1>1, <1>2, <1>5 DEF Establish, IInv

(* What the server reads is gone from its queue, and has had no answer yet.  *)
LEMMA ReadStep ==
  ASSUME IInv, NEW n \in Sockets, Receive(n)
  PROVE  LET r == Head(uplink[n])
             m == [kind |-> IF r.of \in Known THEN "result" ELSE "error", id |-> r.id, of |-> r.of]
         IN /\ r \in Calls /\ r.id \in 1..requestId
            /\ m \in Answers /\ Write(n, m)
            /\ uplink' \in [Sockets -> Seq(Calls)] /\ Distinct(uplink')
            /\ r \in All(uplink) /\ All(uplink') = All(uplink) \ {r}
            /\ \A x \in All(uplink') : x.id # r.id
            /\ \A y \in All(downlink) : y.id # r.id
<1> DEFINE r == Head(uplink[n])
<1> DEFINE m == [kind |-> IF r.of \in Known THEN "result" ELSE "error", id |-> r.id, of |-> r.of]
<1>1. /\ uplink \in [Sockets -> Seq(Calls)] /\ uplink[n] # <<>> /\ Distinct(uplink)
      /\ uplink' = Shortened(uplink, n) /\ Write(n, m)
  BY DEF Receive, IInv, ClientTypeOK, Shortened
<1>2. /\ uplink' \in [Sockets -> Seq(Calls)] /\ r \in Calls
      /\ All(uplink) = All(uplink') \cup {r}
  BY <1>1, AllTail
<1>3. Distinct(uplink') /\ (r.id = 0 \/ \A x \in All(uplink') : x.id # r.id)
  BY <1>1, DistinctTail
<1> HIDE DEF r
<1>4. r \in All(uplink) /\ r.id \in 1..requestId /\ requestId \in Nat
  BY <1>2 DEF IInv, IdsInv, ClientTypeOK
<1>5. \A x \in All(uplink') : x.id # r.id
  BY <1>3, <1>4
<1>6. \A y \in All(downlink) : y.id # r.id
  BY <1>4 DEF IInv, IdsInv
<1>7. m \in Answers
  BY <1>2 DEF Calls, Answers
<1>8. All(uplink') = All(uplink) \ {r}
  BY <1>2, <1>5
<1> QED
  BY <1>1, <1>2, <1>3, <1>4, <1>5, <1>6, <1>7, <1>8 DEF r

LEMMA ReceiveStep == ASSUME IInv, NEW n \in Sockets, Receive(n) PROVE IInv'
<1> DEFINE r == Head(uplink[n])
<1> DEFINE m == [kind |-> IF r.of \in Known THEN "result" ELSE "error", id |-> r.id, of |-> r.of]
<1>1. /\ r \in Calls /\ r.id \in 1..requestId /\ m \in Answers /\ Write(n, m)
      /\ uplink' \in [Sockets -> Seq(Calls)] /\ Distinct(uplink')
      /\ r \in All(uplink) /\ All(uplink') = All(uplink) \ {r}
      /\ \A x \in All(uplink') : x.id # r.id
      /\ \A y \in All(downlink) : y.id # r.id
  BY ReadStep
<1>2. m.id = r.id /\ m.of = r.of
  OBVIOUS
<1>3. UNCHANGED <<server, socket, used, connected, requestId, pending>>
  BY DEF Receive
<1> HIDE DEF r, m
<1>4. /\ downlink' \in [Sockets -> Seq(Answers \cup {Welcome})]
      /\ Distinct(downlink') /\ garbled' \subseteq Nat
      /\ All(downlink') \in {All(downlink), All(downlink) \cup {m}}
  BY <1>1, <1>2, WriteStep
<1>5. ClientTypeOK' /\ UsedInv'
  BY <1>1, <1>3, <1>4 DEF IInv, ClientTypeOK, UsedInv
<1>6. IdsInv'
  BY <1>1, <1>2, <1>3, <1>4 DEF IInv, IdsInv
<1>7. OwnInv'
  BY <1>1, <1>2, <1>3, <1>4 DEF IInv, OwnInv
<1> QED
  BY <1>1, <1>4, <1>5, <1>6, <1>7 DEF IInv

LEMMA ClosedStep == ASSUME IInv, NEW n \in Sockets, Closed(n) PROVE IInv'
<1>1. uplink' = Emptied(uplink, n) /\ uplink \in [Sockets -> Seq(Calls)] /\ Distinct(uplink)
  BY DEF Closed, Emptied, IInv, ClientTypeOK
<1>2. uplink' \in [Sockets -> Seq(Calls)] /\ All(uplink') \subseteq All(uplink) /\ Distinct(uplink')
  BY <1>1, AllEmpty
<1>3. ClientTypeOK' /\ UsedInv'
  BY <1>2 DEF Closed, IInv, ClientTypeOK, UsedInv
<1>4. IdsInv' /\ OwnInv'
  BY <1>2 DEF Closed, IInv, IdsInv, OwnInv
<1> QED
  BY <1>2, <1>3, <1>4 DEF Closed, IInv

LEMMA CloseStep == ASSUME IInv, NEW n \in Sockets, Close(n) PROVE IInv'
<1> DEFINE S == Answers \cup {Welcome}
<1>1. downlink' = Emptied(downlink, n) /\ downlink \in [Sockets -> Seq(S)] /\ Distinct(downlink)
  BY DEF Close, Emptied, IInv, ClientTypeOK
<1> HIDE DEF S
<1>2. downlink' \in [Sockets -> Seq(S)] /\ All(downlink') \subseteq All(downlink) /\ Distinct(downlink')
  BY <1>1, AllEmpty
<1>3. ClientTypeOK' /\ UsedInv'
  BY <1>2 DEF Close, IInv, ClientTypeOK, UsedInv, S
<1>4. IdsInv' /\ OwnInv'
  BY <1>2 DEF Close, IInv, IdsInv, OwnInv
<1> QED
  BY <1>2, <1>3, <1>4 DEF Close, IInv

LEMMA SocketStep == ASSUME IInv, Connect \/ Disconnect PROVE IInv'
<1>1. CASE Connect
  <2>1. used \in 0..MaxSockets /\ used + 1 \in Sockets /\ used' = used + 1 /\ used' \in 0..MaxSockets
    BY <1>1 DEF Connect, IInv, ClientTypeOK, Sockets
  <2>2. ClientTypeOK' /\ UsedInv'
    BY <1>1, <2>1 DEF Connect, IInv, ClientTypeOK, UsedInv, Sockets
  <2> QED
    BY <1>1, <2>2 DEF Connect, IInv, IdsInv, OwnInv
<1>2. CASE Disconnect
  <2>1. ClientTypeOK' /\ UsedInv'
    BY <1>2 DEF Disconnect, IInv, ClientTypeOK, UsedInv
  <2> QED
    BY <1>2, <2>1 DEF Disconnect, IInv, IdsInv, OwnInv
<1> QED
  BY <1>1, <1>2

(* What a message that the page takes leaves behind. *)
LEMMA IncomingStep ==
  ASSUME IInv, NEW n \in Sockets, NEW kinds, Incoming(n, kinds)
  PROVE  LET m == Head(downlink[n])
         IN /\ m \in Answers \cup {Welcome} /\ m.kind \in kinds
            /\ downlink' \in [Sockets -> Seq(Answers \cup {Welcome})] /\ Distinct(downlink')
            /\ All(downlink) = All(downlink') \cup {m}
            /\ m.id = 0 \/ \A y \in All(downlink') : y.id # m.id
<1> DEFINE S == Answers \cup {Welcome}
<1>1. /\ downlink \in [Sockets -> Seq(S)] /\ downlink[n] # <<>> /\ Distinct(downlink)
      /\ downlink' = Shortened(downlink, n)
      /\ Head(downlink[n]).kind \in kinds
  BY DEF Incoming, Shortened, IInv, ClientTypeOK
<1> HIDE DEF S
<1>2. /\ downlink' \in [Sockets -> Seq(S)] /\ Head(downlink[n]) \in S
      /\ All(downlink) = All(downlink') \cup {Head(downlink[n])}
  BY <1>1, AllTail
<1>3. /\ Distinct(downlink')
      /\ Head(downlink[n]).id = 0 \/ \A y \in All(downlink') : y.id # Head(downlink[n]).id
  BY <1>1, DistinctTail
<1> QED
  BY <1>1, <1>2, <1>3 DEF S

LEMMA SettleStep == ASSUME IInv, NEW n \in Sockets, Settle(n) PROVE IInv'
<1>1. /\ downlink' \in [Sockets -> Seq(Answers \cup {Welcome})] /\ Distinct(downlink')
      /\ All(downlink') \subseteq All(downlink)
      /\ pending' \subseteq pending
      /\ UNCHANGED <<server, uplink, socket, used, connected, requestId, garbled>>
  BY IncomingStep DEF Settle, Incoming
<1>2. ClientTypeOK' /\ UsedInv'
  BY <1>1 DEF IInv, ClientTypeOK, UsedInv
<1>3. IdsInv' /\ OwnInv'
  BY <1>1 DEF IInv, IdsInv, OwnInv
<1> QED
  BY <1>1, <1>2, <1>3 DEF IInv

-----------------------------------------------------------------------------
(* The calls. *)

Made(q) == [id |-> requestId + 1, of |-> q]

LEMMA CallCases ==
  ASSUME NEW q, NEW online, NEW ws, Call(q, online, ws)
  PROVE  \/ UNCHANGED <<requestId, pending, uplink>>
         \/ requestId' = requestId + 1 /\ UNCHANGED <<pending, uplink>>
         \/ /\ requestId' = requestId + 1
            /\ pending' = pending \cup {[id |-> requestId + 1, of |-> q, n |-> used]}
            /\ uplink' \in {uplink, Appended(uplink, used, Made(q))}
BY DEF Call, Appended, Made

(* A call is the first with its id, at every place.                          *)
LEMMA CallStep ==
  ASSUME IInv, NEW q \in Requests, NEW online, NEW ws, Call(q, online, ws),
         used \in Sockets,
         downlink' \in [Sockets -> Seq(Answers \cup {Welcome})],
         Distinct(downlink'), All(downlink') \subseteq All(downlink),
         UNCHANGED <<server, garbled, used>>,
         socket' \in [Sockets -> {"none", "connecting", "open", "closing", "closed"}],
         \A k \in Sockets : socket'[k] # "none" => socket[k] # "none",
         connected' \in BOOLEAN
  PROVE  IInv'
<1>1. /\ requestId \in Nat
      /\ \A x \in All(uplink) : x.id \in 1..requestId
      /\ \A y \in All(downlink) : y = Welcome \/ y.id \in 1..requestId
      /\ uplink \in [Sockets -> Seq(Calls)] /\ Distinct(uplink)
      /\ pending \subseteq [id : 1..requestId, of : Requests, n : Sockets]
  BY DEF IInv, IdsInv, ClientTypeOK
<1>2. UsedInv'
  BY DEF IInv, UsedInv
<1>3. CASE pending' = pending /\ uplink' = uplink /\ requestId' \in {requestId, requestId + 1}
  <2>1. 1..requestId \subseteq 1..requestId' /\ requestId' \in Nat
    BY <1>1, <1>3
  <2>2. ClientTypeOK'
    BY <1>3, <2>1 DEF IInv, ClientTypeOK
  <2>3. IdsInv' /\ OwnInv' /\ Distinct(uplink)'
    BY <1>3, <2>1 DEF IInv, IdsInv, OwnInv
  <2> QED
    BY <1>2, <2>2, <2>3 DEF IInv
<1>4. CASE /\ requestId' = requestId + 1
           /\ pending' = pending \cup {[id |-> requestId + 1, of |-> q, n |-> used]}
           /\ uplink' \in {uplink, Appended(uplink, used, Made(q))}
  <2>1. /\ 1..requestId \subseteq 1..requestId' /\ requestId' \in Nat
        /\ requestId + 1 \in 1..requestId' /\ requestId + 1 \notin 1..requestId
    BY <1>1, <1>4
  <2>2. Made(q) \in Calls /\ Made(q).id = requestId + 1 /\ Made(q).of = q
    BY <1>1 DEF Made, Calls
  <2>3. \A x \in All(uplink) : x.id # Made(q).id
    BY <1>1, <2>1, <2>2
  <2>4. /\ uplink' \in [Sockets -> Seq(Calls)] /\ Distinct(uplink')
        /\ All(uplink') \in {All(uplink), All(uplink) \cup {Made(q)}}
    <3>1. CASE uplink' = uplink
      BY <1>1, <3>1
    <3>2. CASE uplink' = Appended(uplink, used, Made(q))
      <4>1. uplink \in [Sockets -> Seq(Calls)] /\ Made(q) \in Calls
        BY <1>1, <2>2
      <4>2. /\ Appended(uplink, used, Made(q)) \in [Sockets -> Seq(Calls)]
            /\ All(Appended(uplink, used, Made(q))) = All(uplink) \cup {Made(q)}
        BY <4>1, AllAppend
      <4>3. Distinct(uplink')
        BY <1>1, <2>2, <2>3, <3>2, DistinctAppend
      <4> QED
        BY <3>2, <4>2, <4>3
    <3> QED
      BY <1>4, <3>1, <3>2
  <2>5. pending' \subseteq [id : 1..requestId', of : Requests, n : Sockets]
    BY <1>1, <1>4, <2>1
  <2>6. ClientTypeOK'
    BY <2>1, <2>4, <2>5 DEF IInv, ClientTypeOK
  <2>7. \A y \in All(downlink) : y.id # Made(q).id
    <3>1. Welcome.id \notin {requestId + 1}
      BY <1>1 DEF Welcome
    <3> QED
      BY <1>1, <2>1, <2>2, <3>1
  <2>8. IdsInv'
    BY <1>1, <2>1, <2>2, <2>4, <2>7 DEF IInv, IdsInv
  <2>9. OwnInv'
    <3> SUFFICES ASSUME NEW r \in pending', NEW x \in All(uplink') \cup All(downlink'), x.id = r.id
                 PROVE  x.of = r.of
      BY DEF OwnInv
    <3>1. CASE r \in pending
      <4>1. r.id # Made(q).id
        BY <1>1, <2>1, <2>2, <3>1
      <4> QED
        BY <2>4, <3>1, <4>1 DEF IInv, OwnInv
    <3>2. CASE r = [id |-> requestId + 1, of |-> q, n |-> used]
      BY <2>2, <2>3, <2>4, <2>7, <3>2
    <3> QED
      BY <1>4, <3>1, <3>2
  <2> QED
    BY <1>2, <2>4, <2>6, <2>8, <2>9 DEF IInv
<1> QED
  BY <1>3, <1>4, CallCases

(* Whoever calls has a websocket. *)
LEMMA AskStep == ASSUME IInv, NEW q \in Requests, Ask(q) PROVE IInv'
<1>1. used \in Sockets /\ UNCHANGED <<server, downlink, socket, used, connected, garbled>>
  BY DEF Ask, IInv, ClientTypeOK, Sockets
<1> QED
  BY <1>1, CallStep DEF Ask, IInv, ClientTypeOK

LEMMA OpenStep == ASSUME IInv, NEW n \in Sockets, NEW q \in Requests, Open(n, q) PROVE IInv'
<1>1. used \in Sockets
  BY DEF Open, IInv, ClientTypeOK, UsedInv, Sockets
<1>2. /\ socket' \in [Sockets -> {"none", "connecting", "open", "closing", "closed"}]
      /\ \A k \in Sockets : socket'[k] # "none" => socket[k] # "none"
      /\ connected' \in BOOLEAN
      /\ UNCHANGED <<server, downlink, used, garbled>>
  BY DEF Open, IInv, ClientTypeOK
<1> QED
  BY <1>1, <1>2, CallStep DEF Open, IInv, ClientTypeOK

LEMMA WelcomedStep == ASSUME IInv, NEW n \in Sockets, NEW q \in Requests, Welcomed(n, q) PROVE IInv'
<1>1. used \in Sockets
  BY DEF Welcomed, Incoming, IInv, ClientTypeOK, UsedInv, Sockets
<1>2. /\ downlink' \in [Sockets -> Seq(Answers \cup {Welcome})] /\ Distinct(downlink')
      /\ All(downlink') \subseteq All(downlink)
      /\ UNCHANGED <<server, socket, used, connected, garbled>>
  BY IncomingStep DEF Welcomed, Incoming
<1> QED
  BY <1>1, <1>2, CallStep DEF Welcomed, IInv, ClientTypeOK

LEMMA Step == ASSUME IInv, [ClientNext]_clientVars PROVE IInv'
<1>1. ASSUME UNCHANGED clientVars PROVE IInv'
  BY <1>1 DEF clientVars, IInv, ClientTypeOK, UsedInv, IdsInv, OwnInv
<1> QED
  BY <1>1, EstablishStep, ReceiveStep, ClosedStep, CloseStep, SettleStep, OpenStep, WelcomedStep,
     AskStep, SocketStep DEF ClientNext, Server

THEOREM Invariance == ClientSpec => []IInv
<1>1. ClientInit => IInv
  BY InitInv
<1>2. IInv /\ [ClientNext]_clientVars => IInv'
  BY Step
<1> QED
  BY <1>1, <1>2, PTL DEF ClientSpec

(* Types of the variables of the client, its sockets and their connections,  *)
(* with as many calls as the page cares to make.                             *)
THEOREM TypeCorrect == ClientSpec => []ClientTypeOK
BY Invariance, PTL DEF IInv

-----------------------------------------------------------------------------
(* The client implements CallOnce. *)

(* A step by which messages are lost, or by which nothing changes.           *)
LEMMA LoseRefines ==
  ASSUME UNCHANGED <<requestId, Waits>>,
         All(uplink') \subseteq All(uplink), Answering' \subseteq Answering
  PROVE  Once!Next
BY DEF Once!Next, Once!Lose

(* The answer to a request that is read is the abstract one, or it is lost.  *)
LEMMA ReceiveRefines == ASSUME IInv, NEW n \in Sockets, Receive(n) PROVE Once!Next
<1> DEFINE r == Head(uplink[n])
<1> DEFINE m == [kind |-> IF r.of \in Known THEN "result" ELSE "error", id |-> r.id, of |-> r.of]
<1>1. /\ r \in Calls /\ r.id \in 1..requestId /\ m \in Answers /\ Write(n, m)
      /\ r \in All(uplink) /\ All(uplink') = All(uplink) \ {r}
      /\ \A y \in All(downlink) : y.id # r.id
  BY ReadStep
<1>2. m = Once!AnswerTo(r) /\ m.id = r.id
  BY DEF Once!AnswerTo
<1>3. UNCHANGED <<requestId, pending>>
  BY DEF Receive
<1>4. m # Welcome
  <2>1. requestId \in Nat
    BY DEF IInv, ClientTypeOK
  <2> QED
    BY <1>1, <1>2, <2>1 DEF Welcome
<1> HIDE DEF r, m
<1>5. All(downlink') \in {All(downlink), All(downlink) \cup {m}}
  BY <1>1, <1>2, WriteStep
<1>6. CASE All(downlink') = All(downlink)
  BY <1>1, <1>3, <1>6, LoseRefines DEF Waits, Answering
<1>7. CASE All(downlink') = All(downlink) \cup {m}
  <2>1. Answering' = Answering \cup {Once!AnswerTo(r)}
    BY <1>2, <1>4, <1>7 DEF Answering
  <2> QED
    BY <1>1, <1>3, <2>1 DEF Once!Next, Once!Execute, Waits
<1> QED
  BY <1>5, <1>6, <1>7

(* An answer settles the call that it is the answer to, if that call waits.  *)
LEMMA SettleRefines == ASSUME IInv, NEW n \in Sockets, Settle(n) PROVE Once!Next
<1> DEFINE m == Head(downlink[n])
<1>1. /\ m \in Answers \cup {Welcome} /\ m.kind \in {"result", "error"}
      /\ All(downlink) = All(downlink') \cup {m}
      /\ m.id = 0 \/ \A y \in All(downlink') : y.id # m.id
  BY IncomingStep DEF Settle
<1>2. pending' = pending \ {r \in pending : r.id = m.id} /\ UNCHANGED <<requestId, uplink>>
  BY DEF Settle, Settled, Incoming
<1> HIDE DEF m
<1>3. m # Welcome
  BY <1>1 DEF Welcome
<1>4. m \in All(downlink) /\ m.id # 0
  BY <1>1, <1>3 DEF IInv, IdsInv, ClientTypeOK
<1>5. Answering' = Answering \ {m} /\ m \in Answering
  BY <1>1, <1>3, <1>4 DEF Answering
<1>6. \A r \in pending : r.id = m.id => r.of = m.of
  BY <1>4 DEF IInv, OwnInv
<1>7. Waits' = Waits \ {[id |-> m.id, of |-> m.of]}
  <2>1. Waits' = {[id |-> r.id, of |-> r.of] : r \in {r \in pending : r.id # m.id}}
    BY <1>2 DEF Waits
  <2> QED
    BY <1>6, <2>1 DEF Waits
<1>8. CASE [id |-> m.id, of |-> m.of] \in Waits
  BY <1>2, <1>5, <1>7, <1>8 DEF Once!Next, Once!Settle
<1>9. CASE [id |-> m.id, of |-> m.of] \notin Waits
  <2>1. Waits' = Waits
    BY <1>7, <1>9
  <2> QED
    BY <1>2, <1>5, <2>1, LoseRefines
<1> QED
  BY <1>8, <1>9

LEMMA CallRefines ==
  ASSUME IInv, NEW q \in Requests, NEW online, NEW ws, Call(q, online, ws),
         used \in Sockets, UNCHANGED Answering
  PROVE  Once!Next
<1>1. uplink \in [Sockets -> Seq(Calls)] /\ Made(q) \in Calls
  <2>1. uplink \in [Sockets -> Seq(Calls)] /\ requestId \in Nat
    BY DEF IInv, ClientTypeOK
  <2>2. Made(q) \in Calls
    BY <2>1 DEF Made, Calls
  <2> QED
    BY <2>1, <2>2
<1>2. CASE UNCHANGED <<requestId, pending, uplink>>
  BY <1>2, LoseRefines DEF Waits
<1>3. CASE requestId' = requestId + 1 /\ UNCHANGED <<pending, uplink>>
  BY <1>3 DEF Once!Next, Once!Refuse, Waits
<1>4. CASE /\ requestId' = requestId + 1
           /\ pending' = pending \cup {[id |-> requestId + 1, of |-> q, n |-> used]}
           /\ uplink' \in {uplink, Appended(uplink, used, Made(q))}
  <2>1. Waits' = Waits \cup {Made(q)}
    <3> DEFINE r == [id |-> requestId + 1, of |-> q, n |-> used]
    <3>1. pending' = pending \cup {r} /\ [id |-> r.id, of |-> r.of] = Made(q)
      BY <1>4 DEF Made
    <3> HIDE DEF r
    <3> QED
      BY <3>1 DEF Waits
  <2>2. All(uplink') \in {All(uplink), All(uplink) \cup {Made(q)}}
    BY <1>1, <1>4, AllAppend
  <2> QED
    BY <1>4, <2>1, <2>2 DEF Once!Next, Once!Make, Made
<1> QED
  BY <1>2, <1>3, <1>4, CallCases

LEMMA NextRefines == ASSUME IInv, [ClientNext]_clientVars PROVE Once!Next
<1>1. ASSUME NEW n \in Sockets, Establish(n) PROVE Once!Next
  <2>1. All(downlink') \in {All(downlink), All(downlink) \cup {Welcome}}
    BY <1>1, WriteStep DEF Establish, Welcome
  <2> QED
    BY <1>1, <2>1, LoseRefines DEF Establish, Waits, Answering
<1>2. ASSUME NEW n \in Sockets, Closed(n) PROVE Once!Next
  <2>1. uplink' = Emptied(uplink, n) /\ uplink \in [Sockets -> Seq(Calls)]
    BY <1>2 DEF Closed, Emptied, IInv, ClientTypeOK
  <2>2. All(uplink') \subseteq All(uplink)
    BY <2>1, AllEmpty
  <2> QED
    BY <1>2, <2>2, LoseRefines DEF Closed, Waits, Answering
<1>3. ASSUME NEW n \in Sockets, Close(n) PROVE Once!Next
  <2> DEFINE S == Answers \cup {Welcome}
  <2>1. downlink' = Emptied(downlink, n) /\ downlink \in [Sockets -> Seq(S)]
    BY <1>3 DEF Close, Emptied, IInv, ClientTypeOK
  <2> HIDE DEF S
  <2>2. All(downlink') \subseteq All(downlink)
    BY <2>1, AllEmpty
  <2> QED
    BY <1>3, <2>2, LoseRefines DEF Close, Waits, Answering
<1>4. ASSUME Connect \/ Disconnect \/ UNCHANGED clientVars PROVE Once!Next
  BY <1>4, LoseRefines DEF Connect, Disconnect, clientVars, Waits, Answering
<1>5. ASSUME NEW q \in Requests, Ask(q) PROVE Once!Next
  <2>1. used \in Sockets /\ UNCHANGED Answering
    BY <1>5 DEF Ask, IInv, ClientTypeOK, Sockets, Answering
  <2> QED
    BY <1>5, <2>1, CallRefines DEF Ask
<1>6. ASSUME NEW n \in Sockets, NEW q \in Requests, Open(n, q) PROVE Once!Next
  <2>1. used \in Sockets /\ UNCHANGED Answering
    BY <1>6 DEF Open, IInv, ClientTypeOK, UsedInv, Sockets, Answering
  <2> QED
    BY <1>6, <2>1, CallRefines DEF Open
<1>7. ASSUME NEW n \in Sockets, NEW q \in Requests, Welcomed(n, q) PROVE Once!Next
  <2>1. used \in Sockets
    BY <1>7 DEF Welcomed, Incoming, IInv, ClientTypeOK, UsedInv, Sockets
  <2>2. All(downlink) = All(downlink') \cup {Welcome}
    <3>1. /\ Head(downlink[n]) \in Answers \cup {Welcome} /\ Head(downlink[n]).kind = "connected"
          /\ All(downlink) = All(downlink') \cup {Head(downlink[n])}
      BY <1>7, IncomingStep DEF Welcomed
    <3>2. \A a \in Answers : a.kind # "connected"
      BY DEF Answers
    <3> QED
      BY <3>1, <3>2
  <2>3. UNCHANGED Answering
    BY <2>2 DEF Answering
  <2> QED
    BY <1>7, <2>1, <2>3, CallRefines DEF Welcomed
<1> QED
  BY <1>1, <1>2, <1>3, <1>4, <1>5, <1>6, <1>7, ReceiveRefines, SettleRefines DEF ClientNext, Server

(* RPCClient.call and handleMessage: each call is carried out at most once,  *)
(* and settled at most once by its own answer, over any number of sockets    *)
(* that open, close and overlap as they like.                                *)
THEOREM Implementation == ClientSpec => CallOnceSpec
<1>1. ClientInit => Once!Init
  <2>1. \A q : q = [n \in Sockets |-> <<>>] => All(q) = {}
    BY DEF All, Elements
  <2> QED
    BY <2>1 DEF ClientInit, Once!Init, Waits, Answering
<1>2. IInv /\ [ClientNext]_clientVars => [Once!Next]_(Once!absVars)
  BY NextRefines
<1> QED
  BY <1>1, <1>2, Invariance, PTL DEF ClientSpec, CallOnceSpec, Once!Spec

-----------------------------------------------------------------------------
(* The requests and the answers of one connection stay in the order of the   *)
(* calls; the page and the server read them from the front.                  *)

Sorted(s) ==
    \A i, j \in DOMAIN s : i < j /\ s[i].id # 0 /\ s[j].id # 0 => s[i].id < s[j].id

OrderInv ==
    \A n \in Sockets :
        /\ Sorted(uplink[n]) /\ Sorted(downlink[n])
        /\ \A x \in Elements(uplink[n]), y \in Elements(downlink[n]) : y.id < x.id

(* The ids of the calls that have a message on a connection. *)
IdsAt(n) == {x.id : x \in Elements(uplink[n]) \cup Elements(downlink[n])} \ {0}

LEMMA SortedAppend ==
  ASSUME NEW S, NEW s \in Seq(S), NEW e \in S, Sorted(s),
         e.id = 0 \/ \A x \in Elements(s) : x.id < e.id
  PROVE  Sorted(Append(s, e)) /\ Elements(Append(s, e)) = Elements(s) \cup {e}
<1> DEFINE t == Append(s, e)
<1> DEFINE L == Len(s) + 1
<1>1. /\ DOMAIN t = 1..L /\ DOMAIN s = 1..(L - 1) /\ L \in Nat
      /\ \A i \in DOMAIN s : t[i] = s[i]
      /\ t[L] = e
      /\ Elements(t) = Elements(s) \cup {e}
  BY ElementsAppend
<1> HIDE DEF t, L
<1>2. Sorted(t)
  <2> SUFFICES ASSUME NEW i \in DOMAIN t, NEW j \in DOMAIN t, i < j, t[i].id # 0, t[j].id # 0
               PROVE  t[i].id < t[j].id
    BY DEF Sorted
  <2>1. i \in DOMAIN s /\ t[i] = s[i] /\ s[i] \in Elements(s)
    BY <1>1 DEF Elements
  <2>2. CASE j \in DOMAIN s
    BY <1>1, <2>1, <2>2 DEF Sorted
  <2>3. CASE j = L
    BY <1>1, <2>1, <2>3
  <2> QED
    BY <1>1, <2>2, <2>3
<1> QED
  BY <1>1, <1>2 DEF t

LEMMA SortedTail ==
  ASSUME NEW S, NEW s \in Seq(S), s # <<>>, Sorted(s)
  PROVE  /\ Sorted(Tail(s)) /\ Elements(s) = Elements(Tail(s)) \cup {Head(s)}
         /\ Head(s).id # 0 => \A x \in Elements(Tail(s)) : x.id # 0 => Head(s).id < x.id
<1> DEFINE t == Tail(s)
<1>1. /\ DOMAIN t = 1..(Len(s) - 1) /\ DOMAIN s = 1..Len(s) /\ Len(s) \in Nat /\ Len(s) > 0
      /\ \A i \in DOMAIN t : t[i] = s[i + 1]
      /\ Head(s) = s[1] /\ Elements(s) = Elements(t) \cup {Head(s)}
  BY ElementsTail
<1> HIDE DEF t
<1>2. \A i \in DOMAIN t : i \in Nat /\ i + 1 \in DOMAIN s /\ 1 < i + 1 /\ t[i] = s[i + 1]
  BY <1>1
<1>3. Sorted(t)
  BY <1>2 DEF Sorted
<1>4. 1 \in DOMAIN s
  BY <1>1
<1>5. Head(s).id # 0 => \A x \in Elements(t) : x.id # 0 => Head(s).id < x.id
  BY <1>1, <1>2, <1>4 DEF Sorted, Elements
<1> QED
  BY <1>1, <1>3, <1>5 DEF t

(* The types of what is on one connection. *)
LEMMA LinkTypes ==
  ASSUME IInv, NEW n \in Sockets
  PROVE  /\ uplink[n] \in Seq(Calls) /\ downlink[n] \in Seq(Answers \cup {Welcome})
         /\ \A x \in Elements(uplink[n]) : x.id \in 1..requestId
         /\ \A y \in Elements(downlink[n]) : y.id \in 0..requestId
         /\ requestId \in Nat
<1>1. uplink[n] \in Seq(Calls) /\ downlink[n] \in Seq(Answers \cup {Welcome}) /\ requestId \in Nat
  BY DEF IInv, ClientTypeOK
<1>2. Elements(uplink[n]) \subseteq All(uplink) /\ Elements(downlink[n]) \subseteq All(downlink)
  BY DEF All
<1>3. \A x \in All(uplink) : x.id \in 1..requestId
  BY DEF IInv, IdsInv
<1>4. \A y \in All(downlink) : y.id \in 0..requestId
  BY <1>1 DEF IInv, IdsInv, Welcome
<1> QED
  BY <1>1, <1>2, <1>3, <1>4

(* What the server writes is about what it has read last, if anything.       *)
LEMMA WriteOrder ==
  ASSUME IInv, OrderInv, NEW n \in Sockets, NEW m \in Answers \cup {Welcome}, Write(n, m),
         m.id = 0 \/ \A y \in Elements(downlink[n]) : y.id < m.id
  PROVE  /\ Sorted(downlink'[n])
         /\ Elements(downlink'[n]) \subseteq Elements(downlink[n]) \cup {m}
         /\ \A k \in Sockets \ {n} : downlink'[k] = downlink[k]
<1> DEFINE S == Answers \cup {Welcome}
<1>1. downlink[n] \in Seq(S) /\ Sorted(downlink[n]) /\ m \in S
  BY LinkTypes DEF OrderInv
<1>2. downlink \in [Sockets -> Seq(S)]
  BY DEF IInv, ClientTypeOK
<1> HIDE DEF S
<1>3. /\ Sorted(Append(downlink[n], m))
      /\ Elements(Append(downlink[n], m)) = Elements(downlink[n]) \cup {m}
  BY <1>1, SortedAppend
<1>4. \/ downlink' = downlink
      \/ /\ downlink'[n] = Append(downlink[n], m)
         /\ \A k \in Sockets \ {n} : downlink'[k] = downlink[k]
  BY <1>2 DEF Write
<1> QED
  BY <1>1, <1>3, <1>4

LEMMA ReceiveOrder ==
  ASSUME IInv, OrderInv, NEW n \in Sockets, Receive(n)
  PROVE  OrderInv' /\ \A k \in Sockets : IdsAt(k)' \subseteq IdsAt(k)
<1> DEFINE r == Head(uplink[n])
<1> DEFINE m == [kind |-> IF r.of \in Known THEN "result" ELSE "error", id |-> r.id, of |-> r.of]
<1>1. m \in Answers /\ Write(n, m)
  BY ReadStep
<1>2. m.id = r.id
  OBVIOUS
<1>3. /\ uplink'[n] = Tail(uplink[n]) /\ uplink[n] # <<>>
      /\ \A k \in Sockets \ {n} : uplink'[k] = uplink[k]
  BY DEF Receive, IInv, ClientTypeOK
<1>4. /\ Sorted(uplink'[n])
      /\ Elements(uplink[n]) = Elements(uplink'[n]) \cup {r}
      /\ r.id # 0 => \A x \in Elements(uplink'[n]) : x.id # 0 => r.id < x.id
  BY <1>3, SortedTail, LinkTypes DEF OrderInv
<1> HIDE DEF r, m
<1>5. \A y \in Elements(downlink[n]) : y.id < r.id
  BY <1>4 DEF OrderInv
<1>6. /\ Sorted(downlink'[n])
      /\ Elements(downlink'[n]) \subseteq Elements(downlink[n]) \cup {m}
      /\ \A k \in Sockets \ {n} : downlink'[k] = downlink[k]
  BY <1>1, <1>2, <1>5, WriteOrder
<1>7. \A x \in Elements(uplink'[n]) : r.id < x.id
  BY <1>4, LinkTypes
<1>8. OrderInv'
  BY <1>2, <1>3, <1>4, <1>6, <1>7 DEF OrderInv
<1>9. \A k \in Sockets : IdsAt(k)' \subseteq IdsAt(k)
  BY <1>2, <1>3, <1>4, <1>6 DEF IdsAt
<1> QED
  BY <1>8, <1>9

(* A message that the page takes precedes all that are left.                 *)
LEMMA IncomingOrder ==
  ASSUME IInv, OrderInv, NEW n \in Sockets, NEW kinds, Incoming(n, kinds)
  PROVE  /\ Sorted(downlink'[n]) /\ \A k \in Sockets \ {n} : downlink'[k] = downlink[k]
         /\ Elements(downlink[n]) = Elements(downlink'[n]) \cup {Head(downlink[n])}
         /\ Head(downlink[n]).id # 0 =>
               \A y \in Elements(downlink'[n]) : y.id # 0 => Head(downlink[n]).id < y.id
<1>1. /\ downlink'[n] = Tail(downlink[n]) /\ downlink[n] # <<>>
      /\ \A k \in Sockets \ {n} : downlink'[k] = downlink[k]
  BY DEF Incoming, IInv, ClientTypeOK
<1> DEFINE S == Answers \cup {Welcome}
<1>2. downlink[n] \in Seq(S) /\ Sorted(downlink[n])
  BY LinkTypes DEF OrderInv
<1> HIDE DEF S
<1> QED
  BY <1>1, <1>2, SortedTail

(* The request of a call comes after all that is on the connection.          *)
LEMMA CallOrder ==
  ASSUME IInv, OrderInv, NEW q \in Requests, NEW online, NEW ws, Call(q, online, ws),
         used \in Sockets,
         \A k \in Sockets : /\ Sorted(downlink'[k])
                            /\ Elements(downlink'[k]) \subseteq Elements(downlink[k])
  PROVE  OrderInv' /\ \A k \in Sockets : IdsAt(k)' \subseteq IdsAt(k) \cup {requestId + 1}
<1>1. CASE uplink' = uplink
  BY <1>1 DEF OrderInv, IdsAt
<1>2. CASE uplink' = Appended(uplink, used, Made(q))
  <2>1. requestId \in Nat /\ uplink \in [Sockets -> Seq(Calls)]
    BY DEF IInv, ClientTypeOK
  <2>2. Made(q) \in Calls /\ Made(q).id = requestId + 1
    BY <2>1 DEF Made, Calls
  <2>3. /\ uplink'[used] = Append(uplink[used], Made(q))
        /\ \A k \in Sockets \ {used} : uplink'[k] = uplink[k]
    BY <1>2, <2>1 DEF Appended
  <2>4. \A x \in Elements(uplink[used]) : x.id < Made(q).id
    BY <2>2, LinkTypes
  <2>5. \A y \in Elements(downlink[used]) : y.id < Made(q).id
    BY <2>2, LinkTypes
  <2>6. uplink[used] \in Seq(Calls) /\ Sorted(uplink[used])
    BY LinkTypes DEF OrderInv
  <2>7. Sorted(uplink'[used]) /\ Elements(uplink'[used]) = Elements(uplink[used]) \cup {Made(q)}
    BY <2>2, <2>3, <2>4, <2>6, SortedAppend
  <2>8. OrderInv'
    BY <2>3, <2>5, <2>7 DEF OrderInv
  <2>9. \A k \in Sockets : IdsAt(k)' \subseteq IdsAt(k) \cup {requestId + 1}
    BY <2>2, <2>3, <2>7 DEF IdsAt
  <2> QED
    BY <2>8, <2>9
<1> QED
  BY <1>1, <1>2, CallCases

(* A step adds at most the id of a new call to what is on a connection.      *)
LEMMA OrderStep ==
  ASSUME IInv, OrderInv, [ClientNext]_clientVars
  PROVE  OrderInv' /\ \A k \in Sockets : IdsAt(k)' \subseteq IdsAt(k) \cup {requestId + 1}
<1> DEFINE Goal == OrderInv' /\ \A k \in Sockets : IdsAt(k)' \subseteq IdsAt(k) \cup {requestId + 1}
<1>1. ASSUME NEW n \in Sockets, Establish(n) PROVE Goal
  <2>1. /\ Sorted(downlink'[n])
        /\ Elements(downlink'[n]) \subseteq Elements(downlink[n]) \cup {Welcome}
        /\ \A k \in Sockets \ {n} : downlink'[k] = downlink[k]
    BY <1>1, WriteOrder DEF Establish, Welcome
  <2>2. Welcome.id = 0 /\ uplink' = uplink
    BY <1>1 DEF Establish, Welcome
  <2>3. \A x \in Elements(uplink[n]) : 0 < x.id
    BY LinkTypes
  <2>4. OrderInv'
    BY <2>1, <2>2, <2>3 DEF OrderInv
  <2>5. \A k \in Sockets : IdsAt(k)' \subseteq IdsAt(k)
    BY <2>1, <2>2 DEF IdsAt
  <2> QED
    BY <2>4, <2>5
<1>2. ASSUME NEW n \in Sockets, Closed(n) \/ Close(n) PROVE Goal
  <2>1. Sorted(<<>>) /\ Elements(<<>>) = {}
    BY DEF Sorted, Elements
  <2>2. \A k \in Sockets : /\ uplink'[k] \in {uplink[k], <<>>}
                           /\ downlink'[k] \in {downlink[k], <<>>}
    BY <1>2 DEF Closed, Close, IInv, ClientTypeOK
  <2>3. \A k \in Sockets : /\ Sorted(uplink'[k]) /\ Sorted(downlink'[k])
                           /\ Elements(uplink'[k]) \subseteq Elements(uplink[k])
                           /\ Elements(downlink'[k]) \subseteq Elements(downlink[k])
    BY <2>1, <2>2 DEF OrderInv
  <2> QED
    BY <2>3 DEF OrderInv, IdsAt
<1>3. ASSUME NEW n \in Sockets, Settle(n) PROVE Goal
  <2>1. /\ Sorted(downlink'[n]) /\ \A k \in Sockets \ {n} : downlink'[k] = downlink[k]
        /\ Elements(downlink'[n]) \subseteq Elements(downlink[n])
        /\ uplink' = uplink
    BY <1>3, IncomingOrder DEF Settle
  <2> QED
    BY <2>1 DEF OrderInv, IdsAt
<1>4. ASSUME Connect \/ Disconnect \/ UNCHANGED clientVars PROVE Goal
  BY <1>4 DEF Connect, Disconnect, clientVars, OrderInv, IdsAt
<1>5. ASSUME NEW q \in Requests, Ask(q) PROVE Goal
  <2>1. used \in Sockets /\ UNCHANGED downlink
    BY <1>5 DEF Ask, IInv, ClientTypeOK, Sockets
  <2> QED
    BY <1>5, <2>1, CallOrder DEF Ask, OrderInv
<1>6. ASSUME NEW n \in Sockets, NEW q \in Requests, Open(n, q) PROVE Goal
  <2>1. used \in Sockets /\ UNCHANGED downlink
    BY <1>6 DEF Open, IInv, ClientTypeOK, UsedInv, Sockets
  <2> QED
    BY <1>6, <2>1, CallOrder DEF Open, OrderInv
<1>7. ASSUME NEW n \in Sockets, NEW q \in Requests, Welcomed(n, q) PROVE Goal
  <2>1. used \in Sockets
    BY <1>7 DEF Welcomed, Incoming, IInv, ClientTypeOK, UsedInv, Sockets
  <2>2. \A k \in Sockets : /\ Sorted(downlink'[k])
                           /\ Elements(downlink'[k]) \subseteq Elements(downlink[k])
    BY <1>7, IncomingOrder DEF Welcomed, OrderInv
  <2> QED
    BY <1>7, <2>1, <2>2, CallOrder DEF Welcomed
<1> QED
  BY <1>1, <1>2, <1>3, <1>4, <1>5, <1>6, <1>7, ReceiveOrder DEF ClientNext, Server

(* The call that an answer settles precedes all that the connection holds.   *)
LEMMA SettleOrder ==
  ASSUME IInv, OrderInv, NEW n \in Sockets, Settle(n)
  PROVE  /\ Head(downlink[n]).id \in IdsAt(n)
         /\ \A i \in IdsAt(n)' : Head(downlink[n]).id < i
<1> DEFINE m == Head(downlink[n])
<1>1. /\ Elements(downlink[n]) = Elements(downlink'[n]) \cup {m}
      /\ m.id # 0 => \A y \in Elements(downlink'[n]) : y.id # 0 => m.id < y.id
      /\ uplink' = uplink
  BY IncomingOrder DEF Settle
<1>2. m.id # 0
  <2>1. m \in Answers \cup {Welcome} /\ m.kind \in {"result", "error"} /\ m \in All(downlink)
    BY IncomingStep DEF Settle
  <2>2. m # Welcome
    BY <2>1 DEF Welcome
  <2> QED
    BY <2>1, <2>2 DEF IInv, IdsInv, ClientTypeOK
<1> HIDE DEF m
<1>3. \A x \in Elements(uplink[n]) : m.id < x.id
  BY <1>1 DEF OrderInv
<1>4. m.id \in IdsAt(n) /\ \A i \in IdsAt(n)' : m.id < i
  BY <1>1, <1>2, <1>3 DEF IdsAt
<1> QED
  BY <1>4 DEF m

-----------------------------------------------------------------------------
(* A connection that was not asked for is not served, and one that is not    *)
(* served yet holds nothing.                                                 *)
FreshInv ==
    \A n \in Sockets : /\ socket[n] = "none" => server[n] = "none"
                       /\ server[n] = "none" => uplink[n] = <<>> /\ downlink[n] = <<>>

LEMMA FreshStep == ASSUME IInv, FreshInv, [ClientNext]_clientVars PROVE FreshInv'
<1>1. /\ uplink \in [Sockets -> Seq(Calls)] /\ downlink \in [Sockets -> Seq(Answers \cup {Welcome})]
      /\ server \in [Sockets -> {"none", "up", "down"}]
      /\ socket \in [Sockets -> {"none", "connecting", "open", "closing", "closed"}]
      /\ used \in 0..MaxSockets
  BY DEF IInv, ClientTypeOK
<1>2. ASSUME NEW n \in Sockets, NEW m, Write(n, m)
      PROVE  \A k \in Sockets \ {n} : downlink'[k] = downlink[k]
  BY <1>1, <1>2 DEF Write
<1>3. ASSUME NEW q, NEW online, NEW ws, Call(q, online, ws)
      PROVE  \A k \in Sockets : server[k] = "none" => uplink'[k] = uplink[k]
  BY <1>1, <1>3 DEF Call
<1>4. ASSUME NEW n \in Sockets, Establish(n) PROVE FreshInv'
  BY <1>1, <1>2, <1>4 DEF Establish, FreshInv
<1>5. ASSUME NEW n \in Sockets, Receive(n) PROVE FreshInv'
  <2>1. /\ server[n] = "up" /\ \A k \in Sockets \ {n} : uplink'[k] = uplink[k] /\ downlink'[k] = downlink[k]
        /\ server' = server /\ socket' = socket
    BY <1>1, <1>2, <1>5 DEF Receive
  <2> QED
    BY <2>1 DEF FreshInv
<1>6. ASSUME NEW n \in Sockets, Closed(n) PROVE FreshInv'
  BY <1>1, <1>6 DEF Closed, FreshInv
<1>7. ASSUME NEW n \in Sockets, Close(n) PROVE FreshInv'
  BY <1>1, <1>7 DEF Close, FreshInv
<1>8. ASSUME NEW n \in Sockets, Settle(n) PROVE FreshInv'
  BY <1>1, <1>8 DEF Settle, Incoming, FreshInv
<1>9. ASSUME NEW n \in Sockets, NEW q \in Requests, Open(n, q) PROVE FreshInv'
  BY <1>1, <1>3, <1>9 DEF Open, FreshInv
<1>10. ASSUME NEW n \in Sockets, NEW q \in Requests, Welcomed(n, q) PROVE FreshInv'
  BY <1>1, <1>3, <1>10 DEF Welcomed, Incoming, FreshInv
<1>11. ASSUME NEW q \in Requests, Ask(q) PROVE FreshInv'
  BY <1>1, <1>3, <1>11 DEF Ask, FreshInv
<1>12. ASSUME Connect \/ Disconnect PROVE FreshInv'
  BY <1>1, <1>12 DEF Connect, Disconnect, FreshInv
<1>13. ASSUME UNCHANGED clientVars PROVE FreshInv'
  BY <1>13 DEF clientVars, FreshInv
<1> QED
  BY <1>4, <1>5, <1>6, <1>7, <1>8, <1>9, <1>10, <1>11, <1>12, <1>13 DEF ClientNext, Server

(* Ids are counted, one for each call. *)
LEMMA Counting ==
  ASSUME IInv, [ClientNext]_clientVars
  PROVE  requestId \in Nat /\ requestId' \in {requestId, requestId + 1}
<1>1. \A q, online, ws : Call(q, online, ws) => requestId' \in {requestId, requestId + 1}
  BY CallCases
<1> QED
  BY <1>1 DEF IInv, ClientTypeOK, ClientNext, clientVars, Server, Establish, Receive, Closed, Close,
              Settle, Incoming, Open, Welcomed, Ask, Connect, Disconnect
=============================================================================
