------------------------------- MODULE CallOnce -------------------------------
(***************************************************************************)
(* What a page is promised of its JSON-RPC calls, whatever becomes of its    *)
(* connections: each call has an id of its own, is carried out at most once, *)
(* and its promise is settled at most once, by the answer to that very call. *)
(* A request or an answer may be lost; the call then stays unsettled.        *)
(***************************************************************************)
EXTENDS Naturals

CONSTANTS
    Requests,  \* what a page may ask for
    Known      \* the requests that the server carries out; the others get an error

VARIABLES
    made,      \* number of calls made; their ids are 1, 2, ...
    waiting,   \* the calls whose promise is not settled
    requests,  \* the calls on their way to the server
    answers    \* the answers on their way to the page

absVars == <<made, waiting, requests, answers>>

AnswerTo(c) == [kind |-> IF c.of \in Known THEN "result" ELSE "error", id |-> c.id, of |-> c.of]

Init == made = 0 /\ waiting = {} /\ requests = {} /\ answers = {}

(* The client rejects a call at once, its id is spent. *)
Refuse == made' = made + 1 /\ UNCHANGED <<waiting, requests, answers>>

Make(q) ==
    LET c == [id |-> made + 1, of |-> q]
    IN /\ made' = made + 1
       /\ waiting' = waiting \cup {c}
       /\ requests' \in {requests, requests \cup {c}}
       /\ UNCHANGED answers

Execute(c) ==
    /\ requests' = requests \ {c}
    /\ answers' = answers \cup {AnswerTo(c)}
    /\ UNCHANGED <<made, waiting>>

Settle(a) ==
    /\ [id |-> a.id, of |-> a.of] \in waiting
    /\ waiting' = waiting \ {[id |-> a.id, of |-> a.of]}
    /\ answers' = answers \ {a}
    /\ UNCHANGED <<made, requests>>

Lose ==
    /\ requests' \in SUBSET requests
    /\ answers' \in SUBSET answers
    /\ UNCHANGED <<made, waiting>>

Next ==
    \/ Refuse
    \/ \E q \in Requests : Make(q)
    \/ \E c \in requests : Execute(c)
    \/ \E a \in answers : Settle(a)
    \/ Lose

Spec == Init /\ [][Next]_absVars
=============================================================================
