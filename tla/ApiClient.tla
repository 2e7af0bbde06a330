----------------------------- MODULE ApiClient -----------------------------
(***************************************************************************)
(* The desktop client's requests (desktop/src/ApiClient.cpp), as every     *)
(* page sees them. A request is sent at once and never waits for another;  *)
(* Qt runs several connections, so the daemon serves requests in any       *)
(* order, and their replies are handled by the event loop in any order. No *)
(* transfer timeout is set. A reply that carries an error, and a broken    *)
(* connection, end in apiError or networkError, which no page handles: the *)
(* page never hears of its request again.                                  *)
(*                                                                         *)
(* A module that EXTENDS this one says what each request does at the       *)
(* daemon and what the page does with its reply.                           *)
(***************************************************************************)
EXTENDS Naturals, FiniteSets

CONSTANTS
  MaxSame,    \* bound: identical requests in flight
  MaxCalls,   \* bound: requests in flight after the user's action
  MaxClicks,  \* bound: what the user does on the page
  Unanswered  \* what a request carries before it is answered

ASSUME ApiAssumption == MaxSame \in Nat \ {0} /\ MaxCalls \in Nat /\ MaxClicks \in Nat

VARIABLES
  calls,  \* requests sent and not settled: what is asked (op, arg), which of
          \*   the identical ones it is (n), where it is, what the answer says
  clicks  \* counts the user's actions

Click ==
  /\ clicks < MaxClicks
  /\ clicks' = clicks + 1
  /\ Cardinality(calls') <= MaxCalls

Request(op, arg) == [op |-> op, arg |-> arg]

Asks(c, op, arg) == c.op = op /\ c.arg = arg

Free(r) == {n \in 1..MaxSame : ~ \E c \in calls : Asks(c, r.op, r.arg) /\ c.n = n}

Fresh(r) == [op |-> r.op, arg |-> r.arg, n |-> CHOOSE n \in Free(r) : TRUE,
             at |-> "sent", data |-> Unanswered]

(* doGet, doPost, doDelete *)
Send(requests) ==
  /\ \A r \in requests : Free(r) # {}
  /\ calls' = calls \union {Fresh(r) : r \in requests}

(* The daemon answers c; what it says is computed now.                       *)
Answered(c, data) == [op |-> c.op, arg |-> c.arg, n |-> c.n,
                      at |-> "answered", data |-> data]

Answer(c, data) ==
  /\ c.at = "sent"
  /\ calls' = (calls \ {c}) \union {Answered(c, data)}

(* handleReply, onSuccess: the reply is handled, which may send requests.    *)
Settle(c, requests) ==
  /\ c.at = "answered"
  /\ \A r \in requests : Free(r) # {}
  /\ calls' = (calls \ {c}) \union {Fresh(r) : r \in requests}

(* handleReply, the error branches: before or after the daemon did the work. *)
Fail(c) == calls' = calls \ {c}

=============================================================================
