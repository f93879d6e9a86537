------------------------------- MODULE Relay -------------------------------
(***************************************************************************)
(* relay.Relay: the eIM passes the ES9+ messages of indirect downloads on  *)
(* to the SM-DP+ of their transaction.  The routes are behind a mutex; the *)
(* posts are not, so requests overlap.                                     *)
(*                                                                         *)
(* A message is what the relay looks at: the endpoint and, if they are in  *)
(* it, a transaction and an address (sequences of length at most one).     *)
(***************************************************************************)
EXTENDS Integers, Sequences, FiniteSets, Functions, TLC

CONSTANT Transactions  \* the ids an SM-DP+ may give a session

VARIABLES
  byTransaction,  \* Relay.byTransaction
  serving,        \* requests being relayed: [Device, Msg, To, At, Answer, Wanted]
  sessions        \* external: the SM-DP+ of each ES9+ session, by transaction

relayVars == <<byTransaction, serving, sessions>>

Override(f, g) == [k \in DOMAIN f \cup DOMAIN g |-> IF k \in DOMAIN f THEN f[k] ELSE g[k]]
Put(f, key, value) == [k \in DOMAIN f \cup {key} |-> IF k = key THEN value ELSE f[k]]
Drop(f, key) == Restrict(f, DOMAIN f \ {key})

NoAnswer == [Kind |-> "none", Why |-> "", Op |-> <<>>, Acks |-> {}, Transaction |-> <<>>, Size |-> 0]
Error(why) == [NoAnswer EXCEPT !.Kind = "error", !.Why = why]
Empty == [NoAnswer EXCEPT !.Kind = "empty"]
Ok == [NoAnswer EXCEPT !.Kind = "ok"]

smdpForTransaction(tx) ==
  IF tx # <<>> /\ tx[1] \in DOMAIN byTransaction THEN <<byTransaction[tx[1]]>> ELSE <<>>

(* A fault: a route that exists is kept. *)
rememberFirst(routes, tx, smdp) ==
  IF tx = <<>> \/ tx[1] \in DOMAIN routes THEN routes ELSE Put(routes, tx[1], smdp)

rememberTransaction(routes, tx, smdp) ==
  IF tx = <<>> THEN routes ELSE Put(routes, tx[1], smdp)

forgetTransaction(routes, tx) == Drop(routes, tx[1])

(* Where each endpoint posts to; no address, no post. *)
RouteOf(msg) ==
  CASE msg.Endpoint = "InitiateAuthentication" -> msg.Address
    [] msg.Endpoint = "HandleNotification" ->
         IF msg.Address # <<>> THEN msg.Address ELSE smdpForTransaction(msg.Transaction)
    [] OTHER -> smdpForTransaction(msg.Transaction)

(* What a post that went well does to the routes. *)
Rerouted(request) ==
  CASE request.Msg.Endpoint = "InitiateAuthentication" ->
         rememberTransaction(rememberTransaction(byTransaction, request.Msg.Transaction, request.To),
                             request.Answer.Transaction, request.To)
    [] request.Msg.Endpoint \in {"AuthenticateClient", "GetBoundProfilePackage"} ->
         rememberTransaction(byTransaction, request.Answer.Transaction, request.To)
    [] request.Msg.Endpoint = "CancelSession" ->
         forgetTransaction(byTransaction, request.Msg.Transaction)
    [] OTHER -> byTransaction

(* handleRelay: a notification is answered with an empty body. *)
relayResponse(request) ==
  IF request.Msg.Endpoint = "HandleNotification" /\ request.Answer.Kind = "ok"
  THEN Empty ELSE request.Answer

Request(d, msg) ==
  [Device |-> d, Msg |-> msg, To |-> RouteOf(msg)[1], At |-> "posted",
   Answer |-> NoAnswer, Wanted |-> TRUE]

(***************************************************************************)
(* The SM-DP+ (external).  It answers in a session it opened, or refuses.  *)
(* No id is given again while a message with it is under way or a device   *)
(* is in a session with it (taken); routes of old sessions do not count.   *)
(***************************************************************************)
InSession(request) ==
  /\ request.Msg.Transaction # <<>>
  /\ request.Msg.Transaction[1] \in DOMAIN sessions
  /\ sessions[request.Msg.Transaction[1]] = request.To

Returned(request, answer) ==
  serving' = (serving \ {request}) \cup {[request EXCEPT !.At = "returned", !.Answer = answer]}

SmdpAnswer(request, taken) ==
  /\ request.At = "posted"
  /\ \/ /\ request.Msg.Endpoint = "InitiateAuthentication"
        /\ \E t \in Transactions \ taken :
             /\ Returned(request, [Ok EXCEPT !.Transaction = <<t>>])
             /\ sessions' = Put(sessions, t, request.To)
     \/ /\ request.Msg.Endpoint = "HandleNotification"
        /\ Returned(request, Ok)
        /\ UNCHANGED sessions
     \/ /\ request.Msg.Endpoint \in {"AuthenticateClient", "GetBoundProfilePackage"}
        /\ Returned(request, IF InSession(request)
                             THEN [Ok EXCEPT !.Transaction = request.Msg.Transaction]
                             ELSE Error("unknown transaction"))
        /\ UNCHANGED sessions
     \/ /\ request.Msg.Endpoint = "CancelSession"
        /\ Returned(request, Ok)
        /\ sessions' = Drop(sessions, request.Msg.Transaction[1])
  /\ UNCHANGED byTransaction

SmdpRefuse(request) ==
  /\ request.At = "posted"
  /\ Returned(request, Error("refused"))
  /\ UNCHANGED <<byTransaction, sessions>>

(* The end of InitiateAuthentication, AuthenticateClient and the others. *)
RelayEnd(request) ==
  /\ request.At = "returned"
  /\ serving' = serving \ {request}
  /\ byTransaction' = IF request.Answer.Kind = "ok" THEN Rerouted(request) ELSE byTransaction
  /\ UNCHANGED sessions

(* The caller has gone and its context ends the post. *)
Abandon(request) ==
  /\ ~request.Wanted /\ request.At = "posted"
  /\ serving' = serving \ {request}
  /\ UNCHANGED <<byTransaction, sessions>>
=============================================================================
