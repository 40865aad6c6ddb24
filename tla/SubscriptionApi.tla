--------------------------- MODULE SubscriptionApi ---------------------------
(***************************************************************************)
(* internal/subscription/service.go and the T1 transactions of             *)
(* internal/orchestrator/orchestrator.go (broker transport): the HTTP      *)
(* requests that change state.  A request runs on its own goroutine; each  *)
(* client has at most one in flight.  Every store call of a handler is a   *)
(* step, so what a handler read may be stale when it writes.               *)
(*                                                                         *)
(* Requests that the handler rejects before any write (invalid input, a    *)
(* repository GitHub does not know, a duplicate, an unknown token) change  *)
(* nothing and are not steps here; HttpApi has them.                       *)
(***************************************************************************)
EXTENDS SagaTables, RabbitBroker

CONSTANTS Clients,      \* concurrent callers of the API
          Requests      \* the requests they make

ASSUME RequestsAssumption == Requests \subseteq {"subscribe", "confirm", "unsubscribe"}

VARIABLES req,          \* the store call each client's handler makes next
          tracked       \* repositories, the table of tracked repos

apiVars == <<req, tracked>>

NoReq == [op |-> "none"]

Req == [op : {"start"}, pair : Emails \X Repos]
         \cup [op : {"reactivate"}, sub : Sagas]
         \cup [op : {"confirm"}, token : Sagas, repo : Repos]
         \cup [op : {"register"}, repo : Repos]
         \cup [op : {"unsubscribe"}, token : Sagas]

ApiInit ==
  /\ req = [c \in Clients |-> NoReq]
  /\ tracked = {}

ApiTypeOK ==
  /\ req \in [Clients -> Req \cup {NoReq}]
  /\ tracked \subseteq Repos

\* A token some T1 generated: the client has it from the e-mail or from
\* GET /subscriptions, and may use it long after it was replaced.
Issued == {s \in Sagas : sagas[s] # NoSaga}

\* The number of the next T1.
NextSaga(n) == sagas[n] = NoSaga /\ \A m \in 1..(n - 1) : sagas[m] # NoSaga

Continue(c, r) == req' = [req EXCEPT ![c] = r]

\* The handler ends: with its answer, or with a 500 after a store error.
Finish(c) == Continue(c, NoReq)

-----------------------------------------------------------------------------
\* Subscribe looks up the pair: no row starts a saga, a failed row is revived,
\* any other row is a duplicate.
SubscribeLookup(c, pair) ==
  /\ "subscribe" \in Requests
  /\ req[c] = NoReq
  /\ \E n \in Sagas : NextSaga(n)    \* bound: a T1 is left
  /\ \/ RowsOfPair(pair) = {} /\ Continue(c, [op |-> "start", pair |-> pair])
     \/ \E i \in RowsOfPair(pair) :
          subs[i].status = "failed" /\ Continue(c, [op |-> "reactivate", sub |-> i])
  /\ UNCHANGED <<tableVars, brokerVars, tracked>>

\* T1 of StartConfirmation: subscription, saga and command in one transaction.
StartConfirmation(c, n) ==
  /\ req[c].op = "start"
  /\ NextSaga(n)
  /\ CreateSub(n, req[c].pair)
  /\ EnqueueConfirmation(n, n)
  /\ Finish(c)
  /\ UNCHANGED <<brokerVars, tracked>>

\* T1 of ReactivateConfirmation.
ReactivateConfirmation(c, n) ==
  /\ req[c].op = "reactivate"
  /\ NextSaga(n)
  /\ ReactivateSub(n, req[c].sub)
  /\ EnqueueConfirmation(n, req[c].sub)
  /\ Finish(c)
  /\ UNCHANGED <<brokerVars, tracked>>

\* T1 rolls back: the pair has a row by now, the row is not failed any more, or
\* the database fails.
AbortT1(c) ==
  /\ req[c].op \in {"start", "reactivate"}
  /\ \/ req[c].op = "start" /\ RowsOfPair(req[c].pair) # {} /\ NoFault
     \/ req[c].op = "reactivate" /\ subs[req[c].sub].status # "failed" /\ NoFault
     \/ Fault
  /\ Finish(c)
  /\ UNCHANGED <<tableVars, cmdQ, replyQ, tracked>>

-----------------------------------------------------------------------------
\* Confirm reads the row of the token; a confirmed row goes straight to RegisterRepo.
ConfirmLookup(c, t) ==
  /\ "confirm" \in Requests
  /\ req[c] = NoReq
  /\ \E i \in RowsOfToken(t) :
       Continue(c, IF subs[i].confirmed
                   THEN [op |-> "register", repo |-> subs[i].pair[2]]
                   ELSE [op |-> "confirm", token |-> t, repo |-> subs[i].pair[2]])
  /\ UNCHANGED <<tableVars, brokerVars, tracked>>

\* ConfirmSubscription, then RegisterRepo of the repository read before.
ConfirmUpdate(c) ==
  /\ req[c].op = "confirm"
  /\ \/ /\ ConfirmSub(req[c].token)
        /\ Continue(c, [op |-> "register", repo |-> req[c].repo])
        /\ NoFault
     \/ Finish(c) /\ Fault /\ UNCHANGED subs
  /\ UNCHANGED <<sagas, outbox, stale, updatedAt, cmdQ, replyQ, tracked>>

ConfirmRegister(c) ==
  /\ req[c].op = "register"
  /\ \/ tracked' = tracked \cup {req[c].repo} /\ NoFault
     \/ UNCHANGED tracked /\ Fault
  /\ Finish(c)
  /\ UNCHANGED <<tableVars, cmdQ, replyQ>>

-----------------------------------------------------------------------------
UnsubscribeLookup(c, t) ==
  /\ "unsubscribe" \in Requests
  /\ req[c] = NoReq
  /\ RowsOfToken(t) # {}
  /\ Continue(c, [op |-> "unsubscribe", token |-> t])
  /\ UNCHANGED <<tableVars, brokerVars, tracked>>

UnsubscribeDelete(c) ==
  /\ req[c].op = "unsubscribe"
  /\ \/ DeleteSub(req[c].token) /\ NoFault
     \/ UNCHANGED subs /\ Fault
  /\ Finish(c)
  /\ UNCHANGED <<sagas, outbox, stale, updatedAt, cmdQ, replyQ, tracked>>

-----------------------------------------------------------------------------
\* The monolith dies: requests in flight get no answer.
ApiReset == req' = [c \in Clients |-> NoReq] /\ UNCHANGED tracked

\* A handler that was started runs on.
ApiStep(c) ==
  \/ \E n \in Sagas : StartConfirmation(c, n) \/ ReactivateConfirmation(c, n)
  \/ AbortT1(c)
  \/ ConfirmUpdate(c)
  \/ ConfirmRegister(c)
  \/ UnsubscribeDelete(c)

\* A client makes a request.
ApiRequest(c) ==
  \/ \E pair \in Emails \X Repos : SubscribeLookup(c, pair)
  \/ \E t \in Issued : ConfirmLookup(c, t) \/ UnsubscribeLookup(c, t)

=============================================================================
