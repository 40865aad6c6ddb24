------------------------------- MODULE HttpApi -------------------------------
(***************************************************************************)
(* The HTTP API as its callers see it: the requests that get through to    *)
(* the service (internal/handler/handler.go) and the whole of              *)
(* internal/subscription/service.go.  A request that is refused before, or *)
(* whose token is not found, changes nothing and is left out, and so is    *)
(* the query of GetSubscriptions.  Of a response only the claim that a     *)
(* subscription is confirmed is kept.                                      *)
(*                                                                         *)
(* Handlers of several clients run concurrently with the reply consumer.   *)
(* The way from the outbox to the notifier and back, which SubscribeSaga   *)
(* models, is one step here: a reply to some saga that was started, be it  *)
(* the first, a late or a repeated one.  The sweeper is left to            *)
(* SubscribeSaga.                                                          *)
(*                                                                         *)
(* answer is what the response of the last step says is confirmed.  A      *)
(* client has at most one request in flight.                               *)
(***************************************************************************)
EXTENDS RepoCheck, ReplyConsumer

VARIABLE answer         \* repositories, {} when the last step confirmed nothing

vars == <<tableVars, brokerVars, apiVars, checkVars, rcVars, answer>>

Init ==
  /\ TablesInit
  /\ BrokerInit
  /\ ApiInit
  /\ CheckInit
  /\ ReplyConsumerInit
  /\ answer = {}

\* No response, or one that confirms nothing.
Silent == answer' = {}

\* 200, "subscription confirmed".
RespondConfirmed(r) == answer' = {r}

Idle(c) == req[c] = NoReq /\ check[c] = NoCheck

-----------------------------------------------------------------------------
(* POST /api/subscribe *)

\* Handlers that may still come to a T1.
Subscribing == {c \in Clients : check[c] # NoCheck \/ req[c].op \in {"start", "reactivate"}}

\* The request is well formed: CheckRepoExists is called and asks the cache.
SubscribeStart(c, pair) ==
  /\ "subscribe" \in Requests
  /\ Idle(c)
  /\ Cardinality(Subscribing) < Cardinality(Sagas \ Issued)   \* bound: a T1 is left
  /\ CheckGet(c, pair)
  /\ Silent
  /\ UNCHANGED <<tableVars, cmdQ, replyQ, apiVars>>

\* CheckRepoExists goes on.
SubscribeCheck(c) ==
  /\ CheckStep(c)
  /\ Silent
  /\ UNCHANGED <<tableVars, cmdQ, replyQ, apiVars>>

\* CheckRepoExists has returned a; the handler goes on with it.
CheckedAs(c, a) ==
  /\ check[c].at = a
  /\ SetCheck(c, NoCheck)
  /\ UNCHANGED <<exists, changes, verdict>>
  /\ Remember

\* The repository is not there (404), or cannot be checked (500).
SubscribeRefused(c) ==
  /\ CheckedAs(c, "no") \/ CheckedAs(c, "error")
  /\ Silent
  /\ UNCHANGED <<tableVars, brokerVars, apiVars>>

\* GetSubscriptionByEmailAndRepo and the decision on the row found: a saga, 409, or 500.
SubscribeDecides(c) ==
  /\ CheckedAs(c, "yes")
  /\ \/ SubscribeLookup(c, check[c].pair)
     \/ /\ \E i \in RowsOfPair(check[c].pair) : subs[i].status # "failed"
        /\ UNCHANGED <<tableVars, brokerVars, apiVars>>
     \/ Fault /\ UNCHANGED <<tableVars, cmdQ, replyQ, apiVars>>
  /\ Silent

\* T1 commits, or rolls back for the loser of a race.
SubscribeT1(c) ==
  /\ (\E n \in Sagas : StartConfirmation(c, n) \/ ReactivateConfirmation(c, n)) \/ AbortT1(c)
  /\ Silent
  /\ UNCHANGED checkVars

-----------------------------------------------------------------------------
(* GET /api/confirm/:token and /api/unsubscribe/:token *)

\* GetSubscriptionByToken finds the row.
TokenFound(c, t) ==
  /\ Idle(c)
  /\ ConfirmLookup(c, t) \/ UnsubscribeLookup(c, t)
  /\ Silent
  /\ UNCHANGED checkVars

\* Mutant of ConfirmSteps: a row confirmed before is answered for without RegisterRepo.
ConfirmStepsTrustRow(c) ==
  /\ \/ ConfirmUpdate(c) /\ Silent
     \/ ConfirmRegister(c) /\ IF faults' # faults THEN Silent ELSE RespondConfirmed(req[c].repo)
     \/ /\ req[c].op = "register"
        /\ \E i \in Sagas : subs[i] # NoSub /\ subs[i].confirmed
        /\ Finish(c)
        /\ RespondConfirmed(req[c].repo)
        /\ UNCHANGED <<tableVars, brokerVars, tracked>>
  /\ UNCHANGED checkVars

ConfirmSteps(c) ==
  /\ \/ ConfirmUpdate(c) /\ Silent
     \/ ConfirmRegister(c) /\ IF faults' # faults THEN Silent ELSE RespondConfirmed(req[c].repo)
  /\ UNCHANGED checkVars

UnsubscribeSteps(c) ==
  /\ UnsubscribeDelete(c)
  /\ Silent
  /\ UNCHANGED checkVars

-----------------------------------------------------------------------------
(* The rest of the system. *)

\* Relay, broker and notifier bring back a reply to a saga: the answer it waits for, or
\* one more, as a command delivered twice is answered twice.
ReplyArrives(s) ==
  /\ sagas[s] # NoSaga
  /\ Len(replyQ) < MaxQueue
  /\ \E status \in ReplyStatus : replyQ' = Append(replyQ, [saga |-> s, status |-> status])
  /\ UNCHANGED <<tableVars, cmdQ, faults, rcVars>>

MonolithCrash ==
  /\ Fault
  /\ ApiReset
  /\ ReplyConsumerReset
  /\ check' = [c \in Clients |-> NoCheck]
  /\ Silent
  /\ UNCHANGED <<tableVars, cmdQ, replyQ, exists, changes, verdict>>
  /\ Remember

-----------------------------------------------------------------------------
\* A client sends a request.
Client(c) ==
  /\ \/ \E pair \in Emails \X Repos : SubscribeStart(c, pair)
     \/ \E t \in Sagas : TokenFound(c, t)
  /\ UNCHANGED rcVars

\* The handler of client c runs on.
Handler(c) ==
  /\ \/ SubscribeCheck(c) \/ SubscribeRefused(c) \/ SubscribeDecides(c) \/ SubscribeT1(c)
     \/ ConfirmSteps(c) \/ UnsubscribeSteps(c)
  /\ UNCHANGED rcVars

Replies ==
  /\ ReplyConsumerNext \/ \E s \in Sagas : ReplyArrives(s)
  /\ Silent
  /\ UNCHANGED <<apiVars, checkVars>>

Expiry(r) == VerdictExpires(r) /\ Silent /\ UNCHANGED <<tableVars, brokerVars, apiVars, rcVars>>

GitHub(r) == RepoChanges(r) /\ Silent /\ UNCHANGED <<tableVars, brokerVars, apiVars, rcVars>>

Next ==
  \/ \E c \in Clients : Client(c) \/ Handler(c)
  \/ Replies
  \/ \E r \in Repos : Expiry(r) \/ GitHub(r)
  \/ MonolithCrash

Spec == Init /\ [][Next]_vars

\* A handler that was started is scheduled, and a cache entry's time runs out.
Fairness ==
  /\ \A c \in Clients : WF_vars(Handler(c))
  /\ \A r \in Repos : WF_vars(Expiry(r))

FairSpec == Spec /\ Fairness

-----------------------------------------------------------------------------
TypeOK ==
  /\ TablesTypeOK
  /\ cmdQ = <<>>
  /\ replyQ \in Seq(Reply)
  /\ faults \in 0..MaxFaults
  /\ ApiTypeOK
  /\ CheckTypeOK
  /\ ReplyConsumerTypeOK
  /\ answer \subseteq Repos

-----------------------------------------------------------------------------
(* Safety. *)

\* CheckRepoExists says of a repository only what was true at some time since nobody
\* was checking it and nothing was cached of it: neither an error of Redis or GitHub,
\* nor rate limiting, nor a concurrent call makes up a verdict, and none outlives the
\* cache entries and calls that carry it (CachedClient.CheckRepoExists,
\* Client.CheckRepoExists).
VerdictHasGrounds ==
  \A c \in Clients :
    /\ check[c].at = "yes" => <<CheckedRepo(c), TRUE>> \in seen
    /\ check[c].at = "no" => <<CheckedRepo(c), FALSE>> \in seen

\* Who was told that the subscription is confirmed has its repository tracked, also
\* after an earlier Confirm was cut off between its UPDATE and RegisterRepo: opening
\* the link again repairs it (service.go, Confirm).
ConfirmedIsTracked == answer \subseteq tracked

\* Saga s has not been given up, and its subscription has not been deleted.
Live(s) == sagas[s] # NoSaga /\ ~Compensated(s) /\ IsRow(sagas[s].sub)

\* As long as nothing fails, a live saga has its pair to itself: there is one row of the
\* pair, it carries the token of that saga, so the link that was mailed works, and it is
\* not marked failed, so nobody takes it over.  Two requests that both found no row, or
\* both found a failed one, cannot both get through (UNIQUE of CreateInTx, the status
\* guard of ReactivateInTx; the lookup in Subscribe is only a hint), and a late or
\* repeated reply to an earlier saga of the row does not fail the revived one (the state
\* guard of HandleReply; MarkFailed itself asks for nothing but the row's id).  This is
\* about handlers and the reply consumer: after a fault, or from a sweep that took so
\* long that the row was revived under it, a late MarkFailed does hit the revived row
\* (SubscribeSaga, ConfirmedStaysConfirmed).
LiveSagaOwnsPair ==
  faults = 0 =>
    \A s \in Sagas : Live(s) =>
      LET i == sagas[s].sub
      IN subs[i].token = s /\ subs[i].status # "failed" /\ RowsOfPair(subs[i].pair) = {i}

-----------------------------------------------------------------------------
(* Liveness, under FairSpec. *)

\* Every request comes to an end, however often GitHub answers 429 (doWithRetry): a
\* client is always idle again.
EveryRequestEnds == \A c \in Clients : []<>Idle(c)

\* A repository that GitHub has for good is not refused for good: a cached "false",
\* also one written late by a slow call, goes away (cached_client.go, cache.go Set).
RefusalEnds ==
  \A r \in Repos : <>[](r \in exists) => <>[](verdict[r] # "false")

=============================================================================
