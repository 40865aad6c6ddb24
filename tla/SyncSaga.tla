------------------------------ MODULE SyncSaga ------------------------------
(***************************************************************************)
(* The subscribe saga over the gRPC transport (ADR-011): the handler of    *)
(* Subscribe writes subscription and saga, without an outbox row, calls    *)
(* the notifier and advances the saga itself.  The sweeper runs as ever.   *)
(*                                                                         *)
(* The handler (orchestrator.go dispatchSync and compensateSync, by the    *)
(* op of req[c]; all its statements use the context of the HTTP request):  *)
(*                                                                         *)
(*   call        waits for the notifier's answer                           *)
(*   complete    UpdateState(completed)                                    *)
(*   compensate  UpdateState(compensating)                                 *)
(*   markFailed  MarkFailed                                                *)
(*   fail        UpdateState(failed)                                       *)
(*                                                                         *)
(* When the HTTP client disconnects that context is cancelled: the call    *)
(* ends with an error, and no statement after it succeeds.                 *)
(*                                                                         *)
(* The notifier (cmd/notifier/grpc.go) serves each call on a goroutine of  *)
(* its own, which runs on when the caller has stopped waiting.             *)
(***************************************************************************)
EXTENDS SubscriptionApi, Sweeper

VARIABLES rpc,          \* what the notifier does for the call of each saga
          sent,         \* message ids in the notifier's Redis
          gone,         \* sagas whose HTTP client disconnected
          mailed,       \* history: sagas whose confirmation reached the mailbox
          refused,      \* history: sagas whose confirmation the notifier gave up on
          abandoned     \* history: sagas whose handler met a failing statement or a crash

syncVars == <<rpc, sent, gone, mailed, refused, abandoned>>

vars == <<tableVars, brokerVars, sweeperVars, apiVars, syncVars>>

InSync(c) == req[c].op \in {"call", "complete", "compensate", "markFailed", "fail"}

SyncReq ==
  Req \cup [op : {"call", "complete", "compensate", "markFailed", "fail"}, saga : Sagas]

Init ==
  /\ TablesInit
  /\ BrokerInit
  /\ SweeperInit
  /\ ApiInit
  /\ rpc = [s \in Sagas |-> "none"]
  /\ sent = {}
  /\ gone = {}
  /\ mailed = {}
  /\ refused = {}
  /\ abandoned = {}

-----------------------------------------------------------------------------
(* internal/orchestrator/orchestrator.go *)

\* createSubscriptionAndSaga commits saga n for row i, and the call is made.
BeginCall(c, n, i) ==
  /\ CreateSaga(n, i)
  /\ rpc' = [rpc EXCEPT ![n] = "check"]
  /\ Continue(c, [op |-> "call", saga |-> n])
  /\ UNCHANGED <<outbox, brokerVars, sweeperVars, tracked, sent, gone, mailed, refused, abandoned>>

StartConfirmationSync(c, n) ==
  /\ req[c].op = "start"
  /\ NextSaga(n)
  /\ CreateSub(n, req[c].pair)
  /\ BeginCall(c, n, n)

ReactivateConfirmationSync(c, n) ==
  /\ req[c].op = "reactivate"
  /\ NextSaga(n)
  /\ ReactivateSub(n, req[c].sub)
  /\ BeginCall(c, n, req[c].sub)

\* The handler of c goes on with op for its saga.
Advance(c, op) == Continue(c, [op |-> op, saga |-> req[c].saga])

\* The notifier answered OK, or with an error status.
CallReturns(c) ==
  /\ req[c].op = "call"
  /\ LET s == req[c].saga
     IN \/ rpc[s] = "ok" /\ Advance(c, "complete")
        \/ rpc[s] = "err" /\ Advance(c, "compensate")
  /\ UNCHANGED <<tableVars, brokerVars, sweeperVars, tracked, syncVars>>

\* The caller stops waiting.  The notifier is at any point of the call and goes on, or
\* it has not seen the call and never will.
HangUp(c) ==
  /\ req[c].op = "call"
  /\ Advance(c, "compensate")
  /\ \/ UNCHANGED rpc
     \/ rpc[req[c].saga] = "check" /\ rpc' = [rpc EXCEPT ![req[c].saga] = "none"]
  /\ UNCHANGED <<tableVars, cmdQ, replyQ, sweeperVars, tracked, sent, gone, mailed, refused, abandoned>>

\* The call fails on the way: the timeout of ten seconds, or a lost connection.
CallFails(c) == HangUp(c) /\ Fault

\* The call ends because the HTTP client has gone.
CallCancelled(c) == HangUp(c) /\ req[c].saga \in gone /\ NoFault

\* A statement of the handler runs in the context of the request.
Connected(c) == req[c].saga \notin gone

CompleteSync(c) ==
  /\ req[c].op = "complete"
  /\ Connected(c)
  /\ UpdateState(req[c].saga, "completed")
  /\ Finish(c)
  /\ UNCHANGED <<subs, outbox, brokerVars, sweeperVars, tracked, syncVars>>

CompensateSync(c) ==
  /\ req[c].op = "compensate"
  /\ Connected(c)
  /\ UpdateState(req[c].saga, "compensating")
  /\ Advance(c, "markFailed")
  /\ UNCHANGED <<subs, outbox, brokerVars, sweeperVars, tracked, syncVars>>

\* Mutant of MarkFailedSync: an error of MarkFailed is passed over.
MarkFailedSyncGoesOn(c) ==
  /\ req[c].op = "markFailed"
  /\ Connected(c)
  /\ \/ MarkFailed(sagas[req[c].saga].sub) /\ MarkFailedHits(sagas[req[c].saga].sub) /\ NoFault
     \/ UNCHANGED subs /\ Fault
  /\ Advance(c, "fail")
  /\ UNCHANGED <<sagas, outbox, stale, updatedAt, cmdQ, replyQ, sweeperVars, tracked, syncVars>>

\* Mutant of MarkFailedSync: the saga is stamped compensating once more.
MarkFailedSyncRestamps(c) ==
  /\ req[c].op = "markFailed"
  /\ Connected(c)
  /\ MarkFailedHits(sagas[req[c].saga].sub)
  /\ MarkFailed(sagas[req[c].saga].sub)
  /\ UpdateState(req[c].saga, "compensating")
  /\ Advance(c, "fail")
  /\ UNCHANGED <<outbox, brokerVars, sweeperVars, tracked, syncVars>>

\* MarkFailed; a subscription deleted meanwhile is an error and ends the handler.
MarkFailedSync(c) ==
  /\ req[c].op = "markFailed"
  /\ Connected(c)
  /\ LET i == sagas[req[c].saga].sub
     IN \/ MarkFailedHits(i) /\ MarkFailed(i) /\ Advance(c, "fail")
        \/ ~MarkFailedHits(i) /\ UNCHANGED subs /\ Finish(c)
  /\ UNCHANGED <<sagas, outbox, stale, updatedAt, brokerVars, sweeperVars, tracked, syncVars>>

FailSync(c) ==
  /\ req[c].op = "fail"
  /\ Connected(c)
  /\ UpdateState(req[c].saga, "failed")
  /\ Finish(c)
  /\ UNCHANGED <<subs, outbox, brokerVars, sweeperVars, tracked, syncVars>>

\* A statement fails, and the handler ends with the error.
Abandon(c) ==
  /\ InSync(c)
  /\ req[c].op # "call"
  /\ Fault
  /\ abandoned' = abandoned \cup {req[c].saga}
  /\ Finish(c)
  /\ UNCHANGED <<tableVars, cmdQ, replyQ, sweeperVars, tracked, rpc, sent, gone, mailed, refused>>

\* The HTTP client closes its connection while the handler is at work.
Disconnect(c) ==
  /\ InSync(c)
  /\ Connected(c)
  /\ Fault
  /\ gone' = gone \cup {req[c].saga}
  /\ UNCHANGED <<tableVars, cmdQ, replyQ, sweeperVars, apiVars, rpc, sent, mailed, refused, abandoned>>

\* The next statement fails with the cancelled context, and the handler ends.
StatementCancelled(c) ==
  /\ InSync(c)
  /\ req[c].op # "call"
  /\ ~Connected(c)
  /\ Finish(c)
  /\ UNCHANGED <<tableVars, brokerVars, sweeperVars, tracked, syncVars>>

-----------------------------------------------------------------------------
(* cmd/notifier/grpc.go, SendConfirmation *)

\* Mutant of GrpcCheck: the id is marked before the mail is sent.
GrpcCheckMarksFirst(s) ==
  /\ rpc[s] = "check"
  /\ rpc' = [rpc EXCEPT ![s] = IF s \in sent THEN "ok" ELSE "send"]
  /\ sent' = sent \cup {s}
  /\ UNCHANGED <<tableVars, brokerVars, sweeperVars, apiVars, gone, mailed, refused, abandoned>>

\* AlreadyProcessed.  Each token is called for once, so it is not there; a Redis error
\* has the same effect: the mail is sent.
GrpcCheck(s) ==
  /\ rpc[s] = "check"
  /\ rpc' = [rpc EXCEPT ![s] = IF s \in sent THEN "ok" ELSE "send"]
  /\ UNCHANGED <<tableVars, brokerVars, sweeperVars, apiVars, sent, gone, mailed, refused, abandoned>>

GrpcSendOk(s) ==
  /\ rpc[s] = "send"
  /\ rpc' = [rpc EXCEPT ![s] = "mark"]
  /\ mailed' = mailed \cup {s}
  /\ UNCHANGED <<tableVars, brokerVars, sweeperVars, apiVars, sent, gone, refused, abandoned>>

\* Mutant of GrpcSendErr: the SMTP error is logged and OK is returned.
GrpcSendErrSwallowed(s) ==
  /\ rpc[s] = "send"
  /\ rpc' = [rpc EXCEPT ![s] = "ok"]
  /\ UNCHANGED <<tableVars, brokerVars, sweeperVars, apiVars, sent, gone, mailed, refused, abandoned>>

\* SMTP reports an error, even though the server may have taken the message: the
\* notifier gives up and answers Unavailable.
GrpcSendErr(s) ==
  /\ rpc[s] = "send"
  /\ rpc' = [rpc EXCEPT ![s] = "err"]
  /\ refused' = refused \cup {s}
  /\ \/ UNCHANGED mailed /\ NoFault
     \/ mailed' = mailed \cup {s} /\ Fault
  /\ UNCHANGED <<tableVars, cmdQ, replyQ, sweeperVars, apiVars, sent, gone, abandoned>>

\* The handler of saga s waits for the answer, so the context of the call is alive.
Awaited(s) == \E c \in Clients : req[c].op = "call" /\ req[c].saga = s

\* MarkProcessed; an error, as there may be when nobody waits any more, is only logged.
GrpcMark(s) ==
  /\ rpc[s] = "mark"
  /\ rpc' = [rpc EXCEPT ![s] = "ok"]
  /\ \/ sent' = sent \cup {s} /\ NoFault
     \/ UNCHANGED sent /\ Fault
     \/ UNCHANGED sent /\ ~Awaited(s) /\ NoFault
  /\ UNCHANGED <<tableVars, cmdQ, replyQ, sweeperVars, apiVars, gone, mailed, refused, abandoned>>

\* The notifier dies: the calls in flight fail.
GrpcCrash ==
  /\ \E s \in Sagas : rpc[s] \in {"check", "send", "mark"}
  /\ Fault
  /\ rpc' = [s \in Sagas |-> IF rpc[s] \in {"check", "send", "mark"} THEN "err" ELSE rpc[s]]
  /\ UNCHANGED <<tableVars, cmdQ, replyQ, sweeperVars, apiVars, sent, gone, mailed, refused, abandoned>>

-----------------------------------------------------------------------------
\* The steps of a handler that was started.  Requests other than Subscribe, and the
\* abort of a T1, are those of SubscriptionApi.
Handler(c) ==
  \/ \E n \in Sagas : StartConfirmationSync(c, n) \/ ReactivateConfirmationSync(c, n)
  \/ (AbortT1(c) \/ ConfirmUpdate(c) \/ ConfirmRegister(c) \/ UnsubscribeDelete(c))
       /\ UNCHANGED <<sweeperVars, syncVars>>
  \/ CallReturns(c)
  \/ CallCancelled(c)
  \/ StatementCancelled(c)
  \/ CompleteSync(c)
  \/ CompensateSync(c)
  \/ MarkFailedSync(c)
  \/ FailSync(c)

Server(s) == GrpcCheck(s) \/ GrpcSendOk(s) \/ GrpcSendErr(s) \/ GrpcMark(s)

Client(c) == ApiRequest(c) /\ UNCHANGED <<sweeperVars, syncVars>>

Sweep == SweeperNext /\ UNCHANGED <<apiVars, syncVars>>

Clock(s) == Age(s) /\ UNCHANGED <<brokerVars, sweeperVars, apiVars, syncVars>>

\* The monolith dies: handlers and sweeper lose their place.
MonolithCrash ==
  /\ Fault
  /\ ApiReset
  /\ SweeperReset
  /\ abandoned' = abandoned \cup {req[c].saga : c \in {d \in Clients : InSync(d)}}
  /\ UNCHANGED <<tableVars, cmdQ, replyQ, rpc, sent, gone, mailed, refused>>

Next ==
  \/ \E c \in Clients : Handler(c) \/ Client(c) \/ CallFails(c) \/ Abandon(c) \/ Disconnect(c)
  \/ \E s \in Sagas : Server(s) \/ Clock(s)
  \/ GrpcCrash
  \/ Sweep
  \/ MonolithCrash

Spec == Init /\ [][Next]_vars

\* Handlers, the notifier's goroutines and the sweeper are scheduled, time passes.
Fairness ==
  /\ \A c \in Clients : WF_vars(Handler(c))
  /\ \A s \in Sagas : WF_vars(Server(s)) /\ WF_vars(Clock(s))
  /\ WF_vars(Sweep)

FairSpec == Spec /\ Fairness

-----------------------------------------------------------------------------
TypeOK ==
  /\ TablesTypeOK
  /\ SweeperTypeOK
  /\ req \in [Clients -> SyncReq \cup {NoReq}]
  /\ rpc \in [Sagas -> {"none", "check", "send", "mark", "ok", "err"}]
  /\ sent \subseteq mailed
  /\ gone \cup mailed \cup refused \cup abandoned \subseteq Sagas

Terminal(s) == sagas[s].state \in {"completed", "failed"}

SubGone(s) == sagas[s] # NoSaga /\ subs[sagas[s].sub] = NoSub

\* On this transport completed is the truth: the mail arrived (dispatchSync; the
\* broker path cannot say this).
SyncCompletedMeansMailed == \A s \in Sagas : sagas[s].state = "completed" => s \in mailed

\* A decision is final, whatever fails and however handler, notifier and sweeper
\* interleave: a terminal saga is not written again, and a compensation that has begun
\* never turns into completed (dispatchSync, compensateSync, Sweep).
SyncDecidedOnce ==
  [][\A s \in Sagas :
       /\ Terminal(s) => sagas'[s] = sagas[s]
       /\ Compensated(s) => sagas'[s].state \in {"compensating", "failed"}]_vars

\* A saga ends in failure only after its row was marked: no pending row belongs to a
\* failed saga (MarkFailed before UpdateState(failed) in compensateSync and Sweep).
SyncPendingNotFailed ==
  \A i \in Sagas : subs[i].status = "pending" => sagas[subs[i].token].state # "failed"

OutcomeOf(s) ==
  CASE sagas[s].state = "none" -> "none"
    [] sagas[s].state = "subscription_created" -> "undecided"
    [] sagas[s].state = "completed" -> "sent"
    [] OTHER -> "failed"

Outcome == INSTANCE SagaOutcome WITH
  Saga <- Sagas,
  outcome <- [s \in Sagas |-> OutcomeOf(s)]

\* As long as nothing goes wrong, a timeout or a client that hangs up included, the saga
\* over gRPC keeps the promise of SagaOutcome, refused being what the notifier itself
\* gave up on: it fails only after an SMTP error that the notifier reported, whatever
\* the sweeper does meanwhile (dispatchSync, compensateSync, SendConfirmation, Sweep).
SyncOutcomeWithoutFaults ==
  Outcome!Init /\ [][faults' = 0 => [Outcome!Next]_(Outcome!outcomeVars)]_vars

\* Every saga ends, unless its handler was cut off before it had decided: the sweeper
\* has no outbox row to requeue for such a saga.  A compensation that has begun is
\* carried through, by the handler or by the sweeper.
SyncSagaEnds ==
  \A s \in Sagas :
    sagas[s] # NoSaga ~>
      \/ Terminal(s)
      \/ SubGone(s)
      \/ s \in abandoned \cup gone /\ sagas[s].state = "subscription_created"

\* Claim of orchestrator.go:203 and ADR-011, "compensated on any error": the handler of
\* a failed call carries the compensation out, unless a statement of its fails or the
\* monolith dies.
CompensatedOnAnyError ==
  \A s \in Sagas :
    (\E c \in Clients : req[c].op = "compensate" /\ req[c].saga = s) ~>
      Compensated(s) \/ SubGone(s) \/ s \in abandoned

=============================================================================
