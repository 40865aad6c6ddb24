---------------------------- MODULE ReplyConsumer ----------------------------
(***************************************************************************)
(* internal/orchestrator/reply_consumer.go: the monolith's consumer of     *)
(* saga.replies.  It handles the reply at the head of replyQ; every        *)
(* database statement of HandleReply is a step.                            *)
(*                                                                         *)
(*   load        GetByID, and the branch taken on that snapshot            *)
(*   complete    UpdateState(completed)                                    *)
(*   compensate  UpdateState(compensating)                                 *)
(*   markFailed  subscription.Store.MarkFailed                             *)
(*   fail        UpdateState(failed)                                       *)
(*   ack         Ack                                                       *)
(***************************************************************************)
EXTENDS SagaTables, RabbitBroker

CONSTANT MaxTries       \* attempts of handleWithRetry

ASSUME MaxTriesAssumption == MaxTries \in Nat \ {0}

VARIABLES rcPc, rcTries \* program counter, failed attempts at this reply

rcVars == <<rcPc, rcTries>>

ReplyStatus == {"sent", "failed"}

Reply == [saga : Sagas, status : ReplyStatus]

ReplyConsumerInit ==
  /\ rcPc = "load"
  /\ rcTries = 0

ReplyConsumerTypeOK ==
  /\ rcPc \in {"load", "complete", "compensate", "markFailed", "fail", "ack"}
  /\ rcTries \in 0..(MaxTries - 1)

\* A step of HandleReply on the reply it is handling.
Handling(pc, s) == rcPc = pc /\ replyQ # <<>> /\ s = Head(replyQ).saga

\* HandleReply returned an error: handleWithRetry starts it again from the top;
\* after the last attempt Run drops the reply (Nack without requeue, no DLX).
RetryReply ==
  /\ rcPc' = "load"
  /\ IF rcTries + 1 < MaxTries
     THEN rcTries' = rcTries + 1 /\ UNCHANGED replyQ
     ELSE rcTries' = 0 /\ SettleReply

\* The statement at hand fails.
StatementErr == RetryReply /\ UNCHANGED tableVars

Proceed(pc) == rcPc' = pc /\ UNCHANGED <<rcTries, replyQ>>

\* Mutant of ReplyLoad: a failed reply marks the row before the saga is compensating.
ReplyLoadSkipsCompensating(s) ==
  /\ Handling("load", s)
  /\ Proceed(CASE Head(replyQ).status = "sent" /\ sagas[s].state = "subscription_created" -> "complete"
               [] Head(replyQ).status = "failed" /\ sagas[s].state # "completed" -> "markFailed"
               [] OTHER -> "ack")
  /\ UNCHANGED <<tableVars, cmdQ, faults>>

\* Mutant of ReplyLoad: no state guard, the last reply wins.
ReplyLoadUnguarded(s) ==
  /\ Handling("load", s)
  /\ Proceed(IF Head(replyQ).status = "sent" THEN "complete" ELSE "compensate")
  /\ UNCHANGED <<tableVars, cmdQ, faults>>

\* Mutant of ReplyLoad: a failed reply compensates every saga that is not completed.
ReplyLoadAgain(s) ==
  /\ Handling("load", s)
  /\ Proceed(CASE Head(replyQ).status = "sent" /\ sagas[s].state = "subscription_created" -> "complete"
               [] Head(replyQ).status = "failed" /\ sagas[s].state # "completed" -> "compensate"
               [] OTHER -> "ack")
  /\ UNCHANGED <<tableVars, cmdQ, faults>>

\* GetByID, then the branch of HandleReply that this snapshot selects.
ReplyLoad(s) ==
  /\ Handling("load", s)
  /\ \/ /\ LET state == sagas[s].state
               status == Head(replyQ).status
           IN Proceed(CASE status = "sent" /\ state = "subscription_created" -> "complete"
                        [] status = "failed" /\ state \in {"subscription_created", "compensating"}
                             -> "compensate"
                        [] OTHER -> "ack")
        /\ NoFault
        /\ UNCHANGED tableVars
     \/ StatementErr /\ Fault
  /\ UNCHANGED cmdQ

ReplyComplete(s) ==
  /\ Handling("complete", s)
  /\ \/ UpdateState(s, "completed") /\ Proceed("ack") /\ NoFault /\ UNCHANGED <<subs, outbox>>
     \/ StatementErr /\ Fault
  /\ UNCHANGED cmdQ

ReplyCompensate(s) ==
  /\ Handling("compensate", s)
  /\ \/ /\ UpdateState(s, "compensating")
        /\ Proceed("markFailed")
        /\ NoFault
        /\ UNCHANGED <<subs, outbox>>
     \/ StatementErr /\ Fault
  /\ UNCHANGED cmdQ

\* MarkFailed(sg.SubscriptionID): a subscription deleted meanwhile is an error too.
ReplyMarkFailed(s) ==
  /\ Handling("markFailed", s)
  /\ \/ /\ MarkFailedHits(sagas[s].sub)
        /\ MarkFailed(sagas[s].sub)
        /\ Proceed("fail")
        /\ NoFault
        /\ UNCHANGED <<sagas, outbox, stale, updatedAt>>
     \/ ~MarkFailedHits(sagas[s].sub) /\ StatementErr /\ NoFault
     \/ MarkFailedHits(sagas[s].sub) /\ StatementErr /\ Fault
  /\ UNCHANGED cmdQ

ReplyFail(s) ==
  /\ Handling("fail", s)
  /\ \/ UpdateState(s, "failed") /\ Proceed("ack") /\ NoFault /\ UNCHANGED <<subs, outbox>>
     \/ StatementErr /\ Fault
  /\ UNCHANGED cmdQ

\* Ack; when the connection is gone the ack is lost, Run is restarted and the
\* broker delivers the reply again.
ReplyAck ==
  /\ rcPc = "ack"
  /\ \/ SettleReply /\ NoFault
     \/ UNCHANGED replyQ /\ Fault
  /\ rcPc' = "load"
  /\ rcTries' = 0
  /\ UNCHANGED <<tableVars, cmdQ>>

\* The monolith dies: the unacked reply is redelivered.
ReplyConsumerReset == rcPc' = "load" /\ rcTries' = 0

ReplyConsumerNext ==
  \/ \E s \in Sagas :
       \/ ReplyLoad(s) \/ ReplyComplete(s) \/ ReplyCompensate(s)
       \/ ReplyMarkFailed(s) \/ ReplyFail(s)
  \/ ReplyAck

=============================================================================
