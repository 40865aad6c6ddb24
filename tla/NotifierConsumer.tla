-------------------------- MODULE NotifierConsumer --------------------------
(***************************************************************************)
(* cmd/notifier/consumer.go: the notifier's idempotent consumer, for the   *)
(* confirmation commands of the saga.  It handles one delivery at a time:  *)
(* the head of cmdQ.                                                       *)
(*                                                                         *)
(*   check  AlreadyProcessed, send or report a duplicate                   *)
(*   send   SMTP attempts of sendWithRetry                                 *)
(*   reply  ReplyConfirmation with the outcome of the step                 *)
(*   dup    replyAlreadySent for a message that was processed before       *)
(*   mark   MarkProcessed in Redis                                         *)
(*   ack    Ack                                                            *)
(*                                                                         *)
(* emails and gaveUp record what the outside world saw: how often the      *)
(* confirmation of a saga reached the mailbox, and for which sagas the     *)
(* notifier stopped trying.  The code keeps neither.                       *)
(***************************************************************************)
EXTENDS SagaTables, RabbitBroker

CONSTANT MaxAttempts    \* Consumer.maxAttempts

ASSUME MaxAttemptsAssumption == MaxAttempts \in Nat \ {0}

VARIABLES nPc,          \* where the consume goroutine is
          nAttempt,     \* failed SMTP attempts for this delivery
          nOutcome,     \* sendErr: "sent", "failed", or "cancelled" by shutdown
          processed,    \* message ids in Redis
          emails,       \* history: deliveries per saga, saturating at MaxEmails
          gaveUp        \* history: sagas whose send was reported as failed

notifierVars == <<nPc, nAttempt, nOutcome, processed, emails, gaveUp>>

MaxEmails == 2          \* bound: one, or more than one

NotifierInit ==
  /\ nPc = "check"
  /\ nAttempt = 0
  /\ nOutcome = "sent"
  /\ processed = {}
  /\ emails = [s \in Sagas |-> 0]
  /\ gaveUp = {}

NotifierTypeOK ==
  /\ nPc \in {"check", "send", "reply", "dup", "mark", "ack"}
  /\ nAttempt \in 0..(MaxAttempts - 1)
  /\ nOutcome \in {"sent", "failed", "cancelled"}
  /\ processed \subseteq Sagas
  /\ emails \in [Sagas -> 0..MaxEmails]
  /\ gaveUp \subseteq Sagas

\* A step of the handler on the command it is handling.
At(pc, s) == nPc = pc /\ cmdQ # <<>> /\ s = Head(cmdQ)

Goto(pc) == nPc' = pc

\* The handler is left: its local variables are gone.
LeaveHandler == Goto("check") /\ nAttempt' = 0 /\ nOutcome' = "sent"

\* The e-mail arrives.
Delivered(s) ==
  emails' = [emails EXCEPT ![s] = IF @ < MaxEmails THEN @ + 1 ELSE @]

\* Mutant of NotifierCheck: the message is marked processed before it is sent.
NotifierCheckMarksFirst(s) ==
  /\ At("check", s)
  /\ Goto(IF s \in processed THEN "dup" ELSE "send")
  /\ processed' = processed \cup {s}
  /\ UNCHANGED <<tableVars, brokerVars, nAttempt, nOutcome, emails, gaveUp>>

\* Mutant of NotifierCheck: no dedup.
NotifierCheckNoDedup(s) ==
  /\ At("check", s)
  /\ Goto("send")
  /\ UNCHANGED <<tableVars, brokerVars, nAttempt, nOutcome, processed, emails, gaveUp>>

\* handle: skip what was processed; when Redis fails the message is sent anyway.
NotifierCheck(s) ==
  /\ At("check", s)
  /\ \/ s \in processed /\ Goto("dup") /\ NoFault
     \/ s \notin processed /\ Goto("send") /\ NoFault
     \/ Goto("send") /\ Fault
  /\ UNCHANGED <<tableVars, cmdQ, replyQ, nAttempt, nOutcome, processed, emails, gaveUp>>

NotifierSendOk(s) ==
  /\ At("send", s)
  /\ Delivered(s)
  /\ nOutcome' = "sent"
  /\ nAttempt' = 0
  /\ Goto("reply")
  /\ UNCHANGED <<tableVars, brokerVars, processed, gaveUp>>

\* Mutant of NotifierSendErr: one attempt too many.
NotifierSendErrOneMore(s) ==
  /\ At("send", s)
  /\ IF nAttempt = MaxAttempts
     THEN nOutcome' = "failed" /\ nAttempt' = 0 /\ gaveUp' = gaveUp \cup {s} /\ Goto("reply")
     ELSE nAttempt' = nAttempt + 1 /\ UNCHANGED <<nOutcome, gaveUp, nPc>>
  /\ UNCHANGED <<tableVars, brokerVars, processed, emails>>

\* SMTP reports an error, even though the server may have taken the message
\* (SendMail returns the error of QUIT too).  The last attempt gives up.
NotifierSendErr(s) ==
  /\ At("send", s)
  /\ \/ UNCHANGED emails /\ NoFault
     \/ Delivered(s) /\ Fault
  /\ IF nAttempt + 1 = MaxAttempts
     THEN nOutcome' = "failed" /\ nAttempt' = 0 /\ gaveUp' = gaveUp \cup {s} /\ Goto("reply")
     ELSE nAttempt' = nAttempt + 1 /\ UNCHANGED <<nOutcome, gaveUp, nPc>>
  /\ UNCHANGED <<tableVars, cmdQ, replyQ, processed>>

\* SIGTERM during the backoff between two attempts: sendWithRetry returns ctx.Err().
NotifierCancel(s) ==
  /\ At("send", s)
  /\ nAttempt > 0
  /\ Fault
  /\ nOutcome' = "cancelled"
  /\ nAttempt' = 0
  /\ gaveUp' = gaveUp \cup {s}
  /\ Goto("reply")
  /\ UNCHANGED <<tableVars, cmdQ, replyQ, processed, emails>>

\* dispatch reports the outcome.  Only a failed send whose reply also fails is
\* an error: the command is nacked to the dead-letter queue, unmarked.
NotifierReply(s) ==
  /\ At("reply", s)
  /\ LET r == [saga |-> s, status |-> IF nOutcome = "sent" THEN "sent" ELSE "failed"]
     IN \/ /\ PublishReplyOk(r)
           /\ Goto("mark")
           /\ UNCHANGED <<cmdQ, nAttempt, nOutcome>>
        \/ /\ PublishReplyErr(r)
           /\ IF nOutcome = "sent"
              THEN Goto("mark") /\ UNCHANGED <<cmdQ, nAttempt, nOutcome>>
              ELSE LeaveHandler /\ SettleCmd
  /\ UNCHANGED <<tableVars, processed, emails, gaveUp>>

\* replyAlreadySent: best effort.
NotifierReplyDup(s) ==
  /\ At("dup", s)
  /\ LET r == [saga |-> s, status |-> "sent"]
     IN PublishReplyOk(r) \/ PublishReplyErr(r)
  /\ Goto("ack")
  /\ UNCHANGED <<tableVars, cmdQ, nAttempt, nOutcome, processed, emails, gaveUp>>

\* MarkProcessed; a Redis error, certain once the context is cancelled, is logged.
NotifierMark(s) ==
  /\ At("mark", s)
  /\ \/ nOutcome # "cancelled" /\ processed' = processed \cup {s} /\ NoFault
     \/ nOutcome = "cancelled" /\ UNCHANGED processed /\ NoFault
     \/ nOutcome # "cancelled" /\ UNCHANGED processed /\ Fault
  /\ Goto("ack")
  /\ UNCHANGED <<tableVars, cmdQ, replyQ, nAttempt, nOutcome, emails, gaveUp>>

NotifierAck ==
  /\ nPc = "ack"
  /\ SettleCmd
  /\ LeaveHandler
  /\ UNCHANGED <<tableVars, replyQ, faults, processed, emails, gaveUp>>

\* A crash, or a lost broker connection: the unacked command is redelivered.
NotifierRestart ==
  /\ nPc # "check"
  /\ Fault
  /\ LeaveHandler
  /\ UNCHANGED <<tableVars, cmdQ, replyQ, processed, emails, gaveUp>>

\* A processed key lives for 24 hours.
DedupExpire(s) ==
  /\ s \in processed
  /\ Fault
  /\ processed' = processed \ {s}
  /\ UNCHANGED <<tableVars, cmdQ, replyQ, nPc, nAttempt, nOutcome, emails, gaveUp>>

\* The steps the consumer takes of its own accord.
NotifierNext ==
  \/ \E s \in Sagas :
       \/ NotifierCheck(s) \/ NotifierSendOk(s) \/ NotifierSendErr(s)
       \/ NotifierReply(s) \/ NotifierReplyDup(s) \/ NotifierMark(s)
  \/ NotifierAck

=============================================================================
