--------------------------- MODULE ReleaseConsumer ---------------------------
(***************************************************************************)
(* cmd/notifier/consumer.go for release commands: handle around the        *)
(* release branch of dispatch, which tries SMTP once and reports to nobody.*)
(*                                                                         *)
(*   check  AlreadyProcessed                                               *)
(*   send   the one SMTP attempt                                           *)
(*   mark   MarkProcessed                                                  *)
(*   ack    Ack                                                            *)
(***************************************************************************)
EXTENDS ReleaseScanner

VARIABLES relPc,        \* where the consume goroutine is
          seen,         \* processed message ids in Redis
          dlq,          \* messages dead-lettered to notifications.dlq
          mails,        \* history: how often each release e-mail arrived
          unguarded     \* history: messages whose dedup entry was lost or not used

consumerVars == <<relPc, seen, dlq, mails, unguarded>>

MaxMails == 2           \* bound: one, or more than one

ConsumerInit ==
  /\ relPc = "check"
  /\ seen = {}
  /\ dlq = {}
  /\ mails = [m \in Message |-> 0]
  /\ unguarded = {}

ConsumerTypeOK ==
  /\ relPc \in {"check", "send", "mark", "ack"}
  /\ seen \subseteq Message
  /\ dlq \subseteq Message
  /\ mails \in [Message -> 0..MaxMails]
  /\ unguarded \subseteq Message

\* A step of handle on the command it is handling.
HandlingRelease(pc) == relPc = pc /\ cmdQ # <<>>

RelGoto(pc) == relPc' = pc

MailArrives(m) == mails' = [mails EXCEPT ![m] = IF @ < MaxMails THEN @ + 1 ELSE @]

\* Mutant of ReleaseCheck: no dedup.
ReleaseCheckNever ==
  /\ HandlingRelease("check")
  /\ RelGoto("send")
  /\ UNCHANGED <<scannerVars, brokerVars, githubVars, seen, dlq, mails, unguarded>>

\* AlreadyProcessed: a duplicate is acked (there is no saga to reply to); when
\* Redis cannot be asked the message is sent anyway.
ReleaseCheck ==
  /\ HandlingRelease("check")
  /\ \/ /\ RelGoto(IF Head(cmdQ) \in seen THEN "ack" ELSE "send")
        /\ NoFault
        /\ UNCHANGED unguarded
     \/ /\ RelGoto("send")
        /\ Fault
        /\ unguarded' = unguarded \cup {Head(cmdQ)}
  /\ UNCHANGED <<scannerVars, cmdQ, replyQ, githubVars, seen, dlq, mails>>

\* The mail is accepted.
ReleaseSendOk ==
  /\ HandlingRelease("send")
  /\ MailArrives(Head(cmdQ))
  /\ RelGoto("mark")
  /\ UNCHANGED <<scannerVars, brokerVars, githubVars, seen, dlq, unguarded>>

\* SMTP reports an error, even though the server may have taken the message: the
\* command is nacked to the dead-letter queue, unmarked.
ReleaseSendErr ==
  /\ HandlingRelease("send")
  /\ \/ UNCHANGED <<mails, unguarded>> /\ NoFault
     \/ /\ MailArrives(Head(cmdQ))
        /\ unguarded' = unguarded \cup {Head(cmdQ)}
        /\ Fault
  /\ dlq' = dlq \cup {Head(cmdQ)}
  /\ SettleCmd
  /\ RelGoto("check")
  /\ UNCHANGED <<scannerVars, replyQ, githubVars, seen>>

\* MarkProcessed; an error is only logged.
ReleaseMark ==
  /\ HandlingRelease("mark")
  /\ \/ seen' = seen \cup {Head(cmdQ)} /\ UNCHANGED unguarded /\ NoFault
     \/ unguarded' = unguarded \cup {Head(cmdQ)} /\ UNCHANGED seen /\ Fault
  /\ RelGoto("ack")
  /\ UNCHANGED <<scannerVars, cmdQ, replyQ, githubVars, dlq, mails>>

ReleaseAck ==
  /\ HandlingRelease("ack")
  /\ SettleCmd
  /\ RelGoto("check")
  /\ UNCHANGED <<scannerVars, replyQ, faults, githubVars, seen, dlq, mails, unguarded>>

\* A crash, or a lost broker connection: the unacked command is redelivered.
ConsumerRestart ==
  /\ HandlingRelease(relPc)
  /\ relPc # "check"
  /\ Fault
  /\ unguarded' = IF relPc = "mark" THEN unguarded \cup {Head(cmdQ)} ELSE unguarded
  /\ RelGoto("check")
  /\ UNCHANGED <<scannerVars, cmdQ, replyQ, githubVars, seen, dlq, mails>>

\* A processed key lives for 24 hours.
SeenExpire(m) ==
  /\ m \in seen
  /\ Fault
  /\ seen' = seen \ {m}
  /\ unguarded' = unguarded \cup {m}
  /\ UNCHANGED <<scannerVars, cmdQ, replyQ, githubVars, relPc, dlq, mails>>

ConsumerNext ==
  ReleaseCheck \/ ReleaseSendOk \/ ReleaseSendErr \/ ReleaseMark \/ ReleaseAck

=============================================================================
