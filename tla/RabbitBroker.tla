---------------------------- MODULE RabbitBroker ----------------------------
(***************************************************************************)
(* The RabbitMQ broker as the code uses it, and the budget of faults.      *)
(*                                                                         *)
(* cmdQ is the notifier's work queue: a confirmation command is the number *)
(* of its saga, which stands for message id and payload alike.  replyQ is  *)
(* saga.replies.  Both are consumed with manual acknowledgement by a       *)
(* single-goroutine consumer: the message being handled stays at the head  *)
(* until it is acked or nacked, so a consumer that dies gets it again.     *)
(* Publishers do not use publisher confirms: a publish that returns no     *)
(* error may still be lost, and one that returns an error may have arrived.*)
(*                                                                         *)
(* faults counts what went wrong so far: crashes, lost messages, failing   *)
(* database, Redis or broker calls.                                        *)
(***************************************************************************)
EXTENDS Naturals, Sequences

CONSTANTS MaxFaults,    \* bound: faults in one behaviour
          MaxQueue      \* bound: length of a queue (a full queue blocks its publishers)

ASSUME BrokerAssumption == MaxFaults \in Nat /\ MaxQueue \in Nat

VARIABLES cmdQ, replyQ, faults

brokerVars == <<cmdQ, replyQ, faults>>

BrokerInit ==
  /\ cmdQ = <<>>
  /\ replyQ = <<>>
  /\ faults = 0

\* Something goes wrong in this step.
Fault ==
  /\ faults < MaxFaults
  /\ faults' = faults + 1

NoFault == UNCHANGED faults

\* A publish that reports success: the message is queued, or silently lost.  A publish
\* is not mandatory, so the broker also drops a command that no queue is bound for yet,
\* because the notifier has never run; that counts as a fault here (main.go starts the
\* relay regardless), whereas ReleaseScanner has the same drop without one.
PublishCmdOk(m) ==
  \/ /\ Len(cmdQ) < MaxQueue
     /\ cmdQ' = Append(cmdQ, m)
     /\ NoFault
  \/ /\ UNCHANGED cmdQ
     /\ Fault

\* A publish that reports an error: the message is not queued, or it is after all.
PublishCmdErr(m) ==
  /\ Fault
  /\ \/ UNCHANGED cmdQ
     \/ Len(cmdQ) < MaxQueue /\ cmdQ' = Append(cmdQ, m)

PublishReplyOk(m) ==
  \/ /\ Len(replyQ) < MaxQueue
     /\ replyQ' = Append(replyQ, m)
     /\ NoFault
  \/ /\ UNCHANGED replyQ
     /\ Fault

PublishReplyErr(m) ==
  /\ Fault
  /\ \/ UNCHANGED replyQ
     \/ Len(replyQ) < MaxQueue /\ replyQ' = Append(replyQ, m)

\* Ack, and Nack without requeue: the head leaves its queue (a nacked command
\* goes to notifications.dlq, which nothing consumes).
SettleCmd == cmdQ' = Tail(cmdQ)

SettleReply == replyQ' = Tail(replyQ)

=============================================================================
