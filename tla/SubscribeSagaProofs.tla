------------------------- MODULE SubscribeSagaProofs -------------------------
(***************************************************************************)
(* Proofs about SubscribeSaga, for every number of sagas, clients, faults  *)
(* and retries.                                                            *)
(***************************************************************************)
EXTENDS SubscribeSaga, TableLemmas

-----------------------------------------------------------------------------
(* Types. *)

\* The tables, queues and program counters start out well typed.
LEMMA InitTypeOK == Init => TypeOK
  BY MaxSagasAssumption, BrokerAssumption, MaxAttemptsAssumption, MaxTriesAssumption
  DEF Init, TypeOK, TablesInit, BrokerInit, RelayInit, NotifierInit, ReplyConsumerInit,
      SweeperInit, ApiInit, TablesTypeOK, RelayTypeOK, NotifierTypeOK, ReplyConsumerTypeOK,
      SweeperTypeOK, ApiTypeOK, NoSub, NoSaga, NoReq, MaxEmails, Sagas

-----------------------------------------------------------------------------
(***************************************************************************)
(* Control: what each goroutine knows while it is between two steps.  The  *)
(* types are not inductive without it: UpdateState on a saga that does not *)
(* exist would build a row without a subscription.                         *)
(***************************************************************************)

\* The reply consumer's program counter against the reply it handles and the
\* saga as it is now, which may differ from the snapshot.
ReplyControl ==
  /\ rcPc # "load" => replyQ # <<>>
  /\ rcPc = "complete" =>
       Head(replyQ).status = "sent" /\ Undecided(Head(replyQ).saga)
  /\ rcPc = "compensate" =>
       /\ Head(replyQ).status = "failed"
       /\ Undecided(Head(replyQ).saga) \/ Compensated(Head(replyQ).saga)
  /\ rcPc \in {"markFailed", "fail"} =>
       Head(replyQ).status = "failed" /\ Compensated(Head(replyQ).saga)

\* The sweeper's snapshot against the sagas as they are now.
SweepControl ==
  /\ \A row \in swBatch :
       /\ sagas[row.saga] # NoSaga
       /\ row.state = "compensating" => Compensated(row.saga)
  /\ swFailing # 0 => swFailing \in Sagas /\ Compensated(swFailing)

\* The notifier handles the head of its queue.
NotifierControl == nPc # "check" => cmdQ # <<>>

\* Only the commands of existing sagas travel.
CommandControl ==
  /\ \A s \in Sagas : outbox[s] # "none" => sagas[s] # NoSaga
  /\ \A s \in relayBatch : sagas[s] # NoSaga
  /\ \A k \in 1..Len(cmdQ) : sagas[cmdQ[k]] # NoSaga

Control == TypeOK /\ ReplyControl /\ SweepControl /\ NotifierControl /\ CommandControl

\* Nothing is in flight at the start.
LEMMA InitControl == Init => Control
  <1> SUFFICES ASSUME Init PROVE Control
    OBVIOUS
  <1>1. TypeOK
    BY InitTypeOK
  <1>2. ReplyControl /\ SweepControl /\ NotifierControl /\ CommandControl
    BY DEF Init, TablesInit, BrokerInit, RelayInit, NotifierInit, ReplyConsumerInit, SweeperInit,
           ReplyControl, SweepControl, NotifierControl, CommandControl
  <1> QED
    BY <1>1, <1>2 DEF Control

-----------------------------------------------------------------------------
(* The relay. *)

\* drain touches neither the sagas nor the subscriptions: it appends to the work
\* queue and sets published_at.
LEMMA RelayControl ==
  ASSUME Control, Relay
  PROVE  Control'
  <1> USE MaxSagasAssumption, BrokerAssumption DEF Control
  <1>1. UNCHANGED <<subs, sagas, stale, updatedAt, replyQ, notifierVars, rcVars, sweeperVars, apiVars>>
    BY DEF Relay, RelayNext, RelayFetch, RelayPublish, RelayMark, tableVars, brokerVars
  <1>2. ReplyControl' /\ SweepControl'
    BY <1>1 DEF ReplyControl, SweepControl, Undecided, Compensated, rcVars, sweeperVars
  <1> DEFINE Part == /\ TablesTypeOK /\ RelayTypeOK
                     /\ cmdQ \in Seq(Sagas) /\ faults \in 0..MaxFaults
                     /\ CommandControl /\ NotifierControl
  <1>3. Part'
    <2>1. CASE RelayFetch
      BY <1>1, <2>1 DEF RelayFetch, TypeOK, TablesTypeOK, RelayTypeOK, CommandControl,
           NotifierControl, Unpublished, tableVars, brokerVars, notifierVars
    <2>2. ASSUME NEW s \in Sagas, RelayPublish(s) PROVE Part'
      <3>1. cmdQ' \in {cmdQ, Append(cmdQ, s)} /\ faults' \in 0..MaxFaults
        BY <2>2 DEF RelayPublish, PublishCmdOk, PublishCmdErr, Fault, NoFault, TypeOK
      <3>2. relayBatch' \in {relayBatch, {}} /\ relayPc' \in {"publish", "mark"} /\ sagas[s] # NoSaga
        BY <2>2 DEF RelayPublish, RelayAt, CommandControl, TypeOK, RelayTypeOK
      <3>3. /\ cmdQ' \in Seq(Sagas)
            /\ cmdQ # <<>> => cmdQ' # <<>>
            /\ \A k \in 1..Len(cmdQ') : sagas[cmdQ'[k]] # NoSaga
        BY <3>1, <3>2, AppendFacts DEF TypeOK, CommandControl
      <3> QED
        BY <1>1, <2>2, <3>1, <3>2, <3>3 DEF RelayPublish, TypeOK, TablesTypeOK, RelayTypeOK,
             CommandControl, NotifierControl, tableVars, notifierVars
    <2>3. ASSUME NEW s \in Sagas, RelayMark(s) PROVE Part'
      BY <1>1, <2>3 DEF RelayMark, RelayAt, MarkPublished, Fault, NoFault, TypeOK, TablesTypeOK,
           RelayTypeOK, CommandControl, NotifierControl, notifierVars
    <2> QED
      BY <2>1, <2>2, <2>3 DEF Relay, RelayNext
  <1> QED
    BY <1>1, <1>2, <1>3 DEF TypeOK, NotifierTypeOK, ReplyConsumerTypeOK, SweeperTypeOK, ApiTypeOK,
         notifierVars, rcVars, sweeperVars, apiVars

-----------------------------------------------------------------------------
(* The notifier. *)

\* The notifier reads the head of the work queue, appends to saga.replies and
\* settles the head; it never sees the tables.
LEMMA NotifierKeepsControl ==
  ASSUME Control, Notifier \/ NotifierFault
  PROVE  Control'
  <1> USE MaxSagasAssumption, BrokerAssumption, MaxAttemptsAssumption DEF Control
  <1>1. UNCHANGED <<tableVars, relayVars, rcVars, sweeperVars, apiVars>>
    BY DEF Notifier, NotifierFault, NotifierNext, NotifierCheck, NotifierSendOk, NotifierSendErr,
           NotifierCancel, NotifierReply, NotifierReplyDup, NotifierMark, NotifierAck,
           NotifierRestart, DedupExpire
  <1> DEFINE Part == /\ NotifierTypeOK
                     /\ faults \in 0..MaxFaults
                     /\ nPc # "check" => cmdQ # <<>>
  <1> DEFINE CmdPart == cmdQ' = cmdQ \/ (cmdQ # <<>> /\ cmdQ' = Tail(cmdQ) /\ nPc' = "check")
  <1> DEFINE ReplyPart == replyQ' = replyQ \/ \E r \in Reply : replyQ' = Append(replyQ, r)
  <1>2. Part' /\ CmdPart /\ ReplyPart
    <2> USE DEF TypeOK, NotifierTypeOK, NotifierControl, At, Goto, LeaveHandler, Fault, NoFault
    <2>1. ASSUME NEW s \in Sagas, NotifierCheck(s) PROVE Part' /\ CmdPart /\ ReplyPart
      BY <2>1 DEF NotifierCheck
    <2>2. ASSUME NEW s \in Sagas, NotifierSendOk(s) PROVE Part' /\ CmdPart /\ ReplyPart
      BY <2>2 DEF NotifierSendOk, Delivered, MaxEmails, brokerVars
    <2>3. ASSUME NEW s \in Sagas, NotifierSendErr(s) PROVE Part' /\ CmdPart /\ ReplyPart
      BY <2>3 DEF NotifierSendErr, Delivered, MaxEmails
    <2>4. ASSUME NEW s \in Sagas, NotifierCancel(s) PROVE Part' /\ CmdPart /\ ReplyPart
      BY <2>4 DEF NotifierCancel
    <2>5. ASSUME NEW s \in Sagas, NotifierReply(s) PROVE Part' /\ CmdPart /\ ReplyPart
      BY <2>5 DEF NotifierReply, PublishReplyOk, PublishReplyErr, SettleCmd, Reply, ReplyStatus
    <2>6. ASSUME NEW s \in Sagas, NotifierReplyDup(s) PROVE Part' /\ CmdPart /\ ReplyPart
      BY <2>6 DEF NotifierReplyDup, PublishReplyOk, PublishReplyErr, Reply, ReplyStatus
    <2>7. ASSUME NEW s \in Sagas, NotifierMark(s) PROVE Part' /\ CmdPart /\ ReplyPart
      BY <2>7 DEF NotifierMark
    <2>8. CASE NotifierAck
      BY <2>8 DEF NotifierAck, SettleCmd
    <2>9. CASE NotifierRestart
      BY <2>9 DEF NotifierRestart
    <2>10. ASSUME NEW s \in Sagas, DedupExpire(s) PROVE Part' /\ CmdPart /\ ReplyPart
      BY <2>10 DEF DedupExpire
    <2> QED
      BY <2>1, <2>2, <2>3, <2>4, <2>5, <2>6, <2>7, <2>8, <2>9, <2>10
      DEF Notifier, NotifierFault, NotifierNext
  <1>3. /\ cmdQ' \in Seq(Sagas)
        /\ \A k \in 1..Len(cmdQ') : sagas[cmdQ'[k]] # NoSaga
    <2>1. CASE cmdQ' = cmdQ
      BY <2>1 DEF TypeOK, CommandControl
    <2>2. CASE cmdQ # <<>> /\ cmdQ' = Tail(cmdQ)
      BY <2>2, TailFacts DEF TypeOK, CommandControl
    <2> QED
      BY <1>2, <2>1, <2>2
  <1>4. /\ replyQ' \in Seq(Reply)
        /\ replyQ # <<>> => replyQ' # <<>> /\ Head(replyQ') = Head(replyQ)
    <2>1. CASE replyQ' = replyQ
      BY <2>1 DEF TypeOK
    <2>2. ASSUME NEW r \in Reply, replyQ' = Append(replyQ, r)
          PROVE  /\ replyQ' \in Seq(Reply)
                 /\ replyQ # <<>> => replyQ' # <<>> /\ Head(replyQ') = Head(replyQ)
      BY <2>2, AppendFacts DEF TypeOK
    <2> QED
      BY <1>2, <2>1, <2>2
  <1>5. ReplyControl'
    BY <1>1, <1>4 DEF ReplyControl, Undecided, Compensated, rcVars, tableVars
  <1>6. SweepControl' /\ CommandControl' /\ NotifierControl'
    BY <1>1, <1>2, <1>3 DEF SweepControl, CommandControl, NotifierControl, Compensated, tableVars,
         relayVars, sweeperVars
  <1> QED
    BY <1>1, <1>2, <1>3, <1>4, <1>5, <1>6 DEF TypeOK, TablesTypeOK, RelayTypeOK, NotifierTypeOK,
         ReplyConsumerTypeOK, SweeperTypeOK, ApiTypeOK, tableVars, relayVars, rcVars, sweeperVars, apiVars

-----------------------------------------------------------------------------
(* Table statements. *)

\* A saga in some state exists.
LEMMA StateExists ==
  ASSUME NEW s, sagas[s] = NoSaga
  PROVE  ~Undecided(s) /\ ~Completed(s) /\ ~Compensated(s)
  BY DEF NoSaga, Undecided, Completed, Compensated

-----------------------------------------------------------------------------
(* The reply consumer. *)

\* What others rely on survives any step that changes sagas in this way.
LEMMA SagasGrowKeeps ==
  ASSUME TypeOK, SweepControl, CommandControl, SagasGrow,
         UNCHANGED <<outbox, cmdQ, relayVars, sweeperVars>>
  PROVE  SweepControl' /\ CommandControl'
  <1>1. SweepControl'
    BY DEF TypeOK, SweeperTypeOK, SweepControl, SagasGrow, Compensated, sweeperVars
  <1>2. \A k \in 1..Len(cmdQ) : cmdQ[k] \in Sagas
    BY ElementOfSeq DEF TypeOK
  <1>3. CommandControl'
    BY <1>2 DEF TypeOK, RelayTypeOK, CommandControl, SagasGrow, relayVars
  <1> QED
    BY <1>1, <1>3

\* An error of a statement leaves the tables alone and restarts or drops the reply.
LEMMA StatementErrKeeps ==
  ASSUME TypeOK, replyQ # <<>>, StatementErr
  PROVE  /\ rcPc' = "load" /\ ReplyConsumerTypeOK' /\ replyQ' \in Seq(Reply)
         /\ UNCHANGED tableVars
  <1>1. Tail(replyQ) \in Seq(Reply)
    BY TailFacts DEF TypeOK
  <1>2. rcTries \in 0..(MaxTries - 1)
    BY DEF TypeOK, ReplyConsumerTypeOK
  <1>3. UNCHANGED tableVars
    BY DEF StatementErr
  <1>4. rcPc' = "load" /\ (rcTries' = 0 \/ (rcTries + 1 < MaxTries /\ rcTries' = rcTries + 1))
    BY DEF StatementErr, RetryReply
  <1>5. replyQ' \in Seq(Reply)
    BY <1>1 DEF StatementErr, RetryReply, SettleReply, TypeOK
  <1> QED
    BY <1>2, <1>3, <1>4, <1>5, MaxTriesAssumption DEF ReplyConsumerTypeOK

LEMMA RepliesKeepControl ==
  ASSUME Control, Replies
  PROVE  Control' /\ SagasGrow
  <1> USE MaxSagasAssumption, BrokerAssumption, MaxTriesAssumption DEF Control
  <1>1. UNCHANGED <<outbox, cmdQ, relayVars, notifierVars, sweeperVars, apiVars>>
    BY DEF Replies, ReplyConsumerNext, ReplyLoad, ReplyComplete, ReplyCompensate, ReplyMarkFailed,
           ReplyFail, ReplyAck, StatementErr, tableVars
  <1> DEFINE Part == /\ TablesTypeOK /\ replyQ \in Seq(Reply) /\ ReplyConsumerTypeOK
                     /\ faults \in 0..MaxFaults /\ ReplyControl
  <1>2. Part' /\ SagasGrow
    <2>0. ASSUME replyQ # <<>>, StatementErr, faults' \in 0..MaxFaults
          PROVE  Part' /\ SagasGrow
      BY <2>0, StatementErrKeeps DEF TypeOK, TablesTypeOK, ReplyControl, SagasGrow, Compensated, tableVars
    <2>f. /\ NoFault => faults' \in 0..MaxFaults
          /\ Fault => faults' \in 0..MaxFaults
      BY DEF Fault, NoFault, TypeOK
    <2>1. ASSUME NEW s \in Sagas, ReplyLoad(s) PROVE Part' /\ SagasGrow
      <3>1. CASE StatementErr /\ Fault
        BY <2>0, <2>1, <2>f, <3>1 DEF ReplyLoad, Handling
      <3>2. CASE ~(StatementErr /\ Fault)
        <4>1. /\ UNCHANGED <<tableVars, replyQ, rcTries, faults>>
              /\ replyQ # <<>> /\ s = Head(replyQ).saga
              /\ rcPc' \in {"complete", "compensate", "ack"}
              /\ rcPc' = "complete" => Head(replyQ).status = "sent" /\ Undecided(s)
              /\ rcPc' = "compensate" =>
                   Head(replyQ).status = "failed" /\ (Undecided(s) \/ Compensated(s))
          BY <2>1, <3>2 DEF ReplyLoad, Handling, Proceed, NoFault, Undecided, Compensated
        <4> QED
          BY <4>1 DEF TypeOK, TablesTypeOK, ReplyConsumerTypeOK, ReplyControl, SagasGrow,
               Undecided, Compensated, tableVars
      <3> QED
        BY <3>1, <3>2
    <2>2. ASSUME NEW s \in Sagas, ReplyComplete(s) PROVE Part' /\ SagasGrow
      <3>0. replyQ # <<>> /\ s = Head(replyQ).saga /\ Undecided(s) /\ sagas[s] # NoSaga
        BY <2>2, StateExists DEF ReplyComplete, Handling, ReplyControl
      <3>1. CASE StatementErr /\ Fault
        BY <2>0, <2>f, <3>0, <3>1
      <3>2. CASE UpdateState(s, "completed") /\ Proceed("ack") /\ NoFault /\ UNCHANGED <<subs, outbox>>
        <4>1. /\ TablesTypeOK'
              /\ sagas'[s] # NoSaga /\ sagas'[s].sub = sagas[s].sub
              /\ \A t \in Sagas \ {s} : sagas'[t] = sagas[t]
          BY <3>0, <3>2, UpdateStateFacts DEF TypeOK, TablesTypeOK, State
        <4>2. SagasGrow
          BY <3>0, <4>1 DEF SagasGrow, Undecided, Compensated
        <4> QED
          BY <2>f, <3>0, <3>2, <4>1, <4>2 DEF Proceed, TypeOK, ReplyConsumerTypeOK, ReplyControl
      <3> QED
        BY <2>2, <3>1, <3>2 DEF ReplyComplete
    <2>3. ASSUME NEW s \in Sagas, ReplyCompensate(s) PROVE Part' /\ SagasGrow
      <3>0. /\ replyQ # <<>> /\ s = Head(replyQ).saga /\ Head(replyQ).status = "failed"
            /\ sagas[s] # NoSaga
        BY <2>3, StateExists DEF ReplyCompensate, Handling, ReplyControl
      <3>1. CASE StatementErr /\ Fault
        BY <2>0, <2>f, <3>0, <3>1
      <3>2. CASE /\ UpdateState(s, "compensating") /\ Proceed("markFailed") /\ NoFault
                 /\ UNCHANGED <<subs, outbox>>
        <4>1. /\ TablesTypeOK'
              /\ sagas'[s] # NoSaga /\ sagas'[s].sub = sagas[s].sub
              /\ sagas'[s].state = "compensating"
              /\ \A t \in Sagas \ {s} : sagas'[t] = sagas[t]
          BY <3>0, <3>2, UpdateStateFacts DEF TypeOK, TablesTypeOK, State
        <4>2. SagasGrow
          BY <4>1 DEF SagasGrow, Compensated
        <4> QED
          BY <2>f, <3>0, <3>2, <4>1, <4>2 DEF Proceed, TypeOK, ReplyConsumerTypeOK, ReplyControl,
               Compensated
      <3> QED
        BY <2>3, <3>1, <3>2 DEF ReplyCompensate
    <2>4. ASSUME NEW s \in Sagas, ReplyMarkFailed(s) PROVE Part' /\ SagasGrow
      <3>0. /\ replyQ # <<>> /\ s = Head(replyQ).saga /\ Head(replyQ).status = "failed"
            /\ Compensated(s) /\ sagas[s] # NoSaga
        BY <2>4, StateExists DEF ReplyMarkFailed, Handling, ReplyControl
      <3>1. CASE StatementErr /\ (Fault \/ NoFault)
        BY <2>0, <2>f, <3>0, <3>1
      <3>2. CASE /\ MarkFailedHits(sagas[s].sub) /\ MarkFailed(sagas[s].sub) /\ Proceed("fail")
                 /\ NoFault /\ UNCHANGED <<sagas, outbox, stale, updatedAt>>
        <4>1. TablesTypeOK'
          BY <3>0, <3>2, MarkFailedFacts, SagaSub DEF TypeOK, TablesTypeOK
        <4> QED
          BY <2>f, <3>0, <3>2, <4>1 DEF Proceed, TypeOK, ReplyConsumerTypeOK, ReplyControl,
               SagasGrow, Compensated
      <3> QED
        BY <2>4, <3>1, <3>2 DEF ReplyMarkFailed
    <2>5. ASSUME NEW s \in Sagas, ReplyFail(s) PROVE Part' /\ SagasGrow
      <3>0. /\ replyQ # <<>> /\ s = Head(replyQ).saga /\ Compensated(s) /\ sagas[s] # NoSaga
        BY <2>5, StateExists DEF ReplyFail, Handling, ReplyControl
      <3>1. CASE StatementErr /\ Fault
        BY <2>0, <2>f, <3>0, <3>1
      <3>2. CASE UpdateState(s, "failed") /\ Proceed("ack") /\ NoFault /\ UNCHANGED <<subs, outbox>>
        <4>1. /\ TablesTypeOK'
              /\ sagas'[s] # NoSaga /\ sagas'[s].sub = sagas[s].sub
              /\ sagas'[s].state = "failed"
              /\ \A t \in Sagas \ {s} : sagas'[t] = sagas[t]
          BY <3>0, <3>2, UpdateStateFacts DEF TypeOK, TablesTypeOK, State
        <4>2. SagasGrow
          BY <4>1 DEF SagasGrow, Compensated
        <4> QED
          BY <2>f, <3>0, <3>2, <4>1, <4>2 DEF Proceed, TypeOK, ReplyConsumerTypeOK, ReplyControl
      <3> QED
        BY <2>5, <3>1, <3>2 DEF ReplyFail
    <2>6. CASE ReplyAck
      <3>1. replyQ # <<>> /\ replyQ' \in Seq(Reply)
        BY <2>6, TailFacts DEF ReplyAck, ReplyControl, SettleReply, TypeOK
      <3> QED
        BY <2>6, <2>f, <3>1 DEF ReplyAck, TypeOK, TablesTypeOK, ReplyConsumerTypeOK, ReplyControl,
             SagasGrow, Compensated, tableVars
    <2> QED
      BY <2>1, <2>2, <2>3, <2>4, <2>5, <2>6 DEF Replies, ReplyConsumerNext
  <1>3. SweepControl' /\ CommandControl'
    BY <1>1, <1>2, SagasGrowKeeps
  <1> QED
    BY <1>1, <1>2, <1>3 DEF TypeOK, RelayTypeOK, NotifierTypeOK, SweeperTypeOK, ApiTypeOK,
         NotifierControl, relayVars, notifierVars, sweeperVars, apiVars

\* The reply being handled is a reply.
LEMMA HeadReply ==
  ASSUME TypeOK, replyQ # <<>>
  PROVE  Head(replyQ) \in Reply
  <1>1. replyQ \in Seq(Reply)
    BY DEF TypeOK
  <1> QED
    BY <1>1, TailFacts

-----------------------------------------------------------------------------
(* The sweeper. *)

\* The sweeper moves a saga only to failed, and only one that was compensated: the
\* decision a reply was found to call for is never overtaken by a sweep.
LEMMA SweepKeepsControl ==
  ASSUME Control, Sweep
  PROVE  Control' /\ SagasGrow /\ (\A t \in Sagas : Undecided(t) => Undecided(t)')
  <1> USE MaxSagasAssumption, BrokerAssumption DEF Control
  <1>1. UNCHANGED <<cmdQ, replyQ, relayVars, notifierVars, rcVars, apiVars>>
    BY DEF Sweep, SweeperNext, SweepFind, SweepRequeue, SweepMarkFailed, SweepFail, brokerVars
  <1>f. /\ NoFault => faults' \in 0..MaxFaults
        /\ Fault => faults' \in 0..MaxFaults
    BY DEF Fault, NoFault, TypeOK
  <1> DEFINE Kept == \A t \in Sagas : Undecided(t) => Undecided(t)'
  <1> DEFINE Part == TablesTypeOK /\ faults \in 0..MaxFaults /\ SweeperTypeOK /\ SweepControl
  <1> DEFINE OutboxPart == \A t \in Sagas : outbox'[t] # "none" => sagas'[t] # NoSaga
  <1>2. Part' /\ SagasGrow /\ Kept /\ OutboxPart
    <2>1. CASE SweepFind
      <3>1. PICK b \in SUBSET Resumable :
              swBatch' = {[saga |-> s, state |-> sagas[s].state] : s \in b}
        BY <2>1 DEF SweepFind
      <3>2. \A s \in b : s \in Sagas /\ sagas[s].state \in {"subscription_created", "compensating"}
        BY DEF Resumable, Unfinished, TypeOK, TablesTypeOK
      <3>3. \A s \in b : sagas[s] # NoSaga
        BY <3>2 DEF NoSaga
      <3> QED
        BY <2>1, <3>1, <3>2, <3>3 DEF SweepFind, TypeOK, TablesTypeOK, SweeperTypeOK, SweepControl,
             SagasGrow, Compensated, Undecided, CommandControl, tableVars, brokerVars
    <2>2. ASSUME NEW row \in swBatch, SweepRequeue(row)
          PROVE  Part' /\ SagasGrow /\ Kept /\ OutboxPart
      <3>1. row.saga \in Sagas /\ sagas[row.saga] # NoSaga
        BY DEF SweepControl, TypeOK, SweeperTypeOK
      <3> QED
        BY <1>f, <2>2, <3>1 DEF SweepRequeue, Requeue, TypeOK, TablesTypeOK, SweeperTypeOK,
             SweepControl, SagasGrow, Compensated, Undecided, CommandControl
    <2>3. ASSUME NEW row \in swBatch, SweepMarkFailed(row)
          PROVE  Part' /\ SagasGrow /\ Kept /\ OutboxPart
      <3>1. /\ row.saga \in Sagas /\ sagas[row.saga] # NoSaga /\ Compensated(row.saga)
            /\ row.saga # 0
        BY <2>3 DEF SweepMarkFailed, SweepControl, TypeOK, SweeperTypeOK, Sagas
      <3>2. sagas[row.saga].sub \in Sagas
        BY <3>1, SagaSub DEF TypeOK
      <3>3. subs' \in [Sagas -> SubRow \cup {NoSub}]
        <4>1. CASE MarkFailedHits(sagas[row.saga].sub) /\ MarkFailed(sagas[row.saga].sub)
          BY <3>2, <4>1, MarkFailedFacts DEF TypeOK
        <4> QED
          BY <2>3, <4>1 DEF SweepMarkFailed, TypeOK, TablesTypeOK
      <3>4. swFailing' \in {swFailing, row.saga} /\ swBatch' \subseteq swBatch
        BY <2>3 DEF SweepMarkFailed
      <3>5. /\ UNCHANGED <<sagas, outbox, stale, updatedAt>>
            /\ faults' \in 0..MaxFaults
        BY <1>f, <2>3 DEF SweepMarkFailed
      <3>6. TablesTypeOK'
        BY <3>3, <3>5 DEF TypeOK, TablesTypeOK
      <3>7. SweeperTypeOK'
        BY <3>1, <3>4 DEF TypeOK, SweeperTypeOK, Sagas
      <3>8. SweepControl'
        BY <3>1, <3>4, <3>5 DEF SweepControl, Compensated
      <3> QED
        BY <3>5, <3>6, <3>7, <3>8 DEF SagasGrow, Compensated, Undecided, CommandControl
    <2>4. CASE SweepFail
      <3>1. swFailing \in Sagas /\ Compensated(swFailing) /\ sagas[swFailing] # NoSaga
        BY <2>4, StateExists DEF SweepFail, SweepControl
      <3>2. CASE UpdateState(swFailing, "failed") /\ NoFault
        <4>1. /\ TablesTypeOK'
              /\ sagas'[swFailing] # NoSaga /\ sagas'[swFailing].sub = sagas[swFailing].sub
              /\ sagas'[swFailing].state = "failed"
              /\ \A t \in Sagas \ {swFailing} : sagas'[t] = sagas[t]
          BY <2>4, <3>1, <3>2, UpdateStateFacts DEF SweepFail, TypeOK, TablesTypeOK, State
        <4>2. SagasGrow /\ Kept
          BY <3>1, <4>1 DEF SagasGrow, Compensated, Undecided
        <4> QED
          BY <1>f, <2>4, <3>2, <4>1, <4>2 DEF SweepFail, TypeOK, SweeperTypeOK, SweepControl,
               SagasGrow, Compensated, CommandControl
      <3>3. CASE UNCHANGED <<sagas, stale, updatedAt>> /\ Fault
        BY <1>f, <2>4, <3>3 DEF SweepFail, TypeOK, TablesTypeOK, SweeperTypeOK, SweepControl,
             SagasGrow, Compensated, Undecided, CommandControl
      <3> QED
        BY <2>4, <3>2, <3>3 DEF SweepFail
    <2> QED
      BY <2>1, <2>2, <2>3, <2>4 DEF Sweep, SweeperNext
  <1>3. ReplyControl'
    <2>1. replyQ # <<>> => Head(replyQ).saga \in Sagas
      BY HeadReply DEF Reply
    <2>2. UNCHANGED <<replyQ, rcPc>>
      BY <1>1 DEF rcVars
    <2>3. /\ Undecided(Head(replyQ).saga) /\ replyQ # <<>> => Undecided(Head(replyQ).saga)'
          /\ Compensated(Head(replyQ).saga) /\ replyQ # <<>> => Compensated(Head(replyQ).saga)'
      BY <1>2, <2>1, <2>2 DEF SagasGrow, Compensated, Undecided
    <2> QED
      BY <2>2, <2>3 DEF ReplyControl
  <1>4. CommandControl'
    <2>1. \A k \in 1..Len(cmdQ) : cmdQ[k] \in Sagas
      BY ElementOfSeq DEF TypeOK
    <2> QED
      BY <1>1, <1>2, <2>1 DEF CommandControl, SagasGrow, TypeOK, RelayTypeOK, relayVars
  <1> QED
    BY <1>1, <1>2, <1>3, <1>4 DEF TypeOK, RelayTypeOK, NotifierTypeOK, ReplyConsumerTypeOK, ApiTypeOK,
         NotifierControl, relayVars, notifierVars, rcVars, apiVars

-----------------------------------------------------------------------------
(* The request handlers. *)

\* A step of the API that is not a T1 leaves sagas and outbox alone; a T1 starts
\* the saga of a number that was not used before.
StartsSaga(n) ==
  /\ n \in Sagas
  /\ sagas[n] = NoSaga
  /\ sagas'[n] # NoSaga /\ Undecided(n)'
  /\ outbox'[n] = "unpublished"
  /\ \A t \in Sagas \ {n} : sagas'[t] = sagas[t] /\ outbox'[t] = outbox[t]

ApiSagas == UNCHANGED <<sagas, outbox>> \/ \E n \in Sagas : StartsSaga(n)

\* The handlers' steps keep the API's own state and the tables typed.
LEMMA ApiFacts ==
  ASSUME TypeOK, NEW c \in Clients, Handler(c) \/ Client(c)
  PROVE  /\ TablesTypeOK' /\ ApiTypeOK' /\ faults' \in 0..MaxFaults
         /\ UNCHANGED <<cmdQ, replyQ, relayVars, notifierVars, rcVars, sweeperVars>>
         /\ ApiSagas
  <1> USE MaxSagasAssumption, BrokerAssumption
  <1> DEFINE Part == TablesTypeOK /\ ApiTypeOK /\ faults \in 0..MaxFaults
  <1>s. UNCHANGED <<sagas, outbox>> => ApiSagas
    BY DEF ApiSagas
  <1>b. ASSUME NEW n \in Sagas, StartsSaga(n) PROVE ApiSagas
    BY <1>b DEF ApiSagas
  <1>r. req[c] \in Req \cup {NoReq}
    BY DEF TypeOK, ApiTypeOK
  <1>f. /\ NoFault => faults' \in 0..MaxFaults
        /\ Fault => faults' \in 0..MaxFaults
    BY DEF Fault, NoFault, TypeOK
  <1>c. ASSUME NEW r \in Req \cup {NoReq}, Continue(c, r) PROVE req' \in [Clients -> Req \cup {NoReq}]
    BY <1>c DEF TypeOK, ApiTypeOK, Continue
  <1>n. Finish(c) => req' \in [Clients -> Req \cup {NoReq}]
    BY <1>c DEF Finish
  <1>t. TablesTypeOK /\ tracked \subseteq Repos
    BY DEF TypeOK, ApiTypeOK
  <1>0. UNCHANGED <<cmdQ, replyQ, relayVars, notifierVars, rcVars, sweeperVars>>
    BY DEF Handler, Client, ApiStep, ApiRequest, SubscribeLookup, StartConfirmation,
           ReactivateConfirmation, AbortT1, ConfirmLookup, ConfirmUpdate, ConfirmRegister,
           UnsubscribeLookup, UnsubscribeDelete, brokerVars
  <1>1. ASSUME NEW pair \in Emails \X Repos, SubscribeLookup(c, pair) PROVE Part' /\ ApiSagas
    BY <1>s, <1>1 DEF SubscribeLookup, Continue, RowsOfPair, TypeOK, TablesTypeOK, ApiTypeOK, Req,
         tableVars, brokerVars
  <1>2. ASSUME NEW n \in Sagas, StartConfirmation(c, n) PROVE Part' /\ ApiSagas
    <2>1. req[c].pair \in Emails \X Repos
      BY <1>r, <1>2 DEF StartConfirmation, Req, NoReq
    <2>2. subs' \in [Sagas -> SubRow \cup {NoSub}]
      BY <1>2, <2>1 DEF StartConfirmation, CreateSub, TypeOK, TablesTypeOK, SubRow, Status
    <2>3. /\ sagas[n] = NoSaga
          /\ sagas' \in [Sagas -> SagaRow \cup {NoSaga}]
          /\ outbox' \in [Sagas -> {"none", "unpublished", "published"}]
          /\ stale' \subseteq Sagas
          /\ updatedAt' \in [Sagas -> Sagas]
          /\ sagas'[n] # NoSaga /\ sagas'[n].state = "subscription_created"
          /\ outbox'[n] = "unpublished"
          /\ \A u \in Sagas \ {n} : sagas'[u] = sagas[u] /\ outbox'[u] = outbox[u]
      <3>1. sagas[n] = NoSaga /\ EnqueueConfirmation(n, n)
        BY <1>2 DEF StartConfirmation, NextSaga
      <3> QED
        BY <1>t, <3>1, EnqueueFacts
    <2>4. StartsSaga(n) /\ TablesTypeOK'
      BY <2>2, <2>3 DEF StartsSaga, Undecided, TablesTypeOK
    <2> QED
      BY <1>b, <1>n, <1>t, <1>2, <2>4 DEF StartConfirmation, TypeOK, ApiTypeOK, brokerVars
  <1>3. ASSUME NEW n \in Sagas, ReactivateConfirmation(c, n) PROVE Part' /\ ApiSagas
    <2>1. req[c].sub \in Sagas
      BY <1>r, <1>3 DEF ReactivateConfirmation, Req, NoReq
    <2>2. subs[req[c].sub] \in SubRow
      BY <1>3, <2>1 DEF ReactivateConfirmation, ReactivateSub, TypeOK, TablesTypeOK, NoSub
    <2>3. subs' \in [Sagas -> SubRow \cup {NoSub}]
      BY <1>3, <2>1, <2>2 DEF ReactivateConfirmation, ReactivateSub, TypeOK, TablesTypeOK, SubRow,
           Status
    <2>4. /\ sagas[n] = NoSaga
          /\ sagas' \in [Sagas -> SagaRow \cup {NoSaga}]
          /\ outbox' \in [Sagas -> {"none", "unpublished", "published"}]
          /\ stale' \subseteq Sagas
          /\ updatedAt' \in [Sagas -> Sagas]
          /\ sagas'[n] # NoSaga /\ sagas'[n].state = "subscription_created"
          /\ outbox'[n] = "unpublished"
          /\ \A u \in Sagas \ {n} : sagas'[u] = sagas[u] /\ outbox'[u] = outbox[u]
      <3>1. sagas[n] = NoSaga /\ EnqueueConfirmation(n, req[c].sub)
        BY <1>3 DEF ReactivateConfirmation, NextSaga
      <3> QED
        BY <1>t, <2>1, <3>1, EnqueueFacts
    <2>5. StartsSaga(n) /\ TablesTypeOK'
      BY <2>3, <2>4 DEF StartsSaga, Undecided, TablesTypeOK
    <2> QED
      BY <1>b, <1>n, <1>t, <1>3, <2>5 DEF ReactivateConfirmation, TypeOK, ApiTypeOK, brokerVars
  <1>4. ASSUME AbortT1(c) PROVE Part' /\ ApiSagas
    <2>1. faults' \in 0..MaxFaults
      BY <1>f, <1>4 DEF AbortT1
    <2>2. req' \in [Clients -> Req \cup {NoReq}]
      BY <1>n, <1>4 DEF AbortT1
    <2>3. UNCHANGED <<subs, sagas, outbox, stale, updatedAt, tracked>>
      BY <1>4 DEF AbortT1, tableVars
    <2>4. TablesTypeOK'
      BY <1>t, <2>3 DEF TablesTypeOK
    <2>5. ApiTypeOK'
      BY <1>t, <2>2, <2>3 DEF ApiTypeOK
    <2> QED
      BY <1>s, <2>1, <2>3, <2>4, <2>5
  <1>5. ASSUME NEW t \in Issued, ConfirmLookup(c, t) PROVE Part' /\ ApiSagas
    <2>1. PICK i \in RowsOfToken(t) :
            Continue(c, IF subs[i].confirmed
                        THEN [op |-> "register", repo |-> subs[i].pair[2]]
                        ELSE [op |-> "confirm", token |-> t, repo |-> subs[i].pair[2]])
      BY <1>5 DEF ConfirmLookup
    <2>2. t \in Sagas /\ subs[i] \in SubRow
      BY DEF Issued, RowsOfToken, TypeOK, TablesTypeOK
    <2>3. subs[i].pair[2] \in Repos
      BY <2>2 DEF SubRow
    <2> QED
      BY <1>s, <1>5, <2>1, <2>2, <2>3 DEF ConfirmLookup, Continue, TypeOK, TablesTypeOK, ApiTypeOK, Req,
           tableVars, brokerVars
  <1>6. ASSUME ConfirmUpdate(c) PROVE Part' /\ ApiSagas
    <2>1. req[c].repo \in Repos
      BY <1>r, <1>6 DEF ConfirmUpdate, Req, NoReq
    <2>2. subs' \in [Sagas -> SubRow \cup {NoSub}]
      <3>1. \A i \in RowsOfToken(req[c].token) :
              i \in Sagas /\ [subs[i] EXCEPT !.confirmed = TRUE, !.status = "confirmed"] \in SubRow
        BY <1>t DEF RowsOfToken, TablesTypeOK, SubRow, Status
      <3>2. ASSUME ConfirmSub(req[c].token) PROVE subs' \in [Sagas -> SubRow \cup {NoSub}]
        <4> DEFINE new(i) == IF i \in RowsOfToken(req[c].token)
                             THEN [subs[i] EXCEPT !.confirmed = TRUE, !.status = "confirmed"]
                             ELSE subs[i]
        <4>1. \A i \in Sagas : new(i) \in SubRow \cup {NoSub}
          BY <1>t, <3>1 DEF TablesTypeOK
        <4>2. subs' = [i \in Sagas |-> new(i)]
          BY <3>2 DEF ConfirmSub
        <4> HIDE DEF new
        <4> QED
          BY <4>1, <4>2
      <3> QED
        BY <1>t, <1>6, <3>2 DEF ConfirmUpdate, TablesTypeOK
    <2>3. [op |-> "register", repo |-> req[c].repo] \in Req \cup {NoReq}
      BY <2>1 DEF Req
    <2>4. req' \in [Clients -> Req \cup {NoReq}]
      BY <1>6, <1>c, <1>n, <2>3 DEF ConfirmUpdate
    <2> QED
      BY <1>s, <1>f, <1>t, <1>6, <2>2, <2>4 DEF ConfirmUpdate, TablesTypeOK, ApiTypeOK
  <1>7. ASSUME ConfirmRegister(c) PROVE Part' /\ ApiSagas
    <2>1. req[c].repo \in Repos
      BY <1>r, <1>7 DEF ConfirmRegister, Req, NoReq
    <2> QED
      BY <1>s, <1>f, <1>n, <1>t, <1>7, <2>1 DEF ConfirmRegister, TablesTypeOK, ApiTypeOK, tableVars
  <1>8. ASSUME NEW t \in Issued, UnsubscribeLookup(c, t) PROVE Part' /\ ApiSagas
    BY <1>s, <1>8 DEF UnsubscribeLookup, Continue, Issued, TypeOK, TablesTypeOK, ApiTypeOK, Req,
         tableVars, brokerVars
  <1>9. ASSUME UnsubscribeDelete(c) PROVE Part' /\ ApiSagas
    <2>1. subs' \in [Sagas -> SubRow \cup {NoSub}]
      BY <1>9 DEF UnsubscribeDelete, DeleteSub, TypeOK, TablesTypeOK
    <2> QED
      BY <1>s, <1>f, <1>n, <1>t, <1>9, <2>1 DEF UnsubscribeDelete, TablesTypeOK, ApiTypeOK
  <1> QED
    BY <1>0, <1>1, <1>2, <1>3, <1>4, <1>5, <1>6, <1>7, <1>8, <1>9
    DEF Handler, Client, ApiStep, ApiRequest

\* A new saga is nobody's: no reply, sweep or command in flight is about it.
LEMMA ApiKeepsControl ==
  ASSUME Control, NEW c \in Clients, Handler(c) \/ Client(c)
  PROVE  Control' /\ SagasGrow /\ (\A t \in Sagas : Undecided(t) => Undecided(t)')
  <1> USE DEF Control
  <1>1. /\ TablesTypeOK' /\ ApiTypeOK' /\ faults' \in 0..MaxFaults
        /\ UNCHANGED <<cmdQ, replyQ, relayVars, notifierVars, rcVars, sweeperVars>>
        /\ ApiSagas
    BY ApiFacts
  <1>2. /\ \A t \in Sagas : sagas[t] # NoSaga => sagas'[t] = sagas[t]
        /\ \A t \in Sagas : outbox'[t] # "none" => outbox[t] # "none" \/ sagas'[t] # NoSaga
    <2>1. CASE UNCHANGED <<sagas, outbox>>
      BY <2>1
    <2>2. ASSUME NEW n \in Sagas, StartsSaga(n)
          PROVE  /\ \A t \in Sagas : sagas[t] # NoSaga => sagas'[t] = sagas[t]
                 /\ \A t \in Sagas : outbox'[t] # "none" => outbox[t] # "none" \/ sagas'[t] # NoSaga
      BY <2>2 DEF StartsSaga
    <2> QED
      BY <1>1, <2>1, <2>2 DEF ApiSagas
  <1>3. SagasGrow /\ (\A t \in Sagas : Undecided(t) => Undecided(t)')
    BY <1>2 DEF SagasGrow, Compensated, Undecided, NoSaga
  <1>4. ReplyControl'
    <2>1. replyQ # <<>> => Head(replyQ).saga \in Sagas
      BY HeadReply DEF Reply
    <2>2. UNCHANGED <<replyQ, rcPc>>
      BY <1>1 DEF rcVars
    <2>3. /\ Undecided(Head(replyQ).saga) /\ replyQ # <<>> => Undecided(Head(replyQ).saga)'
          /\ Compensated(Head(replyQ).saga) /\ replyQ # <<>> => Compensated(Head(replyQ).saga)'
      BY <1>3, <2>1, <2>2 DEF SagasGrow, Compensated
    <2> QED
      BY <2>2, <2>3 DEF ReplyControl
  <1>5. SweepControl'
    BY <1>1, <1>3 DEF TypeOK, SweeperTypeOK, SweepControl, SagasGrow, Compensated, sweeperVars
  <1>6. CommandControl'
    <2>1. \A k \in 1..Len(cmdQ) : cmdQ[k] \in Sagas
      BY ElementOfSeq DEF TypeOK
    <2> QED
      BY <1>1, <1>2, <1>3, <2>1 DEF TypeOK, RelayTypeOK, CommandControl, SagasGrow, relayVars
  <1> QED
    BY <1>1, <1>3, <1>4, <1>5, <1>6 DEF TypeOK, RelayTypeOK, NotifierTypeOK, ReplyConsumerTypeOK,
         SweeperTypeOK, NotifierControl, relayVars, notifierVars, rcVars, sweeperVars

-----------------------------------------------------------------------------
(* Time and crashes. *)

\* Ageing changes nothing but the set of stale sagas.
LEMMA ClockKeepsControl ==
  ASSUME Control, NEW s \in Sagas, Clock(s)
  PROVE  Control'
  <1> USE DEF Control
  <1>1. /\ stale' \subseteq Sagas
        /\ UNCHANGED <<subs, sagas, outbox, updatedAt, cmdQ, replyQ, faults, relayBatch, relayPc, pubUp>>
        /\ UNCHANGED <<nPc, nAttempt, nOutcome, processed, emails, gaveUp, rcPc, rcTries>>
        /\ UNCHANGED <<swBatch, swFailing, req, tracked>>
    BY DEF Clock, Age, TypeOK, TablesTypeOK, brokerVars, relayVars, notifierVars, rcVars,
           sweeperVars, apiVars
  <1>2. TypeOK'
    BY <1>1 DEF TypeOK, TablesTypeOK, RelayTypeOK, NotifierTypeOK, ReplyConsumerTypeOK,
         SweeperTypeOK, ApiTypeOK
  <1> QED
    BY <1>1, <1>2 DEF ReplyControl, SweepControl, NotifierControl, CommandControl, Undecided,
         Compensated

\* A lost publisher connection changes nothing that anybody relies on.
LEMMA RelayFaultKeepsControl ==
  ASSUME Control, RelayFault
  PROVE  Control'
  <1> USE BrokerAssumption DEF Control
  <1>1. /\ UNCHANGED <<tableVars, cmdQ, replyQ, relayBatch, relayPc>>
        /\ UNCHANGED <<notifierVars, rcVars, sweeperVars, apiVars>>
        /\ pubUp' = FALSE /\ Fault
    BY DEF RelayFault, PublisherLost
  <1>2. faults' \in 0..MaxFaults
    BY <1>1 DEF Fault, TypeOK
  <1>3. TypeOK'
    BY <1>1, <1>2 DEF TypeOK, TablesTypeOK, RelayTypeOK, NotifierTypeOK, ReplyConsumerTypeOK,
         SweeperTypeOK, ApiTypeOK, tableVars, notifierVars, rcVars, sweeperVars, apiVars
  <1> QED
    BY <1>1, <1>3 DEF ReplyControl, SweepControl, NotifierControl, CommandControl, Undecided,
         Compensated, tableVars, notifierVars, rcVars, sweeperVars

\* Replies leave saga.replies from its head.
Dropped == \E k \in 1..Len(replyQ) : replyQ' = SubSeq(replyQ, k + 1, Len(replyQ))

\* After a crash every goroutine is at its start, where it relies on nothing.
LEMMA CrashKeepsControl ==
  ASSUME Control, MonolithCrash \/ MonolithShutdown
  PROVE  Control'
  <1> USE MaxSagasAssumption, BrokerAssumption, MaxTriesAssumption DEF Control
  <1>1. /\ UNCHANGED <<tableVars, cmdQ, notifierVars, tracked>>
        /\ MonolithReset /\ Fault
        /\ UNCHANGED replyQ \/ Dropped
    BY DEF MonolithCrash, MonolithShutdown, MonolithReset, ApiReset, Dropped
  <1>2. replyQ' \in Seq(Reply)
    <2>1. CASE UNCHANGED replyQ
      BY <2>1 DEF TypeOK
    <2>2. CASE Dropped
      BY <2>2, DropFacts DEF TypeOK, Dropped
    <2> QED
      BY <1>1, <2>1, <2>2
  <1>3. /\ relayBatch' = {} /\ relayPc' = "publish" /\ rcPc' = "load" /\ rcTries' = 0
        /\ pubUp' = TRUE /\ swBatch' = {} /\ swFailing' = 0 /\ req' = [c \in Clients |-> NoReq]
        /\ faults' \in 0..MaxFaults
    BY <1>1 DEF MonolithReset, RelayReset, ReplyConsumerReset, SweeperReset, ApiReset, Fault, TypeOK
  <1>4. TablesTypeOK' /\ NotifierTypeOK'
    BY <1>1 DEF TypeOK, TablesTypeOK, NotifierTypeOK, tableVars, notifierVars
  <1>5. RelayTypeOK' /\ ReplyConsumerTypeOK' /\ SweeperTypeOK' /\ ApiTypeOK'
    BY <1>1, <1>3 DEF TypeOK, RelayTypeOK, ReplyConsumerTypeOK, SweeperTypeOK, ApiTypeOK
  <1>6. ReplyControl' /\ SweepControl' /\ NotifierControl' /\ CommandControl'
    BY <1>1, <1>3 DEF ReplyControl, SweepControl, NotifierControl, CommandControl, tableVars,
         notifierVars
  <1> QED
    BY <1>1, <1>2, <1>3, <1>4, <1>5, <1>6 DEF TypeOK

-----------------------------------------------------------------------------

\* A step that changes no variable of the specification changes none of these.
LEMMA StutterKeepsControl ==
  ASSUME Control, UNCHANGED vars
  PROVE  Control'
  BY DEF vars, Control, TypeOK, TablesTypeOK, RelayTypeOK, NotifierTypeOK, ReplyConsumerTypeOK,
     SweeperTypeOK, ApiTypeOK, ReplyControl, SweepControl, NotifierControl, CommandControl,
     Undecided, Compensated, tableVars, brokerVars, relayVars, notifierVars, rcVars, sweeperVars,
     apiVars

\* Control is inductive.
LEMMA NextKeepsControl ==
  ASSUME Control, [Next]_vars
  PROVE  Control'
  BY RelayControl, RelayFaultKeepsControl, NotifierKeepsControl, RepliesKeepControl, SweepKeepsControl,
     ApiKeepsControl, ClockKeepsControl, CrashKeepsControl, StutterKeepsControl
  DEF Next

\* Every goroutine's program counter agrees with the queues and the tables in every
\* reachable state, whatever the other goroutines, the notifier and the faults do.
THEOREM ControlInvariant == Spec => []Control
  <1>1. Init => Control
    BY InitControl
  <1>2. Control /\ [Next]_vars => Control'
    BY NextKeepsControl
  <1> QED
    BY <1>1, <1>2, PTL DEF Spec

\* The tables, the queues and the goroutines' variables keep their types: no update
\* ever hits a saga that does not exist (TypeOK).
THEOREM TypeCorrect == Spec => []TypeOK
  <1>1. Control => TypeOK
    BY DEF Control
  <1> QED
    BY <1>1, ControlInvariant, PTL

-----------------------------------------------------------------------------
(***************************************************************************)
(* Causes: every claim in flight about the outcome of a saga is backed by  *)
(* what the notifier did.  DecisionHasCause alone is not inductive: it     *)
(* rests on the replies in the queue, those on the notifier's program      *)
(* counter and, for duplicates, on the processed set.                      *)
(***************************************************************************)

Tried(s) == Mailed(s) \/ s \in gaveUp

ReplyHasCause(r) ==
  /\ r.status = "sent" => Tried(r.saga)
  /\ r.status = "failed" => r.saga \in gaveUp

RepliesHaveCauses == \A k \in 1..Len(replyQ) : ReplyHasCause(replyQ[k])

NotifierHasCauses ==
  /\ \A s \in processed : Tried(s)
  /\ nPc \in {"reply", "dup", "mark"} => Tried(Head(cmdQ))
  /\ nPc = "reply" /\ nOutcome = "sent" => Mailed(Head(cmdQ))
  /\ nPc = "reply" /\ nOutcome # "sent" => Head(cmdQ) \in gaveUp

Causes == RepliesHaveCauses /\ NotifierHasCauses /\ DecisionHasCause

(***************************************************************************)
(* Rows: a subscription and the saga of its current token belong together, *)
(* and a saga about to be marked failed has already marked its row.        *)
(***************************************************************************)

RowsHaveSagas ==
  \A i \in Sagas : IsRow(i) =>
    /\ sagas[subs[i].token] # NoSaga
    /\ sagas[subs[i].token].sub = i
    /\ outbox[subs[i].token] # "none"

\* MarkFailed was done for saga s, unless its row is gone or revived since.
Marked(s) ==
  IsRow(sagas[s].sub) /\ subs[sagas[s].sub].token = s => ~Pending(sagas[s].sub)

\* Saga s is failed, or the reply consumer or the sweeper is about to record that.
Failing(s) ==
  \/ sagas[s].state = "failed"
  \/ rcPc = "fail" /\ s = Head(replyQ).saga
  \/ s = swFailing

MarkedBeforeFailed == \A s \in Sagas : Failing(s) => Marked(s)

Rows == RowsHaveSagas /\ MarkedBeforeFailed /\ StatusIsExplained /\ OneRowPerPair

-----------------------------------------------------------------------------
(* Causes are preserved. *)

\* Nothing is claimed at the start.
LEMMA InitCauses == Init => Causes
  BY DEF Init, TablesInit, BrokerInit, NotifierInit, Causes, RepliesHaveCauses, NotifierHasCauses,
     DecisionHasCause, Completed, Compensated, NoSaga

\* A step that leaves the notifier alone, adds no reply and decides nothing new.
LEMMA CausesFrame ==
  ASSUME Control, Causes, UNCHANGED notifierVars,
         cmdQ # <<>> => Head(cmdQ') = Head(cmdQ),
         replyQ' = replyQ \/ (replyQ # <<>> /\ replyQ' = Tail(replyQ)) \/ Dropped,
         \A s \in Sagas : Completed(s)' => Completed(s) \/ Tried(s),
         \A s \in Sagas : Compensated(s)' => Compensated(s) \/ s \in gaveUp
  PROVE  Causes'
  <1>1. UNCHANGED <<nPc, nOutcome, processed, emails, gaveUp>>
    BY DEF notifierVars
  <1>2. RepliesHaveCauses'
    <2>1. CASE replyQ' = replyQ
      BY <1>1, <2>1 DEF Causes, RepliesHaveCauses, ReplyHasCause, Tried, Mailed
    <2>2. CASE replyQ # <<>> /\ replyQ' = Tail(replyQ)
      <3>1. \A k \in 1..Len(replyQ') : k + 1 \in 1..Len(replyQ) /\ replyQ'[k] = replyQ[k + 1]
        BY <2>2, TailFacts DEF Control, TypeOK
      <3> QED
        BY <1>1, <3>1 DEF Causes, RepliesHaveCauses, ReplyHasCause, Tried, Mailed
    <2>3. CASE Dropped
      <3>1. PICK n \in 1..Len(replyQ) : replyQ' = SubSeq(replyQ, n + 1, Len(replyQ))
        BY <2>3 DEF Dropped
      <3>2. \A k \in 1..Len(replyQ') : k + n \in 1..Len(replyQ) /\ replyQ'[k] = replyQ[k + n]
        BY <3>1, DropFacts DEF Control, TypeOK
      <3> QED
        BY <1>1, <3>2 DEF Causes, RepliesHaveCauses, ReplyHasCause, Tried, Mailed
    <2> QED
      BY <2>1, <2>2, <2>3
  <1>3. NotifierHasCauses'
    BY <1>1 DEF Control, NotifierControl, Causes, NotifierHasCauses, Tried, Mailed
  <1>4. DecisionHasCause'
    BY <1>1 DEF Causes, DecisionHasCause, Tried, Mailed
  <1> QED
    BY <1>2, <1>3, <1>4 DEF Causes

\* The notifier's evidence only grows, and it replies what its evidence supports.
LEMMA NotifierKeepsCauses ==
  ASSUME Control, Causes, Notifier \/ NotifierFault
  PROVE  Causes'
  <1> USE DEF Control
  <1>1. UNCHANGED tableVars
    BY DEF Notifier, NotifierFault, NotifierNext, NotifierCheck, NotifierSendOk, NotifierSendErr,
           NotifierCancel, NotifierReply, NotifierReplyDup, NotifierMark, NotifierAck,
           NotifierRestart, DedupExpire
  <1> DEFINE Grows == /\ \A s \in Sagas : Mailed(s) => Mailed(s)'
                      /\ gaveUp \subseteq gaveUp'
  <1> DEFINE Replied == \/ replyQ' = replyQ
                        \/ \E r \in Reply : replyQ' = Append(replyQ, r) /\ ReplyHasCause(r)
  <1>2. Grows /\ Replied /\ NotifierHasCauses'
    <2> USE DEF Causes, TypeOK, NotifierTypeOK, NotifierHasCauses, Tried, Mailed, At, Goto, LeaveHandler
    <2>1. ASSUME NEW s \in Sagas, NotifierCheck(s) PROVE Grows /\ Replied /\ NotifierHasCauses'
      BY <2>1 DEF NotifierCheck
    <2>2. ASSUME NEW s \in Sagas, NotifierSendOk(s) PROVE Grows /\ Replied /\ NotifierHasCauses'
      BY <2>2 DEF NotifierSendOk, Delivered, MaxEmails, brokerVars
    <2>3. ASSUME NEW s \in Sagas, NotifierSendErr(s) PROVE Grows /\ Replied /\ NotifierHasCauses'
      BY <2>3 DEF NotifierSendErr, Delivered, MaxEmails
    <2>4. ASSUME NEW s \in Sagas, NotifierCancel(s) PROVE Grows /\ Replied /\ NotifierHasCauses'
      BY <2>4 DEF NotifierCancel
    <2>5. ASSUME NEW s \in Sagas, NotifierReply(s) PROVE Grows /\ Replied /\ NotifierHasCauses'
      <3> DEFINE r == [saga |-> s, status |-> IF nOutcome = "sent" THEN "sent" ELSE "failed"]
      <3>1. r \in Reply /\ ReplyHasCause(r)
        BY <2>5 DEF NotifierReply, Reply, ReplyStatus, ReplyHasCause
      <3>2. replyQ' = replyQ \/ replyQ' = Append(replyQ, r)
        BY <2>5 DEF NotifierReply, PublishReplyOk, PublishReplyErr
      <3>3. Grows /\ NotifierHasCauses'
        BY <2>5 DEF NotifierReply, SettleCmd
      <3> QED
        BY <3>1, <3>2, <3>3
    <2>6. ASSUME NEW s \in Sagas, NotifierReplyDup(s) PROVE Grows /\ Replied /\ NotifierHasCauses'
      <3> DEFINE r == [saga |-> s, status |-> "sent"]
      <3>1. r \in Reply /\ ReplyHasCause(r)
        BY <2>6 DEF NotifierReplyDup, Reply, ReplyStatus, ReplyHasCause
      <3>2. replyQ' = replyQ \/ replyQ' = Append(replyQ, r)
        BY <2>6 DEF NotifierReplyDup, PublishReplyOk, PublishReplyErr
      <3>3. Grows /\ NotifierHasCauses'
        BY <2>6 DEF NotifierReplyDup
      <3> QED
        BY <3>1, <3>2, <3>3
    <2>7. ASSUME NEW s \in Sagas, NotifierMark(s) PROVE Grows /\ Replied /\ NotifierHasCauses'
      BY <2>7 DEF NotifierMark
    <2>8. CASE NotifierAck
      BY <2>8 DEF NotifierAck
    <2>9. CASE NotifierRestart
      BY <2>9 DEF NotifierRestart
    <2>10. ASSUME NEW s \in Sagas, DedupExpire(s) PROVE Grows /\ Replied /\ NotifierHasCauses'
      BY <2>10 DEF DedupExpire
    <2> QED
      BY <2>1, <2>2, <2>3, <2>4, <2>5, <2>6, <2>7, <2>8, <2>9, <2>10
      DEF Notifier, NotifierFault, NotifierNext
  <1>3. \A r \in Reply : ReplyHasCause(r) => ReplyHasCause(r)'
    BY <1>2 DEF ReplyHasCause, Tried, Reply
  <1>4. RepliesHaveCauses'
    <2>1. \A k \in 1..Len(replyQ) : \E r \in Reply : r = replyQ[k] /\ ReplyHasCause(r)'
      <3>1. ASSUME NEW k \in 1..Len(replyQ)
            PROVE  \E r \in Reply : r = replyQ[k] /\ ReplyHasCause(r)
        BY <3>1, ElementOfSeq DEF TypeOK, Causes, RepliesHaveCauses
      <3> QED
        BY <1>3, <3>1
    <2>2. CASE replyQ' = replyQ
      BY <2>1, <2>2 DEF RepliesHaveCauses
    <2>3. ASSUME NEW r \in Reply, replyQ' = Append(replyQ, r), ReplyHasCause(r)
          PROVE  RepliesHaveCauses'
      <3>1. /\ Len(replyQ') = Len(replyQ) + 1 /\ Len(replyQ) \in Nat
            /\ \A k \in 1..Len(replyQ) : replyQ'[k] = replyQ[k]
            /\ replyQ'[Len(replyQ) + 1] = r
        BY <2>3, AppendFacts, LenProperties DEF TypeOK
      <3>2. ReplyHasCause(r)'
        BY <1>3, <2>3
      <3>3. ASSUME NEW k \in 1..Len(replyQ)' PROVE ReplyHasCause(replyQ[k])'
        <4>1. CASE k = Len(replyQ) + 1
          BY <3>1, <3>2, <4>1
        <4>2. CASE k # Len(replyQ) + 1
          BY <2>1, <3>1, <4>2
        <4> QED
          BY <4>1, <4>2
      <3> QED
        BY <3>3 DEF RepliesHaveCauses
    <2> QED
      BY <1>2, <2>2, <2>3
  <1>5. DecisionHasCause'
    BY <1>1, <1>2 DEF Causes, DecisionHasCause, Completed, Compensated, tableVars
  <1> QED
    BY <1>2, <1>4, <1>5 DEF Causes

\* A decision is made on the reply at the head of saga.replies, which has a cause.
LEMMA RepliesKeepCauses ==
  ASSUME Control, Causes, Replies
  PROVE  Causes'
  <1> USE DEF Control
  <1>1. UNCHANGED <<notifierVars, cmdQ>>
    BY DEF Replies, ReplyConsumerNext, ReplyLoad, ReplyComplete, ReplyCompensate, ReplyMarkFailed,
           ReplyFail, ReplyAck
  <1>2. replyQ # <<>> => ReplyHasCause(Head(replyQ))
    BY TailFacts DEF TypeOK, Causes, RepliesHaveCauses
  <1> DEFINE Decides == /\ \A s \in Sagas : Completed(s)' => Completed(s) \/ Tried(s)
                        /\ \A s \in Sagas : Compensated(s)' => Compensated(s) \/ s \in gaveUp
  <1> DEFINE Settles == replyQ' = replyQ \/ (replyQ # <<>> /\ replyQ' = Tail(replyQ))
  <1>3. ASSUME replyQ # <<>>, StatementErr PROVE Decides /\ Settles
    BY <1>3 DEF StatementErr, RetryReply, SettleReply, tableVars, Completed, Compensated
  <1>4. Decides /\ Settles
    <2>1. ASSUME NEW s \in Sagas, ReplyLoad(s) PROVE Decides /\ Settles
      BY <1>3, <2>1 DEF ReplyLoad, Handling, Proceed, tableVars, Completed, Compensated
    <2>2. ASSUME NEW s \in Sagas, ReplyComplete(s) PROVE Decides /\ Settles
      <3>1. CASE UpdateState(s, "completed") /\ Proceed("ack")
        <4>1. Undecided(s) /\ Tried(s) /\ replyQ # <<>>
          BY <1>2, <2>2 DEF ReplyComplete, Handling, ReplyControl, ReplyHasCause
        <4>2. /\ sagas'[s].state = "completed"
              /\ \A t \in Sagas \ {s} : sagas'[t] = sagas[t]
          BY <3>1, <4>1, UpdateStateFacts, StateExists DEF TypeOK, State
        <4> QED
          BY <3>1, <4>1, <4>2 DEF Proceed, Completed, Compensated
      <3> QED
        BY <1>3, <2>2, <3>1 DEF ReplyComplete, Handling
    <2>3. ASSUME NEW s \in Sagas, ReplyCompensate(s) PROVE Decides /\ Settles
      <3>1. CASE UpdateState(s, "compensating") /\ Proceed("markFailed")
        <4>1. (Undecided(s) \/ Compensated(s)) /\ s \in gaveUp /\ replyQ # <<>>
          BY <1>2, <2>3 DEF ReplyCompensate, Handling, ReplyControl, ReplyHasCause
        <4>2. /\ sagas'[s].state = "compensating"
              /\ \A t \in Sagas \ {s} : sagas'[t] = sagas[t]
          BY <3>1, <4>1, UpdateStateFacts, StateExists DEF TypeOK, State
        <4> QED
          BY <3>1, <4>1, <4>2 DEF Proceed, Completed, Compensated
      <3> QED
        BY <1>3, <2>3, <3>1 DEF ReplyCompensate, Handling
    <2>4. ASSUME NEW s \in Sagas, ReplyMarkFailed(s) PROVE Decides /\ Settles
      BY <1>3, <2>4 DEF ReplyMarkFailed, Handling, Proceed, Completed, Compensated
    <2>5. ASSUME NEW s \in Sagas, ReplyFail(s) PROVE Decides /\ Settles
      <3>1. CASE UpdateState(s, "failed") /\ Proceed("ack")
        <4>1. Compensated(s) /\ replyQ # <<>>
          BY <2>5 DEF ReplyFail, Handling, ReplyControl
        <4>2. /\ sagas'[s].state = "failed"
              /\ \A t \in Sagas \ {s} : sagas'[t] = sagas[t]
          BY <3>1, <4>1, UpdateStateFacts, StateExists DEF TypeOK, State
        <4> QED
          BY <3>1, <4>1, <4>2 DEF Proceed, Completed, Compensated
      <3> QED
        BY <1>3, <2>5, <3>1 DEF ReplyFail, Handling
    <2>6. CASE ReplyAck
      BY <2>6 DEF ReplyAck, ReplyControl, SettleReply, tableVars, Completed, Compensated
    <2> QED
      BY <2>1, <2>2, <2>3, <2>4, <2>5, <2>6 DEF Replies, ReplyConsumerNext
  <1> QED
    BY <1>1, <1>4, CausesFrame

\* The other components decide nothing: the relay and the handlers do not touch the
\* state of an existing saga, and the sweeper only finishes a compensation.
LEMMA OthersKeepCauses ==
  ASSUME Control, Causes,
         \/ Relay \/ RelayFault \/ Sweep
         \/ \E c \in Clients : Handler(c) \/ Client(c)
         \/ \E s \in Sagas : Clock(s)
         \/ MonolithCrash \/ MonolithShutdown
         \/ UNCHANGED vars
  PROVE  Causes'
  <1> DEFINE Decides == /\ \A s \in Sagas : Completed(s)' => Completed(s) \/ Tried(s)
                        /\ \A s \in Sagas : Compensated(s)' => Compensated(s) \/ s \in gaveUp
  <1>s. UNCHANGED sagas => Decides
    BY DEF Completed, Compensated
  <1>1. CASE Relay
    <2>1. UNCHANGED <<sagas, replyQ, notifierVars>>
      BY <1>1 DEF Relay, RelayNext, RelayFetch, RelayPublish, RelayMark, tableVars, brokerVars
    <2>2. cmdQ # <<>> => Head(cmdQ') = Head(cmdQ)
      BY <1>1, AppendFacts
      DEF Relay, RelayNext, RelayFetch, RelayPublish, RelayMark, PublishCmdOk, PublishCmdErr,
          brokerVars, TypeOK, Control
    <2> QED
      BY <1>s, <2>1, <2>2, CausesFrame
  <1>2. CASE Sweep
    <2>1. UNCHANGED <<cmdQ, replyQ, notifierVars>>
      BY <1>2 DEF Sweep, SweeperNext, SweepFind, SweepRequeue, SweepMarkFailed, SweepFail, brokerVars
    <2>2. Decides
      <3>1. CASE UNCHANGED sagas
        BY <1>s, <3>1
      <3>2. CASE SweepFail /\ UpdateState(swFailing, "failed")
        <4>1. swFailing \in Sagas /\ Compensated(swFailing)
          BY <3>2 DEF SweepFail, SweepControl, Control
        <4>2. /\ sagas'[swFailing].state = "failed"
              /\ \A t \in Sagas \ {swFailing} : sagas'[t] = sagas[t]
          BY <3>2, <4>1, UpdateStateFacts, StateExists DEF TypeOK, State, Control
        <4> QED
          BY <4>1, <4>2 DEF Completed, Compensated
      <3> QED
        BY <1>2, <3>1, <3>2
        DEF Sweep, SweeperNext, SweepFind, SweepRequeue, SweepMarkFailed, SweepFail, tableVars
    <2> QED
      BY <2>1, <2>2, CausesFrame
  <1>3. ASSUME NEW c \in Clients, Handler(c) \/ Client(c) PROVE Causes'
    <2>1. UNCHANGED <<cmdQ, replyQ, notifierVars>> /\ ApiSagas
      BY <1>3, ApiFacts DEF Control
    <2>2. Decides
      <3>1. ASSUME NEW n \in Sagas, StartsSaga(n) PROVE Decides
        BY <3>1 DEF StartsSaga, Undecided, Completed, Compensated
      <3> QED
        BY <1>s, <2>1, <3>1 DEF ApiSagas
    <2> QED
      BY <2>1, <2>2, CausesFrame
  <1>4. ASSUME NEW s \in Sagas, Clock(s) PROVE Causes'
    <2>1. UNCHANGED <<sagas, cmdQ, replyQ, notifierVars>>
      BY <1>4 DEF Clock, Age, brokerVars
    <2> QED
      BY <1>s, <2>1, CausesFrame
  <1>5. CASE MonolithCrash \/ MonolithShutdown
    <2>1. /\ UNCHANGED <<sagas, cmdQ, notifierVars>>
          /\ UNCHANGED replyQ \/ Dropped
      BY <1>5 DEF MonolithCrash, MonolithShutdown, Dropped, tableVars
    <2> QED
      BY <1>s, <2>1, CausesFrame
  <1>6. CASE RelayFault \/ UNCHANGED vars
    <2>1. UNCHANGED <<sagas, cmdQ, replyQ, notifierVars>>
      BY <1>6 DEF RelayFault, PublisherLost, vars, tableVars, brokerVars
    <2> QED
      BY <1>s, <2>1, CausesFrame
  <1> QED
    BY <1>1, <1>2, <1>3, <1>4, <1>5, <1>6

\* Causes is inductive relative to Control.
THEOREM CausesInvariant == Spec => []Causes
  <1>1. Init => Causes
    BY InitCauses
  <1>2. Control /\ Causes /\ [Next]_vars => Causes'
    BY NotifierKeepsCauses, RepliesKeepCauses, OthersKeepCauses DEF Next
  <1> QED
    BY <1>1, <1>2, ControlInvariant, PTL DEF Spec

\* Every decision has a cause, whatever is lost, duplicated, retried or restarted:
\* DecisionHasCause of every behaviour.
THEOREM DecisionsHaveCauses == Spec => []DecisionHasCause
  <1>1. Causes => DecisionHasCause
    BY DEF Causes
  <1> QED
    BY <1>1, CausesInvariant, PTL

-----------------------------------------------------------------------------
(* Rows are preserved. *)

\* There are no rows at the start.
LEMMA InitRows == Init => Rows
  BY MaxSagasAssumption
  DEF Init, TablesInit, ReplyConsumerInit, SweeperInit, Rows, RowsHaveSagas, MarkedBeforeFailed,
     Failing, Marked, StatusIsExplained, OneRowPerPair, IsRow, Pending, NoSub, NoSaga, Sagas

\* A saga that is failed, or about to be, exists and was compensated.
LEMMA FailingExists ==
  ASSUME Control, NEW s \in Sagas, Failing(s)
  PROVE  Compensated(s) /\ sagas[s] # NoSaga
  <1>1. Compensated(s)
    BY MaxSagasAssumption DEF Control, ReplyControl, SweepControl, Failing, Compensated, Sagas
  <1> QED
    BY <1>1, StateExists

\* A step that leaves the subscriptions alone and starts no saga.
LEMMA SagaStepKeepsRows ==
  ASSUME TypeOK, Rows, UNCHANGED subs, SagasGrow,
         \A t \in Sagas : outbox[t] # "none" => outbox'[t] # "none",
         \A t \in Sagas : Failing(t)' => sagas[t] # NoSaga /\ Marked(t)
  PROVE  Rows'
  <1>1. \A i \in Sagas : IsRow(i) => subs[i].token \in Sagas
    BY DEF TypeOK, TablesTypeOK, SubRow, IsRow
  <1>2. RowsHaveSagas'
    BY <1>1 DEF Rows, RowsHaveSagas, IsRow, SagasGrow
  <1>3. MarkedBeforeFailed'
    BY DEF MarkedBeforeFailed, Marked, IsRow, Pending, SagasGrow
  <1>4. StatusIsExplained'
    BY DEF Rows, StatusIsExplained, SagasGrow, Compensated
  <1>5. OneRowPerPair'
    BY DEF Rows, OneRowPerPair, IsRow
  <1> QED
    BY <1>2, <1>3, <1>4, <1>5 DEF Rows

\* A step that only changes rows: it may delete them, confirm them, or mark the row
\* of a compensated saga failed, but it makes none pending.
LEMMA RowStepKeepsRows ==
  ASSUME TypeOK, Rows, UNCHANGED <<sagas, outbox>>,
         \A i \in Sagas : IsRow(i)' =>
           /\ IsRow(i) /\ subs'[i].token = subs[i].token /\ subs'[i].pair = subs[i].pair,
         \A i \in Sagas : Pending(i)' => Pending(i),
         \A i \in Sagas : subs'[i].status = "failed" =>
           \/ subs[i].status = "failed"
           \/ \E s \in Sagas : sagas[s] # NoSaga /\ sagas[s].sub = i /\ Compensated(s),
         \A i \in Sagas : subs'[i].status = "confirmed" => subs'[i].confirmed,
         \A t \in Sagas : Failing(t)' =>
           /\ sagas[t].sub \in Sagas
           /\ Marked(t) \/ ~Pending(sagas[t].sub)'
  PROVE  Rows'
  <1>1. RowsHaveSagas'
    BY DEF Rows, RowsHaveSagas, IsRow
  <1>2. MarkedBeforeFailed'
    BY DEF MarkedBeforeFailed, Marked, IsRow, Pending
  <1>3. StatusIsExplained'
    BY DEF Rows, StatusIsExplained, Compensated
  <1>4. OneRowPerPair'
    BY DEF Rows, OneRowPerPair, IsRow
  <1> QED
    BY <1>1, <1>2, <1>3, <1>4 DEF Rows

\* T1 writes the row i of saga n: the row and the saga point at each other, and no
\* saga that failed before is the row's current one.
LEMMA T1KeepsRows ==
  ASSUME Control, Rows, NEW n \in Sagas, NEW i \in Sagas, NEW p, sagas[n] = NoSaga,
         EnqueueConfirmation(n, i),
         subs' = [subs EXCEPT ![i] =
                    [pair |-> p, token |-> n, confirmed |-> FALSE, status |-> "pending"]],
         UNCHANGED <<replyQ, rcVars, sweeperVars>>,
         \A j \in Sagas : IsRow(j) /\ subs[j].pair = p => j = i
  PROVE  Rows'
  <1>t. TablesTypeOK
    BY DEF Control, TypeOK
  <1>1. /\ sagas'[n].sub = i /\ sagas'[n].state = "subscription_created" /\ sagas'[n] # NoSaga
        /\ outbox'[n] = "unpublished"
        /\ \A t \in Sagas \ {n} : sagas'[t] = sagas[t] /\ outbox'[t] = outbox[t]
    BY <1>t, EnqueueFacts
  <1>2. /\ subs'[i].token = n /\ subs'[i].pair = p /\ subs'[i].status = "pending"
        /\ \A j \in Sagas \ {i} : subs'[j] = subs[j]
    BY <1>t DEF TablesTypeOK
  <1>3. RowsHaveSagas'
    <2>1. \A j \in Sagas : IsRow(j) => subs[j].token \in Sagas \ {n}
      BY <1>t DEF Rows, RowsHaveSagas, IsRow, TablesTypeOK, SubRow
    <2> QED
      BY <1>1, <1>2, <2>1 DEF Rows, RowsHaveSagas, IsRow
  <1>4. MarkedBeforeFailed'
    <2>1. ASSUME NEW t \in Sagas, Failing(t)' PROVE t # n /\ Failing(t)
      <3>1. t # n
        <4>1. Failing(n)' => Failing(n)
          BY <1>1 DEF Failing, rcVars, sweeperVars
        <4> QED
          BY <2>1, <4>1, FailingExists
      <3> QED
        BY <1>1, <2>1, <3>1 DEF Failing, rcVars, sweeperVars
    <2>2. ASSUME NEW t \in Sagas \ {n}, Failing(t) PROVE Marked(t)'
      <3>1. Marked(t) /\ sagas[t].sub \in Sagas
        BY <1>t, <2>2, FailingExists, SagaSub DEF Rows, MarkedBeforeFailed
      <3> QED
        BY <1>1, <1>2, <3>1 DEF Marked, IsRow, Pending
    <2> QED
      BY <2>1, <2>2 DEF MarkedBeforeFailed
  <1>5. StatusIsExplained'
    <2>1. \A t \in Sagas : Compensated(t) => t # n
      BY StateExists
    <2> QED
      BY <1>1, <1>2, <2>1 DEF Rows, StatusIsExplained, Compensated
  <1>6. OneRowPerPair'
    BY <1>2 DEF Rows, OneRowPerPair, IsRow
  <1> QED
    BY <1>3, <1>4, <1>5, <1>6 DEF Rows

\* The handlers: Confirm and Unsubscribe change the rows of one token, T1 writes one row.
LEMMA ApiKeepsRows ==
  ASSUME Control, Rows, NEW c \in Clients, Handler(c) \/ Client(c)
  PROVE  Rows'
  <1>t. TypeOK /\ TablesTypeOK
    BY DEF Control, TypeOK
  <1>0. UNCHANGED <<replyQ, rcVars, sweeperVars>>
    BY <1>t, ApiFacts
  <1>m. ASSUME UNCHANGED sagas, NEW u \in Sagas, Failing(u)'
        PROVE  sagas[u] # NoSaga /\ sagas[u].sub \in Sagas /\ Marked(u)
    <2>1. Failing(u)
      BY <1>0, <1>m DEF Failing, rcVars, sweeperVars
    <2> QED
      BY <1>t, <2>1, FailingExists, SagaSub DEF Rows, MarkedBeforeFailed
  <1>s. ASSUME UNCHANGED <<subs, sagas, outbox>> PROVE Rows'
    <2>1. SagasGrow
      BY <1>s DEF SagasGrow, Compensated
    <2> QED
      BY <1>t, <1>m, <1>s, <2>1, SagaStepKeepsRows
  <1>k. ASSUME UNCHANGED <<sagas, outbox>>,
               \A i \in Sagas : IsRow(i)' =>
                 /\ IsRow(i) /\ subs'[i].token = subs[i].token /\ subs'[i].pair = subs[i].pair,
               \A i \in Sagas : subs'[i].status \in {"pending", "failed"} => subs'[i] = subs[i],
               \A i \in Sagas : subs'[i].status = "confirmed" => subs'[i].confirmed
        PROVE  Rows'
    <2>1. \A i \in Sagas : Pending(i)' => Pending(i)
      BY <1>k DEF Pending
    <2>2. \A i \in Sagas : subs'[i].status = "failed" => subs[i].status = "failed"
      BY <1>k
    <2>3. \A t \in Sagas : Failing(t)' => sagas[t].sub \in Sagas /\ Marked(t)
      BY <1>k, <1>m
    <2> QED
      BY <1>t, <1>k, <2>1, <2>2, <2>3, RowStepKeepsRows
  <1>r. req[c] \in Req \cup {NoReq}
    BY <1>t DEF TypeOK, ApiTypeOK
  <1>1. ASSUME NEW n \in Sagas, StartConfirmation(c, n) PROVE Rows'
    <2>1. /\ sagas[n] = NoSaga /\ EnqueueConfirmation(n, n)
          /\ subs' = [subs EXCEPT ![n] = [pair |-> req[c].pair, token |-> n, confirmed |-> FALSE,
                                         status |-> "pending"]]
      BY <1>1 DEF StartConfirmation, CreateSub, NextSaga
    <2>2. \A j \in Sagas : IsRow(j) => subs[j].pair # req[c].pair
      BY <1>1 DEF StartConfirmation, CreateSub, RowsOfPair, IsRow
    <2> QED
      BY <1>0, <2>1, <2>2, T1KeepsRows
  <1>2. ASSUME NEW n \in Sagas, ReactivateConfirmation(c, n) PROVE Rows'
    <2> DEFINE i == req[c].sub
    <2>1. i \in Sagas
      BY <1>r, <1>2 DEF ReactivateConfirmation, Req, NoReq
    <2>2. /\ sagas[n] = NoSaga /\ EnqueueConfirmation(n, i)
          /\ subs[i].status = "failed"
          /\ subs' = [subs EXCEPT ![i] = [pair |-> subs[i].pair, token |-> n, confirmed |-> FALSE,
                                         status |-> "pending"]]
      BY <1>t, <1>2, <2>1 DEF ReactivateConfirmation, ReactivateSub, NextSaga, TablesTypeOK
    <2>3. IsRow(i)
      BY <2>2 DEF IsRow, NoSub
    <2>4. \A j \in Sagas : IsRow(j) /\ subs[j].pair = subs[i].pair => j = i
      BY <2>1, <2>3 DEF Rows, OneRowPerPair
    <2> HIDE DEF i
    <2> QED
      BY <1>0, <2>1, <2>2, <2>4, T1KeepsRows
  <1>3. ASSUME ConfirmSub(req[c].token), UNCHANGED <<sagas, outbox>> PROVE Rows'
    <2>1. \A i \in Sagas : IsRow(i)' =>
            IsRow(i) /\ subs'[i].token = subs[i].token /\ subs'[i].pair = subs[i].pair
      BY <1>t, <1>3 DEF ConfirmSub, RowsOfToken, IsRow, TablesTypeOK, SubRow
    <2>2. ASSUME NEW i \in Sagas
          PROVE  /\ subs'[i].status \in {"pending", "failed"} => subs'[i] = subs[i]
                 /\ subs'[i].status = "confirmed" => subs'[i].confirmed
      <3>1. CASE i \in RowsOfToken(req[c].token)
        <4>1. subs[i] \in SubRow
          BY <1>t, <3>1 DEF RowsOfToken, TablesTypeOK
        <4>2. subs'[i].status = "confirmed" /\ subs'[i].confirmed = TRUE
          BY <1>3, <3>1, <4>1 DEF ConfirmSub, SubRow
        <4> QED
          BY <4>2
      <3>2. CASE i \notin RowsOfToken(req[c].token)
        BY <1>3, <3>2 DEF ConfirmSub, Rows, StatusIsExplained
      <3> QED
        BY <3>1, <3>2
    <2> QED
      BY <1>k, <1>3, <2>1, <2>2
  <1>4. ASSUME DeleteSub(req[c].token), UNCHANGED <<sagas, outbox>> PROVE Rows'
    <2>1. \A i \in Sagas : subs'[i] = subs[i] \/ subs'[i] = NoSub
      BY <1>4 DEF DeleteSub
    <2>2. \A i \in Sagas : IsRow(i)' =>
            IsRow(i) /\ subs'[i].token = subs[i].token /\ subs'[i].pair = subs[i].pair
      BY <2>1 DEF IsRow
    <2>3. \A i \in Sagas : subs'[i].status \in {"pending", "failed"} => subs'[i] = subs[i]
      BY <2>1 DEF NoSub
    <2>4. \A i \in Sagas : subs'[i].status = "confirmed" => subs'[i].confirmed
      BY <2>1 DEF NoSub, Rows, StatusIsExplained
    <2> QED
      BY <1>k, <1>4, <2>2, <2>3, <2>4
  <1> QED
    BY <1>s, <1>1, <1>2, <1>3, <1>4
    DEF Handler, Client, ApiStep, ApiRequest, SubscribeLookup, AbortT1, ConfirmLookup,
        ConfirmUpdate, ConfirmRegister, UnsubscribeLookup, UnsubscribeDelete, tableVars

\* MarkFailed on behalf of a compensated saga: its row is explained, and the saga may
\* now be failed.
LEMMA MarkKeepsRows ==
  ASSUME Control, Rows, NEW s \in Sagas, Compensated(s), sagas[s] # NoSaga,
         MarkFailedHits(sagas[s].sub), MarkFailed(sagas[s].sub), UNCHANGED <<sagas, outbox>>,
         \A t \in Sagas : Failing(t)' => Failing(t) \/ t = s
  PROVE  Rows'
  <1> DEFINE i == sagas[s].sub
  <1>t. TypeOK /\ TablesTypeOK
    BY DEF Control, TypeOK
  <1>1. i \in Sagas
    BY <1>t, SagaSub
  <1>2. /\ subs'[i].status = "failed" /\ subs'[i].token = subs[i].token
        /\ subs'[i].pair = subs[i].pair
        /\ \A j \in Sagas \ {i} : subs'[j] = subs[j]
    BY <1>t, <1>1, MarkFailedFacts
  <1>3. \A j \in Sagas : IsRow(j)' =>
          IsRow(j) /\ subs'[j].token = subs[j].token /\ subs'[j].pair = subs[j].pair
    BY <1>1, <1>2 DEF IsRow, MarkFailedHits
  <1>4. \A j \in Sagas : Pending(j)' => Pending(j)
    BY <1>1, <1>2 DEF Pending
  <1>5. \A j \in Sagas : subs'[j].status = "confirmed" => subs'[j].confirmed
    BY <1>1, <1>2 DEF Rows, StatusIsExplained
  <1>6. \A j \in Sagas : subs'[j].status = "failed" =>
          \/ subs[j].status = "failed"
          \/ \E t \in Sagas : sagas[t] # NoSaga /\ sagas[t].sub = j /\ Compensated(t)
    BY <1>1, <1>2
  <1>7. ASSUME NEW t \in Sagas, Failing(t)'
        PROVE  sagas[t].sub \in Sagas /\ (Marked(t) \/ ~Pending(sagas[t].sub)')
    <2>1. CASE Failing(t)
      BY <1>t, <2>1, FailingExists, SagaSub DEF Rows, MarkedBeforeFailed
    <2>2. CASE t = s
      BY <1>1, <1>2, <2>2 DEF Pending
    <2> QED
      BY <1>7, <2>1, <2>2
  <1> QED
    BY <1>t, <1>3, <1>4, <1>5, <1>6, <1>7, RowStepKeepsRows

\* The reply consumer: the row is marked before the saga is failed.
LEMMA RepliesKeepRows ==
  ASSUME Control, Rows, Replies
  PROVE  Rows'
  <1>t. TypeOK /\ TablesTypeOK /\ ReplyControl
    BY DEF Control, TypeOK
  <1>0. SagasGrow /\ UNCHANGED <<outbox, sweeperVars>>
    BY RepliesKeepControl
    DEF Replies, ReplyConsumerNext, ReplyLoad, ReplyComplete, ReplyCompensate, ReplyMarkFailed,
        ReplyFail, ReplyAck, StatementErr, tableVars
  <1>m. ASSUME NEW u \in Sagas, Failing(u) PROVE sagas[u] # NoSaga /\ sagas[u].sub \in Sagas /\ Marked(u)
    BY <1>t, <1>m, FailingExists, SagaSub DEF Rows, MarkedBeforeFailed
  <1>s. ASSUME UNCHANGED subs, \A u \in Sagas : Failing(u)' => Failing(u) PROVE Rows'
    BY <1>t, <1>0, <1>m, <1>s, SagaStepKeepsRows
  <1>e. ASSUME StatementErr PROVE Rows'
    <2>1. UNCHANGED <<subs, sagas>> /\ rcPc' = "load"
      BY <1>e DEF StatementErr, RetryReply, tableVars
    <2> QED
      BY <1>0, <1>s, <2>1 DEF Failing, sweeperVars
  <1>u. ASSUME NEW s \in Sagas, NEW st \in State \ {"failed"}, sagas[s] # NoSaga,
               UpdateState(s, st), rcPc' # "fail", UNCHANGED subs
        PROVE  Rows'
    <2>1. sagas'[s].state = st /\ \A u \in Sagas \ {s} : sagas'[u] = sagas[u]
      BY <1>t, <1>u, UpdateStateFacts
    <2>2. \A u \in Sagas : Failing(u)' => Failing(u)
      BY <1>0, <1>u, <2>1 DEF Failing, sweeperVars
    <2> QED
      BY <1>s, <1>u, <2>2
  <1>1. ASSUME NEW s \in Sagas, ReplyLoad(s) PROVE Rows'
    <2>1. CASE StatementErr
      BY <1>e, <2>1
    <2>2. CASE ~StatementErr
      <3>1. UNCHANGED <<subs, sagas>> /\ rcPc' # "fail"
        BY <1>1, <2>2 DEF ReplyLoad, Proceed, tableVars
      <3> QED
        BY <1>0, <1>s, <3>1 DEF Failing, sweeperVars
    <2> QED
      BY <2>1, <2>2
  <1>2. ASSUME NEW s \in Sagas, ReplyComplete(s) PROVE Rows'
    <2>1. sagas[s] # NoSaga
      BY <1>t, <1>2, StateExists DEF ReplyComplete, Handling, ReplyControl
    <2>2. StatementErr \/ (UpdateState(s, "completed") /\ rcPc' # "fail" /\ UNCHANGED subs)
      BY <1>2 DEF ReplyComplete, Proceed
    <2> QED
      BY <1>e, <1>u, <2>1, <2>2 DEF State
  <1>3. ASSUME NEW s \in Sagas, ReplyCompensate(s) PROVE Rows'
    <2>1. sagas[s] # NoSaga
      BY <1>t, <1>3, StateExists DEF ReplyCompensate, Handling, ReplyControl
    <2>2. StatementErr \/ (UpdateState(s, "compensating") /\ rcPc' # "fail" /\ UNCHANGED subs)
      BY <1>3 DEF ReplyCompensate, Proceed
    <2> QED
      BY <1>e, <1>u, <2>1, <2>2 DEF State
  <1>4. ASSUME NEW s \in Sagas, ReplyMarkFailed(s) PROVE Rows'
    <2> DEFINE i == sagas[s].sub
    <2>1. Compensated(s) /\ sagas[s] # NoSaga
      BY <1>t, <1>4, StateExists DEF ReplyMarkFailed, Handling, ReplyControl
    <2>3. CASE StatementErr
      BY <1>e, <2>3
    <2>4. CASE MarkFailedHits(i) /\ MarkFailed(i) /\ Proceed("fail") /\ UNCHANGED <<sagas, outbox>>
      <3>1. \A t \in Sagas : Failing(t)' => Failing(t) \/ t = s
        BY <1>0, <1>4, <2>4 DEF Failing, Proceed, ReplyMarkFailed, Handling, sweeperVars
      <3> QED
        BY <2>1, <2>4, <3>1, MarkKeepsRows
    <2> QED
      BY <1>4, <2>3, <2>4 DEF ReplyMarkFailed
  <1>5. ASSUME NEW s \in Sagas, ReplyFail(s) PROVE Rows'
    <2>1. Failing(s) /\ sagas[s] # NoSaga
      BY <1>5, FailingExists DEF ReplyFail, Handling, Failing
    <2>2. CASE StatementErr
      BY <1>e, <2>2
    <2>3. CASE UpdateState(s, "failed") /\ rcPc' # "fail" /\ UNCHANGED subs
      <3>1. \A u \in Sagas \ {s} : sagas'[u] = sagas[u]
        BY <1>t, <2>1, <2>3, UpdateStateFacts DEF State
      <3>2. \A u \in Sagas : Failing(u)' => Failing(u)
        BY <1>0, <2>1, <2>3, <3>1 DEF Failing, sweeperVars
      <3> QED
        BY <1>s, <2>3, <3>2
    <2> QED
      BY <1>5, <2>2, <2>3 DEF ReplyFail, Proceed
  <1>6. CASE ReplyAck
    BY <1>0, <1>s, <1>6 DEF ReplyAck, Failing, tableVars, sweeperVars
  <1> QED
    BY <1>1, <1>2, <1>3, <1>4, <1>5, <1>6 DEF Replies, ReplyConsumerNext

\* The sweeper finishes a compensation in the same order.
LEMMA SweepKeepsRows ==
  ASSUME Control, Rows, Sweep
  PROVE  Rows'
  <1>t. TypeOK /\ TablesTypeOK /\ SweeperTypeOK /\ SweepControl
    BY DEF Control, TypeOK
  <1>0. SagasGrow /\ UNCHANGED <<replyQ, rcVars>>
    BY SweepKeepsControl
    DEF Sweep, SweeperNext, SweepFind, SweepRequeue, SweepMarkFailed, SweepFail, brokerVars
  <1>s. ASSUME UNCHANGED subs, \A u \in Sagas : outbox[u] # "none" => outbox'[u] # "none",
               \A u \in Sagas : Failing(u)' => Failing(u)
        PROVE  Rows'
    <2>1. ASSUME NEW u \in Sagas, Failing(u) PROVE sagas[u] # NoSaga /\ Marked(u)
      BY <2>1, FailingExists DEF Rows, MarkedBeforeFailed
    <2> QED
      BY <1>t, <1>0, <1>s, <2>1, SagaStepKeepsRows
  <1>1. CASE SweepFind
    BY <1>0, <1>s, <1>1 DEF SweepFind, Failing, tableVars, rcVars
  <1>2. ASSUME NEW row \in swBatch, SweepRequeue(row) PROVE Rows'
    <2>1. \A u \in Sagas : outbox[u] # "none" => outbox'[u] # "none"
      <3>1. CASE Requeue(row.saga)
        BY <1>t, <3>1 DEF Requeue, TablesTypeOK
      <3>2. CASE UNCHANGED outbox
        BY <3>2
      <3> QED
        BY <1>2, <3>1, <3>2 DEF SweepRequeue
    <2> QED
      BY <1>0, <1>s, <1>2, <2>1 DEF SweepRequeue, Failing, rcVars
  <1>3. ASSUME NEW row \in swBatch, SweepMarkFailed(row) PROVE Rows'
    <2> DEFINE s == row.saga
    <2>1. s \in Sagas /\ Compensated(s) /\ sagas[s] # NoSaga /\ UNCHANGED <<sagas, outbox>>
      BY <1>t, <1>3 DEF SweepMarkFailed, SweeperTypeOK, SweepControl
    <2>2. CASE UNCHANGED <<subs, swFailing>>
      BY <1>0, <1>s, <2>1, <2>2 DEF Failing, rcVars
    <2>3. CASE MarkFailedHits(sagas[s].sub) /\ MarkFailed(sagas[s].sub) /\ swFailing' = s
      <3>1. \A t \in Sagas : Failing(t)' => Failing(t) \/ t = s
        BY <1>0, <2>1, <2>3 DEF Failing, rcVars
      <3> QED
        BY <2>1, <2>3, <3>1, MarkKeepsRows
    <2> QED
      BY <1>3, <2>2, <2>3 DEF SweepMarkFailed
  <1>4. CASE SweepFail
    <2>1. swFailing \in Sagas /\ sagas[swFailing] # NoSaga /\ UNCHANGED <<subs, outbox>>
      BY <1>t, <1>4, StateExists DEF SweepFail, SweepControl
    <2>2. \A u \in Sagas : u # swFailing => sagas'[u] = sagas[u]
      BY <1>t, <1>4, <2>1, UpdateStateFacts DEF SweepFail, State
    <2>3. swFailing' = 0 /\ 0 \notin Sagas
      BY <1>4 DEF SweepFail, Sagas
    <2>4. \A u \in Sagas : Failing(u)' => Failing(u)
      BY <1>0, <2>2, <2>3 DEF Failing, rcVars
    <2> QED
      BY <1>s, <2>1, <2>4
  <1> QED
    BY <1>1, <1>2, <1>3, <1>4 DEF Sweep, SweeperNext

\* The relay, the notifier, time and crashes touch neither rows nor sagas.
LEMMA OthersKeepRows ==
  ASSUME Control, Rows,
         \/ Relay \/ RelayFault \/ Notifier \/ NotifierFault
         \/ \E s \in Sagas : Clock(s)
         \/ MonolithCrash \/ MonolithShutdown
         \/ UNCHANGED vars
  PROVE  Rows'
  <1>t. TypeOK /\ TablesTypeOK
    BY DEF Control, TypeOK
  <1>m. ASSUME NEW u \in Sagas, Failing(u) PROVE sagas[u] # NoSaga /\ Marked(u)
    BY <1>m, FailingExists DEF Rows, MarkedBeforeFailed
  <1>s. ASSUME UNCHANGED <<subs, sagas>>, \A u \in Sagas : outbox[u] # "none" => outbox'[u] # "none",
               rcPc' = "fail" => rcPc = "fail" /\ Head(replyQ') = Head(replyQ),
               swFailing' = swFailing \/ swFailing' = 0
        PROVE  Rows'
    <2>1. SagasGrow
      BY <1>s DEF SagasGrow, Compensated
    <2>2. \A u \in Sagas : Failing(u)' => Failing(u)
      BY <1>s DEF Failing, Sagas
    <2> QED
      BY <1>t, <1>m, <1>s, <2>1, <2>2, SagaStepKeepsRows
  <1>1. CASE Relay
    <2>1. UNCHANGED <<subs, sagas, replyQ, rcVars, sweeperVars>>
      BY <1>1 DEF Relay, RelayNext, RelayFetch, RelayPublish, RelayMark, tableVars, brokerVars
    <2>2. \A u \in Sagas : outbox[u] # "none" => outbox'[u] # "none"
      BY <1>t, <1>1 DEF Relay, RelayNext, RelayFetch, RelayPublish, RelayMark, MarkPublished,
                        TablesTypeOK, tableVars
    <2> QED
      BY <1>s, <2>1, <2>2 DEF rcVars, sweeperVars
  <1>2. CASE Notifier \/ NotifierFault
    <2>1. UNCHANGED <<subs, sagas, outbox, rcVars, sweeperVars>>
      BY <1>2 DEF Notifier, NotifierFault, NotifierNext, NotifierCheck, NotifierSendOk,
           NotifierSendErr, NotifierCancel, NotifierReply, NotifierReplyDup, NotifierMark,
           NotifierAck, NotifierRestart, DedupExpire, tableVars
    <2>2. replyQ # <<>> => Head(replyQ') = Head(replyQ)
      <3>1. replyQ' = replyQ \/ \E r \in Reply : replyQ' = Append(replyQ, r)
        BY <1>2 DEF Notifier, NotifierFault, NotifierNext, NotifierCheck, NotifierSendOk,
             NotifierSendErr, NotifierCancel, NotifierReply, NotifierReplyDup, NotifierMark,
             NotifierAck, NotifierRestart, DedupExpire, PublishReplyOk, PublishReplyErr,
             Reply, ReplyStatus, brokerVars
      <3> QED
        BY <1>t, <3>1, AppendFacts DEF TypeOK
    <2>3. rcPc = "fail" => replyQ # <<>>
      BY DEF Control, ReplyControl
    <2> QED
      BY <1>s, <2>1, <2>2, <2>3 DEF rcVars, sweeperVars
  <1>3. ASSUME NEW s \in Sagas, Clock(s) PROVE Rows'
    BY <1>s, <1>3 DEF Clock, Age, brokerVars, rcVars, sweeperVars
  <1>4. CASE MonolithCrash \/ MonolithShutdown
    <2>1. UNCHANGED <<subs, sagas, outbox>> /\ rcPc' = "load" /\ swFailing' = 0
      BY <1>4 DEF MonolithCrash, MonolithShutdown, MonolithReset, ReplyConsumerReset, SweeperReset,
           tableVars
    <2> QED
      BY <1>s, <2>1
  <1>5. CASE RelayFault \/ UNCHANGED vars
    BY <1>s, <1>5 DEF RelayFault, PublisherLost, vars, tableVars, brokerVars, rcVars, sweeperVars
  <1> QED
    BY <1>1, <1>2, <1>3, <1>4, <1>5

\* Rows is inductive relative to Control.
THEOREM RowsInvariant == Spec => []Rows
  <1>1. Init => Rows
    BY InitRows
  <1>2. Control /\ Rows /\ [Next]_vars => Rows'
    BY ApiKeepsRows, RepliesKeepRows, SweepKeepsRows, OthersKeepRows DEF Next
  <1> QED
    BY <1>1, <1>2, ControlInvariant, PTL DEF Spec

\* No pending subscription is ever stranded without a saga to decide it:
\* PendingIsDriven of every behaviour.
THEOREM PendingAlwaysDriven == Spec => []PendingIsDriven
  <1>1. Control /\ Rows => PendingIsDriven
    <2> SUFFICES ASSUME Control, Rows, NEW i \in Sagas, Pending(i)
                 PROVE  LET s == subs[i].token
                        IN /\ sagas[s] # NoSaga /\ sagas[s].sub = i
                           /\ outbox[s] # "none" /\ sagas[s].state # "failed"
      BY DEF PendingIsDriven
    <2>1. IsRow(i) /\ subs[i].token \in Sagas
      BY DEF Pending, IsRow, NoSub, Control, TypeOK, TablesTypeOK, SubRow
    <2>2. sagas[subs[i].token].sub = i /\ sagas[subs[i].token] # NoSaga /\ outbox[subs[i].token] # "none"
      BY <2>1 DEF Rows, RowsHaveSagas
    <2>3. sagas[subs[i].token].state # "failed"
      BY <2>1, <2>2 DEF Rows, MarkedBeforeFailed, Failing, Marked
    <2> QED
      BY <2>2, <2>3
  <1> QED
    BY <1>1, ControlInvariant, RowsInvariant, PTL

\* A failed row was failed by a compensated saga of its own: StatusIsExplained of
\* every behaviour.
THEOREM StatusAlwaysExplained == Spec => []StatusIsExplained
  <1>1. Rows => StatusIsExplained
    BY DEF Rows
  <1> QED
    BY <1>1, RowsInvariant, PTL

-----------------------------------------------------------------------------
(***************************************************************************)
(* Refinement: T1 is a Start, an SMTP attempt an Attempt, UpdateState to   *)
(* completed a Complete, the first UpdateState to compensating a           *)
(* Compensate; every other step changes nothing that SagaOutcome sees.     *)
(***************************************************************************)

\* The outcome of a saga, read off its state.
LEMMA OutcomeValues ==
  ASSUME NEW s
  PROVE  /\ sagas[s].state = "none" => OutcomeOf(s) = "none"
         /\ Undecided(s) => OutcomeOf(s) = "undecided"
         /\ Completed(s) => OutcomeOf(s) = "sent"
         /\ Compensated(s) => OutcomeOf(s) = "failed"
  BY DEF OutcomeOf, Undecided, Completed, Compensated

\* The same of the next state.
LEMMA OutcomeValuesPrime ==
  ASSUME NEW s
  PROVE  /\ sagas'[s].state = "none" => OutcomeOf(s)' = "none"
         /\ Undecided(s)' => OutcomeOf(s)' = "undecided"
         /\ Completed(s)' => OutcomeOf(s)' = "sent"
         /\ Compensated(s)' => OutcomeOf(s)' = "failed"
  BY DEF OutcomeOf, Undecided, Completed, Compensated

\* Nothing is started, mailed or refused at the start.
LEMMA InitOutcome == Init => Outcome!Init
  <1> SUFFICES ASSUME Init PROVE Outcome!Init
    OBVIOUS
  <1>1. \A s \in Sagas : sagas[s].state = "none"
    BY DEF Init, TablesInit, NoSaga
  <1>2. [s \in Sagas |-> OutcomeOf(s)] = [s \in Sagas |-> "none"]
    BY <1>1, OutcomeValues
  <1>3. {s \in Sagas : Mailed(s)} = {} /\ gaveUp = {}
    BY DEF Init, NotifierInit, Mailed
  <1> QED
    BY <1>2, <1>3 DEF Outcome!Init

\* The notifier's SMTP attempts are Attempts on a saga that was started.
LEMMA NotifierOutcome ==
  ASSUME Control, Notifier \/ NotifierFault
  PROVE  [Outcome!Next]_Outcome!outcomeVars
  <1>1. UNCHANGED sagas
    BY DEF Notifier, NotifierFault, NotifierNext, NotifierCheck, NotifierSendOk, NotifierSendErr,
           NotifierCancel, NotifierReply, NotifierReplyDup, NotifierMark, NotifierAck,
           NotifierRestart, DedupExpire, tableVars
  <1>2. [s \in Sagas |-> OutcomeOf(s)]' = [s \in Sagas |-> OutcomeOf(s)]
    BY <1>1 DEF OutcomeOf, Undecided, Completed
  <1>3. ASSUME UNCHANGED <<emails, gaveUp>> PROVE UNCHANGED Outcome!outcomeVars
    BY <1>2, <1>3 DEF Outcome!outcomeVars, Mailed
  <1>4. ASSUME NEW s \in Sagas, cmdQ # <<>>, s = Head(cmdQ), UNCHANGED emails \/ Delivered(s),
               gaveUp' \in {gaveUp, gaveUp \cup {s}}
        PROVE  Outcome!Attempt(s)
    <2>1. sagas[s] # NoSaga
      BY <1>4, TailFacts DEF Control, TypeOK, CommandControl
    <2>2. OutcomeOf(s) # "none"
      BY <2>1, SagaSub, OutcomeValues
      DEF Control, TypeOK, SagaRow, State, Undecided, Completed, Compensated
    <2>3. {t \in Sagas : Mailed(t)}' \in {{t \in Sagas : Mailed(t)}, {t \in Sagas : Mailed(t)} \cup {s}}
      <3>1. CASE UNCHANGED emails
        BY <3>1 DEF Mailed
      <3>2. CASE Delivered(s)
        <4>1. \A t \in Sagas : Mailed(t)' <=> (Mailed(t) \/ t = s)
          BY <3>2 DEF Delivered, Mailed, MaxEmails, Control, TypeOK, NotifierTypeOK
        <4> QED
          BY <4>1
      <3> QED
        BY <1>4, <3>1, <3>2
    <2> QED
      BY <1>2, <1>4, <2>2, <2>3 DEF Outcome!Attempt
  <1>5. ASSUME NEW s \in Sagas, NotifierSendOk(s) \/ NotifierSendErr(s) \/ NotifierCancel(s)
        PROVE  Outcome!Attempt(s)
    BY <1>4, <1>5 DEF NotifierSendOk, NotifierSendErr, NotifierCancel, At
  <1> QED
    BY <1>3, <1>5
    DEF Notifier, NotifierFault, NotifierNext, NotifierCheck, NotifierReply, NotifierReplyDup,
        NotifierMark, NotifierAck, NotifierRestart, DedupExpire, Outcome!Next

\* A step that leaves the notifier and every outcome as they are is no step of SagaOutcome.
LEMMA SameOutcome ==
  ASSUME UNCHANGED notifierVars, \A s \in Sagas : OutcomeOf(s)' = OutcomeOf(s)
  PROVE  UNCHANGED Outcome!outcomeVars
  BY DEF Outcome!outcomeVars, Mailed, notifierVars

\* The reply consumer decides: Complete, or Compensate the first time.
LEMMA RepliesOutcome ==
  ASSUME Control, Causes, Replies
  PROVE  [Outcome!Next]_Outcome!outcomeVars
  <1>t. TypeOK /\ TablesTypeOK /\ ReplyControl
    BY DEF Control, TypeOK
  <1>0. UNCHANGED notifierVars
    BY DEF Replies
  <1>n. UNCHANGED <<{s \in Sagas : Mailed(s)}, gaveUp>>
    BY <1>0 DEF notifierVars, Mailed
  <1>c. replyQ # <<>> => ReplyHasCause(Head(replyQ))
    BY <1>t, TailFacts DEF TypeOK, Causes, RepliesHaveCauses
  <1>s. UNCHANGED sagas => UNCHANGED Outcome!outcomeVars
    BY <1>0, SameOutcome DEF OutcomeOf, Undecided, Completed
  <1>u. ASSUME NEW s \in Sagas, NEW st \in State, sagas[s] # NoSaga, UpdateState(s, st)
        PROVE  /\ sagas'[s].state = st
               /\ \A u \in Sagas \ {s} : OutcomeOf(u)' = OutcomeOf(u)
    <2>1. sagas'[s].state = st /\ \A u \in Sagas \ {s} : sagas'[u] = sagas[u]
      BY <1>t, <1>u, UpdateStateFacts
    <2> QED
      BY <2>1 DEF OutcomeOf, Undecided, Completed
  <1>1. ASSUME NEW s \in Sagas, ReplyComplete(s) PROVE [Outcome!Next]_Outcome!outcomeVars
    <2>1. Undecided(s) /\ Tried(s) /\ sagas[s] # NoSaga
      BY <1>t, <1>c, <1>1, StateExists DEF ReplyComplete, Handling, ReplyControl, ReplyHasCause
    <2>2. CASE UpdateState(s, "completed")
      <3>1. Completed(s)' /\ \A u \in Sagas \ {s} : OutcomeOf(u)' = OutcomeOf(u)
        BY <1>u, <2>1, <2>2 DEF Completed, State
      <3>2. OutcomeOf(s) = "undecided" /\ OutcomeOf(s)' = "sent"
        BY <2>1, <3>1, OutcomeValues, OutcomeValuesPrime
      <3>3. Outcome!Complete(s)
        BY <1>n, <2>1, <3>1, <3>2 DEF Outcome!Complete, Tried
      <3> QED
        BY <3>3 DEF Outcome!Next
    <2> QED
      BY <1>s, <1>1, <2>2 DEF ReplyComplete, StatementErr, tableVars
  <1>2. ASSUME NEW s \in Sagas, ReplyCompensate(s) PROVE [Outcome!Next]_Outcome!outcomeVars
    <2>1. (Undecided(s) \/ Compensated(s)) /\ s \in gaveUp /\ sagas[s] # NoSaga
      BY <1>t, <1>c, <1>2, StateExists DEF ReplyCompensate, Handling, ReplyControl, ReplyHasCause
    <2>2. CASE UpdateState(s, "compensating")
      <3>1. Compensated(s)' /\ \A u \in Sagas \ {s} : OutcomeOf(u)' = OutcomeOf(u)
        BY <1>u, <2>1, <2>2 DEF Compensated, State
      <3>2. OutcomeOf(s)' = "failed"
        BY <3>1, OutcomeValuesPrime
      <3>3. CASE Undecided(s)
        <4>1. OutcomeOf(s) = "undecided"
          BY <3>3, OutcomeValues
        <4>2. Outcome!Compensate(s)
          BY <1>n, <2>1, <3>1, <3>2, <4>1 DEF Outcome!Compensate
        <4> QED
          BY <4>2 DEF Outcome!Next
      <3>4. CASE Compensated(s)
        <4>1. OutcomeOf(s) = "failed"
          BY <3>4, OutcomeValues
        <4> QED
          BY <1>0, <3>1, <3>2, <4>1, SameOutcome
      <3> QED
        BY <2>1, <3>3, <3>4
    <2> QED
      BY <1>s, <1>2, <2>2 DEF ReplyCompensate, StatementErr, tableVars
  <1>3. ASSUME NEW s \in Sagas, ReplyFail(s) PROVE [Outcome!Next]_Outcome!outcomeVars
    <2>1. Compensated(s) /\ sagas[s] # NoSaga
      BY <1>t, <1>3, StateExists DEF ReplyFail, Handling, ReplyControl
    <2>2. CASE UpdateState(s, "failed")
      <3>1. Compensated(s)' /\ \A u \in Sagas \ {s} : OutcomeOf(u)' = OutcomeOf(u)
        BY <1>u, <2>1, <2>2 DEF Compensated, State
      <3> QED
        BY <1>0, <2>1, <3>1, OutcomeValues, OutcomeValuesPrime, SameOutcome
    <2> QED
      BY <1>s, <1>3, <2>2 DEF ReplyFail, StatementErr, tableVars
  <1> QED
    BY <1>s, <1>1, <1>2, <1>3
    DEF Replies, ReplyConsumerNext, ReplyLoad, ReplyMarkFailed, ReplyAck, StatementErr, tableVars

\* T1 starts a saga; the other steps of the monolith change no outcome.
LEMMA OthersOutcome ==
  ASSUME Control,
         \/ Relay \/ RelayFault \/ Sweep
         \/ \E c \in Clients : Handler(c) \/ Client(c)
         \/ \E s \in Sagas : Clock(s)
         \/ MonolithCrash \/ MonolithShutdown
         \/ UNCHANGED vars
  PROVE  [Outcome!Next]_Outcome!outcomeVars
  <1>t. TypeOK /\ TablesTypeOK /\ SweepControl
    BY DEF Control, TypeOK
  <1>s. UNCHANGED <<sagas, notifierVars>> => UNCHANGED Outcome!outcomeVars
    BY SameOutcome DEF OutcomeOf, Undecided, Completed
  <1>1. ASSUME NEW c \in Clients, Handler(c) \/ Client(c)
        PROVE  [Outcome!Next]_Outcome!outcomeVars
    <2>1. UNCHANGED notifierVars /\ ApiSagas
      BY <1>t, <1>1, ApiFacts
    <2>2. ASSUME NEW n \in Sagas, StartsSaga(n) PROVE Outcome!Start(n)
      <3>1. OutcomeOf(n) = "none" /\ OutcomeOf(n)' = "undecided"
        BY <2>2, OutcomeValues, OutcomeValuesPrime DEF StartsSaga, NoSaga
      <3>2. \A u \in Sagas \ {n} : OutcomeOf(u)' = OutcomeOf(u)
        BY <2>2 DEF StartsSaga, OutcomeOf, Undecided, Completed
      <3>3. UNCHANGED <<{s \in Sagas : Mailed(s)}, gaveUp>>
        BY <2>1 DEF notifierVars, Mailed
      <3> QED
        BY <3>1, <3>2, <3>3 DEF Outcome!Start
    <2> QED
      BY <1>s, <2>1, <2>2 DEF ApiSagas, Outcome!Next
  <1>2. CASE Sweep
    <2>1. UNCHANGED notifierVars
      BY <1>2 DEF Sweep
    <2>2. CASE UNCHANGED sagas
      BY <1>s, <2>1, <2>2
    <2>3. CASE SweepFail /\ UpdateState(swFailing, "failed")
      <3>1. swFailing \in Sagas /\ Compensated(swFailing) /\ sagas[swFailing] # NoSaga
        BY <1>t, <2>3, StateExists DEF SweepFail, SweepControl
      <3>2. /\ sagas'[swFailing].state = "failed"
            /\ \A u \in Sagas \ {swFailing} : sagas'[u] = sagas[u]
        BY <1>t, <2>3, <3>1, UpdateStateFacts DEF State
      <3>3. OutcomeOf(swFailing) = "failed"
        BY <3>1, OutcomeValues
      <3>4. \A u \in Sagas : OutcomeOf(u)' = OutcomeOf(u)
        BY <3>2, <3>3 DEF OutcomeOf, Undecided, Completed
      <3> QED
        BY <2>1, <3>4, SameOutcome
    <2> QED
      BY <1>2, <2>2, <2>3
      DEF Sweep, SweeperNext, SweepFind, SweepRequeue, SweepMarkFailed, SweepFail, tableVars
  <1> QED
    BY <1>s, <1>1, <1>2
    DEF Relay, RelayNext, RelayFetch, RelayPublish, RelayMark, RelayFault, PublisherLost, Clock, Age,
        MonolithCrash, MonolithShutdown, vars, tableVars

\* The saga with its queues, retries, crashes and re-drives implements SagaOutcome:
\* it decides every saga at most once and for a cause (ImplementsOutcome).
THEOREM Refinement == Spec => ImplementsOutcome
  <1>1. Init => Outcome!Init
    BY InitOutcome
  <1>2. Control /\ Causes /\ [Next]_vars => [Outcome!Next]_Outcome!outcomeVars
    BY NotifierOutcome, RepliesOutcome, OthersOutcome DEF Next
  <1> QED
    BY <1>1, <1>2, CausesInvariant, ControlInvariant, PTL
    DEF Spec, ImplementsOutcome, Outcome!Spec

=============================================================================
