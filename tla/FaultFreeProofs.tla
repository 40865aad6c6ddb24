-------------------------- MODULE FaultFreeProofs --------------------------
(***************************************************************************)
(* Theorems about SubscribeSaga as long as nothing has gone wrong:         *)
(* no message is lost and delivery is exactly once, although the relay,    *)
(* the sweeper and the consumers interleave as they like, commands are     *)
(* re-published any number of times, and subscriptions are deleted.        *)
(*                                                                         *)
(* Three invariants, one for each hop.  Dedup: the notifier tries a saga   *)
(* once.  InOrder: the replies to duplicate commands, which say "sent"     *)
(* even for a saga that was given up on, queue behind the true one.        *)
(* OnItsWay: whoever removes a message has left its effect behind.         *)
(***************************************************************************)
EXTENDS SubscribeSagaProofs

\* The notifier has tried saga s and not yet recorded it in Redis.
InHand(s) == nPc \in {"reply", "mark"} /\ cmdQ # <<>> /\ s = Head(cmdQ)

\* No saga is tried twice, and the notifier knows what became of the one in hand.
Dedup ==
  /\ \A s \in Sagas : emails[s] <= 1 /\ (s \in gaveUp => emails[s] = 0)
  /\ \A s \in Sagas : emails[s] # 0 \/ s \in gaveUp => s \in processed \/ InHand(s)
  /\ nPc = "send" => Head(cmdQ) \notin processed
  /\ nPc \in {"reply", "mark"} =>
       \/ nOutcome = "sent" /\ emails[Head(cmdQ)] = 1
       \/ nOutcome = "failed" /\ Head(cmdQ) \in gaveUp

\* A failed reply for saga s is among the first n.
FailedReply(s, n) == \E j \in 1..n : replyQ[j].saga = s /\ replyQ[j].status = "failed"

\* The saga of a command that was given up on hears of it first.
InOrder ==
  /\ \A s \in gaveUp : sagas[s] # NoSaga
  /\ \A k \in 1..Len(replyQ) : sagas[replyQ[k].saga] # NoSaga
  /\ \A s \in gaveUp : Undecided(s) =>
       FailedReply(s, Len(replyQ)) \/ (nPc = "reply" /\ s = Head(cmdQ))
  /\ \A k \in 1..Len(replyQ) :
       replyQ[k].status = "sent" /\ replyQ[k].saga \in gaveUp /\ Undecided(replyQ[k].saga) =>
         FailedReply(replyQ[k].saga, k - 1)

\* Completed is the truth.
Truthful == \A s \in Sagas : Completed(s) => emails[s] = 1

\* Saga s will hear of its command.
Heard(s) == Undecided(s) => HasCommand(s) \/ HasReply(s)

OnItsWay ==
  /\ \A s \in Sagas : outbox[s] = "published" => Heard(s)
  /\ relayPc = "mark" => \A s \in Sagas : RelayAt(s) => Heard(s)
  /\ nPc \in {"mark", "ack"} /\ Undecided(Head(cmdQ)) => HasReply(Head(cmdQ))
  /\ rcPc = "ack" => ~Undecided(Head(replyQ).saga)

Clean == Dedup /\ InOrder /\ Truthful /\ OnItsWay

\* As long as nothing has gone wrong.
FaultFree == faults = 0 => Clean

-----------------------------------------------------------------------------
(* What a step leaves to the others. *)

\* A step with a fault ends the fault-free part of the behaviour.
LEMMA FaultEnds ==
  ASSUME TypeOK, Fault
  PROVE  faults' # 0
  BY BrokerAssumption DEF TypeOK, Fault

\* Decisions stand, and only a new saga becomes undecided.
DecisionsStand ==
  /\ SagasGrow
  /\ \A s \in Sagas : Undecided(s)' => Undecided(s) \/ sagas[s] = NoSaga

\* Commands are appended or left alone.
CmdsStay == cmdQ' = cmdQ \/ \E s \in Sagas : cmdQ' = Append(cmdQ, s)

\* The command being handled stays at the head, and no command is lost.
LEMMA CmdFacts ==
  ASSUME TypeOK, CmdsStay
  PROVE  /\ cmdQ # <<>> => cmdQ' # <<>> /\ Head(cmdQ') = Head(cmdQ)
         /\ \A s \in Sagas : HasCommand(s) => HasCommand(s)'
  <1>1. CASE cmdQ' = cmdQ
    BY <1>1 DEF HasCommand
  <1>2. ASSUME NEW s \in Sagas, cmdQ' = Append(cmdQ, s)
        PROVE  /\ cmdQ # <<>> => cmdQ' # <<>> /\ Head(cmdQ') = Head(cmdQ)
               /\ \A t \in Sagas : HasCommand(t) => HasCommand(t)'
    <2>1. /\ cmdQ # <<>> => cmdQ' # <<>> /\ Head(cmdQ') = Head(cmdQ)
          /\ Len(cmdQ) \in Nat /\ Len(cmdQ') = Len(cmdQ) + 1
          /\ \A k \in 1..Len(cmdQ) : cmdQ'[k] = cmdQ[k]
      BY <1>2, AppendFacts DEF TypeOK
    <2> QED
      BY <2>1 DEF HasCommand
  <1> QED
    BY <1>1, <1>2 DEF CmdsStay

\* Replies are appended: none is lost, and none overtakes another.
LEMMA ReplyAppendFacts ==
  ASSUME TypeOK, NEW r \in Reply, replyQ' = Append(replyQ, r)
  PROVE  /\ Len(replyQ) \in Nat /\ Len(replyQ') = Len(replyQ) + 1
         /\ \A k \in 1..Len(replyQ) : replyQ'[k] = replyQ[k]
         /\ replyQ'[Len(replyQ')] = r
         /\ replyQ # <<>> => Head(replyQ') = Head(replyQ)
         /\ \A s \in Sagas : HasReply(s)' <=> HasReply(s) \/ s = r.saga
         /\ \A s \in Sagas, n \in 0..Len(replyQ) : FailedReply(s, n)' <=> FailedReply(s, n)
  <1>1. /\ Len(replyQ) \in Nat /\ Len(replyQ') = Len(replyQ) + 1
        /\ \A k \in 1..Len(replyQ) : replyQ'[k] = replyQ[k]
        /\ replyQ'[Len(replyQ')] = r
        /\ replyQ # <<>> => Head(replyQ') = Head(replyQ)
    BY AppendFacts DEF TypeOK
  <1>2. \A s \in Sagas : HasReply(s)' <=> HasReply(s) \/ s = r.saga
    BY <1>1 DEF HasReply
  <1>3. \A s \in Sagas, n \in 0..Len(replyQ) : FailedReply(s, n)' <=> FailedReply(s, n)
    BY <1>1 DEF FailedReply
  <1> QED
    BY <1>1, <1>2, <1>3

\* The reply at the head leaves the queue: the others keep their order.
LEMMA ReplyTailFacts ==
  ASSUME TypeOK, replyQ # <<>>, replyQ' = Tail(replyQ)
  PROVE  /\ Len(replyQ') \in Nat /\ Len(replyQ) = Len(replyQ') + 1
         /\ \A k \in 1..Len(replyQ') : k + 1 \in 1..Len(replyQ) /\ replyQ'[k] = replyQ[k + 1]
         /\ \A s \in Sagas : HasReply(s) => HasReply(s)' \/ s = Head(replyQ).saga
         /\ \A s \in Sagas, n \in 0..Len(replyQ') :
              FailedReply(s, n + 1) => FailedReply(s, n)' \/ s = Head(replyQ).saga
  <1>1. /\ Len(replyQ') \in Nat /\ Len(replyQ) = Len(replyQ') + 1
        /\ \A k \in 1..Len(replyQ') : k + 1 \in 1..Len(replyQ) /\ replyQ'[k] = replyQ[k + 1]
        /\ Head(replyQ) = replyQ[1]
    BY TailFacts, LenProperties DEF TypeOK
  <1>2. ASSUME NEW j \in 2..Len(replyQ) PROVE j - 1 \in 1..Len(replyQ') /\ replyQ'[j - 1] = replyQ[j]
    <2>1. j - 1 \in 1..Len(replyQ') /\ (j - 1) + 1 = j
      BY <1>1
    <2> QED
      BY <1>1, <2>1
  <1>3. \A s \in Sagas : HasReply(s) => HasReply(s)' \/ s = Head(replyQ).saga
    BY <1>1, <1>2 DEF HasReply
  <1>4. ASSUME NEW s \in Sagas, NEW n \in 0..Len(replyQ'), FailedReply(s, n + 1), s # Head(replyQ).saga
        PROVE  FailedReply(s, n)'
    <2>1. PICK j \in 1..(n + 1) : replyQ[j].saga = s /\ replyQ[j].status = "failed"
      BY <1>4 DEF FailedReply
    <2>2. j # 1 /\ j \in 2..Len(replyQ) /\ j - 1 \in 1..n
      BY <1>1, <1>4, <2>1
    <2> QED
      BY <1>2, <2>1, <2>2 DEF FailedReply
  <1> QED
    BY <1>1, <1>3, <1>4

\* The notifier waits.
LEMMA DedupWaits ==
  ASSUME Control, Dedup, UNCHANGED notifierVars, CmdsStay
  PROVE  Dedup'
  <1>1. UNCHANGED <<nPc, nOutcome, processed, emails, gaveUp>>
    BY DEF notifierVars
  <1>2. cmdQ # <<>> => cmdQ' # <<>> /\ Head(cmdQ') = Head(cmdQ)
    BY CmdFacts DEF Control
  <1>3. nPc # "check" => cmdQ # <<>>
    BY DEF Control, NotifierControl
  <1>4. \A s \in Sagas : InHand(s) => InHand(s)'
    BY <1>1, <1>2 DEF InHand
  <1> QED
    BY <1>1, <1>2, <1>3, <1>4 DEF Dedup

\* The queue of replies and the notifier are left alone.
LEMMA InOrderWaits ==
  ASSUME Control, InOrder, UNCHANGED <<notifierVars, replyQ>>, CmdsStay, DecisionsStand
  PROVE  InOrder'
  <1>1. UNCHANGED <<nPc, gaveUp, replyQ>>
    BY DEF notifierVars
  <1>2. nPc = "reply" => Head(cmdQ') = Head(cmdQ)
    BY CmdFacts DEF Control, NotifierControl
  <1>3. gaveUp \subseteq Sagas /\ \A k \in 1..Len(replyQ) : replyQ[k].saga \in Sagas
    <2>1. gaveUp \subseteq Sagas /\ replyQ \in Seq(Reply)
      BY DEF Control, TypeOK, NotifierTypeOK
    <2>2. \A k \in 1..Len(replyQ) : replyQ[k] \in Reply
      BY <2>1, ElementOfSeq
    <2> QED
      BY <2>1, <2>2 DEF Reply
  <1>4. /\ \A s \in gaveUp : sagas'[s] # NoSaga /\ (Undecided(s)' => Undecided(s))
        /\ \A k \in 1..Len(replyQ) : sagas'[replyQ[k].saga] # NoSaga
                                     /\ (sagas'[replyQ[k].saga].state = "subscription_created"
                                           => Undecided(replyQ[k].saga))
    BY <1>3 DEF InOrder, DecisionsStand, SagasGrow, Undecided
  <1>5. \A s, n : FailedReply(s, n)' <=> FailedReply(s, n)
    BY <1>1 DEF FailedReply
  <1> QED
    BY <1>1, <1>2, <1>3, <1>4, <1>5 DEF InOrder, Undecided

\* Steps of the handlers, of the sweeper and of the clock: they start sagas, carry
\* compensations on, and take commands of published sagas back to be published again.
LEMMA OthersKeepClean ==
  ASSUME Control, Clean, UNCHANGED <<cmdQ, replyQ, relayVars, notifierVars, rcVars>>,
         DecisionsStand,
         \A s \in Sagas : Completed(s)' => Completed(s),
         \A s \in Sagas : outbox'[s] = "published" => outbox[s] = "published"
  PROVE  Clean'
  <1>1. Dedup' /\ InOrder'
    BY DedupWaits, InOrderWaits DEF Clean, CmdsStay
  <1>2. Truthful'
    BY DEF Clean, Truthful, notifierVars
  <1>3. UNCHANGED <<nPc, rcPc, relayBatch, relayPc, cmdQ, replyQ>>
    BY DEF notifierVars, rcVars, relayVars
  <1>4. ASSUME NEW s \in Sagas, sagas[s] # NoSaga, Heard(s) PROVE Heard(s)'
    BY <1>3, <1>4 DEF Heard, HasCommand, HasReply, DecisionsStand
  <1>5. /\ \A s \in Sagas : outbox[s] # "none" => sagas[s] # NoSaga
        /\ \A s \in relayBatch : sagas[s] # NoSaga
        /\ \A k \in 1..Len(cmdQ) : sagas[cmdQ[k]] # NoSaga
    BY DEF Control, CommandControl
  <1>6. nPc # "check" => Head(cmdQ) \in Sagas /\ sagas[Head(cmdQ)] # NoSaga
    <2>1. nPc # "check" => Head(cmdQ) \in Sagas /\ Head(cmdQ) = cmdQ[1] /\ 1 \in 1..Len(cmdQ)
      BY TailFacts DEF Control, TypeOK, NotifierControl
    <2> QED
      BY <1>5, <2>1
  <1>7. rcPc # "load" => Head(replyQ).saga \in Sagas /\ sagas[Head(replyQ).saga] # NoSaga
    <2>1. rcPc # "load" => Head(replyQ) \in Reply /\ Head(replyQ) = replyQ[1] /\ 1 \in 1..Len(replyQ)
      BY TailFacts DEF Control, TypeOK, ReplyControl
    <2> QED
      BY <2>1 DEF Reply, Clean, InOrder
  <1>8. OnItsWay'
    <2>1. (\A s \in Sagas : outbox[s] = "published" => Heard(s))'
      BY <1>4, <1>5 DEF Clean, OnItsWay
    <2>2. (relayPc = "mark" => \A s \in Sagas : RelayAt(s) => Heard(s))'
      BY <1>3, <1>4, <1>5 DEF Clean, OnItsWay, RelayAt
    <2>3. (nPc \in {"mark", "ack"} /\ Undecided(Head(cmdQ)) => HasReply(Head(cmdQ)))'
      BY <1>3, <1>6 DEF Clean, OnItsWay, HasReply, DecisionsStand, Undecided
    <2>4. (rcPc = "ack" => ~Undecided(Head(replyQ).saga))'
      BY <1>3, <1>7 DEF Clean, OnItsWay, DecisionsStand, Undecided
    <2> QED
      BY <2>1, <2>2, <2>3, <2>4 DEF OnItsWay
  <1> QED
    BY <1>1, <1>2, <1>8 DEF Clean

-----------------------------------------------------------------------------
(* The relay. *)

\* The relay marks only what it has published.
LEMMA RelayKeepsClean ==
  ASSUME Control, Clean, Relay, NoFault, faults = 0
  PROVE  Clean'
  <1>0. UNCHANGED <<subs, sagas, stale, updatedAt, replyQ, notifierVars, rcVars>>
    BY DEF Relay, RelayNext, RelayFetch, RelayPublish, RelayMark, tableVars, brokerVars
  <1>f. ~Fault
    BY FaultEnds DEF Control, NoFault
  <1>q. CmdsStay
    BY <1>f DEF Relay, RelayNext, RelayFetch, RelayPublish, RelayMark, PublishCmdOk, PublishCmdErr,
         CmdsStay, brokerVars
  <1>d. DecisionsStand
    BY <1>0 DEF DecisionsStand, SagasGrow, Compensated, Undecided
  <1>1. Dedup' /\ InOrder' /\ Truthful'
    BY <1>0, <1>q, <1>d, DedupWaits, InOrderWaits DEF Clean, Truthful, Completed, notifierVars
  <1>2. \A s \in Sagas : HasCommand(s) => HasCommand(s)'
    BY <1>q, CmdFacts DEF Control
  <1>h. \A s \in Sagas : Heard(s) => Heard(s)'
    BY <1>0, <1>2 DEF Heard, HasReply, Undecided
  <1>3. nPc # "check" => Head(cmdQ') = Head(cmdQ)
    BY <1>q, CmdFacts DEF Control, NotifierControl
  <1>4. (nPc \in {"mark", "ack"} /\ Undecided(Head(cmdQ)) => HasReply(Head(cmdQ)))'
    BY <1>0, <1>3 DEF Clean, OnItsWay, HasReply, Undecided, notifierVars
  <1>5. (rcPc = "ack" => ~Undecided(Head(replyQ).saga))'
    BY <1>0 DEF Clean, OnItsWay, Undecided, rcVars
  <1> DEFINE Boxes == \A s \in Sagas : outbox[s] = "published" => Heard(s)
  <1> DEFINE Mark == relayPc = "mark" => \A s \in Sagas : RelayAt(s) => Heard(s)
  <1>6. Boxes /\ Mark
    BY DEF Clean, OnItsWay
  <1>7. ASSUME RelayFetch PROVE Boxes' /\ Mark'
    BY <1>6, <1>7, <1>h DEF RelayFetch, tableVars
  <1>8. ASSUME NEW s \in Sagas, RelayPublish(s) PROVE Boxes' /\ Mark'
    <2>1. UNCHANGED outbox
      BY <1>8 DEF RelayPublish, tableVars
    <2>2. CASE relayPc' = "publish"
      BY <1>6, <1>h, <2>1, <2>2
    <2>3. CASE relayPc' # "publish"
      <3>1. cmdQ' = Append(cmdQ, s) /\ UNCHANGED relayBatch /\ RelayAt(s)
        BY <1>8, <1>f, <2>3 DEF RelayPublish, PublishCmdOk, PublishCmdErr
      <3>2. HasCommand(s)'
        BY <3>1, AppendFacts DEF Control, TypeOK, HasCommand
      <3>3. \A t \in Sagas : RelayAt(t)' => t = s
        BY <3>1 DEF RelayAt, Sagas
      <3> QED
        BY <1>6, <1>h, <2>1, <3>2, <3>3 DEF Heard
    <2> QED
      BY <2>2, <2>3
  <1>9. ASSUME NEW s \in Sagas, RelayMark(s) PROVE Boxes' /\ Mark'
    <2>1. Heard(s) /\ MarkPublished(s) /\ relayPc' = "publish"
      BY <1>6, <1>9, <1>f DEF RelayMark
    <2>2. \A t \in Sagas \ {s} : outbox'[t] = outbox[t]
      BY <2>1 DEF MarkPublished, Control, TypeOK, TablesTypeOK
    <2> QED
      BY <1>6, <1>h, <2>1, <2>2
  <1>10. Boxes' /\ Mark'
    BY <1>7, <1>8, <1>9 DEF Relay, RelayNext
  <1> QED
    BY <1>1, <1>4, <1>5, <1>10 DEF Clean, OnItsWay

-----------------------------------------------------------------------------
(* The notifier. *)

\* It writes no table; the third part of OnItsWay is its own.
LEMMA NotifierOnItsWay ==
  ASSUME Control, OnItsWay, UNCHANGED <<sagas, outbox, relayVars, rcVars>>,
         \A s \in Sagas : Heard(s) => Heard(s)',
         replyQ # <<>> => Head(replyQ') = Head(replyQ),
         nPc' \in {"mark", "ack"} /\ sagas[Head(cmdQ')].state = "subscription_created" =>
           HasReply(Head(cmdQ))'
  PROVE  OnItsWay'
  <1>1. UNCHANGED <<relayBatch, relayPc, rcPc>>
    BY DEF relayVars, rcVars
  <1>2. (rcPc = "ack" => ~Undecided(Head(replyQ).saga))'
    BY <1>1 DEF Control, ReplyControl, OnItsWay, Undecided
  <1>3. (relayPc = "mark" => \A s \in Sagas : RelayAt(s) => Heard(s))'
    BY <1>1 DEF OnItsWay, RelayAt
  <1> QED
    BY <1>2, <1>3 DEF OnItsWay, Undecided

\* The steps that leave both queues alone.
LEMMA NotifierQuietKeepsClean ==
  ASSUME Control, Causes, Clean, NEW h \in Sagas, cmdQ # <<>>, h = Head(cmdQ),
         NotifierCheck(h) \/ NotifierSendOk(h) \/ NotifierSendErr(h) \/ NotifierMark(h),
         UNCHANGED <<relayVars, rcVars>>, NoFault, ~Fault
  PROVE  Clean'
  <1>0. UNCHANGED <<sagas, outbox, cmdQ, replyQ>>
    BY DEF NotifierCheck, NotifierSendOk, NotifierSendErr, NotifierMark, tableVars, brokerVars
  <1>t. /\ emails \in [Sagas -> 0..MaxEmails] /\ gaveUp \subseteq Sagas /\ MaxEmails = 2
        /\ replyQ \in Seq(Reply)
    BY DEF Control, TypeOK, NotifierTypeOK, MaxEmails
  <1>h. \A s \in Sagas : Heard(s) => Heard(s)'
    BY <1>0 DEF Heard, HasCommand, HasReply, Undecided
  <1>r. \A s, n : FailedReply(s, n)' <=> FailedReply(s, n)
    BY <1>0 DEF FailedReply
  <1>1. CASE NotifierCheck(h)
    <2>1. /\ nPc = "check" /\ UNCHANGED <<nOutcome, processed, emails, gaveUp>>
          /\ nPc' = "dup" \/ (nPc' = "send" /\ h \notin processed)
      BY <1>1 DEF NotifierCheck, At, Goto
    <2>2. Dedup'
      BY <1>0, <2>1 DEF Clean, Dedup, InHand
    <2>3. InOrder'
      BY <1>0, <1>r, <2>1 DEF Clean, InOrder, Undecided
    <2>4. OnItsWay'
      BY <1>0, <1>h, <2>1, NotifierOnItsWay DEF Clean
    <2> QED
      BY <1>0, <2>1, <2>2, <2>3, <2>4 DEF Clean, Truthful, Completed
  <1>2. ASSUME NotifierSendOk(h) \/ NotifierSendErr(h)
        PROVE  /\ nPc = "send" /\ emails[h] = 0 /\ h \notin gaveUp /\ sagas[h] # NoSaga
               /\ ~Completed(h)
               /\ \A k \in 1..Len(replyQ) : replyQ[k].saga # h
    <2>1. nPc = "send"
      BY <1>2 DEF NotifierSendOk, NotifierSendErr, At
    <2>2. emails[h] = 0 /\ h \notin gaveUp
      BY <2>1 DEF Clean, Dedup, InHand
    <2>3. h = cmdQ[1] /\ 1 \in 1..Len(cmdQ)
      BY TailFacts DEF Control, TypeOK
    <2>4. ASSUME NEW k \in 1..Len(replyQ) PROVE replyQ[k].saga # h
      <3>1. replyQ[k] \in Reply
        BY <1>t, ElementOfSeq
      <3>2. ReplyHasCause(replyQ[k])
        BY DEF Causes, RepliesHaveCauses
      <3> QED
        BY <2>2, <3>1, <3>2 DEF Reply, ReplyStatus, ReplyHasCause, Tried, Mailed
    <2> QED
      BY <2>1, <2>2, <2>3, <2>4 DEF Control, CommandControl, Clean, Truthful
  <1>3. CASE NotifierSendOk(h)
    <2>1. /\ nPc' = "reply" /\ nOutcome' = "sent" /\ UNCHANGED <<processed, gaveUp>>
          /\ Delivered(h)
      BY <1>3 DEF NotifierSendOk, Goto
    <2>2. emails'[h] = 1 /\ \A s \in Sagas \ {h} : emails'[s] = emails[s]
      BY <1>t, <1>2, <1>3, <2>1 DEF Delivered
    <2>3. Dedup'
      BY <1>0, <1>2, <1>3, <2>1, <2>2 DEF Clean, Dedup, InHand
    <2>4. InOrder'
      BY <1>0, <1>r, <1>2, <1>3, <2>1 DEF Clean, InOrder, Undecided
    <2>5. Truthful'
      BY <1>0, <1>2, <1>3, <2>2 DEF Clean, Truthful, Completed
    <2>6. OnItsWay'
      BY <1>0, <1>h, <2>1, NotifierOnItsWay DEF Clean
    <2> QED
      BY <2>3, <2>4, <2>5, <2>6 DEF Clean
  <1>4. CASE NotifierSendErr(h)
    <2>1. UNCHANGED <<processed, emails>>
      BY <1>4 DEF NotifierSendErr
    <2>2. CASE UNCHANGED <<nOutcome, gaveUp, nPc>>
      <3>1. Dedup' /\ InOrder' /\ Truthful'
        BY <1>0, <1>r, <2>1, <2>2 DEF Clean, Dedup, InHand, InOrder, Undecided, Truthful, Completed
      <3>2. OnItsWay'
        BY <1>0, <1>h, <1>2, <1>4, <2>2, NotifierOnItsWay DEF Clean
      <3> QED
        BY <3>1, <3>2 DEF Clean
    <2>3. CASE nOutcome' = "failed" /\ gaveUp' = gaveUp \cup {h} /\ Goto("reply")
      <3>1. Dedup'
        BY <1>0, <1>2, <1>4, <2>1, <2>3 DEF Clean, Dedup, InHand, Goto
      <3>2. InOrder'
        BY <1>0, <1>r, <1>2, <1>4, <2>3 DEF Clean, InOrder, Undecided, Goto
      <3>3. Truthful'
        BY <1>0, <2>1 DEF Clean, Truthful, Completed
      <3>4. OnItsWay'
        BY <1>0, <1>h, <2>3, NotifierOnItsWay DEF Clean, Goto
      <3> QED
        BY <3>1, <3>2, <3>3, <3>4 DEF Clean
    <2> QED
      BY <1>4, <2>2, <2>3 DEF NotifierSendErr
  <1>5. CASE NotifierMark(h)
    <2>1. /\ nPc = "mark" /\ nPc' = "ack" /\ UNCHANGED <<nOutcome, emails, gaveUp>>
          /\ nOutcome = "cancelled" \/ processed' = processed \cup {h}
      BY <1>5 DEF NotifierMark, At, Goto
    <2>2. processed' = processed \cup {h}
      BY <2>1 DEF Clean, Dedup
    <2>3. Dedup'
      BY <1>0, <2>1, <2>2 DEF Clean, Dedup, InHand
    <2>4. InOrder'
      BY <1>0, <1>r, <2>1 DEF Clean, InOrder, Undecided
    <2>5. HasReply(h) => HasReply(Head(cmdQ))'
      BY <1>0 DEF HasReply
    <2>6. OnItsWay'
      BY <1>0, <1>h, <2>1, <2>5, NotifierOnItsWay DEF Clean, OnItsWay, Undecided
    <2> QED
      BY <1>0, <2>1, <2>3, <2>4, <2>6 DEF Clean, Truthful, Completed
  <1> QED
    BY <1>1, <1>3, <1>4, <1>5

\* The reply is published behind those that are there.
LEMMA NotifierReplyKeepsClean ==
  ASSUME Control, Causes, Clean, NEW h \in Sagas, cmdQ # <<>>, h = Head(cmdQ),
         NotifierReply(h) \/ NotifierReplyDup(h),
         UNCHANGED <<relayVars, rcVars>>, NoFault, ~Fault
  PROVE  Clean'
  <1>0. UNCHANGED <<sagas, outbox, cmdQ, processed, emails, gaveUp, nOutcome>>
    BY DEF NotifierReply, NotifierReplyDup, PublishReplyErr, tableVars
  <1>1. \/ /\ nPc = "reply" /\ nPc' = "mark"
           /\ replyQ' = Append(replyQ, [saga |-> h, status |-> IF nOutcome = "sent" THEN "sent" ELSE "failed"])
        \/ /\ nPc = "dup" /\ nPc' = "ack"
           /\ replyQ' = Append(replyQ, [saga |-> h, status |-> "sent"])
    BY DEF NotifierReply, NotifierReplyDup, PublishReplyOk, PublishReplyErr, At, Goto
  <1>2. PICK r \in Reply : replyQ' = Append(replyQ, r) /\ r.saga = h
                           /\ (nPc = "reply" => r.status = IF nOutcome = "sent" THEN "sent" ELSE "failed")
                           /\ (nPc = "dup" => r.status = "sent")
    BY <1>1 DEF Reply, ReplyStatus
  <1>3. /\ Len(replyQ) \in Nat /\ Len(replyQ') = Len(replyQ) + 1
        /\ \A k \in 1..Len(replyQ) : replyQ'[k] = replyQ[k]
        /\ replyQ'[Len(replyQ')] = r
        /\ replyQ # <<>> => Head(replyQ') = Head(replyQ)
        /\ \A s \in Sagas : HasReply(s)' <=> HasReply(s) \/ s = r.saga
        /\ \A s \in Sagas, n \in 0..Len(replyQ) : FailedReply(s, n)' <=> FailedReply(s, n)
    BY <1>2, ReplyAppendFacts DEF Control
  <1>4. Dedup' /\ Truthful'
    BY <1>0, <1>1 DEF Clean, Dedup, InHand, Truthful, Completed
  <1>5. sagas[h] # NoSaga
    <2>1. h = cmdQ[1] /\ 1 \in 1..Len(cmdQ)
      BY TailFacts DEF Control, TypeOK
    <2> QED
      BY <2>1 DEF Control, CommandControl
  <1>g. gaveUp \subseteq Sagas /\ \A k \in 1..Len(replyQ) : replyQ[k].saga \in Sagas
    <2>1. gaveUp \subseteq Sagas /\ replyQ \in Seq(Reply)
      BY DEF Control, TypeOK, NotifierTypeOK
    <2>2. \A k \in 1..Len(replyQ) : replyQ[k] \in Reply
      BY <2>1, ElementOfSeq
    <2> QED
      BY <2>1, <2>2 DEF Reply
  <1>6. ASSUME nPc = "reply"
        PROVE  \/ r.status = "sent" /\ h \notin gaveUp
               \/ r.status = "failed" /\ h \in gaveUp
    BY <1>2, <1>6 DEF Clean, Dedup
  <1>7. InOrder'
    <2>1. \A s \in gaveUp : FailedReply(s, Len(replyQ)) => FailedReply(s, Len(replyQ))'
      BY <1>3, <1>g DEF FailedReply
    <2>2. r.status = "failed" => FailedReply(h, Len(replyQ))'
      BY <1>2, <1>3 DEF FailedReply
    <2>3. (\A s \in gaveUp : Undecided(s) =>
             FailedReply(s, Len(replyQ)) \/ (nPc = "reply" /\ s = Head(cmdQ)))'
      BY <1>0, <1>1, <1>6, <2>1, <2>2 DEF Clean, InOrder, Undecided
    <2>4. ASSUME NEW k \in 1..Len(replyQ'), replyQ'[k].status = "sent", replyQ'[k].saga \in gaveUp,
                 sagas[replyQ'[k].saga].state = "subscription_created"
          PROVE  FailedReply(replyQ[k].saga, k - 1)'
      <3>1. CASE k \in 1..Len(replyQ)
        <4>1. FailedReply(replyQ[k].saga, k - 1)
          BY <1>3, <2>4, <3>1 DEF Clean, InOrder, Undecided
        <4>2. replyQ'[k] = replyQ[k] /\ k - 1 \in 0..Len(replyQ)
          BY <1>3, <3>1
        <4> QED
          BY <1>3, <4>1, <4>2 DEF FailedReply
      <3>2. CASE k = Len(replyQ) + 1
        <4>1. replyQ'[k] = r /\ r.saga = h /\ k - 1 = Len(replyQ)
          BY <1>2, <1>3, <3>2
        <4>2. nPc = "dup" /\ h \in gaveUp /\ Undecided(h)
          BY <1>1, <1>6, <2>4, <4>1 DEF Undecided
        <4>3. FailedReply(h, Len(replyQ))
          BY <4>2 DEF Clean, InOrder
        <4> QED
          BY <1>3, <4>1, <4>3 DEF FailedReply
      <3> QED
        BY <1>3, <3>1, <3>2
    <2>5. \A k \in 1..Len(replyQ') : sagas[replyQ'[k].saga] # NoSaga
      BY <1>2, <1>3, <1>5 DEF Clean, InOrder
    <2> QED
      BY <1>0, <2>3, <2>4, <2>5 DEF Clean, InOrder, Undecided
  <1>8. \A s \in Sagas : Heard(s) => Heard(s)'
    BY <1>0, <1>3 DEF Heard, HasCommand, Undecided
  <1>9. HasReply(Head(cmdQ))'
    BY <1>0, <1>2, <1>3 DEF HasReply
  <1>10. OnItsWay'
    BY <1>0, <1>3, <1>8, <1>9, NotifierOnItsWay DEF Clean
  <1> QED
    BY <1>4, <1>7, <1>10 DEF Clean

\* The command leaves the queue: its saga has its reply.
LEMMA NotifierAckKeepsClean ==
  ASSUME Control, Clean, NotifierAck, UNCHANGED <<relayVars, rcVars>>
  PROVE  Clean'
  <1>0. /\ UNCHANGED <<sagas, outbox, replyQ, processed, emails, gaveUp>>
        /\ nPc = "ack" /\ nPc' = "check" /\ cmdQ' = Tail(cmdQ) /\ cmdQ # <<>>
    BY DEF NotifierAck, LeaveHandler, Goto, SettleCmd, tableVars, Control, NotifierControl
  <1>1. Dedup' /\ Truthful'
    BY <1>0 DEF Clean, Dedup, InHand, Truthful, Completed
  <1>2. InOrder'
    BY <1>0 DEF Clean, InOrder, Undecided, FailedReply
  <1>3. ASSUME NEW s \in Sagas, Heard(s) PROVE Heard(s)'
    <2>1. CASE s = Head(cmdQ)
      BY <1>0, <2>1 DEF Heard, Clean, OnItsWay, HasReply, Undecided
    <2>2. CASE s # Head(cmdQ)
      <3>1. HasCommand(s) => HasCommand(s)'
        <4> SUFFICES ASSUME NEW k \in 1..Len(cmdQ), cmdQ[k] = s PROVE HasCommand(s)'
          BY DEF HasCommand
        <4>1. /\ Head(cmdQ) = cmdQ[1] /\ Len(cmdQ') = Len(cmdQ) - 1 /\ Len(cmdQ) \in Nat
              /\ \A j \in 1..Len(cmdQ') : cmdQ'[j] = cmdQ[j + 1]
          BY <1>0, TailFacts, LenProperties DEF Control, TypeOK
        <4>2. k - 1 \in 1..Len(cmdQ') /\ (k - 1) + 1 = k
          BY <2>2, <4>1
        <4>3. cmdQ'[k - 1] = s
          BY <4>1, <4>2
        <4> QED
          BY <4>2, <4>3 DEF HasCommand
      <3> QED
        BY <1>0, <1>3, <3>1 DEF Heard, HasReply, Undecided
    <2> QED
      BY <2>1, <2>2
  <1>4. OnItsWay'
    BY <1>0, <1>3, NotifierOnItsWay DEF Clean
  <1> QED
    BY <1>1, <1>2, <1>4 DEF Clean

-----------------------------------------------------------------------------
(* The reply consumer. *)

\* A reply leaves the queue only when its saga is decided.
LEMMA ReplyShapeKeepsClean ==
  ASSUME Control, Clean, UNCHANGED <<outbox, cmdQ, relayVars, notifierVars>>,
         SagasGrow, \A s \in Sagas : Undecided(s)' => Undecided(s),
         \/ replyQ' = replyQ
         \/ /\ replyQ # <<>> /\ replyQ' = Tail(replyQ)
            /\ rcPc' # "ack" /\ ~Undecided(Head(replyQ).saga),
         rcPc' = "ack" => sagas'[Head(replyQ).saga].state # "subscription_created",
         \A s \in Sagas : Completed(s)' => emails[s] = 1
  PROVE  Clean'
  <1>1. UNCHANGED <<nPc, nOutcome, processed, emails, gaveUp, relayBatch, relayPc>>
    BY DEF notifierVars, relayVars
  <1>2. Dedup' /\ Truthful'
    BY <1>1, DedupWaits DEF Clean, CmdsStay, Truthful
  <1>3. gaveUp \subseteq Sagas /\ \A k \in 1..Len(replyQ) : replyQ[k].saga \in Sagas
    <2>1. gaveUp \subseteq Sagas /\ replyQ \in Seq(Reply)
      BY DEF Control, TypeOK, NotifierTypeOK
    <2>2. \A k \in 1..Len(replyQ) : replyQ[k] \in Reply
      BY <2>1, ElementOfSeq
    <2> QED
      BY <2>1, <2>2 DEF Reply
  <1>4. /\ InOrder'
        /\ \A s \in Sagas : Undecided(s)' /\ HasReply(s) => HasReply(s)'
    <2>1. CASE replyQ' = replyQ
      <3>1. InOrder'
        BY <2>1, InOrderWaits DEF Clean, CmdsStay, DecisionsStand
      <3> QED
        BY <2>1, <3>1 DEF HasReply
    <2>2. CASE replyQ # <<>> /\ replyQ' = Tail(replyQ) /\ ~Undecided(Head(replyQ).saga)
      <3>1. /\ Len(replyQ') \in Nat /\ Len(replyQ) = Len(replyQ') + 1
            /\ \A k \in 1..Len(replyQ') : k + 1 \in 1..Len(replyQ) /\ replyQ'[k] = replyQ[k + 1]
            /\ \A s \in Sagas : HasReply(s) => HasReply(s)' \/ s = Head(replyQ).saga
            /\ \A s \in Sagas, n \in 0..Len(replyQ') :
                 FailedReply(s, n + 1) => FailedReply(s, n)' \/ s = Head(replyQ).saga
        BY <2>2, ReplyTailFacts DEF Control
      <3>2. \A s \in Sagas : Undecided(s)' => Undecided(s) /\ s # Head(replyQ).saga
        BY <2>2
      <3>3. \A s \in gaveUp : sagas'[s] # NoSaga
        BY <1>3 DEF Clean, InOrder, SagasGrow
      <3>4. \A k \in 1..Len(replyQ') : sagas'[replyQ'[k].saga] # NoSaga /\ replyQ'[k].saga \in Sagas
        BY <1>3, <3>1 DEF Clean, InOrder, SagasGrow
      <3>5. (\A s \in gaveUp : Undecided(s) =>
               FailedReply(s, Len(replyQ)) \/ (nPc = "reply" /\ s = Head(cmdQ)))'
        <4> SUFFICES ASSUME NEW s \in gaveUp, Undecided(s)', FailedReply(s, Len(replyQ))
                     PROVE  FailedReply(s, Len(replyQ))'
          BY <1>1, <1>3, <3>2 DEF Clean, InOrder
        <4>1. PICK n \in Nat : n = Len(replyQ') /\ Len(replyQ) = n + 1
          BY <3>1
        <4>2. FailedReply(s, n)'
          BY <1>3, <3>1, <3>2, <4>1
        <4> QED
          BY <4>1, <4>2 DEF FailedReply
      <3>6. ASSUME NEW k \in 1..Len(replyQ'), replyQ'[k].status = "sent", replyQ'[k].saga \in gaveUp,
                   sagas'[replyQ'[k].saga].state = "subscription_created"
            PROVE  FailedReply(replyQ[k].saga, k - 1)'
        <4>1. PICK s \in Sagas : s = replyQ'[k].saga
          BY <3>4
        <4>2. Undecided(s) /\ s # Head(replyQ).saga
          BY <3>2, <3>6, <4>1 DEF Undecided
        <4>3. k + 1 \in 1..Len(replyQ) /\ replyQ'[k] = replyQ[k + 1] /\ k - 1 \in 0..Len(replyQ')
          BY <3>1
        <4>4. FailedReply(s, (k + 1) - 1)
          BY <3>6, <4>1, <4>2, <4>3 DEF Clean, InOrder
        <4>5. (k + 1) - 1 = (k - 1) + 1
          BY <3>1
        <4>6. FailedReply(s, k - 1)'
          BY <3>1, <4>2, <4>3, <4>4, <4>5
        <4> QED
          BY <4>1, <4>6 DEF FailedReply
      <3>7. InOrder'
        BY <1>1, <3>3, <3>4, <3>5, <3>6 DEF InOrder, Undecided
      <3> QED
        BY <3>1, <3>2, <3>7
    <2> QED
      BY <2>1, <2>2
  <1>5. \A s \in Sagas : Heard(s) => Heard(s)'
    BY <1>4 DEF Heard, HasCommand
  <1>6. OnItsWay'
    <2>1. nPc # "check" => Head(cmdQ) \in Sagas
      BY TailFacts DEF Control, TypeOK, NotifierControl
    <2>2. (nPc \in {"mark", "ack"} /\ Undecided(Head(cmdQ)) => HasReply(Head(cmdQ)))'
      <3> SUFFICES ASSUME nPc \in {"mark", "ack"}, sagas'[Head(cmdQ)].state = "subscription_created"
                   PROVE  HasReply(Head(cmdQ))'
        BY <1>1 DEF Undecided
      <3>1. PICK h \in Sagas : h = Head(cmdQ)
        BY <2>1
      <3>2. Undecided(h)' /\ Undecided(h)
        BY <3>1 DEF Undecided
      <3>3. HasReply(h)'
        BY <1>4, <3>1, <3>2 DEF Clean, OnItsWay
      <3> QED
        BY <3>1, <3>3 DEF HasReply
    <2>3. (relayPc = "mark" => \A s \in Sagas : RelayAt(s) => Heard(s))'
      BY <1>1, <1>5 DEF Clean, OnItsWay, RelayAt
    <2>4. (\A s \in Sagas : outbox[s] = "published" => Heard(s))'
      BY <1>5 DEF Clean, OnItsWay
    <2>5. (rcPc = "ack" => ~Undecided(Head(replyQ).saga))'
      BY DEF Undecided
    <2> QED
      BY <2>2, <2>3, <2>4, <2>5 DEF OnItsWay
  <1> QED
    BY <1>2, <1>4, <1>6 DEF Clean

\* HandleReply acts on the first reply for its saga, and that one is true.
LEMMA RepliesKeepClean ==
  ASSUME Control, Causes, Clean, Replies, NoFault, faults = 0
  PROVE  Clean'
  <1>f. ~Fault
    BY FaultEnds DEF Control, NoFault
  <1>0. UNCHANGED <<outbox, cmdQ, relayVars, notifierVars>>
    BY DEF Replies, ReplyConsumerNext, ReplyLoad, ReplyComplete, ReplyCompensate, ReplyMarkFailed,
           ReplyFail, ReplyAck, StatementErr, tableVars
  <1>g. SagasGrow
    BY RepliesKeepControl
  <1>c. \A s \in Sagas : Completed(s) => emails[s] = 1
    BY DEF Clean, Truthful
  <1>t. TablesTypeOK /\ ReplyControl
    BY DEF Control, TypeOK
  <1>u. ASSUME NEW s \in Sagas, NEW st \in State \ {"subscription_created"}, sagas[s] # NoSaga,
               UpdateState(s, st), st = "completed" => emails[s] = 1
        PROVE  /\ \A t \in Sagas : Undecided(t)' => Undecided(t)
               /\ \A t \in Sagas : Completed(t)' => emails[t] = 1
               /\ sagas'[s].state # "subscription_created"
    <2>1. sagas'[s].state = st /\ \A t \in Sagas \ {s} : sagas'[t] = sagas[t]
      BY <1>t, <1>u, UpdateStateFacts
    <2> QED
      BY <1>c, <1>u, <2>1 DEF Undecided, Completed
  <1>s. ASSUME UNCHANGED sagas
        PROVE  /\ \A t \in Sagas : Undecided(t)' => Undecided(t)
               /\ \A t \in Sagas : Completed(t)' => emails[t] = 1
    BY <1>c, <1>s DEF Undecided, Completed
  <1>1. ASSUME NEW s \in Sagas, ReplyLoad(s) PROVE Clean'
    <2>1. /\ UNCHANGED <<sagas, replyQ>> /\ s = Head(replyQ).saga
          /\ rcPc' = "ack" => sagas[s].state # "subscription_created"
      <3>1. /\ s = Head(replyQ).saga /\ UNCHANGED tableVars /\ UNCHANGED replyQ
            /\ rcPc' = CASE Head(replyQ).status = "sent" /\ sagas[s].state = "subscription_created"
                              -> "complete"
                         [] Head(replyQ).status = "failed"
                              /\ sagas[s].state \in {"subscription_created", "compensating"}
                              -> "compensate"
                         [] OTHER -> "ack"
        BY <1>1, <1>f DEF ReplyLoad, Handling, Proceed
      <3>2. Head(replyQ).status \in {"sent", "failed"}
        BY <1>1, HeadReply DEF ReplyLoad, Handling, Reply, ReplyStatus, Control
      <3> QED
        BY <3>1, <3>2 DEF tableVars
    <2> QED
      BY <1>0, <1>g, <1>s, <2>1, ReplyShapeKeepsClean
  <1>2. ASSUME NEW s \in Sagas, ReplyComplete(s) PROVE Clean'
    <2>1. /\ UpdateState(s, "completed") /\ UNCHANGED replyQ /\ replyQ # <<>>
          /\ s = Head(replyQ).saga
      BY <1>2, <1>f DEF ReplyComplete, Handling, Proceed
    <2>2. Undecided(s) /\ Head(replyQ).status = "sent" /\ sagas[s] # NoSaga
      BY <1>2, <1>t, <2>1, StateExists DEF ReplyComplete, Handling, ReplyControl
    <2>3. Head(replyQ) = replyQ[1] /\ 1 \in 1..Len(replyQ)
      BY <2>1, TailFacts DEF Control, TypeOK
    <2>4. ~FailedReply(s, 1 - 1)
      BY DEF FailedReply
    <2>5. s \notin gaveUp
      BY <2>1, <2>2, <2>3, <2>4 DEF Clean, InOrder
    <2>6. Tried(s)
      BY <2>1, <2>2, <2>3 DEF Causes, RepliesHaveCauses, ReplyHasCause
    <2>7. emails[s] = 1
      BY <2>5, <2>6 DEF Tried, Mailed, Clean, Dedup, Control, TypeOK, NotifierTypeOK, MaxEmails
    <2> QED
      BY <1>0, <1>g, <1>u, <2>1, <2>2, <2>7, ReplyShapeKeepsClean DEF State
  <1>3. ASSUME NEW s \in Sagas, ReplyCompensate(s) PROVE Clean'
    <2>1. /\ UpdateState(s, "compensating") /\ UNCHANGED replyQ /\ rcPc' = "markFailed"
          /\ s = Head(replyQ).saga
      BY <1>3, <1>f DEF ReplyCompensate, Handling, Proceed
    <2>2. sagas[s] # NoSaga
      BY <1>3, <1>t, <2>1, StateExists DEF ReplyCompensate, Handling, ReplyControl
    <2> QED
      BY <1>0, <1>g, <1>u, <2>1, <2>2, ReplyShapeKeepsClean DEF State
  <1>4. ASSUME NEW s \in Sagas, ReplyMarkFailed(s) PROVE Clean'
    <2>1. replyQ # <<>> /\ s = Head(replyQ).saga /\ ~Undecided(s)
      BY <1>4, <1>t DEF ReplyMarkFailed, Handling, ReplyControl, Compensated, Undecided
    <2>2. UNCHANGED sagas /\ rcPc' \in {"fail", "load"} /\ replyQ' \in {replyQ, Tail(replyQ)}
      BY <1>4 DEF ReplyMarkFailed, Proceed, StatementErr, RetryReply, SettleReply, tableVars
    <2> QED
      BY <1>0, <1>g, <1>s, <2>1, <2>2, ReplyShapeKeepsClean
  <1>5. ASSUME NEW s \in Sagas, ReplyFail(s) PROVE Clean'
    <2>1. UpdateState(s, "failed") /\ UNCHANGED replyQ /\ s = Head(replyQ).saga
      BY <1>5, <1>f DEF ReplyFail, Handling, Proceed
    <2>2. sagas[s] # NoSaga
      BY <1>5, <1>t, <2>1, StateExists DEF ReplyFail, Handling, ReplyControl
    <2> QED
      BY <1>0, <1>g, <1>u, <2>1, <2>2, ReplyShapeKeepsClean DEF State
  <1>6. CASE ReplyAck
    <2>1. rcPc' = "load" /\ UNCHANGED sagas /\ rcPc = "ack" /\ replyQ' = Tail(replyQ)
      BY <1>6, <1>f DEF ReplyAck, SettleReply, tableVars
    <2>2. replyQ # <<>> /\ ~Undecided(Head(replyQ).saga)
      BY <1>t, <2>1 DEF ReplyControl, Clean, OnItsWay
    <2> QED
      BY <1>0, <1>g, <1>s, <2>1, <2>2, ReplyShapeKeepsClean
  <1> QED
    BY <1>1, <1>2, <1>3, <1>4, <1>5, <1>6 DEF Replies, ReplyConsumerNext

-----------------------------------------------------------------------------
(* The invariant. *)

\* Handlers start sagas, the sweeper requeues and fails compensated ones, time passes.
LEMMA MonolithKeepsClean ==
  ASSUME Control, Clean,
         \/ Sweep
         \/ \E c \in Clients : Handler(c) \/ Client(c)
         \/ \E s \in Sagas : Clock(s)
         \/ UNCHANGED vars
  PROVE  Clean'
  <1>t. TypeOK /\ TablesTypeOK
    BY DEF Control, TypeOK
  <1>1. ASSUME NEW c \in Clients, Handler(c) \/ Client(c) PROVE Clean'
    <2>1. UNCHANGED <<cmdQ, replyQ, relayVars, notifierVars, rcVars>> /\ ApiSagas
      BY <1>t, <1>1, ApiFacts
    <2>2. /\ DecisionsStand
          /\ \A s \in Sagas : Completed(s)' => Completed(s)
          /\ \A s \in Sagas : outbox'[s] = "published" => outbox[s] = "published"
      <3>1. CASE UNCHANGED <<sagas, outbox>>
        BY <3>1 DEF DecisionsStand, SagasGrow, Compensated, Undecided, Completed
      <3>2. ASSUME NEW n \in Sagas, StartsSaga(n)
            PROVE  /\ DecisionsStand
                   /\ \A s \in Sagas : Completed(s)' => Completed(s)
                   /\ \A s \in Sagas : outbox'[s] = "published" => outbox[s] = "published"
        BY <3>2 DEF StartsSaga, DecisionsStand, SagasGrow, Compensated, Undecided, Completed, NoSaga
      <3> QED
        BY <2>1, <3>1, <3>2 DEF ApiSagas
    <2> QED
      BY <2>1, <2>2, OthersKeepClean
  <1>2. CASE Sweep
    <2>1. UNCHANGED <<cmdQ, replyQ, relayVars, notifierVars, rcVars>>
      BY <1>2 DEF Sweep, SweeperNext, SweepFind, SweepRequeue, SweepMarkFailed, SweepFail, brokerVars
    <2>2. \A s \in Sagas : outbox'[s] = "published" => outbox[s] = "published"
      BY <1>2, <1>t DEF Sweep, SweeperNext, SweepFind, SweepRequeue, Requeue, SweepMarkFailed, SweepFail,
           tableVars, TablesTypeOK
    <2>3. SagasGrow
      BY <1>2, SweepKeepsControl
    <2>4. \A s \in Sagas : (Undecided(s)' => Undecided(s)) /\ (Completed(s)' => Completed(s))
      <3>1. CASE UNCHANGED sagas
        BY <3>1 DEF Undecided, Completed
      <3>2. CASE SweepFail /\ UpdateState(swFailing, "failed")
        <4>1. swFailing \in Sagas /\ sagas[swFailing] # NoSaga
          BY <1>t, <3>2, StateExists DEF SweepFail, Control, SweepControl
        <4>2. /\ sagas'[swFailing].state = "failed"
              /\ \A t \in Sagas \ {swFailing} : sagas'[t] = sagas[t]
          BY <1>t, <3>2, <4>1, UpdateStateFacts DEF State
        <4> QED
          BY <4>2 DEF Undecided, Completed
      <3> QED
        BY <1>2, <3>1, <3>2
        DEF Sweep, SweeperNext, SweepFind, SweepRequeue, SweepMarkFailed, SweepFail, tableVars
    <2> QED
      BY <2>1, <2>2, <2>3, <2>4, OthersKeepClean DEF DecisionsStand
  <1>3. CASE (\E s \in Sagas : Clock(s)) \/ UNCHANGED vars
    <2>1. UNCHANGED <<sagas, outbox, cmdQ, replyQ, relayVars, notifierVars, rcVars>>
      BY <1>3 DEF Clock, Age, vars, tableVars, brokerVars
    <2> QED
      BY <2>1, OthersKeepClean DEF DecisionsStand, SagasGrow, Compensated, Undecided, Completed
  <1> QED
    BY <1>1, <1>2, <1>3

LEMMA NotifierKeepsClean ==
  ASSUME Control, Causes, Clean, Notifier, NoFault, faults = 0
  PROVE  Clean'
  <1>f. ~Fault
    BY FaultEnds DEF Control, NoFault
  <1>1. UNCHANGED <<relayVars, rcVars>>
    BY DEF Notifier
  <1>2. ASSUME NEW s \in Sagas,
               \/ NotifierCheck(s) \/ NotifierSendOk(s) \/ NotifierSendErr(s)
               \/ NotifierReply(s) \/ NotifierReplyDup(s) \/ NotifierMark(s)
        PROVE  Clean'
    <2>1. cmdQ # <<>> /\ s = Head(cmdQ)
      BY <1>2 DEF NotifierCheck, NotifierSendOk, NotifierSendErr, NotifierReply, NotifierReplyDup,
           NotifierMark, At
    <2> QED
      BY <1>f, <1>1, <1>2, <2>1, NotifierQuietKeepsClean, NotifierReplyKeepsClean
  <1> QED
    BY <1>1, <1>2, NotifierAckKeepsClean DEF Notifier, NotifierNext

\* Faults are never taken back.
LEMMA FaultsGrow ==
  ASSUME Control, [Next]_vars, faults' = 0
  PROVE  NoFault /\ faults = 0
  <1>1. Fault \/ NoFault
    <2>1. Relay => Fault \/ NoFault
      BY DEF Relay, RelayNext, RelayFetch, RelayPublish, PublishCmdOk, PublishCmdErr, RelayMark, NoFault,
           brokerVars
    <2>2. Notifier => Fault \/ NoFault
      BY DEF Notifier, NotifierNext, NotifierCheck, NotifierSendOk, NotifierSendErr, NotifierReply,
           NotifierReplyDup, NotifierMark, NotifierAck, PublishReplyOk, PublishReplyErr, NoFault, brokerVars
    <2>3. Replies => Fault \/ NoFault
      BY DEF Replies, ReplyConsumerNext, ReplyLoad, ReplyComplete, ReplyCompensate, ReplyMarkFailed,
           ReplyFail, ReplyAck
    <2>4. Sweep => Fault \/ NoFault
      BY DEF Sweep, SweeperNext, SweepFind, SweepRequeue, SweepMarkFailed, SweepFail, NoFault, brokerVars
    <2>5. ASSUME NEW c \in Clients, Handler(c) \/ Client(c) PROVE Fault \/ NoFault
      BY <2>5 DEF Handler, ApiStep, StartConfirmation, ReactivateConfirmation, AbortT1, ConfirmUpdate,
           ConfirmRegister, UnsubscribeDelete, Client, ApiRequest, SubscribeLookup, ConfirmLookup,
           UnsubscribeLookup, NoFault, brokerVars
    <2>6. RelayFault \/ NotifierFault \/ MonolithCrash \/ MonolithShutdown => Fault
      BY DEF RelayFault, PublisherLost, NotifierFault, NotifierRestart, NotifierCancel, DedupExpire,
           MonolithCrash, MonolithShutdown
    <2>7. (\E s \in Sagas : Clock(s)) \/ UNCHANGED vars => NoFault
      BY DEF Clock, vars, NoFault, brokerVars
    <2> QED
      BY <2>1, <2>2, <2>3, <2>4, <2>5, <2>6, <2>7 DEF Next
  <1>2. Fault => faults' # 0
    BY FaultEnds DEF Control
  <1> QED
    BY <1>1, <1>2 DEF NoFault

LEMMA InitFaultFree == Init => FaultFree
  <1> SUFFICES ASSUME Init PROVE Clean
    BY DEF FaultFree
  <1>1. /\ \A s \in Sagas : sagas[s] = NoSaga /\ outbox[s] = "none" /\ emails[s] = 0
        /\ replyQ = <<>> /\ gaveUp = {} /\ nPc = "check" /\ rcPc = "load" /\ relayPc = "publish"
    BY DEF Init, TablesInit, BrokerInit, NotifierInit, ReplyConsumerInit, RelayInit
  <1>2. Dedup
    BY <1>1 DEF Dedup, InHand
  <1>3. InOrder
    BY <1>1 DEF InOrder
  <1>4. Truthful /\ OnItsWay
    BY <1>1 DEF Truthful, Completed, OnItsWay, NoSaga
  <1> QED
    BY <1>2, <1>3, <1>4 DEF Clean

LEMMA NextKeepsFaultFree ==
  ASSUME Control, Causes, FaultFree, [Next]_vars
  PROVE  FaultFree'
  <1> SUFFICES ASSUME faults' = 0 PROVE Clean'
    BY DEF FaultFree
  <1>1. NoFault /\ faults = 0 /\ Clean
    BY FaultsGrow DEF FaultFree
  <1>2. ~Fault
    BY <1>1, FaultEnds DEF Control, NoFault
  <1>3. ~(RelayFault \/ NotifierFault \/ MonolithCrash \/ MonolithShutdown)
    BY <1>2 DEF RelayFault, PublisherLost, NotifierFault, NotifierRestart, NotifierCancel, DedupExpire,
         MonolithCrash, MonolithShutdown
  <1> QED
    BY <1>1, <1>3, RelayKeepsClean, NotifierKeepsClean, RepliesKeepClean, MonolithKeepsClean DEF Next

\* As long as nothing goes wrong, the notifier tries every saga once, the true reply
\* comes first, and no message leaves a queue before its effect is there (drain,
\* consumer.go handle, HandleReply).
THEOREM FaultFreeInvariant == Spec => []FaultFree
  <1>1. Control /\ Causes /\ FaultFree /\ [Next]_vars => FaultFree'
    BY NextKeepsFaultFree
  <1> QED
    BY <1>1, InitFaultFree, ControlInvariant, CausesInvariant, PTL DEF Spec

\* Without faults a published command or its reply is queued until the saga is decided
\* (publish-then-mark in drain, reply-then-ack in the notifier, update-then-ack in the
\* reply consumer).
THEOREM NothingIsLost == Spec => []NothingLostWithoutFaults
  <1>1. FaultFree => NothingLostWithoutFaults
    BY DEF FaultFree, Clean, OnItsWay, Heard, NothingLostWithoutFaults
  <1> QED
    BY <1>1, FaultFreeInvariant, PTL

\* Without faults at most one e-mail is sent, however often the sweeper has the command
\* published again, and the saga's decision says whether it arrived (dedup in the
\* notifier, FIFO replies and the state guards of HandleReply).
THEOREM ExactlyOnce == Spec => []ExactlyOnceWithoutFaults
  <1>1. FaultFree /\ Causes => ExactlyOnceWithoutFaults
    BY DEF FaultFree, Clean, Dedup, Truthful, Causes, DecisionHasCause, ExactlyOnceWithoutFaults
  <1> QED
    BY <1>1, FaultFreeInvariant, CausesInvariant, PTL

=============================================================================
