---------------------------- MODULE SubscribeSaga ----------------------------
(***************************************************************************)
(* The subscribe saga over the broker transport, end to end: the HTTP      *)
(* handlers, the outbox relay, RabbitMQ, the notifier, the reply consumer  *)
(* and the resume sweeper, over shared tables and queues.                  *)
(*                                                                         *)
(* Two processes run: the monolith (main.go), whose goroutines are the     *)
(* handlers, the relay, the reply consumer and the sweeper, and the        *)
(* notifier.  Either may die between any two steps and starts again.       *)
(***************************************************************************)
EXTENDS SubscriptionApi, OutboxRelay, NotifierConsumer, ReplyConsumer, Sweeper

vars == <<tableVars, brokerVars, relayVars, notifierVars, rcVars, sweeperVars, apiVars>>

Init ==
  /\ TablesInit
  /\ BrokerInit
  /\ RelayInit
  /\ NotifierInit
  /\ ReplyConsumerInit
  /\ SweeperInit
  /\ ApiInit

-----------------------------------------------------------------------------
\* Each component leaves the variables of the others alone.
Relay == RelayNext /\ UNCHANGED <<notifierVars, rcVars, sweeperVars, apiVars>>

RelayFault == PublisherLost /\ UNCHANGED <<notifierVars, rcVars, sweeperVars, apiVars>>

Notifier == NotifierNext /\ UNCHANGED <<relayVars, rcVars, sweeperVars, apiVars>>

NotifierFault ==
  /\ NotifierRestart \/ \E s \in Sagas : NotifierCancel(s) \/ DedupExpire(s)
  /\ UNCHANGED <<relayVars, rcVars, sweeperVars, apiVars>>

Replies ==
  ReplyConsumerNext /\ UNCHANGED <<relayVars, notifierVars, sweeperVars, apiVars>>

Sweep == SweeperNext /\ UNCHANGED <<relayVars, notifierVars, rcVars, apiVars>>

Handler(c) ==
  ApiStep(c) /\ UNCHANGED <<relayVars, notifierVars, rcVars, sweeperVars>>

Client(c) ==
  ApiRequest(c) /\ UNCHANGED <<relayVars, notifierVars, rcVars, sweeperVars>>

Clock(s) ==
  Age(s) /\ UNCHANGED <<brokerVars, relayVars, notifierVars, rcVars, sweeperVars, apiVars>>

\* The monolith loses everything it holds in memory.
MonolithReset == RelayReset /\ ReplyConsumerReset /\ SweeperReset /\ ApiReset

\* The monolith crashes and starts again; the reply in flight is redelivered.
MonolithCrash ==
  /\ Fault
  /\ MonolithReset
  /\ UNCHANGED <<tableVars, cmdQ, replyQ, notifierVars>>

\* SIGTERM: run() cancels the context.  Every statement of HandleReply fails from now on
\* and handleWithRetry returns at once.  The reply in flight leaves the queue, and so
\* does each prefetched one that Run still picks before it sees the cancellation.
MonolithShutdown ==
  /\ Fault
  /\ \E k \in 1..Len(replyQ) : replyQ' = SubSeq(replyQ, k + 1, Len(replyQ))
  /\ MonolithReset
  /\ UNCHANGED <<tableVars, cmdQ, notifierVars>>

Next ==
  \/ Relay
  \/ RelayFault
  \/ Notifier
  \/ NotifierFault
  \/ Replies
  \/ Sweep
  \/ \E c \in Clients : Handler(c) \/ Client(c)
  \/ \E s \in Sagas : Clock(s)
  \/ MonolithCrash
  \/ MonolithShutdown

Spec == Init /\ [][Next]_vars

\* The goroutines are scheduled, the tickers tick and time passes.  Nothing is
\* assumed of the clients, nor of the faults beyond their finite number.
Fairness ==
  /\ WF_vars(Relay)
  /\ WF_vars(Notifier)
  /\ WF_vars(Replies)
  /\ WF_vars(Sweep)
  /\ \A s \in Sagas : WF_vars(Clock(s))
  /\ \A c \in Clients : WF_vars(Handler(c))

FairSpec == Spec /\ Fairness

-----------------------------------------------------------------------------
TypeOK ==
  /\ TablesTypeOK
  /\ cmdQ \in Seq(Sagas)
  /\ replyQ \in Seq(Reply)
  /\ faults \in 0..MaxFaults
  /\ RelayTypeOK
  /\ NotifierTypeOK
  /\ ReplyConsumerTypeOK
  /\ SweeperTypeOK
  /\ ApiTypeOK

-----------------------------------------------------------------------------
(* Observations on the state. *)

\* The confirmation of saga s reached the mailbox.
Mailed(s) == emails[s] > 0

Undecided(s) == sagas[s].state = "subscription_created"

Completed(s) == sagas[s].state = "completed"

\* The subscription of saga s was deleted.
SubGone(s) == sagas[s] # NoSaga /\ ~IsRow(sagas[s].sub)

Pending(i) == subs[i].status = "pending"

\* Some reply for saga s waits in saga.replies.
HasReply(s) == \E k \in 1..Len(replyQ) : replyQ[k].saga = s

HasCommand(s) == \E k \in 1..Len(cmdQ) : cmdQ[k] = s

-----------------------------------------------------------------------------
(* Safety. *)

\* The decision on a saga always rests on what the notifier did: a completed
\* saga was e-mailed or (a failed reply having been lost, see CompletedMeansMailed)
\* given up on, and a saga is compensated only if the notifier gave up.  Replies,
\* duplicates, crashes and re-drives never invent an outcome
\* (reply_consumer.go HandleReply, consumer.go handle and dispatch).
DecisionHasCause ==
  \A s \in Sagas :
    /\ Completed(s) => Mailed(s) \/ s \in gaveUp
    /\ Compensated(s) => s \in gaveUp

\* A pending subscription is never stranded: the saga of its current token exists,
\* works on this row, has a command in the outbox to re-drive it with, and has not
\* ended in failure without marking the row (T1's transaction, and the order
\* MarkFailed before UpdateState(failed) in HandleReply and Sweep).
PendingIsDriven ==
  \A i \in Sagas :
    Pending(i) =>
      LET s == subs[i].token
      IN /\ sagas[s] # NoSaga
         /\ sagas[s].sub = i
         /\ outbox[s] # "none"
         /\ sagas[s].state # "failed"

\* Without faults nothing is lost on the way: while a published command's saga is
\* undecided, the command or its reply is queued (publish-then-mark in drain,
\* reply-then-ack in the notifier, update-then-ack in the reply consumer).  A command
\* published before the notifier has declared its queue is lost and counts as a fault
\* (PublishCmdOk); the sweeper makes up for it (EverySagaDecided).
NothingLostWithoutFaults ==
  faults = 0 =>
    \A s \in Sagas :
      Undecided(s) /\ outbox[s] = "published" => HasCommand(s) \/ HasReply(s)

\* Without faults delivery is exactly once and the decision is truthful, although
\* the sweeper may re-publish a command any number of times: at most one e-mail,
\* completed exactly when it arrived (dedup in the notifier, FIFO replies and the
\* state guards of HandleReply).  Faults are those of RabbitBroker, Redis included.
ExactlyOnceWithoutFaults ==
  faults = 0 =>
    \A s \in Sagas :
      /\ emails[s] <= 1
      /\ Completed(s) => emails[s] = 1
      /\ Compensated(s) => emails[s] = 0

-----------------------------------------------------------------------------
(* Refinement: the saga implements SagaOutcome. *)

OutcomeOf(s) ==
  CASE sagas[s].state = "none" -> "none"
    [] Undecided(s) -> "undecided"
    [] Completed(s) -> "sent"
    [] OTHER -> "failed"

Outcome == INSTANCE SagaOutcome WITH
  Saga <- Sagas,
  outcome <- [s \in Sagas |-> OutcomeOf(s)],
  mailed <- {s \in Sagas : Mailed(s)},
  refused <- gaveUp

\* Every step of the detailed saga is a step of SagaOutcome or changes nothing in
\* it: each saga is decided once, for a cause, and never re-decided.
ImplementsOutcome == Outcome!Spec

-----------------------------------------------------------------------------
(* Liveness, under FairSpec. *)

\* A saga is decided in the end, whatever was lost: the sweeper re-drives it until a
\* reply gets through (sweeper.go Sweep), as long as the monolith can publish at all (the
\* publisher never opens a lost connection again) and fewer sagas than FindResumable's
\* LIMIT are stuck before it (see SweptIndependently).
EverySagaDecided ==
  \A s \in Sagas : Undecided(s) ~> (Completed(s) \/ Compensated(s) \/ ~pubUp)

\* A compensation is carried through to failed, unless its subscription is deleted.
CompensationFinishes ==
  \A s \in Sagas :
    sagas[s].state = "compensating" ~> (sagas[s].state = "failed" \/ SubGone(s))

-----------------------------------------------------------------------------
(* What comments and documents say of the code, and what it does not do. *)

\* saga.go: "StateCompleted: the confirmation email was sent (terminal, success)".
CompletedMeansMailed == \A s \in Sagas : Completed(s) => Mailed(s)

\* subscription/service.go, Subscribe: "A pending or confirmed subscription is a real
\* duplicate -> reject": a subscription whose confirmation e-mail arrived and was
\* confirmed stays confirmed when its owner subscribes again.
ConfirmedStaysConfirmed ==
  [][\A i \in Sagas :
       IsRow(i) /\ subs[i].confirmed /\ Mailed(subs[i].token) /\ subs'[i] # NoSub
         => subs'[i].confirmed]_vars

\* sweeper.go, Sweep: "Each saga is handled independently: a failure on one is logged
\* and does not stop the others": whatever becomes of other sagas, a waiting one is
\* re-driven until it is decided.  FindResumable's LIMIT takes this back: SweepLimit
\* sagas that can never be finished fill every sweep.
SweptIndependently ==
  \A s \in Sagas : Undecided(s) ~> (~Undecided(s) \/ ~pubUp)

=============================================================================
