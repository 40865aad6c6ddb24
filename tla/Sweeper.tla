------------------------------- MODULE Sweeper -------------------------------
(***************************************************************************)
(* internal/orchestrator/sweeper.go: the goroutine that re-drives sagas    *)
(* stuck before a decision and finishes interrupted compensations.  It     *)
(* works on a snapshot of the saga rows.                                   *)
(***************************************************************************)
EXTENDS SagaTables, RabbitBroker

CONSTANT SweepLimit     \* the LIMIT of FindResumable

ASSUME SweepLimitAssumption == SweepLimit \in Nat \ {0}

VARIABLES swBatch,      \* rows of the snapshot not dealt with yet
          swFailing     \* the saga between MarkFailed and UpdateState, or 0

sweeperVars == <<swBatch, swFailing>>

SweeperInit ==
  /\ swBatch = {}
  /\ swFailing = 0

SweeperTypeOK ==
  /\ swBatch \subseteq [saga : Sagas, state : {"subscription_created", "compensating"}]
  /\ swFailing \in 0..MaxSagas

\* FindResumable: the SweepLimit rows updated longest ago, with the state they have
\* now.  The rows of one snapshot are dealt with in any order.
SweepFind ==
  /\ swBatch = {}
  /\ swFailing = 0
  /\ \E b \in SUBSET Resumable :
       /\ b # {}
       /\ Cardinality(b) <= SweepLimit
       /\ b = Resumable \/ Cardinality(b) = SweepLimit
       /\ \A s \in b, t \in Resumable \ b : updatedAt[s] < updatedAt[t]
       /\ swBatch' = {[saga |-> s, state |-> sagas[s].state] : s \in b}
  /\ UNCHANGED <<tableVars, brokerVars, swFailing>>

\* Mutant of SweepRequeue: the saga is seen and nothing is published.
SweepRequeueForgets(row) ==
  /\ row \in swBatch
  /\ swFailing = 0
  /\ row.state = "subscription_created"
  /\ swBatch' = swBatch \ {row}
  /\ UNCHANGED <<tableVars, brokerVars, swFailing>>

\* A row of the snapshot that says subscription_created: publish its command again.
SweepRequeue(row) ==
  /\ row \in swBatch
  /\ swFailing = 0
  /\ row.state = "subscription_created"
  /\ \/ Requeue(row.saga) /\ NoFault
     \/ UNCHANGED outbox /\ Fault
  /\ swBatch' = swBatch \ {row}
  /\ UNCHANGED <<subs, sagas, stale, updatedAt, cmdQ, replyQ, swFailing>>

\* Mutant of SweepMarkFailed: an error of MarkFailed is logged and passed over.
SweepMarkFailedGoesOn(row) ==
  LET i == sagas[row.saga].sub
  IN /\ row \in swBatch
     /\ swFailing = 0
     /\ row.state = "compensating"
     /\ \/ MarkFailedHits(i) /\ MarkFailed(i) /\ NoFault
        \/ UNCHANGED subs /\ Fault
     /\ swFailing' = row.saga
     /\ swBatch' = swBatch \ {row}
     /\ UNCHANGED <<sagas, outbox, stale, updatedAt, cmdQ, replyQ>>

\* Mutant of SweepMarkFailed: undecided sagas that are old are failed, too.
SweepMarkFailedAnyState(row) ==
  LET i == sagas[row.saga].sub
  IN /\ row \in swBatch
     /\ swFailing = 0
     /\ MarkFailedHits(i)
     /\ MarkFailed(i)
     /\ swFailing' = row.saga
     /\ swBatch' = swBatch \ {row}
     /\ UNCHANGED <<sagas, outbox, stale, updatedAt, brokerVars>>

\* A row that says compensating: MarkFailed; an error leaves it for the next sweep.
SweepMarkFailed(row) ==
  LET i == sagas[row.saga].sub
  IN /\ row \in swBatch
     /\ swFailing = 0
     /\ row.state = "compensating"
     /\ \/ MarkFailedHits(i) /\ MarkFailed(i) /\ swFailing' = row.saga /\ NoFault
        \/ ~MarkFailedHits(i) /\ UNCHANGED <<subs, swFailing>> /\ NoFault
        \/ MarkFailedHits(i) /\ UNCHANGED <<subs, swFailing>> /\ Fault
     /\ swBatch' = swBatch \ {row}
     /\ UNCHANGED <<sagas, outbox, stale, updatedAt, cmdQ, replyQ>>

\* ... and then UpdateState(failed).
SweepFail ==
  /\ swFailing # 0
  /\ \/ UpdateState(swFailing, "failed") /\ NoFault
     \/ UNCHANGED <<sagas, stale, updatedAt>> /\ Fault
  /\ swFailing' = 0
  /\ UNCHANGED <<subs, outbox, cmdQ, replyQ, swBatch>>

\* The monolith dies.
SweeperReset == swBatch' = {} /\ swFailing' = 0

SweeperNext ==
  SweepFind \/ SweepFail \/ \E row \in swBatch : SweepRequeue(row) \/ SweepMarkFailed(row)

=============================================================================
