----------------------------- MODULE SagaTables -----------------------------
(***************************************************************************)
(* The three PostgreSQL tables the subscribe saga works on, and the        *)
(* statements that the stores run against them:                            *)
(*                                                                         *)
(*   subs    subscriptions   (internal/subscription/store.go)              *)
(*   sagas   saga            (internal/orchestrator/store.go)              *)
(*   outbox  outbox          (internal/outbox/store.go)                    *)
(*                                                                         *)
(* One operator per statement.  A statement that the code does not wrap in *)
(* a transaction is a step of its own in the component that runs it; T1 is *)
(* one transaction and therefore one step.                                 *)
(*                                                                         *)
(* Every T1 draws a fresh saga id and a fresh token together, so both are  *)
(* the number of that T1.  A row T1 number n inserts into subscriptions    *)
(* also gets the id n: ids come from a sequence and are never reused.      *)
(* saga.updated_at is kept as its order: updatedAt[s] is the place of saga *)
(* s among the last updates, the highest being the latest.  The sagas      *)
(* whose last update is older than the sweeper's staleAfter form stale.    *)
(***************************************************************************)
EXTENDS Naturals, FiniteSets

CONSTANTS Emails,       \* e-mail addresses that subscribe
          Repos,        \* repositories they subscribe to
          MaxSagas      \* bound: number of T1 transactions in a behaviour

ASSUME MaxSagasAssumption == MaxSagas \in Nat

VARIABLES subs, sagas, outbox, stale, updatedAt

tableVars == <<subs, sagas, outbox, stale, updatedAt>>

Sagas == 1..MaxSagas

Status == {"pending", "confirmed", "failed"}

State == {"subscription_created", "completed", "compensating", "failed"}

NoSub == [status |-> "none"]

NoSaga == [state |-> "none"]

SubRow == [pair : Emails \X Repos, token : Sagas, confirmed : BOOLEAN, status : Status]

SagaRow == [sub : Sagas, state : State]

TablesInit ==
  /\ subs = [n \in Sagas |-> NoSub]
  /\ sagas = [n \in Sagas |-> NoSaga]
  /\ outbox = [n \in Sagas |-> "none"]
  /\ stale = {}
  /\ updatedAt = [n \in Sagas |-> n]

TablesTypeOK ==
  /\ subs \in [Sagas -> SubRow \cup {NoSub}]
  /\ sagas \in [Sagas -> SagaRow \cup {NoSaga}]
  /\ outbox \in [Sagas -> {"none", "unpublished", "published"}]
  /\ stale \subseteq Sagas
  /\ updatedAt \in [Sagas -> Sagas]

-----------------------------------------------------------------------------
(* internal/subscription/store.go *)

\* GetSubscriptionByEmailAndRepo: the ids of the rows of a pair (none or one).
RowsOfPair(pair) == {i \in Sagas : subs[i] # NoSub /\ subs[i].pair = pair}

\* GetSubscriptionByToken: the ids of the rows that carry a token.
RowsOfToken(token) == {i \in Sagas : subs[i] # NoSub /\ subs[i].token = token}

\* CreateInTx: INSERT, refused by UNIQUE(email, repo) when the pair has a row.
CreateSub(n, pair) ==
  /\ RowsOfPair(pair) = {}
  /\ subs' = [subs EXCEPT ![n] =
       [pair |-> pair, token |-> n, confirmed |-> FALSE, status |-> "pending"]]

\* ReactivateInTx: UPDATE ... WHERE id = i AND status = 'failed'; no row is an error.
ReactivateSub(n, i) ==
  /\ subs[i].status = "failed"
  /\ subs' = [subs EXCEPT ![i] =
       [pair |-> @.pair, token |-> n, confirmed |-> FALSE, status |-> "pending"]]

\* Mutant of ConfirmSub: the confirmed column is forgotten.
ConfirmSubStatusOnly(token) ==
  subs' = [i \in Sagas |->
             IF i \in RowsOfToken(token)
             THEN [subs[i] EXCEPT !.status = "confirmed"]
             ELSE subs[i]]

\* ConfirmSubscription: UPDATE ... WHERE token = t; the number of rows is not looked at.
ConfirmSub(token) ==
  subs' = [i \in Sagas |->
             IF i \in RowsOfToken(token)
             THEN [subs[i] EXCEPT !.confirmed = TRUE, !.status = "confirmed"]
             ELSE subs[i]]

\* MarkFailed: UPDATE ... WHERE id = i, whatever the row's status; no row is an error.
MarkFailedHits(i) == subs[i] # NoSub

MarkFailed(i) == subs' = [subs EXCEPT ![i].status = "failed"]

\* DeleteSubscription: DELETE ... WHERE token = t.
DeleteSub(token) ==
  subs' = [i \in Sagas |-> IF i \in RowsOfToken(token) THEN NoSub ELSE subs[i]]

-----------------------------------------------------------------------------
(* internal/orchestrator/store.go and internal/outbox/store.go *)

\* updated_at = NOW(): saga s is the one updated last.
Touch(s) ==
  updatedAt' = [t \in Sagas |->
                  IF t = s THEN MaxSagas
                  ELSE IF updatedAt[t] > updatedAt[s] THEN updatedAt[t] - 1
                  ELSE updatedAt[t]]

\* CreateInTx of the saga, inside T1's transaction.
CreateSaga(n, i) ==
  /\ sagas' = [sagas EXCEPT ![n] = [sub |-> i, state |-> "subscription_created"]]
  /\ Touch(n)
  /\ UNCHANGED stale

\* CreateInTx of the saga and Enqueue of its command.
EnqueueConfirmation(n, i) ==
  /\ CreateSaga(n, i)
  /\ outbox' = [outbox EXCEPT ![n] = "unpublished"]

\* UpdateState: UPDATE saga SET state, updated_at = NOW() WHERE id, in any state.
UpdateState(s, state) ==
  /\ sagas' = [sagas EXCEPT ![s].state = state]
  /\ stale' = stale \ {s}
  /\ Touch(s)

\* A saga that has not come to its end.
Unfinished(s) == sagas[s].state \in {"subscription_created", "compensating"}

\* Mutant of Resumable: interrupted compensations are not looked for.
ResumableCreatedOnly == {s \in stale : sagas[s].state = "subscription_created"}

\* FindResumable: the stale sagas that are not in a terminal state.
Resumable == {s \in stale : Unfinished(s)}

\* FetchUnpublished: the rows the relay still has to publish.
Unpublished == {s \in Sagas : outbox[s] = "unpublished"}

MarkPublished(s) == outbox' = [outbox EXCEPT ![s] = "published"]

\* Requeue: UPDATE ... WHERE saga_id = s; a saga without an outbox row is no error.
Requeue(s) == outbox' = [outbox EXCEPT ![s] = IF @ = "none" THEN "none" ELSE "unpublished"]

\* Time passes: a saga that nobody updates gets older than staleAfter, the one
\* updated first before the others.
Age(s) ==
  /\ Unfinished(s)
  /\ s \notin stale
  /\ \A t \in Sagas : Unfinished(t) /\ updatedAt[t] < updatedAt[s] => t \in stale
  /\ stale' = stale \cup {s}
  /\ UNCHANGED <<subs, sagas, outbox, updatedAt>>

-----------------------------------------------------------------------------
(* What holds of the tables, whoever writes to them. *)

\* Compensation was chosen, and possibly carried out.
Compensated(s) == sagas[s].state \in {"compensating", "failed"}

\* A row of the subscriptions table.
IsRow(i) == subs[i] # NoSub

\* A subscription is marked failed only on behalf of a saga of its own that was
\* compensated, and only confirmed rows call themselves confirmed (MarkFailed,
\* ReactivateInTx, ConfirmSubscription against each other).  The saga need not be the
\* one whose token the row carries by now: see ConfirmedStaysConfirmed.
StatusIsExplained ==
  \A i \in Sagas :
    /\ subs[i].status = "failed" => \E s \in Sagas : sagas[s] # NoSaga /\ sagas[s].sub = i /\ Compensated(s)
    /\ subs[i].status = "confirmed" => subs[i].confirmed

\* UNIQUE(email, repo), as a fact about the table.
OneRowPerPair ==
  \A i, j \in Sagas : IsRow(i) /\ IsRow(j) /\ subs[i].pair = subs[j].pair => i = j

=============================================================================
