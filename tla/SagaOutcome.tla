----------------------------- MODULE SagaOutcome -----------------------------
(***************************************************************************)
(* What the subscribe saga promises, without queues, retries, crashes or   *)
(* program counters.  Every saga that was started is decided at most once: *)
(* "sent" only after its confirmation was tried (it reached the mailbox or *)
(* the notifier gave up), "failed" only after the notifier gave up.        *)
(*                                                                         *)
(* SubscribeSaga keeps the promise in every behaviour.  SyncSaga keeps it  *)
(* while nothing fails: a gRPC call that times out is compensated although *)
(* the notifier has not given up and may still send.                       *)
(***************************************************************************)
CONSTANT Saga           \* saga ids

VARIABLES outcome,      \* "none", "undecided", "sent" or "failed"
          mailed,       \* sagas whose confirmation reached the mailbox
          refused       \* sagas whose confirmation the notifier gave up on

outcomeVars == <<outcome, mailed, refused>>

Init ==
  /\ outcome = [s \in Saga |-> "none"]
  /\ mailed = {}
  /\ refused = {}

Start(s) ==
  /\ outcome[s] = "none"
  /\ outcome' = [outcome EXCEPT ![s] = "undecided"]
  /\ UNCHANGED <<mailed, refused>>

\* One SMTP attempt of a saga that was started: it arrives, it is given up, or,
\* when SMTP reports an error for a message it took, both.
Attempt(s) ==
  /\ outcome[s] # "none"
  /\ mailed' \in {mailed, mailed \cup {s}}
  /\ refused' \in {refused, refused \cup {s}}
  /\ UNCHANGED outcome

Complete(s) ==
  /\ outcome[s] = "undecided"
  /\ s \in mailed \cup refused
  /\ outcome' = [outcome EXCEPT ![s] = "sent"]
  /\ UNCHANGED <<mailed, refused>>

Compensate(s) ==
  /\ outcome[s] = "undecided"
  /\ s \in refused
  /\ outcome' = [outcome EXCEPT ![s] = "failed"]
  /\ UNCHANGED <<mailed, refused>>

Next == \E s \in Saga : Start(s) \/ Attempt(s) \/ Complete(s) \/ Compensate(s)

Spec == Init /\ [][Next]_outcomeVars

=============================================================================
