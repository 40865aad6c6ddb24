----------------------------- MODULE OutboxRelay -----------------------------
(***************************************************************************)
(* internal/outbox/relay.go: the goroutine that drains the outbox table    *)
(* into the broker.  Order is publish-then-mark.                           *)
(*                                                                         *)
(* The relay publishes through the monolith's one BrokerPublisher, which   *)
(* dials RabbitMQ once at startup (notification/broker_publisher.go).      *)
(***************************************************************************)
EXTENDS SagaTables, RabbitBroker

CONSTANT BatchLimit     \* Relay.batch, the LIMIT of FetchUnpublished

ASSUME BatchLimitAssumption == BatchLimit \in Nat \ {0}

VARIABLES relayBatch,   \* the fetched messages not dealt with yet
          relayPc,      \* "publish" or "mark": what comes next for the oldest of them
          pubUp         \* the publisher's connection is open

relayVars == <<relayBatch, relayPc, pubUp>>

RelayInit ==
  /\ relayBatch = {}
  /\ relayPc = "publish"
  /\ pubUp = TRUE

RelayTypeOK ==
  /\ relayBatch \subseteq Sagas
  /\ relayPc \in {"publish", "mark"}
  /\ pubUp \in BOOLEAN

\* Mutant of RelayFetch: mark-then-publish, the batch is marked as it is fetched.
RelayFetchMarksFirst ==
  /\ relayBatch = {}
  /\ Unpublished # {}
  /\ relayBatch' = Unpublished
  /\ outbox' = [s \in Sagas |-> IF s \in Unpublished THEN "published" ELSE outbox[s]]
  /\ relayPc' = "publish"
  /\ UNCHANGED <<subs, sagas, stale, updatedAt, brokerVars, pubUp>>

\* FetchUnpublished at the start of drain: the BatchLimit oldest rows.
RelayFetch ==
  /\ relayBatch = {}
  /\ Unpublished # {}
  /\ \E b \in SUBSET Unpublished :
       /\ Cardinality(b) <= BatchLimit
       /\ b = Unpublished \/ Cardinality(b) = BatchLimit
       /\ \A m \in b, n \in Unpublished \ b : m < n
       /\ relayBatch' = b
  /\ relayPc' = "publish"
  /\ UNCHANGED <<tableVars, brokerVars, pubUp>>

\* The message of the batch that drain's loop is at (ORDER BY id).
RelayAt(s) == s \in relayBatch /\ \A m \in relayBatch : s <= m

\* Publish; an error ends the batch until the next tick.
RelayPublish(s) ==
  /\ RelayAt(s)
  /\ relayPc = "publish"
  /\ \/ /\ pubUp
        /\ PublishCmdOk(s)
        /\ relayPc' = "mark"
        /\ UNCHANGED relayBatch
     \/ /\ pubUp
        /\ PublishCmdErr(s)
        /\ relayBatch' = {}
        /\ UNCHANGED relayPc
     \/ /\ ~pubUp
        /\ relayBatch' = {}
        /\ UNCHANGED <<relayPc, cmdQ, faults>>
  /\ UNCHANGED <<tableVars, replyQ, pubUp>>

\* MarkPublished; an error is only logged and the loop goes on.
RelayMark(s) ==
  /\ RelayAt(s)
  /\ relayPc = "mark"
  /\ \/ MarkPublished(s) /\ NoFault
     \/ UNCHANGED outbox /\ Fault
  /\ relayBatch' = relayBatch \ {s}
  /\ relayPc' = "publish"
  /\ UNCHANGED <<subs, sagas, stale, updatedAt, cmdQ, replyQ, pubUp>>

\* RabbitMQ closes the publisher's connection.  Nothing opens it again: from now
\* on every publish returns an error, until the monolith is restarted.
PublisherLost ==
  /\ pubUp
  /\ Fault
  /\ pubUp' = FALSE
  /\ UNCHANGED <<tableVars, cmdQ, replyQ, relayBatch, relayPc>>

\* The monolith restarts: the batch in memory is gone, the publisher dials again.
RelayReset == relayBatch' = {} /\ relayPc' = "publish" /\ pubUp' = TRUE

RelayNext == RelayFetch \/ \E s \in Sagas : RelayPublish(s) \/ RelayMark(s)

=============================================================================
