--------------------------- MODULE ReleaseTracking ---------------------------
(***************************************************************************)
(* Release notifications end to end: GitHub and its cache, the scanner in  *)
(* the monolith, the notifier's work queue and the notifier.               *)
(***************************************************************************)
EXTENDS ReleaseConsumer

vars == <<brokerVars, githubVars, scannerVars, consumerVars>>

Init ==
  /\ BrokerInit
  /\ GithubInit
  /\ ScannerInit
  /\ ConsumerInit

Scanner == ScannerNext /\ UNCHANGED consumerVars

ScannerFault == (ScannerCrash \/ PublisherLost) /\ UNCHANGED consumerVars

Stop == Sigterm /\ UNCHANGED consumerVars

Shutdown == (PublisherCloses \/ MonolithExits) /\ UNCHANGED consumerVars

NotifierStarts == NotifierDeclares /\ UNCHANGED consumerVars

Subscriber(r, t) == (Confirm(r, t) \/ Unsubscribe(r, t)) /\ UNCHANGED consumerVars

Github(r) ==
  (Publish(r) \/ Retract(r)) /\ UNCHANGED <<brokerVars, scannerVars, consumerVars>>

CacheClock(r) == CacheExpire(r) /\ UNCHANGED <<brokerVars, scannerVars, consumerVars>>

ConsumerFault == ConsumerRestart \/ \E m \in Message : SeenExpire(m)

Next ==
  \/ Scanner
  \/ ScannerFault
  \/ Stop
  \/ Shutdown
  \/ NotifierStarts
  \/ ConsumerNext
  \/ ConsumerFault
  \/ \E r \in Repos : Github(r) \/ CacheClock(r) \/ \E t \in Tokens : Subscriber(r, t)

Spec == Init /\ [][Next]_vars

\* The scanner's ticker and the consumer run, a shutdown that began is finished, cache
\* entries have a TTL.  Nothing is assumed of GitHub and of the subscribers.
Fairness ==
  /\ WF_vars(Scanner)
  /\ WF_vars(Shutdown)
  /\ WF_vars(ConsumerNext)
  /\ \A r \in Repos : WF_vars(CacheClock(r))

FairSpec == Spec /\ Fairness

-----------------------------------------------------------------------------
TypeOK ==
  /\ GithubTypeOK
  /\ ScannerTypeOK
  /\ ConsumerTypeOK
  /\ cmdQ \in Seq(Message)
  /\ replyQ = <<>>
  /\ faults \in 0..MaxFaults

Queued(m) == \E k \in 1..Len(cmdQ) : cmdQ[k] = m

\* The scanner is about to publish m.
Scheduled(m) ==
  /\ scNew = [repo |-> m.repo, tag |-> m.tag]
  /\ \/ scPc = "list" /\ m.token \in SubscribersForRepo(m.repo)
     \/ scPc = "notify" /\ m.token \in scTo

Unsubscribed(m) == sub[m.repo][m.token] = "deleted"

-----------------------------------------------------------------------------
(* Safety. *)

\* One release is mailed to one subscriber at most once, although it may be detected
\* any number of times (a release deleted on GitHub, a stale cache entry after a
\* Redis outage) and published again, unless the notifier's dedup itself failed for
\* this message (consumer.go handle; the deterministic id of SendReleaseNotification).
DuplicatesNeedDedupLoss == \A m \in Message : mails[m] > 1 => m \in unguarded

\* Without faults and shutdowns a release recorded in last_seen_tag reaches everybody
\* who was subscribed then: its command is still scheduled or queued, the mail arrived
\* or the command is dead-lettered, the subscriber left, or the notifier had never been
\* started (recordAndNotify, handle).
OwedIsOnItsWay ==
  faults = 0 /\ stops = 0 =>
    \A m \in owed :
      \/ mails[m] > 0 \/ m \in dlq
      \/ Queued(m) \/ Scheduled(m)
      \/ Unsubscribed(m) \/ m \in dropped

\* last_seen_tag goes back to an older release only if that release was deleted on
\* GitHub or Redis failed: the cache alone never makes an old tag look new
\* (GetLatestRelease in cached_client.go, detectNewRelease).
OldTagNeedsACause ==
  [][\A r \in Repos : lastSeen'[r] < lastSeen[r] => retracts > 0 \/ faults > 0]_vars

-----------------------------------------------------------------------------
(* Liveness, under FairSpec. *)

\* The scanner catches up: when a repository keeps a subscriber, last_seen_tag ends up
\* at the latest release, in spite of the cache, failed calls and crashes.
ScannerCatchesUp ==
  \A r \in Repos :
    <>[](SubscribersForRepo(r) # {})
      => <>[](lastSeen[r] = ghLatest[r] \/ ghLatest[r] = 0)

-----------------------------------------------------------------------------
(* What the documents say of the code, and what it does not do. *)

\* README.md, Graceful shutdown: "This prevents data corruption and lost requests during
\* Docker stop or deployment"; system-design/README.md: "At-least-once email delivery" is
\* implemented.  Once the scanner and the queue are idle, every recorded release was
\* mailed or dead-lettered for everybody who was subscribed and still is.
AtLeastOnce ==
  scPc = "idle" /\ cmdQ = <<>> =>
    \A m \in owed : mails[m] > 0 \/ m \in dlq \/ Unsubscribed(m)

\* broker_publisher.go, NewBrokerPublisher: "Declare here too (idempotent) so neither side
\* depends on start order": no command is lost because the notifier starts later.
StartOrderIsFree == dropped = {}

=============================================================================
