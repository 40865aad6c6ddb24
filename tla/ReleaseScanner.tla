--------------------------- MODULE ReleaseScanner ---------------------------
(***************************************************************************)
(* internal/releasetracking: the scanner goroutine and the last_seen_tag   *)
(* of the repositories table.  A cycle goes over the repositories that had *)
(* a confirmed subscription when it began:                                 *)
(*                                                                         *)
(*   idle    between two cycles                                            *)
(*   check   detectNewRelease for the next repository                      *)
(*   record  RecordRelease                                                 *)
(*   list    SubscribersForRepo                                            *)
(*   notify  SendReleaseNotification, one publish per subscriber           *)
(*                                                                         *)
(* A subscription is known here by its repository and token, the part of   *)
(* it that the scanner reads and that goes into the message id             *)
(* release:<repo>:<tag>:<token>.  A message is that id.                    *)
(*                                                                         *)
(* The scanner runs in the monolith: main.go dials the publisher once,     *)
(* starts the scanner, and on SIGTERM cancels the context, lets run()      *)
(* return without waiting for the scanner, closes the publisher and then   *)
(* the database, and exits.  Nothing the scanner does once the database is *)
(* closed has an effect, so closing it and the exit are one step.          *)
(***************************************************************************)
EXTENDS GithubGateway

CONSTANTS Tokens,       \* tokens of the subscriptions of a repository
          FreshBroker,  \* the notifier has never run against this broker
          MaxStops      \* bound: graceful shutdowns in a behaviour

ASSUME ScannerAssumption == FreshBroker \in BOOLEAN /\ MaxStops \in Nat

VARIABLES sub,          \* subscriptions.confirmed per repository and token
          lastSeen,     \* repositories.last_seen_tag
          scPc,         \* where the scanner is
          scRepos,      \* repositories this cycle has still to check
          scNew,        \* the release at hand: repository and tag
          scTo,         \* subscribers it has still to be published for
          owed,         \* history: a release was recorded while they were subscribed
          stopping,     \* SIGTERM was received: the context is cancelled
          stops,        \* how often
          pubUp,        \* the publisher's connection is open
          bound,        \* the notifier's work queue exists and is bound to the exchange
          dropped       \* history: commands the exchange had no queue for

processVars == <<stopping, stops, pubUp, bound, dropped>>

scanVars == <<sub, lastSeen, scPc, scRepos, scNew, scTo, owed>>

scannerVars == <<scanVars, processVars>>

Message == [repo : Repos, tag : Tags \ {0}, token : Tokens]

NoRelease == [tag |-> 0]

ScannerInit ==
  /\ sub = [r \in Repos |-> [t \in Tokens |-> "unconfirmed"]]
  /\ lastSeen = [r \in Repos |-> 0]
  /\ scPc = "idle"
  /\ scRepos = {}
  /\ scNew = NoRelease
  /\ scTo = {}
  /\ owed = {}
  /\ stopping = FALSE
  /\ stops = 0
  /\ pubUp = TRUE
  /\ bound = ~FreshBroker
  /\ dropped = {}

ScannerTypeOK ==
  /\ sub \in [Repos -> [Tokens -> {"unconfirmed", "confirmed", "deleted"}]]
  /\ lastSeen \in [Repos -> Tags]
  /\ scPc \in {"idle", "check", "record", "list", "notify"}
  /\ scRepos \subseteq Repos
  /\ scNew \in [repo : Repos, tag : Tags \ {0}] \cup {NoRelease}
  /\ scTo \subseteq Tokens
  /\ owed \subseteq Message
  /\ stopping \in BOOLEAN
  /\ stops \in 0..MaxStops
  /\ pubUp \in BOOLEAN
  /\ bound \in BOOLEAN
  /\ dropped \subseteq Message

-----------------------------------------------------------------------------
\* GetSubscribersByRepo and GetActiveRepos: confirmed = true, whatever the status.
SubscribersForRepo(r) == {t \in Tokens : sub[r][t] = "confirmed"}

ActiveRepos == {r \in Repos : SubscribersForRepo(r) # {}}

\* The effect of a Confirm on what the scanner reads.
Confirm(r, t) ==
  /\ sub[r][t] = "unconfirmed"
  /\ sub' = [sub EXCEPT ![r][t] = "confirmed"]
  /\ UNCHANGED <<lastSeen, scPc, scRepos, scNew, scTo, owed, processVars, brokerVars, githubVars>>

\* The effect of an Unsubscribe; a reactivated row has a new token, too.
Unsubscribe(r, t) ==
  /\ sub[r][t] = "confirmed"
  /\ sub' = [sub EXCEPT ![r][t] = "deleted"]
  /\ UNCHANGED <<lastSeen, scPc, scRepos, scNew, scTo, owed, processVars, brokerVars, githubVars>>

-----------------------------------------------------------------------------
\* checkRepo is done with a repository: the loop of scan goes on, or the cycle ends.
CheckNext(rest) ==
  /\ scPc' = IF rest = {} THEN "idle" ELSE "check"
  /\ scNew' = NoRelease
  /\ scTo' = {}

\* A cycle begins: ActiveRepos is read once.
ScanStart ==
  /\ scPc = "idle"
  /\ ActiveRepos # {}
  /\ scRepos' = ActiveRepos
  /\ scPc' = "check"
  /\ UNCHANGED <<sub, lastSeen, scNew, scTo, owed, processVars, brokerVars, githubVars>>

\* Mutant of DetectNewRelease: a repository without releases is not told apart.
DetectNewReleaseEmptyTag(r) ==
  /\ scPc = "check"
  /\ r \in scRepos
  /\ scRepos' = scRepos \ {r}
  /\ \E tag \in Tags :
       /\ GetLatestRelease(r, tag)
       /\ IF lastSeen[r] # tag
          THEN scPc' = "record" /\ scNew' = [repo |-> r, tag |-> tag] /\ UNCHANGED scTo
          ELSE CheckNext(scRepos \ {r})
  /\ UNCHANGED <<sub, lastSeen, owed, processVars, cmdQ, replyQ>>

\* detectNewRelease: any tag that is not the stored one is a new release.
DetectNewRelease(r) ==
  /\ scPc = "check"
  /\ r \in scRepos
  /\ scRepos' = scRepos \ {r}
  /\ \/ \E tag \in Tags :
          /\ GetLatestRelease(r, tag)
          /\ stopping => cache[r] # 0 /\ tag = cache[r] /\ NoFault
          /\ IF tag # 0 /\ lastSeen[r] # tag
             THEN scPc' = "record" /\ scNew' = [repo |-> r, tag |-> tag] /\ UNCHANGED scTo
             ELSE CheckNext(scRepos \ {r})
     \/ GetLatestReleaseErr /\ CheckNext(scRepos \ {r})
     \/ /\ stopping                     \* a cache miss, and the request is cancelled
        /\ cache[r] = 0
        /\ NoFault
        /\ UNCHANGED githubVars
        /\ CheckNext(scRepos \ {r})
     \/ /\ Fault                        \* GetRepoTracking fails after a cache miss
        /\ ~stopping
        /\ cache[r] = 0
        /\ CacheSet(r)
        /\ UNCHANGED <<ghLatest, retracts>>
        /\ CheckNext(scRepos \ {r})
  /\ UNCHANGED <<sub, lastSeen, owed, processVars, cmdQ, replyQ>>

\* RecordRelease: when it fails nobody is notified and the next cycle tries again.
RecordRelease ==
  /\ scPc = "record"
  /\ \/ /\ lastSeen' = [lastSeen EXCEPT ![scNew.repo] = scNew.tag]
        /\ owed' = owed \cup
             {[repo |-> scNew.repo, tag |-> scNew.tag, token |-> t] :
                t \in SubscribersForRepo(scNew.repo)}
        /\ scPc' = "list"
        /\ UNCHANGED <<scNew, scTo>>
        /\ NoFault
     \/ CheckNext(scRepos) /\ UNCHANGED <<lastSeen, owed>> /\ Fault
  /\ UNCHANGED <<sub, scRepos, processVars, cmdQ, replyQ, githubVars>>

\* SubscribersForRepo: when it fails the recorded release is not notified at all.
ListSubscribers ==
  /\ scPc = "list"
  /\ \/ /\ SubscribersForRepo(scNew.repo) # {}
        /\ scTo' = SubscribersForRepo(scNew.repo)
        /\ scPc' = "notify"
        /\ UNCHANGED scNew
        /\ NoFault
     \/ SubscribersForRepo(scNew.repo) = {} /\ CheckNext(scRepos) /\ NoFault
     \/ CheckNext(scRepos) /\ Fault
  /\ UNCHANGED <<sub, lastSeen, scRepos, owed, processVars, cmdQ, replyQ, githubVars>>

\* publish: without a connection it is an error, without a queue the message is gone
\* and no error is reported (mandatory is false).
PublishRelease(m) ==
  \/ pubUp /\ bound /\ (PublishCmdOk(m) \/ PublishCmdErr(m)) /\ UNCHANGED dropped
  \/ pubUp /\ ~bound /\ dropped' = dropped \cup {m} /\ UNCHANGED <<cmdQ, faults>>
  \/ ~pubUp /\ UNCHANGED <<cmdQ, faults, dropped>>

\* Mutant of NotifySubscriber: the loop ends after the first subscriber.
NotifySubscriberFirstOnly(t) ==
  /\ scPc = "notify"
  /\ t \in scTo
  /\ PublishRelease([repo |-> scNew.repo, tag |-> scNew.tag, token |-> t])
  /\ CheckNext(scRepos)
  /\ UNCHANGED <<sub, lastSeen, scRepos, owed, stopping, stops, pubUp, bound, replyQ, githubVars>>

\* SendReleaseNotification for one subscriber; an error is logged and the loop goes on.
NotifySubscriber(t) ==
  /\ scPc = "notify"
  /\ t \in scTo
  /\ PublishRelease([repo |-> scNew.repo, tag |-> scNew.tag, token |-> t])
  /\ IF scTo = {t}
     THEN CheckNext(scRepos)
     ELSE scTo' = scTo \ {t} /\ UNCHANGED <<scPc, scNew>>
  /\ UNCHANGED <<sub, lastSeen, scRepos, owed, stopping, stops, pubUp, bound, replyQ, githubVars>>

-----------------------------------------------------------------------------
(* The life of the monolith, and the notifier's first start. *)

\* The process ends and starts again, with a scan and a new publisher.
MonolithRestart ==
  /\ scRepos' = {}
  /\ CheckNext({})
  /\ stopping' = FALSE
  /\ pubUp' = TRUE
  /\ UNCHANGED <<sub, lastSeen, owed, stops, bound, dropped, cmdQ, replyQ, githubVars>>

ScannerCrash == scPc # "idle" /\ Fault /\ MonolithRestart

\* RabbitMQ closes the publisher's connection; nothing opens it again.
PublisherLost ==
  /\ pubUp
  /\ Fault
  /\ pubUp' = FALSE
  /\ UNCHANGED <<scanVars, stopping, stops, bound, dropped, cmdQ, replyQ, githubVars>>

\* SIGTERM: run() cancels the context, which the scanner looks at between two cycles.
Sigterm ==
  /\ ~stopping
  /\ stops < MaxStops
  /\ stopping' = TRUE
  /\ stops' = stops + 1
  /\ UNCHANGED <<scanVars, pubUp, bound, dropped, brokerVars, githubVars>>

\* run() returns: the publisher is closed first ...
PublisherCloses ==
  /\ stopping
  /\ pubUp
  /\ pubUp' = FALSE
  /\ UNCHANGED <<scanVars, stopping, stops, bound, dropped, brokerVars, githubVars>>

\* ... then Redis and the database, and the process exits.
MonolithExits == stopping /\ ~pubUp /\ NoFault /\ MonolithRestart

\* declareTopology when the notifier starts for the first time: the queue is durable.
NotifierDeclares ==
  /\ ~bound
  /\ bound' = TRUE
  /\ UNCHANGED <<scanVars, stopping, stops, pubUp, dropped, brokerVars, githubVars>>

ScannerNext ==
  \/ ScanStart
  \/ \E r \in Repos : DetectNewRelease(r)
  \/ RecordRelease
  \/ ListSubscribers
  \/ \E t \in Tokens : NotifySubscriber(t)

=============================================================================
