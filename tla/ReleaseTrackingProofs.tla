------------------------ MODULE ReleaseTrackingProofs ------------------------
(***************************************************************************)
(* Proofs about ReleaseTracking, for every set of repositories and         *)
(* subscribers and any number of releases, faults and shutdowns.           *)
(***************************************************************************)
EXTENDS ReleaseTracking, QueueLemmas

-----------------------------------------------------------------------------
(***************************************************************************)
(* The inductive invariants.  Control is what the two goroutines know      *)
(* between two steps.                                                      *)
(***************************************************************************)

\* A release as the scanner holds it.
Release == [repo : Repos, tag : Tags \ {0}]

\* The scanner holds a release exactly while it records and notifies, the consumer
\* has a command while it handles one.
Control ==
  /\ TypeOK
  /\ scPc \in {"record", "list", "notify"} => scNew \in Release
  /\ scPc \in {"idle", "check"} => scNew = NoRelease /\ scTo = {}
  /\ relPc # "check" => cmdQ # <<>>

\* Every mail that arrived is remembered in Redis, is about to be, or its dedup was
\* lost; what is about to be sent was not sent before, or its dedup was lost.
Dedup ==
  /\ \A m \in Message :
       mails[m] > 0 => m \in seen \/ m \in unguarded \/ (relPc = "mark" /\ m = Head(cmdQ))
  /\ relPc = "send" => mails[Head(cmdQ)] = 0 \/ Head(cmdQ) \in unguarded
  /\ DuplicatesNeedDedupLoss

\* While nothing failed and nothing was deleted on GitHub: last_seen_tag is not ahead
\* of the cache, the release at hand is between the two, GitHub is ahead of all.
TagOrder ==
  retracts = 0 /\ faults = 0 =>
    /\ \A r \in Repos :
         /\ lastSeen[r] <= ghLatest[r]
         /\ cache[r] <= ghLatest[r]
         /\ cache[r] # 0 => lastSeen[r] <= cache[r]
    /\ scPc = "record" =>
         /\ lastSeen[scNew.repo] <= scNew.tag
         /\ scNew.tag <= ghLatest[scNew.repo]
         /\ cache[scNew.repo] # 0 => scNew.tag <= cache[scNew.repo]

\* While nothing failed and nobody stopped the monolith: the publisher is connected,
\* and a command that is remembered or about to be acked was mailed.
Delivery ==
  faults = 0 /\ stops = 0 =>
    /\ pubUp /\ ~stopping
    /\ \A m \in seen : mails[m] > 0
    /\ relPc \in {"mark", "ack"} => mails[Head(cmdQ)] > 0
    /\ OwedIsOnItsWay

-----------------------------------------------------------------------------
(* Types and control. *)

\* A fault is counted within its bound, and otherwise the count stays.
LEMMA FaultFacts ==
  ASSUME faults \in 0..MaxFaults, Fault \/ NoFault
  PROVE  faults' \in 0..MaxFaults /\ (faults' = 0 => faults = 0 /\ ~Fault /\ NoFault)
  BY BrokerAssumption DEF Fault, NoFault

\* The scanner publishes the id of the release it holds, for one subscriber.
LEMMA NotifyFacts ==
  ASSUME Control, NEW t \in Tokens, NotifySubscriber(t)
  PROVE  LET m == [repo |-> scNew.repo, tag |-> scNew.tag, token |-> t] IN
         /\ scNew \in Release /\ m \in Message
         /\ cmdQ' \in {cmdQ, Append(cmdQ, m)} /\ cmdQ' \in Seq(Message)
         /\ cmdQ # <<>> => cmdQ' # <<>> /\ Head(cmdQ') = Head(cmdQ)
         /\ dropped' \in {dropped, dropped \cup {m}}
         /\ Fault \/ NoFault
         /\ faults' = 0 /\ pubUp => cmdQ' = Append(cmdQ, m) \/ m \in dropped'
  <1> DEFINE m == [repo |-> scNew.repo, tag |-> scNew.tag, token |-> t]
  <1>1. scNew \in Release /\ m \in Message
    BY DEF Control, NotifySubscriber, Release, Message
  <1>2. PublishRelease(m)
    BY DEF NotifySubscriber
  <1>f. faults \in Nat
    BY BrokerAssumption DEF Control, TypeOK
  <1> HIDE DEF m
  <1>3. /\ cmdQ' \in {cmdQ, Append(cmdQ, m)}
        /\ dropped' \in {dropped, dropped \cup {m}}
        /\ Fault \/ NoFault
        /\ faults' = 0 /\ pubUp => cmdQ' = Append(cmdQ, m) \/ m \in dropped'
    BY <1>2, <1>f DEF PublishRelease, PublishCmdOk, PublishCmdErr, Fault, NoFault
  <1>4. cmdQ' \in Seq(Message) /\ (cmdQ # <<>> => cmdQ' # <<>> /\ Head(cmdQ') = Head(cmdQ))
    BY <1>1, <1>3, AppendFacts DEF Control, TypeOK
  <1> QED
    BY <1>1, <1>3, <1>4 DEF m

\* No release is held when the scanner is done with a repository.
LEMMA CheckNextFacts ==
  ASSUME NEW rest, CheckNext(rest)
  PROVE  scPc' \in {"idle", "check"} /\ scNew' = NoRelease /\ scTo' = {}
  BY DEF CheckNext

\* What GetLatestRelease answers is a tag, and the cache keeps tags.
LEMMA DetectFacts ==
  ASSUME Control, NEW r \in Repos, DetectNewRelease(r)
  PROVE  /\ Fault \/ NoFault
         /\ cache' \in {cache, [cache EXCEPT ![r] = ghLatest[r]]}
         /\ UNCHANGED <<ghLatest, retracts, sub, lastSeen, owed, processVars, cmdQ, replyQ>>
         /\ scPc = "check" /\ scRepos' \subseteq scRepos
         /\ \/ scPc' \in {"idle", "check"} /\ scNew' = NoRelease /\ scTo' = {}
            \/ /\ scPc' = "record" /\ scNew' \in Release /\ scTo' = scTo
               /\ scNew'.repo = r
               /\ scNew'.tag # lastSeen[r]
               /\ scNew'.tag = ghLatest[r] \/ (cache[r] # 0 /\ scNew'.tag = cache[r])
         /\ NoFault =>
              \/ cache' = cache /\ cache[r] # 0 /\ (scPc' = "record" => scNew'.tag = cache[r])
              \/ cache[r] = 0 /\ (scPc' = "record" => scNew'.tag = ghLatest[r])
                 /\ cache' \in {cache, [cache EXCEPT ![r] = ghLatest[r]]}
  <1>t. ghLatest[r] \in Tags /\ cache[r] \in Tags /\ faults \in Nat
    BY BrokerAssumption DEF Control, TypeOK, GithubTypeOK
  <1>0. /\ UNCHANGED <<sub, lastSeen, owed, processVars, cmdQ, replyQ>>
        /\ scPc = "check" /\ scRepos' \subseteq scRepos
    BY DEF DetectNewRelease
  <1>1. ASSUME NEW tag \in Tags, GetLatestRelease(r, tag),
               IF tag # 0 /\ lastSeen[r] # tag
               THEN scPc' = "record" /\ scNew' = [repo |-> r, tag |-> tag] /\ UNCHANGED scTo
               ELSE CheckNext(scRepos \ {r})
        PROVE  /\ Fault \/ NoFault
               /\ cache' \in {cache, [cache EXCEPT ![r] = ghLatest[r]]}
               /\ UNCHANGED <<ghLatest, retracts>>
               /\ \/ scPc' \in {"idle", "check"} /\ scNew' = NoRelease /\ scTo' = {}
                  \/ /\ scPc' = "record" /\ scNew' \in Release /\ scTo' = scTo
                     /\ scNew'.repo = r
                     /\ scNew'.tag # lastSeen[r]
                     /\ scNew'.tag = ghLatest[r] \/ (cache[r] # 0 /\ scNew'.tag = cache[r])
               /\ NoFault =>
                    \/ cache' = cache /\ cache[r] # 0 /\ (scPc' = "record" => scNew'.tag = cache[r])
                    \/ cache[r] = 0 /\ (scPc' = "record" => scNew'.tag = ghLatest[r])
                       /\ cache' \in {cache, [cache EXCEPT ![r] = ghLatest[r]]}
    <2>1. /\ Fault \/ NoFault
          /\ cache' \in {cache, [cache EXCEPT ![r] = ghLatest[r]]}
          /\ UNCHANGED <<ghLatest, retracts>>
          /\ tag = ghLatest[r] \/ (cache[r] # 0 /\ tag = cache[r])
          /\ NoFault => \/ cache' = cache /\ cache[r] # 0 /\ tag = cache[r]
                        \/ /\ cache[r] = 0 /\ tag = ghLatest[r]
                           /\ cache' \in {cache, [cache EXCEPT ![r] = ghLatest[r]]}
      BY <1>1, <1>t DEF GetLatestRelease, CacheSet, Fault, NoFault
    <2>2. \/ scPc' \in {"idle", "check"} /\ scNew' = NoRelease /\ scTo' = {}
          \/ /\ scPc' = "record" /\ scNew' = [repo |-> r, tag |-> tag] /\ scTo' = scTo
             /\ scNew' \in Release /\ tag # lastSeen[r]
      BY <1>1, CheckNextFacts DEF Release
    <2> QED
      BY <2>1, <2>2
  <1>2. ASSUME CheckNext(scRepos \ {r}), GetLatestReleaseErr \/ (Fault /\ CacheSet(r) /\ UNCHANGED <<ghLatest, retracts>>)
        PROVE  /\ Fault /\ ~NoFault
               /\ cache' \in {cache, [cache EXCEPT ![r] = ghLatest[r]]}
               /\ UNCHANGED <<ghLatest, retracts>>
               /\ scPc' \in {"idle", "check"} /\ scNew' = NoRelease /\ scTo' = {}
    BY <1>2, <1>t, CheckNextFacts DEF GetLatestReleaseErr, CacheSet, Fault, NoFault, githubVars
  <1>3. ASSUME cache[r] = 0, NoFault, UNCHANGED githubVars, CheckNext(scRepos \ {r})
        PROVE  /\ cache' = cache /\ UNCHANGED <<ghLatest, retracts>>
               /\ scPc' \in {"idle", "check"} /\ scNew' = NoRelease /\ scTo' = {}
    BY <1>3, CheckNextFacts DEF githubVars
  <1>4. \/ \E tag \in Tags :
             /\ GetLatestRelease(r, tag)
             /\ IF tag # 0 /\ lastSeen[r] # tag
                THEN scPc' = "record" /\ scNew' = [repo |-> r, tag |-> tag] /\ UNCHANGED scTo
                ELSE CheckNext(scRepos \ {r})
        \/ /\ CheckNext(scRepos \ {r})
           /\ GetLatestReleaseErr \/ (Fault /\ CacheSet(r) /\ UNCHANGED <<ghLatest, retracts>>)
        \/ cache[r] = 0 /\ NoFault /\ UNCHANGED githubVars /\ CheckNext(scRepos \ {r})
    BY DEF DetectNewRelease
  <1>5. CASE \E tag \in Tags :
             /\ GetLatestRelease(r, tag)
             /\ IF tag # 0 /\ lastSeen[r] # tag
                THEN scPc' = "record" /\ scNew' = [repo |-> r, tag |-> tag] /\ UNCHANGED scTo
                ELSE CheckNext(scRepos \ {r})
    BY <1>0, <1>1, <1>5
  <1>6. CASE /\ CheckNext(scRepos \ {r})
             /\ GetLatestReleaseErr \/ (Fault /\ CacheSet(r) /\ UNCHANGED <<ghLatest, retracts>>)
    BY <1>0, <1>2, <1>6
  <1>7. CASE cache[r] = 0 /\ NoFault /\ UNCHANGED githubVars /\ CheckNext(scRepos \ {r})
    BY <1>0, <1>3, <1>7
  <1> QED
    BY <1>4, <1>5, <1>6, <1>7

\* Nothing is in flight at the start.
LEMMA InitControl == Init => Control
  <1> SUFFICES ASSUME Init PROVE Control
    OBVIOUS
  <1>1. GithubTypeOK
    BY GithubAssumption DEF Init, GithubInit, GithubTypeOK, Tags
  <1>b. bound \in BOOLEAN /\ stopping \in BOOLEAN /\ pubUp \in BOOLEAN
    BY Zenon DEF Init, ScannerInit
  <1>l. lastSeen \in [Repos -> Tags] /\ stops \in 0..MaxStops
    BY ScannerAssumption, GithubAssumption DEF Init, ScannerInit, Tags
  <1>2. ScannerTypeOK
    BY <1>b, <1>l DEF Init, ScannerInit, ScannerTypeOK, NoRelease
  <1>3. ConsumerTypeOK
    BY DEF Init, ConsumerInit, ConsumerTypeOK, MaxMails
  <1> QED
    BY <1>1, <1>2, <1>3, BrokerAssumption
    DEF Init, BrokerInit, ScannerInit, ConsumerInit, Control, TypeOK

\* The steps of a scan.
LEMMA ScannerKeepsControl ==
  ASSUME Control, Scanner
  PROVE  Control'
  <1> USE GithubAssumption, BrokerAssumption DEF Control, TypeOK, GithubTypeOK, ScannerTypeOK
  <1>0. UNCHANGED consumerVars
    BY DEF Scanner
  <1>c. ConsumerTypeOK'
    BY <1>0 DEF ConsumerTypeOK, consumerVars
  <1> DEFINE Part == /\ GithubTypeOK /\ ScannerTypeOK
                     /\ cmdQ \in Seq(Message) /\ replyQ = <<>> /\ faults \in 0..MaxFaults
                     /\ scPc \in {"record", "list", "notify"} => scNew \in Release
                     /\ scPc \in {"idle", "check"} => scNew = NoRelease /\ scTo = {}
                     /\ relPc # "check" => cmdQ # <<>>
  <1>n. scNew \in Release => scNew.repo \in Repos /\ scNew.tag \in Tags \ {0}
    BY DEF Release
  <1>1. ASSUME ScanStart PROVE Part'
    BY <1>0, <1>1 DEF ScanStart, ActiveRepos, processVars, brokerVars, githubVars, consumerVars
  <1>2. ASSUME NEW r \in Repos, DetectNewRelease(r) PROVE Part'
    <2>1. faults' \in 0..MaxFaults
      BY <1>2, DetectFacts, FaultFacts
    <2>2. cache' \in [Repos -> Tags]
      BY <1>2, DetectFacts
    <2> QED
      BY <1>0, <1>2, <2>1, <2>2, DetectFacts DEF Release, processVars, consumerVars
  <1>3. ASSUME RecordRelease PROVE Part'
    <2>1. faults' \in 0..MaxFaults
      BY <1>3, FaultFacts DEF RecordRelease
    <2>2. scNew \in Release
      BY <1>3 DEF RecordRelease
    <2>3. lastSeen' \in [Repos -> Tags] /\ owed' \subseteq Message
      BY <1>3, <1>n, <2>2 DEF RecordRelease, SubscribersForRepo, Message
    <2>4. \/ scPc' \in {"idle", "check"} /\ scNew' = NoRelease /\ scTo' = {}
          \/ scPc' = "list" /\ UNCHANGED <<scNew, scTo>>
      BY <1>3, CheckNextFacts DEF RecordRelease
    <2> QED
      BY <1>0, <1>3, <2>1, <2>2, <2>3, <2>4 DEF RecordRelease, processVars, githubVars, consumerVars
  <1>4. ASSUME ListSubscribers PROVE Part'
    <2>1. faults' \in 0..MaxFaults
      BY <1>4, FaultFacts DEF ListSubscribers
    <2>2. scNew \in Release
      BY <1>4 DEF ListSubscribers
    <2>3. \/ scPc' \in {"idle", "check"} /\ scNew' = NoRelease /\ scTo' = {}
          \/ scPc' = "notify" /\ scNew' = scNew /\ scTo' \subseteq Tokens
      BY <1>4, CheckNextFacts DEF ListSubscribers, SubscribersForRepo
    <2> QED
      BY <1>0, <1>4, <2>1, <2>2, <2>3 DEF ListSubscribers, processVars, githubVars, consumerVars
  <1>5. ASSUME NEW t \in Tokens, NotifySubscriber(t) PROVE Part'
    <2>1. faults' \in 0..MaxFaults
      BY <1>5, NotifyFacts, FaultFacts
    <2>2. dropped' \subseteq Message /\ cmdQ' \in Seq(Message) /\ (cmdQ # <<>> => cmdQ' # <<>>)
      BY <1>5, NotifyFacts
    <2>3. /\ scPc = "notify"
          /\ \/ scPc' \in {"idle", "check"} /\ scNew' = NoRelease /\ scTo' = {}
             \/ scPc' = "notify" /\ scNew' = scNew /\ scTo' \subseteq Tokens
      BY <1>5, CheckNextFacts DEF NotifySubscriber
    <2> QED
      BY <1>0, <1>5, <2>1, <2>2, <2>3 DEF NotifySubscriber, githubVars, consumerVars
  <1> QED
    BY <1>c, <1>1, <1>2, <1>3, <1>4, <1>5 DEF Scanner, ScannerNext

\* The life of the monolith, GitHub, the cache's clock and the subscribers.
LEMMA OthersKeepControl ==
  ASSUME Control,
         \/ ScannerFault \/ Stop \/ Shutdown \/ NotifierStarts
         \/ \E r \in Repos : Github(r) \/ CacheClock(r) \/ \E t \in Tokens : Subscriber(r, t)
  PROVE  Control' /\ UNCHANGED <<consumerVars, cmdQ, owed, dropped>>
  <1> USE GithubAssumption, BrokerAssumption, ScannerAssumption
      DEF Control, TypeOK, GithubTypeOK, ScannerTypeOK
  <1> DEFINE Goal == Control' /\ UNCHANGED <<consumerVars, cmdQ, owed, dropped>>
  <1>f. Fault \/ NoFault => faults' \in 0..MaxFaults
    BY FaultFacts
  <1>c. UNCHANGED consumerVars => ConsumerTypeOK'
    BY DEF ConsumerTypeOK, consumerVars
  <1>1. ASSUME MonolithRestart, Fault \/ NoFault, UNCHANGED consumerVars PROVE Goal
    <2>1. scPc' \in {"idle", "check"} /\ scNew' = NoRelease /\ scTo' = {}
      BY <1>1, CheckNextFacts DEF MonolithRestart
    <2> QED
      BY <1>f, <1>c, <1>1, <2>1 DEF MonolithRestart, githubVars, consumerVars
  <1>2. CASE ScannerFault
    <2>1. CASE PublisherLost
      BY <1>f, <1>c, <1>2, <2>1 DEF ScannerFault, PublisherLost, scanVars, githubVars, consumerVars
    <2> QED
      BY <1>1, <1>2, <2>1 DEF ScannerFault, ScannerCrash
  <1>3. CASE Stop
    BY <1>c, <1>3 DEF Stop, Sigterm, scanVars, brokerVars, githubVars, consumerVars
  <1>4. CASE Shutdown
    <2>1. CASE PublisherCloses
      BY <1>c, <1>4, <2>1 DEF Shutdown, PublisherCloses, scanVars, brokerVars, githubVars, consumerVars
    <2> QED
      BY <1>1, <1>4, <2>1 DEF Shutdown, MonolithExits
  <1>5. CASE NotifierStarts
    BY <1>c, <1>5 DEF NotifierStarts, NotifierDeclares, scanVars, brokerVars, githubVars, consumerVars
  <1>6. ASSUME NEW r \in Repos, Github(r) PROVE Goal
    <2>0. ghLatest[r] \in Nat /\ ghLatest[r] <= MaxTag
      BY DEF Tags
    <2>1. retracts' \in 0..MaxRetracts /\ cache' = cache
      BY <1>6 DEF Github, Publish, Retract
    <2>2. ASSUME Publish(r) PROVE ghLatest' \in [Repos -> Tags]
      BY <2>0, <2>2 DEF Publish, Tags
    <2>3. ASSUME Retract(r) PROVE ghLatest' \in [Repos -> Tags]
      BY <2>0, <2>3 DEF Retract, Tags
    <2>4. ghLatest' \in [Repos -> Tags]
      BY <1>6, <2>2, <2>3 DEF Github
    <2> QED
      BY <1>c, <1>6, <2>1, <2>4 DEF Github, brokerVars, scannerVars, scanVars, processVars, consumerVars
  <1>7. ASSUME NEW r \in Repos, CacheClock(r) PROVE Goal
    BY <1>c, <1>7 DEF CacheClock, CacheExpire, Tags, brokerVars, scannerVars, scanVars, processVars, consumerVars
  <1>8. ASSUME NEW r \in Repos, NEW t \in Tokens, Subscriber(r, t) PROVE Goal
    <2>0. sub[r] \in [Tokens -> {"unconfirmed", "confirmed", "deleted"}]
      BY DEF ScannerTypeOK
    <2>r. ASSUME NEW v \in {"unconfirmed", "confirmed", "deleted"}, sub' = [sub EXCEPT ![r][t] = v]
          PROVE  sub' \in [Repos -> [Tokens -> {"unconfirmed", "confirmed", "deleted"}]]
      <3> DEFINE row == [sub[r] EXCEPT ![t] = v]
      <3>1. row \in [Tokens -> {"unconfirmed", "confirmed", "deleted"}]
        BY <2>0
      <3>2. sub' = [sub EXCEPT ![r] = row]
        BY <2>r
      <3> HIDE DEF row
      <3> QED
        BY <3>1, <3>2
    <2>1. sub' \in [Repos -> [Tokens -> {"unconfirmed", "confirmed", "deleted"}]]
      BY <1>8, <2>r DEF Subscriber, Confirm, Unsubscribe
    <2> QED
      BY <1>c, <1>8, <2>1 DEF Subscriber, Confirm, Unsubscribe, brokerVars, githubVars, processVars, consumerVars
  <1> QED
    BY <1>2, <1>3, <1>4, <1>5, <1>6, <1>7, <1>8

\* The notifier handles the head of its queue.
LEMMA ConsumerKeepsControl ==
  ASSUME Control, ConsumerNext \/ ConsumerFault
  PROVE  Control' /\ UNCHANGED <<scannerVars, githubVars>>
  <1> USE GithubAssumption, BrokerAssumption, ScannerAssumption DEF Control, TypeOK, ConsumerTypeOK
  <1>s. UNCHANGED <<scannerVars, githubVars>>
    BY DEF ConsumerNext, ConsumerFault, ReleaseCheck, ReleaseSendOk, ReleaseSendErr, ReleaseMark,
           ReleaseAck, ConsumerRestart, SeenExpire
  <1>q. /\ GithubTypeOK' /\ ScannerTypeOK'
        /\ scPc' \in {"record", "list", "notify"} => scNew' \in Release
        /\ scPc' \in {"idle", "check"} => scNew' = NoRelease /\ scTo' = {}
    BY <1>s DEF GithubTypeOK, ScannerTypeOK, scannerVars, scanVars, processVars, githubVars
  <1>f. Fault \/ NoFault => faults' \in 0..MaxFaults
    BY FaultFacts
  <1>h. cmdQ # <<>> => Head(cmdQ) \in Message /\ Tail(cmdQ) \in Seq(Message)
    BY TailFacts
  <1>m. ASSUME NEW m \in Message, MailArrives(m) PROVE mails' \in [Message -> 0..MaxMails]
    BY <1>m DEF MailArrives, MaxMails
  <1> DEFINE Part == /\ ConsumerTypeOK
                     /\ cmdQ \in Seq(Message) /\ replyQ = <<>> /\ faults \in 0..MaxFaults
                     /\ relPc # "check" => cmdQ # <<>>
  <1>1. ASSUME ReleaseCheck PROVE Part'
    BY <1>1, <1>f, <1>h DEF ReleaseCheck, HandlingRelease, RelGoto
  <1>2. ASSUME ReleaseSendOk PROVE Part'
    BY <1>2, <1>h, <1>m DEF ReleaseSendOk, HandlingRelease, RelGoto, brokerVars
  <1>3. ASSUME ReleaseSendErr PROVE Part'
    <2>1. mails' \in [Message -> 0..MaxMails] /\ unguarded' \subseteq Message /\ (Fault \/ NoFault)
      BY <1>3, <1>h, <1>m DEF ReleaseSendErr, HandlingRelease
    <2> QED
      BY <1>3, <1>f, <1>h, <2>1 DEF ReleaseSendErr, HandlingRelease, RelGoto, SettleCmd
  <1>4. ASSUME ReleaseMark PROVE Part'
    BY <1>4, <1>f, <1>h DEF ReleaseMark, HandlingRelease, RelGoto
  <1>5. ASSUME ReleaseAck PROVE Part'
    BY <1>5, <1>h DEF ReleaseAck, HandlingRelease, RelGoto, SettleCmd
  <1>6. ASSUME ConsumerRestart PROVE Part'
    BY <1>6, <1>f, <1>h DEF ConsumerRestart, HandlingRelease, RelGoto
  <1>7. ASSUME NEW m \in Message, SeenExpire(m) PROVE Part'
    BY <1>7, <1>f DEF SeenExpire
  <1>8. Part'
    BY <1>1, <1>2, <1>3, <1>4, <1>5, <1>6, <1>7 DEF ConsumerNext, ConsumerFault
  <1> QED
    BY <1>s, <1>q, <1>8

\* A step that changes nothing keeps everything.
LEMMA StutterKeeps ==
  ASSUME UNCHANGED vars
  PROVE  /\ Control => Control'
         /\ Dedup => Dedup'
         /\ TagOrder => TagOrder'
         /\ Delivery => Delivery'
  <1>1. Control => Control'
    BY DEF vars, brokerVars, githubVars, scannerVars, scanVars, processVars, consumerVars, Control,
           TypeOK, GithubTypeOK, ScannerTypeOK, ConsumerTypeOK
  <1>2. Dedup => Dedup'
    BY DEF vars, brokerVars, consumerVars, Dedup, DuplicatesNeedDedupLoss
  <1>3. TagOrder => TagOrder'
    BY DEF vars, brokerVars, githubVars, scannerVars, scanVars, TagOrder
  <1>4. Delivery => Delivery'
    BY DEF vars, brokerVars, scannerVars, scanVars, processVars, consumerVars, Delivery,
           OwedIsOnItsWay, Queued, Scheduled, SubscribersForRepo, Unsubscribed
  <1> QED
    BY <1>1, <1>2, <1>3, <1>4

LEMMA NextKeepsControl == Control /\ [Next]_vars => Control'
  <1> SUFFICES ASSUME Control, [Next]_vars PROVE Control'
    OBVIOUS
  <1>1. CASE UNCHANGED vars
    BY <1>1, StutterKeeps
  <1>2. CASE Next
    BY <1>2, ScannerKeepsControl, OthersKeepControl, ConsumerKeepsControl DEF Next
  <1> QED
    BY <1>1, <1>2

\* The scanner and the consumer always know what they are working on.
THEOREM ControlInvariant == Spec => []Control
  <1>1. Init => Control
    BY InitControl
  <1>2. Control /\ [Next]_vars => Control'
    BY NextKeepsControl
  <1> QED
    BY <1>1, <1>2, PTL DEF Spec

\* The tables, queue, cache and program counters of release tracking are well typed,
\* whatever fails: scanner.go never publishes a release that it does not hold.
THEOREM TypeCorrect == Spec => []TypeOK
  <1>1. Control => TypeOK
    BY DEF Control
  <1> QED
    BY <1>1, ControlInvariant, PTL

-----------------------------------------------------------------------------
(* At most one mail. *)

LEMMA InitDedup == Init => Dedup
  BY DEF Init, ConsumerInit, Dedup, DuplicatesNeedDedupLoss

\* Publishing behind the command being handled, and everything outside the
\* notifier, keeps the dedup bookkeeping.
LEMMA QueueKeepsDedup ==
  ASSUME Control, Dedup, UNCHANGED consumerVars,
         cmdQ # <<>> => cmdQ' # <<>> /\ Head(cmdQ') = Head(cmdQ)
  PROVE  Dedup'
  <1>1. UNCHANGED <<relPc, seen, mails, unguarded>>
    BY DEF consumerVars
  <1>2. relPc # "check" => Head(cmdQ') = Head(cmdQ)
    BY DEF Control
  <1> QED
    BY <1>1, <1>2 DEF Dedup, DuplicatesNeedDedupLoss

\* A mail is counted once, up to the bound.
LEMMA MailFacts ==
  ASSUME Control, NEW m \in Message, MailArrives(m)
  PROVE  /\ mails'[m] > 0
         /\ mails'[m] > 1 => mails[m] > 0
         /\ \A k \in Message \ {m} : mails'[k] = mails[k]
  <1>1. mails \in [Message -> 0..2]
    BY DEF Control, TypeOK, ConsumerTypeOK, MaxMails
  <1> QED
    BY <1>1 DEF MailArrives, MaxMails

LEMMA ConsumerKeepsDedup ==
  ASSUME Control, Dedup, ConsumerNext \/ ConsumerFault
  PROVE  Dedup'
  <1>t. /\ relPc # "check" => cmdQ # <<>>
        /\ cmdQ # <<>> => Head(cmdQ) \in Message
        /\ \A m \in Message : mails[m] \in 0..2
    BY TailFacts DEF Control, TypeOK, ConsumerTypeOK, MaxMails
  <1> DEFINE h == Head(cmdQ)
             Part == /\ \A m \in Message :
                          mails[m] > 0 => m \in seen \/ m \in unguarded \/ (relPc = "mark" /\ m = h)
                     /\ relPc = "send" => mails[h] = 0 \/ h \in unguarded
                     /\ \A m \in Message : mails[m] > 1 => m \in unguarded
  <1>d. Part /\ (Part' => Dedup')
    BY DEF Dedup, DuplicatesNeedDedupLoss
  <1> HIDE DEF h
  <1> SUFFICES Part'
    BY <1>d
  <1>1. CASE ReleaseCheck
    <2>1. h' = h /\ h \in Message /\ relPc = "check" /\ UNCHANGED <<seen, mails>>
      BY <1>t, <1>1 DEF ReleaseCheck, HandlingRelease, h
    <2>2. \/ relPc' = (IF h \in seen THEN "ack" ELSE "send") /\ UNCHANGED unguarded
          \/ relPc' = "send" /\ unguarded' = unguarded \cup {h}
      BY <1>1 DEF ReleaseCheck, RelGoto, h
    <2> QED
      BY <1>t, <1>d, <2>1, <2>2
  <1>2. CASE ReleaseSendOk
    <2>1. /\ h' = h /\ h \in Message /\ relPc = "send" /\ relPc' = "mark" /\ UNCHANGED <<seen, unguarded>>
          /\ MailArrives(h)
      BY <1>t, <1>2 DEF ReleaseSendOk, HandlingRelease, RelGoto, brokerVars, h
    <2>2. /\ mails'[h] > 1 => mails[h] > 0
          /\ \A k \in Message \ {h} : mails'[k] = mails[k]
      BY <2>1, MailFacts
    <2> QED
      BY <1>t, <1>d, <2>1, <2>2
  <1>3. CASE ReleaseSendErr
    <2>1. h \in Message /\ relPc = "send" /\ relPc' = "check" /\ UNCHANGED seen
      BY <1>t, <1>3 DEF ReleaseSendErr, HandlingRelease, RelGoto, h
    <2>2. \/ UNCHANGED <<mails, unguarded>>
          \/ unguarded' = unguarded \cup {h} /\ MailArrives(h)
      BY <1>3 DEF ReleaseSendErr, h
    <2>3. CASE UNCHANGED <<mails, unguarded>>
      BY <1>d, <2>1, <2>3
    <2>4. CASE unguarded' = unguarded \cup {h} /\ MailArrives(h)
      BY <1>d, <2>1, <2>4, MailFacts
    <2> QED
      BY <2>2, <2>3, <2>4
  <1>4. CASE ReleaseMark
    <2>1. h' = h /\ relPc = "mark" /\ relPc' = "ack" /\ UNCHANGED mails
      BY <1>4 DEF ReleaseMark, HandlingRelease, RelGoto, h
    <2>2. \/ seen' = seen \cup {h} /\ UNCHANGED unguarded
          \/ unguarded' = unguarded \cup {h} /\ UNCHANGED seen
      BY <1>4 DEF ReleaseMark, h
    <2> QED
      BY <1>d, <2>1, <2>2
  <1>5. CASE ReleaseAck
    <2>1. relPc = "ack" /\ relPc' = "check" /\ UNCHANGED <<seen, mails, unguarded>>
      BY <1>5 DEF ReleaseAck, HandlingRelease, RelGoto
    <2> QED
      BY <1>d, <2>1
  <1>6. CASE ConsumerRestart
    <2>1. /\ relPc' = "check" /\ UNCHANGED <<seen, mails>>
          /\ unguarded' = IF relPc = "mark" THEN unguarded \cup {h} ELSE unguarded
      BY <1>6 DEF ConsumerRestart, RelGoto, h
    <2> QED
      BY <1>d, <2>1
  <1>7. ASSUME NEW m \in Message, SeenExpire(m) PROVE Part'
    <2>1. /\ h' = h /\ UNCHANGED <<relPc, mails>>
          /\ seen' = seen \ {m} /\ unguarded' = unguarded \cup {m}
      BY <1>7 DEF SeenExpire, h
    <2> QED
      BY <1>d, <2>1
  <1> QED
    BY <1>1, <1>2, <1>3, <1>4, <1>5, <1>6, <1>7 DEF ConsumerNext, ConsumerFault

LEMMA NextKeepsDedup == Control /\ Dedup /\ [Next]_vars => Dedup'
  <1> SUFFICES ASSUME Control, Dedup, [Next]_vars PROVE Dedup'
    OBVIOUS
  <1>1. CASE UNCHANGED vars
    BY <1>1, StutterKeeps
  <1>2. CASE Scanner
    <2>1. cmdQ # <<>> => cmdQ' # <<>> /\ Head(cmdQ') = Head(cmdQ)
      <3>1. CASE \E t \in Tokens : NotifySubscriber(t)
        BY <3>1, NotifyFacts
      <3>2. CASE ~\E t \in Tokens : NotifySubscriber(t)
        BY <1>2, <3>2 DEF Scanner, ScannerNext, ScanStart, DetectNewRelease, RecordRelease,
             ListSubscribers, brokerVars
      <3> QED
        BY <3>1, <3>2
    <2> QED
      BY <1>2, <2>1, QueueKeepsDedup DEF Scanner
  <1>3. CASE ConsumerNext \/ ConsumerFault
    BY <1>3, ConsumerKeepsDedup
  <1>4. CASE \/ ScannerFault \/ Stop \/ Shutdown \/ NotifierStarts
             \/ \E r \in Repos : Github(r) \/ CacheClock(r) \/ \E t \in Tokens : Subscriber(r, t)
    BY <1>4, OthersKeepControl, QueueKeepsDedup
  <1> QED
    BY <1>1, <1>2, <1>3, <1>4 DEF Next

\* However often a release is detected and its command redelivered, nobody gets its
\* mail twice unless Redis lost or was never told the message id (consumer.go handle).
THEOREM AtMostOneMail == Spec => []DuplicatesNeedDedupLoss
  <1>1. Init => Dedup
    BY InitDedup
  <1>2. Control /\ Dedup /\ [Next]_vars => Dedup'
    BY NextKeepsDedup
  <1>3. Dedup => DuplicatesNeedDedupLoss
    BY DEF Dedup
  <1> QED
    BY <1>1, <1>2, <1>3, ControlInvariant, PTL DEF Spec

-----------------------------------------------------------------------------
(* Old tags. *)

LEMMA InitTagOrder == Init => TagOrder
  <1> SUFFICES ASSUME Init PROVE TagOrder
    OBVIOUS
  <1>1. \A r \in Repos : ghLatest[r] \in Nat /\ lastSeen[r] = 0 /\ cache[r] = 0
    BY GithubAssumption DEF Init, GithubInit, ScannerInit, Tags
  <1> QED
    BY <1>1 DEF TagOrder, Init, ScannerInit

\* The tags as numbers.
LEMMA TagNumbers ==
  ASSUME Control
  PROVE  /\ \A r \in Repos : ghLatest[r] \in Nat /\ lastSeen[r] \in Nat /\ cache[r] \in Nat
         /\ scPc \in {"record", "list", "notify"} => scNew.repo \in Repos /\ scNew.tag \in Nat \ {0}
         /\ retracts \in Nat /\ faults \in Nat
  BY GithubAssumption, BrokerAssumption
  DEF Control, TypeOK, GithubTypeOK, ScannerTypeOK, Release, Tags

\* The order survives whatever leaves the tags and the release at hand alone.
LEMMA SameTags ==
  ASSUME Control, TagOrder, UNCHANGED <<ghLatest, retracts, cache, lastSeen>>,
         faults' = 0 => faults = 0,
         scPc' = "record" => scPc = "record" /\ scNew' = scNew
  PROVE  TagOrder'
  BY DEF TagOrder

LEMMA ScannerKeepsTagOrder ==
  ASSUME Control, TagOrder, Scanner
  PROVE  TagOrder'
  <1>f. Fault \/ NoFault => (faults' = 0 => faults = 0 /\ NoFault)
    BY FaultFacts DEF Control, TypeOK
  <1>1. CASE ScanStart
    BY <1>1, SameTags DEF ScanStart, processVars, brokerVars, githubVars
  <1>2. ASSUME NEW r \in Repos, DetectNewRelease(r) PROVE TagOrder'
    <2> SUFFICES ASSUME retracts' = 0, faults' = 0 PROVE TagOrder'
      BY DEF TagOrder
    <2>1. retracts = 0 /\ faults = 0 /\ NoFault /\ UNCHANGED <<ghLatest, lastSeen>>
      BY <1>2, <1>f, DetectFacts
    <2>2. \A q \in Repos : /\ lastSeen[q] <= ghLatest[q]
                           /\ cache[q] <= ghLatest[q]
                           /\ cache[q] # 0 => lastSeen[q] <= cache[q]
      BY <2>1 DEF TagOrder
    <2>3. /\ cache' \in {cache, [cache EXCEPT ![r] = ghLatest[r]]}
          /\ \/ scPc' \in {"idle", "check"}
             \/ scPc' = "record" /\ scNew'.repo = r
          /\ \/ cache' = cache /\ cache[r] # 0 /\ (scPc' = "record" => scNew'.tag = cache[r])
             \/ cache[r] = 0 /\ (scPc' = "record" => scNew'.tag = ghLatest[r])
      BY <1>2, <2>1, DetectFacts
    <2>4. \A q \in Repos : cache'[q] = cache[q] \/ (q = r /\ cache'[q] = ghLatest[q])
      BY <2>3 DEF Control, TypeOK, GithubTypeOK
    <2>5. \A q \in Repos : /\ lastSeen'[q] <= ghLatest'[q]
                           /\ cache'[q] <= ghLatest'[q]
                           /\ cache'[q] # 0 => lastSeen'[q] <= cache'[q]
      BY <2>1, <2>2, <2>4, TagNumbers
    <2>6. scPc' = "record" => /\ lastSeen'[scNew'.repo] <= scNew'.tag
                              /\ scNew'.tag <= ghLatest'[scNew'.repo]
                              /\ cache'[scNew'.repo] # 0 => scNew'.tag <= cache'[scNew'.repo]
      BY <2>1, <2>2, <2>3, <2>4, TagNumbers
    <2> QED
      BY <2>5, <2>6 DEF TagOrder
  <1>3. CASE RecordRelease
    <2> SUFFICES ASSUME retracts' = 0, faults' = 0 PROVE TagOrder'
      BY DEF TagOrder
    <2>1. retracts = 0 /\ faults = 0 /\ NoFault /\ UNCHANGED <<ghLatest, cache>> /\ scPc = "record"
      BY <1>3, <1>f DEF RecordRelease, githubVars
    <2>2. /\ \A q \in Repos : /\ lastSeen[q] <= ghLatest[q]
                              /\ cache[q] <= ghLatest[q]
                              /\ cache[q] # 0 => lastSeen[q] <= cache[q]
          /\ lastSeen[scNew.repo] <= scNew.tag
          /\ scNew.tag <= ghLatest[scNew.repo]
          /\ cache[scNew.repo] # 0 => scNew.tag <= cache[scNew.repo]
      BY <2>1 DEF TagOrder
    <2>3. lastSeen' = [lastSeen EXCEPT ![scNew.repo] = scNew.tag] /\ scPc' = "list"
      BY <1>3, <2>1, TagNumbers DEF RecordRelease, Fault, NoFault
    <2>4. \A q \in Repos :
            lastSeen'[q] = lastSeen[q] \/ (q = scNew.repo /\ lastSeen'[q] = scNew.tag)
      BY <2>3 DEF Control, TypeOK, ScannerTypeOK
    <2> QED
      BY <2>1, <2>2, <2>3, <2>4 DEF TagOrder
  <1>4. CASE ListSubscribers
    <2>1. scPc' # "record"
      BY <1>4 DEF ListSubscribers, CheckNext
    <2> QED
      BY <1>4, <1>f, <2>1, SameTags DEF ListSubscribers, githubVars
  <1>5. ASSUME NEW t \in Tokens, NotifySubscriber(t) PROVE TagOrder'
    <2>1. scPc' # "record"
      BY <1>5 DEF NotifySubscriber, CheckNext
    <2> QED
      BY <1>5, <1>f, <2>1, NotifyFacts, SameTags DEF NotifySubscriber, githubVars
  <1> QED
    BY <1>1, <1>2, <1>3, <1>4, <1>5 DEF Scanner, ScannerNext

LEMMA NextKeepsTagOrder == Control /\ TagOrder /\ [Next]_vars => TagOrder'
  <1> SUFFICES ASSUME Control, TagOrder, [Next]_vars PROVE TagOrder'
    OBVIOUS
  <1>f. Fault \/ NoFault => (faults' = 0 => faults = 0)
    BY FaultFacts DEF Control, TypeOK
  <1>1. CASE UNCHANGED vars
    BY <1>1, StutterKeeps
  <1>2. CASE Scanner
    BY <1>2, ScannerKeepsTagOrder
  <1>3. CASE ConsumerNext \/ ConsumerFault
    <2>1. Fault \/ NoFault
      BY <1>3 DEF ConsumerNext, ConsumerFault, ReleaseCheck, ReleaseSendOk, ReleaseSendErr,
           ReleaseMark, ReleaseAck, ConsumerRestart, SeenExpire, NoFault, brokerVars
    <2> QED
      BY <1>3, <1>f, <2>1, ConsumerKeepsControl, SameTags DEF scannerVars, scanVars, githubVars
  <1>4. CASE ScannerFault
    BY <1>4, <1>f, SameTags DEF ScannerFault, ScannerCrash, PublisherLost, MonolithRestart, CheckNext,
         scanVars, githubVars
  <1>5. CASE Stop \/ NotifierStarts
    BY <1>5, SameTags DEF Stop, Sigterm, NotifierStarts, NotifierDeclares, scanVars, brokerVars, githubVars
  <1>6. CASE Shutdown
    BY <1>6, <1>f, SameTags DEF Shutdown, PublisherCloses, MonolithExits, MonolithRestart, CheckNext,
         NoFault, scanVars, brokerVars, githubVars
  <1>7. ASSUME NEW r \in Repos, Github(r) PROVE TagOrder'
    <2> SUFFICES ASSUME retracts' = 0, faults' = 0 PROVE TagOrder'
      BY DEF TagOrder
    <2>0. UNCHANGED <<cache, lastSeen, scPc, scNew, faults>>
      BY <1>7 DEF Github, Publish, Retract, brokerVars, scannerVars, scanVars
    <2>1. retracts = 0 /\ ghLatest' = [ghLatest EXCEPT ![r] = @ + 1]
      BY <1>7, TagNumbers DEF Github, Publish, Retract
    <2>2. \A q \in Repos : ghLatest'[q] \in Nat /\ ghLatest[q] <= ghLatest'[q]
      BY <2>1, TagNumbers DEF Control, TypeOK, GithubTypeOK
    <2>3. \A q \in Repos, x \in Nat : x <= ghLatest[q] => x <= ghLatest'[q]
      BY <2>2, TagNumbers
    <2>4. scPc' = "record" => scNew.repo \in Repos /\ scNew.tag \in Nat
      BY <2>0, TagNumbers
    <2> QED
      BY <2>0, <2>1, <2>3, <2>4, TagNumbers DEF TagOrder
  <1>8. ASSUME NEW r \in Repos, CacheClock(r) PROVE TagOrder'
    <2>1. /\ UNCHANGED <<ghLatest, retracts, lastSeen, scPc, scNew, faults>>
          /\ cache' = [cache EXCEPT ![r] = 0]
      BY <1>8 DEF CacheClock, CacheExpire, brokerVars, scannerVars, scanVars
    <2>2. \A q \in Repos : cache'[q] = cache[q] \/ cache'[q] = 0
      BY <2>1 DEF Control, TypeOK, GithubTypeOK
    <2> QED
      BY <2>1, <2>2, TagNumbers DEF TagOrder
  <1>9. ASSUME NEW r \in Repos, NEW t \in Tokens, Subscriber(r, t) PROVE TagOrder'
    BY <1>9, SameTags DEF Subscriber, Confirm, Unsubscribe, brokerVars, githubVars
  <1> QED
    BY <1>1, <1>2, <1>3, <1>4, <1>5, <1>6, <1>7, <1>8, <1>9 DEF Next

\* Only RecordRelease writes last_seen_tag, and it writes the release at hand.
LEMMA RecordOnly ==
  ASSUME Control, TagOrder, [Next]_vars
  PROVE  \A r \in Repos : lastSeen'[r] < lastSeen[r] => retracts > 0 \/ faults > 0
  <1>1. CASE RecordRelease
    <2>1. \A r \in Repos :
            lastSeen'[r] = lastSeen[r] \/ (r = scNew.repo /\ lastSeen'[r] = scNew.tag)
      BY <1>1 DEF RecordRelease, Control, TypeOK, ScannerTypeOK
    <2>2. retracts = 0 /\ faults = 0 => lastSeen[scNew.repo] <= scNew.tag
      BY <1>1 DEF RecordRelease, TagOrder
    <2>3. scNew.repo \in Repos /\ scNew.tag \in Nat
      BY <1>1, TagNumbers DEF RecordRelease
    <2> QED
      BY <2>1, <2>2, <2>3, TagNumbers
  <1>2. CASE ~RecordRelease
    <2>1. lastSeen' = lastSeen
      <3>1. CASE UNCHANGED vars
        BY <3>1 DEF vars, scannerVars, scanVars
      <3>2. CASE Scanner
        BY <1>2, <3>2 DEF Scanner, ScannerNext, ScanStart, DetectNewRelease, ListSubscribers, NotifySubscriber
      <3>3. CASE ConsumerNext \/ ConsumerFault
        BY <3>3, ConsumerKeepsControl DEF scannerVars, scanVars
      <3>4. CASE ScannerFault \/ Stop \/ Shutdown \/ NotifierStarts
        BY <3>4 DEF ScannerFault, Stop, Shutdown, NotifierStarts, ScannerCrash, PublisherLost, Sigterm,
             PublisherCloses, MonolithExits, MonolithRestart, NotifierDeclares, scanVars
      <3>5. CASE \E r \in Repos : Github(r) \/ CacheClock(r) \/ \E t \in Tokens : Subscriber(r, t)
        BY <3>5 DEF Github, CacheClock, Subscriber, Confirm, Unsubscribe, scannerVars, scanVars
      <3> QED
        BY <3>1, <3>2, <3>3, <3>4, <3>5 DEF Next
    <2> QED
      BY <2>1, TagNumbers
  <1> QED
    BY <1>1, <1>2

\* last_seen_tag never goes back unless GitHub deleted a release or a call failed: the
\* cache's staleness alone is harmless (cached_client.go, detectNewRelease).
THEOREM OldTagsNeedACause == Spec => OldTagNeedsACause
  <1>1. Init => TagOrder
    BY InitTagOrder
  <1>2. Control /\ TagOrder /\ [Next]_vars => TagOrder'
    BY NextKeepsTagOrder
  <1>3. Control /\ TagOrder /\ [Next]_vars =>
          [\A r \in Repos : lastSeen'[r] < lastSeen[r] => retracts > 0 \/ faults > 0]_vars
    BY RecordOnly
  <1> QED
    BY <1>1, <1>2, <1>3, ControlInvariant, PTL DEF Spec, OldTagNeedsACause

-----------------------------------------------------------------------------
(* Delivery without faults. *)

\* What OwedIsOnItsWay asks for one message.
OnItsWay(m) ==
  \/ mails[m] > 0 \/ m \in dlq
  \/ Queued(m) \/ Scheduled(m)
  \/ Unsubscribed(m) \/ m \in dropped

LEMMA InitDelivery == Init => Delivery
  BY DEF Init, ScannerInit, ConsumerInit, Delivery, OwedIsOnItsWay

\* The count of mails as numbers.
LEMMA MailNumbers ==
  ASSUME Control
  PROVE  \A m \in Message : mails[m] \in Nat
  BY DEF Control, TypeOK, ConsumerTypeOK, MaxMails

\* A message in the queue stays there when another one is appended, and only the head
\* leaves when it is settled.
LEMMA QueuedFacts ==
  ASSUME Control, NEW m
  PROVE  /\ \A x \in Message : cmdQ' = Append(cmdQ, x) => (Queued(m) \/ m = x => Queued(m)')
         /\ cmdQ # <<>> /\ cmdQ' = Tail(cmdQ) /\ Queued(m) => m = Head(cmdQ) \/ Queued(m)'
  <1>q. cmdQ \in Seq(Message) /\ Len(cmdQ) \in Nat
    BY DEF Control, TypeOK
  <1>1. ASSUME NEW x \in Message, cmdQ' = Append(cmdQ, x), Queued(m) \/ m = x
        PROVE  Queued(m)'
    <2>1. /\ Len(cmdQ') = Len(cmdQ) + 1
          /\ \A k \in 1..Len(cmdQ) : cmdQ'[k] = cmdQ[k]
          /\ cmdQ'[Len(cmdQ) + 1] = x
      BY <1>q, <1>1, AppendFacts
    <2>2. CASE m = x
      BY <1>q, <2>1, <2>2 DEF Queued
    <2>3. CASE Queued(m)
      BY <1>q, <2>1, <2>3 DEF Queued
    <2> QED
      BY <1>1, <2>2, <2>3
  <1>2. ASSUME cmdQ # <<>>, cmdQ' = Tail(cmdQ), Queued(m), m # Head(cmdQ)
        PROVE  Queued(m)'
    <2>1. PICK k \in 1..Len(cmdQ) : cmdQ[k] = m
      BY <1>2 DEF Queued
    <2>2. k # 1
      BY <1>q, <1>2, <2>1, TailFacts
    <2>3. k - 1 \in 1..Len(cmdQ') /\ Len(cmdQ') = Len(cmdQ) - 1
      BY <1>q, <1>2, <2>1, <2>2, TailFacts
    <2>4. cmdQ'[k - 1] = cmdQ[(k - 1) + 1]
      BY <1>q, <1>2, <2>3, TailFacts
    <2> QED
      BY <2>1, <2>3, <2>4 DEF Queued
  <1> QED
    BY <1>1, <1>2

\* A step that loses nothing: what was on its way still is, and what is newly owed is.
LEMMA DeliveryStep ==
  ASSUME Control, Delivery,
         faults' = 0 /\ stops' = 0 => faults = 0 /\ stops = 0,
         faults' = 0 /\ stops' = 0 =>
           /\ pubUp' /\ ~stopping'
           /\ \A m \in seen' : mails'[m] > 0
           /\ relPc' \in {"mark", "ack"} => mails'[Head(cmdQ')] > 0
           /\ \A m \in owed' : (m \in owed => OnItsWay(m)) => OnItsWay(m)'
  PROVE  Delivery'
  <1> SUFFICES ASSUME faults' = 0, stops' = 0 PROVE Delivery'
    BY DEF Delivery
  <1>1. \A m \in owed : OnItsWay(m)
    BY DEF Delivery, OwedIsOnItsWay, OnItsWay
  <1>2. \A m \in owed' : OnItsWay(m)'
    BY <1>1
  <1>3. OwedIsOnItsWay'
    BY <1>2 DEF OwedIsOnItsWay, OnItsWay
  <1> QED
    BY <1>3 DEF Delivery

LEMMA ScannerKeepsDelivery ==
  ASSUME Control, Delivery, Scanner
  PROVE  Delivery'
  <1>f. faults \in Nat /\ (Fault \/ NoFault => (faults' = 0 => faults = 0 /\ NoFault /\ ~Fault))
    BY FaultFacts, BrokerAssumption DEF Control, TypeOK
  <1>0. UNCHANGED <<relPc, seen, dlq, mails, unguarded, sub, stopping, stops, pubUp, bound>>
    BY DEF Scanner, ScannerNext, ScanStart, DetectNewRelease, RecordRelease, ListSubscribers,
           NotifySubscriber, processVars, consumerVars
  <1>d. faults = 0 /\ stops = 0 =>
          /\ pubUp /\ ~stopping
          /\ \A m \in seen : mails[m] > 0
          /\ relPc \in {"mark", "ack"} => mails[Head(cmdQ)] > 0
    BY DEF Delivery
  <1>u. \A m : UNCHANGED cmdQ /\ Queued(m) => Queued(m)'
    BY DEF Queued
  <1>s. \A m : Unsubscribed(m) => Unsubscribed(m)'
    BY <1>0 DEF Unsubscribed
  <1>1. CASE ScanStart
    <2>1. UNCHANGED <<cmdQ, owed, dropped, faults>> /\ scPc = "idle"
      BY <1>1 DEF ScanStart, processVars, brokerVars
    <2>2. \A m \in owed' : OnItsWay(m) => OnItsWay(m)'
      BY <1>0, <1>u, <1>s, <2>1 DEF OnItsWay, Scheduled
    <2> QED
      BY <1>0, <1>d, <2>1, <2>2, DeliveryStep
  <1>2. ASSUME NEW r \in Repos, DetectNewRelease(r) PROVE Delivery'
    <2>1. UNCHANGED <<cmdQ, owed, dropped>> /\ scPc = "check" /\ (Fault \/ NoFault)
      BY <1>2, DetectFacts DEF processVars
    <2>2. \A m \in owed' : OnItsWay(m) => OnItsWay(m)'
      BY <1>0, <1>u, <1>s, <2>1 DEF OnItsWay, Scheduled
    <2> QED
      BY <1>0, <1>d, <1>f, <2>1, <2>2, DeliveryStep
  <1>3. CASE RecordRelease
    <2>1. UNCHANGED <<cmdQ, dropped>> /\ scPc = "record" /\ (Fault \/ NoFault)
      BY <1>3 DEF RecordRelease, processVars
    <2>2. NoFault =>
            /\ scPc' = "list" /\ scNew' = scNew
            /\ owed' = owed \cup {[repo |-> scNew.repo, tag |-> scNew.tag, token |-> t] :
                                    t \in SubscribersForRepo(scNew.repo)}
      BY <1>3, <1>f DEF RecordRelease, Fault, NoFault
    <2>3. \A m \in owed : OnItsWay(m) => OnItsWay(m)'
      BY <1>0, <1>u, <1>s, <2>1 DEF OnItsWay, Scheduled
    <2>4. ASSUME NEW t \in SubscribersForRepo(scNew.repo), NoFault
          PROVE  OnItsWay([repo |-> scNew.repo, tag |-> scNew.tag, token |-> t])'
      <3>1. scNew \in Release /\ SubscribersForRepo(scNew.repo)' = SubscribersForRepo(scNew.repo)
        BY <1>0, <2>1, <2>2, <2>4 DEF Control, SubscribersForRepo
      <3>2. scNew = [repo |-> scNew.repo, tag |-> scNew.tag]
        BY <3>1 DEF Release
      <3> QED
        BY <2>2, <2>4, <3>1, <3>2 DEF OnItsWay, Scheduled
    <2>5. faults' = 0 => \A m \in owed' : (m \in owed => OnItsWay(m)) => OnItsWay(m)'
      BY <1>f, <2>1, <2>2, <2>3, <2>4
    <2> QED
      BY <1>0, <1>d, <1>f, <2>1, <2>5, DeliveryStep
  <1>4. CASE ListSubscribers
    <2>1. UNCHANGED <<cmdQ, owed, dropped>> /\ scPc = "list" /\ (Fault \/ NoFault)
      BY <1>4 DEF ListSubscribers, processVars
    <2>2. NoFault =>
            \/ SubscribersForRepo(scNew.repo) = {}
            \/ scPc' = "notify" /\ scNew' = scNew /\ scTo' = SubscribersForRepo(scNew.repo)
      BY <1>4, <1>f DEF ListSubscribers, Fault, NoFault
    <2>3. ASSUME NEW m, Scheduled(m), NoFault PROVE Scheduled(m)'
      <3>1. m.token \in SubscribersForRepo(m.repo) /\ scNew = [repo |-> m.repo, tag |-> m.tag]
        BY <2>1, <2>3 DEF Scheduled
      <3>2. scNew.repo = m.repo
        BY <3>1
      <3> QED
        BY <2>2, <2>3, <3>1, <3>2 DEF Scheduled
    <2>4. NoFault => \A m \in owed' : OnItsWay(m) => OnItsWay(m)'
      BY <1>0, <1>u, <1>s, <2>1, <2>3 DEF OnItsWay
    <2> QED
      BY <1>0, <1>d, <1>f, <2>1, <2>4, DeliveryStep
  <1>5. ASSUME NEW t \in Tokens, NotifySubscriber(t) PROVE Delivery'
    <2>0. PICK x : x = [repo |-> scNew.repo, tag |-> scNew.tag, token |-> t]
      OBVIOUS
    <2>1. /\ x \in Message /\ scNew \in Release
          /\ cmdQ' \in {cmdQ, Append(cmdQ, x)}
          /\ cmdQ # <<>> => cmdQ' # <<>> /\ Head(cmdQ') = Head(cmdQ)
          /\ dropped' \in {dropped, dropped \cup {x}}
          /\ Fault \/ NoFault
          /\ faults' = 0 /\ pubUp => cmdQ' = Append(cmdQ, x) \/ x \in dropped'
      BY <1>5, <2>0, NotifyFacts
    <2>2. UNCHANGED owed /\ scPc = "notify"
      BY <1>5 DEF NotifySubscriber
    <2>3. ASSUME NEW m \in owed, Scheduled(m) PROVE m = x \/ Scheduled(m)'
      <3>1. m \in Message /\ m.token \in scTo /\ scNew = [repo |-> m.repo, tag |-> m.tag]
        BY <2>2, <2>3 DEF Scheduled, Control, TypeOK, ScannerTypeOK
      <3>2. m.token = t => m = x
        BY <2>0, <3>1 DEF Message
      <3>3. m.token # t => scPc' = "notify" /\ scNew' = scNew /\ m.token \in scTo'
        BY <1>5, <3>1 DEF NotifySubscriber
      <3> QED
        BY <3>1, <3>2, <3>3 DEF Scheduled
    <2>4. \A m \in owed : Queued(m) => Queued(m)'
      BY <1>u, <2>1, QueuedFacts
    <2>5. faults' = 0 /\ pubUp => x \in dropped' \/ Queued(x)'
      BY <2>1, QueuedFacts
    <2>6. faults' = 0 /\ pubUp => \A m \in owed : OnItsWay(m) => OnItsWay(m)'
      BY <1>0, <1>s, <2>1, <2>3, <2>4, <2>5 DEF OnItsWay
    <2>7. relPc # "check" => Head(cmdQ') = Head(cmdQ)
      BY <2>1 DEF Control
    <2> QED
      BY <1>0, <1>d, <1>f, <2>1, <2>2, <2>6, <2>7, DeliveryStep
  <1> QED
    BY <1>1, <1>2, <1>3, <1>4, <1>5 DEF Scanner, ScannerNext

\* A subscriber who confirms or leaves loses nobody else's message.
LEMMA SubscriberKeepsDelivery ==
  ASSUME Control, Delivery, NEW r \in Repos, NEW t \in Tokens, Subscriber(r, t)
  PROVE  Delivery'
  <1>0. UNCHANGED <<faults, stops, pubUp, stopping, scPc, scNew, scTo, relPc, seen, dlq, mails,
                    cmdQ, owed, dropped>>
    BY DEF Subscriber, Confirm, Unsubscribe, processVars, brokerVars, consumerVars
  <1>s. /\ sub \in [Repos -> [Tokens -> {"unconfirmed", "confirmed", "deleted"}]]
        /\ sub[r] \in [Tokens -> {"unconfirmed", "confirmed", "deleted"}]
    BY DEF Control, TypeOK, ScannerTypeOK
  <1>1. PICK v \in {"confirmed", "deleted"} :
          /\ sub' = [sub EXCEPT ![r][t] = v]
          /\ v = "confirmed" => sub[r][t] = "unconfirmed"
          /\ v = "deleted" => sub[r][t] = "confirmed"
    BY DEF Subscriber, Confirm, Unsubscribe
  <1>2. \A q \in Repos, k \in Tokens : (q # r \/ k # t) => sub'[q][k] = sub[q][k]
    BY <1>s, <1>1
  <1>3. sub'[r][t] = v
    BY <1>s, <1>1
  <1>4. ASSUME NEW m \in owed, OnItsWay(m) PROVE OnItsWay(m)'
    <2>1. m.repo \in Repos /\ m.token \in Tokens
      BY DEF Control, TypeOK, ScannerTypeOK, Message
    <2>2. Queued(m) => Queued(m)'
      BY <1>0 DEF Queued
    <2>3. Unsubscribed(m) => Unsubscribed(m)'
      BY <1>1, <1>2, <1>3, <2>1 DEF Unsubscribed
    <2>4. m.token \in SubscribersForRepo(m.repo) =>
            m.token \in SubscribersForRepo(m.repo)' \/ Unsubscribed(m)'
      BY <1>1, <1>2, <1>3, <2>1 DEF SubscribersForRepo, Unsubscribed
    <2>5. Scheduled(m) => Scheduled(m)' \/ Unsubscribed(m)'
      BY <1>0, <2>4 DEF Scheduled
    <2> QED
      BY <1>0, <1>4, <2>2, <2>3, <2>5 DEF OnItsWay
  <1> QED
    BY <1>0, <1>4, DeliveryStep DEF Delivery

\* A command leaves the queue only mailed or dead-lettered.
LEMMA ConsumerKeepsDelivery ==
  ASSUME Control, Delivery, ConsumerNext \/ ConsumerFault
  PROVE  Delivery'
  <1>f. Fault \/ NoFault => (faults' = 0 => faults = 0 /\ NoFault /\ ~Fault)
    BY FaultFacts DEF Control, TypeOK
  <1>0. /\ UNCHANGED <<stops, pubUp, stopping, scPc, scNew, scTo, sub, owed, dropped>>
        /\ cmdQ # <<>> => Head(cmdQ) \in Message
        /\ relPc # "check" => cmdQ # <<>>
    BY ConsumerKeepsControl, TailFacts DEF Control, TypeOK, scannerVars, scanVars, processVars
  <1>d. faults = 0 /\ stops = 0 =>
          /\ pubUp /\ ~stopping
          /\ \A m \in seen : mails[m] > 0
          /\ relPc \in {"mark", "ack"} => mails[Head(cmdQ)] > 0
    BY DEF Delivery
  <1>o. owed \subseteq Message /\ seen \subseteq Message
    BY DEF Control, TypeOK, ScannerTypeOK, ConsumerTypeOK
  <1>u. \A m : /\ UNCHANGED cmdQ /\ Queued(m) => Queued(m)'
               /\ Scheduled(m) => Scheduled(m)'
               /\ Unsubscribed(m) => Unsubscribed(m)'
    BY <1>0 DEF Queued, Scheduled, SubscribersForRepo, Unsubscribed
  <1>k. ASSUME UNCHANGED cmdQ, dlq \subseteq dlq', \A m \in Message : mails[m] > 0 => mails'[m] > 0
        PROVE  \A m \in owed' : OnItsWay(m) => OnItsWay(m)'
    BY <1>0, <1>o, <1>u, <1>k DEF OnItsWay
  <1>t. ASSUME cmdQ # <<>>, cmdQ' = Tail(cmdQ), dlq \subseteq dlq',
               \A m \in Message : mails[m] > 0 => mails'[m] > 0,
               mails'[Head(cmdQ)] > 0 \/ Head(cmdQ) \in dlq'
        PROVE  \A m \in owed' : OnItsWay(m) => OnItsWay(m)'
    <2>1. \A m : Queued(m) => m = Head(cmdQ) \/ Queued(m)'
      BY <1>t, QueuedFacts
    <2> QED
      BY <1>0, <1>o, <1>u, <1>t, <2>1 DEF OnItsWay
  <1>m. ASSUME NEW h \in Message, MailArrives(h)
        PROVE  mails'[h] > 0 /\ \A m \in Message : mails[m] > 0 => mails'[m] > 0
    BY <1>m, MailFacts
  <1>1. CASE ReleaseCheck
    <2>1. /\ UNCHANGED <<cmdQ, seen, dlq, mails>> /\ (Fault \/ NoFault) /\ cmdQ # <<>>
          /\ relPc' \in {"ack", "send"} /\ (relPc' = "ack" => Head(cmdQ) \in seen)
      BY <1>1 DEF ReleaseCheck, HandlingRelease, RelGoto
    <2> QED
      BY <1>0, <1>f, <1>d, <1>k, <2>1, DeliveryStep
  <1>2. CASE ReleaseSendOk
    <2>1. /\ UNCHANGED <<cmdQ, seen, dlq, faults>> /\ cmdQ # <<>>
          /\ relPc' = "mark" /\ MailArrives(Head(cmdQ))
      BY <1>2 DEF ReleaseSendOk, HandlingRelease, RelGoto, brokerVars
    <2>2. mails'[Head(cmdQ)] > 0 /\ \A m \in Message : mails[m] > 0 => mails'[m] > 0
      BY <1>0, <1>m, <2>1
    <2> QED
      BY <1>0, <1>d, <1>o, <1>k, <2>1, <2>2, DeliveryStep
  <1>3. CASE ReleaseSendErr
    <2>1. /\ cmdQ # <<>> /\ cmdQ' = Tail(cmdQ) /\ UNCHANGED seen /\ dlq' = dlq \cup {Head(cmdQ)}
          /\ relPc' = "check" /\ (Fault \/ NoFault) /\ (mails' = mails \/ MailArrives(Head(cmdQ)))
      BY <1>3 DEF ReleaseSendErr, HandlingRelease, RelGoto, SettleCmd
    <2>2. \A m \in Message : mails[m] > 0 => mails'[m] > 0
      BY <1>0, <1>m, <2>1
    <2> QED
      BY <1>0, <1>f, <1>d, <1>o, <1>t, <2>1, <2>2, DeliveryStep
  <1>4. CASE ReleaseMark
    <2>1. /\ UNCHANGED <<cmdQ, dlq, mails>> /\ (Fault \/ NoFault) /\ relPc = "mark" /\ relPc' = "ack"
          /\ seen' \subseteq seen \cup {Head(cmdQ)}
      BY <1>4 DEF ReleaseMark, HandlingRelease, RelGoto
    <2> QED
      BY <1>0, <1>f, <1>d, <1>k, <2>1, DeliveryStep
  <1>5. CASE ReleaseAck
    <2>1. /\ cmdQ # <<>> /\ cmdQ' = Tail(cmdQ) /\ UNCHANGED <<seen, dlq, mails, faults>>
          /\ relPc = "ack" /\ relPc' = "check"
      BY <1>5 DEF ReleaseAck, HandlingRelease, RelGoto, SettleCmd
    <2> QED
      BY <1>0, <1>d, <1>t, <2>1, DeliveryStep
  <1>6. CASE ConsumerFault
    <2>1. Fault
      BY <1>6 DEF ConsumerFault, ConsumerRestart, SeenExpire
    <2> QED
      BY <1>f, <2>1 DEF Delivery
  <1> QED
    BY <1>1, <1>2, <1>3, <1>4, <1>5, <1>6 DEF ConsumerNext

LEMMA NextKeepsDelivery == Control /\ Delivery /\ [Next]_vars => Delivery'
  <1> SUFFICES ASSUME Control, Delivery, [Next]_vars PROVE Delivery'
    OBVIOUS
  <1>1. CASE UNCHANGED vars
    BY <1>1, StutterKeeps
  <1>2. CASE Scanner
    BY <1>2, ScannerKeepsDelivery
  <1>3. CASE ConsumerNext \/ ConsumerFault
    BY <1>3, ConsumerKeepsDelivery
  <1>4. CASE ScannerFault
    <2>1. faults' # 0
      BY <1>4, FaultFacts DEF ScannerFault, ScannerCrash, PublisherLost, Control, TypeOK
    <2> QED
      BY <2>1 DEF Delivery
  <1>5. CASE Stop
    <2>1. stops' # 0
      BY <1>5 DEF Stop, Sigterm, Control, TypeOK, ScannerTypeOK
    <2> QED
      BY <2>1 DEF Delivery
  <1>6. CASE Shutdown
    <2>1. stopping /\ stops' = stops
      BY <1>6 DEF Shutdown, PublisherCloses, MonolithExits, MonolithRestart
    <2>2. faults' = faults
      BY <1>6 DEF Shutdown, PublisherCloses, MonolithExits, NoFault, brokerVars
    <2> QED
      BY <2>1, <2>2 DEF Delivery
  <1>7. CASE \/ NotifierStarts
             \/ \E r \in Repos : Github(r) \/ CacheClock(r)
    <2>1. UNCHANGED <<faults, stops, pubUp, stopping, scPc, scNew, scTo, relPc, seen, dlq, mails,
                      cmdQ, owed, dropped, sub>>
      BY <1>7 DEF NotifierStarts, NotifierDeclares, Github, CacheClock, scannerVars, scanVars,
           processVars, brokerVars, consumerVars
    <2>2. \A m \in owed : OnItsWay(m) => OnItsWay(m)'
      BY <2>1 DEF OnItsWay, Queued, Scheduled, SubscribersForRepo, Unsubscribed
    <2> QED
      BY <2>1, <2>2, DeliveryStep DEF Delivery
  <1>8. CASE \E r \in Repos, t \in Tokens : Subscriber(r, t)
    BY <1>8, SubscriberKeepsDelivery
  <1> QED
    BY <1>1, <1>2, <1>3, <1>4, <1>5, <1>6, <1>7, <1>8 DEF Next

\* Without faults and shutdowns no recorded release is forgotten for anybody who was
\* subscribed when it was recorded: recordAndNotify, publish and handle together lose
\* nothing.
THEOREM NothingOwedIsForgotten == Spec => []OwedIsOnItsWay
  <1>1. Init => Delivery
    BY InitDelivery
  <1>2. Control /\ Delivery /\ [Next]_vars => Delivery'
    BY NextKeepsDelivery
  <1>3. Delivery => OwedIsOnItsWay
    BY DEF Delivery, OwedIsOnItsWay
  <1> QED
    BY <1>1, <1>2, <1>3, ControlInvariant, PTL DEF Spec

=============================================================================
