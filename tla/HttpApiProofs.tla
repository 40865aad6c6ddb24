---------------------------- MODULE HttpApiProofs ----------------------------
(***************************************************************************)
(* Proofs about HttpApi, for every set of clients, e-mail addresses and    *)
(* repositories and any number of sagas, faults, retries and changes on    *)
(* GitHub.                                                                 *)
(***************************************************************************)
EXTENDS HttpApi, TableLemmas

-----------------------------------------------------------------------------
(***************************************************************************)
(* The inductive invariants.                                               *)
(***************************************************************************)

Undecided(s) == sagas[s].state = "subscription_created"

\* The reply consumer works on an existing saga, whose state still allows the
\* statement it is about to run.
ReplyControl ==
  /\ rcPc # "load" => replyQ # <<>>
  /\ rcPc = "complete" => Undecided(Head(replyQ).saga)
  /\ rcPc = "compensate" => Undecided(Head(replyQ).saga) \/ Compensated(Head(replyQ).saga)
  /\ rcPc \in {"markFailed", "fail"} => Compensated(Head(replyQ).saga)

Control == TypeOK /\ Sound /\ ReplyControl

\* Every verdict on its way, in the cache or in a handler, was true of its repository
\* while it was in use.
Grounds ==
  /\ \A r \in Repos :
       /\ <<r, r \in exists>> \in seen
       /\ verdict[r] = "true" => <<r, TRUE>> \in seen
       /\ verdict[r] = "false" => <<r, FALSE>> \in seen
  /\ \A c \in Clients :
       check[c].at = "set" => <<CheckedRepo(c), check[c].found>> \in seen
  /\ VerdictHasGrounds

-----------------------------------------------------------------------------
(* CheckRepoExists. *)

\* Whether a repository is among some, as a value.
LEMMA TruthPair ==
  ASSUME NEW r, NEW E
  PROVE  <<r, r \in E>> = IF r \in E THEN <<r, TRUE>> ELSE <<r, FALSE>>
  <1>1. CASE r \in E
    BY <1>1
  <1>2. CASE r \notin E
    <2> DEFINE b == (r \in E)
    <2>1. b = FALSE
      BY <1>2
    <2> HIDE DEF b
    <2>2. <<r, b>> = <<r, FALSE>>
      BY <2>1
    <2> QED
      BY <1>2, <2>2 DEF b
  <1> QED
    BY <1>1, <1>2

\* What a step forgets is not in use, and the present is always remembered.
LEMMA RememberFacts ==
  ASSUME CheckTypeOK, exists' \subseteq Repos, Remember
  PROVE  /\ seen' \subseteq Repos \X BOOLEAN
         /\ \A r \in Repos : <<r, r \in exists'>> \in seen'
         /\ \A r, b : <<r, b>> \in seen /\ InUse(r)' => <<r, b>> \in seen'
  <1>1. \A r \in Repos : <<r, r \in exists'>> \in seen'
    BY DEF Remember
  <1>2. ASSUME NEW r, NEW b, <<r, b>> \in seen, InUse(r)' PROVE <<r, b>> \in seen'
    <2>1. InUse(<<r, b>>[1])'
      BY <1>2
    <2> QED
      BY <1>2, <2>1 DEF Remember
  <1>3. ASSUME NEW p \in seen' PROVE p \in Repos \X BOOLEAN
    <2>1. CASE p \in seen
      BY <2>1 DEF CheckTypeOK
    <2>2. CASE \E r \in Repos : p = <<r, r \in exists'>>
      <3>1. PICK r \in Repos : p = <<r, r \in exists'>>
        BY <2>2
      <3>2. p = <<r, TRUE>> \/ p = <<r, FALSE>>
        BY <3>1, TruthPair
      <3>3. <<r, TRUE>> \in Repos \X BOOLEAN /\ <<r, FALSE>> \in Repos \X BOOLEAN
        OBVIOUS
      <3> QED
        BY <3>2, <3>3
    <2> QED
      BY <1>3, <2>1, <2>2 DEF Remember
  <1> QED
    BY <1>1, <1>2, <1>3

\* A call of CheckRepoExists, by where it stands.
LEMMA CheckForms ==
  ASSUME NEW k \in Check
  PROVE  /\ k # NoCheck
         /\ k.pair \in Emails \X Repos /\ k.pair[2] \in Repos
         /\ k.at = "ask" => k.tries \in 0..MaxRetries
         /\ k.at = "set" => k.found \in BOOLEAN
  <1>1. k.at # "none" /\ k.pair \in Emails \X Repos
    BY DEF Check, Returned
  <1>2. k.at = "ask" => k.tries \in 0..MaxRetries
    BY DEF Check, Returned
  <1>3. k.at = "set" => k.found \in BOOLEAN
    BY DEF Check, Returned
  <1> QED
    BY <1>1, <1>2, <1>3 DEF NoCheck

\* One client's call moves on.
LEMMA SetCheckFacts ==
  ASSUME CheckTypeOK, NEW c \in Clients, NEW k \in Check \cup {NoCheck}, SetCheck(c, k)
  PROVE  /\ check' \in [Clients -> Check \cup {NoCheck}]
         /\ check'[c] = k
         /\ \A d \in Clients \ {c} : check'[d] = check[d]
  BY DEF CheckTypeOK, SetCheck

\* What k claims was true of its repository.
Founded(k) ==
  /\ k.at = "set" => <<k.pair[2], k.found>> \in seen
  /\ k.at = "yes" => <<k.pair[2], TRUE>> \in seen
  /\ k.at = "no" => <<k.pair[2], FALSE>> \in seen

\* A step after which every verdict and every call was founded before keeps the
\* grounds, since it forgets nothing that is in use.
LEMMA GroundsStep ==
  ASSUME CheckTypeOK, CheckTypeOK', Grounds, Remember,
         \A r \in Repos : /\ verdict'[r] = "true" => <<r, TRUE>> \in seen
                          /\ verdict'[r] = "false" => <<r, FALSE>> \in seen,
         \A c \in Clients : \A k : k = check'[c] => Founded(k)
  PROVE  Grounds'
  <1>1. /\ \A r \in Repos : <<r, r \in exists'>> \in seen'
        /\ \A r, b : <<r, b>> \in seen /\ InUse(r)' => <<r, b>> \in seen'
    BY RememberFacts DEF CheckTypeOK
  <1>2. ASSUME NEW r \in Repos
        PROVE  /\ verdict'[r] = "true" => <<r, TRUE>> \in seen'
               /\ verdict'[r] = "false" => <<r, FALSE>> \in seen'
    BY <1>1 DEF InUse
  <1>3. ASSUME NEW c \in Clients, NEW k, k = check'[c], k.at \in {"set", "yes", "no"}
        PROVE  InUse(k.pair[2])'
    <2>1. check'[c] # NoCheck /\ check'[c].pair[2] = k.pair[2]
      BY <1>3 DEF NoCheck
    <2> QED
      BY <2>1 DEF InUse
  <1>4. ASSUME NEW c \in Clients
        PROVE  /\ check'[c].at = "set" => <<check'[c].pair[2], check'[c].found>> \in seen'
               /\ check'[c].at = "yes" => <<check'[c].pair[2], TRUE>> \in seen'
               /\ check'[c].at = "no" => <<check'[c].pair[2], FALSE>> \in seen'
    <2>1. PICK k : k = check'[c]
      OBVIOUS
    <2>2. Founded(k)
      BY <2>1
    <2>3. k.at \in {"set", "yes", "no"} => InUse(k.pair[2])'
      BY <1>3, <2>1
    <2> QED
      BY <1>1, <2>1, <2>2, <2>3 DEF Founded
  <1> QED
    BY <1>1, <1>2, <1>4 DEF Grounds, VerdictHasGrounds, CheckedRepo

\* All that is claimed now is founded.
LEMMA FoundedNow ==
  ASSUME CheckTypeOK, Grounds
  PROVE  /\ \A r \in Repos : /\ verdict[r] = "true" => <<r, TRUE>> \in seen
                             /\ verdict[r] = "false" => <<r, FALSE>> \in seen
         /\ \A c \in Clients : Founded(check[c])
         /\ Founded(NoCheck)
  <1>1. Founded(NoCheck)
    BY DEF Founded, NoCheck
  <1>2. \A c \in Clients : Founded(check[c])
    BY DEF Grounds, VerdictHasGrounds, CheckedRepo, Founded
  <1> QED
    BY <1>1, <1>2 DEF Grounds

\* GitHub changes, or a verdict expires.
LEMMA WorldKeepsGrounds ==
  ASSUME CheckTypeOK, Grounds, NEW r \in Repos, RepoChanges(r) \/ VerdictExpires(r)
  PROVE  CheckTypeOK' /\ Grounds'
  <1>0. /\ exists' \subseteq Repos /\ changes' \in 0..MaxChanges /\ UNCHANGED check /\ Remember
        /\ verdict' \in {verdict, [verdict EXCEPT ![r] = "none"]}
    BY RepoCheckAssumption DEF RepoChanges, VerdictExpires, CheckTypeOK
  <1>1. CheckTypeOK'
    BY <1>0, RememberFacts DEF CheckTypeOK
  <1>2. \A q \in Repos : verdict'[q] = verdict[q] \/ verdict'[q] = "none"
    BY <1>0 DEF CheckTypeOK
  <1> QED
    BY <1>0, <1>1, <1>2, FoundedNow, GroundsStep

\* One client's call moves to k, and the cache may be written, with founded claims.
LEMMA CallKeepsGrounds ==
  ASSUME CheckTypeOK, Grounds, NEW c \in Clients, NEW k \in Check \cup {NoCheck}, SetCheck(c, k),
         Founded(k), UNCHANGED <<exists, changes>>, Remember,
         verdict' \in [Repos -> {"none", "true", "false"}],
         \A r \in Repos : /\ verdict'[r] = "true" => <<r, TRUE>> \in seen
                          /\ verdict'[r] = "false" => <<r, FALSE>> \in seen
  PROVE  CheckTypeOK' /\ Grounds'
  <1>1. /\ check' \in [Clients -> Check \cup {NoCheck}]
        /\ check'[c] = k
        /\ \A d \in Clients \ {c} : check'[d] = check[d]
    BY SetCheckFacts
  <1>2. CheckTypeOK'
    BY <1>1, RememberFacts DEF CheckTypeOK
  <1>3. \A d \in Clients : \A j : j = check'[d] => Founded(j)
    BY <1>1, FoundedNow
  <1> QED
    BY <1>2, <1>3, GroundsStep

LEMMA CheckGetKeepsGrounds ==
  ASSUME CheckTypeOK, Grounds, NEW c \in Clients, NEW pair \in Emails \X Repos, CheckGet(c, pair)
  PROVE  CheckTypeOK' /\ Grounds' /\ (Fault \/ NoFault)
  <1>1. UNCHANGED <<exists, changes, verdict>> /\ Remember /\ pair[2] \in Repos /\ (Fault \/ NoFault)
    BY DEF CheckGet
  <1>2. PICK k \in {[at |-> "yes", pair |-> pair], [at |-> "no", pair |-> pair],
                    [at |-> "ask", pair |-> pair, tries |-> 0]} :
          /\ SetCheck(c, k)
          /\ k.at = "yes" => verdict[pair[2]] = "true"
          /\ k.at = "no" => verdict[pair[2]] = "false"
    BY DEF CheckGet, Return, Ask
  <1>3. k \in Check /\ k.pair = pair /\ k.at # "set"
    BY RepoCheckAssumption DEF Check, Returned
  <1>4. Founded(k)
    BY <1>1, <1>2, <1>3, FoundedNow DEF Founded
  <1>5. verdict' \in [Repos -> {"none", "true", "false"}]
    BY <1>1 DEF CheckTypeOK
  <1> QED
    BY <1>1, <1>2, <1>3, <1>4, <1>5, FoundedNow, CallKeepsGrounds

LEMMA CheckAskKeepsGrounds ==
  ASSUME CheckTypeOK, Grounds, NEW c \in Clients, CheckAsk(c)
  PROVE  CheckTypeOK' /\ Grounds' /\ (Fault \/ NoFault)
  <1>1. /\ UNCHANGED <<exists, changes, verdict>> /\ Remember /\ check[c].at = "ask"
        /\ Fault \/ NoFault
    BY DEF CheckAsk
  <1>2. check[c] \in Check
    BY <1>1 DEF CheckTypeOK, NoCheck
  <1>3. check[c].pair \in Emails \X Repos /\ check[c].pair[2] \in Repos /\ check[c].tries \in 0..MaxRetries
    BY <1>1, <1>2, CheckForms
  <1>4. verdict' \in [Repos -> {"none", "true", "false"}]
    BY <1>1 DEF CheckTypeOK
  <1>5. ASSUME SetCheck(c, [at |-> "set", pair |-> check[c].pair, found |-> CheckedRepo(c) \in exists])
        PROVE  CheckTypeOK' /\ Grounds'
    <2>1. PICK b : b = (CheckedRepo(c) \in exists)
      OBVIOUS
    <2>b. b \in BOOLEAN
      BY <2>1
    <2>2. PICK k : k = [at |-> "set", pair |-> check[c].pair, found |-> b]
      OBVIOUS
    <2>3. k \in Check /\ k.at = "set" /\ k.pair = check[c].pair /\ k.found = b
      BY <1>3, <2>b, <2>2 DEF Check
    <2>4. <<check[c].pair[2], b>> \in seen
      <3>1. <<check[c].pair[2], check[c].pair[2] \in exists>> \in seen
        BY <1>3 DEF Grounds
      <3> QED
        BY <2>1, <3>1 DEF CheckedRepo
    <2>5. Founded(k)
      BY <2>3, <2>4 DEF Founded
    <2>6. SetCheck(c, k)
      BY <1>5, <2>1, <2>2
    <2> QED
      BY <1>1, <1>4, <2>3, <2>5, <2>6, FoundedNow, CallKeepsGrounds
  <1>6. ASSUME NEW k \in Check, SetCheck(c, k), k.at \in {"ask", "error"}
        PROVE  CheckTypeOK' /\ Grounds'
    BY <1>1, <1>4, <1>6, FoundedNow, CallKeepsGrounds DEF Founded
  <1>7. ASSUME check[c].tries < MaxRetries, Ask(c, check[c].pair, check[c].tries + 1)
        PROVE  CheckTypeOK' /\ Grounds'
    <2>1. PICK k : k = [at |-> "ask", pair |-> check[c].pair, tries |-> check[c].tries + 1]
      OBVIOUS
    <2>2. check[c].tries + 1 \in 0..MaxRetries
      BY <1>3, <1>7, RepoCheckAssumption
    <2>3. k \in Check /\ k.at = "ask"
      BY <1>3, <2>1, <2>2 DEF Check
    <2> QED
      BY <1>6, <1>7, <2>1, <2>3 DEF Ask
  <1>8. ASSUME Return(c, check[c].pair, "error") PROVE CheckTypeOK' /\ Grounds'
    <2>1. PICK k : k = [at |-> "error", pair |-> check[c].pair]
      OBVIOUS
    <2>2. k \in Check /\ k.at = "error"
      BY <1>3, <2>1 DEF Check, Returned
    <2> QED
      BY <1>6, <1>8, <2>1, <2>2 DEF Return
  <1> QED
    BY <1>1, <1>5, <1>7, <1>8 DEF CheckAsk

LEMMA CheckSetKeepsGrounds ==
  ASSUME CheckTypeOK, Grounds, NEW c \in Clients, CheckSet(c)
  PROVE  CheckTypeOK' /\ Grounds' /\ (Fault \/ NoFault)
  <1>1. /\ UNCHANGED <<exists, changes>> /\ Remember /\ check[c].at = "set"
        /\ Fault \/ NoFault
    BY DEF CheckSet
  <1>2. check[c] \in Check
    BY <1>1 DEF CheckTypeOK, NoCheck
  <1>3. check[c].pair \in Emails \X Repos /\ check[c].pair[2] \in Repos /\ check[c].found \in BOOLEAN
    BY <1>1, <1>2, CheckForms
  <1>4. <<check[c].pair[2], check[c].found>> \in seen
    BY <1>1 DEF Grounds, CheckedRepo
  <1>5. PICK k : k = [at |-> IF check[c].found THEN "yes" ELSE "no", pair |-> check[c].pair]
    OBVIOUS
  <1>6. /\ k \in Check /\ k.pair = check[c].pair
        /\ k.at = IF check[c].found THEN "yes" ELSE "no"
    BY <1>3, <1>5 DEF Check, Returned
  <1>7. SetCheck(c, k)
    BY <1>5 DEF CheckSet, Return
  <1>8. /\ check[c].found = TRUE => <<check[c].pair[2], TRUE>> \in seen
        /\ check[c].found = FALSE => <<check[c].pair[2], FALSE>> \in seen
    BY <1>4
  <1>9. Founded(k)
    BY <1>3, <1>6, <1>8 DEF Founded
  <1>10. /\ verdict' \in [Repos -> {"none", "true", "false"}]
         /\ \A r \in Repos :
              \/ verdict'[r] = verdict[r]
              \/ /\ r = check[c].pair[2]
                 /\ verdict'[r] = IF check[c].found THEN "true" ELSE "false"
    BY <1>3 DEF CheckSet, CheckTypeOK, CheckedRepo
  <1>11. \A r \in Repos : /\ verdict'[r] = "true" => <<r, TRUE>> \in seen
                          /\ verdict'[r] = "false" => <<r, FALSE>> \in seen
    BY <1>3, <1>8, <1>10, FoundedNow
  <1> QED
    BY <1>1, <1>6, <1>7, <1>9, <1>10, <1>11, CallKeepsGrounds

LEMMA CheckedAsKeepsGrounds ==
  ASSUME CheckTypeOK, Grounds, NEW c \in Clients, NEW a, CheckedAs(c, a)
  PROVE  CheckTypeOK' /\ Grounds'
  <1>1. SetCheck(c, NoCheck) /\ UNCHANGED <<exists, changes, verdict>> /\ Remember
    BY DEF CheckedAs
  <1>2. verdict' \in [Repos -> {"none", "true", "false"}]
    BY <1>1 DEF CheckTypeOK
  <1> QED
    BY <1>1, <1>2, FoundedNow, CallKeepsGrounds

-----------------------------------------------------------------------------
(* The start. *)

LEMMA InitControl == Init => Control /\ Grounds /\ ConfirmedIsTracked
  <1> SUFFICES ASSUME Init PROVE Control /\ Grounds /\ ConfirmedIsTracked
    OBVIOUS
  <1>1. Sound /\ TablesTypeOK
    BY InitSound DEF Init, Sound
  <1>2. ApiTypeOK /\ ReplyConsumerTypeOK /\ replyQ \in Seq(Reply) /\ cmdQ = <<>> /\ faults \in 0..MaxFaults
    BY BrokerAssumption, MaxTriesAssumption
    DEF Init, ApiInit, ApiTypeOK, ReplyConsumerInit, ReplyConsumerTypeOK, BrokerInit
  <1>3. CheckTypeOK
    <2>1. ASSUME NEW p \in seen PROVE p \in Repos \X BOOLEAN
      <3>1. PICK r \in Repos : p = <<r, r \in exists>>
        BY <2>1 DEF Init, CheckInit
      <3>2. p = <<r, TRUE>> \/ p = <<r, FALSE>>
        BY <3>1, TruthPair
      <3>3. <<r, TRUE>> \in Repos \X BOOLEAN /\ <<r, FALSE>> \in Repos \X BOOLEAN
        OBVIOUS
      <3> QED
        BY <3>2, <3>3
    <2>2. exists \subseteq Repos /\ changes \in 0..MaxChanges
      BY RepoCheckAssumption DEF Init, CheckInit
    <2>3. verdict \in [Repos -> {"none", "true", "false"}] /\ check \in [Clients -> Check \cup {NoCheck}]
      BY DEF Init, CheckInit
    <2> QED
      BY <2>1, <2>2, <2>3 DEF CheckTypeOK
  <1>4. Grounds
    <2>1. \A c \in Clients : check[c].at = "none"
      BY DEF Init, CheckInit, NoCheck
    <2>2. \A r \in Repos : verdict[r] = "none" /\ <<r, r \in exists>> \in seen
      BY DEF Init, CheckInit
    <2> QED
      BY <2>1, <2>2 DEF Grounds, VerdictHasGrounds
  <1>5. ReplyControl
    BY DEF Init, ReplyConsumerInit, ReplyControl
  <1>6. answer = {}
    BY DEF Init
  <1> QED
    BY <1>1, <1>2, <1>3, <1>4, <1>5, <1>6 DEF Control, TypeOK, ConfirmedIsTracked

-----------------------------------------------------------------------------
(* The responses. *)

\* Only a response that says "confirmed" can be wrong about it.
LEMMA SilentConfirms == Silent => ConfirmedIsTracked' /\ answer' \subseteq Repos
  BY DEF Silent, ConfirmedIsTracked

-----------------------------------------------------------------------------
(* The reply consumer. *)

\* A saga in some state exists.
LEMMA StateExists ==
  ASSUME NEW s, sagas[s] = NoSaga
  PROVE  ~Undecided(s) /\ ~Compensated(s)
  BY DEF NoSaga, Undecided, Compensated

\* The reply being handled is about a saga id.
LEMMA HeadReply ==
  ASSUME replyQ \in Seq(Reply), replyQ # <<>>
  PROVE  Head(replyQ).saga \in Sagas /\ Head(replyQ).status \in ReplyStatus /\ Tail(replyQ) \in Seq(Reply)
  <1>1. Head(replyQ) \in Reply /\ Tail(replyQ) \in Seq(Reply)
    BY TailFacts
  <1> QED
    BY <1>1 DEF Reply

\* Steps that take back no decision leave the reply consumer's knowledge true.
LEMMA ReplyFrame ==
  ASSUME Control, UNCHANGED <<replyQ, rcVars>>,
         \A t \in Sagas : sagas[t] # NoSaga => sagas'[t] = sagas[t]
  PROVE  ReplyControl' /\ ReplyConsumerTypeOK'
  <1>1. UNCHANGED <<rcPc, rcTries>>
    BY DEF rcVars
  <1>2. rcPc # "load" => Head(replyQ).saga \in Sagas
    BY HeadReply DEF Control, TypeOK, ReplyControl
  <1>3. \A t \in Sagas : /\ Undecided(t) => Undecided(t)'
                         /\ Compensated(t) => Compensated(t)'
    BY StateExists DEF Undecided, Compensated
  <1>4. PICK s : s = Head(replyQ).saga
    OBVIOUS
  <1>5. ReplyControl'
    BY <1>1, <1>2, <1>3, <1>4 DEF Control, ReplyControl, Undecided, Compensated
  <1> QED
    BY <1>1, <1>5 DEF Control, TypeOK, ReplyConsumerTypeOK

\* The reply consumer keeps the tables sound: it updates an existing saga, never takes
\* back a compensation, and marks a row only on behalf of a compensated saga.
LEMMA RepliesKeepControl ==
  ASSUME Control, Replies
  PROVE  Control'
  <1>t. TypeOK /\ Sound /\ ReplyControl /\ replyQ \in Seq(Reply) /\ ReplyConsumerTypeOK
    BY DEF Control, TypeOK
  <1>0. /\ UNCHANGED <<cmdQ, apiVars, checkVars>> /\ Silent
        /\ Fault \/ NoFault
    BY DEF Replies, ReplyConsumerNext, ReplyArrives, ReplyLoad, ReplyComplete,
           ReplyCompensate, ReplyMarkFailed, ReplyFail, ReplyAck, NoFault
  <1>1. faults' \in 0..MaxFaults
    BY <1>0, <1>t, BrokerAssumption DEF TypeOK, Fault, NoFault
  <1>2. ApiTypeOK' /\ CheckTypeOK' /\ answer' \subseteq Repos /\ cmdQ' = <<>>
    BY <1>0, <1>t, SilentConfirms DEF TypeOK, ApiTypeOK, CheckTypeOK, apiVars, checkVars
  <1> DEFINE Part == Sound /\ ReplyControl /\ ReplyConsumerTypeOK /\ replyQ \in Seq(Reply)
  <1>s. UNCHANGED tableVars => Sound'
    <2> SUFFICES ASSUME UNCHANGED tableVars PROVE Sound'
      OBVIOUS
    <2>1. TablesTypeOK' /\ SagasGrow /\ UNCHANGED subs
      BY <1>t DEF Sound, TablesTypeOK, SagasGrow, Compensated, tableVars
    <2> QED
      BY <1>t, <2>1, SagaStepSound
  <1>e. ASSUME replyQ # <<>>, StatementErr PROVE Part'
    <2>1. rcPc' = "load" /\ replyQ' \in {replyQ, Tail(replyQ)} /\ rcTries' \in 0..(MaxTries - 1)
      BY <1>t, <1>e, MaxTriesAssumption DEF StatementErr, RetryReply, SettleReply, ReplyConsumerTypeOK
    <2>2. replyQ' \in Seq(Reply)
      BY <1>t, <1>e, <2>1, HeadReply
    <2>3. Sound'
      BY <1>e, <1>s DEF StatementErr
    <2> QED
      BY <2>1, <2>2, <2>3 DEF ReplyControl, ReplyConsumerTypeOK
  <1>p. ASSUME NEW pc, Proceed(pc) PROVE rcPc' = pc /\ UNCHANGED <<rcTries, replyQ>>
    BY <1>p DEF Proceed
  <1>3. ASSUME NEW s \in Sagas, ReplyArrives(s) PROVE Part'
    <2>1. PICK status \in ReplyStatus : replyQ' = Append(replyQ, [saga |-> s, status |-> status])
      BY <1>3 DEF ReplyArrives
    <2>2. [saga |-> s, status |-> status] \in Reply
      BY DEF Reply
    <2>3. replyQ' \in Seq(Reply) /\ replyQ' # <<>> /\ (replyQ # <<>> => Head(replyQ') = Head(replyQ))
      BY <1>t, <2>1, <2>2, AppendFacts
    <2>4. UNCHANGED <<rcPc, rcTries, sagas>> /\ Sound'
      BY <1>3, <1>s DEF ReplyArrives, rcVars, tableVars
    <2> QED
      BY <1>t, <2>3, <2>4 DEF ReplyControl, ReplyConsumerTypeOK, Undecided, Compensated
  <1>4. ASSUME NEW s \in Sagas, ReplyLoad(s) PROVE Part'
    <2>0. replyQ # <<>> /\ s = Head(replyQ).saga
      BY <1>4 DEF ReplyLoad, Handling
    <2>1. CASE StatementErr
      BY <1>e, <2>0, <2>1
    <2>2. CASE ~StatementErr
      <3>1. /\ UNCHANGED tableVars /\ UNCHANGED <<rcTries, replyQ>>
            /\ rcPc' \in {"complete", "compensate", "ack"}
            /\ rcPc' = "complete" => Undecided(s)
            /\ rcPc' = "compensate" => Undecided(s) \/ Compensated(s)
        BY <1>4, <2>2 DEF ReplyLoad, Proceed, Undecided, Compensated
      <3> QED
        BY <1>t, <1>s, <2>0, <3>1 DEF ReplyControl, ReplyConsumerTypeOK, Undecided, Compensated, tableVars
    <2> QED
      BY <2>1, <2>2
  <1>u. ASSUME NEW s \in Sagas, NEW st \in State, sagas[s] # NoSaga, UpdateState(s, st),
               Compensated(s) => st \in {"compensating", "failed"}, UNCHANGED <<subs, outbox>>
        PROVE  Sound' /\ sagas'[s].state = st
    <2>1. Sound'
      BY <1>t, <1>u, UpdateStateSound
    <2> QED
      BY <1>t, <1>u, <2>1, UpdateStateFacts DEF Sound
  <1>5. ASSUME NEW s \in Sagas, ReplyComplete(s) PROVE Part'
    <2>0. replyQ # <<>> /\ s = Head(replyQ).saga /\ Undecided(s) /\ sagas[s] # NoSaga /\ ~Compensated(s)
      BY <1>5, <1>t, StateExists DEF ReplyComplete, Handling, ReplyControl, Undecided, Compensated
    <2>1. CASE StatementErr
      BY <1>e, <2>0, <2>1
    <2>2. CASE UpdateState(s, "completed") /\ Proceed("ack") /\ UNCHANGED <<subs, outbox>>
      <3>1. Sound'
        BY <1>u, <2>0, <2>2 DEF State
      <3> QED
        BY <1>t, <2>0, <2>2, <3>1 DEF Proceed, ReplyControl, ReplyConsumerTypeOK
    <2> QED
      BY <1>5, <2>1, <2>2 DEF ReplyComplete
  <1>6. ASSUME NEW s \in Sagas, ReplyCompensate(s) PROVE Part'
    <2>0. replyQ # <<>> /\ s = Head(replyQ).saga /\ sagas[s] # NoSaga
      BY <1>6, <1>t, StateExists DEF ReplyCompensate, Handling, ReplyControl
    <2>1. CASE StatementErr
      BY <1>e, <2>0, <2>1
    <2>2. CASE UpdateState(s, "compensating") /\ Proceed("markFailed") /\ UNCHANGED <<subs, outbox>>
      <3>1. Sound' /\ sagas'[s].state = "compensating"
        BY <1>u, <2>0, <2>2 DEF State
      <3> QED
        BY <1>t, <2>0, <2>2, <3>1 DEF Proceed, ReplyControl, ReplyConsumerTypeOK, Compensated
    <2> QED
      BY <1>6, <2>1, <2>2 DEF ReplyCompensate
  <1>7. ASSUME NEW s \in Sagas, ReplyMarkFailed(s) PROVE Part'
    <2>0. replyQ # <<>> /\ s = Head(replyQ).saga /\ Compensated(s) /\ sagas[s] # NoSaga
      BY <1>7, <1>t, StateExists DEF ReplyMarkFailed, Handling, ReplyControl
    <2>1. CASE StatementErr
      BY <1>e, <2>0, <2>1
    <2>2. CASE /\ MarkFailedHits(sagas[s].sub) /\ MarkFailed(sagas[s].sub) /\ Proceed("fail")
               /\ UNCHANGED <<sagas, outbox, stale, updatedAt>>
      <3>1. Sound'
        BY <1>t, <2>0, <2>2, MarkFailedSound
      <3> QED
        BY <1>t, <2>0, <2>2, <3>1 DEF Proceed, ReplyControl, ReplyConsumerTypeOK, Compensated
    <2> QED
      BY <1>7, <2>1, <2>2 DEF ReplyMarkFailed
  <1>8. ASSUME NEW s \in Sagas, ReplyFail(s) PROVE Part'
    <2>0. replyQ # <<>> /\ s = Head(replyQ).saga /\ Compensated(s) /\ sagas[s] # NoSaga
      BY <1>8, <1>t, StateExists DEF ReplyFail, Handling, ReplyControl
    <2>1. CASE StatementErr
      BY <1>e, <2>0, <2>1
    <2>2. CASE UpdateState(s, "failed") /\ Proceed("ack") /\ UNCHANGED <<subs, outbox>>
      <3>1. Sound'
        BY <1>u, <2>0, <2>2 DEF State
      <3> QED
        BY <1>t, <2>0, <2>2, <3>1 DEF Proceed, ReplyControl, ReplyConsumerTypeOK
    <2> QED
      BY <1>8, <2>1, <2>2 DEF ReplyFail
  <1>9. ASSUME ReplyAck PROVE Part'
    <2>1. /\ rcPc = "ack" /\ rcPc' = "load" /\ rcTries' = 0 /\ UNCHANGED tableVars
          /\ replyQ' \in {replyQ, Tail(replyQ)}
      BY <1>9 DEF ReplyAck, SettleReply
    <2>2. replyQ' \in Seq(Reply)
      BY <1>t, <2>1, HeadReply DEF ReplyControl
    <2> QED
      BY <1>s, <2>1, <2>2, MaxTriesAssumption DEF ReplyControl, ReplyConsumerTypeOK
  <1>10. Part'
    BY <1>3, <1>4, <1>5, <1>6, <1>7, <1>8, <1>9 DEF Replies, ReplyConsumerNext
  <1> QED
    BY <1>1, <1>2, <1>10 DEF Control, TypeOK, Sound

-----------------------------------------------------------------------------
(* The handlers. *)

\* Only ConfirmSteps answers that a subscription is confirmed; what is tracked stays
\* tracked.
Kept == Control' /\ Grounds' /\ ConfirmedIsTracked'

\* A step of a handler that calls CheckRepoExists, or nothing at all: the tables and
\* the reply consumer are left alone.
LEMMA TablesFrame ==
  ASSUME Control, UNCHANGED <<tableVars, cmdQ, replyQ, apiVars, rcVars>>, CheckTypeOK',
         Fault \/ NoFault, Silent
  PROVE  Control' /\ ConfirmedIsTracked'
  <1>1. UNCHANGED <<subs, sagas, outbox, stale, updatedAt>>
    BY DEF tableVars
  <1>2. TablesTypeOK' /\ SagasGrow
    BY <1>1 DEF Control, Sound, TablesTypeOK, SagasGrow, Compensated
  <1>3. Sound'
    BY <1>1, <1>2, SagaStepSound DEF Control
  <1>4. ReplyControl' /\ ReplyConsumerTypeOK'
    BY <1>1, ReplyFrame
  <1>5. ApiTypeOK'
    BY DEF Control, TypeOK, ApiTypeOK, apiVars
  <1>6. faults' \in 0..MaxFaults
    BY BrokerAssumption DEF Control, TypeOK, Fault, NoFault
  <1> QED
    BY <1>2, <1>3, <1>4, <1>5, <1>6, SilentConfirms DEF Control, TypeOK

\* A handler's step on the tables that starts no saga.
LEMMA PlainKeepsControl ==
  ASSUME Control, NEW c \in Clients, PlainStep(c), UNCHANGED rcVars, CheckTypeOK',
         answer' \subseteq Repos
  PROVE  Control'
  <1>1. req[c] \in Req \cup {NoReq} /\ tracked \subseteq Repos /\ req \in [Clients -> Req \cup {NoReq}]
    BY DEF Control, TypeOK, ApiTypeOK
  <1>2. /\ Sound'
        /\ UNCHANGED <<sagas, outbox, stale, updatedAt, cmdQ, replyQ>>
        /\ tracked' \subseteq Repos
        /\ \E r \in Req \cup {NoReq} : Continue(c, r)
        /\ Fault \/ NoFault
    BY <1>1, PlainStepFacts DEF Control
  <1>3. req' \in [Clients -> Req \cup {NoReq}]
    BY <1>1, <1>2 DEF Continue
  <1>4. ReplyControl' /\ ReplyConsumerTypeOK'
    BY <1>2, ReplyFrame
  <1>5. faults' \in 0..MaxFaults
    BY <1>2, BrokerAssumption DEF Control, TypeOK, Fault, NoFault
  <1> QED
    BY <1>2, <1>3, <1>4, <1>5 DEF Control, Sound, TypeOK, ApiTypeOK

\* T1.
LEMMA T1KeepsControl ==
  ASSUME Control, NEW c \in Clients, NEW n \in Sagas,
         StartConfirmation(c, n) \/ ReactivateConfirmation(c, n),
         UNCHANGED rcVars, CheckTypeOK', Silent
  PROVE  Control'
  <1>1. req[c] \in Req \cup {NoReq} /\ req \in [Clients -> Req \cup {NoReq}] /\ TablesTypeOK
    BY DEF Control, TypeOK, ApiTypeOK
  <1>2. /\ UNCHANGED <<cmdQ, replyQ, faults, tracked>> /\ Finish(c) /\ sagas[n] = NoSaga
    BY DEF StartConfirmation, ReactivateConfirmation, NextSaga, brokerVars
  <1>3. req' \in [Clients -> Req \cup {NoReq}]
    BY <1>1, <1>2 DEF Finish, Continue
  <1>4. Sound' /\ \A t \in Sagas \ {n} : sagas'[t] = sagas[t]
    <2>1. CASE StartConfirmation(c, n)
      <3>1. req[c].pair \in Emails \X Repos
        BY <1>1, <2>1 DEF StartConfirmation, Req, NoReq
      <3>2. /\ NextSaga(n) /\ CreateSub(n, req[c].pair) /\ CreateSaga(n, n)
            /\ EnqueueConfirmation(n, n)
        BY <2>1 DEF StartConfirmation, EnqueueConfirmation
      <3>3. /\ outbox' \in [Sagas -> {"none", "unpublished", "published"}]
            /\ \A t \in Sagas \ {n} : sagas'[t] = sagas[t]
        BY <1>1, <3>2, EnqueueFacts
      <3> QED
        BY <3>1, <3>2, <3>3, CreateT1Sound DEF Control
    <2>2. CASE ReactivateConfirmation(c, n)
      <3>1. req[c].sub \in Sagas
        BY <1>1, <2>2 DEF ReactivateConfirmation, Req, NoReq
      <3>2. /\ NextSaga(n) /\ ReactivateSub(n, req[c].sub) /\ CreateSaga(n, req[c].sub)
            /\ EnqueueConfirmation(n, req[c].sub)
        BY <2>2 DEF ReactivateConfirmation, EnqueueConfirmation
      <3>3. /\ outbox' \in [Sagas -> {"none", "unpublished", "published"}]
            /\ \A t \in Sagas \ {n} : sagas'[t] = sagas[t]
        BY <1>1, <3>1, <3>2, EnqueueFacts
      <3> QED
        BY <3>1, <3>2, <3>3, ReactivateT1Sound DEF Control
    <2> QED
      BY <2>1, <2>2
  <1>5. ReplyControl' /\ ReplyConsumerTypeOK'
    BY <1>2, <1>4, ReplyFrame
  <1> QED
    BY <1>2, <1>3, <1>4, <1>5, SilentConfirms DEF Control, Sound, TypeOK, ApiTypeOK

\* Nothing that CheckRepoExists keeps is touched.
LEMMA CheckFrame ==
  ASSUME Control, Grounds, UNCHANGED checkVars
  PROVE  CheckTypeOK' /\ Grounds'
  BY DEF Control, TypeOK, CheckTypeOK, Grounds, VerdictHasGrounds, CheckedRepo, checkVars

LEMMA ClientKeeps ==
  ASSUME Control, Grounds, NEW c \in Clients, Client(c)
  PROVE  Kept
  <1>0. UNCHANGED rcVars /\ CheckTypeOK
    BY DEF Client, Control, TypeOK
  <1>1. ASSUME NEW pair \in Emails \X Repos, SubscribeStart(c, pair) PROVE Kept
    <2>1. UNCHANGED <<tableVars, cmdQ, replyQ, apiVars>> /\ Silent /\ CheckGet(c, pair)
      BY <1>1 DEF SubscribeStart
    <2>2. CheckTypeOK' /\ Grounds' /\ (Fault \/ NoFault)
      BY <1>0, <2>1, CheckGetKeepsGrounds
    <2> QED
      BY <1>0, <2>1, <2>2, TablesFrame DEF Kept
  <1>2. ASSUME NEW t \in Sagas, TokenFound(c, t) PROVE Kept
    <2>1. PlainStep(c) /\ Silent /\ UNCHANGED checkVars
      BY <1>2 DEF TokenFound, PlainStep
    <2> QED
      BY <1>0, <2>1, CheckFrame, PlainKeepsControl, SilentConfirms DEF Kept
  <1> QED
    BY <1>1, <1>2 DEF Client

LEMMA HandlerKeeps ==
  ASSUME Control, Grounds, NEW c \in Clients, Handler(c)
  PROVE  Kept
  <1>0. UNCHANGED rcVars /\ CheckTypeOK
    BY DEF Handler, Control, TypeOK
  <1>1. CASE SubscribeCheck(c)
    <2>1. UNCHANGED <<tableVars, cmdQ, replyQ, apiVars>> /\ Silent /\ (CheckAsk(c) \/ CheckSet(c))
      BY <1>1 DEF SubscribeCheck, CheckStep
    <2>2. CheckTypeOK' /\ Grounds' /\ (Fault \/ NoFault)
      BY <1>0, <2>1, CheckAskKeepsGrounds, CheckSetKeepsGrounds
    <2> QED
      BY <1>0, <2>1, <2>2, TablesFrame DEF Kept
  <1>2. CASE SubscribeRefused(c)
    <2>1. /\ UNCHANGED <<tableVars, cmdQ, replyQ, apiVars>> /\ NoFault /\ Silent
          /\ CheckedAs(c, "no") \/ CheckedAs(c, "error")
      BY <1>2 DEF SubscribeRefused, NoFault, brokerVars
    <2> QED
      BY <1>0, <2>1, CheckedAsKeepsGrounds, TablesFrame DEF Kept
  <1>3. CASE SubscribeDecides(c)
    <2>1. CheckedAs(c, "yes") /\ Silent
      BY <1>3 DEF SubscribeDecides
    <2>2. CheckTypeOK' /\ Grounds'
      BY <1>0, <2>1, CheckedAsKeepsGrounds
    <2>3. check[c] \in Check
      BY <1>0, <2>1 DEF CheckedAs, CheckTypeOK, NoCheck
    <2>4. CASE SubscribeLookup(c, check[c].pair)
      <3>1. PlainStep(c)
        BY <2>3, <2>4, CheckForms DEF PlainStep
      <3> QED
        BY <1>0, <2>1, <2>2, <3>1, PlainKeepsControl, SilentConfirms DEF Kept
    <2>5. CASE UNCHANGED <<tableVars, cmdQ, replyQ, apiVars>> /\ (Fault \/ NoFault)
      BY <1>0, <2>1, <2>2, <2>5, TablesFrame DEF Kept
    <2> QED
      BY <1>3, <2>4, <2>5 DEF SubscribeDecides, NoFault, brokerVars
  <1>4. CASE SubscribeT1(c)
    <2>1. UNCHANGED checkVars /\ Silent
      BY <1>4 DEF SubscribeT1
    <2>2. CASE AbortT1(c)
      BY <1>0, <2>1, <2>2, CheckFrame, PlainKeepsControl, SilentConfirms DEF PlainStep, Kept
    <2>3. ASSUME NEW n \in Sagas, StartConfirmation(c, n) \/ ReactivateConfirmation(c, n) PROVE Kept
      BY <1>0, <2>1, <2>3, CheckFrame, T1KeepsControl, SilentConfirms DEF Kept
    <2> QED
      BY <1>4, <2>2, <2>3 DEF SubscribeT1
  <1>5. CASE ConfirmSteps(c)
    <2>0. UNCHANGED checkVars
      BY <1>5 DEF ConfirmSteps
    <2>1. CASE ConfirmUpdate(c) /\ Silent
      BY <1>0, <2>0, <2>1, CheckFrame, PlainKeepsControl, SilentConfirms DEF PlainStep, Kept
    <2>2. CASE ConfirmRegister(c) /\ Silent
      BY <1>0, <2>0, <2>2, CheckFrame, PlainKeepsControl, SilentConfirms DEF PlainStep, Kept
    <2>3. CASE ConfirmRegister(c) /\ faults' = faults /\ RespondConfirmed(req[c].repo)
      <3>1. req[c].repo \in Repos
        BY <2>3 DEF ConfirmRegister, Control, TypeOK, ApiTypeOK, Req, NoReq
      <3>2. req[c].repo \in tracked'
        BY <2>3, BrokerAssumption DEF ConfirmRegister, Fault, NoFault, Control, TypeOK
      <3>3. answer' \subseteq Repos /\ answer' = {req[c].repo}
        BY <2>3, <3>1 DEF RespondConfirmed
      <3>4. ConfirmedIsTracked'
        BY <3>2, <3>3 DEF ConfirmedIsTracked
      <3> QED
        BY <1>0, <2>0, <2>3, <3>3, <3>4, CheckFrame, PlainKeepsControl DEF PlainStep, Kept
    <2> QED
      BY <1>5, <2>1, <2>2, <2>3 DEF ConfirmSteps
  <1>6. CASE UnsubscribeSteps(c)
    <2>1. PlainStep(c) /\ Silent /\ UNCHANGED checkVars
      BY <1>6 DEF UnsubscribeSteps, PlainStep
    <2> QED
      BY <1>0, <2>1, CheckFrame, PlainKeepsControl, SilentConfirms DEF Kept
  <1> QED
    BY <1>1, <1>2, <1>3, <1>4, <1>5, <1>6 DEF Handler

\* The monolith forgets every call in flight.
LEMMA CrashKeeps ==
  ASSUME Control, Grounds, MonolithCrash
  PROVE  Kept
  <1>0. /\ UNCHANGED <<tableVars, cmdQ, replyQ, exists, changes, verdict, tracked>> /\ Fault
        /\ Silent /\ Remember
        /\ req' = [c \in Clients |-> NoReq] /\ check' = [c \in Clients |-> NoCheck]
        /\ rcPc' = "load" /\ rcTries' = 0
    BY DEF MonolithCrash, ApiReset, ReplyConsumerReset
  <1>1. CheckTypeOK /\ TablesTypeOK /\ Sound
    BY DEF Control, TypeOK
  <1>2. CheckTypeOK'
    BY <1>0, <1>1, RememberFacts DEF CheckTypeOK
  <1>3. \A c \in Clients : \A k : k = check'[c] => Founded(k)
    BY <1>0, <1>1, FoundedNow
  <1>4. Grounds'
    BY <1>0, <1>1, <1>2, <1>3, FoundedNow, GroundsStep
  <1>5. TablesTypeOK' /\ SagasGrow /\ UNCHANGED subs
    BY <1>0, <1>1 DEF TablesTypeOK, SagasGrow, Compensated, tableVars
  <1>6. Sound'
    BY <1>1, <1>5, SagaStepSound
  <1>7. ApiTypeOK' /\ ReplyConsumerTypeOK' /\ ReplyControl'
    BY <1>0, MaxTriesAssumption DEF Control, TypeOK, ApiTypeOK, ReplyConsumerTypeOK, ReplyControl
  <1>8. faults' \in 0..MaxFaults
    BY <1>0, BrokerAssumption DEF Control, TypeOK, Fault
  <1> QED
    BY <1>0, <1>2, <1>4, <1>5, <1>6, <1>7, <1>8, SilentConfirms DEF Kept, Control, TypeOK

LEMMA NextKeeps ==
  ASSUME Control, Grounds, ConfirmedIsTracked, [Next]_vars
  PROVE  Kept
  <1>1. CASE UNCHANGED vars
    <2>1. UNCHANGED <<tableVars, cmdQ, replyQ, faults, apiVars, checkVars, rcVars, answer, tracked>>
      BY <1>1 DEF vars, brokerVars, apiVars
    <2>2. CheckTypeOK' /\ Grounds'
      BY <2>1, CheckFrame
    <2>3. ConfirmedIsTracked' /\ answer' \subseteq Repos
      BY <2>1 DEF ConfirmedIsTracked, Control, TypeOK
    <2>4. TablesTypeOK' /\ SagasGrow /\ UNCHANGED <<subs, sagas>>
      BY <2>1 DEF Control, Sound, TablesTypeOK, SagasGrow, Compensated, tableVars
    <2>5. Sound'
      BY <2>4, SagaStepSound DEF Control
    <2>6. ReplyControl' /\ ReplyConsumerTypeOK'
      BY <2>1, <2>4, ReplyFrame
    <2> QED
      BY <2>1, <2>2, <2>3, <2>4, <2>5, <2>6 DEF Kept, Control, TypeOK, ApiTypeOK, apiVars
  <1>2. CASE \E c \in Clients : Client(c) \/ Handler(c)
    BY <1>2, ClientKeeps, HandlerKeeps
  <1>3. CASE Replies
    <2>1. UNCHANGED checkVars /\ Silent
      BY <1>3 DEF Replies
    <2> QED
      BY <1>3, <2>1, RepliesKeepControl, CheckFrame, SilentConfirms DEF Kept
  <1>4. CASE \E r \in Repos : Expiry(r) \/ GitHub(r)
    <2>1. /\ \E r \in Repos : RepoChanges(r) \/ VerdictExpires(r)
          /\ UNCHANGED <<tableVars, cmdQ, replyQ, apiVars, rcVars>> /\ NoFault /\ Silent
      BY <1>4 DEF Expiry, GitHub, NoFault, brokerVars
    <2>2. CheckTypeOK' /\ Grounds'
      BY <2>1, WorldKeepsGrounds DEF Control, TypeOK
    <2> QED
      BY <2>1, <2>2, TablesFrame DEF Kept
  <1>5. CASE MonolithCrash
    BY <1>5, CrashKeeps
  <1> QED
    BY <1>1, <1>2, <1>3, <1>4, <1>5 DEF Next

-----------------------------------------------------------------------------
(***************************************************************************)
(* A live saga has its pair to itself.                                     *)
(*                                                                         *)
(* LiveSagaOwnsPair is not inductive: it depends on the reply consumer     *)
(* never marking failed a row that was revived meanwhile, and hence on     *)
(* which sagas may be between compensating and failed.                     *)
(***************************************************************************)

\* The saga of the reply at hand.
AtHand == Head(replyQ).saga

Owned ==
  /\ \A s \in Sagas : sagas[s] # NoSaga => sagas[sagas[s].sub] # NoSaga
  /\ \A s \in Sagas : Live(s) => subs[sagas[s].sub].token = s
  /\ \A i \in Sagas : subs[i].status = "failed" => Compensated(subs[i].token)
  /\ \A s \in Sagas :
       sagas[s].state = "compensating" /\ IsRow(sagas[s].sub) =>
         rcPc \in {"markFailed", "fail"} /\ s = AtHand
  /\ rcPc = "compensate" => sagas[AtHand].state \in {"subscription_created", "compensating"}
  /\ rcPc = "markFailed" /\ IsRow(sagas[AtHand].sub) =>
       subs[sagas[AtHand].sub].token = AtHand /\ subs[sagas[AtHand].sub].status # "failed"

Ownership == faults = 0 => Owned

LEMMA InitOwnership == Init => Ownership
  BY DEF Init, TablesInit, ReplyConsumerInit, Ownership, Owned, Live, IsRow, NoSub, NoSaga

\* A reply that is being handled is about a saga id.
LEMMA AtHandFacts ==
  ASSUME Control, rcPc # "load"
  PROVE  AtHand \in Sagas
  BY HeadReply DEF Control, TypeOK, ReplyControl, AtHand

\* Rows are deleted, confirmed, or left alone.
RowsKept ==
  \A i \in Sagas :
    \/ subs'[i] = subs[i]
    \/ subs'[i] = NoSub
    \/ subs[i] # NoSub /\ subs'[i].token = subs[i].token /\ subs'[i].status = "confirmed"

LEMMA PlainRows ==
  ASSUME Sound, NEW c \in Clients, PlainStep(c)
  PROVE  RowsKept
  <1>1. CASE UNCHANGED subs
    BY <1>1 DEF RowsKept
  <1>2. ASSUME NEW t, ConfirmSub(t) PROVE RowsKept
    BY <1>2, ConfirmSubFacts DEF Sound, RowsKept
  <1>3. ASSUME NEW t, DeleteSub(t) PROVE RowsKept
    BY <1>3, DeleteSubFacts DEF Sound, RowsKept
  <1> QED
    BY <1>1, <1>2, <1>3 DEF PlainStep, AbortT1, ConfirmUpdate, ConfirmRegister, UnsubscribeDelete,
         SubscribeLookup, ConfirmLookup, UnsubscribeLookup, tableVars

\* Whoever only deletes or confirms rows takes no pair from anybody.
LEMMA OwnedFrame ==
  ASSUME Control, Owned, UNCHANGED <<sagas, rcPc>>, RowsKept,
         rcPc # "load" => AtHand' = AtHand
  PROVE  Owned'
  <1>1. \A i \in Sagas : /\ IsRow(i)' => IsRow(i) /\ subs'[i].token = subs[i].token
                         /\ subs'[i].status = "failed" => subs[i].status = "failed" /\ subs'[i] = subs[i]
    BY DEF RowsKept, IsRow, NoSub
  <1>2. \A s \in Sagas : sagas[s] # NoSaga => sagas[s].sub \in Sagas
    BY SagaSub DEF Control, Sound
  <1>3. \A s \in Sagas : Live(s)' => Live(s)
    BY <1>1, <1>2 DEF Live, Compensated
  <1>4. \A s \in Sagas : Live(s)' => subs'[sagas'[s].sub].token = s
    BY <1>1, <1>2, <1>3 DEF Owned, Live
  <1>5. \A i \in Sagas : subs'[i].status = "failed" => Compensated(subs[i].token)'
    BY <1>1 DEF Owned, Compensated
  <1>6. \A s \in Sagas : sagas[s].state = "compensating" => sagas[s] # NoSaga
    BY DEF NoSaga
  <1>7. \A s \in Sagas : sagas'[s].state = "compensating" /\ IsRow(sagas[s].sub)' =>
          rcPc' \in {"markFailed", "fail"} /\ s = AtHand'
    BY <1>1, <1>2, <1>6 DEF Owned
  <1>8. rcPc # "load" => AtHand \in Sagas
    BY AtHandFacts
  <1>9. rcPc = "markFailed" => sagas[AtHand] # NoSaga
    BY StateExists DEF Control, ReplyControl, AtHand
  <1>10. rcPc' = "markFailed" /\ IsRow(sagas[AtHand].sub)' =>
           subs'[sagas'[AtHand'].sub].token = AtHand' /\ subs'[sagas'[AtHand'].sub].status # "failed"
    BY <1>1, <1>2, <1>8, <1>9 DEF Owned
  <1>11. rcPc' = "compensate" => sagas'[AtHand'].state \in {"subscription_created", "compensating"}
    BY DEF Owned
  <1>12. \A s \in Sagas : sagas'[s] # NoSaga => sagas'[sagas'[s].sub] # NoSaga
    BY DEF Owned
  <1> QED
    BY <1>4, <1>5, <1>7, <1>10, <1>11, <1>12 DEF Owned

\* T1 takes a pair that nobody has, or one whose saga has been given up.
LEMMA T1KeepsOwned ==
  ASSUME Control, Owned, NEW c \in Clients, NEW n \in Sagas,
         StartConfirmation(c, n) \/ ReactivateConfirmation(c, n), UNCHANGED rcVars
  PROVE  Owned'
  <1>1. /\ req[c] \in Req \cup {NoReq} /\ TablesTypeOK /\ RowsPointBack
        /\ sagas[n] = NoSaga /\ UNCHANGED <<replyQ, rcPc>> /\ AtHand' = AtHand
    BY DEF Control, TypeOK, ApiTypeOK, Sound, StartConfirmation, ReactivateConfirmation, NextSaga,
           brokerVars, rcVars, AtHand
  <1>2. PICK i \in Sagas, p \in Emails \X Repos :
          /\ EnqueueConfirmation(n, i)
          /\ subs' = [subs EXCEPT ![i] =
               [pair |-> p, token |-> n, confirmed |-> FALSE, status |-> "pending"]]
          /\ i = n \/ subs[i].status = "failed"
    <2>1. CASE StartConfirmation(c, n)
      <3>1. req[c].pair \in Emails \X Repos
        BY <1>1, <2>1 DEF StartConfirmation, Req, NoReq
      <3> QED
        BY <2>1, <3>1 DEF StartConfirmation, CreateSub
    <2>2. CASE ReactivateConfirmation(c, n)
      <3>1. req[c].sub \in Sagas
        BY <1>1, <2>2 DEF ReactivateConfirmation, Req, NoReq
      <3>2. subs[req[c].sub].status = "failed"
        BY <2>2 DEF ReactivateConfirmation, ReactivateSub
      <3>3. subs[req[c].sub].pair \in Emails \X Repos
        BY <1>1, <3>1, <3>2 DEF TablesTypeOK, SubRow, NoSub
      <3> QED
        BY <2>2, <3>1, <3>2, <3>3 DEF ReactivateConfirmation, ReactivateSub
    <2> QED
      BY <2>1, <2>2
  <1>3. /\ sagas'[n].sub = i /\ sagas'[n].state = "subscription_created" /\ sagas'[n] # NoSaga
        /\ \A t \in Sagas \ {n} : sagas'[t] = sagas[t]
    BY <1>1, <1>2, EnqueueFacts
  <1>4. /\ subs'[i].token = n /\ subs'[i].status = "pending" /\ subs'[i] # NoSub
        /\ \A j \in Sagas \ {i} : subs'[j] = subs[j]
    BY <1>1, <1>2 DEF TablesTypeOK, NoSub
  <1>5. \A s \in Sagas \ {n} : sagas[s] # NoSaga => sagas[s].sub \in Sagas /\ sagas[s].sub # n
    BY <1>1, SagaSub DEF Owned
  <1>6. subs[i].status = "failed" => IsRow(i)
    BY DEF IsRow, NoSub
  <1>7. \A s \in Sagas \ {n} : Live(s) /\ sagas[s].sub = i => FALSE
    <2> SUFFICES ASSUME NEW s \in Sagas \ {n}, Live(s), sagas[s].sub = i PROVE FALSE
      OBVIOUS
    <2>1. subs[i].status = "failed" /\ subs[i].token = s
      BY <1>2, <1>5 DEF Owned, Live
    <2> QED
      BY <2>1 DEF Owned, Live
  <1>8. \A s \in Sagas : Live(s)' => subs'[sagas'[s].sub].token = s
    <2> SUFFICES ASSUME NEW s \in Sagas, Live(s)' PROVE subs'[sagas'[s].sub].token = s
      OBVIOUS
    <2>1. CASE s = n
      BY <1>3, <1>4, <2>1
    <2>2. CASE s # n /\ sagas[s].sub = i
      <3>1. sagas'[s] = sagas[s] /\ sagas[s] # NoSaga /\ ~Compensated(s)
        BY <1>3, <2>2 DEF Live, Compensated
      <3>2. IsRow(i)
        BY <1>2, <1>5, <1>6, <2>2, <3>1
      <3> QED
        BY <1>7, <2>2, <3>1, <3>2 DEF Live
    <2>3. CASE s # n /\ sagas[s].sub # i
      <3>1. sagas'[s] = sagas[s] /\ sagas[s] # NoSaga /\ ~Compensated(s) /\ sagas[s].sub \in Sagas
        BY <1>3, <1>5, <2>3 DEF Live, Compensated
      <3>2. subs'[sagas[s].sub] = subs[sagas[s].sub]
        BY <1>4, <2>3, <3>1
      <3>3. Live(s)
        BY <3>1, <3>2 DEF Live, IsRow
      <3> QED
        BY <3>1, <3>2, <3>3 DEF Owned
    <2> QED
      BY <2>1, <2>2, <2>3
  <1>9. \A j \in Sagas : subs'[j].status = "failed" => Compensated(subs[j].token)'
    <2> SUFFICES ASSUME NEW j \in Sagas, subs'[j].status = "failed" PROVE Compensated(subs[j].token)'
      OBVIOUS
    <2>1. j # i /\ subs'[j] = subs[j] /\ subs[j] \in SubRow
      BY <1>1, <1>4 DEF TablesTypeOK, NoSub
    <2>2. subs[j].token \in Sagas /\ Compensated(subs[j].token)
      BY <2>1 DEF Owned, SubRow
    <2>3. subs[j].token # n
      BY <1>1, <2>2, StateExists
    <2> QED
      BY <1>3, <2>1, <2>2, <2>3 DEF Compensated
  <1>10. \A s \in Sagas : sagas'[s].state = "compensating" /\ IsRow(sagas[s].sub)' =>
           rcPc' \in {"markFailed", "fail"} /\ s = AtHand'
    <2> SUFFICES ASSUME NEW s \in Sagas, sagas'[s].state = "compensating", IsRow(sagas[s].sub)'
                 PROVE  rcPc' \in {"markFailed", "fail"} /\ s = AtHand'
      OBVIOUS
    <2>1. s # n /\ sagas'[s] = sagas[s] /\ sagas[s] # NoSaga
      BY <1>3 DEF NoSaga
    <2>2. sagas[s].sub \in Sagas /\ sagas[s].sub # n
      BY <1>5, <2>1
    <2>3. IsRow(sagas[s].sub)
      BY <1>2, <1>4, <1>6, <2>1, <2>2 DEF IsRow
    <2> QED
      BY <1>1, <2>1, <2>3 DEF Owned
  <1>11. rcPc # "load" => AtHand \in Sagas
    BY AtHandFacts
  <1>12. rcPc \in {"compensate", "markFailed"} => sagas[AtHand] # NoSaga /\ AtHand # n
    BY <1>1, StateExists DEF Control, ReplyControl, AtHand
  <1>13. rcPc' = "compensate" => sagas'[AtHand'].state \in {"subscription_created", "compensating"}
    BY <1>1, <1>3, <1>11, <1>12 DEF Owned
  <1>14. rcPc' = "markFailed" /\ IsRow(sagas[AtHand].sub)' =>
           subs'[sagas'[AtHand'].sub].token = AtHand' /\ subs'[sagas'[AtHand'].sub].status # "failed"
    <2> SUFFICES ASSUME rcPc = "markFailed", subs'[sagas'[AtHand].sub] # NoSub
                 PROVE  /\ subs'[sagas'[AtHand].sub].token = AtHand
                        /\ subs'[sagas'[AtHand].sub].status # "failed"
      BY <1>1 DEF IsRow
    <2>1. /\ AtHand \in Sagas \ {n} /\ sagas'[AtHand] = sagas[AtHand]
          /\ sagas[AtHand].sub \in Sagas /\ sagas[AtHand].sub # n
      BY <1>3, <1>5, <1>11, <1>12
    <2>2. IsRow(sagas[AtHand].sub)
      BY <1>2, <1>4, <1>6, <2>1 DEF IsRow
    <2>3. subs[sagas[AtHand].sub].token = AtHand /\ subs[sagas[AtHand].sub].status # "failed"
      BY <2>2 DEF Owned
    <2>4. sagas[AtHand].sub # i
      BY <1>2, <2>1, <2>3
    <2> QED
      BY <1>4, <2>1, <2>3, <2>4
  <1>15. \A s \in Sagas : sagas'[s] # NoSaga => sagas'[sagas'[s].sub] # NoSaga
    <2>1. i # n => sagas[i] # NoSaga
      <3> SUFFICES ASSUME i # n PROVE sagas[i] # NoSaga
        OBVIOUS
      <3>1. IsRow(i)
        BY <1>2, <1>6
      <3>2. subs[i].token \in Sagas /\ sagas[subs[i].token] # NoSaga /\ sagas[subs[i].token].sub = i
        BY <1>1, <3>1 DEF RowsPointBack, IsRow, TablesTypeOK, SubRow
      <3> QED
        BY <3>2 DEF Owned
    <2>2. sagas'[i] # NoSaga
      BY <1>3, <2>1
    <2> QED
      BY <1>3, <1>5, <2>2 DEF Owned
  <1> QED
    BY <1>8, <1>9, <1>10, <1>13, <1>14, <1>15 DEF Owned

\* The reply consumer moves on without touching the tables.
LEMMA OwnedQuiet ==
  ASSUME Control, Owned, UNCHANGED <<sagas, subs>>,
         rcPc' \in {"load", "complete", "compensate", "ack"},
         \A s \in Sagas : ~(sagas[s].state = "compensating" /\ IsRow(sagas[s].sub)),
         rcPc' = "compensate" => sagas'[AtHand'].state \in {"subscription_created", "compensating"}
  PROVE  Owned'
  <1>1. \A s \in Sagas : Live(s)' => subs'[sagas'[s].sub].token = s
    BY DEF Owned, Live, Compensated, IsRow
  <1>2. \A i \in Sagas : subs'[i].status = "failed" => Compensated(subs[i].token)'
    BY DEF Owned, Compensated
  <1>3. \A s \in Sagas : ~(sagas'[s].state = "compensating" /\ IsRow(sagas[s].sub)')
    BY DEF IsRow
  <1>4. \A s \in Sagas : sagas'[s] # NoSaga => sagas'[sagas'[s].sub] # NoSaga
    BY DEF Owned
  <1> QED
    BY <1>1, <1>2, <1>3, <1>4 DEF Owned

\* The saga at hand is decided: completed, compensating, or failed at last.
LEMMA OwnedUpdate ==
  ASSUME Control, Owned, NEW s \in Sagas, NEW st \in State, sagas[s] # NoSaga,
         UpdateState(s, st), UNCHANGED <<subs, replyQ>>, s = AtHand,
         Compensated(s) => st \in {"compensating", "failed"},
         \A t \in Sagas \ {s} : ~(sagas[t].state = "compensating" /\ IsRow(sagas[t].sub)),
         rcPc' = IF st = "compensating" THEN "markFailed" ELSE "ack",
         st = "compensating" /\ IsRow(sagas[s].sub) =>
           subs[sagas[s].sub].token = s /\ subs[sagas[s].sub].status # "failed"
  PROVE  Owned'
  <1>1. /\ sagas'[s].state = st /\ sagas'[s].sub = sagas[s].sub /\ sagas'[s] # NoSaga
        /\ \A t \in Sagas \ {s} : sagas'[t] = sagas[t]
        /\ AtHand' = AtHand
    BY UpdateStateFacts DEF Control, Sound, AtHand
  <1>2. \A t \in Sagas : Live(t)' => Live(t) /\ sagas'[t].sub = sagas[t].sub
    <2> SUFFICES ASSUME NEW t \in Sagas, Live(t)' PROVE Live(t) /\ sagas'[t].sub = sagas[t].sub
      OBVIOUS
    <2>1. CASE t = s
      BY <1>1, <2>1 DEF Live, Compensated, IsRow
    <2>2. CASE t # s
      BY <1>1, <2>2 DEF Live, Compensated, IsRow
    <2> QED
      BY <2>1, <2>2
  <1>3. \A t \in Sagas : Live(t)' => subs'[sagas'[t].sub].token = t
    BY <1>2 DEF Owned
  <1>4. \A i \in Sagas : subs'[i].status = "failed" => Compensated(subs[i].token)'
    <2> SUFFICES ASSUME NEW i \in Sagas, subs[i].status = "failed" PROVE Compensated(subs[i].token)'
      OBVIOUS
    <2>1. subs[i].token \in Sagas /\ Compensated(subs[i].token)
      BY DEF Owned, Control, Sound, TablesTypeOK, SubRow, NoSub
    <2> QED
      BY <1>1, <2>1 DEF Compensated
  <1>5. \A t \in Sagas : sagas'[t].state = "compensating" /\ IsRow(sagas[t].sub)' =>
          rcPc' \in {"markFailed", "fail"} /\ t = AtHand'
    BY <1>1 DEF IsRow
  <1>6. rcPc' = "markFailed" /\ IsRow(sagas[AtHand].sub)' =>
          subs'[sagas'[AtHand'].sub].token = AtHand' /\ subs'[sagas'[AtHand'].sub].status # "failed"
    BY <1>1 DEF IsRow
  <1>7. \A t \in Sagas : sagas'[t] # NoSaga => sagas'[sagas'[t].sub] # NoSaga
    <2>1. \A t \in Sagas : sagas[t] # NoSaga => sagas[t].sub \in Sagas /\ sagas[sagas[t].sub] # NoSaga
      BY SagaSub DEF Owned, Control, Sound
    <2>2. \A t \in Sagas : /\ sagas'[t] # NoSaga <=> sagas[t] # NoSaga
                           /\ sagas[t] # NoSaga => sagas'[t].sub = sagas[t].sub
      BY <1>1
    <2> QED
      BY <2>1, <2>2
  <1> QED
    BY <1>3, <1>4, <1>5, <1>6, <1>7 DEF Owned

\* Without faults the reply consumer marks the row of the saga at hand, and no other.
LEMMA RepliesKeepOwned ==
  ASSUME Control, Owned, Replies, NoFault
  PROVE  Owned'
  <1>f. ~Fault
    BY BrokerAssumption DEF NoFault, Fault, Control, TypeOK
  <1>n. \A s \in Sagas : rcPc \notin {"markFailed", "fail"} =>
          ~(sagas[s].state = "compensating" /\ IsRow(sagas[s].sub))
    BY DEF Owned
  <1>o. \A s \in Sagas : \A t \in Sagas \ {s} : s = AtHand =>
          ~(sagas[t].state = "compensating" /\ IsRow(sagas[t].sub))
    BY DEF Owned
  <1>3. ASSUME NEW s \in Sagas, ReplyArrives(s) PROVE Owned'
    <2>1. UNCHANGED <<sagas, subs, rcPc>> /\ RowsKept
      BY <1>3 DEF ReplyArrives, tableVars, rcVars, RowsKept
    <2>2. PICK status \in ReplyStatus : replyQ' = Append(replyQ, [saga |-> s, status |-> status])
      BY <1>3 DEF ReplyArrives
    <2>3. [saga |-> s, status |-> status] \in Reply
      BY DEF Reply
    <2>4. rcPc # "load" => AtHand' = AtHand
      BY <2>2, <2>3, AppendFacts DEF Control, TypeOK, ReplyControl, AtHand
    <2> QED
      BY <2>1, <2>4, OwnedFrame
  <1>4. ASSUME NEW s \in Sagas, ReplyLoad(s) PROVE Owned'
    <2>1. /\ UNCHANGED <<sagas, subs, replyQ>> /\ rcPc = "load" /\ s = AtHand
          /\ rcPc' \in {"complete", "compensate", "ack"}
          /\ rcPc' = "compensate" => sagas[s].state \in {"subscription_created", "compensating"}
      BY <1>4, <1>f DEF ReplyLoad, Handling, Proceed, AtHand, tableVars
    <2>2. AtHand' = AtHand
      BY <2>1 DEF AtHand
    <2> QED
      BY <1>n, <2>1, <2>2, OwnedQuiet
  <1>5. ASSUME NEW s \in Sagas, ReplyComplete(s) PROVE Owned'
    <2>1. /\ UpdateState(s, "completed") /\ UNCHANGED <<subs, replyQ>> /\ rcPc' = "ack"
          /\ rcPc = "complete" /\ s = AtHand
      BY <1>5, <1>f DEF ReplyComplete, Handling, Proceed, AtHand
    <2>2. Undecided(s) /\ sagas[s] # NoSaga /\ ~Compensated(s)
      BY <2>1, StateExists DEF Control, ReplyControl, AtHand, Undecided, Compensated
    <2> QED
      BY <1>o, <2>1, <2>2, OwnedUpdate DEF State
  <1>6. ASSUME NEW s \in Sagas, ReplyCompensate(s) PROVE Owned'
    <2>1. /\ UpdateState(s, "compensating") /\ UNCHANGED <<subs, replyQ>> /\ rcPc' = "markFailed"
          /\ rcPc = "compensate" /\ s = AtHand
      BY <1>6, <1>f DEF ReplyCompensate, Handling, Proceed, AtHand
    <2>2. sagas[s].state \in {"subscription_created", "compensating"} /\ sagas[s] # NoSaga
      BY <2>1 DEF Owned, NoSaga
    <2>3. sagas[s].sub \in Sagas
      BY <2>2, SagaSub DEF Control, Sound
    <2>4. ASSUME IsRow(sagas[s].sub)
          PROVE  subs[sagas[s].sub].token = s /\ subs[sagas[s].sub].status # "failed"
      <3>1. sagas[s].state = "subscription_created"
        BY <1>n, <2>1, <2>2, <2>4
      <3>2. Live(s)
        BY <2>2, <2>4, <3>1 DEF Live, Compensated
      <3>3. subs[sagas[s].sub].token = s
        BY <3>2 DEF Owned
      <3> QED
        BY <2>3, <3>1, <3>3 DEF Owned, Compensated
    <2> QED
      BY <1>o, <2>1, <2>2, <2>4, OwnedUpdate DEF State
  <1>7. ASSUME NEW s \in Sagas, ReplyMarkFailed(s) PROVE Owned'
    <2>0. rcPc = "markFailed" /\ s = AtHand /\ Compensated(s) /\ sagas[s] # NoSaga
      BY <1>7, StateExists DEF ReplyMarkFailed, Handling, AtHand, Control, ReplyControl
    <2>i. sagas[s].sub \in Sagas
      BY <2>0, SagaSub DEF Control, Sound
    <2>1. CASE ~MarkFailedHits(sagas[s].sub) /\ StatementErr
      <3>1. UNCHANGED <<sagas, subs>> /\ rcPc' = "load"
        BY <2>1 DEF StatementErr, RetryReply, tableVars
      <3>2. ~IsRow(sagas[s].sub)
        BY <2>1 DEF MarkFailedHits, IsRow
      <3>3. \A t \in Sagas : ~(sagas[t].state = "compensating" /\ IsRow(sagas[t].sub))
        BY <1>o, <2>0, <3>2
      <3> QED
        BY <3>1, <3>3, OwnedQuiet
    <2>2. CASE /\ MarkFailedHits(sagas[s].sub) /\ MarkFailed(sagas[s].sub) /\ Proceed("fail")
               /\ UNCHANGED <<sagas, outbox, stale, updatedAt>>
      <3> DEFINE i == sagas[s].sub
      <3>1. /\ subs'[i].status = "failed" /\ subs'[i].token = subs[i].token /\ IsRow(i)
            /\ \A j \in Sagas \ {i} : subs'[j] = subs[j]
        BY <2>i, <2>2, MarkFailedFacts DEF Control, Sound, MarkFailedHits, IsRow
      <3>2. /\ UNCHANGED <<sagas, replyQ>> /\ rcPc' = "fail" /\ AtHand' = AtHand
        BY <2>2 DEF Proceed, AtHand
      <3>3. subs[i].token = s
        BY <2>0, <3>1 DEF Owned
      <3>4. \A t \in Sagas : IsRow(t)' => IsRow(t) /\ subs'[t].token = subs[t].token
        BY <3>1 DEF IsRow
      <3>5. \A t \in Sagas : sagas[t] # NoSaga => sagas[t].sub \in Sagas
        BY SagaSub DEF Control, Sound
      <3>6. \A t \in Sagas : Live(t)' => Live(t) /\ subs'[sagas'[t].sub].token = subs[sagas[t].sub].token
        BY <3>2, <3>4, <3>5 DEF Live, Compensated
      <3>7. \A t \in Sagas : Live(t)' => subs'[sagas'[t].sub].token = t
        BY <3>6 DEF Owned
      <3>8. \A j \in Sagas : subs'[j].status = "failed" => Compensated(subs[j].token)'
        BY <2>0, <3>1, <3>2, <3>3 DEF Owned, Compensated
      <3>9. \A t \in Sagas : sagas[t].state = "compensating" => sagas[t] # NoSaga
        BY DEF NoSaga
      <3>10. \A t \in Sagas : sagas'[t].state = "compensating" /\ IsRow(sagas[t].sub)' =>
               rcPc' \in {"markFailed", "fail"} /\ t = AtHand'
        BY <1>o, <2>0, <3>2, <3>4, <3>5, <3>9
      <3>11. \A t \in Sagas : sagas'[t] # NoSaga => sagas'[sagas'[t].sub] # NoSaga
        BY <3>2 DEF Owned
      <3> QED
        BY <3>2, <3>7, <3>8, <3>10, <3>11 DEF Owned
    <2> QED
      BY <1>7, <1>f, <2>1, <2>2 DEF ReplyMarkFailed
  <1>8. ASSUME NEW s \in Sagas, ReplyFail(s) PROVE Owned'
    <2>1. /\ UpdateState(s, "failed") /\ UNCHANGED <<subs, replyQ>> /\ rcPc' = "ack"
          /\ rcPc = "fail" /\ s = AtHand
      BY <1>8, <1>f DEF ReplyFail, Handling, Proceed, AtHand
    <2>2. Compensated(s) /\ sagas[s] # NoSaga
      BY <2>1, StateExists DEF Control, ReplyControl, AtHand
    <2> QED
      BY <1>o, <2>1, <2>2, OwnedUpdate DEF State
  <1>9. ASSUME ReplyAck PROVE Owned'
    <2>1. UNCHANGED <<sagas, subs>> /\ rcPc = "ack" /\ rcPc' = "load"
      BY <1>9 DEF ReplyAck, tableVars
    <2> QED
      BY <1>n, <2>1, OwnedQuiet
  <1> QED
    BY <1>3, <1>4, <1>5, <1>6, <1>7, <1>8, <1>9 DEF Replies, ReplyConsumerNext

LEMMA NextKeepsOwnership ==
  ASSUME Control, Ownership, [Next]_vars
  PROVE  Ownership'
  <1> SUFFICES ASSUME faults' = 0 PROVE Owned'
    BY DEF Ownership
  <1>f. ~Fault
    BY BrokerAssumption DEF Fault, Control, TypeOK
  <1>q. ASSUME UNCHANGED <<tableVars, replyQ, rcVars, faults>> PROVE Owned'
    <2>1. UNCHANGED <<sagas, subs, rcPc>> /\ RowsKept /\ AtHand' = AtHand /\ Owned
      BY <1>q DEF tableVars, rcVars, RowsKept, AtHand, Ownership
    <2> QED
      BY <2>1, OwnedFrame
  <1>p. ASSUME NEW c \in Clients, PlainStep(c), UNCHANGED rcVars PROVE Owned'
    <2>1. UNCHANGED <<sagas, replyQ>> /\ (Fault \/ NoFault)
      BY <1>p, PlainStepFacts DEF Control, TypeOK, ApiTypeOK
    <2>2. Owned /\ RowsKept
      BY <1>f, <1>p, <2>1, PlainRows DEF Control, NoFault, Ownership
    <2> QED
      BY <1>p, <2>1, <2>2, OwnedFrame DEF rcVars, AtHand
  <1>1. CASE UNCHANGED vars
    BY <1>1, <1>q DEF vars, brokerVars
  <1>2. ASSUME NEW c \in Clients, Client(c) PROVE Owned'
    <2>0. UNCHANGED rcVars
      BY <1>2 DEF Client
    <2>1. ASSUME NEW pair \in Emails \X Repos, SubscribeStart(c, pair) PROVE Owned'
      BY <1>f, <1>q, <2>0, <2>1 DEF SubscribeStart, CheckGet, NoFault
    <2>2. ASSUME NEW t \in Sagas, TokenFound(c, t) PROVE Owned'
      BY <1>p, <2>0, <2>2 DEF TokenFound, PlainStep
    <2> QED
      BY <1>2, <2>1, <2>2 DEF Client
  <1>3. ASSUME NEW c \in Clients, Handler(c) PROVE Owned'
    <2>0. UNCHANGED rcVars
      BY <1>3 DEF Handler
    <2>1. CASE SubscribeCheck(c)
      BY <1>f, <1>q, <2>0, <2>1 DEF SubscribeCheck, CheckStep, CheckAsk, CheckSet, NoFault
    <2>2. CASE SubscribeRefused(c)
      BY <1>q, <2>0, <2>2 DEF SubscribeRefused, brokerVars
    <2>3. CASE SubscribeDecides(c)
      <3>1. check[c] \in Check
        BY <2>3 DEF SubscribeDecides, CheckedAs, Control, TypeOK, CheckTypeOK, NoCheck
      <3>2. CASE SubscribeLookup(c, check[c].pair)
        BY <1>p, <2>0, <3>1, <3>2, CheckForms DEF PlainStep
      <3> QED
        BY <1>f, <1>q, <2>0, <2>3, <3>2 DEF SubscribeDecides, brokerVars
    <2>4. CASE SubscribeT1(c)
      <3>1. CASE AbortT1(c)
        BY <1>p, <2>0, <3>1 DEF PlainStep
      <3>2. ASSUME NEW n \in Sagas, StartConfirmation(c, n) \/ ReactivateConfirmation(c, n)
            PROVE  Owned'
        <4>1. Owned
          BY <3>2 DEF StartConfirmation, ReactivateConfirmation, brokerVars, Ownership
        <4> QED
          BY <2>0, <3>2, <4>1, T1KeepsOwned
      <3> QED
        BY <2>4, <3>1, <3>2 DEF SubscribeT1
    <2>5. CASE ConfirmSteps(c) \/ UnsubscribeSteps(c)
      BY <1>p, <2>0, <2>5 DEF ConfirmSteps, UnsubscribeSteps, PlainStep
    <2> QED
      BY <1>3, <2>1, <2>2, <2>3, <2>4, <2>5 DEF Handler
  <1>4. CASE Replies
    <2>1. Fault \/ NoFault
      BY <1>4 DEF Replies, ReplyConsumerNext, ReplyArrives, ReplyLoad, ReplyComplete,
             ReplyCompensate, ReplyMarkFailed, ReplyFail, ReplyAck, NoFault
    <2>2. NoFault /\ Owned
      BY <1>f, <2>1 DEF NoFault, Ownership
    <2> QED
      BY <1>4, <2>2, RepliesKeepOwned
  <1>5. CASE \E r \in Repos : Expiry(r) \/ GitHub(r)
    BY <1>5, <1>q DEF Expiry, GitHub, brokerVars
  <1>6. CASE MonolithCrash
    BY <1>6, <1>f DEF MonolithCrash
  <1> QED
    BY <1>1, <1>2, <1>3, <1>4, <1>5, <1>6 DEF Next

-----------------------------------------------------------------------------
(* The theorems. *)

\* The HTTP API's tables, handlers, cache and reply consumer keep what they know of
\* each other.
THEOREM ApiInvariant == Spec => [](Control /\ Grounds /\ ConfirmedIsTracked)
  <1> DEFINE Inv == Control /\ Grounds /\ ConfirmedIsTracked
  <1>1. Init => Inv
    BY InitControl
  <1>2. Inv /\ [Next]_vars => Inv'
    BY NextKeeps DEF Kept
  <1> HIDE DEF Inv
  <1>3. Spec => []Inv
    BY <1>1, <1>2, PTL DEF Spec
  <1> QED
    BY <1>3 DEF Inv

\* Every table, queue, cache entry and program counter behind the API stays well typed.
THEOREM TypeCorrect == Spec => []TypeOK
  <1>1. Control => TypeOK
    BY DEF Control
  <1> QED
    BY <1>1, ApiInvariant, PTL

\* CheckRepoExists never makes up a verdict: what a handler acts on was true of the
\* repository while the verdict was in use, in spite of slow calls, errors of Redis and
\* rate limiting (cached_client.go, client.go).
THEOREM VerdictsHaveGrounds == Spec => []VerdictHasGrounds
  <1>1. Grounds => VerdictHasGrounds
    BY DEF Grounds
  <1> QED
    BY <1>1, ApiInvariant, PTL

\* Whoever is told "subscription confirmed" has the repository tracked (Confirm).
THEOREM ConfirmedAlwaysTracked == Spec => []ConfirmedIsTracked
  BY ApiInvariant, PTL

\* A row's status is explained by its sagas, also while handlers and the reply
\* consumer interleave.
THEOREM StatusAlwaysExplained == Spec => []StatusIsExplained
  <1>1. Control => StatusIsExplained
    BY DEF Control, Sound
  <1> QED
    BY <1>1, ApiInvariant, PTL

\* As long as nothing fails, a live saga has its pair to itself and the row, not marked
\* failed, carries its token, whatever two Subscribe requests, late replies and deletions interleave (UNIQUE
\* of CreateInTx, the status guard of ReactivateInTx, the state guards of HandleReply).
\* The sweeper, which runs later and on a snapshot, is not part of it.
THEOREM LiveSagasOwnTheirPairs == Spec => []LiveSagaOwnsPair
  <1> DEFINE Inv == Control /\ Grounds /\ ConfirmedIsTracked
  <1>1. Init => Ownership
    BY InitOwnership
  <1>2. Inv /\ Ownership /\ [Next]_vars => Ownership'
    BY NextKeepsOwnership
  <1>3. Inv /\ Ownership => LiveSagaOwnsPair
    <2> SUFFICES ASSUME Control, Owned, NEW s \in Sagas, Live(s)
                 PROVE  /\ subs[sagas[s].sub].token = s
                        /\ subs[sagas[s].sub].status # "failed"
                        /\ RowsOfPair(subs[sagas[s].sub].pair) = {sagas[s].sub}
      BY DEF Ownership, LiveSagaOwnsPair
    <2>1. sagas[s].sub \in Sagas /\ IsRow(sagas[s].sub)
      BY SagaSub DEF Live, Control, Sound
    <2>2. RowsOfPair(subs[sagas[s].sub].pair) = {sagas[s].sub}
      BY <2>1 DEF RowsOfPair, IsRow, Control, Sound, OneRowPerPair
    <2>3. subs[sagas[s].sub].token = s /\ subs[sagas[s].sub].status # "failed"
      BY <2>1 DEF Owned, Live
    <2> QED
      BY <2>2, <2>3
  <1>4. Spec => []Inv
    BY ApiInvariant
  <1> HIDE DEF Inv
  <1> QED
    BY <1>1, <1>2, <1>3, <1>4, PTL DEF Spec

=============================================================================
