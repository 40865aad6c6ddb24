---------------------------- MODULE TableLemmas ----------------------------
(***************************************************************************)
(* What the statements of SagaTables do to the tables: facts that the      *)
(* proofs about both transports and about the HTTP API share.              *)
(***************************************************************************)
EXTENDS SubscriptionApi, QueueLemmas

-----------------------------------------------------------------------------
(* One statement. *)

\* Moving one saga to the end of the order keeps every place in range.
LEMMA TouchFacts ==
  ASSUME TablesTypeOK, NEW s \in Sagas, Touch(s)
  PROVE  updatedAt' \in [Sagas -> Sagas]
  <1> USE MaxSagasAssumption
  <1> DEFINE new(t) == IF t = s THEN MaxSagas
                       ELSE IF updatedAt[t] > updatedAt[s] THEN updatedAt[t] - 1
                       ELSE updatedAt[t]
  <1>1. ASSUME NEW t \in Sagas PROVE new(t) \in Sagas
    <2>1. updatedAt[t] \in Sagas /\ updatedAt[s] \in Sagas /\ MaxSagas \in Sagas
      <3>1. s <= MaxSagas /\ s >= 1
        BY DEF Sagas
      <3> QED
        BY <1>1, <3>1 DEF TablesTypeOK, Sagas
    <2> QED
      BY <2>1 DEF Sagas
  <1>2. updatedAt' = [t \in Sagas |-> new(t)]
    BY DEF Touch
  <1> HIDE DEF new
  <1> QED
    BY <1>1, <1>2

\* UpdateState on an existing saga keeps the tables typed, changes no other saga,
\* and keeps the saga's subscription.
LEMMA UpdateStateFacts ==
  ASSUME TablesTypeOK, NEW s \in Sagas, NEW st \in State, sagas[s] # NoSaga, UpdateState(s, st)
  PROVE  /\ sagas' \in [Sagas -> SagaRow \cup {NoSaga}]
         /\ stale' \subseteq Sagas
         /\ updatedAt' \in [Sagas -> Sagas]
         /\ sagas'[s].state = st
         /\ sagas'[s].sub = sagas[s].sub
         /\ sagas'[s] # NoSaga
         /\ \A t \in Sagas \ {s} : sagas'[t] = sagas[t]
  <1>1. updatedAt' \in [Sagas -> Sagas]
    BY TouchFacts DEF UpdateState
  <1> QED
    BY <1>1 DEF TablesTypeOK, UpdateState, SagaRow, State, NoSaga

\* MarkFailed on an existing row changes that row's status and nothing else.
LEMMA MarkFailedFacts ==
  ASSUME TablesTypeOK, NEW i \in Sagas, MarkFailedHits(i), MarkFailed(i)
  PROVE  /\ subs' \in [Sagas -> SubRow \cup {NoSub}]
         /\ subs'[i].status = "failed"
         /\ subs'[i].token = subs[i].token
         /\ subs'[i].pair = subs[i].pair
         /\ subs'[i].confirmed = subs[i].confirmed
         /\ subs'[i] # NoSub
         /\ \A j \in Sagas \ {i} : subs'[j] = subs[j]
  BY DEF TablesTypeOK, MarkFailed, MarkFailedHits, SubRow, Status, NoSub

\* The subscription id of an existing saga is an id.
LEMMA SagaSub ==
  ASSUME TablesTypeOK, NEW s \in Sagas, sagas[s] # NoSaga
  PROVE  sagas[s] \in SagaRow /\ sagas[s].sub \in Sagas
  BY DEF TablesTypeOK, SagaRow

\* Creating a saga changes no other one.
LEMMA CreateSagaFacts ==
  ASSUME TablesTypeOK, NEW n \in Sagas, NEW i \in Sagas, CreateSaga(n, i)
  PROVE  /\ sagas' \in [Sagas -> SagaRow \cup {NoSaga}]
         /\ stale' \subseteq Sagas
         /\ updatedAt' \in [Sagas -> Sagas]
         /\ sagas'[n].sub = i
         /\ sagas'[n].state = "subscription_created"
         /\ sagas'[n] # NoSaga
         /\ \A t \in Sagas \ {n} : sagas'[t] = sagas[t]
  <1>1. updatedAt' \in [Sagas -> Sagas]
    BY TouchFacts DEF CreateSaga
  <1> QED
    BY <1>1 DEF TablesTypeOK, CreateSaga, SagaRow, State, NoSaga

\* T1 adds a saga and changes no other one.
LEMMA EnqueueFacts ==
  ASSUME TablesTypeOK, NEW n \in Sagas, NEW i \in Sagas, EnqueueConfirmation(n, i)
  PROVE  /\ sagas' \in [Sagas -> SagaRow \cup {NoSaga}]
         /\ outbox' \in [Sagas -> {"none", "unpublished", "published"}]
         /\ stale' \subseteq Sagas
         /\ updatedAt' \in [Sagas -> Sagas]
         /\ sagas'[n].sub = i
         /\ sagas'[n].state = "subscription_created"
         /\ sagas'[n] # NoSaga
         /\ outbox'[n] = "unpublished"
         /\ \A t \in Sagas \ {n} : sagas'[t] = sagas[t] /\ outbox'[t] = outbox[t]
  BY CreateSagaFacts DEF TablesTypeOK, EnqueueConfirmation

\* ConfirmSubscription changes nothing but confirmed and status of the token's row.
LEMMA ConfirmSubFacts ==
  ASSUME TablesTypeOK, NEW token, ConfirmSub(token)
  PROVE  /\ subs' \in [Sagas -> SubRow \cup {NoSub}]
         /\ \A i \in Sagas :
              \/ subs'[i] = subs[i]
              \/ /\ subs[i] # NoSub /\ subs'[i] # NoSub
                 /\ subs'[i].token = subs[i].token /\ subs'[i].pair = subs[i].pair
                 /\ subs'[i].status = "confirmed" /\ subs'[i].confirmed = TRUE
  <1> DEFINE new(i) == IF i \in RowsOfToken(token)
                       THEN [subs[i] EXCEPT !.confirmed = TRUE, !.status = "confirmed"]
                       ELSE subs[i]
  <1>1. ASSUME NEW i \in RowsOfToken(token)
        PROVE  /\ i \in Sagas /\ subs[i] \in SubRow /\ new(i) \in SubRow /\ subs[i] # NoSub
               /\ new(i) # NoSub
               /\ new(i).token = subs[i].token /\ new(i).pair = subs[i].pair
               /\ new(i).status = "confirmed" /\ new(i).confirmed = TRUE
    BY <1>1 DEF RowsOfToken, TablesTypeOK, SubRow, Status, NoSub
  <1>2. \A i \in Sagas : new(i) \in SubRow \cup {NoSub}
    BY <1>1 DEF TablesTypeOK
  <1>3. \A i \in Sagas : i \notin RowsOfToken(token) => new(i) = subs[i]
    OBVIOUS
  <1>4. subs' = [i \in Sagas |-> new(i)]
    BY DEF ConfirmSub
  <1> HIDE DEF new
  <1> QED
    BY <1>1, <1>2, <1>3, <1>4

\* DeleteSubscription removes rows and changes none.
LEMMA DeleteSubFacts ==
  ASSUME TablesTypeOK, NEW token, DeleteSub(token)
  PROVE  /\ subs' \in [Sagas -> SubRow \cup {NoSub}]
         /\ \A i \in Sagas : subs'[i] \in {subs[i], NoSub}
  BY DEF DeleteSub, TablesTypeOK

-----------------------------------------------------------------------------
(* What the statements keep, whoever runs them. *)

\* Every row carries the token of a saga that was started for this row.
RowsPointBack ==
  \A i \in Sagas : IsRow(i) =>
    sagas[subs[i].token] # NoSaga /\ sagas[subs[i].token].sub = i

Sound == TablesTypeOK /\ RowsPointBack /\ StatusIsExplained /\ OneRowPerPair

\* Sagas are never deleted, never move to another subscription, and a compensation
\* that was chosen stays chosen.
SagasGrow == \A t \in Sagas :
  /\ sagas[t] # NoSaga => sagas'[t] # NoSaga /\ sagas'[t].sub = sagas[t].sub
  /\ Compensated(t) => sagas'[t].state \in {"compensating", "failed"}

\* The tables are sound at the start.
LEMMA InitSound == TablesInit => Sound
  BY MaxSagasAssumption
  DEF TablesInit, Sound, TablesTypeOK, RowsPointBack, StatusIsExplained, OneRowPerPair, IsRow,
      NoSub, NoSaga, Sagas

\* A step that changes sagas only keeps the rows sound.
LEMMA SagaStepSound ==
  ASSUME Sound, TablesTypeOK', UNCHANGED subs, SagasGrow
  PROVE  Sound'
  <1>1. \A i \in Sagas : IsRow(i) => subs[i].token \in Sagas
    BY DEF Sound, TablesTypeOK, SubRow, IsRow
  <1>2. RowsPointBack'
    BY <1>1 DEF Sound, RowsPointBack, IsRow, SagasGrow
  <1>3. StatusIsExplained'
    BY DEF Sound, StatusIsExplained, SagasGrow, Compensated
  <1> QED
    BY <1>2, <1>3 DEF Sound, OneRowPerPair, IsRow

\* UpdateState, unless it would take back a compensation.
LEMMA UpdateStateSound ==
  ASSUME Sound, NEW s \in Sagas, NEW st \in State, sagas[s] # NoSaga, UpdateState(s, st),
         Compensated(s) => st \in {"compensating", "failed"}, UNCHANGED <<subs, outbox>>
  PROVE  Sound' /\ SagasGrow
  <1>1. /\ TablesTypeOK'
        /\ sagas'[s].state = st /\ sagas'[s].sub = sagas[s].sub /\ sagas'[s] # NoSaga
        /\ \A t \in Sagas \ {s} : sagas'[t] = sagas[t]
    BY UpdateStateFacts DEF Sound, TablesTypeOK
  <1>2. SagasGrow
    BY <1>1 DEF SagasGrow, Compensated
  <1> QED
    BY <1>1, <1>2, SagaStepSound

\* A step that changes rows only: it may delete them, confirm them, or mark the row of
\* a compensated saga failed.
LEMMA RowStepSound ==
  ASSUME Sound, TablesTypeOK', UNCHANGED sagas,
         \A i \in Sagas : IsRow(i)' =>
           IsRow(i) /\ subs'[i].token = subs[i].token /\ subs'[i].pair = subs[i].pair,
         \A i \in Sagas : subs'[i].status = "failed" =>
           \/ subs[i].status = "failed"
           \/ \E s \in Sagas : sagas[s] # NoSaga /\ sagas[s].sub = i /\ Compensated(s),
         \A i \in Sagas : subs'[i].status = "confirmed" => subs'[i].confirmed
  PROVE  Sound' /\ SagasGrow
  <1>1. RowsPointBack'
    BY DEF Sound, RowsPointBack, IsRow
  <1>2. StatusIsExplained'
    BY DEF Sound, StatusIsExplained, Compensated
  <1>3. OneRowPerPair'
    BY DEF Sound, OneRowPerPair, IsRow
  <1>4. SagasGrow
    BY DEF SagasGrow, Compensated
  <1> QED
    BY <1>1, <1>2, <1>3, <1>4 DEF Sound

LEMMA MarkFailedSound ==
  ASSUME Sound, NEW s \in Sagas, sagas[s] # NoSaga, Compensated(s),
         MarkFailedHits(sagas[s].sub), MarkFailed(sagas[s].sub),
         UNCHANGED <<sagas, outbox, stale, updatedAt>>
  PROVE  Sound' /\ SagasGrow
  <1>1. PICK i \in Sagas : i = sagas[s].sub
    BY SagaSub DEF Sound
  <1>2. /\ subs' \in [Sagas -> SubRow \cup {NoSub}]
        /\ subs'[i].status = "failed" /\ subs'[i].token = subs[i].token
        /\ subs'[i].pair = subs[i].pair /\ subs[i] # NoSub
        /\ \A j \in Sagas \ {i} : subs'[j] = subs[j]
    BY <1>1, MarkFailedFacts DEF Sound, MarkFailedHits
  <1>3. TablesTypeOK'
    BY <1>2 DEF Sound, TablesTypeOK
  <1>4. \A j \in Sagas : IsRow(j)' =>
          IsRow(j) /\ subs'[j].token = subs[j].token /\ subs'[j].pair = subs[j].pair
    BY <1>2 DEF IsRow
  <1>5. \A j \in Sagas : subs'[j].status = "failed" =>
          \/ subs[j].status = "failed"
          \/ \E u \in Sagas : sagas[u] # NoSaga /\ sagas[u].sub = j /\ Compensated(u)
    BY <1>1, <1>2
  <1>6. \A j \in Sagas : subs'[j].status = "confirmed" => subs'[j].confirmed
    BY <1>2 DEF Sound, StatusIsExplained
  <1> QED
    BY <1>3, <1>4, <1>5, <1>6, RowStepSound

LEMMA ConfirmSubSound ==
  ASSUME Sound, NEW token, ConfirmSub(token), UNCHANGED <<sagas, outbox, stale, updatedAt>>
  PROVE  Sound' /\ SagasGrow
  <1>1. /\ subs' \in [Sagas -> SubRow \cup {NoSub}]
        /\ \A i \in Sagas :
             \/ subs'[i] = subs[i]
             \/ /\ subs[i] # NoSub /\ subs'[i] # NoSub
                /\ subs'[i].token = subs[i].token /\ subs'[i].pair = subs[i].pair
                /\ subs'[i].status = "confirmed" /\ subs'[i].confirmed = TRUE
    BY ConfirmSubFacts DEF Sound
  <1>2. TablesTypeOK'
    BY <1>1 DEF Sound, TablesTypeOK
  <1>3. \A j \in Sagas : IsRow(j)' =>
          IsRow(j) /\ subs'[j].token = subs[j].token /\ subs'[j].pair = subs[j].pair
    BY <1>1 DEF IsRow
  <1>4. \A j \in Sagas : subs'[j].status = "failed" => subs[j].status = "failed"
    BY <1>1
  <1>5. \A j \in Sagas : subs'[j].status = "confirmed" => subs'[j].confirmed
    BY <1>1 DEF Sound, StatusIsExplained
  <1> QED
    BY <1>2, <1>3, <1>4, <1>5, RowStepSound

LEMMA DeleteSubSound ==
  ASSUME Sound, NEW token, DeleteSub(token), UNCHANGED <<sagas, outbox, stale, updatedAt>>
  PROVE  Sound' /\ SagasGrow
  <1>1. /\ subs' \in [Sagas -> SubRow \cup {NoSub}]
        /\ \A i \in Sagas : subs'[i] = subs[i] \/ subs'[i] = NoSub
    BY DeleteSubFacts DEF Sound
  <1>2. TablesTypeOK'
    BY <1>1 DEF Sound, TablesTypeOK
  <1>3. \A j \in Sagas : IsRow(j)' =>
          IsRow(j) /\ subs'[j].token = subs[j].token /\ subs'[j].pair = subs[j].pair
    BY <1>1 DEF IsRow
  <1>4. \A j \in Sagas : subs'[j].status = "failed" => subs[j].status = "failed"
    BY <1>1 DEF NoSub
  <1>5. \A j \in Sagas : subs'[j].status = "confirmed" => subs'[j].confirmed
    BY <1>1 DEF NoSub, Sound, StatusIsExplained
  <1> QED
    BY <1>2, <1>3, <1>4, <1>5, RowStepSound

\* T1 writes row i of saga n: the row and the saga point at each other.
LEMMA T1Sound ==
  ASSUME Sound, NEW n \in Sagas, NEW i \in Sagas, NEW p \in Emails \X Repos,
         sagas[n] = NoSaga, CreateSaga(n, i),
         outbox' \in [Sagas -> {"none", "unpublished", "published"}],
         subs' = [subs EXCEPT ![i] =
                    [pair |-> p, token |-> n, confirmed |-> FALSE, status |-> "pending"]],
         \A j \in Sagas : IsRow(j) /\ subs[j].pair = p => j = i
  PROVE  Sound' /\ SagasGrow
  <1>t. TablesTypeOK
    BY DEF Sound
  <1>1. /\ sagas' \in [Sagas -> SagaRow \cup {NoSaga}]
        /\ stale' \subseteq Sagas /\ updatedAt' \in [Sagas -> Sagas]
        /\ sagas'[n].sub = i /\ sagas'[n].state = "subscription_created" /\ sagas'[n] # NoSaga
        /\ \A t \in Sagas \ {n} : sagas'[t] = sagas[t]
    BY <1>t, CreateSagaFacts
  <1>2. /\ subs'[i].token = n /\ subs'[i].pair = p /\ subs'[i].status = "pending"
        /\ \A j \in Sagas \ {i} : subs'[j] = subs[j]
        /\ subs' \in [Sagas -> SubRow \cup {NoSub}]
    BY <1>t DEF TablesTypeOK, SubRow, Status
  <1>3. TablesTypeOK'
    BY <1>1, <1>2 DEF TablesTypeOK
  <1>4. RowsPointBack'
    <2>1. \A j \in Sagas : IsRow(j) => subs[j].token \in Sagas \ {n}
      BY <1>t DEF Sound, RowsPointBack, IsRow, TablesTypeOK, SubRow
    <2> QED
      BY <1>1, <1>2, <2>1 DEF Sound, RowsPointBack, IsRow
  <1>c. ~Compensated(n)
    BY DEF Compensated, NoSaga
  <1>5. StatusIsExplained'
    BY <1>1, <1>2, <1>c DEF Sound, StatusIsExplained, Compensated
  <1>6. OneRowPerPair'
    BY <1>2 DEF Sound, OneRowPerPair, IsRow
  <1>7. SagasGrow
    BY <1>1, <1>c DEF SagasGrow, Compensated
  <1> QED
    BY <1>3, <1>4, <1>5, <1>6, <1>7 DEF Sound

-----------------------------------------------------------------------------
(* Request handlers that start no saga. *)

\* The requests that both transports share, apart from T1.
PlainStep(c) ==
  \/ AbortT1(c) \/ ConfirmUpdate(c) \/ ConfirmRegister(c) \/ UnsubscribeDelete(c)
  \/ \E pair \in Emails \X Repos : SubscribeLookup(c, pair)
  \/ \E t \in Sagas : ConfirmLookup(c, t) \/ UnsubscribeLookup(c, t)

\* They start no saga and change none, keep the tables sound, and leave their client
\* with a well-formed next step or none.
LEMMA PlainStepFacts ==
  ASSUME Sound, tracked \subseteq Repos, NEW c \in Clients, req[c] \in Req \cup {NoReq}, PlainStep(c)
  PROVE  /\ Sound'
         /\ UNCHANGED <<sagas, outbox, stale, updatedAt, cmdQ, replyQ>>
         /\ tracked \subseteq tracked' /\ tracked' \subseteq Repos
         /\ \E r \in Req \cup {NoReq} : Continue(c, r)
         /\ Fault \/ NoFault
         /\ \A i \in Sagas : subs'[i].status = "pending" => subs'[i] = subs[i]
  <1>0. UNCHANGED <<sagas, outbox, stale, updatedAt, cmdQ, replyQ>> /\ (Fault \/ NoFault)
    BY DEF PlainStep, AbortT1, ConfirmUpdate, ConfirmRegister, UnsubscribeDelete, SubscribeLookup,
           ConfirmLookup, UnsubscribeLookup, NoFault, tableVars, brokerVars
  <1>t. TablesTypeOK
    BY DEF Sound
  <1>f. Finish(c) => \E r \in Req \cup {NoReq} : Continue(c, r)
    BY DEF Finish
  <1>s. ASSUME UNCHANGED subs
        PROVE  Sound' /\ \A i \in Sagas : subs'[i].status = "pending" => subs'[i] = subs[i]
    <2>1. TablesTypeOK' /\ SagasGrow
      BY <1>0, <1>t, <1>s DEF TablesTypeOK, SagasGrow, Compensated
    <2> QED
      BY <1>s, <2>1, SagaStepSound
  <1> DEFINE Goal == /\ Sound'
                     /\ tracked \subseteq tracked' /\ tracked' \subseteq Repos
                     /\ \E r \in Req \cup {NoReq} : Continue(c, r)
                     /\ \A i \in Sagas : subs'[i].status = "pending" => subs'[i] = subs[i]
  <1>1. ASSUME AbortT1(c) PROVE Goal
    <2>1. UNCHANGED subs /\ UNCHANGED tracked /\ Finish(c)
      BY <1>1 DEF AbortT1, tableVars
    <2> QED
      BY <1>f, <1>s, <2>1
  <1>2. ASSUME ConfirmUpdate(c) PROVE Goal
    <2>1. req[c].repo \in Repos /\ UNCHANGED tracked
      BY <1>2 DEF ConfirmUpdate, Req, NoReq
    <2>2. [op |-> "register", repo |-> req[c].repo] \in Req
      BY <2>1 DEF Req
    <2>3. \E r \in Req \cup {NoReq} : Continue(c, r)
      BY <1>2, <1>f, <2>2 DEF ConfirmUpdate
    <2>4. CASE UNCHANGED subs
      BY <1>s, <2>1, <2>3, <2>4
    <2>5. CASE ConfirmSub(req[c].token)
      <3>1. Sound'
        BY <1>0, <2>5, ConfirmSubSound
      <3>2. \A i \in Sagas : subs'[i].status = "pending" => subs'[i] = subs[i]
        BY <1>t, <2>5, ConfirmSubFacts
      <3> QED
        BY <2>1, <2>3, <3>1, <3>2
    <2> QED
      BY <1>2, <2>4, <2>5 DEF ConfirmUpdate
  <1>3. ASSUME ConfirmRegister(c) PROVE Goal
    <2>1. req[c].repo \in Repos
      BY <1>3 DEF ConfirmRegister, Req, NoReq
    <2>2. UNCHANGED subs /\ Finish(c) /\ tracked' \in {tracked, tracked \cup {req[c].repo}}
      BY <1>3 DEF ConfirmRegister, tableVars
    <2> QED
      BY <1>f, <1>s, <2>1, <2>2
  <1>4. ASSUME UnsubscribeDelete(c) PROVE Goal
    <2>1. UNCHANGED tracked /\ Finish(c)
      BY <1>4 DEF UnsubscribeDelete
    <2>2. CASE UNCHANGED subs
      BY <1>f, <1>s, <2>1, <2>2
    <2>3. CASE DeleteSub(req[c].token)
      <3>1. Sound'
        BY <1>0, <2>3, DeleteSubSound
      <3>2. \A i \in Sagas : subs'[i].status = "pending" => subs'[i] = subs[i]
        BY <1>t, <2>3, DeleteSubFacts DEF NoSub
      <3> QED
        BY <1>f, <2>1, <3>1, <3>2
    <2> QED
      BY <1>4, <2>2, <2>3 DEF UnsubscribeDelete
  <1>5. ASSUME NEW pair \in Emails \X Repos, SubscribeLookup(c, pair) PROVE Goal
    <2>1. UNCHANGED subs /\ UNCHANGED tracked
      BY <1>5 DEF SubscribeLookup, tableVars
    <2>2. [op |-> "start", pair |-> pair] \in Req
      BY DEF Req
    <2>3. \A i \in RowsOfPair(pair) : [op |-> "reactivate", sub |-> i] \in Req
      BY DEF Req, RowsOfPair
    <2>4. \E r \in Req \cup {NoReq} : Continue(c, r)
      BY <1>5, <2>2, <2>3 DEF SubscribeLookup
    <2> QED
      BY <1>s, <2>1, <2>4
  <1>6. ASSUME NEW t \in Sagas, ConfirmLookup(c, t) PROVE Goal
    <2>1. PICK i \in RowsOfToken(t) :
            Continue(c, IF subs[i].confirmed
                        THEN [op |-> "register", repo |-> subs[i].pair[2]]
                        ELSE [op |-> "confirm", token |-> t, repo |-> subs[i].pair[2]])
      BY <1>6 DEF ConfirmLookup
    <2>2. subs[i] \in SubRow
      BY <1>t DEF RowsOfToken, TablesTypeOK
    <2>3. subs[i].pair[2] \in Repos
      BY <2>2 DEF SubRow
    <2>4. /\ [op |-> "register", repo |-> subs[i].pair[2]] \in Req
          /\ [op |-> "confirm", token |-> t, repo |-> subs[i].pair[2]] \in Req
      BY <2>3 DEF Req
    <2>5. UNCHANGED subs /\ UNCHANGED tracked
      BY <1>6 DEF ConfirmLookup, tableVars
    <2> QED
      BY <1>s, <2>1, <2>4, <2>5
  <1>7. ASSUME NEW t \in Sagas, UnsubscribeLookup(c, t) PROVE Goal
    <2>1. UNCHANGED subs /\ UNCHANGED tracked /\ Continue(c, [op |-> "unsubscribe", token |-> t])
      BY <1>7 DEF UnsubscribeLookup, tableVars
    <2>2. [op |-> "unsubscribe", token |-> t] \in Req
      BY DEF Req
    <2> QED
      BY <1>s, <2>1, <2>2
  <1> QED
    BY <1>0, <1>1, <1>2, <1>3, <1>4, <1>5, <1>6, <1>7 DEF PlainStep

-----------------------------------------------------------------------------
(* T1. *)

\* The transaction of a new subscription.
LEMMA CreateT1Sound ==
  ASSUME Sound, NEW n \in Sagas, NextSaga(n), NEW p \in Emails \X Repos,
         CreateSub(n, p), CreateSaga(n, n),
         outbox' \in [Sagas -> {"none", "unpublished", "published"}]
  PROVE  Sound' /\ SagasGrow
  <1>1. \A j \in Sagas : ~(IsRow(j) /\ subs[j].pair = p)
    BY DEF CreateSub, RowsOfPair, IsRow
  <1>2. sagas[n] = NoSaga
    BY DEF NextSaga
  <1> QED
    BY <1>1, <1>2, T1Sound DEF CreateSub

\* The transaction that revives a failed subscription: the row keeps its pair.
LEMMA ReactivateT1Sound ==
  ASSUME Sound, NEW n \in Sagas, NextSaga(n), NEW i \in Sagas,
         ReactivateSub(n, i), CreateSaga(n, i),
         outbox' \in [Sagas -> {"none", "unpublished", "published"}]
  PROVE  Sound' /\ SagasGrow
  <1>1. IsRow(i) /\ subs[i] \in SubRow /\ subs \in [Sagas -> SubRow \cup {NoSub}]
    BY DEF ReactivateSub, IsRow, Sound, TablesTypeOK, NoSub
  <1>2. subs[i].pair \in Emails \X Repos
    BY <1>1 DEF SubRow
  <1>3. \A j \in Sagas : IsRow(j) /\ subs[j].pair = subs[i].pair => j = i
    BY <1>1 DEF Sound, OneRowPerPair
  <1>4. subs' = [subs EXCEPT ![i] =
                   [pair |-> subs[i].pair, token |-> n, confirmed |-> FALSE, status |-> "pending"]]
    BY <1>1 DEF ReactivateSub
  <1>5. sagas[n] = NoSaga
    BY DEF NextSaga
  <1> QED
    BY <1>2, <1>3, <1>4, <1>5, T1Sound

=============================================================================
