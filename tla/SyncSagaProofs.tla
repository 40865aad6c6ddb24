--------------------------- MODULE SyncSagaProofs ---------------------------
(***************************************************************************)
(* Theorems about SyncSaga, the saga over the gRPC transport: what holds   *)
(* for any number of clients, sagas and faults.                            *)
(*                                                                         *)
(* A handler and the sweeper write the same saga without a lock.  Control  *)
(* says what either knows about the saga it is going to write, and that no *)
(* two handlers work on one saga; Marked that a row is marked before its   *)
(* saga is failed.  While no fault has happened Control also says that a   *)
(* handler compensates only what the notifier gave up on.                  *)
(***************************************************************************)
EXTENDS SyncSaga, TableLemmas

SyncOp(r) == r.op \in {"call", "complete", "compensate", "markFailed", "fail"}

\* What the handler that goes on with r relies on.
Grounded(r) ==
  /\ r.op \in {"call", "complete", "compensate"} => sagas[r.saga].state = "subscription_created"
  /\ r.op \in {"markFailed", "fail"} => Compensated(r.saga)
  /\ r.op = "complete" => r.saga \in mailed
  /\ r.op = "compensate" /\ faults = 0 => r.saga \in refused

\* Every handler has grounds for its next statement, and its saga to itself.
HandlerControl ==
  /\ \A c \in Clients : Grounded(req[c])
  /\ \A c, d \in Clients : SyncOp(req[c]) /\ SyncOp(req[d]) /\ req[c].saga = req[d].saga => c = d

\* The notifier works for sagas that exist, answers OK only when the mail is out, and
\* with an error only when it gave up or died.
ServerControl ==
  \A s \in Sagas :
    /\ rpc[s] # "none" => sagas[s] # NoSaga
    /\ rpc[s] \in {"mark", "ok"} => s \in mailed
    /\ rpc[s] = "err" /\ faults = 0 => s \in refused

\* Faults are counted, and a client that has gone is one.
FaultControl ==
  /\ faults \in Nat
  /\ faults = 0 => gone = {}

\* The sweeper finishes compensations that were begun.
SweepControl ==
  /\ \A row \in swBatch : sagas[row.saga] # NoSaga
  /\ \A row \in swBatch : row.state = "compensating" => Compensated(row.saga)
  /\ swFailing # 0 => Compensated(swFailing)

Control ==
  /\ TypeOK
  /\ Sound
  /\ tracked \subseteq Repos
  /\ HandlerControl
  /\ ServerControl
  /\ SweepControl
  /\ FaultControl
  /\ SyncCompletedMeansMailed

\* Saga s has failed, or the next statement of a handler or of the sweeper says so.
Failing(s) ==
  \/ sagas[s].state = "failed"
  \/ swFailing = s
  \/ \E c \in Clients : req[c].op = "fail" /\ req[c].saga = s

\* No row is still pending on the token of such a saga.
Marked == \A s \in Sagas : Failing(s) =>
  \A i \in Sagas : ~(subs[i].status = "pending" /\ subs[i].token = s)

-----------------------------------------------------------------------------
(* What a step of one actor leaves to the others. *)

LEMMA InitControl == Init => Control /\ Marked
  <1> SUFFICES ASSUME Init PROVE Control /\ Marked
    OBVIOUS
  <1>1. Sound
    BY InitSound DEF Init
  <1>2. TypeOK
    BY <1>1, MaxSagasAssumption
    DEF Init, Sound, TypeOK, SweeperInit, SweeperTypeOK, ApiInit, NoReq, SyncReq
  <1>3. HandlerControl
    BY DEF Init, ApiInit, HandlerControl, Grounded, SyncOp, NoReq
  <1>4. /\ ServerControl /\ SweepControl /\ FaultControl /\ SyncCompletedMeansMailed
        /\ tracked \subseteq Repos
    BY DEF Init, ServerControl, SweepControl, FaultControl, SyncCompletedMeansMailed, SweeperInit,
           ApiInit, BrokerInit, TablesInit, NoSaga
  <1>5. Marked
    BY DEF Init, Marked, TablesInit, NoSub
  <1> QED
    BY <1>1, <1>2, <1>3, <1>4, <1>5 DEF Control

\* The step counts its fault, and what is counted stays counted.
Counts ==
  /\ faults' \in Nat
  /\ faults' = 0 => faults = 0 /\ gone' = {}

LEMMA NextCounts == ASSUME Control, [Next]_vars PROVE Counts
  <1>1. faults \in Nat /\ (faults = 0 => gone = {})
    BY DEF Control, FaultControl
  <1>2. (Fault \/ UNCHANGED faults) /\ (UNCHANGED gone \/ Fault)
    <2>1. ASSUME NEW c \in Clients, Handler(c) \/ Client(c)
          PROVE  (Fault \/ UNCHANGED faults) /\ UNCHANGED gone
      BY <2>1 DEF Handler, Client, ApiRequest, SubscribeLookup, ConfirmLookup, UnsubscribeLookup, AbortT1,
         ConfirmUpdate, ConfirmRegister, UnsubscribeDelete, StartConfirmationSync,
         ReactivateConfirmationSync, BeginCall, CallReturns, CallCancelled, StatementCancelled, HangUp,
         CompleteSync, CompensateSync, MarkFailedSync, FailSync, NoFault, brokerVars, syncVars
    <2>2. ASSUME NEW s \in Sagas, Server(s) \/ Clock(s)
          PROVE  (Fault \/ UNCHANGED faults) /\ UNCHANGED gone
      BY <2>2 DEF Server, Clock, GrpcCheck, GrpcSendOk, GrpcSendErr, GrpcMark, NoFault, brokerVars, syncVars
    <2>3. CASE Sweep
      BY <2>3 DEF Sweep, SweeperNext, SweepFind, SweepFail, SweepRequeue, SweepMarkFailed, NoFault,
         brokerVars, syncVars
    <2>4. CASE UNCHANGED vars
      BY <2>4 DEF vars, brokerVars, syncVars
    <2>5. CASE \/ \E c \in Clients : CallFails(c) \/ Abandon(c) \/ Disconnect(c)
               \/ GrpcCrash \/ MonolithCrash
      BY <2>5 DEF CallFails, Abandon, Disconnect, GrpcCrash, MonolithCrash
    <2> QED
      BY <2>1, <2>2, <2>3, <2>4, <2>5 DEF Next
  <1> QED
    BY <1>1, <1>2 DEF Fault, Counts

\* A handler in the saga has the number of an existing one; any other is at a request
\* of SubscriptionApi.
LEMMA ReqFacts ==
  ASSUME Control, NEW c \in Clients
  PROVE  /\ SyncOp(req[c]) => req[c].saga \in Sagas /\ sagas[req[c].saga] # NoSaga
         /\ ~SyncOp(req[c]) => req[c] \in Req \cup {NoReq}
         /\ req[c] \in Req \cup {NoReq} => ~SyncOp(req[c])
  <1>1. req[c] \in SyncReq \cup {NoReq} /\ Grounded(req[c])
    BY DEF Control, TypeOK, HandlerControl
  <1>2. \A r \in Req \cup {NoReq} : ~SyncOp(r)
    BY DEF Req, NoReq, SyncOp
  <1>3. ~SyncOp(req[c]) => req[c] \in Req \cup {NoReq}
    BY <1>1 DEF SyncReq, SyncOp
  <1>4. ASSUME SyncOp(req[c])
        PROVE  req[c].saga \in Sagas /\ sagas[req[c].saga] # NoSaga
    <2>1. req[c] \in [op : {"call", "complete", "compensate", "markFailed", "fail"}, saga : Sagas]
      BY <1>1, <1>2, <1>4 DEF SyncReq
    <2>2. req[c].saga \in Sagas
      BY <2>1
    <2> QED
      BY <1>1, <1>4, <2>2 DEF Grounded, SyncOp, NoSaga, Compensated
  <1> QED
    BY <1>2, <1>3, <1>4

\* Client c goes on with r, for the saga it had or for a new one; the sagas of the
\* others stay as they are.
LEMMA HandlerStep ==
  ASSUME Control, Counts, NEW c \in Clients, NEW r \in SyncReq \cup {NoReq}, Continue(c, r),
         Grounded(r)',
         SyncOp(r) => \/ SyncOp(req[c]) /\ r.saga = req[c].saga
                      \/ sagas[r.saga] = NoSaga,
         mailed \subseteq mailed', refused \subseteq refused',
         \A d \in Clients \ {c} : SyncOp(req[d]) => sagas'[req[d].saga] = sagas[req[d].saga]
  PROVE  req' \in [Clients -> SyncReq \cup {NoReq}] /\ HandlerControl'
  <1>1. req \in [Clients -> SyncReq \cup {NoReq}]
    BY DEF Control, TypeOK
  <1>2. /\ req' \in [Clients -> SyncReq \cup {NoReq}]
        /\ req'[c] = r
        /\ \A d \in Clients \ {c} : req'[d] = req[d]
    BY <1>1 DEF Continue
  <1>3. ASSUME NEW d \in Clients PROVE Grounded(req[d])'
    <2>1. CASE d = c
      BY <1>2, <2>1 DEF Grounded, Compensated
    <2>2. CASE d # c
      <3>1. Grounded(req[d]) /\ req'[d] = req[d]
        BY <1>2, <2>2 DEF Control, HandlerControl
      <3>2. SyncOp(req[d]) => sagas'[req[d].saga] = sagas[req[d].saga]
        BY <2>2
      <3> QED
        BY <3>1, <3>2 DEF Grounded, Compensated, SyncOp, Counts
    <2> QED
      BY <2>1, <2>2
  <1>4. ASSUME NEW d \in Clients, NEW e \in Clients, SyncOp(req'[d]), SyncOp(req'[e]),
               req'[d].saga = req'[e].saga
        PROVE  d = e
    <2>1. \A f \in Clients : SyncOp(req[f]) => sagas[req[f].saga] # NoSaga
      BY ReqFacts
    <2>2. \A f, g \in Clients : SyncOp(req[f]) /\ SyncOp(req[g]) /\ req[f].saga = req[g].saga => f = g
      BY DEF Control, HandlerControl
    <2> QED
      BY <1>2, <1>4, <2>1, <2>2
  <1> QED
    BY <1>2, <1>3, <1>4 DEF HandlerControl, SyncOp

\* Steps of others leave the handlers their grounds: at most they carry a compensation on.
LEMMA HandlersWait ==
  ASSUME Control, Counts, UNCHANGED req, mailed \subseteq mailed', refused \subseteq refused',
         \A s \in Sagas : \/ sagas'[s] = sagas[s]
                          \/ Compensated(s) /\ sagas'[s].state \in {"compensating", "failed"}
  PROVE  HandlerControl'
  <1>1. ASSUME NEW c \in Clients PROVE Grounded(req[c])'
    <2>1. Grounded(req[c]) /\ req'[c] = req[c]
      BY DEF Control, HandlerControl
    <2>2. SyncOp(req[c]) => req[c].saga \in Sagas
      BY ReqFacts
    <2> QED
      BY <2>1, <2>2 DEF Grounded, Compensated, SyncOp, Counts
  <1> QED
    BY <1>1 DEF Control, HandlerControl, SyncOp

\* The notifier's goroutines wait.
LEMMA ServerWaits ==
  ASSUME Control, Counts, UNCHANGED rpc, mailed \subseteq mailed', refused \subseteq refused', SagasGrow
  PROVE  ServerControl'
  BY DEF Control, ServerControl, SagasGrow, Counts

\* The sweeper waits, and its snapshot ages.
LEMMA SweeperWaits ==
  ASSUME Control, UNCHANGED sweeperVars, SagasGrow
  PROVE  SweeperTypeOK' /\ SweepControl'
  <1>1. SweeperTypeOK /\ (swFailing # 0 => swFailing \in Sagas)
    BY MaxSagasAssumption DEF Control, TypeOK, SweeperTypeOK, Sagas
  <1> QED
    BY <1>1 DEF Control, SweeperTypeOK, SweepControl, SagasGrow, Compensated, sweeperVars

\* Rows become pending only with a new token: what is marked stays so.
LEMMA MarkedStays ==
  ASSUME Marked,
         \A i \in Sagas : subs'[i].status = "pending" => subs'[i] = subs[i],
         \A s \in Sagas : Failing(s)' => Failing(s)
  PROVE  Marked'
  BY DEF Marked

\* MarkFailed is what Failing may follow.
LEMMA MarkedHolds ==
  ASSUME Control, Marked, NEW s \in Sagas, sagas[s] # NoSaga,
         MarkFailedHits(sagas[s].sub), MarkFailed(sagas[s].sub),
         \A t \in Sagas : Failing(t)' => Failing(t) \/ t = s
  PROVE  Marked'
  <1>1. PICK i \in Sagas : i = sagas[s].sub
    BY SagaSub DEF Control, TypeOK
  <1>2. subs'[i].status = "failed" /\ \A j \in Sagas \ {i} : subs'[j] = subs[j]
    BY <1>1, MarkFailedFacts DEF Control, TypeOK
  <1>3. \A j \in Sagas : subs[j].status = "pending" /\ subs[j].token = s => j = i
    BY <1>1 DEF Control, Sound, RowsPointBack, IsRow, NoSub
  <1> QED
    BY <1>2, <1>3 DEF Marked

\* Which sagas are failing, when a handler goes on.
LEMMA FailingAfter ==
  ASSUME Control, NEW c \in Clients, NEW r, Continue(c, r), UNCHANGED swFailing,
         NEW s \in Sagas, Failing(s)'
  PROVE  \/ Failing(s)
         \/ sagas'[s].state = "failed"
         \/ r.op = "fail" /\ r.saga = s
  BY DEF Control, TypeOK, Failing, Continue

-----------------------------------------------------------------------------
(* The handlers. *)

\* T1 commits saga n, and its handler calls the notifier.
LEMMA BeginKeeps ==
  ASSUME Control, Marked, Counts, NEW c \in Clients, NEW n \in Sagas, NEW i \in Sagas, sagas[n] = NoSaga,
         BeginCall(c, n, i), Sound', SagasGrow,
         subs'[i].token = n, \A j \in Sagas \ {i} : subs'[j] = subs[j]
  PROVE  Control' /\ Marked'
  <1>1. UNCHANGED <<sweeperVars, tracked, sent, gone, mailed, refused, abandoned>>
    BY DEF BeginCall
  <1>2. sagas'[n].state = "subscription_created" /\ \A t \in Sagas \ {n} : sagas'[t] = sagas[t]
    BY CreateSagaFacts DEF Control, TypeOK, BeginCall
  <1>3. PICK r : r = [op |-> "call", saga |-> n]
    OBVIOUS
  <1>4. r \in SyncReq /\ SyncOp(r) /\ r.saga = n /\ r.op = "call" /\ Continue(c, r)
    BY <1>3 DEF SyncReq, SyncOp, BeginCall
  <1>5. Grounded(r)'
    BY <1>2, <1>4 DEF Grounded
  <1>6. \A d \in Clients : SyncOp(req[d]) => sagas'[req[d].saga] = sagas[req[d].saga]
    BY <1>2, ReqFacts
  <1>7. req' \in [Clients -> SyncReq \cup {NoReq}] /\ HandlerControl'
    BY <1>1, <1>4, <1>5, <1>6, HandlerStep
  <1>8. rpc' = [rpc EXCEPT ![n] = "check"]
    BY DEF BeginCall
  <1>9. rpc' \in [Sagas -> {"none", "check", "send", "mark", "ok", "err"}] /\ ServerControl'
    BY <1>1, <1>2, <1>8 DEF Control, TypeOK, ServerControl, NoSaga, Counts
  <1>10. SweeperTypeOK' /\ SweepControl'
    BY <1>1, SweeperWaits
  <1>11. SyncCompletedMeansMailed'
    BY <1>1, <1>2 DEF Control, SyncCompletedMeansMailed
  <1>12. Control'
    BY <1>1, <1>7, <1>9, <1>10, <1>11 DEF Control, TypeOK, Sound, FaultControl, Counts
  <1>13. Marked'
    <2>1. ~Failing(n)'
      <3>1. swFailing' # n
        BY <1>1 DEF Control, SweepControl, Compensated, NoSaga, sweeperVars, Sagas
      <3>2. \A d \in Clients : ~(req'[d].op = "fail" /\ req'[d].saga = n)
        BY <1>2, <1>7 DEF HandlerControl, Grounded, Compensated
      <3> QED
        BY <1>2, <3>1, <3>2 DEF Failing
    <2>2. \A s \in Sagas : Failing(s)' => Failing(s)
      BY <1>1, <1>2, <1>4, <2>1, FailingAfter DEF sweeperVars, Failing
    <2> QED
      BY <2>1, <2>2 DEF Marked
  <1> QED
    BY <1>12, <1>13

LEMMA T1Keeps ==
  ASSUME Control, Marked, Counts, NEW c \in Clients, NEW n \in Sagas,
         StartConfirmationSync(c, n) \/ ReactivateConfirmationSync(c, n)
  PROVE  Control' /\ Marked'
  <1>0. Sound /\ subs \in [Sagas -> SubRow \cup {NoSub}]
    BY DEF Control, Sound, TablesTypeOK
  <1>1. sagas[n] = NoSaga /\ NextSaga(n)
    BY DEF StartConfirmationSync, ReactivateConfirmationSync, NextSaga
  <1>2. outbox' \in [Sagas -> {"none", "unpublished", "published"}]
    BY <1>0 DEF StartConfirmationSync, ReactivateConfirmationSync, BeginCall, Sound, TablesTypeOK
  <1>3. ASSUME StartConfirmationSync(c, n) PROVE Control' /\ Marked'
    <2>1. req[c] \in Req \cup {NoReq} /\ req[c].op = "start"
      BY <1>3, ReqFacts DEF StartConfirmationSync, SyncOp
    <2>2. req[c].pair \in Emails \X Repos
      BY <2>1 DEF Req, NoReq
    <2>3. CreateSub(n, req[c].pair) /\ BeginCall(c, n, n) /\ CreateSaga(n, n)
      BY <1>3 DEF StartConfirmationSync, BeginCall
    <2>4. Sound' /\ SagasGrow
      BY <1>0, <1>1, <1>2, <2>2, <2>3, CreateT1Sound
    <2>5. subs'[n].token = n /\ \A j \in Sagas \ {n} : subs'[j] = subs[j]
      BY <1>0, <2>3 DEF CreateSub
    <2> QED
      BY <1>1, <2>3, <2>4, <2>5, BeginKeeps
  <1>4. ASSUME ReactivateConfirmationSync(c, n) PROVE Control' /\ Marked'
    <2>1. req[c] \in Req \cup {NoReq} /\ req[c].op = "reactivate"
      BY <1>4, ReqFacts DEF ReactivateConfirmationSync, SyncOp
    <2>2. PICK i \in Sagas : i = req[c].sub
      BY <2>1 DEF Req, NoReq
    <2>3. ReactivateSub(n, i) /\ BeginCall(c, n, i) /\ CreateSaga(n, i)
      BY <1>4, <2>2 DEF ReactivateConfirmationSync, BeginCall
    <2>4. Sound' /\ SagasGrow
      BY <1>0, <1>1, <1>2, <2>3, ReactivateT1Sound
    <2>5. subs'[i].token = n /\ \A j \in Sagas \ {i} : subs'[j] = subs[j]
      BY <1>0, <2>3 DEF ReactivateSub
    <2> QED
      BY <1>1, <2>3, <2>4, <2>5, BeginKeeps
  <1> QED
    BY <1>3, <1>4

\* Requests that are not in the saga.
LEMMA PlainKeeps ==
  ASSUME Control, Marked, Counts, NEW c \in Clients, PlainStep(c), UNCHANGED <<sweeperVars, syncVars>>
  PROVE  Control' /\ Marked'
  <1>1. ~SyncOp(req[c]) /\ req[c] \in Req \cup {NoReq}
    <2>1. req[c] = NoReq \/ req[c].op \in {"start", "reactivate", "confirm", "register", "unsubscribe"}
      <3>1. AbortT1(c) => req[c].op \in {"start", "reactivate"}
        BY DEF AbortT1
      <3>2. ConfirmUpdate(c) => req[c].op = "confirm"
        BY DEF ConfirmUpdate
      <3>3. ConfirmRegister(c) => req[c].op = "register"
        BY DEF ConfirmRegister
      <3>4. UnsubscribeDelete(c) => req[c].op = "unsubscribe"
        BY DEF UnsubscribeDelete
      <3>5. \A pair \in Emails \X Repos : SubscribeLookup(c, pair) => req[c] = NoReq
        BY DEF SubscribeLookup
      <3>6. \A t \in Sagas : ConfirmLookup(c, t) \/ UnsubscribeLookup(c, t) => req[c] = NoReq
        BY DEF ConfirmLookup, UnsubscribeLookup
      <3> QED
        BY <3>1, <3>2, <3>3, <3>4, <3>5, <3>6 DEF PlainStep
    <2> QED
      BY <2>1, ReqFacts DEF SyncOp, NoReq
  <1>2. /\ Sound' /\ UNCHANGED sagas /\ tracked' \subseteq Repos
        /\ \E r \in Req \cup {NoReq} : Continue(c, r)
        /\ \A i \in Sagas : subs'[i].status = "pending" => subs'[i] = subs[i]
    BY <1>1, PlainStepFacts DEF Control
  <1>3. PICK r \in Req \cup {NoReq} : Continue(c, r)
    BY <1>2
  <1>4. ~SyncOp(r) /\ r \in SyncReq \cup {NoReq}
    BY DEF Req, NoReq, SyncOp, SyncReq
  <1>5. UNCHANGED <<rpc, sent, gone, mailed, refused, abandoned>>
    BY DEF syncVars
  <1>6. Grounded(r)'
    BY <1>4 DEF Grounded, SyncOp
  <1>7. req' \in [Clients -> SyncReq \cup {NoReq}] /\ HandlerControl'
    BY <1>2, <1>3, <1>4, <1>5, <1>6, HandlerStep
  <1>8. SagasGrow
    BY <1>2 DEF SagasGrow, Compensated
  <1>9. ServerControl' /\ SweeperTypeOK' /\ SweepControl'
    BY <1>5, <1>8, ServerWaits, SweeperWaits
  <1>10. Control'
    BY <1>2, <1>5, <1>7, <1>9 DEF Control, TypeOK, Sound, FaultControl, Counts, SyncCompletedMeansMailed
  <1>11. \A s \in Sagas : Failing(s)' => Failing(s)
    BY <1>2, <1>3, <1>4, FailingAfter DEF sweeperVars, SyncOp, Failing
  <1> QED
    BY <1>2, <1>10, <1>11, MarkedStays

\* A handler of a saga goes on with r or ends, and writes no table.
LEMMA AdvanceKeeps ==
  ASSUME Control, Marked, Counts, NEW c \in Clients, SyncOp(req[c]), NEW r \in SyncReq \cup {NoReq},
         Continue(c, r), UNCHANGED <<tableVars, sweeperVars, tracked, sent, gone, mailed, refused>>,
         r.op # "fail", SyncOp(r) => r.saga = req[c].saga, Grounded(r)',
         abandoned' \in {abandoned, abandoned \cup {req[c].saga}},
         rpc' \in [Sagas -> {"none", "check", "send", "mark", "ok", "err"}],
         \A s \in Sagas : rpc'[s] \in {rpc[s], "none"}
  PROVE  Control' /\ Marked'
  <1>1. UNCHANGED <<subs, sagas, outbox, stale, updatedAt>>
    BY DEF tableVars
  <1>2. Sound' /\ SagasGrow
    BY <1>1 DEF Control, Sound, TablesTypeOK, RowsPointBack, StatusIsExplained, OneRowPerPair, IsRow,
         Compensated, SagasGrow
  <1>3. req' \in [Clients -> SyncReq \cup {NoReq}] /\ HandlerControl'
    BY <1>1, HandlerStep
  <1>4. ServerControl'
    BY <1>1 DEF Control, ServerControl, Counts
  <1>5. SweeperTypeOK' /\ SweepControl'
    BY <1>2, SweeperWaits
  <1>6. req[c].saga \in Sagas
    BY ReqFacts
  <1>7. gone' \cup mailed' \cup refused' \cup abandoned' \subseteq Sagas /\ sent' \subseteq mailed'
    BY <1>6 DEF Control, TypeOK
  <1>8. Control'
    BY <1>1, <1>2, <1>3, <1>4, <1>5, <1>7
    DEF Control, TypeOK, Sound, FaultControl, Counts, SyncCompletedMeansMailed
  <1>9. \A s \in Sagas : Failing(s)' => Failing(s)
    BY <1>1, FailingAfter DEF sweeperVars, Failing
  <1> QED
    BY <1>1, <1>8, <1>9, MarkedStays

\* The call ends, whatever its answer, or the handler does.
LEMMA CallKeeps ==
  ASSUME Control, Marked, Counts, NEW c \in Clients,
         \/ CallReturns(c) \/ Abandon(c) \/ StatementCancelled(c)
         \/ HangUp(c) /\ (req[c].saga \in gone \/ faults' # 0)
  PROVE  Control' /\ Marked'
  <1>1. SyncOp(req[c])
    BY DEF CallReturns, HangUp, Abandon, StatementCancelled, InSync, SyncOp
  <1>2. req[c].saga \in Sagas /\ Grounded(req[c])
    BY <1>1, ReqFacts DEF Control, HandlerControl
  <1>3. PICK s \in Sagas : s = req[c].saga
    BY <1>2
  <1>r. rpc \in [Sagas -> {"none", "check", "send", "mark", "ok", "err"}]
    BY DEF Control, TypeOK
  <1>4. /\ UNCHANGED <<tableVars, sweeperVars, tracked, sent, gone, mailed, refused>>
        /\ abandoned' \in {abandoned, abandoned \cup {req[c].saga}}
    BY DEF CallReturns, HangUp, Abandon, StatementCancelled, syncVars
  <1>5. /\ rpc' \in [Sagas -> {"none", "check", "send", "mark", "ok", "err"}]
        /\ \A t \in Sagas : rpc'[t] \in {rpc[t], "none"}
    BY <1>2, <1>r DEF CallReturns, HangUp, Abandon, StatementCancelled, syncVars
  <1>6. ASSUME NEW op \in {"complete", "compensate"}, Advance(c, op), req[c].op = "call",
               op = "complete" => s \in mailed, op = "compensate" /\ faults' = 0 => s \in refused
        PROVE  Control' /\ Marked'
    <2>1. PICK r : r = [op |-> op, saga |-> s]
      OBVIOUS
    <2>2. r \in SyncReq /\ r.op = op /\ r.saga = s /\ Continue(c, r)
      BY <1>3, <1>6, <2>1 DEF SyncReq, Advance
    <2>3. Grounded(r)'
      BY <1>2, <1>3, <1>4, <1>6, <2>2 DEF Grounded, tableVars
    <2> QED
      BY <1>1, <1>3, <1>4, <1>5, <2>2, <2>3, AdvanceKeeps
  <1>7. CASE CallReturns(c)
    BY <1>3, <1>6, <1>7 DEF CallReturns, Control, ServerControl, Counts
  <1>8. CASE HangUp(c) /\ (s \in gone \/ faults' # 0)
    <2>1. faults' # 0
      BY <1>4, <1>8 DEF Counts
    <2> QED
      BY <1>6, <1>8, <2>1 DEF HangUp
  <1>9. CASE Abandon(c) \/ StatementCancelled(c)
    <2>1. Continue(c, NoReq) /\ NoReq.op = "none"
      BY <1>9 DEF Abandon, StatementCancelled, Finish, NoReq
    <2>2. PICK r : r = NoReq
      OBVIOUS
    <2>3. r \in SyncReq \cup {NoReq} /\ ~SyncOp(r) /\ r.op # "fail" /\ Grounded(r)' /\ Continue(c, r)
      BY <2>1, <2>2 DEF SyncOp, Grounded
    <2> QED
      BY <1>1, <1>4, <1>5, <2>3, AdvanceKeeps
  <1> QED
    BY <1>3, <1>7, <1>8, <1>9

\* A handler moves its saga to st and goes on with r or ends.
LEMMA MoveKeeps ==
  ASSUME Control, Marked, Counts, NEW c \in Clients, SyncOp(req[c]), NEW st \in State,
         UpdateState(req[c].saga, st), NEW r \in SyncReq \cup {NoReq}, Continue(c, r),
         UNCHANGED <<subs, outbox, sweeperVars, tracked, syncVars>>,
         Compensated(req[c].saga) => st \in {"compensating", "failed"},
         st = "completed" => req[c].saga \in mailed,
         st = "failed" => req[c].op = "fail",
         r.op # "fail", SyncOp(r) => r.saga = req[c].saga, Grounded(r)'
  PROVE  Control' /\ Marked'
  <1>1. PICK s \in Sagas : s = req[c].saga /\ sagas[s] # NoSaga
    BY ReqFacts
  <1>2. Sound' /\ SagasGrow
    BY <1>1, UpdateStateSound DEF Control
  <1>3. sagas'[s].state = st /\ \A t \in Sagas \ {s} : sagas'[t] = sagas[t]
    BY <1>1, UpdateStateFacts DEF Control, TypeOK
  <1>4. UNCHANGED <<rpc, sent, gone, mailed, refused, abandoned>>
    BY DEF syncVars
  <1>5. \A d \in Clients \ {c} : SyncOp(req[d]) => sagas'[req[d].saga] = sagas[req[d].saga]
    <2>1. ASSUME NEW d \in Clients \ {c}, SyncOp(req[d]) PROVE req[d].saga \in Sagas \ {s}
      BY <1>1, <2>1, ReqFacts DEF Control, HandlerControl
    <2> QED
      BY <1>3, <2>1
  <1>6. req' \in [Clients -> SyncReq \cup {NoReq}] /\ HandlerControl'
    BY <1>4, <1>5, HandlerStep
  <1>7. ServerControl' /\ SweeperTypeOK' /\ SweepControl'
    BY <1>2, <1>4, ServerWaits, SweeperWaits
  <1>8. SyncCompletedMeansMailed'
    BY <1>1, <1>3, <1>4 DEF Control, SyncCompletedMeansMailed
  <1>9. Control'
    BY <1>2, <1>4, <1>6, <1>7, <1>8 DEF Control, TypeOK, Sound, FaultControl, Counts
  <1>10. \A t \in Sagas : Failing(t)' => Failing(t)
    BY <1>1, <1>3, FailingAfter DEF sweeperVars, Failing
  <1> QED
    BY <1>9, <1>10, MarkedStays

\* dispatchSync and compensateSync after the call.
LEMMA UpdateKeeps ==
  ASSUME Control, Marked, Counts, NEW c \in Clients, CompleteSync(c) \/ CompensateSync(c) \/ FailSync(c)
  PROVE  Control' /\ Marked'
  <1>1. SyncOp(req[c])
    BY DEF CompleteSync, CompensateSync, FailSync, SyncOp
  <1>2. Grounded(req[c])
    BY DEF Control, HandlerControl
  <1>3. PICK s \in Sagas : s = req[c].saga /\ sagas[s] # NoSaga
    BY <1>1, ReqFacts
  <1>n. PICK n : n = NoReq
    OBVIOUS
  <1>e. /\ n \in SyncReq \cup {NoReq} /\ ~SyncOp(n) /\ n.op # "fail" /\ Grounded(n)'
        /\ Finish(c) => Continue(c, n)
    BY <1>n DEF NoReq, SyncOp, Grounded, Finish
  <1>4. CASE CompleteSync(c)
    <2>1. /\ UpdateState(req[c].saga, "completed") /\ Continue(c, n)
          /\ UNCHANGED <<subs, outbox, sweeperVars, tracked, syncVars>>
          /\ "completed" \in State
      BY <1>4, <1>e DEF CompleteSync, State
    <2>2. req[c].saga \in mailed /\ ~Compensated(req[c].saga)
      BY <1>2, <1>4 DEF CompleteSync, Grounded, Compensated
    <2> QED
      BY <1>1, <1>e, <2>1, <2>2, MoveKeeps
  <1>5. CASE FailSync(c)
    <2>1. /\ UpdateState(req[c].saga, "failed") /\ Continue(c, n) /\ req[c].op = "fail"
          /\ UNCHANGED <<subs, outbox, sweeperVars, tracked, syncVars>>
          /\ "failed" \in State
      BY <1>5, <1>e DEF FailSync, State
    <2> QED
      BY <1>1, <1>e, <2>1, MoveKeeps
  <1>6. CASE CompensateSync(c)
    <2>1. PICK r : r = [op |-> "markFailed", saga |-> s]
      OBVIOUS
    <2>2. r \in SyncReq /\ r.op = "markFailed" /\ r.saga = s
      BY <2>1 DEF SyncReq
    <2>3. /\ UpdateState(req[c].saga, "compensating") /\ Continue(c, r)
          /\ UNCHANGED <<subs, outbox, sweeperVars, tracked, syncVars>>
          /\ "compensating" \in State
      BY <1>3, <1>6, <2>1 DEF CompensateSync, Advance, State
    <2>4. sagas'[s].state = "compensating"
      BY <1>3, <2>3, UpdateStateFacts DEF Control, TypeOK
    <2>5. Grounded(r)'
      BY <2>2, <2>4 DEF Grounded, Compensated
    <2> QED
      BY <1>1, <1>3, <2>2, <2>3, <2>5, MoveKeeps
  <1> QED
    BY <1>4, <1>5, <1>6

\* MarkFailed of compensateSync: the row is marked, or it was deleted.
LEMMA MarkKeeps ==
  ASSUME Control, Marked, Counts, NEW c \in Clients, MarkFailedSync(c)
  PROVE  Control' /\ Marked'
  <1>1. SyncOp(req[c]) /\ Grounded(req[c])
    BY DEF MarkFailedSync, SyncOp, Control, HandlerControl
  <1>2. PICK s \in Sagas : s = req[c].saga /\ sagas[s] # NoSaga
    BY <1>1, ReqFacts
  <1>3. Compensated(s)
    BY <1>1, <1>2 DEF MarkFailedSync, Grounded
  <1>4. UNCHANGED <<sagas, outbox, stale, updatedAt, sweeperVars, tracked, syncVars>>
    BY DEF MarkFailedSync
  <1>5. UNCHANGED <<rpc, sent, gone, mailed, refused, abandoned>>
    BY <1>4 DEF syncVars
  <1>6. CASE UNCHANGED subs /\ Finish(c)
    <2>1. PICK n : n = NoReq
      OBVIOUS
    <2>2. /\ n \in SyncReq \cup {NoReq} /\ ~SyncOp(n) /\ n.op # "fail" /\ Grounded(n)'
          /\ Continue(c, n)
      BY <1>6, <2>1 DEF NoReq, SyncOp, Grounded, Finish
    <2>3. UNCHANGED tableVars
      BY <1>4, <1>6 DEF tableVars
    <2>4. rpc' \in [Sagas -> {"none", "check", "send", "mark", "ok", "err"}]
      BY <1>5 DEF Control, TypeOK
    <2> QED
      BY <1>1, <1>4, <1>5, <2>2, <2>3, <2>4, AdvanceKeeps
  <1>7. CASE MarkFailedHits(sagas[s].sub) /\ MarkFailed(sagas[s].sub) /\ Advance(c, "fail")
    <2>1. Sound' /\ SagasGrow
      BY <1>2, <1>3, <1>4, <1>7, MarkFailedSound DEF Control
    <2>2. PICK r : r = [op |-> "fail", saga |-> s]
      OBVIOUS
    <2>3. r \in SyncReq /\ r.op = "fail" /\ r.saga = s /\ Continue(c, r)
      BY <1>2, <1>7, <2>2 DEF SyncReq, Advance
    <2>4. Grounded(r)'
      BY <1>3, <1>4, <2>3 DEF Grounded, Compensated
    <2>5. req' \in [Clients -> SyncReq \cup {NoReq}] /\ HandlerControl'
      BY <1>1, <1>2, <1>4, <1>5, <2>3, <2>4, HandlerStep
    <2>6. ServerControl' /\ SweeperTypeOK' /\ SweepControl'
      BY <1>4, <1>5, <2>1, ServerWaits, SweeperWaits
    <2>7. Control'
      BY <1>4, <1>5, <2>1, <2>5, <2>6 DEF Control, TypeOK, Sound, FaultControl, Counts, SyncCompletedMeansMailed
    <2>8. \A t \in Sagas : Failing(t)' => Failing(t) \/ t = s
      BY <1>4, <2>3, FailingAfter DEF sweeperVars, Failing
    <2> QED
      BY <1>2, <1>7, <2>7, <2>8, MarkedHolds
  <1> QED
    BY <1>2, <1>6, <1>7 DEF MarkFailedSync

-----------------------------------------------------------------------------
(* The notifier. *)

\* A step of the notifier: it writes no table, and knows what it claims.
LEMMA ServerStepKeeps ==
  ASSUME Control, Marked, Counts, UNCHANGED <<tableVars, sweeperVars, apiVars, gone, abandoned>>,
         refused \subseteq refused', refused' \subseteq Sagas,
         rpc' \in [Sagas -> {"none", "check", "send", "mark", "ok", "err"}],
         mailed \subseteq mailed', mailed' \subseteq Sagas, sent' \subseteq mailed',
         \A s \in Sagas : \/ rpc'[s] = rpc[s]
                          \/ /\ rpc[s] # "none"
                             /\ rpc'[s] \in {"mark", "ok"} => s \in mailed'
                             /\ rpc'[s] = "err" /\ faults' = 0 => s \in refused'
  PROVE  Control' /\ Marked'
  <1>1. UNCHANGED <<subs, sagas, outbox, stale, updatedAt, req, tracked, swBatch, swFailing>>
    BY DEF tableVars, apiVars, sweeperVars
  <1>2. Sound' /\ SagasGrow
    BY <1>1 DEF Control, Sound, TablesTypeOK, RowsPointBack, StatusIsExplained, OneRowPerPair, IsRow,
         Compensated, SagasGrow
  <1>3. HandlerControl'
    BY <1>1, HandlersWait
  <1>4. ServerControl'
    BY <1>1 DEF Control, ServerControl, Counts
  <1>5. SweeperTypeOK' /\ SweepControl'
    BY <1>2, SweeperWaits
  <1>6. Control'
    BY <1>1, <1>2, <1>3, <1>4, <1>5 DEF Control, TypeOK, Sound, FaultControl, Counts, SyncCompletedMeansMailed
  <1>7. \A s \in Sagas : Failing(s)' => Failing(s)
    BY <1>1 DEF Failing
  <1> QED
    BY <1>1, <1>6, <1>7, MarkedStays

LEMMA NotifierKeeps ==
  ASSUME Control, Marked, Counts, (\E s \in Sagas : Server(s)) \/ GrpcCrash
  PROVE  Control' /\ Marked'
  <1>1. /\ rpc \in [Sagas -> {"none", "check", "send", "mark", "ok", "err"}]
        /\ sent \subseteq mailed /\ mailed \subseteq Sagas /\ refused \subseteq Sagas
        /\ \A s \in Sagas : rpc[s] \in {"mark", "ok"} => s \in mailed
    BY DEF Control, TypeOK, ServerControl
  <1>2. ASSUME NEW s \in Sagas, Server(s) PROVE Control' /\ Marked'
    <2>1. /\ UNCHANGED <<tableVars, sweeperVars, apiVars, gone, abandoned>>
          /\ rpc[s] # "none"
      BY <1>2 DEF Server, GrpcCheck, GrpcSendOk, GrpcSendErr, GrpcMark
    <2>2. CASE GrpcCheck(s)
      BY <1>1, <2>1, <2>2, ServerStepKeeps DEF GrpcCheck
    <2>3. CASE GrpcSendOk(s)
      BY <1>1, <2>1, <2>3, ServerStepKeeps DEF GrpcSendOk
    <2>4. CASE GrpcSendErr(s)
      BY <1>1, <2>1, <2>4, ServerStepKeeps DEF GrpcSendErr
    <2>5. CASE GrpcMark(s)
      BY <1>1, <2>1, <2>5, ServerStepKeeps DEF GrpcMark
    <2> QED
      BY <1>2, <2>2, <2>3, <2>4, <2>5 DEF Server
  <1>3. CASE GrpcCrash
    <2>1. faults' # 0
      BY <1>3 DEF GrpcCrash, Fault, Control, FaultControl
    <2> QED
      BY <1>1, <1>3, <2>1, ServerStepKeeps DEF GrpcCrash
  <1> QED
    BY <1>2, <1>3

\* The HTTP client goes away; nobody has noticed yet.
LEMMA DisconnectKeeps ==
  ASSUME Control, Marked, Counts, NEW c \in Clients, Disconnect(c)
  PROVE  Control' /\ Marked'
  <1>1. /\ UNCHANGED <<subs, sagas, outbox, stale, updatedAt, req, tracked, swBatch, swFailing>>
        /\ UNCHANGED <<rpc, sent, mailed, refused, abandoned>>
    BY DEF Disconnect, tableVars, apiVars, sweeperVars
  <1>2. Sound' /\ SagasGrow
    BY <1>1 DEF Control, Sound, TablesTypeOK, RowsPointBack, StatusIsExplained, OneRowPerPair, IsRow,
         Compensated, SagasGrow
  <1>3. HandlerControl' /\ ServerControl' /\ SweeperTypeOK' /\ SweepControl'
    BY <1>1, <1>2, HandlersWait, ServerWaits, SweeperWaits DEF sweeperVars
  <1>4. gone' \subseteq Sagas
    BY ReqFacts DEF Disconnect, InSync, SyncOp, Control, TypeOK
  <1>5. Control'
    BY <1>1, <1>2, <1>3, <1>4 DEF Control, TypeOK, Sound, FaultControl, Counts, SyncCompletedMeansMailed
  <1>6. \A s \in Sagas : Failing(s)' => Failing(s)
    BY <1>1 DEF Failing
  <1> QED
    BY <1>1, <1>5, <1>6, MarkedStays

-----------------------------------------------------------------------------
(* The sweeper, time and crashes. *)

\* A step of the monolith outside the handlers: handlers wait or are gone.
LEMMA BackgroundKeeps ==
  ASSUME Control, Counts, Sound', SagasGrow, UNCHANGED <<req, tracked, syncVars>>,
         SweeperTypeOK', SweepControl',
         \A s \in Sagas : \/ sagas'[s] = sagas[s]
                          \/ Compensated(s) /\ sagas'[s].state \in {"compensating", "failed"}
  PROVE  Control'
  <1>1. UNCHANGED <<rpc, sent, gone, mailed, refused, abandoned>>
    BY DEF syncVars
  <1>2. HandlerControl' /\ ServerControl'
    BY <1>1, HandlersWait, ServerWaits
  <1>3. SyncCompletedMeansMailed'
    BY <1>1 DEF Control, SyncCompletedMeansMailed
  <1> QED
    BY <1>1, <1>2, <1>3 DEF Control, TypeOK, Sound, FaultControl, Counts

\* The sweeper fails only sagas that were compensated, and marks their rows first.
LEMMA SweepKeeps ==
  ASSUME Control, Marked, Counts, Sweep
  PROVE  Control' /\ Marked'
  <1>0. UNCHANGED <<req, tracked, syncVars>>
    BY DEF Sweep, apiVars
  <1>t. /\ Sound /\ TablesTypeOK /\ SweeperTypeOK /\ SweepControl
        /\ \A row \in swBatch : row.saga \in Sagas /\ sagas[row.saga] # NoSaga
        /\ swFailing # 0 => swFailing \in Sagas
    BY MaxSagasAssumption DEF Control, TypeOK, SweeperTypeOK, SweepControl, Sagas
  <1>1. CASE SweepFind
    <2>1. PICK b \in SUBSET Resumable :
            swBatch' = {[saga |-> s, state |-> sagas[s].state] : s \in b}
      BY <1>1 DEF SweepFind
    <2>2. \A s \in b : s \in Sagas /\ sagas[s].state \in {"subscription_created", "compensating"}
      BY <1>t DEF Resumable, Unfinished, TablesTypeOK
    <2>3. UNCHANGED <<subs, sagas, outbox, stale, updatedAt, swFailing>>
      BY <1>1 DEF SweepFind, tableVars
    <2>4. SweeperTypeOK' /\ SweepControl'
      BY <1>t, <2>1, <2>2, <2>3 DEF SweeperTypeOK, SweepControl, Compensated, NoSaga
    <2>5. Sound' /\ SagasGrow
      BY <1>t, <2>3 DEF Sound, TablesTypeOK, RowsPointBack, StatusIsExplained, OneRowPerPair, IsRow,
           Compensated, SagasGrow
    <2>6. \A s \in Sagas : Failing(s)' => Failing(s)
      BY <1>0, <2>3 DEF Failing
    <2> QED
      BY <1>0, <2>3, <2>4, <2>5, <2>6, BackgroundKeeps, MarkedStays
  <1>2. ASSUME NEW row \in swBatch, SweepRequeue(row) PROVE Control' /\ Marked'
    <2>1. /\ UNCHANGED <<subs, sagas, stale, updatedAt, swFailing>> /\ swBatch' = swBatch \ {row}
          /\ outbox' \in [Sagas -> {"none", "unpublished", "published"}]
      BY <1>t, <1>2 DEF SweepRequeue, Requeue, TablesTypeOK
    <2>2. SweeperTypeOK' /\ SweepControl'
      BY <1>t, <2>1 DEF SweeperTypeOK, SweepControl, Compensated
    <2>3. Sound' /\ SagasGrow
      BY <1>t, <2>1 DEF Sound, TablesTypeOK, RowsPointBack, StatusIsExplained, OneRowPerPair, IsRow,
           Compensated, SagasGrow
    <2>4. \A s \in Sagas : Failing(s)' => Failing(s)
      BY <1>0, <2>1 DEF Failing
    <2> QED
      BY <1>0, <2>1, <2>2, <2>3, <2>4, BackgroundKeeps, MarkedStays
  <1>3. ASSUME NEW row \in swBatch, SweepMarkFailed(row) PROVE Control' /\ Marked'
    <2>1. PICK s \in Sagas : s = row.saga
      BY <1>t
    <2>2. sagas[s] # NoSaga /\ Compensated(s)
      BY <1>t, <1>3, <2>1 DEF SweepMarkFailed, SweepControl
    <2>3. UNCHANGED <<sagas, outbox, stale, updatedAt>> /\ swBatch' = swBatch \ {row}
      BY <1>3 DEF SweepMarkFailed
    <2>4. CASE UNCHANGED <<subs, swFailing>>
      <3>1. SweeperTypeOK' /\ SweepControl'
        BY <1>t, <2>3, <2>4 DEF SweeperTypeOK, SweepControl, Compensated
      <3>2. Sound' /\ SagasGrow
        BY <1>t, <2>3, <2>4 DEF Sound, TablesTypeOK, RowsPointBack, StatusIsExplained, OneRowPerPair,
             IsRow, Compensated, SagasGrow
      <3>3. \A t \in Sagas : Failing(t)' => Failing(t)
        BY <1>0, <2>3, <2>4 DEF Failing
      <3> QED
        BY <1>0, <2>3, <2>4, <3>1, <3>2, <3>3, BackgroundKeeps, MarkedStays
    <2>5. CASE MarkFailedHits(sagas[s].sub) /\ MarkFailed(sagas[s].sub) /\ swFailing' = s
      <3>1. SweeperTypeOK' /\ SweepControl'
        BY <1>t, <2>2, <2>3, <2>5, MaxSagasAssumption DEF SweeperTypeOK, SweepControl, Compensated, Sagas
      <3>2. Sound' /\ SagasGrow
        BY <1>t, <2>2, <2>3, <2>5, MarkFailedSound
      <3>3. \A t \in Sagas : Failing(t)' => Failing(t) \/ t = s
        BY <1>0, <2>3, <2>5 DEF Failing
      <3> QED
        BY <1>0, <2>2, <2>3, <2>5, <3>1, <3>2, <3>3, BackgroundKeeps, MarkedHolds
    <2> QED
      BY <1>3, <2>1, <2>4, <2>5 DEF SweepMarkFailed
  <1>4. CASE SweepFail
    <2>1. PICK s \in Sagas : s = swFailing
      BY <1>t, <1>4 DEF SweepFail
    <2>2. Compensated(s) /\ sagas[s] # NoSaga
      BY <1>t, <1>4, <2>1 DEF SweepFail, SweepControl, Compensated, NoSaga
    <2>3. swFailing' = 0 /\ UNCHANGED <<subs, outbox, swBatch>>
      BY <1>4 DEF SweepFail
    <2>4. CASE UNCHANGED <<sagas, stale, updatedAt>>
      <3>1. SweeperTypeOK' /\ SweepControl'
        BY <1>t, <2>3, <2>4, MaxSagasAssumption DEF SweeperTypeOK, SweepControl, Compensated
      <3>2. Sound' /\ SagasGrow
        BY <1>t, <2>3, <2>4 DEF Sound, TablesTypeOK, RowsPointBack, StatusIsExplained, OneRowPerPair,
             IsRow, Compensated, SagasGrow
      <3>3. \A t \in Sagas : Failing(t)' => Failing(t)
        BY <1>0, <2>3, <2>4 DEF Failing, Sagas
      <3> QED
        BY <1>0, <2>3, <2>4, <3>1, <3>2, <3>3, BackgroundKeeps, MarkedStays
    <2>5. CASE UpdateState(s, "failed")
      <3>1. Sound' /\ SagasGrow
        BY <1>t, <2>2, <2>3, <2>5, UpdateStateSound DEF State
      <3>2. sagas'[s].state = "failed" /\ \A t \in Sagas \ {s} : sagas'[t] = sagas[t]
        BY <1>t, <2>2, <2>5, UpdateStateFacts DEF State
      <3>3. SweeperTypeOK' /\ SweepControl'
        BY <1>t, <2>3, <3>1, MaxSagasAssumption DEF SweeperTypeOK, SweepControl, SagasGrow, Compensated
      <3>4. \A t \in Sagas : Failing(t)' => Failing(t)
        BY <1>0, <2>1, <2>3, <3>2 DEF Failing, Sagas
      <3>5. \A t \in Sagas : \/ sagas'[t] = sagas[t]
                             \/ Compensated(t) /\ sagas'[t].state \in {"compensating", "failed"}
        BY <2>2, <3>2
      <3> QED
        BY <1>0, <2>3, <3>1, <3>3, <3>4, <3>5, BackgroundKeeps, MarkedStays
    <2> QED
      BY <1>4, <2>1, <2>4, <2>5 DEF SweepFail
  <1> QED
    BY <1>1, <1>2, <1>3, <1>4 DEF Sweep, SweeperNext

\* Time passes, or nothing happens.
LEMMA ClockKeeps ==
  ASSUME Control, Marked, Counts, (\E s \in Sagas : Clock(s)) \/ UNCHANGED vars
  PROVE  Control' /\ Marked'
  <1>1. /\ UNCHANGED <<subs, sagas, outbox, updatedAt, sweeperVars, req, tracked, syncVars>>
        /\ stale' \subseteq Sagas
    BY DEF Control, TypeOK, TablesTypeOK, Clock, Age, vars, apiVars, tableVars
  <1>2. Sound' /\ SagasGrow
    BY <1>1 DEF Control, Sound, TablesTypeOK, RowsPointBack, StatusIsExplained, OneRowPerPair, IsRow,
         Compensated, SagasGrow
  <1>3. SweeperTypeOK' /\ SweepControl'
    BY <1>1, <1>2, SweeperWaits
  <1>4. \A s \in Sagas : Failing(s)' => Failing(s)
    BY <1>1 DEF Failing, sweeperVars
  <1> QED
    BY <1>1, <1>2, <1>3, <1>4, BackgroundKeeps, MarkedStays

\* The monolith dies: the tables keep what was committed.
LEMMA CrashKeeps ==
  ASSUME Control, Marked, Counts, MonolithCrash
  PROVE  Control' /\ Marked'
  <1>1. /\ UNCHANGED <<subs, sagas, outbox, stale, updatedAt, tracked, rpc, sent, gone, mailed, refused>>
        /\ req' = [c \in Clients |-> NoReq] /\ swBatch' = {} /\ swFailing' = 0
    BY DEF MonolithCrash, ApiReset, SweeperReset, tableVars
  <1>2. Sound' /\ SagasGrow
    BY <1>1 DEF Control, Sound, TablesTypeOK, RowsPointBack, StatusIsExplained, OneRowPerPair, IsRow,
         Compensated, SagasGrow
  <1>3. HandlerControl' /\ req' \in [Clients -> SyncReq \cup {NoReq}]
    BY <1>1 DEF HandlerControl, Grounded, SyncOp, NoReq
  <1>4. SweeperTypeOK' /\ SweepControl' /\ ServerControl'
    BY <1>1, MaxSagasAssumption DEF Control, SweeperTypeOK, SweepControl, ServerControl, Counts
  <1>5. abandoned' \subseteq Sagas
    <2>1. \A d \in Clients : InSync(d) => req[d].saga \in Sagas
      BY ReqFacts DEF InSync, SyncOp
    <2> QED
      BY <2>1 DEF MonolithCrash, Control, TypeOK
  <1>6. Control'
    BY <1>1, <1>2, <1>3, <1>4, <1>5 DEF Control, TypeOK, Sound, FaultControl, Counts, SyncCompletedMeansMailed
  <1>7. \A s \in Sagas : Failing(s)' => Failing(s)
    BY <1>1 DEF Failing, NoReq, Sagas
  <1> QED
    BY <1>1, <1>6, <1>7, MarkedStays

LEMMA NextKeeps ==
  ASSUME Control, Marked, [Next]_vars
  PROVE  Control' /\ Marked'
  <1>0. Counts
    BY NextCounts
  <1>1. ASSUME NEW c \in Clients, Handler(c) \/ Client(c) PROVE Control' /\ Marked'
    <2>1. CASE \E n \in Sagas : StartConfirmationSync(c, n) \/ ReactivateConfirmationSync(c, n)
      BY <1>0, <2>1, T1Keeps
    <2>2. CASE (AbortT1(c) \/ ConfirmUpdate(c) \/ ConfirmRegister(c) \/ UnsubscribeDelete(c))
                 /\ UNCHANGED <<sweeperVars, syncVars>>
      BY <1>0, <2>2, PlainKeeps DEF PlainStep
    <2>3. CASE Client(c)
      BY <1>0, <2>3, PlainKeeps DEF PlainStep, Client, ApiRequest, Issued
    <2>4. CASE CallReturns(c) \/ CallCancelled(c) \/ StatementCancelled(c)
      BY <1>0, <2>4, CallKeeps DEF CallCancelled
    <2>5. CASE CompleteSync(c) \/ CompensateSync(c) \/ FailSync(c) \/ MarkFailedSync(c)
      BY <1>0, <2>5, UpdateKeeps, MarkKeeps
    <2> QED
      BY <1>1, <2>1, <2>2, <2>3, <2>4, <2>5 DEF Handler
  <1>2. ASSUME NEW c \in Clients, CallFails(c) \/ Abandon(c) \/ Disconnect(c) PROVE Control' /\ Marked'
    <2>1. CallFails(c) => faults' # 0
      BY DEF CallFails, Fault, Control, FaultControl
    <2> QED
      BY <1>0, <1>2, <2>1, CallKeeps, DisconnectKeeps DEF CallFails
  <1> QED
    BY <1>0, <1>1, <1>2, NotifierKeeps, SweepKeeps, ClockKeeps, CrashKeeps DEF Next

-----------------------------------------------------------------------------
(* The invariants. *)

\* Every handler, call and sweep has grounds for what it does next, and a row is marked
\* before its saga fails, however they interleave (dispatchSync, compensateSync, Sweep).
THEOREM SyncInvariant == Spec => [](Control /\ Marked)
  <1>1. Control /\ Marked /\ [Next]_vars => Control' /\ Marked'
    BY NextKeeps
  <1> QED
    BY <1>1, InitControl, PTL DEF Spec

\* The rows, the notifier's calls and the sweeper's snapshot have their types (SyncSaga).
THEOREM TypeCorrect == Spec => []TypeOK
  <1>1. Control => TypeOK
    BY DEF Control
  <1> QED
    BY <1>1, SyncInvariant, PTL

\* A saga is completed only when its mail arrived (dispatchSync after SendConfirmation).
THEOREM CompletedMeansMailed == Spec => []SyncCompletedMeansMailed
  <1>1. Control => SyncCompletedMeansMailed
    BY DEF Control
  <1> QED
    BY <1>1, SyncInvariant, PTL

\* No pending row belongs to a failed saga (MarkFailed before UpdateState(failed)).
THEOREM PendingNotFailed == Spec => []SyncPendingNotFailed
  <1>1. Control /\ Marked => SyncPendingNotFailed
    <2> SUFFICES ASSUME Control, Marked, NEW i \in Sagas, subs[i].status = "pending",
                        sagas[subs[i].token].state = "failed"
                 PROVE  FALSE
      BY DEF SyncPendingNotFailed
    <2>1. subs[i] \in SubRow
      BY DEF Control, TypeOK, TablesTypeOK, NoSub
    <2>2. subs[i].token \in Sagas
      BY <2>1 DEF SubRow
    <2> QED
      BY <2>2 DEF Marked, Failing
  <1> QED
    BY <1>1, SyncInvariant, PTL

\* A row is marked failed only for a compensated saga of its own, and only confirmed
\* rows say so, on this transport too (StatusIsExplained).
THEOREM StatusAlwaysExplained == Spec => []StatusIsExplained
  <1>1. Control => StatusIsExplained
    BY DEF Control, Sound
  <1> QED
    BY <1>1, SyncInvariant, PTL

-----------------------------------------------------------------------------
(* Decisions. *)

Arrives(s) ==
  /\ sagas[s] # NoSaga
  /\ mailed' \in {mailed, mailed \cup {s}}
  /\ refused' \in {refused, refused \cup {s}}

\* What a step may do to saga s.
Moves(s) ==
  \/ sagas[s] = NoSaga /\ sagas'[s].state = "subscription_created"
  \/ sagas[s].state = "subscription_created" /\ s \in mailed /\ sagas'[s].state = "completed"
  \/ /\ sagas[s].state = "subscription_created"
     /\ sagas'[s].state = "compensating"
     /\ faults' = 0 => s \in refused
  \/ /\ Compensated(s)
     /\ sagas'[s].state = "failed"
     /\ sagas[s].state = "failed" => sagas'[s] = sagas[s]

Decides ==
  \/ UNCHANGED sagas /\ UNCHANGED <<mailed, refused>>
  \/ UNCHANGED sagas /\ \E s \in Sagas : Arrives(s)
  \/ /\ UNCHANGED <<mailed, refused>>
     /\ \E s \in Sagas : Moves(s) /\ \A t \in Sagas \ {s} : sagas'[t] = sagas[t]

\* Every step moves at most one saga, by one transition of its life, and for a cause;
\* the cause of a compensation is the notifier's own as long as nothing went wrong.
LEMMA NextDecides ==
  ASSUME Control, [Next]_vars
  PROVE  Decides
  <1>t. TablesTypeOK
    BY DEF Control, TypeOK
  <1>u. ASSUME NEW s \in Sagas, NEW st \in State, sagas[s] # NoSaga, UpdateState(s, st)
        PROVE  /\ sagas'[s].state = st
               /\ \A t \in Sagas \ {s} : sagas'[t] = sagas[t]
               /\ sagas[s].state = st => sagas'[s] = sagas[s]
    <2>1. sagas[s] \in SagaRow /\ sagas \in [Sagas -> SagaRow \cup {NoSaga}]
      BY <1>t, <1>u, SagaSub DEF TablesTypeOK
    <2>2. sagas'[s] = [sagas[s] EXCEPT !.state = st]
      BY <1>u, <2>1 DEF UpdateState
    <2>3. sagas[s].state = st => sagas'[s] = sagas[s]
      BY <2>1, <2>2 DEF SagaRow
    <2> QED
      BY <1>t, <1>u, <2>3, UpdateStateFacts
  <1>1. ASSUME NEW c \in Clients, NEW n \in Sagas,
               StartConfirmationSync(c, n) \/ ReactivateConfirmationSync(c, n)
        PROVE  Decides
    <2>1. sagas[n] = NoSaga /\ UNCHANGED <<mailed, refused>>
      BY <1>1 DEF StartConfirmationSync, ReactivateConfirmationSync, NextSaga, BeginCall
    <2>2. \E i : sagas' = [sagas EXCEPT ![n] = [sub |-> i, state |-> "subscription_created"]]
      BY <1>1 DEF StartConfirmationSync, ReactivateConfirmationSync, BeginCall, CreateSaga
    <2>3. sagas'[n].state = "subscription_created" /\ \A t \in Sagas \ {n} : sagas'[t] = sagas[t]
      BY <1>t, <2>2 DEF TablesTypeOK
    <2> QED
      BY <2>1, <2>3 DEF Decides, Moves
  <1>2. ASSUME NEW c \in Clients, CallReturns(c) \/ HangUp(c) \/ StatementCancelled(c) PROVE Decides
    BY <1>2 DEF CallReturns, HangUp, StatementCancelled, tableVars, syncVars, Decides
  <1>3. ASSUME NEW c \in Clients, CompleteSync(c) \/ CompensateSync(c) \/ FailSync(c) PROVE Decides
    <2>1. SyncOp(req[c]) /\ Grounded(req[c]) /\ UNCHANGED <<mailed, refused>>
      BY <1>3 DEF CompleteSync, CompensateSync, FailSync, SyncOp, Control, HandlerControl, syncVars
    <2>2. PICK s \in Sagas : s = req[c].saga /\ sagas[s] # NoSaga
      BY <2>1, ReqFacts
    <2>3. CASE CompleteSync(c)
      BY <1>u, <2>1, <2>2, <2>3 DEF CompleteSync, Grounded, Decides, Moves, State
    <2>4. CASE CompensateSync(c)
      BY <1>u, <2>1, <2>2, <2>4, NextCounts DEF CompensateSync, Grounded, Decides, Moves, State, Counts
    <2>5. CASE FailSync(c)
      BY <1>u, <2>1, <2>2, <2>5 DEF FailSync, Grounded, Decides, Moves, State
    <2> QED
      BY <1>3, <2>3, <2>4, <2>5
  <1>4. ASSUME NEW s \in Sagas, Server(s) PROVE Decides
    <2>1. UNCHANGED sagas /\ rpc[s] # "none"
      BY <1>4 DEF Server, GrpcCheck, GrpcSendOk, GrpcSendErr, GrpcMark, tableVars
    <2>2. mailed' \in {mailed, mailed \cup {s}} /\ refused' \in {refused, refused \cup {s}}
      BY <1>4 DEF Server, GrpcCheck, GrpcSendOk, GrpcSendErr, GrpcMark
    <2> QED
      BY <2>1, <2>2 DEF Decides, Arrives, Control, ServerControl
  <1>5. CASE Sweep
    <2>1. UNCHANGED <<mailed, refused>>
      BY <1>5 DEF Sweep, syncVars
    <2>2. CASE SweepFail /\ UpdateState(swFailing, "failed")
      <3>1. swFailing \in Sagas
        BY <2>2, MaxSagasAssumption DEF SweepFail, Control, TypeOK, SweeperTypeOK, Sagas
      <3>2. Compensated(swFailing) /\ sagas[swFailing] # NoSaga
        BY <2>2 DEF SweepFail, Control, SweepControl, Compensated, NoSaga
      <3> QED
        BY <1>u, <2>1, <2>2, <3>1, <3>2 DEF Decides, Moves, State
    <2>3. CASE UNCHANGED sagas
      BY <2>1, <2>3 DEF Decides
    <2> QED
      BY <1>5, <2>2, <2>3
      DEF Sweep, SweeperNext, SweepFind, SweepRequeue, SweepMarkFailed, SweepFail, tableVars
  <1>6. ASSUME NEW c \in Clients, PlainStep(c), UNCHANGED syncVars PROVE Decides
    <2>1. UNCHANGED sagas
      BY <1>6 DEF PlainStep, AbortT1, ConfirmUpdate, ConfirmRegister, UnsubscribeDelete,
             SubscribeLookup, ConfirmLookup, UnsubscribeLookup, tableVars
    <2> QED
      BY <1>6, <2>1 DEF Decides, syncVars
  <1>7. ASSUME NEW c \in Clients, Handler(c) \/ Client(c) PROVE Decides
    <2>1. CASE (AbortT1(c) \/ ConfirmUpdate(c) \/ ConfirmRegister(c) \/ UnsubscribeDelete(c))
                 /\ UNCHANGED <<sweeperVars, syncVars>>
      BY <1>6, <2>1 DEF PlainStep
    <2>2. CASE Client(c)
      BY <1>6, <2>2 DEF PlainStep, Client, ApiRequest, Issued
    <2>3. CASE MarkFailedSync(c)
      BY <2>3 DEF MarkFailedSync, Decides, syncVars
    <2> QED
      BY <1>1, <1>2, <1>3, <1>7, <2>1, <2>2, <2>3 DEF Handler, CallCancelled
  <1>8. CASE \/ \E c \in Clients : Abandon(c) \/ Disconnect(c)
             \/ \E s \in Sagas : Clock(s)
             \/ GrpcCrash \/ MonolithCrash \/ UNCHANGED vars
    BY <1>8 DEF Abandon, Disconnect, Clock, Age, GrpcCrash, MonolithCrash, vars, Decides, syncVars, tableVars
  <1> QED
    BY <1>2, <1>4, <1>5, <1>7, <1>8 DEF Next, CallFails

\* A decision is final, whatever fails and however handler, notifier and sweeper
\* interleave over one saga (dispatchSync, compensateSync, Sweep).
THEOREM DecidedOnce == Spec => SyncDecidedOnce
  <1>1. Control /\ [Next]_vars =>
          [\A s \in Sagas :
             /\ Terminal(s) => sagas'[s] = sagas[s]
             /\ Compensated(s) => sagas'[s].state \in {"compensating", "failed"}]_vars
    <2> SUFFICES ASSUME Control, [Next]_vars, NEW s \in Sagas
                 PROVE  /\ Terminal(s) => sagas'[s] = sagas[s]
                        /\ Compensated(s) => sagas'[s].state \in {"compensating", "failed"}
      OBVIOUS
    <2>1. Decides
      BY NextDecides
    <2> QED
      BY <2>1 DEF Decides, Moves, Terminal, Compensated, NoSaga
  <1> QED
    BY <1>1, SyncInvariant, PTL DEF Spec, SyncDecidedOnce

-----------------------------------------------------------------------------
(* The refinement. *)

\* The states of a saga as outcomes.
LEMMA OutcomeValues ==
  \A s \in Sagas :
    /\ sagas[s].state = "none" => OutcomeOf(s) = "none"
    /\ sagas[s].state = "subscription_created" => OutcomeOf(s) = "undecided"
    /\ sagas[s].state = "completed" => OutcomeOf(s) = "sent"
    /\ Compensated(s) => OutcomeOf(s) = "failed"
  BY DEF OutcomeOf, Compensated

LEMMA OutcomeValuesPrime ==
  \A s \in Sagas :
    /\ sagas'[s].state = "subscription_created" => OutcomeOf(s)' = "undecided"
    /\ sagas'[s].state = "completed" => OutcomeOf(s)' = "sent"
    /\ sagas'[s].state \in {"compensating", "failed"} => OutcomeOf(s)' = "failed"
  BY DEF OutcomeOf

\* As long as nothing went wrong, every step is a step of SagaOutcome, or none.
LEMMA DecidesOutcome ==
  ASSUME Control, Decides, faults' = 0
  PROVE  [Outcome!Next]_Outcome!outcomeVars
  <1>s. ASSUME UNCHANGED sagas PROVE \A s \in Sagas : OutcomeOf(s)' = OutcomeOf(s)
    BY <1>s DEF OutcomeOf
  <1>1. CASE UNCHANGED sagas /\ UNCHANGED <<mailed, refused>>
    BY <1>1, <1>s DEF Outcome!outcomeVars
  <1>2. ASSUME UNCHANGED sagas, NEW s \in Sagas, Arrives(s) PROVE Outcome!Attempt(s)
    <2>1. OutcomeOf(s) # "none"
      BY <1>2, SagaSub, OutcomeValues DEF Arrives, Control, TypeOK, SagaRow, State, Compensated
    <2> QED
      BY <1>2, <1>s, <2>1 DEF Arrives, Outcome!Attempt
  <1>3. ASSUME UNCHANGED <<mailed, refused>>, NEW s \in Sagas, Moves(s),
               \A t \in Sagas \ {s} : sagas'[t] = sagas[t]
        PROVE  [Outcome!Next]_Outcome!outcomeVars
    <2>1. \A t \in Sagas \ {s} : OutcomeOf(t)' = OutcomeOf(t)
      BY <1>3 DEF OutcomeOf
    <2>2. CASE sagas[s] = NoSaga /\ sagas'[s].state = "subscription_created"
      <3>1. OutcomeOf(s) = "none" /\ OutcomeOf(s)' = "undecided"
        BY <2>2, OutcomeValues, OutcomeValuesPrime DEF NoSaga
      <3>2. Outcome!Start(s)
        BY <1>3, <2>1, <3>1 DEF Outcome!Start
      <3> QED
        BY <3>2 DEF Outcome!Next
    <2>3. CASE sagas[s].state = "subscription_created" /\ s \in mailed /\ sagas'[s].state = "completed"
      <3>1. OutcomeOf(s) = "undecided" /\ OutcomeOf(s)' = "sent"
        BY <2>3, OutcomeValues, OutcomeValuesPrime
      <3>2. Outcome!Complete(s)
        BY <1>3, <2>1, <2>3, <3>1 DEF Outcome!Complete
      <3> QED
        BY <3>2 DEF Outcome!Next
    <2>4. CASE sagas[s].state = "subscription_created" /\ s \in refused /\ sagas'[s].state = "compensating"
      <3>1. OutcomeOf(s) = "undecided" /\ OutcomeOf(s)' = "failed"
        BY <2>4, OutcomeValues, OutcomeValuesPrime
      <3>2. Outcome!Compensate(s)
        BY <1>3, <2>1, <2>4, <3>1 DEF Outcome!Compensate
      <3> QED
        BY <3>2 DEF Outcome!Next
    <2>5. CASE Compensated(s) /\ sagas'[s].state = "failed"
      <3>1. OutcomeOf(s) = "failed" /\ OutcomeOf(s)' = "failed"
        BY <2>5, OutcomeValues, OutcomeValuesPrime
      <3> QED
        BY <1>3, <2>1, <3>1 DEF Outcome!outcomeVars
    <2> QED
      BY <1>3, <2>2, <2>3, <2>4, <2>5 DEF Moves
  <1> QED
    BY <1>1, <1>2, <1>3 DEF Decides, Outcome!Next

\* Without faults the saga over gRPC, whose handler and sweeper may both carry a
\* compensation out, decides every saga at most once, and fails it only after the
\* notifier itself gave up (SagaOutcome; SendConfirmation, dispatchSync, Sweep).
THEOREM RefinementWithoutFaults == Spec => SyncOutcomeWithoutFaults
  <1>1. Init => Outcome!Init
    BY OutcomeValues DEF Init, TablesInit, NoSaga, Outcome!Init
  <1>2. Control /\ [Next]_vars => [faults' = 0 => [Outcome!Next]_Outcome!outcomeVars]_vars
    BY NextDecides, DecidesOutcome
  <1> QED
    BY <1>1, <1>2, SyncInvariant, PTL DEF Spec, SyncOutcomeWithoutFaults

=============================================================================
