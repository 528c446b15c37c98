----------------------- MODULE SupervisedWorkerProofs -----------------------
(***************************************************************************)
(* Proofs about SupervisedWorker, for every set of tasks and terminals and *)
(* every bound on dispatches.                                              *)
(*                                                                         *)
(* A step of the specification is either one store operation or leaves the *)
(* store alone, so the invariants are proved operation by operation        *)
(* (StoreStep) and lifted to the specification at the end.                 *)
(***************************************************************************)
EXTENDS SupervisedWorker, TLAPS

\* The store operations the supervised actions perform.
WholeOp(d) ==
    \/ \E x \in Terminal : prepareStartingWorkerAuthority(d, x)
    \/ markWorkerDispatchReady(d)
    \/ failWorkerStart(d)
    \/ markWorkerStartUnknown(d)
    \/ \E s \in {"ready", "failed", "stopped"} : reconcileFederatedWorkerStart(d, s)
    \/ beginWorkerStop(d)
    \/ workerStopped(d, {"stopping", "stop_unknown"})
    \/ d \in federated /\ resumeFederatedWorkerForTerminalRelay(d)
    \/ markWorkerStopUnknown(d)
    \/ abandonWorkerDispatch(d)
    \/ \E o \in Outcome : settleWorkerReport(d, o)
    \/ Active(d) /\ assignee[d] # NoTerminal /\ failDispatch(d)
    \/ capability[d] # "revoked" /\ createQuestion(d)
    \/ registerFederatedQuestion(d)
    \/ answerQuestion(d)

\* The one that a death of the daemon can tear.
TornOp(d) == Active(d) /\ assignee[d] # NoTerminal /\ failDispatchTorn(d)

DispatchOp(d) == WholeOp(d) \/ TornOp(d)

WholeStep ==
    \/ \E t \in Task, D \in SUBSET Task : createTask(t, D)
    \/ \E t \in Task, r \in Dispatch \cup {NoDispatch}, remote \in BOOLEAN :
          createStartingWorkerDispatch(t, r, remote)
    \/ \E d \in Dispatch : WholeOp(d)

StoreStep ==
    \/ \E t \in Task, D \in SUBSET Task : createTask(t, D)
    \/ \E t \in Task, r \in Dispatch \cup {NoDispatch}, remote \in BOOLEAN :
          createStartingWorkerDispatch(t, r, remote)
    \/ \E d \in Dispatch : DispatchOp(d)

-----------------------------------------------------------------------------
\* A dispatch that exists has a worker row and a task that left "pending".
ExistingDispatchHasRows ==
    \A d \in 1..nDispatch : /\ worker[d] # "absent"
                            /\ taskStatus[dispatchTask[d]] \notin {"absent", "pending"}

StartingIsNotDispatched ==
    \A d \in Dispatch : worker[d] = "starting" => status[d] \notin {"dispatched", "completed"}

\* What holds whoever else uses the store.
AuthorityInv ==
    /\ StoreTypeOK
    /\ LiveCapabilityIsTrusted
    /\ SettledWorkerEndsDispatch

\* What holds when supervised workers are alone on it.
StoreInv ==
    /\ AuthorityInv
    /\ ExistingDispatchHasRows
    /\ StartingIsNotDispatched
    /\ OneActiveDispatchPerTask

-----------------------------------------------------------------------------
LEMMA DispatchFacts ==
    /\ NoDispatch \notin Dispatch
    /\ \A d \in Dispatch : d \in Int
    /\ nDispatch \in 0..MaxDispatch => 1..nDispatch \subseteq Dispatch
BY StoreAssumption DEF Dispatch, NoDispatch, StoreAssumption

\* Every action does one store operation or none.
LEMMA SupervisedIsWholeStep ==
    Supervised => WholeStep \/ UNCHANGED storeVars
<1> SUFFICES ASSUME Supervised
             PROVE  WholeStep \/ UNCHANGED storeVars
    OBVIOUS
<1> USE DEF WholeStep, WholeOp
<1>1. CASE Environment
  <2>1. CASE \E t \in Task, D \in SUBSET Task : TaskCreate(t, D)
    BY <2>1 DEF TaskCreate
  <2>2. CASE \E t \in Task, r \in Dispatch \cup {NoDispatch}, remote \in BOOLEAN :
                WorkerStart(t, r, remote)
    BY <2>2 DEF WorkerStart
  <2>3. ASSUME NEW d \in Dispatch, WorkerShowStale(d)
        PROVE  WholeStep
    BY <2>3 DEF WorkerShowStale
  <2>4. ASSUME NEW d \in Dispatch, NEW s \in {"ready", "failed", "stopped"}, WorkerShowRemote(d, s)
        PROVE  WholeStep
    BY <2>4 DEF WorkerShowRemote, reconcileFederatedWorkerStop
  <2>5. ASSUME NEW d \in Dispatch, WorkerStop(d) \/ WorkerAbandon(d)
        PROVE  WholeStep
    BY <2>5 DEF WorkerStop, WorkerAbandon
  <2>6. ASSUME NEW d \in Dispatch, NEW o \in Outcome, WorkerReport(d, o) \/ WorkerReportRelayed(d, o)
        PROVE  WholeStep
    BY <2>6 DEF WorkerReport, WorkerReportRelayed
  <2>7. ASSUME NEW d \in Dispatch, WorkerAsk(d) \/ WorkerAskRelayed(d) \/ CoordinatorAnswer(d)
        PROVE  WholeStep
    BY <2>7 DEF WorkerAsk, WorkerAskRelayed, CoordinatorAnswer
  <2>8. CASE \E x \in Terminal : failActiveDispatchOnExit(x)
    BY <2>8, StoreAssumption DEF failActiveDispatchOnExit, StoreAssumption
  <2>9. QED
    BY <1>1, <2>1, <2>2, <2>3, <2>4, <2>5, <2>6, <2>7, <2>8 DEF Environment
<1>2. ASSUME NEW d \in Dispatch, StartStep(d)
      PROVE  WholeStep \/ UNCHANGED storeVars
  BY <1>2 DEF StartStep, WorkerAuthority, WorkerReady, WorkerStartFails, WorkerStartUnknown
<1>3. ASSUME NEW d \in Dispatch, StopStep(d)
      PROVE  WholeStep \/ UNCHANGED storeVars
  <2>1. settleWorkerStop(d) => workerStopped(d, {"stopping", "stop_unknown"})
    BY DEF settleWorkerStop, workerStopped
  <2>2. QED
    BY <1>3, <2>1 DEF StopStep, WorkerStopped, WorkerStoppedRemotely, WorkerStopSuperseded,
                      WorkerStopUnconfirmed, reconcileFederatedWorkerStop
<1>4. QED
  BY <1>1, <1>2, <1>3 DEF Supervised

LEMMA SupervisedIsStoreStep ==
    Supervised => StoreStep \/ UNCHANGED storeVars
BY SupervisedIsWholeStep DEF WholeStep, StoreStep, DispatchOp

LEMMA StepIsStoreStep ==
    [Next]_vars => StoreStep \/ UNCHANGED storeVars
<1>1. DiesFailingDispatch => StoreStep
  BY StoreAssumption DEF StoreAssumption, DiesFailingDispatch, StoreStep, DispatchOp, TornOp
<1>2. QED
  BY <1>1, SupervisedIsStoreStep DEF Next, Restart, vars

-----------------------------------------------------------------------------
\* Types and row counts.
LEMMA TypeStep ==
    StoreTypeOK /\ StoreStep => StoreTypeOK'
<1> SUFFICES ASSUME StoreTypeOK, StoreStep
             PROVE  StoreTypeOK'
    OBVIOUS
<1> USE StoreAssumption, DispatchFacts DEF StoreAssumption, StoreTypeOK, TaskStatus, DispatchStatus,
        Capability, WorkerState, identityVars, taskVars, dispatchVars, workerVars
<1>1. ASSUME NEW t \in Task, NEW D \in SUBSET Task, createTask(t, D)
      PROVE  StoreTypeOK'
  BY <1>1 DEF createTask
<1>2. ASSUME NEW t \in Task, NEW r \in Dispatch \cup {NoDispatch}, NEW remote \in BOOLEAN,
             createStartingWorkerDispatch(t, r, remote)
      PROVE  StoreTypeOK'
  BY <1>2 DEF createStartingWorkerDispatch, NextDispatch, Dispatch
<1>3. ASSUME NEW d \in Dispatch, DispatchOp(d)
      PROVE  StoreTypeOK'
  <2>1. ASSUME NEW x \in Terminal, prepareStartingWorkerAuthority(d, x)
        PROVE  StoreTypeOK'
    BY <2>1 DEF prepareStartingWorkerAuthority
  <2>2. CASE markWorkerDispatchReady(d)
    BY <2>2 DEF markWorkerDispatchReady
  <2>3. CASE failWorkerStart(d)
    BY <2>3 DEF failWorkerStart, Revoke
  <2>4. CASE markWorkerStartUnknown(d)
    BY <2>4 DEF markWorkerStartUnknown, Revoke
  <2>5. ASSUME NEW s \in {"ready", "failed", "stopped"}, reconcileFederatedWorkerStart(d, s)
        PROVE  StoreTypeOK'
    BY <2>5 DEF reconcileFederatedWorkerStart, Revoke, Active
  <2>6. CASE beginWorkerStop(d)
    BY <2>6 DEF beginWorkerStop, Revoke
  <2>7. CASE workerStopped(d, {"stopping", "stop_unknown"})
    BY <2>7 DEF workerStopped, Active
  <2>8. CASE resumeFederatedWorkerForTerminalRelay(d)
    BY <2>8 DEF resumeFederatedWorkerForTerminalRelay
  <2>9. CASE markWorkerStopUnknown(d)
    BY <2>9 DEF markWorkerStopUnknown
  <2>10. CASE abandonWorkerDispatch(d)
    BY <2>10 DEF abandonWorkerDispatch, Revoke, Active
  <2>11. ASSUME NEW o \in Outcome, settleWorkerReport(d, o)
         PROVE  StoreTypeOK'
    BY <2>11 DEF settleWorkerReport, Revoke, promoteReadyTasks, Outcome
  <2>12. CASE Active(d) /\ (failDispatch(d) \/ failDispatchTorn(d))
    <3>1. failures' \in [Dispatch -> 0..BreakerThreshold]
      BY <2>12 DEF failDispatch, failDispatchTorn, updateFailedDispatch, BreakerThreshold
    <3>2. QED
      BY <2>12, <3>1 DEF failDispatch, failDispatchTorn, updateFailedDispatch, Revoke, Active
  <2>13. CASE createQuestion(d) \/ registerFederatedQuestion(d) \/ answerQuestion(d)
    BY <2>13 DEF createQuestion, registerFederatedQuestion, answerQuestion
  <2>14. QED
    BY <1>3, <2>1, <2>2, <2>3, <2>4, <2>5, <2>6, <2>7, <2>8, <2>9, <2>10, <2>11, <2>12, <2>13
       DEF DispatchOp, WholeOp, TornOp
<1>4. QED
  BY <1>1, <1>2, <1>3 DEF StoreStep

\* Rows are never removed, and a dispatched task never becomes pending.
LEMMA RowsStep ==
    StoreInv /\ StoreTypeOK' /\ StoreStep => ExistingDispatchHasRows'
<1> SUFFICES ASSUME StoreInv, StoreTypeOK', StoreStep
             PROVE  ExistingDispatchHasRows'
    OBVIOUS
<1> USE StoreAssumption, DispatchFacts DEF StoreAssumption, StoreInv, AuthorityInv, StoreTypeOK, ExistingDispatchHasRows,
        identityVars, taskVars, dispatchVars, workerVars
<1>1. ASSUME NEW t \in Task, NEW D \in SUBSET Task, createTask(t, D)
      PROVE  ExistingDispatchHasRows'
  BY <1>1 DEF createTask
<1>2. ASSUME NEW t \in Task, NEW r \in Dispatch \cup {NoDispatch}, NEW remote \in BOOLEAN,
             createStartingWorkerDispatch(t, r, remote)
      PROVE  ExistingDispatchHasRows'
  BY <1>2 DEF createStartingWorkerDispatch, NextDispatch, Startable, IsLatest, Dispatch
<1>3. ASSUME NEW d \in Dispatch, DispatchOp(d)
      PROVE  ExistingDispatchHasRows'
  <2>1. ASSUME NEW x \in Terminal, prepareStartingWorkerAuthority(d, x)
        PROVE  ExistingDispatchHasRows'
    BY <2>1 DEF prepareStartingWorkerAuthority
  <2>2. CASE markWorkerDispatchReady(d)
    BY <2>2 DEF markWorkerDispatchReady
  <2>3. CASE failWorkerStart(d)
    BY <2>3 DEF failWorkerStart, Revoke
  <2>4. CASE markWorkerStartUnknown(d)
    BY <2>4 DEF markWorkerStartUnknown, Revoke
  <2>5. ASSUME NEW s \in {"ready", "failed", "stopped"}, reconcileFederatedWorkerStart(d, s)
        PROVE  ExistingDispatchHasRows'
    BY <2>5 DEF reconcileFederatedWorkerStart, Revoke
  <2>6. CASE beginWorkerStop(d)
    BY <2>6 DEF beginWorkerStop, Revoke
  <2>7. CASE workerStopped(d, {"stopping", "stop_unknown"})
    BY <2>7 DEF workerStopped
  <2>8. CASE resumeFederatedWorkerForTerminalRelay(d)
    BY <2>8 DEF resumeFederatedWorkerForTerminalRelay
  <2>9. CASE markWorkerStopUnknown(d)
    BY <2>9 DEF markWorkerStopUnknown
  <2>10. CASE abandonWorkerDispatch(d)
    BY <2>10 DEF abandonWorkerDispatch, Revoke
  <2>11. ASSUME NEW o \in Outcome, settleWorkerReport(d, o)
        PROVE  ExistingDispatchHasRows'
    BY <2>11 DEF settleWorkerReport, Revoke, promoteReadyTasks, Outcome
  <2>12. CASE Active(d) /\ (failDispatch(d) \/ failDispatchTorn(d))
    BY <2>12 DEF failDispatch, failDispatchTorn, updateFailedDispatch, Revoke
  <2>13. CASE createQuestion(d) \/ registerFederatedQuestion(d) \/ answerQuestion(d)
    BY <2>13 DEF createQuestion, registerFederatedQuestion, answerQuestion
  <2>14. QED
    BY <1>3, <2>1, <2>2, <2>3, <2>4, <2>5, <2>6, <2>7, <2>8, <2>9, <2>10, <2>11, <2>12, <2>13
       DEF DispatchOp, WholeOp, TornOp
<1>4. QED
  BY <1>1, <1>2, <1>3 DEF StoreStep

\* Only markWorkerDispatchReady and reconcileFederatedWorkerStart make a dispatch
\* "dispatched", and both move its worker out of "starting".
LEMMA StartingStep ==
    StoreInv /\ StoreTypeOK' /\ StoreStep => StartingIsNotDispatched'
<1> SUFFICES ASSUME StoreInv, StoreTypeOK', StoreStep
             PROVE  StartingIsNotDispatched'
    OBVIOUS
<1> USE StoreAssumption, DispatchFacts DEF StoreAssumption, StoreInv, AuthorityInv, StoreTypeOK, StartingIsNotDispatched, Active,
        identityVars, taskVars, dispatchVars, workerVars
<1>1. ASSUME NEW t \in Task, NEW D \in SUBSET Task, createTask(t, D)
      PROVE  StartingIsNotDispatched'
  BY <1>1 DEF createTask
<1>2. ASSUME NEW t \in Task, NEW r \in Dispatch \cup {NoDispatch}, NEW remote \in BOOLEAN,
             createStartingWorkerDispatch(t, r, remote)
      PROVE  StartingIsNotDispatched'
  BY <1>2 DEF createStartingWorkerDispatch, NextDispatch, Startable, IsLatest, Dispatch
<1>3. ASSUME NEW d \in Dispatch, DispatchOp(d)
      PROVE  StartingIsNotDispatched'
  <2>1. ASSUME NEW x \in Terminal, prepareStartingWorkerAuthority(d, x)
        PROVE  StartingIsNotDispatched'
    BY <2>1 DEF prepareStartingWorkerAuthority
  <2>2. CASE markWorkerDispatchReady(d)
    BY <2>2 DEF markWorkerDispatchReady
  <2>3. CASE failWorkerStart(d)
    BY <2>3 DEF failWorkerStart, Revoke
  <2>4. CASE markWorkerStartUnknown(d)
    BY <2>4 DEF markWorkerStartUnknown, Revoke
  <2>5. ASSUME NEW s \in {"ready", "failed", "stopped"}, reconcileFederatedWorkerStart(d, s)
        PROVE  StartingIsNotDispatched'
    BY <2>5 DEF reconcileFederatedWorkerStart, Revoke
  <2>6. CASE beginWorkerStop(d)
    BY <2>6 DEF beginWorkerStop, Revoke
  <2>7. CASE workerStopped(d, {"stopping", "stop_unknown"})
    BY <2>7 DEF workerStopped
  <2>8. CASE resumeFederatedWorkerForTerminalRelay(d)
    BY <2>8 DEF resumeFederatedWorkerForTerminalRelay
  <2>9. CASE markWorkerStopUnknown(d)
    BY <2>9 DEF markWorkerStopUnknown
  <2>10. CASE abandonWorkerDispatch(d)
    BY <2>10 DEF abandonWorkerDispatch, Revoke
  <2>11. ASSUME NEW o \in Outcome, settleWorkerReport(d, o)
        PROVE  StartingIsNotDispatched'
    BY <2>11 DEF settleWorkerReport, Revoke, promoteReadyTasks, Outcome
  <2>12. CASE Active(d) /\ (failDispatch(d) \/ failDispatchTorn(d))
    BY <2>12 DEF failDispatch, failDispatchTorn, updateFailedDispatch, Revoke
  <2>13. CASE createQuestion(d) \/ registerFederatedQuestion(d) \/ answerQuestion(d)
    BY <2>13 DEF createQuestion, registerFederatedQuestion, answerQuestion
  <2>14. QED
    BY <1>3, <2>1, <2>2, <2>3, <2>4, <2>5, <2>6, <2>7, <2>8, <2>9, <2>10, <2>11, <2>12, <2>13
       DEF DispatchOp, WholeOp, TornOp
<1>4. QED
  BY <1>1, <1>2, <1>3 DEF StoreStep

\* Whatever ends a dispatch or doubts its process revokes the capability.
LEMMA CapabilityStep ==
    AuthorityInv /\ StoreTypeOK' /\ StoreStep => LiveCapabilityIsTrusted'
<1> SUFFICES ASSUME AuthorityInv, StoreTypeOK', StoreStep
             PROVE  LiveCapabilityIsTrusted'
    OBVIOUS
<1> USE StoreAssumption, DispatchFacts DEF StoreAssumption, AuthorityInv, StoreTypeOK, LiveCapabilityIsTrusted, Active,
        identityVars, taskVars, dispatchVars, workerVars
<1>1. ASSUME NEW t \in Task, NEW D \in SUBSET Task, createTask(t, D)
      PROVE  LiveCapabilityIsTrusted'
  BY <1>1 DEF createTask
<1>2. ASSUME NEW t \in Task, NEW r \in Dispatch \cup {NoDispatch}, NEW remote \in BOOLEAN,
             createStartingWorkerDispatch(t, r, remote)
      PROVE  LiveCapabilityIsTrusted'
  BY <1>2 DEF createStartingWorkerDispatch, NextDispatch, Startable, IsLatest, Dispatch
<1>3. ASSUME NEW d \in Dispatch, DispatchOp(d)
      PROVE  LiveCapabilityIsTrusted'
  <2>1. ASSUME NEW x \in Terminal, prepareStartingWorkerAuthority(d, x)
        PROVE  LiveCapabilityIsTrusted'
    BY <2>1 DEF prepareStartingWorkerAuthority
  <2>2. CASE markWorkerDispatchReady(d)
    BY <2>2 DEF markWorkerDispatchReady
  <2>3. CASE failWorkerStart(d)
    BY <2>3 DEF failWorkerStart, Revoke
  <2>4. CASE markWorkerStartUnknown(d)
    BY <2>4 DEF markWorkerStartUnknown, Revoke
  <2>5. ASSUME NEW s \in {"ready", "failed", "stopped"}, reconcileFederatedWorkerStart(d, s)
        PROVE  LiveCapabilityIsTrusted'
    BY <2>5 DEF reconcileFederatedWorkerStart, Revoke
  <2>6. CASE beginWorkerStop(d)
    BY <2>6 DEF beginWorkerStop, Revoke
  <2>7. CASE workerStopped(d, {"stopping", "stop_unknown"})
    BY <2>7 DEF workerStopped
  <2>8. CASE resumeFederatedWorkerForTerminalRelay(d)
    BY <2>8 DEF resumeFederatedWorkerForTerminalRelay
  <2>9. CASE markWorkerStopUnknown(d)
    BY <2>9 DEF markWorkerStopUnknown
  <2>10. CASE abandonWorkerDispatch(d)
    BY <2>10 DEF abandonWorkerDispatch, Revoke
  <2>11. ASSUME NEW o \in Outcome, settleWorkerReport(d, o)
        PROVE  LiveCapabilityIsTrusted'
    BY <2>11 DEF settleWorkerReport, Revoke, promoteReadyTasks, Outcome
  <2>12. CASE Active(d) /\ (failDispatch(d) \/ failDispatchTorn(d))
    BY <2>12 DEF failDispatch, failDispatchTorn, updateFailedDispatch, Revoke
  <2>13. CASE createQuestion(d) \/ registerFederatedQuestion(d) \/ answerQuestion(d)
    BY <2>13 DEF createQuestion, registerFederatedQuestion, answerQuestion
  <2>14. QED
    BY <1>3, <2>1, <2>2, <2>3, <2>4, <2>5, <2>6, <2>7, <2>8, <2>9, <2>10, <2>11, <2>12, <2>13
       DEF DispatchOp, WholeOp, TornOp
<1>4. QED
  BY <1>1, <1>2, <1>3 DEF StoreStep

\* Whatever settles a worker ends its dispatch.
LEMMA SettledStep ==
    AuthorityInv /\ StoreTypeOK' /\ StoreStep => SettledWorkerEndsDispatch'
<1> SUFFICES ASSUME AuthorityInv, StoreTypeOK', StoreStep
             PROVE  SettledWorkerEndsDispatch'
    OBVIOUS
<1> USE StoreAssumption, DispatchFacts DEF StoreAssumption, AuthorityInv, StoreTypeOK, SettledWorkerEndsDispatch, SettledWorker, Active,
        identityVars, taskVars, dispatchVars, workerVars
<1>1. ASSUME NEW t \in Task, NEW D \in SUBSET Task, createTask(t, D)
      PROVE  SettledWorkerEndsDispatch'
  BY <1>1 DEF createTask
<1>2. ASSUME NEW t \in Task, NEW r \in Dispatch \cup {NoDispatch}, NEW remote \in BOOLEAN,
             createStartingWorkerDispatch(t, r, remote)
      PROVE  SettledWorkerEndsDispatch'
  BY <1>2 DEF createStartingWorkerDispatch, NextDispatch, Startable, IsLatest, Dispatch
<1>3. ASSUME NEW d \in Dispatch, DispatchOp(d)
      PROVE  SettledWorkerEndsDispatch'
  <2>1. ASSUME NEW x \in Terminal, prepareStartingWorkerAuthority(d, x)
        PROVE  SettledWorkerEndsDispatch'
    BY <2>1 DEF prepareStartingWorkerAuthority
  <2>2. CASE markWorkerDispatchReady(d)
    BY <2>2 DEF markWorkerDispatchReady
  <2>3. CASE failWorkerStart(d)
    BY <2>3 DEF failWorkerStart, Revoke
  <2>4. CASE markWorkerStartUnknown(d)
    BY <2>4 DEF markWorkerStartUnknown, Revoke
  <2>5. ASSUME NEW s \in {"ready", "failed", "stopped"}, reconcileFederatedWorkerStart(d, s)
        PROVE  SettledWorkerEndsDispatch'
    BY <2>5 DEF reconcileFederatedWorkerStart, Revoke
  <2>6. CASE beginWorkerStop(d)
    BY <2>6 DEF beginWorkerStop, Revoke
  <2>7. CASE workerStopped(d, {"stopping", "stop_unknown"})
    BY <2>7 DEF workerStopped
  <2>8. CASE resumeFederatedWorkerForTerminalRelay(d)
    BY <2>8 DEF resumeFederatedWorkerForTerminalRelay
  <2>9. CASE markWorkerStopUnknown(d)
    BY <2>9 DEF markWorkerStopUnknown
  <2>10. CASE abandonWorkerDispatch(d)
    BY <2>10 DEF abandonWorkerDispatch, Revoke
  <2>11. ASSUME NEW o \in Outcome, settleWorkerReport(d, o)
        PROVE  SettledWorkerEndsDispatch'
    BY <2>11 DEF settleWorkerReport, Revoke, promoteReadyTasks, Outcome
  <2>12. CASE Active(d) /\ (failDispatch(d) \/ failDispatchTorn(d))
    BY <2>12 DEF failDispatch, failDispatchTorn, updateFailedDispatch, Revoke
  <2>13. CASE createQuestion(d) \/ registerFederatedQuestion(d) \/ answerQuestion(d)
    BY <2>13 DEF createQuestion, registerFederatedQuestion, answerQuestion
  <2>14. QED
    BY <1>3, <2>1, <2>2, <2>3, <2>4, <2>5, <2>6, <2>7, <2>8, <2>9, <2>10, <2>11, <2>12, <2>13
       DEF DispatchOp, WholeOp, TornOp
<1>4. QED
  BY <1>1, <1>2, <1>3 DEF StoreStep

\* A task gets a new dispatch only when no dispatch of it is active: the task is
\* ready, or the dispatch a retry names is its last one and its worker settled.
LEMMA StartableTaskIsFree ==
    ASSUME StoreInv, NEW t \in Task, NEW r \in Dispatch \cup {NoDispatch}, Startable(t, r)
    PROVE  \A e \in Dispatch : dispatchTask[e] = t => ~ Active(e)
<1> USE DEF StoreInv, AuthorityInv, OneActiveDispatchPerTask
<1>1. CASE r = NoDispatch
  BY <1>1, DispatchFacts DEF Startable
<1>2. CASE r \in Dispatch
  <2> SUFFICES ASSUME NEW e \in Dispatch, dispatchTask[e] = t, Active(e)
               PROVE  FALSE
      OBVIOUS
  <2>1. e <= r /\ r <= e
    BY <1>2, DispatchFacts DEF Startable, IsLatest
  <2>2. e = r
    BY <2>1, <1>2, DispatchFacts
  <2>3. QED
    BY <2>2, <1>2, DispatchFacts DEF Startable, SettledWorkerEndsDispatch, SettledWorker
<1>3. QED
  BY <1>1, <1>2

\* Of two active dispatches of one task both would be the last.
LEMMA ActiveIsUnique ==
    ASSUME OneActiveDispatchPerTask, NEW d \in Dispatch, NEW e \in Dispatch,
           Active(d), Active(e), dispatchTask[d] = dispatchTask[e]
    PROVE  d = e
<1>1. d <= e /\ e <= d
  BY DEF OneActiveDispatchPerTask, IsLatest
<1>2. QED
  BY <1>1, DispatchFacts

\* One active dispatch per task, the last, of a task that cannot be started.
LEMMA OneActiveStep ==
    StoreInv /\ StoreTypeOK' /\ StoreStep => OneActiveDispatchPerTask'
<1> SUFFICES ASSUME StoreInv, StoreTypeOK', StoreStep
             PROVE  OneActiveDispatchPerTask'
    OBVIOUS
<1> USE StoreAssumption, DispatchFacts DEF StoreAssumption, StoreInv, AuthorityInv, StoreTypeOK,
        OneActiveDispatchPerTask, Active, IsLatest, identityVars, taskVars, dispatchVars, workerVars
<1>1. ASSUME NEW t \in Task, NEW D \in SUBSET Task, createTask(t, D)
      PROVE  OneActiveDispatchPerTask'
  BY <1>1 DEF createTask
<1>2. ASSUME NEW t \in Task, NEW r \in Dispatch \cup {NoDispatch}, NEW remote \in BOOLEAN,
             createStartingWorkerDispatch(t, r, remote)
      PROVE  OneActiveDispatchPerTask'
  <2> DEFINE n == nDispatch + 1
  <2>1. \A e \in Dispatch : dispatchTask[e] = t => ~ Active(e)
    BY <1>2, StartableTaskIsFree DEF createStartingWorkerDispatch
  <2>2. n \in Dispatch /\ n \in Int /\ \A e \in Dispatch : e > n => dispatchTask[e] = NoTask
    BY <1>2 DEF createStartingWorkerDispatch, NextDispatch, Dispatch
  <2>3. /\ dispatchTask' = [dispatchTask EXCEPT ![n] = t]
        /\ status' = [status EXCEPT ![n] = "pending"]
        /\ taskStatus' = [taskStatus EXCEPT ![t] = "dispatched"]
    BY <1>2 DEF createStartingWorkerDispatch, NextDispatch
  <2>4. ASSUME NEW e \in Dispatch, Active(e)', e # n
        PROVE  /\ \A f \in Dispatch : dispatchTask'[f] = dispatchTask'[e] => f <= e
               /\ taskStatus'[dispatchTask'[e]] \notin {"absent", "pending", "ready"}
    <3>1. Active(e) /\ dispatchTask'[e] = dispatchTask[e] /\ dispatchTask[e] # t
      BY <2>1, <2>2, <2>3, <2>4
    <3>2. QED
      BY <3>1, <2>2, <2>3
  <2>5. /\ \A f \in Dispatch : dispatchTask'[f] = dispatchTask'[n] => f <= n
        /\ taskStatus'[dispatchTask'[n]] \notin {"absent", "pending", "ready"}
    BY <2>2, <2>3
  <2>6. QED
    BY <2>4, <2>5
<1>3. ASSUME NEW d \in Dispatch, DispatchOp(d)
      PROVE  OneActiveDispatchPerTask'
  <2>1. ASSUME NEW x \in Terminal, prepareStartingWorkerAuthority(d, x)
        PROVE  OneActiveDispatchPerTask'
    BY <2>1 DEF prepareStartingWorkerAuthority
  <2>2. CASE markWorkerDispatchReady(d)
    BY <2>2 DEF markWorkerDispatchReady
  <2>3. CASE failWorkerStart(d)
    BY <2>3 DEF failWorkerStart, Revoke
  <2>4. CASE markWorkerStartUnknown(d)
    BY <2>4 DEF markWorkerStartUnknown, Revoke
  <2>5. ASSUME NEW s \in {"ready", "failed", "stopped"}, reconcileFederatedWorkerStart(d, s)
        PROVE  OneActiveDispatchPerTask'
    BY <2>5 DEF reconcileFederatedWorkerStart, Revoke
  <2>6. CASE beginWorkerStop(d)
    BY <2>6 DEF beginWorkerStop, Revoke
  <2>7. CASE workerStopped(d, {"stopping", "stop_unknown"})
    BY <2>7 DEF workerStopped
  <2>8. CASE resumeFederatedWorkerForTerminalRelay(d)
    BY <2>8 DEF resumeFederatedWorkerForTerminalRelay
  <2>9. CASE markWorkerStopUnknown(d)
    BY <2>9 DEF markWorkerStopUnknown
  <2>10. CASE abandonWorkerDispatch(d)
    BY <2>10 DEF abandonWorkerDispatch, Revoke
  <2>11. ASSUME NEW o \in Outcome, settleWorkerReport(d, o)
        PROVE  OneActiveDispatchPerTask'
    BY <2>11 DEF settleWorkerReport, Revoke, promoteReadyTasks, Outcome
  <2>12. CASE Active(d) /\ (failDispatch(d) \/ failDispatchTorn(d))
    BY <2>12, ActiveIsUnique DEF failDispatch, failDispatchTorn, updateFailedDispatch, Revoke
  <2>13. CASE createQuestion(d) \/ registerFederatedQuestion(d) \/ answerQuestion(d)
    BY <2>13 DEF createQuestion, registerFederatedQuestion, answerQuestion
  <2>14. QED
    BY <1>3, <2>1, <2>2, <2>3, <2>4, <2>5, <2>6, <2>7, <2>8, <2>9, <2>10, <2>11, <2>12, <2>13
       DEF DispatchOp, WholeOp, TornOp
<1>4. QED
  BY <1>1, <1>2, <1>3 DEF StoreStep

-----------------------------------------------------------------------------
\* The conjunction is inductive.
LEMMA StoreInvInit ==
    Init => StoreInv
BY StoreAssumption, DispatchFacts
   DEF Init, StoreInit, StoreAssumption, StoreInv, AuthorityInv, StoreTypeOK, TaskStatus, DispatchStatus,
       Capability, WorkerState, ExistingDispatchHasRows, StartingIsNotDispatched,
       LiveCapabilityIsTrusted, SettledWorkerEndsDispatch, SettledWorker,
       OneActiveDispatchPerTask, Active, Dispatch, BreakerThreshold

LEMMA StoreInvStep ==
    StoreInv /\ [Next]_vars => StoreInv'
<1> SUFFICES ASSUME StoreInv, [Next]_vars
             PROVE  StoreInv'
    OBVIOUS
<1>1. CASE StoreStep
  <2>1. StoreTypeOK'
    BY <1>1, TypeStep DEF StoreInv, AuthorityInv
  <2>2. QED
    BY <1>1, <2>1, RowsStep, StartingStep, CapabilityStep, SettledStep, OneActiveStep DEF StoreInv, AuthorityInv
<1>2. CASE UNCHANGED storeVars
  BY <1>2 DEF storeVars, taskVars, dispatchVars, workerVars, StoreInv, AuthorityInv, StoreTypeOK,
              ExistingDispatchHasRows, StartingIsNotDispatched, LiveCapabilityIsTrusted,
              SettledWorkerEndsDispatch, OneActiveDispatchPerTask, Active, IsLatest
<1>3. QED
  BY <1>1, <1>2, StepIsStoreStep

\* The store invariant holds in every reachable state: of any number of tasks,
\* terminals and dispatches, under any interleaving of requests and restarts.
THEOREM StoreInvariant == SafeSpec => []StoreInv
<1>1. Init => StoreInv
  BY StoreInvInit
<1>2. StoreInv /\ [Next]_vars => StoreInv'
  BY StoreInvStep
<1>3. QED
  BY <1>1, <1>2, PTL DEF SafeSpec

\* A task has at most one active dispatch, its last.
THEOREM OneActiveTheorem == SafeSpec => []OneActiveDispatchPerTask
<1>1. StoreInv => OneActiveDispatchPerTask
  BY DEF StoreInv
<1>2. QED
  BY <1>1, StoreInvariant, PTL

-----------------------------------------------------------------------------
\* What NeverReactivated says of one step.
EndedStaysEnded ==
    \A d \in 1..nDispatch : /\ ~ Active(d) => ~ Active(d)'
                            /\ status[d] = "completed" => status'[d] = "completed"

\* An ended dispatch is not active after a store operation; a completed one
\* stays completed but for a failing start.
EndsAreKept ==
    \A d \in 1..nDispatch :
        /\ ~ Active(d) => ~ Active(d)'
        /\ status[d] = "completed" /\ worker[d] # "starting" => status'[d] = "completed"

LEMMA EndsStep ==
    StoreTypeOK /\ StoreStep => EndsAreKept
<1> SUFFICES ASSUME StoreTypeOK, StoreStep
             PROVE  EndsAreKept
    OBVIOUS
<1> USE StoreAssumption, DispatchFacts DEF StoreAssumption, StoreTypeOK, EndsAreKept, Active, identityVars, taskVars, dispatchVars, workerVars
<1>1. ASSUME NEW t \in Task, NEW D \in SUBSET Task, createTask(t, D)
      PROVE  EndsAreKept
  BY <1>1 DEF createTask
<1>2. ASSUME NEW t \in Task, NEW r \in Dispatch \cup {NoDispatch}, NEW remote \in BOOLEAN,
             createStartingWorkerDispatch(t, r, remote)
      PROVE  EndsAreKept
  BY <1>2 DEF createStartingWorkerDispatch, NextDispatch, Dispatch
<1>3. ASSUME NEW d \in Dispatch, DispatchOp(d)
      PROVE  EndsAreKept
  <2>1. ASSUME NEW x \in Terminal, prepareStartingWorkerAuthority(d, x)
        PROVE  EndsAreKept
    BY <2>1 DEF prepareStartingWorkerAuthority
  <2>2. CASE markWorkerDispatchReady(d)
    BY <2>2 DEF markWorkerDispatchReady
  <2>3. CASE failWorkerStart(d)
    BY <2>3 DEF failWorkerStart, Revoke
  <2>4. CASE markWorkerStartUnknown(d)
    BY <2>4 DEF markWorkerStartUnknown, Revoke
  <2>5. ASSUME NEW s \in {"ready", "failed", "stopped"}, reconcileFederatedWorkerStart(d, s)
        PROVE  EndsAreKept
    BY <2>5 DEF reconcileFederatedWorkerStart, Revoke
  <2>6. CASE beginWorkerStop(d)
    BY <2>6 DEF beginWorkerStop, Revoke
  <2>7. CASE workerStopped(d, {"stopping", "stop_unknown"})
    BY <2>7 DEF workerStopped
  <2>8. CASE resumeFederatedWorkerForTerminalRelay(d)
    BY <2>8 DEF resumeFederatedWorkerForTerminalRelay
  <2>9. CASE markWorkerStopUnknown(d)
    BY <2>9 DEF markWorkerStopUnknown
  <2>10. CASE abandonWorkerDispatch(d)
    BY <2>10 DEF abandonWorkerDispatch, Revoke
  <2>11. ASSUME NEW o \in Outcome, settleWorkerReport(d, o)
        PROVE  EndsAreKept
    BY <2>11 DEF settleWorkerReport, Revoke, promoteReadyTasks, Outcome
  <2>12. CASE Active(d) /\ (failDispatch(d) \/ failDispatchTorn(d))
    BY <2>12 DEF failDispatch, failDispatchTorn, updateFailedDispatch, Revoke
  <2>13. CASE createQuestion(d) \/ registerFederatedQuestion(d) \/ answerQuestion(d)
    BY <2>13 DEF createQuestion, registerFederatedQuestion, answerQuestion
  <2>14. QED
    BY <1>3, <2>1, <2>2, <2>3, <2>4, <2>5, <2>6, <2>7, <2>8, <2>9, <2>10, <2>11, <2>12, <2>13
       DEF DispatchOp, WholeOp, TornOp
<1>4. QED
  BY <1>1, <1>2, <1>3 DEF StoreStep

LEMMA EndedStep ==
    StoreInv /\ StoreStep => EndedStaysEnded
BY EndsStep, DispatchFacts
   DEF StoreInv, AuthorityInv, StoreTypeOK, StartingIsNotDispatched, EndsAreKept, EndedStaysEnded

\* An ended dispatch is never active again and a completed one never fails.
THEOREM NeverReactivatedTheorem == SafeSpec => NeverReactivated
<1>1. StoreInv /\ [Next]_vars => [EndedStaysEnded]_vars
  <2> SUFFICES ASSUME StoreInv, [Next]_vars
               PROVE  EndedStaysEnded
      OBVIOUS
  <2>1. CASE StoreStep
    BY <2>1, EndedStep
  <2>2. CASE UNCHANGED storeVars
    BY <2>2 DEF storeVars, dispatchVars, EndedStaysEnded, Active
  <2>3. QED
    BY <2>1, <2>2, StepIsStoreStep
<1>2. QED
  BY <1>1, StoreInvariant, PTL DEF SafeSpec, NeverReactivated, EndedStaysEnded

-----------------------------------------------------------------------------
\* A task past "pending" has its dependencies done, and only a dispatch's report
\* makes a task completed.
DependenciesDone ==
    \A t \in Task :
        /\ taskStatus[t] \notin {"absent", "pending"} => \A p \in deps[t] : Done(p)
        /\ taskStatus[t] = "completed" => Done(t)

\* The task of a dispatch never changes.
LEMMA TaskIsKept ==
    ASSUME StoreTypeOK, StoreStep, NEW d \in 1..nDispatch
    PROVE  dispatchTask'[d] = dispatchTask[d]
<1> USE DEF identityVars, dispatchVars, taskVars
<1>1. ASSUME NEW t \in Task, NEW D \in SUBSET Task, createTask(t, D)
      PROVE  dispatchTask'[d] = dispatchTask[d]
  BY <1>1 DEF createTask
<1>2. ASSUME NEW t \in Task, NEW r \in Dispatch \cup {NoDispatch}, NEW remote \in BOOLEAN,
             createStartingWorkerDispatch(t, r, remote)
      PROVE  dispatchTask'[d] = dispatchTask[d]
  BY <1>2, DispatchFacts DEF createStartingWorkerDispatch, NextDispatch, StoreTypeOK
<1>3. ASSUME NEW e \in Dispatch, DispatchOp(e)
      PROVE  dispatchTask' = dispatchTask
  BY <1>3, Zenon
  DEF DispatchOp, WholeOp, TornOp, prepareStartingWorkerAuthority, markWorkerDispatchReady, failWorkerStart,
     markWorkerStartUnknown, reconcileFederatedWorkerStart, beginWorkerStop, workerStopped,
     resumeFederatedWorkerForTerminalRelay, markWorkerStopUnknown, abandonWorkerDispatch,
     settleWorkerReport, failDispatch, failDispatchTorn, updateFailedDispatch, createQuestion, registerFederatedQuestion, answerQuestion
<1>4. QED
  BY <1>1, <1>2, <1>3 DEF StoreStep

\* Done tasks stay done, and a task leaves "pending" only through promoteReadyTasks.
LEMMA DependenciesStep ==
    StoreInv /\ StoreInv' /\ DependenciesDone /\ StoreStep => DependenciesDone'
<1> SUFFICES ASSUME StoreInv, StoreInv', DependenciesDone, StoreStep
             PROVE  DependenciesDone'
    OBVIOUS
<1> USE StoreAssumption, DispatchFacts DEF StoreAssumption, StoreInv, AuthorityInv, StoreTypeOK, DependenciesDone,
        ExistingDispatchHasRows, identityVars, taskVars, dispatchVars, workerVars
<1>0. \A p \in Task : Done(p) => Done(p)'
  <2> SUFFICES ASSUME NEW p \in Task, NEW d \in Dispatch,
                      dispatchTask[d] = p, status[d] = "completed"
               PROVE  dispatchTask'[d] = p /\ status'[d] = "completed"
      BY DEF Done
  <2>1. d \in 1..nDispatch
    BY DEF Dispatch
  <2>2. status'[d] = "completed"
    BY <2>1, EndedStep DEF EndedStaysEnded
  <2>3. dispatchTask'[d] = dispatchTask[d]
    BY <2>1, TaskIsKept
  <2>4. QED
    BY <2>2, <2>3
<1>1. ASSUME NEW t \in Task, NEW D \in SUBSET Task, createTask(t, D)
      PROVE  DependenciesDone'
  BY <1>0, <1>1 DEF createTask
<1>2. ASSUME NEW t \in Task, NEW r \in Dispatch \cup {NoDispatch}, NEW remote \in BOOLEAN,
             createStartingWorkerDispatch(t, r, remote)
      PROVE  DependenciesDone'
  BY <1>0, <1>2 DEF createStartingWorkerDispatch, Startable
<1>3. ASSUME NEW d \in Dispatch, DispatchOp(d)
      PROVE  DependenciesDone'
  <2>0. worker[d] # "absent" \/ status[d] # "absent" =>
            /\ dispatchTask[d] \in Task
            /\ taskStatus[dispatchTask[d]] \notin {"absent", "pending"}
    BY DEF Dispatch
  <2> HIDE DEF ExistingDispatchHasRows
  <2>1. ASSUME NEW x \in Terminal, prepareStartingWorkerAuthority(d, x)
        PROVE  DependenciesDone'
    BY <1>0, <2>0, <2>1 DEF prepareStartingWorkerAuthority
  <2>2. CASE markWorkerDispatchReady(d)
    BY <1>0, <2>0, <2>2 DEF markWorkerDispatchReady
  <2>3. CASE failWorkerStart(d)
    BY <1>0, <2>0, <2>3 DEF failWorkerStart, Revoke
  <2>4. CASE markWorkerStartUnknown(d)
    BY <1>0, <2>0, <2>4 DEF markWorkerStartUnknown, Revoke
  <2>5. ASSUME NEW s \in {"ready", "failed", "stopped"}, reconcileFederatedWorkerStart(d, s)
        PROVE  DependenciesDone'
    BY <1>0, <2>0, <2>5 DEF reconcileFederatedWorkerStart, Revoke
  <2>6. CASE beginWorkerStop(d)
    BY <1>0, <2>0, <2>6 DEF beginWorkerStop, Revoke
  <2>7. CASE workerStopped(d, {"stopping", "stop_unknown"})
    BY <1>0, <2>0, <2>7 DEF workerStopped
  <2>8. CASE resumeFederatedWorkerForTerminalRelay(d)
    BY <1>0, <2>0, <2>8 DEF resumeFederatedWorkerForTerminalRelay
  <2>9. CASE markWorkerStopUnknown(d)
    BY <1>0, <2>0, <2>9 DEF markWorkerStopUnknown
  <2>10. CASE abandonWorkerDispatch(d)
    BY <1>0, <2>0, <2>10 DEF abandonWorkerDispatch, Revoke
  <2>11. ASSUME NEW o \in Outcome, settleWorkerReport(d, o)
        PROVE  DependenciesDone'
    <3>1. \A p \in Task : Done(p) => Done(p)'
      BY <1>0 DEF Done
    <3>2. o = "succeeded" => Done(dispatchTask[d])'
      BY <2>11 DEF settleWorkerReport, Done
    <3>3. d \in 1..nDispatch /\ dispatchTask[d] \in Task
      BY <1>0, <2>0, <2>11 DEF settleWorkerReport, Dispatch
    <3>4. QED
      BY <1>0, <2>0, <2>11, <3>1, <3>2, <3>3 DEF settleWorkerReport, promoteReadyTasks, Outcome
  <2>12. CASE Active(d) /\ (failDispatch(d) \/ failDispatchTorn(d))
    BY <1>0, <2>0, <2>12 DEF failDispatch, failDispatchTorn, updateFailedDispatch, Revoke
  <2>13. CASE createQuestion(d) \/ registerFederatedQuestion(d) \/ answerQuestion(d)
    BY <1>0, <2>0, <2>13 DEF createQuestion, registerFederatedQuestion, answerQuestion
  <2>14. QED
    BY <1>3, <2>1, <2>2, <2>3, <2>4, <2>5, <2>6, <2>7, <2>8, <2>9, <2>10, <2>11, <2>12, <2>13
       DEF DispatchOp, WholeOp, TornOp
<1>4. QED
  BY <1>1, <1>2, <1>3 DEF StoreStep

LEMMA DependenciesInvariant == SafeSpec => []DependenciesDone
<1>1. Init => DependenciesDone
  BY DEF Init, StoreInit, DependenciesDone
<1>2. StoreInv /\ StoreInv' /\ DependenciesDone /\ [Next]_vars => DependenciesDone'
  <2> SUFFICES ASSUME StoreInv, StoreInv', DependenciesDone, [Next]_vars
               PROVE  DependenciesDone'
      OBVIOUS
  <2>1. CASE StoreStep
    BY <2>1, DependenciesStep
  <2>2. CASE UNCHANGED storeVars
    BY <2>2 DEF storeVars, taskVars, dispatchVars, DependenciesDone, Done
  <2>3. QED
    BY <2>1, <2>2, StepIsStoreStep
<1>3. QED
  BY <1>1, <1>2, StoreInvariant, PTL DEF SafeSpec

\* No task is ever dispatched before every task it depends on was completed by
\* a dispatch of its own.
THEOREM DependenciesTheorem == SafeSpec => []DispatchedAfterDependencies
<1>1. StoreInv /\ DependenciesDone => DispatchedAfterDependencies
  BY StoreAssumption, DispatchFacts
     DEF StoreInv, AuthorityInv, StoreTypeOK, StoreAssumption, ExistingDispatchHasRows, DependenciesDone,
         DispatchedAfterDependencies, Dispatch
<1>2. QED
  BY <1>1, StoreInvariant, DependenciesInvariant, PTL

-----------------------------------------------------------------------------
\* The requests being served.  A dispatch row is never removed, so the set of
\* stale dispatches stays within the rows.
CallTypeOK ==
    /\ startCall \in [Dispatch -> StartStage]
    /\ stopCall \in SUBSET Dispatch
    /\ staleEpoch \in SUBSET (1..nDispatch)

\* A request forgets its dispatch only in the step that moves the worker on.
LEMMA SupervisedCallStep ==
    ASSUME StoreTypeOK, CallTypeOK, TransientStateHasOwner, Supervised
    PROVE  CallTypeOK' /\ TransientStateHasOwner'
<1> USE StoreAssumption, DispatchFacts
    DEF StoreAssumption, StoreTypeOK, CallTypeOK, StartStage, TransientStateHasOwner,
        callVars, storeVars, identityVars, taskVars, dispatchVars, workerVars, EndStart, EndStop
<1>1. CASE Environment
  <2>1. ASSUME NEW t \in Task, NEW D \in SUBSET Task, TaskCreate(t, D)
        PROVE  CallTypeOK' /\ TransientStateHasOwner'
    BY <2>1 DEF TaskCreate, createTask
  <2>2. ASSUME NEW t \in Task, NEW r \in Dispatch \cup {NoDispatch}, NEW remote \in BOOLEAN,
               WorkerStart(t, r, remote)
        PROVE  CallTypeOK' /\ TransientStateHasOwner'
    BY <2>2 DEF WorkerStart, createStartingWorkerDispatch, NextDispatch, Dispatch
  <2>3. ASSUME NEW d \in Dispatch, WorkerShowStale(d)
        PROVE  CallTypeOK' /\ TransientStateHasOwner'
    BY <2>3 DEF WorkerShowStale, markWorkerStartUnknown, markWorkerStopUnknown
  <2>4. ASSUME NEW d \in Dispatch, NEW s \in {"ready", "failed", "stopped"}, WorkerShowRemote(d, s)
        PROVE  CallTypeOK' /\ TransientStateHasOwner'
    BY <2>4 DEF WorkerShowRemote, reconcileFederatedWorkerStop, workerStopped,
                reconcileFederatedWorkerStart
  <2>5. ASSUME NEW d \in Dispatch, WorkerStop(d)
        PROVE  CallTypeOK' /\ TransientStateHasOwner'
    BY <2>5 DEF WorkerStop, beginWorkerStop
  <2>6. ASSUME NEW d \in Dispatch, WorkerAbandon(d)
        PROVE  CallTypeOK' /\ TransientStateHasOwner'
    BY <2>6 DEF WorkerAbandon, abandonWorkerDispatch
  <2>7. ASSUME NEW d \in Dispatch, NEW o \in Outcome, WorkerReport(d, o) \/ WorkerReportRelayed(d, o)
        PROVE  CallTypeOK' /\ TransientStateHasOwner'
    <3>1. /\ worker' = [worker EXCEPT ![d] = IF @ = "ready" THEN o ELSE @]
          /\ nDispatch' = nDispatch
          /\ UNCHANGED callVars
      BY <2>7 DEF WorkerReport, WorkerReportRelayed, settleWorkerReport
    <3>2. QED
      BY <3>1 DEF Outcome
  <2>8. ASSUME NEW d \in Dispatch, WorkerAsk(d) \/ WorkerAskRelayed(d) \/ CoordinatorAnswer(d)
        PROVE  CallTypeOK' /\ TransientStateHasOwner'
    BY <2>8 DEF WorkerAsk, WorkerAskRelayed, CoordinatorAnswer, createQuestion,
                registerFederatedQuestion, answerQuestion
  <2>9. ASSUME NEW x \in Terminal, failActiveDispatchOnExit(x)
        PROVE  CallTypeOK' /\ TransientStateHasOwner'
    BY <2>9 DEF failActiveDispatchOnExit, failDispatch, updateFailedDispatch
  <2>10. QED
    BY <1>1, <2>1, <2>2, <2>3, <2>4, <2>5, <2>6, <2>7, <2>8, <2>9 DEF Environment
<1>2. ASSUME NEW d \in Dispatch, StartStep(d)
      PROVE  CallTypeOK' /\ TransientStateHasOwner'
  <2>1. ASSUME NEW x \in Terminal, WorkerAuthority(d, x)
        PROVE  CallTypeOK' /\ TransientStateHasOwner'
    BY <2>1 DEF WorkerAuthority, prepareStartingWorkerAuthority
  <2>2. CASE WorkerReady(d)
    BY <2>2 DEF WorkerReady, markWorkerDispatchReady
  <2>3. CASE WorkerStartFails(d)
    BY <2>3 DEF WorkerStartFails, failWorkerStart
  <2>4. CASE WorkerStartUnknown(d)
    BY <2>4 DEF WorkerStartUnknown, markWorkerStartUnknown
  <2>5. QED
    BY <1>2, <2>1, <2>2, <2>3, <2>4 DEF StartStep
<1>3. ASSUME NEW d \in Dispatch, StopStep(d)
      PROVE  CallTypeOK' /\ TransientStateHasOwner'
  <2>1. CASE WorkerStopped(d)
    BY <2>1 DEF WorkerStopped, settleWorkerStop, workerStopped
  <2>2. CASE WorkerStoppedRemotely(d)
    BY <2>2 DEF WorkerStoppedRemotely, reconcileFederatedWorkerStop, workerStopped
  <2>3. CASE WorkerStopSuperseded(d)
    BY <2>3 DEF WorkerStopSuperseded, resumeFederatedWorkerForTerminalRelay
  <2>4. CASE WorkerStopUnconfirmed(d)
    BY <2>4 DEF WorkerStopUnconfirmed, markWorkerStopUnknown
  <2>5. QED
    BY <1>3, <2>1, <2>2, <2>3, <2>4 DEF StopStep
<1>4. QED
  BY <1>1, <1>2, <1>3 DEF Supervised

\* A new process makes every dispatch stale, whatever the old one was writing.
LEMMA NewProcessCalls ==
    ASSUME StoreTypeOK', NewProcess
    PROVE  CallTypeOK' /\ TransientStateHasOwner'
<1>1. \A d \in Dispatch : worker'[d] # "absent" => d \in 1..nDispatch'
  BY DispatchFacts DEF StoreTypeOK, Dispatch
<1>2. 1..nDispatch' \subseteq Dispatch
  <2>1. nDispatch' \in 0..MaxDispatch
    BY DEF StoreTypeOK
  <2>2. QED
    BY <2>1, StoreAssumption DEF Dispatch, StoreAssumption
<1>3. CallTypeOK'
  BY <1>2 DEF NewProcess, CallTypeOK, StartStage
<1>4. \A d \in Dispatch : worker'[d] # "absent" => d \in staleEpoch'
  BY <1>1 DEF NewProcess
<1>5. TransientStateHasOwner'
  BY <1>4 DEF TransientStateHasOwner
<1>6. QED
  BY <1>3, <1>5

LEMMA CallStep ==
    StoreInv /\ StoreInv' /\ CallTypeOK /\ TransientStateHasOwner /\ [Next]_vars
        => CallTypeOK' /\ TransientStateHasOwner'
<1> SUFFICES ASSUME StoreTypeOK, StoreTypeOK', CallTypeOK, TransientStateHasOwner, [Next]_vars
             PROVE  CallTypeOK' /\ TransientStateHasOwner'
    BY DEF StoreInv, AuthorityInv
<1>1. CASE UNCHANGED vars
  BY <1>1 DEF vars, callVars, storeVars, dispatchVars, workerVars, CallTypeOK, TransientStateHasOwner
<1>2. CASE Restart \/ DiesFailingDispatch
  BY <1>2, NewProcessCalls DEF Restart, DiesFailingDispatch
<1>3. QED
  BY <1>1, <1>2, SupervisedCallStep DEF Next

\* The requests and their types hold together with the store invariant.
LEMMA CallInvariant == SafeSpec => [](CallTypeOK /\ TransientStateHasOwner)
<1>1. Init => CallTypeOK /\ TransientStateHasOwner
  BY DEF Init, StoreInit, CallTypeOK, TransientStateHasOwner, StartStage
<1>2. QED
  BY <1>1, CallStep, StoreInvariant, PTL DEF SafeSpec

\* Every variable keeps its type.
THEOREM TypeCorrect == SafeSpec => []TypeOK
<1>1. StoreInv /\ CallTypeOK => TypeOK
  BY DEF StoreInv, AuthorityInv, CallTypeOK, TypeOK
<1>2. QED
  BY <1>1, StoreInvariant, CallInvariant, PTL
=============================================================================
