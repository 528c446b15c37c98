---------------------------- MODULE LeaseProofs ----------------------------
(***************************************************************************)
(* Supervised dispatching implements TaskLease, for every set of tasks and *)
(* terminals and every bound on dispatches: the active dispatch of a task  *)
(* is its lease, and what a lease has completed is never leased again.     *)
(*                                                                         *)
(* The step that could break it is a retry of a task whose dispatch was    *)
(* completed while its worker was being stopped.  It needs the task to be  *)
(* shown as dispatched meanwhile, which only an older dispatch on a worker *)
(* host could do; such a dispatch is never overtaken, because no terminal  *)
(* of this daemon can exit under it (RemoteInv, LeaseInv).                 *)
(***************************************************************************)
EXTENDS SupervisedWorkerProofs

-----------------------------------------------------------------------------
\* A dispatch on a worker host has no terminal here, nor has one that does not
\* exist yet.
RemoteInv ==
    \A d \in Dispatch :
        /\ d \in federated => assignee[d] = NoTerminal /\ startCall[d] \in {"none", "remote"}
        /\ status[d] = "absent" => assignee[d] = NoTerminal /\ d \notin federated

LEMMA RemoteStep ==
    ASSUME StoreTypeOK, CallTypeOK, RemoteInv, [Next]_vars
    PROVE  RemoteInv'
<1> USE StoreAssumption, DispatchFacts
    DEF StoreAssumption, StoreTypeOK, CallTypeOK, StartStage, RemoteInv, Active,
        callVars, storeVars, identityVars, taskVars, dispatchVars, workerVars, EndStart, EndStop
<1>1. CASE Environment
  <2>1. ASSUME NEW t \in Task, NEW D \in SUBSET Task, TaskCreate(t, D)
        PROVE  RemoteInv'
    BY <2>1 DEF TaskCreate, createTask
  <2>2. ASSUME NEW t \in Task, NEW r \in Dispatch \cup {NoDispatch}, NEW remote \in BOOLEAN,
               WorkerStart(t, r, remote)
        PROVE  RemoteInv'
    <3>1. NextDispatch \in Dispatch /\ status[NextDispatch] = "absent"
      BY <2>2 DEF WorkerStart, createStartingWorkerDispatch, NextDispatch, Dispatch
    <3>2. QED
      BY <2>2, <3>1 DEF WorkerStart, createStartingWorkerDispatch
  <2>3. ASSUME NEW d \in Dispatch, WorkerShowStale(d)
        PROVE  RemoteInv'
    BY <2>3 DEF WorkerShowStale, markWorkerStartUnknown, markWorkerStopUnknown
  <2>4. ASSUME NEW d \in Dispatch, NEW s \in {"ready", "failed", "stopped"}, WorkerShowRemote(d, s)
        PROVE  RemoteInv'
    BY <2>4 DEF WorkerShowRemote, reconcileFederatedWorkerStop, workerStopped,
                reconcileFederatedWorkerStart
  <2>5. ASSUME NEW d \in Dispatch, WorkerStop(d) \/ WorkerAbandon(d)
        PROVE  RemoteInv'
    BY <2>5 DEF WorkerStop, beginWorkerStop, WorkerAbandon, abandonWorkerDispatch
  <2>6. ASSUME NEW d \in Dispatch, NEW o \in Outcome, WorkerReport(d, o) \/ WorkerReportRelayed(d, o)
        PROVE  RemoteInv'
    BY <2>6 DEF WorkerReport, WorkerReportRelayed, settleWorkerReport
  <2>7. ASSUME NEW d \in Dispatch, WorkerAsk(d) \/ WorkerAskRelayed(d) \/ CoordinatorAnswer(d)
        PROVE  RemoteInv'
    BY <2>7 DEF WorkerAsk, WorkerAskRelayed, CoordinatorAnswer, createQuestion,
                registerFederatedQuestion, answerQuestion
  <2>8. ASSUME NEW x \in Terminal, failActiveDispatchOnExit(x)
        PROVE  RemoteInv'
    BY <2>8 DEF failActiveDispatchOnExit, failDispatch, updateFailedDispatch
  <2>9. QED
    BY <1>1, <2>1, <2>2, <2>3, <2>4, <2>5, <2>6, <2>7, <2>8 DEF Environment
<1>2. ASSUME NEW d \in Dispatch, StartStep(d)
      PROVE  RemoteInv'
  <2>1. ASSUME NEW x \in Terminal, WorkerAuthority(d, x)
        PROVE  RemoteInv'
    BY <2>1 DEF WorkerAuthority, prepareStartingWorkerAuthority
  <2>2. CASE WorkerReady(d)
    BY <2>2 DEF WorkerReady, markWorkerDispatchReady
  <2>3. CASE WorkerStartFails(d)
    BY <2>3 DEF WorkerStartFails, failWorkerStart
  <2>4. CASE WorkerStartUnknown(d)
    BY <2>4 DEF WorkerStartUnknown, markWorkerStartUnknown
  <2>5. QED
    BY <1>2, <2>1, <2>2, <2>3, <2>4 DEF StartStep
<1>3. ASSUME NEW d \in Dispatch, StopStep(d)
      PROVE  RemoteInv'
  BY <1>3 DEF StopStep, WorkerStopped, WorkerStoppedRemotely, WorkerStopSuperseded, WorkerStopUnconfirmed,
              settleWorkerStop, reconcileFederatedWorkerStop, workerStopped,
              resumeFederatedWorkerForTerminalRelay, markWorkerStopUnknown
<1>4. CASE Restart \/ DiesFailingDispatch \/ UNCHANGED vars
  BY <1>4 DEF Restart, DiesFailingDispatch, failDispatchTorn, updateFailedDispatch, NewProcess, vars
<1>5. QED
  BY <1>1, <1>2, <1>3, <1>4 DEF Next, Supervised

-----------------------------------------------------------------------------
\* What the dispatches of a worker host, unknown starts, stops and completions
\* keep, beside StoreInv.
RemoteIsActive ==
    \A d \in federated : worker[d] \notin SettledWorker \cup {"absent"} => Active(d)

UnknownIsNotDispatched ==
    \A d \in Dispatch : worker[d] = "start_unknown" => status[d] \notin {"dispatched", "completed"}

\* While the worker of an active dispatch is being stopped, its task is blocked
\* or failed, so that no report is accepted.
StoppingTaskIsHeld ==
    \A d \in Dispatch :
        Active(d) /\ worker[d] \in {"stopping", "stop_unknown"} => taskStatus[dispatchTask[d]] # "dispatched"

\* A completed dispatch is the last one of its task.
CompletedIsLast ==
    \A d \in Dispatch : status[d] = "completed" =>
        IsLatest(d) /\ worker[d] = "succeeded" /\ taskStatus[dispatchTask[d]] # "ready"

AbsentNeedsNothing == \A t \in Task : taskStatus[t] = "absent" => deps[t] = {}

LeaseInv ==
    /\ RemoteIsActive
    /\ UnknownIsNotDispatched
    /\ StoppingTaskIsHeld
    /\ CompletedIsLast
    /\ AbsentNeedsNothing

\* A report is accepted only from a worker that is ready.
LEMMA ReporterIsReady ==
    ASSUME StoreInv, LeaseInv, NEW d \in Dispatch, NEW o, settleWorkerReport(d, o)
    PROVE  worker[d] = "ready"
BY StoreAssumption, DispatchFacts
   DEF StoreAssumption, StoreInv, AuthorityInv, StoreTypeOK, WorkerState, LeaseInv, settleWorkerReport, Active,
       StartingIsNotDispatched, UnknownIsNotDispatched, StoppingTaskIsHeld, SettledWorkerEndsDispatch,
       SettledWorker, ExistingDispatchHasRows, Dispatch

\* Only an operation that settles its worker ends a dispatch on a worker host.
LEMMA RemoteActiveStep ==
    ASSUME StoreInv, StoreInv', RemoteInv, RemoteInv', LeaseInv, StoreStep
    PROVE  RemoteIsActive'
<1> USE StoreAssumption, DispatchFacts DEF StoreAssumption, StoreInv, AuthorityInv, StoreTypeOK, RemoteInv,
        LeaseInv, Active, identityVars, taskVars, dispatchVars, workerVars, RemoteIsActive, SettledWorker
<1>1. ASSUME NEW t \in Task, NEW D \in SUBSET Task, createTask(t, D)
      PROVE  RemoteIsActive'
  BY <1>1 DEF createTask
<1>2. ASSUME NEW t \in Task, NEW r \in Dispatch \cup {NoDispatch}, NEW remote \in BOOLEAN,
             createStartingWorkerDispatch(t, r, remote)
      PROVE  RemoteIsActive'
  BY <1>2 DEF createStartingWorkerDispatch, NextDispatch, Startable, IsLatest, Dispatch
<1>3. ASSUME NEW d \in Dispatch, DispatchOp(d)
      PROVE  RemoteIsActive'
  <2>1. ASSUME NEW x \in Terminal, prepareStartingWorkerAuthority(d, x)
        PROVE  RemoteIsActive'
    BY <2>1 DEF prepareStartingWorkerAuthority
  <2>2. CASE markWorkerDispatchReady(d)
    BY <2>2 DEF markWorkerDispatchReady
  <2>3. CASE failWorkerStart(d)
    BY <2>3 DEF failWorkerStart, Revoke
  <2>4. CASE markWorkerStartUnknown(d)
    BY <2>4 DEF markWorkerStartUnknown, Revoke
  <2>5. ASSUME NEW s \in {"ready", "failed", "stopped"}, reconcileFederatedWorkerStart(d, s)
        PROVE  RemoteIsActive'
    BY <2>5 DEF reconcileFederatedWorkerStart, Revoke
  <2>6. CASE beginWorkerStop(d)
    BY <2>6 DEF beginWorkerStop, Revoke
  <2>7. CASE workerStopped(d, {"stopping", "stop_unknown"})
    BY <2>7 DEF workerStopped
  <2>8. CASE d \in federated /\ resumeFederatedWorkerForTerminalRelay(d)
    BY <2>8 DEF resumeFederatedWorkerForTerminalRelay
  <2>9. CASE markWorkerStopUnknown(d)
    BY <2>9 DEF markWorkerStopUnknown
  <2>10. CASE abandonWorkerDispatch(d)
    BY <2>10 DEF abandonWorkerDispatch, Revoke
  <2>11. ASSUME NEW o \in Outcome, settleWorkerReport(d, o)
        PROVE  RemoteIsActive'
    BY <2>11, ReporterIsReady DEF settleWorkerReport, Revoke, promoteReadyTasks, Outcome
  <2>12. CASE Active(d) /\ assignee[d] # NoTerminal /\ (failDispatch(d) \/ failDispatchTorn(d))
    BY <2>12 DEF failDispatch, failDispatchTorn, updateFailedDispatch, Revoke
  <2>13. CASE createQuestion(d) \/ registerFederatedQuestion(d) \/ answerQuestion(d)
    BY <2>13 DEF createQuestion, registerFederatedQuestion, answerQuestion
  <2>14. QED
    BY <1>3, <2>1, <2>2, <2>3, <2>4, <2>5, <2>6, <2>7, <2>8, <2>9, <2>10, <2>11, <2>12, <2>13
       DEF DispatchOp, WholeOp, TornOp
<1> HIDE DEF StoreInv, LeaseInv, RemoteInv, RemoteIsActive
<1>4. QED
  BY <1>1, <1>2, <1>3 DEF StoreStep

\* A start that is unknown becomes ready before its dispatch is dispatched.
LEMMA UnknownStep ==
    ASSUME StoreInv, StoreInv', RemoteInv, RemoteInv', LeaseInv, StoreStep
    PROVE  UnknownIsNotDispatched'
<1> USE StoreAssumption, DispatchFacts DEF StoreAssumption, StoreInv, AuthorityInv, StoreTypeOK, RemoteInv,
        LeaseInv, Active, identityVars, taskVars, dispatchVars, workerVars, UnknownIsNotDispatched,
        StartingIsNotDispatched
<1>1. ASSUME NEW t \in Task, NEW D \in SUBSET Task, createTask(t, D)
      PROVE  UnknownIsNotDispatched'
  BY <1>1 DEF createTask
<1>2. ASSUME NEW t \in Task, NEW r \in Dispatch \cup {NoDispatch}, NEW remote \in BOOLEAN,
             createStartingWorkerDispatch(t, r, remote)
      PROVE  UnknownIsNotDispatched'
  BY <1>2 DEF createStartingWorkerDispatch, NextDispatch, Startable, IsLatest, Dispatch
<1>3. ASSUME NEW d \in Dispatch, DispatchOp(d)
      PROVE  UnknownIsNotDispatched'
  <2>1. ASSUME NEW x \in Terminal, prepareStartingWorkerAuthority(d, x)
        PROVE  UnknownIsNotDispatched'
    BY <2>1 DEF prepareStartingWorkerAuthority
  <2>2. CASE markWorkerDispatchReady(d)
    BY <2>2 DEF markWorkerDispatchReady
  <2>3. CASE failWorkerStart(d)
    BY <2>3 DEF failWorkerStart, Revoke
  <2>4. CASE markWorkerStartUnknown(d)
    BY <2>4 DEF markWorkerStartUnknown, Revoke
  <2>5. ASSUME NEW s \in {"ready", "failed", "stopped"}, reconcileFederatedWorkerStart(d, s)
        PROVE  UnknownIsNotDispatched'
    BY <2>5 DEF reconcileFederatedWorkerStart, Revoke
  <2>6. CASE beginWorkerStop(d)
    BY <2>6 DEF beginWorkerStop, Revoke
  <2>7. CASE workerStopped(d, {"stopping", "stop_unknown"})
    BY <2>7 DEF workerStopped
  <2>8. CASE d \in federated /\ resumeFederatedWorkerForTerminalRelay(d)
    BY <2>8 DEF resumeFederatedWorkerForTerminalRelay
  <2>9. CASE markWorkerStopUnknown(d)
    BY <2>9 DEF markWorkerStopUnknown
  <2>10. CASE abandonWorkerDispatch(d)
    BY <2>10 DEF abandonWorkerDispatch, Revoke
  <2>11. ASSUME NEW o \in Outcome, settleWorkerReport(d, o)
        PROVE  UnknownIsNotDispatched'
    BY <2>11 DEF settleWorkerReport, Revoke, promoteReadyTasks, Outcome
  <2>12. CASE Active(d) /\ assignee[d] # NoTerminal /\ (failDispatch(d) \/ failDispatchTorn(d))
    BY <2>12 DEF failDispatch, failDispatchTorn, updateFailedDispatch, Revoke
  <2>13. CASE createQuestion(d) \/ registerFederatedQuestion(d) \/ answerQuestion(d)
    BY <2>13 DEF createQuestion, registerFederatedQuestion, answerQuestion
  <2>14. QED
    BY <1>3, <2>1, <2>2, <2>3, <2>4, <2>5, <2>6, <2>7, <2>8, <2>9, <2>10, <2>11, <2>12, <2>13
       DEF DispatchOp, WholeOp, TornOp
<1> HIDE DEF StoreInv, LeaseInv, RemoteInv, UnknownIsNotDispatched
<1>4. QED
  BY <1>1, <1>2, <1>3 DEF StoreStep

\* Only a dispatch that is the last of its task makes the task dispatched again.
LEMMA StoppingStep ==
    ASSUME StoreInv, StoreInv', RemoteInv, RemoteInv', LeaseInv, StoreStep
    PROVE  StoppingTaskIsHeld'
<1> USE StoreAssumption, DispatchFacts DEF StoreAssumption, StoreInv, AuthorityInv, StoreTypeOK, RemoteInv,
        LeaseInv, Active, identityVars, taskVars, dispatchVars, workerVars, StoppingTaskIsHeld,
        RemoteIsActive, SettledWorker
<1>1. ASSUME NEW t \in Task, NEW D \in SUBSET Task, createTask(t, D)
      PROVE  StoppingTaskIsHeld'
  BY <1>1 DEF createTask
<1>2. ASSUME NEW t \in Task, NEW r \in Dispatch \cup {NoDispatch}, NEW remote \in BOOLEAN,
             createStartingWorkerDispatch(t, r, remote)
      PROVE  StoppingTaskIsHeld'
  <2>1. \A e \in Dispatch : dispatchTask[e] = t => ~ Active(e)
    BY <1>2, StartableTaskIsFree DEF createStartingWorkerDispatch
  <2>2. QED
    BY <1>2, <2>1 DEF createStartingWorkerDispatch, NextDispatch, Dispatch
<1>3. ASSUME NEW d \in Dispatch, DispatchOp(d)
      PROVE  StoppingTaskIsHeld'
  <2>1. ASSUME NEW x \in Terminal, prepareStartingWorkerAuthority(d, x)
        PROVE  StoppingTaskIsHeld'
    BY <2>1 DEF prepareStartingWorkerAuthority
  <2>2. CASE markWorkerDispatchReady(d)
    BY <2>2 DEF markWorkerDispatchReady
  <2>3. CASE failWorkerStart(d)
    BY <2>3 DEF failWorkerStart, Revoke
  <2>4. CASE markWorkerStartUnknown(d)
    BY <2>4 DEF markWorkerStartUnknown, Revoke
  <2>5. ASSUME NEW s \in {"ready", "failed", "stopped"}, reconcileFederatedWorkerStart(d, s)
        PROVE  StoppingTaskIsHeld'
    <3>1. Active(d)
      BY <2>5 DEF reconcileFederatedWorkerStart
    <3>2. \A e \in Dispatch : Active(e) /\ dispatchTask[e] = dispatchTask[d] => e = d
      BY <3>1, ActiveIsUnique
    <3> HIDE DEF RemoteIsActive
    <3>3. QED
      BY <2>5, <3>1, <3>2 DEF reconcileFederatedWorkerStart, Revoke
  <2>6. CASE beginWorkerStop(d)
    BY <2>6 DEF beginWorkerStop, Revoke
  <2>7. CASE workerStopped(d, {"stopping", "stop_unknown"})
    BY <2>7 DEF workerStopped
  <2>8. CASE d \in federated /\ resumeFederatedWorkerForTerminalRelay(d)
    <3>1. Active(d)
      BY <2>8 DEF resumeFederatedWorkerForTerminalRelay
    <3>2. \A e \in Dispatch : Active(e) /\ dispatchTask[e] = dispatchTask[d] => e = d
      BY <3>1, ActiveIsUnique
    <3> HIDE DEF RemoteIsActive
    <3>3. QED
      BY <2>8, <3>1, <3>2 DEF resumeFederatedWorkerForTerminalRelay
  <2>9. CASE markWorkerStopUnknown(d)
    BY <2>9 DEF markWorkerStopUnknown
  <2>10. CASE abandonWorkerDispatch(d)
    BY <2>10 DEF abandonWorkerDispatch, Revoke
  <2>11. ASSUME NEW o \in Outcome, settleWorkerReport(d, o)
        PROVE  StoppingTaskIsHeld'
    BY <2>11 DEF settleWorkerReport, Revoke, promoteReadyTasks, Outcome
  <2>12. CASE Active(d) /\ assignee[d] # NoTerminal /\ (failDispatch(d) \/ failDispatchTorn(d))
    BY <2>12 DEF failDispatch, failDispatchTorn, updateFailedDispatch, Revoke
  <2>13. CASE createQuestion(d) \/ registerFederatedQuestion(d) \/ answerQuestion(d)
    BY <2>13 DEF createQuestion, registerFederatedQuestion, answerQuestion
  <2>14. QED
    BY <1>3, <2>1, <2>2, <2>3, <2>4, <2>5, <2>6, <2>7, <2>8, <2>9, <2>10, <2>11, <2>12, <2>13
       DEF DispatchOp, WholeOp, TornOp
<1> HIDE DEF StoreInv, LeaseInv, RemoteInv, StoppingTaskIsHeld
<1>4. QED
  BY <1>1, <1>2, <1>3 DEF StoreStep

LEMMA LatestIsUnique ==
    ASSUME NEW d \in Dispatch, NEW e \in Dispatch, IsLatest(d), IsLatest(e), dispatchTask[d] = dispatchTask[e]
    PROVE  d = e
<1>1. d \in Int /\ e \in Int
  BY DispatchFacts
<1>2. d <= e /\ e <= d
  BY DEF IsLatest
<1>3. QED
  BY <1>1, <1>2

\* A completed dispatch keeps its task: no retry, and nothing makes it ready.
LEMMA CompletedStep ==
    ASSUME StoreInv, StoreInv', RemoteInv, RemoteInv', LeaseInv, StoreStep
    PROVE  CompletedIsLast'
<1> USE StoreAssumption, DispatchFacts DEF StoreAssumption, StoreInv, AuthorityInv, StoreTypeOK, RemoteInv,
        LeaseInv, Active, identityVars, taskVars, dispatchVars, workerVars, CompletedIsLast, IsLatest,
        StartingIsNotDispatched
<1>0. \A e \in Dispatch : status[e] # "absent" =>
        dispatchTask[e] \in Task /\ taskStatus[dispatchTask[e]] \notin {"absent", "pending"}
  BY DEF Dispatch, ExistingDispatchHasRows
<1>1. ASSUME NEW t \in Task, NEW D \in SUBSET Task, createTask(t, D)
      PROVE  CompletedIsLast'
  BY <1>0, <1>1 DEF createTask
<1>2. ASSUME NEW t \in Task, NEW r \in Dispatch \cup {NoDispatch}, NEW remote \in BOOLEAN,
             createStartingWorkerDispatch(t, r, remote)
      PROVE  CompletedIsLast'
  BY <1>2 DEF createStartingWorkerDispatch, NextDispatch, Startable, IsLatest, Dispatch
<1>3. ASSUME NEW d \in Dispatch, DispatchOp(d)
      PROVE  CompletedIsLast'
  <2>0. \A e \in Dispatch : IsLatest(e) /\ IsLatest(d) /\ dispatchTask[e] = dispatchTask[d] => e = d
    BY LatestIsUnique, Zenon
  <2>1. ASSUME NEW x \in Terminal, prepareStartingWorkerAuthority(d, x)
        PROVE  CompletedIsLast'
    BY <2>1 DEF prepareStartingWorkerAuthority
  <2>2. CASE markWorkerDispatchReady(d)
    BY <2>2 DEF markWorkerDispatchReady
  <2>3. CASE failWorkerStart(d)
    BY <2>3 DEF failWorkerStart, Revoke
  <2>4. CASE markWorkerStartUnknown(d)
    BY <2>4 DEF markWorkerStartUnknown, Revoke
  <2>5. ASSUME NEW s \in {"ready", "failed", "stopped"}, reconcileFederatedWorkerStart(d, s)
        PROVE  CompletedIsLast'
    BY <2>5 DEF reconcileFederatedWorkerStart, Revoke
  <2>6. CASE beginWorkerStop(d)
    BY <2>6 DEF beginWorkerStop, Revoke
  <2>7. CASE workerStopped(d, {"stopping", "stop_unknown"})
    BY <2>7 DEF workerStopped
  <2>8. CASE d \in federated /\ resumeFederatedWorkerForTerminalRelay(d)
    BY <2>8 DEF resumeFederatedWorkerForTerminalRelay
  <2>9. CASE markWorkerStopUnknown(d)
    BY <2>9 DEF markWorkerStopUnknown
  <2>10. CASE abandonWorkerDispatch(d)
    BY <2>10 DEF abandonWorkerDispatch, Revoke
  <2>11. ASSUME NEW o \in Outcome, settleWorkerReport(d, o)
        PROVE  CompletedIsLast'
    <3>1. worker[d] = "ready" /\ IsLatest(d)
      BY <2>11, ReporterIsReady DEF settleWorkerReport
    <3>2. \A e \in Dispatch : status[e] = "completed" => taskStatus[dispatchTask[e]] # "pending" /\ dispatchTask[e] \in Task
      BY <1>0
    <3>3. QED
      BY <2>0, <2>11, <3>1, <3>2, <1>0 DEF settleWorkerReport, Revoke, promoteReadyTasks, Outcome
  <2>12. CASE Active(d) /\ assignee[d] # NoTerminal /\ (failDispatch(d) \/ failDispatchTorn(d))
    <3>1. IsLatest(d)
      BY <2>12 DEF OneActiveDispatchPerTask
    <3>2. QED
      BY <2>0, <2>12, <3>1 DEF failDispatch, failDispatchTorn, updateFailedDispatch, Revoke
  <2>13. CASE createQuestion(d) \/ registerFederatedQuestion(d) \/ answerQuestion(d)
    BY <2>13 DEF createQuestion, registerFederatedQuestion, answerQuestion
  <2>14. QED
    BY <1>3, <2>1, <2>2, <2>3, <2>4, <2>5, <2>6, <2>7, <2>8, <2>9, <2>10, <2>11, <2>12, <2>13
       DEF DispatchOp, WholeOp, TornOp
<1> HIDE DEF StoreInv, LeaseInv, RemoteInv, CompletedIsLast
<1>4. QED
  BY <1>1, <1>2, <1>3 DEF StoreStep

\* A task has no dependencies before it exists.
LEMMA AbsentStep ==
    ASSUME StoreInv, StoreInv', RemoteInv, RemoteInv', LeaseInv, StoreStep
    PROVE  AbsentNeedsNothing'
<1> USE StoreAssumption, DispatchFacts DEF StoreAssumption, StoreInv, AuthorityInv, StoreTypeOK, RemoteInv,
        LeaseInv, Active, identityVars, taskVars, dispatchVars, workerVars, AbsentNeedsNothing,
        ExistingDispatchHasRows
<1>1. ASSUME NEW t \in Task, NEW D \in SUBSET Task, createTask(t, D)
      PROVE  AbsentNeedsNothing'
  BY <1>1 DEF createTask
<1>2. ASSUME NEW t \in Task, NEW r \in Dispatch \cup {NoDispatch}, NEW remote \in BOOLEAN,
             createStartingWorkerDispatch(t, r, remote)
      PROVE  AbsentNeedsNothing'
  BY <1>2 DEF createStartingWorkerDispatch, NextDispatch, Startable, IsLatest, Dispatch
<1>3. ASSUME NEW d \in Dispatch, DispatchOp(d)
      PROVE  AbsentNeedsNothing'
  <2>1. ASSUME NEW x \in Terminal, prepareStartingWorkerAuthority(d, x)
        PROVE  AbsentNeedsNothing'
    BY <2>1 DEF prepareStartingWorkerAuthority
  <2>2. CASE markWorkerDispatchReady(d)
    BY <2>2 DEF markWorkerDispatchReady
  <2>3. CASE failWorkerStart(d)
    BY <2>3 DEF failWorkerStart, Revoke
  <2>4. CASE markWorkerStartUnknown(d)
    BY <2>4 DEF markWorkerStartUnknown, Revoke
  <2>5. ASSUME NEW s \in {"ready", "failed", "stopped"}, reconcileFederatedWorkerStart(d, s)
        PROVE  AbsentNeedsNothing'
    BY <2>5 DEF reconcileFederatedWorkerStart, Revoke
  <2>6. CASE beginWorkerStop(d)
    BY <2>6 DEF beginWorkerStop, Revoke
  <2>7. CASE workerStopped(d, {"stopping", "stop_unknown"})
    BY <2>7 DEF workerStopped
  <2>8. CASE d \in federated /\ resumeFederatedWorkerForTerminalRelay(d)
    BY <2>8 DEF resumeFederatedWorkerForTerminalRelay
  <2>9. CASE markWorkerStopUnknown(d)
    BY <2>9 DEF markWorkerStopUnknown
  <2>10. CASE abandonWorkerDispatch(d)
    BY <2>10 DEF abandonWorkerDispatch, Revoke
  <2>11. ASSUME NEW o \in Outcome, settleWorkerReport(d, o)
        PROVE  AbsentNeedsNothing'
    BY <2>11 DEF settleWorkerReport, Revoke, promoteReadyTasks, Outcome
  <2>12. CASE Active(d) /\ assignee[d] # NoTerminal /\ (failDispatch(d) \/ failDispatchTorn(d))
    BY <2>12 DEF failDispatch, failDispatchTorn, updateFailedDispatch, Revoke
  <2>13. CASE createQuestion(d) \/ registerFederatedQuestion(d) \/ answerQuestion(d)
    BY <2>13 DEF createQuestion, registerFederatedQuestion, answerQuestion
  <2>14. QED
    BY <1>3, <2>1, <2>2, <2>3, <2>4, <2>5, <2>6, <2>7, <2>8, <2>9, <2>10, <2>11, <2>12, <2>13
       DEF DispatchOp, WholeOp, TornOp
<1> HIDE DEF StoreInv, LeaseInv, RemoteInv, AbsentNeedsNothing
<1>4. QED
  BY <1>1, <1>2, <1>3 DEF StoreStep

LEMMA LeaseInit == Init => RemoteInv /\ LeaseInv
BY StoreAssumption, DispatchFacts
   DEF Init, StoreInit, RemoteInv, LeaseInv, RemoteIsActive, UnknownIsNotDispatched, StoppingTaskIsHeld,
       CompletedIsLast, AbsentNeedsNothing, Active

LEMMA LeaseStep ==
    ASSUME StoreInv, StoreInv', RemoteInv, RemoteInv', LeaseInv, [Next]_vars
    PROVE  LeaseInv'
<1>1. CASE StoreStep
  BY <1>1, RemoteActiveStep, UnknownStep, StoppingStep, CompletedStep, AbsentStep DEF LeaseInv
<1>2. CASE UNCHANGED storeVars
  BY <1>2 DEF storeVars, taskVars, dispatchVars, workerVars, LeaseInv, RemoteIsActive, UnknownIsNotDispatched,
     StoppingTaskIsHeld, CompletedIsLast, AbsentNeedsNothing, Active, IsLatest
<1>3. QED
  BY <1>1, <1>2, StepIsStoreStep

\* What supervised dispatching keeps beside StoreInv: dispatches on a worker
\* host end only with their worker, and a completed dispatch is never followed.
THEOREM LeaseInvariant == SafeSpec => [](RemoteInv /\ LeaseInv)
<1>1. StoreInv /\ CallTypeOK /\ RemoteInv /\ [Next]_vars => RemoteInv'
  BY RemoteStep DEF StoreInv, AuthorityInv
<1>2. StoreInv /\ StoreInv' /\ RemoteInv /\ RemoteInv' /\ LeaseInv /\ [Next]_vars => LeaseInv'
  BY LeaseStep
<1>3. QED
  BY <1>1, <1>2, LeaseInit, StoreInvariant, CallInvariant, PTL DEF SafeSpec

\* What ends a dispatch takes its task out of dispatched.
LEMMA WorkedOnStep ==
    ASSUME StoreInv, StoreInv', RemoteInv, LeaseInv, DispatchedTaskHasWorker, CallTypeOK,
           WholeStep, staleEpoch' = staleEpoch
    PROVE  DispatchedTaskHasWorker'
<1> USE StoreAssumption, DispatchFacts DEF StoreAssumption, StoreInv, AuthorityInv, StoreTypeOK, RemoteInv,
        LeaseInv, Active, identityVars, taskVars, dispatchVars, workerVars, DispatchedTaskHasWorker,
        RemoteIsActive, StoppingTaskIsHeld, SettledWorker, SettledWorkerEndsDispatch, OneActiveDispatchPerTask,
        IsLatest, CallTypeOK
<1>1. ASSUME NEW t \in Task, NEW D \in SUBSET Task, createTask(t, D)
      PROVE  DispatchedTaskHasWorker'
  BY <1>1 DEF createTask
<1>2. ASSUME NEW t \in Task, NEW r \in Dispatch \cup {NoDispatch}, NEW remote \in BOOLEAN,
             createStartingWorkerDispatch(t, r, remote)
      PROVE  DispatchedTaskHasWorker'
  <2>1. PICK n \in Dispatch :
        /\ n = nDispatch + 1 /\ dispatchTask[n] = NoTask /\ status[n] = "absent"
        /\ dispatchTask' = [dispatchTask EXCEPT ![n] = t]
        /\ status' = [status EXCEPT ![n] = "pending"]
        /\ worker' = [worker EXCEPT ![n] = "starting"]
        /\ taskStatus' = [taskStatus EXCEPT ![t] = "dispatched"]
        /\ federated' \subseteq federated \cup {n}
    <3>1. /\ NextDispatch \in Dispatch /\ NextDispatch = nDispatch + 1
          /\ dispatchTask[NextDispatch] = NoTask /\ status[NextDispatch] = "absent"
      BY <1>2 DEF createStartingWorkerDispatch, NextDispatch, Dispatch
    <3>2. QED
      BY <1>2, <3>1 DEF createStartingWorkerDispatch
  <2>2. ASSUME NEW e \in Dispatch, dispatchTask[e] = t
        PROVE  e <= n
    BY <2>1, <2>2
  <2>3. /\ dispatchTask \in [Dispatch -> Task \cup {NoTask}] /\ taskStatus \in [Task -> TaskStatus \cup {"absent"}]
        /\ status \in [Dispatch -> DispatchStatus \cup {"absent"}]
        /\ worker \in [Dispatch -> WorkerState \cup {"absent"}]
        /\ n <= n
    BY <2>1
  <2> HIDE DEF StoreInv, AuthorityInv, StoreTypeOK, RemoteInv, LeaseInv, RemoteIsActive, StoppingTaskIsHeld,
           SettledWorkerEndsDispatch, OneActiveDispatchPerTask, CallTypeOK, DispatchedTaskHasWorker
  <2>4. IsLatest(n)' /\ Active(n)' /\ worker'[n] = "starting" /\ dispatchTask'[n] = t
    BY <2>1, <2>2, <2>3
  <2>5. ASSUME NEW c \in Task, c # t, taskStatus'[c] = "dispatched"
        PROVE  \E d \in Dispatch : /\ dispatchTask'[d] = c
                                   /\ IsLatest(d)'
                                   /\ worker'[d] \in {"starting", "ready"}
                                   /\ Active(d)' \/ d \in staleEpoch' \ federated'
    <3>1. PICK d \in Dispatch : /\ dispatchTask[d] = c
                                /\ IsLatest(d)
                                /\ worker[d] \in {"starting", "ready"}
                                /\ Active(d) \/ d \in staleEpoch \ federated
      BY <2>1, <2>5, <2>3 DEF DispatchedTaskHasWorker
    <3>2. d # n
      BY <2>1, <3>1
    <3>3. dispatchTask'[d] = c /\ worker'[d] = worker[d] /\ status'[d] = status[d] /\ IsLatest(d)'
      BY <2>1, <2>5, <2>3, <3>1, <3>2
    <3>4. Active(d)' \/ d \in staleEpoch' \ federated'
      BY <2>1, <3>1, <3>2, <3>3
    <3>5. QED
      BY <3>1, <3>3, <3>4
  <2>6. QED
    BY <2>4, <2>5 DEF DispatchedTaskHasWorker
<1>3. ASSUME NEW d \in Dispatch, WholeOp(d)
      PROVE  DispatchedTaskHasWorker'
  <2>1. ASSUME NEW x \in Terminal, prepareStartingWorkerAuthority(d, x)
        PROVE  DispatchedTaskHasWorker'
    BY <2>1 DEF prepareStartingWorkerAuthority
  <2>2. CASE markWorkerDispatchReady(d)
    BY <2>2 DEF markWorkerDispatchReady
  <2>3. CASE failWorkerStart(d)
    BY <2>3 DEF failWorkerStart, Revoke
  <2>4. CASE markWorkerStartUnknown(d)
    BY <2>4 DEF markWorkerStartUnknown, Revoke
  <2>5. ASSUME NEW s \in {"ready", "failed", "stopped"}, reconcileFederatedWorkerStart(d, s)
        PROVE  DispatchedTaskHasWorker'
    BY <2>5 DEF reconcileFederatedWorkerStart, Revoke
  <2>0. CASE beginWorkerStop(d)
    BY <2>0 DEF beginWorkerStop, Revoke
  <2>7. CASE workerStopped(d, {"stopping", "stop_unknown"})
    BY <2>7 DEF workerStopped
  <2>8. CASE d \in federated /\ resumeFederatedWorkerForTerminalRelay(d)
    <3>1. Active(d)
      BY <2>8 DEF resumeFederatedWorkerForTerminalRelay
    <3>2. \A e \in Dispatch : Active(e) /\ dispatchTask[e] = dispatchTask[d] => e = d
      BY <3>1, ActiveIsUnique
    <3> HIDE DEF RemoteIsActive
    <3>3. QED
      BY <2>8, <3>1, <3>2 DEF resumeFederatedWorkerForTerminalRelay
  <2>9. CASE markWorkerStopUnknown(d)
    BY <2>9 DEF markWorkerStopUnknown
  <2>10. CASE abandonWorkerDispatch(d)
    BY <2>10 DEF abandonWorkerDispatch, Revoke
  <2>11. ASSUME NEW o \in Outcome, settleWorkerReport(d, o)
        PROVE  DispatchedTaskHasWorker'
    BY <2>11, ReporterIsReady DEF settleWorkerReport, Revoke, promoteReadyTasks, Outcome
  <2>12. CASE Active(d) /\ assignee[d] # NoTerminal /\ failDispatch(d)
    BY <2>12 DEF failDispatch, updateFailedDispatch, Revoke
  <2>13. CASE createQuestion(d) \/ registerFederatedQuestion(d) \/ answerQuestion(d)
    BY <2>13 DEF createQuestion, registerFederatedQuestion, answerQuestion
  <2>14. QED
    BY <1>3, <2>1, <2>2, <2>3, <2>4, <2>5, <2>0, <2>7, <2>8, <2>9, <2>10, <2>11, <2>12, <2>13
       DEF WholeOp
<1> HIDE DEF StoreInv, LeaseInv, RemoteInv, DispatchedTaskHasWorker
<1>4. QED
  BY <1>1, <1>2, <1>3 DEF WholeStep

LEMMA WorkedOnNext ==
    ASSUME StoreInv, StoreInv', RemoteInv, LeaseInv, DispatchedTaskHasWorker, CallTypeOK, [Next]_vars
    PROVE  DispatchedTaskHasWorker'
<1>1. CASE Supervised
  <2>1. staleEpoch' = staleEpoch
    BY <1>1 DEF Supervised, Environment, StartStep, StopStep, TaskCreate, WorkerStart, WorkerShowStale,
       WorkerShowRemote, WorkerStop, WorkerAbandon, WorkerReport, WorkerReportRelayed, WorkerAsk, WorkerAskRelayed,
       CoordinatorAnswer, failActiveDispatchOnExit, WorkerAuthority, WorkerReady, WorkerStartFails,
       WorkerStartUnknown, WorkerStopped, WorkerStoppedRemotely, WorkerStopSuperseded, WorkerStopUnconfirmed,
       callVars, EndStart, EndStop
  <2>2. CASE WholeStep
    BY <2>1, <2>2, WorkedOnStep
  <2>3. CASE UNCHANGED storeVars
    BY <2>1, <2>3 DEF storeVars, taskVars, dispatchVars, workerVars, DispatchedTaskHasWorker, Active, IsLatest
  <2>4. QED
    BY <1>1, <2>2, <2>3, SupervisedIsWholeStep
<1>2. CASE Restart
  <2>1. staleEpoch \subseteq staleEpoch' /\ UNCHANGED storeVars
    BY <1>2 DEF Restart, NewProcess, CallTypeOK, storeVars, dispatchVars
  <2>2. QED
    BY <2>1 DEF storeVars, taskVars, dispatchVars, workerVars, DispatchedTaskHasWorker, Active, IsLatest
<1>3. CASE DiesFailingDispatch
  <2>1. PICK d \in Dispatch : assignee[d] \in Terminal /\ Active(d) /\ failDispatchTorn(d)
    BY <1>3 DEF DiesFailingDispatch
  <2>2. /\ d \notin federated /\ d \in 1..nDispatch
        /\ UNCHANGED <<taskStatus, nDispatch, dispatchTask, worker, federated>>
        /\ \A e \in Dispatch : e # d => status'[e] = status[e]
        /\ staleEpoch' = 1..nDispatch
    BY <1>3, <2>1, StoreAssumption
       DEF StoreAssumption, RemoteInv, StoreInv, AuthorityInv, StoreTypeOK, Active, Dispatch, DiesFailingDispatch,
           NewProcess, failDispatchTorn, updateFailedDispatch, identityVars
  <2>3. staleEpoch \subseteq staleEpoch'
    BY <2>2 DEF CallTypeOK
  <2>4. QED
    BY <2>2, <2>3 DEF DispatchedTaskHasWorker, Active, IsLatest
<1>4. CASE UNCHANGED vars
  BY <1>4 DEF vars, callVars, storeVars, taskVars, dispatchVars, workerVars, DispatchedTaskHasWorker, Active, IsLatest
<1>5. QED
  BY <1>1, <1>2, <1>3, <1>4 DEF Next

\* A task shown as dispatched has a worker starting or ready, and an active
\* dispatch unless the daemon died inside failDispatch.
THEOREM WorkedOnTheorem == SafeSpec => []DispatchedTaskHasWorker
<1>1. Init => DispatchedTaskHasWorker
  BY DEF Init, StoreInit, DispatchedTaskHasWorker
<1>2. StoreInv /\ StoreInv' /\ CallTypeOK /\ RemoteInv /\ LeaseInv /\ DispatchedTaskHasWorker /\ [Next]_vars
        => DispatchedTaskHasWorker'
  BY WorkedOnNext
<1>3. QED
  BY <1>1, <1>2, StoreInvariant, CallInvariant, LeaseInvariant, PTL DEF SafeSpec

-----------------------------------------------------------------------------
\* The lease of a task is its active dispatch, the only one.
HolderFacts ==
    /\ activeDispatch = [t \in Task |-> activeDispatch[t]]
    /\ \A t \in Task : activeDispatch[t] # NoDispatch =>
          /\ activeDispatch[t] \in Dispatch
          /\ dispatchTask[activeDispatch[t]] = t
          /\ Active(activeDispatch[t])
    /\ \A d \in Dispatch : dispatchTask[d] \in Task /\ Active(d) => activeDispatch[dispatchTask[d]] = d

LEMMA Holder == StoreInv => HolderFacts
<1> SUFFICES ASSUME StoreInv
             PROVE  HolderFacts
    OBVIOUS
<1>1. activeDispatch = [t \in Task |-> activeDispatch[t]]
  BY DEF activeDispatch
<1>2. ASSUME NEW t \in Task, activeDispatch[t] # NoDispatch
      PROVE  /\ activeDispatch[t] \in Dispatch
             /\ dispatchTask[activeDispatch[t]] = t
             /\ Active(activeDispatch[t])
  BY <1>2 DEF activeDispatch
<1>3. ASSUME NEW d \in Dispatch, dispatchTask[d] \in Task, Active(d)
      PROVE  activeDispatch[dispatchTask[d]] = d
  <2> DEFINE t == dispatchTask[d]
             h == activeDispatch[t]
  <2>1. h \in Dispatch /\ dispatchTask[h] = t /\ Active(h)
    BY <1>3 DEF activeDispatch
  <2>2. QED
    BY <2>1, <1>3, ActiveIsUnique DEF StoreInv
<1>4. QED
  BY <1>1, <1>2, <1>3 DEF HolderFacts

\* A task with the same active dispatches has the same lease.
LEMMA SameHolder ==
    ASSUME HolderFacts, HolderFacts', NEW t \in Task,
           \A d \in Dispatch : /\ dispatchTask'[d] = t <=> dispatchTask[d] = t
                               /\ dispatchTask[d] = t => (Active(d)' <=> Active(d))
    PROVE  activeDispatch'[t] = activeDispatch[t]
<1>1. CASE activeDispatch[t] # NoDispatch
  BY <1>1 DEF HolderFacts
<1>2. CASE activeDispatch'[t] # NoDispatch
  BY <1>2 DEF HolderFacts
<1>3. QED
  BY <1>1, <1>2

\* What an operation on one dispatch does to the leases.
LEMMA OpEffect ==
    ASSUME StoreTypeOK, NEW d \in Dispatch, DispatchOp(d)
    PROVE  /\ UNCHANGED <<deps, nDispatch, dispatchTask>>
           /\ \A e \in Dispatch : e # d => status'[e] = status[e]
           /\ status'[d] = "completed" => status[d] \in {"dispatched", "completed"}
<1> USE DEF StoreTypeOK, Active, identityVars, taskVars, dispatchVars, workerVars
<1> DEFINE Effect == /\ UNCHANGED <<deps, nDispatch, dispatchTask>>
                     /\ \A e \in Dispatch : e # d => status'[e] = status[e]
                     /\ status'[d] = "completed" => status[d] \in {"dispatched", "completed"}
<1> SUFFICES Effect
    OBVIOUS
<1>1. ASSUME NEW x \in Terminal, prepareStartingWorkerAuthority(d, x)
      PROVE  Effect
  BY <1>1 DEF prepareStartingWorkerAuthority
<1>2. CASE markWorkerDispatchReady(d)
  BY <1>2 DEF markWorkerDispatchReady
<1>3. CASE failWorkerStart(d)
  BY <1>3 DEF failWorkerStart, Revoke
<1>4. CASE markWorkerStartUnknown(d)
  BY <1>4 DEF markWorkerStartUnknown, Revoke
<1>5. ASSUME NEW s \in {"ready", "failed", "stopped"}, reconcileFederatedWorkerStart(d, s)
      PROVE  Effect
  BY <1>5 DEF reconcileFederatedWorkerStart, Revoke
<1>6. CASE beginWorkerStop(d)
  BY <1>6 DEF beginWorkerStop, Revoke
<1>7. CASE workerStopped(d, {"stopping", "stop_unknown"})
  BY <1>7 DEF workerStopped
<1>8. CASE d \in federated /\ resumeFederatedWorkerForTerminalRelay(d)
  BY <1>8 DEF resumeFederatedWorkerForTerminalRelay
<1>9. CASE markWorkerStopUnknown(d)
  BY <1>9 DEF markWorkerStopUnknown
<1>10. CASE abandonWorkerDispatch(d)
  BY <1>10 DEF abandonWorkerDispatch, Revoke
<1>11. ASSUME NEW o \in Outcome, settleWorkerReport(d, o)
      PROVE  Effect
  BY <1>11 DEF settleWorkerReport, Revoke, promoteReadyTasks, Outcome
<1>12. CASE Active(d) /\ assignee[d] # NoTerminal /\ (failDispatch(d) \/ failDispatchTorn(d))
  BY <1>12 DEF failDispatch, failDispatchTorn, updateFailedDispatch, Revoke
<1>13. CASE createQuestion(d) \/ registerFederatedQuestion(d) \/ answerQuestion(d)
  BY <1>13 DEF createQuestion, registerFederatedQuestion, answerQuestion
<1>14. QED
  BY <1>1, <1>2, <1>3, <1>4, <1>5, <1>6, <1>7, <1>8, <1>9, <1>10, <1>11, <1>12, <1>13
       DEF DispatchOp, WholeOp, TornOp

\* The steps of the abstract specification.
LEMMA DeclareStep ==
    ASSUME StoreInv, LeaseInv, HolderFacts, HolderFacts', NEW t \in Task, NEW D \in SUBSET Task, createTask(t, D)
    PROVE  Leases!Declare(t, D)
<1> USE StoreAssumption, DispatchFacts
    DEF StoreAssumption, StoreInv, AuthorityInv, StoreTypeOK, createTask, dispatchVars, workerVars
<1>1. \A d \in Dispatch : status[d] # "absent" => dispatchTask[d] # t
  BY DEF ExistingDispatchHasRows, Dispatch
<1>2. ~ Done(t) /\ activeDispatch[t] = NoDispatch
  BY <1>1 DEF Done, HolderFacts, Active
<1>3. activeDispatch' = activeDispatch
  <2>1. \A c \in Task : activeDispatch'[c] = activeDispatch[c]
    BY SameHolder DEF Active
  <2>2. QED
    BY <2>1 DEF HolderFacts
<1>4. \A c \in Task : Done(c)' <=> Done(c)
  BY DEF Done
<1>5. deps[t] = {}
  BY DEF LeaseInv, AbsentNeedsNothing
<1>6. QED
  BY <1>2, <1>3, <1>4, <1>5 DEF Leases!Declare

LEMMA GrantStep ==
    ASSUME StoreInv, LeaseInv, DependenciesDone, HolderFacts, HolderFacts',
           NEW t \in Task, NEW r \in Dispatch \cup {NoDispatch}, NEW remote \in BOOLEAN,
           createStartingWorkerDispatch(t, r, remote)
    PROVE  Leases!Grant(t, NextDispatch)
<1> DEFINE n == NextDispatch
<1> USE StoreAssumption, DispatchFacts DEF StoreAssumption, StoreInv, AuthorityInv, StoreTypeOK
<1>1. /\ n \in Dispatch /\ n = nDispatch + 1 /\ nDispatch' = n
      /\ dispatchTask' = [dispatchTask EXCEPT ![n] = t]
      /\ status' = [status EXCEPT ![n] = "pending"]
      /\ deps' = deps /\ Startable(t, r)
  BY DEF createStartingWorkerDispatch, NextDispatch
<1>2. status[n] = "absent" /\ dispatchTask[n] = NoTask
  BY <1>1 DEF Dispatch
<1>3. activeDispatch[t] = NoDispatch
  BY <1>1, StartableTaskIsFree DEF HolderFacts
<1>4. ~ Done(t)
  <2> SUFFICES ASSUME NEW d \in Dispatch, dispatchTask[d] = t, status[d] = "completed"
               PROVE  FALSE
      BY DEF Done
  <2>1. IsLatest(d) /\ worker[d] = "succeeded" /\ taskStatus[t] # "ready"
    BY DEF LeaseInv, CompletedIsLast
  <2>2. r \in Dispatch /\ dispatchTask[r] = t /\ IsLatest(r) /\ worker[r] # "succeeded"
    BY <1>1, <2>1 DEF Startable
  <2>3. r = d
    <3>1. r <= d /\ d <= r
      BY <2>1, <2>2 DEF IsLatest
    <3>2. QED
      BY <2>2, <3>1
  <2>4. QED
    BY <2>1, <2>2, <2>3
<1>5. \A p \in deps[t] : Done(p)
  <2>1. taskStatus[t] \notin {"absent", "pending"}
    BY <1>1 DEF Startable
  <2>2. QED
    BY <2>1 DEF DependenciesDone
<1>6. activeDispatch' = [activeDispatch EXCEPT ![t] = n]
  <2>1. activeDispatch'[t] = n
    BY <1>1, <1>2 DEF HolderFacts, Active
  <2>2. \A c \in Task : c # t => activeDispatch'[c] = activeDispatch[c]
    BY <1>1, <1>2, SameHolder DEF Active
  <2>3. QED
    BY <2>1, <2>2 DEF HolderFacts
<1>7. \A c \in Task : Done(c)' <=> Done(c)
  BY <1>1, <1>2 DEF Done
<1>8. 1..nDispatch' = (1..nDispatch) \cup {n}
  BY <1>1
<1>9. n \notin 1..nDispatch /\ deps[t] \subseteq Task
  BY <1>1
<1>10. {c \in Task : Done(c)}' = {c \in Task : Done(c)}
  BY <1>7
<1>11. deps[t] \subseteq {c \in Task : Done(c)} /\ t \notin {c \in Task : Done(c)}
  BY <1>4, <1>5, <1>9
<1> HIDE DEF StoreInv, AuthorityInv, StoreTypeOK
<1>12. QED
  BY <1>1, <1>3, <1>6, <1>8, <1>9, <1>10, <1>11 DEF Leases!Grant

\* A dispatch that ends returns its lease, or completes its task.
LEMMA EndStep ==
    ASSUME StoreInv, StoreInv', EndedStaysEnded, HolderFacts, HolderFacts', NEW d \in Dispatch, DispatchOp(d)
    PROVE  \/ \E t \in Task : Leases!Return(t) \/ Leases!Complete(t)
           \/ UNCHANGED Leases!leaseVars
<1> DEFINE t == dispatchTask[d]
           done == {c \in Task : Done(c)}
<1> USE DispatchFacts DEF StoreInv, AuthorityInv, StoreTypeOK
<1>1. /\ UNCHANGED <<deps, nDispatch, dispatchTask>>
      /\ \A e \in Dispatch : e # d => status'[e] = status[e]
      /\ status'[d] = "completed" => status[d] \in {"dispatched", "completed"}
  BY OpEffect
<1>2. \A e \in Dispatch : status[e] = "completed" => status'[e] = "completed"
  BY DEF EndedStaysEnded, Dispatch
<1>3. \A c \in Task : c # t => activeDispatch'[c] = activeDispatch[c] /\ (Done(c)' <=> Done(c))
  BY <1>1, SameHolder DEF Active, Done
<1>4. CASE Active(d) /\ ~ Active(d)'
  <2>1. t \in Task
    BY <1>4 DEF Active, Dispatch
  <2>2. activeDispatch[t] = d
    BY <1>4, <2>1 DEF HolderFacts
  <2>3. activeDispatch'[t] = NoDispatch
    <3> HIDE DEF StoreInv
    <3>1. ASSUME NEW h \in Dispatch, dispatchTask'[h] = t, Active(h)'
          PROVE  FALSE
      <4>1. h # d /\ Active(h) /\ dispatchTask[h] = t
        BY <1>1, <1>4, <3>1 DEF Active
      <4>2. QED
        BY <2>1, <2>2, <4>1 DEF HolderFacts
    <3>2. QED
      BY <2>1, <3>1 DEF HolderFacts
  <2>4. activeDispatch' = [activeDispatch EXCEPT ![t] = NoDispatch]
    BY <1>3, <2>1, <2>3 DEF HolderFacts
  <2>5. CASE status'[d] = "completed"
    <3>1. done' = done \cup {t}
      BY <1>1, <1>3, <2>1, <2>5 DEF Done
    <3>2. Leases!Complete(t)
      BY <1>1, <2>2, <2>4, <3>1 DEF Leases!Complete
    <3>3. QED
      BY <2>1, <3>2
  <2>6. CASE status'[d] # "completed"
    <3>1. ASSUME NEW c \in Task, c = t
          PROVE  Done(c)' <=> Done(c)
      BY <1>1, <1>4, <2>6, <3>1 DEF Done, Active
    <3>2. \A c \in Task : Done(c)' <=> Done(c)
      BY <1>3, <3>1
    <3>3. done' = done
      BY <3>2
    <3>4. Leases!Return(t)
      BY <1>1, <2>2, <2>4, <3>3 DEF Leases!Return
    <3>5. QED
      BY <2>1, <3>4
  <2>7. QED
    BY <2>5, <2>6
<1>5. CASE ~ (Active(d) /\ ~ Active(d)')
  <2>1. Active(d)' <=> Active(d)
    <3>1. CASE d \in 1..nDispatch
      BY <1>5, <3>1 DEF EndedStaysEnded
    <3>2. CASE d \notin 1..nDispatch
      <4>1. status[d] = "absent" /\ status'[d] = "absent"
        BY <1>1, <3>2 DEF Dispatch
      <4>2. QED
        BY <4>1 DEF Active
    <3>3. QED
      BY <3>1, <3>2
  <2>2. status'[d] = "completed" <=> status[d] = "completed"
    BY <1>1, <1>2, <2>1 DEF Active
  <2>3. \A c \in Task : activeDispatch'[c] = activeDispatch[c] /\ (Done(c)' <=> Done(c))
    BY <1>1, <2>1, <2>2, SameHolder DEF Active, Done
  <2>4. activeDispatch' = activeDispatch /\ done' = done
    BY <2>3 DEF HolderFacts
  <2>5. QED
    BY <1>1, <2>4 DEF Leases!leaseVars
<1>6. QED
  BY <1>4, <1>5

LEMMA LeaseInitially == Init => Leases!LeaseInit
<1> SUFFICES ASSUME Init
             PROVE  Leases!LeaseInit
    OBVIOUS
<1>1. activeDispatch = [t \in Task |-> NoDispatch]
  BY DEF Init, StoreInit, activeDispatch, Active
<1>2. {t \in Task : Done(t)} = {}
  BY DEF Init, StoreInit, Done
<1>3. 1..nDispatch = {} /\ deps = [t \in Task |-> {}]
  BY DEF Init, StoreInit
<1>4. QED
  BY <1>1, <1>2, <1>3 DEF Leases!LeaseInit

LEMMA LeaseNextStep ==
    ASSUME StoreInv, StoreInv', LeaseInv, DependenciesDone, HolderFacts, HolderFacts', [Next]_vars
    PROVE  [Leases!LeaseNext]_(Leases!leaseVars)
<1>1. ASSUME NEW t \in Task, NEW D \in SUBSET Task, createTask(t, D)
      PROVE  Leases!LeaseNext
  BY <1>1, DeclareStep DEF Leases!LeaseNext
<1>2. ASSUME NEW t \in Task, NEW r \in Dispatch \cup {NoDispatch}, NEW remote \in BOOLEAN,
             createStartingWorkerDispatch(t, r, remote)
      PROVE  Leases!LeaseNext
  BY <1>2, GrantStep DEF Leases!LeaseNext, createStartingWorkerDispatch
<1>3. ASSUME NEW d \in Dispatch, DispatchOp(d)
      PROVE  Leases!LeaseNext \/ UNCHANGED Leases!leaseVars
  <2>1. EndedStaysEnded
    BY <1>3, EndedStep DEF StoreStep
  <2>2. QED
    BY <1>3, <2>1, EndStep DEF Leases!LeaseNext
<1>4. CASE UNCHANGED storeVars
  <2>1. activeDispatch' = activeDispatch
    BY <1>4 DEF storeVars, dispatchVars, activeDispatch, Active
  <2>2. {t \in Task : Done(t)}' = {t \in Task : Done(t)}
    BY <1>4 DEF storeVars, dispatchVars, Done
  <2>3. QED
    BY <1>4, <2>1, <2>2 DEF Leases!leaseVars, storeVars, taskVars, dispatchVars
<1>5. QED
  BY <1>1, <1>2, <1>3, <1>4, StepIsStoreStep DEF StoreStep

\* Supervised dispatching implements TaskLease: no lease is granted twice or
\* while another is held, nor before the dependencies are done, and a task that
\* is done is never leased again.
THEOREM LeaseTheorem == SafeSpec => ImplementsLeases
<1>1. StoreInv /\ StoreInv' /\ LeaseInv /\ DependenciesDone /\ HolderFacts /\ HolderFacts' /\ [Next]_vars
        => [Leases!LeaseNext]_(Leases!leaseVars)
  BY LeaseNextStep
<1>2. SafeSpec => []HolderFacts
  BY Holder, StoreInvariant, PTL
<1>3. QED
  BY <1>1, <1>2, LeaseInitially, StoreInvariant, LeaseInvariant, DependenciesInvariant, PTL
     DEF SafeSpec, ImplementsLeases, Leases!LeaseSpec
=============================================================================
