------------------------- MODULE OrchestrationProofs -------------------------
(***************************************************************************)
(* Proofs about Orchestration, for every set of tasks and terminals and    *)
(* every bound: what survives when supervised workers, by-hand commands,   *)
(* restarts and torn operations share one store.                           *)
(*                                                                         *)
(* A step is a supervised store operation (StoreStep), an operation of     *)
(* DispatchContext, or leaves the store alone.  The by-hand operations     *)
(* write dispatches in three ways only (HandOp).                           *)
(***************************************************************************)
EXTENDS Orchestration, SupervisedWorkerProofs, DispatchContextProofs

HandOp ==
    \/ \E t \in Task, x \in Terminal, c \in {"none", "live"} :
          insertDispatch(t, x, c) /\ UNCHANGED workerVars
    \/ \E t \in Task : completeActiveDispatchForTask(t) /\ UNCHANGED workerVars
    \/ \E d \in Dispatch : updateFailedDispatch(d)
    \/ UNCHANGED <<dispatchVars, workerVars>>

\* Questions and federation rows belong to dispatches that exist.
QuestionsExist == asking \subseteq 1..nDispatch /\ federated \subseteq 1..nDispatch

SharedInv ==
    /\ AuthorityInv
    /\ QuestionsExist
    /\ OpenQuestionHasAuthority
    /\ ByHandRespectsTerminalLock

\* What NeverActiveAgain says of one step.
EndedIsNotActive == \A d \in 1..nDispatch : ~ Active(d) => ~ Active(d)'

-----------------------------------------------------------------------------
\* What a supervised operation does to dispatches that have no worker: it
\* neither makes one, nor moves it to a terminal, nor makes it active.
UnsupervisedIsKept ==
    \A d \in Dispatch : worker'[d] = "absent" =>
        /\ worker[d] = "absent"
        /\ assignee'[d] = assignee[d]
        /\ Active(d)' => Active(d)

LEMMA UnsupervisedStep ==
    ASSUME StoreTypeOK, StoreStep
    PROVE  UnsupervisedIsKept
<1> USE StoreAssumption, DispatchFacts DEF StoreAssumption, StoreTypeOK, UnsupervisedIsKept, Active,
        WorkerState, identityVars, taskVars, dispatchVars, workerVars
<1>1. ASSUME NEW t \in Task, NEW D \in SUBSET Task, createTask(t, D)
      PROVE  UnsupervisedIsKept
  BY <1>1 DEF createTask
<1>2. ASSUME NEW t \in Task, NEW r \in Dispatch \cup {NoDispatch}, NEW remote \in BOOLEAN,
             createStartingWorkerDispatch(t, r, remote)
      PROVE  UnsupervisedIsKept
  BY <1>2 DEF createStartingWorkerDispatch, NextDispatch, Dispatch
<1>3. ASSUME NEW d \in Dispatch, DispatchOp(d)
      PROVE  UnsupervisedIsKept
  <2>1. ASSUME NEW x \in Terminal, prepareStartingWorkerAuthority(d, x)
        PROVE  UnsupervisedIsKept
    BY <2>1 DEF prepareStartingWorkerAuthority
  <2>2. CASE markWorkerDispatchReady(d)
    BY <2>2 DEF markWorkerDispatchReady
  <2>3. CASE failWorkerStart(d)
    BY <2>3 DEF failWorkerStart, Revoke
  <2>4. CASE markWorkerStartUnknown(d)
    BY <2>4 DEF markWorkerStartUnknown, Revoke
  <2>5. ASSUME NEW s \in {"ready", "failed", "stopped"}, reconcileFederatedWorkerStart(d, s)
        PROVE  UnsupervisedIsKept
    BY <2>5 DEF reconcileFederatedWorkerStart, Revoke
  <2>6. CASE beginWorkerStop(d)
    BY <2>6 DEF beginWorkerStop, Revoke
  <2>7. CASE workerStopped(d, {"stopping", "stop_unknown"})
    BY <2>7 DEF workerStopped
  <2>8. CASE resumeFederatedWorkerForTerminalRelay(d)
    BY <2>8 DEF resumeFederatedWorkerForTerminalRelay
  <2>9. CASE markWorkerStopUnknown(d)
    BY <2>9 DEF markWorkerStopUnknown
  <2>10. CASE abandonWorkerDispatch(d)
    BY <2>10 DEF abandonWorkerDispatch, Revoke
  <2>11. ASSUME NEW o \in Outcome, settleWorkerReport(d, o)
         PROVE  UnsupervisedIsKept
    BY <2>11 DEF settleWorkerReport, Revoke, Outcome
  <2>12. CASE Active(d) /\ (failDispatch(d) \/ failDispatchTorn(d))
    BY <2>12 DEF failDispatch, failDispatchTorn, updateFailedDispatch, Revoke
  <2>13. CASE \/ capability[d] # "revoked" /\ createQuestion(d)
              \/ registerFederatedQuestion(d) \/ answerQuestion(d)
    BY <2>13 DEF createQuestion, registerFederatedQuestion, answerQuestion
  <2>14. QED
    BY <1>3, <2>1, <2>2, <2>3, <2>4, <2>5, <2>6, <2>7, <2>8, <2>9, <2>10, <2>11, <2>12, <2>13
       DEF DispatchOp, WholeOp, TornOp
<1>4. QED
  BY <1>1, <1>2, <1>3 DEF StoreStep

\* Every supervised operation that revokes a capability ends the dispatch or
\* closes its questions.
LEMMA QuestionStep ==
    ASSUME StoreTypeOK, QuestionsExist, OpenQuestionHasAuthority, StoreStep
    PROVE  QuestionsExist' /\ OpenQuestionHasAuthority'
<1> DEFINE Goal == QuestionsExist' /\ OpenQuestionHasAuthority'
<1> USE StoreAssumption, DispatchFacts DEF StoreAssumption, StoreTypeOK, QuestionsExist,
        OpenQuestionHasAuthority, Active, identityVars, taskVars, dispatchVars, workerVars
<1>1. ASSUME NEW t \in Task, NEW D \in SUBSET Task, createTask(t, D)
      PROVE  Goal
  BY <1>1 DEF createTask
<1>2. ASSUME NEW t \in Task, NEW r \in Dispatch \cup {NoDispatch}, NEW remote \in BOOLEAN,
             createStartingWorkerDispatch(t, r, remote)
      PROVE  Goal
  BY <1>2 DEF createStartingWorkerDispatch, NextDispatch, Dispatch
<1>3. ASSUME NEW d \in Dispatch, DispatchOp(d)
      PROVE  Goal
  <2>1. ASSUME NEW x \in Terminal, prepareStartingWorkerAuthority(d, x)
        PROVE  Goal
    BY <2>1 DEF prepareStartingWorkerAuthority
  <2>2. CASE markWorkerDispatchReady(d)
    BY <2>2 DEF markWorkerDispatchReady
  <2>3. CASE failWorkerStart(d)
    BY <2>3 DEF failWorkerStart, Revoke
  <2>4. CASE markWorkerStartUnknown(d)
    BY <2>4 DEF markWorkerStartUnknown, Revoke
  <2>5. ASSUME NEW s \in {"ready", "failed", "stopped"}, reconcileFederatedWorkerStart(d, s)
        PROVE  Goal
    BY <2>5 DEF reconcileFederatedWorkerStart, Revoke
  <2>6. CASE beginWorkerStop(d)
    BY <2>6 DEF beginWorkerStop, Revoke
  <2>7. CASE workerStopped(d, {"stopping", "stop_unknown"})
    BY <2>7 DEF workerStopped
  <2>8. CASE resumeFederatedWorkerForTerminalRelay(d)
    BY <2>8 DEF resumeFederatedWorkerForTerminalRelay
  <2>9. CASE markWorkerStopUnknown(d)
    BY <2>9 DEF markWorkerStopUnknown
  <2>10. CASE abandonWorkerDispatch(d)
    BY <2>10 DEF abandonWorkerDispatch, Revoke
  <2>11. ASSUME NEW o \in Outcome, settleWorkerReport(d, o)
         PROVE  Goal
    BY <2>11 DEF settleWorkerReport, Revoke, Outcome
  <2>12. CASE Active(d) /\ (failDispatch(d) \/ failDispatchTorn(d))
    BY <2>12 DEF failDispatch, failDispatchTorn, updateFailedDispatch, Revoke
  <2>13. CASE capability[d] # "revoked" /\ createQuestion(d)
    <3>1. d \in 1..nDispatch
      BY <2>13 DEF createQuestion, Dispatch
    <3>2. QED
      BY <2>13, <3>1 DEF createQuestion
  <2>14. CASE registerFederatedQuestion(d)
    BY <2>14 DEF registerFederatedQuestion
  <2>15. CASE answerQuestion(d)
    BY <2>15 DEF answerQuestion
  <2>16. QED
    BY <1>3, <2>1, <2>2, <2>3, <2>4, <2>5, <2>6, <2>7, <2>8, <2>9, <2>10, <2>11, <2>12, <2>13,
       <2>14, <2>15 DEF DispatchOp, WholeOp, TornOp
<1>4. QED
  BY <1>1, <1>2, <1>3 DEF StoreStep

LEMMA SupervisedShared ==
    ASSUME SharedInv, StoreStep
    PROVE  SharedInv' /\ EndedIsNotActive
<1>1. StoreTypeOK /\ StoreTypeOK'
  BY TypeStep DEF SharedInv, AuthorityInv
<1>2. AuthorityInv'
  BY <1>1, CapabilityStep, SettledStep DEF SharedInv, AuthorityInv
<1>3. QuestionsExist' /\ OpenQuestionHasAuthority'
  BY <1>1, QuestionStep DEF SharedInv
<1>4. ByHandRespectsTerminalLock'
  BY <1>1, UnsupervisedStep DEF SharedInv, ByHandRespectsTerminalLock, UnsupervisedIsKept
<1>5. EndedIsNotActive
  BY <1>1, EndsStep DEF EndsAreKept, EndedIsNotActive
<1>6. QED
  BY <1>2, <1>3, <1>4, <1>5 DEF SharedInv

-----------------------------------------------------------------------------
\* By-hand operations.
LEMMA ContextOpIsHandOp ==
    ContextOp => HandOp
<1> USE DEF HandOp, storeVars
<1>1. CASE \E t \in Task, x \in Terminal, c \in {"none", "live"} : createDispatchContext(t, x, c)
  BY <1>1 DEF createDispatchContext
<1>2. CASE \E t \in Task, x \in Terminal : createDispatchContextTorn(t, x)
  BY <1>2 DEF createDispatchContextTorn
<1>3. CASE \E t \in Task, s \in TaskStatus : updateTaskStatus(t, s)
  BY <1>3 DEF updateTaskStatus
<1>4. ASSUME NEW t \in Task, updateTaskStatusTorn(t) \/ createGate(t) \/ createGateTorn(t)
      PROVE  HandOp
  BY <1>4 DEF updateTaskStatusTorn, createGate, createGateTorn
<1>5. ASSUME NEW t \in Task, resolveGate(t) \/ resolveGateTorn(t) \/ resolveGateAgain(t)
      PROVE  HandOp
  BY <1>5 DEF resolveGate, resolveGateTorn, resolveGateAgain
<1>6. CASE \E d \in Dispatch : (failDispatch(d) \/ failDispatchTorn(d)) /\ UNCHANGED gateVars
  BY <1>6 DEF failDispatch, failDispatchTorn
<1>7. QED
  BY <1>1, <1>2, <1>3, <1>4, <1>5, <1>6 DEF ContextOp

LEMMA InsertShared ==
    ASSUME SharedInv, StoreTypeOK', UNCHANGED workerVars,
           NEW t \in Task, NEW x \in Terminal, NEW c \in {"none", "live"}, insertDispatch(t, x, c)
    PROVE  SharedInv' /\ EndedIsNotActive
<1> USE DispatchFacts DEF SharedInv, AuthorityInv, workerVars
<1>0. nDispatch \in 0..MaxDispatch /\ asking \subseteq Dispatch /\ (nDispatch + 1) \notin 1..nDispatch
  BY DEF StoreTypeOK
<1>1. PICK n \in Dispatch :
      /\ n = nDispatch + 1 /\ nDispatch' = n
      /\ status[n] = "absent" /\ worker[n] = "absent" /\ n \notin asking
      /\ status' = [status EXCEPT ![n] = "dispatched"]
      /\ assignee' = [assignee EXCEPT ![n] = x]
      /\ capability' = [capability EXCEPT ![n] = c]
      /\ ~ TerminalBusy(x)
  <2> DEFINE n == nDispatch + 1
  <2>1. n \in Dispatch /\ n \notin asking
    BY <1>0 DEF insertDispatch, NextDispatch, QuestionsExist
  <2>2. status[n] = "absent" /\ worker[n] = "absent"
    BY <1>0, <2>1 DEF StoreTypeOK
  <2>3. QED
    BY <2>1, <2>2 DEF insertDispatch, NextDispatch
<1>2. \A d \in Dispatch : d # n => (Active(d)' <=> Active(d)) /\ capability'[d] = capability[d]
                                   /\ assignee'[d] = assignee[d]
  BY <1>1 DEF Active, StoreTypeOK
<1>3. Active(n)' /\ assignee'[n] = x
  BY <1>1 DEF Active, StoreTypeOK
<1>4. AuthorityInv'
  BY <1>1, <1>2, <1>3 DEF LiveCapabilityIsTrusted, SettledWorkerEndsDispatch, SettledWorker
<1>5. QuestionsExist' /\ OpenQuestionHasAuthority'
  <2>1. 1..nDispatch \subseteq 1..nDispatch'
    BY <1>0, <1>1
  <2>2. QED
    BY <1>0, <1>1, <1>2, <2>1 DEF QuestionsExist, OpenQuestionHasAuthority
<1>6. ByHandRespectsTerminalLock'
  BY <1>1, <1>2, <1>3 DEF ByHandRespectsTerminalLock, TerminalBusy
<1>7. EndedIsNotActive
  BY <1>1, <1>2 DEF EndedIsNotActive, StoreTypeOK, Dispatch
<1>8. QED
  BY <1>4, <1>5, <1>6, <1>7

\* The other operations only end dispatches, and revoke what they end.
LEMMA EndingShared ==
    ASSUME SharedInv, StoreTypeOK', nDispatch' = nDispatch, assignee' = assignee, UNCHANGED workerVars,
           \A d \in Dispatch : \/ UNCHANGED <<status[d], capability[d]>>
                               \/ ~ Active(d)' /\ capability'[d] = Revoke(capability[d])
    PROVE  SharedInv' /\ EndedIsNotActive
<1> USE DispatchFacts DEF SharedInv, AuthorityInv, workerVars
<1>1. \A d \in Dispatch : Active(d)' => Active(d) /\ capability'[d] = capability[d]
  BY DEF Active
<1>2. \A d \in Dispatch : capability'[d] = "live" => Active(d)'
  BY DEF Active, Revoke, LiveCapabilityIsTrusted
<1>3. \A d \in Dispatch : capability'[d] = "live" => capability[d] = "live"
  BY DEF Revoke
<1>4. AuthorityInv'
  BY <1>1, <1>2, <1>3 DEF LiveCapabilityIsTrusted, SettledWorkerEndsDispatch
<1>5. QuestionsExist' /\ OpenQuestionHasAuthority'
  <2>1. asking \subseteq Dispatch
    BY DEF StoreTypeOK
  <2>2. QED
    BY <1>1, <2>1 DEF QuestionsExist, OpenQuestionHasAuthority
<1>6. ByHandRespectsTerminalLock'
  BY <1>1 DEF ByHandRespectsTerminalLock
<1>7. EndedIsNotActive
  <2>1. 1..nDispatch \subseteq Dispatch
    BY DEF StoreTypeOK
  <2>2. QED
    BY <1>1, <2>1 DEF EndedIsNotActive
<1>8. QED
  BY <1>4, <1>5, <1>6, <1>7

LEMMA ByHandShared ==
    ASSUME SharedInv, StoreTypeOK', HandOp
    PROVE  SharedInv' /\ EndedIsNotActive
<1>1. CASE \E t \in Task, x \in Terminal, c \in {"none", "live"} :
             insertDispatch(t, x, c) /\ UNCHANGED workerVars
  BY <1>1, InsertShared
<1>2. ASSUME NEW t \in Task, completeActiveDispatchForTask(t), UNCHANGED workerVars
      PROVE  SharedInv' /\ EndedIsNotActive
  <2>1. \A d \in Dispatch : \/ UNCHANGED <<status[d], capability[d]>>
                            \/ ~ Active(d)' /\ capability'[d] = Revoke(capability[d])
    BY <1>2 DEF completeActiveDispatchForTask, Active
  <2>2. QED
    BY <1>2, <2>1, EndingShared DEF completeActiveDispatchForTask
<1>3. ASSUME NEW e \in Dispatch, updateFailedDispatch(e)
      PROVE  SharedInv' /\ EndedIsNotActive
  <2>1. \A d \in Dispatch : \/ UNCHANGED <<status[d], capability[d]>>
                            \/ ~ Active(d)' /\ capability'[d] = Revoke(capability[d])
    BY <1>3 DEF updateFailedDispatch, Active, SharedInv, AuthorityInv, StoreTypeOK
  <2>2. QED
    BY <1>3, <2>1, EndingShared DEF updateFailedDispatch, identityVars, workerVars
<1>4. CASE UNCHANGED <<dispatchVars, workerVars>>
  BY <1>4, EndingShared DEF dispatchVars
<1>5. QED
  BY <1>1, <1>2, <1>3, <1>4 DEF HandOp

-----------------------------------------------------------------------------
\* The steps of the specification.
CallsKept == UNCHANGED callVars \/ NewProcess

LEMMA StepCases ==
    ASSUME OrchestrationTypeOK, [OrchestrationNext]_orchestrationVars
    PROVE  \/ Supervised /\ UNCHANGED <<gateVars, injecting>>
           \/ (ContextOp \/ UNCHANGED contextVars) /\ CallsKept
<1> USE DEF CallsKept, ContextOp
<1>1. CASE UNCHANGED orchestrationVars
  BY <1>1 DEF orchestrationVars, vars, contextVars
<1>2. CASE ByHand
  <2>1. CASE \E t \in Task, x \in Terminal, inject \in BOOLEAN : DispatchCommand(t, x, inject)
    BY <2>1 DEF DispatchCommand
  <2>2. CASE \E t \in Task, s \in UpdateStatus : TaskUpdate(t, s)
    BY <2>2, UpdateAssumption DEF TaskUpdate
  <2>3. CASE \E t \in Task : GateCreate(t) \/ GateResolve(t)
    BY <2>3 DEF GateCreate, GateResolve
  <2>4. CASE \E d \in Dispatch : InjectSent(d) \/ InjectFails(d)
    BY <2>4 DEF InjectSent, InjectFails
  <2>5. QED
    BY <1>2, <2>1, <2>2, <2>3, <2>4 DEF ByHand
<1>3. CASE RestartAll
  BY <1>3 DEF RestartAll, Restart, contextVars
<1>4. CASE DiesInside
  BY <1>4 DEF DiesInside
<1>5. QED
  BY <1>1, <1>2, <1>3, <1>4 DEF OrchestrationNext

\* A prompt is typed only for a dispatch that exists.
LEMMA InjectingStep ==
    ASSUME OrchestrationTypeOK, StoreTypeOK', nDispatch' \in {nDispatch, nDispatch + 1},
           [OrchestrationNext]_orchestrationVars
    PROVE  injecting' \in SUBSET (1..nDispatch')
<1>1. nDispatch \in Int /\ 1..nDispatch \subseteq 1..nDispatch' /\ injecting \in SUBSET (1..nDispatch)
  BY DEF OrchestrationTypeOK, TypeOK, StoreTypeOK
<1>2. CASE \E t \in Task, x \in Terminal, inject \in BOOLEAN : DispatchCommand(t, x, inject)
  <2>1. injecting' \subseteq injecting \cup {nDispatch'} /\ nDispatch' \in 1..nDispatch'
    BY <1>1, <1>2 DEF DispatchCommand, createDispatchContext, insertDispatch, NextDispatch, Dispatch
  <2>2. QED
    BY <1>1, <2>1
<1>3. CASE injecting' \subseteq injecting
  BY <1>1, <1>3
<1>4. QED
  BY <1>2, <1>3 DEF OrchestrationNext, orchestrationVars, ByHand, TaskUpdate, GateCreate, GateResolve,
     InjectSent, InjectFails, RestartAll, DiesInside

OrchestrationInv ==
    /\ OrchestrationTypeOK
    /\ SharedInv
    /\ TransientStateHasOwner

LEMMA CreatesOne ==
    StoreStep => nDispatch' \in {nDispatch, nDispatch + 1}
<1> USE DEF identityVars, dispatchVars, taskVars
<1>1. CASE \E t \in Task, D \in SUBSET Task : createTask(t, D)
  BY <1>1 DEF createTask
<1>2. CASE \E t \in Task, r \in Dispatch \cup {NoDispatch}, remote \in BOOLEAN :
              createStartingWorkerDispatch(t, r, remote)
  BY <1>2 DEF createStartingWorkerDispatch, NextDispatch
<1>3. CASE \E d \in Dispatch : DispatchOp(d)
  BY <1>3, Zenon
  DEF DispatchOp, WholeOp, TornOp, prepareStartingWorkerAuthority, markWorkerDispatchReady, failWorkerStart,
     markWorkerStartUnknown, reconcileFederatedWorkerStart, beginWorkerStop, workerStopped,
     resumeFederatedWorkerForTerminalRelay, markWorkerStopUnknown, abandonWorkerDispatch,
     settleWorkerReport, failDispatch, failDispatchTorn, updateFailedDispatch, createQuestion, registerFederatedQuestion,
     answerQuestion
<1>4. QED
  BY <1>1, <1>2, <1>3 DEF StoreStep

\* The store, whatever the step is.
LEMMA SharedStep ==
    ASSUME OrchestrationInv, [OrchestrationNext]_orchestrationVars
    PROVE  /\ StoreTypeOK' /\ GateTypeOK' /\ nDispatch' \in {nDispatch, nDispatch + 1}
           /\ SharedInv' /\ EndedIsNotActive
<1> DEFINE Goal == /\ StoreTypeOK' /\ GateTypeOK' /\ nDispatch' \in {nDispatch, nDispatch + 1}
                   /\ SharedInv' /\ EndedIsNotActive
<1>0. StoreTypeOK /\ GateTypeOK /\ SharedInv
  BY DEF OrchestrationInv, OrchestrationTypeOK, TypeOK
<1>1. CASE UNCHANGED <<storeVars, gateVars>>
  <2>1. StoreTypeOK' /\ GateTypeOK' /\ nDispatch' = nDispatch
    BY <1>0, <1>1 DEF storeVars, taskVars, dispatchVars, workerVars, StoreTypeOK, gateVars, GateTypeOK
  <2>2. HandOp
    BY <1>1 DEF HandOp, storeVars
  <2>3. QED
    BY <1>0, <2>1, <2>2, ByHandShared
<1>2. CASE StoreStep /\ UNCHANGED gateVars
  <2>1. SharedInv' /\ EndedIsNotActive /\ nDispatch' \in {nDispatch, nDispatch + 1}
    BY <1>0, <1>2, SupervisedShared, CreatesOne
  <2>2. StoreTypeOK' /\ GateTypeOK'
    BY <1>0, <1>2, TypeStep DEF gateVars, GateTypeOK
  <2>3. QED
    BY <2>1, <2>2
<1>3. CASE ContextOp
  <2>1. StoreTypeOK' /\ GateTypeOK' /\ nDispatch' \in {nDispatch, nDispatch + 1}
    BY <1>0, <1>3, ContextTypeStep
  <2>2. SharedInv' /\ EndedIsNotActive
    BY <1>0, <1>3, <2>1, ContextOpIsHandOp, ByHandShared
  <2>3. QED
    BY <2>1, <2>2
<1>4. QED
  BY <1>1, <1>2, <1>3, StepCases, SupervisedIsStoreStep DEF contextVars, OrchestrationInv

\* By-hand operations leave the workers and the requests alone; a new process
\* owns none.
LEMMA OwnersStep ==
    ASSUME OrchestrationInv, StoreTypeOK', nDispatch' \in {nDispatch, nDispatch + 1},
           [OrchestrationNext]_orchestrationVars
    PROVE  CallTypeOK' /\ TransientStateHasOwner'
<1>0. StoreTypeOK /\ CallTypeOK /\ TransientStateHasOwner
  BY DEF OrchestrationInv, OrchestrationTypeOK, TypeOK, CallTypeOK
<1>1. CASE Supervised
  BY <1>0, <1>1, SupervisedCallStep
<1>2. CASE NewProcess
  BY <1>2, NewProcessCalls
<1>3. CASE (ContextOp \/ UNCHANGED contextVars) /\ UNCHANGED callVars
  <2>1. UNCHANGED worker
    BY <1>3, ContextOpIsHandOp
       DEF HandOp, workerVars, updateFailedDispatch, identityVars, contextVars, storeVars
  <2>2. nDispatch \in Int
    BY <1>0 DEF StoreTypeOK
  <2>3. QED
    BY <1>0, <1>3, <2>1, <2>2 DEF callVars, CallTypeOK, TransientStateHasOwner
<1>4. QED
  BY <1>1, <1>2, <1>3, StepCases DEF CallsKept, OrchestrationInv

LEMMA OrchestrationStep ==
    ASSUME OrchestrationInv, [OrchestrationNext]_orchestrationVars
    PROVE  OrchestrationInv' /\ EndedIsNotActive
<1>1. /\ StoreTypeOK' /\ GateTypeOK' /\ nDispatch' \in {nDispatch, nDispatch + 1}
      /\ SharedInv' /\ EndedIsNotActive
  BY SharedStep
<1>2. CallTypeOK' /\ TransientStateHasOwner'
  BY <1>1, OwnersStep
<1>3. injecting' \in SUBSET (1..nDispatch')
  BY <1>1, InjectingStep DEF OrchestrationInv
<1>4. QED
  BY <1>1, <1>2, <1>3 DEF OrchestrationInv, OrchestrationTypeOK, TypeOK, CallTypeOK

LEMMA OrchestrationInvInit ==
    OrchestrationInit => OrchestrationInv
<1> SUFFICES ASSUME OrchestrationInit
             PROVE  OrchestrationInv
    OBVIOUS
<1>1. StoreInv
  BY StoreInvInit DEF OrchestrationInit
<1>2. AuthorityInv
  BY <1>1 DEF StoreInv
<1>3. CallTypeOK /\ GateTypeOK /\ injecting \in SUBSET (1..nDispatch)
  BY DEF OrchestrationInit, Init, GateInit, GateTypeOK, StoreInit, CallTypeOK, StartStage
<1>4. QuestionsExist /\ OpenQuestionHasAuthority /\ ByHandRespectsTerminalLock /\ TransientStateHasOwner
  BY DEF OrchestrationInit, Init, StoreInit, QuestionsExist, OpenQuestionHasAuthority, Active,
         ByHandRespectsTerminalLock, TransientStateHasOwner
<1>5. QED
  BY <1>2, <1>3, <1>4 DEF OrchestrationInv, SharedInv, AuthorityInv, OrchestrationTypeOK, TypeOK, CallTypeOK

\* The invariant of the whole system: whatever supervised workers, by-hand
\* commands, restarts and torn operations do, in any order.
THEOREM OrchestrationInvariant == OrchestrationSpec => []OrchestrationInv
<1>1. OrchestrationInit => OrchestrationInv
  BY OrchestrationInvInit
<1>2. OrchestrationInv /\ [OrchestrationNext]_orchestrationVars => OrchestrationInv'
  BY OrchestrationStep
<1>3. QED
  BY <1>1, <1>2, PTL DEF OrchestrationSpec

\* Every variable keeps its type.
THEOREM OrchestrationTypeCorrect == OrchestrationSpec => []OrchestrationTypeOK
<1>1. OrchestrationInv => OrchestrationTypeOK
  BY DEF OrchestrationInv, SharedInv, AuthorityInv
<1>2. QED
  BY <1>1, OrchestrationInvariant, PTL

\* Whoever ends a dispatch, by whatever path, even a torn one, revokes its
\* capability; so do a stop and an unknown start.
THEOREM CapabilityTheorem == OrchestrationSpec => []LiveCapabilityIsTrusted
<1>1. OrchestrationInv => LiveCapabilityIsTrusted
  BY DEF OrchestrationInv, SharedInv, AuthorityInv
<1>2. QED
  BY <1>1, OrchestrationInvariant, PTL

\* A worker the store considers ended has an ended dispatch.
THEOREM SettledTheorem == OrchestrationSpec => []SettledWorkerEndsDispatch
<1>1. OrchestrationInv => SettledWorkerEndsDispatch
  BY DEF OrchestrationInv, SharedInv, AuthorityInv
<1>2. QED
  BY <1>1, OrchestrationInvariant, PTL

\* A worker is starting or stopping only while a request of this process serves
\* it, or when an earlier process left it so.
THEOREM OwnerTheorem == OrchestrationSpec => []TransientStateHasOwner
<1>1. OrchestrationInv => TransientStateHasOwner
  BY DEF OrchestrationInv, SharedInv, AuthorityInv
<1>2. QED
  BY <1>1, OrchestrationInvariant, PTL

\* An active local dispatch with an open question has not lost its authority.
THEOREM QuestionTheorem == OrchestrationSpec => []OpenQuestionHasAuthority
<1>1. OrchestrationInv => OpenQuestionHasAuthority
  BY DEF OrchestrationInv, SharedInv, AuthorityInv
<1>2. QED
  BY <1>1, OrchestrationInvariant, PTL

\* A dispatch command never takes a terminal that has an active dispatch.
THEOREM TerminalLockTheorem == OrchestrationSpec => []ByHandRespectsTerminalLock
<1>1. OrchestrationInv => ByHandRespectsTerminalLock
  BY DEF OrchestrationInv, SharedInv, AuthorityInv
<1>2. QED
  BY <1>1, OrchestrationInvariant, PTL

\* No path makes an ended dispatch active again.
THEOREM NeverActiveAgainTheorem == OrchestrationSpec => NeverActiveAgain
<1>1. OrchestrationInv /\ [OrchestrationNext]_orchestrationVars => [EndedIsNotActive]_orchestrationVars
  BY OrchestrationStep
<1>2. [EndedIsNotActive]_orchestrationVars
        => [\A d \in 1..nDispatch : ~ Active(d) => ~ Active(d)']_orchestrationVars
  BY DEF EndedIsNotActive
<1>3. QED
  BY <1>1, <1>2, OrchestrationInvariant, PTL DEF OrchestrationSpec, NeverActiveAgain
=============================================================================
