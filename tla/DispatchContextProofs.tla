----------------------- MODULE DispatchContextProofs -----------------------
(***************************************************************************)
(* Lemmas about the operations of DispatchContext, whole and torn: what    *)
(* they keep of the store's types, for every value of the constants.       *)
(***************************************************************************)
EXTENDS DispatchContext, TLAPS

ContextOp ==
    \/ \E t \in Task, x \in Terminal, c \in {"none", "live"} : createDispatchContext(t, x, c)
    \/ \E t \in Task, x \in Terminal : createDispatchContextTorn(t, x)
    \/ \E t \in Task, s \in TaskStatus : updateTaskStatus(t, s)
    \/ \E t \in Task : \/ updateTaskStatusTorn(t)
                       \/ createGate(t) \/ createGateTorn(t)
                       \/ resolveGate(t) \/ resolveGateTorn(t) \/ resolveGateAgain(t)
    \/ \E d \in Dispatch : (failDispatch(d) \/ failDispatchTorn(d)) /\ UNCHANGED gateVars

LEMMA DispatchIds == \A d \in Dispatch : d \in Int
BY StoreAssumption DEF Dispatch, StoreAssumption

-----------------------------------------------------------------------------
\* The most failures of the dispatches in D, stated for any failure counts f so
\* that it holds of the next state's as well.
LEMMA MostFailures ==
    ASSUME NEW D \in SUBSET Dispatch, NEW f \in [Dispatch -> 0..BreakerThreshold]
    PROVE  LET m == Max({0} \cup {f[d] : d \in D})
           IN  /\ m \in 0..BreakerThreshold
               /\ \A d \in D : f[d] <= m
               /\ m = 0 \/ \E d \in D : m = f[d]
<1> DEFINE S == {0} \cup {f[d] : d \in D}
           m == Max(S)
<1>1. S \subseteq 0..3 /\ 0 \in S
  BY DEF BreakerThreshold
<1>2. \A n \in S : n = 0 \/ \E d \in D : n = f[d]
  OBVIOUS
<1>3. \A d \in D : f[d] \in S
  OBVIOUS
<1>4. m = Max(S)
  OBVIOUS
<1> HIDE DEF S, m
<1>5. \E k \in S : \A n \in S : k >= n
  <2>1. CASE 3 \in S
    BY <1>1, <2>1
  <2>2. CASE 3 \notin S /\ 2 \in S
    BY <1>1, <2>2
  <2>3. CASE 3 \notin S /\ 2 \notin S /\ 1 \in S
    BY <1>1, <2>3
  <2>4. CASE 3 \notin S /\ 2 \notin S /\ 1 \notin S
    BY <1>1, <2>4
  <2>5. QED
    BY <2>1, <2>2, <2>3, <2>4
<1>6. m \in S /\ \A n \in S : m >= n
  BY <1>4, <1>5 DEF Max
<1>7. \A d \in D : f[d] <= m
  <2>1. \A n \in S : n \in Int
    BY <1>1
  <2>2. QED
    BY <1>3, <1>6, <2>1
<1>8. /\ m \in 0..BreakerThreshold
      /\ m = 0 \/ \E d \in D : m = f[d]
  BY <1>1, <1>2, <1>6 DEF BreakerThreshold
<1>9. QED
  BY <1>7, <1>8 DEF m, S

LEMMA PriorFailuresType ==
    ASSUME StoreTypeOK, NEW t
    PROVE  priorFailures(t) \in 0..BreakerThreshold
<1> DEFINE D == {e \in Dispatch : dispatchTask[e] = t}
<1>1. D \in SUBSET Dispatch /\ failures \in [Dispatch -> 0..BreakerThreshold]
  BY DEF StoreTypeOK
<1>2. priorFailures(t) = Max({0} \cup {failures[d] : d \in D})
  BY DEF priorFailures
<1> HIDE DEF D
<1>3. QED
  BY <1>1, <1>2, MostFailures, Zenon

LEMMA InsertType ==
    ASSUME StoreTypeOK, NEW t \in Task, NEW x \in Terminal, NEW c \in {"none", "live"},
           insertDispatch(t, x, c), UNCHANGED <<deps, workerVars>>,
           taskStatus' \in [Task -> TaskStatus \cup {"absent"}]
    PROVE  StoreTypeOK' /\ nDispatch' = nDispatch + 1
<1> USE StoreAssumption, DispatchIds DEF StoreAssumption, StoreTypeOK, insertDispatch, NextDispatch,
        workerVars, Dispatch
<1>1. failures' \in [Dispatch -> 0..BreakerThreshold]
  BY PriorFailuresType
<1>2. status' \in [Dispatch -> DispatchStatus \cup {"absent"}]
  BY DEF DispatchStatus
<1>3. capability' \in [Dispatch -> Capability]
  BY DEF Capability
<1>4. /\ \A d \in Dispatch : (d > nDispatch') <=> (status'[d] = "absent")
      /\ \A d \in Dispatch : (d > nDispatch') <=> (dispatchTask'[d] = NoTask)
      /\ \A d \in Dispatch : d > nDispatch' => worker'[d] = "absent"
  OBVIOUS
<1>5. QED
  BY <1>1, <1>2, <1>3, <1>4

LEMMA CompleteType ==
    ASSUME StoreTypeOK, NEW t, completeActiveDispatchForTask(t), UNCHANGED <<deps, workerVars>>,
           taskStatus' \in [Task -> TaskStatus \cup {"absent"}]
    PROVE  StoreTypeOK' /\ nDispatch' = nDispatch
<1> USE DispatchIds DEF StoreTypeOK, completeActiveDispatchForTask, workerVars
<1>1. \A d \in LastActive(t) : status[d] # "absent"
  BY DEF LastActive, Active
<1>2. QED
  BY <1>1 DEF DispatchStatus, Capability, Revoke

\* Every operation keeps the types, and creates at most one dispatch.
LEMMA ContextTypeStep ==
    ASSUME StoreTypeOK, GateTypeOK, ContextOp
    PROVE  StoreTypeOK' /\ GateTypeOK' /\ nDispatch' \in {nDispatch, nDispatch + 1}
<1> DEFINE Goal == StoreTypeOK' /\ GateTypeOK' /\ nDispatch' \in {nDispatch, nDispatch + 1}
           Statuses == [Task -> TaskStatus \cup {"absent"}]
<1> USE DEF taskVars, dispatchVars, workerVars, gateVars, storeVars, GateTypeOK
<1>0. taskStatus \in Statuses
  BY DEF StoreTypeOK
<1>1. ASSUME NEW t \in Task, NEW x \in Terminal, NEW c \in {"none", "live"},
             createDispatchContext(t, x, c)
      PROVE  Goal
  <2>1. taskStatus' \in Statuses
    BY <1>0, <1>1 DEF createDispatchContext, TaskStatus
  <2>2. QED
    BY <1>1, <2>1, InsertType DEF createDispatchContext
<1>2. ASSUME NEW t \in Task, NEW x \in Terminal, createDispatchContextTorn(t, x)
      PROVE  Goal
  BY <1>0, <1>2, InsertType DEF createDispatchContextTorn
<1>3. ASSUME NEW t \in Task, NEW s \in TaskStatus, updateTaskStatus(t, s)
      PROVE  Goal
  <2>1. taskStatus' \in Statuses
    BY <1>0, <1>3 DEF updateTaskStatus, promoteReadyTasks, TaskStatus
  <2>2. CASE s = "completed"
    BY <1>3, <2>1, <2>2, CompleteType DEF updateTaskStatus
  <2>3. CASE s # "completed"
    BY <1>3, <2>1, <2>3 DEF updateTaskStatus, StoreTypeOK
  <2>4. QED
    BY <2>2, <2>3
<1>4. ASSUME NEW t \in Task, updateTaskStatusTorn(t)
      PROVE  Goal
  <2>1. taskStatus' \in Statuses
    BY <1>0, <1>4 DEF updateTaskStatusTorn, promoteReadyTasks, TaskStatus
  <2>2. QED
    BY <1>4, <2>1 DEF updateTaskStatusTorn, StoreTypeOK
<1>5. ASSUME NEW t \in Task, createGate(t) \/ createGateTorn(t)
      PROVE  Goal
  <2>1. taskStatus' \in Statuses /\ openGates' \in [Task -> Nat] /\ closedGates' \in [Task -> Nat]
    BY <1>0, <1>5 DEF createGate, createGateTorn, TaskStatus
  <2>2. CASE completeActiveDispatchForTask(t)
    BY <1>5, <2>1, <2>2, CompleteType DEF createGate, createGateTorn
  <2>3. CASE UNCHANGED dispatchVars
    BY <1>5, <2>1, <2>3 DEF createGate, createGateTorn, StoreTypeOK
  <2>4. QED
    BY <1>5, <2>2, <2>3 DEF createGate, createGateTorn
<1>6. ASSUME NEW t \in Task, resolveGate(t) \/ resolveGateTorn(t) \/ resolveGateAgain(t)
      PROVE  Goal
  BY <1>6 DEF resolveGate, resolveGateTorn, resolveGateAgain, StoreTypeOK, TaskStatus
<1>7. ASSUME NEW d \in Dispatch, failDispatch(d) \/ failDispatchTorn(d), UNCHANGED gateVars
      PROVE  Goal
  <2>1. failures' \in [Dispatch -> 0..BreakerThreshold]
    BY <1>7 DEF failDispatch, failDispatchTorn, updateFailedDispatch, StoreTypeOK, BreakerThreshold
  <2>2. taskStatus' \in Statuses
    BY <1>0, <1>7 DEF failDispatch, failDispatchTorn, TaskStatus
  <2>3. QED
    BY <1>7, <2>1, <2>2 DEF failDispatch, failDispatchTorn, updateFailedDispatch, StoreTypeOK, Revoke,
                            DispatchStatus, Capability, identityVars
<1>8. QED
  BY <1>1, <1>2, <1>3, <1>4, <1>5, <1>6, <1>7 DEF ContextOp
=============================================================================
