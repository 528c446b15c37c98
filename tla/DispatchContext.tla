--------------------------- MODULE DispatchContext ---------------------------
(***************************************************************************)
(* The store operations of dispatches without a supervised worker: the     *)
(* context a dispatch command or the coordinator creates, task-update, and *)
(* the decision gates that pause a task                                    *)
(* (runtime/orchestration/orchestration-db-layer-6.ts, -14.ts, -15.ts).    *)
(*                                                                         *)
(* Unlike the supervised operations these are not transactions: each is a  *)
(* few statements that commit one by one, so a process that dies inside    *)
(* one leaves the first statement's effect alone.  Such prefixes are the   *)
(* operators whose names end in "Torn".                                    *)
(***************************************************************************)
EXTENDS TaskDispatch, FiniteSetsExt

VARIABLES openGates,    \* decision_gates of a task, status "pending"
          closedGates   \* decision_gates of a task, status "resolved"

gateVars == <<openGates, closedGates>>
contextVars == <<storeVars, gateVars>>

\* Decision gates created.
GateRows == MapThenSumSet(LAMBDA t : openGates[t] + closedGates[t], Task)

GateTypeOK == /\ openGates \in [Task -> Nat]
              /\ closedGates \in [Task -> Nat]

GateInit == /\ openGates = [t \in Task |-> 0]
            /\ closedGates = [t \in Task |-> 0]

-----------------------------------------------------------------------------
\* Mutant: the count starts again.
priorFailuresForgotten(t) == 0

\* MAX(failure_count) over the task's dispatches.
priorFailures(t) == Max({0} \cup {failures[d] : d \in {e \in Dispatch : dispatchTask[e] = t}})

\* Mutant: a terminal's other dispatch is not looked for.
insertDispatchUnlocked(t, x, c) ==
    LET d == NextDispatch IN
    /\ d \in Dispatch
    /\ taskStatus[t] = "ready"
    /\ nDispatch' = d
    /\ dispatchTask' = [dispatchTask EXCEPT ![d] = t]
    /\ status' = [status EXCEPT ![d] = "dispatched"]
    /\ failures' = [failures EXCEPT ![d] = priorFailures(t)]
    /\ assignee' = [assignee EXCEPT ![d] = x]
    /\ capability' = [capability EXCEPT ![d] = c]

\* The INSERT of createDispatchContext.
insertDispatch(t, x, c) ==
    LET d == NextDispatch IN
    /\ d \in Dispatch
    /\ taskStatus[t] = "ready"
    /\ ~ TerminalBusy(x)
    /\ nDispatch' = d
    /\ dispatchTask' = [dispatchTask EXCEPT ![d] = t]
    /\ status' = [status EXCEPT ![d] = "dispatched"]
    /\ failures' = [failures EXCEPT ![d] = priorFailures(t)]
    /\ assignee' = [assignee EXCEPT ![d] = x]
    /\ capability' = [capability EXCEPT ![d] = c]

\* createDispatchContext, with the capability c minted right after it, if any.
createDispatchContext(t, x, c) ==
    /\ insertDispatch(t, x, c)
    /\ taskStatus' = [taskStatus EXCEPT ![t] = "dispatched"]
    /\ UNCHANGED <<deps, workerVars, gateVars>>

\* The process dies before the task's UPDATE.
createDispatchContextTorn(t, x) ==
    /\ insertDispatch(t, x, "none")
    /\ UNCHANGED <<taskVars, workerVars, gateVars>>

\* The last active dispatch of t, if any.
LastActive(t) ==
    {d \in Dispatch : /\ dispatchTask[d] = t /\ Active(d)
                      /\ \A e \in Dispatch : dispatchTask[e] = t /\ Active(e) => e <= d}

completeActiveDispatchForTask(t) ==
    /\ status' = [d \in Dispatch |-> IF d \in LastActive(t) THEN "completed" ELSE status[d]]
    /\ capability' = [d \in Dispatch |->
                        IF d \in LastActive(t) THEN Revoke(capability[d]) ELSE capability[d]]
    /\ UNCHANGED <<nDispatch, dispatchTask, failures, assignee>>

updateTaskStatus(t, s) ==
    LET ts == [taskStatus EXCEPT ![t] = s] IN
    /\ taskStatus[t] # "absent"
    /\ IF s = "completed"
       THEN /\ taskStatus' = promoteReadyTasks(ts, t)
            /\ completeActiveDispatchForTask(t)
       ELSE taskStatus' = ts /\ UNCHANGED dispatchVars
    /\ UNCHANGED <<deps, workerVars, gateVars>>

\* The process dies when only some children are promoted; the dispatch goes on.
updateTaskStatusTorn(t) ==
    LET ts == [taskStatus EXCEPT ![t] = "completed"] IN
    /\ taskStatus[t] # "absent"
    /\ \E C \in SUBSET Task :
          taskStatus' = [c \in Task |-> IF c \in C THEN promoteReadyTasks(ts, t)[c] ELSE ts[c]]
    /\ UNCHANGED <<deps, dispatchVars, workerVars, gateVars>>

-----------------------------------------------------------------------------
\* Gates

\* Whatever the task's status is; its dispatch counts as completed.
createGate(t) ==
    /\ taskStatus[t] # "absent"
    /\ openGates' = [openGates EXCEPT ![t] = @ + 1]
    /\ completeActiveDispatchForTask(t)
    /\ taskStatus' = [taskStatus EXCEPT ![t] = "blocked"]
    /\ UNCHANGED <<deps, workerVars, closedGates>>

\* The process dies before the task's UPDATE, or even before the dispatch's.
createGateTorn(t) ==
    /\ taskStatus[t] # "absent"
    /\ openGates' = [openGates EXCEPT ![t] = @ + 1]
    /\ completeActiveDispatchForTask(t) \/ UNCHANGED dispatchVars
    /\ UNCHANGED <<taskVars, workerVars, closedGates>>

resolveGate(t) ==
    /\ openGates[t] > 0
    /\ openGates' = [openGates EXCEPT ![t] = @ - 1]
    /\ closedGates' = [closedGates EXCEPT ![t] = @ + 1]
    /\ taskStatus' = [taskStatus EXCEPT ![t] = "ready"]
    /\ UNCHANGED <<deps, dispatchVars, workerVars>>

\* The process dies before the task's UPDATE.
resolveGateTorn(t) ==
    /\ openGates[t] > 0
    /\ openGates' = [openGates EXCEPT ![t] = @ - 1]
    /\ closedGates' = [closedGates EXCEPT ![t] = @ + 1]
    /\ UNCHANGED storeVars

\* A gate that is resolved already is resolved again.
resolveGateAgain(t) ==
    /\ closedGates[t] > 0
    /\ taskStatus' = [taskStatus EXCEPT ![t] = "ready"]
    /\ UNCHANGED <<deps, dispatchVars, workerVars, gateVars>>
=============================================================================
