---------------------------- MODULE TaskDispatch ----------------------------
(***************************************************************************)
(* The orchestration store of the Yiru daemon: the tasks of a run, the     *)
(* dispatches that lease a task to an agent, the supervised worker behind  *)
(* a dispatch, and the questions a worker asked                            *)
(* (runtime/orchestration/orchestration-db-layer-6.ts to -15.ts).          *)
(*                                                                         *)
(* One operator per database operation.  An operator is an action over all *)
(* the store's variables: its guard is the condition under which the code  *)
(* writes; a call that only throws or returns leaves the store as it was   *)
(* and is not an action here.  The modules that extend this one say who    *)
(* calls which operation, and when.                                        *)
(*                                                                         *)
(* Left out: texts, timestamps, paths, setup evidence, messages.  A        *)
(* terminal stands for a pane with its handle and process incarnation.     *)
(***************************************************************************)
EXTENDS Integers, FiniteSets

CONSTANTS Task,         \* task ids
          Terminal,     \* agent terminals of this daemon
          NoTask,       \* the task of a dispatch that does not exist yet
          NoTerminal,   \* no assignee recorded
          MaxDispatch   \* bound: dispatches created in one behaviour

ASSUME StoreAssumption == /\ NoTask \notin Task
                          /\ NoTerminal \notin Terminal
                          /\ MaxDispatch \in Nat

\* Dispatch ids in creation (rowid) order; the code's ids are random.
Dispatch == 1..MaxDispatch
NoDispatch == 0

VARIABLES taskStatus,    \* tasks.status, or "absent" before task-create
          deps,          \* tasks.deps
          nDispatch,     \* rows in dispatch_contexts
          dispatchTask,  \* dispatch_contexts.task_id
          status,        \* dispatch_contexts.status
          failures,      \* dispatch_contexts.failure_count
          assignee,      \* assignee_handle with its pane and incarnation
          capability,    \* capability_hash and capability_revoked_at
          worker,        \* worker_dispatches.state, "absent" without a row
          federated,     \* dispatches with a row in federated_dispatches
          asking         \* dispatches with a pending question_threads row

taskVars == <<taskStatus, deps>>
dispatchVars == <<nDispatch, dispatchTask, status, failures, assignee, capability>>
workerVars == <<worker, federated, asking>>
storeVars == <<taskVars, dispatchVars, workerVars>>

\* Fixed once a task or dispatch exists.
identityVars == <<deps, nDispatch, dispatchTask, federated>>

TaskStatus == {"pending", "ready", "dispatched", "completed", "failed", "blocked"}
DispatchStatus == {"pending", "dispatched", "completed", "failed", "circuit_broken"}
Capability == {"none", "live", "revoked"}
WorkerState == {"starting", "ready", "start_unknown", "succeeded", "failed",
                "stopping", "stop_unknown", "stopped", "abandoned"}
SettledWorker == {"succeeded", "failed", "stopped", "abandoned"}

BreakerThreshold == 3

StoreTypeOK ==
    /\ taskStatus \in [Task -> TaskStatus \cup {"absent"}]
    /\ deps \in [Task -> SUBSET Task]
    /\ nDispatch \in 0..MaxDispatch
    /\ dispatchTask \in [Dispatch -> Task \cup {NoTask}]
    /\ status \in [Dispatch -> DispatchStatus \cup {"absent"}]
    /\ failures \in [Dispatch -> 0..BreakerThreshold]
    /\ assignee \in [Dispatch -> Terminal \cup {NoTerminal}]
    /\ capability \in [Dispatch -> Capability]
    /\ worker \in [Dispatch -> WorkerState \cup {"absent"}]
    /\ federated \in SUBSET Dispatch
    /\ asking \in SUBSET Dispatch
    /\ \A d \in Dispatch : (d > nDispatch) <=> (status[d] = "absent")
    /\ \A d \in Dispatch : (d > nDispatch) <=> (dispatchTask[d] = NoTask)
    /\ \A d \in Dispatch : d > nDispatch => worker[d] = "absent"

StoreInit ==
    /\ taskStatus = [t \in Task |-> "absent"]
    /\ deps = [t \in Task |-> {}]
    /\ nDispatch = 0
    /\ dispatchTask = [d \in Dispatch |-> NoTask]
    /\ status = [d \in Dispatch |-> "absent"]
    /\ failures = [d \in Dispatch |-> 0]
    /\ assignee = [d \in Dispatch |-> NoTerminal]
    /\ capability = [d \in Dispatch |-> "none"]
    /\ worker = [d \in Dispatch |-> "absent"]
    /\ federated = {}
    /\ asking = {}

-----------------------------------------------------------------------------
\* Queries

Active(d) == status[d] \in {"pending", "dispatched"}

\* getDispatchContext(task) returns d: the last dispatch created for its task.
IsLatest(d) == \A e \in Dispatch : dispatchTask[e] = dispatchTask[d] => e <= d

\* findActiveDispatchForAssignee finds one.
TerminalBusy(x) == \E d \in Dispatch : assignee[d] = x /\ Active(d)

\* Mutant: the capability is not revoked.
RevokeForgotten(c) == c

\* COALESCE(capability_revoked_at, now): a revocation is never taken back here.
Revoke(c) == IF c = "live" THEN "revoked" ELSE c

\* Task statuses after t completed: pending children whose dependencies are
\* now all completed become ready.
promoteReadyTasks(ts, t) ==
    [c \in Task |-> IF /\ ts[c] = "pending"
                       /\ t \in deps[c]
                       /\ \A p \in deps[c] : ts[p] = "completed"
                    THEN "ready" ELSE ts[c]]

-----------------------------------------------------------------------------
\* Tasks

\* Mutant: a task is ready whatever it depends on.
createTaskAlwaysReady(t, D) ==
    /\ taskStatus[t] = "absent"
    /\ \A p \in D : taskStatus[p] # "absent"
    /\ taskStatus' = [taskStatus EXCEPT ![t] = "ready"]
    /\ deps' = [deps EXCEPT ![t] = D]
    /\ UNCHANGED <<dispatchVars, workerVars>>

createTask(t, D) ==
    /\ taskStatus[t] = "absent"
    /\ \A p \in D : taskStatus[p] # "absent"
    /\ taskStatus' = [taskStatus EXCEPT ![t] = IF D = {} THEN "ready" ELSE "pending"]
    /\ deps' = [deps EXCEPT ![t] = D]
    /\ UNCHANGED <<dispatchVars, workerVars>>

-----------------------------------------------------------------------------
\* Supervised dispatches: start

\* Mutant: a retry ignores the state of the worker it retries.
StartableFromAnyWorker(t, retryOf) ==
    \/ retryOf = NoDispatch /\ taskStatus[t] = "ready"
    \/ /\ retryOf \in Dispatch
       /\ dispatchTask[retryOf] = t
       /\ IsLatest(retryOf)
       /\ taskStatus[t] \in {"failed", "blocked"}

\* A first start needs a ready task; a retry names the task's last dispatch,
\* whose worker must have ended without success.
Startable(t, retryOf) ==
    \/ retryOf = NoDispatch /\ taskStatus[t] = "ready"
    \/ /\ retryOf \in Dispatch
       /\ dispatchTask[retryOf] = t
       /\ IsLatest(retryOf)
       /\ worker[retryOf] \in {"failed", "stopped", "abandoned"}
       /\ taskStatus[t] \in {"failed", "blocked"}

\* Mutant: an id is skipped.
NextDispatchSkips == nDispatch + 2

NextDispatch == nDispatch + 1

createStartingWorkerDispatch(t, retryOf, remote) ==
    LET d == NextDispatch IN
    /\ d \in Dispatch
    /\ Startable(t, retryOf)
    /\ nDispatch' = d
    /\ dispatchTask' = [dispatchTask EXCEPT ![d] = t]
    /\ status' = [status EXCEPT ![d] = "pending"]
    /\ worker' = [worker EXCEPT ![d] = "starting"]
    /\ federated' = IF remote THEN federated \cup {d} ELSE federated
    /\ taskStatus' = [taskStatus EXCEPT ![t] = "dispatched"]
    /\ UNCHANGED <<deps, failures, assignee, capability, asking>>

prepareStartingWorkerAuthority(d, x) ==
    /\ status[d] = "pending"
    /\ worker[d] = "starting"
    /\ assignee' = [assignee EXCEPT ![d] = x]
    /\ capability' = [capability EXCEPT ![d] = "live"]
    /\ UNCHANGED <<identityVars, taskStatus, status, failures, worker, asking>>

\* Mutant: only the worker's state is checked.
markWorkerDispatchReadyUnchecked(d) ==
    /\ worker[d] = "starting"
    /\ status' = [status EXCEPT ![d] = "dispatched"]
    /\ worker' = [worker EXCEPT ![d] = "ready"]
    /\ UNCHANGED <<identityVars, taskStatus, failures, assignee, capability, asking>>

markWorkerDispatchReady(d) ==
    /\ status[d] = "pending"
    /\ worker[d] = "starting"
    /\ status' = [status EXCEPT ![d] = "dispatched"]
    /\ worker' = [worker EXCEPT ![d] = "ready"]
    /\ UNCHANGED <<identityVars, taskStatus, failures, assignee, capability, asking>>

failWorkerStart(d) ==
    /\ worker[d] = "starting"
    /\ status' = [status EXCEPT ![d] = "failed"]
    /\ capability' = [capability EXCEPT ![d] = Revoke(@)]
    /\ worker' = [worker EXCEPT ![d] = "failed"]
    /\ taskStatus' = [taskStatus EXCEPT ![dispatchTask[d]] = "failed"]
    /\ asking' = asking \ {d}
    /\ UNCHANGED <<identityVars, failures, assignee>>

markWorkerStartUnknown(d) ==
    /\ worker[d] = "starting"
    /\ worker' = [worker EXCEPT ![d] = "start_unknown"]
    /\ capability' = [capability EXCEPT ![d] = Revoke(@)]
    /\ taskStatus' = [taskStatus EXCEPT ![dispatchTask[d]] = "blocked"]
    /\ asking' = asking \ {d}
    /\ UNCHANGED <<identityVars, status, failures, assignee>>

\* The worker host reported a state for a dispatch whose start is open here.
reconcileFederatedWorkerStart(d, reported) ==
    /\ d \in federated
    /\ worker[d] \in {"starting", "start_unknown"}
    /\ reported \in {"ready", "failed", "stopped"}
    /\ worker' = [worker EXCEPT ![d] = reported]
    /\ IF reported = "ready"
       THEN /\ status' = [status EXCEPT ![d] = IF @ = "pending" THEN "dispatched" ELSE @]
            /\ taskStatus' = [taskStatus EXCEPT ![dispatchTask[d]] =
                                IF @ = "blocked" THEN "dispatched" ELSE @]
            /\ UNCHANGED <<capability, asking>>
       ELSE /\ status' = [status EXCEPT ![d] = IF Active(d) THEN "failed" ELSE @]
            /\ capability' = [capability EXCEPT ![d] = IF Active(d) THEN Revoke(@) ELSE @]
            /\ taskStatus' = [taskStatus EXCEPT ![dispatchTask[d]] =
                                IF @ \in {"blocked", "dispatched"} THEN "failed" ELSE @]
            /\ asking' = asking \ {d}
    /\ UNCHANGED <<identityVars, failures, assignee>>

-----------------------------------------------------------------------------
\* Supervised dispatches: stop and abandon

\* Mutant: the dispatch's questions stay open.
beginWorkerStopKeepsQuestions(d) ==
    /\ worker[d] \in {"ready", "start_unknown"}
    /\ worker' = [worker EXCEPT ![d] = "stopping"]
    /\ capability' = [capability EXCEPT ![d] = Revoke(@)]
    /\ taskStatus' = [taskStatus EXCEPT ![dispatchTask[d]] = "blocked"]
    /\ UNCHANGED <<identityVars, status, failures, assignee, asking>>

beginWorkerStop(d) ==
    /\ worker[d] \in {"ready", "start_unknown"}
    /\ worker' = [worker EXCEPT ![d] = "stopping"]
    /\ capability' = [capability EXCEPT ![d] = Revoke(@)]
    /\ taskStatus' = [taskStatus EXCEPT ![dispatchTask[d]] = "blocked"]
    /\ asking' = asking \ {d}
    /\ UNCHANGED <<identityVars, status, failures, assignee>>

\* Mutant: the dispatch is left as it was.
workerStoppedOnly(d, from) ==
    /\ worker[d] \in from
    /\ worker' = [worker EXCEPT ![d] = "stopped"]
    /\ UNCHANGED <<identityVars, status, taskStatus, failures, assignee, capability, asking>>

\* The rows a confirmed stop writes, from any of the given worker states.
workerStopped(d, from) ==
    /\ worker[d] \in from
    /\ worker' = [worker EXCEPT ![d] = "stopped"]
    /\ status' = [status EXCEPT ![d] = IF Active(d) THEN "failed" ELSE @]
    /\ UNCHANGED <<identityVars, taskStatus, failures, assignee, capability, asking>>

settleWorkerStop(d) == workerStopped(d, {"stopping"})

reconcileFederatedWorkerStop(d) ==
    /\ d \in federated
    /\ workerStopped(d, {"stopping", "stop_unknown"})

\* The worker host says the worker had already reported; its report is still
\* to be relayed.
resumeFederatedWorkerForTerminalRelay(d) ==
    /\ worker[d] = "stopping"
    /\ worker' = [worker EXCEPT ![d] = "ready"]
    /\ taskStatus' = [taskStatus EXCEPT ![dispatchTask[d]] =
                        IF @ = "blocked" THEN "dispatched" ELSE @]
    /\ UNCHANGED <<identityVars, status, failures, assignee, capability, asking>>

markWorkerStopUnknown(d) ==
    /\ worker[d] = "stopping"
    /\ worker' = [worker EXCEPT ![d] = "stop_unknown"]
    /\ UNCHANGED <<identityVars, taskStatus, status, failures, assignee, capability, asking>>

\* Mutant: the task is left as it was.
abandonWorkerKeepsTask(d) ==
    /\ worker[d] \in WorkerState \ {"abandoned", "succeeded"}
    /\ IsLatest(d)
    /\ worker' = [worker EXCEPT ![d] = "abandoned"]
    /\ status' = [status EXCEPT ![d] = IF Active(d) THEN "failed" ELSE @]
    /\ capability' = [capability EXCEPT ![d] = Revoke(@)]
    /\ asking' = asking \ {d}
    /\ UNCHANGED <<identityVars, taskStatus, failures, assignee>>

abandonWorkerDispatch(d) ==
    /\ worker[d] \in WorkerState \ {"abandoned", "succeeded"}
    /\ IsLatest(d)
    /\ worker' = [worker EXCEPT ![d] = "abandoned"]
    /\ status' = [status EXCEPT ![d] = IF Active(d) THEN "failed" ELSE @]
    /\ capability' = [capability EXCEPT ![d] = Revoke(@)]
    /\ taskStatus' = [taskStatus EXCEPT ![dispatchTask[d]] = "blocked"]
    /\ asking' = asking \ {d}
    /\ UNCHANGED <<identityVars, failures, assignee>>

-----------------------------------------------------------------------------
\* How a dispatch ends by itself

\* settleWorkerReportInTransaction, when it neither rejects the report nor
\* finds it already settled.
settleWorkerReport(d, outcome) ==
    LET t == dispatchTask[d]
        end == IF outcome = "succeeded" THEN "completed" ELSE "failed"
        ts == [taskStatus EXCEPT ![t] = end]
    IN
    /\ status[d] = "dispatched"
    /\ taskStatus[t] = "dispatched"
    /\ IsLatest(d)
    /\ status' = [status EXCEPT ![d] = end]
    /\ capability' = [capability EXCEPT ![d] = Revoke(@)]
    /\ worker' = [worker EXCEPT ![d] = IF @ = "ready" THEN outcome ELSE @]
    /\ taskStatus' = IF outcome = "succeeded" THEN promoteReadyTasks(ts, t) ELSE ts
    /\ asking' = asking \ {d}
    /\ UNCHANGED <<identityVars, failures, assignee>>

\* The first statement of failDispatch.  Counts from the threshold on are one.
updateFailedDispatch(d) ==
    LET broken == failures[d] + 1 >= BreakerThreshold IN
    /\ status[d] # "absent"
    /\ failures' = [failures EXCEPT ![d] = IF broken THEN BreakerThreshold ELSE @ + 1]
    /\ status' = [status EXCEPT ![d] = IF broken THEN "circuit_broken" ELSE "failed"]
    /\ capability' = [capability EXCEPT ![d] = Revoke(@)]
    /\ UNCHANGED <<identityVars, assignee, worker, asking>>

\* The process dies before the task's UPDATE.
failDispatchTorn(d) == updateFailedDispatch(d) /\ UNCHANGED taskStatus

\* Whatever the dispatch's and the task's status are.
failDispatch(d) ==
    /\ updateFailedDispatch(d)
    /\ taskStatus' = [taskStatus EXCEPT ![dispatchTask[d]] =
                        IF failures[d] + 1 >= BreakerThreshold THEN "failed" ELSE "ready"]

-----------------------------------------------------------------------------
\* Questions

createQuestion(d) ==
    /\ Active(d)
    /\ asking' = asking \cup {d}
    /\ UNCHANGED <<taskVars, dispatchVars, worker, federated>>

\* A question relayed from the worker host; the dispatch is not consulted.
registerFederatedQuestion(d) ==
    /\ d \in federated
    /\ asking' = asking \cup {d}
    /\ UNCHANGED <<taskVars, dispatchVars, worker, federated>>

answerQuestion(d) ==
    /\ d \in asking
    /\ asking' = asking \ {d}
    /\ UNCHANGED <<taskVars, dispatchVars, worker, federated>>

-----------------------------------------------------------------------------
\* Properties that more than one way of dispatching is measured against.

\* At most one active dispatch per task, always its last one, and none while
\* the task could be started: no two agents ever work on one task.
OneActiveDispatchPerTask ==
    \A d \in Dispatch : Active(d) =>
        /\ IsLatest(d)
        /\ taskStatus[dispatchTask[d]] \notin {"absent", "pending", "ready"}

\* "Lock on pane identity too, so a reminted handle can't open a second
\* concurrent dispatch on the same pane" (orchestration-db-layer-14.ts:27):
\* a terminal has at most one active dispatch.
OneActiveDispatchPerTerminal ==
    \A d, e \in Dispatch : Active(d) /\ Active(e) /\ d # e =>
        assignee[d] # assignee[e] \/ assignee[d] = NoTerminal
=============================================================================
