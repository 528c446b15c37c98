-------------------------- MODULE SupervisedWorker --------------------------
(***************************************************************************)
(* The supervised way to run a task: worker-start, worker-show,            *)
(* worker-stop, worker-abandon, the worker's own messages, the exit of its *)
(* terminal, and a restart of the daemon                                   *)
(* (runtime/rpc/methods/orchestration/worker/ and federation/).            *)
(*                                                                         *)
(* The daemon is one thread: between two awaits a handler runs alone, so   *)
(* each action is the code from one await to the next.  What a handler     *)
(* still has to do after an await is its entry in startCall or stopCall;   *)
(* a restart forgets those and keeps the store.                            *)
(*                                                                         *)
(* The worker host of a federated dispatch is external: its answers are    *)
(* any of those the handler distinguishes.                                 *)
(***************************************************************************)
EXTENDS TaskDispatch

VARIABLES startCall,   \* where the worker-start request of a dispatch waits
          stopCall,    \* dispatches whose worker-stop request is waiting
          staleEpoch   \* dispatches created by an earlier runtime process

callVars == <<startCall, stopCall, staleEpoch>>
vars == <<storeVars, callVars>>

\* "setup": worktree, terminal and agent readiness; "input": the prompt is
\* being typed; "remote": the attach-start call to the worker host.
StartStage == {"none", "setup", "input", "remote"}

TypeOK == /\ StoreTypeOK
          /\ startCall \in [Dispatch -> StartStage]
          /\ stopCall \in SUBSET Dispatch
          /\ staleEpoch \in SUBSET (1..nDispatch)

Init == /\ StoreInit
        /\ startCall = [d \in Dispatch |-> "none"]
        /\ stopCall = {}
        /\ staleEpoch = {}

EndStart(d) == /\ startCall' = [startCall EXCEPT ![d] = "none"]
               /\ UNCHANGED <<stopCall, staleEpoch>>
EndStop(d) == /\ stopCall' = stopCall \ {d}
              /\ UNCHANGED <<startCall, staleEpoch>>

-----------------------------------------------------------------------------
\* Tasks and worker-start

TaskCreate(t, D) == createTask(t, D) /\ UNCHANGED callVars

WorkerStart(t, retryOf, remote) ==
    /\ createStartingWorkerDispatch(t, retryOf, remote)
    /\ startCall' = [startCall EXCEPT ![NextDispatch] =
                        IF remote THEN "remote" ELSE "setup"]
    /\ UNCHANGED <<stopCall, staleEpoch>>

\* The agent is ready in terminal x, new or given by --terminal.
WorkerAuthority(d, x) ==
    /\ startCall[d] = "setup"
    /\ prepareStartingWorkerAuthority(d, x)
    /\ startCall' = [startCall EXCEPT ![d] = "input"]
    /\ UNCHANGED <<stopCall, staleEpoch>>

\* The prompt was typed, or the worker host answered that it was.
WorkerReady(d) ==
    /\ startCall[d] \in {"input", "remote"}
    /\ markWorkerDispatchReady(d)
    /\ EndStart(d)

\* Mutant: the failure of a start is not recorded.
WorkerStartFailsSilently(d) ==
    /\ startCall[d] # "none"
    /\ UNCHANGED storeVars
    /\ EndStart(d)

\* An await threw, the worker host refused, or a store operation found the
\* dispatch no longer starting; failing it may in turn find the same.
WorkerStartFails(d) ==
    /\ startCall[d] # "none"
    /\ \/ failWorkerStart(d)
       \/ worker[d] # "starting" /\ UNCHANGED storeVars
    /\ EndStart(d)

\* The failure leaves open whether the worker was started.
WorkerStartUnknown(d) ==
    /\ startCall[d] \in {"setup", "remote"}
    /\ markWorkerStartUnknown(d)
    /\ EndStart(d)

-----------------------------------------------------------------------------
\* worker-show

\* The local request that would have finished this transition is gone.
WorkerShowStale(d) ==
    /\ d \in staleEpoch \ federated
    /\ markWorkerStartUnknown(d) \/ markWorkerStopUnknown(d)
    /\ UNCHANGED callVars

WorkerShowRemote(d, reported) ==
    /\ IF reported = "stopped" /\ worker[d] \in {"stopping", "stop_unknown"}
       THEN reconcileFederatedWorkerStop(d)
       ELSE reconcileFederatedWorkerStart(d, reported)
    /\ UNCHANGED callVars

-----------------------------------------------------------------------------
\* worker-stop and worker-abandon

WorkerStop(d) ==
    /\ beginWorkerStop(d)
    /\ stopCall' = stopCall \cup {d}
    /\ UNCHANGED <<startCall, staleEpoch>>

\* The recorded terminal was closed.
WorkerStopped(d) ==
    /\ d \in stopCall \ federated
    /\ assignee[d] # NoTerminal
    /\ settleWorkerStop(d)
    /\ EndStop(d)

\* The worker host stopped it.
WorkerStoppedRemotely(d) ==
    /\ d \in stopCall
    /\ reconcileFederatedWorkerStop(d)
    /\ EndStop(d)

\* The worker host had already recorded the worker's own report.
WorkerStopSuperseded(d) ==
    /\ d \in stopCall \cap federated
    /\ resumeFederatedWorkerForTerminalRelay(d)
    /\ EndStop(d)

\* Mutant: an unconfirmed stop is not recorded.
WorkerStopUnconfirmedSilently(d) ==
    /\ d \in stopCall
    /\ UNCHANGED storeVars
    /\ EndStop(d)

\* No terminal, not the recorded process, or a failed call.
WorkerStopUnconfirmed(d) ==
    /\ d \in stopCall
    /\ \/ markWorkerStopUnknown(d)
       \/ worker[d] # "stopping" /\ UNCHANGED storeVars
    /\ EndStop(d)

WorkerAbandon(d) == abandonWorkerDispatch(d) /\ UNCHANGED callVars

-----------------------------------------------------------------------------
\* Messages of the worker and the exit of its terminal

\* worker_done sent from the assigned pane with the dispatch's capability.
WorkerReport(d, outcome) ==
    /\ assignee[d] # NoTerminal
    /\ capability[d] # "revoked"
    /\ settleWorkerReport(d, outcome)
    /\ UNCHANGED callVars

\* worker_done pulled from the worker host and imported.
WorkerReportRelayed(d, outcome) ==
    /\ d \in federated
    /\ settleWorkerReport(d, outcome)
    /\ UNCHANGED callVars

WorkerAsk(d) ==
    /\ assignee[d] # NoTerminal
    /\ capability[d] # "revoked"
    /\ createQuestion(d)
    /\ UNCHANGED callVars

WorkerAskRelayed(d) == registerFederatedQuestion(d) /\ UNCHANGED callVars

CoordinatorAnswer(d) == answerQuestion(d) /\ UNCHANGED callVars

\* The query has no ORDER BY: any active dispatch of the terminal may be it.
failActiveDispatchOnExit(x) ==
    /\ \E d \in Dispatch : assignee[d] = x /\ Active(d) /\ failDispatch(d)
    /\ UNCHANGED callVars

\* A new runtime process serves no request of the old one.
NewProcess ==
    /\ startCall' = [d \in Dispatch |-> "none"]
    /\ stopCall' = {}
    /\ staleEpoch' = 1..nDispatch'

Restart == UNCHANGED storeVars /\ NewProcess

\* The two statements of failDispatch are committed one by one: the daemon dies
\* with the dispatch of an exited terminal ended and its task not yet written.
DiesFailingDispatch ==
    /\ \E d \in Dispatch : assignee[d] \in Terminal /\ Active(d) /\ failDispatchTorn(d)
    /\ NewProcess

-----------------------------------------------------------------------------
Outcome == {"succeeded", "failed"}

\* What a request or the outside world starts.
Environment ==
    \/ \E t \in Task, D \in SUBSET Task : TaskCreate(t, D)
    \/ \E t \in Task, r \in Dispatch \cup {NoDispatch}, remote \in BOOLEAN :
          WorkerStart(t, r, remote)
    \/ \E d \in Dispatch : \/ WorkerShowStale(d)
                           \/ \E s \in {"ready", "failed", "stopped"} : WorkerShowRemote(d, s)
                           \/ WorkerStop(d)
                           \/ WorkerAbandon(d)
                           \/ \E o \in Outcome : WorkerReport(d, o) \/ WorkerReportRelayed(d, o)
                           \/ WorkerAsk(d)
                           \/ WorkerAskRelayed(d)
                           \/ CoordinatorAnswer(d)
    \/ \E x \in Terminal : failActiveDispatchOnExit(x)

\* What a request already accepted goes on to do.
StartStep(d) == \/ \E x \in Terminal : WorkerAuthority(d, x)
                \/ WorkerReady(d)
                \/ WorkerStartFails(d)
                \/ WorkerStartUnknown(d)

StopStep(d) == \/ WorkerStopped(d)
               \/ WorkerStoppedRemotely(d)
               \/ WorkerStopSuperseded(d)
               \/ WorkerStopUnconfirmed(d)

Supervised == Environment \/ \E d \in Dispatch : StartStep(d) \/ StopStep(d)

Next == Supervised \/ Restart \/ DiesFailingDispatch

SafeSpec == Init /\ [][Next]_vars

\* Every await of the two handlers is bounded by a timeout or by the process
\* it waits for, so an accepted request goes on; nothing obliges a client to
\* call, an agent to report or the daemon to restart.
Fairness == \A d \in Dispatch : WF_vars(StartStep(d)) /\ WF_vars(StopStep(d))

Spec == SafeSpec /\ Fairness

-----------------------------------------------------------------------------
(***************************************************************************)
(* Properties                                                              *)
(***************************************************************************)

\* No capability outlives its dispatch, nor a stop or an unknown start: every
\* path that ends a dispatch, or stops trusting its process, has to revoke.
LiveCapabilityIsTrusted ==
    \A d \in Dispatch : capability[d] = "live" =>
        Active(d) /\ worker[d] \in {"absent", "starting", "ready"}

\* A worker that ended in the store's view never keeps its dispatch active;
\* a retry of the task relies on it.
SettledWorkerEndsDispatch ==
    \A d \in Dispatch : worker[d] \in SettledWorker => ~ Active(d)

\* A task shown as dispatched never gets out of reach: the worker of its last
\* dispatch is starting or ready, so that worker-abandon is accepted and the task
\* can be retried.  That dispatch is active too, unless the daemon died inside
\* failDispatch, which nothing repairs by itself.
DispatchedTaskHasWorker ==
    \A t \in Task : taskStatus[t] = "dispatched" =>
        \E d \in Dispatch : /\ dispatchTask[d] = t
                            /\ IsLatest(d)
                            /\ worker[d] \in {"starting", "ready"}
                            /\ Active(d) \/ d \in staleEpoch \ federated

\* A task that was dispatched had each dependency completed by a dispatch.
Done(t) == \E d \in Dispatch : dispatchTask[d] = t /\ status[d] = "completed"
DispatchedAfterDependencies ==
    \A d \in 1..nDispatch : \A p \in deps[dispatchTask[d]] : Done(p)

\* A worker is in a transient state only while the request that put it there
\* is being served, or after a restart, when worker-show can clear it (that of a
\* worker on a host once the host answers).
TransientStateHasOwner ==
    \A d \in Dispatch :
        /\ worker[d] = "starting" => startCall[d] # "none" \/ d \in staleEpoch
        /\ worker[d] = "stopping" => d \in stopCall \/ d \in staleEpoch

\* While a local dispatch is active and has an open question, its agent has not
\* lost the authority that resuming the question needs.
OpenQuestionHasAuthority ==
    \A d \in asking \ federated : Active(d) => capability[d] # "revoked"

\* "So a completed task never leaves its ready children unpromoted"
\* (orchestration-db-layer-6.ts:167).  It does: createTask does not look at
\* the status of the dependencies.
NoReadyChildUnpromoted ==
    \A t \in Task : taskStatus[t] = "pending" =>
        \E p \in deps[t] : taskStatus[p] # "completed"

\* "Carry forward failure_count so the circuit breaker accumulates across
\* retries for the same task" (orchestration-db-layer-14.ts:36).  A retry by
\* worker-start counts from zero.
FailuresCarriedForward ==
    \A d, e \in 1..nDispatch :
        dispatchTask[d] = dispatchTask[e] /\ d < e => failures[d] <= failures[e]

\* An ended dispatch stays ended, and its success stays a success.
NeverReactivated ==
    [][\A d \in 1..nDispatch :
          /\ ~ Active(d) => ~ Active(d)'
          /\ status[d] = "completed" => status'[d] = "completed"]_vars

\* Dispatches are leases: holder is the active dispatch of a task, done the
\* tasks completed by a dispatch.
activeDispatch == [t \in Task |->
    IF \E d \in Dispatch : dispatchTask[d] = t /\ Active(d)
    THEN CHOOSE d \in Dispatch : dispatchTask[d] = t /\ Active(d)
    ELSE NoDispatch]

Leases == INSTANCE TaskLease WITH Lease <- Dispatch, NoLease <- NoDispatch,
              needs <- deps, holder <- activeDispatch, spent <- 1..nDispatch,
              done <- {t \in Task : Done(t)}

\* The supervised store implements TaskLease.
ImplementsLeases == Leases!LeaseSpec

\* An accepted worker-start leaves "starting" unless the daemon restarts.
StartReachesReceipt ==
    \A d \in Dispatch : (worker[d] = "starting" /\ d \notin staleEpoch) ~>
                            (worker[d] # "starting" \/ d \in staleEpoch)

\* An accepted worker-stop is confirmed, declared unknown, or cut short by a
\* restart.
StopReachesReceipt ==
    \A d \in Dispatch : (worker[d] = "stopping" /\ d \notin staleEpoch) ~>
                            (worker[d] # "stopping" \/ d \in staleEpoch)
=============================================================================
