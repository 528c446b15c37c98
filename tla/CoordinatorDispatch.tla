------------------------ MODULE CoordinatorDispatch ------------------------
(***************************************************************************)
(* The coordinator loop: a run that dispatches ready tasks to terminals by *)
(* itself, with the agents that report, escalate, ask for a decision or    *)
(* die, the people who create tasks, resolve gates and start or stop the   *)
(* run, and a daemon that restarts (runtime/orchestration/coordinator.ts,  *)
(* coordinator-messages.ts, coordinator-task-dispatch.ts).                 *)
(*                                                                         *)
(* The only caller of the loop, orchestration.run, is refused at this      *)
(* commit by the contract fence (orchestration/rpc-contract.ts:39); the    *)
(* module models the loop as it is written, on a store it does not share   *)
(* with worker-start, dispatch or task-update.  Orchestration has those.   *)
(*                                                                         *)
(* The daemon is one thread.  The coordinator keeps it from the start of a *)
(* tick to the tick's first await (phase "messages"); then it holds        *)
(* snapshots (todo, slots, free) across awaits while anybody else runs.    *)
(***************************************************************************)
EXTENDS DispatchContext, Sequences

CONSTANTS MaxConcurrent,  \* --max-concurrent of the run
          MaxInbox,       \* bound: unread messages to the coordinator
          MaxGate         \* bound: decision gates of one behaviour

ASSUME CoordinatorAssumption == /\ IsFiniteSet(Task)
                                /\ MaxConcurrent \in Nat \ {0}
                                /\ MaxInbox \in Nat
                                /\ MaxGate \in Nat

VARIABLES run,        \* a coordinator_runs row is "running", or "none" is
          phase,      \* where the coordinator of this process is
          stopped,    \* Coordinator.stopped
          inbox,      \* unread messages to the coordinator, oldest first
          todo,       \* ready tasks the tick has not tried yet
          slots,      \* dispatches the tick may still make
          free,       \* terminals the tick may still use
          sending     \* dispatch whose prompt the coordinator is typing

tickVars == <<todo, slots, free, sending>>
loopVars == <<run, phase, stopped>>
vars == <<contextVars, loopVars, inbox, tickVars>>

Phase == {"off", "sleep", "messages", "listing", "next", "sending"}
Message == [kind : {"escalation", "decision_gate"}, task : Task]

TypeOK == /\ StoreTypeOK
          /\ GateTypeOK
          /\ run \in {"none", "running"}
          /\ phase \in Phase
          /\ stopped \in BOOLEAN
          /\ inbox \in Seq(Message) /\ Len(inbox) <= MaxInbox
          /\ todo \in SUBSET Task
          /\ slots \in 0..MaxConcurrent
          /\ free \in SUBSET Terminal
          /\ sending \in Dispatch \cup {NoDispatch}
          /\ (sending # NoDispatch) <=> (phase = "sending")
          /\ phase # "off" => run = "running"

NoTick == todo = {} /\ slots = 0 /\ free = {} /\ sending = NoDispatch

Init == /\ StoreInit /\ GateInit
        /\ run = "none" /\ phase = "off" /\ stopped = FALSE
        /\ inbox = <<>> /\ NoTick

\* Somebody other than the coordinator can run.
Yielded == phase # "messages"

Created(t) == taskStatus[t] # "absent"

\* Decision gates created or asked for.
GateCount == GateRows + Len(SelectSeq(inbox, LAMBDA m : m.kind = "decision_gate"))

-----------------------------------------------------------------------------
\* Agents

\* A dispatched agent's message to the coordinator; who owns the task now is not
\* looked at.
Post(kind, t) ==
    /\ Yielded
    /\ \E d \in Dispatch : dispatchTask[d] = t
    /\ Len(inbox) < MaxInbox
    /\ inbox' = Append(inbox, [kind |-> kind, task |-> t])
    /\ UNCHANGED <<contextVars, loopVars, tickVars>>

Escalate(t) == Post("escalation", t)

AskDecision(t) == GateCount < MaxGate /\ Post("decision_gate", t)

WorkerReport(d, outcome) ==
    /\ Yielded
    /\ capability[d] # "revoked"
    /\ settleWorkerReport(d, outcome)
    /\ UNCHANGED <<gateVars, loopVars, inbox, tickVars>>

\* The exit of a terminal is reported to the run's coordinator, if one runs.
failActiveDispatchOnExit(x) ==
    /\ Yielded
    /\ run = "running" => Len(inbox) < MaxInbox
    /\ \E d \in Dispatch :
          /\ assignee[d] = x /\ Active(d)
          /\ failDispatch(d)
          /\ inbox' = IF run = "running"
                      THEN Append(inbox, [kind |-> "escalation", task |-> dispatchTask[d]])
                      ELSE inbox
    /\ UNCHANGED <<gateVars, loopVars, tickVars>>

-----------------------------------------------------------------------------
\* The coordinator

\* Mutant: the row of a run whose process died is not looked at.
CoordinatorRunAgain ==
    /\ phase = "off"
    /\ \E t \in Task : Created(t)
    /\ run' = "running"
    /\ phase' = "messages"
    /\ UNCHANGED <<contextVars, stopped, inbox, tickVars>>

\* A row left "running" by a dead process keeps every later run from starting.
CoordinatorRun ==
    /\ Yielded
    /\ run # "running"
    /\ \E t \in Task : Created(t)
    /\ run' = "running"
    /\ phase' = "messages"
    /\ UNCHANGED <<contextVars, stopped, inbox, tickVars>>

CoordinatorRunStop ==
    /\ Yielded
    /\ phase # "off"
    /\ stopped' = TRUE
    /\ UNCHANGED <<contextVars, run, phase, inbox, tickVars>>

\* The loop ends: the last tick found all tasks ended, or it was stopped.
RunEnds == run' = "none" /\ phase' = "off" /\ stopped' = FALSE

Wake ==
    /\ phase = "sleep"
    /\ IF stopped THEN RunEnds ELSE phase' = "messages" /\ UNCHANGED <<run, stopped>>
    /\ UNCHANGED <<contextVars, inbox, tickVars>>

\* The task's last dispatch fails, active or not, unless the task has ended.
handleEscalation(t) ==
    IF taskStatus[t] \in {"completed", "failed"}
    THEN UNCHANGED storeVars
    ELSE \E d \in Dispatch : dispatchTask[d] = t /\ IsLatest(d) /\ failDispatch(d)

HandleMessage ==
    LET m == Head(inbox) IN
    /\ phase = "messages"
    /\ inbox # <<>>
    /\ inbox' = Tail(inbox)
    /\ IF m.kind = "decision_gate"
       THEN createGate(m.task)
       ELSE handleEscalation(m.task) /\ UNCHANGED gateVars
    /\ UNCHANGED <<loopVars, tickVars>>

DropTick == todo' = {} /\ slots' = 0 /\ free' = {} /\ sending' = NoDispatch

\* Mutant: a task that failed for good keeps the run going.
EndTickUnlessCompleted(ts) ==
    /\ IF \A t \in Task : ts[t] \in {"absent", "completed"}
       THEN RunEnds
       ELSE phase' = "sleep" /\ UNCHANGED <<run, stopped>>
    /\ DropTick

\* checkConvergence, on the task statuses ts, ends the tick.
EndTick(ts) ==
    /\ IF \A t \in Task : ts[t] \in {"absent", "completed", "failed"}
       THEN RunEnds
       ELSE phase' = "sleep" /\ UNCHANGED <<run, stopped>>
    /\ DropTick

\* processDecisionGates takes the tasks with an open gate back to "blocked".
GatesBlock(t) == openGates[t] > 0

blockTasks(B) ==
    /\ taskStatus' = [t \in Task |-> IF t \in B THEN "blocked" ELSE taskStatus[t]]
    /\ UNCHANGED <<deps, dispatchVars, workerVars, gateVars>>

\* Mutant: the dispatches under way are not counted.
SlotsWithoutRunning(ts) == MaxConcurrent

\* maxConcurrent less the dispatched tasks.
Slots(ts) == MaxConcurrent - Cardinality({t \in Task : ts[t] = "dispatched"})

\* The rest of the tick up to its first await.
PlanTick ==
    LET ts == taskStatus'
        ready == {t \in Task : ts[t] = "ready"}
    IN
    /\ phase = "messages"
    /\ inbox = <<>>
    /\ blockTasks({t \in Task : GatesBlock(t)})
    /\ IF ready = {} \/ Slots(ts) <= 0
       THEN EndTick(ts)
       ELSE /\ phase' = "listing"
            /\ todo' = ready
            /\ slots' = Slots(ts)
            /\ UNCHANGED <<run, stopped, free, sending>>
    /\ UNCHANGED inbox

\* Assignees of the dispatched tasks' last dispatches.
BusyHandles == {assignee[d] : d \in {e \in Dispatch :
                    /\ dispatchTask[e] # NoTask /\ IsLatest(e)
                    /\ taskStatus[dispatchTask[e]] = "dispatched"}}

\* Terminals listed as connected, writable and not busy; a created one if none.
TerminalsListed(xs) ==
    /\ phase = "listing"
    /\ xs # {} /\ xs \cap BusyHandles = {}
    /\ free' = xs
    /\ phase' = "next"
    /\ UNCHANGED <<contextVars, run, stopped, inbox, todo, slots, sending>>

NoTerminalListed ==
    /\ phase = "listing"
    /\ EndTick(taskStatus)
    /\ UNCHANGED <<contextVars, inbox>>

\* The loop takes the next task and the next terminal.
TakeNext(t, x) ==
    /\ phase = "next"
    /\ slots > 0
    /\ t \in todo /\ todo' = todo \ {t}
    /\ x \in free /\ free' = free \ {x}
    /\ slots' = slots - 1
    /\ UNCHANGED <<run, stopped, inbox>>

DispatchNext(t, x) ==
    /\ TakeNext(t, x)
    /\ createDispatchContext(t, x, "none")
    /\ sending' = NextDispatch
    /\ phase' = "sending"

\* The worktree is too far behind its base, or the task is not ready any more,
\* or the terminal is taken.
SkipNext(t, x) ==
    /\ TakeNext(t, x)
    /\ UNCHANGED <<contextVars, sending, phase>>

PromptSent ==
    /\ phase = "sending"
    /\ phase' = "next"
    /\ sending' = NoDispatch
    /\ UNCHANGED <<contextVars, run, stopped, inbox, todo, slots, free>>

\* Whatever happened to the dispatch while its prompt was typed, it fails now.
PromptFails ==
    /\ phase = "sending"
    /\ failDispatch(sending)
    /\ phase' = "next"
    /\ sending' = NoDispatch
    /\ UNCHANGED <<gateVars, run, stopped, inbox, todo, slots, free>>

TickEnds ==
    /\ phase = "next"
    /\ todo = {} \/ free = {} \/ slots = 0
    /\ EndTick(taskStatus)
    /\ UNCHANGED <<contextVars, inbox>>

-----------------------------------------------------------------------------
\* People

TaskCreate(t, D) ==
    /\ Yielded
    /\ createTask(t, D)
    /\ UNCHANGED <<gateVars, loopVars, inbox, tickVars>>

GateCreate(t) ==
    /\ Yielded
    /\ GateCount < MaxGate
    /\ createGate(t)
    /\ UNCHANGED <<loopVars, inbox, tickVars>>

\* Nothing asks whether the gate is resolved already, nor for its task's status.
GateResolve(t) ==
    /\ Yielded
    /\ resolveGate(t) \/ resolveGateAgain(t)
    /\ UNCHANGED <<loopVars, inbox, tickVars>>

-----------------------------------------------------------------------------
\* A new process on the same database: requests and the loop are gone, the run's
\* row stays.
NewProcess == /\ phase' = "off" /\ stopped' = FALSE /\ DropTick
              /\ UNCHANGED <<run, inbox>>

Restart == NewProcess /\ UNCHANGED contextVars

\* What the coordinator leaves of an operation the process dies in.  (The tick's
\* messages are marked read together at its end, so they are unread again; the
\* run's row is left "running" and nobody will read them.)
CoordinatorDiesInside ==
    \/ /\ phase = "messages" /\ inbox # <<>>
       /\ LET m == Head(inbox) IN
             \/ m.kind = "decision_gate" /\ createGateTorn(m.task)
             \/ /\ m.kind # "decision_gate"
                /\ taskStatus[m.task] \notin {"completed", "failed"}
                /\ \E d \in Dispatch : dispatchTask[d] = m.task /\ IsLatest(d) /\ failDispatchTorn(d)
                /\ UNCHANGED gateVars
    \/ /\ phase = "messages" /\ inbox = <<>>
       /\ \E B \in SUBSET {t \in Task : GatesBlock(t)} : blockTasks(B)
    \/ /\ phase = "next" /\ slots > 0
       /\ \E t \in todo, x \in free : createDispatchContextTorn(t, x)
    \/ /\ phase = "sending"
       /\ failDispatchTorn(sending)
       /\ UNCHANGED gateVars

\* The exit of a terminal, without the task's UPDATE or the message that follow;
\* a gate command of the people's.
OthersDieInside ==
    /\ Yielded
    /\ \/ \E d \in Dispatch : /\ Active(d)
                              /\ failDispatch(d) \/ failDispatchTorn(d)
                              /\ UNCHANGED gateVars
       \/ \E t \in Task : resolveGateTorn(t) \/ (GateCount < MaxGate /\ createGateTorn(t))

DiesInside == (CoordinatorDiesInside \/ OthersDieInside) /\ NewProcess

-----------------------------------------------------------------------------
CoordinatorStep ==
    \/ Wake
    \/ HandleMessage
    \/ PlanTick
    \/ \E xs \in SUBSET Terminal : TerminalsListed(xs)
    \/ NoTerminalListed
    \/ \E t \in Task, x \in Terminal : DispatchNext(t, x) \/ SkipNext(t, x)
    \/ PromptSent
    \/ PromptFails
    \/ TickEnds

Agents ==
    \/ \E t \in Task : Escalate(t) \/ AskDecision(t)
    \/ \E d \in Dispatch, o \in {"succeeded", "failed"} : WorkerReport(d, o)
    \/ \E x \in Terminal : failActiveDispatchOnExit(x)

People ==
    \/ \E t \in Task : GateCreate(t) \/ GateResolve(t) \/ \E D \in SUBSET Task : TaskCreate(t, D)
    \/ CoordinatorRun
    \/ CoordinatorRunStop

Next == CoordinatorStep \/ Agents \/ People \/ Restart \/ DiesInside

SafeSpec == Init /\ [][Next]_vars

\* The loop's own awaits are timers, lists and prompts bounded by timeouts.
Spec == SafeSpec /\ WF_vars(CoordinatorStep)

-----------------------------------------------------------------------------
(***************************************************************************)
(* Properties                                                              *)
(***************************************************************************)

\* The coordinator never has more tasks dispatched than --max-concurrent,
\* though it counts once per tick and dispatches across awaits.
ConcurrencyBound ==
    phase # "off" => Cardinality({t \in Task : taskStatus[t] = "dispatched"}) <= MaxConcurrent

\* Two agents are on one task only after one of its gates was resolved, which
\* makes it ready whoever works on it.  A dispatch whose task the dead process
\* left ready stays alone too: the row of its run keeps every later run away.
SecondAgentOnlyAfterGate ==
    \A d, e \in Dispatch :
        Active(d) /\ Active(e) /\ d # e /\ dispatchTask[d] = dispatchTask[e]
        => closedGates[dispatchTask[d]] > 0

\* A task none of whose gates was resolved is attempted at most three times: the
\* circuit breaker counts across the retries of a task, whatever stale message,
\* exit, late prompt failure or crash fails its dispatches.
AttemptsBounded ==
    \A t \in Task : closedGates[t] = 0 =>
        Cardinality({d \in Dispatch : dispatchTask[d] = t}) <= BreakerThreshold

\* If agents end and terminals can be had, a coordinator that never ends its run
\* is stuck again and again: nobody works, every task that has not ended is blocked
\* or pending, or was left dispatched without a dispatch by a process that died in
\* failDispatch; such tasks may even fill the slots, and then ready tasks wait too.
\* (The dispatches are finitely many and never active again, so that each ends is
\* that again and again none is active.)
AgentsEnd == []<>(\A d \in Dispatch : ~ Active(d))
TerminalsCanBeHad == /\ SF_vars(\E xs \in SUBSET Terminal : TerminalsListed(xs))
                     /\ SF_vars(\E t \in Task, x \in Terminal : DispatchNext(t, x))
Stuck == /\ \A d \in Dispatch : ~ Active(d)
         /\ (\A t \in Task : taskStatus[t] # "ready") \/ Slots(taskStatus) <= 0
         /\ \E t \in Task : taskStatus[t] \in {"blocked", "pending", "dispatched"}
LoopConverges ==
    AgentsEnd /\ TerminalsCanBeHad => (<>[](phase # "off") => []<>Stuck)
=============================================================================
