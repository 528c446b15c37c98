------------------------- MODULE CoordinatorProofs -------------------------
(***************************************************************************)
(* Proofs about CoordinatorDispatch, for every value of its constants: its *)
(* types, what is left of a run whose process died, the concurrency bound, *)
(* and, of a task none of whose gates was resolved, that one agent works   *)
(* on it and that its attempts are bounded.                                *)
(***************************************************************************)
EXTENDS CoordinatorDispatch, DispatchContextProofs, SequenceTheorems, FiniteSetTheorems

\* The store operations of the model that are not of DispatchContext.
LoopOp ==
    \/ \E t \in Task, D \in SUBSET Task : createTask(t, D) /\ UNCHANGED gateVars
    \/ \E B \in SUBSET Task : blockTasks(B)
    \/ \E d \in Dispatch, o \in {"succeeded", "failed"} : settleWorkerReport(d, o) /\ UNCHANGED gateVars

LEMMA LoopOpType ==
    ASSUME StoreTypeOK, GateTypeOK, LoopOp
    PROVE  StoreTypeOK' /\ GateTypeOK' /\ nDispatch' = nDispatch
<1> USE DEF taskVars, dispatchVars, workerVars, gateVars, GateTypeOK, StoreTypeOK, TaskStatus
<1>1. CASE \E t \in Task, D \in SUBSET Task : createTask(t, D) /\ UNCHANGED gateVars
  BY <1>1 DEF createTask
<1>2. CASE \E B \in SUBSET Task : blockTasks(B)
  BY <1>2 DEF blockTasks
<1>3. CASE \E d \in Dispatch, o \in {"succeeded", "failed"} :
              settleWorkerReport(d, o) /\ UNCHANGED gateVars
  BY <1>3 DEF settleWorkerReport, promoteReadyTasks, Revoke, DispatchStatus, Capability, WorkerState,
              identityVars
<1>4. QED
  BY <1>1, <1>2, <1>3 DEF LoopOp

\* Every action does one store operation or none, on tasks and dispatches that
\* exist: the coordinator's own variables name no others.
LEMMA StepIsContextOp ==
    ASSUME TypeOK, Next
    PROVE  ContextOp \/ LoopOp \/ UNCHANGED contextVars
<1> USE DEF ContextOp, LoopOp, contextVars
<1>0. ASSUME inbox # <<>>
      PROVE  Head(inbox).task \in Task
  <2>1. Head(inbox) \in Message
    BY <1>0, HeadTailProperties DEF TypeOK
  <2>2. QED
    BY <2>1 DEF Message
<1>1. CASE CoordinatorStep
  <2>1. CASE Wake \/ NoTerminalListed \/ PromptSent \/ TickEnds
    BY <2>1 DEF Wake, NoTerminalListed, PromptSent, TickEnds
  <2>2. CASE HandleMessage
    BY <1>0, <2>2 DEF HandleMessage, handleEscalation
  <2>3. CASE PlanTick
    BY <2>3 DEF PlanTick
  <2>4. CASE \E xs \in SUBSET Terminal : TerminalsListed(xs)
    BY <2>4 DEF TerminalsListed
  <2>5. CASE \E t \in Task, x \in Terminal : DispatchNext(t, x) \/ SkipNext(t, x)
    BY <2>5 DEF DispatchNext, SkipNext
  <2>6. CASE PromptFails
    BY <2>6 DEF PromptFails, TypeOK
  <2>7. QED
    BY <1>1, <2>1, <2>2, <2>3, <2>4, <2>5, <2>6 DEF CoordinatorStep
<1>2. CASE Agents
  BY <1>2 DEF Agents, Escalate, AskDecision, Post, WorkerReport, failActiveDispatchOnExit
<1>3. CASE People
  BY <1>3 DEF People, TaskCreate, GateCreate, GateResolve, CoordinatorRun, CoordinatorRunStop
<1>4. CASE Restart
  BY <1>4 DEF Restart
<1>5. CASE DiesInside
  <2>1. CASE CoordinatorDiesInside
    BY <1>0, <2>1 DEF CoordinatorDiesInside, TypeOK
  <2>2. CASE OthersDieInside
    BY <2>2 DEF OthersDieInside
  <2>3. QED
    BY <1>5, <2>1, <2>2 DEF DiesInside
<1>6. QED
  BY <1>1, <1>2, <1>3, <1>4, <1>5 DEF Next

\* TypeOK of the coordinator's own variables.
LoopTypeOK == /\ run \in {"none", "running"}
              /\ phase \in Phase
              /\ stopped \in BOOLEAN
              /\ inbox \in Seq(Message) /\ Len(inbox) <= MaxInbox
              /\ todo \in SUBSET Task
              /\ slots \in 0..MaxConcurrent
              /\ free \in SUBSET Terminal
              /\ sending \in Dispatch \cup {NoDispatch}
              /\ (sending # NoDispatch) <=> (phase = "sending")
              /\ phase # "off" => run = "running"

LEMMA TypeParts == TypeOK <=> StoreTypeOK /\ GateTypeOK /\ LoopTypeOK
BY DEF TypeOK, LoopTypeOK

LEMMA SlotsType ==
    ASSUME NEW ts, ~ (Slots(ts) <= 0)
    PROVE  Slots(ts) \in 0..MaxConcurrent
<1>1. Cardinality({t \in Task : ts[t] = "dispatched"}) \in Nat
  BY CoordinatorAssumption, FS_Subset, FS_CardinalityType DEF CoordinatorAssumption
<1>2. QED
  BY <1>1, CoordinatorAssumption DEF CoordinatorAssumption, Slots

\* How a tick ends leaves the coordinator's variables in their types.
LEMMA EndTickType ==
    ASSUME NEW ts, LoopTypeOK, phase # "off", EndTick(ts), UNCHANGED <<inbox, nDispatch>>
    PROVE  LoopTypeOK'
<1>1. 0 \in 0..MaxConcurrent
  BY CoordinatorAssumption DEF CoordinatorAssumption
<1>2. stopped' \in BOOLEAN /\ run' \in {"none", "running"} /\ phase' \in {"off", "sleep"}
  BY DEF EndTick, RunEnds, LoopTypeOK
<1>3. phase' # "off" => run' = "running"
  BY DEF EndTick, RunEnds, LoopTypeOK
<1>4. QED
  BY <1>1, <1>2, <1>3 DEF EndTick, DropTick, LoopTypeOK, Phase

LEMMA LoopTypeStep ==
    ASSUME TypeOK, Next, nDispatch' \in {nDispatch, nDispatch + 1}
    PROVE  LoopTypeOK'
<1> USE TypeParts, CoordinatorAssumption
    DEF CoordinatorAssumption, loopVars, tickVars, contextVars, storeVars, dispatchVars
<1>0. nDispatch \in Int /\ NoDispatch \notin Dispatch /\ 1..nDispatch \subseteq 1..nDispatch'
  BY DEF StoreTypeOK, Dispatch, NoDispatch
<1> USE <1>0
<1>1. CASE CoordinatorStep
  <2>1. CASE Wake \/ PromptSent
    BY <2>1 DEF Wake, PromptSent, RunEnds, LoopTypeOK, Phase
  <2>2. CASE HandleMessage
    <3>1. Tail(inbox) \in Seq(Message) /\ Len(Tail(inbox)) = Len(inbox) - 1 /\ Len(inbox) \in Nat
      BY <2>2, HeadTailProperties, LenProperties DEF HandleMessage, LoopTypeOK
    <3>2. QED
      BY <2>2, <3>1 DEF HandleMessage, LoopTypeOK
  <2>3. CASE PlanTick
    <3>1. PICK ts : /\ UNCHANGED <<inbox, nDispatch>>
                    /\ phase = "messages"
                    /\ \/ EndTick(ts)
                       \/ /\ ~ (Slots(ts) <= 0) /\ slots' = Slots(ts)
                          /\ phase' = "listing" /\ todo' \in SUBSET Task
                          /\ UNCHANGED <<run, stopped, free, sending>>
      BY <2>3 DEF PlanTick, blockTasks
    <3>2. QED
      BY <3>1, EndTickType, SlotsType DEF LoopTypeOK, Phase
  <2>4. CASE \E xs \in SUBSET Terminal : TerminalsListed(xs)
    BY <2>4 DEF TerminalsListed, LoopTypeOK, Phase
  <2>5. CASE NoTerminalListed \/ TickEnds
    BY <2>5, EndTickType DEF NoTerminalListed, TickEnds
  <2>6. ASSUME NEW t \in Task, NEW x \in Terminal, DispatchNext(t, x) \/ SkipNext(t, x)
        PROVE  LoopTypeOK'
    <3>1. slots' \in 0..MaxConcurrent
      BY <2>6 DEF DispatchNext, SkipNext, TakeNext, LoopTypeOK
    <3>2. CASE DispatchNext(t, x)
      BY <2>6, <3>1, <3>2 DEF DispatchNext, TakeNext, createDispatchContext, insertDispatch,
                              NextDispatch, LoopTypeOK, Phase
    <3>3. CASE SkipNext(t, x)
      BY <2>6, <3>1, <3>3 DEF SkipNext, TakeNext, LoopTypeOK, Phase
    <3>4. QED
      BY <2>6, <3>2, <3>3
  <2>7. CASE PromptFails
    BY <2>7 DEF PromptFails, LoopTypeOK, Phase
  <2>8. QED
    BY <1>1, <2>1, <2>2, <2>3, <2>4, <2>5, <2>6, <2>7 DEF CoordinatorStep
<1>2. ASSUME NEW m \in Message, Len(inbox) < MaxInbox, inbox' = Append(inbox, m),
             UNCHANGED <<loopVars, tickVars>>
      PROVE  LoopTypeOK'
  <2>1. inbox' \in Seq(Message) /\ Len(inbox') = Len(inbox) + 1 /\ Len(inbox) \in Nat
    BY <1>2, AppendProperties, LenProperties DEF LoopTypeOK
  <2>2. QED
    BY <1>2, <2>1 DEF LoopTypeOK
<1>3. ASSUME UNCHANGED <<loopVars, tickVars, inbox>>
      PROVE  LoopTypeOK'
  BY <1>3 DEF LoopTypeOK
<1>4. CASE Agents
  <2>1. ASSUME NEW t \in Task, Escalate(t) \/ AskDecision(t)
        PROVE  LoopTypeOK'
    BY <1>2, <2>1 DEF Escalate, AskDecision, Post, Message
  <2>2. CASE \E d \in Dispatch, o \in {"succeeded", "failed"} : WorkerReport(d, o)
    BY <1>3, <2>2 DEF WorkerReport
  <2>3. CASE \E x \in Terminal : failActiveDispatchOnExit(x)
    <3>1. PICK d \in Dispatch :
             /\ status[d] # "absent" /\ UNCHANGED <<loopVars, tickVars>>
             /\ run = "running" => Len(inbox) < MaxInbox
             /\ inbox' = IF run = "running"
                         THEN Append(inbox, [kind |-> "escalation", task |-> dispatchTask[d]])
                         ELSE inbox
      BY <2>3 DEF failActiveDispatchOnExit, Active
    <3>2. [kind |-> "escalation", task |-> dispatchTask[d]] \in Message
      BY <3>1 DEF StoreTypeOK, Message
    <3>3. QED
      BY <1>2, <1>3, <3>1, <3>2
  <2>4. QED
    BY <1>4, <2>1, <2>2, <2>3 DEF Agents
<1>5. CASE People
  <2>1. CASE \E t \in Task : GateCreate(t) \/ GateResolve(t) \/ \E D \in SUBSET Task : TaskCreate(t, D)
    BY <1>3, <2>1 DEF TaskCreate, GateCreate, GateResolve
  <2>2. CASE CoordinatorRun \/ CoordinatorRunStop
    BY <2>2 DEF CoordinatorRun, CoordinatorRunStop, LoopTypeOK, Phase
  <2>3. QED
    BY <1>5, <2>1, <2>2 DEF People
<1>6. CASE Restart \/ DiesInside
  <2>1. 0 \in 0..MaxConcurrent
    OBVIOUS
  <2>2. NewProcess
    BY <1>6 DEF Restart, DiesInside
  <2>3. QED
    BY <2>1, <2>2 DEF NewProcess, DropTick, LoopTypeOK, Phase
<1>7. QED
  BY <1>1, <1>4, <1>5, <1>6 DEF Next

LEMMA TypeInit == Init => TypeOK
<1>1. Init => StoreTypeOK /\ GateTypeOK
  BY StoreAssumption DEF Init, StoreInit, GateInit, StoreTypeOK, GateTypeOK, StoreAssumption, Dispatch,
     TaskStatus, DispatchStatus, Capability, WorkerState, BreakerThreshold
<1>2. Init => LoopTypeOK
  <2>1. 0 \in 0..MaxConcurrent /\ <<>> \in Seq(Message) /\ Len(<<>>) <= MaxInbox
    BY CoordinatorAssumption, EmptySeq DEF CoordinatorAssumption
  <2>2. QED
    BY <2>1 DEF Init, NoTick, LoopTypeOK, Phase
<1>3. QED
  BY <1>1, <1>2, TypeParts

LEMMA TypeStepLemma ==
    ASSUME TypeOK, [Next]_vars
    PROVE  TypeOK'
<1>1. CASE UNCHANGED vars
  BY <1>1 DEF vars, contextVars, storeVars, taskVars, dispatchVars, workerVars, gateVars, loopVars,
              tickVars, TypeOK, StoreTypeOK, GateTypeOK
<1>2. CASE Next
  <2>1. StoreTypeOK' /\ GateTypeOK' /\ nDispatch' \in {nDispatch, nDispatch + 1}
    <3>1. CASE ContextOp
      BY <3>1, ContextTypeStep, TypeParts
    <3>2. CASE LoopOp
      BY <3>2, LoopOpType, TypeParts
    <3>3. CASE UNCHANGED contextVars
      BY <3>3, TypeParts DEF contextVars, storeVars, taskVars, dispatchVars, workerVars, gateVars,
                             StoreTypeOK, GateTypeOK
    <3>4. QED
      BY <1>2, <3>1, <3>2, <3>3, StepIsContextOp
  <2>2. LoopTypeOK'
    BY <1>2, <2>1, LoopTypeStep
  <2>3. QED
    BY <2>1, <2>2 DEF TypeOK, LoopTypeOK
<1>3. QED
  BY <1>1, <1>2

\* The store and the loop stay in their types; in particular the dispatch whose
\* prompt is typed exists as long as it is.
THEOREM CoordinatorTypeCorrect == SafeSpec => []TypeOK
<1>1. Init => TypeOK
  BY TypeInit
<1>2. TypeOK /\ [Next]_vars => TypeOK'
  BY TypeStepLemma
<1>3. QED
  BY <1>1, <1>2, PTL DEF SafeSpec
-----------------------------------------------------------------------------
\* What a process that dies inside an operation leaves of it, and the operations
\* of the coordinator and its agents but DispatchNext.
QuietOp ==
    \/ \E t \in Task, D \in SUBSET Task : createTask(t, D) /\ UNCHANGED gateVars
    \/ \E t \in Task : \/ createGate(t) \/ createGateTorn(t)
                       \/ resolveGate(t) \/ resolveGateTorn(t) \/ resolveGateAgain(t)
    \/ \E B \in SUBSET Task : blockTasks(B)
    \/ \E d \in Dispatch, o \in {"succeeded", "failed"} : settleWorkerReport(d, o) /\ UNCHANGED gateVars

\* A dispatch is failed: one that is active, the last one of its task, or the one
\* whose prompt is typed.
FailOp ==
    \E d \in Dispatch : /\ Active(d) \/ IsLatest(d) \/ d = sending
                        /\ failDispatch(d) \/ failDispatchTorn(d)
                        /\ UNCHANGED gateVars

\* A run whose process died: the row says "running", no coordinator has it.
Orphaned == run = "running" /\ phase = "off"

\* The coordinator dies when it has inserted a dispatch.
InsertsAndDies ==
    /\ \E t \in Task, x \in Terminal : createDispatchContextTorn(t, x)
    /\ phase # "off" /\ phase' = "off" /\ run' = run

\* Every step inserts a dispatch, fails one, does a quiet operation, or leaves the
\* store alone.
LEMMA StepKinds ==
    ASSUME TypeOK, Next
    PROVE  \/ \E t \in Task, x \in Terminal : DispatchNext(t, x)
           \/ InsertsAndDies
           \/ FailOp
           \/ QuietOp
           \/ UNCHANGED contextVars
<1> USE DEF QuietOp, FailOp, contextVars
<1>0. ASSUME inbox # <<>>
      PROVE  Head(inbox).task \in Task
  <2>1. Head(inbox) \in Message
    BY <1>0, HeadTailProperties DEF TypeOK
  <2>2. QED
    BY <2>1 DEF Message
<1>1. CASE CoordinatorStep
  <2>1. CASE Wake \/ NoTerminalListed \/ PromptSent \/ TickEnds
    BY <2>1 DEF Wake, NoTerminalListed, PromptSent, TickEnds
  <2>2. CASE HandleMessage
    BY <1>0, <2>2 DEF HandleMessage, handleEscalation
  <2>3. CASE PlanTick
    BY <2>3 DEF PlanTick
  <2>4. CASE \E xs \in SUBSET Terminal : TerminalsListed(xs)
    BY <2>4 DEF TerminalsListed
  <2>5. CASE \E t \in Task, x \in Terminal : DispatchNext(t, x) \/ SkipNext(t, x)
    BY <2>5 DEF SkipNext
  <2>6. CASE PromptFails
    BY <2>6 DEF PromptFails, TypeOK
  <2>7. QED
    BY <1>1, <2>1, <2>2, <2>3, <2>4, <2>5, <2>6 DEF CoordinatorStep
<1>2. CASE Agents
  BY <1>2 DEF Agents, Escalate, AskDecision, Post, WorkerReport, failActiveDispatchOnExit
<1>3. CASE People
  BY <1>3 DEF People, TaskCreate, GateCreate, GateResolve, CoordinatorRun, CoordinatorRunStop
<1>4. CASE Restart
  BY <1>4 DEF Restart
<1>5. CASE DiesInside
  <2>1. CASE CoordinatorDiesInside
    <3>1. CASE \E t \in todo, x \in free : createDispatchContextTorn(t, x) /\ phase = "next"
      BY <1>5, <3>1 DEF DiesInside, NewProcess, InsertsAndDies, TypeOK
    <3>2. CASE phase = "messages" /\ inbox # <<>>
      BY <1>0, <2>1, <3>2 DEF CoordinatorDiesInside
    <3>3. QED
      BY <2>1, <3>1, <3>2 DEF CoordinatorDiesInside, TypeOK
  <2>2. CASE OthersDieInside
    BY <2>2 DEF OthersDieInside
  <2>3. QED
    BY <1>5, <2>1, <2>2 DEF DiesInside
<1>6. QED
  BY <1>1, <1>2, <1>3, <1>4, <1>5 DEF Next

-----------------------------------------------------------------------------
\* Orphaned runs.

\* Only CoordinatorRun leaves phase "off", and the row refuses it.
LEMMA OrphanStays ==
    ASSUME Orphaned, [Next]_vars
    PROVE  /\ Orphaned'
           /\ ~ \E t \in Task, x \in Terminal : DispatchNext(t, x)
           /\ ~ InsertsAndDies
<1> USE DEF Orphaned, vars, loopVars, tickVars
<1>1. /\ ~ \E t \in Task, x \in Terminal : DispatchNext(t, x)
      /\ ~ InsertsAndDies
  BY DEF DispatchNext, TakeNext, InsertsAndDies
<1>2. CASE UNCHANGED vars
  BY <1>1, <1>2
<1>3. ~ CoordinatorStep
  BY <1>1 DEF CoordinatorStep, Wake, HandleMessage, PlanTick, TerminalsListed, NoTerminalListed, SkipNext,
              TakeNext, PromptSent, PromptFails, TickEnds
<1>4. CASE Agents
  BY <1>1, <1>4 DEF Agents, Escalate, AskDecision, Post, WorkerReport, failActiveDispatchOnExit
<1>5. CASE People
  BY <1>1, <1>5 DEF People, TaskCreate, GateCreate, GateResolve, CoordinatorRun, CoordinatorRunStop
<1>6. CASE Restart \/ DiesInside
  BY <1>1, <1>6 DEF Restart, DiesInside, NewProcess
<1>7. QED
  BY <1>2, <1>3, <1>4, <1>5, <1>6 DEF Next

Running == {t \in Task : taskStatus[t] = "dispatched"}

\* No operation but a dispatch adds a running task.
LEMMA QuietRunning ==
    ASSUME TypeOK, QuietOp \/ FailOp \/ InsertsAndDies
    PROVE  Running' \subseteq Running
<1> USE DEF TypeOK, StoreTypeOK, Running, storeVars, taskVars
<1>1. CASE \E t \in Task, D \in SUBSET Task : createTask(t, D) /\ UNCHANGED gateVars
  BY <1>1 DEF createTask
<1>2. CASE \E t \in Task : \/ createGate(t) \/ createGateTorn(t)
                           \/ resolveGate(t) \/ resolveGateTorn(t) \/ resolveGateAgain(t)
  BY <1>2 DEF createGate, createGateTorn, resolveGate, resolveGateTorn, resolveGateAgain
<1>3. CASE \E B \in SUBSET Task : blockTasks(B)
  BY <1>3 DEF blockTasks
<1>4. CASE \E d \in Dispatch, o \in {"succeeded", "failed"} :
              settleWorkerReport(d, o) /\ UNCHANGED gateVars
  BY <1>4 DEF settleWorkerReport, promoteReadyTasks
<1>5. CASE FailOp
  BY <1>5 DEF FailOp, failDispatch, failDispatchTorn
<1>6. CASE InsertsAndDies
  BY <1>6 DEF InsertsAndDies, createDispatchContextTorn
<1>7. QED
  BY <1>1, <1>2, <1>3, <1>4, <1>5, <1>6 DEF QuietOp

\* Once a daemon has died in the middle of a run, the run's row never ends and
\* no task is ever dispatched by a coordinator again, though tasks are created
\* and become ready: the process that starts next adopts no row, and the row it
\* finds refuses every other run.
OrphanIsForEver ==
    [][Orphaned => Orphaned' /\ Running' \subseteq Running]_vars

THEOREM OrphanedRunTheorem ==
    SafeSpec => OrphanIsForEver
<1>1. TypeOK /\ [Next]_vars => [Orphaned => Orphaned' /\ Running' \subseteq Running]_vars
  <2> SUFFICES ASSUME TypeOK, [Next]_vars, Orphaned
               PROVE  Orphaned' /\ Running' \subseteq Running
      OBVIOUS
  <2>1. Orphaned' /\ ~ \E t \in Task, x \in Terminal : DispatchNext(t, x)
    BY OrphanStays
  <2>2. CASE UNCHANGED contextVars
    BY <2>1, <2>2 DEF Running, contextVars, storeVars, taskVars
  <2>3. CASE QuietOp \/ FailOp \/ InsertsAndDies
    BY <2>1, <2>3, QuietRunning
  <2>4. CASE UNCHANGED vars
    BY <2>2, <2>4 DEF vars
  <2>5. QED
    BY <2>1, <2>2, <2>3, <2>4, StepKinds
<1>2. QED
  BY <1>1, CoordinatorTypeCorrect, PTL DEF SafeSpec, OrphanIsForEver

-----------------------------------------------------------------------------
\* The concurrency bound.

\* The slots still to be used never exceed what is free, though they were
\* counted when the tick began.
SlotsAreFree == Cardinality(Running) + slots <= MaxConcurrent

LEMMA RunningIsFinite ==
    /\ IsFiniteSet(Running) /\ Cardinality(Running) \in Nat
    /\ \A S \in SUBSET Running : Cardinality(S) \in Nat /\ Cardinality(S) <= Cardinality(Running)
<1>1. IsFiniteSet(Running)
  BY CoordinatorAssumption, FS_Subset DEF Running, CoordinatorAssumption
<1>2. QED
  BY <1>1, FS_Subset, FS_CardinalityType

\* Outside PlanTick slots are only used up or given back.
LEMMA SlotsStep ==
    ASSUME TypeOK, Next, ~ PlanTick
    PROVE  slots' <= slots
<1> USE CoordinatorAssumption DEF CoordinatorAssumption, TypeOK, tickVars, EndTick, DropTick, TakeNext, Post
<1>1. CASE CoordinatorStep
  BY <1>1 DEF CoordinatorStep, Wake, HandleMessage, TerminalsListed, NoTerminalListed, DispatchNext,
              SkipNext, PromptSent, PromptFails, TickEnds
<1>2. CASE Agents
  <2>1. slots' = slots
    BY <1>2 DEF Agents, Escalate, AskDecision, WorkerReport, failActiveDispatchOnExit
  <2>2. QED
    BY <2>1
<1>3. CASE People
  BY <1>3 DEF People, TaskCreate, GateCreate, GateResolve, CoordinatorRun, CoordinatorRunStop
<1>4. CASE Restart \/ DiesInside
  BY <1>4 DEF Restart, DiesInside, NewProcess
<1>5. QED
  BY <1>1, <1>2, <1>3, <1>4 DEF Next

LEMMA SlotsAreFreeStep ==
    ASSUME TypeOK, SlotsAreFree, [Next]_vars
    PROVE  SlotsAreFree'
<1> USE CoordinatorAssumption, RunningIsFinite DEF CoordinatorAssumption
<1>0. slots \in Nat /\ slots' \in Nat
  BY TypeStepLemma DEF TypeOK
<1>1. CASE UNCHANGED vars
  BY <1>1 DEF vars, contextVars, storeVars, taskVars, tickVars, SlotsAreFree, Running
<1>2. ASSUME NEW t \in Task, NEW x \in Terminal, DispatchNext(t, x)
      PROVE  SlotsAreFree'
  <2>1. /\ taskStatus[t] = "ready" /\ taskStatus' = [taskStatus EXCEPT ![t] = "dispatched"]
        /\ slots' = slots - 1
    BY <1>2 DEF DispatchNext, TakeNext, createDispatchContext, insertDispatch
  <2>2. Running' = Running \cup {t} /\ t \notin Running
    BY <2>1 DEF Running, TypeOK, StoreTypeOK
  <2>3. Cardinality(Running') = Cardinality(Running) + 1
    BY <2>2, FS_AddElement
  <2>4. QED
    BY <1>0, <2>1, <2>3 DEF SlotsAreFree
<1>3. CASE Next /\ ~ (\E t \in Task, x \in Terminal : DispatchNext(t, x))
  <2>1. Running' \subseteq Running
    <3>1. CASE UNCHANGED contextVars
      BY <3>1 DEF contextVars, storeVars, taskVars, Running
    <3>2. QED
      BY <1>3, <3>1, StepKinds, QuietRunning
  <2>2. Cardinality(Running') \in Nat /\ Cardinality(Running') <= Cardinality(Running)
    BY <2>1
  <2>3. CASE PlanTick
    <3>1. PICK ts : taskStatus' = ts /\ (EndTick(ts) \/ slots' = Slots(ts))
      BY <2>3 DEF PlanTick
    <3>2. CASE slots' = 0
      BY <1>0, <2>2, <3>2 DEF SlotsAreFree
    <3>3. CASE slots' = Slots(ts)
      <4>1. slots' = MaxConcurrent - Cardinality(Running')
        BY <3>1, <3>3 DEF Slots, Running
      <4>2. QED
        BY <2>2, <4>1 DEF SlotsAreFree
    <3>4. QED
      BY <3>1, <3>2, <3>3 DEF EndTick, DropTick
  <2>4. CASE ~ PlanTick
    BY <1>0, <1>3, <2>2, <2>4, SlotsStep DEF SlotsAreFree
  <2>5. QED
    BY <2>3, <2>4
<1>4. QED
  BY <1>1, <1>2, <1>3

\* The coordinator never has more tasks dispatched than it may, whatever
\* happens to its tasks between the count and the dispatches.
THEOREM ConcurrencyTheorem ==
    SafeSpec => []ConcurrencyBound
<1>1. Init => SlotsAreFree
  <2>1. Init => Running = {} /\ slots = 0
    BY DEF Init, StoreInit, NoTick, Running
  <2>2. QED
    BY <2>1, FS_EmptySet, CoordinatorAssumption DEF SlotsAreFree, CoordinatorAssumption
<1>2. TypeOK /\ SlotsAreFree /\ [Next]_vars => SlotsAreFree'
  BY SlotsAreFreeStep
<1>3. TypeOK /\ SlotsAreFree => ConcurrencyBound
  BY RunningIsFinite, CoordinatorAssumption
     DEF SlotsAreFree, ConcurrencyBound, Running, TypeOK, CoordinatorAssumption
<1>4. QED
  BY <1>1, <1>2, <1>3, CoordinatorTypeCorrect, PTL DEF SafeSpec

-----------------------------------------------------------------------------
\* Tasks none of whose gates was resolved.
Ungated(t) == closedGates[t] = 0

Waiting(t) == taskStatus[t] \in {"absent", "pending", "ready"}

Attempts(t) == {d \in Dispatch : dispatchTask[d] = t}

\* The failures that led to another attempt: the last one, that breaks the
\* circuit, did not.
Retried(t) == IF priorFailures(t) = BreakerThreshold THEN BreakerThreshold - 1 ELSE priorFailures(t)

\* The dispatch whose prompt the coordinator types is the last one of all.
SendingIsLast == sending # NoDispatch => sending = nDispatch

ActiveIsLatest == \A d \in Dispatch : Active(d) /\ Ungated(dispatchTask[d]) => IsLatest(d)

\* The last dispatch of a task carries the failures of all of them.
LatestCarriesFailures ==
    \A t \in Task : Ungated(t) =>
        \A d, e \in Attempts(t) : IsLatest(d) => failures[e] <= failures[d]

\* Each attempt but one was followed by a failure that let the task be retried.
AttemptsPaid ==
    \A t \in Task : Ungated(t) => Cardinality(Attempts(t)) <= Retried(t) + 1

\* A task that waits for a dispatch has no agent, and no attempt in addition.
WaitingIsFree ==
    /\ \A d \in Dispatch : Active(d) /\ Ungated(dispatchTask[d]) => ~ Waiting(dispatchTask[d])
    /\ \A t \in Task : Ungated(t) /\ Waiting(t) => Cardinality(Attempts(t)) <= Retried(t)

\* WaitingIsFree is what a process that dies with a dispatch inserted breaks; it
\* leaves an orphaned run, and nothing is dispatched any more.
ChainInv == /\ TypeOK
            /\ SendingIsLast
            /\ ActiveIsLatest
            /\ LatestCarriesFailures
            /\ AttemptsPaid
            /\ Orphaned \/ WaitingIsFree

-----------------------------------------------------------------------------
\* Facts about the counts.

\* What priorFailures finds among a task's dispatches, now and after a step.
LEMMA PriorFailuresFacts ==
    ASSUME StoreTypeOK, NEW t
    PROVE  /\ priorFailures(t) \in 0..3
           /\ \A d \in Attempts(t) : failures[d] <= priorFailures(t)
           /\ priorFailures(t) = 0 \/ \E d \in Attempts(t) : priorFailures(t) = failures[d]
<1>1. Attempts(t) \in SUBSET Dispatch /\ failures \in [Dispatch -> 0..BreakerThreshold]
  BY DEF Attempts, StoreTypeOK
<1>2. priorFailures(t) = Max({0} \cup {failures[d] : d \in Attempts(t)})
  BY DEF priorFailures, Attempts
<1>3. BreakerThreshold = 3
  BY DEF BreakerThreshold
<1>4. QED
  BY <1>1, <1>2, <1>3, MostFailures, Zenon

LEMMA PriorFailuresFactsNext ==
    ASSUME StoreTypeOK', NEW t
    PROVE  /\ priorFailures(t)' \in 0..3
           /\ \A d \in Attempts(t)' : failures'[d] <= priorFailures(t)'
           /\ priorFailures(t)' = 0 \/ \E d \in Attempts(t)' : priorFailures(t)' = failures'[d]
<1>1. Attempts(t)' \in SUBSET Dispatch /\ failures' \in [Dispatch -> 0..BreakerThreshold]
  BY DEF Attempts, StoreTypeOK
<1>2. priorFailures(t)' = Max({0} \cup {failures'[d] : d \in Attempts(t)'})
  BY DEF priorFailures, Attempts
<1>3. BreakerThreshold = 3
  BY DEF BreakerThreshold
<1>4. QED
  BY <1>1, <1>2, <1>3, MostFailures, Zenon

LEMMA AttemptsFinite ==
    \A t : /\ IsFiniteSet(Attempts(t)) /\ Cardinality(Attempts(t)) \in Nat
           /\ IsFiniteSet(Attempts(t)') /\ Cardinality(Attempts(t)') \in Nat
<1>1. IsFiniteSet(Dispatch)
  BY FS_Interval, StoreAssumption DEF Dispatch, StoreAssumption
<1>2. QED
  BY <1>1, FS_Subset, FS_CardinalityType DEF Attempts

\* A task whose dispatches and their failures are the same has the same counts.
LEMMA SameCounts ==
    ASSUME NEW t, Attempts(t)' = Attempts(t), \A d \in Attempts(t) : failures'[d] = failures[d]
    PROVE  Retried(t)' = Retried(t)
<1>1. {failures'[d] : d \in Attempts(t)'} = {failures[d] : d \in Attempts(t)}
  OBVIOUS
<1>2. priorFailures(t)' = priorFailures(t)
  BY <1>1 DEF priorFailures, Attempts
<1>3. QED
  BY <1>2 DEF Retried

-----------------------------------------------------------------------------
\* Quiet steps.

\* A quiet operation fails no dispatch and creates none; it makes a task wait only
\* by a gate's resolution.
LEMMA QuietFacts ==
    ASSUME TypeOK, QuietOp
    PROVE  /\ UNCHANGED <<nDispatch, dispatchTask, failures>>
           /\ \A d \in Dispatch : Active(d)' => Active(d)
           /\ \A t \in Task : Ungated(t)' => Ungated(t) /\ (Waiting(t)' => Waiting(t))
<1> DEFINE Goal == /\ UNCHANGED <<nDispatch, dispatchTask, failures>>
                   /\ \A d \in Dispatch : Active(d)' => Active(d)
                   /\ \A t \in Task : Ungated(t)' => Ungated(t) /\ (Waiting(t)' => Waiting(t))
<1> USE DEF TypeOK, StoreTypeOK, GateTypeOK, Ungated, Waiting, Active, taskVars, dispatchVars, workerVars,
        gateVars, storeVars, identityVars
<1>1. CASE \E t \in Task, D \in SUBSET Task : createTask(t, D) /\ UNCHANGED gateVars
  BY <1>1 DEF createTask
<1>2. ASSUME NEW t \in Task, createGate(t) \/ createGateTorn(t)
      PROVE  Goal
  <2>1. \A d \in Dispatch : Active(d)' => Active(d)
    BY <1>2 DEF createGate, createGateTorn, completeActiveDispatchForTask
  <2>2. UNCHANGED <<nDispatch, dispatchTask, failures>>
    BY <1>2 DEF createGate, createGateTorn, completeActiveDispatchForTask
  <2>3. QED
    BY <1>2, <2>1, <2>2 DEF createGate, createGateTorn
<1>3. ASSUME NEW t \in Task, resolveGate(t) \/ resolveGateTorn(t) \/ resolveGateAgain(t)
      PROVE  Goal
  BY <1>3 DEF resolveGate, resolveGateTorn, resolveGateAgain
<1>4. CASE \E B \in SUBSET Task : blockTasks(B)
  BY <1>4 DEF blockTasks
<1>5. ASSUME NEW d \in Dispatch, NEW o \in {"succeeded", "failed"}, settleWorkerReport(d, o),
             UNCHANGED gateVars
      PROVE  Goal
  BY <1>5 DEF settleWorkerReport, promoteReadyTasks
<1>6. QED
  BY <1>1, <1>2, <1>3, <1>4, <1>5 DEF QuietOp


LEMMA QuietChain ==
    ASSUME ChainInv, Orphaned => Orphaned',
           UNCHANGED <<nDispatch, dispatchTask, failures>>,
           \A d \in Dispatch : Active(d)' => Active(d),
           \A t \in Task : Ungated(t)' => Ungated(t) /\ (Waiting(t)' => Waiting(t))
    PROVE  /\ ActiveIsLatest' /\ LatestCarriesFailures' /\ AttemptsPaid'
           /\ (Orphaned \/ WaitingIsFree)'
<1> USE DEF ChainInv
<1>1. \A d \in Dispatch : Active(d) => dispatchTask[d] \in Task
  BY DEF TypeOK, StoreTypeOK, Active
<1>2. \A t \in Task : Attempts(t)' = Attempts(t) /\ Retried(t)' = Retried(t)
  BY SameCounts DEF Attempts
<1>3. \A d \in Dispatch : IsLatest(d)' <=> IsLatest(d)
  BY DEF IsLatest
<1>4. ActiveIsLatest'
  <2> SUFFICES ASSUME NEW d \in Dispatch, Active(d)', Ungated(dispatchTask[d])'
               PROVE  IsLatest(d)'
      BY DEF ActiveIsLatest
  <2>1. Active(d) /\ dispatchTask[d] \in Task /\ dispatchTask'[d] = dispatchTask[d]
    BY <1>1
  <2>2. Ungated(dispatchTask[d])
    BY <2>1 DEF Ungated
  <2>3. QED
    BY <1>3, <2>1, <2>2 DEF ActiveIsLatest
<1>5. LatestCarriesFailures'
  <2> SUFFICES ASSUME NEW t \in Task, Ungated(t)', NEW d \in Attempts(t), NEW e \in Attempts(t), IsLatest(d)
               PROVE  failures'[e] <= failures'[d]
      BY <1>2, <1>3 DEF LatestCarriesFailures, Attempts
  <2>1. Ungated(t)
    OBVIOUS
  <2>2. QED
    BY <2>1 DEF LatestCarriesFailures
<1>6. AttemptsPaid'
  BY <1>2 DEF AttemptsPaid
<1>7. (Orphaned \/ WaitingIsFree)'
  <2>1. ASSUME WaitingIsFree
        PROVE  WaitingIsFree'
    <3>1. ASSUME NEW d \in Dispatch, Active(d)', Ungated(dispatchTask[d])'
          PROVE  ~ Waiting(dispatchTask[d])'
      <4>1. Active(d) /\ dispatchTask[d] \in Task /\ dispatchTask'[d] = dispatchTask[d]
        BY <1>1, <3>1
      <4>2. /\ Ungated(dispatchTask[d])
            /\ Waiting(dispatchTask[d])' => Waiting(dispatchTask[d])
        BY <3>1, <4>1 DEF Ungated, Waiting
      <4>3. QED
        BY <2>1, <4>1, <4>2 DEF WaitingIsFree
    <3>2. \A t \in Task : Ungated(t)' /\ Waiting(t)' => Cardinality(Attempts(t)') <= Retried(t)'
      BY <1>2, <2>1 DEF WaitingIsFree
    <3>3. QED
      BY <3>1, <3>2 DEF WaitingIsFree
  <2>2. QED
    BY <2>1
<1>8. QED
  BY <1>4, <1>5, <1>6, <1>7

-----------------------------------------------------------------------------
\* Failures.

\* A failure of the last dispatch pays for the next one, or ends the task; what a
\* gate's resolution let through is of no concern.
LEMMA FailChain ==
    ASSUME ChainInv, StoreTypeOK', Orphaned => Orphaned', UNCHANGED gateVars,
           NEW d \in Dispatch, Ungated(dispatchTask[d]) => IsLatest(d),
           failDispatch(d) \/ failDispatchTorn(d)
    PROVE  /\ ActiveIsLatest' /\ LatestCarriesFailures' /\ AttemptsPaid'
           /\ (Orphaned \/ WaitingIsFree)'
<1> USE DEF ChainInv
<1>0. PICK t \in Task : t = dispatchTask[d]
  BY DEF failDispatch, failDispatchTorn, updateFailedDispatch, TypeOK, StoreTypeOK
<1>1. /\ dispatchTask' = dispatchTask
      /\ failures[d] \in 0..3
      /\ failures'[d] = IF failures[d] + 1 >= 3 THEN 3 ELSE failures[d] + 1
      /\ \A e \in Dispatch : e # d => failures'[e] = failures[e]
      /\ \A e \in Dispatch : Active(e)' => Active(e) /\ e # d
  BY DEF failDispatch, failDispatchTorn, updateFailedDispatch, identityVars, BreakerThreshold, TypeOK,
     StoreTypeOK, Active
<1>2. /\ \A c \in Task : c # t => taskStatus'[c] = taskStatus[c]
      /\ \/ taskStatus'[t] = taskStatus[t]
         \/ taskStatus'[t] = "failed"
         \/ taskStatus'[t] = "ready" /\ failures[d] + 1 < 3
  BY <1>0, <1>1 DEF failDispatch, failDispatchTorn, BreakerThreshold, TypeOK, StoreTypeOK
<1>3. \A c : (Ungated(c)' <=> Ungated(c)) /\ Attempts(c)' = Attempts(c)
  BY <1>1 DEF Ungated, gateVars, Attempts
<1>4. \A e \in Dispatch : /\ IsLatest(e)' <=> IsLatest(e)
                          /\ Active(e) => dispatchTask[e] \in Task
                          /\ failures[e] \in Int /\ failures'[e] \in Int
  BY <1>1 DEF IsLatest, TypeOK, StoreTypeOK, Active
<1>5. ActiveIsLatest'
  BY <1>1, <1>3, <1>4 DEF ActiveIsLatest
<1>6. \A c \in Task : c # t => Retried(c)' = Retried(c)
  BY <1>0, <1>1, <1>3, SameCounts DEF Attempts
<1>7. ASSUME Ungated(t)
      PROVE  /\ \A e, f \in Attempts(t) : IsLatest(e) => failures'[f] <= failures'[e]
             /\ Retried(t) \in Nat /\ Retried(t)' \in Nat
             /\ Retried(t)' >= Retried(t)
             /\ failures[d] + 1 < 3 => Retried(t)' = Retried(t) + 1
  <2>1. IsLatest(d) /\ d \in Attempts(t)
    BY <1>0, <1>7 DEF Attempts
  <2>2. \A f \in Attempts(t) : f \in Dispatch /\ failures[f] <= failures[d]
    BY <1>7, <2>1 DEF LatestCarriesFailures, Attempts
  <2>3. \A f \in Attempts(t) : failures'[f] <= failures'[d]
    BY <1>1, <1>4, <2>2
  <2>4. \A e \in Attempts(t) : IsLatest(e) => e = d
    BY <1>0, <2>1, DispatchIds DEF Attempts, IsLatest
  <2>5. priorFailures(t) = failures[d]
    BY <1>1, <2>1, <2>2, PriorFailuresFacts DEF TypeOK
  <2>6. priorFailures(t)' = failures'[d]
    BY <1>1, <1>3, <2>1, <2>3, PriorFailuresFactsNext
  <2>7. /\ Retried(t) = IF failures[d] = 3 THEN 2 ELSE failures[d]
        /\ Retried(t)' = IF failures'[d] = 3 THEN 2 ELSE failures'[d]
    BY <2>5, <2>6 DEF Retried, BreakerThreshold
  <2>8. QED
    BY <1>1, <2>3, <2>4, <2>7
<1>8. LatestCarriesFailures'
  <2> SUFFICES ASSUME NEW c \in Task, Ungated(c), NEW e \in Attempts(c), NEW f \in Attempts(c), IsLatest(e)
               PROVE  failures'[f] <= failures'[e]
      BY <1>3, <1>4 DEF LatestCarriesFailures, Attempts
  <2>1. CASE c = t
    BY <1>7, <2>1
  <2>2. CASE c # t
    <3>1. e \in Dispatch /\ f \in Dispatch /\ e # d /\ f # d
      BY <1>0, <2>2 DEF Attempts
    <3>2. QED
      BY <1>1, <3>1 DEF LatestCarriesFailures
  <2>3. QED
    BY <2>1, <2>2
<1>9. AttemptsPaid'
  <2> SUFFICES ASSUME NEW c \in Task, Ungated(c)
               PROVE  Cardinality(Attempts(c)) <= Retried(c)' + 1
      BY <1>3 DEF AttemptsPaid
  <2>1. Cardinality(Attempts(c)) <= Retried(c) + 1 /\ Cardinality(Attempts(c)) \in Nat
    BY AttemptsFinite DEF AttemptsPaid
  <2>2. CASE c = t
    BY <1>7, <2>1, <2>2
  <2>3. CASE c # t
    BY <1>6, <2>1, <2>3
  <2>4. QED
    BY <2>2, <2>3
<1>10. ASSUME WaitingIsFree
       PROVE  WaitingIsFree'
  <2>1. ASSUME NEW e \in Dispatch, Active(e)', Ungated(dispatchTask[e])
        PROVE  ~ Waiting(dispatchTask[e])'
    <3>1. Active(e) /\ e # d /\ IsLatest(e) /\ ~ Waiting(dispatchTask[e]) /\ dispatchTask[e] \in Task
      BY <1>1, <1>4, <1>10, <2>1 DEF ActiveIsLatest, WaitingIsFree
    <3>2. dispatchTask[e] # t
      BY <1>0, <2>1, <3>1, DispatchIds DEF IsLatest
    <3>3. QED
      BY <1>1, <1>2, <3>1, <3>2 DEF Waiting
  <2>2. ASSUME NEW c \in Task, Ungated(c), Waiting(c)'
        PROVE  Cardinality(Attempts(c)) <= Retried(c)'
    <3>1. /\ Cardinality(Attempts(c)) \in Nat
          /\ Cardinality(Attempts(c)) <= Retried(c) + 1
          /\ Waiting(c) => Cardinality(Attempts(c)) <= Retried(c)
      BY <1>10, <2>2, AttemptsFinite DEF AttemptsPaid, WaitingIsFree
    <3>2. CASE c # t
      BY <1>2, <1>6, <2>2, <3>1, <3>2 DEF Waiting
    <3>3. CASE c = t /\ Waiting(c)
      BY <1>7, <2>2, <3>1, <3>3
    <3>4. CASE c = t /\ ~ Waiting(c)
      <4>1. failures[d] + 1 < 3
        BY <1>2, <2>2, <3>4 DEF Waiting
      <4>2. QED
        BY <1>7, <2>2, <3>1, <3>4, <4>1
    <3>5. QED
      BY <3>2, <3>3, <3>4
  <2>3. QED
    BY <1>1, <1>3, <2>1, <2>2 DEF WaitingIsFree
<1>11. QED
  BY <1>5, <1>8, <1>9, <1>10

-----------------------------------------------------------------------------
\* Dispatches.

\* The next dispatch uses up what was paid, and carries the failures over; the
\* task waits no more, or its run is orphaned.
LEMMA InsertChain ==
    ASSUME ChainInv, ~ Orphaned, StoreTypeOK', NEW t \in Task, NEW x \in Terminal,
           insertDispatch(t, x, "none"), UNCHANGED gateVars,
           \/ taskStatus' = [taskStatus EXCEPT ![t] = "dispatched"]
           \/ Orphaned'
    PROVE  /\ ActiveIsLatest' /\ LatestCarriesFailures' /\ AttemptsPaid'
           /\ (Orphaned \/ WaitingIsFree)'
<1> DEFINE d == nDispatch + 1
<1> USE DispatchIds DEF ChainInv
<1>0. WaitingIsFree
  OBVIOUS
<1>1. /\ d \in Dispatch /\ dispatchTask[d] = NoTask /\ t # NoTask
      /\ taskStatus[t] = "ready"
      /\ dispatchTask' = [dispatchTask EXCEPT ![d] = t]
      /\ failures' = [failures EXCEPT ![d] = priorFailures(t)]
      /\ \A e \in Dispatch : e > d => dispatchTask[e] = NoTask
      /\ \A e \in Dispatch : e # d => (Active(e)' <=> Active(e))
  BY StoreAssumption DEF StoreAssumption, insertDispatch, NextDispatch, TypeOK, StoreTypeOK, Active
<1> HIDE DEF d
<1>2. \A e \in Dispatch : /\ failures[e] \in Int /\ failures'[e] \in Int
                          /\ dispatchTask'[e] = IF e = d THEN t ELSE dispatchTask[e]
                          /\ failures'[e] = IF e = d THEN priorFailures(t) ELSE failures[e]
                          /\ Active(e) => dispatchTask[e] \in Task /\ e # d
  BY <1>1, StoreAssumption DEF TypeOK, StoreTypeOK, Active, StoreAssumption
<1>3. Attempts(t)' = Attempts(t) \cup {d} /\ d \notin Attempts(t)
  BY <1>1, <1>2 DEF Attempts
<1>4. \A c \in Task : c # t => Attempts(c)' = Attempts(c)
  BY <1>1, <1>2, StoreAssumption DEF Attempts, StoreAssumption
<1>5. \A c \in Task : \A e \in Attempts(c) : e \in Dispatch /\ e # d /\ failures'[e] = failures[e]
  BY <1>1, <1>2, StoreAssumption DEF Attempts, StoreAssumption
<1>6. \A c : Ungated(c)' <=> Ungated(c)
  BY DEF Ungated, gateVars
<1>7. \A e \in Dispatch : dispatchTask'[e] = t => e <= d
  BY <1>1, <1>2
<1>8. \A c \in Task, e \in Dispatch : c # t /\ e \in Attempts(c) => (IsLatest(e)' <=> IsLatest(e))
  BY <1>1, <1>2, <1>4, <1>5 DEF IsLatest, Attempts
<1>9. priorFailures(t) \in 0..3 /\ \A e \in Attempts(t) : failures[e] <= priorFailures(t)
  BY PriorFailuresFacts DEF TypeOK
<1>10. ActiveIsLatest'
  <2> SUFFICES ASSUME NEW e \in Dispatch, Active(e)', Ungated(dispatchTask'[e])
               PROVE  IsLatest(e)'
      BY <1>6 DEF ActiveIsLatest
  <2>1. CASE e = d
    BY <1>2, <1>7, <2>1 DEF IsLatest
  <2>2. CASE e # d
    <3>1. Active(e) /\ dispatchTask[e] \in Task /\ dispatchTask'[e] = dispatchTask[e]
      BY <1>1, <1>2, <2>2
    <3>2. IsLatest(e) /\ ~ Waiting(dispatchTask[e])
      BY <1>0, <3>1 DEF ActiveIsLatest, WaitingIsFree
    <3>3. dispatchTask[e] # t
      BY <1>1, <3>2 DEF Waiting
    <3>4. QED
      BY <1>8, <3>1, <3>2, <3>3 DEF Attempts
  <2>3. QED
    BY <2>1, <2>2
<1>11. LatestCarriesFailures'
  <2> SUFFICES ASSUME NEW c \in Task, Ungated(c), NEW e \in Attempts(c)', NEW f \in Attempts(c)', IsLatest(e)'
               PROVE  failures'[f] <= failures'[e]
      BY <1>6 DEF LatestCarriesFailures
  <2>1. CASE c = t
    <3>1. d <= e /\ e <= d /\ e \in Dispatch
      BY <1>1, <1>2, <1>7, <2>1 DEF IsLatest, Attempts
    <3>2. e = d
      BY <1>1, <3>1
    <3>3. f = d \/ f \in Attempts(t)
      BY <1>3, <2>1
    <3>4. QED
      BY <1>2, <1>5, <1>9, <3>2, <3>3, <1>1
  <2>2. CASE c # t
    <3>1. e \in Attempts(c) /\ f \in Attempts(c)
      BY <1>4, <2>2
    <3>2. IsLatest(e)
      BY <1>5, <1>8, <2>2, <3>1
    <3>3. QED
      BY <1>5, <3>1, <3>2 DEF LatestCarriesFailures
  <2>3. QED
    BY <2>1, <2>2
<1>12. priorFailures(t)' = priorFailures(t)
  <2>1. failures'[d] = priorFailures(t) /\ d \in Attempts(t)'
    BY <1>1, <1>2, <1>3
  <2>2. \A e \in Attempts(t)' : failures'[e] <= priorFailures(t)
    BY <1>3, <1>5, <1>9, <2>1
  <2>3. QED
    BY <1>9, <2>1, <2>2, PriorFailuresFactsNext
<1>13. /\ Retried(t)' = Retried(t) /\ Retried(t) \in Nat
       /\ \A c \in Task : c # t => Retried(c)' = Retried(c)
  <2>1. \A c \in Task : c # t => Retried(c)' = Retried(c)
    BY <1>4, <1>5, SameCounts
  <2>2. QED
    BY <1>9, <1>12, <2>1 DEF Retried, BreakerThreshold
<1>14. AttemptsPaid'
  <2> SUFFICES ASSUME NEW c \in Task, Ungated(c)
               PROVE  Cardinality(Attempts(c)') <= Retried(c)' + 1
      BY <1>6 DEF AttemptsPaid
  <2>1. CASE c = t
    <3>1. Cardinality(Attempts(t)') = Cardinality(Attempts(t)) + 1
      BY <1>3, AttemptsFinite, FS_AddElement
    <3>2. Cardinality(Attempts(t)) <= Retried(t) /\ Cardinality(Attempts(t)) \in Nat
      BY <1>0, <1>1, <2>1, AttemptsFinite DEF WaitingIsFree, Waiting
    <3>3. QED
      BY <1>13, <2>1, <3>1, <3>2
  <2>2. CASE c # t
    BY <1>4, <1>13, <2>2 DEF AttemptsPaid
  <2>3. QED
    BY <2>1, <2>2
<1>15. ASSUME taskStatus' = [taskStatus EXCEPT ![t] = "dispatched"]
       PROVE  WaitingIsFree'
  <2>1. \A c \in Task : Waiting(c)' => c # t /\ Waiting(c)
    BY <1>15 DEF Waiting, TypeOK, StoreTypeOK
  <2>2. ASSUME NEW e \in Dispatch, Active(e)', Ungated(dispatchTask'[e])
        PROVE  ~ Waiting(dispatchTask[e])'
    <3>1. CASE e = d
      BY <1>2, <2>1, <3>1 DEF Waiting
    <3>2. CASE e # d
      <4>1. Active(e) /\ dispatchTask[e] \in Task /\ dispatchTask'[e] = dispatchTask[e]
        BY <1>1, <1>2, <2>2, <3>2
      <4>2. ~ Waiting(dispatchTask[e])
        BY <1>0, <2>2, <4>1 DEF WaitingIsFree
      <4>3. QED
        BY <2>1, <4>1, <4>2 DEF Waiting
    <3>3. QED
      BY <3>1, <3>2
  <2>3. \A c \in Task : Ungated(c) /\ Waiting(c)' => Cardinality(Attempts(c)') <= Retried(c)'
    BY <1>0, <1>4, <1>13, <2>1 DEF WaitingIsFree
  <2>4. QED
    BY <1>6, <2>2, <2>3 DEF WaitingIsFree
<1>16. QED
  BY <1>10, <1>11, <1>14, <1>15

-----------------------------------------------------------------------------
\* All steps.

LEMMA SendingStep ==
    ASSUME TypeOK, SendingIsLast, [Next]_vars
    PROVE  SendingIsLast'
<1> USE DEF SendingIsLast, tickVars
<1>0. TypeOK'
  BY TypeStepLemma
<1>1. CASE UNCHANGED vars
  BY <1>1 DEF vars, contextVars, storeVars, dispatchVars
<1>2. CASE \E t \in Task, x \in Terminal : DispatchNext(t, x)
  BY <1>2 DEF DispatchNext, createDispatchContext, insertDispatch, NextDispatch
<1>3. CASE Next /\ ~ \E t \in Task, x \in Terminal : DispatchNext(t, x)
  <2>1. CASE phase' = "off"
    BY <1>0, <2>1 DEF TypeOK
  <2>2. CASE phase' # "off"
    <3>1. ~ InsertsAndDies
      BY <2>2 DEF InsertsAndDies
    <3>2. nDispatch' = nDispatch
      <4>1. CASE FailOp
        BY <4>1 DEF FailOp, failDispatch, failDispatchTorn, updateFailedDispatch, identityVars
      <4>2. CASE QuietOp
        BY <4>2, QuietFacts
      <4>3. CASE UNCHANGED contextVars
        BY <4>3 DEF contextVars, storeVars, dispatchVars
      <4>4. QED
        BY <1>3, <3>1, <4>1, <4>2, <4>3, StepKinds
    <3>3. sending' \in {sending, NoDispatch}
      <4>1. CASE CoordinatorStep
        BY <1>3, <4>1 DEF CoordinatorStep, Wake, HandleMessage, PlanTick, TerminalsListed, NoTerminalListed,
                    SkipNext, TakeNext, PromptSent, PromptFails, TickEnds, EndTick, DropTick
      <4>2. CASE Agents
        BY <4>2 DEF Agents, Escalate, AskDecision, Post, WorkerReport, failActiveDispatchOnExit
      <4>3. CASE People
        BY <4>3 DEF People, TaskCreate, GateCreate, GateResolve, CoordinatorRun, CoordinatorRunStop
      <4>4. CASE Restart \/ DiesInside
        BY <4>4 DEF Restart, DiesInside, NewProcess, DropTick
      <4>5. QED
        BY <1>3, <4>1, <4>2, <4>3, <4>4 DEF Next
    <3>4. QED
      BY <3>2, <3>3
  <2>3. QED
    BY <2>1, <2>2
<1>4. QED
  BY <1>1, <1>2, <1>3

LEMMA ChainInvInit == Init => ChainInv
<1> SUFFICES ASSUME Init
             PROVE  ChainInv
    OBVIOUS
<1>1. TypeOK
  BY TypeInit
<1>2. \A d \in Dispatch : ~ Active(d) /\ dispatchTask[d] = NoTask
  BY DEF Init, StoreInit, Active
<1>3. \A t \in Task : Attempts(t) = {}
  BY <1>2, StoreAssumption DEF Attempts, StoreAssumption
<1>4. \A t \in Task : Cardinality(Attempts(t)) = 0 /\ Retried(t) \in Nat
  <2> TAKE t \in Task
  <2>1. priorFailures(t) \in 0..3
    BY <1>1, PriorFailuresFacts DEF TypeOK
  <2>2. QED
    BY <1>3, <2>1, FS_EmptySet DEF Retried, BreakerThreshold
<1>5. SendingIsLast /\ ActiveIsLatest /\ LatestCarriesFailures
  BY <1>2, <1>3 DEF SendingIsLast, Init, NoTick, ActiveIsLatest, LatestCarriesFailures
<1>6. AttemptsPaid /\ WaitingIsFree
  BY <1>2, <1>4 DEF AttemptsPaid, WaitingIsFree
<1>7. QED
  BY <1>1, <1>5, <1>6 DEF ChainInv

LEMMA ChainInvStep ==
    ASSUME ChainInv, [Next]_vars
    PROVE  ChainInv'
<1> USE DEF ChainInv
<1>1. TypeOK' /\ SendingIsLast'
  BY TypeStepLemma, SendingStep
<1>2. StoreTypeOK' /\ (Orphaned => Orphaned')
  BY <1>1, OrphanStays DEF TypeOK
<1> DEFINE Rest == /\ ActiveIsLatest' /\ LatestCarriesFailures' /\ AttemptsPaid'
                   /\ (Orphaned \/ WaitingIsFree)'
<1>3. CASE UNCHANGED contextVars
  <2>1. /\ UNCHANGED <<nDispatch, dispatchTask, failures>>
        /\ \A d \in Dispatch : Active(d)' => Active(d)
        /\ \A t \in Task : Ungated(t)' => Ungated(t) /\ (Waiting(t)' => Waiting(t))
    BY <1>3 DEF contextVars, storeVars, taskVars, dispatchVars, gateVars, Active, Ungated, Waiting
  <2>2. QED
    BY <1>1, <1>2, <2>1, QuietChain
<1>4. CASE QuietOp
  <2>1. Rest
    BY <1>2, <1>4, QuietFacts, QuietChain
  <2>2. QED
    BY <1>1, <2>1
<1>5. CASE FailOp
  <2>1. PICK d \in Dispatch : /\ Active(d) \/ IsLatest(d) \/ d = sending
                              /\ failDispatch(d) \/ failDispatchTorn(d)
                              /\ UNCHANGED gateVars
    BY <1>5 DEF FailOp
  <2>2. CASE Active(d) \/ IsLatest(d)
    <3>1. Ungated(dispatchTask[d]) => IsLatest(d)
      BY <2>2 DEF ActiveIsLatest
    <3>2. QED
      BY <1>1, <1>2, <2>1, <3>1, FailChain
  <2>3. CASE d = sending
    <3>1. d = nDispatch
      BY <2>3 DEF SendingIsLast, Dispatch, NoDispatch
    <3>2. \A e \in Dispatch : e > d => dispatchTask[e] = NoTask
      BY <3>1 DEF TypeOK, StoreTypeOK
    <3>3. IsLatest(d)
      BY <3>1, <3>2, DispatchIds DEF IsLatest, TypeOK, StoreTypeOK
    <3>4. QED
      BY <1>1, <1>2, <2>1, <3>3, FailChain
  <2>4. QED
    BY <2>1, <2>2, <2>3
<1>6. CASE \E t \in Task, x \in Terminal : DispatchNext(t, x)
  <2>1. PICK t \in Task, x \in Terminal : DispatchNext(t, x)
    BY <1>6
  <2>2. /\ insertDispatch(t, x, "none") /\ UNCHANGED gateVars
        /\ taskStatus' = [taskStatus EXCEPT ![t] = "dispatched"]
        /\ ~ Orphaned
    BY <2>1 DEF DispatchNext, createDispatchContext, TakeNext, Orphaned
  <2>3. QED
    BY <1>1, <1>2, <2>2, InsertChain
<1>7. CASE InsertsAndDies
  <2>1. PICK t \in Task, x \in Terminal : createDispatchContextTorn(t, x)
    BY <1>7 DEF InsertsAndDies
  <2>2. /\ insertDispatch(t, x, "none") /\ UNCHANGED gateVars
        /\ ~ Orphaned /\ Orphaned'
    BY <1>7, <2>1 DEF createDispatchContextTorn, InsertsAndDies, Orphaned, TypeOK
  <2>3. QED
    BY <1>1, <1>2, <2>2, InsertChain
<1>8. CASE UNCHANGED vars
  BY <1>3, <1>8 DEF vars
<1>9. QED
  BY <1>3, <1>4, <1>5, <1>6, <1>7, <1>8, StepKinds

\* Of a task none of whose gates was resolved, the active dispatch is the last
\* one, the last one carries the failures of all, and each attempt but one was
\* paid for by a failure; a task that waits has no agent, except that of a process
\* that died with a dispatch inserted, whose run is orphaned.
THEOREM ChainInvariant ==
    SafeSpec => []ChainInv
<1>1. Init => ChainInv
  BY ChainInvInit
<1>2. ChainInv /\ [Next]_vars => ChainInv'
  BY ChainInvStep
<1>3. QED
  BY <1>1, <1>2, PTL DEF SafeSpec

\* Two agents are on one task only after a gate of it was resolved.
THEOREM SecondAgentTheorem ==
    SafeSpec => []SecondAgentOnlyAfterGate
<1>1. ChainInv => SecondAgentOnlyAfterGate
  <2> SUFFICES ASSUME ChainInv, NEW d \in Dispatch, NEW e \in Dispatch, Active(d), Active(e), d # e,
                      dispatchTask[d] = dispatchTask[e]
               PROVE  closedGates[dispatchTask[d]] > 0
      BY DEF SecondAgentOnlyAfterGate
  <2>1. dispatchTask[d] \in Task /\ closedGates[dispatchTask[d]] \in Nat
    BY DEF Active, ChainInv, TypeOK, StoreTypeOK, GateTypeOK
  <2>2. ~ (IsLatest(d) /\ IsLatest(e))
    BY DispatchIds DEF IsLatest
  <2>3. ~ Ungated(dispatchTask[d])
    BY <2>2 DEF ChainInv, ActiveIsLatest
  <2>4. QED
    BY <2>1, <2>3 DEF Ungated
<1>2. QED
  BY <1>1, ChainInvariant, PTL

\* A task none of whose gates was resolved is attempted at most three times: the
\* failures are carried from dispatch to dispatch, and only a failure below the
\* threshold lets the task be dispatched again.
THEOREM AttemptsTheorem ==
    SafeSpec => []AttemptsBounded
<1>1. ChainInv => AttemptsBounded
  <2> SUFFICES ASSUME ChainInv, NEW t \in Task, closedGates[t] = 0
               PROVE  Cardinality(Attempts(t)) <= BreakerThreshold
      BY DEF AttemptsBounded, Attempts
  <2>1. priorFailures(t) \in 0..3
    BY PriorFailuresFacts DEF ChainInv, TypeOK
  <2>2. Cardinality(Attempts(t)) <= Retried(t) + 1 /\ Cardinality(Attempts(t)) \in Nat
    BY AttemptsFinite DEF ChainInv, AttemptsPaid, Ungated
  <2>3. QED
    BY <2>1, <2>2 DEF Retried, BreakerThreshold
<1>2. QED
  BY <1>1, ChainInvariant, PTL
=============================================================================
