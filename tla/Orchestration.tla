---------------------------- MODULE Orchestration ----------------------------
(***************************************************************************)
(* Everything that works on the orchestration store at once: supervised    *)
(* workers (SupervisedWorker), and the commands by which a coordinating    *)
(* agent or a person dispatches, edits tasks and pauses them by hand       *)
(* (rpc/methods/orchestration/dispatch.ts, tasks.ts, gates.ts).  The two   *)
(* sides share tasks, dispatches and terminals, and neither knows of the   *)
(* other.  The by-hand operations are not transactions, so a process may   *)
(* also die in the middle of one.                                          *)
(***************************************************************************)
EXTENDS SupervisedWorker, DispatchContext

CONSTANTS MaxGate,        \* bound: decision gates created in one behaviour
          UpdateStatus    \* bound: the statuses task-update is given

ASSUME GateAssumption == MaxGate \in Nat
ASSUME UpdateAssumption == UpdateStatus \subseteq TaskStatus

VARIABLE injecting   \* dispatches whose prompt a dispatch command is typing

orchestrationVars == <<vars, gateVars, injecting>>

OrchestrationTypeOK == /\ TypeOK
                       /\ GateTypeOK
                       /\ injecting \in SUBSET (1..nDispatch)

OrchestrationInit == Init /\ GateInit /\ injecting = {}

-----------------------------------------------------------------------------
\* The dispatch command.  With --inject it mints a capability and types the
\* prompt; without, the prompt is up to the caller.
DispatchCommand(t, x, inject) ==
    /\ createDispatchContext(t, x, IF inject THEN "live" ELSE "none")
    /\ injecting' = IF inject THEN injecting \cup {NextDispatch} ELSE injecting
    /\ UNCHANGED callVars

InjectSent(d) ==
    /\ d \in injecting
    /\ injecting' = injecting \ {d}
    /\ UNCHANGED <<contextVars, callVars>>

\* What became of the dispatch while its prompt was typed is not looked at.
InjectFails(d) ==
    /\ d \in injecting
    /\ failDispatch(d)
    /\ injecting' = injecting \ {d}
    /\ UNCHANGED <<gateVars, callVars>>

TaskUpdate(t, s) == updateTaskStatus(t, s) /\ UNCHANGED <<callVars, injecting>>

GateCreate(t) ==
    /\ GateRows < MaxGate
    /\ createGate(t)
    /\ UNCHANGED <<callVars, injecting>>

GateResolve(t) ==
    /\ resolveGate(t) \/ resolveGateAgain(t)
    /\ UNCHANGED <<callVars, injecting>>

-----------------------------------------------------------------------------
RestartAll == Restart /\ injecting' = {} /\ UNCHANGED gateVars

\* The process dies between two statements of an operation.
DiesInside ==
    /\ \/ \E t \in Task : \/ \E x \in Terminal : createDispatchContextTorn(t, x)
                          \/ updateTaskStatusTorn(t)
                          \/ GateRows < MaxGate /\ createGateTorn(t)
                          \/ resolveGateTorn(t)
       \/ \E d \in Dispatch : /\ d \in injecting \/ (Active(d) /\ assignee[d] # NoTerminal)
                              /\ failDispatchTorn(d)
                              /\ UNCHANGED gateVars
    /\ NewProcess
    /\ injecting' = {}

-----------------------------------------------------------------------------
ByHand ==
    \/ \E t \in Task : \/ \E x \in Terminal, inject \in BOOLEAN : DispatchCommand(t, x, inject)
                       \/ \E s \in UpdateStatus : TaskUpdate(t, s)
                       \/ GateCreate(t)
                       \/ GateResolve(t)
    \/ \E d \in Dispatch : InjectSent(d) \/ InjectFails(d)

OrchestrationNext ==
    \/ Supervised /\ UNCHANGED <<gateVars, injecting>>
    \/ ByHand
    \/ RestartAll
    \/ DiesInside

OrchestrationSpec == OrchestrationInit /\ [][OrchestrationNext]_orchestrationVars

-----------------------------------------------------------------------------
(***************************************************************************)
(* Properties                                                              *)
(***************************************************************************)

\* An ended dispatch is never active again, though its end may be rewritten
\* and its task may be given to another agent.
NeverActiveAgain ==
    [][\A d \in 1..nDispatch : ~ Active(d) => ~ Active(d)']_orchestrationVars

\* The terminal lock of createDispatchContext: two active dispatches share a
\* terminal only if a supervised worker was started there.
ByHandRespectsTerminalLock ==
    \A d, e \in Dispatch :
        /\ Active(d) /\ Active(e) /\ d # e
        /\ assignee[d] = assignee[e] /\ assignee[d] # NoTerminal
        => worker[d] # "absent" \/ worker[e] # "absent"
=============================================================================
