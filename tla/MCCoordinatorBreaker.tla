------------------------ MODULE MCCoordinatorBreaker ------------------------
(***************************************************************************)
(* CoordinatorDispatch with two tasks, the second depending on the first,  *)
(* and finitely many gate-resolve commands: somebody who resolves a        *)
(* resolved gate for ever keeps a task ready for ever.  Gates are asked    *)
(* for by agents.  A process does not die during a run, which would end    *)
(* the run's steps and with them what LoopConverges is about; it may die   *)
(* in every other step, and the next run finds what it left.               *)
(***************************************************************************)
EXTENDS CoordinatorDispatch

CONSTANTS First,        \* the task created first
          MaxResolve    \* bound: gate-resolve commands, repeated ones included

ASSUME First \in Task /\ MaxResolve \in Nat

VARIABLE resolutions    \* gate-resolve commands so far

breakerVars == <<vars, resolutions>>

BreakerInit == Init /\ resolutions = 0

BreakerNext ==
    \/ /\ \E t \in Task : GateResolve(t)
       /\ resolutions < MaxResolve
       /\ resolutions' = resolutions + 1
    \/ /\ \/ CoordinatorStep
          \/ Agents
          \/ \E t \in Task : /\ t = First \/ Created(First)
                             /\ TaskCreate(t, {p \in Task : Created(p)})
          \/ CoordinatorRun \/ CoordinatorRunStop
          \/ run = "none" /\ (Restart \/ DiesInside)
       /\ UNCHANGED resolutions

BreakerSpec == BreakerInit /\ [][BreakerNext]_breakerVars /\ WF_vars(CoordinatorStep)
=============================================================================
