----------------------------- MODULE TaskLease -----------------------------
(***************************************************************************)
(* What dispatching promises, without how: a task is leased to one         *)
(* dispatch at a time, a lease is never granted twice, it is granted only  *)
(* when the task's dependencies are done and the task itself is not, and   *)
(* only the holder of the lease can make the task done.                    *)
(***************************************************************************)
EXTENDS Naturals

CONSTANTS Task, Lease, NoLease

VARIABLES needs,    \* the tasks each task depends on
          holder,   \* the lease a task is held under
          spent,    \* the leases granted so far
          done      \* the tasks some holder has completed

leaseVars == <<needs, holder, spent, done>>

LeaseInit == /\ needs = [t \in Task |-> {}]
             /\ holder = [t \in Task |-> NoLease]
             /\ spent = {}
             /\ done = {}

\* A task gets its dependencies before it is first leased.
Declare(t, D) ==
    /\ needs[t] = {}
    /\ holder[t] = NoLease
    /\ t \notin done
    /\ needs' = [needs EXCEPT ![t] = D]
    /\ UNCHANGED <<holder, spent, done>>

Grant(t, l) ==
    /\ holder[t] = NoLease
    /\ l \notin spent
    /\ t \notin done
    /\ needs[t] \subseteq done
    /\ holder' = [holder EXCEPT ![t] = l]
    /\ spent' = spent \cup {l}
    /\ UNCHANGED <<needs, done>>

Return(t) ==
    /\ holder[t] # NoLease
    /\ holder' = [holder EXCEPT ![t] = NoLease]
    /\ UNCHANGED <<needs, spent, done>>

Complete(t) ==
    /\ holder[t] # NoLease
    /\ holder' = [holder EXCEPT ![t] = NoLease]
    /\ done' = done \cup {t}
    /\ UNCHANGED <<needs, spent>>

LeaseNext == \E t \in Task : \/ \E D \in SUBSET Task : Declare(t, D)
                             \/ \E l \in Lease : Grant(t, l)
                             \/ Return(t)
                             \/ Complete(t)

LeaseSpec == LeaseInit /\ [][LeaseNext]_leaseVars

=============================================================================
