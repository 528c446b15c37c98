---------------------------- MODULE MCCoordinator ----------------------------
(***************************************************************************)
(* CoordinatorDispatch with interchangeable tasks and terminals, for the   *)
(* runs that check safety only.                                            *)
(***************************************************************************)
EXTENDS CoordinatorDispatch, TLC

Symmetry == Permutations(Task) \cup Permutations(Terminal)
=============================================================================
