---------------------------- MODULE MCRunMailbox ----------------------------
(***************************************************************************)
(* RunMailbox with interchangeable runs, panes, requests and calls.        *)
(***************************************************************************)
EXTENDS RunMailbox, TLC

CheckFilters == {{}, {"worker_done"}}

Symmetry == Permutations(Run) \cup Permutations(Pane)
            \cup Permutations(Request) \cup Permutations(Call)
=============================================================================
