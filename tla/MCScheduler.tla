----------------------------- MODULE MCScheduler -----------------------------
(***************************************************************************)
(* TLC instances of the scheduler.                                         *)
(***************************************************************************)
EXTENDS SchedulerProperties, TLC

\* The blocks other than Core's differ only in their place in the list.
Symmetry == Permutations(Proc \ {Core})
=============================================================================
