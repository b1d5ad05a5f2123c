----------------------------- MODULE MCScheduler -----------------------------
(* The scheduler instantiated for TLC.                                      *)
EXTENDS Scheduler, TLC

\* The tasks other than init_task are interchangeable.
Symmetry == Permutations(Tasks \ {InitTask})
=============================================================================
