-------------------------- MODULE MCBuildScheduler --------------------------
(***************************************************************************)
(* Instances of BuildScheduler for TLC.                                     *)
(***************************************************************************)
EXTENDS BuildSchedulerProperties, TLC

\* Hashes are only compared, and the handlers are alike.
SchedulerSymmetry == Permutations(Hashes) \cup Permutations(Clients)
=============================================================================
