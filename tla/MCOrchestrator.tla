---------------------------- MODULE MCOrchestrator --------------------------
(* Instances of Orchestrator for TLC; every bound is a constant of it.     *)
EXTENDS Orchestrator, TLC

\* The invocations are interchangeable; sound for the safety run only.
MCSymmetry == Permutations(Procs)
=============================================================================
