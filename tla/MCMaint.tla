------------------------------ MODULE MCMaint -------------------------------
(* A small instance of MaintRun for TLC: processes are interchangeable.    *)
EXTENDS MaintRun, TLC

Symmetry == Permutations(Proc)
=============================================================================
