------------------------------ MODULE MCDeploy ------------------------------
(* Instances of Deploy for TLC: three commits and up to two deployments.   *)
EXTENDS DeployInv

CONSTANTS c1, c2, c3

MCCommits == {c1, c2, c3}
=============================================================================
