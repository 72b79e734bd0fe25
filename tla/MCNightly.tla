----------------------------- MODULE MCNightly ------------------------------
(* Small instances of the night and of one suite of its tests for TLC.  They *)
(* share no state, so each behaviour is one of one of them.                  *)
EXTENDS Nightly, Suite

VARIABLE part

vars == <<part, nightVars, suiteVars>>

MCPolicies == {[daily |-> d, aiRequired |-> d] : d \in BOOLEAN}
MCBase == {<<1, 1>>, <<1, 2>>, <<2, 2>>}

AllPass == [t \in Tests |-> "pass"]

Init ==
  /\ NightInit /\ SuiteInit
  /\ \/ part = "night" /\ inCandidate = AllPass /\ inBaseline = AllPass /\ baseline
     \/ part = "suite" /\ policy = [daily |-> TRUE, aiRequired |-> TRUE]

Next ==
  /\ UNCHANGED part
  /\ \/ part = "night" /\ NightNext /\ UNCHANGED suiteVars
     \/ part = "suite" /\ SuiteNext /\ UNCHANGED nightVars

Spec == Init /\ [][Next]_vars

NightlyTypeOK == NightTypeOK /\ SuiteTypeOK
=============================================================================
