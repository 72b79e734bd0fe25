------------------------------- MODULE Suite --------------------------------
(***************************************************************************)
(* One suite of the candidate's tests (ci.py).  What fails is run again in *)
(* the candidate, to find what is unstable, and then on the baseline, to   *)
(* find what failed already.  Each of the three runs may die before its    *)
(* report is written, or half way with a report of what it had run.        *)
(***************************************************************************)
EXTENDS Naturals, FiniteSets

CONSTANTS
  Tests,
  FlakyMax    \* unstable tests that are forgiven

ASSUME SuiteAssumption == IsFiniteSet(Tests) /\ FlakyMax \in Nat

VARIABLES
  inCandidate, inBaseline,   \* what each test does: "pass", "fail", "flaky"
  baseline,     \* there is a baseline to compare with
  suite,        \* what comes next
  first,        \* report of the first run
  failing,      \* what it failed, less what is forgiven
  regressions,
  passed        \* the verdict

suiteVars == <<inCandidate, inBaseline, baseline, suite, first, failing, regressions, passed>>

Behaviours == [Tests -> {"pass", "fail", "flaky"}]
NoReport == [ran |-> {}, failed |-> {}, whole |-> FALSE]

SuiteInit ==
  /\ inCandidate \in Behaviours /\ inBaseline \in Behaviours /\ baseline \in BOOLEAN
  /\ suite = "run" /\ first = NoReport /\ failing = {} /\ regressions = {} /\ passed = FALSE

\* parse_junit of a run of some tests: it ended, it broke off (INTERNALERROR), or
\* there is nothing to read (a timeout, out of memory, no test could be selected).
Reports(tests, does) ==
  LET Must(ran) == {t \in ran : does[t] = "fail"}
      May(ran)  == {t \in ran : does[t] # "pass"} IN
  {NoReport} \union
  {[ran |-> rf[1], failed |-> Must(rf[1]) \union rf[2], whole |-> rf[1] = tests] :
     rf \in {pair \in (SUBSET tests) \X (SUBSET tests) : pair[2] \subseteq May(pair[1])}}

FirstRun ==
  /\ suite = "run" /\ suite' = "recheck"
  /\ first' \in Reports(Tests, inCandidate) /\ failing' = first'.failed
  /\ UNCHANGED <<inCandidate, inBaseline, baseline, regressions, passed>>

\* Mutant of Unstable: what the repetition did not see fail is unstable.
UnstableUnseen(report) == failing \ report.failed

\* Only what the repetition saw pass.
Unstable(report) == failing \intersect (report.ran \ report.failed)

\* Too many are not instability: then none is forgiven.
Forgiven(report) == IF Cardinality(Unstable(report)) <= FlakyMax THEN Unstable(report) ELSE {}

Recheck ==
  /\ suite = "recheck" /\ suite' = "classify"
  /\ \E report \in Reports(failing, inCandidate) :
       failing' = IF report.ran = {} THEN failing ELSE failing \ Forgiven(report)
  /\ UNCHANGED <<inCandidate, inBaseline, baseline, first, regressions, passed>>

\* Mutant of Classify: what was forgiven is compared too.
ClassifyAll ==
  /\ suite = "classify" /\ suite' = "finish"
  /\ \E report \in IF baseline THEN Reports(failing, inBaseline) ELSE {NoReport} :
       regressions' = first.failed \ report.failed
  /\ UNCHANGED <<inCandidate, inBaseline, baseline, first, failing, passed>>

\* Without a baseline, and if it ran nothing, everything is a regression.
Classify ==
  /\ suite = "classify" /\ suite' = "finish"
  /\ \E report \in IF baseline THEN Reports(failing, inBaseline) ELSE {NoReport} :
       regressions' = failing \ report.failed
  /\ UNCHANGED <<inCandidate, inBaseline, baseline, first, failing, passed>>

Finish ==
  /\ suite = "finish" /\ suite' = "done"
  /\ passed' = (first.whole /\ first.ran # {} /\ regressions = {})
  /\ UNCHANGED <<inCandidate, inBaseline, baseline, first, failing, regressions>>

SuiteNext == FirstRun \/ Recheck \/ Classify \/ Finish

SuiteSpec == SuiteInit /\ [][SuiteNext]_suiteVars

-----------------------------------------------------------------------------
(* Properties.                                                             *)
SuiteTypeOK ==
  /\ inCandidate \in Behaviours /\ inBaseline \in Behaviours /\ baseline \in BOOLEAN
  /\ suite \in {"run", "recheck", "classify", "finish", "done"}
  /\ first.ran \subseteq Tests /\ first.failed \subseteq first.ran
  /\ failing \subseteq first.failed /\ regressions \subseteq failing /\ passed \in BOOLEAN

\* A suite that passes hides no regression: no test that always fails in the
\* candidate and never in the baseline, whatever run broke off (ci.py:10-14).
RegressionIsBlocked ==
  passed => ~\E t \in Tests : inCandidate[t] = "fail" /\ (inBaseline[t] = "pass" \/ ~baseline)

\* Of what failed, a suite that passes forgives what fails in the baseline too
\* and no more than FlakyMax others (ci.py:38-40, 172-179).
ForgivenIsBounded ==
  passed => Cardinality({t \in first.failed : inBaseline[t] = "pass" \/ ~baseline}) <= FlakyMax

\* The two together: what a passed suite vouches for (ci.py _finish).
PassedSuiteIsSound == RegressionIsBlocked /\ ForgivenIsBounded
=============================================================================
