--------------------------- MODULE Nightly_proofs ---------------------------
(***************************************************************************)
(* Proofs about a suite of tests and about the night that prepares an      *)
(* offer, for any tests, commits, tags, files and policies.                *)
(***************************************************************************)
EXTENDS MCNightly, FiniteSetTheorems, TLAPS

-----------------------------------------------------------------------------
(* Suite.                                                                  *)

\* A report says what it saw: what it ran that always fails failed, and what it
\* says failed ran and does not always pass.
LEMMA ReportSaysWhatItSaw ==
  ASSUME NEW tests, NEW does, NEW report \in Reports(tests, does)
  PROVE  /\ report.ran \subseteq tests
         /\ \A t \in report.ran : does[t] = "fail" => t \in report.failed
         /\ \A t \in report.failed : t \in report.ran /\ does[t] # "pass"
         /\ report.whole => report.ran = tests
<1>1. CASE report = NoReport
  BY <1>1 DEF NoReport
<1> DEFINE Must(ran) == {t \in ran : does[t] = "fail"}
           May(ran)  == {t \in ran : does[t] # "pass"}
<1>2. CASE \E rf \in (SUBSET tests) \X (SUBSET tests) :
             rf[2] \subseteq May(rf[1]) /\
             report = [ran |-> rf[1], failed |-> Must(rf[1]) \union rf[2], whole |-> rf[1] = tests]
  <2>1. PICK rf \in (SUBSET tests) \X (SUBSET tests) :
             rf[2] \subseteq May(rf[1]) /\
             report = [ran |-> rf[1], failed |-> Must(rf[1]) \union rf[2], whole |-> rf[1] = tests]
    BY <1>2
  <2>2. rf[1] \subseteq tests
    OBVIOUS
  <2>3. report.ran = rf[1] /\ report.failed = Must(rf[1]) \union rf[2] /\ report.whole = (rf[1] = tests)
    BY <2>1
  <2> QED
    BY <2>1, <2>2, <2>3
<1> QED
  BY <1>1, <1>2 DEF Reports

\* What always fails stays among what failed; what was forgiven is not more than
\* FlakyMax; what is no regression failed on the baseline.
SuiteInv ==
  /\ first.ran \subseteq Tests /\ first.failed \subseteq Tests
  /\ suite \in {"run", "recheck", "classify", "finish", "done"}
  /\ inCandidate \in Behaviours /\ inBaseline \in Behaviours
  /\ \A t \in first.ran : inCandidate[t] = "fail" => t \in first.failed
  /\ first.whole => first.ran = Tests
  /\ suite = "run" => ~passed
  /\ failing \subseteq first.failed
  /\ suite = "recheck" => failing = first.failed
  /\ \A t \in first.failed : inCandidate[t] = "fail" => t \in failing
  /\ Cardinality(first.failed \ failing) <= FlakyMax
  /\ suite \in {"finish", "done"} =>
       \A t \in failing \ regressions : baseline /\ inBaseline[t] # "pass"
  /\ passed => suite = "done" /\ first.whole /\ regressions = {}

LEMMA SuiteInvInit == SuiteInit => SuiteInv
<1> SUFFICES ASSUME SuiteInit PROVE SuiteInv
  OBVIOUS
<1>1. Cardinality({} \ {}) = 0
  <2>1. {} \ {} = {}
    OBVIOUS
  <2> QED
    BY <2>1, FS_EmptySet
<1> QED
  BY <1>1, SuiteAssumption DEF SuiteInit, SuiteInv, NoReport

LEMMA SuiteInvNext == SuiteInv /\ [SuiteNext]_suiteVars => SuiteInv'
<1> SUFFICES ASSUME SuiteInv, [SuiteNext]_suiteVars PROVE SuiteInv'
  OBVIOUS
<1>1. CASE FirstRun
  <2>1. PICK report \in Reports(Tests, inCandidate) : first' = report
    BY <1>1 DEF FirstRun
  <2>2. /\ first'.ran \subseteq Tests /\ first'.failed \subseteq first'.ran
        /\ \A t \in first'.ran : inCandidate[t] = "fail" => t \in first'.failed
        /\ first'.whole => first'.ran = Tests
    BY <2>1, ReportSaysWhatItSaw
  <2>3. failing' = first'.failed /\ suite' = "recheck" /\ suite = "run"
    BY <1>1 DEF FirstRun
  <2>4. first'.failed \ failing' = {} /\ Cardinality({}) = 0
    BY <2>3, FS_EmptySet
  <2>5. Cardinality(first'.failed \ failing') <= FlakyMax
    BY <2>4, SuiteAssumption
  <2> QED
    BY <1>1, <2>2, <2>3, <2>5 DEF FirstRun, SuiteInv
<1>2. CASE Recheck
  <2>1. PICK report \in Reports(failing, inCandidate) :
          failing' = IF report.ran = {} THEN failing ELSE failing \ Forgiven(report)
    BY <1>2 DEF Recheck
  <2>2. /\ \A t \in report.ran : inCandidate[t] = "fail" => t \in report.failed
        /\ first' = first /\ suite = "recheck" /\ suite' = "classify"
    BY <1>2, ReportSaysWhatItSaw DEF Recheck
  <2>3. Forgiven(report) \subseteq failing /\ Forgiven(report) \subseteq report.ran \ report.failed
    BY DEF Forgiven, Unstable
  <2>4. Cardinality(Forgiven(report)) <= FlakyMax
    BY SuiteAssumption, FS_EmptySet DEF Forgiven
  <2>5. first.failed = failing
    BY <2>2 DEF SuiteInv
  <2>6. Cardinality(first'.failed \ failing') <= FlakyMax
    <3>1. CASE report.ran = {}
      BY <2>1, <2>2, <3>1 DEF SuiteInv
    <3>2. CASE report.ran # {}
      <4>1. first'.failed \ failing' = Forgiven(report)
        BY <2>1, <2>2, <2>3, <2>5, <3>2
      <4> QED
        BY <4>1, <2>4
    <3> QED
      BY <3>1, <3>2
  <2>7. failing' \subseteq first'.failed /\ \A t \in first'.failed : inCandidate[t] = "fail" => t \in failing'
    BY <2>1, <2>2, <2>3, <2>5
  <2> QED
    BY <1>2, <2>2, <2>6, <2>7 DEF Recheck, SuiteInv
<1>3. CASE Classify
  <2>1. PICK report \in IF baseline THEN Reports(failing, inBaseline) ELSE {NoReport} :
          regressions' = failing \ report.failed
    BY <1>3 DEF Classify
  <2>2. \A t \in report.failed : baseline /\ inBaseline[t] # "pass"
    <3>1. CASE baseline
      BY <3>1, <2>1, ReportSaysWhatItSaw
    <3>2. CASE ~baseline
      BY <3>2, <2>1 DEF NoReport
    <3> QED
      BY <3>1, <3>2
  <2> QED
    BY <1>3, <2>1, <2>2 DEF Classify, SuiteInv
<1>4. CASE Finish
  BY <1>4 DEF Finish, SuiteInv
<1>5. CASE UNCHANGED suiteVars
  BY <1>5 DEF suiteVars, SuiteInv
<1> QED
  BY <1>1, <1>2, <1>3, <1>4, <1>5 DEF SuiteNext

\* Whatever each test does and wherever each of the three runs breaks off, a suite
\* that passes hides no test that always fails in the candidate only, and forgives
\* no more than FlakyMax of the rest (ci.py, run_suite and _finish).
THEOREM PassedSuitesAreSound == SuiteSpec => []PassedSuiteIsSound
<1>1. ASSUME SuiteInv PROVE PassedSuiteIsSound
  <2>1. ASSUME passed PROVE first.ran = Tests /\ \A t \in failing : baseline /\ inBaseline[t] # "pass"
    BY <1>1, <2>1 DEF SuiteInv
  <2>2. RegressionIsBlocked
    BY <1>1, <2>1 DEF RegressionIsBlocked, SuiteInv
  <2>3. ForgivenIsBounded
    <3> SUFFICES ASSUME passed
                 PROVE  Cardinality({t \in first.failed : inBaseline[t] = "pass" \/ ~baseline}) <= FlakyMax
      BY DEF ForgivenIsBounded
    <3> DEFINE S == {t \in first.failed : inBaseline[t] = "pass" \/ ~baseline}
    <3>1. S \subseteq first.failed \ failing
      BY <2>1
    <3>2. IsFiniteSet(first.failed \ failing)
      BY <1>1, SuiteAssumption, FS_Subset DEF SuiteInv
    <3>3. Cardinality(S) <= Cardinality(first.failed \ failing) /\ Cardinality(S) \in Nat
      BY <3>1, <3>2, FS_Subset, FS_CardinalityType
    <3>4. Cardinality(first.failed \ failing) <= FlakyMax /\ Cardinality(first.failed \ failing) \in Nat
      BY <1>1, <3>2, FS_CardinalityType DEF SuiteInv
    <3> QED
      BY <3>3, <3>4, SuiteAssumption
  <2> QED
    BY <2>2, <2>3 DEF PassedSuiteIsSound
<1> QED
  BY <1>1, SuiteInvInit, SuiteInvNext, PTL DEF SuiteSpec

-----------------------------------------------------------------------------
(* Nightly: a green end.                                                   *)

\* From where a backup that is not verified, and a version that is not known, has
\* been recorded as a check that did not pass.
AfterBackup == {"discover", "tools"} \union
               {"classify", "decide", "copy", "clean", "mkdir", "clone", "fetch", "merge", "venv",
                "tests", "review", "conclude", "close"}
AfterTools == AfterBackup \ {"discover", "tools"}

GreenInv ==
  /\ daily \in [verdict : {"none", "PASS", "FAIL", "BLOCKED", "SKIPPED"}, dir : BOOLEAN]
  /\ DOMAIN vers = DOMAIN NoVers
  /\ daily.verdict = "PASS" => daily.dir /\ resOk
  /\ step = "idle" => daily = NoDaily
  /\ step \in {"idle", "backup", "discover"} => ~vers.known
  /\ step \in AfterBackup /\ daily.verdict # "PASS" => missed
  /\ step \in AfterTools /\ ~vers.known => missed
  /\ outcome = "NO_UPDATES" => step \in {"close", "closed", "idle"} /\ vers.target = 0
  /\ step = "closed" /\ outcome \in Green => daily.verdict = "PASS" /\ vers.known

\* What is left when everything gathered is gone.
LEMMA NothingIsLeft ==
  ASSUME Forget
  PROVE  /\ ~resOk' /\ daily' = NoDaily /\ daily'.verdict = "none" /\ daily'.dir = FALSE
         /\ daily' \in [verdict : {"none", "PASS", "FAIL", "BLOCKED", "SKIPPED"}, dir : BOOLEAN]
         /\ DOMAIN vers' = DOMAIN NoVers /\ ~vers'.known /\ vers'.commit = 0 /\ vers'.target = 0
         /\ vers' \in [commit : Nat, dirty : BOOLEAN, target : Nat, aux : BOOLEAN, known : BOOLEAN,
                        net : BOOLEAN]
<1>1. /\ ~resOk' /\ daily' = NoDaily /\ daily'.verdict = "none" /\ daily'.dir = FALSE
      /\ daily' \in [verdict : {"none", "PASS", "FAIL", "BLOCKED", "SKIPPED"}, dir : BOOLEAN]
  BY DEF Forget, NoDaily
<1>2. /\ DOMAIN vers' = DOMAIN NoVers /\ ~vers'.known /\ vers'.commit = 0 /\ vers'.target = 0
      /\ vers' \in [commit : Nat, dirty : BOOLEAN, target : Nat, aux : BOOLEAN, known : BOOLEAN,
                     net : BOOLEAN]
  BY DEF Forget, NoVers
<1> QED
  BY <1>1, <1>2

LEMMA GreenInvInit == NightInit => GreenInv
BY DEF NightInit, GreenInv, NoDaily, NoVers, AfterBackup, AfterTools, Green

LEMMA GreenInvNext == GreenInv /\ [NightNext]_nightVars => GreenInv'
<1> SUFFICES ASSUME GreenInv, [NightNext]_nightVars PROVE GreenInv'
  OBVIOUS
<1> USE DEF GreenInv, AfterBackup, AfterTools, Green
<1>1. CASE Surroundings
  BY <1>1 DEF Surroundings, HeadMoves, OwnerEdits, UpstreamTags, OfferExpires, OfferDecided,
              tonight, result
<1>2. CASE Preflight
  BY <1>2 DEF Preflight, At, NoDaily, NoVers
<1>3. CASE DailyBackup
  <2>1. daily' \in DailyVerdicts
    BY <1>3 DEF DailyBackup
  <2>2. /\ daily' \in [verdict : {"none", "PASS", "FAIL", "BLOCKED", "SKIPPED"}, dir : BOOLEAN]
        /\ daily'.verdict = "PASS" => daily'.dir /\ resOk
    <3>1. CASE daily' \in Failures
      <4>1. PICK d \in BOOLEAN : daily' = [verdict |-> "FAIL", dir |-> d]
        BY <3>1 DEF Failures
      <4> QED
        BY <4>1
    <3>2. CASE daily' = [verdict |-> "PASS", dir |-> TRUE] /\ resOk
      BY <3>2
    <3>3. CASE daily' = [verdict |-> "SKIPPED", dir |-> FALSE]
      BY <3>3
    <3>4. CASE daily' = [verdict |-> "BLOCKED", dir |-> FALSE]
      BY <3>4
    <3> QED
      BY <2>1, <3>1, <3>2, <3>3, <3>4 DEF DailyVerdicts
  <2> QED
    BY <1>3, <2>2 DEF DailyBackup, At
<1>4. CASE DiscoverHermes
  BY <1>4 DEF DiscoverHermes, At, result, NoVers
<1>5. CASE DiscoverTools
  BY <1>5 DEF DiscoverTools, At, NoVers
<1>6. CASE NoUpdates
  BY <1>6 DEF NoUpdates, At, HermesUp, tonight
<1>7. CASE AuxUpdates \/ DecideNot \/ DecideToPrepare
  BY <1>7 DEF AuxUpdates, DecideNot, DecideToPrepare, At, tonight, result
<1>8. CASE CopyMade \/ CleanStaging \/ MakeWorkdir \/ Clone \/ Fetch \/ Venv \/ TestsPass
  BY <1>8 DEF CopyMade, CleanStaging, MakeWorkdir, Clone, Fetch, Venv, TestsPass, At, tonight, result
<1>9. CASE MergeClean \/ MergeReused
  <2>1. PICK open : Merges(open)
    BY <1>9 DEF MergeClean, MergeReused
  <2> QED
    BY <2>1 DEF Merges, At, result
<1>10. ASSUME NEW from, NEW o \in {"BLOCKED", "FAILED"}, Ends(from, o) PROVE GreenInv'
  BY <1>10 DEF Ends, At
<1>11. CASE DirtyTree \/ CopyFails \/ StagingEnds \/ TestsFail \/ ReviewBlocks
  BY <1>10, <1>11 DEF DirtyTree, CopyFails, StagingEnds, TestsFail, ReviewBlocks
<1>12. CASE Offer
  BY <1>12 DEF Offer, At, tonight
<1>13. CASE Conclude
  BY <1>13 DEF Conclude, At
<1>14. CASE Close
  BY <1>14 DEF Close, At, tonight
<1>15. CASE NextDay
  BY <1>15, NothingIsLeft DEF NextDay, At, result
<1>16. CASE Raises \/ NightDies
  <2>1. Forget /\ missed' /\ step' \in {"close", "idle"} /\ outcome' \in {"FAILED", "INTERRUPTED"}
    BY <1>16 DEF Raises, NightDies, NightFault
  <2> QED
    BY <2>1, NothingIsLeft
<1>17. CASE UNCHANGED nightVars
  BY <1>17 DEF nightVars, tonight, result
<1> QED
  BY <1>1, <1>2, <1>3, <1>4, <1>5, <1>6, <1>7, <1>8, <1>9, <1>11, <1>12, <1>13, <1>14, <1>15,
     <1>16, <1>17 DEF NightNext, Night

\* Under any policy, and whatever raises or dies on the way, a night is green only
\* with a backup that was made and verified and every version known, and says that
\* nothing is newer only when it is so (machine.py, _daily; store.py, close_run).
THEOREM GreenIsEarned == NightSpec => []GreenIsComplete
<1>1. ASSUME GreenInv, step = "closed", outcome \in Green
      PROVE  daily = [verdict |-> "PASS", dir |-> TRUE]
  <2>1. daily.verdict = "PASS" /\ daily.dir = TRUE
    BY <1>1 DEF GreenInv
  <2>2. daily = [verdict |-> daily.verdict, dir |-> daily.dir]
    BY <1>1 DEF GreenInv
  <2> QED
    BY <2>1, <2>2
<1>2. GreenInv => GreenIsComplete
  BY <1>1 DEF GreenInv, GreenIsComplete
<1> QED
  BY <1>2, GreenInvInit, GreenInvNext, PTL DEF NightSpec

-----------------------------------------------------------------------------
(* Nightly: the offer.                                                     *)

\* Where the copy has been made, where the clone's directory is there, where it
\* holds a commit, where the tag was compared, where it was merged.
Copied  == {"clean", "mkdir", "clone", "fetch", "merge", "venv", "tests", "review"}
HasDir  == Copied \ {"clean", "mkdir"}
Cloned  == HasDir \ {"clone"}
Fetched == Cloned \ {"fetch"}
Merged  == Fetched \ {"merge"}

Pres  == [ok : BOOLEAN, commit : Nat]
Cands == [dir : Nat, source : Nat, merged : Nat, open : SUBSET Files]

\* What a night offers it gathered itself, in this order while HEAD did not go back.
OfferedInv ==
  /\ offer.source \in Nat /\ offer.pre \in Pres /\ offer.cand \in Cands
  /\ offer.dir \in staged /\ offer.cand.open = {} /\ offer.cand.merged = offer.target
  /\ <<offer.cand.source, offer.cand.merged>> \in Base
  /\ offer.pre.ok
  /\ offer.back # "before" => offer.source <= offer.pre.commit /\ offer.pre.commit <= offer.cand.source
  /\ offer.back = "never" => offer.cand.source <= head.commit

\* While HEAD does not go back, what the night gathers is of commits in the order in
\* which it gathers them.
OfferInv ==
  /\ head \in [commit : Nat, dirty : BOOLEAN] /\ tag \in Nat /\ nights \in Nat
  /\ vers \in [commit : Nat, dirty : BOOLEAN, target : Nat, aux : BOOLEAN, known : BOOLEAN, net : BOOLEAN]
  /\ pre \in Pres /\ cand \in Cands
  /\ DOMAIN offer = DOMAIN NoOffer
  /\ step \in {"idle", "backup", "discover"} => vers.commit = 0
  /\ back \in BOOLEAN /\ (~back => vers.commit <= head.commit)
  /\ step \in Copied => pre.ok /\ (~back => vers.commit <= pre.commit /\ pre.commit <= head.commit)
  /\ step \in HasDir => cand.dir \in staged
  /\ step \in Cloned => (~back => pre.commit <= cand.source /\ cand.source <= head.commit)
  /\ step \in Fetched => cand.merged = vers.target
  /\ step \in Merged => cand.open = {} /\ <<cand.source, cand.merged>> \in Base
  /\ Offered => OfferedInv

\* The copy and the clone, too.
LEMMA NothingIsInHand ==
  ASSUME pre' = NoPre, cand' = NoCand
  PROVE  pre' \in Pres /\ cand' \in Cands /\ cand'.dir = 0 /\ cand'.source = 0 /\ cand'.open = {}
BY DEF NoPre, NoCand, Pres, Cands

LEMMA OfferInvInit == NightInit => OfferInv
<1> SUFFICES ASSUME NightInit PROVE OfferInv
  OBVIOUS
<1>1. /\ head.commit = 1 /\ head \in [commit : Nat, dirty : BOOLEAN] /\ ~Offered
      /\ DOMAIN offer = DOMAIN NoOffer /\ back \in BOOLEAN
  BY DEF NightInit, Offered
<1>2. /\ vers.commit = 0
      /\ vers \in [commit : Nat, dirty : BOOLEAN, target : Nat, aux : BOOLEAN, known : BOOLEAN, net : BOOLEAN]
      /\ pre \in Pres /\ cand \in Cands
  BY DEF NightInit, NoVers, NoPre, NoCand, Pres, Cands
<1> QED
  BY <1>1, <1>2 DEF NightInit, OfferInv, Copied, HasDir, Cloned, Fetched, Merged

LEMMA OfferInvNext == OfferInv /\ [NightNext]_nightVars => OfferInv'
<1> SUFFICES ASSUME OfferInv, [NightNext]_nightVars PROVE OfferInv'
  OBVIOUS
<1> USE DEF OfferInv, Copied, HasDir, Cloned, Fetched, Merged
<1>1. CASE Surroundings
  <2>1. CASE HeadMoves
    <3>1. PICK c \in 1 .. MaxHead :
            /\ head' = [commit |-> c, dirty |-> FALSE] /\ back' = (back \/ c < head.commit)
            /\ offer' = IF offer # NoOffer /\ offer.back = "never" /\ c < head.commit
                        THEN [offer EXCEPT !.back = "after"] ELSE offer
      BY <2>1 DEF HeadMoves
    <3>2. UNCHANGED <<tag, step, tonight, staged, nights>>
      BY <2>1 DEF HeadMoves
    <3>3. c \in Nat /\ head'.commit = c /\ head' \in [commit : Nat, dirty : BOOLEAN]
      BY <3>1, NightlyAssumption
    <3>4. back' \in BOOLEAN /\ (~back' => ~back /\ head.commit <= head'.commit)
      <4>1. CASE c < head.commit
        BY <3>1, <4>1
      <4>2. CASE ~(c < head.commit)
        <5>1. head.commit <= head'.commit /\ back' = back
          BY <3>1, <3>3, <4>2
        <5> QED
          BY <5>1
      <4> QED
        BY <4>1, <4>2
    <3>5. /\ DOMAIN offer' = DOMAIN NoOffer
          /\ Offered' => OfferedInv'
      <4>1. CASE offer # NoOffer /\ offer.back = "never" /\ c < head.commit
        <5>1. /\ offer' = [offer EXCEPT !.back = "after"] /\ DOMAIN offer' = DOMAIN offer
              /\ offer'.back = "after"
          BY <3>1, <4>1 DEF NoOffer
        <5>2. UNCHANGED <<offer.source, offer.target, offer.dir, offer.pre, offer.cand>>
          BY <5>1
        <5> QED
          BY <3>2, <4>1, <5>1, <5>2 DEF Offered, OfferedInv
      <4>2. CASE ~(offer # NoOffer /\ offer.back = "never" /\ c < head.commit)
        <5>1. offer' = offer
          BY <3>1, <4>2
        <5>2. CASE offer = NoOffer
          BY <5>1, <5>2 DEF Offered
        <5>3. CASE offer # NoOffer
          <6>1. offer.back = "never" => head.commit <= head'.commit
            BY <3>3, <4>2, <5>3
          <6> QED
            BY <3>2, <3>3, <5>1, <5>3, <6>1 DEF Offered, OfferedInv, Cands
        <5> QED
          BY <5>2, <5>3
      <4> QED
        BY <4>1, <4>2
    <3>6. /\ step \in Copied => pre.ok /\ (~back' => vers.commit <= pre.commit /\ pre.commit <= head'.commit)
          /\ ~back' => vers.commit <= head'.commit
          /\ step \in Cloned => (~back' => pre.commit <= cand.source /\ cand.source <= head'.commit)
      BY <3>3, <3>4 DEF Pres, Cands
    <3> QED
      BY <3>2, <3>3, <3>4, <3>5, <3>6 DEF tonight
  <2>4. CASE OwnerEdits
    <3>1. /\ head' \in [commit : Nat, dirty : BOOLEAN] /\ head.commit = head'.commit
          /\ UNCHANGED <<back, tag, step, tonight, staged, offer, nights>>
      BY <2>4 DEF OwnerEdits
    <3> QED
      BY <3>1 DEF tonight, Offered, OfferedInv
  <2>5. CASE UpstreamTags
    BY <2>5 DEF UpstreamTags, tonight, Offered, OfferedInv
  <2>2. CASE OfferExpires
    <3>1. /\ DOMAIN offer' = DOMAIN offer /\ Offered
          /\ UNCHANGED <<offer.source, offer.target, offer.dir, offer.pre, offer.cand, offer.back>>
      BY <2>2 DEF OfferExpires, Offered, NoOffer
    <3>2. OfferedInv'
      BY <2>2, <3>1 DEF OfferExpires, outside, OfferedInv
    <3> QED
      BY <2>2, <3>1, <3>2 DEF OfferExpires, outside, tonight
  <2>3. CASE OfferDecided
    BY <2>3 DEF OfferDecided, outside, tonight, Offered, OfferedInv
  <2> QED
    BY <1>1, <2>1, <2>2, <2>3, <2>4, <2>5 DEF Surroundings
<1>2. CASE Preflight
  BY <1>2 DEF Preflight, At, outside, NoVers, NoPre, NoCand, Pres, Cands, Offered, OfferedInv
<1>3. CASE DailyBackup
  BY <1>3 DEF DailyBackup, At, outside, Offered, OfferedInv
<1>4. CASE DiscoverHermes
  <2>1. vers' \in [commit : Nat, dirty : BOOLEAN, target : Nat, aux : BOOLEAN, known : BOOLEAN,
                   net : BOOLEAN] /\ vers'.commit <= head.commit
    <3>1. CASE \E seen \in {head.dirty, FALSE} :
            vers' = [vers EXCEPT !.commit = head.commit, !.dirty = seen, !.target = tag, !.known = TRUE]
      <4>1. PICK seen \in BOOLEAN :
              vers' = [vers EXCEPT !.commit = head.commit, !.dirty = seen, !.target = tag, !.known = TRUE]
        BY <3>1
      <4>2. head.commit \in Nat /\ tag \in Nat /\ vers.aux \in BOOLEAN /\ vers.net \in BOOLEAN
        OBVIOUS
      <4>3. vers' = [commit |-> head.commit, dirty |-> seen, target |-> tag, aux |-> vers.aux,
                     known |-> TRUE, net |-> vers.net]
        BY <4>1
      <4> QED
        BY <4>2, <4>3
    <3>2. CASE \E n \in BOOLEAN : vers' = [vers EXCEPT !.net = n]
      <4>1. step = "discover" /\ vers.commit = 0 /\ head.commit \in Nat
        BY <1>4 DEF DiscoverHermes, At
      <4> QED
        BY <3>2, <4>1
    <3> QED
      BY <1>4, <3>1, <3>2 DEF DiscoverHermes
  <2>2. /\ step' = "tools" /\ back' = FALSE
        /\ UNCHANGED <<head, tag, pre, cand, staged, offer, nights>>
    BY <1>4 DEF DiscoverHermes, At
  <2>3. Offered' => OfferedInv'
    BY <2>2 DEF Offered, OfferedInv
  <2> QED
    BY <2>1, <2>2, <2>3
<1>5. CASE DiscoverTools
  BY <1>5 DEF DiscoverTools, At, outside, Offered, OfferedInv
<1>6. CASE NoUpdates \/ AuxUpdates \/ DecideNot \/ DecideToPrepare
  BY <1>6 DEF NoUpdates, AuxUpdates, DecideNot, DecideToPrepare, At, outside, tonight, Offered, OfferedInv
<1>7. CASE CopyMade
  BY <1>7 DEF CopyMade, PreUpdate, At, outside, Pres, Offered, OfferedInv
<1>8. CASE CopyFails
  BY <1>8 DEF CopyFails, PreUpdate, Ends, At, outside, Pres, Offered, OfferedInv
<1>9. CASE CleanStaging
  BY <1>9 DEF CleanStaging, At, outside, tonight, Offered, OfferedInv
<1>10. CASE MakeWorkdir
  BY <1>10 DEF MakeWorkdir, NoCand, Cands, At, outside, Offered, OfferedInv
<1>11. CASE Clone
  BY <1>11 DEF Clone, Cands, At, outside, Offered, OfferedInv
<1>12. CASE Fetch
  BY <1>12 DEF Fetch, RefOk, Cands, At, outside, Offered, OfferedInv
<1>13. CASE MergeClean \/ MergeReused
  <2>1. Merges({})
    BY <1>13 DEF MergeClean, MergeReused, Settled
  <2> QED
    BY <2>1 DEF Merges, Cands, At, outside, Offered, OfferedInv
<1>14. CASE Venv \/ TestsPass
  BY <1>14 DEF Venv, TestsPass, At, outside, tonight, Offered, OfferedInv
<1>15. ASSUME NEW from, NEW o, Ends(from, o), UNCHANGED <<pre, cand>> PROVE OfferInv'
  BY <1>15 DEF Ends, At, outside, Offered, OfferedInv
<1>16. CASE DirtyTree \/ StagingEnds \/ TestsFail \/ ReviewBlocks
  BY <1>15, <1>16 DEF DirtyTree, StagingEnds, TestsFail, ReviewBlocks
<1>17. CASE Offer
  <2>1. offer' = [dir |-> cand.dir, source |-> vers.commit, target |-> vers.target, cand |-> cand,
                  pre |-> pre, back |-> IF back THEN "before" ELSE "never", expired |-> FALSE]
    BY <1>17 DEF Offer
  <2>2. /\ DOMAIN offer' = DOMAIN NoOffer /\ offer'.dir = cand.dir /\ offer'.source = vers.commit
        /\ offer'.target = vers.target /\ offer'.cand = cand /\ offer'.pre = pre
        /\ offer'.back = IF back THEN "before" ELSE "never"
    BY <2>1 DEF NoOffer
  <2>3. step = "review" /\ step' = "conclude" /\ UNCHANGED <<outside, tonight, staged, nights>>
    BY <1>17 DEF Offer, At
  <2> QED
    BY <2>2, <2>3 DEF outside, tonight, Offered, OfferedInv
<1>18. CASE Conclude \/ Close \/ NextDay
  <2>1. CASE Conclude
    BY <2>1, NothingIsInHand DEF Conclude, At, outside, Offered, OfferedInv
  <2>2. CASE Close
    BY <2>2 DEF Close, At, outside, tonight, Offered, OfferedInv
  <2>3. CASE NextDay
    <3>1. Forget /\ pre' = NoPre /\ cand' = NoCand /\ step' = "idle"
          /\ UNCHANGED <<outside, staged, offer, nights>>
      BY <2>3 DEF NextDay, At, Forget
    <3> QED
      BY <3>1, NothingIsInHand, NothingIsLeft DEF outside, Offered, OfferedInv
  <2> QED
    BY <1>18, <2>1, <2>2, <2>3
<1>19. CASE Raises \/ NightDies
  <2>1. /\ Forget /\ pre' = NoPre /\ cand' = NoCand /\ step' \in {"close", "idle"}
        /\ UNCHANGED <<outside, staged, offer, nights>>
    BY <1>19 DEF Raises, NightDies, NightFault, Forget
  <2> QED
    BY <2>1, NothingIsInHand, NothingIsLeft DEF outside, Offered, OfferedInv
<1>20. CASE UNCHANGED nightVars
  BY <1>20 DEF nightVars, outside, tonight, Offered, OfferedInv
<1> QED
  BY <1>1, <1>2, <1>3, <1>4, <1>5, <1>6, <1>7, <1>8, <1>9, <1>10, <1>11, <1>12, <1>13, <1>14,
     <1>16, <1>17, <1>18, <1>19, <1>20 DEF NightNext, Night

\* Wherever HEAD moves, forward or back, and however upstream moves its tag, what a
\* deployment lets through merges the announced commit on the line of versions of the
\* commit in production, and the offer for that commit is let through unless HEAD went
\* back since its discovery (staging.py, prepare; deploy.py, preconditions).
THEOREM OffersAreSound == NightSpec => []OfferIsSound
<1>1. OfferInv => OfferIsSound
  <2> SUFFICES ASSUME OfferInv, Offered PROVE OfferIsSound
    BY DEF OfferIsSound, Deployable
  <2>1. OfferedInv /\ head \in [commit : Nat, dirty : BOOLEAN]
    BY DEF OfferInv
  <2>2. Deployable => /\ offer.cand.merged = offer.target /\ offer.cand.open = {}
                      /\ <<head.commit, offer.target>> \in Base
    BY <2>1 DEF OfferedInv, Deployable
  <2>3. ASSUME head = [commit |-> offer.source, dirty |-> FALSE], offer.back = "never"
        PROVE  Deployable
    <3>1. head.commit = offer.source /\ head.dirty = FALSE
      BY <2>3
    <3>2. offer.source \in Nat /\ offer.pre.commit \in Nat /\ offer.cand.source \in Nat
      BY <2>1 DEF OfferedInv, Pres, Cands
    <3>3. /\ offer.source <= offer.pre.commit /\ offer.pre.commit <= offer.cand.source
          /\ offer.cand.source <= head.commit /\ offer.dir \in staged
      BY <2>1, <2>3 DEF OfferedInv
    <3>4. offer.cand.source = offer.source
      BY <3>1, <3>2, <3>3
    <3> QED
      BY <3>1, <3>3, <3>4 DEF Deployable
  <2> QED
    BY <2>2, <2>3 DEF OfferIsSound
<1> QED
  BY <1>1, OfferInvInit, OfferInvNext, PTL DEF NightSpec

\* And it can be undone: its clone is not cleaned away by later nights, and its bundle
\* holds the commit that production is at when it is deployed, unless HEAD went back
\* between its discovery and the offer (machine.py, _clean_staging; backup.py,
\* run_preupdate).
THEOREM OffersCanBeUndone == NightSpec => []OfferCanBeUndone
<1>1. OfferInv => OfferCanBeUndone
  <2> SUFFICES ASSUME OfferInv, Offered PROVE OfferCanBeUndone
    BY DEF OfferCanBeUndone, Deployable
  <2>1. OfferedInv
    BY DEF OfferInv
  <2>2. ASSUME Deployable PROVE offer.pre.ok /\ (offer.pre.commit = head.commit \/ offer.back = "before")
    <3>1. head.commit = offer.source /\ offer.cand.source = offer.source
      BY <2>2 DEF Deployable
    <3>2. offer.source \in Nat /\ offer.pre.commit \in Nat
      BY <2>1 DEF OfferedInv, Pres
    <3> QED
      BY <2>1, <3>1, <3>2 DEF OfferedInv
  <2> QED
    BY <2>1, <2>2 DEF OfferedInv, OfferCanBeUndone
<1> QED
  BY <1>1, OfferInvInit, OfferInvNext, PTL DEF NightSpec

-----------------------------------------------------------------------------
(* Types, in both parts and in the composition that the run checks.        *)

\* The directory of a clone is named after the night that made it.
NightTypes ==
  /\ NightTypeOK
  /\ cand.dir \in 0 .. nights
  /\ step # "idle" => nights # 0

LEMMA NightTypesInit == NightInit => NightTypes
<1> SUFFICES ASSUME NightInit PROVE NightTypes
  OBVIOUS
<1>0. MaxHead \in Nat \ {0} /\ MaxTag \in Nat /\ MaxNights \in Nat /\ MaxNightFaults \in Nat
  BY NightlyAssumption
<1>1. head \in [commit : 1 .. MaxHead, dirty : BOOLEAN]
  BY <1>0 DEF NightInit
<1>2. /\ daily.verdict = "none" /\ vers.commit = 0 /\ vers.target = 0
      /\ cand.source = 0 /\ cand.open = {} /\ cand.dir = 0 /\ offer.dir = 0
  BY DEF NightInit, NoDaily, NoVers, NoCand, NoOffer
<1>3. policy \in Policies /\ back \in BOOLEAN
  BY DEF NightInit
<1>6. tag \in 0 .. MaxTag
  BY <1>0 DEF NightInit
<1>4. staged = {} /\ step = "idle" /\ outcome = "none" /\ nights = 0 /\ nightFaults = 0
  BY DEF NightInit
<1>5. 0 \in 0 .. MaxHead /\ 0 \in 0 .. MaxTag /\ 0 \in 0 .. MaxNights /\ 0 \in 0 .. MaxNightFaults
      /\ 0 \in 0 .. 0 /\ {} \subseteq 1 .. 0
  BY <1>0
<1> QED
  BY <1>1, <1>2, <1>3, <1>4, <1>5, <1>6 DEF NightTypes, NightTypeOK, Green

LEMMA NightTypesNext == GreenInv /\ OfferInv /\ NightTypes /\ [NightNext]_nightVars => NightTypes'
<1> SUFFICES ASSUME GreenInv, OfferInv, NightTypes, [NightNext]_nightVars PROVE NightTypes'
  OBVIOUS
<1> USE NightlyAssumption DEF NightTypes, NightTypeOK, Green
<1>0. /\ vers \in [commit : Nat, dirty : BOOLEAN, target : Nat, aux : BOOLEAN, known : BOOLEAN,
                   net : BOOLEAN]
      /\ cand \in Cands /\ DOMAIN offer = DOMAIN NoOffer
      /\ nights \in Nat
  BY DEF OfferInv, GreenInv
<1>1. CASE HeadMoves
  <2>1. head' \in [commit : 1 .. MaxHead, dirty : BOOLEAN] /\ back' \in BOOLEAN
    BY <1>1 DEF HeadMoves
  <2>2. offer'.dir = offer.dir
    BY <1>1 DEF HeadMoves
  <2> QED
    BY <1>1, <2>1, <2>2 DEF HeadMoves, tonight, result
<1>2. CASE OwnerEdits
  <2>1. head' \in [commit : 1 .. MaxHead, dirty : BOOLEAN]
    BY <1>2 DEF OwnerEdits
  <2> QED
    BY <1>2, <2>1 DEF OwnerEdits, tonight, result
<1>3. CASE UpstreamTags
  BY <1>3 DEF UpstreamTags, tonight, result
<1>4. CASE OfferExpires
  <2>1. offer'.dir = offer.dir
    BY <1>0, <1>4 DEF OfferExpires, NoOffer
  <2> QED
    BY <1>4, <2>1 DEF OfferExpires, outside, tonight, result
<1>5. CASE OfferDecided
  <2>1. offer'.dir = 0
    BY <1>5 DEF OfferDecided, NoOffer
  <2> QED
    BY <1>5, <2>1 DEF OfferDecided, outside, tonight, result
<1>6. CASE Preflight
  <2>1. UNCHANGED <<daily, vers, old, cand>>
    BY <1>6 DEF Preflight
  <2>2. /\ nights' = nights + 1 /\ nights' \in 0 .. MaxNights /\ nights' # 0
        /\ staged' \subseteq 1 .. nights' /\ offer'.dir \in 0 .. nights'
    BY <1>0, <1>6 DEF Preflight
  <2> QED
    BY <1>6, <2>1, <2>2 DEF Preflight, At, outside
<1>7. CASE DailyBackup
  <2>1. daily'.verdict \in {"PASS", "FAIL", "BLOCKED", "SKIPPED"}
    <3>1. daily' \in DailyVerdicts
      BY <1>7 DEF DailyBackup
    <3> QED
      BY <3>1 DEF DailyVerdicts, Failures
  <2> QED
    BY <1>7, <2>1 DEF DailyBackup, At, outside
<1>8. CASE DiscoverHermes
  <2>1. vers'.commit \in 0 .. MaxHead /\ vers'.target \in 0 .. MaxTag
    <3>1. CASE \E seen \in {head.dirty, FALSE} :
            vers' = [vers EXCEPT !.commit = head.commit, !.dirty = seen, !.target = tag, !.known = TRUE]
      BY <1>0, <3>1
    <3>2. CASE \E n \in BOOLEAN : vers' = [vers EXCEPT !.net = n]
      BY <1>0, <3>2
    <3> QED
      BY <1>8, <3>1, <3>2 DEF DiscoverHermes
  <2> QED
    BY <1>8, <2>1 DEF DiscoverHermes, At, outside, result
<1>9. CASE DiscoverTools
  <2>1. vers'.commit = vers.commit /\ vers'.target = vers.target
    BY <1>0, <1>9 DEF DiscoverTools
  <2> QED
    BY <1>9, <2>1 DEF DiscoverTools, At, outside
<1>10. CASE NoUpdates \/ AuxUpdates \/ DecideNot \/ DecideToPrepare \/ Venv \/ TestsPass
  BY <1>10 DEF NoUpdates, AuxUpdates, DecideNot, DecideToPrepare, Venv, TestsPass, At,
       outside, tonight, result
<1>11. CASE CopyMade
  BY <1>11 DEF CopyMade, At, outside, result
<1>12. CASE CleanStaging
  BY <1>12 DEF CleanStaging, At, outside, tonight, result
<1>13. CASE MakeWorkdir
  <2>1. cand'.dir = nights /\ cand'.source = 0 /\ cand'.open = {} /\ staged' \subseteq 1 .. nights
    BY <1>0, <1>13 DEF MakeWorkdir, NoCand, At
  <2> QED
    BY <1>0, <1>13, <2>1 DEF MakeWorkdir, At, outside, result
<1>14. CASE Clone
  <2>1. cand'.dir = cand.dir /\ cand'.source = head.commit /\ cand'.open = cand.open
    BY <1>0, <1>14 DEF Clone, Cands
  <2> QED
    BY <1>14, <2>1 DEF Clone, At, outside, result
<1>15. CASE Fetch
  <2>1. cand'.dir = cand.dir /\ cand'.source = cand.source /\ cand'.open = cand.open
    BY <1>0, <1>15 DEF Fetch, Cands
  <2> QED
    BY <1>15, <2>1 DEF Fetch, At, outside, result
<1>16. CASE MergeClean \/ MergeReused
  <2>1. Merges({})
    BY <1>16 DEF MergeClean, MergeReused, Settled
  <2>2. cand'.dir = cand.dir /\ cand'.source = cand.source /\ cand'.open = {}
    BY <1>0, <2>1 DEF Merges, Cands
  <2> QED
    BY <2>1, <2>2 DEF Merges, At, outside, result
<1>17. ASSUME NEW from, NEW o \in {"BLOCKED", "FAILED"}, Ends(from, o), cand' = cand, from # "idle"
       PROVE  NightTypes'
  BY <1>17 DEF Ends, At, outside
<1>18. CASE DirtyTree \/ CopyFails \/ StagingEnds \/ TestsFail \/ ReviewBlocks
  BY <1>17, <1>18 DEF DirtyTree, CopyFails, StagingEnds, TestsFail, ReviewBlocks
<1>19. CASE Offer
  <2>1. offer'.dir = cand.dir
    BY <1>19 DEF Offer
  <2> QED
    BY <1>19, <2>1 DEF Offer, At, outside, tonight
<1>20. CASE Conclude
  <2>1. cand'.dir = 0 /\ cand'.source = 0 /\ cand'.open = {}
    BY <1>20, NothingIsInHand DEF Conclude
  <2> QED
    BY <1>0, <1>20, <2>1 DEF Conclude, At, outside
<1>21. CASE Close
  BY <1>21 DEF Close, At, outside, tonight
<1>23. ASSUME Forget, step' \in {"close", "idle"}, step # "idle", nightFaults' \in 0 .. MaxNightFaults,
              outcome' \in {"none", "BLOCKED", "FAILED", "INTERRUPTED", "PENDING_APPROVAL"} \union Green,
              UNCHANGED <<outside, staged, offer, nights>>
       PROVE  NightTypes'
  <2>1. cand'.dir = 0 /\ cand'.source = 0 /\ cand'.open = {}
    BY <1>23, NothingIsInHand DEF Forget
  <2>2. daily'.verdict = "none" /\ vers'.commit = 0 /\ vers'.target = 0
    BY <1>23, NothingIsLeft
  <2> QED
    BY <1>0, <1>23, <2>1, <2>2 DEF outside
<1>24. CASE Raises \/ NightDies
  <2>1. nightFaults' \in 0 .. MaxNightFaults /\ step # "idle"
    BY <1>24 DEF Raises, NightDies, NightFault, Working
  <2> QED
    BY <1>23, <1>24, <2>1 DEF Raises, NightDies, NightFault
<1>25. CASE NextDay
  BY <1>23, <1>25 DEF NextDay, At, result
<1>22. CASE UNCHANGED nightVars
  BY <1>22 DEF nightVars, outside, tonight, result
<1> QED
  BY <1>1, <1>2, <1>3, <1>4, <1>5, <1>6, <1>7, <1>8, <1>9, <1>10, <1>11, <1>12, <1>13, <1>14,
     <1>15, <1>16, <1>18, <1>19, <1>20, <1>21, <1>22, <1>24, <1>25 DEF NightNext, Night, Surroundings

\* There is no regression before the comparison.
SuiteTypes == SuiteTypeOK /\ (suite \notin {"finish", "done"} => regressions = {})

LEMMA SuiteTypesInit == SuiteInit => SuiteTypes
<1> SUFFICES ASSUME SuiteInit PROVE SuiteTypes
  OBVIOUS
<1>1. first.ran = {} /\ first.failed = {}
  BY DEF SuiteInit, NoReport
<1> QED
  BY <1>1 DEF SuiteInit, SuiteTypes, SuiteTypeOK

LEMMA SuiteTypesNext == SuiteTypes /\ [SuiteNext]_suiteVars => SuiteTypes'
<1> SUFFICES ASSUME SuiteTypes, [SuiteNext]_suiteVars PROVE SuiteTypes'
  OBVIOUS
<1> USE DEF SuiteTypes, SuiteTypeOK
<1>1. CASE FirstRun
  <2>1. first'.ran \subseteq Tests /\ first'.failed \subseteq first'.ran
    BY <1>1, ReportSaysWhatItSaw DEF FirstRun
  <2> QED
    BY <1>1, <2>1 DEF FirstRun
<1>2. CASE Recheck
  <2>1. failing' \subseteq failing
    BY <1>2 DEF Recheck
  <2> QED
    BY <1>2, <2>1 DEF Recheck
<1>3. CASE Classify
  <2>1. regressions' \subseteq failing
    BY <1>3 DEF Classify
  <2> QED
    BY <1>3, <2>1 DEF Classify
<1>4. CASE Finish
  BY <1>4 DEF Finish
<1>5. CASE UNCHANGED suiteVars
  BY <1>5 DEF suiteVars
<1> QED
  BY <1>1, <1>2, <1>3, <1>4, <1>5 DEF SuiteNext

LEMMA NightlyParts == Spec => NightSpec /\ SuiteSpec
<1>1. Init => NightInit /\ SuiteInit
  BY DEF Init
<1>2. [Next]_vars => [NightNext]_nightVars /\ [SuiteNext]_suiteVars
  BY DEF Next, vars
<1> QED
  BY <1>1, <1>2, PTL DEF Spec, NightSpec, SuiteSpec

\* In every state that the night and a suite reach, each of their variables has its
\* type; no clone is named after a night that has not begun.
THEOREM NightlyKeepsItsTypes == Spec => []NightlyTypeOK
<1>1. NightSpec => []NightTypes
  BY GreenInvInit, GreenInvNext, OfferInvInit, OfferInvNext, NightTypesInit, NightTypesNext, PTL
     DEF NightSpec
<1>2. SuiteSpec => []SuiteTypes
  BY SuiteTypesInit, SuiteTypesNext, PTL DEF SuiteSpec
<1>3. NightTypes /\ SuiteTypes => NightlyTypeOK
  BY DEF NightTypes, SuiteTypes, NightlyTypeOK
<1> QED
  BY <1>1, <1>2, <1>3, NightlyParts, PTL
=============================================================================
