------------------------------ MODULE Nightly -------------------------------
(***************************************************************************)
(* One night of hermes-updater (machine.py, _daily and _prepare_hermes):   *)
(* the backup, the discovery of versions (versions.py), the pre-update     *)
(* copy (backup.py), the merge in an isolated clone (staging.py), the      *)
(* tests and the review (review.py), up to the candidate that is offered.  *)
(* What happens to an offer is in Orchestrator and Deploy.                 *)
(*                                                                         *)
(* Nothing is locked meanwhile: the owner commits to, resets and edits the *)
(* checkout in production, a manual rollback moves it back, and upstream   *)
(* moves its tag.                                                          *)
(***************************************************************************)
EXTENDS Naturals, FiniteSets

CONSTANTS
  Files,       \* that a merge may conflict in
  Policies,    \* of [daily, aiRequired : BOOLEAN]
  Base,        \* tags (pairs <<head, commit>>) that hold the upstream base of head
  MaxHead,     \* bound: commits the checkout may be at, in the order they were made
  MaxTag,      \* bound: commits the newest stable tag has named
  MaxNights, MaxNightFaults   \* bounds: nights; deaths and exceptions

ASSUME NightlyAssumption ==
  /\ Policies \subseteq [daily : BOOLEAN, aiRequired : BOOLEAN]
  /\ Policies # {}
  /\ MaxHead \in Nat \ {0} /\ MaxTag \in Nat /\ Base \subseteq (1 .. MaxHead) \X (1 .. MaxTag)
  /\ MaxNights \in Nat /\ MaxNightFaults \in Nat

VARIABLES
  policy,
  head,      \* the checkout: its commit, whether it has uncommitted changes
  back,      \* history: it went back to an older commit since the discovery
  tag,       \* the commit that the newest stable tag names; 0: none that is newer
  step,      \* where the night is
  resOk,     \* enough disk and memory
  daily,     \* the backup of the night: verdict, whether it left a directory
  vers,      \* discovered: Hermes' commit, changes and target, and what is known
  old,       \* the backup of the night is older than two hours
  pre,       \* pre-update copy: verdict, commit in its bundle
  cand,      \* the clone: where it is, what it was built on, what it merged
  staged,    \* directories under work/staging
  offer,     \* the pending candidate; history: whether HEAD went back before it, or after
  outcome,
  missed,    \* a required check that did not pass was recorded
  nights, nightFaults

outside == <<policy, head, back, tag>>
tonight == <<resOk, daily, vers, old, pre, cand>>
result  == <<outcome, missed>>
nightVars == <<outside, step, tonight, staged, offer, result, nights, nightFaults>>

NoDaily == [verdict |-> "none", dir |-> FALSE]
NoVers  == [commit |-> 0, dirty |-> FALSE, target |-> 0, aux |-> FALSE, known |-> FALSE, net |-> FALSE]
NoPre   == [ok |-> FALSE, commit |-> 0]
NoCand  == [dir |-> 0, source |-> 0, merged |-> 0, open |-> {}]
NoOffer == [dir |-> 0, source |-> 0, target |-> 0, cand |-> NoCand, pre |-> NoPre,
            back |-> "never", expired |-> FALSE]

NightInit ==
  /\ policy \in Policies
  /\ head = [commit |-> 1, dirty |-> FALSE] /\ back = FALSE /\ tag = 0
  /\ step = "idle" /\ resOk = FALSE /\ daily = NoDaily /\ vers = NoVers /\ old = FALSE
  /\ pre = NoPre /\ cand = NoCand /\ staged = {} /\ offer = NoOffer
  /\ outcome = "none" /\ missed = FALSE /\ nights = 0 /\ nightFaults = 0

-----------------------------------------------------------------------------
(* Outside.                                                                *)

\* The owner commits, amends or resets, or a manual rollback (cli.py) takes back
\* what an earlier night deployed.
HeadMoves ==
  /\ \E c \in (1 .. MaxHead) \ {head.commit} :
       /\ head' = [commit |-> c, dirty |-> FALSE]
       /\ back' = (back \/ c < head.commit)
       /\ offer' = IF offer # NoOffer /\ offer.back = "never" /\ c < head.commit
                   THEN [offer EXCEPT !.back = "after"] ELSE offer
  /\ UNCHANGED <<policy, tag, step, tonight, staged, result, nights, nightFaults>>

OwnerEdits ==
  /\ ~head.dirty /\ head' = [head EXCEPT !.dirty = TRUE]
  /\ UNCHANGED <<policy, back, tag, step, tonight, staged, offer, result, nights, nightFaults>>

\* Upstream publishes a tag, or moves it to another commit.
UpstreamTags ==
  /\ tag < MaxTag /\ tag' = tag + 1
  /\ UNCHANGED <<policy, head, back, step, tonight, staged, offer, result, nights, nightFaults>>

OfferExpires ==
  /\ offer # NoOffer /\ ~offer.expired /\ offer' = [offer EXCEPT !.expired = TRUE]
  /\ UNCHANGED <<outside, step, tonight, staged, result, nights, nightFaults>>

\* It is revoked, or decided by an application (Orchestrator).
OfferDecided ==
  /\ offer # NoOffer /\ offer' = NoOffer
  /\ UNCHANGED <<outside, step, tonight, staged, result, nights, nightFaults>>

-----------------------------------------------------------------------------
(* Preflight, backup and discovery.                                        *)
At(s, t) == step = s /\ step' = t

Preflight ==
  /\ At("idle", "backup") /\ nights < MaxNights /\ nights' = nights + 1
  /\ resOk' \in BOOLEAN /\ missed' = ~resOk' /\ outcome' = "none"
  /\ UNCHANGED <<outside, daily, vers, old, pre, cand, staged, offer, nightFaults>>

Failures == {[verdict |-> "FAIL", dir |-> d] : d \in BOOLEAN}

\* Mutant of DailyVerdicts: a backup that policy turns off counts as passed.
DailyVerdictsLenient ==
  IF ~policy.daily THEN {[verdict |-> "PASS", dir |-> FALSE]}
  ELSE IF ~resOk THEN {[verdict |-> "BLOCKED", dir |-> FALSE]}
  ELSE Failures \union {[verdict |-> "PASS", dir |-> TRUE]}

DailyVerdicts ==
  IF ~policy.daily THEN {[verdict |-> "SKIPPED", dir |-> FALSE]}
  ELSE IF ~resOk THEN {[verdict |-> "BLOCKED", dir |-> FALSE]}
  ELSE Failures \union {[verdict |-> "PASS", dir |-> TRUE]}

DailyBackup ==
  /\ At("backup", "discover") /\ daily' \in DailyVerdicts
  /\ missed' = (missed \/ daily'.verdict # "PASS")
  /\ UNCHANGED <<outside, resOk, vers, old, pre, cand, staged, offer, outcome, nights, nightFaults>>

\* hermes_version: HEAD, its changes, and upstream's tags by ls-remote, retried
\* while the fault is transient.  A target is given only if it is not in HEAD, and
\* a `git status` that fails reads as no changes.
DiscoverHermes ==
  /\ At("discover", "tools")
  /\ \/ \E seen \in {head.dirty, FALSE} :
          vers' = [vers EXCEPT !.commit = head.commit, !.dirty = seen, !.target = tag, !.known = TRUE]
     \/ \E n \in BOOLEAN : vers' = [vers EXCEPT !.net = n]
  /\ back' = FALSE
  /\ UNCHANGED <<policy, head, tag, resOk, daily, old, pre, cand, staged, offer, result, nights, nightFaults>>

\* cli_version of the three products: one that is not there, does not answer or
\* whose registry cannot be reached is not known.
DiscoverTools ==
  /\ At("tools", "classify")
  /\ \E aux \in BOOLEAN, ok \in BOOLEAN, net \in BOOLEAN :
       /\ vers' = [vers EXCEPT !.aux = aux, !.known = @ /\ ok, !.net = @ \/ (~ok /\ net)]
       /\ missed' = (missed \/ ~vers'.known)
  /\ UNCHANGED <<outside, resOk, daily, old, pre, cand, staged, offer, outcome, nights, nightFaults>>

HermesUp == vers.target # 0

NoUpdates ==
  /\ At("classify", "close") /\ ~vers.aux /\ ~HermesUp
  /\ outcome' = IF ~vers.known THEN IF vers.net THEN "BLOCKED" ELSE "FAILED"
                ELSE IF daily.verdict = "PASS" THEN "NO_UPDATES" ELSE "FAILED"
  /\ UNCHANGED <<outside, tonight, staged, offer, missed, nights, nightFaults>>

\* The auxiliary products first; they may take more than two hours.
AuxUpdates ==
  /\ At("classify", "decide") /\ (vers.aux \/ HermesUp)
  /\ old' \in IF vers.aux /\ resOk THEN BOOLEAN ELSE {FALSE}
  /\ UNCHANGED <<outside, resOk, daily, vers, pre, cand, staged, offer, result, nights, nightFaults>>

-----------------------------------------------------------------------------
(* _prepare_hermes.                                                        *)

\* The pending candidate is for this tag and this commit, and did not expire.  A
\* target that changed is a new tag, or this one moved: then DecideNot is right.
Pending == /\ offer # NoOffer /\ ~offer.expired
           /\ offer.source = vers.commit /\ offer.target = vers.target

\* No update, one that is pending or failed a short while ago, no resources.
DecideNot ==
  /\ At("decide", "conclude") /\ outcome' = "SUCCESS"
  /\ UNCHANGED <<outside, tonight, staged, offer, missed, nights, nightFaults>>

DecideToPrepare ==
  /\ At("decide", "copy") /\ HermesUp /\ ~Pending /\ resOk /\ ~vers.dirty
  /\ UNCHANGED <<outside, tonight, staged, offer, result, nights, nightFaults>>

Ends(from, o) ==
  /\ At(from, "conclude") /\ outcome' = o /\ missed' = TRUE
  /\ UNCHANGED <<outside, resOk, daily, vers, old, staged, offer, nights, nightFaults>>

DirtyTree ==
  /\ HermesUp /\ ~Pending /\ resOk /\ vers.dirty
  /\ Ends("decide", "BLOCKED") /\ UNCHANGED <<pre, cand>>

Fresh == daily.dir /\ ~old

\* run_preupdate: the backup of the night if it is fresh, else one more; the bundle
\* holds what HEAD is now, and uncommitted changes make it fail.
PreUpdate(ok) ==
  /\ ok => ~head.dirty /\ (Fresh => daily.verdict = "PASS")
  /\ pre' = [ok |-> ok, commit |-> head.commit]

CopyMade ==
  /\ At("copy", "clean") /\ PreUpdate(TRUE)
  /\ UNCHANGED <<outside, resOk, daily, vers, old, cand, staged, offer, result, nights, nightFaults>>

CopyFails == Ends("copy", "FAILED") /\ PreUpdate(FALSE) /\ UNCHANGED cand

\* Mutant of CleanStaging: the clone of the pending candidate goes too.
CleanAllStaging ==
  /\ At("clean", "mkdir") /\ staged' = {}
  /\ UNCHANGED <<outside, tonight, offer, result, nights, nightFaults>>

CleanStaging ==
  /\ At("clean", "mkdir") /\ staged' = staged \intersect {offer.dir}
  /\ UNCHANGED <<outside, tonight, offer, result, nights, nightFaults>>

\* prepare: a directory of its own ...
MakeWorkdir ==
  /\ At("mkdir", "clone") /\ staged' = staged \union {nights}
  /\ cand' = [NoCand EXCEPT !.dir = nights]
  /\ UNCHANGED <<outside, resOk, daily, vers, old, pre, offer, result, nights, nightFaults>>

\* ... and a clone of HEAD, which is read again.
Clone ==
  /\ At("clone", "fetch") /\ cand' = [cand EXCEPT !.source = head.commit]
  /\ UNCHANGED <<outside, resOk, daily, vers, old, pre, staged, offer, result, nights, nightFaults>>

\* Mutant of RefOk: what was fetched is not compared with ls-remote.
RefAny == TRUE

RefOk == cand'.merged = vers.target

Fetch ==
  /\ At("fetch", "merge") /\ cand' = [cand EXCEPT !.merged = tag] /\ RefOk
  /\ UNCHANGED <<outside, resOk, daily, vers, old, pre, staged, offer, result, nights, nightFaults>>

Merges(open) ==
  /\ At("merge", "venv") /\ cand' = [cand EXCEPT !.open = open]
  /\ <<cand.source, cand.merged>> \in Base
  /\ UNCHANGED <<outside, resOk, daily, vers, old, pre, staged, offer, result, nights, nightFaults>>

MergeClean == Merges({})

\* _commit_recorded_resolution: rerere left nothing open.
Settled(open) == open = {}

\* The merge conflicts, and rerere knows each conflict that is not in `open`.
MergeReused == \E conflicts \in SUBSET Files \ {{}} : \E open \in SUBSET conflicts :
                 Settled(open) /\ Merges(open)

\* Any other end of the staging, in the order of the code: the branch, the clone,
\* the fetch, the tag that moved, a conflict left, another line of versions, pip.
StagingEnds ==
  /\ \/ Ends("clone", "BLOCKED") \/ Ends("clone", "FAILED") \/ Ends("fetch", "FAILED")
     \/ Ends("merge", "BLOCKED") \/ Ends("merge", "FAILED") \/ Ends("venv", "FAILED")
  /\ UNCHANGED <<pre, cand>>

Venv ==
  /\ At("venv", "tests")
  /\ UNCHANGED <<outside, tonight, staged, offer, result, nights, nightFaults>>

TestsPass ==
  /\ At("tests", "review")
  /\ UNCHANGED <<outside, tonight, staged, offer, result, nights, nightFaults>>

TestsFail == Ends("tests", "FAILED") /\ UNCHANGED <<pre, cand>>

\* interpret, with backup, merge and tests in PASS.
Verdict(ai) ==
  CASE ai = "unavailable"         -> IF policy.aiRequired THEN "BLOCKED" ELSE "DEFERRED"
    [] ai = "block"               -> "BLOCKED"
    [] ai \in {"concerns", "odd"} -> "DEFERRED"
    [] ai = "pass"                -> "PASS"

Answers == {"unavailable", "block", "concerns", "odd", "pass"}

ReviewBlocks ==
  /\ \E ai \in Answers : Verdict(ai) = "BLOCKED"
  /\ Ends("review", "BLOCKED") /\ UNCHANGED <<pre, cand>>

\* save_candidate and the notice.  Its payload has the commit of the discovery.
Offer ==
  /\ At("review", "conclude") /\ outcome' = "PENDING_APPROVAL"
  /\ offer' = [dir |-> cand.dir, source |-> vers.commit, target |-> vers.target, cand |-> cand,
               pre |-> pre, back |-> IF back THEN "before" ELSE "never", expired |-> FALSE]
  /\ \E ai \in Answers :
       /\ Verdict(ai) # "BLOCKED"
       /\ missed' = (missed \/ (policy.aiRequired /\ Verdict(ai) # "PASS"))
  /\ UNCHANGED <<outside, tonight, staged, nights, nightFaults>>

-----------------------------------------------------------------------------
(* The end.                                                                *)
\* What _prepare_hermes had in hand is gone when it returns.
Conclude ==
  LET backed == daily.verdict = "PASS"
      o == IF ~backed /\ outcome \in {"SUCCESS", "PENDING_APPROVAL"} THEN "FAILED" ELSE outcome IN
  /\ At("conclude", "close")
  /\ outcome' = IF o = "SUCCESS" /\ ~vers.known THEN "FAILED" ELSE o
  /\ old' = FALSE /\ pre' = NoPre /\ cand' = NoCand
  /\ UNCHANGED <<outside, resOk, daily, vers, staged, offer, missed, nights, nightFaults>>

Green == {"SUCCESS", "NO_UPDATES"}

\* close_run refuses a green end with a required check that did not pass.
Close ==
  /\ At("close", "closed")
  /\ outcome' = IF outcome \in Green /\ missed THEN "FAILED" ELSE outcome
  /\ UNCHANGED <<outside, tonight, staged, offer, missed, nights, nightFaults>>

\* What a night gathered goes with its process.
Forget == /\ resOk' = FALSE /\ daily' = NoDaily /\ vers' = NoVers
          /\ old' = FALSE /\ pre' = NoPre /\ cand' = NoCand

NextDay ==
  /\ At("closed", "idle") /\ Forget
  /\ UNCHANGED <<outside, staged, offer, result, nights, nightFaults>>

Working == step \notin {"idle", "close", "closed"}

NightFault ==
  /\ Working /\ nightFaults < MaxNightFaults /\ nightFaults' = nightFaults + 1
  /\ missed' = TRUE /\ Forget
  /\ UNCHANGED <<outside, staged, offer, nights>>

\* An exception, which _guarded turns into a failed run ...
Raises == NightFault /\ step' = "close" /\ outcome' = "FAILED"

\* ... or a death, which the next run reconciles.
NightDies == NightFault /\ step' = "idle" /\ outcome' = "INTERRUPTED"

Surroundings == HeadMoves \/ OwnerEdits \/ UpstreamTags \/ OfferExpires \/ OfferDecided

Night ==
  \/ Preflight \/ DailyBackup \/ DiscoverHermes \/ DiscoverTools \/ NoUpdates \/ AuxUpdates
  \/ DecideNot \/ DirtyTree \/ DecideToPrepare \/ CopyMade \/ CopyFails \/ CleanStaging \/ MakeWorkdir
  \/ Clone \/ Fetch \/ MergeClean \/ MergeReused \/ StagingEnds \/ Venv \/ TestsPass \/ TestsFail
  \/ ReviewBlocks \/ Offer \/ Conclude \/ Close \/ NextDay

NightNext == Surroundings \/ Night \/ Raises \/ NightDies

NightSpec == NightInit /\ [][NightNext]_nightVars

-----------------------------------------------------------------------------
(* What a deployment asks of HEAD and of the clone (deploy.py, preconditions).*)
Offered == offer # NoOffer

\* Mutant of Deployable: HEAD is compared, the parent of the candidate is not.
DeployableOnHead ==
  /\ Offered /\ head.commit = offer.source /\ ~head.dirty
  /\ offer.dir \in staged

\* HEAD is the approved source, without changes; the clone is there, and the
\* first parent of its merge is that source too.
Deployable ==
  /\ Offered /\ head.commit = offer.source /\ ~head.dirty
  /\ offer.dir \in staged /\ offer.cand.source = offer.source

-----------------------------------------------------------------------------
(* Properties.                                                             *)
NightTypeOK ==
  /\ policy \in Policies
  /\ head \in [commit : 1 .. MaxHead, dirty : BOOLEAN] /\ back \in BOOLEAN /\ tag \in 0 .. MaxTag
  /\ step \in {"idle", "backup", "discover", "tools", "classify", "decide", "copy", "clean", "mkdir",
               "clone", "fetch", "merge", "venv", "tests", "review", "conclude", "close", "closed"}
  /\ daily.verdict \in {"none", "PASS", "FAIL", "BLOCKED", "SKIPPED"}
  /\ vers.commit \in 0 .. MaxHead /\ vers.target \in 0 .. MaxTag
  /\ cand.source \in 0 .. MaxHead /\ cand.open \subseteq Files
  /\ staged \subseteq 1 .. nights /\ offer.dir \in 0 .. nights
  /\ outcome \in {"none", "BLOCKED", "FAILED", "INTERRUPTED", "PENDING_APPROVAL"} \union Green
  /\ nights \in 0 .. MaxNights /\ nightFaults \in 0 .. MaxNightFaults

\* What a deployment lets through merges the commit that the tag was announced with,
\* without an open conflict, on the line of versions of what production is at then,
\* wherever HEAD and the tag were meanwhile; and the offer for the commit in production
\* is let through, unless HEAD went back since that commit was discovered
\* (staging.py:222-306, machine.py:394-425, deploy.py:223-236).
OfferIsSound ==
  /\ Deployable => /\ offer.cand.merged = offer.target /\ offer.cand.open = {}
                   /\ <<head.commit, offer.target>> \in Base
  /\ Offered /\ head = [commit |-> offer.source, dirty |-> FALSE] /\ offer.back = "never" =>
       Deployable

\* An offer can be deployed and undone: its clone stays, through nights that
\* prepare something else, and the bundle of its pre-update copy holds what production
\* is at when it is deployed, unless HEAD went back to an older commit between the
\* discovery and the offer (machine.py:417-425, backup.py:144-150).
OfferCanBeUndone ==
  /\ Offered => offer.dir \in staged
  /\ Deployable => offer.pre.ok /\ (offer.pre.commit = head.commit \/ offer.back = "before")

\* A night is green only if its backup passed, which is to say that it was made and
\* verified, every version is known, and NO_UPDATES is said only of a Hermes with
\* nothing newer (status.py:66, machine.py:231-242).
GreenIsComplete ==
  step = "closed" /\ outcome \in Green =>
    /\ daily = [verdict |-> "PASS", dir |-> TRUE] /\ vers.known /\ resOk
    /\ outcome = "NO_UPDATES" => vers.target = 0
=============================================================================
