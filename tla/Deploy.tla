------------------------------- MODULE Deploy -------------------------------
(***************************************************************************)
(* One production host and the updater process that moves it from a source *)
(* commit to an approved candidate (updater/hermes_updater/deploy.py), the *)
(* part of `_apply` that records the result (machine.py) and the           *)
(* reconciliation a later invocation performs when the process died.       *)
(*                                                                         *)
(* The host is the git checkout (head), the virtualenv (venv), the copy of *)
(* the virtualenv that the rollback needs (bak) and the gateway, which     *)
(* keeps running what was on disk when it last started.  The run row of    *)
(* updater.db (state, phase, outcome, ...) survives a crash of the         *)
(* process; `mem`, the DeployResult, does not.                             *)
(***************************************************************************)
EXTENDS Naturals

CONSTANTS
  Commits,      \* commits production may be on
  Installed,    \* the one it is on at first
  MaxRuns,      \* bound: deployments per behaviour
  MaxCrashes,   \* bound: deaths of the updater process
  Exceptions    \* BOOLEAN: may a step raise (disk full, sqlite error)?

\* Contents of a virtualenv that no lock file describes.
Damaged == {"mixed", "missing"}

ASSUME CommitsAssumption ==
  /\ Commits \cap (Damaged \cup {"none", "partial"}) = {}
  /\ Installed \in Commits

ASSUME BoundsAssumption ==
  MaxRuns \in Nat /\ MaxCrashes \in Nat /\ Exceptions \in BOOLEAN

VARIABLES
  head,      \* commit checked out in production
  venv,      \* commit whose lock the production venv satisfies, or Damaged
  bak,       \* this deployment's copy of the venv: contents, "partial", "none"
  spare,     \* copies of the venv that earlier deployments left behind
  gw,        \* the gateway: is it up, and which code and deps it loaded
  src, tgt,  \* the payload: source commit and candidate commit
  state,     \* runs.state
  phase,     \* runs.data["phase"]; "none" before the rollback point exists
  outcome,   \* runs.outcome; "OPEN" is NULL, "NO_RUN" before the first run
  verdict,   \* runs.data["reconcile"]
  incident,  \* an incident notice of this run is in the outbox
  cand,      \* candidates.status of the payload
  attempts,  \* attempts rows that say ROLLED_BACK, as <<target, source>>
  pc, mem,   \* the process: next step and its DeployResult
  before,    \* history: head and venv when the deployment began
  runs, crashes

host == <<head, venv, bak, spare, gw>>
row  == <<src, tgt, state, phase, outcome, verdict, incident>>
book == <<cand, attempts>>
hist == <<before, runs, crashes>>
vars == <<host, row, book, pc, mem, hist>>

\* States in which production may be half changed (status.py).
DEPLOY_STATES == {"CONTROLLED_DEPLOYMENT", "SERVICE_RECOVERY",
                  "POST_UPDATE_TESTS", "ROLLBACK", "VERIFY_RECOVERY"}
States   == DEPLOY_STATES \cup {"AUTHORIZATION_GATE", "TELEGRAM_REPORT", "COMPLETE"}
Phases   == {"none", "rollback_point", "code", "restart", "post", "rollback",
             "verify_recovery"}
Outcomes == {"SUCCESS", "BLOCKED", "FAILED", "ROLLED_BACK", "RECOVERY_FAILED",
             "INTERRUPTED"}
Verdicts == {"none", "unchanged", "finished_well", "rollback_ok", "rollback_failed"}
Statuses == {"PENDING_APPROVAL", "BLOCKED", "DEPLOYED", "ROLLED_BACK"}

Deps  == Commits \cup Damaged
Steps == {"idle", "dead", "raised",
          "preconditions", "rollback_point", "venv_backup", "venv_copying",
          "db_snapshot", "persist_code", "code", "dependencies", "installing",
          "persist_restart", "restart", "health", "persist_post", "post",
          "persist_rollback", "rb_stop", "rb_code", "rb_venv", "rb_swap",
          "rb_unit", "rb_restart", "persist_verify", "rb_health",
          "send", "settle", "attempt", "report", "close"}

\* DeployResult: `by` tells _rollback_and_verify from reconcile, `ok` is the
\* ok_all of rollback(), `tg` the answer of the Telegram route test.
Results  == [by: {"deploy", "reconcile"}, deployed: BOOLEAN, post_ok: BOOLEAN,
             rolled_back: BOOLEAN, ok: BOOLEAN, recovery_ok: BOOLEAN, tg: BOOLEAN]
NoResult == [by |-> "deploy", deployed |-> FALSE, post_ok |-> FALSE,
             rolled_back |-> FALSE, ok |-> TRUE, recovery_ok |-> FALSE, tg |-> FALSE]

Gateways == [up: {"down", "active", "ready"}, code: Commits, deps: Deps]

TypeOK ==
  /\ head \in Commits /\ venv \in Deps
  /\ bak \in Deps \cup {"none", "partial"}
  /\ spare \in Nat
  /\ gw \in Gateways
  /\ src \in Commits /\ tgt \in Commits
  /\ state \in States /\ phase \in Phases
  /\ outcome \in Outcomes \cup {"OPEN", "NO_RUN"}
  /\ verdict \in Verdicts /\ incident \in BOOLEAN
  /\ cand \in Statuses /\ attempts \subseteq Commits \X Commits
  /\ pc \in Steps /\ mem \in Results
  /\ before \in [head: Commits, venv: Deps]
  /\ runs \in Nat /\ crashes \in Nat

\* Production as the last good update left it: the gateway is ready and runs
\* what is on disk.
Init ==
  /\ head = Installed /\ venv = Installed /\ bak = "none" /\ spare = 0
  /\ gw = [up |-> "ready", code |-> Installed, deps |-> Installed]
  /\ src = Installed /\ tgt = Installed /\ state = "COMPLETE" /\ phase = "none"
  /\ outcome = "NO_RUN" /\ verdict = "none" /\ incident = FALSE
  /\ cand = "BLOCKED" /\ attempts = {}
  /\ pc = "idle" /\ mem = NoResult
  /\ before = [head |-> Installed, venv |-> Installed] /\ runs = 0 /\ crashes = 0

-----------------------------------------------------------------------------
(* Authorised: `_apply` consumed the approval, stored the payload in the   *)
(* run and entered CONTROLLED_DEPLOYMENT.  A pair whose last attempt says  *)
(* ROLLED_BACK never gets a candidate (_hermes_skip_reason).               *)
Begin(s, t) ==
  /\ pc = "idle" /\ outcome # "OPEN" /\ runs < MaxRuns
  /\ s # t /\ <<t, s>> \notin attempts
  /\ src' = s /\ tgt' = t
  /\ state' = "CONTROLLED_DEPLOYMENT" /\ phase' = "none"
  /\ outcome' = "OPEN" /\ verdict' = "none" /\ incident' = FALSE
  /\ cand' = "PENDING_APPROVAL"
  /\ bak' = "none" /\ spare' = spare + (IF bak \in Deps THEN 1 ELSE 0)
  /\ before' = [head |-> head, venv |-> venv]
  /\ runs' = runs + 1
  /\ pc' = "preconditions" /\ mem' = NoResult
  /\ UNCHANGED <<head, venv, gw, attempts, crashes>>

Goto(from, to) == pc = from /\ pc' = to

\* persist(st, {"phase": ph}): the store moves before the phase starts.
Persist(from, st, ph, to) ==
  /\ Goto(from, to)
  /\ state' = st /\ phase' = ph
  /\ UNCHANGED <<host, src, tgt, outcome, verdict, incident, book, mem, hist>>

\* preconditions(): HEAD is the approved source and the gateway is active;
\* branch, tree, candidate, lock, backup and disk may each fail on their own.
PreconditionsPass ==
  /\ Goto("preconditions", "rollback_point")
  /\ head = src /\ gw.up # "down"
  /\ UNCHANGED <<host, row, book, mem, hist>>

PreconditionsFail ==
  /\ Goto("preconditions", "send")
  /\ UNCHANGED <<host, row, book, mem, hist>>

PersistRollbackPoint ==
  Persist("rollback_point", "CONTROLLED_DEPLOYMENT", "rollback_point", "venv_backup")

CopyVenv ==
  /\ Goto("venv_backup", "venv_copying")
  /\ bak' = "partial"
  /\ UNCHANGED <<head, venv, spare, gw, row, book, mem, hist>>

\* cp -a ended well.
VenvCopied ==
  /\ Goto("venv_copying", "db_snapshot")
  /\ venv # "missing" /\ bak' = venv
  /\ UNCHANGED <<head, venv, spare, gw, row, book, mem, hist>>

\* cp -a failed: what it copied stays behind.
VenvCopyFails ==
  /\ Goto("venv_copying", "send")
  /\ UNCHANGED <<host, row, book, mem, hist>>

SnapshotDatabases ==
  /\ Goto("db_snapshot", "persist_code")
  /\ UNCHANGED <<host, row, book, mem, hist>>

SnapshotFails ==
  /\ Goto("db_snapshot", "send")
  /\ bak' = "none"
  /\ UNCHANGED <<head, venv, spare, gw, row, book, mem, hist>>

\* Mutant of PersistCode: the phase "code" is not persisted before the merge.
PersistCodeLate ==
  Persist("persist_code", "CONTROLLED_DEPLOYMENT", "rollback_point", "code")

PersistCode == Persist("persist_code", "CONTROLLED_DEPLOYMENT", "code", "code")

\* fetch + merge --ff-only + tag check.  A wrong tag is noticed after HEAD moved.
Merge ==
  /\ Goto("code", "dependencies")
  /\ head' = tgt /\ mem' = [mem EXCEPT !.deployed = TRUE]
  /\ UNCHANGED <<venv, bak, spare, gw, row, book, hist>>

MergeFails ==
  /\ Goto("code", "persist_rollback")
  /\ head' \in {head, tgt} /\ mem' = [mem EXCEPT !.deployed = TRUE]
  /\ UNCHANGED <<venv, bak, spare, gw, row, book, hist>>

\* pip rewrites the venv in place; until it ends its contents match no lock.
InstallDependencies ==
  /\ Goto("dependencies", "installing")
  /\ venv' = "mixed"
  /\ UNCHANGED <<head, bak, spare, gw, row, book, mem, hist>>

\* Mutant of DependenciesInstalled: the delta skips a package.
DependenciesHalfInstalled ==
  /\ Goto("installing", "persist_restart")
  /\ UNCHANGED <<host, row, book, mem, hist>>

DependenciesInstalled ==
  /\ Goto("installing", "persist_restart")
  /\ venv' = tgt
  /\ UNCHANGED <<head, bak, spare, gw, row, book, mem, hist>>

DependenciesFail ==
  /\ Goto("installing", "persist_rollback")
  /\ UNCHANGED <<host, row, book, mem, hist>>

PersistRestart == Persist("persist_restart", "SERVICE_RECOVERY", "restart", "restart")

\* A gateway that starts loads what is on disk; without a venv it never
\* becomes ready.
GatewayStarts ==
  \E up \in {"active", "ready"} :
    /\ up = "ready" => venv # "missing"
    /\ gw' = [up |-> up, code |-> head, deps |-> venv]

RestartGateway ==
  /\ Goto("restart", "health")
  /\ GatewayStarts
  /\ UNCHANGED <<head, venv, bak, spare, row, book, mem, hist>>

RestartFails ==
  /\ Goto("restart", "persist_rollback")
  /\ gw' = [gw EXCEPT !.up = "down"]
  /\ UNCHANGED <<head, venv, bak, spare, row, book, mem, hist>>

\* wait_healthy(): stable PID, no new restarts, ready line in the journal.
Healthy ==
  /\ Goto("health", "persist_post")
  /\ gw.up = "ready"
  /\ UNCHANGED <<host, row, book, mem, hist>>

Unhealthy ==
  /\ Goto("health", "persist_rollback")
  /\ gw.up # "ready"
  /\ UNCHANGED <<host, row, book, mem, hist>>

PersistPost == Persist("persist_post", "POST_UPDATE_TESTS", "post", "post")

\* post_tests() looks at HEAD, at what the venv's python reports, at logs,
\* databases and files: never at the gateway, its PID or the lock.
PostTestsMayPass == head = tgt /\ venv # "missing"

PostTestsPass ==
  /\ Goto("post", "send")
  /\ PostTestsMayPass
  /\ mem' = [mem EXCEPT !.post_ok = TRUE]
  /\ UNCHANGED <<host, row, book, hist>>

PostTestsFail ==
  /\ Goto("post", "persist_rollback")
  /\ UNCHANGED <<host, row, book, mem, hist>>

-----------------------------------------------------------------------------
(* _rollback_and_verify() and rollback().  The same rollback() runs inside *)
(* reconcile, which persists no phase of its own.                          *)
PersistRollback == Persist("persist_rollback", "ROLLBACK", "rollback", "rb_stop")

\* `ok_all &= add(...)`: a failed step is remembered and the rollback goes on.
Note(ok) == mem' = [mem EXCEPT !.ok = @ /\ ok]

\* Mutant of StopGateway: a stop that failed counts as a stop.
StopGatewayUnchecked(ok) ==
  /\ Goto("rb_stop", "rb_code")
  /\ gw' = IF ok THEN [gw EXCEPT !.up = "down"] ELSE gw
  /\ UNCHANGED <<head, venv, bak, spare, row, book, mem, hist>>

StopGateway(ok) ==
  /\ Goto("rb_stop", "rb_code")
  /\ Note(ok)
  /\ gw' = IF ok THEN [gw EXCEPT !.up = "down"] ELSE gw
  /\ UNCHANGED <<head, venv, bak, spare, row, book, hist>>

ResetCode(ok) ==
  /\ Goto("rb_code", "rb_venv")
  /\ Note(ok)
  /\ head' = IF ok THEN src ELSE head
  /\ UNCHANGED <<venv, bak, spare, gw, row, book, hist>>

\* os.replace(venv, failed)
SetVenvAside ==
  /\ Goto("rb_venv", "rb_swap")
  /\ bak # "none"
  /\ venv' = "missing"
  /\ UNCHANGED <<head, bak, spare, gw, row, book, mem, hist>>

\* No copy to restore, or os.replace raised OSError.
VenvNotRestored ==
  /\ \/ Goto("rb_venv", "rb_unit")
     \/ Goto("rb_swap", "rb_unit")
  /\ Note(FALSE)
  /\ UNCHANGED <<host, row, book, hist>>

\* os.replace(bak, venv)
RestoreVenv ==
  /\ Goto("rb_swap", "rb_unit")
  /\ venv' = bak /\ bak' = "none"
  /\ UNCHANGED <<head, spare, gw, row, book, mem, hist>>

RestoreUnit(ok) ==
  /\ Goto("rb_unit", "rb_restart")
  /\ Note(ok)
  /\ UNCHANGED <<host, row, book, hist>>

AfterRollback == IF mem.by = "deploy" THEN "persist_verify" ELSE "rb_health"

RollbackRestart ==
  /\ Goto("rb_restart", AfterRollback)
  /\ GatewayStarts
  /\ mem' = [mem EXCEPT !.rolled_back = TRUE]
  /\ UNCHANGED <<head, venv, bak, spare, row, book, hist>>

RollbackRestartFails ==
  /\ Goto("rb_restart", AfterRollback)
  /\ gw' = [gw EXCEPT !.up = "down"]
  /\ mem' = [mem EXCEPT !.rolled_back = TRUE, !.ok = FALSE]
  /\ UNCHANGED <<head, venv, bak, spare, row, book, hist>>

PersistVerify ==
  Persist("persist_verify", "VERIFY_RECOVERY", "verify_recovery", "rb_health")

VerifyRecovery ==
  /\ mem.by = "deploy" /\ Goto("rb_health", "send")
  /\ mem' = [mem EXCEPT !.recovery_ok = mem.ok /\ gw.up = "ready" /\ head = src]
  /\ UNCHANGED <<host, row, book, hist>>

-----------------------------------------------------------------------------
(* The rest of _apply and the end of _guarded.                             *)
TestTelegramRoute ==
  /\ Goto("send", "settle")
  /\ \E ok \in BOOLEAN : mem' = [mem EXCEPT !.tg = ok]
  /\ UNCHANGED <<host, row, book, hist>>

Good == mem.post_ok /\ ~mem.rolled_back
Result ==
  IF ~mem.deployed THEN "BLOCKED"
  ELSE IF Good THEN IF mem.tg THEN "SUCCESS" ELSE "FAILED"
  ELSE IF mem.recovery_ok THEN "ROLLED_BACK" ELSE "RECOVERY_FAILED"

Settle ==
  /\ Goto("settle", "attempt")
  /\ cand' = IF ~mem.deployed THEN "BLOCKED"
             ELSE IF Good THEN "DEPLOYED" ELSE "ROLLED_BACK"
  /\ incident' = (incident \/ Result = "RECOVERY_FAILED")
  /\ UNCHANGED <<host, src, tgt, state, phase, outcome, verdict, attempts, mem, hist>>

\* Mutant of RecordAttempt: a failed recovery is not recorded.
RecordCleanRollback ==
  /\ Goto("attempt", "report")
  /\ attempts' = IF Result = "ROLLED_BACK" THEN attempts \cup {<<tgt, src>>} ELSE attempts
  /\ UNCHANGED <<host, row, cand, mem, hist>>

RecordAttempt ==
  /\ Goto("attempt", "report")
  /\ attempts' = IF Result \in {"ROLLED_BACK", "RECOVERY_FAILED"}
                 THEN attempts \cup {<<tgt, src>>} ELSE attempts
  /\ UNCHANGED <<host, row, cand, mem, hist>>

Report == Persist("report", "TELEGRAM_REPORT", phase, "close")

CloseRun ==
  /\ Goto("close", "idle")
  /\ outcome' = Result
  /\ state' = IF Result = "SUCCESS" THEN "COMPLETE" ELSE state
  /\ UNCHANGED <<host, src, tgt, phase, verdict, incident, book, mem, hist>>

\* What may raise out of _apply: the store (every persist), file writes of the
\* snapshot and of the dependency delta, the digests of post_tests, the copy
\* of the unit files.
Raisable == {"rollback_point", "db_snapshot", "persist_code", "dependencies",
             "persist_restart", "persist_post", "post", "persist_rollback",
             "rb_unit", "persist_verify", "settle", "attempt", "report"}

Raise ==
  /\ Exceptions /\ mem.by = "deploy"
  /\ pc \in Raisable /\ pc' = "raised"
  /\ UNCHANGED <<host, row, book, mem, hist>>

\* `except Exception` of _guarded: incident notice, run closed as FAILED.
CloseRaised ==
  /\ Goto("raised", "idle")
  /\ incident' = TRUE /\ outcome' = "FAILED"
  /\ UNCHANGED <<host, src, tgt, state, phase, verdict, book, mem, hist>>

-----------------------------------------------------------------------------
(* Death of the process and reconcile() in the next invocation.            *)
Crash ==
  /\ pc \notin {"idle", "dead"} /\ crashes < MaxCrashes
  /\ pc' = "dead" /\ mem' = NoResult /\ crashes' = crashes + 1
  /\ UNCHANGED <<host, row, book, before, runs>>

Reconcilable == state \in DEPLOY_STATES /\ phase # "none"

Interrupted(v) ==
  /\ pc' = "idle" /\ outcome' = "INTERRUPTED" /\ verdict' = v
  /\ UNCHANGED <<src, tgt, state, phase>>

\* Mutant of CloseInterrupted: only runs in a deployment state are looked at.
CloseInterruptedDeployment ==
  /\ pc = "dead" /\ phase = "none" /\ state \in DEPLOY_STATES
  /\ Interrupted(verdict)
  /\ UNCHANGED <<host, incident, book, mem, hist>>

CloseInterrupted ==
  /\ pc = "dead" /\ ~Reconcilable
  /\ Interrupted(verdict)
  /\ UNCHANGED <<host, incident, book, mem, hist>>

\* Mutant of ReconcileUntouched: any dead deployment counts as untouched.
ReconcileAsUntouched ==
  /\ pc = "dead" /\ Reconcilable
  /\ bak' = "none"
  /\ Interrupted("unchanged")
  /\ UNCHANGED <<head, venv, spare, gw, incident, book, mem, hist>>

\* Phase rollback_point: the code was not touched, only the copy is removed.
ReconcileUntouched ==
  /\ pc = "dead" /\ Reconcilable /\ phase = "rollback_point"
  /\ bak' = "none"
  /\ Interrupted("unchanged")
  /\ UNCHANGED <<head, venv, spare, gw, incident, book, mem, hist>>

\* Mutant of ReconcileAccepts: a dead deployment is accepted untested.
ReconcileAcceptsUntested ==
  /\ pc = "dead" /\ Reconcilable /\ phase # "rollback_point"
  /\ Interrupted("finished_well")
  /\ UNCHANGED <<host, incident, book, mem, hist>>

ReconcileAccepts ==
  /\ pc = "dead" /\ Reconcilable /\ phase # "rollback_point"
  /\ PostTestsMayPass
  /\ Interrupted("finished_well")
  /\ UNCHANGED <<host, incident, book, mem, hist>>

ReconcileRollsBack ==
  /\ Goto("dead", "rb_stop") /\ Reconcilable /\ phase # "rollback_point"
  /\ mem' = [NoResult EXCEPT !.by = "reconcile"]
  /\ UNCHANGED <<host, row, book, hist>>

\* Mutant of ReconcileVerifies: a failed recovery is not reported.
ReconcileVerifiesSilently ==
  /\ mem.by = "reconcile" /\ pc = "rb_health"
  /\ Interrupted(IF mem.ok /\ gw.up = "ready" THEN "rollback_ok" ELSE "rollback_failed")
  /\ UNCHANGED <<host, incident, book, mem, hist>>

ReconcileVerifies ==
  /\ mem.by = "reconcile" /\ pc = "rb_health"
  /\ LET healthy == mem.ok /\ gw.up = "ready" IN
       /\ Interrupted(IF healthy THEN "rollback_ok" ELSE "rollback_failed")
       /\ incident' = (incident \/ ~healthy)
  /\ UNCHANGED <<host, book, mem, hist>>

-----------------------------------------------------------------------------
\* Environment: the gateway connects, loses its connection, or dies and is
\* restarted by systemd, which loads the disk of that moment.
GatewayChanges ==
  /\ gw.up # "down"
  /\ \/ \E up \in {"active", "ready"} :
          /\ up = "ready" => gw.deps # "missing"
          /\ gw' = [gw EXCEPT !.up = up]
     \/ GatewayStarts
  /\ UNCHANGED <<head, venv, bak, spare, row, book, pc, mem, hist>>

Forward ==
  \/ PreconditionsPass \/ PreconditionsFail \/ PersistRollbackPoint
  \/ CopyVenv \/ VenvCopied \/ VenvCopyFails
  \/ SnapshotDatabases \/ SnapshotFails \/ PersistCode
  \/ Merge \/ MergeFails
  \/ InstallDependencies \/ DependenciesInstalled \/ DependenciesFail
  \/ PersistRestart \/ RestartGateway \/ RestartFails \/ Healthy \/ Unhealthy
  \/ PersistPost \/ PostTestsPass \/ PostTestsFail

Backward ==
  \/ PersistRollback
  \/ \E ok \in BOOLEAN : StopGateway(ok) \/ ResetCode(ok) \/ RestoreUnit(ok)
  \/ SetVenvAside \/ VenvNotRestored \/ RestoreVenv
  \/ RollbackRestart \/ RollbackRestartFails
  \/ PersistVerify \/ VerifyRecovery

Finish ==
  \/ TestTelegramRoute \/ Settle \/ RecordAttempt \/ Report \/ CloseRun
  \/ CloseRaised

Reconcile ==
  \/ CloseInterrupted \/ ReconcileUntouched \/ ReconcileAccepts
  \/ ReconcileRollsBack \/ ReconcileVerifies

\* What the updater does on its own once it runs; Raise and Crash befall it.
Updater == Forward \/ Backward \/ Finish \/ Reconcile

Next ==
  \/ \E s, t \in Commits : Begin(s, t)
  \/ Updater \/ Raise \/ Crash \/ GatewayChanges

Spec == Init /\ [][Next]_vars

\* hermes-updater.timer (Persistent=true) runs the updater again, so a dead
\* run is reconciled, and a live process keeps taking steps: every call it
\* makes has a timeout (proc.py, wait_healthy).
FairSpec == Spec /\ WF_vars(Updater)

-----------------------------------------------------------------------------
(* Properties.                                                             *)

Served == /\ head = tgt /\ venv = tgt
          /\ gw.code = tgt /\ gw.deps = tgt
OnDisk(b) == head = b.head /\ venv = b.venv
Closed == outcome \in Outcomes

\* SUCCESS means that the gateway runs the approved candidate with exactly the
\* dependencies that were tested, whatever failed, died or restarted before
\* (machine.py _apply, deploy.py deploy).
SuccessMeansServed == outcome = "SUCCESS" => Served

\* ROLLED_BACK means that the checkout and the virtualenv are what they were
\* before the deployment and that the gateway loaded them, not the remains of
\* the candidate (deploy.py _rollback_and_verify).
RolledBackMeansRestored ==
  outcome = "ROLLED_BACK" =>
    /\ OnDisk(before)
    /\ gw.code = before.head /\ gw.deps = before.venv

\* BLOCKED means that production was not touched (status.py, "sin cambios").
BlockedMeansUntouched == outcome = "BLOCKED" => OnDisk(before)

\* What the row of a run says of production is so, whatever failed, died or
\* restarted on the way (status.py, machine.py _apply).
OutcomeIsTrue == SuccessMeansServed /\ RolledBackMeansRestored /\ BlockedMeansUntouched

\* At every moment, in whatever step the updater dies or raises, the
\* virtualenv of before the deployment still exists whole, in place or as the
\* copy that the rollback restores (deploy.py venv_backup, rollback).
VenvRecoverable == venv = before.venv \/ bak = before.venv

\* A run is closed only if production is back where it was, or serves the
\* candidate, or a person was told, or the post-tests passed on a deployment
\* whose process had died (machine.py _guarded, _apply, reconcile).
ClosedIsAccountedFor ==
  Closed => \/ OnDisk(before) \/ Served \/ incident \/ verdict = "finished_well"

\* The code and the virtualenv change only inside an open run whose store
\* already says so: the rollback point is persisted, and so is the phase that
\* follows it (deploy.py: "persist registra la transicion ANTES de cada fase").
ChangesUnderRollbackPoint ==
  [][<<head, venv>>' # <<head, venv>> =>
       /\ outcome = "OPEN" /\ Reconcilable /\ phase # "rollback_point"
       /\ venv = before.venv \/ bak = before.venv]_vars

\* The updater never puts the old code back under a gateway it knows to be
\* running: after a stop that worked, the gateway stays down until rollback
\* restarts it (deploy.py rollback, incident of 2026-10-19).
RestoredUnderStoppedGateway ==
  [][mem.ok /\ pc \in {"rb_code", "rb_venv", "rb_swap"} /\ <<head, venv>>' # <<head, venv>>
       => gw.up = "down"]_vars

\* A deployment that the run itself reverted is remembered before the run is
\* closed, so the same pair is never prepared again (machine.py _apply).
RevertedIsRemembered ==
  outcome \in {"ROLLED_BACK", "RECOVERY_FAILED"} => <<tgt, src>> \in attempts

\* Every run ends: completed, or closed by the reconciliation of a later
\* invocation (store.py close_run, machine.py reconcile).
RunIsClosed == outcome = "OPEN" ~> Closed

\* How the run row reads as the end of an update: an incident notice, the
\* post-tests that reconcile accepted, the outcome, or the disk it left.
UpdateStatus ==
  IF outcome = "OPEN" THEN "updating"
  ELSE IF incident THEN "alarm"
  ELSE IF verdict = "finished_well" THEN "accepted"
  ELSE IF outcome \in {"NO_RUN", "BLOCKED", "ROLLED_BACK"} THEN "restored"
  ELSE IF outcome # "SUCCESS" /\ OnDisk(before) THEN "restored"
  ELSE "updated"

Update == INSTANCE SafeUpdate WITH
  Disks  <- [head: Commits, venv: Deps],
  disk   <- [head |-> head, venv |-> venv],
  home   <- before,
  goal   <- [head |-> tgt, venv |-> tgt],
  status <- UpdateStatus

\* Every behaviour of the updater, with its crashes, exceptions and
\* reconciliations, is a safe update (deploy.py, machine.py).
ImplementsSafeUpdate == Update!Spec

-----------------------------------------------------------------------------
(* What comments of the code say and the code does not do.                 *)

\* machine.py:129: an interrupted deployment that passes the post-tests had
\* ended well, so the gateway runs what was deployed.
AcceptedIsServed == verdict = "finished_well" => Served
=============================================================================
