----------------------------- MODULE Orchestrator ---------------------------
(***************************************************************************)
(* Who may deploy what, and when: the invocations of hermes-updater that   *)
(* meet on one host (machine.py, store.py, approval.py, cli.py).           *)
(*                                                                         *)
(* An invocation is a `run` (timer or by hand), which under auto_apply goes *)
(* on as an application of what it prepared, or an `apply` (the path unit  *)
(* when root records an approval, or by hand); they work under a           *)
(* non-blocking flock, and any number of them may be alive.  `revoke` and  *)
(* `rollback` work without it.  The deployment itself is one change of     *)
(* production here: Deploy says what happens inside it.                    *)
(***************************************************************************)
EXTENDS Naturals, FiniteSets

CONSTANTS
  Procs,         \* invocations that may be alive at the same time
  AutoApply,     \* BOOLEAN: policy.auto_apply
  CandidateTTL,  \* policy.candidate_ttl_h
  ApprovalTTL,   \* policy.approval_ttl_s
  RetryAfter,    \* policy.retry_blocked_after_h
  Raises,        \* BOOLEAN: may the work of a run raise?
  MaxVersion,    \* bound: upstream releases
  MaxClock,      \* bound: time
  MaxRuns,       \* bound: rows of `runs`
  MaxCandidates, \* bound: candidates ever prepared
  MaxApprovals,  \* bound: approvals that root records
  MaxRevokes,    \* bound: `revoke` commands
  MaxRollbacks,  \* bound: `rollback` commands
  MaxCrashes     \* bound: processes that die

ASSUME OrchestratorAssumption ==
  /\ "free" \notin Procs
  /\ {AutoApply, Raises} \subseteq BOOLEAN
  /\ {CandidateTTL, ApprovalTTL, RetryAfter, MaxVersion, MaxRuns, MaxCandidates,
      MaxApprovals, MaxRevokes, MaxRollbacks, MaxCrashes} \subseteq Nat
  /\ MaxClock \in Nat \ {0}

VARIABLES
  prod,        \* version in production
  upstream,    \* newest version upstream has published
  clock,
  cand,        \* candidates table: code -> row
  consumed,    \* consumed_approvals: when each code was used; 0 = never
  attempts,    \* newest attempts row of each <<target, source>>
  run,         \* the open row of `runs`; id 0 when none is open
  runs,        \* rows of `runs` so far
  approvedAt,  \* approval files: when root recorded each one; 0 = no file
  triggered,   \* the path unit has seen a change and not started apply yet
  lock,        \* holder of the flock
  pc, my,      \* per process: next step, local variables
  revoking,    \* `revoke`: the code it read as pending (0 = none), whether it set it
  deployments, \* history: deployments begun with each code
  reverted,    \* history: pairs that a deployment recorded as reverted, and none revoked since
  undone,      \* history: pairs deployed and taken back by anybody, and none revoked since
  left,        \* history: candidates whose run gave up, or died, with them in hand
  approvals, revokes, rollbacks, crashes

store == <<cand, consumed, attempts, run, runs>>
procs == <<lock, pc, my>>
outer == <<upstream, clock, approvedAt, triggered>>
past  == <<deployments, reverted, undone, left>>
meter == <<approvals, revokes, rollbacks, crashes>>
vars  == <<prod, store, procs, outer, revoking, past, meter>>

Versions == 0 .. MaxVersion
Pairs    == Versions \X Versions
Codes    == 1 .. MaxCandidates
Times    == 0 .. MaxClock

CandidateStatuses == {"NONE", "PENDING_APPROVAL", "DEPLOYED", "ROLLED_BACK", "EXPIRED",
                      "SUPERSEDED", "BLOCKED", "REVOKED"}
AttemptOutcomes == {"none", "PENDING_APPROVAL", "BLOCKED", "FAILED", "BACKUP_FAILED",
                    "ROLLED_BACK", "REVOKED"}
DeployResults   == {"none", "blocked", "success", "rolled_back", "recovery_failed"}
Steps == {"idle", "lock", "reconcile", "open", "classify", "prepare", "save", "insert",
          "prepared", "gate", "authorise", "deploy", "changing", "settle", "record", "close", "auto"}

Candidates == [status: CandidateStatuses, target: Versions, source: Versions,
               run: Nat, created: Nat, expires: Nat]
Kinds      == {"none", "run", "apply", "auto"}
Locals     == [code: 0 .. MaxCandidates, kind: Kinds, run: Nat, target: Versions,
               source: Versions, result: DeployResults, pending: BOOLEAN]
NoLocals   == [code |-> 0, kind |-> "none", run |-> 0, target |-> 0, source |-> 0,
               result |-> "none", pending |-> FALSE]

\* The open row, whether production is being changed (DEPLOY_STATES with a
\* rollback point), its candidate, and the process that works on it.
RunRows == [id: Nat, changing: BOOLEAN, code: 0 .. MaxCandidates, by: Procs \cup {"free"}]
NoRun   == [id |-> 0, changing |-> FALSE, code |-> 0, by |-> "free"]

\* `knew` is history: the pair had been taken back when `revoke` read the row.
Revocations == [code: 0 .. MaxCandidates, set: BOOLEAN, knew: BOOLEAN]
NotRevoking == [code |-> 0, set |-> FALSE, knew |-> FALSE]

TypeOK ==
  /\ prod \in Versions /\ upstream \in Versions /\ clock \in Times
  /\ cand \in [Codes -> Candidates] /\ consumed \in [Codes -> Times]
  /\ attempts \in [Pairs -> [outcome: AttemptOutcomes, at: Times]]
  /\ run \in RunRows /\ runs \in Nat
  /\ approvedAt \in [Codes -> Times] /\ triggered \in BOOLEAN
  /\ lock \in Procs \cup {"free"}
  /\ pc \in [Procs -> Steps] /\ my \in [Procs -> Locals]
  /\ revoking \in Revocations
  /\ deployments \in [Codes -> Nat]
  /\ reverted \subseteq Pairs /\ undone \subseteq Pairs /\ left \subseteq Codes
  /\ approvals \in Nat /\ revokes \in Nat /\ rollbacks \in Nat /\ crashes \in Nat

Init ==
  /\ prod = 0 /\ upstream = 0 /\ clock = 1
  /\ cand = [c \in Codes |-> [status |-> "NONE", target |-> 0, source |-> 0,
                              run |-> 0, created |-> 0, expires |-> 0]]
  /\ consumed = [c \in Codes |-> 0]
  /\ attempts = [p \in Pairs |-> [outcome |-> "none", at |-> 0]]
  /\ run = NoRun /\ runs = 0
  /\ approvedAt = [c \in Codes |-> 0] /\ triggered = FALSE
  /\ lock = "free" /\ pc = [p \in Procs |-> "idle"] /\ my = [p \in Procs |-> NoLocals]
  /\ revoking = NotRevoking
  /\ deployments = [c \in Codes |-> 0]
  /\ reverted = {} /\ undone = {} /\ left = {}
  /\ approvals = 0 /\ revokes = 0 /\ rollbacks = 0 /\ crashes = 0

-----------------------------------------------------------------------------
Pair(c)      == <<cand[c].target, cand[c].source>>
IsPending(c) == c \in Codes /\ cand[c].status = "PENDING_APPROVAL"

\* pending_candidate(): the newest PENDING_APPROVAL row, 0 if there is none.
Newest(c) == IsPending(c) /\ \A d \in Codes : IsPending(d) => d <= c
PendingCandidate == IF \E c \in Codes : Newest(c) THEN CHOOSE c \in Codes : Newest(c) ELSE 0

Goto(p, from, to) == pc[p] = from /\ pc' = [pc EXCEPT ![p] = to]
Forget(p)         == my' = [my EXCEPT ![p] = NoLocals]
Attempt(pair, o)  == attempts' = [attempts EXCEPT ![pair] = [outcome |-> o, at |-> clock]]
SetStatus(c, s)   == cand' = [cand EXCEPT ![c].status = s]

\* The candidates in the hands of p: what its run prepared, what it applies.
Holds(p) == {c \in Codes : c = my[p].code \/ (my[p].run # 0 /\ cand[c].run = my[p].run)}
Leave(p) == left' = left \cup Holds(p)

-----------------------------------------------------------------------------
(* _guarded: the lock, the reconciliation and the row of the run.          *)

\* `hermes-updater run`, by the timer or by hand.
StartDaily(p) ==
  /\ Goto(p, "idle", "lock")
  /\ runs < MaxRuns
  /\ my' = [my EXCEPT ![p].kind = "run"]
  /\ UNCHANGED <<prod, store, lock, outer, revoking, past, meter>>

\* hermes-updater-apply.path starts `hermes-updater apply`, without a code.
StartApply(p) ==
  /\ triggered /\ triggered' = FALSE
  /\ Goto(p, "idle", "lock")
  /\ my' = [my EXCEPT ![p].kind = "apply"]
  /\ UNCHANGED <<prod, store, lock, upstream, clock, approvedAt, revoking, past, meter>>

\* `hermes-updater apply [--candidate c]` by hand; 0 stands for no code.
ApplyByHand(p, c) ==
  /\ Goto(p, "idle", "lock")
  /\ runs < MaxRuns
  /\ my' = [my EXCEPT ![p].kind = "apply", ![p].code = c]
  /\ UNCHANGED <<prod, store, lock, outer, revoking, past, meter>>

\* flock(LOCK_EX | LOCK_NB)
Acquire(p) ==
  /\ lock = "free"
  /\ Goto(p, "lock", "reconcile") /\ lock' = p
  /\ UNCHANGED <<prod, store, my, outer, revoking, past, meter>>

\* Busy: (None, BLOCKED), exit code 3; nothing is written.  A run that had
\* prepared a candidate and was about to apply it gives up here.
FindBusy(p) ==
  /\ lock # "free"
  /\ Goto(p, "lock", "idle") /\ Forget(p)
  /\ IF my[p].kind = "auto" THEN Leave(p) ELSE UNCHANGED left
  /\ UNCHANGED <<prod, store, lock, outer, revoking, deployments, reverted, undone, meter>>

\* reconcile(): the row a dead process left open.  A deployment that was
\* changing production is accepted or rolled back; the candidate and the
\* attempts are not touched.
ReconcileRun(p) ==
  /\ Goto(p, "reconcile", "open")
  /\ run' = NoRun
  /\ prod' \in IF run.changing THEN {cand[run.code].source, cand[run.code].target}
               ELSE {prod}
  /\ undone' = IF run.changing /\ prod = cand[run.code].target /\ prod' # prod
               THEN undone \cup {Pair(run.code)} ELSE undone
  /\ UNCHANGED <<cand, consumed, attempts, runs, lock, my, outer, revoking,
                 deployments, reverted, left, meter>>

OpenRun(p) ==
  /\ Goto(p, "open", IF my[p].kind = "run" THEN "classify" ELSE "gate")
  /\ runs' = runs + 1
  /\ run' = [id |-> runs + 1, changing |-> FALSE, code |-> 0, by |-> p]
  /\ my' = [my EXCEPT ![p].run = IF @ = 0 THEN runs + 1 ELSE @]
  /\ UNCHANGED <<prod, cand, consumed, attempts, lock, outer, revoking, past, meter>>

\* close_run; the lock goes with the process's file descriptor.
Close(p) ==
  LET auto == my[p].pending /\ AutoApply IN
  /\ Goto(p, "close", IF auto THEN "auto" ELSE "idle")
  /\ IF auto THEN UNCHANGED my ELSE Forget(p)
  /\ run' = NoRun /\ lock' = "free"
  /\ UNCHANGED <<prod, cand, consumed, attempts, runs, outer, revoking, past, meter>>

\* The steps of a process whose run is open and still has something to do.
Working == Steps \ {"idle", "lock", "auto", "reconcile", "open", "close"}

\* Production when p stops where it is: deploy() may have got to the code or not.
WhatRemains(p) == IF pc[p] = "changing" THEN {cand[my[p].code].source, cand[my[p].code].target}
                  ELSE {prod}

\* The body raises (a store that stays locked, a file, a call): `except Exception`
\* closes the run as FAILED.  In deploy() production may be left either way.
Raise(p) ==
  /\ Raises
  /\ pc[p] \in Working /\ pc' = [pc EXCEPT ![p] = "close"]
  /\ prod' \in WhatRemains(p)
  /\ Leave(p)
  /\ UNCHANGED <<store, lock, my, outer, revoking, deployments, reverted, undone, meter>>

-----------------------------------------------------------------------------
(* _daily: classification and preparation.                                 *)

\* Mutant of Skip: the attempt that counts is only the recent one.
SkipRecent(target, source) ==
  LET last == attempts[<<target, source>>] IN
  \/ \E c \in Codes : /\ c = PendingCandidate /\ Pair(c) = <<target, source>>
                      /\ cand[c].expires > clock
  \/ /\ last.outcome \in {"ROLLED_BACK", "BLOCKED", "FAILED"}
     /\ clock - last.at < RetryAfter

\* _hermes_skip_reason for production's version and the newest one.
Skip(target, source) ==
  LET last == attempts[<<target, source>>] IN
  \/ \E c \in Codes : /\ c = PendingCandidate /\ Pair(c) = <<target, source>>
                      /\ cand[c].expires > clock
  \/ last.outcome = "ROLLED_BACK"
  \/ last.outcome \in {"BLOCKED", "FAILED"} /\ clock - last.at < RetryAfter

Classify(p) ==
  LET update == upstream > prod /\ ~Skip(upstream, prod) IN
  /\ Goto(p, "classify", IF update THEN "prepare" ELSE "close")
  /\ my' = IF update THEN [my EXCEPT ![p].target = upstream, ![p].source = prod]
           ELSE my
  /\ UNCHANGED <<prod, store, lock, outer, revoking, past, meter>>

\* Backup, staging, tests and review, each with its verdict.
Prepare(p) ==
  /\ Goto(p, "prepare", "save")
  /\ \E c \in Codes : cand[c].status = "NONE"
  /\ UNCHANGED <<prod, store, lock, my, outer, revoking, past, meter>>

PrepareBlocks(p) ==
  /\ Goto(p, "prepare", "close")
  /\ \/ \E o \in {"BLOCKED", "FAILED", "BACKUP_FAILED"} :
          Attempt(<<my[p].target, my[p].source>>, o)
     \/ UNCHANGED attempts  \* a phase raised
  /\ UNCHANGED <<prod, cand, consumed, run, runs, lock, my, outer, revoking, past, meter>>

\* Mutant of SupersedePending: the older pending candidates stay pending.
SupersedeNothing(p) ==
  /\ Goto(p, "save", "insert")
  /\ UNCHANGED <<prod, store, lock, my, outer, revoking, past, meter>>

\* save_candidate is two statements.  The older pending ones become SUPERSEDED ...
SupersedePending(p) ==
  /\ Goto(p, "save", "insert")
  /\ cand' = [d \in Codes |-> IF IsPending(d) THEN [cand[d] EXCEPT !.status = "SUPERSEDED"]
                              ELSE cand[d]]
  /\ UNCHANGED <<prod, consumed, attempts, run, runs, lock, my, outer, revoking, past, meter>>

\* ... and the new one is inserted.
SaveCandidate(p) ==
  \E c \in Codes :
    /\ cand[c].status = "NONE" /\ \A d \in Codes : d < c => cand[d].status # "NONE"
    /\ Goto(p, "insert", "prepared")
    /\ cand' = [cand EXCEPT ![c] =
                  [status |-> "PENDING_APPROVAL", target |-> my[p].target,
                   source |-> my[p].source, run |-> my[p].run,
                   created |-> clock, expires |-> clock + CandidateTTL]]
    /\ UNCHANGED <<prod, consumed, attempts, run, runs, lock, my, outer, revoking, past, meter>>

\* The outcome is PENDING_APPROVAL if the backup of the night passed; otherwise
\* FAILED, under which the candidate waits and nobody applies it.
BackupDecides(p) ==
  \E backed \in BOOLEAN :
    /\ my' = [my EXCEPT ![p].pending = backed]
    /\ IF backed THEN UNCHANGED left ELSE Leave(p)

RecordPrepared(p) ==
  /\ Goto(p, "prepared", "close")
  /\ Attempt(<<my[p].target, my[p].source>>, "PENDING_APPROVAL")
  /\ BackupDecides(p)
  /\ UNCHANGED <<prod, cand, consumed, run, runs, lock, outer, revoking,
                 deployments, reverted, undone, meter>>

\* daily() under auto_apply, after it gave the lock back.
AutoApplies(p) ==
  LET c == PendingCandidate
      mine == c # 0 /\ cand[c].run = my[p].run IN
  /\ Goto(p, "auto", IF mine THEN "lock" ELSE "idle")
  /\ my' = IF mine THEN [my EXCEPT ![p].kind = "auto", ![p].code = c,
                               ![p].pending = FALSE]
           ELSE [my EXCEPT ![p] = NoLocals]
  /\ UNCHANGED <<prod, store, lock, outer, revoking, past, meter>>

-----------------------------------------------------------------------------
(* _apply.                                                                 *)

\* The row of the candidate is read here, and its status never again.
Gate(p) ==
  LET c == IF my[p].code # 0 THEN my[p].code ELSE PendingCandidate IN
  /\ Goto(p, "gate", IF IsPending(c) THEN "authorise" ELSE "close")
  /\ my' = [my EXCEPT ![p].code = c]
  /\ UNCHANGED <<prod, store, lock, outer, revoking, past, meter>>

\* Mutant of Approved: a candidate without an approval file is let through.
ApprovedUnlessStale(p, c) ==
  /\ clock <= cand[c].expires
  /\ my[p].kind # "auto" => approvedAt[c] = 0 \/ clock <= approvedAt[c] + ApprovalTTL

\* approval.check, or only the expiry when the policy authorises.
Approved(p, c) ==
  /\ clock <= cand[c].expires
  /\ my[p].kind # "auto" => /\ approvedAt[c] # 0 /\ approvedAt[c] >= cand[c].created
                            /\ clock <= approvedAt[c] + ApprovalTTL

Deny(p) ==
  LET c == my[p].code IN
  /\ Goto(p, "authorise", "close")
  /\ ~Approved(p, c)
  /\ IF clock > cand[c].expires THEN SetStatus(c, "EXPIRED") ELSE UNCHANGED cand
  /\ UNCHANGED <<prod, consumed, attempts, run, runs, lock, my, outer, revoking, past, meter>>

\* consume_approval fails on its primary key.
DenySecondUse(p) ==
  /\ Goto(p, "authorise", "close")
  /\ Approved(p, my[p].code) /\ consumed[my[p].code] # 0
  /\ UNCHANGED <<prod, store, lock, my, outer, revoking, past, meter>>

\* Mutant of Authorise: the approval is consumed once the deployment ended.
AuthoriseUnconsumed(p) ==
  LET c == my[p].code IN
  /\ Goto(p, "authorise", "deploy")
  /\ Approved(p, c) /\ consumed[c] = 0
  /\ run' = [run EXCEPT !.code = c]
  /\ UNCHANGED <<prod, cand, consumed, attempts, runs, lock, my, outer, revoking, past, meter>>

Authorise(p) ==
  LET c == my[p].code IN
  /\ Goto(p, "authorise", "deploy")
  /\ Approved(p, c) /\ consumed[c] = 0
  /\ consumed' = [consumed EXCEPT ![c] = clock]
  /\ run' = [run EXCEPT !.code = c]
  /\ UNCHANGED <<prod, cand, attempts, runs, lock, my, outer, revoking, past, meter>>

\* preconditions(): production must still be the approved source.
DeployBlocks(p) ==
  /\ Goto(p, "deploy", "settle")
  /\ my' = [my EXCEPT ![p].result = "blocked"]
  /\ UNCHANGED <<prod, store, lock, outer, revoking, past, meter>>

DeployBegins(p) ==
  LET c == my[p].code IN
  /\ Goto(p, "deploy", "changing")
  /\ prod = cand[c].source
  /\ run' = [run EXCEPT !.changing = TRUE]
  /\ deployments' = [deployments EXCEPT ![c] = @ + 1]
  /\ UNCHANGED <<prod, cand, consumed, attempts, runs, lock, my, outer, revoking,
                 reverted, undone, left, meter>>

DeployEnds(p) ==
  LET c == my[p].code IN
  /\ Goto(p, "changing", "settle")
  /\ \E r \in {"success", "rolled_back", "recovery_failed"} :
       /\ my' = [my EXCEPT ![p].result = r]
       /\ prod' \in CASE r = "success"     -> {cand[c].target}
                      [] r = "rolled_back" -> {cand[c].source}
                      [] OTHER             -> {cand[c].source, cand[c].target}
       /\ undone' = IF r = "success" THEN undone ELSE undone \cup {Pair(c)}
  /\ UNCHANGED <<store, lock, outer, revoking, deployments, reverted, left, meter>>

\* Mutant of Settle: a deployment that was not begun leaves the candidate as it is.
SettleOnlyDeployed(p) ==
  LET r == my[p].result IN
  /\ Goto(p, "settle", IF r \in {"rolled_back", "recovery_failed"} THEN "record" ELSE "close")
  /\ IF r = "blocked" THEN UNCHANGED cand
     ELSE SetStatus(my[p].code, IF r = "success" THEN "DEPLOYED" ELSE "ROLLED_BACK")
  /\ UNCHANGED <<prod, consumed, attempts, run, runs, lock, my, outer, revoking, past, meter>>

\* set_candidate_status, whatever the status is by now.
Settle(p) ==
  LET r == my[p].result IN
  /\ Goto(p, "settle", IF r \in {"rolled_back", "recovery_failed"} THEN "record" ELSE "close")
  /\ SetStatus(my[p].code, CASE r = "blocked" -> "BLOCKED"
                             [] r = "success" -> "DEPLOYED"
                             [] OTHER         -> "ROLLED_BACK")
  /\ UNCHANGED <<prod, consumed, attempts, run, runs, lock, my, outer, revoking, past, meter>>

RecordReverted(p) ==
  /\ Goto(p, "record", "close")
  /\ Attempt(Pair(my[p].code), "ROLLED_BACK")
  /\ reverted' = reverted \cup {Pair(my[p].code)}
  /\ UNCHANGED <<prod, cand, consumed, run, runs, lock, my, outer, revoking,
                 deployments, undone, left, meter>>

-----------------------------------------------------------------------------
(* `hermes-updater revoke CODE` and `rollback`: no lock, no transaction.   *)
RevokeReads(c) ==
  /\ revoking = NotRevoking /\ revokes < MaxRevokes
  /\ IsPending(c)
  /\ revoking' = [code |-> c, set |-> FALSE, knew |-> Pair(c) \in undone]
  /\ revokes' = revokes + 1
  /\ UNCHANGED <<prod, store, procs, outer, past, approvals, rollbacks, crashes>>

RevokeSets ==
  /\ revoking.code # 0 /\ ~revoking.set
  /\ SetStatus(revoking.code, "REVOKED")
  /\ revoking' = [revoking EXCEPT !.set = TRUE]
  /\ UNCHANGED <<prod, consumed, attempts, run, runs, procs, outer, past, meter>>

RevokeRecords ==
  /\ revoking.set
  /\ Attempt(Pair(revoking.code), "REVOKED")
  /\ reverted' = reverted \ {Pair(revoking.code)}
  /\ undone' = IF revoking.knew THEN undone \ {Pair(revoking.code)} ELSE undone
  /\ revoking' = NotRevoking
  /\ UNCHANGED <<prod, cand, consumed, run, runs, procs, outer, deployments, left, meter>>

\* `hermes-updater rollback --run N` of a run that deployed c: no lock, and no
\* row is written.  It may fail before it has changed anything.
RollbackByHand(c) ==
  /\ rollbacks < MaxRollbacks /\ deployments[c] > 0
  /\ prod' \in {prod, cand[c].source}
  /\ undone' = IF prod = cand[c].target /\ prod' # prod THEN undone \cup {Pair(c)} ELSE undone
  /\ rollbacks' = rollbacks + 1
  /\ UNCHANGED <<store, procs, outer, revoking, deployments, reverted, left,
                 approvals, revokes, crashes>>

-----------------------------------------------------------------------------
(* The environment: upstream, time, the root helper, and death.            *)
Release ==
  /\ upstream < MaxVersion /\ upstream' = upstream + 1
  /\ UNCHANGED <<prod, store, procs, clock, approvedAt, triggered, revoking, past, meter>>

\* systemd starts the unit at once: no time passes while it is triggered.
Tick ==
  /\ clock < MaxClock /\ ~triggered /\ clock' = clock + 1
  /\ UNCHANGED <<prod, store, procs, upstream, approvedAt, triggered, revoking, past, meter>>

\* update-approve, after the TOTP code: writes the file of that code.  A person
\* knows the code from the message that the closed run has sent.
RecordApproval(c) ==
  /\ approvals < MaxApprovals /\ cand[c].status # "NONE" /\ cand[c].run # run.id
  /\ approvedAt' = [approvedAt EXCEPT ![c] = clock]
  /\ triggered' = TRUE /\ approvals' = approvals + 1
  /\ UNCHANGED <<prod, store, procs, upstream, clock, revoking, past, revokes, rollbacks, crashes>>

\* The kernel gives the lock back; the row of the run stays open.
Crash(p) ==
  /\ pc[p] # "idle" /\ crashes < MaxCrashes
  /\ pc' = [pc EXCEPT ![p] = "idle"] /\ Forget(p)
  /\ lock' = IF lock = p THEN "free" ELSE lock
  /\ prod' \in WhatRemains(p)
  /\ Leave(p)
  /\ crashes' = crashes + 1
  /\ UNCHANGED <<store, outer, revoking, deployments, reverted, undone,
                 approvals, revokes, rollbacks>>

RevokeDies ==
  /\ revoking # NotRevoking /\ crashes < MaxCrashes
  /\ revoking' = NotRevoking /\ crashes' = crashes + 1
  /\ UNCHANGED <<prod, store, procs, outer, past, approvals, revokes, rollbacks>>

-----------------------------------------------------------------------------
Guarded(p) == Acquire(p) \/ FindBusy(p) \/ ReconcileRun(p) \/ OpenRun(p) \/ Close(p)
Daily(p) ==
  \/ Classify(p) \/ Prepare(p) \/ PrepareBlocks(p) \/ SupersedePending(p)
  \/ SaveCandidate(p) \/ RecordPrepared(p) \/ AutoApplies(p)
Apply(p) ==
  \/ Gate(p) \/ Deny(p) \/ DenySecondUse(p) \/ Authorise(p)
  \/ DeployBlocks(p) \/ DeployBegins(p) \/ DeployEnds(p) \/ Settle(p) \/ RecordReverted(p)
Worker(p) == Guarded(p) \/ Daily(p) \/ Apply(p)
ByHand(p) == StartDaily(p) \/ (\E c \in 0 .. MaxCandidates : ApplyByHand(p, c))
Revoke == (\E c \in Codes : RevokeReads(c)) \/ RevokeSets \/ RevokeRecords
Environment ==
  \/ Release \/ Tick \/ (\E c \in Codes : RecordApproval(c) \/ RollbackByHand(c))
  \/ (\E p \in Procs : Crash(p) \/ Raise(p)) \/ RevokeDies

Triggered == \E p \in Procs : StartApply(p)

Next == Triggered \/ (\E p \in Procs : ByHand(p) \/ Worker(p)) \/ Revoke \/ Environment

Spec == Init /\ [][Next]_vars

\* A live process goes on: every call has a timeout; systemd starts a
\* triggered unit.
FairSpec == Spec /\ (\A p \in Procs : WF_vars(Worker(p))) /\ WF_vars(Triggered)

-----------------------------------------------------------------------------
(* Properties.                                                             *)

\* An approval deploys at most once, whoever dies or starts again: its code is
\* consumed before production changes (store.py consume_approval).
SingleUse == \A c \in Codes : deployments[c] <= 1

\* What SingleUse rests on: a process that works holds the lock, and a code is
\* consumed, for the first time, by the process that is about to deploy it, whose
\* row names that code, so that a later reconcile finds what was being deployed
\* (store.py exclusive, consume_approval; machine.py persist).
Locked == Steps \ {"idle", "lock", "auto"}
ConsumedFirst ==
  /\ \A p \in Procs : pc[p] \in Locked => lock = p
  /\ \A p \in Procs : pc[p] \in {"authorise", "deploy", "changing", "settle", "record"}
       => my[p].code \in Codes
  /\ \A p \in Procs : pc[p] = "deploy"
       => consumed[my[p].code] # 0 /\ run.code = my[p].code /\ deployments[my[p].code] = 0
  /\ run.changing => run.code \in Codes /\ consumed[run.code] # 0
  /\ \A c \in Codes : deployments[c] > 0 => consumed[c] # 0

\* At most one candidate waits for an approval, so that what a person approves
\* is what `apply` finds (store.py save_candidate, pending_candidate).
OnePending == \A c, d \in Codes : IsPending(c) /\ IsPending(d) => c = d

\* What was deployed was authorised in time: before the candidate expired, and, if
\* the policy asks for an approval, by one that root recorded after the candidate
\* was prepared and that had not lapsed when it was used (machine.py _apply,
\* approval.py check).
DeployedWasAuthorised ==
  \A c \in Codes : deployments[c] > 0
    => /\ consumed[c] \in cand[c].created .. cand[c].expires
       /\ AutoApply \/ /\ approvedAt[c] # 0 /\ approvedAt[c] >= cand[c].created
                       /\ consumed[c] <= approvedAt[c] + ApprovalTTL

\* reconcile closes only the runs of dead processes, never the run that another
\* process is working on (machine.py reconcile under the flock of store.py).
ReconcilesOnlyDead ==
  [][run.id # 0 /\ run'.id # run.id => pc[run.by] \notin Working]_vars

\* A pair that a deployment reverted, and that it recorded, is never deployed again
\* unless somebody revokes a candidate of it in between (machine.py
\* _hermes_skip_reason; docs/updater.md, auto_apply).
RevertedNotRetried ==
  [][\A c \in Codes : deployments'[c] # deployments[c] => Pair(c) \notin reverted]_vars

\* Under auto_apply a prepared candidate is decided - deployed, reverted, blocked,
\* expired, revoked or superseded - unless the run that has it in hand gives it up:
\* because the backup of the night did not pass, because another invocation took
\* the lock between the preparation and the application, or because it raised or
\* died (machine.py daily, _daily, _apply).
PreparedIsDecided == \A c \in Codes : IsPending(c) ~> ~IsPending(c) \/ c \in left

-----------------------------------------------------------------------------
(* What the code or its documentation says and the code does not do.       *)

\* cli.py:36: a revoked candidate is not deployed.
RevokedIsNotDeployed ==
  [][\A c \in Codes : deployments'[c] # deployments[c] => cand[c].status # "REVOKED"]_vars

\* docs/updater.md:206: a version that was deployed and taken back is not tried
\* again, whoever took it back: the deployment, reconcile or a person.  (A person
\* may ask for it with a revocation that begins afterwards.)
UndoneIsNotRetried ==
  [][\A c \in Codes : deployments'[c] # deployments[c] => Pair(c) \notin undone]_vars
=============================================================================
