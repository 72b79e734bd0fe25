# A formal model of hermes-layered-migration

This directory holds TLA+ modules that model the parts of the repository in
which an error costs most: the program that changes production
(`updater/hermes_updater`), the maintenance daemon that must survive a kill or a
power loss at any step (`rust/hermes-maint*`), and what layer 2 keeps in its
database (`hermes_layer2`).  TLC checks them on small instances; TLAPS proves
invariants of theirs for every value of the constants.

Paths below are relative to the root of the repository.  `deploy.py`,
`machine.py`, `store.py`, `approval.py`, `cli.py`, `notify.py`, `backup.py`,
`verify.py`, `auxiliary.py`, `staging.py`, `versions.py`, `ci.py`, `review.py`,
`proc.py` and `report.py` are in `updater/hermes_updater/`; `state.rs`, `run.rs`,
`lock.rs` and `supervisor.rs` are in `rust/hermes-maint-core/src/`.

    tlc -workers 2 -config MCDeploy.cfg MCDeploy      # any run of the table below
    tlapm Deploy_proofs.tla                           # any *_proofs module

`PROJECT.json` lists the runs, the lines each definition stands for, a mutant
for each property, the hazards and the theorems.


## 1. The system

Hermes runs on one host as a gateway (a systemd service that loads a git
checkout and a virtualenv).  Three programs of this repository work around it.

| Component | State it keeps | Operations | Talks to |
|---|---|---|---|
| deployment (`deploy.py`, end of `_apply`, `reconcile`) | production: checkout, virtualenv, its copy, gateway; the phase in the run's row | `deploy`, `rollback`, `post_tests`, `reconcile` | store, systemd, git, uv |
| orchestrator (`machine.py`, `cli.py`) | one open row of `runs` | `daily`, `apply`, `revoke`, `rollback`, `reconcile` | store, deployment, approvals, notices |
| store (`store.py`) | `updater.db`: runs, candidates, consumed approvals, attempts, outbox; a lock file | transactions, `exclusive` | every part of the updater |
| approvals (`approval.py`, the path unit) | a file per code, written by root | `check`, start of `apply` | orchestrator |
| notices (`notify.py`) | outbox rows | `enqueue`, `flush` | store, Telegram |
| backups (`backup.py`, `verify.py`, `backup-hermes-home.sh`) | directories with a manifest and a claim; `owned_backup:*` in the store | `run_backup_a`, `verify_backup`, `run_preupdate`, `prune` | the home of Hermes, orchestrator |
| versions (`versions.py`) | none | `discover` | git, npm registry |
| staging (`staging.py`) | a clone per candidate under `work/staging` | `prepare`, `build_staging_venv` | git, pip, orchestrator |
| ci, review (`ci.py`, `review.py`) | reports | suites with repetition and baseline; `run_review` | pytest, a provider of answers |
| auxiliary products (`auxiliary.py`) | recovery points, copies in `aux-recovery` | `recovery_point`, `update_one`, `restore` | the products' own updaters |
| process runner (`proc.py`), reports (`report.py`) | none | `Runner.run`, `retry`; texts | all of the above |
| maintenance run (`run.rs`, `main.rs`) | the run in memory | `start`, `run_tasks`, `finish` | state, lock, supervisor |
| maintenance state (`state.rs`) | `state.json`: next id, open run, bounded history | `load`, `save`, `reconcile`, quarantine | maintenance run |
| maintenance lock (`lock.rs`) | a lock file that is never removed | `acquire` | maintenance run |
| child supervisor (`supervisor.rs`) | a child, its process group, waiter and drain threads | spawn, deadline, terminate, kill, reap | maintenance tasks |
| maintenance tasks (`tasks/*.rs`) | none: judges over disk, backups, gateway | one outcome each | maintenance run |
| layer 2 (`hermes_layer2/*.py`) | a schema version, uses and scores, a cached order, a menu record | schema steps, record use, rank, publish | Hermes itself, by its patches |
| manual scripts (`scripts/*.sh`) | trees and databases, moved aside | `rollback.sh`, `cutover.sh` | gateway |

### What makes each part hard, and what makes it correct

* **Deployment.**  It changes two things on disk that the gateway loads
  together, with no transaction over them; any step may fail, raise, or be the
  last one of the process; the gateway may restart by itself meanwhile.
  Correct: an outcome says the truth about production; the virtualenv of
  before never ceases to exist; the store names a step before the disk shows
  it; no run is closed over a changed production without a word to a person.
* **Orchestrator, store, approvals.**  Runs and applications, by the timer, the
  unit that an approval starts or a person, and a `revoke` or `rollback` at a
  terminal meet over one database; the first two take a lock that does not wait,
  the others take none.  Correct: an approval
  deploys at most once, and only what was approved after it was prepared; one
  candidate waits at a time; nobody closes the run of a process that is alive;
  a reverted version is not tried again.
* **Maintenance run, state, lock.**  Invocations overlap; a kill, a power loss
  or a failed system call may come between any two calls.  Correct: one run at
  a time; the state file is always whole; the history misses no run; an exit
  code that was given is never contradicted; a damaged file is kept and a newer
  one left alone.
* **Child supervisor.**  Deadline, exit, signals and output race, over a tree of
  processes that may do anything.  Correct: the call returns; the child is
  always reaped; the result agrees with the way the child ended; a SIGKILL
  leaves nothing of the group alive; a capture is the tail of what was written,
  and is called complete only when it is.
* **Notices.**  A flush takes no lock and may die between a send and its mark; a
  send may have its effect and fail all the same.  Correct: no notice is closed
  undelivered; a copy too many has a reason; one that is always refused holds up
  no other.
* **Backups.**  The home is copied while Hermes writes; the script and the
  verification look at it at different moments; a person may run the same script
  during the night; a removal may be cut short.  Correct: a verdict PASS means
  that the home can be given back; a verified backup always remains; what a
  person made is left alone.
* **Auxiliary products.**  The updater may leave anything, the product may update
  itself meanwhile, the way back may fail.  Correct: the report is true; a failed
  update leaves a product that works, or a reason.
* **The night.**  Discovery, copy, clone, tests and offer take hours and read
  production and upstream several times; nothing locks either.  Correct: what a
  deployment lets through merges what was announced into what production is, and
  can be undone; a green night
  had everything it needed; a passed suite hides no regression.
* **Layer 2.**  Reads outside the transaction that uses them; two builds on one
  database; cached answers under threads; a clock that steps back; a publish and
  its record.  Correct: a version that is stated is backed by its steps; no use is
  lost or overpaid; a cached order is the current one; a record is what is shown.

`PROJECT.json` lists every component with the reason for its status, and every
hazard with the properties that watch it.


## 2. The modules

| Module | What it is |
|---|---|
| `SafeUpdate` | what an update promises, in three steps: start, work, end |
| `Deploy` | one host and one updater process, step by step; implements `SafeUpdate` |
| `DeployInv` | the inductive invariant of `Deploy` |
| `Deploy_proofs` | its theorems |
| `Orchestrator` | the invocations that meet over the store |
| `Orchestrator_proofs` | its theorems |
| `MaintRun` | invocations of `hermes-maint run` over one directory, with its inductive invariant |
| `MaintRun_proofs` | its theorems |
| `Supervisor` | one call of `supervise` over a child, its descendants, two pipes and four threads, with its inductive invariant |
| `Supervisor_proofs` | its theorems |
| `Delivery` | what a tray of notices promises, in three steps: accept, deliver, settle |
| `Outbox` | the outbox and the flushes that overlap; implements `Delivery` |
| `DailyBackup` | one daily backup of a home that goes on working, and its verification |
| `Retention` | the directory of backups over several nights, with a person's scripts |
| `Auxiliary` | the nightly update of one auxiliary product |
| `Nightly` | a night, from the backup to the candidate that is offered |
| `Suite` | one suite of the candidate's tests |
| `SchemaMigration` | processes of several builds that migrate one component |
| `CommandRanking` | uses, scores and the cached order of a CLI process |
| `TelegramMenu` | the menu that is shown and the record of it |
| `MCDeploy`, `MCOrchestrator`, `MCMaint`, `MCSupervisor` | small sets and symmetry for TLC |
| `Stores_proofs`, `Nightly_proofs`, `Layer2_proofs` | the theorems of the modules in `MCStores`, `MCNightly` and `MCLayer2` |
| `MCStores`, `MCNightly`, `MCLayer2` | components that share no state, in one run each: `part` picks, at the start of a behaviour, the one that it is a behaviour of |

Some operators carry the comment *Mutant of X*: they are not part of any
specification.  Each one is what X would be after a plausible mistake, and TLC
finds the property it is paired with violated when X is replaced by it.

### Deploy

The **host** is `head` (checkout), `venv` (the commit whose lock file the
virtualenv satisfies, or `"mixed"` while uv works, or `"missing"`), `bak` (the
copy the rollback needs), `spare` (copies that older runs left) and `gw`, which
remembers what was on disk *when it started*.  That is the difference between a
deployed checkout and a deployed version, and most properties are about it.
The **row** (`src`, `tgt`, `state`, `phase`, `outcome`, `verdict`, `incident`)
is what survives a death of the process; `mem`, the `DeployResult`, does not.
The **book** is the candidate's status and the attempts.

Each call `deploy()` makes is one action, or two when it is not atomic (the
copy of the virtualenv, the installation, the two renames that restore it), so
that a death falls in between.  `persist` writes the store before its phase
starts, and is an action of its own (`Persist`), because a crash between the
two is what `reconcile` must read correctly.  `Raise` is an exception, which
`_guarded` turns into FAILED and an incident; `Crash` is the death of the
process.  `GatewayChanges` lets the gateway connect, disconnect, or be
restarted by systemd over whatever the disk holds at that moment.
`ReconcileUntouched`, `ReconcileAccepts` and `ReconcileRollsBack` are the three
answers of `reconcile`; its rollback runs through the same actions as the
ordinary one, and `mem.by` tells them apart at the end.  `Installed` is what
production is at when the behaviour starts.

### Orchestrator

`Procs` is a set of interchangeable invocations, any number of them alive at once,
each with a step and local variables.  Its `kind` is what it was started as: a `run`
(`StartDaily`, the timer or a person), an `apply` (`StartApply`, the path unit;
`ApplyByHand`, a person, with or without `--candidate`), or the application that a
run goes on with under `AutoApply` (`"auto"`).  `Acquire`/`FindBusy` is `flock`
without waiting.  A run gives the lock back before it applies what it prepared
(`AutoApplies`), as `daily()` does, so that another invocation may take it in between.
`BackupDecides` is the end of `_daily`, where a backup that did not pass turns
PENDING_APPROVAL into FAILED: the run then applies nothing and its candidate is left
waiting.  `revoke` has three steps of its own, without the lock, because its
statements are three; `RollbackByHand` is the `rollback` command, without the lock
either.  A deployment is one change of `prod` between `DeployBegins` and
`DeployEnds`, with any of its results; what happens inside is `Deploy`'s matter.
Time is a counter; candidates and approvals expire by it.  `left`, `reverted` and
`undone` are histories: the candidates that a run gave up with them in hand, the pairs
that a deployment took back and recorded, and those that anybody took back.

### MaintRun

A lock file is an inode (`lockfile` is what the path names, `fd` what a process
has open), since the classic mistake is to remove a file that someone has open.
`dir` is the directory as processes see it, and `past` is the **set of
directories that a power loss may leave**: a rename adds one, an fsync of the
directory leaves only the present one.  A file renamed before its own fsync
comes back torn.  `WriteTmp`, `SyncTmp`, `Rename`, `SyncDir` are the four calls
of `State::save`; `closing` tells the save of `finish` from the one of `start`.
`Load`, `Quarantine` and `Refuse` are the answers of `State::load`.
`reported` is a history variable: the runs whose exit code was given.

### Supervisor

Four threads of the parent: the **caller** (`sup`, one value per place where
`supervise` waits or acts, and `res`, the `ChildResult` it builds), the
**waiter** (`Reap` is `child.wait`, `SendStatus` its channel) and a **drain** per
pipe (`Read`, `Eof`).  Under them the **tree**: `life` of each process, `group`,
who `holds` which pipe, who is in a `write`, and `fate`, the way the child really
ended.  What the tree does is the environment's: it forks, leaves the group,
closes a stream, writes until the pipe is full, exits, is killed by others, gets
stuck in the kernel.  `Receive` is each of the three `recv_timeout` that finds
the status; `DeadlinePasses`, `GracePasses` and `ReapPasses` are the ones that do
not.  `SendTerm` ends the members of the group that do not handle the signal, any
subset of them; `SendKill` ends all that run, and dooms those that are stuck.
`Collect` takes a capture or gives up on it.  `TaskOutcome` is what `external.rs`
makes of the result.

Bytes are the numbers 1, 2, 3, ... in the order of writing, so that `TailIsKept`
can say *which* bytes a capture holds.

### Outbox

A row is its `id`, whether it is in `sent`, and its `attempts`; a flush is what is
left of the rows it read (`todo`), where it is with the first of them (`flush`) and
how often it sent it (`tries`).  `StartFlush` is the one read of `unsent`;
`Delivered`, `Refused` and `DeliveredLate` are the three things a send can do, the
last one being the timeout of `Runner.run` after the message left; `MarkSent`,
`MarkFailed` are the two updates, `FlushDies` a death anywhere.  `excuses` is a
history variable: it counts the events after which one copy more is to be expected.

### DailyBackup, Retention

`DailyBackup` looks into one backup: a database is its last committed version and
the version in its main file, so that a WAL is their difference.  Hermes commits,
checkpoints, creates and removes databases between any two steps of the script
(`CopyDatabases`, `Inventory`, `Pack`, `WriteState`), and what else the backup
carries is sound or has one flaw.  `Report` is the checks that `verify_backup`
would write, `Verified` the worst of them, `Judge` the end of `run_backup_a`.

`Retention` looks at the directory over several nights, where a backup is only what
its state.json claims and whether it would pass.  `NewDirs` and `Adopt` are
`new[-1]`; `JudgePasses` and `JudgeFails` write `owned_backup:*`; the prune is
`BeginPrune`, then `Skip` or `Remove` of the oldest directory left in `scan`, with
a death in the middle of an `rmtree`.  The early return of a prune that finds no
verified directory is not an action: after a verdict there is one (section 4).
`PersonBegins` and `PersonEnds` are the same script in a person's hands; `MaxLate`
bounds how many a person begins between the choice of the directory and the prune
(`Newer`).

### Auxiliary

`product` is what is installed, a version and whether it works; `copyOf` the
directory of recovery copies, which outlives the night.  `RunUpdater` leaves
anything; `Ask` is the version and the smoke test after it; `Succeed`,
`FailUnchanged`, `Restore` and `Back` are the ends of `update_one`, in its order.

### Nightly, Suite

`step` is the place in `_daily` and `_prepare_hermes`; `vers`, `daily`, `pre` and
`cand` are the results that the later steps use, and `offer` the pending candidate
with what it was made of.  `head` and `tag` are production and upstream, which move
at any moment.  `DiscoverHermes`, `CopyMade`, `Clone` and `Fetch` each read them
again, which is what the properties are about.  `StagingEnds` gathers the ways out
of `prepare`; `Conclude` and `Close` are the two places that turn an outcome into
another.  `missed` stands for the required checks that did not pass.  A night is one
process: what it gathered ends with it (`Forget`), the offer and the clones stay.

`HeadMoves` puts HEAD on any other commit, newer or older: the owner commits, amends
or resets, or a manual rollback takes it back.  So a night may discover A, clone B and
find A again when it compares (A, B, A), and offer for A a clone that was built on B.
What stops it is not in the night: `deploy` compares HEAD with the offer *and the first
parent of the candidate's merge* with it, and `Deployable` is both, which
`OfferIsSound` is about.  Such an offer is of no use, and holds up the others for that
commit until it expires.  `back` and `offer.back` are histories of a HEAD that went
back, before or after the offer was made: the copy of before the update is read once,
and nothing compares its commit with the offer's, so `OfferCanBeUndone` excepts the
offers made after a step back.

`Suite` is one suite: what each test does in the candidate and in the baseline is
fixed and unknown, a flaky one does either; `Reports` is what `parse_junit` may
find after a run that ended, broke off, or left nothing.

### SchemaMigration, CommandRanking, TelegramMenu

`SchemaMigration`: each client's `call` is in the middle of `migrate_component`;
`applied` is the steps that the tables have been through, which nobody can read.  A
registry that cannot be read is version 0, both times that it is read (`Installed`).
`CommandRanking`: a use is `Use` (the time is read), `BeginUse` (the IMMEDIATE
transaction), `CommitUse` and `Invalidate`; a rank is a cache hit, which changes
nothing, or `Ask`, `Query` and `StoreOrder`, because the code reads the clock before
the rows.  A query whose rows cannot be read is two things: where the use is read it
finds none (`NoRows`), so that an order without any use is cached as good (`blind`),
and where it raises the order is not cached (`QueryFails`).  The cache is a global of
one process, and `Here` are its threads; the others record uses in the same database
and invalidate nothing of it.  Time counts half-lives and a score is a whole number of units; `Unit` is
divisible by two as often as any score can be halved, so that nothing is rounded.  `TelegramMenu`: `Evaluate` is `should_publish`,
`Confirmed` and `Rejected` are the Bot API's answers, `MarkPublished` the record.

### Abstractions

* A commit, a version, a candidate or a task is an element of a small set; the
  content of files, notices and reports is left out.
* `Deploy`: the transition and the merge of data in one `persist`, and the
  COMPLETE transition and the close of a run, are one step each; candidate
  status and incident are settled together.  Post-tests may pass only over the
  new checkout and a virtualenv that imports; each other check may fail on its
  own.
* `Orchestrator`: backup, staging, tests and review are one verdict each way,
  whose inside is `Nightly`; a `reconcile` that raises is a death at that step.
* `Outbox`: rows share one age; the pauses between retries are left out.
* `DailyBackup`: the verification is one step, so Hermes does not write while it
  runs; a copy made by `Connection.backup()` is the last commit; a file copied in
  one piece is sound.
* `Retention`: names are in the order of time (they are local times: a clock put
  back would break it); the prune reads the claims once, as the code does.
* `Auxiliary`: one product; its versions are numbers; the reasons to defer are one.
* `Nightly`: a commit of the checkout is a number, in the order they were made, a tag the number of the commit it
  names, and `Base` says which tags hold the upstream base of which commit; the
  refusals of `_hermes_skip_reason` other than a pending candidate are
  Orchestrator's, and `DecideNot` may happen whatever the state; the number of
  unstable tests that are forgiven is a constant (`max(5, 1 %)` in the code).
* `CommandRanking`: one surface, one process' cache, decay at whole half-lives.  `TelegramMenu`: one
  gateway and one key.
* `MaintRun`: renames reach the disk in order, as on a journaling file system;
  the temporary file's name, the creation of the directory and the text of
  task details are left out; a damaged file and a newer build appear between
  runs, over a synced directory; any task may have any outcome.
* `Supervisor`: time is left out, so a bounded wait may end at any moment at
  which what it waits for has not arrived, and the three durations are not
  compared.  `ReadMax` is smaller than `Cap`, as 8 KiB is smaller than 64 KiB:
  the branch of `drain` for a read as large as the window cannot be taken.  A
  read error, an error of `wait`, the reuse of a pid after the reap and the
  environment of the child are left out.


## 3. The runs

Runs that pass:

| Run | Question | Bounds |
|---|---|---|
| `deploy` | Is what each outcome says of production true? Is the store ahead of the disk? Is the whole a safe update? Is every run closed in the end? | 3 commits, 2 deployments, 2 deaths, exceptions |
| `orch` | What does an approval authorise, and does one candidate wait at a time? | 2 invocations, 2 runs, 1 release, 2 candidates, 1 approval, 1 revocation, 1 death, exceptions |
| `orch_auto` | Under `auto_apply`: is a reverted pair left alone, is each candidate decided? | 2 invocations, 3 runs, 1 release, 2 candidates, 1 manual rollback, 1 death, exceptions, backups that fail |
| `maint` | Do the lock, the state file, the history and the exit codes hold under kills, power losses and failed calls? | 2 processes, 4 run ids, a history of 2, 2 faults, 2 damaged files, 2 lock inodes |
| `supervisor` | Does the call return, with a true result, a dead group and the right tails? | 1 descendant, 2 streams, a window of 2 bytes, 3 bytes on stdout, a pipe of 1, reads of 1 |
| `stores` | Does the tray keep its promise and every notice get its end? Does PASS mean restorable, does a verified backup remain, is a person's left alone? Is the report of a product true and a failure undone? | 2 notices (1 always refused), 2 flushes, 2 attempts of 2 sends, 3 faults, 1 death; 3 databases, 1 commit each; 4 backups (1 by hand, at any moment), 2 kept, 1 death; 3 nights of a product, 3 releases, 2 faults |
| `nightly` | What do an offer, a green night and a passed suite stand for? | 2 nights, 2 commits between which HEAD moves at any moment, 2 of the tag, 1 fault, 2 files; 3 tests, 1 forgiven |
| `layer2` | Are versions backed, uses counted, orders current, records true? | 3 processes of 2 builds, 2 faults; 3 threads of 2 processes, 2 commands, 2 uses, 2 half-lives, 1 step back, 1 use or query that finds the database locked; 2 menus, 5 times, 2 faults |

**Why these bounds are enough to be interesting.**  `deploy`: the worst traces
need a first run that fails, a second one that starts from what it left, and
one death during the forward half and one during the rollback; a third commit
makes production differ from both ends of the payload.  `orch`: two candidates
show that a newer one supersedes an older one whose approval is on the way; the
clock reaches past both lifetimes; either invocation is a run or an application, and
meets the other at every step.  `orch_auto`: the pair must be prepared by more than one
run, and the second invocation takes the lock between the preparation and the
application of the first; a manual rollback makes the same pair due again.  `maint`: a history of 2 rotates
with the third run, so 4 ids go past the bound; two faults let a power loss
follow a kill; two damaged files at one second compete for a name.
`supervisor`: one descendant may stay in the group or leave it, hold a pipe after
the child, ignore SIGTERM or be stuck, which are all the ways in which it matters;
3 bytes overflow the window of 2, and the pipe of 1 blocks the second writer or
the second write.  stderr is open and silent: the drains share nothing, so a
second stream of bytes would only multiply the states.

`stores`: two flushes hold the same rows and one dies; a refused notice stands
before or behind another; four names fill a retention of two and leave one for a
person's script in the middle of a night; three nights let a half copy of the first
be found by the third.  `nightly`: the second night meets the pending candidate of
the first; HEAD can move, there and back, and the tag once, before or after every step; three tests
are a regression, an old failure and an unstable one, with one forgiven.  `layer2`:
two processes of the newer build race, one of the older follows; two uses by
threads of one process or of two decay to different orders and meet a clock put back,
and one of them finds the database locked.

Bounds on counters (`MaxRuns`, `MaxCrashes`, `MaxClock`, `MaxApprovals`,
`MaxRevokes`, `MaxRollbacks`, `MaxCandidates`, `MaxVersion`, `MaxFaults`, `MaxDamage`,
`MaxWrites`, `MaxFlushDeaths`, `MaxCommits`, `MaxName`, `MaxByHand`,
`MaxLate`, `MaxNightDeaths`, `Releases`, `MaxAuxNights`, `MaxAuxFaults`, `MaxHead`, `MaxTag`,
`MaxNights`, `MaxNightFaults`, `MaxSchemaFaults`, `MaxNow`, `MaxUses`, `MaxBack`,
`MaxLocked`, `MaxMenuTime`, `MaxMenuFaults`) are
guards of the actions of the environment or of the start of a run.  Where they
are used up the system stops, hence `CHECK_DEADLOCK FALSE` for `Deploy`,
`Orchestrator` and the three runs over several components; a call of
`supervise` returns and its tree ends, hence the same for `Supervisor`;
`MaintRun` never stops (a dry run needs no new id), and its deadlock check is
on.  Symmetry is used over the processes of `orch` and `maint` and over the threads
of `CommandRanking` that share the cache, in runs without liveness.

**Fairness.**  `Deploy!FairSpec` is weak fairness of what the updater does on
its own: every call it makes has a timeout (`proc.py`, `wait_healthy`), and the
timer (`Persistent=true`) starts the updater again after a death, which is when
`reconcile` runs.  `Orchestrator!FairSpec` is weak fairness of each live
invocation once it is started, for the same reason, and of `Triggered`: systemd starts
a triggered unit.  Nobody is made to start a run or an application by hand.  Neither asks for fairness of a person, of upstream, of time, of a death
or of an exception.  `Supervisor!FairSpec` is weak fairness of the caller, of
the waiter and of each drain: threads are scheduled and a `recv_timeout` ends.
Nothing is assumed of the child, of its descendants or of the kernel: the child
may loop for ever, and a stuck process may stay stuck, which is why
`ReturnsUnlessStuck` has its exception.  `OutboxFairness` is weak fairness of each
flush: the daily run ends in one, and a send has a timeout.  It does not ask that a
send succeed: `Settles` holds because fewer sends fail than one notice may make in
all its attempts, and is about the order of the tray, where a notice that is always
refused stands before others.

The inductive invariants, and the type invariants of `Deploy`, `Orchestrator`,
`MaintRun` and `Supervisor`, were checked by TLC while they were written and are
proved now (section 4), so the runs no longer spend time on them.

### Where the code and its documents disagree

Each of these runs checks one sentence of the repository, and TLC finds the
trace that breaks it.

| Run | The sentence | What the code does |
|---|---|---|
| `deploy_accept` | `machine.py:129`: the deployment had ended well | a process that dies between the dependencies and the restart is accepted if the post-tests pass, and they do not look at the gateway's process: it still runs the old code |
| `orch_revoke` | `cli.py:36`, `cli.py:55`: a revoked code deploys nothing | `apply` reads the status once; a revocation after that read changes nothing, and the result overwrites REVOKED |
| `orch_undone` | `docs/updater.md:206-208`: a version that was deployed and reverted is not tried again | only a deployment that reverts itself records the attempt (`machine.py:500-503`); what `reconcile` takes back after a death leaves the candidate waiting, and once it has expired a later night prepares and deploys the pair again.  A manual rollback records nothing either |
| `sup_hang` | `supervisor.rs:52`: the wait for a killed child is bounded, so the supervisor can never hang forever | the bounded wait ends, and line 475 joins the waiter, which is still in `wait`, without a bound |

Met while modelling, and not the subject of a run.  In the updater:

* `deploy.py:300`: from here on, any failure is a rollback.  An *exception* after
  the merge closes the run as FAILED (`machine.py:79`); a closed run is never
  reconciled, so production stays half updated.  An incident is enqueued.
* `hermes-updater-apply.path:2`: the update starts when root records an approval.
  While another invocation holds the lock `apply` returns with 3, and the path does
  not fire again: the approval lapses without an answer.
* `config.py:43`: the same block is not tried again every day.  A deployment that
  ends BLOCKED leaves PENDING_APPROVAL as the newest attempt (`machine.py:500`),
  so `auto_apply` prepares the pair again the next night.
* `main.rs:40`: a dry run writes nothing but the lock file.  `Runner::start` loads
  the state before it looks at `dry_run`, and loading a damaged file moves it
  aside.
* `docs/hermesd-design.md:382`: after SIGTERM, grace, SIGKILL nothing is left
  running; `tests/supervisor.rs:317`: a grandchild in the group dies with it.  The
  escalation follows the child only: if it ends on SIGTERM, no SIGKILL reaches a
  descendant that ignores SIGTERM.
* `supervisor.rs:286-288`: an incomplete capture means a descendant that escaped
  the group.  A member of the group that outlives the child gives one too; and
  `collect` drops what was read so far where its comment says "report what is
  known".
* `status.py:58`: an interrupted deployment is to be reconciled by a rollback;
  `reconcile` first runs the post-tests, even when the process died in the
  middle of a rollback, and accepts if they pass.
* `status.py:71`: FAILED is described as an outcome without change, and is also
  what an exception after the merge gives.
* `deploy.py:359`: the copies of the virtualenv of good deployments are not
  removed by the code (`spare` counts them).
* A revocation whose statements straddle a deployment writes REVOKED after
  ROLLED_BACK and so hides the revert from the next night.  `RevertedNotRetried`
  therefore speaks of pairs that nobody revoked since.
* A death between `consume_approval` and the final status leaves a candidate
  that still waits and whose code is used up; the next preparation supersedes
  it.
* After a quarantine the ids of runs start again at 1.

In the parts around it:

* `report.py:84` announces that the update is applied automatically now; when the
  daily backup is turned off or failed, `machine.py:237` turns PENDING_APPROVAL into
  FAILED, and `daily` (`machine.py:149`) then applies nothing: the candidate is `left`,
  the exception in `PreparedIsDecided`, as it is when another invocation takes the lock
  that the run gives back before it applies.
* `verify.py:428`: the claim of state.json is read only to be compared, never to
  decide.  `prune` decides by it (`backup.py:292-294`).
* `backup.py:16`: directories of others are never removed.  A directory that a
  person's script began while the night's script ran is taken for the night's own
  (`backup.py:95`), and pruned in time: the exception in `OthersStay`.
* The verification asks that each database found is in the backup; a copy of one
  that is gone, or of an undeclared one, is not remarked on (`verify.py:15-17`).
  Two paths that `flat` maps to one name share their copy.
* With no commits of its own the checkout has no bundle: the script accepts this,
  the verification does not.
* Pre-update directories are never removed (`config.py:38` is not used).
* A half copy in `aux-recovery` is never made again (`auxiliary.py:76`): the
  exception in `FailureIsUndone`.
* After 50 attempts a notice disappears from `unsent`, and so also from the number
  that `flush` reports as pending.  A second notice with the same key is dropped,
  whatever it says.
* An answer of the review that is not in the schema is DEFERRED even where the
  policy requires the review (`review.py:177`).
* The payload of a candidate has the commit of the discovery, its clone was built on
  HEAD as read later.  The night compares HEAD once more and `deploy` once again, which
  does not see a HEAD that went away and came back; the parent check of
  `deploy.py:233-236` does (`OfferIsSound`).  The offer it refuses counts as pending for
  HEAD, and no other is prepared until it expires.  The copy of before the update has no
  such check: the exception in `OfferCanBeUndone`.
* A `git status` that fails reads as a clean checkout (`versions.py`,
  `dirty_tracked`).
* A night whose Hermes update is put off because it failed a short while ago may end
  SUCCESS.
* `state_schema.py`: a slower process sets the version in the registry back, and the
  steps run again later; they must bear it.  A registry that cannot be read is taken for
  one without the component (`state_schema.py:81`), with the same effect.
* `cli_ranking.py:104`: a use recorded between the query and the store of the order
  is overlooked until the next, and one by another process until the next of this one:
  the exception `raced` in `CacheIsCurrent`.
* `command_usage.py:170`: rows that cannot be read are no rows, and `cli_ranking.py:102`
  caches the order without any use as a good one until the next use is recorded: `blind`
  in `CacheIsCurrent`.
* `command_usage.py:128`: an older timestamp that commits later moves the base of the
  decay back.
* `telegram_menu.py`: after a publish that could not be recorded, a menu that returns
  to the recorded one is not published again; a clock put back holds the cooldown.


## 4. What is proved

TLAPS proves, for every value of the constants that satisfies the assumptions:

* **`Deploy_proofs`** (assumes `CommitsAssumption`: a commit is not one of the
  marks for a damaged virtualenv; `BoundsAssumption`).  `InductiveInvariant`,
  and from it `TypeCorrect`, `SuccessIsTrue`, `RolledBackIsTrue`,
  `BlockedIsTrue` (together `OutcomesAreTrue`), `VenvIsRecoverable`,
  `NothingClosedSilently`, `RevertedStaysRemembered`, the action properties
  `ChangesArePersistedFirst` and `RestoresStopped`, and the refinement
  `DeployIsSafeUpdate`.
* **`Orchestrator_proofs`** (assumes `OrchestratorAssumption`).  `TypeCorrect`,
  `ApprovalIsSingleUse`, `CodesAreConsumedFirst`, `ReconciledRunsAreDead`,
  `OneCandidateWaits`, `OnlyTheAuthorisedIsDeployed`, and the action property
  `RevertedPairsStayReverted`.
* **`MaintRun_proofs`** (assumes `MaintAssumption`).  `InductiveInvariant`,
  `TypeCorrect`, `MutualExclusion`, `SavesAreAtomic` and `NoRunIsMissing`
  (together `StatesAreSound`), `ReportsAreDurable`, `NewerStays`,
  `DamagedFilesAreKept`.
* **`Supervisor_proofs`** (assumes `SupervisorAssumption`: a read is smaller than
  the window, a pipe holds at least one byte).  `InductiveInvariant`,
  `TypeCorrect`, `KilledGroupIsKilled`, `NothingIsLeftAZombie`,
  `ResultsAreTrue`, `TailsAreKept` and `CompleteIsComplete` (together
  `CapturesAreTrue`): for any number of descendants and any sizes.
* **`Stores_proofs`** (assumes `OutboxAssumption`: finitely many notices and
  processes; `DailyBackupAssumption`: what the script declares is named `*.db`;
  `RetentionAssumption`: at least one backup is kept; `AuxiliaryAssumption`: there is
  a first release).  `CopiesAreAlwaysExcused` and the refinement `OutboxIsDelivery`;
  `PassedBackupsRestore`; `OthersAlwaysStay`; `AVerifiedBackupRemains`, for
  `MaxLate < Keep`; `AuxReportsAreTrue`, `AuxFailuresAreUndone`; and of their
  composition, which is what the run `stores` checks, `StoresKeepTheirTypes`.
* **`Nightly_proofs`** (assumes `SuiteAssumption`: finitely many tests;
  `NightlyAssumption`).  `OffersAreSound`, `OffersCanBeUndone`, `GreenIsEarned`;
  `PassedSuitesAreSound`; of their composition `NightlyKeepsItsTypes`.
* **`Layer2_proofs`** (assumes `SchemaAssumption`, `RankingAssumption`,
  `MenuAssumption`).  `VersionsAreBacked`; `EveryUseIsCounted`, `TheCacheIsCurrent`;
  `RecordsAreShown`; of their composition `Layer2KeepsItsTypes`.

Every safety invariant and every action property of a passing run is the conclusion
of one of these theorems.

### The arguments

**Deploy.**  The promises are not inductive: that SUCCESS means a served
candidate rests on what the process knew six steps earlier.  `IInv` adds, for
each step, what that step may rely on.  `RowMatchesProcess` ties the row to the
process; `PhaseTellsDisk` says what the persisted phase guarantees to whoever
reads it, alive or not, and is the part that `reconcile` stands on;
`ForwardKnows` follows checkout, virtualenv and gateway through the deployment;
`BackwardKnows` says what a rollback has restored *provided no step of it
failed*; `FinishKnows` says what the result in memory stands for.  There is one
lemma per half (forward, backward, finish, reconcile, environment) and a step
per action.  The refinement maps `UpdateStatus` to `SafeUpdate`'s status: a step
that opens or closes the row is `Start` or `End`, any change of disk is `Work`.

**Orchestrator.**  `Inv` is `TypeOK`, `ConsumedFirst` and `SingleUse`.
`SingleUse` alone is not inductive: it needs that the process at `"deploy"`
holds the lock and has just consumed a code with no deployment, and that a code
with a deployment is a consumed one.  `OneCandidateWaits` is proved over the
same invariant, with what is true between the two statements of
`save_candidate`.  `AuthInv` says of each process on its way to a deployment, however
many there are, that its candidate is in the table (`MayGoOn`) and, at `"deploy"`, that the policy or an
approval recorded after the candidate was prepared allows it; a row keeps its date, so
what was allowed stays so.  `RevertInv` says that a reverted pair is `Remembered` as an
attempt that ended ROLLED_BACK, that the night is not preparing such a pair
(`NewPair`), that no candidate of one waits (`NoneWaits`), and that whoever applies a
candidate applies the only one that waits (`MayApply`).

**MaintRun.**  `LockInv` says that every open descriptor is the inode the path
names, which is what makes a flock exclusive and what an unlink would break.
`DiskInv` is the promise stated over *every* directory in `past`, so a power
loss needs no case of its own beyond choosing one.  `MemoryInv` says that the
state in memory continues the one on disk (`NoGap`, and every reported run is
recorded), and that a rename publishes flushed bytes only.  `ClosingInv` says
that `finish` comes last.  `DamageInv` says that in
every directory of `past` each damaged file is in the place of the state file or
kept under a name (`KeptAll`), and under no two names (`KeptOnce`).  A quarantine needs a free name: there is one because
there are more names than damaged files (`SomeNameIsFree`, a pigeonhole over
`FS_PigeonHole`), and the least of the free ones, which is what the code takes,
exists because the order of the numbers is well founded (`NameIsFree`).

**Supervisor.**  `CallerInv` says what the caller has done and knows at each of
its steps; `TreeInv` says that the group holds only processes that were once
alive, and that a fate, once there, is the child's for good.  Both are needed for
`GroupIsKilled`: after the SIGKILL no member of the group can fork, because none
runs, and nobody outside can join.  `ResultIsTrue` is read off the two at the
return.  `ReadInv` holds a stream that has ended to its last byte, since nobody
has it open to write another.  `WindowShape` and `ReadTail` are the arithmetic of
a tail, once and for all.  A lemma each for the caller, the signals, the threads
and the programs.

**Outbox.**  `TrayInv` numbers the rows, so that a flush has one first row
(`FirstIsUnique`), and says that a flush at `"sent"` holds a notice that arrived:
that is the refinement.  That a copy too many is excused is a matter of counting:
`CopiesInv` adds to the copies that came those that may still come, one for each
flush that holds the row and has not sent it, and asks for one more excuse of a
row that is held than of one that nobody holds.

**DailyBackup, Retention, Auxiliary.**  `RestorableInv` follows versions that only
grow from the begin of the script through copy, inventory and tar; the claim of the
script keeps an archived database from being packed stale, the verification keeps
one from being missed, and `VerifiedIsSound` reads the second off the checks.
`OwnInv` says that what the updater adopts of a person's was begun during its
script.  `RemainsInv` is why a verified backup remains.  The directory that a night
judges is the last of all when it is chosen (`ChoiceInv`); from there to the prune
at most `MaxLate` are begun, so that fewer than `Keep` verified ones are newer and
the prune protects it (`ChosenIsProtected`); once judged, no script writes to it and
a death breaks only what the prune was removing, from which it is excluded
(`SettledInv`).  The hypothesis `MaxLate < Keep` is not for convenience: with
`MaxLate = Keep` a person's claimed backups push the judged one out, and nothing
says that theirs would pass.  `keep_daily_backups` is 7, so it would take seven
scripts between the verdict's choice and the prune of one night.
`AuxInv` is what the three questions of `update_one` still mean later.

**Nightly, Suite.**  An offer is deployable only if its clone was built on the commit
that it says, wherever HEAD was meanwhile; `OfferedInv` keeps what is true of an offer
from the moment it is made.  `OfferInv` orders what the night read of HEAD - discovery,
then copy and clone, then now - for as long as HEAD did not go back: of the first and
the last that agree, those between agree too, which is why the copy can undo it and
why `deploy` then lets it through.  `GreenInv` follows the two failures a night goes on
after.  `SuiteInv` keeps each test that always fails among `failing`, and counts
what was forgiven.

**Layer 2.**  `SchemaInv` says that each client has its steps behind it, wherever the
registry was set back to; `MenuInv` which of chat and record is ahead.

`UsageInv` says of a use that whoever is in its transaction still has the row it
read.  That a score is what its uses earned is arithmetic.  `Pow` is a recursive
function, and that it is defined at all is proved by induction in the form that the
provers can use: the set of the exponents up to which powers exist has no least
exception (`SetInduction`, over `WFMin`; `PowersExist`, `PowersAgree`, `PowSteps`).  A
decay divides by a power and loses at most what is divided (`DecayBounds`), and loses
nothing while the score is a multiple of that power (`DecayIsExact`); `ScoreInv` says
that it always is.  Then the order of two commands is decided by their scores counted
from time 0 and does not depend on the moment of the question (`TrueOrder`,
`OrderIsTrue`), so that a cached order stays right as time passes and turns wrong
only with a use, which `OrderInv` follows from the commit to the invalidation.  An order
made of rows that could not be read is the one without uses, at any moment
(`OrderOfNoRows`).

**Types.**  Those of the composed runs are not all evident.  A flush makes no send
more than `Retries` because it goes on only with one left (`TriesInv`); a prune
removes no directory that a script still writes to, because what it removes has a
verdict and a verdict ends the script (`DirsInv`); a clone is named after a night that
has begun (`NightTypes`); a regression is one of what failed because there is none
before the comparison (`SuiteTypes`).  Each behaviour of a composition is one of each
of its parts (`StoresParts`, `NightlyParts`, `Layer2Parts`), so what is proved of the
parts holds in the runs.

### Model-checked only

Liveness: `RunIsClosed`, `PreparedIsDecided`, `ReturnsUnlessStuck`, `Settles`.
Temporal reasoning under fairness needs ENABLED, which is beyond the provers used
here.  And the four runs that expect a violation: a counterexample is not a theorem.

## 5. What is not modelled yet, and the plan

1. A manual rollback inside a live deployment: `Orchestrator` has the command of
   `cli.py` as one change of production, between the steps of a deployment or before
   and after it; its own steps, and those of `rollback.sh`, are to be laid between
   those of `Deploy`.
2. `Judges`: thresholds of disk space and gateway health, and the date
   arithmetic of backup freshness, against reference definitions over bounded
   inputs; `worst` over verdicts and the comparison of versions.
3. Composition: `Nightly` in place of the single `Prepare` step of `Orchestrator`,
   `Deploy` in place of the deployment that it takes as one change; `Supervisor`
   for the task outcomes of `MaintRun`.  An abstract log of runs, to be implemented
   by `MaintRun`, states its history properties without files.

Theorems to come: `MaintRun` as an implementation of the log.

Not to be modelled: git, uv, pip, sqlite and systemd themselves (their answers
are choices of the environment), what a check reads inside an archive, the
fields of a candidate's analysis, the smoke checks of a candidate, the wording
of notices and reports, file checks of approvals (owner and mode count as an
invalid record), queries to GitHub and Telegram, and the patches, which belong
to another repository.
