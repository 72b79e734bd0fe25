------------------------------ MODULE MaintRun ------------------------------
(***************************************************************************)
(* One invocation of `hermes-maint run`, from the lock to the exit code:   *)
(* the lock file (lock.rs), the state file and its atomic replacement      *)
(* (state.rs), and the run that is opened before the work and closed after *)
(* it (run.rs).  Any number of invocations overlap; a process may be       *)
(* killed at any step and the machine may lose power at any step.          *)
(*                                                                         *)
(* The directory is what a process sees; `past` is the set of directories  *)
(* a power loss may leave behind.  A rename adds one, and fsync of the     *)
(* directory leaves only the present one: renames reach the disk in order  *)
(* but at no particular time.  A file that was renamed before its own      *)
(* fsync comes back torn.                                                  *)
(***************************************************************************)
EXTENDS Integers, Sequences, FiniteSets

CONSTANTS
  Proc,         \* invocations that may be alive at once
  Inode,        \* identities a lock file may have
  Stamp,        \* values of the clock in seconds, for quarantine names
  Task,         \* the registry of tasks
  MaxHistory,   \* MAX_HISTORY, 30 in the code
  MaxRuns,      \* bound: run ids handed out
  MaxDamage,    \* bound: times the state file is found damaged
  MaxFaults     \* bound: kills, power losses and failed system calls

ASSUME MaintAssumption ==
  /\ MaxHistory \in Nat \ {0}
  /\ MaxRuns \in Nat /\ MaxDamage \in Nat /\ MaxFaults \in Nat
  /\ Inode # {} /\ 0 \notin Inode
  /\ Stamp # {}
  /\ IsFiniteSet(Proc)

VARIABLES
  lockfile,  \* the inode the lock's path names, 0 when there is no such file
  fd,        \* the inode each process has open
  pc,        \* where each process is
  dry,       \* --dry-run
  closing,   \* the save in progress is the one of finish()
  mem,       \* Runner.state: the state each process holds in memory
  flushed,   \* the bytes of the temporary file of the save were fsynced
  dir,       \* the directory: the state file, whether its bytes were fsynced,
             \* and the files moved aside
  past,      \* every directory a power loss may leave
  reported,  \* history: runs whose exit code said how they ended
  damage,    \* history: times the state file was damaged
  faults     \* faults so far, for the bound

locals == <<fd, dry, closing, mem>>
fs == <<dir, past, reported>>
env == <<damage, faults>>
vars == <<lockfile, pc, locals, flushed, fs, env>>

-----------------------------------------------------------------------------
(* The state file.                                                         *)

TaskOutcome == {"ok", "failed", "skipped", "timeout", "degraded"}
Outcome == {"ok", "degraded", "partial", "interrupted", "timeout"}
Run == [id : Nat \ {0}, outcome : Outcome]
NoRun == [id |-> 0, outcome |-> "open"]
Open == [id : Nat \ {0}, outcome : {"open"}]

Absent == [kind |-> "absent"]
Future == [kind |-> "future"]
Garbage(g) == [kind |-> "garbage", gid |-> g]
Torn == Garbage(MaxDamage + 1)

Fresh == [kind |-> "state", next |-> 1, last |-> NoRun, history |-> <<>>]

\* State::push_history: newest first, and no more than MaxHistory.
PushHistory(s, r) ==
  [s EXCEPT !.history = IF Len(@) < MaxHistory THEN <<r>> \o @
                        ELSE <<r>> \o SubSeq(@, 1, MaxHistory - 1)]

\* State::reconcile: a run nobody closed goes into the history as
\* interrupted; one that was closed but not yet rotated goes in as it is.
Reconcile(s) ==
  IF s.last = NoRun THEN s
  ELSE LET ended == IF s.last.outcome = "open" THEN "interrupted" ELSE s.last.outcome
       IN  PushHistory([s EXCEPT !.last = NoRun], [id |-> s.last.id, outcome |-> ended])

\* Runner::start: the next id, and the run it names, open.
OpenRun(s) == [s EXCEPT !.next = @ + 1, !.last = [id |-> s.next, outcome |-> "open"]]

\* Runner::finish.
CloseRun(s, o) == PushHistory([s EXCEPT !.last = NoRun], [id |-> s.last.id, outcome |-> o])

\* aggregate and rank: the verdict is the task outcome that deserves most
\* attention.
AsRunOutcome(o) == CASE o = "timeout" -> "timeout"
                     [] o \in {"failed", "skipped"} -> "partial"
                     [] OTHER -> o
Rank(o) == CASE o = "ok" -> 0 [] o = "degraded" -> 1 [] o = "partial" -> 2
             [] o = "interrupted" -> 3 [] o = "timeout" -> 4
Aggregate(result) ==
  LET seen == {"ok"} \union {AsRunOutcome(result[t]) : t \in Task}
  IN  CHOOSE o \in seen : \A other \in seen : Rank(other) <= Rank(o)

NextId(c) == IF c.kind = "state" THEN c.next ELSE 1

-----------------------------------------------------------------------------
Holding == {p \in Proc : pc[p] \notin {"idle", "opened"}}
Real(p) == pc[p] # "idle" /\ ~dry[p]

Init ==
  /\ lockfile = 0
  /\ fd = [p \in Proc |-> 0]
  /\ pc = [p \in Proc |-> "idle"]
  /\ dry = [p \in Proc |-> FALSE]
  /\ closing = [p \in Proc |-> FALSE]
  /\ mem = [p \in Proc |-> Fresh]
  /\ flushed = [p \in Proc |-> FALSE]
  /\ dir = [state |-> Absent, synced |-> TRUE,
            kept |-> [n \in Stamp \X (0..MaxDamage) |-> 0]]
  /\ past = {dir}
  /\ reported = {}
  /\ damage = 0
  /\ faults = 0

\* The process is gone: its descriptors are closed, which releases the lock,
\* and its memory is lost.  The lock file stays.
ForgetProcess(gone) ==
  /\ pc' = [p \in Proc |-> IF p \in gone THEN "idle" ELSE pc[p]]
  /\ fd' = [p \in Proc |-> IF p \in gone THEN 0 ELSE fd[p]]
  /\ dry' = [p \in Proc |-> IF p \in gone THEN FALSE ELSE dry[p]]
  /\ closing' = [p \in Proc |-> IF p \in gone THEN FALSE ELSE closing[p]]
  /\ mem' = [p \in Proc |-> IF p \in gone THEN Fresh ELSE mem[p]]
  /\ flushed' = [p \in Proc |-> IF p \in gone THEN FALSE ELSE flushed[p]]

\* Mutant of End: whoever held the lock unlinks its file.
EndAndUnlink(gone) ==
  /\ ForgetProcess(gone)
  /\ lockfile' = IF gone \intersect Holding # {} THEN 0 ELSE lockfile

End(gone) == ForgetProcess(gone) /\ UNCHANGED lockfile

\* Lock::acquire, first half: open the path, creating the file if there is
\* none.  Real runs are bounded by the ids they would take.
Launch(p) ==
  /\ pc[p] = "idle"
  /\ \E d \in BOOLEAN :
       /\ d \/ NextId(dir.state) + Cardinality({q \in Proc : Real(q)}) <= MaxRuns
       /\ dry' = [dry EXCEPT ![p] = d]
  /\ \E i \in Inode :
       /\ IF lockfile = 0 THEN \A q \in Proc : fd[q] # i ELSE i = lockfile
       /\ lockfile' = i
       /\ fd' = [fd EXCEPT ![p] = i]
  /\ pc' = [pc EXCEPT ![p] = "opened"]
  /\ UNCHANGED <<closing, mem, flushed, fs, env>>

\* Lock::acquire, second half: flock without waiting.
TakeLock(p) ==
  /\ pc[p] = "opened"
  /\ \A q \in Holding : fd[q] # fd[p]
  /\ pc' = [pc EXCEPT ![p] = "locked"]
  /\ UNCHANGED <<lockfile, locals, flushed, fs, env>>

\* LockError::Busy: exit 3.
LockBusy(p) ==
  /\ pc[p] = "opened"
  /\ \E q \in Holding : fd[q] = fd[p]
  /\ End({p})
  /\ UNCHANGED <<fs, env>>

\* The rest of Runner::start in memory; a dry run writes none of it.
Begin(p, s) ==
  /\ mem' = [mem EXCEPT ![p] = OpenRun(Reconcile(s))]
  /\ pc' = [pc EXCEPT ![p] = IF dry[p] THEN "work" ELSE "write"]
  /\ UNCHANGED <<lockfile, fd, dry, closing, flushed, reported, env>>

\* State::load of a file that is not there, or that parses.
Load(p) ==
  /\ pc[p] = "locked"
  /\ dir.state.kind \in {"absent", "state"}
  /\ Begin(p, IF dir.state.kind = "absent" THEN Fresh ELSE dir.state)
  /\ UNCHANGED <<dir, past>>

\* Mutant of NameFor: the quarantine name without its number.
UnnumberedName(stamp) == <<stamp, 0>>

\* quarantine(): the first name not in use at this second, so that no earlier
\* file is replaced.
NameFor(stamp) ==
  LET taken(n) == dir.kept[<<stamp, n>>] # 0
  IN  <<stamp, CHOOSE n \in 0..MaxDamage : ~taken(n) /\ \A m \in 0..(n - 1) : taken(m)>>

\* State::load of a file that does not parse: it is moved aside and the run
\* goes on from a fresh state.  The move is not fsynced until the next save.
Unusable(c) == c.kind = "garbage"
GarbageId(c) == IF c.kind = "garbage" THEN c.gid ELSE MaxDamage + 1

Quarantine(p) ==
  /\ pc[p] = "locked"
  /\ Unusable(dir.state)
  /\ \E stamp \in Stamp :
       dir' = [state |-> Absent, synced |-> TRUE,
               kept |-> [dir.kept EXCEPT ![NameFor(stamp)] = GarbageId(dir.state)]]
  /\ past' = past \union {dir'}
  /\ Begin(p, Fresh)

\* LoadError::FutureSchema: exit 7, and the file is left alone.
Refuse(p) ==
  /\ pc[p] = "locked"
  /\ dir.state.kind = "future"
  /\ End({p})
  /\ UNCHANGED <<fs, env>>

\* run_tasks, then finish() up to its save.  A dry run runs no task and
\* exits with what an empty run would.
Work(p) ==
  /\ pc[p] = "work"
  /\ ~dry[p]
  /\ \E result \in [Task -> TaskOutcome] :
       mem' = [mem EXCEPT ![p] = CloseRun(@, Aggregate(result))]
  /\ closing' = [closing EXCEPT ![p] = TRUE]
  /\ pc' = [pc EXCEPT ![p] = "write"]
  /\ UNCHANGED <<lockfile, fd, dry, flushed, fs, env>>

DryExit(p) ==
  /\ pc[p] = "work"
  /\ dry[p]
  /\ End({p})
  /\ UNCHANGED <<fs, env>>

-----------------------------------------------------------------------------
(* State::save: write a temporary file, fsync it, rename it over the state *)
(* file, fsync the directory.                                              *)

WriteTmp(p) ==
  /\ pc[p] = "write"
  /\ pc' = [pc EXCEPT ![p] = "fsync"]
  /\ flushed' = [flushed EXCEPT ![p] = FALSE]
  /\ UNCHANGED <<lockfile, locals, fs, env>>

\* Mutant of SyncTmp: the rename follows the write.
SkipSync(p) ==
  /\ pc[p] = "fsync"
  /\ pc' = [pc EXCEPT ![p] = "rename"]
  /\ UNCHANGED <<lockfile, locals, flushed, fs, env>>

SyncTmp(p) ==
  /\ pc[p] = "fsync"
  /\ pc' = [pc EXCEPT ![p] = "rename"]
  /\ flushed' = [flushed EXCEPT ![p] = TRUE]
  /\ UNCHANGED <<lockfile, locals, fs, env>>

Rename(p) ==
  /\ pc[p] = "rename"
  /\ dir' = [dir EXCEPT !.state = mem[p], !.synced = flushed[p]]
  /\ past' = past \union {dir'}
  /\ pc' = [pc EXCEPT ![p] = "fsync_dir"]
  /\ UNCHANGED <<lockfile, locals, flushed, reported, env>>

\* fsync of the directory; its mutant leaves it out.
UnsyncedDirs == past
SyncedDirs == {dir}

\* The save is complete: the work begins, or the exit code says how the run
\* ended.
SyncDir(p) ==
  /\ pc[p] = "fsync_dir"
  /\ past' = SyncedDirs
  /\ IF closing[p]
     THEN End({p}) /\ reported' = reported \union {mem[p].history[1]}
     ELSE /\ pc' = [pc EXCEPT ![p] = "work"]
          /\ UNCHANGED <<lockfile, locals, flushed, reported>>
  /\ UNCHANGED <<dir, env>>

\* A system call of the load or of the save fails: exit 1.  The temporary
\* file is removed; a rename that was done stays done.
FailIO(p) ==
  /\ pc[p] \in {"locked", "write", "fsync", "rename", "fsync_dir"}
  /\ faults < MaxFaults
  /\ faults' = faults + 1
  /\ End({p})
  /\ UNCHANGED <<fs, damage>>

-----------------------------------------------------------------------------
(* The environment.                                                        *)

\* SIGKILL, the OOM killer, a panic.
Kill(p) ==
  /\ pc[p] # "idle"
  /\ faults < MaxFaults
  /\ faults' = faults + 1
  /\ End({p})
  /\ UNCHANGED <<fs, damage>>

PowerLoss ==
  /\ faults < MaxFaults
  /\ faults' = faults + 1
  /\ \E d \in past :
       dir' = [d EXCEPT !.state = IF d.synced THEN @ ELSE Torn, !.synced = TRUE]
  /\ past' = {dir'}
  /\ End(Proc)
  /\ UNCHANGED <<reported, damage>>

\* Between runs, something else damages the state file.  Its runs are lost.
Damage ==
  /\ Holding = {} /\ past = {dir}
  /\ dir.state.kind = "state"
  /\ damage < MaxDamage
  /\ damage' = damage + 1
  /\ dir' = [dir EXCEPT !.state = Garbage(damage + 1)]
  /\ past' = {dir'}
  /\ reported' = {}
  /\ UNCHANGED <<lockfile, pc, locals, flushed, faults>>

\* Between runs, a newer build writes the state file.
NewerBuild ==
  /\ Holding = {} /\ past = {dir}
  /\ dir.state.kind \in {"absent", "state"}
  /\ dir' = [dir EXCEPT !.state = Future]
  /\ past' = {dir'}
  /\ reported' = {}
  /\ UNCHANGED <<lockfile, pc, locals, flushed, env>>

Save(p) == WriteTmp(p) \/ SyncTmp(p) \/ Rename(p) \/ SyncDir(p)

Step(p) ==
  \/ Launch(p) \/ TakeLock(p) \/ LockBusy(p)
  \/ Load(p) \/ Quarantine(p) \/ Refuse(p)
  \/ Work(p) \/ DryExit(p)
  \/ Save(p) \/ FailIO(p) \/ Kill(p)

Next == (\E p \in Proc : Step(p)) \/ PowerLoss \/ Damage \/ NewerBuild

Spec == Init /\ [][Next]_vars

-----------------------------------------------------------------------------
(* Properties.                                                             *)

StateFile ==
  [kind : {"state"}, next : Nat \ {0}, last : Open \union {NoRun},
   history : Seq(Run)]
Content ==
  StateFile \union {Absent, Future} \union {Garbage(g) : g \in 1..(MaxDamage + 1)}
Directory ==
  [state : Content, synced : BOOLEAN,
   kept : [Stamp \X (0..MaxDamage) -> 0..(MaxDamage + 1)]]
Point == {"idle", "opened", "locked", "work", "write", "fsync", "rename", "fsync_dir"}

\* Every variable has its type; a history holds ended runs only, never one
\* still open (state.rs:44-47, 297).
TypeOK ==
  /\ lockfile \in Inode \union {0}
  /\ fd \in [Proc -> Inode \union {0}]
  /\ pc \in [Proc -> Point]
  /\ dry \in [Proc -> BOOLEAN]
  /\ closing \in [Proc -> BOOLEAN]
  /\ flushed \in [Proc -> BOOLEAN]
  /\ mem \in [Proc -> StateFile]
  /\ dir \in Directory
  /\ past \subseteq Directory
  /\ reported \subseteq Run
  /\ damage \in 0..MaxDamage
  /\ faults \in 0..MaxFaults

\* lock.rs:7-11, 120-126: two invocations never run at once, however their
\* opens, locks, exits and kills fall.
OneHolder == \A p, q \in Holding : p = q

\* state.rs:322: after a crash at any point there is a complete version of
\* the state, never a partial write.
NeverTorn == \A d \in past : d.state # Torn /\ (d.state.kind = "state" => d.synced)

\* In every state file that may be found, the runs kept are the latest ones
\* with none missing: ids go down by one from the run before the open one,
\* and only the bound on the history makes an old one disappear.
Consecutive(h, latest) ==
  /\ Len(h) = IF latest < MaxHistory THEN latest ELSE MaxHistory
  /\ \A i \in 1..Len(h) : h[i].id = latest + 1 - i
NoGap(s) ==
  IF s.last = NoRun THEN Consecutive(s.history, s.next - 1)
  ELSE s.last.id = s.next - 1 /\ Consecutive(s.history, s.next - 2)
HistoryHasNoGap == \A d \in past : d.state.kind = "state" => NoGap(d.state)

\* Whatever kill or power loss ended an invocation, the state that the next one
\* finds is whole and misses no run (state.rs:288-297, 322).
StateIsSound == NeverTorn /\ HistoryHasNoGap

\* run.rs:302-308: an exit code that says how a run ended is never
\* contradicted later.  Whatever is lost or killed afterwards, the state file
\* records that end, until newer runs push it out of the history.
Records(s, r) ==
  \/ \E i \in 1..Len(s.history) : s.history[i] = r
  \/ Len(s.history) = MaxHistory /\ r.id < s.history[MaxHistory].id
ReportedIsDurable ==
  \A d \in past : \A r \in reported : d.state.kind = "state" /\ Records(d.state, r)

\* state.rs:230-233, 369-371: every damaged state file is either still where
\* it was or kept aside, in every directory that may be found.
DamageIsKept ==
  \A d \in past : \A g \in 1..damage :
     \/ d.state = Garbage(g)
     \/ \E n \in DOMAIN d.kept : d.kept[n] = g

\* The inductive invariant of the proofs: the lock, the file system and the
\* memory of whoever holds the lock, at each point of a run.
Loaded == {p \in Proc : pc[p] \in {"work", "write", "fsync", "rename", "fsync_dir"}}

LockInv ==
  /\ \A p \in Proc : pc[p] # "idle" => fd[p] = lockfile /\ lockfile # 0
  /\ OneHolder

DiskInv ==
  /\ dir \in past
  /\ \A d \in past : d.synced
  /\ NeverTorn /\ HistoryHasNoGap /\ ReportedIsDurable
  /\ (\E d \in past : d.state = Future) => past = {dir}

MemoryInv ==
  /\ \A p \in Proc : closing[p] => p \in Loaded
  /\ \A p \in Loaded :
       /\ NoGap(mem[p])
       /\ \A r \in reported : Records(mem[p], r)
       /\ IF closing[p] THEN mem[p].last = NoRun /\ mem[p].history # <<>>
                        ELSE mem[p].last # NoRun
       /\ pc[p] = "rename" => flushed[p]
       /\ pc[p] = "fsync_dir" => dir.state = mem[p]
       /\ dir.state # Future

\* finish() runs once: no work follows its save.
ClosingInv == \A p \in Proc : closing[p] => pc[p] # "work"

IInv == TypeOK /\ LockInv /\ DiskInv /\ MemoryInv /\ ClosingInv

\* state.rs:192-198: a state file from a newer build is never moved or
\* replaced.
NewerIsLeftAlone == [][dir.state = Future => dir'.state = Future]_vars
=============================================================================
