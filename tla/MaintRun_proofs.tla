--------------------------- MODULE MaintRun_proofs --------------------------
(***************************************************************************)
(* Proofs about MaintRun, for any number of processes, any bound on the    *)
(* history and any number of runs and faults: at most one invocation runs, *)
(* no state file is ever torn, none misses a run, what an exit code said   *)
(* stays on disk, the file of a newer build is left alone and no damaged   *)
(* file is lost.                                                           *)
(*                                                                         *)
(* The invariant says what the holder of the lock has in memory: a state   *)
(* that extends the one on disk, with every run reported so far.  Since    *)
(* nobody else writes while it holds the lock, renaming that state into    *)
(* place keeps what the file said.                                         *)
(***************************************************************************)
EXTENDS MaintRun, TLAPS, SequenceTheorems, FiniteSetTheorems, WellFoundedInduction

USE MaintAssumption

-----------------------------------------------------------------------------
(* The history.                                                            *)

\* What push_history returns: the new run first, then the old ones in order.
LEMMA PushShape ==
  ASSUME NEW s \in StateFile, NEW r \in Run
  PROVE  /\ PushHistory(s, r) \in StateFile
         /\ PushHistory(s, r).next = s.next
         /\ PushHistory(s, r).last = s.last
         /\ Len(PushHistory(s, r).history) =
              IF Len(s.history) < MaxHistory THEN Len(s.history) + 1 ELSE MaxHistory
         /\ PushHistory(s, r).history[1] = r
         /\ \A i \in 2..Len(PushHistory(s, r).history) :
              PushHistory(s, r).history[i] = s.history[i - 1]
<1> DEFINE h == s.history
           kept == IF Len(h) < MaxHistory THEN h ELSE SubSeq(h, 1, MaxHistory - 1)
           g == <<r>> \o kept
<1>1. h \in Seq(Run) /\ Len(h) \in Nat
  BY DEF StateFile
<1>2. /\ kept \in Seq(Run)
      /\ Len(kept) = IF Len(h) < MaxHistory THEN Len(h) ELSE MaxHistory - 1
      /\ \A i \in 1..Len(kept) : kept[i] = h[i]
  <2>1. CASE Len(h) < MaxHistory
    BY <1>1, <2>1
  <2>2. CASE Len(h) >= MaxHistory
    BY <1>1, <2>2, SubSeqProperties
  <2> QED
    BY <1>1, <2>1, <2>2
<1>3. <<r>> \in Seq(Run) /\ Len(<<r>>) = 1 /\ <<r>>[1] = r
  OBVIOUS
<1>4. /\ g \in Seq(Run)
      /\ Len(g) = 1 + Len(kept)
      /\ g[1] = r
      /\ \A i \in 2..Len(g) : g[i] = kept[i - 1]
  BY <1>2, <1>3, ConcatProperties
<1>5. PushHistory(s, r) = [s EXCEPT !.history = g]
  BY DEF PushHistory
<1>6. /\ [s EXCEPT !.history = g] \in StateFile
      /\ [s EXCEPT !.history = g].history = g
      /\ [s EXCEPT !.history = g].next = s.next
      /\ [s EXCEPT !.history = g].last = s.last
  BY <1>4 DEF StateFile
<1> HIDE DEF g, kept
<1>7. \A i \in 2..Len(g) : g[i] = h[i - 1]
  <2> TAKE i \in 2..Len(g)
  <2>1. i - 1 \in 1..Len(kept)
    BY <1>1, <1>2, <1>4
  <2> QED
    BY <1>2, <1>4, <2>1
<1>8. Len(g) = IF Len(h) < MaxHistory THEN Len(h) + 1 ELSE MaxHistory
  BY <1>1, <1>2, <1>4
<1> QED
  BY <1>4, <1>5, <1>6, <1>7, <1>8

\* Pushing the next run keeps the history consecutive.
LEMMA PushConsecutive ==
  ASSUME NEW s \in StateFile, NEW n \in Nat, NEW r \in Run,
         Consecutive(s.history, n), r.id = n + 1
  PROVE  Consecutive(PushHistory(s, r).history, n + 1)
<1> DEFINE g == PushHistory(s, r).history
<1>1. Len(s.history) \in Nat
  BY DEF StateFile
<1>2. /\ Len(g) = IF Len(s.history) < MaxHistory THEN Len(s.history) + 1 ELSE MaxHistory
      /\ g[1] = r
      /\ \A i \in 2..Len(g) : g[i] = s.history[i - 1]
  BY PushShape
<1> HIDE DEF g
<1>3. ASSUME NEW i \in 1..Len(g)
      PROVE  g[i].id = n + 2 - i
  <2>1. CASE i = 1
    BY <1>2, <2>1
  <2>2. CASE i # 1
    <3>1. i \in 2..Len(g) /\ i - 1 \in 1..Len(s.history)
      BY <1>1, <1>2, <2>2
    <3>2. s.history[i - 1].id = n + 1 - (i - 1)
      BY <3>1 DEF Consecutive
    <3> QED
      BY <1>2, <3>1, <3>2
  <2> QED
    BY <2>1, <2>2
<1> QED
  BY <1>1, <1>2, <1>3 DEF Consecutive, g

\* And no run that was recorded is forgotten before newer ones push it out.
LEMMA PushRecords ==
  ASSUME NEW s \in StateFile, NEW n \in Nat, NEW r \in Run, NEW old \in Run,
         Consecutive(s.history, n), r.id = n + 1, Records(s, old)
  PROVE  Records(PushHistory(s, r), old)
<1> DEFINE h == s.history
           g == PushHistory(s, r).history
<1>1. Len(h) \in Nat /\ Len(h) <= MaxHistory /\ old.id \in Nat
  BY DEF StateFile, Consecutive, Run
<1>2. /\ Len(g) = IF Len(h) < MaxHistory THEN Len(h) + 1 ELSE MaxHistory
      /\ g[1] = r
      /\ \A i \in 2..Len(g) : g[i] = h[i - 1]
  BY PushShape
<1>3. Consecutive(g, n + 1)
  BY PushConsecutive
<1> HIDE DEF g
<1>4. CASE \E i \in 1..Len(h) : h[i] = old
  <2>1. PICK i \in 1..Len(h) : h[i] = old
    BY <1>4
  <2>2. CASE i < MaxHistory
    <3>1. i + 1 \in 2..Len(g)
      BY <1>1, <1>2, <2>2
    <3>2. g[i + 1] = h[(i + 1) - 1] /\ (i + 1) - 1 = i
      BY <1>2, <3>1
    <3> QED
      BY <2>1, <3>1, <3>2 DEF Records, g
  <2>3. CASE i >= MaxHistory
    <3>1. i = MaxHistory /\ Len(h) = MaxHistory /\ Len(g) = MaxHistory
      BY <1>1, <1>2, <2>3
    <3>2. old.id = n + 1 - MaxHistory
      BY <2>1, <3>1 DEF Consecutive
    <3>3. g[MaxHistory].id = n + 2 - MaxHistory
      BY <1>3, <3>1 DEF Consecutive
    <3> QED
      BY <3>1, <3>2, <3>3 DEF Records, g
  <2> QED
    BY <1>1, <2>2, <2>3
<1>5. CASE Len(h) = MaxHistory /\ old.id < h[MaxHistory].id
  <2>1. h[MaxHistory].id = n + 1 - MaxHistory
    BY <1>5 DEF Consecutive
  <2>2. Len(g) = MaxHistory /\ g[MaxHistory].id = n + 2 - MaxHistory
    BY <1>2, <1>3, <1>5 DEF Consecutive
  <2> QED
    BY <1>1, <1>5, <2>1, <2>2 DEF Records, g
<1> QED
  BY <1>4, <1>5 DEF Records

-----------------------------------------------------------------------------
(* What a run does to the state it holds.                                  *)

\* A well-formed state that keeps every reported run.
Keeps(s, reports) == s \in StateFile /\ NoGap(s) /\ \A r \in reports : Records(s, r)

\* The record of last_run is a run or none, never both.
LEMMA LastTypes ==
  /\ NoRun \notin Open
  /\ \A s \in StateFile : s.last # NoRun => s.last \in Open
  BY DEF NoRun, Open, StateFile

\* Closing the open run with any ended outcome.
LEMMA CloseKeeps ==
  ASSUME NEW s, NEW reports \in SUBSET Run, NEW o \in Outcome,
         Keeps(s, reports), s.last # NoRun
  PROVE  /\ Keeps(CloseRun(s, o), reports)
         /\ CloseRun(s, o).last = NoRun
         /\ CloseRun(s, o).next = s.next
         /\ CloseRun(s, o).history # <<>>
         /\ CloseRun(s, o).history[1] \in Run
<1> DEFINE n == s.next - 2
           base == [s EXCEPT !.last = NoRun]
           r == [id |-> s.last.id, outcome |-> o]
           t == PushHistory(base, r)
<1>1. s \in StateFile /\ s.last \in Open /\ s.last.id = s.next - 1 /\ Consecutive(s.history, n)
  BY LastTypes DEF Keeps, NoGap
<1>2. n \in Nat /\ r \in Run /\ r.id = n + 1
  BY <1>1 DEF StateFile, Open, Run
<1>3. base \in StateFile /\ base.history = s.history /\ base.next = s.next /\ base.last = NoRun
  BY <1>1 DEF StateFile
<1>4. /\ t \in StateFile /\ t.next = s.next /\ t.last = NoRun /\ t.history[1] = r
      /\ Len(t.history) = IF Len(s.history) < MaxHistory THEN Len(s.history) + 1 ELSE MaxHistory
  <2> HIDE DEF r, base
  <2> QED
    BY <1>2, <1>3, PushShape
<1>5. Consecutive(t.history, n + 1)
  <2> HIDE DEF r, base, n
  <2> QED
    BY <1>1, <1>2, <1>3, PushConsecutive
<1>6. \A old \in reports : Records(t, old)
  <2> TAKE old \in reports
  <2>1. Records(base, old)
    BY <1>3 DEF Keeps, Records
  <2> HIDE DEF r, base, n
  <2> QED
    BY <1>1, <1>2, <1>3, <2>1, PushRecords
<1>7. NoGap(t)
  BY <1>1, <1>4, <1>5 DEF NoGap, StateFile
<1>8. t.history # <<>>
  BY <1>1, <1>4 DEF StateFile
<1>9. CloseRun(s, o) = t
  BY DEF CloseRun
<1> HIDE DEF t
<1> QED
  BY <1>2, <1>4, <1>6, <1>7, <1>8, <1>9 DEF Keeps

\* Reconciling leaves no run open and loses none.
LEMMA ReconcileKeeps ==
  ASSUME NEW s, NEW reports \in SUBSET Run, Keeps(s, reports)
  PROVE  Keeps(Reconcile(s), reports) /\ Reconcile(s).last = NoRun
<1>1. CASE s.last = NoRun
  BY <1>1 DEF Reconcile
<1>2. CASE s.last # NoRun
  <2>1. s.last.outcome = "open"
    BY <1>2, LastTypes DEF Keeps, Open
  <2>2. Reconcile(s) = CloseRun(s, "interrupted")
    BY <1>2, <2>1 DEF Reconcile, CloseRun
  <2> QED
    BY <1>2, <2>2, CloseKeeps DEF Outcome
<1> QED
  BY <1>1, <1>2

\* Opening a run takes the next id.
LEMMA OpenKeeps ==
  ASSUME NEW s, NEW reports \in SUBSET Run, Keeps(s, reports), s.last = NoRun
  PROVE  Keeps(OpenRun(s), reports) /\ OpenRun(s).last # NoRun
<1> DEFINE t == OpenRun(s)
<1> DEFINE opened == [id |-> s.next, outcome |-> "open"]
<1>0. s \in StateFile /\ s.next \in Nat \ {0} /\ opened \in Open
  BY DEF Keeps, StateFile, Open
<1>1. /\ t \in StateFile /\ t.history = s.history /\ t.next = s.next + 1
      /\ t.last = opened
  <2> DEFINE u == [s EXCEPT !.next = s.next + 1]
  <2>1. u \in StateFile /\ u.history = s.history /\ u.next = s.next + 1
    BY <1>0 DEF StateFile
  <2>2. t = [u EXCEPT !.last = opened]
    BY DEF OpenRun
  <2> HIDE DEF u, opened, t
  <2> QED
    BY <1>0, <2>1, <2>2 DEF StateFile
<1>2. t.last # NoRun
  BY <1>0, <1>1 DEF NoRun
<1>3. Consecutive(s.history, s.next - 1)
  BY DEF Keeps, NoGap
<1>4. NoGap(t)
  <2>1. t.next - 2 = s.next - 1 /\ t.last.id = t.next - 1
    BY <1>0, <1>1
  <2> QED
    BY <1>1, <1>2, <1>3, <2>1 DEF NoGap
<1>5. \A r \in reports : Records(t, r)
  BY <1>1 DEF Keeps, Records
<1> QED
  BY <1>1, <1>2, <1>4, <1>5 DEF Keeps

\* The state a machine starts from.
LEMMA FreshKeeps == Keeps(Fresh, {}) /\ Fresh.last = NoRun
<1>1. Fresh \in StateFile /\ Fresh.last = NoRun /\ Fresh.next = 1 /\ Fresh.history = <<>>
  BY DEF Fresh, StateFile
<1>2. Consecutive(<<>>, 0)
  BY DEF Consecutive
<1> QED
  BY <1>1, <1>2 DEF Keeps, NoGap

\* The verdict over the tasks exists and is one a live run can have.
LEMMA AggregateType ==
  ASSUME NEW result \in [Task -> TaskOutcome]
  PROVE  Aggregate(result) \in Outcome \ {"interrupted"}
<1> DEFINE seen == {"ok"} \union {AsRunOutcome(result[t]) : t \in Task}
<1>1. seen \subseteq {"ok", "degraded", "partial", "timeout"}
  BY DEF AsRunOutcome, TaskOutcome
<1>2. "ok" \in seen
  OBVIOUS
<1> HIDE DEF seen
<1>3. \E o \in seen : \A other \in seen : Rank(other) <= Rank(o)
  <2>1. Rank("ok") = 0 /\ Rank("degraded") = 1 /\ Rank("partial") = 2 /\ Rank("timeout") = 4
    BY DEF Rank
  <2> QED
    BY <1>1, <1>2, <2>1
<1>4. Aggregate(result) \in seen
  BY <1>3 DEF Aggregate, seen
<1> QED
  BY <1>1, <1>4 DEF Outcome

-----------------------------------------------------------------------------
(* Every step keeps the invariant.                                         *)

USE DEF locals, fs, env

\* The points of a run are distinct, and a run with a loaded state holds the
\* lock.
LEMMA LoadedHolds == Loaded \subseteq Holding
  BY DEF Loaded, Holding

\* What a loaded run has in memory, in one formula.
LEMMA LoadedKeeps ==
  ASSUME IInv, NEW p \in Loaded
  PROVE  Keeps(mem[p], reported) /\ reported \in SUBSET Run /\ p \in Proc
  BY DEF IInv, TypeOK, MemoryInv, Keeps, Loaded

\* Nothing has been reported about a file that is not a state.
LEMMA UnreadableUnreported ==
  ASSUME IInv, dir.state.kind # "state"
  PROVE  reported = {}
  BY DEF IInv, DiskInv, ReportedIsDurable

\* What is known of a state file on disk.
LEMMA DirKeeps ==
  ASSUME IInv, dir.state.kind = "state"
  PROVE  Keeps(dir.state, reported)
<1>1. dir.state \in StateFile
  BY DEF IInv, TypeOK, Directory, Content, Absent, Future, Garbage
<1> QED
  BY <1>1 DEF IInv, DiskInv, HistoryHasNoGap, ReportedIsDurable, Keeps

\* A process that ends, or several, while the files stay as they are.
LEMMA EndKeeps ==
  ASSUME IInv, NEW gone \in SUBSET Proc, End(gone), UNCHANGED fs,
         damage' \in 0..MaxDamage, faults' \in 0..MaxFaults
  PROVE  IInv'
<1>1. TypeOK'
  <2>1. Fresh \in StateFile
    BY FreshKeeps DEF Keeps
  <2> QED
    BY <2>1 DEF IInv, TypeOK, End, ForgetProcess, Point
<1>2. LockInv'
  BY DEF IInv, LockInv, OneHolder, Holding, End, ForgetProcess, TypeOK
<1>3. DiskInv'
  BY DEF IInv, DiskInv, NeverTorn, HistoryHasNoGap, ReportedIsDurable, TypeOK
<1>4. MemoryInv'
  BY DEF IInv, MemoryInv, Loaded, End, ForgetProcess, TypeOK
<1>5. ClosingInv'
  BY DEF IInv, ClosingInv, End, ForgetProcess, TypeOK
<1> QED
  BY <1>1, <1>2, <1>3, <1>4, <1>5 DEF IInv

\* A step that only moves one process to another point, and its fsync mark.
LEMMA MoveKeeps ==
  ASSUME IInv, NEW p \in Proc, NEW to \in Point \ {"idle"},
         pc[p] # "idle",
         pc' = [pc EXCEPT ![p] = to],
         to \notin {"idle", "opened"} =>
           p \in Holding \/ \A q \in Holding : fd[q] # fd[p],
         p \in Loaded <=> to \in {"work", "write", "fsync", "rename", "fsync_dir"},
         to = "rename" => flushed'[p], to # "fsync_dir",
         flushed' \in [Proc -> BOOLEAN],
         \A q \in Proc \ {p} : flushed'[q] = flushed[q],
         closing[p] => to # "work",
         UNCHANGED <<lockfile, locals, fs, env>>
  PROVE  IInv'
<1>1. TypeOK'
  BY DEF IInv, TypeOK
<1>2. LockInv'
  <2>1. \A q \in Proc : pc'[q] # "idle" => fd'[q] = lockfile' /\ lockfile' # 0
    BY DEF IInv, LockInv, TypeOK
  <2>2. OneHolder'
    BY DEF IInv, LockInv, OneHolder, Holding, TypeOK
  <2> QED
    BY <2>1, <2>2 DEF LockInv
<1>3. DiskInv'
  BY DEF IInv, DiskInv, NeverTorn, HistoryHasNoGap, ReportedIsDurable, TypeOK
<1>4. MemoryInv'
  BY DEF IInv, MemoryInv, Loaded, TypeOK, Point
<1>5. ClosingInv'
  BY DEF IInv, ClosingInv, TypeOK
<1> QED
  BY <1>1, <1>2, <1>3, <1>4, <1>5 DEF IInv

\* Runner::start from a state that keeps what was reported, whatever the
\* load did to the directory.
LEMMA BeginKeeps ==
  ASSUME IInv, NEW p \in Proc, pc[p] = "locked", NEW s,
         Keeps(s, reported), s.kind = "state", Begin(p, s),
         dir' \in Directory, past' \subseteq Directory, DiskInv', dir'.state # Future
  PROVE  IInv'
<1> DEFINE t == OpenRun(Reconcile(s))
<1>1. Keeps(t, reported) /\ t.last # NoRun
  BY ReconcileKeeps, OpenKeeps DEF IInv, TypeOK
<1>2. /\ p \in Holding /\ p \notin Loaded
      /\ Loaded' = {p}
      /\ pc'[p] \in {"work", "write"}
      /\ mem' = [mem EXCEPT ![p] = t]
      /\ UNCHANGED <<lockfile, fd, dry, closing, flushed, reported, env>>
  BY DEF IInv, LockInv, OneHolder, Holding, Loaded, Begin, TypeOK
<1> HIDE DEF t
<1>3. TypeOK'
  BY <1>1, <1>2 DEF IInv, TypeOK, Begin, Keeps, Point
<1>4. LockInv'
  BY <1>2 DEF IInv, LockInv, OneHolder, Holding, Begin, TypeOK
<1>5. MemoryInv'
  <2>1. ~closing[p] /\ mem'[p] = t
    BY <1>2 DEF IInv, MemoryInv, TypeOK
  <2>2. \A q \in Proc : ~closing[q]
    BY <1>2, <2>1, LoadedHolds DEF IInv, MemoryInv, LockInv, OneHolder
  <2> QED
    BY <1>1, <1>2, <2>1, <2>2 DEF MemoryInv, Keeps
<1>6. ClosingInv'
  BY <1>2, LoadedHolds DEF IInv, ClosingInv, MemoryInv, LockInv, OneHolder, TypeOK
<1> QED
  BY <1>3, <1>4, <1>5, <1>6 DEF IInv

LEMMA LoadStep ==
  ASSUME IInv, NEW p \in Proc, Load(p)
  PROVE  IInv'
<1>1. /\ pc[p] = "locked" /\ UNCHANGED <<dir, past, reported, damage>>
      /\ dir.state.kind \in {"absent", "state"}
  BY DEF Load, Begin
<1>2. DiskInv' /\ dir' \in Directory /\ past' \subseteq Directory /\ dir'.state # Future
  BY <1>1 DEF IInv, TypeOK, DiskInv, NeverTorn, HistoryHasNoGap, ReportedIsDurable, Future
<1>3. CASE dir.state.kind = "absent"
  <2>1. Keeps(Fresh, reported) /\ Fresh.kind = "state"
    BY <1>3, FreshKeeps, UnreadableUnreported DEF Fresh
  <2> QED
    BY <1>1, <1>2, <1>3, <2>1, BeginKeeps DEF Load
<1>4. CASE dir.state.kind = "state"
  <2>1. Keeps(dir.state, reported)
    BY <1>4, DirKeeps
  <2> QED
    BY <1>1, <1>2, <1>4, <2>1, BeginKeeps DEF Load
<1> QED
  BY <1>1, <1>3, <1>4

\* Moving the damaged file aside adds a directory without a state file.
LEMMA QuarantineStep ==
  ASSUME IInv, NEW p \in Proc, Quarantine(p)
  PROVE  IInv'
<1>1. /\ pc[p] = "locked" /\ Begin(p, Fresh) /\ past' = past \union {dir'}
      /\ dir.state.kind = "garbage" /\ reported' = reported
  BY DEF Quarantine, Unusable, Begin
<1>2. reported = {}
  BY <1>1, UnreadableUnreported
<1>3. GarbageId(dir.state) \in 0..(MaxDamage + 1)
  <2>1. \E g \in 1..(MaxDamage + 1) : dir.state = Garbage(g)
    BY <1>1 DEF IInv, TypeOK, Directory, Content, StateFile, Absent, Future
  <2> QED
    BY <2>1 DEF GarbageId, Garbage
<1>4. PICK stamp \in Stamp :
        dir' = [state |-> Absent, synced |-> TRUE,
                kept |-> [dir.kept EXCEPT ![NameFor(stamp)] = GarbageId(dir.state)]]
  BY DEF Quarantine
<1>5. dir' \in Directory /\ dir'.state = Absent /\ dir'.synced
  <2>1. dir.kept \in [Stamp \X (0..MaxDamage) -> 0..(MaxDamage + 1)]
    BY DEF IInv, TypeOK, Directory
  <2>2. [dir.kept EXCEPT ![NameFor(stamp)] = GarbageId(dir.state)]
          \in [Stamp \X (0..MaxDamage) -> 0..(MaxDamage + 1)]
    BY <1>3, <2>1
  <2> QED
    BY <1>4, <2>2 DEF Directory, Content
<1>6. past' \subseteq Directory
  BY <1>1, <1>5 DEF IInv, TypeOK
<1>7. Absent # Torn /\ Absent # Future /\ Absent.kind = "absent"
  BY DEF Absent, Torn, Garbage, Future
<1>8. DiskInv'
  <2>1. \A d \in past : d.state # Future
    <3> SUFFICES ASSUME NEW d \in past, d.state = Future PROVE FALSE
      OBVIOUS
    <3>1. d = dir
      BY DEF IInv, DiskInv
    <3> QED
      BY <1>1, <3>1 DEF Future
  <2> QED
    BY <1>1, <1>2, <1>5, <1>7, <2>1
       DEF IInv, DiskInv, NeverTorn, HistoryHasNoGap, ReportedIsDurable
<1> QED
  BY <1>1, <1>2, <1>5, <1>6, <1>7, <1>8, BeginKeeps, FreshKeeps DEF Fresh

LEMMA LaunchStep ==
  ASSUME IInv, NEW p \in Proc, Launch(p)
  PROVE  IInv'
<1>1. PICK i \in Inode :
        /\ lockfile # 0 => i = lockfile
        /\ lockfile = 0 => \A q \in Proc : fd[q] # i
        /\ lockfile' = i
        /\ fd' = [fd EXCEPT ![p] = i]
  BY DEF Launch
<1>2. /\ pc[p] = "idle" /\ pc' = [pc EXCEPT ![p] = "opened"]
      /\ UNCHANGED <<closing, mem, flushed, fs, env>>
  BY DEF Launch
<1>3. dry' \in [Proc -> BOOLEAN]
  BY DEF Launch, IInv, TypeOK
<1>4. TypeOK'
  BY <1>1, <1>2, <1>3 DEF IInv, TypeOK, Point
<1>5. LockInv'
  <2>1. \A q \in Proc : pc'[q] # "idle" => fd'[q] = lockfile' /\ lockfile' # 0
    BY <1>1, <1>2 DEF IInv, LockInv, TypeOK
  <2>2. OneHolder'
    BY <1>2 DEF IInv, LockInv, OneHolder, Holding, TypeOK
  <2> QED
    BY <2>1, <2>2 DEF LockInv
<1>6. DiskInv'
  BY <1>2 DEF IInv, DiskInv, NeverTorn, HistoryHasNoGap, ReportedIsDurable
<1>7. MemoryInv'
  BY <1>2 DEF IInv, MemoryInv, Loaded, TypeOK
<1>8. ClosingInv'
  BY <1>2 DEF IInv, ClosingInv, TypeOK
<1> QED
  BY <1>4, <1>5, <1>6, <1>7, <1>8 DEF IInv

LEMMA WorkStep ==
  ASSUME IInv, NEW p \in Proc, Work(p)
  PROVE  IInv'
<1>1. PICK result \in [Task -> TaskOutcome] :
        mem' = [mem EXCEPT ![p] = CloseRun(mem[p], Aggregate(result))]
  BY DEF Work
<1> DEFINE t == CloseRun(mem[p], Aggregate(result))
<1>2. /\ pc[p] = "work" /\ pc' = [pc EXCEPT ![p] = "write"]
      /\ closing' = [closing EXCEPT ![p] = TRUE]
      /\ UNCHANGED <<lockfile, fd, dry, flushed, fs, env>>
  BY DEF Work
<1>3. p \in Loaded /\ p \in Holding /\ Loaded' = Loaded /\ Holding' = Holding
  BY <1>2 DEF Loaded, Holding, IInv, TypeOK
<1>4. CASE closing[p]
  \* finish() runs once: its save is not followed by more work.
  BY <1>2, <1>3, <1>4 DEF IInv, ClosingInv
<1>5. CASE ~closing[p]
  <2>1. mem[p].last # NoRun
    BY <1>3, <1>5 DEF IInv, MemoryInv
  <2>2. Keeps(t, reported) /\ t.last = NoRun /\ t.history # <<>>
    BY <1>3, <2>1, LoadedKeeps, AggregateType, CloseKeeps
  <2> HIDE DEF t
  <2>3. mem' = [mem EXCEPT ![p] = t]
    BY <1>1 DEF t
  <2>4. TypeOK'
    BY <1>2, <2>2, <2>3 DEF IInv, TypeOK, Keeps, Point
  <2>5. LockInv'
    BY <1>2, <1>3 DEF IInv, LockInv, OneHolder, TypeOK
  <2>6. DiskInv'
    BY <1>2 DEF IInv, DiskInv, NeverTorn, HistoryHasNoGap, ReportedIsDurable
  <2>7. MemoryInv'
    BY <1>2, <1>3, <2>2, <2>3 DEF IInv, MemoryInv, TypeOK, Keeps, Loaded
  <2>8. ClosingInv'
    BY <1>2 DEF IInv, ClosingInv, TypeOK
  <2> QED
    BY <2>4, <2>5, <2>6, <2>7, <2>8 DEF IInv
<1> QED
  BY <1>4, <1>5

\* The state of the run that holds the lock replaces the one on disk.
LEMMA RenameStep ==
  ASSUME IInv, NEW p \in Proc, Rename(p)
  PROVE  IInv'
<1>1. /\ pc[p] = "rename" /\ pc' = [pc EXCEPT ![p] = "fsync_dir"]
      /\ dir' = [dir EXCEPT !.state = mem[p], !.synced = flushed[p]]
      /\ past' = past \union {dir'}
      /\ UNCHANGED <<lockfile, locals, flushed, reported, env>>
  BY DEF Rename
<1>2. /\ p \in Loaded /\ p \in Holding /\ Loaded' = Loaded /\ Holding' = Holding
      /\ Loaded = {p}
  BY <1>1, LoadedHolds DEF Loaded, Holding, IInv, TypeOK, LockInv, OneHolder
<1>3. Keeps(mem[p], reported) /\ flushed[p] /\ dir.state # Future
  BY <1>1, <1>2, LoadedKeeps DEF IInv, MemoryInv
<1>4. dir' \in Directory /\ dir'.state = mem[p] /\ dir'.synced
  BY <1>1, <1>3 DEF IInv, TypeOK, Directory, Content, Keeps
<1>5. mem[p].kind = "state" /\ mem[p] # Torn /\ mem[p] # Future
  BY <1>3 DEF Keeps, StateFile, Torn, Garbage, Future
<1>6. TypeOK'
  BY <1>1, <1>4 DEF IInv, TypeOK, Point
<1>7. LockInv'
  BY <1>1, <1>2 DEF IInv, LockInv, OneHolder, TypeOK
<1>8. DiskInv'
  <2>1. \A d \in past : d.state # Future
    BY <1>3 DEF IInv, DiskInv
  <2> QED
    BY <1>1, <1>3, <1>4, <1>5, <2>1
       DEF IInv, DiskInv, NeverTorn, HistoryHasNoGap, ReportedIsDurable, Keeps
<1>9. MemoryInv'
  BY <1>1, <1>2, <1>3, <1>4, <1>5 DEF IInv, MemoryInv, TypeOK
<1>10. ClosingInv'
  BY <1>1 DEF IInv, ClosingInv, TypeOK
<1> QED
  BY <1>6, <1>7, <1>8, <1>9, <1>10 DEF IInv

\* After the fsync of the directory only one file may be found, and it
\* records the run whose end is now reported.
LEMMA SyncDirStep ==
  ASSUME IInv, NEW p \in Proc, SyncDir(p)
  PROVE  IInv'
<1>1. /\ pc[p] = "fsync_dir" /\ past' = {dir} /\ UNCHANGED <<dir, env>>
  BY DEF SyncDir, SyncedDirs
<1>2. p \in Loaded /\ p \in Holding /\ Loaded = {p}
  BY <1>1, LoadedHolds DEF Loaded, Holding, IInv, LockInv, OneHolder
<1>3. Keeps(mem[p], reported) /\ dir.state = mem[p] /\ dir.state # Future /\ dir \in past
  BY <1>1, <1>2, LoadedKeeps DEF IInv, MemoryInv, DiskInv
<1>4. dir.synced /\ dir.state # Torn /\ dir.state.kind = "state" /\ NoGap(dir.state)
  BY <1>3 DEF IInv, DiskInv, NeverTorn, Keeps, StateFile
<1>5. CASE closing[p]
  <2> DEFINE r == mem[p].history[1]
  <2>1. End({p}) /\ reported' = reported \union {r}
    BY <1>5 DEF SyncDir
  <2>2. mem[p].history # <<>> /\ mem[p].history \in Seq(Run)
    BY <1>2, <1>3, <1>5 DEF IInv, MemoryInv, Keeps, StateFile
  <2>3. r \in Run /\ 1 \in 1..Len(mem[p].history)
    BY <2>2
  <2>4. Records(mem[p], r)
    BY <2>3 DEF Records
  <2> HIDE DEF r
  <2>5. \A old \in reported' : Records(dir'.state, old)
    BY <1>1, <1>3, <2>1, <2>4 DEF Keeps
  <2>6. TypeOK'
    <3>1. Fresh \in StateFile
      BY FreshKeeps DEF Keeps
    <3>2. /\ pc' \in [Proc -> Point] /\ fd' \in [Proc -> Inode \union {0}]
          /\ dry' \in [Proc -> BOOLEAN] /\ closing' \in [Proc -> BOOLEAN]
          /\ flushed' \in [Proc -> BOOLEAN] /\ mem' \in [Proc -> StateFile]
          /\ lockfile' \in Inode \union {0}
      BY <2>1, <3>1 DEF IInv, TypeOK, End, ForgetProcess, Point
    <3> QED
      BY <1>1, <2>1, <2>3, <3>2 DEF IInv, TypeOK
  <2>7. LockInv'
    BY <2>1 DEF IInv, LockInv, OneHolder, Holding, End, ForgetProcess, TypeOK
  <2>8. DiskInv'
    BY <1>1, <1>3, <1>4, <2>5 DEF DiskInv, NeverTorn, HistoryHasNoGap, ReportedIsDurable
  <2>9. Loaded' = {}
    BY <1>2, <2>1 DEF Loaded, End, ForgetProcess
  <2>10. MemoryInv' /\ ClosingInv'
    BY <1>2, <2>1, <2>9 DEF IInv, MemoryInv, ClosingInv, End, ForgetProcess, TypeOK
  <2> QED
    BY <2>6, <2>7, <2>8, <2>10 DEF IInv
<1>6. CASE ~closing[p]
  <2>1. pc' = [pc EXCEPT ![p] = "work"] /\ UNCHANGED <<lockfile, locals, flushed, reported>>
    BY <1>6 DEF SyncDir
  <2>2. Loaded' = Loaded /\ Holding' = Holding
    BY <1>2, <2>1 DEF Loaded, Holding, IInv, TypeOK
  <2>3. TypeOK'
    BY <1>1, <2>1 DEF IInv, TypeOK, Point
  <2>4. LockInv'
    BY <2>1, <2>2, <1>2 DEF IInv, LockInv, OneHolder, TypeOK, Holding
  <2>5. DiskInv'
    BY <1>1, <1>3, <1>4, <2>1
       DEF DiskInv, NeverTorn, HistoryHasNoGap, ReportedIsDurable, Keeps
  <2>6. MemoryInv'
    BY <1>1, <1>2, <1>3, <2>1, <2>2 DEF IInv, MemoryInv, TypeOK
  <2>7. ClosingInv'
    BY <1>6, <2>1 DEF IInv, ClosingInv, TypeOK
  <2> QED
    BY <2>3, <2>4, <2>5, <2>6, <2>7 DEF IInv
<1> QED
  BY <1>5, <1>6

\* A power loss leaves one of the directories that may be found, whole.
LEMMA PowerLossStep ==
  ASSUME IInv, PowerLoss
  PROVE  IInv'
<1>1. PICK d \in past :
        dir' = [d EXCEPT !.state = IF d.synced THEN @ ELSE Torn, !.synced = TRUE]
  BY DEF PowerLoss
<1>2. past' = {dir'} /\ End(Proc) /\ reported' = reported /\ damage' = damage
      /\ faults' \in 0..MaxFaults
  BY DEF PowerLoss, IInv, TypeOK
<1>3. dir' \in Directory /\ dir'.state = d.state /\ dir'.synced
  BY <1>1 DEF IInv, TypeOK, DiskInv, Directory
<1>4. TypeOK'
  <2>1. Fresh \in StateFile
    BY FreshKeeps DEF Keeps
  <2>2. /\ pc' \in [Proc -> Point] /\ fd' \in [Proc -> Inode \union {0}]
        /\ dry' \in [Proc -> BOOLEAN] /\ closing' \in [Proc -> BOOLEAN]
        /\ flushed' \in [Proc -> BOOLEAN] /\ mem' \in [Proc -> StateFile]
        /\ lockfile' \in Inode \union {0}
    BY <1>2, <2>1 DEF IInv, TypeOK, End, ForgetProcess, Point
  <2> QED
    BY <1>2, <1>3, <2>2 DEF IInv, TypeOK
<1>5. DiskInv'
  BY <1>2, <1>3 DEF IInv, DiskInv, NeverTorn, HistoryHasNoGap, ReportedIsDurable
<1>6. LockInv' /\ MemoryInv' /\ ClosingInv'
  <2>1. \A q \in Proc : pc'[q] = "idle" /\ ~closing'[q]
    BY <1>2 DEF End, ForgetProcess
  <2> QED
    BY <2>1 DEF LockInv, OneHolder, Holding, MemoryInv, Loaded, ClosingInv
<1> QED
  BY <1>4, <1>5, <1>6 DEF IInv

\* Between runs something else writes the file: nothing is loaded then.
LEMMA OutsideStep ==
  ASSUME IInv, Damage \/ NewerBuild
  PROVE  IInv'
<1>1. /\ Holding = {} /\ past' = {dir'} /\ reported' = {}
      /\ UNCHANGED <<lockfile, pc, locals, flushed, faults>>
      /\ damage' \in 0..MaxDamage
  BY DEF Damage, NewerBuild, IInv, TypeOK
<1>2. dir' \in Directory /\ dir'.synced /\ dir'.state # Torn /\ dir'.state.kind # "state"
  <2>1. CASE Damage
    <3>1. /\ dir' = [dir EXCEPT !.state = Garbage(damage + 1)]
          /\ damage + 1 \in 1..MaxDamage
      BY <2>1 DEF Damage, IInv, TypeOK
    <3>2. Garbage(damage + 1) \in Content /\ Garbage(damage + 1) # Torn
          /\ Garbage(damage + 1).kind = "garbage"
      BY <3>1 DEF Content, Garbage, Torn
    <3> QED
      BY <3>1, <3>2 DEF IInv, TypeOK, DiskInv, Directory
  <2>2. CASE NewerBuild
    <3>1. dir' = [dir EXCEPT !.state = Future]
      BY <2>2 DEF NewerBuild
    <3>2. Future \in Content /\ Future # Torn /\ Future.kind = "future"
      BY DEF Content, Future, Garbage, Torn
    <3> QED
      BY <3>1, <3>2 DEF IInv, TypeOK, DiskInv, Directory
  <2> QED
    BY <2>1, <2>2
<1>3. Loaded' = {} /\ Loaded = {}
  BY <1>1, LoadedHolds DEF Loaded
<1>4. TypeOK'
  BY <1>1, <1>2 DEF IInv, TypeOK
<1>5. LockInv'
  BY <1>1 DEF IInv, LockInv, OneHolder, Holding
<1>6. DiskInv'
  BY <1>1, <1>2 DEF DiskInv, NeverTorn, HistoryHasNoGap, ReportedIsDurable
<1>7. MemoryInv' /\ ClosingInv'
  BY <1>1, <1>3 DEF IInv, MemoryInv, ClosingInv
<1> QED
  BY <1>4, <1>5, <1>6, <1>7 DEF IInv

LEMMA InitInv ==
  ASSUME Init
  PROVE  IInv
<1>1. dir = [state |-> Absent, synced |-> TRUE, kept |-> [n \in Stamp \X (0..MaxDamage) |-> 0]]
      /\ past = {dir} /\ reported = {} /\ damage = 0 /\ faults = 0 /\ lockfile = 0
      /\ \A p \in Proc : pc[p] = "idle" /\ ~closing[p]
  BY DEF Init
<1>2. dir \in Directory /\ dir.state = Absent /\ dir.synced
  BY <1>1 DEF Directory, Content
<1>3. Absent # Torn /\ Absent.kind = "absent"
  BY DEF Absent, Torn, Garbage
<1>4. TypeOK
  BY <1>1, <1>2, FreshKeeps DEF Init, TypeOK, Keeps, Point
<1>5. LockInv /\ MemoryInv /\ ClosingInv
  BY <1>1 DEF LockInv, OneHolder, Holding, MemoryInv, Loaded, ClosingInv
<1>6. DiskInv
  BY <1>1, <1>2, <1>3 DEF DiskInv, NeverTorn, HistoryHasNoGap, ReportedIsDurable
<1> QED
  BY <1>4, <1>5, <1>6 DEF IInv

LEMMA NextInv ==
  ASSUME IInv, [Next]_vars
  PROVE  IInv'
<1>1. ASSUME NEW p \in Proc, Step(p)
      PROVE  IInv'
  <2>1. CASE Launch(p)
    BY <2>1, LaunchStep
  <2>2. CASE TakeLock(p)
    BY <2>2, MoveKeeps DEF TakeLock, IInv, TypeOK, Point, Loaded, Holding, MemoryInv
  <2>3. CASE LockBusy(p)
    BY <2>3, EndKeeps DEF LockBusy, IInv, TypeOK
  <2>4. CASE Load(p)
    BY <2>4, LoadStep
  <2>5. CASE Quarantine(p)
    BY <2>5, QuarantineStep
  <2>6. CASE Refuse(p)
    BY <2>6, EndKeeps DEF Refuse, IInv, TypeOK
  <2>7. CASE Work(p)
    BY <2>7, WorkStep
  <2>8. CASE DryExit(p)
    BY <2>8, EndKeeps DEF DryExit, IInv, TypeOK
  <2>9. CASE WriteTmp(p)
    BY <2>9, MoveKeeps DEF WriteTmp, IInv, TypeOK, Point, Loaded, Holding
  <2>10. CASE SyncTmp(p)
    BY <2>10, MoveKeeps DEF SyncTmp, IInv, TypeOK, Point, Loaded, Holding
  <2>11. CASE Rename(p)
    BY <2>11, RenameStep
  <2>12. CASE SyncDir(p)
    BY <2>12, SyncDirStep
  <2>13. CASE FailIO(p)
    BY <2>13, EndKeeps DEF FailIO, IInv, TypeOK
  <2>14. CASE Kill(p)
    BY <2>14, EndKeeps DEF Kill, IInv, TypeOK
  <2> QED
    BY <1>1, <2>1, <2>2, <2>3, <2>4, <2>5, <2>6, <2>7, <2>8, <2>9, <2>10, <2>11, <2>12,
       <2>13, <2>14 DEF Step, Save
<1>2. CASE PowerLoss
  BY <1>2, PowerLossStep
<1>3. CASE Damage \/ NewerBuild
  BY <1>3, OutsideStep
<1>4. CASE UNCHANGED vars
  BY <1>4 DEF vars, IInv, TypeOK, LockInv, OneHolder, Holding, DiskInv, NeverTorn,
       HistoryHasNoGap, ReportedIsDurable, MemoryInv, Loaded, ClosingInv
<1> QED
  BY <1>1, <1>2, <1>3, <1>4 DEF Next

-----------------------------------------------------------------------------
(* Theorems.                                                               *)

\* The inductive invariant holds for every number of processes, whatever the
\* bounds on the history, on the runs and on the faults.
THEOREM InductiveInvariant == Spec => []IInv
<1>1. Init => IInv
  BY InitInv
<1>2. IInv /\ [Next]_vars => IInv'
  BY NextInv
<1> QED
  BY <1>1, <1>2, PTL DEF Spec

\* The variables of hermes-maint keep their types, and a history holds ended
\* runs only.
THEOREM TypeCorrect == Spec => []TypeOK
<1>1. IInv => TypeOK
  BY DEF IInv
<1> QED
  BY <1>1, InductiveInvariant, PTL

\* Two invocations of hermes-maint never run at once (lock.rs).
THEOREM MutualExclusion == Spec => []OneHolder
<1>1. IInv => OneHolder
  BY DEF IInv, LockInv
<1> QED
  BY <1>1, InductiveInvariant, PTL

\* A kill or a power loss at any point leaves a whole state file (state.rs
\* save).
THEOREM SavesAreAtomic == Spec => []NeverTorn
<1>1. IInv => NeverTorn
  BY DEF IInv, DiskInv
<1> QED
  BY <1>1, InductiveInvariant, PTL

\* Every state file that may be found records each of the latest runs
\* (state.rs reconcile, push_history).
THEOREM NoRunIsMissing == Spec => []HistoryHasNoGap
<1>1. IInv => HistoryHasNoGap
  BY DEF IInv, DiskInv
<1> QED
  BY <1>1, InductiveInvariant, PTL

\* The two together: every state file that may be found is whole and misses no
\* run (state.rs save, reconcile).
THEOREM StatesAreSound == Spec => []StateIsSound
<1>1. NeverTorn /\ HistoryHasNoGap => StateIsSound
  BY DEF StateIsSound
<1> QED
  BY <1>1, SavesAreAtomic, NoRunIsMissing, PTL

\* What an exit code said of a run is on disk whatever happens afterwards
\* (run.rs finish).
THEOREM ReportsAreDurable == Spec => []ReportedIsDurable
<1>1. IInv => ReportedIsDurable
  BY DEF IInv, DiskInv
<1> QED
  BY <1>1, InductiveInvariant, PTL

\* No step, not even a power loss, takes the file of a newer build away
\* (state.rs load).
THEOREM NewerStays == Spec => NewerIsLeftAlone
<1>1. ASSUME IInv, [Next]_vars
      PROVE  [dir.state = Future => dir'.state = Future]_vars
  <2> SUFFICES ASSUME dir.state = Future, Next
               PROVE  dir'.state = Future
    BY <1>1
  <2>1. past = {dir} /\ Loaded = {} /\ dir.synced
    BY <1>1 DEF IInv, DiskInv, MemoryInv
  <2>2. dir.state.kind = "future"
    BY DEF Future
  <2>3. ASSUME NEW p \in Proc, Step(p)
        PROVE  dir' = dir
    <3>1. ~Load(p) /\ ~Quarantine(p)
      BY <2>2 DEF Load, Quarantine, Unusable
    <3>2. ~Rename(p)
      BY <2>1 DEF Rename, Loaded
    <3> QED
      BY <2>3, <3>1, <3>2 DEF Step, Save, Launch, TakeLock, LockBusy, Refuse, Work, DryExit,
           WriteTmp, SyncTmp, SyncDir, FailIO, Kill
  <2>4. CASE PowerLoss
    BY <1>1, <2>1, <2>4 DEF PowerLoss, IInv, TypeOK, Directory
  <2>5. ~Damage /\ ~NewerBuild
    BY <2>2 DEF Damage, NewerBuild
  <2> QED
    BY <2>3, <2>4, <2>5 DEF Next
<1> QED
  BY <1>1, InductiveInvariant, PTL DEF Spec, NewerIsLeftAlone
----------------------------------------------------------------
-----------------------------------------------------------------------------
(* The damaged files.                                                      *)

\* What is true of a directory that may be found: the files kept are distinct
\* ones of the damaged so far, and the one in the place of the state file is not
\* among them.
KeptOnce(d) ==
  /\ \A n \in DOMAIN d.kept : d.kept[n] <= damage
  /\ \A m, n \in DOMAIN d.kept : d.kept[m] # 0 /\ d.kept[m] = d.kept[n] => m = n
  /\ \A g \in 1..(MaxDamage + 1) : d.state = Garbage(g) =>
       g <= damage /\ \A n \in DOMAIN d.kept : d.kept[n] # g

\* Each damaged file is in the place of the state file or kept.
KeptAll(d) ==
  \A g \in 1..damage : d.state = Garbage(g) \/ \E n \in DOMAIN d.kept : d.kept[n] = g

DamageInv ==
  /\ \A d \in past : KeptOnce(d) /\ KeptAll(d)
  /\ \A p \in Loaded : dir.state.kind # "garbage"

\* The names of one second outnumber the files that were ever damaged, so one of
\* them is free.
LEMMA SomeNameIsFree ==
  ASSUME IInv, DamageInv, NEW stamp \in Stamp
  PROVE  \E n \in 0..MaxDamage : dir.kept[<<stamp, n>>] = 0
<1> SUFFICES ASSUME \A n \in 0..MaxDamage : dir.kept[<<stamp, n>>] # 0
             PROVE  FALSE
  OBVIOUS
<1> DEFINE f == [n \in 0..MaxDamage |-> dir.kept[<<stamp, n>>]]
<1>1. /\ dir \in past /\ damage \in 0..MaxDamage /\ MaxDamage \in Nat
      /\ dir.kept \in [Stamp \X (0..MaxDamage) -> 0..(MaxDamage + 1)]
  BY DEF IInv, DiskInv, TypeOK, Directory
<1>2. KeptOnce(dir)
  BY <1>1 DEF DamageInv
<1>3. ASSUME NEW n \in 0..MaxDamage
      PROVE  dir.kept[<<stamp, n>>] \in 1..MaxDamage
  <2>1. <<stamp, n>> \in DOMAIN dir.kept
    BY <1>1
  <2>2. dir.kept[<<stamp, n>>] \in 0..(MaxDamage + 1) /\ dir.kept[<<stamp, n>>] <= damage
    BY <1>1, <1>2, <2>1 DEF KeptOnce
  <2> QED
    BY <1>1, <2>2
<1>4. f \in [0..MaxDamage -> 1..MaxDamage]
  BY <1>3
<1>5. /\ IsFiniteSet(0..MaxDamage) /\ Cardinality(0..MaxDamage) = MaxDamage + 1
      /\ IsFiniteSet(1..MaxDamage) /\ Cardinality(1..MaxDamage) = MaxDamage
  BY <1>1, FS_Interval
<1>6. Cardinality(1..MaxDamage) < Cardinality(0..MaxDamage)
  BY <1>1, <1>5
<1>7. \E m, n \in 0..MaxDamage : m # n /\ f[m] = f[n]
  <2> DEFINE A == 0..MaxDamage
             B == 1..MaxDamage
  <2>1. f \in [A -> B] /\ IsFiniteSet(A) /\ IsFiniteSet(B) /\ Cardinality(B) < Cardinality(A)
    BY <1>4, <1>5, <1>6
  <2> HIDE DEF f, A, B
  <2>2. \E m, n \in A : m # n /\ f[m] = f[n]
    BY <2>1, FS_PigeonHole
  <2> QED
    BY <2>2 DEF A
<1>8. PICK m \in 0..MaxDamage, n \in 0..MaxDamage : m # n /\ f[m] = f[n]
  BY <1>7
<1>9. /\ <<stamp, m>> \in DOMAIN dir.kept /\ <<stamp, n>> \in DOMAIN dir.kept
      /\ dir.kept[<<stamp, m>>] = dir.kept[<<stamp, n>>]
  BY <1>1, <1>8
<1>10. <<stamp, m>> = <<stamp, n>>
  BY <1>2, <1>9 DEF KeptOnce
<1> QED
  BY <1>8, <1>10

\* The name quarantine() picks is one nobody uses.
LEMMA NameIsFree ==
  ASSUME IInv, DamageInv, NEW stamp \in Stamp
  PROVE  NameFor(stamp) \in Stamp \X (0..MaxDamage) /\ dir.kept[NameFor(stamp)] = 0
<1> DEFINE free == {n \in 0..MaxDamage : dir.kept[<<stamp, n>>] = 0}
           First(n) == dir.kept[<<stamp, n>>] = 0
                       /\ \A m \in 0..(n - 1) : dir.kept[<<stamp, m>>] # 0
<1>1. free \subseteq Nat /\ free # {} /\ MaxDamage \in Nat
  BY SomeNameIsFree
<1>2. PICK n \in free : \A m \in free : ~(<<m, n>> \in OpToRel(<, Nat))
  BY <1>1, WFMin, NatLessThanWellFounded
<1>3. n \in 0..MaxDamage /\ dir.kept[<<stamp, n>>] = 0
  OBVIOUS
<1>4. First(n)
  <2>1. ASSUME NEW m \in 0..(n - 1)
        PROVE  dir.kept[<<stamp, m>>] # 0
    <3>1. m \in Nat /\ n \in Nat /\ m < n /\ m \in 0..MaxDamage
      BY <1>1, <1>3, <2>1
    <3>2. <<m, n>> \in OpToRel(<, Nat)
      BY <3>1 DEF OpToRel
    <3>3. m \notin free
      BY <1>2, <3>2
    <3> QED
      BY <3>1, <3>3
  <2> QED
    BY <1>3, <2>1
<1> DEFINE c == CHOOSE k \in 0..MaxDamage : First(k)
<1>5. c \in 0..MaxDamage /\ First(c)
  <2> HIDE DEF First
  <2> QED
    BY <1>3, <1>4
<1>6. NameFor(stamp) = <<stamp, c>>
  BY DEF NameFor
<1> HIDE DEF c
<1> QED
  BY <1>5, <1>6

\* A damaged file that is moved aside is still one of the directory.
LEMMA QuarantineKeeps ==
  ASSUME IInv, DamageInv, NEW p \in Proc, Quarantine(p)
  PROVE  KeptOnce(dir)' /\ KeptAll(dir)'
<1>1. dir \in past /\ dir.kept \in [Stamp \X (0..MaxDamage) -> 0..(MaxDamage + 1)]
      /\ damage \in 0..MaxDamage /\ MaxDamage \in Nat /\ damage' = damage
  BY DEF IInv, DiskInv, TypeOK, Directory, Quarantine, Begin
<1>2. KeptOnce(dir) /\ KeptAll(dir)
  BY <1>1 DEF DamageInv
<1>3. PICK g \in 1..(MaxDamage + 1) : dir.state = Garbage(g)
  BY DEF Quarantine, Unusable, IInv, TypeOK, Directory, Content, StateFile, Absent, Future
<1>4. g \in 1..damage /\ GarbageId(dir.state) = g
      /\ \A n \in DOMAIN dir.kept : dir.kept[n] # g
  BY <1>1, <1>2, <1>3 DEF KeptOnce, GarbageId, Garbage
<1>5. PICK stamp \in Stamp :
        dir' = [state |-> Absent, synced |-> TRUE,
                kept |-> [dir.kept EXCEPT ![NameFor(stamp)] = GarbageId(dir.state)]]
  BY DEF Quarantine
<1> DEFINE name == NameFor(stamp)
<1>6. name \in DOMAIN dir.kept /\ dir.kept[name] = 0
  BY <1>1, NameIsFree
<1> HIDE DEF name
<1>7. dir'.state = Absent /\ dir'.kept = [dir.kept EXCEPT ![name] = g]
  BY <1>4, <1>5 DEF name
<1>8. \A other \in 1..(MaxDamage + 1) : Absent # Garbage(other)
  BY DEF Absent, Garbage
<1>9. /\ DOMAIN dir'.kept = DOMAIN dir.kept /\ dir'.kept[name] = g
      /\ \A n \in DOMAIN dir.kept : n # name => dir'.kept[n] = dir.kept[n]
  BY <1>6, <1>7
<1>10. KeptOnce(dir)'
  <2>1. \A n \in DOMAIN dir'.kept : dir'.kept[n] <= damage'
    BY <1>1, <1>2, <1>4, <1>9 DEF KeptOnce
  <2>2. \A m, n \in DOMAIN dir'.kept : dir'.kept[m] # 0 /\ dir'.kept[m] = dir'.kept[n] => m = n
    BY <1>2, <1>4, <1>9 DEF KeptOnce
  <2> QED
    BY <1>7, <1>8, <2>1, <2>2 DEF KeptOnce
<1>11. KeptAll(dir)'
  <2> SUFFICES ASSUME NEW old \in 1..damage
               PROVE  \E n \in DOMAIN dir'.kept : dir'.kept[n] = old
    BY <1>1 DEF KeptAll
  <2>1. CASE old = g
    BY <1>6, <1>9, <2>1
  <2>2. CASE old # g
    <3>1. dir.state # Garbage(old)
      BY <1>3, <2>2 DEF Garbage
    <3>2. PICK n \in DOMAIN dir.kept : dir.kept[n] = old
      BY <1>2, <3>1 DEF KeptAll
    <3>3. n # name
      BY <1>1, <1>6, <3>2
    <3> QED
      BY <1>9, <3>2, <3>3
  <2> QED
    BY <2>1, <2>2
<1> QED
  BY <1>10, <1>11

\* The save of a state replaces no damaged file.
LEMMA RenameSpares ==
  ASSUME IInv, DamageInv, NEW p \in Proc, Rename(p)
  PROVE  KeptOnce(dir)' /\ KeptAll(dir)'
<1>1. dir'.state = mem[p] /\ dir'.kept = dir.kept /\ damage' = damage
  BY DEF IInv, TypeOK, Directory, Rename
<1>2. p \in Loaded
  BY DEF Rename, Loaded
<1>3. dir \in past /\ dir.state.kind # "garbage" /\ mem[p].kind = "state"
  BY <1>2 DEF IInv, DiskInv, TypeOK, DamageInv, StateFile
<1>4. \A g \in 1..(MaxDamage + 1) : dir.state # Garbage(g) /\ mem[p] # Garbage(g)
  BY <1>3 DEF Garbage
<1>5. KeptOnce(dir) /\ KeptAll(dir) /\ damage \in 0..MaxDamage /\ MaxDamage \in Nat
  BY <1>3 DEF DamageInv, IInv, TypeOK
<1>6. KeptOnce(dir)'
  BY <1>1, <1>4, <1>5 DEF KeptOnce
<1>7. KeptAll(dir)'
  BY <1>1, <1>4, <1>5 DEF KeptAll
<1> QED
  BY <1>6, <1>7

\* What damages the state file adds to the damaged ones, all others being kept.
LEMMA OutsideKeeps ==
  ASSUME IInv, DamageInv, Damage \/ NewerBuild
  PROVE  KeptOnce(dir)' /\ KeptAll(dir)'
<1>1. /\ dir \in past /\ dir'.kept = dir.kept /\ dir.state.kind # "garbage"
      /\ damage \in 0..MaxDamage /\ MaxDamage \in Nat
      /\ dir.kept \in [Stamp \X (0..MaxDamage) -> 0..(MaxDamage + 1)]
  BY DEF Damage, NewerBuild, IInv, DiskInv, TypeOK, Directory
<1>2. KeptOnce(dir) /\ KeptAll(dir)
  BY <1>1 DEF DamageInv
<1>3. \A g \in 1..damage : \E n \in DOMAIN dir.kept : dir.kept[n] = g
  <2>1. \A g : dir.state # Garbage(g)
    BY <1>1 DEF Garbage
  <2> QED
    BY <1>2, <2>1 DEF KeptAll
<1>4. CASE Damage
  <2>1. damage' = damage + 1 /\ dir'.state = Garbage(damage + 1)
    BY <1>4 DEF Damage, IInv, TypeOK, Directory
  <2>2. \A n \in DOMAIN dir.kept : dir.kept[n] <= damage /\ dir.kept[n] \in Nat
    BY <1>1, <1>2 DEF KeptOnce
  <2>3. \A g : dir'.state = Garbage(g) => g = damage + 1
    BY <2>1 DEF Garbage
  <2>4. KeptOnce(dir)'
    BY <1>1, <1>2, <2>1, <2>2, <2>3 DEF KeptOnce
  <2>5. KeptAll(dir)'
    BY <1>1, <1>3, <2>1 DEF KeptAll
  <2> QED
    BY <2>4, <2>5
<1>5. CASE NewerBuild
  <2>1. damage' = damage /\ dir'.state = Future
    BY <1>5 DEF NewerBuild, IInv, TypeOK, Directory
  <2>2. \A g : Future # Garbage(g)
    BY DEF Future, Garbage
  <2>3. KeptOnce(dir)'
    BY <1>1, <1>2, <2>1, <2>2 DEF KeptOnce
  <2>4. KeptAll(dir)'
    BY <1>1, <1>3, <2>1 DEF KeptAll
  <2> QED
    BY <2>3, <2>4
<1> QED
  BY <1>4, <1>5

\* Each step keeps every damaged file in every directory that may be found.
LEMMA PastKeeps ==
  ASSUME IInv, DamageInv, [Next]_vars
  PROVE  \A d \in past' : KeptOnce(d)' /\ KeptAll(d)'
<1>0. dir \in past /\ \A d \in past : KeptOnce(d) /\ KeptAll(d)
  BY DEF IInv, DiskInv, DamageInv
<1>1. ASSUME past' \subseteq past, damage' = damage
      PROVE  \A d \in past' : KeptOnce(d)' /\ KeptAll(d)'
  BY <1>0, <1>1 DEF KeptOnce, KeptAll
<1>2. ASSUME past' \subseteq past \union {dir'}, damage' = damage, KeptOnce(dir)', KeptAll(dir)'
      PROVE  \A d \in past' : KeptOnce(d)' /\ KeptAll(d)'
  BY <1>0, <1>2 DEF KeptOnce, KeptAll
<1>3. ASSUME NEW p \in Proc, Step(p)
      PROVE  \A d \in past' : KeptOnce(d)' /\ KeptAll(d)'
  <2>1. CASE Quarantine(p)
    BY <1>2, <2>1, QuarantineKeeps DEF Quarantine, Begin
  <2>2. CASE Rename(p)
    BY <1>2, <2>2, RenameSpares DEF Rename
  <2>3. CASE SyncDir(p)
    BY <1>0, <1>1, <2>3 DEF SyncDir, SyncedDirs
  <2>4. CASE ~(Quarantine(p) \/ Rename(p) \/ SyncDir(p))
    BY <1>1, <1>3, <2>4 DEF Step, Save, Launch, TakeLock, LockBusy, Load, Begin, Refuse, Work,
         DryExit, WriteTmp, SyncTmp, FailIO, Kill
  <2> QED
    BY <2>1, <2>2, <2>3, <2>4
<1>4. CASE PowerLoss
  <2>1. PICK d \in past :
          dir' = [d EXCEPT !.state = IF d.synced THEN @ ELSE Torn, !.synced = TRUE]
    BY <1>4 DEF PowerLoss
  <2>2. d.synced /\ dir'.state = d.state /\ dir'.kept = d.kept
    BY <2>1 DEF IInv, DiskInv, TypeOK, Directory
  <2>3. past' = {dir'} /\ damage' = damage
    BY <1>4 DEF PowerLoss
  <2> QED
    BY <1>0, <2>2, <2>3 DEF KeptOnce, KeptAll
<1>5. CASE Damage \/ NewerBuild
  <2>1. past' = {dir'}
    BY <1>5 DEF Damage, NewerBuild
  <2> QED
    BY <1>5, <2>1, OutsideKeeps DEF KeptOnce, KeptAll
<1>6. CASE UNCHANGED vars
  BY <1>1, <1>6 DEF vars
<1> QED
  BY <1>3, <1>4, <1>5, <1>6 DEF Next

\* Whoever has loaded a state holds the lock, and the file it found damaged is
\* no longer in place.
LEMMA LoadedIsWhole ==
  ASSUME IInv, DamageInv, [Next]_vars, NEW p \in Loaded'
  PROVE  dir'.state.kind # "garbage"
<1>1. ASSUME NEW q \in Proc, Step(q)
      PROVE  dir'.state.kind # "garbage"
  <2>1. CASE Load(q)
    BY <2>1 DEF Load
  <2>2. CASE Quarantine(q)
    BY <2>2 DEF Quarantine, Absent
  <2>3. CASE Rename(q)
    BY <2>3 DEF Rename, IInv, TypeOK, Directory, StateFile
  <2>4. CASE ~(Load(q) \/ Quarantine(q) \/ Rename(q))
    <3>1. dir' = dir /\ Loaded' \subseteq Loaded
      BY <1>1, <2>4 DEF Step, Save, Launch, TakeLock, LockBusy, Refuse, Work, DryExit, WriteTmp,
           SyncTmp, SyncDir, FailIO, Kill, End, ForgetProcess, Loaded, IInv, TypeOK
    <3> QED
      BY <3>1 DEF DamageInv
  <2> QED
    BY <2>1, <2>2, <2>3, <2>4
<1>2. ~PowerLoss
  BY DEF PowerLoss, End, ForgetProcess, Loaded
<1>3. ~Damage /\ ~NewerBuild
  BY LoadedHolds DEF Damage, NewerBuild, Loaded
<1>4. CASE UNCHANGED vars
  BY <1>4 DEF vars, DamageInv, Loaded
<1> QED
  BY <1>1, <1>2, <1>3, <1>4 DEF Next

\* A state file found damaged is never lost: whatever kill or power loss
\* follows, it is still in its place or kept under a name of its own (state.rs
\* quarantine).
THEOREM DamagedFilesAreKept == Spec => []DamageIsKept
<1>1. Init => DamageInv
  <2> SUFFICES ASSUME Init PROVE DamageInv
    OBVIOUS
  <2>1. /\ past = {dir} /\ damage = 0 /\ dir.state = Absent
        /\ dir.kept = [n \in Stamp \X (0..MaxDamage) |-> 0]
        /\ Loaded = {}
    BY DEF Init, Loaded
  <2>2. \A g : Absent # Garbage(g)
    BY DEF Absent, Garbage
  <2> QED
    BY <2>1, <2>2 DEF DamageInv, KeptOnce, KeptAll
<1>2. IInv /\ DamageInv /\ [Next]_vars => DamageInv'
  <2> SUFFICES ASSUME IInv, DamageInv, [Next]_vars PROVE DamageInv'
    OBVIOUS
  <2>1. \A p \in Loaded' : dir'.state.kind # "garbage"
    BY LoadedIsWhole
  <2> QED
    BY <2>1, PastKeeps DEF DamageInv
<1>3. DamageInv => DamageIsKept
  BY DEF DamageInv, DamageIsKept, KeptAll
<1> QED
  BY <1>1, <1>2, <1>3, InductiveInvariant, PTL DEF Spec
=============================================================================
