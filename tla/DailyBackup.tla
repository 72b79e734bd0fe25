---------------------------- MODULE DailyBackup -----------------------------
(***************************************************************************)
(* One backup A (backup.py, run_backup_a): the script copies a home that   *)
(* goes on working, says what it thinks of the result, and verify.py       *)
(* judges it again, by restoring it.  Both must agree.                     *)
(*                                                                         *)
(* A database is the version it was last committed at and the version that *)
(* is in its main file; they differ while its WAL holds something.  What   *)
(* else a backup carries is sound or is a member of `flaws`.               *)
(***************************************************************************)
EXTENDS Integers

CONSTANTS
  Live,      \* databases the script declares (DBS), all named *.db
  Cold,      \* databases declared archived: they travel in the tar
  Strange,   \* databases nobody declared
  Suffixed,  \* databases named *.db, which the tar leaves out
  MaxCommits \* bound: commits to each database

Db == Live \union Cold \union Strange

ASSUME DailyBackupAssumption ==
  /\ Live \subseteq Suffixed /\ Suffixed \subseteq Db
  /\ Live \intersect Cold = {} /\ (Live \union Cold) \intersect Strange = {}
  /\ MaxCommits \in Nat

VARIABLES
  exists,    \* databases of the home
  data,      \* last committed version
  main,      \* version in the main file
  step,      \* where run_backup_a is
  begun,     \* the home when the script began
  copies,    \* db-consistent/: version of each copy
  packed,    \* the tar: version of each database in it
  dbOk,      \* db_ok of the script
  flaws,     \* what is wrong with the rest of the backup
  claim,     \* backup_verified of state.json
  verdict    \* of the BackupResult

home == <<exists, data, main>>
made == <<begun, copies, packed, dbOk, flaws, claim>>
backupVars == <<home, step, made, verdict>>

Absent == -1

\* The parts of a backup besides its databases.
Host   == {"unit", "bundle", "heads", "bundle verify", "freeze", "wheels", "crontab"}
Flaws  == {"no manifest", "manifest", "unlisted", "archives", "unreadable", "member", "roots",
           "content", "permissions", "critical"} \union Host

\* Those that are sure to keep the script from its claim.
SeenByScript == {"unreadable", "content", "permissions", "unit", "freeze", "wheels"}

BackupInit ==
  /\ exists = Live \union Cold
  /\ data = [d \in Db |-> 0] /\ main = [d \in Db |-> 0]
  /\ step = "idle" /\ begun = [d \in Db |-> Absent]
  /\ copies = [d \in Db |-> Absent] /\ packed = [d \in Db |-> Absent]
  /\ dbOk = TRUE /\ flaws = {} /\ claim = "none" /\ verdict = "none"

Wal(d) == data[d] > main[d]

-----------------------------------------------------------------------------
(* The home, which never waits.                                            *)
Commit(d) ==
  /\ d \in exists /\ data[d] < MaxCommits
  /\ data' = [data EXCEPT ![d] = @ + 1]
  /\ UNCHANGED <<exists, main, step, made, verdict>>

\* The main file matters only where the tar takes it.
Checkpoint(d) ==
  /\ d \in exists \ Suffixed /\ Wal(d)
  /\ main' = [main EXCEPT ![d] = data[d]]
  /\ UNCHANGED <<exists, data, step, made, verdict>>

Appear(d) ==
  /\ d \in Strange \ exists
  /\ exists' = exists \union {d}
  /\ UNCHANGED <<data, main, step, made, verdict>>

\* A version never comes again, not even in a new file of the same name.
Vanish(d) ==
  /\ d \in exists
  /\ exists' = exists \ {d}
  /\ main' = IF d \in Suffixed THEN main ELSE [main EXCEPT ![d] = data[d]]
  /\ UNCHANGED <<data, step, made, verdict>>

-----------------------------------------------------------------------------
(* The script.                                                             *)
BeginScript ==
  /\ step = "idle" /\ step' = "copy"
  /\ begun' = [d \in Db |-> IF d \in exists THEN data[d] ELSE Absent]
  /\ UNCHANGED <<home, copies, packed, dbOk, flaws, claim, verdict>>

\* Connection.backup() of each declared database: what is committed.
CopyDatabases ==
  /\ step = "copy" /\ step' = "inventory"
  /\ copies' = [d \in Db |-> IF d \in Live \intersect exists THEN data[d] ELSE Absent]
  /\ dbOk' = (Live \subseteq exists)
  /\ UNCHANGED <<home, begun, packed, flaws, claim, verdict>>

\* Every database that is found is declared, and no archived one has a writer.
Inventory ==
  /\ step = "inventory" /\ step' = "pack"
  /\ dbOk' = (/\ dbOk /\ exists \intersect Strange = {} /\ Cold \subseteq exists
              /\ \A d \in Cold : ~Wal(d))
  /\ UNCHANGED <<home, begun, copies, packed, flaws, claim, verdict>>

\* tar takes the main file of what is not named *.db.
Pack ==
  /\ step = "pack" /\ step' = "state"
  /\ packed' = [d \in Db |-> IF d \in exists \ Suffixed THEN main[d] ELSE Absent]
  /\ UNCHANGED <<home, begun, copies, dbOk, flaws, claim, verdict>>

\* state.json, derived from what was checked; any other part may have gone
\* wrong, one at a time.
WriteState ==
  /\ step = "state" /\ step' = "verify"
  /\ flaws' \in {{}} \union {{f} : f \in Flaws}
  /\ claim' = IF dbOk /\ flaws' \intersect SeenByScript = {} THEN "yes" ELSE "no"
  /\ UNCHANGED <<home, begun, copies, packed, dbOk, verdict>>

\* backup_timeout_s: there is no state.json, and a manifest only after the tar.
ScriptTimesOut ==
  /\ step \in {"copy", "inventory", "pack", "state"} /\ step' = "verify"
  /\ flaws' \in {{"no manifest"}} \union (IF step = "state" THEN {{}} ELSE {})
  /\ UNCHANGED <<home, begun, copies, packed, dbOk, claim, verdict>>

-----------------------------------------------------------------------------
(* verify_backup: each check that was made, as its name and whether it     *)
(* passed.  A missing manifest, archive or root ends the verification.     *)
Found   == exists
Copied  == {d \in Found : copies[d] # Absent}
InTar   == {d \in Found \ Copied : packed[d] # Absent}
Missing == Found \ (Copied \union InTar)

HotCold == {d \in InTar : Wal(d)}

Manifest == "manifest" \notin flaws /\ "unlisted" \notin flaws
Archive  == flaws \intersect {"member", "roots"} = {}

DbInventory == Missing = {} /\ HotCold = {}

\* Some database was restored; sqlite finds each of them sound, a file copied
\* in one piece.
RestoreDatabases == \E d \in Db : copies[d] # Absent \/ d \in InTar

RestoreContent == "content" \notin flaws
RestorePermissions == "permissions" \notin flaws
RestoreCritical == "critical" \notin flaws
HostState == flaws \intersect Host = {}

Report ==
  IF "no manifest" \in flaws THEN {<<"manifest", FALSE>>}
  ELSE IF flaws \intersect {"archives", "unreadable"} # {}
    THEN {<<"manifest", Manifest>>, <<"archive", FALSE>>}
  ELSE {<<"manifest", Manifest>>, <<"archive", Archive>>, <<"db_inventory", DbInventory>>}
       \union IF "roots" \in flaws THEN {<<"restore", FALSE>>}
              ELSE {<<"restore_databases", RestoreDatabases>>, <<"restore_content", RestoreContent>>,
                    <<"restore_permissions", RestorePermissions>>, <<"host_state", HostState>>,
                    <<"restore_critical_paths", RestoreCritical>>}

\* An exception in the restoration is a failed check; worst() of the rest.
Verified == Report # {} /\ \A check \in Report : check[2]

\* Mutant of Judge: the independent verification is enough.
JudgeAlone ==
  /\ step = "verify" /\ step' = "done"
  /\ verdict' = IF Verified THEN "PASS" ELSE "FAIL"
  /\ UNCHANGED <<home, made>>

\* Both say yes; the end status of the script is its claim.
Judge ==
  /\ step = "verify" /\ step' = "done"
  /\ verdict' = IF claim = "yes" /\ Verified THEN "PASS" ELSE "FAIL"
  /\ UNCHANGED <<home, made>>

\* The verification looks at the home once.
HomeWorks == \E d \in Db : Commit(d) \/ Checkpoint(d) \/ Appear(d) \/ Vanish(d)

BackupNext ==
  \/ step \notin {"verify", "done"} /\ HomeWorks
  \/ BeginScript \/ CopyDatabases \/ Inventory \/ Pack \/ WriteState \/ ScriptTimesOut \/ Judge

BackupSpec == BackupInit /\ [][BackupNext]_backupVars

-----------------------------------------------------------------------------
(* Properties.                                                             *)
BackupTypeOK ==
  /\ exists \subseteq Db /\ data \in [Db -> Nat] /\ main \in [Db -> Nat]
  /\ step \in {"idle", "copy", "inventory", "pack", "state", "verify", "done"}
  /\ \A f \in {begun, copies, packed} : f \in [Db -> Nat \union {Absent}]
  /\ dbOk \in BOOLEAN /\ flaws \subseteq Flaws
  /\ claim \in {"none", "yes", "no"} /\ verdict \in {"none", "PASS", "FAIL"}

\* What one gets by RESTORE.md: the tar, and over it the copies.
Restored(d) == IF copies[d] # Absent THEN copies[d] ELSE packed[d]

\* A backup that passed gives back every database of the home, none older than
\* when the backup began, and everything else (backup.py:102, verify.py:9-27).
\* Neither the script nor the verification alone would: each looks at the
\* writers of an archived database at one moment.
PassMeansRestorable ==
  verdict = "PASS" =>
    /\ flaws = {}
    /\ \A d \in exists : Restored(d) # Absent /\ Restored(d) >= begun[d]
=============================================================================
