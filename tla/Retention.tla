----------------------------- MODULE Retention ------------------------------
(***************************************************************************)
(* The directory of daily backups over several nights: the updater makes   *)
(* one, adopts the newest directory it had not seen before, judges it,     *)
(* owns it and prunes (backup.py, machine.py); a person may run the same   *)
(* script at any time.  Directories are named by the second in which their *)
(* script began, so names are in the order of time.  What a verdict means  *)
(* is DailyBackup's matter.                                                *)
(***************************************************************************)
EXTENDS Naturals, FiniteSets, FiniteSetsExt

CONSTANTS
  Keep,                      \* keep_daily_backups
  MaxName,                   \* bound: scripts begun
  MaxByHand, MaxNightDeaths, \* bounds: scripts run by a person, deaths
  MaxLate                    \* of those a person begins, how many may fall between the
                             \* updater's choice of a directory and its prune

ASSUME RetentionAssumption ==
  /\ Keep \in Nat \ {0} /\ MaxName \in Nat
  /\ MaxByHand \in Nat /\ MaxNightDeaths \in Nat
  /\ MaxLate \in Nat

Names == 1 .. MaxName

VARIABLES
  lastName,     \* names used so far
  byHand,   \* those of a person's scripts
  there,    \* directories on disk
  writing,  \* whose script has not ended
  claims,   \* what state.json says: "none", "yes", "no"
  whole,    \* would pass verify_backup
  owned,    \* owned_backup:* of the store
  night,    \* where the updater is
  before,   \* directories it saw before its script
  ran,      \* its script: the name it took (0: none), and r.ok
  taken,    \* the directory it judges
  scan,     \* directories its prune has yet to look at
  newest,   \* last verified directory, for its prune
  judged,   \* history: directories with the verdict PASS
  met,      \* history: a person's directories begun while the updater's script ran
  removed,  \* history: directories removed by a prune
  dead      \* deaths

dirs == <<lastName, byHand, there, writing, claims, whole>>
job  == <<before, ran, taken, scan, newest>>
hist == <<judged, met, removed, dead>>
retentionVars == <<dirs, owned, night, job, hist>>

NoJob == before = {} /\ ran = [name |-> 0, ok |-> FALSE] /\ taken = 0 /\ scan = {} /\ newest = 0

RetentionInit ==
  /\ lastName = 0 /\ byHand = {} /\ there = {} /\ writing = {}
  /\ claims = [n \in Names |-> "none"] /\ whole = [n \in Names |-> FALSE]
  /\ owned = {} /\ night = "idle" /\ NoJob
  /\ judged = {} /\ met = {} /\ removed = {} /\ dead = 0

-----------------------------------------------------------------------------
(* The script, whoever runs it.                                            *)
MakeDirectory ==
  /\ lastName + 1 \in Names /\ lastName' = lastName + 1
  /\ there' = there \union {lastName + 1} /\ writing' = writing \union {lastName + 1}

\* What was begun since the updater chose the directory it judges.
Newer == {n \in there : n > taken}

PersonBegins ==
  /\ MakeDirectory /\ Cardinality(byHand) < MaxByHand
  /\ night \in {"judge", "prune"} => Cardinality(Newer) < MaxLate
  /\ byHand' = byHand \union {lastName + 1}
  /\ met' = IF night \in {"script", "list"} THEN met \union {lastName + 1} ELSE met
  /\ UNCHANGED <<claims, whole, owned, night, job, judged, removed, dead>>

\* What it says and what it made need not agree.
Ends(n) ==
  /\ writing' = writing \ {n}
  /\ \E c \in {"yes", "no"}, w \in BOOLEAN :
       claims' = [claims EXCEPT ![n] = c] /\ whole' = [whole EXCEPT ![n] = w]

PersonEnds ==
  /\ \E n \in writing \intersect byHand : Ends(n)
  /\ UNCHANGED <<lastName, byHand, there, owned, night, job, hist>>

-----------------------------------------------------------------------------
(* The night.                                                              *)
\* Mutant of BeginNight: nothing is remembered of the directory.
BeginNightBlindly ==
  /\ night = "idle" /\ night' = "script" /\ before' = {}
  /\ UNCHANGED <<dirs, owned, ran, taken, scan, newest, hist>>

BeginNight ==
  /\ night = "idle" /\ night' = "script" /\ before' = there
  /\ UNCHANGED <<dirs, owned, ran, taken, scan, newest, hist>>

ScriptBegins ==
  /\ night = "script" /\ ran.name = 0 /\ MakeDirectory
  /\ ran' = [ran EXCEPT !.name = lastName + 1]
  /\ UNCHANGED <<byHand, claims, whole, owned, night, before, taken, scan, newest, hist>>

ScriptEnds ==
  /\ night = "script" /\ ran.name # 0 /\ night' = "list"
  /\ Ends(ran.name)
  /\ ran' = [ran EXCEPT !.ok = claims'[ran.name] = "yes"]
  /\ UNCHANGED <<lastName, byHand, there, owned, before, taken, scan, newest, hist>>

\* It makes no directory, or is killed by the timeout, before or after it wrote
\* its state.json.
ScriptFails ==
  /\ night = "script" /\ night' = "list"
  /\ \/ writing' = writing \ {ran.name} /\ UNCHANGED <<claims, whole>>
     \/ ran.name # 0 /\ Ends(ran.name)
  /\ UNCHANGED <<lastName, byHand, there, owned, job, hist>>

NewDirs == there \ before

EndNight ==
  /\ night' = "idle"
  /\ before' = {} /\ ran' = [name |-> 0, ok |-> FALSE] /\ taken' = 0 /\ scan' = {} /\ newest' = 0

NothingNew ==
  /\ night = "list" /\ NewDirs = {} /\ EndNight
  /\ UNCHANGED <<dirs, owned, hist>>

\* new[-1]: the last name, which need not be its own.
Adopt ==
  /\ night = "list" /\ night' = "judge"
  /\ \E n \in NewDirs : n = Max(NewDirs) /\ taken' = n
  /\ UNCHANGED <<dirs, owned, before, ran, scan, newest, hist>>

\* owned_backup, with either verdict.
Passes == ran.ok /\ claims[taken] = "yes" /\ whole[taken]

JudgeFails ==
  /\ night = "judge" /\ ~Passes
  /\ owned' = owned \union {taken} /\ EndNight
  /\ UNCHANGED <<dirs, hist>>

JudgePasses ==
  /\ night = "judge" /\ Passes /\ night' = "prune"
  /\ owned' = owned \union {taken} /\ judged' = judged \union {taken}
  /\ UNCHANGED <<dirs, job, met, removed, dead>>

Claimed == {n \in there : claims[n] = "yes"}

\* Mutant of Protected: the oldest.
ProtectedOldest == {n \in Claimed : Cardinality({m \in Claimed : m < n}) < Keep}

\* The last Keep whose script says that they are verified.
Protected == {n \in Claimed : Cardinality({m \in Claimed : m > n}) < Keep}

\* What passed is claimed, so the prune never returns for want of a verified one
\* (RemainsInv of Stores_proofs).
BeginPrune ==
  /\ night = "prune" /\ Claimed # {} /\ night' = "delete"
  /\ scan' = (there \intersect owned) \ Protected /\ newest' = Max(Claimed)
  /\ UNCHANGED <<dirs, owned, before, ran, taken, hist>>

\* A directory without a verdict stays, and so does a failure that is newer than
\* the last verified.
Spared(n) == claims[n] = "none" \/ (claims[n] = "no" /\ n > newest)

Skip ==
  /\ night = "delete"
  /\ \E n \in scan : n = Min(scan) /\ Spared(n) /\ scan' = scan \ {n}
  /\ UNCHANGED <<dirs, owned, night, before, ran, taken, newest, hist>>

Remove ==
  /\ night = "delete"
  /\ \E n \in scan :
       /\ n = Min(scan) /\ ~Spared(n) /\ scan' = scan \ {n}
       /\ there' = there \ {n} /\ removed' = removed \union {n}
  /\ UNCHANGED <<lastName, byHand, writing, claims, whole, owned, night, before, ran, taken, newest,
                 judged, met, dead>>

EndPrune ==
  /\ night = "delete" /\ scan = {} /\ EndNight
  /\ UNCHANGED <<dirs, owned, hist>>

\* rmtree is not atomic: what it was removing may be left in part, with or
\* without its state.json.
NightDies ==
  /\ night # "idle" /\ dead < MaxNightDeaths /\ dead' = dead + 1
  /\ EndNight
  /\ writing' = writing \ {ran.name}
  /\ \/ UNCHANGED <<claims, whole>>
     \/ /\ night = "delete"
        /\ \E n \in scan, c \in {"none", "kept"} :
             /\ n = Min(scan) /\ ~Spared(n) /\ whole' = [whole EXCEPT ![n] = FALSE]
             /\ claims' = IF c = "kept" THEN claims ELSE [claims EXCEPT ![n] = "none"]
  /\ UNCHANGED <<lastName, byHand, there, owned, judged, met, removed>>

Night ==
  \/ BeginNight \/ ScriptBegins \/ ScriptEnds \/ ScriptFails \/ NothingNew \/ Adopt
  \/ JudgeFails \/ JudgePasses \/ BeginPrune \/ Skip \/ Remove \/ EndPrune

RetentionNext == PersonBegins \/ PersonEnds \/ Night \/ NightDies

RetentionSpec == RetentionInit /\ [][RetentionNext]_retentionVars

-----------------------------------------------------------------------------
(* Properties.                                                             *)
RetentionTypeOK ==
  /\ lastName \in {0} \union Names /\ byHand \subseteq 1 .. lastName
  /\ there \subseteq 1 .. lastName /\ writing \subseteq there
  /\ claims \in [Names -> {"none", "yes", "no"}] /\ whole \in [Names -> BOOLEAN]
  /\ owned \subseteq 1 .. lastName
  /\ night \in {"idle", "script", "list", "judge", "prune", "delete"}
  /\ before \subseteq 1 .. lastName /\ ran \in [name : {0} \union Names, ok : BOOLEAN]
  /\ taken \in {0} \union Names /\ scan \subseteq there /\ newest \in {0} \union Names
  /\ judged \subseteq owned /\ met \subseteq byHand /\ removed \subseteq owned
  /\ dead \in 0 .. MaxNightDeaths

\* Once a backup has passed, a whole one that passed always remains, through
\* failed nights, deaths in the middle of a removal and scripts run by hand, of
\* which fewer than Keep are begun and end between the choice of the directory to
\* judge and the prune (backup.py:16-17, config.py:37).
VerifiedRemains == judged # {} => \E n \in judged \intersect there : whole[n]

\* What a person made is removed only if it was begun while the script of a
\* night ran, when the updater takes it for its own (backup.py:16, 95).
OthersStay == removed \intersect byHand \subseteq met

=============================================================================
