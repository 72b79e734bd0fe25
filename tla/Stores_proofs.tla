---------------------------- MODULE Stores_proofs ---------------------------
(***************************************************************************)
(* Proofs about what keeps notices, backups and products, for any notices, *)
(* flushes, databases, backups and releases.                               *)
(***************************************************************************)
EXTENDS MCStores, FiniteSetTheorems, WellFoundedInduction, TLAPS

-----------------------------------------------------------------------------
(* Auxiliary.                                                              *)

\* What was asked of the product still holds when it is judged, and a product that
\* does not work after the way back was lost, or was so where the way leads.
AuxInv ==
  /\ aux \in {"idle", "known", "update", "ask", "decide", "back", "done"}
  /\ aux = "known" => answer.v = 0
  /\ aux = "idle" => answer.v = 0
  /\ aux = "decide" => answer = product
  /\ aux = "back" /\ ~product.works => lost \/ ~point.works
  /\ ReportIsTrue /\ FailureIsUndone

LEMMA AuxInvInit == AuxInit => AuxInv
<1>1. Broken.v = 0
  BY DEF Broken
<1> QED
  BY <1>1 DEF AuxInit, NothingFound, AuxInv, ReportIsTrue, FailureIsUndone

LEMMA AuxInvNext == AuxInv /\ [AuxNext]_auxVars => AuxInv'
<1> SUFFICES ASSUME AuxInv, [AuxNext]_auxVars PROVE AuxInv'
  OBVIOUS
<1> USE DEF AuxInv, ReportIsTrue, FailureIsUndone
<1>0. Broken.v = 0
  BY DEF Broken
<1>1. CASE Release \/ SelfUpdate \/ UNCHANGED auxVars
  BY <1>1 DEF Release, SelfUpdate, auxVars, found
<1>2. CASE Discover
  BY <1>2 DEF Discover
<1>3. CASE NoUpdate
  <2>1. /\ UNCHANGED <<product, pv, point, answer, lost>> /\ aux' = "done" /\ answer.v = 0
        /\ result'.rolledBack = "none" /\ result'.verdict # "FAIL"
    BY <1>3 DEF NoUpdate, End
  <2> QED
    BY <2>1
<1>4. CASE RecoveryLink \/ RecoveryCopy
  BY <1>4 DEF RecoveryLink, RecoveryCopy
<1>5. CASE RecoveryCopyFails
  <2>1. /\ UNCHANGED <<product, pv, point, answer, lost>> /\ aux' = "done"
        /\ result'.rolledBack = "none" /\ result'.verdict = "raised"
    BY <1>5 DEF RecoveryCopyFails, End
  <2> QED
    BY <2>1
<1>6. CASE RunUpdater \/ Ask
  BY <1>6 DEF RunUpdater, Ask
<1>7. CASE Succeed
  <2>1. /\ UNCHANGED <<product, pv, point, answer, lost>> /\ aux' = "done"
        /\ result'.rolledBack = "none" /\ result'.verdict = "PASS"
        /\ product.v >= pv.available /\ product.works
    BY <1>7 DEF Succeed, End, Upgraded
  <2> QED
    BY <2>1
<1>8. CASE FailUnchanged
  <2>1. /\ UNCHANGED <<product, pv, point, answer, lost>> /\ aux' = "done"
        /\ result'.rolledBack = "none" /\ result'.verdict = "FAIL"
        /\ product.v = pv.installed /\ product.works
    BY <1>8 DEF FailUnchanged, End, Changed
  <2> QED
    BY <2>1
<1>9. CASE Restore
  BY <1>9 DEF Restore
<1>10. CASE Back
  <2>1. /\ UNCHANGED <<product, pv, point, answer, lost>> /\ aux = "back" /\ aux' = "done"
        /\ result'.rolledBack \in {"yes", "no"} /\ result'.verdict = "FAIL"
        /\ result'.rolledBack = "yes" => product.v = pv.installed
    BY <1>10 DEF Back, End
  <2> QED
    BY <2>1
<1>11. CASE NextNight \/ AuxDies
  BY <1>0, <1>11 DEF NextNight, AuxDies, Forget
<1> QED
  BY <1>1, <1>2, <1>3, <1>4, <1>5, <1>6, <1>7, <1>8, <1>9, <1>10, <1>11 DEF AuxNext, UpdateOne

\* Whatever the updater leaves, and whatever the product does by itself between the
\* discovery and its turn, what the report says of it is so (auxiliary.py,
\* update_one).
THEOREM AuxReportsAreTrue == AuxSpec => []ReportIsTrue
<1>1. AuxInv => ReportIsTrue
  BY DEF AuxInv
<1> QED
  BY <1>1, AuxInvInit, AuxInvNext, PTL DEF AuxSpec

\* And an update that failed left a product that works, unless the restore was lost
\* or led to what did not work before (auxiliary.py, restore).
THEOREM AuxFailuresAreUndone == AuxSpec => []FailureIsUndone
<1>1. AuxInv => FailureIsUndone
  BY DEF AuxInv
<1> QED
  BY <1>1, AuxInvInit, AuxInvNext, PTL DEF AuxSpec

-----------------------------------------------------------------------------
(* Retention.                                                              *)

\* What a person made is taken for the updater's own only if it was begun while the
\* script of a night ran.
OwnInv ==
  /\ lastName \in Nat
  /\ byHand \subseteq 1 .. lastName /\ there \subseteq 1 .. lastName
  /\ owned \subseteq 1 .. lastName /\ removed \subseteq owned /\ scan \subseteq owned
  /\ night \in {"script", "list"} => (there \ before) \intersect byHand \subseteq met
  /\ night = "judge" => taken \in 1 .. lastName /\ (taken \in byHand => taken \in met)
  /\ owned \intersect byHand \subseteq met

LEMMA OwnInvInit == RetentionInit => OwnInv
BY DEF RetentionInit, NoJob, OwnInv

LEMMA OwnInvNext == OwnInv /\ [RetentionNext]_retentionVars => OwnInv'
<1> SUFFICES ASSUME OwnInv, [RetentionNext]_retentionVars PROVE OwnInv'
  OBVIOUS
<1> USE DEF OwnInv
<1>1. CASE PersonBegins
  BY <1>1 DEF PersonBegins, MakeDirectory, job
<1>2. CASE PersonEnds
  BY <1>2 DEF PersonEnds, job, hist
<1>3. CASE BeginNight
  BY <1>3 DEF BeginNight, dirs, hist
<1>4. CASE ScriptBegins
  BY <1>4 DEF ScriptBegins, MakeDirectory, hist
<1>5. CASE ScriptEnds \/ ScriptFails
  BY <1>5 DEF ScriptEnds, ScriptFails, hist, job
<1>6. CASE NothingNew
  BY <1>6 DEF NothingNew, EndNight, dirs, hist
<1>7. CASE Adopt
  BY <1>7 DEF Adopt, NewDirs, dirs, hist
<1>8. CASE JudgeFails \/ JudgePasses
  BY <1>8 DEF JudgeFails, JudgePasses, EndNight, dirs, job, hist
<1>9. CASE BeginPrune
  BY <1>9 DEF BeginPrune, dirs, hist
<1>10. CASE Skip \/ Remove \/ EndPrune
  BY <1>10 DEF Skip, Remove, EndPrune, EndNight, dirs, hist
<1>11. CASE NightDies
  BY <1>11 DEF NightDies, EndNight
<1>12. CASE UNCHANGED retentionVars
  BY <1>12 DEF retentionVars, dirs, job, hist
<1> QED
  BY <1>1, <1>2, <1>3, <1>4, <1>5, <1>6, <1>7, <1>8, <1>9, <1>10, <1>11, <1>12
     DEF RetentionNext, Night

\* However often a person runs the script, and wherever the updater dies, a prune
\* removes no directory of theirs that was not begun during a script of its own
\* (backup.py, prune and owned_backup).
THEOREM OthersAlwaysStay == RetentionSpec => []OthersStay
<1>1. OwnInv => OthersStay
  BY DEF OwnInv, OthersStay
<1> QED
  BY <1>1, OwnInvInit, OwnInvNext, PTL DEF RetentionSpec

USE RetentionAssumption

\* The directory a night judges is the newest of the new, and what began since is
\* counted.  Once it has passed, nothing touches it before the next one passes: no
\* script writes to it any more, and the prune protects it.
ChoiceInv ==
  /\ night \in {"script", "list"} => \A n \in there \ before : \A m \in before : m < n
  /\ night \in {"judge", "prune"} => taken \in there /\ Cardinality(Newer) <= MaxLate
  /\ night = "idle" => ran.name = 0
  /\ ran.name # 0 /\ night = "script" => ran.name \in writing \ byHand
  /\ ran.name \in {0} \union 1 .. lastName
  /\ taken \in {0} \union 1 .. lastName

SettledInv ==
  /\ \A n \in Names : claims[n] # "none" => n \in (1 .. lastName) \ writing
  /\ judged \intersect writing = {}
  /\ night = "prune" => taken \in judged /\ whole[taken] /\ claims[taken] = "yes"
  /\ night = "delete" => taken \in (judged \intersect there) \ scan /\ whole[taken]

RemainsInv == RetentionTypeOK /\ ChoiceInv /\ SettledInv /\ VerifiedRemains

\* A set of names has a greatest.
LEMMA GreatestExists ==
  ASSUME NEW N \in Nat, NEW S \in SUBSET (0 .. N), S # {}
  PROVE  Max(S) \in S /\ \A m \in S : m <= Max(S)
<1> DEFINE bounds == {k \in Nat : \A m \in S : m <= k}
<1>1. N \in bounds /\ bounds \subseteq Nat
  OBVIOUS
<1>2. PICK least \in bounds : \A k \in bounds : ~(<<k, least>> \in OpToRel(<, Nat))
  BY <1>1, WFMin, NatLessThanWellFounded
<1>3. least \in Nat /\ \A m \in S : m <= least
  OBVIOUS
<1>4. least \in S
  <2> SUFFICES ASSUME least \notin S PROVE FALSE
    OBVIOUS
  <2>1. \A m \in S : m \in Nat /\ m < least
    BY <1>3
  <2>2. PICK some \in S : TRUE
    OBVIOUS
  <2>3. some \in Nat /\ some < least
    BY <2>1
  <2>4. least - 1 \in Nat /\ least - 1 < least
    BY <1>3, <2>3
  <2>5. \A m \in S : m <= least - 1
    BY <1>3, <2>1
  <2>6. least - 1 \in bounds
    BY <2>4, <2>5
  <2>7. <<least - 1, least>> \in OpToRel(<, Nat)
    BY <1>3, <2>4 DEF OpToRel
  <2> QED
    BY <1>2, <2>6, <2>7
<1>5. \E n \in S : \A m \in S : n >= m
  BY <1>3, <1>4
<1>6. Max(S) \in S /\ \A m \in S : Max(S) >= m
  BY <1>5 DEF Max
<1> QED
  BY <1>6

\* The directory chosen is the last of all.
LEMMA NothingNewerThanChosen ==
  ASSUME RetentionTypeOK, NewDirs # {}, \A n \in there \ before : \A m \in before : m < n
  PROVE  Max(NewDirs) \in there /\ {n \in there : n > Max(NewDirs)} = {}
<1>1. lastName \in Nat /\ there \subseteq 1 .. lastName /\ NewDirs = there \ before
      /\ before \subseteq 1 .. lastName
  BY DEF RetentionTypeOK, Names, NewDirs
<1>2. NewDirs \in SUBSET (0 .. lastName)
  BY <1>1
<1>3. Max(NewDirs) \in NewDirs /\ \A m \in NewDirs : m <= Max(NewDirs)
  BY <1>1, <1>2, GreatestExists
<1> DEFINE top == Max(NewDirs)
<1> HIDE DEF top
<1>4. top \in there \ before /\ top \in Nat /\ \A m \in there \ before : m <= top
  <2>1. top \in NewDirs /\ \A m \in NewDirs : m <= top
    BY <1>3 DEF top
  <2> QED
    BY <1>1, <1>2, <2>1
<1>5. \A m \in there : m \in Nat /\ m <= top
  BY <1>1, <1>4
<1>6. {n \in there : n > top} = {}
  <2> SUFFICES ASSUME NEW n \in there, n > top PROVE FALSE
    OBVIOUS
  <2>1. n \in Nat /\ n <= top
    BY <1>5
  <2> QED
    BY <1>4, <2>1
<1> QED
  BY <1>4, <1>6 DEF top

\* Too few are newer for what passed to lose its protection.
LEMMA ChosenIsProtected ==
  ASSUME RemainsInv, night = "prune", MaxLate < Keep
  PROVE  taken \in Claimed /\ taken \in Protected
<1>1. taken \in Claimed
  BY DEF RemainsInv, ChoiceInv, SettledInv, Claimed
<1>2. lastName \in Nat /\ there \subseteq 1 .. lastName /\ Cardinality(Newer) <= MaxLate
  BY DEF RemainsInv, RetentionTypeOK, Names, ChoiceInv
<1> DEFINE late == {m \in Claimed : m > taken}
<1>3. late \subseteq Newer /\ Newer \subseteq 1 .. lastName
  BY <1>2 DEF Claimed, Newer
<1>4. IsFiniteSet(1 .. lastName)
  BY <1>2, FS_Interval
<1>5. IsFiniteSet(Newer)
  BY <1>3, <1>4, FS_Subset
<1>6. /\ IsFiniteSet(late) /\ Cardinality(late) <= Cardinality(Newer)
      /\ Cardinality(late) \in Nat /\ Cardinality(Newer) \in Nat
  <2> HIDE DEF late
  <2> QED
    BY <1>3, <1>5, FS_Subset, FS_CardinalityType
<1>7. Cardinality(late) < Keep
  BY <1>2, <1>6
<1> QED
  BY <1>1, <1>7 DEF Protected

LEMMA RemainsInit == RetentionInit => RemainsInv
<1> SUFFICES ASSUME RetentionInit PROVE RemainsInv
  OBVIOUS
<1> USE DEF RetentionInit, NoJob
<1>1. RetentionTypeOK
  BY DEF RetentionTypeOK
<1>2. ChoiceInv /\ SettledInv /\ VerifiedRemains
  BY DEF ChoiceInv, SettledInv, VerifiedRemains
<1> QED
  BY <1>1, <1>2 DEF RemainsInv

\* A person begins a script: its name is new, and what is newer than the chosen is
\* still within the bound.
LEMMA PersonBeginsRemains == RemainsInv /\ PersonBegins => RemainsInv'
<1> SUFFICES ASSUME RemainsInv, PersonBegins PROVE RemainsInv'
  OBVIOUS
<1> DEFINE new == lastName + 1
<1>1. /\ new \in Names /\ lastName' = new /\ there' = there \union {new}
      /\ writing' = writing \union {new} /\ byHand' = byHand \union {new}
      /\ UNCHANGED <<claims, whole, owned, night, before, ran, taken, scan, newest, judged, removed,
                     dead>>
      /\ met' \subseteq byHand'
  BY DEF PersonBegins, MakeDirectory, job, RemainsInv, RetentionTypeOK
<1>2. lastName \in Nat /\ MaxName \in Nat /\ new \in Nat
  BY DEF RemainsInv, RetentionTypeOK, Names
<1>3. RetentionTypeOK'
  BY <1>1, <1>2 DEF RemainsInv, RetentionTypeOK, Names
<1>4. ChoiceInv'
  <2>1. ASSUME night \in {"judge", "prune"}
        PROVE  taken' \in there' /\ Cardinality(Newer') <= MaxLate
    <3>1. Cardinality(Newer) < MaxLate /\ taken \in there
      BY <2>1 DEF PersonBegins, RemainsInv, ChoiceInv
    <3>2. /\ Newer' \subseteq Newer \union {new}
          /\ Newer \subseteq 1 .. lastName
      BY <1>1 DEF Newer, RemainsInv, RetentionTypeOK
    <3>3. IsFiniteSet(Newer)
      <4>1. IsFiniteSet(1 .. lastName)
        BY <1>2, FS_Interval
      <4> QED
        BY <3>2, <4>1, FS_Subset
    <3>4. /\ IsFiniteSet(Newer \union {new}) /\ Cardinality(Newer) \in Nat
          /\ Cardinality(Newer \union {new}) <= Cardinality(Newer) + 1
      BY <3>3, FS_AddElement, FS_CardinalityType
    <3>5. /\ Cardinality(Newer') <= Cardinality(Newer \union {new})
          /\ Cardinality(Newer') \in Nat /\ Cardinality(Newer \union {new}) \in Nat
      BY <3>2, <3>4, FS_Subset, FS_CardinalityType
    <3> QED
      BY <1>1, <3>1, <3>4, <3>5
  <2>2. night \in {"script", "list"} => \A n \in there' \ before : \A m \in before : m < n
    BY <1>1, <1>2 DEF RemainsInv, ChoiceInv, RetentionTypeOK
  <2>3. /\ night = "idle" => ran.name = 0
        /\ ran.name # 0 /\ night = "script" => ran.name \in writing' \ byHand'
    BY <1>1, <1>2 DEF RemainsInv, ChoiceInv
  <2>4. ran.name \in {0} \union 1 .. lastName' /\ taken \in {0} \union 1 .. lastName'
    BY <1>1, <1>2 DEF RemainsInv, ChoiceInv
  <2> QED
    BY <1>1, <2>1, <2>2, <2>3, <2>4 DEF ChoiceInv
<1>5. SettledInv'
  BY <1>1, <1>2 DEF RemainsInv, RetentionTypeOK, SettledInv, Names
<1>6. VerifiedRemains'
  BY <1>1 DEF RemainsInv, VerifiedRemains
<1> QED
  BY <1>3, <1>4, <1>5, <1>6 DEF RemainsInv

\* The end of a script says nothing of a directory that was judged.
LEMMA EndsRemains ==
  ASSUME RemainsInv, NEW n \in writing, Ends(n)
  PROVE  /\ claims' \in [Names -> {"none", "yes", "no"}] /\ whole' \in [Names -> BOOLEAN]
         /\ writing' \subseteq there
         /\ \A m \in Names : claims'[m] # "none" => m \in (1 .. lastName) \ writing'
         /\ \A m \in Names \ writing : claims'[m] = claims[m] /\ whole'[m] = whole[m]
         /\ judged \intersect writing' = {}
<1>1. n \in Names /\ n \in 1 .. lastName
  BY DEF RemainsInv, RetentionTypeOK, Names
<1>2. PICK c \in {"yes", "no"}, w \in BOOLEAN :
        claims' = [claims EXCEPT ![n] = c] /\ whole' = [whole EXCEPT ![n] = w]
  BY DEF Ends
<1>3. writing' = writing \ {n}
  BY DEF Ends
<1> QED
  BY <1>1, <1>2, <1>3 DEF RemainsInv, RetentionTypeOK, SettledInv

\* Judged directories are written to by nobody, and have names.
LEMMA JudgedAreSettled ==
  ASSUME RemainsInv
  PROVE  judged \subseteq Names \ writing
  BY DEF RemainsInv, RetentionTypeOK, SettledInv, Names

LEMMA PersonEndsRemains == RemainsInv /\ PersonEnds => RemainsInv'
<1> SUFFICES ASSUME RemainsInv, PersonEnds PROVE RemainsInv'
  OBVIOUS
<1>1. PICK n \in writing \intersect byHand : Ends(n)
  BY DEF PersonEnds
<1>2. /\ UNCHANGED <<lastName, byHand, there, owned, night, before, ran, taken, scan, newest,
                     judged, met, removed, dead>>
      /\ writing' = writing \ {n}
  BY <1>1 DEF PersonEnds, job, hist, Ends
<1>3. /\ claims' \in [Names -> {"none", "yes", "no"}] /\ whole' \in [Names -> BOOLEAN]
      /\ writing' \subseteq there
      /\ \A m \in Names : claims'[m] # "none" => m \in (1 .. lastName) \ writing'
      /\ \A m \in Names \ writing : claims'[m] = claims[m] /\ whole'[m] = whole[m]
      /\ judged \intersect writing' = {}
  BY <1>1, EndsRemains
<1>4. judged \subseteq Names \ writing
  BY JudgedAreSettled
<1>5. RetentionTypeOK'
  BY <1>2, <1>3 DEF RemainsInv, RetentionTypeOK
<1>6. ChoiceInv'
  <2>1. Newer' = Newer
    BY <1>2 DEF Newer
  <2> QED
    BY <1>1, <1>2, <2>1 DEF RemainsInv, ChoiceInv
<1>7. SettledInv'
  BY <1>2, <1>3, <1>4 DEF RemainsInv, SettledInv
<1>8. VerifiedRemains'
  BY <1>2, <1>3, <1>4 DEF RemainsInv, VerifiedRemains
<1> QED
  BY <1>5, <1>6, <1>7, <1>8 DEF RemainsInv

\* A step of the night that writes to no directory and judges none.
LEMMA QuietNightRemains ==
  ASSUME RemainsInv, UNCHANGED <<dirs, judged, met, removed>>,
         owned \subseteq owned', owned' \subseteq 1 .. lastName, dead' \in 0 .. MaxNightDeaths,
         night' \in {"idle", "script", "list", "judge", "prune", "delete"},
         before' \subseteq 1 .. lastName,
         ran' \in [name : {0} \union Names, ok : BOOLEAN],
         ran'.name \in {0} \union 1 .. lastName, night' = "idle" => ran'.name = 0,
         taken' \in {0} \union 1 .. lastName, scan' \subseteq there, newest' \in {0} \union Names,
         night' \in {"script", "list"} => \A n \in there \ before' : \A m \in before' : m < n,
         night' \in {"judge", "prune"} => taken' \in there /\ Cardinality(Newer') <= MaxLate,
         ran'.name # 0 /\ night' = "script" => ran'.name \in writing \ byHand,
         night' = "prune" => taken' \in judged /\ whole[taken'] /\ claims[taken'] = "yes",
         night' = "delete" => taken' \in (judged \intersect there) \ scan' /\ whole[taken']
  PROVE  RemainsInv'
<1> USE DEF dirs
<1>1. lastName \in Nat /\ MaxName \in Nat /\ 1 .. lastName \subseteq Names
  BY DEF RemainsInv, RetentionTypeOK, Names
<1>2. RetentionTypeOK'
  BY <1>1 DEF RemainsInv, RetentionTypeOK
<1>3. ChoiceInv'
  BY DEF ChoiceInv
<1>4. SettledInv'
  BY DEF RemainsInv, SettledInv
<1>5. VerifiedRemains'
  BY DEF RemainsInv, VerifiedRemains
<1> QED
  BY <1>2, <1>3, <1>4, <1>5 DEF RemainsInv

\* A night judges the last new directory, and prunes only what its own verdict does
\* not rest on.
LEMMA NightRemains ==
  ASSUME MaxLate < Keep, OwnInv, RemainsInv, Night
  PROVE  RemainsInv'
<1>0. /\ RetentionTypeOK /\ ChoiceInv /\ SettledInv /\ VerifiedRemains
      /\ lastName \in Nat /\ MaxName \in Nat /\ 1 .. lastName \subseteq Names
      /\ IsFiniteSet(there)
  <2>1. lastName \in Nat /\ there \subseteq 1 .. lastName
    BY DEF RemainsInv, RetentionTypeOK, Names
  <2>2. IsFiniteSet(1 .. lastName)
    BY <2>1, FS_Interval
  <2>3. IsFiniteSet(there)
    BY <2>1, <2>2, FS_Subset
  <2> QED
    BY <2>1, <2>3 DEF RemainsInv, RetentionTypeOK, Names
<1>1. CASE BeginNight
  <2>1. night' = "script" /\ before' = there /\ ran.name \in {0} \union 1 .. lastName
        /\ UNCHANGED <<dirs, owned, ran, taken, scan, newest, hist>> /\ night = "idle"
    BY <1>0, <1>1 DEF BeginNight, ChoiceInv
  <2> QED
    BY <1>0, <2>1, QuietNightRemains DEF RetentionTypeOK, ChoiceInv, hist
<1>2. CASE NothingNew \/ EndPrune
  <2>1. /\ EndNight /\ UNCHANGED <<dirs, owned, hist>>
    BY <1>2 DEF NothingNew, EndPrune
  <2>2. ran' = [name |-> 0, ok |-> FALSE] /\ ran'.name = 0
        /\ night' = "idle" /\ before' = {} /\ taken' = 0 /\ scan' = {} /\ newest' = 0
    BY <2>1 DEF EndNight
  <2> QED
    BY <1>0, <2>1, <2>2, QuietNightRemains DEF RetentionTypeOK, hist
<1>3. CASE Adopt
  <2>1. /\ night = "list" /\ night' = "judge" /\ NewDirs # {} /\ taken' = Max(NewDirs)
        /\ UNCHANGED <<dirs, owned, before, ran, scan, newest, hist>>
    BY <1>3 DEF Adopt
  <2>2. taken' \in there /\ {n \in there : n > taken'} = {}
    BY <1>0, <2>1, NothingNewerThanChosen DEF ChoiceInv
  <2>3. Newer' = {}
    BY <2>1, <2>2 DEF Newer, dirs
  <2>4. Cardinality(Newer') <= MaxLate
    BY <2>3, FS_EmptySet
  <2> QED
    BY <1>0, <2>1, <2>2, <2>4, QuietNightRemains DEF RetentionTypeOK, ChoiceInv, hist
<1>4. CASE JudgeFails
  <2>1. taken \in 1 .. lastName
    BY <1>0, <1>4 DEF JudgeFails, ChoiceInv, RetentionTypeOK
  <2> QED
    BY <1>0, <1>4, <2>1, QuietNightRemains
       DEF JudgeFails, EndNight, RetentionTypeOK, hist, dirs
<1>5. CASE JudgePasses
  <2>1. /\ night = "judge" /\ night' = "prune" /\ owned' = owned \union {taken}
        /\ judged' = judged \union {taken} /\ claims[taken] = "yes" /\ whole[taken]
        /\ UNCHANGED <<dirs, job, met, removed, dead>>
    BY <1>5 DEF JudgePasses, Passes
  <2>2. taken \in there /\ taken \in Names /\ taken \in 1 .. lastName /\ taken \notin writing
    BY <1>0, <2>1 DEF ChoiceInv, SettledInv, RetentionTypeOK
  <2>3. RetentionTypeOK'
    BY <1>0, <2>1, <2>2 DEF RetentionTypeOK, dirs, job
  <2>4. ChoiceInv'
    BY <1>0, <2>1, <2>2 DEF ChoiceInv, Newer, dirs, job
  <2>5. SettledInv'
    BY <1>0, <2>1, <2>2 DEF SettledInv, dirs, job
  <2>6. VerifiedRemains'
    BY <1>0, <2>1, <2>2 DEF VerifiedRemains, dirs
  <2> QED
    BY <2>3, <2>4, <2>5, <2>6 DEF RemainsInv
<1>6. CASE BeginPrune
  <2>1. /\ night = "prune" /\ night' = "delete" /\ newest' = Max(Claimed) /\ Claimed # {}
        /\ scan' = (there \intersect owned) \ Protected
        /\ UNCHANGED <<dirs, owned, before, ran, taken, hist>>
    BY <1>6 DEF BeginPrune
  <2>2. taken \in Claimed /\ taken \in Protected
    BY <2>1, ChosenIsProtected
  <2>3. Max(Claimed) \in Names
    <3>1. Claimed \in SUBSET (0 .. lastName)
      <4>1. there \subseteq 1 .. lastName /\ Claimed \subseteq there
        BY <1>0 DEF Claimed, RetentionTypeOK
      <4> QED
        BY <1>0, <4>1
    <3>2. Max(Claimed) \in Claimed
      BY <1>0, <2>1, <3>1, GreatestExists
    <3> QED
      BY <1>0, <3>2 DEF Claimed, RetentionTypeOK
  <2>4. taken \in judged /\ taken \in there /\ whole[taken]
    BY <1>0, <2>1 DEF ChoiceInv, SettledInv
  <2> QED
    BY <1>0, <2>1, <2>2, <2>3, <2>4, QuietNightRemains DEF RetentionTypeOK, ChoiceInv, hist
<1>7. CASE Skip
  <2>1. /\ night = "delete" /\ scan' \subseteq scan
        /\ UNCHANGED <<dirs, owned, night, before, ran, taken, newest, hist>>
    BY <1>7 DEF Skip
  <2> QED
    BY <1>0, <2>1, QuietNightRemains DEF RetentionTypeOK, ChoiceInv, SettledInv, hist
<1>8. CASE Remove
  <2>1. PICK n \in scan :
          /\ ~Spared(n) /\ scan' = scan \ {n}
          /\ there' = there \ {n} /\ removed' = removed \union {n}
    BY <1>8 DEF Remove
  <2>2. /\ night = "delete"
        /\ UNCHANGED <<lastName, byHand, writing, claims, whole, owned, night, before, ran, taken,
                       newest, judged, met, dead>>
    BY <1>8 DEF Remove
  <2>3. claims[n] # "none" /\ n \in Names /\ n \notin writing /\ n # taken /\ n \in there
    BY <1>0, <2>1, <2>2 DEF Spared, RetentionTypeOK, SettledInv
  <2>4. n \in owned
    BY DEF OwnInv
  <2>5. RetentionTypeOK'
    BY <1>0, <2>1, <2>2, <2>3, <2>4 DEF RetentionTypeOK
  <2>6. ChoiceInv'
    BY <1>0, <2>1, <2>2 DEF ChoiceInv
  <2>7. SettledInv'
    BY <1>0, <2>1, <2>2, <2>3 DEF SettledInv
  <2>8. VerifiedRemains'
    BY <1>0, <2>1, <2>2, <2>3 DEF VerifiedRemains, SettledInv
  <2> QED
    BY <2>5, <2>6, <2>7, <2>8 DEF RemainsInv
<1>9. CASE ScriptBegins
  <2> DEFINE new == lastName + 1
  <2>1. /\ night = "script" /\ new \in Names /\ lastName' = new /\ there' = there \union {new}
        /\ writing' = writing \union {new} /\ ran' = [ran EXCEPT !.name = new]
        /\ UNCHANGED <<byHand, claims, whole, owned, night, before, taken, scan, newest, judged, met,
                       removed, dead>>
    BY <1>9 DEF ScriptBegins, MakeDirectory, hist
  <2>2. ran' \in [name : {0} \union Names, ok : BOOLEAN] /\ ran'.name = new /\ new \in Nat
    BY <1>0, <2>1 DEF RetentionTypeOK
  <2>3. RetentionTypeOK'
    BY <1>0, <2>1, <2>2 DEF RetentionTypeOK, Names
  <2>4. ChoiceInv'
    BY <1>0, <2>1, <2>2 DEF RetentionTypeOK, ChoiceInv
  <2>5. SettledInv'
    BY <1>0, <2>1, <2>2 DEF RetentionTypeOK, SettledInv
  <2>6. VerifiedRemains'
    BY <1>0, <2>1 DEF VerifiedRemains
  <2> QED
    BY <2>3, <2>4, <2>5, <2>6 DEF RemainsInv
<1>10. CASE ScriptEnds \/ ScriptFails
  <2>1. /\ night = "script" /\ night' = "list" /\ ran'.name = ran.name
        /\ ran' \in [name : {0} \union Names, ok : BOOLEAN]
        /\ UNCHANGED <<lastName, byHand, there, owned, before, taken, scan, newest, judged, met,
                       removed, dead>>
    BY <1>0, <1>10 DEF ScriptEnds, ScriptFails, RetentionTypeOK, job, hist
  <2>2. \/ ran.name \in writing /\ Ends(ran.name)
        \/ writing' = writing \ {ran.name} /\ UNCHANGED <<claims, whole>>
    BY <1>0, <1>10 DEF ScriptEnds, ScriptFails, ChoiceInv
  <2>3. /\ claims' \in [Names -> {"none", "yes", "no"}] /\ whole' \in [Names -> BOOLEAN]
        /\ writing' \subseteq there
        /\ \A m \in Names : claims'[m] # "none" => m \in (1 .. lastName) \ writing'
        /\ \A m \in Names \ writing : claims'[m] = claims[m] /\ whole'[m] = whole[m]
        /\ judged \intersect writing' = {}
    BY <1>0, <2>2, EndsRemains DEF RetentionTypeOK, SettledInv
  <2>4. judged \subseteq Names \ writing
    BY JudgedAreSettled
  <2>5. RetentionTypeOK'
    BY <1>0, <2>1, <2>3 DEF RetentionTypeOK
  <2>6. ChoiceInv'
    BY <1>0, <2>1 DEF ChoiceInv
  <2>7. SettledInv'
    BY <2>1, <2>3 DEF SettledInv
  <2>8. VerifiedRemains'
    BY <1>0, <2>1, <2>3, <2>4 DEF VerifiedRemains
  <2> QED
    BY <2>5, <2>6, <2>7, <2>8 DEF RemainsInv
<1> QED
  BY <1>1, <1>2, <1>3, <1>4, <1>5, <1>6, <1>7, <1>8, <1>9, <1>10 DEF Night

\* A death leaves what the prune was removing in part, never what its verdict rests
\* on.
LEMMA NightDiesRemains == RemainsInv /\ NightDies => RemainsInv'
<1> SUFFICES ASSUME RemainsInv, NightDies PROVE RemainsInv'
  OBVIOUS
<1>0. RetentionTypeOK /\ ChoiceInv /\ SettledInv /\ VerifiedRemains
  BY DEF RemainsInv
<1>1. /\ night' = "idle" /\ ran' = [name |-> 0, ok |-> FALSE] /\ ran'.name = 0
      /\ before' = {} /\ taken' = 0 /\ scan' = {} /\ newest' = 0
      /\ dead < MaxNightDeaths /\ dead' = dead + 1 /\ writing' = writing \ {ran.name}
      /\ UNCHANGED <<lastName, byHand, there, owned, judged, met, removed>>
  BY DEF NightDies, EndNight
<1>2. \/ UNCHANGED <<claims, whole>>
      \/ /\ night = "delete"
         /\ \E n \in scan, c \in {"none", "kept"} :
              /\ whole' = [whole EXCEPT ![n] = FALSE]
              /\ claims' = IF c = "kept" THEN claims ELSE [claims EXCEPT ![n] = "none"]
  BY DEF NightDies
<1>3. /\ claims' \in [Names -> {"none", "yes", "no"}] /\ whole' \in [Names -> BOOLEAN]
      /\ \A m \in Names : claims'[m] # "none" => claims[m] # "none"
  <2>1. CASE UNCHANGED <<claims, whole>>
    BY <1>0, <2>1 DEF RetentionTypeOK
  <2>2. CASE ~UNCHANGED <<claims, whole>>
    <3>1. PICK n \in scan, c \in {"none", "kept"} :
            /\ whole' = [whole EXCEPT ![n] = FALSE]
            /\ claims' = IF c = "kept" THEN claims ELSE [claims EXCEPT ![n] = "none"]
      BY <1>2, <2>2
    <3>2. claims' = claims \/ claims' = [claims EXCEPT ![n] = "none"]
      BY <3>1
    <3> QED
      BY <1>0, <3>1, <3>2 DEF RetentionTypeOK
  <2> QED
    BY <2>1, <2>2
<1>4. RetentionTypeOK'
  <2>1. dead' \in 0 .. MaxNightDeaths
    BY <1>0, <1>1 DEF RetentionTypeOK
  <2>2. ran' \in [name : {0} \union Names, ok : BOOLEAN]
    BY <1>1
  <2> QED
    BY <1>0, <1>1, <1>3, <2>1, <2>2 DEF RetentionTypeOK
<1>5. ChoiceInv'
  BY <1>1 DEF ChoiceInv
<1>6. SettledInv'
  BY <1>0, <1>1, <1>3 DEF SettledInv
<1>7. VerifiedRemains'
  <2>1. CASE UNCHANGED <<claims, whole>>
    BY <1>0, <1>1, <2>1 DEF VerifiedRemains
  <2>2. CASE ~UNCHANGED <<claims, whole>>
    <3>1. taken \in (judged \intersect there) \ scan /\ whole[taken] /\ taken \in Names
      BY <1>0, <1>2, <2>2 DEF SettledInv, RetentionTypeOK, Names
    <3>2. whole'[taken]
      BY <1>0, <1>2, <2>2, <3>1 DEF RetentionTypeOK
    <3> QED
      BY <1>1, <3>1, <3>2 DEF VerifiedRemains
  <2> QED
    BY <2>1, <2>2
<1> QED
  BY <1>4, <1>5, <1>6, <1>7 DEF RemainsInv

\* When fewer than Keep scripts of a person's end between the choice of a directory
\* and its prune, a whole backup that passed remains from the first one on,
\* whatever fails or dies (backup.py, prune).
THEOREM AVerifiedBackupRemains ==
  ASSUME MaxLate < Keep
  PROVE  RetentionSpec => []VerifiedRemains
<1>1. OwnInv /\ RemainsInv /\ [RetentionNext]_retentionVars => OwnInv' /\ RemainsInv'
  <2> SUFFICES ASSUME OwnInv, RemainsInv, [RetentionNext]_retentionVars
               PROVE  OwnInv' /\ RemainsInv'
    OBVIOUS
  <2>1. CASE UNCHANGED retentionVars
    BY <2>1 DEF retentionVars, dirs, job, hist, RemainsInv, RetentionTypeOK, ChoiceInv, Newer,
         SettledInv, VerifiedRemains, OwnInv
  <2>2. CASE RetentionNext
    BY <2>2, OwnInvNext, PersonBeginsRemains, PersonEndsRemains, NightRemains, NightDiesRemains
       DEF RetentionNext
  <2> QED
    BY <2>1, <2>2
<1>2. RemainsInv => VerifiedRemains
  BY DEF RemainsInv
<1> QED
  BY <1>1, <1>2, OwnInvInit, RemainsInit, PTL DEF RetentionSpec

-----------------------------------------------------------------------------
(* DailyBackup.                                                            *)

\* No file is older than the begin: not a copy, nor, if the script saw no trouble,
\* a main file that the tar takes.
AsOld(f) == \A d \in Db : f[d] = Absent \/ f[d] >= begun[d]

RestorableInv ==
  /\ exists \subseteq Db
  /\ data \in [Db -> Nat] /\ main \in [Db -> Nat]
  /\ begun \in [Db -> Nat \union {Absent}]
  /\ copies \in [Db -> Nat \union {Absent}] /\ packed \in [Db -> Nat \union {Absent}]
  /\ step \in {"idle", "copy", "inventory", "pack", "state", "verify", "done"}
  /\ flaws \subseteq Flaws
  /\ \A d \in Db : main[d] <= data[d] /\ begun[d] <= data[d]
  /\ \A d \in Db \ exists : d \notin Suffixed => main[d] = data[d]
  /\ step = "idle" => \A d \in Db : begun[d] = Absent
  /\ step \in {"idle", "copy"} => \A d \in Db : copies[d] = Absent
  /\ step \in {"idle", "copy", "inventory", "pack"} => \A d \in Db : packed[d] = Absent
  /\ AsOld(copies)
  /\ step = "pack" /\ dbOk => \A d \in Db \ Suffixed : main[d] >= begun[d]
  /\ step \in {"pack", "state", "verify"} /\ dbOk => AsOld(packed)
  /\ step \notin {"verify", "done"} => claim # "yes"
  /\ claim = "yes" => dbOk /\ flaws \intersect SeenByScript = {}
  /\ step # "done" => verdict # "PASS"
  /\ PassMeansRestorable

LEMMA RestorableInvInit == BackupInit => RestorableInv
BY DailyBackupAssumption DEF BackupInit, RestorableInv, AsOld, Absent, PassMeansRestorable, Db

\* What the verification demands of the parts of a backup and of its databases.
LEMMA VerifiedIsSound ==
  ASSUME flaws \subseteq Flaws, Verified, flaws \intersect SeenByScript = {}
  PROVE  flaws = {} /\ \A d \in exists : copies[d] # Absent \/ packed[d] # Absent
<1>1. "no manifest" \notin flaws
  BY DEF Verified, Report
<1>2. flaws \intersect {"archives", "unreadable"} = {}
  BY <1>1 DEF Verified, Report
<1>3. Manifest /\ Archive /\ DbInventory /\ "roots" \notin flaws
  <2>1. /\ <<"manifest", Manifest>> \in Report /\ <<"archive", Archive>> \in Report
        /\ <<"db_inventory", DbInventory>> \in Report
    BY <1>1, <1>2 DEF Report
  <2>2. Manifest
    BY <2>1 DEF Verified
  <2>3. Archive
    BY <2>1 DEF Verified
  <2>4. DbInventory
    BY <2>1 DEF Verified
  <2>5. ASSUME "roots" \in flaws PROVE FALSE
    <3>1. <<"restore", FALSE>> \in Report
      BY <1>1, <1>2, <2>5 DEF Report
    <3> QED
      BY <3>1 DEF Verified
  <2> QED
    BY <2>2, <2>3, <2>4, <2>5
<1>4. RestoreContent /\ RestorePermissions /\ HostState /\ RestoreCritical
  <2>1. /\ <<"restore_content", RestoreContent>> \in Report
        /\ <<"restore_permissions", RestorePermissions>> \in Report
        /\ <<"host_state", HostState>> \in Report
        /\ <<"restore_critical_paths", RestoreCritical>> \in Report
    BY <1>1, <1>2, <1>3 DEF Report
  <2>2. RestoreContent
    BY <2>1 DEF Verified
  <2>3. RestorePermissions
    BY <2>1 DEF Verified
  <2>4. HostState
    BY <2>1 DEF Verified
  <2>5. RestoreCritical
    BY <2>1 DEF Verified
  <2> QED
    BY <2>2, <2>3, <2>4, <2>5
<1>5. flaws = {}
  BY <1>1, <1>2, <1>3, <1>4
     DEF Manifest, Archive, RestoreContent, RestorePermissions, HostState, RestoreCritical, Flaws, Host
<1>6. \A d \in exists : copies[d] # Absent \/ packed[d] # Absent
  BY <1>3 DEF DbInventory, Missing, Found, Copied, InTar
<1> QED
  BY <1>5, <1>6

LEMMA RestorableInvNext == RestorableInv /\ [BackupNext]_backupVars => RestorableInv'
<1> SUFFICES ASSUME RestorableInv, [BackupNext]_backupVars PROVE RestorableInv'
  OBVIOUS
<1> USE DEF RestorableInv, AsOld, PassMeansRestorable, Absent
<1>1. ASSUME step \notin {"verify", "done"}, NEW d \in Db, Commit(d) PROVE RestorableInv'
  BY <1>1 DEF Commit, made
<1>2. ASSUME step \notin {"verify", "done"}, NEW d \in Db, Checkpoint(d) PROVE RestorableInv'
  BY <1>2 DEF Checkpoint, made
<1>3. ASSUME step \notin {"verify", "done"}, NEW d \in Db, Appear(d) PROVE RestorableInv'
  BY <1>3 DEF Appear, made
<1>4. ASSUME step \notin {"verify", "done"}, NEW d \in Db, Vanish(d) PROVE RestorableInv'
  BY <1>4 DEF Vanish, made
<1>5. CASE BeginScript
  BY <1>5 DEF BeginScript, home
<1>6. CASE CopyDatabases
  BY <1>6 DEF CopyDatabases, home
<1>7. CASE Inventory
  <2>1. ASSUME dbOk', NEW d \in Db \ Suffixed PROVE main[d] >= begun[d]
    <3>1. /\ exists \intersect Strange = {} /\ Cold \subseteq exists
          /\ \A c \in Cold : ~Wal(c)
      BY <1>7, <2>1 DEF Inventory
    <3>2. main[d] \in Nat /\ data[d] \in Nat /\ main[d] <= data[d] /\ begun[d] <= data[d]
      BY <2>1
    <3>3. begun[d] \in Int
      BY <2>1
    <3>4. CASE d \in Cold
      BY <3>1, <3>2, <3>3, <3>4 DEF Wal
    <3>5. CASE d \in Strange
      BY <2>1, <3>1, <3>2, <3>3, <3>5
    <3> QED
      BY <2>1, <3>4, <3>5, DailyBackupAssumption DEF Db
  <2> QED
    BY <1>7, <2>1 DEF Inventory, home
<1>8. CASE Pack
  BY <1>8 DEF Pack, home
<1>9. CASE WriteState
  <2>1. flaws' \subseteq Flaws
    BY <1>9 DEF WriteState
  <2> QED
    BY <1>9, <2>1 DEF WriteState, home
<1>10. CASE ScriptTimesOut
  BY <1>10 DEF ScriptTimesOut, home, Flaws
<1>11. CASE Judge
  <2>1. CASE verdict' = "PASS"
    <3>1. claim = "yes" /\ Verified /\ step = "verify" /\ step' = "done" /\ UNCHANGED <<home, made>>
      BY <1>11, <2>1 DEF Judge
    <3>2. flaws = {} /\ \A d \in exists : copies[d] # Absent \/ packed[d] # Absent
      BY <3>1, VerifiedIsSound
    <3>3. \A d \in exists : Restored(d) # Absent /\ Restored(d) >= begun[d]
      BY <3>1, <3>2 DEF Restored
    <3> QED
      BY <3>1, <3>2, <3>3 DEF home, made, Restored
  <2>2. CASE verdict' # "PASS"
    BY <1>11, <2>2 DEF Judge, home, made
  <2> QED
    BY <2>1, <2>2
<1>12. CASE UNCHANGED backupVars
  BY <1>12 DEF backupVars, home, made, Restored
<1> QED
  BY <1>1, <1>2, <1>3, <1>4, <1>5, <1>6, <1>7, <1>8, <1>9, <1>10, <1>11, <1>12
     DEF BackupNext, HomeWorks

\* However the home goes on working while it is copied, and wherever the script
\* stops, a backup that passes gives back every database, none older than when the
\* backup began, and all the rest (backup.py, run_backup_a; verify.py).
THEOREM PassedBackupsRestore == BackupSpec => []PassMeansRestorable
<1>1. RestorableInv => PassMeansRestorable
  BY DEF RestorableInv
<1> QED
  BY <1>1, RestorableInvInit, RestorableInvNext, PTL DEF BackupSpec

-----------------------------------------------------------------------------
(* Outbox.                                                                 *)

\* The flushes that hold a notice, and those that may still send a copy of it.
Holders(n) == {p \in Flusher : n \in todo[p]}
Pending(n) == {p \in Holders(n) : ~(flush[p] = "sent" /\ First(p, n))}

\* Rows are numbered in order, so that a flush has one first row at most.
TrayInv ==
  /\ id \in [Notice -> Nat] /\ sent \subseteq Queued
  /\ \A n \in Notice : id[n] <= Cardinality(Queued)
  /\ \A n, m \in Queued : id[n] = id[m] => n = m
  /\ todo \in [Flusher -> SUBSET Queued]
  /\ flush \in [Flusher -> {"idle", "send", "sent", "failed"}]
  /\ \A p \in Flusher : flush[p] = "idle" => todo[p] = {}
  /\ arrived \in [Notice -> Nat] /\ excuses \in [Notice -> Nat]
  /\ \A p \in Flusher, n \in Notice : flush[p] = "sent" /\ First(p, n) => arrived[n] > 0

\* Copies that have come and may still come are one more than the excuses at most,
\* and none more while the row is open and nobody holds it.
CopiesInv ==
  \A n \in Notice :
    /\ arrived[n] + Cardinality(Pending(n)) <= 1 + excuses[n]
    /\ Holders(n) = {} /\ n \notin sent => arrived[n] <= excuses[n]

LEMMA PendingIsFinite ==
  ASSUME NEW n \in Notice
  PROVE  /\ IsFiniteSet(Pending(n)) /\ Cardinality(Pending(n)) \in Nat
         /\ \A p \in Pending(n) : Cardinality(Pending(n) \ {p}) = Cardinality(Pending(n)) - 1
         /\ \A p : p \notin Pending(n) => Cardinality(Pending(n) \union {p}) = Cardinality(Pending(n)) + 1
<1>1. IsFiniteSet(Pending(n))
  BY OutboxAssumption, FS_Subset DEF Pending, Holders
<1>2. \A p \in Pending(n) : Cardinality(Pending(n) \ {p}) = Cardinality(Pending(n)) - 1
  BY <1>1, FS_RemoveElement
<1>3. \A p : p \notin Pending(n) => Cardinality(Pending(n) \union {p}) = Cardinality(Pending(n)) + 1
  BY <1>1, FS_AddElement
<1> QED
  BY <1>1, <1>2, <1>3, FS_CardinalityType

LEMMA FirstIsUnique ==
  ASSUME TrayInv, NEW p \in Flusher, NEW n \in Notice, NEW m \in Notice, First(p, n), First(p, m)
  PROVE  n = m
<1>1. n \in todo[p] /\ m \in todo[p] /\ id[n] <= id[m] /\ id[m] <= id[n]
  BY DEF First
<1>2. n \in Queued /\ m \in Queued /\ id[n] \in Nat /\ id[m] \in Nat
  BY <1>1 DEF TrayInv
<1> QED
  BY <1>1, <1>2 DEF TrayInv

LEMMA TrayInvNext == TrayInv /\ [OutboxNext]_outboxVars => TrayInv'
<1> SUFFICES ASSUME TrayInv, [OutboxNext]_outboxVars PROVE TrayInv'
  OBVIOUS
<1>1. ASSUME NEW n \in Notice, Enqueue(n) PROVE TrayInv'
  <2>1. /\ n \notin Queued /\ id' = [id EXCEPT ![n] = Cardinality(Queued) + 1]
        /\ UNCHANGED <<sent, attempts, todo, flush, arrived, excuses>>
    BY <1>1 DEF Enqueue
  <2>2. IsFiniteSet(Queued) /\ Cardinality(Queued) \in Nat
    BY OutboxAssumption, FS_Subset, FS_CardinalityType DEF Queued
  <2>3. Queued' = Queued \union {n}
    <3>1. \A m \in Notice : id'[m] = IF m = n THEN Cardinality(Queued) + 1 ELSE id[m]
      BY <2>1 DEF TrayInv
    <3>2. Cardinality(Queued) + 1 # 0
      BY <2>2
    <3> QED
      BY <3>1, <3>2 DEF Queued
  <2>4. Cardinality(Queued') = Cardinality(Queued) + 1
    BY <2>1, <2>2, <2>3, FS_AddElement
  <2>5. \A m \in Queued : id'[m] = id[m] /\ id[m] < id'[n]
    BY <2>1, <2>2 DEF TrayInv, Queued
  <2>6. \A p \in Flusher, m \in Notice : First(p, m)' => First(p, m)
    BY <2>1, <2>5 DEF First, TrayInv
  <2> QED
    BY <2>1, <2>2, <2>3, <2>4, <2>5, <2>6 DEF TrayInv
<1>2. ASSUME NEW p \in Flusher, StartFlush(p) PROVE TrayInv'
  <2>1. /\ id' = id /\ sent' = sent /\ arrived' = arrived /\ flush' = [flush EXCEPT ![p] = "send"]
        /\ todo' = [todo EXCEPT ![p] = Unsent] /\ excuses' \in [Notice -> Nat]
    BY <1>2 DEF StartFlush, rows, TrayInv
  <2>2. Queued' = Queued /\ Unsent \subseteq Queued
    BY <2>1 DEF Queued, Unsent
  <2> QED
    BY <2>1, <2>2 DEF TrayInv, First
<1>3. ASSUME NEW p \in Flusher, NEW n \in Notice, First(p, n), NEW ok \in BOOLEAN, Tried(p, ok),
             UNCHANGED <<rows, todo>>, arrived' \in [Notice -> Nat], excuses' \in [Notice -> Nat],
             \A m \in Notice : arrived'[m] >= arrived[m], ok => arrived'[n] > 0
      PROVE  TrayInv'
  <2>1. id' = id /\ sent' = sent /\ Queued' = Queued
    BY <1>3 DEF rows, Queued
  <2>2. \A q \in Flusher, m \in Notice : First(q, m)' = First(q, m)
    BY <1>3, <2>1 DEF First
  <2>3. \A q \in Flusher : q # p => flush'[q] = flush[q]
    BY <1>3 DEF Tried, TrayInv
  <2>4. flush' \in [Flusher -> {"idle", "send", "sent", "failed"}] /\ flush'[p] # "idle"
        /\ (flush'[p] = "sent" => ok)
    BY <1>3 DEF Tried, TrayInv
  <2>5. \A m \in Notice : First(p, m) => m = n
    BY <1>3, FirstIsUnique
  <2>6. \A q \in Flusher, m \in Notice : flush'[q] = "sent" /\ First(q, m)' => arrived'[m] > 0
    BY <1>3, <2>2, <2>3, <2>4, <2>5 DEF TrayInv
  <2> QED
    BY <1>3, <2>1, <2>3, <2>4, <2>6 DEF TrayInv
<1>4. ASSUME NEW p \in Flusher, Delivered(p) \/ Refused(p) \/ DeliveredLate(p) PROVE TrayInv'
  <2>1. CASE Delivered(p)
    <3>1. PICK n \in Notice :
            /\ First(p, n) /\ Tried(p, TRUE) /\ UNCHANGED <<rows, todo, excuses>>
            /\ arrived' = [arrived EXCEPT ![n] = @ + 1]
      BY <2>1 DEF Delivered
    <3>2. /\ arrived' \in [Notice -> Nat] /\ excuses' \in [Notice -> Nat]
          /\ \A m \in Notice : arrived'[m] >= arrived[m]
          /\ arrived'[n] > 0
      BY <3>1 DEF TrayInv
    <3> QED
      BY <1>3, <3>1, <3>2
  <2>2. CASE Refused(p)
    <3>1. PICK n \in Notice : First(p, n) /\ Tried(p, FALSE) /\ UNCHANGED <<rows, todo, arrived, excuses>>
      BY <2>2 DEF Refused
    <3>2. /\ arrived' \in [Notice -> Nat] /\ excuses' \in [Notice -> Nat]
          /\ \A m \in Notice : arrived'[m] >= arrived[m]
      BY <3>1 DEF TrayInv
    <3> QED
      BY <1>3, <3>1, <3>2
  <2>3. CASE DeliveredLate(p)
    <3>1. PICK n \in Notice :
            /\ First(p, n) /\ Tried(p, FALSE) /\ UNCHANGED <<rows, todo>>
            /\ arrived' = [arrived EXCEPT ![n] = @ + 1] /\ excuses' = [excuses EXCEPT ![n] = @ + 1]
      BY <2>3 DEF DeliveredLate
    <3>2. /\ arrived' \in [Notice -> Nat] /\ excuses' \in [Notice -> Nat]
          /\ \A m \in Notice : arrived'[m] >= arrived[m]
      BY <3>1 DEF TrayInv
    <3> QED
      BY <1>3, <3>1, <3>2
  <2> QED
    BY <1>4, <2>1, <2>2, <2>3
<1>5. ASSUME NEW p \in Flusher, MarkSent(p) \/ MarkFailed(p) PROVE TrayInv'
  <2>1. PICK n \in Notice :
          /\ First(p, n) /\ Advance(p, n) /\ UNCHANGED <<id, arrived, excuses>>
          /\ sent' = sent \/ sent' = sent \union {n}
    BY <1>5 DEF MarkSent, MarkFailed
  <2>2. n \in Queued /\ Queued' = Queued
    BY <2>1 DEF First, TrayInv, Queued
  <2>3. /\ todo' \in [Flusher -> SUBSET Queued]
        /\ flush' \in [Flusher -> {"idle", "send", "sent", "failed"}]
        /\ \A q \in Flusher : flush'[q] = "idle" => todo'[q] = {}
        /\ \A q \in Flusher : flush'[q] = "sent" => q # p
        /\ \A q \in Flusher : q # p => todo'[q] = todo[q] /\ flush'[q] = flush[q]
    BY <2>1, <2>2 DEF Advance, TrayInv
  <2>4. \A q \in Flusher, m \in Notice : flush'[q] = "sent" /\ First(q, m)' => flush[q] = "sent" /\ First(q, m)
    BY <2>1, <2>3 DEF First
  <2> QED
    BY <2>1, <2>2, <2>3, <2>4 DEF TrayInv
<1>6. ASSUME NEW p \in Flusher, FlushDies(p) PROVE TrayInv'
  <2>1. /\ id' = id /\ sent' = sent /\ arrived' = arrived /\ Queued' = Queued
        /\ excuses' \in [Notice -> Nat]
        /\ todo' = [todo EXCEPT ![p] = {}] /\ flush' = [flush EXCEPT ![p] = "idle"]
    BY <1>6 DEF FlushDies, rows, TrayInv, Queued
  <2>2. \A q \in Flusher, m \in Notice : flush'[q] = "sent" /\ First(q, m)' => flush[q] = "sent" /\ First(q, m)
    BY <2>1 DEF First, TrayInv
  <2> QED
    BY <2>1, <2>2 DEF TrayInv
<1>7. CASE UNCHANGED outboxVars
  BY <1>7 DEF outboxVars, rows, TrayInv, First, Queued
<1> QED
  BY <1>1, <1>2, <1>4, <1>5, <1>6, <1>7 DEF OutboxNext, Flush

LEMMA OutboxInvInit == OutboxInit => TrayInv /\ CopiesInv
<1> SUFFICES ASSUME OutboxInit PROVE TrayInv /\ CopiesInv
  OBVIOUS
<1>1. Queued = {} /\ \A n \in Notice : Pending(n) = {}
  BY DEF OutboxInit, Queued, Pending, Holders
<1>2. Cardinality({}) = 0
  BY FS_EmptySet
<1> QED
  BY <1>1, <1>2 DEF OutboxInit, TrayInv, CopiesInv, First

\* One try: the flush may have no copy more to send, or as many as before.
LEMMA TryKeepsPending ==
  ASSUME TrayInv, NEW p \in Flusher, NEW n \in Notice, First(p, n), flush[p] = "send",
         NEW ok \in BOOLEAN, Tried(p, ok), UNCHANGED <<rows, todo>>
  PROVE  /\ p \in Pending(n)
         /\ Pending(n)' = IF ok THEN Pending(n) \ {p} ELSE Pending(n)
         /\ \A m \in Notice : Holders(m)' = Holders(m)
         /\ \A m \in Notice : m # n => Pending(m)' = Pending(m)
<1>1. \A q \in Flusher, m \in Notice : First(q, m)' = First(q, m)
  BY DEF First, rows
<1>2. \A m \in Notice : Holders(m)' = Holders(m)
  BY DEF Holders
<1>3. /\ \A q \in Flusher : q # p => flush'[q] = flush[q]
      /\ flush'[p] = "sent" <=> ok
  BY DEF Tried, TrayInv
<1>4. \A m \in Notice : m # n => ~First(p, m)
  BY FirstIsUnique
<1>5. p \in Pending(n)
  BY DEF Pending, Holders, First
<1>6. ASSUME NEW m \in Notice, m # n PROVE Pending(m)' = Pending(m)
  <2>1. ASSUME NEW q \in Holders(m)
        PROVE  (flush'[q] = "sent" /\ First(q, m)') <=> (flush[q] = "sent" /\ First(q, m))
    <3>1. q \in Flusher
      BY DEF Holders
    <3>2. CASE q = p
      BY <1>1, <1>4, <1>6, <3>2
    <3>3. CASE q # p
      BY <1>1, <1>3, <3>1, <3>3
    <3> QED
      BY <3>2, <3>3
  <2>2. Holders(m)' = Holders(m)
    BY <1>2
  <2> QED
    BY <2>1, <2>2 DEF Pending
<1>7. Pending(n)' = IF ok THEN Pending(n) \ {p} ELSE Pending(n)
  <2>1. ASSUME NEW q \in Holders(n)
        PROVE  (flush'[q] = "sent" /\ First(q, n)') <=>
                 (IF q = p THEN ok ELSE flush[q] = "sent" /\ First(q, n))
    <3>1. q \in Flusher
      BY DEF Holders
    <3>2. CASE q = p
      BY <1>1, <1>3, <3>2
    <3>3. CASE q # p
      BY <1>1, <1>3, <3>1, <3>3
    <3> QED
      BY <3>2, <3>3
  <2>2. Holders(n)' = Holders(n)
    BY <1>2
  <2>3. CASE ok
    BY <2>1, <2>2, <2>3 DEF Pending
  <2>4. CASE ~ok
    BY <2>1, <2>2, <2>4 DEF Pending
  <2> QED
    BY <2>3, <2>4
<1> QED
  BY <1>2, <1>5, <1>6, <1>7

LEMMA CopiesInvNext == TrayInv /\ TrayInv' /\ CopiesInv /\ [OutboxNext]_outboxVars => CopiesInv'
<1> SUFFICES ASSUME TrayInv, TrayInv', CopiesInv, [OutboxNext]_outboxVars, NEW n \in Notice
             PROVE  /\ arrived'[n] + Cardinality(Pending(n)') <= 1 + excuses'[n]
                    /\ Holders(n)' = {} /\ n \notin sent' => arrived'[n] <= excuses'[n]
  BY DEF CopiesInv
<1>0. /\ arrived[n] \in Nat /\ excuses[n] \in Nat
      /\ arrived[n] + Cardinality(Pending(n)) <= 1 + excuses[n]
      /\ Holders(n) = {} /\ n \notin sent => arrived[n] <= excuses[n]
  BY DEF CopiesInv, TrayInv
<1>1. ASSUME NEW m \in Notice, Enqueue(m)
      PROVE  Pending(n)' = Pending(n) /\ UNCHANGED <<sent, arrived, excuses, todo>>
  <2>1. /\ m \notin Queued /\ id' = [id EXCEPT ![m] = Cardinality(Queued) + 1]
        /\ UNCHANGED <<sent, attempts, todo, flush, arrived, excuses>>
    BY <1>1 DEF Enqueue
  <2>2. \A k \in Queued : id'[k] = id[k]
    BY <2>1 DEF TrayInv, Queued
  <2>3. \A p \in Holders(n) : First(p, n)' = First(p, n)
    BY <2>1, <2>2 DEF First, Holders, TrayInv
  <2> QED
    BY <2>1, <2>3 DEF Pending, Holders
<1>2. ASSUME NEW p \in Flusher, StartFlush(p)
      PROVE  /\ arrived'[n] + Cardinality(Pending(n)') <= 1 + excuses'[n]
             /\ Holders(n)' = {} /\ n \notin sent' => arrived'[n] <= excuses'[n]
  <2>1. /\ todo[p] = {} /\ arrived' = arrived /\ sent' = sent /\ id' = id
        /\ flush' = [flush EXCEPT ![p] = "send"] /\ todo' = [todo EXCEPT ![p] = Unsent]
        /\ excuses'[n] = IF n \in Unsent /\ Holders(n) # {} THEN excuses[n] + 1 ELSE excuses[n]
    BY <1>2 DEF StartFlush, TrayInv, rows, Holders
  <2>2. \A q \in Flusher : q # p => First(q, n)' = First(q, n) /\ flush'[q] = flush[q] /\ todo'[q] = todo[q]
    BY <2>1 DEF First, TrayInv
  <2>3. CASE n \in Unsent
    <3>1. p \notin Pending(n) /\ Pending(n)' = Pending(n) \union {p} /\ p \in Holders(n)'
      BY <2>1, <2>2, <2>3 DEF Pending, Holders, TrayInv
    <3>2. Cardinality(Pending(n)') = Cardinality(Pending(n)) + 1 /\ Cardinality(Pending(n)) \in Nat
      BY <3>1, PendingIsFinite
    <3>3. Holders(n) = {} => Cardinality(Pending(n)) = 0 /\ arrived[n] <= excuses[n]
      BY <1>0, <2>3, FS_EmptySet DEF Pending, Unsent
    <3> QED
      BY <1>0, <2>1, <2>3, <3>1, <3>2, <3>3
  <2>4. CASE n \notin Unsent
    <3>1. Pending(n)' = Pending(n) /\ Holders(n)' = Holders(n)
      BY <2>1, <2>2, <2>4 DEF Pending, Holders, TrayInv
    <3> QED
      BY <1>0, <2>1, <2>4, <3>1
  <2> QED
    BY <2>3, <2>4
<1>3. ASSUME NEW p \in Flusher, Delivered(p)
      PROVE  /\ arrived'[n] + Cardinality(Pending(n)') <= 1 + excuses'[n]
             /\ Holders(n)' = {} /\ n \notin sent' => arrived'[n] <= excuses'[n]
  <2>1. PICK m \in Notice :
          /\ flush[p] = "send" /\ First(p, m) /\ Tried(p, TRUE) /\ UNCHANGED <<rows, todo, excuses>>
          /\ arrived' = [arrived EXCEPT ![m] = @ + 1]
    BY <1>3 DEF Delivered
  <2>2. /\ p \in Pending(m) /\ Pending(m)' = Pending(m) \ {p} /\ Holders(n)' = Holders(n)
        /\ n # m => Pending(n)' = Pending(n)
    BY <2>1, TryKeepsPending
  <2>3. CASE n = m
    <3>1. Cardinality(Pending(n)') = Cardinality(Pending(n)) - 1 /\ Cardinality(Pending(n)) \in Nat
      BY <2>2, <2>3, PendingIsFinite
    <3>2. arrived'[n] = arrived[n] + 1 /\ excuses' = excuses
      BY <2>1, <2>3 DEF TrayInv
    <3>3. Holders(n)' # {}
      BY <2>2, <2>3 DEF Pending
    <3> QED
      BY <1>0, <3>1, <3>2, <3>3
  <2>4. CASE n # m
    <3>1. arrived'[n] = arrived[n] /\ excuses' = excuses /\ sent' = sent
      BY <2>1, <2>4 DEF TrayInv, rows
    <3> QED
      BY <1>0, <2>2, <2>4, <3>1
  <2> QED
    BY <2>3, <2>4
<1>4. ASSUME NEW p \in Flusher, Refused(p)
      PROVE  Pending(n)' = Pending(n) /\ Holders(n)' = Holders(n) /\ UNCHANGED <<sent, arrived, excuses>>
  <2>1. PICK m \in Notice :
          /\ flush[p] = "send" /\ First(p, m) /\ Tried(p, FALSE) /\ UNCHANGED <<rows, todo, arrived, excuses>>
    BY <1>4 DEF Refused
  <2>2. Pending(m)' = Pending(m) /\ Holders(n)' = Holders(n) /\ (n # m => Pending(n)' = Pending(n))
    BY <2>1, TryKeepsPending
  <2> QED
    BY <2>1, <2>2 DEF rows
<1>5. ASSUME NEW p \in Flusher, DeliveredLate(p)
      PROVE  /\ Pending(n)' = Pending(n) /\ Holders(n)' = Holders(n) /\ sent' = sent
             /\ arrived'[n] - arrived[n] = excuses'[n] - excuses[n] /\ arrived'[n] \in Nat /\ excuses'[n] \in Nat
  <2>1. PICK m \in Notice :
          /\ flush[p] = "send" /\ First(p, m) /\ Tried(p, FALSE) /\ UNCHANGED <<rows, todo>>
          /\ arrived' = [arrived EXCEPT ![m] = @ + 1] /\ excuses' = [excuses EXCEPT ![m] = @ + 1]
    BY <1>5 DEF DeliveredLate
  <2>2. Pending(m)' = Pending(m) /\ Holders(n)' = Holders(n) /\ (n # m => Pending(n)' = Pending(n))
    BY <2>1, TryKeepsPending
  <2>3. arrived'[n] - arrived[n] = excuses'[n] - excuses[n] /\ arrived'[n] \in Nat /\ excuses'[n] \in Nat
    BY <1>0, <2>1 DEF TrayInv
  <2> QED
    BY <2>1, <2>2, <2>3 DEF rows
<1>6. ASSUME NEW p \in Flusher, NEW m \in Notice, First(p, m), Advance(p, m), n # m,
             UNCHANGED <<id, arrived, excuses>>
      PROVE  Pending(n)' = Pending(n) /\ Holders(n)' = Holders(n)
  <2>1. /\ \A q \in Flusher : q # p => todo'[q] = todo[q] /\ flush'[q] = flush[q]
        /\ todo'[p] = todo[p] \ {m} /\ flush'[p] # "sent"
    BY <1>6 DEF Advance, TrayInv
  <2>2. ~First(p, n)
    BY <1>6, FirstIsUnique
  <2>3. \A q \in Flusher : q # p => First(q, n)' = First(q, n)
    BY <1>6, <2>1 DEF First
  <2>4. Holders(n)' = Holders(n)
    BY <1>6, <2>1 DEF Holders
  <2>5. ASSUME NEW q \in Holders(n)
        PROVE  (flush'[q] = "sent" /\ First(q, n)') <=> (flush[q] = "sent" /\ First(q, n))
    BY <2>1, <2>2, <2>3 DEF Holders
  <2>6. Pending(n)' = Pending(n)
    BY <2>4, <2>5 DEF Pending
  <2> QED
    BY <2>4, <2>6
<1>7. ASSUME NEW p \in Flusher, First(p, n), Advance(p, n), UNCHANGED <<id, arrived, excuses>>
      PROVE  Pending(n)' = Pending(n) \ {p} /\ Holders(n)' = Holders(n) \ {p} /\ p \in Holders(n)
  <2>1. /\ \A q \in Flusher : q # p => todo'[q] = todo[q] /\ flush'[q] = flush[q]
        /\ todo'[p] = todo[p] \ {n}
    BY <1>7 DEF Advance, TrayInv
  <2>2. \A q \in Flusher : q # p => First(q, n)' = First(q, n)
    BY <1>7, <2>1 DEF First
  <2>3. Holders(n)' = Holders(n) \ {p} /\ p \in Holders(n)
    BY <1>7, <2>1 DEF Holders, First
  <2> QED
    BY <2>1, <2>2, <2>3 DEF Pending, Holders
<1>8. ASSUME NEW p \in Flusher, MarkSent(p)
      PROVE  /\ arrived'[n] + Cardinality(Pending(n)') <= 1 + excuses'[n]
             /\ Holders(n)' = {} /\ n \notin sent' => arrived'[n] <= excuses'[n]
  <2>1. PICK m \in Notice : /\ flush[p] = "sent" /\ First(p, m) /\ Advance(p, m)
                            /\ sent' = sent \union {m} /\ UNCHANGED <<id, arrived, excuses>>
    BY <1>8 DEF MarkSent
  <2>2. CASE n = m
    <3>1. p \notin Pending(n) /\ Pending(n)' = Pending(n)
      BY <1>7, <2>1, <2>2 DEF Pending
    <3> QED
      BY <1>0, <2>1, <2>2, <3>1
  <2>3. CASE n # m
    BY <1>0, <1>6, <2>1, <2>3
  <2> QED
    BY <2>2, <2>3
<1>9. ASSUME NEW p \in Flusher, MarkFailed(p)
      PROVE  /\ arrived'[n] + Cardinality(Pending(n)') <= 1 + excuses'[n]
             /\ Holders(n)' = {} /\ n \notin sent' => arrived'[n] <= excuses'[n]
  <2>1. PICK m \in Notice : /\ flush[p] = "failed" /\ First(p, m) /\ Advance(p, m)
                            /\ sent' = sent /\ UNCHANGED <<id, arrived, excuses>>
    BY <1>9 DEF MarkFailed
  <2>2. CASE n = m
    <3>1. p \in Pending(n) /\ Pending(n)' = Pending(n) \ {p}
      BY <1>7, <2>1, <2>2 DEF Pending
    <3>2. Cardinality(Pending(n)') = Cardinality(Pending(n)) - 1 /\ Cardinality(Pending(n)') \in Nat
          /\ Cardinality(Pending(n)) \in Nat
      BY <3>1, PendingIsFinite, FS_RemoveElement, FS_CardinalityType
    <3> QED
      BY <1>0, <2>1, <3>2
  <2>3. CASE n # m
    BY <1>0, <1>6, <2>1, <2>3
  <2> QED
    BY <2>2, <2>3
<1>10. ASSUME NEW p \in Flusher, FlushDies(p)
       PROVE  /\ arrived'[n] + Cardinality(Pending(n)') <= 1 + excuses'[n]
              /\ Holders(n)' = {} /\ n \notin sent' => arrived'[n] <= excuses'[n]
  <2>1. /\ id' = id /\ sent' = sent /\ arrived' = arrived
        /\ todo' = [todo EXCEPT ![p] = {}] /\ flush' = [flush EXCEPT ![p] = "idle"]
        /\ excuses'[n] = IF flush[p] = "sent" /\ First(p, n) THEN excuses[n] + 1 ELSE excuses[n]
    BY <1>10 DEF FlushDies, rows, TrayInv
  <2>2. \A q \in Flusher : q # p => First(q, n)' = First(q, n) /\ flush'[q] = flush[q] /\ todo'[q] = todo[q]
    BY <2>1 DEF First, TrayInv
  <2>3. Holders(n)' = Holders(n) \ {p} /\ Pending(n)' = Pending(n) \ {p}
    BY <2>1, <2>2 DEF Holders, Pending, TrayInv
  <2>4. CASE p \in Pending(n)
    <3>1. Cardinality(Pending(n)') = Cardinality(Pending(n)) - 1 /\ Cardinality(Pending(n)') \in Nat
          /\ Cardinality(Pending(n)) \in Nat
      BY <2>3, <2>4, PendingIsFinite, FS_RemoveElement, FS_CardinalityType
    <3> QED
      BY <1>0, <2>1, <3>1
  <2>5. CASE p \notin Pending(n)
    <3>1. Pending(n)' = Pending(n) /\ Cardinality(Pending(n)) \in Nat
      BY <2>3, <2>5, PendingIsFinite
    <3>2. p \in Holders(n) => flush[p] = "sent" /\ First(p, n)
      BY <2>5 DEF Pending
    <3>3. CASE p \in Holders(n)
      BY <1>0, <2>1, <3>1, <3>2, <3>3
    <3>4. CASE p \notin Holders(n)
      <4>1. Holders(n)' = Holders(n)
        BY <2>3, <3>4
      <4>2. excuses'[n] \in {excuses[n], excuses[n] + 1}
        BY <2>1
      <4> QED
        BY <1>0, <2>1, <3>1, <4>1, <4>2
    <3> QED
      BY <3>3, <3>4
  <2> QED
    BY <2>4, <2>5
<1>11. CASE UNCHANGED outboxVars
  BY <1>0, <1>11 DEF outboxVars, rows, Pending, Holders, First
<1>12. Cardinality(Pending(n)) \in Nat
  BY PendingIsFinite
<1>13. ASSUME Pending(n)' = Pending(n), Holders(n)' = Holders(n), sent' = sent,
              arrived'[n] - arrived[n] = excuses'[n] - excuses[n],
              arrived'[n] \in Nat, excuses'[n] \in Nat
       PROVE  /\ arrived'[n] + Cardinality(Pending(n)') <= 1 + excuses'[n]
              /\ Holders(n)' = {} /\ n \notin sent' => arrived'[n] <= excuses'[n]
  BY <1>0, <1>12, <1>13
<1>14. ASSUME NEW m \in Notice, Enqueue(m)
       PROVE  /\ arrived'[n] + Cardinality(Pending(n)') <= 1 + excuses'[n]
              /\ Holders(n)' = {} /\ n \notin sent' => arrived'[n] <= excuses'[n]
  BY <1>0, <1>1, <1>14 DEF Holders
<1>15. ASSUME NEW p \in Flusher, Refused(p)
       PROVE  /\ arrived'[n] + Cardinality(Pending(n)') <= 1 + excuses'[n]
              /\ Holders(n)' = {} /\ n \notin sent' => arrived'[n] <= excuses'[n]
  BY <1>0, <1>4, <1>15
<1>16. ASSUME NEW p \in Flusher, DeliveredLate(p)
       PROVE  /\ arrived'[n] + Cardinality(Pending(n)') <= 1 + excuses'[n]
              /\ Holders(n)' = {} /\ n \notin sent' => arrived'[n] <= excuses'[n]
  BY <1>5, <1>13, <1>16
<1> QED
  BY <1>2, <1>3, <1>8, <1>9, <1>10, <1>11, <1>14, <1>15, <1>16 DEF OutboxNext, Flush

LEMMA OutboxInvHolds == OutboxSpec => [](TrayInv /\ CopiesInv)
BY OutboxInvInit, TrayInvNext, CopiesInvNext, PTL DEF OutboxSpec

\* However many flushes overlap, and wherever one dies, each copy too many of a
\* notice has its excuse (notify.py, flush).
THEOREM CopiesAreAlwaysExcused == OutboxSpec => []CopiesAreExcused
<1>1. TrayInv /\ CopiesInv => CopiesAreExcused
  <2> SUFFICES ASSUME TrayInv, CopiesInv, NEW n \in Notice PROVE arrived[n] <= 1 + excuses[n]
    BY DEF CopiesAreExcused
  <2>1. Cardinality(Pending(n)) \in Nat /\ arrived[n] \in Nat /\ excuses[n] \in Nat
    BY PendingIsFinite DEF TrayInv
  <2> QED
    BY <2>1 DEF CopiesInv
<1> QED
  BY <1>1, OutboxInvHolds, PTL

\* Every step of the tray is a step of Delivery or none that it can see.
LEMMA OutboxNextImplements ==
  ASSUME TrayInv, [OutboxNext]_outboxVars
  PROVE  [D!Next]_D!vars
<1> DEFINE Left == {n \in Notice : arrived[n] > 0}
<1>1. ASSUME NEW n \in Notice, Enqueue(n) PROVE D!Next
  <2>1. /\ n \notin Queued /\ id' = [id EXCEPT ![n] = Cardinality(Queued) + 1]
        /\ UNCHANGED <<sent, arrived>>
    BY <1>1 DEF Enqueue
  <2>2. Cardinality(Queued) + 1 # 0
    BY OutboxAssumption, FS_Subset, FS_CardinalityType DEF Queued
  <2>3. \A m \in Notice : id'[m] = IF m = n THEN Cardinality(Queued) + 1 ELSE id[m]
    BY <2>1 DEF TrayInv
  <2>4. Queued' = Queued \union {n}
    BY <2>2, <2>3 DEF Queued
  <2> QED
    BY <2>1, <2>4 DEF D!Next, D!Accept
<1>2. ASSUME NEW p \in Flusher, Delivered(p) \/ DeliveredLate(p) PROVE D!Next
  <2>1. PICK n \in Notice : /\ First(p, n) /\ arrived' = [arrived EXCEPT ![n] = @ + 1]
                            /\ UNCHANGED rows
    BY <1>2 DEF Delivered, DeliveredLate
  <2>2. n \in Queued /\ Queued' = Queued /\ sent' = sent
    BY <2>1 DEF First, TrayInv, Queued, rows
  <2>3. Left' = Left \union {n}
    BY <2>1 DEF TrayInv
  <2> QED
    BY <2>2, <2>3 DEF D!Next, D!Deliver
<1>3. ASSUME NEW p \in Flusher, MarkSent(p) PROVE D!Next
  <2>1. PICK n \in Notice : /\ flush[p] = "sent" /\ First(p, n) /\ sent' = sent \union {n}
                            /\ UNCHANGED <<id, arrived>>
    BY <1>3 DEF MarkSent
  <2>2. arrived[n] > 0 /\ Queued' = Queued
    BY <2>1 DEF TrayInv, Queued
  <2> QED
    BY <2>1, <2>2 DEF D!Next, D!Settle
<1>4. ASSUME NEW p \in Flusher, StartFlush(p) \/ Refused(p) \/ MarkFailed(p) \/ FlushDies(p)
      PROVE  UNCHANGED D!vars
  BY <1>4 DEF StartFlush, Refused, MarkFailed, FlushDies, rows, Queued, D!vars
<1>5. CASE UNCHANGED outboxVars
  BY <1>5 DEF outboxVars, rows, Queued, D!vars
<1> QED
  BY <1>1, <1>2, <1>3, <1>4, <1>5 DEF OutboxNext, Flush

\* The tray implements what it promises, Delivery: a row is closed only after its
\* notice left, and none is forgotten (notify.py, flush; store.py, mark_sent).
THEOREM OutboxIsDelivery == OutboxSpec => ImplementsDelivery
<1>1. OutboxInit => D!Init
  BY DEF OutboxInit, D!Init, Queued
<1>2. TrayInv /\ [OutboxNext]_outboxVars => [D!Next]_D!vars
  BY OutboxNextImplements
<1> QED
  BY <1>1, <1>2, OutboxInvHolds, PTL DEF OutboxSpec, ImplementsDelivery, D!Spec

-----------------------------------------------------------------------------
(* Types, in each component and in the composition that the run checks.    *)

LEMMA AuxTypesInit == AuxInit => AuxTypeOK
<1> SUFFICES ASSUME AuxInit PROVE AuxTypeOK
  OBVIOUS
<1> USE AuxiliaryAssumption
<1>1. /\ 1 \in Versions /\ Broken \in Installations /\ Working(1) \in Installations
      /\ [installed |-> 0, available |-> 0] \in [installed : {0} \union Versions,
                                                 available : {0} \union Versions]
      /\ Nothing.verdict = "none" /\ Nothing.rolledBack = "none"
  BY DEF Broken, Working, Nothing, Installations, Versions
<1>2. /\ kind \in Kinds /\ product = Working(1) /\ latest = 1 /\ aux = "idle"
      /\ copyOf = [v \in Versions |-> Missed] /\ auxNights = 0 /\ auxFaults = 0
  BY DEF AuxInit
<1>3. /\ pv = [installed |-> 0, available |-> 0] /\ point = Broken /\ rcOk = FALSE
      /\ answer = Broken /\ result = Nothing /\ lost = FALSE
  BY DEF AuxInit, NothingFound
<1>4. copyOf \in [Versions -> Installations \union {Missed}]
  BY <1>2
<1>5. 0 \in 0 .. MaxAuxNights /\ 0 \in 0 .. MaxAuxFaults
  OBVIOUS
<1> QED
  BY <1>1, <1>2, <1>3, <1>4, <1>5 DEF AuxTypeOK

LEMMA AuxTypesNext == AuxTypeOK /\ [AuxNext]_auxVars => AuxTypeOK'
<1> SUFFICES ASSUME AuxTypeOK, [AuxNext]_auxVars PROVE AuxTypeOK'
  OBVIOUS
<1> USE AuxiliaryAssumption
<1>0. /\ Broken \in Installations
      /\ [installed |-> 0, available |-> 0] \in [installed : {0} \union Versions,
                                                 available : {0} \union Versions]
      /\ Nothing.verdict = "none" /\ Nothing.rolledBack = "none"
  BY DEF Broken, Installations, Nothing
<1>1. CASE Release
  <2>1. latest \in Nat /\ latest' \in Versions
    BY <1>1 DEF Release, AuxTypeOK, Versions
  <2> QED
    BY <1>1, <2>1 DEF Release, AuxTypeOK, found
<1>2. CASE SelfUpdate
  <2>1. Working(latest) \in Installations
    BY DEF AuxTypeOK, Working, Installations, Versions
  <2> QED
    BY <1>2, <2>1 DEF SelfUpdate, AuxTypeOK, found
<1>3. CASE Discover
  <2>1. product.v \in {0} \union Versions
    BY DEF AuxTypeOK, Installations
  <2>2. pv' \in [installed : {0} \union Versions, available : {0} \union Versions]
    BY <1>3, <2>1 DEF Discover, AuxTypeOK
  <2> QED
    BY <1>3, <2>2 DEF Discover, AuxTypeOK
<1>4. CASE NoUpdate \/ Succeed \/ FailUnchanged \/ Back
  <2>1. /\ UNCHANGED <<kind, product, copyOf, latest, pv, point, rcOk, answer, lost, auxNights,
                       auxFaults>>
        /\ aux' = "done"
        /\ result'.verdict \in {"PASS", "DEFERRED", "INSUFFICIENT_DATA", "FAIL"}
        /\ result'.rolledBack \in {"none", "yes", "no"}
    BY <1>4 DEF NoUpdate, Succeed, FailUnchanged, Back, End
  <2> QED
    BY <2>1 DEF AuxTypeOK
<1>5. CASE RecoveryLink
  BY <1>0, <1>5 DEF RecoveryLink, AuxTypeOK
<1>6. CASE RecoveryCopy
  <2>1. pv.installed \in Versions
    BY <1>6 DEF RecoveryCopy, Updatable, AuxTypeOK
  <2>2. point' \in Installations
    BY <1>6, <2>1 DEF RecoveryCopy, AuxTypeOK
  <2>3. copyOf' \in [Versions -> Installations \union {Missed}]
    BY <1>6, <2>1, <2>2 DEF RecoveryCopy, AuxTypeOK
  <2> QED
    BY <1>6, <2>2, <2>3 DEF RecoveryCopy, AuxTypeOK
<1>7. CASE RecoveryCopyFails
  <2>1. copyOf' \in [Versions -> Installations \union {Missed}]
    BY <1>0, <1>7 DEF RecoveryCopyFails, AuxTypeOK
  <2>2. /\ aux' = "done" /\ result'.verdict = "raised" /\ result'.rolledBack = "none"
        /\ UNCHANGED <<kind, product, latest, pv, point, rcOk, answer, lost, auxNights>>
        /\ auxFaults < MaxAuxFaults /\ auxFaults' = auxFaults + 1
    BY <1>7 DEF RecoveryCopyFails, End, Fault
  <2> QED
    BY <2>1, <2>2 DEF AuxTypeOK
<1>8. CASE RunUpdater \/ Ask
  BY <1>8 DEF RunUpdater, Ask, AuxTypeOK
<1>9. CASE Restore
  <2>1. product' \in Installations /\ aux' = "back" /\ lost' \in BOOLEAN
    BY <1>9 DEF Restore, AuxTypeOK
  <2>2. auxFaults' \in 0 .. MaxAuxFaults
    BY <1>9 DEF Restore, Fault, AuxTypeOK
  <2> QED
    BY <1>9, <2>1, <2>2 DEF Restore, AuxTypeOK
<1>10. CASE NextNight
  BY <1>0, <1>10 DEF NextNight, Forget, AuxTypeOK
<1>11. CASE AuxDies
  <2>1. product' \in Installations
    BY <1>11 DEF AuxDies, AuxTypeOK
  <2>2. auxFaults' \in 0 .. MaxAuxFaults
    BY <1>11 DEF AuxDies, Fault, AuxTypeOK
  <2> QED
    BY <1>0, <1>11, <2>1, <2>2 DEF AuxDies, Forget, AuxTypeOK
<1>12. CASE UNCHANGED auxVars
  BY <1>12 DEF auxVars, found, AuxTypeOK
<1> QED
  BY <1>1, <1>2, <1>3, <1>4, <1>5, <1>6, <1>7, <1>8, <1>9, <1>10, <1>11, <1>12
     DEF AuxNext, UpdateOne

\* A directory of which state.json says something is a finished one, so that a prune
\* never removes what a script still writes to; the types of the rest follow.
DirsInv ==
  /\ RetentionTypeOK
  /\ \A n \in Names : claims[n] # "none" => n \in (1 .. lastName) \ writing
  /\ ran.name \in {0} \union 1 .. lastName
  /\ night \in {"judge", "prune"} => taken \in 1 .. lastName

LEMMA DirsInit == RetentionInit => DirsInv
BY DEF RetentionInit, NoJob, DirsInv, RetentionTypeOK

\* A script that ends says what it likes of its own directory.
LEMMA EndsTypes ==
  ASSUME DirsInv, NEW n \in 1 .. lastName, Ends(n)
  PROVE  /\ claims' \in [Names -> {"none", "yes", "no"}] /\ whole' \in [Names -> BOOLEAN]
         /\ writing' \subseteq there
         /\ \A m \in Names : claims'[m] # "none" => m \in (1 .. lastName) \ writing'
<1>1. PICK c \in {"yes", "no"}, w \in BOOLEAN :
        claims' = [claims EXCEPT ![n] = c] /\ whole' = [whole EXCEPT ![n] = w]
  BY DEF Ends
<1>2. writing' = writing \ {n} /\ n \in Names
  BY DEF Ends, DirsInv, RetentionTypeOK, Names
<1> QED
  BY <1>1, <1>2 DEF DirsInv, RetentionTypeOK

LEMMA DirsNext == OwnInv /\ DirsInv /\ [RetentionNext]_retentionVars => DirsInv'
<1> SUFFICES ASSUME OwnInv, DirsInv, [RetentionNext]_retentionVars PROVE DirsInv'
  OBVIOUS
<1>0. /\ RetentionTypeOK /\ lastName \in Nat /\ 1 .. lastName \subseteq Names
      /\ ran.name \in {0} \union 1 .. lastName
      /\ \A n \in Names : claims[n] # "none" => n \in (1 .. lastName) \ writing
  BY DEF DirsInv, RetentionTypeOK, Names
<1>1. CASE PersonBegins
  <2>1. /\ lastName + 1 \in Names /\ lastName' = lastName + 1
        /\ there' = there \union {lastName + 1} /\ writing' = writing \union {lastName + 1}
        /\ byHand' = byHand \union {lastName + 1}
        /\ UNCHANGED <<claims, whole, owned, night, before, ran, taken, scan, newest, judged,
                       removed, dead>>
        /\ met' \subseteq byHand'
    BY <1>0, <1>1 DEF PersonBegins, MakeDirectory, job, RetentionTypeOK
  <2> QED
    BY <1>0, <2>1 DEF DirsInv, RetentionTypeOK, Names
<1>2. CASE PersonEnds
  <2>1. PICK n \in writing \intersect byHand : Ends(n)
    BY <1>2 DEF PersonEnds
  <2>2. n \in 1 .. lastName
    BY <1>0 DEF RetentionTypeOK
  <2>3. UNCHANGED <<lastName, byHand, there, owned, night, before, ran, taken, scan, newest,
                    judged, met, removed, dead>>
    BY <1>2 DEF PersonEnds, job, hist
  <2> QED
    BY <1>0, <2>1, <2>2, <2>3, EndsTypes DEF DirsInv, RetentionTypeOK
<1>3. CASE ScriptBegins
  <2>1. /\ lastName + 1 \in Names /\ lastName' = lastName + 1
        /\ there' = there \union {lastName + 1} /\ writing' = writing \union {lastName + 1}
        /\ ran' = [ran EXCEPT !.name = lastName + 1] /\ night = "script"
        /\ UNCHANGED <<byHand, claims, whole, owned, night, before, taken, scan, newest, judged,
                       met, removed, dead>>
    BY <1>3 DEF ScriptBegins, MakeDirectory, hist
  <2>2. ran' \in [name : {0} \union Names, ok : BOOLEAN] /\ ran'.name = lastName + 1
    BY <1>0, <2>1 DEF RetentionTypeOK
  <2> QED
    BY <1>0, <2>1, <2>2 DEF DirsInv, RetentionTypeOK, Names
<1>4. CASE ScriptEnds \/ ScriptFails
  <2>1. /\ night' = "list" /\ ran'.name = ran.name
        /\ ran' \in [name : {0} \union Names, ok : BOOLEAN]
        /\ UNCHANGED <<lastName, byHand, there, owned, before, taken, scan, newest, judged, met,
                       removed, dead>>
    BY <1>0, <1>4 DEF ScriptEnds, ScriptFails, RetentionTypeOK, job, hist
  <2>2. \/ ran.name \in 1 .. lastName /\ Ends(ran.name)
        \/ writing' = writing \ {ran.name} /\ UNCHANGED <<claims, whole>>
    BY <1>0, <1>4 DEF ScriptEnds, ScriptFails
  <2>3. /\ claims' \in [Names -> {"none", "yes", "no"}] /\ whole' \in [Names -> BOOLEAN]
        /\ writing' \subseteq there
        /\ \A m \in Names : claims'[m] # "none" => m \in (1 .. lastName) \ writing'
    BY <1>0, <2>2, EndsTypes DEF RetentionTypeOK
  <2> QED
    BY <1>0, <2>1, <2>3 DEF DirsInv, RetentionTypeOK
<1>5. CASE NothingNew \/ EndPrune \/ JudgeFails
  <2>1. /\ UNCHANGED <<dirs, hist>> /\ owned' \in {owned, owned \union {taken}}
        /\ owned' # owned => night = "judge"
        /\ night' = "idle" /\ ran' = [name |-> 0, ok |-> FALSE]
        /\ before' = {} /\ taken' = 0 /\ scan' = {} /\ newest' = 0
    BY <1>5 DEF NothingNew, EndPrune, JudgeFails, EndNight
  <2>2. ran' \in [name : {0} \union Names, ok : BOOLEAN] /\ ran'.name = 0
    BY <2>1
  <2>3. owned \subseteq owned' /\ owned' \subseteq 1 .. lastName
    BY <1>0, <2>1 DEF DirsInv, RetentionTypeOK
  <2> QED
    BY <1>0, <2>1, <2>2, <2>3 DEF DirsInv, RetentionTypeOK, dirs, hist
<1>6. CASE BeginNight
  BY <1>0, <1>6 DEF BeginNight, DirsInv, RetentionTypeOK, dirs, hist
<1>7. CASE Adopt
  <2>1. taken' \in there /\ night' = "judge"
        /\ UNCHANGED <<dirs, owned, before, ran, scan, newest, hist>>
    BY <1>7 DEF Adopt, NewDirs
  <2> QED
    BY <1>0, <2>1 DEF DirsInv, RetentionTypeOK, dirs, hist
<1>8. CASE JudgePasses
  <2>1. /\ taken \in 1 .. lastName /\ night' = "prune"
        /\ owned' = owned \union {taken} /\ judged' = judged \union {taken}
        /\ UNCHANGED <<dirs, job, met, removed, dead>>
    BY <1>8 DEF JudgePasses, DirsInv
  <2> QED
    BY <1>0, <2>1 DEF DirsInv, RetentionTypeOK, dirs, job
<1>9. CASE BeginPrune
  <2>1. /\ night' = "delete" /\ newest' = Max(Claimed) /\ Claimed # {}
        /\ scan' \subseteq there
        /\ UNCHANGED <<dirs, owned, before, ran, taken, hist>>
    BY <1>9 DEF BeginPrune
  <2>2. Claimed \in SUBSET (0 .. lastName) /\ Claimed \subseteq 1 .. lastName
    <3>1. there \subseteq 1 .. lastName /\ Claimed \subseteq there
      BY <1>0 DEF RetentionTypeOK, Claimed
    <3> QED
      BY <1>0, <3>1
  <2>3. Max(Claimed) \in Claimed
    BY <1>0, <2>1, <2>2, GreatestExists
  <2> QED
    BY <1>0, <2>1, <2>2, <2>3 DEF DirsInv, RetentionTypeOK, dirs, hist
<1>10. CASE Skip
  BY <1>0, <1>10 DEF Skip, DirsInv, RetentionTypeOK, dirs, hist
<1>11. CASE Remove
  <2>1. PICK n \in scan :
          /\ ~Spared(n) /\ scan' = scan \ {n}
          /\ there' = there \ {n} /\ removed' = removed \union {n}
    BY <1>11 DEF Remove
  <2>2. UNCHANGED <<lastName, byHand, writing, claims, whole, owned, night, before, ran, taken,
                    newest, judged, met, dead>>
    BY <1>11 DEF Remove
  <2>3. n \in there /\ n \in Names /\ n \notin writing /\ n \in owned
    BY <1>0, <2>1 DEF Spared, RetentionTypeOK, OwnInv
  <2> QED
    BY <1>0, <2>1, <2>2, <2>3 DEF DirsInv, RetentionTypeOK
<1>12. CASE NightDies
  <2>1. /\ night' = "idle" /\ ran' = [name |-> 0, ok |-> FALSE]
        /\ before' = {} /\ taken' = 0 /\ scan' = {} /\ newest' = 0
        /\ dead < MaxNightDeaths /\ dead' = dead + 1 /\ writing' = writing \ {ran.name}
        /\ UNCHANGED <<lastName, byHand, there, owned, judged, met, removed>>
    BY <1>12 DEF NightDies, EndNight
  <2>2. /\ claims' \in [Names -> {"none", "yes", "no"}] /\ whole' \in [Names -> BOOLEAN]
        /\ \A m \in Names : claims'[m] # "none" => claims[m] # "none"
    <3>1. CASE UNCHANGED <<claims, whole>>
      BY <1>0, <3>1 DEF RetentionTypeOK
    <3>2. CASE ~UNCHANGED <<claims, whole>>
      <4>1. PICK n \in scan, c \in {"none", "kept"} :
              /\ whole' = [whole EXCEPT ![n] = FALSE]
              /\ claims' = IF c = "kept" THEN claims ELSE [claims EXCEPT ![n] = "none"]
        BY <1>12, <3>2 DEF NightDies
      <4>2. claims' = claims \/ claims' = [claims EXCEPT ![n] = "none"]
        BY <4>1
      <4> QED
        BY <1>0, <4>1, <4>2 DEF RetentionTypeOK
    <3> QED
      BY <3>1, <3>2
  <2>3. ran' \in [name : {0} \union Names, ok : BOOLEAN] /\ ran'.name = 0
    BY <2>1
  <2>4. dead' \in 0 .. MaxNightDeaths
    BY <1>0, <2>1 DEF RetentionTypeOK
  <2> QED
    BY <1>0, <2>1, <2>2, <2>3, <2>4 DEF DirsInv, RetentionTypeOK
<1>13. CASE UNCHANGED retentionVars
  BY <1>13 DEF retentionVars, dirs, job, hist, DirsInv, RetentionTypeOK
<1> QED
  BY <1>1, <1>2, <1>3, <1>4, <1>5, <1>6, <1>7, <1>8, <1>9, <1>10, <1>11, <1>12, <1>13
     DEF RetentionNext, Night

LEMMA BackupTypesNext ==
  RestorableInv /\ BackupTypeOK /\ [BackupNext]_backupVars => BackupTypeOK'
<1> SUFFICES ASSUME RestorableInv, BackupTypeOK, [BackupNext]_backupVars PROVE BackupTypeOK'
  OBVIOUS
<1>1. RestorableInv'
  BY RestorableInvNext
<1>2. dbOk' \in BOOLEAN /\ claim' \in {"none", "yes", "no"} /\ verdict' \in {"none", "PASS", "FAIL"}
  <2>1. CASE \E d \in Db : Commit(d) \/ Checkpoint(d) \/ Appear(d) \/ Vanish(d)
    BY <2>1 DEF Commit, Checkpoint, Appear, Vanish, made, BackupTypeOK
  <2>2. CASE BeginScript \/ CopyDatabases \/ Inventory \/ Pack
    BY <2>2 DEF BeginScript, CopyDatabases, Inventory, Pack, BackupTypeOK
  <2>3. CASE WriteState \/ ScriptTimesOut \/ Judge
    BY <2>3 DEF WriteState, ScriptTimesOut, Judge, made, BackupTypeOK
  <2>4. CASE UNCHANGED backupVars
    BY <2>4 DEF backupVars, made, BackupTypeOK
  <2> QED
    BY <2>1, <2>2, <2>3, <2>4 DEF BackupNext, HomeWorks
<1> QED
  BY <1>1, <1>2 DEF RestorableInv, BackupTypeOK

\* What a flush has tried is within its retries, because it sends only while it has
\* one left.
TriesInv ==
  /\ OutboxTypeOK
  /\ \A p \in Flusher : /\ flush[p] = "send" => tries[p] < Retries
                        /\ flush[p] = "idle" => tries[p] = 0

LEMMA TriesInit == OutboxInit => TriesInv
BY OutboxAssumption DEF OutboxInit, OutboxTypeOK, TriesInv, Queued

LEMMA TriesNext == TrayInv /\ TriesInv /\ [OutboxNext]_outboxVars => TriesInv'
<1> SUFFICES ASSUME TrayInv, TriesInv, [OutboxNext]_outboxVars PROVE TriesInv'
  OBVIOUS
<1> USE OutboxAssumption
<1>1. TrayInv'
  BY TrayInvNext
<1>2. /\ attempts' \in [Notice -> Nat] /\ tries' \in [Flusher -> 0 .. Retries]
      /\ \A p \in Flusher : /\ flush'[p] = "send" => tries'[p] < Retries
                            /\ flush'[p] = "idle" => tries'[p] = 0
  <2>1. ASSUME NEW n \in Notice, Enqueue(n) PROVE UNCHANGED <<attempts, tries, flush>>
    BY <2>1 DEF Enqueue
  <2>2. ASSUME NEW p \in Flusher, StartFlush(p)
        PROVE  UNCHANGED <<attempts, tries>> /\ flush' = [flush EXCEPT ![p] = "send"] /\ tries[p] = 0
    BY <2>2 DEF StartFlush, rows, TriesInv
  <2>3. ASSUME NEW p \in Flusher, Delivered(p) \/ Refused(p) \/ DeliveredLate(p)
        PROVE  /\ attempts' = attempts /\ tries[p] < Retries /\ tries[p] \in Nat
               /\ tries' = [tries EXCEPT ![p] = @ + 1]
               /\ flush'[p] \in {"sent", "send", "failed"}
               /\ flush'[p] = "send" => tries[p] + 1 < Retries
               /\ \A q \in Flusher \ {p} : flush'[q] = flush[q]
    <3>1. flush[p] = "send" /\ UNCHANGED rows /\ \E ok \in BOOLEAN : Tried(p, ok)
      BY <2>3 DEF Delivered, Refused, DeliveredLate
    <3>2. tries[p] < Retries /\ tries[p] \in Nat
      BY <3>1 DEF TriesInv, OutboxTypeOK
    <3>3. tries' = [tries EXCEPT ![p] = @ + 1] /\ tries'[p] = tries[p] + 1
      BY <3>1 DEF Tried, TriesInv, OutboxTypeOK
    <3>4. /\ flush'[p] \in {"sent", "send", "failed"}
          /\ flush'[p] = "send" => tries'[p] < Retries
          /\ \A q \in Flusher \ {p} : flush'[q] = flush[q]
      BY <3>1 DEF Tried, TriesInv, OutboxTypeOK
    <3> QED
      BY <3>1, <3>2, <3>3, <3>4 DEF rows
  <2>4. ASSUME NEW p \in Flusher, MarkSent(p) \/ MarkFailed(p)
        PROVE  /\ attempts' \in [Notice -> Nat] /\ tries' = [tries EXCEPT ![p] = 0]
               /\ \A q \in Flusher \ {p} : flush'[q] = flush[q]
    <3>1. PICK n \in Notice : Advance(p, n) /\ attempts' = [attempts EXCEPT ![n] = @ + 1]
      BY <2>4 DEF MarkSent, MarkFailed
    <3> QED
      BY <3>1 DEF Advance, TriesInv, OutboxTypeOK
  <2>5. ASSUME NEW p \in Flusher, FlushDies(p)
        PROVE  /\ attempts' = attempts /\ tries' = [tries EXCEPT ![p] = 0]
               /\ \A q \in Flusher \ {p} : flush'[q] = flush[q]
    BY <2>5 DEF FlushDies, rows, TriesInv, OutboxTypeOK
  <2>6. CASE UNCHANGED outboxVars
    BY <2>6 DEF outboxVars, rows, TriesInv, OutboxTypeOK
  <2>7. CASE OutboxNext
    <3>1. attempts \in [Notice -> Nat] /\ tries \in [Flusher -> 0 .. Retries]
          /\ flush \in [Flusher -> {"idle", "send", "sent", "failed"}]
          /\ \A p \in Flusher : /\ flush[p] = "send" => tries[p] < Retries
                                /\ flush[p] = "idle" => tries[p] = 0
      BY DEF TriesInv, OutboxTypeOK
    <3> QED
      BY <2>1, <2>2, <2>3, <2>4, <2>5, <2>7, <3>1 DEF OutboxNext, Flush
  <2> QED
    BY <2>6, <2>7
<1>3. faults' \in 0 .. MaxFaults /\ deaths' \in 0 .. MaxFlushDeaths
  <2>1. ASSUME NEW p \in Flusher, Refused(p) \/ DeliveredLate(p) PROVE faults' \in 0 .. MaxFaults
    <3>1. PICK n \in Notice : SendFault(n)
      BY <2>1 DEF Refused, DeliveredLate
    <3> QED
      BY <3>1 DEF SendFault, TriesInv, OutboxTypeOK
  <2>2. ASSUME NEW p \in Flusher, Refused(p) \/ DeliveredLate(p) PROVE deaths' = deaths
    BY <2>2 DEF Refused, DeliveredLate
  <2>3. ASSUME NEW p \in Flusher, FlushDies(p)
        PROVE faults' = faults /\ deaths' \in 0 .. MaxFlushDeaths
    BY <2>3 DEF FlushDies, TriesInv, OutboxTypeOK
  <2>4. ASSUME \/ \E n \in Notice : Enqueue(n)
               \/ \E p \in Flusher : StartFlush(p) \/ Delivered(p) \/ MarkSent(p) \/ MarkFailed(p)
               \/ UNCHANGED outboxVars
        PROVE  UNCHANGED <<faults, deaths>>
    BY <2>4 DEF Enqueue, StartFlush, Delivered, MarkSent, MarkFailed, outboxVars
  <2> QED
    BY <2>1, <2>2, <2>3, <2>4 DEF OutboxNext, Flush, TriesInv, OutboxTypeOK
<1>4. todo' \in [Flusher -> SUBSET Notice]
  BY <1>1 DEF TrayInv, Queued
<1> QED
  BY <1>1, <1>2, <1>3, <1>4 DEF TriesInv, OutboxTypeOK, TrayInv

-----------------------------------------------------------------------------
LEMMA StoresParts == Spec => OutboxSpec /\ BackupSpec /\ RetentionSpec /\ AuxSpec
<1>1. Init => OutboxInit /\ BackupInit /\ RetentionInit /\ AuxInit
  BY DEF Init
<1>2. [Next]_vars => /\ [OutboxNext]_outboxVars /\ [BackupNext]_backupVars
                     /\ [RetentionNext]_retentionVars /\ [AuxNext]_auxVars
  BY DEF Next, vars
<1> QED
  BY <1>1, <1>2, PTL DEF Spec, OutboxSpec, BackupSpec, RetentionSpec, AuxSpec

LEMMA BackupTypesInit == BackupInit => BackupTypeOK
BY DailyBackupAssumption DEF BackupInit, BackupTypeOK, Absent, Db

\* In every state that the stores reach, each of their variables has its type.
THEOREM StoresKeepTheirTypes == Spec => []StoresTypeOK
<1>1. OutboxSpec => []TriesInv
  BY OutboxInvHolds, TriesInit, TriesNext, PTL DEF OutboxSpec
<1>2. BackupSpec => []BackupTypeOK
  BY RestorableInvInit, RestorableInvNext, BackupTypesInit, BackupTypesNext, PTL DEF BackupSpec
<1>3. RetentionSpec => []DirsInv
  BY OwnInvInit, OwnInvNext, DirsInit, DirsNext, PTL DEF RetentionSpec
<1>4. AuxSpec => []AuxTypeOK
  BY AuxTypesInit, AuxTypesNext, PTL DEF AuxSpec
<1>5. TriesInv /\ BackupTypeOK /\ DirsInv /\ AuxTypeOK => StoresTypeOK
  BY DEF TriesInv, DirsInv, StoresTypeOK
<1> QED
  BY <1>1, <1>2, <1>3, <1>4, <1>5, StoresParts, PTL
=============================================================================
