------------------------- MODULE Orchestrator_proofs ------------------------
(***************************************************************************)
(* Proofs about Orchestrator, for any set of invocations, any policy, any  *)
(* lifetimes and any bound on versions, candidates, runs, approvals,       *)
(* revocations, manual rollbacks and deaths: an approval deploys at most   *)
(* once, what is deployed was authorised, and a pair that a deployment     *)
(* reverted is not deployed again.                                         *)
(*                                                                         *)
(* SingleUse is not inductive.  Two facts make it so (ConsumedFirst): a    *)
(* process between the lock and its release is the holder of the lock, so  *)
(* no other one can be about to deploy; and the code that it is about to   *)
(* deploy was consumed by it and never deployed.                           *)
(***************************************************************************)
EXTENDS Orchestrator, TLAPS

USE OrchestratorAssumption

\* Time has begun, and an open row says whose it is.
Owned == clock # 0 /\ (run.id # 0 => run.by \in Procs)

Inv == TypeOK /\ ConsumedFirst /\ SingleUse /\ Owned

\* An invocation is started, by hand or by the path unit.
Starts == \E p \in Procs : ByHand(p) \/ StartApply(p)

-----------------------------------------------------------------------------
(* Types of the updates that several steps make.                           *)

\* The newest pending candidate is one of the codes, or none.
LEMMA PendingIsCode == PendingCandidate \in 0 .. MaxCandidates
  BY DEF PendingCandidate, Codes

\* The pair of a candidate is a pair of versions.
LEMMA PairTypes ==
  ASSUME TypeOK, NEW c \in Codes
  PROVE  Pair(c) \in Pairs /\ cand[c].source \in Versions /\ cand[c].target \in Versions
  BY DEF TypeOK, Candidates, Pair, Pairs

\* Setting the status of a candidate keeps the table a table.
LEMMA StatusTypes ==
  ASSUME TypeOK, NEW c \in Codes, NEW s \in CandidateStatuses, SetStatus(c, s)
  PROVE  cand' \in [Codes -> Candidates]
<1>1. [cand[c] EXCEPT !.status = s] \in Candidates
  BY DEF TypeOK, Candidates
<1> QED
  BY <1>1 DEF TypeOK, SetStatus

\* So does recording an attempt.
LEMMA AttemptTypes ==
  ASSUME TypeOK, NEW pair \in Pairs, NEW o \in AttemptOutcomes, Attempt(pair, o)
  PROVE  attempts' \in [Pairs -> [outcome: AttemptOutcomes, at: Times]]
  BY DEF TypeOK, Attempt

\* The local variables of a process.
LEMMA LocalTypes ==
  ASSUME TypeOK, NEW p \in Procs
  PROVE  /\ [my EXCEPT ![p] = NoLocals] \in [Procs -> Locals]
         /\ \A b \in BOOLEAN : [my EXCEPT ![p].pending = b] \in [Procs -> Locals]
         /\ \A k \in Kinds : [my EXCEPT ![p].kind = k] \in [Procs -> Locals]
         /\ \A k \in Kinds, c \in 0 .. MaxCandidates :
              [my EXCEPT ![p].kind = k, ![p].code = c] \in [Procs -> Locals]
         /\ \A c \in 0 .. MaxCandidates : [my EXCEPT ![p].code = c] \in [Procs -> Locals]
         /\ \A n \in Nat : [my EXCEPT ![p].run = n] \in [Procs -> Locals]
         /\ \A r \in DeployResults : [my EXCEPT ![p].result = r] \in [Procs -> Locals]
         /\ \A t, s \in Versions :
              [my EXCEPT ![p].target = t, ![p].source = s] \in [Procs -> Locals]
         /\ \A c \in 0 .. MaxCandidates :
              [my EXCEPT ![p].kind = "auto", ![p].code = c, ![p].pending = FALSE]
                \in [Procs -> Locals]
<1>1. NoLocals \in Locals
  BY DEF NoLocals, Locals, Kinds, DeployResults, Versions
<1>2. my \in [Procs -> Locals] /\ my[p] \in Locals
  BY DEF TypeOK
<1>3. ASSUME NEW b \in BOOLEAN PROVE [my[p] EXCEPT !.pending = b] \in Locals
  BY <1>2 DEF Locals
<1>8. ASSUME NEW k \in Kinds
      PROVE  /\ [my[p] EXCEPT !.kind = k] \in Locals
             /\ \A c \in 0 .. MaxCandidates : [[my[p] EXCEPT !.kind = k] EXCEPT !.code = c] \in Locals
  BY <1>2 DEF Locals
<1>4. ASSUME NEW c \in 0 .. MaxCandidates
      PROVE  /\ [my[p] EXCEPT !.code = c] \in Locals
             /\ [[[my[p] EXCEPT !.kind = "auto"] EXCEPT !.code = c] EXCEPT !.pending = FALSE]
                  \in Locals
  BY <1>2 DEF Locals, Kinds
<1>5. ASSUME NEW n \in Nat PROVE [my[p] EXCEPT !.run = n] \in Locals
  BY <1>2 DEF Locals
<1>6. ASSUME NEW r \in DeployResults PROVE [my[p] EXCEPT !.result = r] \in Locals
  BY <1>2 DEF Locals
<1>7. ASSUME NEW t \in Versions, NEW s \in Versions
      PROVE  [[my[p] EXCEPT !.target = t] EXCEPT !.source = s] \in Locals
  BY <1>2 DEF Locals
<1> QED
  BY <1>1, <1>2, <1>3, <1>4, <1>5, <1>6, <1>7, <1>8

\* What a process leaves undecided are candidates of the table, and the version it
\* leaves in production is one that a candidate names.
LEMMA LeavingTypes ==
  ASSUME TypeOK, ConsumedFirst, NEW p \in Procs
  PROVE  /\ Leave(p) \/ left' = left => left' \subseteq Codes
         /\ prod' \in WhatRemains(p) => prod' \in Versions
<1>1. left \subseteq Codes /\ prod \in Versions
  BY DEF TypeOK
<1>2. pc[p] = "changing" => my[p].code \in Codes
  BY DEF ConsumedFirst
<1> QED
  BY <1>1, <1>2, PairTypes DEF Leave, Holds, WhatRemains

\* A step of one process moves only its own program counter.
LEMMA GotoTypes ==
  ASSUME TypeOK, NEW p \in Procs, NEW from, NEW to \in Steps, Goto(p, from, to)
  PROVE  /\ pc' \in [Procs -> Steps] /\ pc'[p] = to /\ pc[p] = from
         /\ \A q \in Procs : q # p => pc'[q] = pc[q]
  BY DEF Goto, TypeOK

LEMMA InitTypes == Init => TypeOK
<1> SUFFICES ASSUME Init PROVE TypeOK
  OBVIOUS
<1>1. my \in [Procs -> Locals]
  BY DEF Init, NoLocals, Locals, Kinds, DeployResults, Versions
<1>2. cand \in [Codes -> Candidates]
  BY DEF Init, Candidates, CandidateStatuses, Versions
<1>3. run \in RunRows /\ revoking \in Revocations
  BY DEF Init, RunRows, NoRun, NotRevoking, Revocations
<1>4. attempts \in [Pairs -> [outcome: AttemptOutcomes, at: Times]]
  BY DEF Init, AttemptOutcomes, Times
<1>5. prod \in Versions /\ upstream \in Versions /\ clock \in Times
  BY DEF Init, Versions, Times
<1>6. /\ approvedAt \in [Codes -> Times] /\ consumed \in [Codes -> Times]
      /\ deployments \in [Codes -> Nat]
  BY DEF Init, Times
<1>7. pc \in [Procs -> Steps] /\ lock \in Procs \cup {"free"}
  BY DEF Init, Steps
<1> QED
  BY <1>1, <1>2, <1>3, <1>4, <1>5, <1>6, <1>7 DEF Init, TypeOK

-----------------------------------------------------------------------------
(* Every step keeps the types.                                             *)

\* The steps around the work: lock, reconciliation, row, end.
LEMMA GuardedTypes ==
  ASSUME Inv, NEW p \in Procs, Guarded(p)
  PROVE  TypeOK'
<1>0. {"idle", "lock", "reconcile", "open", "classify", "gate", "close", "auto"} \subseteq Steps
  BY DEF Steps
<1>1. CASE Acquire(p)
  <2>1. pc' \in [Procs -> Steps]
    BY <1>0, <1>1, GotoTypes DEF Inv, Acquire
  <2> QED
    BY <1>1, <2>1 DEF Inv, Acquire, TypeOK, store, outer, past, meter
<1>2. CASE FindBusy(p)
  <2>1. pc' \in [Procs -> Steps]
    BY <1>0, <1>2, GotoTypes DEF Inv, FindBusy
  <2>2. my' \in [Procs -> Locals]
    BY <1>2, LocalTypes DEF Inv, FindBusy, Forget
  <2>3. left' \subseteq Codes
    BY <1>2, LeavingTypes DEF Inv, FindBusy
  <2> QED
    BY <1>2, <2>1, <2>2, <2>3 DEF Inv, FindBusy, TypeOK, store, outer, meter
<1>3. CASE ReconcileRun(p)
  <2>1. pc' \in [Procs -> Steps]
    BY <1>0, <1>3, GotoTypes DEF Inv, ReconcileRun
  <2>2. run' \in RunRows
    BY <1>3 DEF ReconcileRun, RunRows, NoRun
  <2>3. prod' \in Versions /\ undone' \subseteq Pairs
    <3>1. CASE ~run.changing
      BY <1>3, <3>1 DEF Inv, TypeOK, ReconcileRun
    <3>2. CASE run.changing
      <4>1. run.code \in Codes
        BY <3>2 DEF Inv, TypeOK, ConsumedFirst
      <4> QED
        BY <1>3, <3>2, <4>1, PairTypes DEF Inv, TypeOK, ReconcileRun
    <3> QED
      BY <3>1, <3>2
  <2> QED
    BY <1>3, <2>1, <2>2, <2>3 DEF Inv, ReconcileRun, TypeOK, outer, meter
<1>4. CASE OpenRun(p)
  <2>1. pc' \in [Procs -> Steps]
    BY <1>0, <1>4, GotoTypes DEF Inv, OpenRun
  <2>2. run' \in RunRows /\ runs' \in Nat
    BY <1>4 DEF Inv, TypeOK, OpenRun, RunRows
  <2>3. my' \in [Procs -> Locals]
    <3>1. my[p].run \in Nat /\ runs + 1 \in Nat
      BY DEF Inv, TypeOK, Locals
    <3>2. PICK n \in Nat : my' = [my EXCEPT ![p].run = n]
      BY <1>4, <3>1 DEF OpenRun
    <3> QED
      BY <3>2, LocalTypes DEF Inv
  <2> QED
    BY <1>4, <2>1, <2>2, <2>3 DEF Inv, OpenRun, TypeOK, outer, past, meter
<1>5. CASE Close(p)
  <2>1. pc' \in [Procs -> Steps]
    BY <1>0, <1>5, GotoTypes DEF Inv, Close
  <2>2. run' \in RunRows
    BY <1>5 DEF Close, RunRows, NoRun
  <2>3. my' \in [Procs -> Locals]
    <3>1. my' = my \/ my' = [my EXCEPT ![p] = NoLocals]
      BY <1>5 DEF Close, Forget
    <3>2. my \in [Procs -> Locals]
      BY DEF Inv, TypeOK
    <3> QED
      BY <3>1, <3>2, LocalTypes DEF Inv
  <2> QED
    BY <1>5, <2>1, <2>2, <2>3 DEF Inv, Close, TypeOK, outer, past, meter
<1> QED
  BY <1>1, <1>2, <1>3, <1>4, <1>5 DEF Guarded

\* The nightly preparation.
LEMMA DailyTypes ==
  ASSUME Inv, NEW p \in Procs, Daily(p)
  PROVE  TypeOK'
<1>0. {"idle", "lock", "classify", "prepare", "save", "insert", "prepared", "close"}
        \subseteq Steps
  BY DEF Steps
<1>a. my[p] \in Locals /\ my[p].target \in Versions
      /\ my[p].source \in Versions /\ my[p].run \in Nat
  BY <1>0 DEF Inv, TypeOK, Locals
<1>b. <<my[p].target, my[p].source>> \in Pairs
  BY <1>a DEF Pairs
<1>1. CASE Classify(p)
  <2>1. pc' \in [Procs -> Steps]
    BY <1>0, <1>1, GotoTypes DEF Inv, Classify
  <2>2. my' \in [Procs -> Locals]
    <3>1. upstream \in Versions /\ prod \in Versions /\ my \in [Procs -> Locals]
      BY DEF Inv, TypeOK
    <3> QED
      BY <1>0, <1>1, <3>1, LocalTypes DEF Inv, Classify
  <2> QED
    BY <1>1, <2>1, <2>2 DEF Inv, Classify, TypeOK, store, outer, past, meter
<1>2. CASE Prepare(p)
  <2>1. pc' \in [Procs -> Steps]
    BY <1>0, <1>2, GotoTypes DEF Inv, Prepare
  <2> QED
    BY <1>2, <2>1 DEF Inv, Prepare, TypeOK, store, outer, past, meter
<1>3. CASE PrepareBlocks(p)
  <2>1. pc' \in [Procs -> Steps]
    BY <1>0, <1>3, GotoTypes DEF Inv, PrepareBlocks
  <2>2. attempts' \in [Pairs -> [outcome: AttemptOutcomes, at: Times]]
    <3>1. {"BLOCKED", "FAILED", "BACKUP_FAILED"} \subseteq AttemptOutcomes
      BY DEF AttemptOutcomes
    <3> QED
      BY <1>3, <1>b, <3>1, AttemptTypes DEF Inv, TypeOK, PrepareBlocks
  <2> QED
    BY <1>3, <2>1, <2>2 DEF Inv, PrepareBlocks, TypeOK, outer, past, meter
<1>4. CASE SaveCandidate(p)
  <2>1. pc' \in [Procs -> Steps]
    BY <1>0, <1>4, GotoTypes DEF Inv, SaveCandidate
  <2>2. cand' \in [Codes -> Candidates]
    <3>1. [status |-> "PENDING_APPROVAL", target |-> my[p].target,
           source |-> my[p].source, run |-> my[p].run,
           created |-> clock, expires |-> clock + CandidateTTL] \in Candidates
      BY <1>a DEF Inv, TypeOK, Candidates, CandidateStatuses, Times
    <3> QED
      BY <1>4, <3>1 DEF Inv, TypeOK, SaveCandidate
  <2> QED
    BY <1>4, <2>1, <2>2 DEF Inv, SaveCandidate, TypeOK, outer, past, meter
<1>5. CASE RecordPrepared(p)
  <2>1. pc' \in [Procs -> Steps]
    BY <1>0, <1>5, GotoTypes DEF Inv, RecordPrepared
  <2>2. attempts' \in [Pairs -> [outcome: AttemptOutcomes, at: Times]]
    BY <1>5, <1>b, AttemptTypes DEF Inv, RecordPrepared, AttemptOutcomes
  <2>3. my' \in [Procs -> Locals] /\ left' \subseteq Codes
    <3>1. PICK b \in BOOLEAN : /\ my' = [my EXCEPT ![p].pending = b]
                               /\ IF b THEN UNCHANGED left ELSE Leave(p)
      BY <1>5 DEF RecordPrepared, BackupDecides
    <3> QED
      BY <3>1, LocalTypes, LeavingTypes DEF Inv
  <2> QED
    BY <1>5, <2>1, <2>2, <2>3 DEF Inv, RecordPrepared, TypeOK, outer, meter
<1>6. CASE AutoApplies(p)
  <2>1. pc' \in [Procs -> Steps]
    BY <1>0, <1>6, GotoTypes DEF Inv, AutoApplies
  <2>2. my' \in [Procs -> Locals]
    BY <1>0, <1>6, LocalTypes, PendingIsCode DEF Inv, AutoApplies
  <2> QED
    BY <1>6, <2>1, <2>2 DEF Inv, AutoApplies, TypeOK, store, outer, past, meter
<1>7. CASE SupersedePending(p)
  <2>1. pc' \in [Procs -> Steps]
    BY <1>0, <1>7, GotoTypes DEF Inv, SupersedePending
  <2>2. cand' \in [Codes -> Candidates]
    <3>1. \A d \in Codes : cand[d] \in Candidates
                           /\ [cand[d] EXCEPT !.status = "SUPERSEDED"] \in Candidates
      BY DEF Inv, TypeOK, Candidates, CandidateStatuses
    <3> QED
      BY <1>7, <3>1 DEF SupersedePending
  <2> QED
    BY <1>7, <2>1, <2>2 DEF Inv, SupersedePending, TypeOK, outer, past, meter
<1> QED
  BY <1>1, <1>2, <1>3, <1>4, <1>5, <1>6, <1>7 DEF Daily

\* The application of a candidate.
LEMMA ApplyTypes ==
  ASSUME Inv, NEW p \in Procs, Apply(p)
  PROVE  TypeOK'
<1> DEFINE c == my[p].code
<1>0. {"authorise", "deploy", "changing", "settle", "record", "close"} \subseteq Steps
  BY DEF Steps
<1>a. my[p] \in Locals /\ c \in 0 .. MaxCandidates
  BY DEF Inv, TypeOK, Locals
<1>b. pc[p] \in {"authorise", "deploy", "changing", "settle", "record"} => c \in Codes
  BY DEF Inv, ConsumedFirst
<1>c. {"EXPIRED", "BLOCKED", "DEPLOYED", "ROLLED_BACK"} \subseteq CandidateStatuses
  BY DEF CandidateStatuses
<1> HIDE DEF c
<1>1. CASE Gate(p)
  <2>1. pc' \in [Procs -> Steps]
    BY <1>0, <1>1, GotoTypes DEF Inv, Gate
  <2>2. my' \in [Procs -> Locals]
    BY <1>1, <1>a, LocalTypes, PendingIsCode DEF Inv, Gate, c
  <2> QED
    BY <1>1, <2>1, <2>2 DEF Inv, Gate, TypeOK, store, outer, past, meter
<1>2. CASE Deny(p)
  <2>1. pc' \in [Procs -> Steps] /\ c \in Codes
    BY <1>0, <1>2, <1>b, GotoTypes DEF Inv, Deny, Goto
  <2>2. cand' \in [Codes -> Candidates]
    <3>1. SetStatus(c, "EXPIRED") \/ cand' = cand
      BY <1>2 DEF Deny, c
    <3>2. CASE SetStatus(c, "EXPIRED")
      BY <3>2, <2>1, <1>c, StatusTypes DEF Inv
    <3> QED
      BY <3>1, <3>2 DEF Inv, TypeOK
  <2> QED
    BY <1>2, <2>1, <2>2 DEF Inv, Deny, TypeOK, outer, past, meter
<1>3. CASE DenySecondUse(p)
  <2>1. pc' \in [Procs -> Steps]
    BY <1>0, <1>3, GotoTypes DEF Inv, DenySecondUse
  <2> QED
    BY <1>3, <2>1 DEF Inv, DenySecondUse, TypeOK, store, outer, past, meter
<1>4. CASE Authorise(p)
  <2>1. pc' \in [Procs -> Steps] /\ c \in Codes
    BY <1>0, <1>4, <1>b, GotoTypes DEF Inv, Authorise, Goto
  <2>2. consumed' \in [Codes -> Times]
    BY <1>4, <2>1 DEF Inv, TypeOK, Authorise, c
  <2>3. run' \in RunRows
    BY <1>4, <1>a DEF Inv, TypeOK, Authorise, RunRows, c
  <2> QED
    BY <1>4, <2>1, <2>2, <2>3 DEF Inv, Authorise, TypeOK, outer, past, meter
<1>5. CASE DeployBlocks(p)
  <2>1. pc' \in [Procs -> Steps] /\ c \in Codes
    BY <1>0, <1>5, <1>b, GotoTypes DEF Inv, DeployBlocks, Goto
  <2>2. my' \in [Procs -> Locals]
    <3>1. "blocked" \in DeployResults
      BY DEF DeployResults
    <3> QED
      BY <1>5, <3>1, LocalTypes DEF Inv, DeployBlocks
  <2> QED
    BY <1>5, <2>1, <2>2 DEF Inv, DeployBlocks, TypeOK, store, outer, meter, past
<1>6. CASE DeployBegins(p)
  <2>1. pc' \in [Procs -> Steps] /\ c \in Codes
    BY <1>0, <1>6, <1>b, GotoTypes DEF Inv, DeployBegins, Goto
  <2>2. run' \in RunRows
    BY <1>6 DEF Inv, TypeOK, DeployBegins, RunRows
  <2>3. deployments' \in [Codes -> Nat]
    BY <1>6, <2>1 DEF Inv, TypeOK, DeployBegins, c
  <2> QED
    BY <1>6, <2>1, <2>2, <2>3 DEF Inv, DeployBegins, TypeOK, outer, meter
<1>7. CASE DeployEnds(p)
  <2>1. pc' \in [Procs -> Steps] /\ c \in Codes
    BY <1>0, <1>7, <1>b, GotoTypes DEF Inv, DeployEnds, Goto
  <2>2. PICK r \in {"success", "rolled_back", "recovery_failed"} :
          /\ my' = [my EXCEPT ![p].result = r]
          /\ prod' \in CASE r = "success"     -> {cand[c].target}
                         [] r = "rolled_back" -> {cand[c].source}
                         [] OTHER             -> {cand[c].source, cand[c].target}
          /\ undone' = IF r = "success" THEN undone ELSE undone \cup {Pair(c)}
    BY <1>7 DEF DeployEnds, c
  <2>3. my' \in [Procs -> Locals]
    <3>1. r \in DeployResults
      BY DEF DeployResults
    <3> QED
      BY <2>2, <3>1, LocalTypes DEF Inv
  <2>4. prod' \in Versions /\ undone' \subseteq Pairs
    <3>1. cand[c].source \in Versions /\ cand[c].target \in Versions /\ Pair(c) \in Pairs
      BY <2>1, PairTypes DEF Inv
    <3>2. undone \subseteq Pairs
      BY DEF Inv, TypeOK
    <3> QED
      BY <2>2, <3>1, <3>2
  <2> QED
    BY <1>7, <2>1, <2>3, <2>4 DEF Inv, DeployEnds, TypeOK, store, outer, meter
<1>8. CASE Settle(p)
  <2>1. pc' \in [Procs -> Steps] /\ c \in Codes
    BY <1>0, <1>8, <1>b, GotoTypes DEF Inv, Settle, Goto
  <2>2. cand' \in [Codes -> Candidates]
    <3>1. PICK s \in {"BLOCKED", "DEPLOYED", "ROLLED_BACK"} : SetStatus(c, s)
      BY <1>8 DEF Settle, c
    <3> QED
      BY <3>1, <2>1, <1>c, StatusTypes DEF Inv
  <2> QED
    BY <1>8, <2>1, <2>2 DEF Inv, Settle, TypeOK, outer, past, meter
<1>9. CASE RecordReverted(p)
  <2>1. pc' \in [Procs -> Steps] /\ c \in Codes
    BY <1>0, <1>9, <1>b, GotoTypes DEF Inv, RecordReverted, Goto
  <2>2. Pair(c) \in Pairs
    BY <2>1, PairTypes DEF Inv
  <2>3. attempts' \in [Pairs -> [outcome: AttemptOutcomes, at: Times]]
    BY <1>9, <2>2, AttemptTypes DEF Inv, RecordReverted, AttemptOutcomes, c
  <2>4. reverted' \subseteq Pairs
    BY <1>9, <2>2 DEF Inv, TypeOK, RecordReverted, c
  <2> QED
    BY <1>9, <2>1, <2>3, <2>4 DEF Inv, RecordReverted, TypeOK, outer, meter
<1> QED
  BY <1>1, <1>2, <1>3, <1>4, <1>5, <1>6, <1>7, <1>8, <1>9 DEF Apply

\* Starting, revoking, and the environment.
LEMMA OtherTypes ==
  ASSUME Inv, Starts \/ Revoke \/ Environment
  PROVE  TypeOK'
<1>0. {"idle", "lock", "close"} \subseteq Steps /\ {"run", "apply"} \subseteq Kinds
  BY DEF Steps, Kinds
<1>1. ASSUME NEW p \in Procs, ByHand(p) PROVE TypeOK'
  <2>1. pc' \in [Procs -> Steps]
    BY <1>0, <1>1, GotoTypes DEF Inv, ByHand, StartDaily, ApplyByHand
  <2>2. my' \in [Procs -> Locals]
    <3>1. CASE StartDaily(p)
      BY <1>0, <3>1, LocalTypes DEF Inv, StartDaily
    <3>2. ASSUME NEW c \in 0 .. MaxCandidates, ApplyByHand(p, c) PROVE my' \in [Procs -> Locals]
      BY <1>0, <3>2, LocalTypes DEF Inv, ApplyByHand
    <3> QED
      BY <1>1, <3>1, <3>2 DEF ByHand
  <2> QED
    BY <1>1, <2>1, <2>2 DEF Inv, ByHand, StartDaily, ApplyByHand, TypeOK, store, outer, past, meter
<1>2. ASSUME NEW p \in Procs, StartApply(p) PROVE TypeOK'
  <2>1. pc' \in [Procs -> Steps] /\ my' \in [Procs -> Locals]
    BY <1>0, <1>2, GotoTypes, LocalTypes DEF Inv, StartApply
  <2> QED
    BY <1>2, <2>1 DEF Inv, StartApply, TypeOK, store, past, meter
<1>3. ASSUME NEW c \in Codes, RevokeReads(c) PROVE TypeOK'
  <2>1. revoking' \in Revocations
    BY <1>3 DEF RevokeReads, Revocations, Codes
  <2> QED
    BY <1>3, <2>1 DEF Inv, RevokeReads, TypeOK, store, procs, outer, past
<1>4. CASE RevokeSets
  <2>1. revoking.code \in Codes
    BY <1>4 DEF Inv, TypeOK, RevokeSets, Revocations, Codes
  <2>4. revoking' \in Revocations
    BY <1>4 DEF Inv, TypeOK, RevokeSets, Revocations
  <2>2. cand' \in [Codes -> Candidates]
    <3>1. "REVOKED" \in CandidateStatuses /\ SetStatus(revoking.code, "REVOKED")
      BY <1>4 DEF RevokeSets, CandidateStatuses
    <3> QED
      BY <2>1, <3>1, StatusTypes DEF Inv
  <2> QED
    BY <1>4, <2>2, <2>4 DEF Inv, RevokeSets, TypeOK, procs, outer, past, meter
<1>5. CASE RevokeRecords
  <2>1. attempts' \in [Pairs -> [outcome: AttemptOutcomes, at: Times]]
    BY <1>5 DEF Inv, TypeOK, RevokeRecords, Attempt, AttemptOutcomes
  <2>2. revoking' \in Revocations /\ undone' \subseteq Pairs /\ reverted' \subseteq Pairs
    BY <1>5 DEF Inv, TypeOK, RevokeRecords, NotRevoking, Revocations
  <2> QED
    BY <1>5, <2>1, <2>2 DEF Inv, RevokeRecords, TypeOK, procs, outer, meter
<1>6. CASE Release
  BY <1>6 DEF Inv, Release, TypeOK, Versions, store, procs, past, meter
<1>7. CASE Tick
  BY <1>7 DEF Inv, Tick, TypeOK, Times, store, procs, past, meter
<1>8. ASSUME NEW c \in Codes, RecordApproval(c) PROVE TypeOK'
  BY <1>8 DEF Inv, RecordApproval, TypeOK, store, procs, past
<1>9. ASSUME NEW p \in Procs, Crash(p) PROVE TypeOK'
  <2>1. pc' \in [Procs -> Steps] /\ my' \in [Procs -> Locals]
    BY <1>0, <1>9, LocalTypes DEF Inv, TypeOK, Crash, Forget
  <2>2. prod' \in Versions /\ left' \subseteq Codes
    BY <1>9, LeavingTypes DEF Inv, Crash
  <2> QED
    BY <1>9, <2>1, <2>2 DEF Inv, Crash, TypeOK, store, outer
<1>10. ASSUME NEW p \in Procs, Raise(p) PROVE TypeOK'
  <2>1. pc' \in [Procs -> Steps]
    BY <1>0, <1>10 DEF Inv, TypeOK, Raise
  <2>2. prod' \in Versions /\ left' \subseteq Codes
    BY <1>10, LeavingTypes DEF Inv, Raise
  <2> QED
    BY <1>10, <2>1, <2>2 DEF Inv, Raise, TypeOK, store, outer, meter
<1>12. ASSUME NEW c \in Codes, RollbackByHand(c) PROVE TypeOK'
  <2>1. prod' \in Versions /\ undone' \subseteq Pairs
    BY <1>12, PairTypes DEF Inv, TypeOK, RollbackByHand
  <2> QED
    BY <1>12, <2>1 DEF Inv, RollbackByHand, TypeOK, store, procs, outer
<1>11. CASE RevokeDies
  <2>1. revoking' \in Revocations
    BY <1>11 DEF RevokeDies, NotRevoking, Revocations
  <2> QED
    BY <1>11, <2>1 DEF Inv, RevokeDies, TypeOK, store, procs, outer, past
<1> QED
  BY <1>1, <1>2, <1>3, <1>4, <1>5, <1>6, <1>7, <1>8, <1>9, <1>10, <1>11, <1>12
     DEF Starts, Revoke, Environment

-----------------------------------------------------------------------------
(* Every step keeps ConsumedFirst and SingleUse.                           *)

Guards == ConsumedFirst /\ SingleUse /\ Owned
AboutToDeploy == {"authorise", "deploy", "changing", "settle", "record"}

\* A step of the process that holds the lock: no other process is anywhere that
\* the lock protects, so only what it writes about itself has to be right.
LEMMA HolderStep ==
  ASSUME Inv, NEW p \in Procs, NEW from \in Locked, NEW to \in Steps, Goto(p, from, to),
         lock' = lock \/ to \notin Locked,
         to \in AboutToDeploy => my'[p].code \in Codes,
         clock' # 0, run'.id # 0 => run'.by \in Procs,
         to = "deploy" => /\ consumed'[my'[p].code] # 0 /\ run'.code = my'[p].code
                          /\ deployments'[my'[p].code] = 0,
         run'.changing => run'.code \in Codes /\ consumed'[run'.code] # 0,
         \A c \in Codes : consumed[c] # 0 => consumed'[c] # 0,
         \A c \in Codes : deployments'[c] # deployments[c]
           => consumed'[c] # 0 /\ deployments'[c] <= 1
  PROVE  Guards'
<1>1. pc'[p] = to /\ pc[p] = from /\ \A q \in Procs : q # p => pc'[q] = pc[q]
  BY GotoTypes DEF Inv
<1>2. lock = p
  BY <1>1 DEF Inv, ConsumedFirst
<1>3. \A q \in Procs : q # p => pc'[q] \notin Locked
  BY <1>1, <1>2 DEF Inv, ConsumedFirst
<1>4. AboutToDeploy \subseteq Locked
  BY DEF AboutToDeploy, Locked, Steps
<1>5. \A q \in Procs : pc'[q] \in Locked => q = p /\ lock' = p
  BY <1>1, <1>2, <1>3
<1>6. \A q \in Procs : pc'[q] \in AboutToDeploy => my'[q].code \in Codes
  BY <1>1, <1>4, <1>5
<1>7. \A q \in Procs : pc'[q] = "deploy"
        => /\ consumed'[my'[q].code] # 0 /\ run'.code = my'[q].code
           /\ deployments'[my'[q].code] = 0
  BY <1>1, <1>4, <1>5 DEF AboutToDeploy
<1>8. \A c \in Codes : (deployments'[c] > 0 => consumed'[c] # 0) /\ deployments'[c] <= 1
  BY DEF Inv, ConsumedFirst, SingleUse
<1> QED
  BY <1>5, <1>6, <1>7, <1>8 DEF Guards, Owned, ConsumedFirst, SingleUse, AboutToDeploy

\* A step that brings no process under the lock and writes no row of a run.
LEMMA OutsideStep ==
  ASSUME Inv, UNCHANGED <<run, consumed, deployments>>, clock' # 0,
         \A q \in Procs : pc'[q] \in Locked => pc'[q] = pc[q] /\ lock' = lock /\ my'[q] = my[q]
  PROVE  Guards'
<1>1. AboutToDeploy \subseteq Locked
  BY DEF AboutToDeploy, Locked, Steps
<1>2. \A q \in Procs : pc'[q] \in Locked => lock' = q
  BY DEF Inv, ConsumedFirst
<1>3. \A q \in Procs : pc'[q] \in AboutToDeploy => my'[q].code \in Codes
  BY <1>1 DEF Inv, ConsumedFirst, AboutToDeploy
<1>4. \A q \in Procs : pc'[q] = "deploy"
        => /\ consumed'[my'[q].code] # 0 /\ run'.code = my'[q].code
           /\ deployments'[my'[q].code] = 0
  BY <1>1 DEF Inv, ConsumedFirst, AboutToDeploy
<1> QED
  BY <1>2, <1>3, <1>4 DEF Inv, Guards, Owned, ConsumedFirst, SingleUse, AboutToDeploy

LEMMA GuardedKeeps ==
  ASSUME Inv, NEW p \in Procs, Guarded(p)
  PROVE  Guards'
<1>0. /\ {"idle", "reconcile", "open", "classify", "gate", "close", "auto"} \subseteq Steps
      /\ {"reconcile", "open", "close"} \subseteq Locked
      /\ {"idle", "auto"} \cap Locked = {}
      /\ {"idle", "auto", "reconcile", "open", "classify", "gate", "close"}
           \cap AboutToDeploy = {}
      /\ "deploy" \in AboutToDeploy
  BY DEF Steps, Locked, AboutToDeploy
<1>a. clock' = clock /\ clock # 0
  BY DEF Guarded, Acquire, FindBusy, ReconcileRun, OpenRun, Close, outer, Inv, Owned
<1>1. CASE Acquire(p)
  <2>1. pc'[p] = "reconcile" /\ \A q \in Procs : q # p => pc'[q] = pc[q]
    BY <1>0, <1>1, GotoTypes DEF Inv, Acquire
  <2>2. \A q \in Procs : q # p => pc'[q] \notin Locked
    BY <1>1, <2>1 DEF Inv, ConsumedFirst, Acquire
  <2>3. \A q \in Procs : pc'[q] \in Locked => lock' = q
    BY <1>1, <2>1, <2>2 DEF Acquire
  <2>4. \A q \in Procs : pc'[q] \notin AboutToDeploy
    BY <1>0, <2>1, <2>2 DEF AboutToDeploy, Locked, Steps
  <2> QED
    BY <1>0, <1>a, <1>1, <2>3, <2>4
       DEF Inv, Acquire, store, past, Guards, ConsumedFirst, SingleUse, Owned, AboutToDeploy
<1>2. CASE FindBusy(p)
  <2>1. pc'[p] = "idle" /\ \A q \in Procs : q # p => pc'[q] = pc[q] /\ my'[q] = my[q]
    BY <1>0, <1>2, GotoTypes DEF Inv, TypeOK, FindBusy, Forget
  <2> QED
    BY <1>0, <1>a, <1>2, <2>1, OutsideStep DEF FindBusy, store
<1>3. CASE ReconcileRun(p)
  <2>1. ~run'.changing /\ run'.id = 0
    BY <1>3 DEF ReconcileRun, NoRun
  <2> QED
    BY <1>0, <1>a, <1>3, <2>1, HolderStep DEF ReconcileRun
<1>4. CASE OpenRun(p)
  <2>1. ~run'.changing /\ run'.by \in Procs
    BY <1>4 DEF OpenRun
  <2>2. PICK to \in {"classify", "gate"} : Goto(p, "open", to)
    BY <1>4 DEF OpenRun
  <2> QED
    BY <1>0, <1>a, <1>4, <2>1, <2>2, HolderStep DEF OpenRun, past
<1>5. CASE Close(p)
  <2>1. ~run'.changing /\ run'.id = 0
    BY <1>5 DEF Close, NoRun
  <2>2. PICK to \in {"auto", "idle"} : Goto(p, "close", to)
    BY <1>5 DEF Close
  <2>3. to \in Steps /\ to \notin Locked /\ to \notin AboutToDeploy /\ to # "deploy"
    BY <1>0
  <2>4. UNCHANGED <<consumed, deployments>>
    BY <1>5 DEF Close, past
  <2> QED
    BY <1>0, <1>a, <2>1, <2>2, <2>3, <2>4, HolderStep
<1> QED
  BY <1>1, <1>2, <1>3, <1>4, <1>5 DEF Guarded

LEMMA DailyKeeps ==
  ASSUME Inv, NEW p \in Procs, Daily(p)
  PROVE  Guards'
<1>0. /\ {"idle", "lock", "classify", "prepare", "save", "insert", "prepared", "close"}
           \subseteq Steps
      /\ {"classify", "prepare", "save", "insert", "prepared"} \subseteq Locked
      /\ {"idle", "lock"} \cap Locked = {}
      /\ {"prepare", "save", "insert", "prepared", "close"} \cap AboutToDeploy = {}
      /\ "deploy" \in AboutToDeploy
  BY DEF Steps, Locked, AboutToDeploy
<1>1. ASSUME NEW from \in {"classify", "prepare", "save", "insert", "prepared"},
             NEW to \in {"prepare", "save", "insert", "prepared", "close"}, Goto(p, from, to),
             UNCHANGED <<clock, lock, run, consumed, deployments>>
      PROVE  Guards'
  <2>1. /\ run'.changing => run'.code \in Codes /\ consumed'[run'.code] # 0
        /\ clock' # 0 /\ (run'.id # 0 => run'.by \in Procs)
    BY <1>1 DEF Inv, ConsumedFirst, Owned
  <2> QED
    BY <1>0, <1>1, <2>1, HolderStep
<1>2. CASE Classify(p)
  <2>1. PICK to \in {"prepare", "close"} : Goto(p, "classify", to)
    BY <1>2 DEF Classify
  <2> QED
    BY <1>1, <1>2, <2>1 DEF Classify, store, outer, past
<1>3. CASE Prepare(p)
  BY <1>1, <1>3 DEF Prepare, store, outer, past
<1>4. CASE PrepareBlocks(p)
  BY <1>1, <1>4 DEF PrepareBlocks, outer, past
<1>5. CASE SaveCandidate(p)
  BY <1>1, <1>5 DEF SaveCandidate, outer, past
<1>6. CASE RecordPrepared(p)
  BY <1>1, <1>6 DEF RecordPrepared, outer
<1>7. CASE AutoApplies(p)
  <2>1. PICK to \in {"lock", "idle"} : Goto(p, "auto", to)
    BY <1>7 DEF AutoApplies
  <2>2. pc'[p] = to /\ \A q \in Procs : q # p => pc'[q] = pc[q] /\ my'[q] = my[q]
    BY <1>0, <1>7, <2>1, GotoTypes DEF Inv, TypeOK, AutoApplies
  <2> QED
    BY <1>0, <1>7, <2>1, <2>2, OutsideStep DEF AutoApplies, store, outer, past, Inv, Owned
<1>8. CASE SupersedePending(p)
  BY <1>1, <1>8 DEF SupersedePending, outer, past
<1> QED
  BY <1>2, <1>3, <1>4, <1>5, <1>6, <1>7, <1>8 DEF Daily

LEMMA ApplyKeeps ==
  ASSUME Inv, NEW p \in Procs, Apply(p)
  PROVE  Guards'
<1> DEFINE c == my[p].code
<1>0. /\ {"authorise", "deploy", "changing", "settle", "record", "close"} \subseteq Steps
      /\ {"gate", "authorise", "deploy", "changing", "settle", "record"} \subseteq Locked
      /\ "close" \notin AboutToDeploy
  BY DEF Steps, Locked, AboutToDeploy
<1>a. pc[p] \in AboutToDeploy => c \in Codes
  BY DEF Inv, ConsumedFirst, AboutToDeploy
<1>b. my[p] \in Locals /\ my \in [Procs -> Locals] /\ deployments \in [Codes -> Nat]
      /\ run \in RunRows /\ consumed \in [Codes -> Times]
  BY DEF Inv, TypeOK
<1>c. run.changing => run.code \in Codes /\ consumed[run.code] # 0
  BY DEF Inv, ConsumedFirst
<1>e. clock' = clock /\ clock # 0 /\ (run.id # 0 => run.by \in Procs)
  BY DEF Apply, Gate, Deny, DenySecondUse, Authorise, DeployBlocks, DeployBegins, DeployEnds,
     Settle, RecordReverted, outer, Inv, Owned
<1>d. \A r : [my EXCEPT ![p].result = r][p].code = c
  BY <1>b DEF Locals
\* Steps that write neither the row, nor the consumed codes, nor a deployment.
<1>1. ASSUME NEW from \in Locked, NEW to \in Steps \ {"deploy"}, Goto(p, from, to),
             to \in AboutToDeploy => my'[p].code \in Codes,
             UNCHANGED <<lock, run, consumed, deployments>>
      PROVE  Guards'
  BY <1>1, <1>c, <1>e, HolderStep
<1>2. CASE Gate(p)
  <2>1. CASE pc'[p] = "close"
    <3>1. Goto(p, "gate", "close")
      BY <1>2, <2>1, <1>b DEF Inv, TypeOK, Gate, Goto
    <3> QED
      BY <1>0, <1>1, <1>2, <3>1 DEF Gate, store, past
  <2>2. CASE pc'[p] # "close"
    <3>1. Goto(p, "gate", "authorise") /\ my'[p].code \in Codes
      BY <1>2, <2>2, <1>b DEF Inv, TypeOK, Gate, Goto, IsPending, Locals
    <3> QED
      BY <1>0, <1>1, <1>2, <3>1 DEF Gate, store, past
  <2> QED
    BY <2>1, <2>2
<1>3. CASE Deny(p)
  BY <1>0, <1>1, <1>3 DEF Deny, past
<1>4. CASE DenySecondUse(p)
  BY <1>0, <1>1, <1>4 DEF DenySecondUse, store, past
<1>5. CASE Authorise(p)
  <2>1. c \in Codes /\ consumed[c] = 0
    BY <1>5, <1>a DEF Authorise, Goto, AboutToDeploy
  <2>2. deployments[c] = 0
    BY <2>1, <1>b DEF Inv, ConsumedFirst
  <2>3. /\ my' = my /\ run'.code = c /\ run'.changing = run.changing
        /\ run'.id = run.id /\ run'.by = run.by
        /\ consumed' = [consumed EXCEPT ![c] = clock]
        /\ deployments' = deployments /\ lock' = lock
    BY <1>5, <1>b DEF Authorise, RunRows, past
  <2>5. consumed'[c] # 0 /\ \A d \in Codes : consumed[d] # 0 => consumed'[d] # 0
    BY <2>1, <2>3, <1>b, <1>e
  <2>4. Goto(p, "authorise", "deploy")
    BY <1>5 DEF Authorise
  <2> QED
    BY <1>0, <1>c, <1>e, <2>1, <2>2, <2>3, <2>4, <2>5, HolderStep
<1>6. CASE DeployBlocks(p)
  <2>1. c \in Codes
    BY <1>6, <1>a DEF DeployBlocks, Goto, AboutToDeploy
  <2>2. my'[p].code \in Codes
    BY <1>6, <2>1, <1>d DEF DeployBlocks
  <2> QED
    BY <1>0, <1>1, <1>6, <2>2 DEF DeployBlocks, store, past
<1>7. CASE DeployBegins(p)
  <2>1. c \in Codes /\ consumed[c] # 0 /\ run.code = c /\ deployments[c] = 0
    BY <1>7, <1>a DEF Inv, ConsumedFirst, DeployBegins, Goto, AboutToDeploy
  <2>2. /\ run'.id = run.id /\ run'.by = run.by
        /\ my' = my /\ run'.code = c /\ consumed' = consumed /\ lock' = lock
        /\ deployments' = [deployments EXCEPT ![c] = @ + 1]
    BY <1>7, <2>1, <1>b DEF DeployBegins, RunRows
  <2>3. \A d \in Codes : deployments'[d] # deployments[d]
          => consumed'[d] # 0 /\ deployments'[d] <= 1
    BY <2>1, <2>2, <1>b
  <2>4. Goto(p, "deploy", "changing") /\ "changing" # "deploy" /\ c \in Codes
    BY <1>7, <2>1, <1>b DEF DeployBegins
  <2> QED
    BY <1>0, <1>e, <2>1, <2>2, <2>3, <2>4, HolderStep
<1>8. CASE DeployEnds(p)
  <2>1. c \in Codes
    BY <1>8, <1>a DEF DeployEnds, Goto, AboutToDeploy
  <2>2. my'[p].code \in Codes
    BY <1>8, <2>1, <1>d DEF DeployEnds
  <2> QED
    BY <1>0, <1>1, <1>8, <2>2 DEF DeployEnds, store, past
<1>9. CASE Settle(p)
  <2>1. c \in Codes /\ my' = my
    BY <1>9, <1>a DEF Settle, Goto, AboutToDeploy
  <2>2. PICK to \in {"record", "close"} : Goto(p, "settle", to)
    BY <1>9 DEF Settle
  <2> QED
    BY <1>0, <1>1, <1>9, <2>1, <2>2 DEF Settle, past
<1>10. CASE RecordReverted(p)
  BY <1>0, <1>1, <1>10 DEF RecordReverted
<1> QED
  BY <1>2, <1>3, <1>4, <1>5, <1>6, <1>7, <1>8, <1>9, <1>10 DEF Apply

LEMMA OtherKeeps ==
  ASSUME Inv, Starts \/ Revoke \/ Environment \/ UNCHANGED vars
  PROVE  Guards'
<1>0. /\ {"idle", "lock", "close"} \subseteq Steps
      /\ {"idle", "lock"} \cap Locked = {} /\ Working \subseteq Locked
      /\ "close" \notin AboutToDeploy
  BY DEF Steps, Locked, Working, AboutToDeploy
<1>a. clock \in Times /\ clock # 0
  BY DEF Inv, TypeOK, Owned
<1>1. ASSUME NEW p \in Procs, ByHand(p) \/ StartApply(p) PROVE Guards'
  <2>1. pc'[p] = "lock" /\ \A q \in Procs : q # p => pc'[q] = pc[q] /\ my'[q] = my[q]
    BY <1>0, <1>1, GotoTypes DEF Inv, TypeOK, ByHand, StartDaily, ApplyByHand, StartApply
  <2>2. UNCHANGED <<lock, run, consumed, deployments, clock>>
    BY <1>1 DEF ByHand, StartDaily, ApplyByHand, StartApply, store, outer, past
  <2> QED
    BY <1>0, <1>a, <2>1, <2>2, OutsideStep
<1>3. CASE Revoke
  BY <1>a, <1>3, OutsideStep DEF Revoke, RevokeReads, RevokeSets, RevokeRecords, store, procs,
     outer, past
<1>4. ASSUME NEW p \in Procs, Crash(p) PROVE Guards'
  <2>1. pc'[p] = "idle" /\ \A q \in Procs : q # p => pc'[q] = pc[q] /\ my'[q] = my[q]
    BY <1>4 DEF Inv, TypeOK, Crash, Forget
  <2>2. \A q \in Procs : q # p /\ pc[q] \in Locked => lock' = lock
    BY <1>4 DEF Inv, ConsumedFirst, Crash
  <2> QED
    BY <1>0, <1>a, <1>4, <2>1, <2>2, OutsideStep DEF Crash, store, outer
<1>5. ASSUME NEW p \in Procs, Raise(p) PROVE Guards'
  <2>1. pc[p] \in Locked /\ Goto(p, pc[p], "close")
    BY <1>0, <1>5 DEF Raise, Goto
  <2>2. /\ run'.changing => run'.code \in Codes /\ consumed'[run'.code] # 0
        /\ run'.id # 0 => run'.by \in Procs
    BY <1>5 DEF Inv, ConsumedFirst, Owned, Raise, store
  <2> QED
    BY <1>0, <1>a, <1>5, <2>1, <2>2, HolderStep DEF Raise, store, outer
<1>6. CASE Release \/ RevokeDies \/ UNCHANGED vars
  BY <1>a, <1>6, OutsideStep DEF Release, RevokeDies, vars, store, procs, outer, past
<1>7. ASSUME NEW c \in Codes, RecordApproval(c) \/ RollbackByHand(c) PROVE Guards'
  BY <1>a, <1>7, OutsideStep DEF RecordApproval, RollbackByHand, store, procs, outer, past
<1>8. CASE Tick
  BY <1>a, <1>8, OutsideStep DEF Tick, Times, store, procs, past
<1> QED
  BY <1>1, <1>3, <1>4, <1>5, <1>6, <1>7, <1>8 DEF Starts, Environment

-----------------------------------------------------------------------------
LEMMA InductiveStep == Inv /\ [Next]_vars => Inv'
<1> SUFFICES ASSUME Inv, [Next]_vars PROVE Inv'
  OBVIOUS
<1>1. ASSUME NEW p \in Procs, Worker(p) PROVE Inv'
  BY <1>1, GuardedTypes, DailyTypes, ApplyTypes, GuardedKeeps, DailyKeeps, ApplyKeeps
     DEF Worker, Inv, Guards
<1>2. CASE Starts \/ Revoke \/ Environment
  BY <1>2, OtherTypes, OtherKeeps DEF Inv, Guards
<1>3. CASE UNCHANGED vars
  <2>1. TypeOK'
    BY <1>3 DEF Inv, TypeOK, vars, store, procs, outer, past, meter
  <2> QED
    BY <1>3, <2>1, OtherKeeps DEF Inv, Guards
<1> QED
  BY <1>1, <1>2, <1>3 DEF Next, Triggered, Starts

\* The inductive invariant of every behaviour of the updater's invocations.
THEOREM InductiveInvariant == Spec => []Inv
<1>1. Init => Inv
  <2> SUFFICES ASSUME Init PROVE ConsumedFirst /\ SingleUse /\ Owned
    BY InitTypes DEF Inv
  <2> QED
    BY DEF Init, ConsumedFirst, SingleUse, Owned, Locked, NoRun
<1> QED
  BY <1>1, InductiveStep, PTL DEF Spec

\* Every variable keeps its type: the guards of the code never let a step write a
\* code that is not in the table or a version that no candidate names.
THEOREM TypeCorrect == Spec => []TypeOK
  BY InductiveInvariant, PTL DEF Inv

\* An approval deploys at most once, for any number of invocations, deaths and
\* revocations: the code is consumed under the lock before production changes.
THEOREM ApprovalIsSingleUse == Spec => []SingleUse
  BY InductiveInvariant, PTL DEF Inv

\* The lock and the consumption of a code are in the order the code needs.
THEOREM CodesAreConsumedFirst == Spec => []ConsumedFirst
  BY InductiveInvariant, PTL DEF Inv

-----------------------------------------------------------------------------
\* Only the holder of the lock gives `runs` an open row or takes it away, and it
\* does so where it is not working itself: a row that reconcile closes is dead.
THEOREM ReconciledRunsAreDead == Spec => ReconcilesOnlyDead
<1> DEFINE A == run.id # 0 /\ run'.id # run.id => pc[run.by] \notin Working
<1>1. Inv /\ [Next]_vars => A
  <2> SUFFICES ASSUME Inv, [Next]_vars, run.id # 0, run'.id # run.id
               PROVE  pc[run.by] \notin Working
    OBVIOUS
  <2>1. \A p \in Procs : pc[p] \in Working => lock = p
    BY DEF Inv, ConsumedFirst, Working, Locked
  <2>2. run.by \in Procs /\ run \in RunRows
    BY DEF Inv, TypeOK, Owned
  <2>3. ASSUME NEW p \in Procs, pc[p] \in {"reconcile", "open", "close"}
        PROVE  pc[run.by] \notin Working
    <3>1. lock = p /\ pc[p] \notin Working
      BY <2>3 DEF Inv, ConsumedFirst, Locked, Steps, Working
    <3> QED
      BY <2>1, <2>2, <3>1
  <2>4. ASSUME NEW p \in Procs, Guarded(p) PROVE pc[run.by] \notin Working
    <3>1. CASE ReconcileRun(p) \/ OpenRun(p) \/ Close(p)
      BY <2>3, <3>1 DEF ReconcileRun, OpenRun, Close, Goto
    <3>2. CASE Acquire(p) \/ FindBusy(p)
      BY <3>2 DEF Acquire, FindBusy, store
    <3> QED
      BY <2>4, <3>1, <3>2 DEF Guarded
  <2>5. ASSUME NEW p \in Procs, Apply(p) PROVE run'.id = run.id
    BY <2>2, <2>5 DEF Apply, Gate, Deny, DenySecondUse, Authorise, DeployBlocks, DeployBegins,
       DeployEnds, Settle, RecordReverted, store, RunRows
  <2>6. ASSUME NEW p \in Procs, Daily(p) PROVE run'.id = run.id
    BY <2>6 DEF Daily, Classify, Prepare, PrepareBlocks, SupersedePending, SaveCandidate, RecordPrepared,
       AutoApplies, store
  <2>7. Starts \/ Revoke \/ Environment \/ UNCHANGED vars => run'.id = run.id
    BY DEF Starts, ByHand, StartDaily, ApplyByHand, StartApply, Revoke, RevokeReads, RevokeSets, RevokeRecords, Environment,
       Release, Tick, RecordApproval, RollbackByHand, Crash, Raise, RevokeDies, store, vars
  <2> QED
    BY <2>4, <2>5, <2>6, <2>7 DEF Next, Worker, Triggered, Starts
<1> QED
  BY InductiveInvariant, <1>1, PTL DEF Spec, ReconcilesOnlyDead

\* While a process works, no other one does: none saves a candidate or records a
\* reverted pair.
LEMMA OnlyTheHolder ==
  ASSUME Inv, NEW p \in Procs, NEW q \in Procs, pc[p] \in Locked, pc[q] \in Locked
  PROVE  p = q
  BY DEF Inv, ConsumedFirst

\* Only save_candidate makes a candidate pending, after it superseded the others:
\* between its two statements none is pending.
NonePendingAtInsert == \A p \in Procs : pc[p] = "insert" => \A c \in Codes : ~IsPending(c)

THEOREM OneCandidateWaits == Spec => []OnePending
<1> DEFINE J == OnePending /\ NonePendingAtInsert
<1>1. Init => J
  BY DEF Init, OnePending, NonePendingAtInsert, IsPending
<1>2. Inv /\ J /\ [Next]_vars => J'
  <2> SUFFICES ASSUME Inv, J, [Next]_vars PROVE J'
    OBVIOUS
  <2> DEFINE MakesNone == \A c \in Codes : IsPending(c)' => IsPending(c)
             Stays     == \A q \in Procs : pc'[q] = "insert" => pc[q] = "insert"
  <2>1. cand \in [Codes -> Candidates] /\ pc \in [Procs -> Steps]
    BY DEF Inv, TypeOK
  <2>2. MakesNone /\ Stays => J'
    BY DEF OnePending, NonePendingAtInsert
  <2>3. cand' = cand => MakesNone
    BY DEF IsPending
  <2>4. ASSUME NEW c, NEW s \in CandidateStatuses \ {"PENDING_APPROVAL"}, SetStatus(c, s)
        PROVE  MakesNone
    BY <2>1, <2>4 DEF SetStatus, Candidates, IsPending
  <2>5. ASSUME NEW p \in Procs, NEW from, NEW to, Goto(p, from, to), to # "insert"
        PROVE  Stays
    BY <2>1, <2>5 DEF Goto
  <2>6. ASSUME NEW p \in Procs, Apply(p) PROVE J'
    <3>1. {"EXPIRED", "BLOCKED", "DEPLOYED", "ROLLED_BACK"}
            \subseteq CandidateStatuses \ {"PENDING_APPROVAL"}
      BY DEF CandidateStatuses
    <3>2. Stays
      BY <2>5, <2>6 DEF Apply, Gate, Deny, DenySecondUse, Authorise, DeployBlocks,
         DeployBegins, DeployEnds, Settle, RecordReverted
    <3>3. CASE Deny(p)
      BY <2>2, <2>3, <2>4, <3>1, <3>2, <3>3 DEF Deny
    <3>4. CASE Settle(p)
      <4>1. PICK s \in {"BLOCKED", "DEPLOYED", "ROLLED_BACK"} : SetStatus(my[p].code, s)
        BY <3>4 DEF Settle
      <4> QED
        BY <2>2, <2>4, <3>1, <3>2, <4>1
    <3> QED
      BY <2>2, <2>3, <2>6, <3>2, <3>3, <3>4 DEF Apply, Gate, DenySecondUse, Authorise,
         DeployBlocks, DeployBegins, DeployEnds, RecordReverted, store
  <2>7. ASSUME NEW p \in Procs, SupersedePending(p) PROVE J'
    <3>1. \A c \in Codes : [cand[c] EXCEPT !.status = "SUPERSEDED"].status = "SUPERSEDED"
      BY <2>1 DEF Candidates
    <3> QED
      BY <2>7, <3>1 DEF SupersedePending, IsPending, OnePending, NonePendingAtInsert
  <2>8. ASSUME NEW p \in Procs, SaveCandidate(p) PROVE J'
    <3>1. \A c \in Codes : ~IsPending(c)
      BY <2>8 DEF SaveCandidate, Goto, NonePendingAtInsert
    <3>2. OnePending'
      BY <2>8, <3>1 DEF SaveCandidate, IsPending, OnePending
    <3>3. \A q \in Procs : pc'[q] # "insert"
      <4>1. pc[p] = "insert" /\ "insert" \in Locked /\ pc' = [pc EXCEPT ![p] = "prepared"]
        BY <2>8 DEF SaveCandidate, Goto, Locked, Steps
      <4> QED
        BY <2>1, <4>1, OnlyTheHolder
    <3> QED
      BY <3>2, <3>3 DEF NonePendingAtInsert
  <2>9. ASSUME NEW p \in Procs,
               \/ Classify(p) \/ Prepare(p) \/ PrepareBlocks(p)
               \/ RecordPrepared(p) \/ AutoApplies(p)
        PROVE  J'
    <3>2. Stays
      BY <2>5, <2>9 DEF Classify, Prepare, PrepareBlocks, RecordPrepared, AutoApplies
    <3> QED
      BY <2>2, <2>3, <2>9, <3>2
         DEF Classify, Prepare, PrepareBlocks, RecordPrepared, AutoApplies, store
  <2>10. ASSUME NEW p \in Procs, Guarded(p) PROVE J'
    <3>1. Stays
      BY <2>5, <2>10 DEF Guarded, Acquire, FindBusy, ReconcileRun, OpenRun, Close
    <3> QED
      BY <2>2, <2>3, <2>10, <3>1
         DEF Guarded, Acquire, FindBusy, ReconcileRun, OpenRun, Close, store
  <2>11. CASE Revoke
    <3>1. "REVOKED" \in CandidateStatuses \ {"PENDING_APPROVAL"}
      BY DEF CandidateStatuses
    <3>2. Stays
      BY <2>11 DEF Revoke, RevokeReads, RevokeSets, RevokeRecords, procs
    <3> QED
      BY <2>2, <2>3, <2>4, <2>11, <3>1, <3>2
         DEF Revoke, RevokeReads, RevokeSets, RevokeRecords, store
  <2>12. CASE Starts \/ Environment \/ UNCHANGED vars
    <3>2. Stays
      BY <2>1, <2>5, <2>12 DEF Starts, ByHand, StartDaily, ApplyByHand, StartApply, Environment, Release, Tick,
         RecordApproval, RollbackByHand, Crash, Raise, RevokeDies, Goto, procs, vars
    <3> QED
      BY <2>2, <2>3, <2>12, <3>2 DEF Starts, ByHand, StartDaily, ApplyByHand, StartApply, Environment, Release, Tick,
         RecordApproval, RollbackByHand, Crash, Raise, RevokeDies, store, vars
  <2> QED
    BY <2>6, <2>7, <2>8, <2>9, <2>10, <2>11, <2>12 DEF Next, Worker, Triggered, Starts, Daily
<1> QED
  BY InductiveInvariant, <1>1, <1>2, PTL DEF Spec

-----------------------------------------------------------------------------
(* What is deployed was authorised.                                        *)

\* It was used in time, and somebody who may had said so: the policy, or root.
Known(c)   == cand[c].status # "NONE"
Allowed(c) ==
  /\ consumed[c] # 0 /\ consumed[c] \in cand[c].created .. cand[c].expires
  /\ AutoApply \/ /\ approvedAt[c] # 0 /\ approvedAt[c] >= cand[c].created
                  /\ consumed[c] <= approvedAt[c] + ApprovalTTL

\* A process applies by itself only under the policy, it applies a candidate of the
\* table, and the one it is about to deploy is allowed.
MayGoOn(p) ==
  /\ my[p].kind = "auto" \/ pc[p] = "auto" => AutoApply
  /\ pc[p] \in AboutToDeploy => Known(my[p].code)
  /\ pc[p] = "deploy" => Allowed(my[p].code)

Past ==
  /\ clock >= 1
  /\ \A c \in Codes : cand[c].created <= clock /\ consumed[c] <= clock

AuthInv ==
  /\ Past
  /\ \A p \in Procs : MayGoOn(p)
  /\ \A c \in Codes : deployments[c] > 0 => Known(c) /\ Allowed(c)

\* A row of the table stays what it is but for its status, and what was allowed stays so.
RowsStay ==
  /\ Past'
  /\ \A c \in Codes : Known(c) => /\ cand'[c].status # "NONE"
                                  /\ cand'[c].created = cand[c].created
                                  /\ cand'[c].target = cand[c].target
                                  /\ cand'[c].source = cand[c].source
                                  /\ Allowed(c) => Allowed(c)'

\* The status of one candidate is set, and nothing else of the table.
SetsOne == \E c \in Codes, s \in CandidateStatuses \ {"NONE", "PENDING_APPROVAL"} : SetStatus(c, s)

\* What each step does to the table.
LEMMA TableSteps ==
  ASSUME Inv, [Next]_vars
  PROVE  \/ cand' = cand \/ SetsOne
         \/ \E p \in Procs : SupersedePending(p) \/ SaveCandidate(p)
<1>0. {"EXPIRED", "BLOCKED", "DEPLOYED", "ROLLED_BACK", "REVOKED"}
        \subseteq CandidateStatuses \ {"NONE", "PENDING_APPROVAL"}
  BY DEF CandidateStatuses
<1>1. ASSUME NEW p \in Procs, Guarded(p) PROVE cand' = cand
  BY <1>1 DEF Guarded, Acquire, FindBusy, ReconcileRun, OpenRun, Close, store
<1>2. ASSUME NEW p \in Procs, Apply(p) PROVE cand' = cand \/ SetsOne
  <2>1. CASE Deny(p)
    <3>1. my[p].code \in Codes
      BY <2>1 DEF Inv, ConsumedFirst, Deny, Goto
    <3> QED
      BY <1>0, <2>1, <3>1 DEF Deny, SetsOne
  <2>2. CASE Settle(p)
    <3>1. my[p].code \in Codes
      BY <2>2 DEF Inv, ConsumedFirst, Settle, Goto
    <3>2. PICK s \in {"BLOCKED", "DEPLOYED", "ROLLED_BACK"} : SetStatus(my[p].code, s)
      BY <2>2 DEF Settle
    <3> QED
      BY <1>0, <3>1, <3>2 DEF SetsOne
  <2> QED
    BY <1>2, <2>1, <2>2 DEF Apply, Gate, DenySecondUse, Authorise, DeployBlocks, DeployBegins,
       DeployEnds, RecordReverted, store
<1>3. ASSUME NEW p \in Procs, Daily(p)
      PROVE  cand' = cand \/ SupersedePending(p) \/ SaveCandidate(p)
  BY <1>3 DEF Daily, Classify, Prepare, PrepareBlocks, RecordPrepared, AutoApplies, store
<1>4. Revoke => cand' = cand \/ SetsOne
  <2>1. CASE RevokeSets
    <3>1. revoking.code \in Codes
      BY <2>1 DEF Inv, TypeOK, Revocations, RevokeSets, Codes
    <3> QED
      BY <1>0, <2>1, <3>1 DEF RevokeSets, SetsOne
  <2> QED
    BY <2>1 DEF Revoke, RevokeReads, RevokeRecords, store
<1>5. Starts \/ Environment \/ UNCHANGED vars => cand' = cand
  BY DEF Starts, ByHand, StartDaily, ApplyByHand, StartApply, Environment, Release, Tick, RecordApproval, RollbackByHand, Crash, Raise,
     RevokeDies, store, vars
<1> QED
  BY <1>1, <1>2, <1>3, <1>4, <1>5 DEF Next, Worker, Triggered, Starts

\* What each step does to time and to the approval files.
LEMMA ApprovalSteps ==
  ASSUME Inv, [Next]_vars
  PROVE  \/ UNCHANGED <<clock, approvedAt>>
         \/ Tick
         \/ \E c \in Codes : RecordApproval(c)
<1>1. ASSUME NEW p \in Procs, Guarded(p) \/ Apply(p) PROVE UNCHANGED <<clock, approvedAt>>
  BY <1>1 DEF Guarded, Acquire, FindBusy, ReconcileRun, OpenRun, Close, Apply, Gate, Deny,
     DenySecondUse, Authorise, DeployBlocks, DeployBegins, DeployEnds, Settle, RecordReverted, outer
<1>2. ASSUME NEW p \in Procs, Daily(p) PROVE UNCHANGED <<clock, approvedAt>>
  BY <1>2 DEF Daily, Classify, Prepare, PrepareBlocks, SupersedePending, SaveCandidate, RecordPrepared,
     AutoApplies, outer
<1>3. Starts \/ Revoke \/ UNCHANGED vars => UNCHANGED <<clock, approvedAt>>
  BY DEF Starts, ByHand, StartDaily, ApplyByHand, StartApply, Revoke, RevokeReads, RevokeSets, RevokeRecords, outer, vars
<1>4. Environment => \/ UNCHANGED <<clock, approvedAt>> \/ Tick
                     \/ \E c \in Codes : RecordApproval(c)
  BY DEF Environment, Release, RollbackByHand, Crash, Raise, RevokeDies, outer
<1> QED
  BY <1>1, <1>2, <1>3, <1>4 DEF Next, Worker, Triggered, Starts

\* A code is consumed once, now.
LEMMA ConsumptionSteps ==
  ASSUME Inv, [Next]_vars, NEW c \in Codes
  PROVE  \/ consumed'[c] = consumed[c]
         \/ consumed[c] = 0 /\ consumed'[c] = clock
<1>1. ASSUME NEW p \in Procs, Guarded(p) \/ (Apply(p) /\ ~Authorise(p))
      PROVE  consumed' = consumed
  BY <1>1 DEF Guarded, Acquire, FindBusy, ReconcileRun, OpenRun, Close, Apply, Gate, Deny,
     DenySecondUse, DeployBlocks, DeployBegins, DeployEnds, Settle, RecordReverted, store
<1>2. ASSUME NEW p \in Procs, Daily(p) PROVE consumed' = consumed
  BY <1>2 DEF Daily, Classify, Prepare, PrepareBlocks, SupersedePending, SaveCandidate,
     RecordPrepared, AutoApplies, store
<1>3. Starts \/ Revoke \/ Environment \/ UNCHANGED vars => consumed' = consumed
  BY DEF Starts, ByHand, StartDaily, ApplyByHand, StartApply, Revoke, RevokeReads, RevokeSets,
     RevokeRecords, Environment, Release, Tick, RecordApproval, RollbackByHand, Crash, Raise,
     RevokeDies, store, vars
<1>4. ASSUME NEW p \in Procs, Authorise(p)
      PROVE  consumed'[c] = consumed[c] \/ (consumed[c] = 0 /\ consumed'[c] = clock)
  BY <1>4 DEF Inv, TypeOK, Authorise
<1> QED
  BY <1>1, <1>2, <1>3, <1>4 DEF Next, Worker, Triggered, Starts

LEMMA RowsAlwaysStay ==
  ASSUME Inv, Past, [Next]_vars
  PROVE  RowsStay
<1>1. /\ cand \in [Codes -> Candidates] /\ clock \in Nat /\ approvedAt \in [Codes -> Times]
      /\ consumed \in [Codes -> Times] /\ Times \subseteq Nat
      /\ \A c \in Codes : cand[c].created \in Nat /\ cand[c].expires \in Nat
  BY DEF Inv, TypeOK, Candidates, Times
<1>2. /\ clock' \in Nat /\ clock' >= clock
      /\ \A c \in Codes : approvedAt'[c] = approvedAt[c] \/ approvedAt'[c] = clock
  <2>1. CASE Tick
    BY <1>1, <2>1 DEF Tick
  <2>2. CASE \E c \in Codes : RecordApproval(c)
    BY <1>1, <2>2 DEF RecordApproval
  <2> QED
    BY <1>1, <2>1, <2>2, ApprovalSteps
<1>3. \A c \in Codes :
        /\ cand'[c].created <= clock
        /\ Known(c) => /\ cand'[c].status # "NONE"
                       /\ cand'[c].created = cand[c].created
                       /\ cand'[c].expires = cand[c].expires
                       /\ cand'[c].target = cand[c].target
                       /\ cand'[c].source = cand[c].source
  <2>1. CASE cand' = cand
    BY <2>1 DEF Known, Past
  <2>2. CASE SetsOne
    <3>1. PICK d \in Codes, s \in CandidateStatuses \ {"NONE"} : SetStatus(d, s)
      BY <2>2 DEF SetsOne
    <3>2. cand' = [cand EXCEPT ![d] = [cand[d] EXCEPT !.status = s]]
      BY <3>1 DEF SetStatus
    <3>3. cand[d] \in Candidates
      BY <1>1
    <3> QED
      BY <1>1, <3>2, <3>3 DEF Known, Candidates, Past
  <2>3. ASSUME NEW p \in Procs, SupersedePending(p)
        PROVE  \A c \in Codes : cand'[c] = cand[c]
                               \/ cand'[c] = [cand[c] EXCEPT !.status = "SUPERSEDED"]
    BY <1>1, <2>3 DEF SupersedePending
  <2>4. CASE \E p \in Procs : SupersedePending(p)
    <3>1. \A c \in Codes : cand[c] \in Candidates
                           /\ (cand'[c] = cand[c] \/ cand'[c] = [cand[c] EXCEPT !.status = "SUPERSEDED"])
      BY <1>1, <2>3, <2>4
    <3> QED
      BY <3>1 DEF Known, Candidates, Past
  <2>5. ASSUME NEW p \in Procs, SaveCandidate(p)
        PROVE  \E d \in Codes :
                 /\ cand[d].status = "NONE" /\ \A c \in Codes : c # d => cand'[c] = cand[c]
                 /\ cand'[d].created = clock
    BY <1>1, <2>5 DEF SaveCandidate
  <2>6. CASE \E p \in Procs : SaveCandidate(p)
    <3>1. PICK d \in Codes :
            /\ cand[d].status = "NONE" /\ \A c \in Codes : c # d => cand'[c] = cand[c]
            /\ cand'[d].created = clock
      BY <2>5, <2>6
    <3> QED
      BY <1>1, <3>1 DEF Known, Past
  <2> QED
    BY <2>1, <2>2, <2>4, <2>6, TableSteps
<1>4. ASSUME NEW c \in Codes, Known(c), Allowed(c) PROVE Allowed(c)'
  <2>1. /\ cand'[c].created = cand[c].created /\ cand'[c].expires = cand[c].expires
        /\ consumed'[c] = consumed[c]
    BY <1>3, <1>4, ConsumptionSteps DEF Allowed
  <2>2. cand[c].created <= clock /\ consumed[c] <= clock /\ clock # 0 /\ ApprovalTTL \in Nat
        /\ consumed[c] \in Nat /\ approvedAt[c] \in Nat
    <3>1. consumed[c] \in Times /\ approvedAt[c] \in Times /\ clock # 0
      BY <1>1 DEF Inv, Owned
    <3> QED
      BY <1>1, <3>1 DEF Past
  <2>3. CASE AutoApply
    BY <1>4, <2>1, <2>3 DEF Allowed
  <2>4. CASE approvedAt'[c] = clock
    BY <1>1, <1>4, <2>1, <2>2, <2>4 DEF Allowed
  <2>5. CASE approvedAt'[c] = approvedAt[c]
    BY <1>4, <2>1, <2>5 DEF Allowed
  <2> QED
    BY <1>2, <2>3, <2>4, <2>5
<1>5. Past'
  <2>1. \A c \in Codes : cand'[c].created \in Nat /\ consumed'[c] \in Nat
    BY InductiveStep DEF Inv, TypeOK, Candidates, Times
  <2>2. \A c \in Codes : consumed'[c] <= clock
    BY <1>1, ConsumptionSteps DEF Past
  <2> QED
    BY <1>1, <1>2, <1>3, <2>1, <2>2 DEF Past
<1> QED
  BY <1>1, <1>2, <1>3, <1>4, <1>5 DEF RowsStay

\* A process that is not about to deploy may go on if it was given no authority.
LEMMA MayGoOnElsewhere ==
  ASSUME NEW p \in Procs, MayGoOn(p), my'[p].kind = "auto" => my[p].kind = "auto",
         pc'[p] \notin AboutToDeploy \cup {"auto"}
  PROVE  MayGoOn(p)'
  BY DEF MayGoOn, AboutToDeploy

\* One that stays before or in a deployment, or only works on, keeps what it may do.
LEMMA MayStillGoOn ==
  ASSUME Inv, RowsStay, NEW p \in Procs, MayGoOn(p),
         my'[p].kind = "auto" => my[p].kind = "auto", my'[p].code = my[p].code,
         pc'[p] = pc[p] \/ (pc[p] \in AboutToDeploy /\ pc'[p] \in AboutToDeploy \ {"deploy"})
  PROVE  MayGoOn(p)'
<1>1. pc[p] \in AboutToDeploy => my[p].code \in Codes
  BY DEF Inv, ConsumedFirst, AboutToDeploy
<1>2. pc'[p] = "auto" => pc[p] = "auto"
  BY DEF AboutToDeploy
<1>3. pc'[p] = "deploy" => pc[p] = "deploy" /\ "deploy" \in AboutToDeploy
  BY DEF AboutToDeploy
<1>4. \A c \in Codes : Known(c) /\ Allowed(c) => Allowed(c)'
  BY DEF RowsStay
<1>5. pc'[p] \in AboutToDeploy => pc[p] \in AboutToDeploy
  OBVIOUS
<1>6. pc'[p] \in AboutToDeploy => Known(my[p].code)'
  BY <1>1, <1>5 DEF MayGoOn, RowsStay, Known
<1>7. pc'[p] = "deploy" => Allowed(my[p].code)'
  <2> HAVE pc'[p] = "deploy"
  <2>1. PICK c \in Codes : c = my[p].code
    BY <1>1, <1>3
  <2>2. Allowed(c)' /\ cand'[c].created = cand[c].created
    BY <1>3, <1>4, <2>1 DEF MayGoOn, RowsStay
  <2> QED
    BY <2>1, <2>2 DEF Allowed
<1> QED
  BY <1>2, <1>6, <1>7 DEF MayGoOn, Known, Allowed

\* The steps of one process.
Moves(p) ==
  \/ Guarded(p) \/ Daily(p) \/ Apply(p) \/ Crash(p) \/ Raise(p)
  \/ ByHand(p) \/ StartApply(p)

\* The steps that take the process that makes them.
LEMMA StepsMayGoOn ==
  ASSUME Inv, Past, RowsStay, NEW p \in Procs, MayGoOn(p), Moves(p)
  PROVE  MayGoOn(p)'
<1> DEFINE c == my[p].code
<1>0. /\ my \in [Procs -> Locals] /\ pc \in [Procs -> Steps] /\ my[p] \in Locals
      /\ my' = [my EXCEPT ![p] = NoLocals] => my'[p].kind # "auto"
  BY DEF Inv, TypeOK, NoLocals
<1>1. ASSUME pc'[p] \in {"idle", "lock", "reconcile", "open", "classify", "prepare", "save", "insert",
                         "prepared", "gate", "close"},
             my'[p].kind = "auto" => my[p].kind = "auto"
      PROVE  MayGoOn(p)'
  BY <1>1, MayGoOnElsewhere DEF AboutToDeploy
<1>2. CASE Acquire(p) \/ FindBusy(p) \/ ReconcileRun(p) \/ OpenRun(p)
  <2>1. my'[p].kind = "auto" => my[p].kind = "auto"
    BY <1>0, <1>2 DEF Acquire, FindBusy, ReconcileRun, OpenRun, Forget, NoLocals, Locals
  <2> QED
    BY <1>0, <1>1, <1>2, <2>1 DEF Acquire, FindBusy, ReconcileRun, OpenRun, Goto
<1>3. CASE Close(p)
  <2>1. CASE my[p].pending /\ AutoApply
    <3>1. pc'[p] = "auto"
      BY <1>0, <1>3, <2>1 DEF Close, Goto
    <3> QED
      BY <2>1, <3>1 DEF MayGoOn, AboutToDeploy
  <2>2. CASE ~(my[p].pending /\ AutoApply)
    BY <1>0, <1>1, <1>3, <2>2 DEF Close, Goto, Forget
  <2> QED
    BY <2>1, <2>2
<1>4. CASE Daily(p)
  <2>1. CASE AutoApplies(p)
    <3>1. AutoApply /\ pc'[p] \in {"lock", "idle"}
      BY <1>0, <1>4, <2>1 DEF AutoApplies, Goto, MayGoOn
    <3> QED
      BY <3>1 DEF MayGoOn, AboutToDeploy
  <2>2. CASE Classify(p) \/ RecordPrepared(p)
    <3>1. my'[p].kind = my[p].kind
      BY <1>0, <1>4, <2>2 DEF Classify, RecordPrepared, BackupDecides, Locals
    <3> QED
      BY <1>0, <1>1, <1>4, <2>2, <3>1 DEF Classify, RecordPrepared, Goto
  <2>3. CASE Prepare(p) \/ PrepareBlocks(p) \/ SupersedePending(p) \/ SaveCandidate(p)
    BY <1>0, <1>1, <1>4, <2>3 DEF Prepare, PrepareBlocks, SupersedePending, SaveCandidate, Goto
  <2> QED
    BY <1>4, <2>1, <2>2, <2>3 DEF Daily
<1>5. CASE Gate(p)
  <2>1. my'[p].kind = my[p].kind
    BY <1>0, <1>5 DEF Gate, Locals
  <2>2. CASE pc'[p] = "close"
    BY <1>1, <2>1, <2>2
  <2>3. CASE pc'[p] # "close"
    <3>1. pc'[p] = "authorise" /\ IsPending(my'[p].code) /\ cand' = cand
      BY <1>0, <1>5, <2>3 DEF Gate, Goto, Locals, store
    <3> QED
      BY <2>1, <3>1 DEF MayGoOn, IsPending, Known
  <2> QED
    BY <2>2, <2>3
<1>6. CASE Deny(p) \/ DenySecondUse(p) \/ RecordReverted(p)
  BY <1>0, <1>1, <1>6 DEF Deny, DenySecondUse, RecordReverted, Goto
<1>7. CASE Authorise(p)
  <2>1. /\ pc[p] = "authorise" /\ pc'[p] = "deploy" /\ my' = my
        /\ UNCHANGED <<cand, approvedAt, clock>> /\ Approved(p, c)
        /\ consumed' = [consumed EXCEPT ![c] = clock]
    BY <1>0, <1>7 DEF Authorise, Goto, outer
  <2>2. c \in Codes /\ Known(c)
    BY <2>1 DEF Inv, ConsumedFirst, MayGoOn, AboutToDeploy
  <2>3. /\ cand[c].created \in Nat /\ cand[c].expires \in Nat /\ clock \in Nat
        /\ cand[c].created <= clock /\ clock # 0 /\ consumed'[c] = clock
    BY <2>1, <2>2 DEF Inv, TypeOK, Candidates, Past, Times
  <2>4. my[p].kind = "auto" => AutoApply
    BY DEF MayGoOn
  <2>5. /\ consumed'[c] # 0 /\ consumed'[c] \in cand'[c].created .. cand'[c].expires
        /\ AutoApply \/ /\ approvedAt'[c] # 0 /\ approvedAt'[c] >= cand'[c].created
                        /\ consumed'[c] <= approvedAt'[c] + ApprovalTTL
    BY <2>1, <2>3, <2>4 DEF Approved
  <2> QED
    BY <2>1, <2>2, <2>4, <2>5 DEF MayGoOn, Known, Allowed, AboutToDeploy
<1>8. CASE DeployBlocks(p) \/ DeployBegins(p) \/ DeployEnds(p) \/ Settle(p)
  <2>1. my'[p].code = my[p].code /\ my'[p].kind = my[p].kind
    BY <1>0, <1>8 DEF DeployBlocks, DeployBegins, DeployEnds, Settle, Locals
  <2>2. CASE pc'[p] = "close"
    BY <1>1, <2>1, <2>2
  <2>3. CASE pc'[p] # "close"
    <3>1. pc[p] \in AboutToDeploy /\ pc'[p] \in AboutToDeploy \ {"deploy"}
      BY <1>0, <1>8, <2>3 DEF DeployBlocks, DeployBegins, DeployEnds, Settle, Goto, AboutToDeploy
    <3> QED
      BY <2>1, <3>1, MayStillGoOn
  <2> QED
    BY <2>2, <2>3
<1>9. CASE Crash(p) \/ Raise(p)
  BY <1>0, <1>1, <1>9 DEF Crash, Raise, Forget, NoLocals
<1>10. CASE ByHand(p) \/ StartApply(p)
  <2>1. my'[p].kind # "auto" /\ pc'[p] = "lock"
    BY <1>0, <1>10 DEF ByHand, StartDaily, ApplyByHand, StartApply, Goto, Locals
  <2> QED
    BY <1>1, <2>1
<1> QED
  BY <1>2, <1>3, <1>4, <1>5, <1>6, <1>7, <1>8, <1>9, <1>10 DEF Moves, Guarded, Apply

\* Every step is one of one process, or of none.
LEMMA OneProcessMoves ==
  ASSUME Inv, [Next]_vars
  PROVE  \/ UNCHANGED <<pc, my>>
         \/ \E p \in Procs :
              /\ Moves(p)
              /\ \A q \in Procs : q # p => pc'[q] = pc[q] /\ my'[q] = my[q]
<1>0. my \in [Procs -> Locals] /\ pc \in [Procs -> Steps]
  BY DEF Inv, TypeOK
<1> DEFINE Only(p) == \A q \in Procs : q # p => pc'[q] = pc[q] /\ my'[q] = my[q]
<1>1. ASSUME NEW p \in Procs, Guarded(p) PROVE Only(p)
  BY <1>0, <1>1 DEF Guarded, Acquire, FindBusy, ReconcileRun, OpenRun, Close, Goto, Forget
<1>2. ASSUME NEW p \in Procs, Apply(p) PROVE Only(p)
  <2>1. CASE Gate(p) \/ Deny(p) \/ DenySecondUse(p) \/ Authorise(p)
    BY <1>0, <2>1 DEF Gate, Deny, DenySecondUse, Authorise, Goto
  <2>2. CASE DeployBlocks(p) \/ DeployBegins(p) \/ DeployEnds(p) \/ Settle(p) \/ RecordReverted(p)
    BY <1>0, <2>2 DEF DeployBlocks, DeployBegins, DeployEnds, Settle, RecordReverted, Goto
  <2> QED
    BY <1>2, <2>1, <2>2 DEF Apply
<1>3. ASSUME NEW p \in Procs, Daily(p) PROVE Only(p)
  BY <1>0, <1>3 DEF Daily, Classify, Prepare, PrepareBlocks, SupersedePending, SaveCandidate,
     RecordPrepared, BackupDecides, AutoApplies, Goto
<1>4. ASSUME NEW p \in Procs, Crash(p) \/ Raise(p) PROVE Only(p)
  BY <1>0, <1>4 DEF Crash, Raise, Forget
<1>5. ASSUME NEW p \in Procs, ByHand(p) \/ StartApply(p) PROVE Only(p)
  BY <1>0, <1>5 DEF ByHand, StartDaily, ApplyByHand, StartApply, Goto
<1>6. Revoke \/ Release \/ Tick \/ RevokeDies \/ UNCHANGED vars => UNCHANGED <<pc, my>>
  BY DEF Revoke, RevokeReads, RevokeSets, RevokeRecords, Release, Tick, RevokeDies, procs, vars
<1>7. \A c \in Codes : RecordApproval(c) \/ RollbackByHand(c) => UNCHANGED <<pc, my>>
  BY DEF RecordApproval, RollbackByHand, procs
<1> QED
  BY <1>1, <1>2, <1>3, <1>4, <1>5, <1>6, <1>7 DEF Next, Triggered, Worker, Environment, Moves

\* Deployments begin in one place.
LEMMA DeploymentSteps ==
  ASSUME Inv, [Next]_vars
  PROVE  deployments' = deployments \/ \E p \in Procs : DeployBegins(p)
<1>1. ASSUME NEW p \in Procs, Guarded(p) \/ (Apply(p) /\ ~DeployBegins(p))
      PROVE  deployments' = deployments
  BY <1>1 DEF Guarded, Acquire, FindBusy, ReconcileRun, OpenRun, Close, Apply, Gate, Deny,
     DenySecondUse, Authorise, DeployBlocks, DeployEnds, Settle, RecordReverted, past
<1>2. ASSUME NEW p \in Procs, Daily(p) PROVE deployments' = deployments
  BY <1>2 DEF Daily, Classify, Prepare, PrepareBlocks, SupersedePending, SaveCandidate,
     RecordPrepared, AutoApplies, past
<1>3. Starts \/ Revoke \/ Environment \/ UNCHANGED vars => deployments' = deployments
  BY DEF Starts, ByHand, StartDaily, ApplyByHand, StartApply, Revoke, RevokeReads, RevokeSets,
     RevokeRecords, Environment, Release, Tick, RecordApproval, RollbackByHand, Crash, Raise,
     RevokeDies, past, vars
<1> QED
  BY <1>1, <1>2, <1>3 DEF Next, Worker, Triggered, Starts

LEMMA AuthInvNext == Inv /\ AuthInv /\ [Next]_vars => AuthInv'
<1> SUFFICES ASSUME Inv, AuthInv, [Next]_vars PROVE AuthInv'
  OBVIOUS
<1>1. RowsStay
  BY RowsAlwaysStay DEF AuthInv
<1>2. Past /\ \A p \in Procs : MayGoOn(p)
  BY DEF AuthInv
<1>3. ASSUME NEW p \in Procs PROVE MayGoOn(p)'
  <2>1. CASE pc'[p] = pc[p] /\ my'[p] = my[p]
    BY <1>1, <1>2, <2>1, MayStillGoOn
  <2>2. CASE Moves(p)
    BY <1>1, <1>2, <2>2, StepsMayGoOn
  <2> QED
    BY <2>1, <2>2, OneProcessMoves
<1>4. ASSUME NEW c \in Codes, deployments'[c] > 0 PROVE Known(c)' /\ Allowed(c)'
  <2>1. Known(c) /\ Allowed(c)
    <3>1. CASE deployments'[c] = deployments[c]
      BY <1>4, <3>1 DEF AuthInv
    <3>2. CASE deployments'[c] # deployments[c]
      <4>1. PICK p \in Procs : DeployBegins(p)
        BY <3>2, DeploymentSteps
      <4>2. c = my[p].code /\ pc[p] = "deploy"
        BY <3>2, <4>1 DEF DeployBegins, Goto, Inv, TypeOK
      <4> QED
        BY <1>2, <4>2 DEF MayGoOn, AboutToDeploy
    <3> QED
      BY <3>1, <3>2
  <2> QED
    BY <1>1, <2>1 DEF RowsStay, Known
<1> QED
  BY <1>1, <1>3, <1>4 DEF AuthInv, RowsStay

LEMMA AuthInvInit == Init => AuthInv
<1> SUFFICES ASSUME Init PROVE AuthInv
  OBVIOUS
<1>1. Past /\ \A c \in Codes : deployments[c] = 0
  BY DEF Init, Past
<1>2. \A p \in Procs : MayGoOn(p)
  BY DEF Init, MayGoOn, AboutToDeploy, NoLocals
<1> QED
  BY <1>1, <1>2 DEF AuthInv

\* What was deployed was authorised before the candidate expired and, unless the policy
\* needs no approval, by one that root recorded after it was prepared and that had not
\* lapsed: whoever dies, revokes or starts again, and however long a candidate waits
\* (machine.py _apply, approval.py check).
THEOREM OnlyTheAuthorisedIsDeployed == Spec => []DeployedWasAuthorised
<1>1. AuthInv => DeployedWasAuthorised
  BY DEF AuthInv, DeployedWasAuthorised, Allowed
<1> QED
  BY <1>1, AuthInvInit, AuthInvNext, InductiveInvariant, PTL DEF Spec

-----------------------------------------------------------------------------
(* A pair that was reverted is not deployed again.                         *)

\* The attempts remember it, so no candidate of it waits, is prepared, or is applied; and
\* whoever applies a candidate applies the only one that waits.
MayApply(p) ==
  /\ pc[p] \in {"authorise", "deploy"} => Pair(my[p].code) \notin reverted
  /\ pc[p] \in {"authorise", "deploy", "changing", "settle"}
       => \A d \in Codes : IsPending(d) => d = my[p].code
  /\ pc[p] = "record" => \A d \in Codes : ~IsPending(d)
Preparing == {"prepare", "save", "insert", "prepared"}
NewPair == \A p \in Procs : pc[p] \in Preparing => <<my[p].target, my[p].source>> \notin reverted
Remembered == \A pair \in reverted : attempts[pair].outcome = "ROLLED_BACK"
NoneWaits == \A c \in Codes : IsPending(c) => Pair(c) \notin reverted

RevertInv ==
  /\ Remembered /\ NoneWaits /\ NewPair
  /\ \A p \in Procs : MayApply(p)

\* What each step does to the memory of reverted pairs.
LEMMA RevertedSteps ==
  ASSUME Inv, [Next]_vars
  PROVE  \/ UNCHANGED <<reverted, attempts>>
         \/ RevokeRecords
         \/ \E p \in Procs : PrepareBlocks(p) \/ RecordPrepared(p) \/ RecordReverted(p)
<1>1. ASSUME NEW p \in Procs, Guarded(p) \/ (Apply(p) /\ ~RecordReverted(p))
      PROVE  UNCHANGED <<reverted, attempts>>
  BY <1>1 DEF Guarded, Acquire, FindBusy, ReconcileRun, OpenRun, Close, Apply, Gate, Deny,
     DenySecondUse, Authorise, DeployBlocks, DeployBegins, DeployEnds, Settle, past, store
<1>2. ASSUME NEW p \in Procs, Daily(p)
      PROVE  UNCHANGED <<reverted, attempts>> \/ PrepareBlocks(p) \/ RecordPrepared(p)
  BY <1>2 DEF Daily, Classify, Prepare, SupersedePending, SaveCandidate, AutoApplies, past, store
<1>3. Revoke => UNCHANGED <<reverted, attempts>> \/ RevokeRecords
  BY DEF Revoke, RevokeReads, RevokeSets, past, store
<1>4. Starts \/ Environment \/ UNCHANGED vars => UNCHANGED <<reverted, attempts>>
  BY DEF Starts, ByHand, StartDaily, ApplyByHand, StartApply, Environment, Release, Tick, RecordApproval, RollbackByHand, Crash, Raise,
     RevokeDies, past, store, vars
<1> QED
  BY <1>1, <1>2, <1>3, <1>4 DEF Next, Worker, Triggered, Starts

\* A candidate becomes pending where it is saved, with the pair that was prepared.
LEMMA PendingSteps ==
  ASSUME Inv, RowsStay, [Next]_vars, NEW c \in Codes, IsPending(c)'
  PROVE  \/ IsPending(c) /\ Pair(c)' = Pair(c)
         \/ \E p \in Procs : SaveCandidate(p) /\ Pair(c)' = <<my[p].target, my[p].source>>
<1>1. cand \in [Codes -> Candidates]
  BY DEF Inv, TypeOK
<1>2. CASE IsPending(c)
  BY <1>2 DEF IsPending, RowsStay, Known, Pair
<1>3. CASE ~IsPending(c)
  <2>1. cand' # cand
    BY <1>3 DEF IsPending
  <2>2. ~SetsOne
    BY <1>1, <1>3 DEF SetsOne, SetStatus, IsPending, Candidates
  <2>3. ASSUME NEW p \in Procs, SupersedePending(p) PROVE FALSE
    BY <1>1, <1>3, <2>3 DEF SupersedePending, IsPending, Candidates
  <2>4. PICK p \in Procs : SaveCandidate(p)
    BY <2>1, <2>2, <2>3, TableSteps
  <2>5. cand'[c].target = my[p].target /\ cand'[c].source = my[p].source
    BY <1>1, <1>3, <2>4 DEF SaveCandidate, IsPending
  <2> QED
    BY <2>4, <2>5 DEF Pair
<1> QED
  BY <1>2, <1>3

LEMMA RememberedNext == Inv /\ RevertInv /\ [Next]_vars => Remembered'
<1> SUFFICES ASSUME Inv, RevertInv, [Next]_vars PROVE Remembered'
  OBVIOUS
<1>1. reverted \subseteq Pairs /\ attempts \in [Pairs -> [outcome: AttemptOutcomes, at: Times]]
  BY DEF Inv, TypeOK
<1>2. CASE UNCHANGED <<reverted, attempts>>
  BY <1>2 DEF RevertInv, Remembered
<1>3. CASE RevokeRecords
  <2> DEFINE P == Pair(revoking.code)
  <2>1. /\ attempts' = [attempts EXCEPT ![P] = [outcome |-> "REVOKED", at |-> clock]]
        /\ reverted' = reverted \ {P}
    BY <1>3 DEF RevokeRecords, Attempt
  <2> HIDE DEF P
  <2> QED
    BY <1>1, <2>1 DEF RevertInv, Remembered
<1>4. ASSUME NEW p \in Procs, PrepareBlocks(p) \/ RecordPrepared(p) PROVE Remembered'
  <2> DEFINE P == <<my[p].target, my[p].source>>
  <2>1. P \notin reverted /\ reverted' = reverted
    BY <1>4 DEF PrepareBlocks, RecordPrepared, Goto, RevertInv, NewPair, Preparing, past
  <2>2. attempts' = attempts \/ \E o \in AttemptOutcomes : Attempt(P, o)
    BY <1>4 DEF PrepareBlocks, RecordPrepared, AttemptOutcomes
  <2> HIDE DEF P
  <2> QED
    BY <1>1, <2>1, <2>2 DEF Attempt, RevertInv, Remembered
<1>5. ASSUME NEW p \in Procs, RecordReverted(p) PROVE Remembered'
  <2> DEFINE P == Pair(my[p].code)
  <2>1. /\ attempts' = [attempts EXCEPT ![P] = [outcome |-> "ROLLED_BACK", at |-> clock]]
        /\ reverted' = reverted \cup {P}
    BY <1>5 DEF RecordReverted, Attempt
  <2>2. P \in Pairs
    BY <1>5, PairTypes DEF Inv, ConsumedFirst, RecordReverted, Goto
  <2> HIDE DEF P
  <2> QED
    BY <1>1, <2>1, <2>2 DEF RevertInv, Remembered
<1> QED
  BY <1>2, <1>3, <1>4, <1>5, RevertedSteps

\* Reverted pairs become more in one place.
LEMMA RevertedGrows ==
  ASSUME Inv, [Next]_vars
  PROVE  reverted' \subseteq reverted \/ \E p \in Procs : RecordReverted(p)
<1>1. RevokeRecords => reverted' \subseteq reverted
  BY DEF RevokeRecords
<1>2. ASSUME NEW p \in Procs, PrepareBlocks(p) \/ RecordPrepared(p) PROVE reverted' = reverted
  BY <1>2 DEF PrepareBlocks, RecordPrepared, past
<1> QED
  BY <1>1, <1>2, RevertedSteps

LEMMA NoneWaitsNext == Inv /\ RowsStay /\ RevertInv /\ [Next]_vars => NoneWaits'
<1> SUFFICES ASSUME Inv, RowsStay, RevertInv, [Next]_vars, NEW c \in Codes, IsPending(c)'
             PROVE  Pair(c)' \notin reverted'
  BY DEF NoneWaits
<1>1. ASSUME NEW p \in Procs, RecordReverted(p) PROVE FALSE
  <2>1. cand' = cand /\ pc[p] = "record"
    BY <1>1 DEF RecordReverted, Goto
  <2> QED
    BY <2>1 DEF RevertInv, MayApply, IsPending
<1>2. reverted' \subseteq reverted
  BY <1>1, RevertedGrows
<1>3. CASE IsPending(c) /\ Pair(c)' = Pair(c)
  BY <1>2, <1>3 DEF RevertInv, NoneWaits
<1>4. ASSUME NEW p \in Procs, SaveCandidate(p), Pair(c)' = <<my[p].target, my[p].source>>
      PROVE  Pair(c)' \notin reverted'
  <2>1. pc[p] \in Preparing
    BY <1>4 DEF SaveCandidate, Goto, Preparing
  <2> QED
    BY <1>2, <1>4, <2>1 DEF RevertInv, NewPair
<1> QED
  BY <1>3, <1>4, PendingSteps

LEMMA NewPairNext == Inv /\ RevertInv /\ [Next]_vars => NewPair'
<1> SUFFICES ASSUME Inv, RevertInv, [Next]_vars, NEW p \in Procs, pc'[p] \in Preparing
             PROVE  <<my'[p].target, my'[p].source>> \notin reverted'
  BY DEF NewPair
<1>0. /\ my \in [Procs -> Locals] /\ pc \in [Procs -> Steps] /\ my[p] \in Locals
  BY DEF Inv, TypeOK
<1>1. CASE Classify(p)
  <2>1. pc'[p] # "close"
    BY DEF Preparing
  <2>2. /\ my' = [my EXCEPT ![p].target = upstream, ![p].source = prod]
        /\ ~Skip(upstream, prod) /\ reverted' = reverted
    BY <1>0, <1>1, <2>1 DEF Classify, Goto, past
  <2>3. <<upstream, prod>> \notin reverted
    BY <2>2 DEF Skip, RevertInv, Remembered
  <2>4. my'[p].target = upstream /\ my'[p].source = prod
    BY <1>0, <2>2 DEF Locals
  <2> QED
    BY <2>2, <2>3, <2>4
<1>2. CASE ~Classify(p)
  <2>1. /\ pc[p] \in Preparing
        /\ my'[p].target = my[p].target /\ my'[p].source = my[p].source
    <3>1. CASE pc'[p] = pc[p] /\ my'[p] = my[p]
      BY <3>1
    <3>2. CASE Daily(p)
      <4>1. CASE RecordPrepared(p)
        BY <1>0, <4>1 DEF RecordPrepared, Goto, Preparing
      <4> QED
        BY <1>0, <1>2, <3>2, <4>1 DEF Daily, Prepare, PrepareBlocks, SupersedePending,
           SaveCandidate, AutoApplies, Goto, Preparing
    <3>3. CASE Guarded(p)
      BY <1>0, <3>3 DEF Guarded, Acquire, FindBusy, ReconcileRun, OpenRun, Close, Goto, Preparing
    <3>4. CASE Apply(p)
      BY <1>0, <3>4 DEF Apply, Gate, Deny, DenySecondUse, Authorise, DeployBlocks, DeployBegins,
         DeployEnds, Settle, RecordReverted, Goto, Preparing
    <3>5. CASE Crash(p) \/ Raise(p) \/ ByHand(p) \/ StartApply(p)
      BY <1>0, <3>5 DEF Crash, Raise, ByHand, StartDaily, ApplyByHand, StartApply, Goto, Preparing
    <3> QED
      BY <3>1, <3>2, <3>3, <3>4, <3>5, OneProcessMoves DEF Moves
  <2>2. ASSUME NEW q \in Procs, RecordReverted(q) PROVE FALSE
    <3>1. pc[q] = "record" /\ pc[q] \in Locked /\ pc[p] \in Locked
      BY <2>1, <2>2 DEF RecordReverted, Goto, Preparing, Locked, Steps
    <3>2. p = q
      BY <3>1, OnlyTheHolder
    <3> QED
      BY <2>1, <3>1, <3>2 DEF Preparing
  <2> QED
    BY <2>1, <2>2, RevertedGrows DEF RevertInv, NewPair
<1> QED
  BY <1>1, <1>2

\* A process that stays where it is, or works on, may still apply what it applies.
LEMMA MayStillApply ==
  ASSUME Inv, RowsStay, AuthInv, RevertInv, [Next]_vars, NEW q \in Procs,
         my'[q].code = my[q].code,
         \/ pc'[q] = pc[q]
         \/ pc[q] \in {"authorise", "deploy"} /\ pc'[q] \in {"deploy", "changing", "settle"}
         \/ pc[q] = "changing" /\ pc'[q] = "settle"
  PROVE  MayApply(q)'
<1>1. CASE pc'[q] \notin AboutToDeploy
  BY <1>1 DEF MayApply, AboutToDeploy
<1>2. CASE pc'[q] \in AboutToDeploy
  <2>1. pc[q] \in AboutToDeploy /\ pc[q] \in Locked
    BY <1>2 DEF AboutToDeploy, Locked, Steps
  <2>2. my[q].code \in Codes /\ Known(my[q].code)
    BY <2>1 DEF Inv, ConsumedFirst, AuthInv, MayGoOn, AboutToDeploy
  <2>3. ASSUME NEW p \in Procs, SaveCandidate(p) PROVE FALSE
    <3>1. pc[p] = "insert" /\ "insert" \in Locked
      BY <2>3 DEF SaveCandidate, Goto, Locked, Steps
    <3> QED
      BY <2>1, <3>1, OnlyTheHolder DEF AboutToDeploy
  <2>4. \A d \in Codes : IsPending(d)' => IsPending(d)
    BY <2>3, PendingSteps
  <2>5. pc'[q] \in {"authorise", "deploy"} => Pair(my[q].code) \notin reverted'
    <3> HAVE pc'[q] \in {"authorise", "deploy"}
    <3>1. pc[q] \in {"authorise", "deploy"}
      OBVIOUS
    <3>2. ASSUME NEW p \in Procs, RecordReverted(p) PROVE FALSE
      <4>1. pc[p] = "record" /\ pc[p] \in Locked
        BY <3>2 DEF RecordReverted, Goto, Locked, Steps
      <4> QED
        BY <2>1, <3>1, <4>1, OnlyTheHolder
    <3> QED
      BY <3>1, <3>2, RevertedGrows DEF RevertInv, MayApply
  <2>6. pc'[q] \in {"authorise", "deploy", "changing", "settle"}
          => \A d \in Codes : IsPending(d)' => d = my[q].code
    BY <2>1, <2>4 DEF RevertInv, MayApply, AboutToDeploy
  <2>7. pc'[q] = "record" => \A d \in Codes : ~IsPending(d)'
    BY <2>1, <2>4 DEF RevertInv, MayApply
  <2>8. cand'[my[q].code].target = cand[my[q].code].target
         /\ cand'[my[q].code].source = cand[my[q].code].source
    BY <2>2 DEF RowsStay
  <2> QED
    BY <2>5, <2>6, <2>7, <2>8 DEF MayApply, Pair
<1> QED
  BY <1>1, <1>2

\* Where a process comes to apply, or settles.
LEMMA StepsMayApply ==
  ASSUME Inv, RowsStay, AuthInv, RevertInv, OnePending, [Next]_vars, NEW p \in Procs, Moves(p)
  PROVE  MayApply(p)'
<1>0. my \in [Procs -> Locals] /\ pc \in [Procs -> Steps] /\ my[p] \in Locals
      /\ cand \in [Codes -> Candidates]
  BY DEF Inv, TypeOK
<1>1. ASSUME pc'[p] \notin AboutToDeploy PROVE MayApply(p)'
  BY <1>1 DEF MayApply, AboutToDeploy
<1>2. CASE Guarded(p) \/ Daily(p)
  <2>1. pc'[p] \notin AboutToDeploy
    <3>1. CASE Guarded(p)
      BY <1>0, <3>1 DEF Guarded, Acquire, FindBusy, ReconcileRun, OpenRun, Close, Goto, AboutToDeploy
    <3>2. CASE Daily(p)
      BY <1>0, <3>2 DEF Daily, Classify, Prepare, PrepareBlocks, SupersedePending, SaveCandidate,
         RecordPrepared, AutoApplies, Goto, AboutToDeploy
    <3> QED
      BY <1>2, <3>1, <3>2
  <2> QED
    BY <1>1, <2>1
<1>3. CASE Crash(p) \/ Raise(p) \/ ByHand(p) \/ StartApply(p)
  BY <1>0, <1>1, <1>3 DEF Crash, Raise, ByHand, StartDaily, ApplyByHand, StartApply, Goto,
     AboutToDeploy
<1>4. CASE Gate(p)
  <2>1. CASE pc'[p] = "close"
    BY <1>1, <2>1 DEF AboutToDeploy
  <2>2. CASE pc'[p] # "close"
    <3>1. /\ pc'[p] = "authorise" /\ IsPending(my'[p].code)
          /\ cand' = cand /\ reverted' = reverted
      BY <1>0, <1>4, <2>2 DEF Gate, Goto, Locals, store, past
    <3>2. my'[p].code \in Codes /\ Pair(my'[p].code) \notin reverted
      BY <3>1 DEF RevertInv, NoneWaits, IsPending
    <3>3. \A d \in Codes : IsPending(d) => d = my'[p].code
      BY <3>1, <3>2 DEF OnePending
    <3> QED
      BY <3>1, <3>2, <3>3 DEF MayApply, IsPending, Pair
  <2> QED
    BY <2>1, <2>2
<1>5. CASE Deny(p) \/ DenySecondUse(p) \/ RecordReverted(p)
  BY <1>0, <1>1, <1>5 DEF Deny, DenySecondUse, RecordReverted, Goto, AboutToDeploy
<1>6. CASE Authorise(p) \/ DeployBlocks(p) \/ DeployBegins(p) \/ DeployEnds(p)
  <2>1. my'[p].code = my[p].code
    BY <1>0, <1>6 DEF Authorise, DeployBlocks, DeployBegins, DeployEnds, Locals
  <2>2. \/ pc[p] \in {"authorise", "deploy"} /\ pc'[p] \in {"deploy", "changing", "settle"}
        \/ pc[p] = "changing" /\ pc'[p] = "settle"
    BY <1>0, <1>6 DEF Authorise, DeployBlocks, DeployBegins, DeployEnds, Goto
  <2> QED
    BY <2>1, <2>2, MayStillApply
<1>7. CASE Settle(p)
  <2>1. CASE pc'[p] = "close"
    BY <1>1, <2>1 DEF AboutToDeploy
  <2>2. CASE pc'[p] # "close"
    <3>1. pc[p] = "settle" /\ pc'[p] = "record"
      BY <1>0, <1>7, <2>2 DEF Settle, Goto
    <3>2. PICK s \in {"BLOCKED", "DEPLOYED", "ROLLED_BACK"} : SetStatus(my[p].code, s)
      BY <1>7 DEF Settle
    <3>3. \A d \in Codes : IsPending(d) => d = my[p].code
      BY <3>1 DEF RevertInv, MayApply
    <3>4. my[p].code \in Codes
      BY <3>1 DEF Inv, ConsumedFirst
    <3>5. cand'[my[p].code].status = s
          /\ \A d \in Codes : d # my[p].code => cand'[d] = cand[d]
      BY <1>0, <3>2, <3>4 DEF SetStatus, Candidates
    <3>6. \A d \in Codes : ~IsPending(d)'
      BY <3>3, <3>5 DEF IsPending
    <3> QED
      BY <3>1, <3>6 DEF MayApply
  <2> QED
    BY <2>1, <2>2
<1> QED
  BY <1>2, <1>3, <1>4, <1>5, <1>6, <1>7 DEF Moves, Apply

LEMMA RevertInvNext ==
  Inv /\ AuthInv /\ RevertInv /\ OnePending /\ [Next]_vars => RevertInv'
<1> SUFFICES ASSUME Inv, AuthInv, RevertInv, OnePending, [Next]_vars PROVE RevertInv'
  OBVIOUS
<1>1. RowsStay
  BY RowsAlwaysStay DEF AuthInv
<1>2. ASSUME NEW p \in Procs PROVE MayApply(p)'
  <2>1. CASE pc'[p] = pc[p] /\ my'[p] = my[p]
    BY <1>1, <2>1, MayStillApply
  <2>2. CASE Moves(p)
    BY <1>1, <2>2, StepsMayApply
  <2> QED
    BY <2>1, <2>2, OneProcessMoves
<1> QED
  BY <1>1, <1>2, RememberedNext, NoneWaitsNext, NewPairNext DEF RevertInv

\* A pair that a deployment reverted, and recorded, is not deployed again unless somebody
\* revokes a candidate of it in between (machine.py _hermes_skip_reason, save_candidate).
THEOREM RevertedPairsStayReverted == Spec => RevertedNotRetried
<1> DEFINE A == \A c \in Codes : deployments'[c] # deployments[c] => Pair(c) \notin reverted
<1>1. Init => RevertInv
  <2> SUFFICES ASSUME Init PROVE RevertInv
    OBVIOUS
  <2>1. reverted = {} /\ \A p \in Procs : pc[p] = "idle" /\ \A c \in Codes : ~IsPending(c)
    BY DEF Init, IsPending
  <2> QED
    BY <2>1 DEF RevertInv, Remembered, NoneWaits, NewPair, MayApply, Preparing
<1>2. Inv /\ RevertInv /\ [Next]_vars => A
  <2> SUFFICES ASSUME Inv, RevertInv, [Next]_vars, NEW c \in Codes,
                      deployments'[c] # deployments[c]
               PROVE  Pair(c) \notin reverted
    OBVIOUS
  <2>1. PICK p \in Procs : DeployBegins(p)
    BY DeploymentSteps
  <2>2. c = my[p].code /\ pc[p] = "deploy"
    BY <2>1 DEF DeployBegins, Goto, Inv, TypeOK
  <2> QED
    BY <2>2 DEF RevertInv, MayApply
<1>3. Init => AuthInv
  BY AuthInvInit
<1> QED
  BY <1>1, <1>2, <1>3, AuthInvNext, RevertInvNext, InductiveInvariant, OneCandidateWaits, PTL
     DEF Spec, RevertedNotRetried
=============================================================================
