---------------------------- MODULE Deploy_proofs ---------------------------
(***************************************************************************)
(* Proofs about Deploy, for every set of commits and every bound on runs   *)
(* and crashes, with or without exceptions.  IInv (DeployInv) is shown     *)
(* inductive, one step per action of Deploy, and the promises of the       *)
(* outcomes follow from it.                                                *)
(***************************************************************************)
EXTENDS DeployInv, TLAPS

USE CommitsAssumption, BoundsAssumption

\* The updates that the steps make to the in-memory DeployResult keep it one.
LEMMA ResultUpdates ==
  ASSUME mem \in Results, NEW b \in BOOLEAN
  PROVE  /\ [mem EXCEPT !.deployed = b] \in Results
         /\ [mem EXCEPT !.post_ok = b] \in Results
         /\ [mem EXCEPT !.ok = @ /\ b] \in Results
         /\ [mem EXCEPT !.rolled_back = b] \in Results
         /\ [mem EXCEPT !.rolled_back = b, !.ok = FALSE] \in Results
         /\ [mem EXCEPT !.recovery_ok = b] \in Results
         /\ [mem EXCEPT !.tg = b] \in Results
         /\ [NoResult EXCEPT !.by = "reconcile"] \in Results
  BY DEF Results, NoResult

\* Restarting the gateway after a rollback, and beginning a run, keep the types.
LEMMA RestartTypes ==
  ASSUME IInv, RollbackRestart \/ RollbackRestartFails
  PROVE  TypeOK'
<1>1. mem' \in Results
  BY ResultUpdates DEF IInv, TypeOK, RollbackRestart, RollbackRestartFails
<1>2. gw' \in Gateways
  BY DEF IInv, TypeOK, RollbackRestart, RollbackRestartFails, GatewayStarts, Gateways
<1> QED
  BY <1>1, <1>2 DEF IInv, TypeOK, RollbackRestart, RollbackRestartFails, Goto, Steps,
     AfterRollback, row, book, hist

LEMMA BeginTypes ==
  ASSUME IInv, NEW s \in Commits, NEW t \in Commits, Begin(s, t)
  PROVE  TypeOK'
<1>1. mem' \in Results
  BY DEF Begin, Results, NoResult
<1>2. spare' \in Nat
  <2>1. spare' = spare \/ spare' = spare + 1
    BY DEF IInv, TypeOK, Begin
  <2> QED
    BY <2>1 DEF IInv, TypeOK
<1>3. before' \in [head: Commits, venv: Deps]
  BY DEF IInv, TypeOK, Begin
<1>4. runs' \in Nat /\ crashes' \in Nat
  BY DEF IInv, TypeOK, Begin
<1>5. head' \in Commits /\ venv' \in Deps /\ gw' \in Gateways
      /\ attempts' \subseteq Commits \X Commits
  BY DEF IInv, TypeOK, Begin
<1>6. /\ bak' \in Deps \cup {"none", "partial"} /\ pc' \in Steps
      /\ src' \in Commits /\ tgt' \in Commits /\ state' \in States /\ phase' \in Phases
      /\ outcome' \in Outcomes \cup {"OPEN", "NO_RUN"}
      /\ verdict' \in Verdicts /\ incident' \in BOOLEAN /\ cand' \in Statuses
  BY DEF Begin, Steps, States, DEPLOY_STATES, Phases, Verdicts, Statuses
<1> QED
  BY <1>1, <1>2, <1>3, <1>4, <1>5, <1>6 DEF TypeOK

\* The initial host, row and process satisfy the invariant.
LEMMA InitIInv == Init => IInv
<1> SUFFICES ASSUME Init PROVE IInv
  OBVIOUS
<1>1. /\ Installed \in Commits
      /\ head = Installed /\ venv = Installed /\ bak = "none" /\ spare = 0
      /\ gw = [up |-> "ready", code |-> Installed, deps |-> Installed]
      /\ src = Installed /\ tgt = Installed /\ state = "COMPLETE" /\ phase = "none"
      /\ outcome = "NO_RUN" /\ verdict = "none" /\ incident = FALSE
      /\ cand = "BLOCKED" /\ attempts = {}
      /\ pc = "idle" /\ mem = NoResult
      /\ before = [head |-> Installed, venv |-> Installed] /\ runs = 0 /\ crashes = 0
  BY CommitsAssumption DEF Init
<1>2. TypeOK
  <2>1. mem \in Results
    BY <1>1 DEF Results, NoResult
  <2>2. gw \in Gateways /\ before \in [head: Commits, venv: Deps]
    BY <1>1 DEF Gateways, Deps
  <2>3. head \in Commits /\ venv \in Deps /\ bak \in Deps \cup {"none", "partial"}
        /\ src \in Commits /\ tgt \in Commits
    BY <1>1 DEF Deps
  <2>4. /\ spare \in Nat /\ runs \in Nat /\ crashes \in Nat
        /\ attempts \subseteq Commits \X Commits /\ incident \in BOOLEAN
    BY <1>1
  <2>5. /\ state \in States /\ phase \in Phases /\ verdict \in Verdicts
        /\ outcome \in Outcomes \cup {"OPEN", "NO_RUN"}
        /\ cand \in Statuses /\ pc \in Steps
    BY <1>1 DEF States, Phases, Verdicts, Statuses, Steps
  <2> QED
    BY <2>1, <2>2, <2>3, <2>4, <2>5 DEF TypeOK
<1>3. RowMatchesProcess /\ PhaseTellsDisk
  BY <1>1 DEF RowMatchesProcess, PhaseTellsDisk, Untouched
<1>4. ForwardKnows
  BY <1>1 DEF ForwardKnows, BeforeCopy, BeforeCode, Installing, Restarting,
     Verifying, Changing
<1>5. BackwardKnows /\ FinishKnows
  BY <1>1 DEF BackwardKnows, FinishKnows, RollingBack, Finishing
<1>6. /\ SuccessMeansServed /\ RolledBackMeansRestored /\ BlockedMeansUntouched
      /\ VenvRecoverable /\ ClosedIsAccountedFor /\ RevertedIsRemembered
  BY <1>1 DEF SuccessMeansServed, RolledBackMeansRestored, BlockedMeansUntouched,
     VenvRecoverable, ClosedIsAccountedFor, RevertedIsRemembered, Closed, Outcomes
<1> QED
  BY <1>2, <1>3, <1>4, <1>5, <1>6 DEF IInv

\* Each step of deploy() up to the post-tests keeps the invariant.
LEMMA ForwardKeepsIInv == ASSUME IInv, Forward PROVE IInv'
<1> USE DEF IInv, TypeOK, RowMatchesProcess, PhaseTellsDisk, ForwardKnows,
      BackwardKnows, FinishKnows, SuccessMeansServed, RolledBackMeansRestored,
      BlockedMeansUntouched, VenvRecoverable, ClosedIsAccountedFor,
      RevertedIsRemembered, Untouched, BeforeCopy, BeforeCode, Installing, Restarting,
      Verifying, RollingBack, Finishing, Changing, OnDisk, Served, Closed, Good, Result,
      Damaged, Deps, Outcomes, Gateways, States, DEPLOY_STATES, Phases, Verdicts,
      Statuses, Steps, Results, NoResult, host, row, book, hist, Goto, Persist
<1>1. CASE PreconditionsPass
  BY <1>1 DEF PreconditionsPass
<1>2. CASE PreconditionsFail
  BY <1>2 DEF PreconditionsFail
<1>3. CASE PersistRollbackPoint
  BY <1>3 DEF PersistRollbackPoint
<1>4. CASE CopyVenv
  BY <1>4 DEF CopyVenv
<1>5. CASE VenvCopied
  BY <1>5 DEF VenvCopied
<1>6. CASE VenvCopyFails
  BY <1>6 DEF VenvCopyFails
<1>7. CASE SnapshotDatabases
  BY <1>7 DEF SnapshotDatabases
<1>8. CASE SnapshotFails
  BY <1>8 DEF SnapshotFails
<1>9. CASE PersistCode
  BY <1>9 DEF PersistCode
<1>10. CASE Merge
  <2> USE <1>10 DEF Merge
  <2>1. mem' \in Results
    BY ResultUpdates
  <2>2. TypeOK'
    BY <2>1
  <2>3. RowMatchesProcess'
    OBVIOUS
  <2>4. PhaseTellsDisk'
    OBVIOUS
  <2>5. ForwardKnows'
    OBVIOUS
  <2>6. BackwardKnows'
    OBVIOUS
  <2>7. FinishKnows'
    OBVIOUS
  <2>8. SuccessMeansServed'
    OBVIOUS
  <2>9. RolledBackMeansRestored'
    OBVIOUS
  <2>10. BlockedMeansUntouched'
    OBVIOUS
  <2>11. VenvRecoverable'
    OBVIOUS
  <2>12. ClosedIsAccountedFor'
    OBVIOUS
  <2>13. RevertedIsRemembered'
    OBVIOUS
  <2> QED
    BY <2>2, <2>3, <2>4, <2>5, <2>6, <2>7, <2>8, <2>9, <2>10, <2>11, <2>12, <2>13
<1>11. CASE MergeFails
  <2> USE <1>11 DEF MergeFails
  <2>1. mem' \in Results
    BY ResultUpdates
  <2>2. TypeOK'
    BY <2>1
  <2>3. RowMatchesProcess'
    OBVIOUS
  <2>4. PhaseTellsDisk'
    OBVIOUS
  <2>5. ForwardKnows'
    OBVIOUS
  <2>6. BackwardKnows'
    OBVIOUS
  <2>7. FinishKnows'
    OBVIOUS
  <2>8. SuccessMeansServed'
    OBVIOUS
  <2>9. RolledBackMeansRestored'
    OBVIOUS
  <2>10. BlockedMeansUntouched'
    OBVIOUS
  <2>11. VenvRecoverable'
    OBVIOUS
  <2>12. ClosedIsAccountedFor'
    OBVIOUS
  <2>13. RevertedIsRemembered'
    OBVIOUS
  <2> QED
    BY <2>2, <2>3, <2>4, <2>5, <2>6, <2>7, <2>8, <2>9, <2>10, <2>11, <2>12, <2>13
<1>12. CASE InstallDependencies
  BY <1>12 DEF InstallDependencies
<1>13. CASE DependenciesInstalled
  BY <1>13 DEF DependenciesInstalled
<1>14. CASE DependenciesFail
  BY <1>14 DEF DependenciesFail
<1>15. CASE PersistRestart
  BY <1>15 DEF PersistRestart
<1>16. CASE RestartGateway
  BY <1>16 DEF RestartGateway, GatewayStarts
<1>17. CASE RestartFails
  BY <1>17 DEF RestartFails
<1>18. CASE Healthy
  BY <1>18 DEF Healthy
<1>19. CASE Unhealthy
  BY <1>19 DEF Unhealthy
<1>20. CASE PersistPost
  BY <1>20 DEF PersistPost
<1>21. CASE PostTestsPass
  <2> USE <1>21 DEF PostTestsPass, PostTestsMayPass
  <2>1. mem' \in Results
    BY ResultUpdates
  <2>2. TypeOK'
    BY <2>1
  <2>3. RowMatchesProcess'
    OBVIOUS
  <2>4. PhaseTellsDisk'
    OBVIOUS
  <2>5. ForwardKnows'
    OBVIOUS
  <2>6. BackwardKnows'
    OBVIOUS
  <2>7. FinishKnows'
    OBVIOUS
  <2>8. SuccessMeansServed'
    OBVIOUS
  <2>9. RolledBackMeansRestored'
    OBVIOUS
  <2>10. BlockedMeansUntouched'
    OBVIOUS
  <2>11. VenvRecoverable'
    OBVIOUS
  <2>12. ClosedIsAccountedFor'
    OBVIOUS
  <2>13. RevertedIsRemembered'
    OBVIOUS
  <2> QED
    BY <2>2, <2>3, <2>4, <2>5, <2>6, <2>7, <2>8, <2>9, <2>10, <2>11, <2>12, <2>13
<1>22. CASE PostTestsFail
  BY <1>22 DEF PostTestsFail
<1> QED
  BY <1>1, <1>2, <1>3, <1>4, <1>5, <1>6, <1>7, <1>8, <1>9, <1>10, <1>11, <1>12, <1>13,
     <1>14, <1>15, <1>16, <1>17, <1>18, <1>19, <1>20, <1>21, <1>22 DEF Forward

\* Each step of the rollback keeps it, whoever runs it.
LEMMA BackwardKeepsIInv == ASSUME IInv, Backward PROVE IInv'
<1> USE DEF IInv, TypeOK, RowMatchesProcess, PhaseTellsDisk, ForwardKnows,
      BackwardKnows, FinishKnows, SuccessMeansServed, RolledBackMeansRestored,
      BlockedMeansUntouched, VenvRecoverable, ClosedIsAccountedFor,
      RevertedIsRemembered, Untouched, BeforeCopy, BeforeCode, Installing, Restarting,
      Verifying, RollingBack, Finishing, Changing, OnDisk, Served, Closed, Good, Result,
      Damaged, Deps, Outcomes, Gateways, States, DEPLOY_STATES, Phases, Verdicts,
      Statuses, Steps, Results, NoResult, host, row, book, hist, Goto, Persist
<1>1. CASE PersistRollback
  BY <1>1 DEF PersistRollback
<1>2. ASSUME NEW ok \in BOOLEAN, StopGateway(ok) PROVE IInv'
  BY <1>2 DEF StopGateway, Note
<1>3. ASSUME NEW ok \in BOOLEAN, ResetCode(ok) PROVE IInv'
  BY <1>3 DEF ResetCode, Note
<1>4. ASSUME NEW ok \in BOOLEAN, RestoreUnit(ok) PROVE IInv'
  BY <1>4 DEF RestoreUnit, Note
<1>5. CASE SetVenvAside
  BY <1>5 DEF SetVenvAside
<1>6. CASE VenvNotRestored
  BY <1>6 DEF VenvNotRestored, Note
<1>7. CASE RestoreVenv
  BY <1>7 DEF RestoreVenv
<1>8. CASE RollbackRestart
  <2> USE <1>8 DEF RollbackRestart, GatewayStarts, AfterRollback
  <2>2. TypeOK'
    BY RestartTypes
  <2>3. RowMatchesProcess'
    OBVIOUS
  <2>4. PhaseTellsDisk'
    OBVIOUS
  <2>5. ForwardKnows'
    OBVIOUS
  <2>6. BackwardKnows'
    OBVIOUS
  <2>7. FinishKnows'
    OBVIOUS
  <2>8. SuccessMeansServed'
    OBVIOUS
  <2>9. RolledBackMeansRestored'
    OBVIOUS
  <2>10. BlockedMeansUntouched'
    OBVIOUS
  <2>11. VenvRecoverable'
    OBVIOUS
  <2>12. ClosedIsAccountedFor'
    OBVIOUS
  <2>13. RevertedIsRemembered'
    OBVIOUS
  <2> QED
    BY <2>2, <2>3, <2>4, <2>5, <2>6, <2>7, <2>8, <2>9, <2>10, <2>11, <2>12, <2>13
<1>9. CASE RollbackRestartFails
  <2> USE <1>9 DEF RollbackRestartFails, AfterRollback
  <2>2. TypeOK'
    BY RestartTypes
  <2>3. RowMatchesProcess'
    OBVIOUS
  <2>4. PhaseTellsDisk'
    OBVIOUS
  <2>5. ForwardKnows'
    OBVIOUS
  <2>6. BackwardKnows'
    OBVIOUS
  <2>7. FinishKnows'
    OBVIOUS
  <2>8. SuccessMeansServed'
    OBVIOUS
  <2>9. RolledBackMeansRestored'
    OBVIOUS
  <2>10. BlockedMeansUntouched'
    OBVIOUS
  <2>11. VenvRecoverable'
    OBVIOUS
  <2>12. ClosedIsAccountedFor'
    OBVIOUS
  <2>13. RevertedIsRemembered'
    OBVIOUS
  <2> QED
    BY <2>2, <2>3, <2>4, <2>5, <2>6, <2>7, <2>8, <2>9, <2>10, <2>11, <2>12, <2>13
<1>10. CASE PersistVerify
  BY <1>10 DEF PersistVerify
<1>11. CASE VerifyRecovery
  BY <1>11 DEF VerifyRecovery
<1> QED
  BY <1>1, <1>2, <1>3, <1>4, <1>5, <1>6, <1>7, <1>8, <1>9, <1>10, <1>11 DEF Backward

\* Recording the result and closing the run keep it.
LEMMA FinishKeepsIInv == ASSUME IInv, Finish PROVE IInv'
<1> USE DEF IInv, TypeOK, RowMatchesProcess, PhaseTellsDisk, ForwardKnows,
      BackwardKnows, FinishKnows, SuccessMeansServed, RolledBackMeansRestored,
      BlockedMeansUntouched, VenvRecoverable, ClosedIsAccountedFor,
      RevertedIsRemembered, Untouched, BeforeCopy, BeforeCode, Installing, Restarting,
      Verifying, RollingBack, Finishing, Changing, OnDisk, Served, Closed, Good, Result,
      Damaged, Deps, Outcomes, Gateways, States, DEPLOY_STATES, Phases, Verdicts,
      Statuses, Steps, Results, NoResult, host, row, book, hist, Goto, Persist
<1>1. CASE TestTelegramRoute
  BY <1>1 DEF TestTelegramRoute
<1>2. CASE Settle
  BY <1>2 DEF Settle
<1>3. CASE RecordAttempt
  BY <1>3 DEF RecordAttempt
<1>4. CASE Report
  BY <1>4 DEF Report
<1>5. CASE CloseRun
  BY <1>5 DEF CloseRun
<1>6. CASE CloseRaised
  BY <1>6 DEF CloseRaised
<1> QED
  BY <1>1, <1>2, <1>3, <1>4, <1>5, <1>6 DEF Finish

\* Reconciling a dead run keeps it.
LEMMA ReconcileKeepsIInv == ASSUME IInv, Reconcile PROVE IInv'
<1> USE DEF IInv, TypeOK, RowMatchesProcess, PhaseTellsDisk, ForwardKnows,
      BackwardKnows, FinishKnows, SuccessMeansServed, RolledBackMeansRestored,
      BlockedMeansUntouched, VenvRecoverable, ClosedIsAccountedFor,
      RevertedIsRemembered, Untouched, BeforeCopy, BeforeCode, Installing, Restarting,
      Verifying, RollingBack, Finishing, Changing, OnDisk, Served, Closed, Good, Result,
      Damaged, Deps, Outcomes, Gateways, States, DEPLOY_STATES, Phases, Verdicts,
      Statuses, Steps, Results, NoResult, host, row, book, hist, Goto, Persist
<1>1. CASE CloseInterrupted
  BY <1>1 DEF CloseInterrupted, Interrupted, Reconcilable
<1>2. CASE ReconcileUntouched
  BY <1>2 DEF ReconcileUntouched, Interrupted, Reconcilable
<1>3. CASE ReconcileAccepts
  BY <1>3 DEF ReconcileAccepts, Interrupted, Reconcilable, PostTestsMayPass
<1>4. CASE ReconcileRollsBack
  <2> USE <1>4 DEF ReconcileRollsBack, Reconcilable
  <2>1. mem' \in Results
    BY ResultUpdates
  <2>2. TypeOK'
    BY <2>1
  <2>3. RowMatchesProcess'
    OBVIOUS
  <2>4. PhaseTellsDisk'
    OBVIOUS
  <2>5. ForwardKnows'
    OBVIOUS
  <2>6. BackwardKnows'
    OBVIOUS
  <2>7. FinishKnows'
    OBVIOUS
  <2>8. SuccessMeansServed'
    OBVIOUS
  <2>9. RolledBackMeansRestored'
    OBVIOUS
  <2>10. BlockedMeansUntouched'
    OBVIOUS
  <2>11. VenvRecoverable'
    OBVIOUS
  <2>12. ClosedIsAccountedFor'
    OBVIOUS
  <2>13. RevertedIsRemembered'
    OBVIOUS
  <2> QED
    BY <2>2, <2>3, <2>4, <2>5, <2>6, <2>7, <2>8, <2>9, <2>10, <2>11, <2>12, <2>13
<1>5. CASE ReconcileVerifies
  <2> USE <1>5 DEF ReconcileVerifies, Interrupted
  <2>1. mem' \in Results
    BY ResultUpdates
  <2>2. TypeOK'
    BY <2>1
  <2>3. RowMatchesProcess'
    OBVIOUS
  <2>4. PhaseTellsDisk'
    OBVIOUS
  <2>5. ForwardKnows'
    OBVIOUS
  <2>6. BackwardKnows'
    OBVIOUS
  <2>7. FinishKnows'
    OBVIOUS
  <2>8. SuccessMeansServed'
    OBVIOUS
  <2>9. RolledBackMeansRestored'
    OBVIOUS
  <2>10. BlockedMeansUntouched'
    OBVIOUS
  <2>11. VenvRecoverable'
    OBVIOUS
  <2>12. ClosedIsAccountedFor'
    OBVIOUS
  <2>13. RevertedIsRemembered'
    OBVIOUS
  <2> QED
    BY <2>2, <2>3, <2>4, <2>5, <2>6, <2>7, <2>8, <2>9, <2>10, <2>11, <2>12, <2>13
<1> QED
  BY <1>1, <1>2, <1>3, <1>4, <1>5 DEF Reconcile

\* Beginning a run, exceptions, crashes and the gateway itself keep it.
LEMMA EnvironmentKeepsIInv ==
  ASSUME IInv, (\E s, t \in Commits : Begin(s, t)) \/ Raise \/ Crash \/ GatewayChanges
  PROVE  IInv'
<1> USE DEF IInv, TypeOK, RowMatchesProcess, PhaseTellsDisk, ForwardKnows,
      BackwardKnows, FinishKnows, SuccessMeansServed, RolledBackMeansRestored,
      BlockedMeansUntouched, VenvRecoverable, ClosedIsAccountedFor,
      RevertedIsRemembered, Untouched, BeforeCopy, BeforeCode, Installing, Restarting,
      Verifying, RollingBack, Finishing, Changing, OnDisk, Served, Closed, Good, Result,
      Damaged, Deps, Outcomes, Gateways, States, DEPLOY_STATES, Phases, Verdicts,
      Statuses, Steps, Results, NoResult, host, row, book, hist, Goto, Persist
<1>1. ASSUME NEW s \in Commits, NEW t \in Commits, Begin(s, t) PROVE IInv'
  <2> USE <1>1 DEF Begin
  <2>2. TypeOK'
    BY BeginTypes
  <2>3. RowMatchesProcess'
    OBVIOUS
  <2>4. PhaseTellsDisk'
    OBVIOUS
  <2>5. ForwardKnows'
    OBVIOUS
  <2>6. BackwardKnows'
    OBVIOUS
  <2>7. FinishKnows'
    OBVIOUS
  <2>8. SuccessMeansServed'
    OBVIOUS
  <2>9. RolledBackMeansRestored'
    OBVIOUS
  <2>10. BlockedMeansUntouched'
    OBVIOUS
  <2>11. VenvRecoverable'
    OBVIOUS
  <2>12. ClosedIsAccountedFor'
    OBVIOUS
  <2>13. RevertedIsRemembered'
    OBVIOUS
  <2> QED
    BY <2>2, <2>3, <2>4, <2>5, <2>6, <2>7, <2>8, <2>9, <2>10, <2>11, <2>12, <2>13
<1>2. CASE Raise
  BY <1>2 DEF Raise, Raisable
<1>3. CASE Crash
  BY <1>3 DEF Crash
<1>4. CASE GatewayChanges
  BY <1>4 DEF GatewayChanges, GatewayStarts
<1> QED
  BY <1>1, <1>2, <1>3, <1>4

\* Every step of the specification keeps the invariant.
LEMMA NextKeepsIInv == IInv /\ [Next]_vars => IInv'
<1> SUFFICES ASSUME IInv, [Next]_vars PROVE IInv'
  OBVIOUS
<1>1. CASE Updater
  BY <1>1, ForwardKeepsIInv, BackwardKeepsIInv, FinishKeepsIInv, ReconcileKeepsIInv
     DEF Updater
<1>2. CASE (\E s, t \in Commits : Begin(s, t)) \/ Raise \/ Crash \/ GatewayChanges
  BY <1>2, EnvironmentKeepsIInv
<1>3. CASE UNCHANGED vars
  BY <1>3 DEF vars, host, row, book, hist, IInv, TypeOK, RowMatchesProcess,
     PhaseTellsDisk, ForwardKnows, BackwardKnows, FinishKnows, SuccessMeansServed,
     RolledBackMeansRestored, BlockedMeansUntouched, VenvRecoverable,
     ClosedIsAccountedFor, RevertedIsRemembered, Untouched, OnDisk, Served, Closed,
     Good, Result
<1> QED
  BY <1>1, <1>2, <1>3 DEF Next

\* The invariant holds in every reachable state.
THEOREM InductiveInvariant == Spec => []IInv
  BY InitIInv, NextKeepsIInv, PTL DEF Spec

\* The variables keep their types.
THEOREM TypeCorrect == Spec => []TypeOK
  BY InductiveInvariant, PTL DEF IInv

\* SUCCESS: the gateway runs the tested code and dependencies.
THEOREM SuccessIsTrue == Spec => []SuccessMeansServed
  BY InductiveInvariant, PTL DEF IInv

\* ROLLED_BACK: checkout, virtualenv and gateway are those of before.
THEOREM RolledBackIsTrue == Spec => []RolledBackMeansRestored
  BY InductiveInvariant, PTL DEF IInv

\* BLOCKED: checkout and virtualenv were not touched.
THEOREM BlockedIsTrue == Spec => []BlockedMeansUntouched
  BY InductiveInvariant, PTL DEF IInv

\* What a run says of production, for each of its ends.
THEOREM OutcomesAreTrue == Spec => []OutcomeIsTrue
  BY InductiveInvariant, PTL DEF IInv, OutcomeIsTrue

\* The old virtualenv survives any number of crashes and exceptions.
THEOREM VenvIsRecoverable == Spec => []VenvRecoverable
  BY InductiveInvariant, PTL DEF IInv

\* No run is closed over a damaged production without a notice, except when
\* reconcile accepted it.
THEOREM NothingClosedSilently == Spec => []ClosedIsAccountedFor
  BY InductiveInvariant, PTL DEF IInv

\* What the run reverted itself is remembered.
THEOREM RevertedStaysRemembered == Spec => []RevertedIsRemembered
  BY InductiveInvariant, PTL DEF IInv

\* Nothing changes the code or the virtualenv before the store says so.
THEOREM ChangesArePersistedFirst == Spec => ChangesUnderRollbackPoint
<1>1. ASSUME IInv, [Next]_vars, <<head, venv>>' # <<head, venv>>
      PROVE  /\ outcome = "OPEN" /\ Reconcilable /\ phase # "rollback_point"
             /\ venv = before.venv \/ bak = before.venv
  <2> USE <1>1
  <2>1. /\ RowMatchesProcess /\ ForwardKnows /\ BackwardKnows
        /\ venv = before.venv \/ bak = before.venv
    BY DEF IInv, VenvRecoverable
  <2>2. pc \in {"code", "dependencies", "installing", "rb_code", "rb_venv", "rb_swap"}
    BY DEF Next, vars, host, Updater, Forward, Backward, Finish, Reconcile, Goto, Persist,
       PreconditionsPass, PreconditionsFail, PersistRollbackPoint, CopyVenv, VenvCopied,
       VenvCopyFails, SnapshotDatabases, SnapshotFails, PersistCode, Merge, MergeFails,
       InstallDependencies, DependenciesInstalled, DependenciesFail, PersistRestart,
       RestartGateway, RestartFails, Healthy, Unhealthy, PersistPost, PostTestsPass,
       PostTestsFail, PersistRollback, StopGateway, ResetCode, SetVenvAside,
       VenvNotRestored, RestoreVenv, RestoreUnit, RollbackRestart, RollbackRestartFails,
       PersistVerify, VerifyRecovery, TestTelegramRoute, Settle, RecordAttempt, Report,
       CloseRun, CloseRaised, CloseInterrupted, ReconcileUntouched, ReconcileAccepts,
       ReconcileRollsBack, ReconcileVerifies, Begin, Raise, Crash, GatewayChanges
  <2>3. phase \notin {"none", "rollback_point"}
    BY <2>1, <2>2 DEF ForwardKnows, BackwardKnows, Changing, Installing, RollingBack,
       Untouched
  <2>4. outcome = "OPEN" /\ state \in DEPLOY_STATES
    BY <2>1, <2>2 DEF RowMatchesProcess
  <2> QED
    BY <2>1, <2>3, <2>4 DEF Reconcilable
<1> QED
  BY <1>1, InductiveInvariant, PTL DEF Spec, ChangesUnderRollbackPoint

\* Nothing is restored under a gateway that was stopped and runs again.
THEOREM RestoresStopped == Spec => RestoredUnderStoppedGateway
<1>1. IInv => (mem.ok /\ pc \in {"rb_code", "rb_venv", "rb_swap"} => gw.up = "down")
  BY DEF IInv, BackwardKnows
<1> QED
  BY <1>1, InductiveInvariant, PTL DEF Spec, RestoredUnderStoppedGateway

\* The steps that close a run, and the steps that work inside an open one.
Closing == CloseRun \/ CloseRaised \/ CloseInterrupted \/ ReconcileUntouched
           \/ ReconcileAccepts \/ ReconcileVerifies
Working == Forward \/ Backward \/ TestTelegramRoute \/ Settle \/ RecordAttempt
           \/ Report \/ ReconcileRollsBack \/ Raise \/ Crash

\* A working step happens in an open run and leaves it open, with the same
\* payload and the same memory of what was there before.
LEMMA WorkStaysOpen ==
  ASSUME IInv, Working
  PROVE  outcome = "OPEN" /\ outcome' = "OPEN" /\ before' = before /\ tgt' = tgt
<1>1. pc # "idle" /\ outcome' = outcome /\ before' = before /\ tgt' = tgt
  BY DEF Working, row, hist, Forward, Backward, Goto, Persist,
     PreconditionsPass, PreconditionsFail, PersistRollbackPoint, CopyVenv, VenvCopied,
     VenvCopyFails, SnapshotDatabases, SnapshotFails, PersistCode, Merge, MergeFails,
     InstallDependencies, DependenciesInstalled, DependenciesFail, PersistRestart,
     RestartGateway, RestartFails, Healthy, Unhealthy, PersistPost, PostTestsPass,
     PostTestsFail, PersistRollback, StopGateway, ResetCode, SetVenvAside,
     VenvNotRestored, RestoreVenv, RestoreUnit, RollbackRestart, RollbackRestartFails,
     PersistVerify, VerifyRecovery, TestTelegramRoute, Settle, RecordAttempt, Report,
     ReconcileRollsBack, Raise, Raisable, Crash
<1> QED
  BY <1>1 DEF IInv, RowMatchesProcess

\* A closing step leaves the disk alone and ends the update truthfully.
LEMMA ClosingEnds ==
  ASSUME IInv, IInv', Closing
  PROVE  Update!End
<1> USE DEF Update!Ends
<1>1. /\ outcome = "OPEN" /\ outcome' \in Outcomes
      /\ UNCHANGED <<head, venv, before, tgt, src>>
  BY DEF Closing, host, row, hist, Goto, CloseRun, CloseRaised, CloseInterrupted,
     ReconcileUntouched, ReconcileAccepts, ReconcileVerifies, Interrupted, Outcomes,
     Result, IInv, RowMatchesProcess
<1>2. UpdateStatus = "updating" /\ UpdateStatus' \in Update!Ends
  BY <1>1 DEF UpdateStatus, Outcomes
<1>3. UpdateStatus' = "updated" => head = tgt /\ venv = tgt
  <2>1. SUFFICES ASSUME UpdateStatus' = "updated" PROVE Served'
    BY <1>1, <2>1 DEF Served
  <2>2. /\ ~incident' /\ verdict' # "finished_well" /\ outcome' # "BLOCKED"
        /\ outcome' # "ROLLED_BACK" /\ (outcome' = "SUCCESS" \/ ~OnDisk(before)')
    BY <1>1, <2>1 DEF UpdateStatus, Outcomes
  <2>3. ClosedIsAccountedFor' /\ SuccessMeansServed'
    BY DEF IInv
  <2> QED
    BY <1>1, <2>2, <2>3 DEF ClosedIsAccountedFor, SuccessMeansServed, Closed
<1>4. UpdateStatus' = "restored" => head = before.head /\ venv = before.venv
  <2>1. BlockedMeansUntouched' /\ RolledBackMeansRestored'
    BY DEF IInv
  <2> QED
    BY <1>1, <2>1 DEF UpdateStatus, BlockedMeansUntouched, RolledBackMeansRestored,
       OnDisk, Outcomes
<1>5. UpdateStatus' = "accepted" => head = tgt
  <2>1. UpdateStatus' = "accepted" => verdict' = "finished_well" /\ ~incident'
    BY <1>1 DEF UpdateStatus, Outcomes
  <2>2. CASE ReconcileAccepts
    BY <2>2 DEF ReconcileAccepts, PostTestsMayPass
  <2>3. CASE ~ReconcileAccepts
    BY <1>1, <2>1, <2>3 DEF IInv, RowMatchesProcess, Closing, row, CloseRun, CloseRaised,
       CloseInterrupted, ReconcileUntouched, ReconcileVerifies, Interrupted
  <2> QED
    BY <2>2, <2>3
<1>6. before \in [head: Commits, venv: Deps]
  BY DEF IInv, TypeOK
<1>7. UpdateStatus' = "restored" => [head |-> head, venv |-> venv] = before
  BY <1>4, <1>6
<1> QED
  BY <1>1, <1>2, <1>3, <1>5, <1>7 DEF Update!End

\* The rest of the steps do nothing that the abstract update can see, except
\* that a new run starts a new update.
LEMMA NextImplements ==
  ASSUME IInv, IInv', [Next]_vars
  PROVE  [Update!Next]_Update!vars
<1>1. /\ [head |-> head, venv |-> venv]' \in [head: Commits, venv: Deps]
      /\ [head |-> tgt, venv |-> tgt]' \in [head: Commits, venv: Deps]
  BY DEF IInv, TypeOK, Deps
<1>2. CASE Working
  <2>1. outcome = "OPEN" /\ outcome' = "OPEN" /\ before' = before /\ tgt' = tgt
    BY <1>2, WorkStaysOpen
  <2>2. UpdateStatus = "updating" /\ UpdateStatus' = "updating"
    BY <2>1 DEF UpdateStatus
  <2> QED
    BY <1>1, <2>1, <2>2 DEF Update!Next, Update!Work
<1>3. CASE Closing
  BY <1>3, ClosingEnds DEF Update!Next
<1>4. ASSUME NEW s \in Commits, NEW t \in Commits, Begin(s, t)
      PROVE  Update!Start
  <2>1. /\ outcome # "OPEN" /\ outcome' = "OPEN"
        /\ head' = head /\ venv' = venv /\ before' = [head |-> head, venv |-> venv]
    BY <1>4 DEF Begin
  <2>2. UpdateStatus \in Update!Ends /\ UpdateStatus' = "updating"
    BY <2>1 DEF UpdateStatus, Update!Ends
  <2> QED
    BY <1>1, <2>1, <2>2 DEF Update!Start
<1>5. CASE GatewayChanges \/ UNCHANGED vars
  <2>1. UNCHANGED <<head, venv, before, tgt, outcome, incident, verdict>>
    BY <1>5 DEF GatewayChanges, vars, host, row, hist
  <2> QED
    BY <2>1 DEF Update!vars, UpdateStatus, OnDisk
<1> QED
  BY <1>2, <1>3, <1>4, <1>5 DEF Next, Updater, Finish, Reconcile, Working, Closing,
     Update!Next

\* Every behaviour of the updater is a safe update: the disk changes only while
\* an update is open, and the update ends with what it says it ends with.
THEOREM DeployIsSafeUpdate == Spec => ImplementsSafeUpdate
<1>1. Init => Update!Init
  BY DEF Init, Update!Init, Deps, UpdateStatus
<1>2. IInv /\ IInv' /\ [Next]_vars => [Update!Next]_Update!vars
  BY NextImplements
<1> QED
  BY <1>1, <1>2, InductiveInvariant, PTL DEF Spec, ImplementsSafeUpdate, Update!Spec
=============================================================================
