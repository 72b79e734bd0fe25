----------------------------- MODULE Auxiliary ------------------------------
(***************************************************************************)
(* The nightly update of one auxiliary product (auxiliary.py, update_one): *)
(* a recovery point, the official updater, a smoke test, and the way back. *)
(* The product may update itself between the discovery of versions and its *)
(* turn; what the updater leaves when it fails is anything.                *)
(*                                                                         *)
(* An installation is the version it says it is, 0 if it says none, and    *)
(* whether it works.                                                       *)
(***************************************************************************)
EXTENDS Naturals

CONSTANTS
  Kinds,        \* of recovery points: "symlink", "binary", "none"
  Releases,     \* bound: versions 1 .. Releases
  MaxAuxNights, MaxAuxFaults   \* bounds: updates; deaths and failed writes

ASSUME AuxiliaryAssumption ==
  /\ Kinds \subseteq {"symlink", "binary", "none"}
  /\ Releases \in Nat \ {0} /\ MaxAuxNights \in Nat /\ MaxAuxFaults \in Nat

VARIABLES
  kind,       \* how it is installed
  product,    \* what is at its path
  copyOf,     \* aux-recovery/: what the copy named after each version holds
  latest,     \* newest release
  aux,        \* where update_one is
  pv,         \* discovered: installed and available versions
  point,      \* the recovery point: what it leads back to
  rcOk,       \* end status of the updater
  answer,     \* version and smoke test after it
  result,     \* of this update: verdict, rolled_back
  lost,       \* the restore could not be written
  auxNights, auxFaults

found == <<pv, point, rcOk, answer, result, lost>>
auxVars == <<kind, product, copyOf, latest, aux, found, auxNights, auxFaults>>

Versions == 1 .. Releases
Installations == {i \in [v : {0} \union Versions, works : BOOLEAN] : i.works => i.v # 0}
Broken == [v |-> 0, works |-> FALSE]
Working(v) == [v |-> v, works |-> TRUE]
Missed == [v |-> 0, works |-> TRUE]    \* no such file; an Installation it is not

Nothing == [verdict |-> "none", rolledBack |-> "none"]
NothingFound ==
  /\ pv = [installed |-> 0, available |-> 0] /\ point = Broken /\ rcOk = FALSE
  /\ answer = Broken /\ result = Nothing /\ lost = FALSE

AuxInit ==
  /\ kind \in Kinds /\ product = Working(1) /\ latest = 1
  /\ copyOf = [v \in Versions |-> Missed]
  /\ aux = "idle" /\ NothingFound /\ auxNights = 0 /\ auxFaults = 0

-----------------------------------------------------------------------------
(* Upstream, and the product's own updates.                                *)
Release ==
  /\ latest < Releases /\ latest' = latest + 1
  /\ UNCHANGED <<kind, product, copyOf, aux, found, auxNights, auxFaults>>

SelfUpdate ==
  /\ aux \in {"idle", "known"} /\ product.v < latest
  /\ product' = Working(latest)
  /\ UNCHANGED <<kind, copyOf, latest, aux, found, auxNights, auxFaults>>

Fault == auxFaults < MaxAuxFaults /\ auxFaults' = auxFaults + 1

-----------------------------------------------------------------------------
(* One night.                                                              *)
Discover ==
  /\ aux = "idle" /\ auxNights < MaxAuxNights /\ auxNights' = auxNights + 1
  /\ aux' = "known" /\ pv' = [installed |-> product.v, available |-> latest]
  /\ UNCHANGED <<kind, product, copyOf, latest, point, rcOk, answer, result, lost, auxFaults>>

End(verdict, rolledBack) ==
  /\ aux' = "done" /\ result' = [verdict |-> verdict, rolledBack |-> rolledBack]

\* No version, nothing newer, or put off: by policy, a major version, the way it
\* is installed, or because it is in use.
NoUpdate ==
  /\ aux = "known"
  /\ End(IF pv.installed = 0 THEN "INSUFFICIENT_DATA"
         ELSE IF pv.installed >= pv.available THEN "PASS" ELSE "DEFERRED", "none")
  /\ UNCHANGED <<kind, product, copyOf, latest, pv, point, rcOk, answer, lost, auxNights, auxFaults>>

Updatable == aux = "known" /\ pv.installed # 0 /\ pv.installed < pv.available

\* A link remembers where it points.
RecoveryLink ==
  /\ Updatable /\ kind # "binary" /\ aux' = "update"
  /\ point' = IF kind = "symlink" THEN product ELSE Broken
  /\ UNCHANGED <<kind, product, copyOf, latest, pv, rcOk, answer, result, lost, auxNights, auxFaults>>

\* A copy that is there is not made again.
RecoveryCopy ==
  /\ Updatable /\ kind = "binary" /\ aux' = "update"
  /\ point' = IF copyOf[pv.installed] = Missed THEN product ELSE copyOf[pv.installed]
  /\ copyOf' = [copyOf EXCEPT ![pv.installed] = point']
  /\ UNCHANGED <<kind, product, latest, pv, rcOk, answer, result, lost, auxNights, auxFaults>>

\* The disk is full, or the process dies: half a copy, under its final name.
RecoveryCopyFails ==
  /\ Updatable /\ kind = "binary" /\ copyOf[pv.installed] = Missed /\ Fault
  /\ copyOf' = [copyOf EXCEPT ![pv.installed] = Broken]
  /\ End("raised", "none")
  /\ UNCHANGED <<kind, product, latest, pv, point, rcOk, answer, lost, auxNights>>

\* The official updater: done, not done, half done.
RunUpdater ==
  /\ aux = "update" /\ aux' = "ask"
  /\ rcOk' \in BOOLEAN
  /\ product' \in {i \in Installations : i.v \in {0, product.v, pv.available}}
  /\ UNCHANGED <<kind, copyOf, latest, pv, point, answer, result, lost, auxNights, auxFaults>>

Ask ==
  /\ aux = "ask" /\ aux' = "decide" /\ answer' = product
  /\ UNCHANGED <<kind, product, copyOf, latest, pv, point, rcOk, result, lost, auxNights, auxFaults>>

Upgraded == rcOk /\ answer.v >= pv.available /\ answer.works

Succeed ==
  /\ aux = "decide" /\ Upgraded /\ End("PASS", "none")
  /\ UNCHANGED <<kind, product, copyOf, latest, pv, point, rcOk, answer, lost, auxNights, auxFaults>>

\* Mutant of Changed: the smoke test is not looked at.
ChangedVersion == answer.v # pv.installed

Changed == answer.v # pv.installed \/ ~answer.works

FailUnchanged ==
  /\ aux = "decide" /\ ~Upgraded /\ ~Changed /\ End("FAIL", "none")
  /\ UNCHANGED <<kind, product, copyOf, latest, pv, point, rcOk, answer, lost, auxNights, auxFaults>>

\* restore: a rename over the link or the binary, or an OSError before it.
Restore ==
  /\ aux = "decide" /\ ~Upgraded /\ Changed /\ aux' = "back"
  /\ \/ product' = (IF kind = "none" THEN product ELSE point) /\ lost' = (kind = "none")
        /\ UNCHANGED auxFaults
     \/ Fault /\ lost' = TRUE /\ UNCHANGED product
  /\ UNCHANGED <<kind, copyOf, latest, pv, point, rcOk, answer, result, auxNights>>

\* Mutant of Back: what restore() said.
BackAsTold ==
  /\ aux = "back" /\ End("FAIL", IF lost THEN "no" ELSE "yes")
  /\ UNCHANGED <<kind, product, copyOf, latest, pv, point, rcOk, answer, lost, auxNights, auxFaults>>

\* rolled_back only if the version is the one of before.
Back ==
  /\ aux = "back" /\ End("FAIL", IF ~lost /\ product.v = pv.installed THEN "yes" ELSE "no")
  /\ UNCHANGED <<kind, product, copyOf, latest, pv, point, rcOk, answer, lost, auxNights, auxFaults>>

\* The record of the next night starts empty.  A death is the end of a night
\* too; a product that its updater was at work on is left as it is.
Forget ==
  /\ aux' = "idle" /\ pv' = [installed |-> 0, available |-> 0] /\ point' = Broken
  /\ rcOk' = FALSE /\ answer' = Broken /\ result' = Nothing /\ lost' = FALSE

NextNight ==
  /\ aux = "done" /\ Forget
  /\ UNCHANGED <<kind, product, copyOf, latest, auxNights, auxFaults>>

AuxDies ==
  /\ aux \notin {"idle", "done"} /\ Fault /\ Forget
  /\ product' \in IF aux = "update" THEN {i \in Installations : i.v \in {0, product.v, pv.available}}
                  ELSE {product}
  /\ UNCHANGED <<kind, copyOf, latest, auxNights>>

UpdateOne ==
  \/ Discover \/ NoUpdate \/ RecoveryLink \/ RecoveryCopy \/ RecoveryCopyFails \/ RunUpdater
  \/ Ask \/ Succeed \/ FailUnchanged \/ Restore \/ Back \/ NextNight

AuxNext == Release \/ SelfUpdate \/ UpdateOne \/ AuxDies

AuxSpec == AuxInit /\ [][AuxNext]_auxVars

-----------------------------------------------------------------------------
(* Properties.                                                             *)
AuxTypeOK ==
  /\ kind \in Kinds /\ product \in Installations /\ latest \in Versions
  /\ copyOf \in [Versions -> Installations \union {Missed}]
  /\ aux \in {"idle", "known", "update", "ask", "decide", "back", "done"}
  /\ pv \in [installed : {0} \union Versions, available : {0} \union Versions]
  /\ point \in Installations /\ rcOk \in BOOLEAN /\ answer \in Installations
  /\ result.verdict \in {"none", "PASS", "DEFERRED", "INSUFFICIENT_DATA", "FAIL", "raised"}
  /\ result.rolledBack \in {"none", "yes", "no"} /\ lost \in BOOLEAN
  /\ auxNights \in 0 .. MaxAuxNights /\ auxFaults \in 0 .. MaxAuxFaults

\* What the report says is so: updated and working, back at the version of
\* before, or never touched (auxiliary.py:145-158).
ReportIsTrue ==
  aux = "done" =>
    /\ answer.v # 0 /\ result.verdict = "PASS" => product.works /\ product.v >= pv.available
    /\ result.rolledBack = "yes" => product.v = pv.installed
    /\ result.verdict = "FAIL" /\ result.rolledBack = "none" =>
         product.works /\ product.v = pv.installed

\* An update that fails leaves a product that works, unless there was no way
\* back, it could not be written, or it leads to what did not work already
\* before: half a copy that an earlier night left (auxiliary.py:11, 76).
FailureIsUndone ==
  aux = "done" /\ result.verdict = "FAIL" /\ ~product.works =>
    lost \/ (result.rolledBack # "none" /\ ~point.works)
=============================================================================
