------------------------------ MODULE DeployInv -----------------------------
(***************************************************************************)
(* The inductive invariant of Deploy: what is known at each step of the    *)
(* updater process, and what the run row guarantees whether or not the     *)
(* process is still alive.  It is checked by TLC (MCDeploy) and proved     *)
(* inductive in Deploy_proofs.                                             *)
(***************************************************************************)
EXTENDS Deploy

BeforeCopy   == {"preconditions", "rollback_point"}
BeforeCode   == {"venv_backup", "venv_copying", "db_snapshot", "persist_code"}
Installing   == {"dependencies", "installing"}
Restarting   == {"persist_restart", "restart"}
Verifying    == {"health", "persist_post", "post"}
RollingBack  == {"rb_stop", "rb_code", "rb_venv", "rb_swap", "rb_unit", "rb_restart",
                 "rb_health"}
Finishing    == {"send", "settle", "attempt", "report", "close"}
Changing     == {"code"} \cup Installing \cup Restarting \cup Verifying
Untouched    == phase \in {"none", "rollback_point"}

\* The run row is open exactly while a process works on it or died in it.
RowMatchesProcess ==
  /\ pc = "idle" <=> outcome # "OPEN"
  /\ pc \notin {"idle", "dead", "close"} => state \in DEPLOY_STATES
  /\ outcome = "OPEN" => verdict = "none"

\* What the persisted phase says about the disk, whoever reads it.
PhaseTellsDisk ==
  /\ outcome = "OPEN" /\ Untouched => OnDisk(before)
  /\ phase # "none" => src = before.head
  /\ ~Untouched => before.venv # "missing" /\ bak \in {before.venv, "none"}
  /\ outcome = "OPEN" /\ state \notin DEPLOY_STATES
       => OnDisk(before) \/ Served \/ incident

\* What each forward step may rely on.
ForwardKnows ==
  /\ pc \in BeforeCopy => phase = "none"
  /\ pc = "rollback_point" => src = before.head
  /\ pc \in BeforeCode => phase = "rollback_point"
  /\ pc = "persist_code" => bak = before.venv
  /\ pc = "db_snapshot" => bak = before.venv
  /\ pc \in {"persist_code", "db_snapshot"} => before.venv # "missing"
  /\ pc \in Changing => ~Untouched /\ bak = before.venv
  /\ pc = "code" => OnDisk(before)
  /\ pc \in Installing => head = tgt
  /\ pc \in Restarting => head = tgt /\ venv = tgt
  /\ pc \in Verifying => Served
  /\ pc \in BeforeCopy \cup BeforeCode \cup {"code"} => ~mem.deployed
  /\ pc \in Installing \cup Restarting \cup Verifying \cup {"persist_rollback"} => mem.deployed
  /\ pc \in BeforeCopy \cup BeforeCode \cup Changing \cup {"persist_rollback"}
       => mem.ok /\ ~mem.post_ok /\ ~mem.rolled_back /\ ~mem.recovery_ok

\* What rollback() has achieved so far, if no step of it failed.
BackwardKnows ==
  /\ pc \in RollingBack \cup {"persist_rollback", "persist_verify"} => ~Untouched
  /\ pc \in RollingBack \cup {"persist_verify"}
       => /\ ~mem.post_ok /\ ~mem.recovery_ok
          /\ mem.by = "deploy" => mem.deployed
  /\ pc = "rb_swap" => bak = before.venv
  /\ mem.ok /\ pc \in {"rb_code", "rb_venv", "rb_swap"} => gw.up = "down"
  /\ mem.ok /\ pc \in {"rb_venv", "rb_swap", "rb_unit", "rb_restart", "persist_verify",
                       "rb_health"}
       => head = before.head
  /\ mem.ok /\ pc \in {"rb_unit", "rb_restart", "persist_verify", "rb_health"}
       => venv = before.venv
  /\ mem.ok /\ pc \in {"persist_verify", "rb_health"}
       => gw.code = before.head /\ gw.deps = before.venv

\* What the recorded result stands for.
FinishKnows ==
  /\ pc \in Finishing /\ ~mem.deployed => OnDisk(before)
  /\ pc \in Finishing /\ mem.post_ok => Served
  /\ pc \in Finishing /\ mem.recovery_ok
       => OnDisk(before) /\ gw.code = before.head /\ gw.deps = before.venv
  /\ pc \in Finishing /\ mem.deployed => Good \/ ~mem.post_ok
  /\ pc \in {"attempt", "report", "close"} /\ Result = "RECOVERY_FAILED" => incident
  /\ pc \in {"report", "close"} /\ Result \in {"ROLLED_BACK", "RECOVERY_FAILED"}
       => <<tgt, src>> \in attempts

IInv ==
  /\ TypeOK
  /\ RowMatchesProcess /\ PhaseTellsDisk
  /\ ForwardKnows /\ BackwardKnows /\ FinishKnows
  /\ SuccessMeansServed /\ RolledBackMeansRestored /\ BlockedMeansUntouched
  /\ VenvRecoverable /\ ClosedIsAccountedFor /\ RevertedIsRemembered
=============================================================================
