------------------------------ MODULE MCStores ------------------------------
(* Small instances of what keeps notices, backups and products for TLC.  The *)
(* four share no state, so each behaviour is one of one of them.             *)
EXTENDS Outbox, DailyBackup, Retention, Auxiliary

VARIABLE part

vars == <<part, outboxVars, backupVars, retentionVars, auxVars>>

Init ==
  /\ OutboxInit /\ BackupInit /\ RetentionInit /\ AuxInit
  /\ part \in {"outbox", "backup", "retention", "auxiliary"}
  /\ part # "auxiliary" => kind = "symlink"

Next ==
  /\ UNCHANGED part
  /\ \/ part = "outbox" /\ OutboxNext /\ UNCHANGED <<backupVars, retentionVars, auxVars>>
     \/ part = "backup" /\ BackupNext /\ UNCHANGED <<outboxVars, retentionVars, auxVars>>
     \/ part = "retention" /\ RetentionNext /\ UNCHANGED <<outboxVars, backupVars, auxVars>>
     \/ part = "auxiliary" /\ AuxNext /\ UNCHANGED <<outboxVars, backupVars, retentionVars>>

Spec == Init /\ [][Next]_vars /\ OutboxFairness

StoresTypeOK == OutboxTypeOK /\ BackupTypeOK /\ RetentionTypeOK /\ AuxTypeOK
=============================================================================
