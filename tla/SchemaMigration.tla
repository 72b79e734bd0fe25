--------------------------- MODULE SchemaMigration --------------------------
(***************************************************************************)
(* migrate_component (hermes_layer2/state_schema.py) by several processes  *)
(* of different builds over one database.  A step and the new version are  *)
(* one transaction; the version they start from was read before it.        *)
(***************************************************************************)
EXTENDS Naturals

CONSTANTS
  Clients,
  Target,      \* target_version of each one's build
  MaxSchemaFaults   \* bound: failures and deaths

ASSUME SchemaAssumption ==
  Target \in [Clients -> Nat] /\ MaxSchemaFaults \in Nat

VARIABLES
  registry,    \* there is a table of versions
  version,     \* of the component in it; 0 without a row
  applied,     \* the steps that the tables have been through
  call,        \* where each call is
  at,          \* what it takes the installed version to be
  got,         \* what it returned
  schemaFaults

schemaVars == <<registry, version, applied, call, at, got, schemaFaults>>

SchemaInit ==
  /\ registry = FALSE /\ version = 0 /\ applied = {}
  /\ call = [p \in Clients |-> "none"] /\ at = [p \in Clients |-> 0] /\ got = [p \in Clients |-> 0]
  /\ schemaFaults = 0

CallGoes(p, from, to) == call[p] = from /\ call' = [call EXCEPT ![p] = to]

SchemaFault == schemaFaults < MaxSchemaFaults /\ schemaFaults' = schemaFaults + 1

EnsureRegistry(p) ==
  /\ call[p] \in {"none", "done", "failed"} /\ call' = [call EXCEPT ![p] = "read"]
  /\ registry' = TRUE
  /\ UNCHANGED <<version, applied, at, got, schemaFaults>>

\* get_component_version: 0 also when sqlite cannot read the registry.
Installed == {version, 0}

ReadVersion(p) ==
  /\ \E v \in Installed :
       /\ CallGoes(p, "read", IF v >= Target[p] THEN "done" ELSE "step")
       /\ at' = [at EXCEPT ![p] = v]
       /\ got' = IF v >= Target[p] THEN [got EXCEPT ![p] = v] ELSE got
  /\ UNCHANGED <<registry, version, applied, schemaFaults>>

\* Mutant of More: a step beyond the build.
MoreOrEqual(p) == at[p] <= Target[p]

More(p) == at[p] < Target[p]

\* One step: the migration and the version, together.
Step(p) ==
  /\ call[p] = "step" /\ More(p)
  /\ at' = [at EXCEPT ![p] = @ + 1]
  /\ applied' = applied \union {at'[p]} /\ version' = at'[p]
  /\ UNCHANGED <<registry, call, got, schemaFaults>>

\* Mutant of StepFails: the version was bumped on its own.
StepFailsBumped(p) ==
  /\ More(p) /\ SchemaFault /\ CallGoes(p, "step", "failed")
  /\ version' = at[p] + 1
  /\ UNCHANGED <<registry, applied, at, got>>

\* The migration raises, the database is locked, or the process dies.
StepFails(p) ==
  /\ More(p) /\ SchemaFault /\ CallGoes(p, "step", "failed")
  /\ UNCHANGED <<registry, version, applied, at, got>>

ReturnVersion(p) ==
  /\ ~More(p) /\ CallGoes(p, "step", "done") /\ \E v \in Installed : got' = [got EXCEPT ![p] = v]
  /\ UNCHANGED <<registry, version, applied, at, schemaFaults>>

SchemaNext == \E p \in Clients :
  EnsureRegistry(p) \/ ReadVersion(p) \/ Step(p) \/ StepFails(p) \/ ReturnVersion(p)

SchemaSpec == SchemaInit /\ [][SchemaNext]_schemaVars

-----------------------------------------------------------------------------
(* Properties.                                                             *)
SchemaTypeOK ==
  /\ registry \in BOOLEAN /\ version \in Nat
  /\ \A v \in applied : v # 0 /\ \E p \in Clients : v <= Target[p]
  /\ call \in [Clients -> {"none", "read", "step", "done", "failed"}]
  /\ at \in [Clients -> Nat] /\ got \in [Clients -> Nat] /\ schemaFaults \in Nat

\* The version that the registry states, even one that a process set back which was
\* slower or could not read it, is one whose every step the tables have been through
\* (state_schema.py:14-16, 74-83).
VersionIsBacked == 1 .. version \subseteq applied

\* A call that ended without an error leaves its caller every step of its build and of
\* the version it returned, whatever others did and failed to do meanwhile
\* (state_schema.py:14-16, 88-89).
ReadyMeansMigrated ==
  \A p \in Clients : call[p] = "done" => (1 .. Target[p]) \union (1 .. got[p]) \subseteq applied

\* What a version, stated or returned, says of the tables is so.
SchemaIsBacked == VersionIsBacked /\ ReadyMeansMigrated
=============================================================================
