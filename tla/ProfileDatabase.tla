--------------------------- MODULE ProfileDatabase ---------------------------
(***************************************************************************)
(* The database of a profile: the registry of its migrations, the one-time *)
(* import of the JSON state that came before it, and the processes of two  *)
(* versions of the application that open, migrate and use it, and that may *)
(* die at any moment.                                                      *)
(*                                                                         *)
(* A migration is the tables (and columns) it makes, those it needs, and   *)
(* what it copies: a row of the first kind becomes one of the second.  Of  *)
(* the rows only the kinds that are present are kept.                      *)
(***************************************************************************)
EXTENDS Naturals, Sequences, FiniteSets

CONSTANTS None, Procs,
          Before,             \* the versions a profile may have been left at
          ImportBesideStart   \* a start without legacy state may overlap `import-state PATH'

VARIABLES
    db,       \* the published database: [applied, tables, rows], or None
    staging,  \* the database an import builds, or None
    lock,     \* the lock file of the import
    legacy,   \* "default": state.json is where a start looks; "given": only by a path; "none"
    proc      \* a process: [pc, top, seen]

databaseVars == <<db, staging, lock, legacy, proc>>

-----------------------------------------------------------------------------
(* The registry                                                            *)

Makes(new, uses, copies) == [new |-> new, uses |-> uses, copies |-> copies]

InitialSchema ==
    Makes({"settings", "runtime_config", "model_installations", "bench_history", "autotune_history",
           "thermal_state", "component_provenance", "runtime_observations", "legacy_import_extras"}, {}, {})

KnownGoodRuntime == Makes({"known_good_runtime"}, {}, {})

DurableOperations == Makes({"operations", "operation_steps", "operation_events", "operation_leases"}, {}, {})

ManagedModelArtifacts ==
    Makes({"model_artifacts", "model_installations.artifact_id", "operation_storage_reservations"},
          {"model_installations", "operations"}, {<<"model_installations", "model_artifacts">>})

ImmutableRuntimeLifecycle ==
    Makes({"runtime_builds", "runtime_build_verifications", "runtime_trees", "runtime_component_state"},
          {"operations", "component_provenance"}, {<<"component_provenance", "runtime_builds">>})

ExplicitWorkerLifecycle == Makes({"worker_locks"}, {}, {})

OperationDismissal == Makes({"operations.dismissed_at"}, {"operations"}, {})

GatewayCredential == Makes({"gateway_credentials"}, {}, {})

ModelLibraryMeta == Makes({"model_library_meta"}, {"model_installations"}, {})

BackupRestoreLifecycle == Makes({"backup_sets", "restore_attempts"}, {"operations"}, {})

MultiClientCredentials ==
    Makes({"connection_clients", "connection_client_secrets", "connection_access_state"},
          {"gateway_credentials"}, {<<"gateway_credentials", "connection_clients">>})

WorkloadProfiles ==
    Makes({"workload_profiles", "runtime_config.profile_revision", "known_good_runtime.profile_revision"},
          {"runtime_config", "known_good_runtime"}, {})

NotificationPreferences ==
    Makes({"notification_preferences", "notification_receipts"}, {}, {<<"notifications_enabled", "notify">>})

ApplicationInstallations ==
    Makes({"application_installations", "application_installation_state", "application_update_imports"},
          {"operations"}, {})

Migrations ==
    <<InitialSchema, KnownGoodRuntime, DurableOperations, ManagedModelArtifacts,
      ImmutableRuntimeLifecycle, ExplicitWorkerLifecycle, OperationDismissal, GatewayCredential,
      ModelLibraryMeta, BackupRestoreLifecycle, MultiClientCredentials, WorkloadProfiles,
      NotificationPreferences, ApplicationInstallations>>

SchemaVersion == Len(Migrations)

Tables(versions) == UNION {Migrations[v].new : v \in versions}

Empty == [applied |-> {}, tables |-> {}, rows |-> {}]

\* A statement fails on a table that is there already, or is not there yet.
Executes(d, v) ==
    /\ Migrations[v].new \cap d.tables = {} /\ Migrations[v].uses \subseteq d.tables
    /\ v \notin d.applied

Copied(d, v) == {c[2] : c \in {k \in Migrations[v].copies : k[1] \in d.rows}}

Migrated(d, v) ==
    [applied |-> d.applied \cup {v}, tables |-> d.tables \cup Migrations[v].new,
     rows |-> d.rows \cup Copied(d, v)]

\* Variant of Interrupted: the statements of a migration are committed one by one.
InterruptedScript(d, v) == [d EXCEPT !.tables = @ \cup Migrations[v].new]

\* What a death in the middle of a migration leaves: its transaction rolls back.
Interrupted(d, v) == d

-----------------------------------------------------------------------------
(* The legacy import                                                       *)

\* The mapped rows; what the thermal watchdog latched among them.
LegacyRows == {"settings", "runtime_config", "model_installations", "thermal_state", "component_provenance"}

\* The kinds of rows that are told apart, and the databases.
RowKinds ==
    LegacyRows \cup {"notifications_enabled", "written"}
        \cup {c[2] : c \in UNION {Migrations[v].copies : v \in 1 .. SchemaVersion}}
Databases ==
    [applied : SUBSET (1 .. SchemaVersion), tables : SUBSET Tables(1 .. SchemaVersion),
     rows : SUBSET RowKinds]

\* The staged database is migrated first and filled then.
Whole(v, rows) == [applied |-> 1 .. v, tables |-> Tables(1 .. v), rows |-> rows]

Staged == Whole(SchemaVersion, LegacyRows)

Idle == [pc |-> "idle", top |-> 0, seen |-> {}]

Becomes(p, pc) == proc' = [proc EXCEPT ![p].pc = pc]
Stops(p) == proc' = [proc EXCEPT ![p] = Idle]

Importing == {"lock", "stage", "publish", "receipt"}

\* compose, import-state, repair-retry: the import comes before anything is opened.
Start(p, top) ==
    /\ proc[p].pc = "idle"
    /\ legacy = "given" /\ db = None => ImportBesideStart \/ \A q \in Procs : proc[q].pc \notin Importing
    /\ proc' = [proc EXCEPT ![p] = [pc |-> IF db = None /\ legacy = "default" THEN "lock" ELSE "open",
                                    top |-> top, seen |-> {}]]
    /\ UNCHANGED <<db, staging, lock, legacy>>

ImportState(p) ==
    /\ proc[p].pc = "idle" /\ db = None /\ legacy = "given"
    /\ ImportBesideStart \/ \A q \in Procs : proc[q].pc = "idle"
    /\ proc' = [proc EXCEPT ![p] = [pc |-> "lock", top |-> SchemaVersion, seen |-> {}]]
    /\ UNCHANGED <<db, staging, lock, legacy>>

\* Another import, or a dead one, holds the lock: repair mode.
TakeLock(p) ==
    /\ proc[p].pc = "lock"
    /\ IF lock THEN Stops(p) /\ UNCHANGED lock ELSE Becomes(p, "stage") /\ lock' = TRUE
    /\ UNCHANGED <<db, staging, legacy>>

\* What a dead import left in the staging directory is replaced.
Stage(p) ==
    /\ proc[p].pc = "stage"
    /\ IF db # None THEN Stops(p) /\ lock' = FALSE /\ UNCHANGED staging
       ELSE Becomes(p, "publish") /\ staging' = Staged /\ UNCHANGED lock
    /\ UNCHANGED <<db, legacy>>

\* A corrupt source, a full disk, an integrity check: the staging goes, JSON stays.
ImportFails(p) ==
    /\ proc[p].pc \in {"stage", "publish"}
    /\ Stops(p) /\ staging' = None /\ lock' = FALSE
    /\ UNCHANGED <<db, legacy>>

Publish(p) ==
    /\ proc[p].pc = "publish"
    /\ db' = staging /\ staging' = None /\ Becomes(p, "receipt")
    /\ UNCHANGED <<lock, legacy>>

\* The receipt is written, or it is not and the start fails.
Receipt(p) ==
    /\ proc[p].pc = "receipt" /\ lock' = FALSE
    /\ Becomes(p, "open") \/ Stops(p)
    /\ UNCHANGED <<db, staging, legacy>>

\* The user is told to, when no import is running.
RemoveLock ==
    /\ lock /\ \A p \in Procs : proc[p].pc \notin Importing
    /\ lock' = FALSE
    /\ UNCHANGED <<db, staging, legacy, proc>>

-----------------------------------------------------------------------------
(* Opening, migrating and using the database                               *)

\* validate_registry and the versions that are there; a newer schema is refused.
Open(p) ==
    /\ proc[p].pc = "open"
    /\ LET d == IF db = None THEN Empty ELSE db IN
       /\ db' = d
       /\ IF \A v \in d.applied : v <= proc[p].top
          THEN proc' = [proc EXCEPT ![p].pc = "migrate", ![p].seen = d.applied]
          ELSE Stops(p)
    /\ UNCHANGED <<staging, lock, legacy>>

Missing(p) == 1 .. proc[p].top \ proc[p].seen
NextVersion(p) == CHOOSE v \in Missing(p) : \A w \in Missing(p) : v <= w

\* One transaction.  Another process may have been here since the versions were read.
Migrate(p) ==
    /\ proc[p].pc = "migrate" /\ Missing(p) # {}
    /\ LET v == NextVersion(p) IN
       IF Executes(db, v)
       THEN db' = Migrated(db, v) /\ proc' = [proc EXCEPT ![p].seen = @ \cup {v}]
       ELSE Stops(p) /\ UNCHANGED db
    /\ UNCHANGED <<staging, lock, legacy>>

Serves(p) ==
    /\ proc[p].pc = "migrate" /\ Missing(p) = {}
    /\ proc' = [proc EXCEPT ![p].pc = "serve", ![p].seen = {}]
    /\ UNCHANGED <<db, staging, lock, legacy>>

\* One unit of work of a service.
Writes(p) ==
    /\ proc[p].pc = "serve"
    /\ db' = [db EXCEPT !.rows = @ \cup {"written"}]
    /\ UNCHANGED <<staging, lock, legacy, proc>>

\* The process ends, or dies, wherever it is; what it held in files stays.
Dies(p) ==
    /\ proc[p].pc # "idle" /\ Stops(p)
    /\ db' = IF proc[p].pc = "migrate" /\ Missing(p) # {} /\ Executes(db, NextVersion(p))
             THEN Interrupted(db, NextVersion(p)) ELSE db
    /\ UNCHANGED <<staging, lock, legacy>>

Init ==
    /\ \E rows \in SUBSET {"model_installations", "notifications_enabled"}, v \in Before :
         db \in {None, Whole(v, {"settings"} \cup rows)}
    /\ staging = None /\ lock = FALSE /\ proc = [p \in Procs |-> Idle]
    /\ legacy \in IF db = None THEN {"default", "given", "none"} ELSE {"default", "none"}

Next ==
    \/ \E p \in Procs :
         \/ \E top \in {SchemaVersion - 1, SchemaVersion} : Start(p, top)
         \/ ImportState(p) \/ TakeLock(p) \/ Stage(p) \/ ImportFails(p) \/ Publish(p) \/ Receipt(p)
         \/ Open(p) \/ Migrate(p) \/ Serves(p) \/ Writes(p) \/ Dies(p)
    \/ RemoveLock

-----------------------------------------------------------------------------

\* What is published is at a version, and every later start can go on from it.
AtAVersion ==
    db # None => \E v \in 0 .. SchemaVersion : db.applied = 1 .. v /\ db.tables = Tables(1 .. v)

\* Whoever serves finds the tables it was written for.
ServesItsSchema == \A p \in Procs : proc[p].pc = "serve" => 1 .. proc[p].top \subseteq db.applied

\* No fresh database ever hides the state that waits to be imported.
ImportedFirst == db = None /\ db' # None /\ legacy = "default" => LegacyRows \subseteq db'.rows

NothingLost == db # None => db' # None /\ db.rows \subseteq db'.rows /\ db.applied \subseteq db'.applied

KeepsDatabase == AtAVersion /\ ServesItsSchema /\ ImportedFirst /\ NothingLost
DatabaseKept == [][KeepsDatabase]_databaseVars

=============================================================================
