----------------------------- MODULE Workflows ------------------------------
(***************************************************************************)
(* The workflow definitions the application registers                      *)
(* (operations/workflow.py and the build_*_workflow functions), reduced to *)
(* what the engine looks at: the leases a step needs, its declared flags,  *)
(* and the classes its two probes can answer when a dead worker left the   *)
(* step's row RUNNING (or COMPENSATING).                                   *)
(***************************************************************************)
EXTENDS Naturals, Sequences, OperationModel

\* The flags of a StepDefinition.  "undo": compensate is given; "forward":
\* effect_disposition FORWARD_ONLY; "quiescent": safe_if_uncertain; "polls":
\* the effect takes cancellation-safe pulses; "ambiguous": its adapter raises
\* errors that carry requires_recovery; "inert": not this request's mode.
Flag == {"visible", "critical", "undo", "forward", "quiescent", "polls", "ambiguous",
         "inert"}

\* restored = {} when the step has no probe_restoration.
StepDefinition(resources, flags, probe, restored) ==
    [resources |-> resources, flags |-> flags, probe |-> probe, restored |-> restored]

Plain(resources, probe) == StepDefinition(resources, {}, probe, {})

\* A reversible, externally visible mutation inside the critical section.
Mutation(resources, probe, restored) ==
    StepDefinition(resources, {"visible", "critical", "undo"}, probe, restored)

Critical(resources, probe) == StepDefinition(resources, {"critical"}, probe, {})

\* "phased": phase_scoped_resources; "finalizer": cancel_finalizer is given;
\* "preflight": a preflight that can refuse; "may_fail_safe": terminal_decision
\* may answer FAILED_SAFE instead of SUCCEEDED.
Trait == {"phased", "finalizer", "preflight", "may_fail_safe"}

WorkflowDefinition(steps, traits, barrier) ==
    [steps |-> steps, traits |-> traits, barrier |-> barrier]

AllResources(wf) == UNION {wf.steps[i].resources : i \in DOMAIN wf.steps}

InitialResources(wf) ==
    IF "phased" \in wf.traits THEN wf.steps[1].resources ELSE AllResources(wf)

BarrierResources(wf) == IF "phased" \in wf.traits THEN wf.barrier ELSE {}

\* The terminal decisions a workflow may take once every step is verified.
TerminalDecision(wf) ==
    {"SUCCEEDED"} \cup (IF "may_fail_safe" \in wf.traits THEN {"FAILED_SAFE"} ELSE {})

-----------------------------------------------------------------------------

Absent == {"ABSENT"}
Present == {"ABSENT", "COMPLETE"}           \* an atomic effect
Doubtful == Present \cup {"UNCERTAIN_MANUAL"}
Served == {"COMPLETE", "REVERTIBLE"}        \* re-observed service state
ServedOrDoubtful == Served \cup {"UNCERTAIN_MANUAL"}
Resumable == Doubtful \cup {"PARTIALLY_RESUMABLE"}

Active == {"runtime-active"}
Installation == {"runtime-installation"}
Both == Active \cup Installation

ModelActivate ==
    WorkflowDefinition(
        <<Plain(Active, Absent),                                      \* resolve_candidate
          Plain(Active, Absent),                                      \* capture_prior
          Mutation(Active, Doubtful, ServedOrDoubtful),               \* commit_candidate_config
          Mutation(Active, Doubtful \cup Served, ServedOrDoubtful),   \* publish_candidate_handoff
          Mutation(Active, ServedOrDoubtful, ServedOrDoubtful),       \* restart_candidate
          Critical(Active, Served),                                   \* verify_candidate_health
          Critical(Active, Served),                                   \* verify_candidate_inference
          Mutation(Active, Doubtful, ServedOrDoubtful)>>,             \* promote_known_good
        {}, {})

RuntimeUpdate ==
    WorkflowDefinition(
        <<Plain(Installation, Absent),                                       \* resolve_source
          Plain(Installation, Absent),                                       \* preflight_build
          StepDefinition(Installation, {"polls"}, Resumable, {}),            \* fetch_source
          StepDefinition(Installation, {"polls"}, Absent, {}),               \* configure_build
          StepDefinition(Installation, {"polls"},
                         {"COMPLETE", "PARTIALLY_RESUMABLE"}, {}),           \* compile_candidate
          Plain(Installation, Absent),                                       \* smoke_candidate
          Plain(Both, Absent),                                               \* capture_activation_boundary
          Mutation(Both, Doubtful \cup Served, Served),                      \* exchange_active_tree
          Mutation(Both, Doubtful, Served),                                  \* publish_component_handoff
          Mutation(Both, ServedOrDoubtful, Served),                          \* restart_runtime
          Critical(Both, Served),                                            \* verify_runtime
          Mutation(Both, Absent, Served),                                    \* promote_runtime
          Plain(Both, Absent)>>,                                             \* finalize_trees
        {"phased"}, Both)

RuntimeRollback ==
    WorkflowDefinition(
        <<Plain(Both, Absent),                                   \* resolve_rollback_target
          Plain(Both, Absent),                                   \* preflight_rollback
          Plain(Both, Absent),                                   \* smoke_rollback_target
          Plain(Both, Absent),                                   \* capture_rollback_boundary
          Mutation(Both, Doubtful \cup Served, Served),          \* exchange_active_tree
          Mutation(Both, Doubtful, Served),                      \* publish_component_handoff
          Mutation(Both, ServedOrDoubtful, Served),              \* restart_runtime
          Critical(Both, Served),                                \* verify_runtime
          Mutation(Both, Absent, Served),                        \* promote_rollback
          Plain(Both, Absent)>>,                                 \* finalize_trees
        {"phased"}, Both)

\* INTEGRATION_RESOURCES: four keys only this workflow uses, here one, and
\* runtime-active.
Integration == {"integrations"} \cup Active

\* The five client-facing steps are reversible and visible but not critical.
IntegrationSetup ==
    LET Publish == StepDefinition(Integration, {"visible", "undo"}, Present, Present) IN
    WorkflowDefinition(
        <<Publish, Publish, Publish, Publish, Publish,  \* clients, model, gateway, openwebui, tailnet
          Plain(Integration, Present)>>,                \* verify_client
        {}, {})

Storage == {"model-storage"}

\* MODEL_ACQUIRE and MODEL_IMPORT share their layout.
ModelAcquire ==
    LET Publish(probe) ==
          StepDefinition(Storage, {"critical", "undo", "forward"}, probe, {"COMPLETE"}) IN
    WorkflowDefinition(
        <<Plain(Storage, Absent),                                       \* resolve_source
          Plain(Storage, Present),                                      \* reserve_storage
          StepDefinition(Storage, {"polls"},
                         Present \cup {"PARTIALLY_RESUMABLE"}, {}),     \* transfer_source
          Plain(Storage, Present \cup {"DISCARDABLE"}),                 \* materialize_candidate
          Plain(Storage, Absent),                                       \* validate_candidate
          Publish(Doubtful),                                            \* publish_artifact
          Publish(Present),                                             \* register_installation
          Critical(Storage, Served)>>,                                  \* finalize_staging
        {"finalizer", "may_fail_safe"}, {})

ModelRemove ==
    WorkflowDefinition(
        <<Plain(Storage, Present),                                          \* resolve_identity
          Critical(Storage, Present),                                       \* detach_alias
          StepDefinition(Storage, {"critical", "forward"}, Present, {}),    \* quarantine_bytes
          Plain(Storage, Present)>>,                                        \* record_removal
        {}, {})

Cleanup == {"model-storage", "storage-cleanup"}

\* One request has one mode: the steps of the other two modes keep their
\* flags but touch nothing and always probe COMPLETE ("inert").
StorageCleanup(mode) ==
    LET Inert(s) == [s EXCEPT !.flags = @ \cup {"inert"}, !.probe = {"COMPLETE"},
                              !.restored = IF @ = {} THEN {} ELSE {"COMPLETE"}]
        ModeStep(m, s) == IF m = mode THEN s ELSE Inert(s)
    IN
    WorkflowDefinition(
        <<Plain(Cleanup, Present),                                       \* resolve_targets
          ModeStep("QUARANTINE", Mutation(Cleanup, Resumable, Resumable)),
          ModeStep("RESTORE", Mutation(Cleanup, Resumable, Resumable)),
          ModeStep("PURGE",
                   StepDefinition(Cleanup, {"visible", "critical", "forward", "ambiguous"},
                                  Resumable, {}))>>,
        {}, {})

Benchmark == {"runtime-benchmark"}

\* The MAX_CANDIDATES = 3 measurement steps, which are all alike.
ProfileCalibrate ==
    LET Measure == Mutation(Benchmark \cup Active, Present \cup Served, Served) IN
    WorkflowDefinition(
        <<StepDefinition(Benchmark, {"quiescent"}, Absent, {}),              \* resolve_plan
          StepDefinition(Benchmark \cup Active, {"quiescent"}, Absent, {}),  \* capture_baseline
          Measure, Measure, Measure,                                               \* measure_candidate
          StepDefinition(Benchmark, {"visible", "critical", "quiescent"},
                         Present, {})>>,                                     \* record_winner
        {"preflight", "may_fail_safe"}, {})

Application == {"application-installation"}
Publication == {"profile-publication"}

ApplicationUpdate ==
    LET All == Application \cup Publication IN
    WorkflowDefinition(
        <<Plain(Application, Doubtful),                                         \* verify_release_set
          StepDefinition(Application, {"undo"}, Doubtful, {"COMPLETE"}),        \* stage_candidate
          StepDefinition(Application, {"forward"}, Doubtful, {}),               \* verify_profile_backup
          Mutation(All, Resumable, {"COMPLETE", "UNCERTAIN_MANUAL"}),           \* publish_pointers
          Mutation(All, Doubtful, Present),                                     \* post_update_ack
          Plain(All, {"COMPLETE", "UNCERTAIN_MANUAL"}),                         \* verify_application_health
          Critical(All, Present)>>,                                             \* record_installation
        {"phased"}, All)

Backup == {"profile-backup"}

BackupCreate ==
    WorkflowDefinition(
        <<Plain(Backup, Present),                                          \* snapshot_database
          Plain(Backup, Present),                                          \* inventory_and_stage
          StepDefinition(Backup, {"critical", "forward"}, Present, {}),    \* publish_archive
          Plain(Backup, Present),                                          \* verify_archive
          Plain(Backup, Present)>>,                                        \* record_backup
        {}, {})

Staging == {"profile-restore-staging"}

BackupRestore ==
    LET All == Staging \cup Publication IN
    WorkflowDefinition(
        <<Plain(Staging, Present),                                         \* validate_source
          Plain(Staging, Present),                                         \* stage_candidate
          Plain(Staging, Present),                                         \* validate_staged
          StepDefinition(All, {"critical", "forward"}, Doubtful, {}),      \* publish_exchange
          Critical(All, Present),                                          \* verify_post_restore
          Plain(All, Present)>>,                                           \* promote_or_rollback
        {"may_fail_safe"}, {})

\* The frozen registry (app.py): operation type -> definition; STORAGE_CLEANUP
\* appears once per request mode.
Registry ==
    [MODEL_ACTIVATE     |-> ModelActivate,
     RUNTIME_UPDATE     |-> RuntimeUpdate,
     RUNTIME_ROLLBACK   |-> RuntimeRollback,
     INTEGRATION_SETUP  |-> IntegrationSetup,
     MODEL_ACQUIRE      |-> ModelAcquire,
     MODEL_REMOVE       |-> ModelRemove,
     STORAGE_QUARANTINE |-> StorageCleanup("QUARANTINE"),
     STORAGE_RESTORE    |-> StorageCleanup("RESTORE"),
     STORAGE_PURGE      |-> StorageCleanup("PURGE"),
     PROFILE_CALIBRATE  |-> ProfileCalibrate,
     APPLICATION_UPDATE |-> ApplicationUpdate,
     BACKUP_CREATE      |-> BackupCreate,
     BACKUP_RESTORE     |-> BackupRestore]

=============================================================================
