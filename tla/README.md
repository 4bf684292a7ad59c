# BC250 LLM MODE: a TLA+ model of the durable operations and the worlds they change

BC250 LLM MODE turns a BC-250 board into a local LLM appliance. Everything that
changes the machine (activating a model, updating the runtime or the application
itself, acquiring, removing, restoring, calibrating) is a *durable operation*: a row
in SQLite with a frozen list of steps, driven by a worker that may die at any
instruction and be replaced by another. This directory specifies that core; opens the
effects of its steps, system call by system call, in one module per world they change;
adds the surfaces that start and steer operations and the services that run beside them
(gateway, credentials, chat page, database, first-run setup, delivery of updates,
repair); checks all of it with TLC on small instances; and proves every invariant the
runs check, and the engine's contract, with TLAPS for every instance.

Paths below are relative to `src/bc250_llm_mode/`; ADR 002 is
`src/docs/adr/002-durable-operations.md`.

## 1. Inventory

| Part | State it keeps | Operations | What is hard about it | What makes it correct |
|---|---|---|---|---|
| operation vocabulary (`operations/model.py`, `recovery.py`) | none | the transition table, `decide_recovery` | a state without a way out | every reachable need of the engine is in the table |
| lease table (`operations/repositories.py`) | `operation_leases` | acquire, acquire_many, assert_owned, heartbeat, release, barriers | takeover after expiry, late owners, rows deleted and inserted again | a fence that passes means uninterrupted ownership; barriers are never taken |
| workflow definitions (`operations/workflow.py` and one file per type) | none | 12 registered types, their steps, leases, effects and probes | which steps are visible, critical, reversible, forward-only, phased | agreement with the engine's assumptions |
| execution engine (`operations/engine.py`) | `operations`, `operation_steps`, the local state of a run | claim, loop, intent, effect, checkpoint, verify, probe, compensate, cancel, pause, complete | death between any two of them; cancellation, lease expiry and failed effects in between; two workers | terminals tell the truth, effects are neither repeated nor concurrent, the operation comes to rest |
| worker host (`operations/worker_host.py`) | `worker_locks`, the loop's budget and idle clock | start, next work, heartbeat, run once, pause, idle exit, shutdown | lock lost during a run, own expired leases, the head of the queue blocked | one executor per operation, superseded hosts stop, queued work is taken |
| command service (`operations/command_service.py`, `query_service.py`, `worker.py`) | none of its own | cancel, resume, retry, recover, dismiss, wait, detach | commands between two transactions of a run | refused or honored, never lost |
| activation (`activation_adapter.py`, `runtime_handoff.py`, `server.py`) | configuration, handoff file, service, known-good record | stage, switch, verify, promote, restore | several durable places that must agree after a death | after a terminal, configuration and service agree |
| runtime lifecycle (`runtime_lifecycle_adapter.py`, `runtime_exchange_helper.py`) | active and candidate tree, handoff, receipts | build, exchange, restart, promote, exchange back | exchange done, receipt missing | one startable runtime at every moment |
| application update (`application_*.py`) | release directories, two links, installation record, profile schema, intent and acknowledgement receipts | reserve, stage, back up, publish, launch, check health, record, restore | a pointer set half written, a replacement process that outlives its worker, a record committed and not checkpointed | the links resolve, a takeover recognizes what was done, an update that ended gave the machine back |
| backup and restore (`backup_adapter.py`, `profile_access.py`, `profile_exchange_helper.py`) | archives, staged profile, profile access lock, receipt | create, stage, exchange, verify, exchange back | the exchange replaces the database that records it | no operation lost, one active profile |
| acquisition and storage (`acquisition_adapter.py`, `artifact_storage.py`, `storage_cleanup_adapter.py`, `model_remove_adapter.py`) | staging, reservations, artifacts, quarantine | transfer, publish, register, quarantine, purge | capacity at its limit, resumed transfers | published bytes are registered and never overwritten |
| calibration (`calibration_adapter.py`, `workload_profiles.py`) | configuration, handoff, service, receipts of trials, the profile's evidence | resolve, capture, try, restore, record | up to three configurations are served in turn and the baseline put back after each | the baseline is configured and served again, evidence is measured |
| gateway (`gateway.py`) | clients' rows of admission and rate | authorize, reserve, charge, release | a row is fetched under one lock and used under another | limits hold, slots come back |
| credentials (`connection_setup.py`, `connection_credentials.py`) | client rows, fingerprints, secret files | ensure, rotate, revoke, disable, enable | a secret is published before its row | rows, fingerprints and files agree |
| Open WebUI (`openwebui_runtime.py`) | containers and their names | converge, roll back | replacement by renaming, any command may fail | the old container survives until the new one is verified |
| integration setup (`integration_setup_adapter.py`, `gateway_service.py`, `sharing.py`) | access, consumers receipt, published mappings, baseline | create clients, start model, gateway, Open WebUI, publish; each undone | others use the gateway meanwhile | success is complete, rollback restores the baseline |
| surfaces (`*_command.py`, `operations/command_service.py`, `worker.py`) | none of their own | start, detach, interrupt, cancel, resume, retry, recover | two of them between each other's transactions | what they answer is so |
| chat (`gui/chat_page.py`, `chat_lifecycle.py`, `chat_service.py`) | page, lanes, conversation files | send, stop, save, select, leave, recover | late answers and late navigation | no message is dropped by a save or a navigation |
| state database (`db.py`, `legacy_import.py`, `app.py`) | schema version, staged import, lock file | open, migrate, import, serve | two versions of the application start at once, deaths | no published row lost, later starts go on |
| first-run setup (`services.py`, `gui/setup_page.py`, `__main__.py`) | the setup stage, the machine | the eleven screens, the terminal's bootstrap | death between two recorded stages | the recorded stage is true of the machine |
| release delivery (`application_bundle.py`, `application_update.py`, `gui/updates_page.py`) | shelf of verified bundles, previews | import, verify, preview, confirm, stage | late previews, dying imports, two surfaces | what is installed is what was verified and confirmed |
| repair and undo (`repair_commands.py`, `repair_adapter.py`, `undo.py`) | previews | observe, confirm, execute through the owner, probe | the thing changes between observation and repair | exactly the confirmed thing changes, or nothing |
| instance broker, notifications | socket, notification rows | activate, deliver | late results | stale results are dropped |
| thermals, idle policy | latch, baseline clocks | throttle, hold, resume, stop | hysteresis and failed restoration | stopped stays stopped |
| release gate, catalog, guidance, profiles' editing | evidence, catalog | pure decisions and single transactions | boundaries | agreement with their reference |
| platform wrappers, command line, the rest of the GUI | none | systemd, polkit, argument parsing, presentation | pure I/O | not modelled |

**Interaction.** The GUI and the command line enqueue an operation (operation row and
all step rows in one transaction) and talk to the command service. A worker host, or the
command service itself, calls `execute_one`. The engine reads and writes the three
tables in `BEGIN IMMEDIATE` transactions, which are serial, and calls adapters
(effects, probes, verifications, compensations) outside any transaction. Leases tie the
two together: every transaction of a run first proves that the run still owns them.

`PROJECT.json` lists the hazards at their lines, with the property that covers each.

## 2. Modules

| Module | Models |
|---|---|
| `OperationModel` | states, transition table, recovery decision |
| `OperationContract` | what the engine promises to everything above it |
| `OperationContractProofs` | the theorems about the contract |
| `Workflows` | the registered workflow definitions as data |
| `Leases`, `LeasesProofs` | the lease table with revisions and time, and its theorems |
| `ExecutionEngine` | `execute_one` by any number of workers, with cancel and resume |
| `ExecutionEngineProofs` | its theorems: types, fences, what rows say of the world, how operations end, and the refinement of the contract |
| `WorkerHost` | the hosts of one profile around `execute_one` |
| `OperationDesk` | the surfaces that start, watch and steer operations, on the contract |
| `StepRun` | one operation as the adapters of its steps see it (operators, no state) |
| `ApplicationSlots`, `ApplicationSlotsProofs` | APPLICATION_UPDATE on the slots, and its theorems |
| `RuntimeTrees` | RUNTIME_UPDATE and RUNTIME_ROLLBACK on trees, registry, handoff and service |
| `ModelActivation` | MODEL_ACTIVATE on configuration, handoff, service and known-good row |
| `ProfileRestore` | BACKUP_RESTORE, which exchanges the database that records it |
| `ProfileCalibration` | PROFILE_CALIBRATE: trials, restoration, evidence |
| `ModelStore` | MODEL_IMPORT and MODEL_REMOVE on the managed files |
| `StorageCleanup` | STORAGE_CLEANUP: quarantine, restore, purge |
| `IntegrationSetup` | INTEGRATION_SETUP and the consumers of the gateway |
| `OpenWebUITransaction` | the replacement of the Open WebUI container |
| `Credentials` | one gateway client: row, fingerprints, secret files |
| `GatewayRequests` | the rate and admission table under concurrent requests |
| `ChatPage` | the chat page, its lanes, the shell and the conversation files |
| `ProfileDatabase` | migrations and the one-time import, by processes of two versions |
| `SetupWorkflow` | first-run setup: stages, window, terminals |
| `ReleaseDelivery` | from a signed bundle to a wheel in a slot |
| `RepairCenter` | repair actions and undo |
| `WorldState` | the constants and variables of the worlds that are proved about |
| `CoreWorlds`, `CoreWorldsProofs`, `RuntimeTreesProofs` | the worlds that workflows change, their assumptions, and their theorems |
| `SurfaceWorlds`, `SurfaceWorldsProofs` | the services and surfaces beside the workflows, likewise |
| `MCEngine`, `MCLeases`, `MCSlots`, `MCLive`, `MCWorlds` | instances for TLC |
| `WorldsProofs` | the theorems of the worlds, carried over to `MCWorlds` |

**How they compose.** `ExecutionEngine` implements `OperationContract` (`KeepsContract`, a
refinement checked in the run `engine` and proved for every catalog), and `OperationDesk`
uses only the contract: a run of the engine is there a path through the table under a
lease. The worlds use `StepRun`, the sequence of execute, probe, verify and compensate
that the engine follows for one operation with deaths, failures and cancellations; what a
step does is theirs. `Workflows` gives both the flags and probes of each step. `MCWorlds`
puts the worlds, the hosts and the leases side by side: the variable `focus` says which a
behaviour is about, and the others rest. One run then explores them all, each as if it
were alone. `CoreWorlds` and `SurfaceWorlds` hold the instances of those worlds whose
safety is proved.

### Leases
A row is `[op, owner, revision, left]`; `left` is the time to `expires_at`, 0 meaning
`expires_at <= now`, the only comparison the code makes. `job` and `held` are what a
run remembers (`held: dict[str, int]` in the engine). `barrier` is the set of
operations in RECOVERY_REQUIRED. Two history variables are read by no action: `lost`
(keys of a run that somebody else was granted meanwhile) and `retained` (what a
RECOVERY_REQUIRED operation held when it became one). `MaxRevision` bounds takeovers.

### ExecutionEngine
`opState`, `stepState` and `lease` are the tables, `run[w]` the local variables of
`execute_one`, with `pc` naming the transaction or external call that comes next.
`effect` is what the outside world really holds of a step (none, part, done): adapters
change it, and a probe answers honestly as far as its definition can tell the cases
apart (`Observed`). An operation's type is chosen in `Init`, so one run covers all of
them. Lease rows have no revision here: `RevisionIsImplied` is the theorem that allows
it. Pulses are not actions; a run that pulses in time is a run whose `pc` is not in
`Slow`, the set of points at which a worker may stall for longer than its leases last.
Events, progress, step outputs and reason codes are left out, since nothing the engine
decides depends on them. `MaxFaults` bounds the misfortunes of a behaviour: deaths,
failed effects, verifications and compensations, refused preflights, shutdowns.

An exception that leaves `execute_one` is the action `Escape`: the run is over and its
leases stay until they expire. `Illegal` lists the transactions that raise: the fence
is lost, a step row is not in the expected state, the transition is not in the table.

### Workflows
Step by step, the lease keys, the flags (visible, critical, reversible, forward-only,
polling, quiescent), and the answers `probe` and `probe_restoration` can give, read off
each `build_*_workflow` and its adapter. A STORAGE_CLEANUP request has one of three
modes and appears three times.

### WorkerHost
`lock` is the `worker_locks` row, `op` an operation with the lease row it needs, `host`
a process. `execute_one` is reduced to its claim and the ways it can end; PREPARING,
RUNNING and VERIFYING, which `_next_work` treats alike, are one state. `Blocked` holds
operations whose keys a recovery barrier occupies. `late` is history: the operations
claimed since the host lost its lock.

### ApplicationSlots
`ExecutionEngine` treats an effect as one thing that is absent, partial or done. This
module opens the seven effects of APPLICATION_UPDATE. `link` is the pair of symbolic
links, `released` the directories under `releases/`, `stage` the staging directories,
`rec` and `truth` the rows of `application_installations` and
`application_installation_state`, `schema` the newest migration of the profile, `intent`
and `ack` the nonces in the two receipts (0: no file), `child` the replacement processes.
`state`, `at`, `row`, `undoing` and `undone` are what the operation rows say, `worker`,
`pc`, `todo` and `ending` the run. One action is one system call or one transaction
(`SwitchPrevious` and `SwitchCurrent` are the two `os.replace` of `publish_pointer_set`),
so a crash falls between any two. A release is known by its schemas only: `Source` and
`Target`, and the range it can read. `Probe` and its parts are the probes of the adapter.

Digests, signatures, receipts' contents and the database backup itself are left out: a
staged tree is none, partial or complete, an acknowledgement is the nonce it carries.
Leases are not here, because ExecutionEngine has them: one worker runs at a time, and an
update in RECOVERY_REQUIRED, whose barrier holds `application-installation`, keeps the
others out. `MayOvertake` says whether an update may be claimed while another's record
step is interrupted. The program allows it; what happens then is the run
`record_overtaken`, and the other runs and five of the theorems exclude it.

The code's schema is here that of the published slot, as if every process were of it. A
window or worker of an older slot goes on with its own, and `ReleaseDelivery` has that; what
this module is about does not depend on it. Such a process only drives the steps: the
profile is migrated and acknowledged by the replacement process, which is of the new slot
and refuses a profile newer than itself, and a migrated profile goes back by a restore only.

### OperationContract and OperationDesk
The contract has three variables: `state` of every operation, what is in place of its
reversible effects (`world`), and `held`, the lease rows with whether they are unexpired.
Its actions are what a run, a cancellation or a resumption may do to them; `Shelve` is a
claim without an executor for the operation's version, which pauses it. `ExecutionEngine`
has the mapping onto it (`Contract`): rows to `held`, the effects of the steps to `world`.
`OperationDesk` puts two surfaces beside each other on that contract. A surface looks for
unfinished work in one transaction, enqueues in another, drives the engine, is
interrupted, and answers from the row it reads last; `told` is the end it reports. Each
behaviour is about the operations of one service, so barriers of other kinds appear only
through `Acquirable`.

### StepRun and the worlds of the operations
`StepRun` follows one operation: `run.at` and `run.row` are the first step that is not
verified and its row, `way`, `begun` and `undone` what is compensated, `pc` where the
worker is. `Turns` are the engine's own steps (probe, verify, take the next step, begin
to compensate), `Mishaps` what a failure or a death does at that point. A world adds one
action per system call or transaction of its adapter and answers the probes from what is
on disk. History variables (`found`, `touched`, `torn`, `refused`) are read by properties
only.

* `RuntimeTrees`: the trees with the build they hold, the directories (the exchange is
  one `renameat2`), the registry of builds, the component row, the handoff with the
  operation that wrote it, the service with its start receipt. Three updates or rollbacks
  follow one another, so that the second finds what the first left. An update to the source
  of the promoted build is a no-op on the active tree: it takes the same steps, of which most
  are skipped, captures what is active, verifies it and finalizes its row. Left out are
  installations without a selected model (and a build prepared for them), the pinned Prism
  bundle and the cleanup of old trees.
* `ModelActivation`: configuration, handoff, service, known-good row; the one restoration
  that compensates four steps is as many actions as it has changes.
* `ProfileRestore`: the active and the staged profile with the operation row *inside*
  them, the receipt and the lock beside them, and other writers of the profile.
* `ProfileCalibration`: up to two candidates (the third step is skipped) beside a user who
  edits the profile, a server that fails and the thermal latch.
* `ModelStore`: slots of content with their bytes, artifact rows, aliases, reservation and
  staging, for one import and one removal whose leases may lapse, and an activation.
* `StorageCleanup`: trees, quarantine, receipts, target by target, in the three modes.
* `IntegrationSetup`: access and clients, model, the gateway and the receipt of its
  consumers, Open WebUI, sharing, with the baseline recorded before the start, and a user
  who starts and stops things meanwhile. `foreign` is a consumer that is not the setup's.
* `OpenWebUITransaction`: containers by name, with image and state; every podman call may
  fail, and the process may die between any two.

### The services beside the operations
* `Credentials`: client row, fingerprints per generation, secret files; a setup operation
  that dies and is retried beside a user's commands.
* `GatewayRequests`: the threads of several clients over a bounded table; a row is fetched
  under one lock and used under another (`torn` marks an eviction in between).
* `ChatPage`: page, chat lane, action lane, shell and files, whose `fresh` set abstracts
  revisions: who knows the current one. A list may arrive at any time and open its first
  row. How a job of a lane ended is taken with the drain that tells the page, where the job
  leaves nothing behind. The history `astray` marks a page whose messages are not those of
  the conversation it holds for open (section 3).
* `ProfileDatabase`: a migration is the tables it makes, needs and copies; processes of
  two versions start, import, migrate and serve, and die anywhere.
* `SetupWorkflow`: the recorded stage, what has really been done to the machine, the
  window with its worker lane, and a terminal that bootstraps.
* `ReleaseDelivery`: archives of genuine and forged members (`Catalogue`), the importer,
  whose extraction and verification nobody else sees and are one step with what follows
  under the lock of the shelf (renaming the tree and recording it are two), the shelf, the
  page's preview, the queued request and the slot it ends in. A process verifies on the
  schema of its own code: `code` is the window's, which changes only when the window is
  reopened (`Reopen`); a worker or an import may be of any slot that was ever in force
  (`Codes`); a command from the terminal is of the slot in force (`Schema`). `profile` is
  the newest migration, `published` the releases whose row was CURRENT once.
* `RepairCenter`: a thing with a state, a revision and perhaps a lease; the preview the
  user confirmed; the owner's change; the probe after it. `thing` lives on all the while.

## 3. Runs

Deadlock checking is off everywhere because finished work is a legal end.

| Run | Instance | Shows |
|---|---|---|
| `engine` | 1 worker at a time, 1 operation of any of 12 types, stalls anywhere, 2 faults, cancellation | `TerminalsTruthful`, `SucceededIsVerified`, `CriticalNotCancelled`, `ReverseOrder`, `BarrierCoversEffects`, `HoldsWhatItTouches`, `EffectNotRepeated`, and the refinement `KeepsContract` |
| `engine_pair` | 2 workers, 2 operations with a one-step change of the served model, stalls outside effects, 1 fault, symmetry | `EffectsExclusive` |
| `engine_rest` | every type but RUNTIME_UPDATE, one of them of a version not installed, 1 fault, fairness | `ComesToRest` |
| `slots` | 2 updates or rollbacks between 3 releases, one of which migrates the profile, 2 faults, cancellation, symmetry | `LinksResolve`, `PointersFollowSteps`, `EndedOnPrior`, `RecordDescribesLinks`, `ProfileFitsSlot`, `RecordedWhenHealthy` |
| `live` | 2 hosts, 2 operations, none blocked, 2 exceptions; or 1 update, 2 faults; fairness | `HostQuiesces`, `HostTakesQueued`, `UpdateEnds` |
| `worlds` | the worlds below, 1.98 million distinct states | one property per world, three for the leases, two for the hosts |

The worlds of the run `worlds`:

| Module | Bounds | Property |
|---|---|---|
| `Leases` | 2 workers, 2 operations, 2 keys, TTL 2, 2 revisions | `FenceSound`, `BarrierHeld`, `BarrierFrozen` |
| `WorkerHost` | 2 hosts, 2 operations, stalls anywhere, 1 exception, which exhausts the budget (`live` has a budget of 2) | `HostsApart`, `RunningIsFindable` |
| `RuntimeTrees` | 3 operations, 3 faults | `TreesSound` |
| `ProfileRestore` | 4 faults | `RestoreSound` |
| `ModelActivation` | 2 faults | `ActivationSound` |
| `ProfileCalibration` | 2 faults | `CalibrationSound` |
| `ModelStore` | 1 fault per behaviour beside lapsing leases | `StoreKept` |
| `StorageCleanup` | 3 faults, 2 targets | `CleanupSound` |
| `GatewayRequests` | 3 connections of 2 clients, a table of 1, windows at any time | `SlotsExact` |
| `Credentials` | 3 generations, 4 secrets, 2 faults | `CredentialsAgree` |
| `OpenWebUITransaction` | 2 faults | `OldSurvives` |
| `IntegrationSetup` | 2 faults | `SetupKeepsBaseline` |
| `OperationDesk` | 2 surfaces, 1 operation, 2 of a runtime | `DeskKeepsWord` |
| `ChatPage` | 2 conversations of up to 3 messages | `AnswersKept` |
| `ProfileDatabase` | 2 processes, profiles at versions 3, 8, 12, 14 or none | `DatabaseKept` |
| `SetupWorkflow` | 2 models, 1 terminal, 3 launches of the window | `SetupKept` |
| `ReleaseDelivery` | 1 damaged bundle, 2 publications | `Delivered` |
| `RepairCenter` | 4 revisions, 2 windows of time | `Repaired` |

Each of these properties is the conjunction of the named promises of its module; the
comment over each conjunct says which code it is about.

*Why one run for all worlds.* They share no state, so the states add up instead of
multiplying, and every step of each is explored with the same configuration.

*Bounds.* One worker suffices for crash recovery: a dead worker's successor is a fresh
run, and nothing but the tables survives. Two faults allow a death during the recovery
from a death or from a failure; the restore gets four because its four publication
steps can each be interrupted, the cleanup three because a compensation after a failure
after a death is the interesting case; the model library has two operations already,
each of which the other may interrupt, so one fault on top suffices. The pair needs only
one lease key, because sharing a
key is what two operations can do to each other, and one reversible effect, because
compensation is part of the question. TTL 2 separates "just granted" from "about to
expire". Two updates are what can meet in the slots: one that holds the reservation and
one that comes before or after it. Three releases are the running one, the one before it
and a new one; one of them migrates the profile, since only then does undoing step 5
matter. Three operations on the trees are an update, the rollback that uses what it left,
and one that must find the registry true after both; three faults are what it takes to
meet the exception in `FailureRestores`. The gateway's limits are scaled
down, since only "below" and "at the limit" are told apart.

*Fairness.* `FairSpec` of the engine assumes that a worker that has something to do
does it (`WF(Work(w))`): an effect, a probe and a compensation come back, and somebody
calls `execute_one` of an operation that is neither terminal nor paused. A host does so
for QUEUED rows and abandoned PREPARING, RUNNING and VERIFYING rows; rows interrupted
in COMMITTING, CANCEL_REQUESTED or ROLLING_BACK are driven by
`operations recover --confirm`, so for them the assumption is about the operator. It
also assumes that time passes for rows nobody renews. There is no fairness on resume,
cancellation or faults. `FairSpec` of the host assumes that a live host's loop goes on
and that an operation's run ends. `FairSpec` of the slots assumes that a worker goes on,
that an interrupted update is taken over again (strongly fair, since another update may
be running meanwhile) and that replacement processes run; none for faults or requests.
The worlds state safety only: whether they come to an end is the engine's `ComesToRest`.

### Disagreements between the code and what is written about it

Each is a run that TLC refutes.

* `cancel_after_last_step`: a cancellation accepted between the last verification and
  completion is never honored. `_complete` needs COMMITTING, which is not reachable
  from CANCEL_REQUESTED, so this and every later attempt raises.
* `stale_claim`: `_claim` reads the state in one transaction and acquires in another
  without reading it again; an operation cancelled in between is executed under its
  terminal row. With more than one worker and cancellation `TerminalsTruthful` and
  `KeepsContract` therefore fail; the passing runs have one worker, or no terminal
  that another worker may have read past.
* `record_overtaken`: `probe_recorded` and `record_installation` demand that nothing is
  reserved. If the worker dies after the commit and another update reserves before the
  takeover, the committed update is no longer recognized, fails and is rolled back.
* `restored_back`: a restore that exchanged the profile back and whose worker dies before
  the last checkpoint is recorded as a successful restore.
* `activation_rolled_back`: the restoration of an activation takes any healthy server for
  the prior one, so a candidate may go on being served after FAILED_ROLLED_BACK.
* `import_changed`: a local file that changes before it is copied is imported if the
  worker dies between the copy and its comparison.

### Limits found in the models, which no run states

Where a restriction of an instance or an exception in a property is named, lifting it
reproduces the behaviour; the others can be read off the actions named or the lines
quoted, and some lie in code the models leave out.

**Engine and hosts**
* Cancelling compensates in CANCEL_REQUESTED, from where RECOVERY_REQUIRED cannot be
  recorded when a compensation fails; the exception leaves `execute_one` and the leases
  expire instead of forming a barrier (`engine.py:1285`). `OutcomeLegal` has it.
* The context of a compensation has no pulse, so one that outlives its lease overlaps
  with an effect of the operation that takes the key: `EffectsExclusive` fails when "undo"
  is added to `Slow` in `engine_pair` (ADR 002:336 says reverse effects are fenced alike).
* An acquisition interrupted in `finalize_staging` probes REVERTIBLE and is rolled back by
  the recovery path, which does not look at `cancel_finalizer` (`engine.py:892`; line 1057
  says forward-only workflows never enter ROLLING_BACK).
* The `worker_locks` row is renewed once per operation, not during it: a long run lets a
  second host start (`worker_host.py:10` says one per profile). `HostsApart` still holds.
* RUNTIME_UPDATE is not in `engine_rest`: interrupted after its last effect, paused and
  resumed, it has only verifications left; `_ensure_running` is not reached, and from
  PREPARING completion is refused for ever.
* `HoldsWhatItTouches` leaves out compensation of a cancellation: a phased operation
  resumed in CANCEL_REQUESTED claims its first phase only. A compensation of a cancelled
  operation that another executor resumes ends FAILED_ROLLED_BACK, not CANCELLED.
* `Blocked` is empty in `live`: the host picks the oldest QUEUED operation whether
  it can run or not, and does not wait after SKIPPED_BUSY, so `Quiesces` fails.
* `Slow` in `live` leaves out the loop itself: a host renews its own expired
  leases of the operation it just picked as abandoned, and then finds it busy.
* `TerminalsTruthful` is about reversible effects: a purge whose verification fails
  after the files are gone is FAILED_SAFE as well.

**Surfaces (`OperationDesk`)**
* After the first Ctrl-C `_drive` calls `execute_one` again while the operation's own
  lease is live; `acquire` refuses even the same owner, so the answer is BUSY and the
  operation stays CANCEL_REQUESTED (`runtime_lifecycle_command.py:283` says it "KEEPS
  DRIVING with the SAME worker identity"). A Ctrl-C in COMMITTING leaves `_drive` as an
  exception.
* `_select_rollback_target` (`runtime_lifecycle_command.py:418`) uses a name imported only
  inside `status`, so every runtime rollback command ends in NameError.
* A cancelled QUEUED operation stays CANCEL_REQUESTED until `recover --confirm`, and every
  later start answers BUSY; `resume` may overtake an interrupted operation
  (`activation_command.py:111` says "never leapfrogged"); two surfaces that start at once
  both enqueue; cleanup and update answer FAILED_SAFE for an operation that is still
  QUEUED or PAUSED; LOST_LEASE is answered as RECOVERY_REQUIRED though the row is not;
  the recovery hint for RECOVERY_REQUIRED is a command that refuses it.

**Application update (`ApplicationSlots`, `ReleaseDelivery`)**
* Nothing calls `release_reservation`: an update that failed, was rolled back or was
  cancelled keeps the reservation, and every later one is told that another protected
  task is running.
* `restore_profile` enqueues a BACKUP_RESTORE that needs `profile-publication`, which the
  update holds: rolling back an update that migrated the profile always ends in
  RECOVERY_REQUIRED (ADR 013:267 says the workflow does not hold what a child waits for),
  and the queued restore may run later.
* A death between the two links of a rollback leaves both on the candidate, which
  `probe_restored` does not recognize: RECOVERY_REQUIRED, with a startable application.
* A death during staging leaves a stage the next attempt refuses; a late acknowledgement
  of an orphaned process overwrites the current one and the verification raises for ever
  (the exception in `UpdatesEnd`); a cancellation between publication and acknowledgement
  is accepted and honored (ADR 013:269 says refused).
* The preview digest contains `expires_at` (now plus 15 minutes, in seconds), and apply
  recomputes the preview and compares: a confirmation is accepted only within the second
  of its preview (ADR 013:145 says "the exact unexpired preview digest"). `DropPreviews`
  is that.
* Nothing restarts the window or a worker after an update, and each goes on with its own
  SCHEMA_VERSION: it previews, confirms, imports and stages releases made for the schema
  that the profile has left. They are refused late, by the process of the new slot
  (`Replaces`), which will not open a newer profile, or by the record (`RowFits`); so what
  `Delivered` promises of a staged release is that the profile has reached its source schema,
  not that it is still there.
* A damaged stored bundle makes every later import of a good archive fail; a rollback
  verifies the prior release against the schema of the process that verifies, so one of the
  new slot refuses it whenever the update changed the schema.

**Runtime (`RuntimeTrees`)**
* An interrupted compile cannot be completed (its probe's output lacks the directory
  locator): FAILED_SAFE. A partial checkout runs `git worktree add` into the existing
  directory and fails. A reproducible rebuild makes "target tree is ambiguous" until
  cleanup. A death between the intent of the restart and the restart is UNCERTAIN and ends
  in RECOVERY_REQUIRED, though nothing happened.
* `observe_restoration` asks whether a server answers, not which
  (`runtime_lifecycle_adapter.py:1945`). If the worker dies when trees, rows, handoff and
  component are back and the server of the candidate is still up, the probe of the next
  attempt is COMPLETE: FAILED_ROLLED_BACK or CANCELLED, with the candidate serving until
  its next restart. `FailureRestores` admits it. The invariant of the proof found it; it
  takes three faults, and an instance with two does not show it.
* The next operation goes on from there: `capture_activation_boundary` asks whether the
  server answers as it is configured to, not which build it was launched from, so a server
  of another build is part of the baseline (`found.serving`).
* A no-op interrupted in its compile step cannot be resumed: the probe looks for the build
  directory that a skipped step did not make, and raises at every attempt. One interrupted in
  its exchange step gets `{"skipped": true}` from the probe where finalization wants
  exchange evidence, and is refused there, though nothing was wrong
  (`RecoverSkipped`, `Finalize`).

**Activation and calibration**
* Activating the active configuration again after a death before its commit probes
  COMPLETE, then publishes at an unexpected revision and is rolled back. Writers without
  an operation (`tune.py`, the command line's apply) are overwritten by a restoration.
* The preflight of a calibration runs on every claim, so one interrupted in a trial is
  refused when the server stopped, the profile was edited or the latch is set, and ends
  FAILED_SAFE with the trial configured (`refused` in the properties; it is why
  PROFILE_CALIBRATE is not in `engine`). In a roll-back the refusal has no transition and
  `execute_one` raises as long as the profile stays edited.
* `probe_restoration` and `probe_candidate` compare the desired configuration only, though
  the comment in `_restore` says that "equality of desired config alone is not proof": a
  death in a compensation, or a failed restart after a first trial, may leave the candidate
  rendered and served (`torn`).
* Health answers the display name and is compared with the installation's id, so a
  calibration fails for every model whose display name differs (`plan.named`). A baseline
  without a selected model cannot be restored.

**Restore (`ProfileRestore`)**
* A failure that is not a death (refused exchange, full disk at the receipt, a second row of
  restore attempts) ends FAILED_SAFE with the receipt unsettled and possibly the candidate
  active; every writer is then refused for ever (ADR 006 section 7 says RECOVERY_REQUIRED).
  Files copied at staging are not refreshed after a death. A verification that fails after
  a COMPLETE probe raises out of every later attempt.

**Models and storage (`ModelStore`, `StorageCleanup`)**
* `_blockers` of a removal does not count operations in COMMITTING, CANCEL_REQUESTED or
  ROLLING_BACK: what an activation is just putting in place can be removed, and so can the
  content an interrupted import is about to register (`CHANGELOG.md:847` says removal
  "refuses active/known-good/referenced artifacts").
* A removed artifact's row stays QUARANTINED, so importing the same content again publishes
  the bytes and then fails for ever. A death between the rename and its checkpoint leaves
  the row MANAGED without bytes. A resumed removal may detach an alias that meanwhile names
  another artifact. Failed imports keep reservation and staging until a cleanup.
* In a cleanup, a receipt that cannot be written after the rename of the only target probes
  ABSENT: FAILED_SAFE with the tree moved and no receipt to restore it by. A death between
  a move back and its receipt leaves a receipt that contradicts the tree.

**Gateway, clients, Open WebUI, setup of integrations**
* A chat request without a body reserves a slot and raises in `json.loads`
  (`gateway.py:562`); the slot is never returned (ADR 014:71 says "exactly once"). An
  evicted row loses the reservation of the thread that had fetched it.
* A death between publication and transaction of a rotation leaves a file with the next
  generation, and every later rotation fails on it. A sweep may remove the file of a client
  created after its transaction.
* A stop or rename that fails before parking leaves the prior container stopped, and a
  failure after the old container was removed leaves none verified
  (`openwebui_runtime.py:830` says "the prior container and data were restored"). An
  installed but stopped container is verified and left stopped, so `start` does not start it
  and an integration setup with it is rolled back as not ready.
* `probe_gateway` is COMPLETE when the gateway runs for somebody else, so a death before
  `acquire` ends in success without the consumer. A retry of `ensure_clients` does not list
  the client it finds, and a roll-back leaves that active. A roll-back with access disabled
  at baseline revokes the user's other clients too. The consumers receipt is an unlocked
  read-modify-write.

**Chat page, database, first-run setup, repair**
* A list that arrives with `_select_first` set opens its first row unless the open
  conversation is among the rows (`chat_page.py:247`, `:803`), whatever the page is doing.
  While the draft or the settings of the open one are being saved, the end of that save puts
  its identity on the messages of the other, so that the next save replaces the first
  conversation with them; `AnswersKept` promises nothing of such a page (`Sound`). While a
  response streams, the answer is added to the conversation that the list opened.
* Rename and unarchive bump the revision of the file without telling the page: every later
  save, leave and close is refused until the conversation is put away. `_allow_leave` stays
  set after a navigation the draft refused, so a later answer can be lost without a
  question. A late answer to the archive or delete question acts on whatever is open then.
* `import-state PATH` looks for a database only before it stages and then replaces the one
  that meanwhile may be there (`__main__.py:521` says "never overwritten"): with
  `ImportBesideStart` TRUE `DatabaseKept` fails. A dead import leaves its lock file and
  every start is in repair mode until the user removes it. In the import the migrations run
  on an empty staging database, so what they would copy never sees the imported rows.
* A window that dies between VERIFIED and the completion resumes at the last screen, which
  cannot complete the setup. Selecting another model after going back does not rewind the
  stage, so a relaunch activates the earlier one. `commit_narrow` has no revision check
  (`gui/app.py:231` says "surface conflicts instead of overwriting newer state").
* `restore-known-good-lineage` always fails. `quarantine-invalid-model` passes no revision
  to its owner, so a model imported again under the same alias may be removed. The handoff
  is checked and then published. A recovery that ends in RECOVERY_REQUIRED is answered
  FAILED_SAFE. An undo whose child waits is answered FAILED_SAFE and may restore later.

## 4. Proofs

Each theorem holds for every value of the constants that the named assumptions admit.
A run then shows the same property on a small instance, where mutants of the code break
it; the theorem covers every other instance. Four modules are about one model each:
`LeasesProofs`, `ExecutionEngineProofs`, `OperationContractProofs` and
`ApplicationSlotsProofs`; `CoreWorldsProofs` is about the worlds of `CoreWorlds` (the
runtime trees have a module of their own, `RuntimeTreesProofs`), `SurfaceWorldsProofs`
about those of `SurfaceWorlds`, and `WorldsProofs` carries their results over to the run
`worlds`.

### Leases
`TypeCorrect`, `FenceIsSound`, `RevisionIsImplied`, `BarrierIsHeld` and `BarrierIsFrozen`,
for all workers, operations and keys, every TTL and every bound. The assumptions are the
named ones of `Leases` (TTL at least 1, the two null values outside their sets, every
operation claims at least one key).

None of the properties is inductive. `FenceSound` says that a run whose rows still match
was never superseded, so one must know that a row naming a worker was written by that
worker's *current* run. The inductive invariant adds to `TypeOK` and `BarrierHeld`:
`IdleHoldsNothing`; `LostWasGranted` (a run only loses what it was granted);
`GrantCurrent` (a row naming a worker under a key its run was granted is that grant: same
operation, same revision, not granted to anybody since); `ClaimKept` (a run holds at least
the keys every claim of its operation starts with); `Superseded` (a run whose operation is
already RECOVERY_REQUIRED lost one of those keys to the run that put it there, so its
fence fails). The last two are why a late worker cannot renew or release the rows of a
barrier. The proof has one lemma per action; `BarrierFrozen` is an action property and
follows from the same invariant.

### The engine
For every catalog of workflows, not only the twelve of the run:

| Theorem | Property | Hypotheses |
|---|---|---|
| `TypeCorrect`, `CriticalNeverCancelled` | `TypeOK`, `CriticalNotCancelled` | none: any workers, stalling anywhere |
| `SuccessIsVerified`, `EffectNeverRepeated` | `SucceededIsVerified`, `EffectNotRepeated` | `Disciplined` |
| `EffectsNeverShare` | `EffectsExclusive` | `Disciplined`, `UndoClaimedFirst` |
| `UndoneInReverseOrder`, `TouchesWhatItHolds`, `BarrierCoversWhatIsLeft` | `ReverseOrder`, `HoldsWhatItTouches`, `BarrierCoversEffects` | `OneWorker` |
| `TerminalsAreTruthful`, `EngineKeepsContract` | `TerminalsTruthful`, `KeepsContract` | `OneWorker`, `NoLateRefusal` |

*Assumptions on the catalog*, stated in `ExecutionEngine` and evaluated by TLC on the real
one: every workflow has steps and a first claim, and its barrier keys are among its keys
(`CatalogAssumption`); a probe answers recovery classes, and that of a step that does
something can say more than COMPLETE (`ProbeAssumption`); what a roll-back touches is
claimed by then, nothing that others see is left behind a forward-only step
(`CompensationAssumption`).

*Hypotheses.* `Disciplined`: no worker outlives its lease inside an effect or a
compensation, because `StepContext.pulse` renews it, or there is only one worker. Section
3 lists what happens otherwise. `UndoClaimedFirst`: what a workflow may have to undo is
claimed with its first phase; only RUNTIME_UPDATE and APPLICATION_UPDATE claim it later,
and their resumed compensations are covered by `OneWorker`'s theorems. `OneWorker`: one
worker process, which may die, restart and outlive its leases at any point; with a second
one that claims on a stale read the properties are false, which is the run `stale_claim`.
`NoLateRefusal`: a preflight that can refuse on a later claim belongs to a workflow
without visible reversible effects; only PROFILE_CALIBRATE breaks it, which is why the run
`engine` leaves it out and section 3 has what the code then does.

*Argument.* All of it rests on `Base`: types; a run has an operation, a step and steps to
undo where its `pc` says so (`Placed`); it holds the keys its claim began with and those
of the step it is in (`Holding`). A step of a worker is summed up once (`Footprint`: it
writes one row, one effect, one state, its own leases), and every later proof reads it
through that. `CriticalNotCancelled` needs no more than that a fenced run's operation
moves only by that run or the user.

What the rows say of the world is `EffectInv`: a CHECKPOINTED or VERIFIED row is of a
finished effect (`EffectsRecorded`); a run that nobody disturbs (`Sure`: the rows are its
own, or it is the only worker) knows at each place what its step's row and effect are
(`Knows`); a run without its fence is not touching anything (`TouchesSure`); and a run
whose claim came after the end finds nothing to do (`LateRuns`). `SucceededIsVerified` is
not inductive without all four: a second run of the same operation may stand anywhere.

How operations end is `OutcomeInv`. Steps begin in order (`InOrder`), and whatever is in
the world has a row that a roll-back finds (`Traced`). It then follows the run from place
to place: before a claim everything left is within the keys the operation still owns or
can get (`AtClaim`), inside a step within reach of the keys held (`AtStep`), in a
roll-back within what is still to undo, unless something failed (`AtUndo`). `TruthInv` adds
what a run that is about to report an end knows (`AtEnd`).

`EngineKeepsContract` is the refinement: initial states map to initial states, and every
step to one of the contract or a stutter. The mapping (`Contract` in `ExecutionEngine`)
forgets steps, runs and owners. Beyond the invariants above it needs that between the
claim's read and its lease only the user moves the operation and that a run asks for keys
of its workflow only (`AtRest`), and that a queued operation has not begun
(`QueuedUntouched`).

### The contract
`OperationContractProofs` proves for any operations, keys and claims `ContractTyped`,
`EndsAreTruthful` (what a terminal state says of the world is so, and stays so),
`EndsAreFinal` and `BarriersStand` (the keys of a RECOVERY_REQUIRED operation are neither
granted again nor given back). The invariant of the first two is typing with
`EndsTruthful`: an action that changes `world` needs a working state, and the lemmas
`Table` and `Closed` say that no transition leaves a terminal state. By
`EngineKeepsContract` the engine inherits them.

### The slots
For all releases, updates and any number of faults, `TypeCorrect` and `LinksAlwaysResolve`
hold unconditionally; `PointersAlwaysFollowSteps`, `AlwaysEndedOnPrior`,
`RecordAlwaysDescribesLinks`, `ProfileAlwaysFitsSlot` and `AlwaysRecordedWhenHealthy` when
no update overtakes an interrupted record step (`~ MayOvertake`, without which the run
`record_overtaken` refutes the argument). The assumption on the constants is
`SlotsAssumption`.

For the first two the invariant is `BaseInv`: links resolve because a worker about to
switch has its candidate among the releases, and one about to switch back has the release
it came from there, which `previous` still named. The next two need `UpdateInv`, in which
everything depends on everything: `TruthInv` (with nothing reserved the record is what the
links say), `RowInv` (an update past its first step holds the reservation, or its record is
committed and the row does not say so yet), `LinkInv` (how far the links are, by the rows
of the update that holds the reservation), `DoubtInv` (no other record is in doubt while a
worker runs), `ForwardInv` and `CompInv` (where the worker is in which step; what is left to
undo is what began and is not undone, unless the end is to be RECOVERY_REQUIRED). The step
lemmas `TypeStep`, `SlotStep`, `RowsStep` and `PlaceStep` have one case per action.

The last three need `FitInv`, which adds the schema. `RecordRows`: the rows agree with the
installation state. `AskedInv` and `Fits`: a request that can still be reserved was made of
the running slot, and its candidate updates from the schema in use. `AckInv`: an
acknowledged update has its schema until it is recorded, and one that changed the schema
never counts as compensated. `ChildInv`: a replacement process that outlived its update's
reservation finds the profile at its schema or a newer one, so it does not migrate
anything. `HeldInv` and `SchemaInv`: what the reserving update did to the schema, and that
without a reservation the schema is that of the recorded release.

### The hosts
`HostsStayApart` and `RunningIsAlwaysFindable` for any hosts, any set of operations
numbered by age, any choice of places where a host may stall and any failure budget.
`OneExecutor` follows from `ExecutorHolds`: a host inside `execute_one` owns the lease row
and it is live, because only that host may let it expire, and does not while it works.
`LateHostStops` needs `LateByPlace`, which counts the claims since the lock was lost by
where the host is and whether it knows: the owner of the lock has none, a host past a
successful check may make one, and one that failed the check makes the claim it was about
to make before the loop sees the shutdown. Choosing the oldest operation is `OldestIsMember`,
from the well-foundedness of < on the naturals.

### The gateway
`SlotsStayExact`, for any connections, clients, limits, table size and admission. The one
assumption with content, `RequestsAssumption`, is that there are more row identities than
the table and the threads can refer to at once; it stands for the fact that a new row is a
new object, and `UnusedRow` counts it out. The invariant `SlotsInv`: what a thread has
fetched and reserved by where it is (`RowsByPlace`); a row of the table is the row of one
client (`RowsApart`); a thread whose client was never evicted from under a thread refers
to the row in the table (`RefersToOwn`); no row counts beyond the limit (`RowsBounded`);
and `ReservationsExact`. The limit at the model server follows because a thread there
holds a reservation, and those are counted.

### The credentials
`CredentialsAlwaysAgree`, for any number of generations and secrets. The invariant
`CredentialInv`: every secret there is was drawn (`SecretsDrawn`), so a new one is none of
them; a setup operation under way has found no client, and the file is the one it will
record (`SetupPlace`); a rotation under way makes the next generation, of a secret that is
nobody's fingerprint and was never taken back, and what it unlinks is not the client's
(`UserPlace`); nothing was taken back from a client that nobody could use (`SpentPlace`);
and a client that is not revoked has its own generation active (`ActiveState`), which is
why the overlap that a rotation grants is never a secret that was retired before.

### The run of an operation
The worlds on `StepRun` share their argument about the run itself, stated once for every
workflow whose undoable steps are visible or critical and none of them forward-only
(`Workable`). `RunInv`: where a run stands says which way it goes; a run that turned back
is to compensate what has begun and was not undone, all of it unless a compensation
failed. `RunTurns` and `RunMishaps`: whatever `Turns`, `Mishaps` or `Cancelled` do, the run
`Moves` in one of ten ways. It stops, goes on inside its step, verifies a step whose result
holds, succeeds after the last one, fails with nothing left to take back, turns back over
all that has begun, is cancelled at once, goes on compensating, undoes one step whose
restoration is proven, or has undone everything. A world adds what is on disk in each of
the ten.

### The cleanup
`CleanupStaysSound`, for any set of targets and any number of faults. The invariant
`CleanupInv` says, beyond the run's, that every tree is in one place, staging or quarantine,
unless its purge began (`InOnePlace`); that all are home while nothing has begun, as soon as
the one reversible step was undone, and after an end that took everything back (`Unmoved`);
and that all are where the mode wants them, with the receipt that says so, once the mode's
step is verified (`AllDone`). That the probes tell these apart is where the receipt alone
would not do: a rename without its receipt is a death in between. `TreesAssumption` keeps
the null value out of the contents.

### The activation
`ActivationStaysSound`, for any number of faults. The invariant `ActivationInv` has three
parts. What `capture_prior` wrote down is what the operation found, but for a server that
has died since (`PriorKept`). While the run goes forward every verified step has left its
part of the candidate, and every step not yet begun leaves its part as found
(`ForwardSoFar`). And with nothing left to compensate, configuration, handoff, known-good
row and, where there was none, the server are as found (`AsFound`): the one function that
restores all four is compensation of four steps, and a run stopped in the middle of it has
still to go on. What `RolledBackServesPrior` says beyond that, that the prior model is
served again, is false (run `activation_rolled_back`). `ActivationAssumption` keeps the
null value out of models and handoffs.

### The containers of Open WebUI
`OldAlwaysSurvives`, for any number of faults. The invariant `WebUIInv` follows the old and
the new container by the names they have at each place of a transaction: going forward
(`TxGoesOn`) the old one is under its own name, then under the rollback name, and the new
one under the candidate's, then under `main`; going back (`TxGoesBack`) whichever of the
two renames happened is known from the names alone, which is all a later attempt has.
The names of transactions to come are free (`FreshNames`), because a transaction that dies
leaves its containers behind under names numbered as its own. `Spared`: once a container
has worked, one that works exists outside the names which the transaction under way may
still remove (`AtStake`). The last two hold until a removal that comes late (`late`), which
is what the property excepts. `WebUIAssumption`: the null value is no name, no container
and no error.

### The restore
`RestoreStaysSound`, for any number of faults. No step of a restore is undone, so its run
only ever stays or goes one step on (`StaysForward`); what is hard is that the rows of the
operation are inside the database that the operation exchanges. `RestoreInv`: every copy of
the rows is one that a run could have written (`RecordSane`), so a process that reads them
after a death, or after a compare-and-set that met other rows, continues a legal run; the
rows in the active profile are those of the run, except after an exchange back, which a
damaged database may make without them (`RecordFollows`); a receipt exists only for a run
that has come to the publication and fits the place of the profiles (`RestorePublished`);
and within `publish_exchange`, `verify_post_restore` and `promote_or_rollback` the receipt,
the profiles and the unwritten changes are as the place says (`RestoreWork`). Between
the copy of the database and the exchange no other process writes, because the run
holds the profile lock from its claim to its end.

### The setup of integrations
`IntegrationIsSafe`, for any number of faults. The invariant `IntegrationInv` says of every
thing that the plan may change that, unless the user had a hand in it (`touched`), it is as
in the baseline or belongs to a step that has begun and was not undone (`OpenOrBack`); with
nothing left to undo that is the property. The probes look at the machine and not at who
changed it, so it also needs where the work on a step stands and that the gateway is up for
whoever is about to be recorded (`WorkKnown`), and that no client of the user is in the
list which a roll-back revokes (`ClientsKnown`). `IntegrationAssumption`: the null value is
no set of clients.

### The calibration
`CalibrationIsSound`, for any number of faults. Three trials follow one another, each
compensated by the same restoration, so `CalibrationInv` says what holds between them: the
captured baseline is what the operation found (`PriorKnown`); where the configuration is
that of the baseline again, handoff and server are too, except within a trial or a
restoration, after a preflight that refused, or when one was cut short (`ServedAsFound`,
`Settled`); the configuration is back before the first trial, between trials, and after a
restoration (`ConfigAsFound`); what a trial under way has restored so far (`StageKnown`); a
trial yet to come has neither receipt nor result, and one that has a receipt is not
executed again (`TriedOnce`); and the recorded evidence is the fastest measurement of its
own profile (`EvidenceKnown`). `CalibrationAssumption` keeps the null value out of the
baselines.

### The runtime trees
`TreesStaySound`, for any number of updates and rollbacks, one after another, and any number
of faults. `TreesInv` carries what lasts from one operation to the next: numbers are given
in their order (`Numbered`); between operations every row says where its tree is, the active
build has one tree, and component and handoff name no other (`Home`); a candidate is in the
directory of its operation (`Candidate`). Until `capture_activation_boundary` nothing that
serves is touched (`Untouched`). From there on it is about the pair that is exchanged: both
trees are registered and no third one is of their builds (`Boundary`), the snapshot is what
the operation found (`Evidence`), and trees, rows, handoff and component each are in one of
two places (`InTwoPlaces`), which is why a probe that looks at one of them can tell. Going
forward they move in the order of the steps (`Forward`); with nothing left to compensate all
are back (`AllBack`). A rollback finds its tree because success makes the prior tree the row
of the component, and `AllBack` gives the earlier row back. That what serves is what was
found, or the active build, is true up to the exception in `FailureRestores`; and what was
found need not be the active build, so that a new server is proven rests on `Bound`: a
start receipt that fits the handoff is of the build that serves. A no-op stays before the
boundary (`NothingToDo`): its snapshot is of the one tree it found (`TreesUnmoved`), and once
it is past its verification the server is known to be of it (`Proving`). `Registered`: past
its preflight an update has the active tree in the registry. `RuntimeAssumption`: the null
value is no number, no row and no snapshot.

### The delivery
`DeliveryIsSound`, for any number of previews, damaged bundles and publications. Its
lemmas about the catalogue say that the verifier accepts no archive of it that is wrong in
one document, swapped or forged (`MixedRefused`), hence only genuine releases, and those
only for the schema they fit (`OnlyGenuineVerified`). The invariant `DeliveryInv`: what is
on the shelf is genuine and under its own digest, also between the importer's rename and
its row (`ShelfKnown`); an open confirmation is of the preview that is shown (`PageKnown`);
and from its verification on an update has the installation it was checked for, with the
wheel that was confirmed (`UpdateKnown`), because the reservation keeps others out. Window
and worker may be of any earlier slot, so `SchemasKnown` says of the releases once in force
no more than that the profile has reached their schema; that is why a staged release may be
for an older one. The profile itself is always of the slot in force (`ProfileFits`), because
the replacement refuses to go back. `DeliveryAssumption` keeps the null value out of
releases and wheels.

### The command services
`DeskAlwaysKeepsWord`, for any set of surfaces. Most of `DeskKeepsWord` is inductive once
types are known, which is where the work is: an operation that a surface drives or reports
exists (`PlacesTyped`), rows only grow (`Lineage`), and one row takes one transition of the
table at a time (`OneMoves`, `OneIsNew`), so an end that was told stays the row's end.
`DeskAssumption`: the null value is no surface and no lease.

### The repair
`RepairIsRight`, for any number of revisions and windows. The thing lives on between the
looks of the command, so `RepairInv` says what survives that: a command past its first
comparison is about the preview the user confirmed, and nothing was changed for it before
its owner answered (`CommandKnows`); what the owner changed was in a state the action is
for, free of a live lease where that is looked at, and at the revision shown where the
owner fences (`OwnerLooked`); success was earned by a change, except by the two actions
that may find nothing to do (`SuccessEarned`). `ThingKnown` is the strengthening: a client
that still has the revision that was shown is still as it was shown, because every change
to it advances the revision, and an operation is active, ended or at a barrier.

### The database of a profile
`WorldKeepsDatabase` is an action property, for any number of processes and any versions
that profiles were left at, with `ImportBesideStart` FALSE: no import of a given file beside
a start (with it the property is false, section 3). The invariant `DatabaseInv` adds to
"the database is at a version" and "a service finds its tables": at most one process is in
an import, it has the lock, and what it is about to publish is whole and replaces nothing
(`OneImport`); as long as there is state to be imported and no database, whoever started
waits or imports (`NobodyBeside`), so no fresh database hides that state; and the versions
that a migrating process read, before its first script, are still an initial part of those
applied (`RemembersVersions`), so it never runs the script of a version twice and never
leaves one out. `DatabaseAssumption`: profiles are at versions of the registry, and the null
value is no database.

### The first-run setup
`WorldKeepsSetupStages` is an action property, for any models, any number of terminals and of
launches of the window, and needs no assumption. That every stage passed is true of the
machine (`ClaimsHold`) does not follow from the stage alone, because the window records what
it did later, in another unit of work, and may die or be overtaken in between. `StagesInv`
adds: the window is on no screen whose success it could not record (`ScreenFits`); what it
remembers is what is recorded, except that on the screen of the model it may know of one that
is stored and not yet recorded (`WindowKnows`); where it works (`WindowAtWork`); once a step
has succeeded its work is done (`StepDone`), and what is no longer left to be recorded is
recorded (`LeftToRecord`); and a terminal that reads on has the acknowledgement, one that
records has installed (`TerminalSound`). A step that finds its stage passed already writes
nothing; one whose stage is not due raises. `SetupIsTruthful` derives `Truthful`.

### From a component to the run `worlds`
`CoreWorlds` and `SurfaceWorlds` declare the worlds under proof, over one `WorldState`, and
`MCWorlds` extends them. A behaviour keeps
its focus (`FocusKept`), a world in focus takes the steps of its module (`FocusedStep`) and
begins as it does (`FocusedInit`); so `Spec => []P` of a module becomes
`WorldsSpec => []P` of the run (`WorldKeepsHostsApart`, `WorldKeepsRunningFindable`,
`WorldKeepsSlots`, `WorldKeepsCredentials`, `WorldKeepsTrees`, `WorldKeepsActivation`,
`WorldKeepsOldContainer`, `WorldKeepsRestoreSound`, `WorldKeepsRepairs`,
`WorldKeepsCalibration`, `WorldKeepsSetup`, `WorldKeepsDelivery`, `WorldKeepsDesk`,
`WorldKeepsRuntimes`; `WorldKeepsTrees` is about those of a cleanup). `WorldKeepsDatabase`
and `WorldKeepsSetupStages` do the same for what a step may do: within the focus the lemma
about a step of the module applies, outside it the implication is empty.

### What is only model-checked
* Of the worlds: the action properties `StoreKept` and `AnswersKept`, each for the one
  instance of its run. Every invariant of a run is proved.
* Liveness (`ComesToRest`, `HostQuiesces`, `HostTakesQueued`, `UpdateEnds`), which needs
  fairness and ENABLED and is out of the prover's reach.

The modules that the proofs are about use no recursion, and no theorem needs induction
over data. Records are updated with at most one key per EXCEPT clause at each level
(`![w] = [@ EXCEPT !.a = x, !.b = y]`, or a function constructor): an EXCEPT that names
one key twice is not translated faithfully by the SMT backend of tlapm 1.4.5, so the
modules under proof contain none.

## 5. Plan

Done: the vocabulary, leases, engine, hosts and slots with their proofs; the contract, and
the proof that the engine implements it; the surfaces on the contract; one module per world
behind an effect; gateway, credentials, Open WebUI, chat page, database, first-run setup,
delivery and repair; the proofs of gateway and credentials, the lemmas about `StepRun`, and
with them the proofs of cleanup, activation, restore, setup of integrations, calibration and
runtime trees; the proofs of the containers, the delivery, the repair and the command
services, the database and the first-run setup. Every invariant that a run checks is a
theorem.

Left, in this order:

1. The action properties of the two remaining worlds proved: `StoreKept` and `AnswersKept`.
2. Each world shown to implement the effects that `ExecutionEngine` assumes (a step is
   absent, partial or complete, and its probe says so); today the two meet in `StepRun`
   and `Workflows` only.
3. Barriers across services in `OperationDesk`; `_pause_operation`, which is not fenced;
   rows that a resumption leaves without a lease.
4. MODEL_ACQUIRE's ranged download, BACKUP_CREATE, disk accounting, branches and summaries
   of conversations.
5. Thermals and idle policy, notifications, instance broker; release gate and catalog fit
   as operators checked against a reference.

## 6. Not modelled

Step outputs beyond those a decision reads, events and progress rows; wording, reason codes
and logging; SQLite itself (a transaction is atomic and durable); systemd, polkit, podman,
the network and the file system below a system call; the GUI's presentation but for the
chat page, the updates page and the setup window; the command line's parsing. Thermals,
idle policy, notifications, the release gate, the catalog and its guidance, the instance
broker and the editing of profiles are small decisions or single transactions without the
interleavings the rest is about; a calibration sees the thermal latch, the edited profile
and the evidence. What a modelled module leaves out is said at its head and in the notes
of `PROJECT.json`.
