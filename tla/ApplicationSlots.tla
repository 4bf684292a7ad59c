-------------------------- MODULE ApplicationSlots --------------------------
(***************************************************************************)
(* The two-slot application update (operations/application_update.py, its  *)
(* host adapter, the pointer publisher, the stager, the installation       *)
(* record and the replacement process): what the steps that                *)
(* ExecutionEngine leaves abstract do to the links current and previous,   *)
(* to the release directories, to the installation record and to the       *)
(* schema of the profile, when a worker dies between any two of their      *)
(* system calls.                                                           *)
(*                                                                         *)
(* Leases are in ExecutionEngine: here one worker at a time runs one       *)
(* update, and an operation in RECOVERY_REQUIRED keeps every other one     *)
(* out.  QUEUED, PREPARING and RUNNING are one state, and pausing, which   *)
(* touches nothing, is left out.                                           *)
(*                                                                         *)
(* The schema of the code is that of the published slot, as if every       *)
(* process were of it.  A window or worker of an older slot runs on with   *)
(* its own SCHEMA_VERSION (module ReleaseDelivery has that), but here it   *)
(* would only drive the steps: the profile is migrated by the replacement  *)
(* process, which is of the new slot, refuses a profile that is newer than *)
(* itself (initialize), and answers with a receipt or not at all; and a    *)
(* migrated profile goes back by a restore only (NeedsRestore).            *)
(***************************************************************************)
EXTENDS OperationModel, Integers, FiniteSets

CONSTANTS Releases,   \* release-set digests, which are also installation ids
          Ops,        \* APPLICATION_UPDATE operations
          None,
          Initial,    \* the release the installer left as current
          Source,     \* release -> the schema it updates from
          Target,     \* release -> the schema it runs on
          Readable,   \* release -> the schemas between its minimum and maximum
          MayOvertake,\* whether an update may start while the record step of another
                      \* is interrupted
          MaxFaults   \* bound: crashes and failures in a behaviour

ASSUME SlotsAssumption ==
    /\ Initial \in Releases
    /\ None \notin Releases \cup Ops
    /\ Source \in [Releases -> Nat]
    /\ Target \in [Releases -> Nat]
    /\ Readable \in [Releases -> SUBSET Nat]
    /\ MayOvertake \in BOOLEAN
    /\ MaxFaults \in Nat

VARIABLES
    link,     \* the symbolic links current and previous
    released, \* the directories under releases/ with a receipt
    stage,    \* per operation: its directory under staging
    rec,      \* application_installations.state
    truth,    \* the application_installation_state row
    schema,   \* the newest migration of the profile
    backup,   \* operations with a verified backup set
    intent,   \* per operation: the nonce in its update-intent receipt, 0 for none
    ack,      \* per operation: the nonce in its update-ack receipt, 0 for none
    child,    \* the replacement processes alive
    req,      \* per operation: its request
    state,    \* per operation: operations.state
    at, row,  \* per operation: its first unverified step, and the state of that
    undoing,  \* per operation: steps whose compensation began
    undone,   \* per operation: steps COMPENSATED
    worker,   \* the operation a worker is running
    pc, todo, \* where it is in it, and the steps it has yet to compensate
    ending,   \* how its compensation is to end
    faults    \* faults that have happened

world == <<link, released, stage, rec, truth, schema, backup>>
proc == <<intent, ack, child>>
op == <<state, at, row, undoing, undone>>
run == <<worker, pc, todo, ending>>
vars == <<world, proc, req, op, run, faults>>

StepNo == 1..7      \* verify_release_set .. record_installation
Critical == {4, 5, 7}
Undoable == {4, 5}  \* durable compensation: publish_pointers, post_update_ack

Pcs == {"idle", "loop", "probe", "reverify", "critical", "effect", "installing", "register",
        "switch", "spawn", "await", "checkpoint", "verify", "failed", "comp", "undo",
        "restore", "restored"}

Active == {"RUNNING", "COMMITTING", "VERIFYING", "CANCEL_REQUESTED", "ROLLING_BACK"}
Forward == Active \ {"ROLLING_BACK"}

NoReq == [mode |-> None, cand |-> Initial, ec |-> Initial, ep |-> None, gen |-> 0]
Endings == {"FAILED_ROLLED_BACK", "CANCELLED", "RECOVERY_REQUIRED"}

-----------------------------------------------------------------------------
(* What the steps look at.                                                 *)

\* classify_pointer_state
Classify(c, ec, ep) ==
    IF link.current = c /\ link.previous = ec THEN "COMPLETE"
    ELSE IF link.current = ec /\ link.previous = ec THEN "PREPARED"
    ELSE IF link.current = ec /\ link.previous = ep THEN "ABSENT"
    ELSE "UNCERTAIN"

Pointers(o) == Classify(req[o].cand, req[o].ec, req[o].ep)

\* ApplicationPointerPublisher.probe_restored
IsRestored(o) ==
    link.current = req[o].ec /\ link.previous \in {req[o].cand, req[o].ep}

\* _verified_ack: intent and acknowledgement carry the same nonce (whoever
\* wrote the acknowledgement saw the target schema).
AckVerified(o) == intent[o] # 0 /\ ack[o] = intent[o]

\* ApplicationPostUpdateProcessPort.health
Healthy(o) ==
    AckVerified(o) /\ schema = Target[req[o].cand] /\ link.current = req[o].cand

\* The state row says this operation's publication is committed.
Recorded(o) ==
    /\ truth.current = req[o].cand /\ truth.previous = req[o].ec
    /\ truth.generation = req[o].gen + 1
    /\ truth.pending = None

\* The state row is the one the request was confirmed against.
Expected(o) ==
    /\ truth.current = req[o].ec /\ truth.previous = req[o].ep
    /\ truth.generation = req[o].gen

\* The probe of step i, which its verification repeats.
Probe(o, i) ==
    CASE i = 1 -> IF truth.pending = o THEN "COMPLETE"
                  ELSE IF truth.pending = None THEN "ABSENT" ELSE "UNCERTAIN_MANUAL"
      [] i = 2 -> IF rec[req[o].cand] = "none" THEN "ABSENT"
                  ELSE IF \/ req[o].mode = "ROLLBACK"
                          \/ req[o].cand \in released
                          \/ stage[o] = "ready"
                  THEN "COMPLETE" ELSE "UNCERTAIN_MANUAL"
      [] i = 3 -> IF o \in backup THEN "COMPLETE" ELSE "ABSENT"
      [] i = 4 -> (CASE Pointers(o) = "COMPLETE" -> "COMPLETE"
                     [] Pointers(o) = "ABSENT" -> "ABSENT"
                     [] Pointers(o) = "PREPARED" -> "PARTIALLY_RESUMABLE"
                     [] Pointers(o) = "UNCERTAIN" -> "UNCERTAIN_MANUAL")
      [] i = 5 -> IF AckVerified(o) THEN "COMPLETE"
                  ELSE IF ack[o] # 0 THEN "UNCERTAIN_MANUAL" ELSE "ABSENT"
      [] i = 6 -> IF Healthy(o) THEN "COMPLETE" ELSE "UNCERTAIN_MANUAL"
      [] i = 7 -> IF Recorded(o) /\ rec[req[o].cand] = "CURRENT" THEN "COMPLETE" ELSE "ABSENT"

\* Variant of Durable: an interrupted or failed step is not compensated.
DurableVerified(o) == {i \in Undoable \ undone[o] : i < at[o]}

\* _durable_compensation_set: the published steps not yet compensated.
Durable(o) ==
    {i \in Undoable \ undone[o] : i < at[o] \/ (i = at[o] /\ row[o] # "PENDING")}

-----------------------------------------------------------------------------
(* How actions change the state.                                           *)

U == worker
At(p) == pc = p /\ worker # None
Doing(i) == At("effect") /\ at[U] = i
Goto(p) == pc' = p /\ UNCHANGED <<worker, todo, ending>>
Leave == worker' = None /\ pc' = "idle" /\ todo' = {} /\ ending' = "FAILED_ROLLED_BACK"
SetState(o, target) ==
    state' = [state EXCEPT ![o] = target] /\ UNCHANGED <<at, row, undoing, undone>>
SetRow(target) ==
    row' = [row EXCEPT ![U] = target] /\ UNCHANGED <<state, at, undoing, undone>>
Fault == faults < MaxFaults /\ faults' = faults + 1

\* A terminal transaction; one the table refuses raises, and the run is over
\* with the operation as it was.
End(target) ==
    /\ SetState(U, IF CanTransition(state[U], target) THEN target ELSE state[U])
    /\ Leave

-----------------------------------------------------------------------------
(* Requests: ApplicationUpdateCommandService.                              *)

Enqueued(o, mode, cand) ==
    /\ state[o] = "QUEUED"
    /\ req' = [req EXCEPT ![o] = [mode |-> mode, cand |-> cand, ec |-> truth.current,
                                  ep |-> truth.previous, gen |-> truth.generation]]
    /\ SetState(o, "RUNNING")
    /\ UNCHANGED <<world, proc, run, faults>>

\* preview offers any verified release for the running application's schema,
\* the installed ones included.
Apply(o, r) ==
    /\ Source[r] = Target[link.current] /\ Source[r] <= Target[r]
    /\ Source[r] \in Readable[r]
    /\ Enqueued(o, "APPLY", r)

Rollback(o) ==
    /\ truth.previous # None
    /\ Target[link.current] \in Readable[truth.previous]
    /\ Enqueued(o, "ROLLBACK", truth.previous)

\* OperationRepository.request_cancel
RequestCancel(o) ==
    /\ state[o] \in {"RUNNING", "VERIFYING"}
    /\ SetState(o, "CANCEL_REQUESTED")
    /\ UNCHANGED <<world, proc, req, run, faults>>

-----------------------------------------------------------------------------
(* The engine, as far as it decides which effect runs.                     *)

\* The record may be committed, and no row says so yet.
RecordInDoubt(o) ==
    state[o] = "COMMITTING" /\ at[o] = 7 /\ row[o] # "PENDING"

\* A worker takes up an operation, or takes it over.
Claim(o) ==
    /\ worker = None
    /\ state[o] \in Active
    /\ \A p \in Ops : state[p] # "RECOVERY_REQUIRED"
    /\ MayOvertake \/ \A p \in Ops \ {o} : ~ RecordInDoubt(p)
    /\ worker' = o
    /\ pc' = IF state[o] = "ROLLING_BACK" THEN "comp" ELSE "loop"
    /\ todo' = IF state[o] = "ROLLING_BACK" THEN Durable(o) ELSE {}
    /\ UNCHANGED ending
    /\ UNCHANGED <<world, proc, req, op, faults>>

Crash ==
    /\ worker # None
    /\ Fault
    /\ Leave
    /\ UNCHANGED <<world, proc, req, op>>

Complete ==
    /\ At("loop") /\ at[U] = 8
    /\ SetState(U, IF state[U] = "CANCEL_REQUESTED" THEN state[U] ELSE "SUCCEEDED")
    /\ Leave
    /\ UNCHANGED <<world, proc, req, faults>>

\* _honor_cancellation
Honor ==
    \/ /\ Durable(U) = {}
       /\ End("CANCELLED")
    \/ /\ Durable(U) # {}
       /\ pc' = "comp" /\ todo' = Durable(U) /\ ending' = "CANCELLED"
       /\ UNCHANGED worker
       /\ UNCHANGED op

\* The first unverified step is not a critical one in progress; a step being
\* compensated is unverified and no longer in progress.
CancelDue ==
    /\ state[U] = "CANCEL_REQUESTED"
    /\ undoing[U] # {} \/ ~ (at[U] \in Critical /\ row[U] = "RUNNING")

LoopCancel ==
    /\ At("loop") /\ at[U] \in StepNo /\ CancelDue
    /\ Honor
    /\ UNCHANGED <<world, proc, req, faults>>

Execute == IF at[U] \in Critical THEN "critical" ELSE "effect"

LoopStep ==
    /\ At("loop") /\ at[U] \in StepNo /\ ~ CancelDue
    /\ \/ /\ row[U] = "PENDING"
          /\ SetRow("RUNNING")
          /\ Goto(Execute)
       \/ row[U] = "RUNNING" /\ Goto("probe") /\ UNCHANGED op
       \/ row[U] = "CHECKPOINTED" /\ Goto("reverify") /\ UNCHANGED op
    /\ UNCHANGED <<world, proc, req, faults>>

\* An interrupted step: its probe decides.
Recover ==
    LET action == DecideRecovery(Probe(U, at[U]), FALSE) IN
    /\ At("probe")
    /\ \/ /\ action = "VERIFY"
          /\ SetRow("CHECKPOINTED")
          /\ Goto("reverify")
       \/ action \in {"EXECUTE", "RESUME"} /\ Goto(Execute) /\ UNCHANGED op
       \/ action = "REQUIRE_RECOVERY" /\ End("RECOVERY_REQUIRED")
    /\ UNCHANGED <<world, proc, req, faults>>

\* The step is VERIFIED.
NextStep(target) ==
    /\ at' = [at EXCEPT ![U] = @ + 1]
    /\ row' = [row EXCEPT ![U] = "PENDING"]
    /\ state' = [state EXCEPT ![U] = target]
    /\ UNCHANGED <<undoing, undone>>

\* Verification of a step this run did not execute: nothing catches a refusal.
Reverify ==
    /\ At("reverify")
    /\ IF Probe(U, at[U]) = "COMPLETE"
       THEN NextStep(state[U]) /\ Goto("loop")
       ELSE Leave /\ UNCHANGED op
    /\ UNCHANGED <<world, proc, req, faults>>

EnterCritical ==
    /\ At("critical")
    /\ IF state[U] = "CANCEL_REQUESTED" THEN Honor
       ELSE SetState(U, "COMMITTING") /\ Goto("effect")
    /\ UNCHANGED <<world, proc, req, faults>>

Checkpoint ==
    /\ At("checkpoint")
    /\ SetRow("CHECKPOINTED")
    /\ Goto("verify")
    /\ UNCHANGED <<world, proc, req, faults>>

Verify ==
    /\ At("verify")
    /\ IF Probe(U, at[U]) = "COMPLETE"
       THEN /\ NextStep(IF at[U] \in Critical THEN "VERIFYING" ELSE state[U])
            /\ Goto("loop")
       ELSE Goto("failed") /\ UNCHANGED op
    /\ UNCHANGED <<world, proc, req, faults>>

\* execute() raises for a reason outside this model.
EffectFails ==
    /\ pc \in {"effect", "installing", "register", "switch", "spawn"}
    /\ Fault
    /\ Goto("failed")
    /\ UNCHANGED <<world, proc, req, op>>

\* _handle_failure; a probe that raises counts as uncertain.
Failed ==
    /\ At("failed")
    /\ \E class \in {Probe(U, at[U]), "UNCERTAIN_MANUAL"} :
         IF at[U] > 4 \/ (at[U] \in {2, 4} /\ class # "ABSENT")
         THEN /\ SetState(U, "ROLLING_BACK")
              /\ pc' = "comp" /\ todo' = Durable(U)
              /\ UNCHANGED <<worker, ending>>
         ELSE End("FAILED_SAFE")
    /\ UNCHANGED <<world, proc, req, faults>>

-----------------------------------------------------------------------------
(* Steps 1 to 3: reserve, stage, back up.                                  *)

Reservable(o) == Expected(o) /\ truth.pending \in {None, o}

\* verify_release: PREVIEW_STALE, UPDATE_BUSY, or the reservation.
VerifyRelease ==
    /\ Doing(1)
    /\ IF Reservable(U)
       THEN truth' = [truth EXCEPT !.pending = U] /\ Goto("checkpoint")
       ELSE UNCHANGED truth /\ Goto("failed")
    /\ UNCHANGED <<link, released, stage, rec, schema, backup, proc, req, op, faults>>

\* stage: a complete stage is used again, one that is not is refused.
StageCandidate ==
    /\ Doing(2)
    /\ \/ /\ req[U].mode = "ROLLBACK"
          /\ Goto(IF rec[req[U].cand] = "none" THEN "failed" ELSE "checkpoint")
          /\ UNCHANGED stage
       \/ /\ req[U].mode = "APPLY"
          /\ stage' = [stage EXCEPT ![U] = IF @ = "none" THEN "partial" ELSE @]
          /\ Goto(CASE stage[U] = "none" -> "installing"
                    [] stage[U] = "ready" -> "register"
                    [] stage[U] = "partial" -> "failed")
    /\ UNCHANGED <<link, released, rec, truth, schema, backup, proc, req, op, faults>>

InstallStage ==
    /\ At("installing")
    /\ stage' = [stage EXCEPT ![U] = "ready"]
    /\ Goto("register")
    /\ UNCHANGED <<link, released, rec, truth, schema, backup, proc, req, op, faults>>

\* insert_staged and mark_smoke, in one transaction.
RegisterStage ==
    /\ At("register")
    /\ rec' = [rec EXCEPT ![req[U].cand] = IF @ = "none" THEN "STAGED" ELSE @]
    /\ Goto("checkpoint")
    /\ UNCHANGED <<link, released, stage, truth, schema, backup, proc, req, op, faults>>

EnsureBackup ==
    /\ Doing(3)
    /\ backup' = backup \cup {U}
    /\ Goto("checkpoint")
    /\ UNCHANGED <<link, released, stage, rec, truth, schema, proc, req, op, faults>>

-----------------------------------------------------------------------------
(* Step 4: promote_stage, then the two replacements of publish_pointer_set *)

\* Variant of PromoteStage: the stage is moved after the pointers.
PromoteStageLater ==
    /\ Doing(4)
    /\ Goto("switch")
    /\ UNCHANGED <<world, proc, req, op, faults>>

PromoteStage ==
    /\ Doing(4)
    /\ \/ /\ req[U].cand \in released
          /\ Goto("switch")
          /\ UNCHANGED <<released, stage>>
       \/ /\ req[U].cand \notin released /\ stage[U] = "ready"
          /\ released' = released \cup {req[U].cand}
          /\ stage' = [stage EXCEPT ![U] = "none"]
          /\ Goto("switch")
       \/ /\ req[U].cand \notin released /\ stage[U] # "ready"
          /\ Goto("failed")
          /\ UNCHANGED <<released, stage>>
    /\ UNCHANGED <<link, rec, truth, schema, backup, proc, req, op, faults>>

\* Variant of SwitchPrevious: current is replaced first.
SwitchCurrentFirst ==
    /\ At("switch") /\ Pointers(U) = "ABSENT"
    /\ link' = [link EXCEPT !.current = req[U].cand]
    /\ UNCHANGED <<released, stage, rec, truth, schema, backup, proc, req, op, run, faults>>

SwitchPrevious ==
    /\ At("switch") /\ Pointers(U) = "ABSENT"
    /\ link' = [link EXCEPT !.previous = req[U].ec]
    /\ UNCHANGED <<released, stage, rec, truth, schema, backup, proc, req, op, run, faults>>

SwitchCurrent ==
    /\ At("switch") /\ Pointers(U) = "PREPARED"
    /\ link' = [link EXCEPT !.current = req[U].cand]
    /\ UNCHANGED <<released, stage, rec, truth, schema, backup, proc, req, op, run, faults>>

SwitchDone ==
    /\ At("switch") /\ Pointers(U) \in {"COMPLETE", "UNCERTAIN"}
    /\ Goto(IF Pointers(U) = "COMPLETE" THEN "checkpoint" ELSE "failed")
    /\ UNCHANGED <<world, proc, req, op, faults>>

-----------------------------------------------------------------------------
(* Step 5: the replacement process, which outlives a worker that dies.     *)

\* A new nonce for every launch.
LaunchIntent ==
    /\ Doing(5)
    /\ \/ AckVerified(U) /\ Goto("checkpoint") /\ UNCHANGED intent
       \/ /\ ~ AckVerified(U)
          /\ intent' = [intent EXCEPT ![U] = @ + 1]
          /\ Goto("spawn")
    /\ UNCHANGED <<world, ack, child, req, op, faults>>

LaunchSpawn ==
    /\ At("spawn")
    /\ child' = child \cup {[op |-> U, nonce |-> intent[U], pc |-> "new"]}
    /\ Goto("await")
    /\ UNCHANGED <<world, intent, ack, req, op, faults>>

Awaited == {c \in child : c.op = U /\ c.nonce = intent[U]}

\* Variant of LaunchReturns: only an acknowledgement ends the wait.
LaunchReturnsAcknowledged ==
    /\ At("await") /\ Awaited = {} /\ AckVerified(U)
    /\ Goto("checkpoint")
    /\ UNCHANGED <<world, proc, req, op, faults>>

LaunchReturns ==
    /\ At("await") /\ Awaited = {}
    /\ Goto(IF AckVerified(U) THEN "checkpoint" ELSE "failed")
    /\ UNCHANGED <<world, proc, req, op, faults>>

\* PROCESS_TIMEOUT: the process group is killed.
LaunchTimesOut ==
    /\ At("await") /\ Awaited # {}
    /\ Fault
    /\ child' = child \ Awaited
    /\ Goto("failed")
    /\ UNCHANGED <<world, intent, ack, req, op>>

\* run_post_update_mode: it finds itself in the current slot ...
ChildChecks(c) ==
    /\ c.pc = "new"
    /\ child' = (child \ {c}) \cup
                IF link.current = req[c.op].cand THEN {[c EXCEPT !.pc = "checked"]} ELSE {}
    /\ UNCHANGED <<world, intent, ack, req, op, run, faults>>

\* Variant of ChildMigrates: a newer profile is not refused.
ChildMigratesAny(c) ==
    /\ c.pc = "checked"
    /\ schema' = Target[req[c.op].cand]
    /\ child' = (child \ {c}) \cup {[c EXCEPT !.pc = "migrated"]}
    /\ UNCHANGED <<link, released, stage, rec, truth, backup, intent, ack, req, op, run, faults>>

\* ... composes, which migrates the profile, unless that is newer ...
ChildMigrates(c) ==
    /\ c.pc = "checked"
    /\ IF schema <= Target[req[c.op].cand]
       THEN /\ schema' = Target[req[c.op].cand]
            /\ child' = (child \ {c}) \cup {[c EXCEPT !.pc = "migrated"]}
       ELSE child' = child \ {c} /\ UNCHANGED schema
    /\ UNCHANGED <<link, released, stage, rec, truth, backup, intent, ack, req, op, run, faults>>

\* ... and acknowledges, in the operation's receipt, with its nonce.
ChildAcknowledges(c) ==
    /\ c.pc = "migrated"
    /\ ack' = [ack EXCEPT ![c.op] = IF schema = Target[req[c.op].cand] THEN c.nonce ELSE @]
    /\ child' = child \ {c}
    /\ UNCHANGED <<world, intent, req, op, run, faults>>

ChildDies(c) ==
    /\ Fault
    /\ child' = child \ {c}
    /\ UNCHANGED <<world, intent, ack, req, op, run>>

-----------------------------------------------------------------------------
(* Steps 6 and 7: health, and the installation record.                     *)

VerifyHealth ==
    /\ Doing(6)
    /\ Goto(IF Healthy(U) THEN "checkpoint" ELSE "failed")
    /\ UNCHANGED <<world, proc, req, op, faults>>

\* What the transaction's compare-and-set updates all demand.
Committable(o) ==
    /\ rec[req[o].cand] = (IF req[o].mode = "ROLLBACK" THEN "PREVIOUS" ELSE "STAGED")
    /\ rec[req[o].ec] = "CURRENT"
    /\ Expected(o) /\ truth.pending = o

\* Variant of CommittedRows: the release of two updates ago stays PREVIOUS.
CommittedRowsKept(o) ==
    [r \in Releases |-> IF r = req[o].cand THEN "CURRENT"
                        ELSE IF r = req[o].ec THEN "PREVIOUS" ELSE rec[r]]

CommittedRows(o) ==
    [r \in Releases |-> IF r = req[o].cand THEN "CURRENT"
                        ELSE IF r = req[o].ec THEN "PREVIOUS"
                        ELSE IF r = req[o].ep /\ rec[r] = "PREVIOUS" THEN "QUARANTINED"
                        ELSE rec[r]]

RecordInstallation ==
    /\ Doing(7)
    /\ IF ~ Recorded(U) /\ Committable(U)
       THEN /\ rec' = CommittedRows(U)
            /\ truth' = [current |-> req[U].cand, previous |-> req[U].ec,
                         generation |-> truth.generation + 1, pending |-> None]
       ELSE UNCHANGED <<rec, truth>>
    /\ Goto(IF Recorded(U) \/ Committable(U) THEN "checkpoint" ELSE "failed")
    /\ UNCHANGED <<link, released, stage, schema, backup, proc, req, op, faults>>

-----------------------------------------------------------------------------
(* Compensation: the profile, then the pointers.                           *)

Last == IF 5 \in todo THEN 5 ELSE 4
Skip(next) == pc' = "comp" /\ todo' = todo \ {Last} /\ ending' = next /\ UNCHANGED worker
Compensated ==
    undone' = [undone EXCEPT ![U] = @ \cup {Last}] /\ UNCHANGED <<state, at, row, undoing>>

\* The profile changed schema, so undoing step 5 means restoring the backup.
NeedsRestore(o) == Source[req[o].cand] # Target[req[o].cand]

CompensationDone ==
    /\ At("comp") /\ todo = {}
    /\ End(ending)
    /\ UNCHANGED <<world, proc, req, faults>>

BeginCompensation ==
    /\ At("comp") /\ todo # {} /\ Last \notin undoing[U]
    /\ undoing' = [undoing EXCEPT ![U] = @ \cup {Last}]
    /\ UNCHANGED <<state, at, row, undone>>
    /\ Goto("undo")
    /\ UNCHANGED <<world, proc, req, faults>>

\* An interrupted compensation: probe_profile_restored, which finds no
\* receipt, or probe_pointer_restored.
ResumeCompensation ==
    /\ At("comp") /\ todo # {} /\ Last \in undoing[U]
    /\ \/ Last = 5 /\ NeedsRestore(U) /\ Goto("undo") /\ UNCHANGED op
       \/ /\ IF Last = 5 THEN ~ NeedsRestore(U) ELSE IsRestored(U)
          /\ Compensated /\ Skip(ending)
       \/ Last = 4 /\ ~ IsRestored(U) /\ End("RECOVERY_REQUIRED")
    /\ UNCHANGED <<world, proc, req, faults>>

\* Variant of RestoreProfile: it is not needed.
RestoreProfileNever ==
    /\ At("undo") /\ Last = 5
    /\ Compensated /\ Skip(ending)
    /\ UNCHANGED <<world, proc, req, faults>>

\* restore_profile.  BACKUP_RESTORE needs profile-publication, which this
\* operation holds: the restore is refused as busy.
RestoreProfile ==
    /\ At("undo") /\ Last = 5
    /\ IF NeedsRestore(U) THEN Skip("RECOVERY_REQUIRED") /\ UNCHANGED op
       ELSE Compensated /\ Skip(ending)
    /\ UNCHANGED <<world, proc, req, faults>>

\* restore: publish_pointer_set with the slots exchanged.
RestorePrevious ==
    /\ At("undo") /\ Last = 4 /\ Pointers(U) = "COMPLETE"
    /\ link' = [link EXCEPT !.previous = req[U].cand]
    /\ Goto("restore")
    /\ UNCHANGED <<released, stage, rec, truth, schema, backup, proc, req, op, faults>>

RestoreCurrent ==
    /\ At("restore")
    /\ link' = [link EXCEPT !.current = req[U].ec]
    /\ Goto("restored")
    /\ UNCHANGED <<released, stage, rec, truth, schema, backup, proc, req, op, faults>>

RestoreUnchanged ==
    /\ At("undo") /\ Last = 4 /\ Pointers(U) # "COMPLETE"
    /\ IF Pointers(U) = "ABSENT" THEN Goto("restored") ELSE Skip("RECOVERY_REQUIRED")
    /\ UNCHANGED <<world, proc, req, op, faults>>

RestoreVerified ==
    /\ At("restored")
    /\ IF IsRestored(U) THEN Compensated /\ Skip(ending) ELSE Skip("RECOVERY_REQUIRED") /\ UNCHANGED op
    /\ UNCHANGED <<world, proc, req, faults>>

UndoFails ==
    /\ pc \in {"undo", "restore"}
    /\ Fault
    /\ Skip("RECOVERY_REQUIRED")
    /\ UNCHANGED <<world, proc, req, op>>

-----------------------------------------------------------------------------
\* The installer's slot, alone or after an earlier release.
Init ==
    \E p \in {r \in Releases \ {Initial} : Target[r] <= Target[Initial]} \cup {None} :
        /\ link = [current |-> Initial, previous |-> p]
        /\ released = {Initial, p} \ {None}
        /\ stage = [o \in Ops |-> "none"]
        /\ rec = [r \in Releases |-> IF r = Initial THEN "CURRENT"
                                     ELSE IF r = p THEN "PREVIOUS" ELSE "none"]
        /\ truth = [current |-> Initial, previous |-> p, generation |-> 0, pending |-> None]
        /\ schema = Target[Initial]
        /\ backup = {}
        /\ intent = [o \in Ops |-> 0]
        /\ ack = [o \in Ops |-> 0]
        /\ child = {}
        /\ req = [o \in Ops |-> NoReq]
        /\ state = [o \in Ops |-> "QUEUED"]
        /\ at = [o \in Ops |-> 1]
        /\ row = [o \in Ops |-> "PENDING"]
        /\ undoing = [o \in Ops |-> {}]
        /\ undone = [o \in Ops |-> {}]
        /\ worker = None /\ pc = "idle" /\ todo = {} /\ ending = "FAILED_ROLLED_BACK"
        /\ faults = 0

Engine ==
    \/ Complete \/ LoopCancel \/ LoopStep \/ Recover \/ Reverify \/ EnterCritical
    \/ Checkpoint \/ Verify \/ Failed \/ CompensationDone \/ BeginCompensation
    \/ ResumeCompensation

Effects ==
    \/ VerifyRelease \/ StageCandidate \/ InstallStage \/ RegisterStage \/ EnsureBackup
    \/ PromoteStage \/ SwitchPrevious \/ SwitchCurrent \/ SwitchDone
    \/ LaunchIntent \/ LaunchSpawn \/ LaunchReturns \/ VerifyHealth \/ RecordInstallation
    \/ RestoreProfile \/ RestorePrevious \/ RestoreCurrent \/ RestoreUnchanged \/ RestoreVerified

Child(c) == ChildChecks(c) \/ ChildMigrates(c) \/ ChildAcknowledges(c)

Next ==
    \/ \E o \in Ops : (\E r \in Releases : Apply(o, r)) \/ Rollback(o)
                      \/ RequestCancel(o) \/ Claim(o)
    \/ Engine \/ Effects
    \/ Crash \/ EffectFails \/ UndoFails \/ LaunchTimesOut
    \/ \E c \in child : Child(c) \/ ChildDies(c)

\* Workers keep working, every interrupted operation is taken over again, and
\* replacement processes run.
Fairness ==
    /\ WF_vars(Engine \/ Effects)
    /\ \A o \in Ops : SF_vars(Claim(o))
    /\ WF_vars(\E c \in child : Child(c))

Spec == Init /\ [][Next]_vars
FairSpec == Spec /\ Fairness

-----------------------------------------------------------------------------
(* Properties.                                                             *)

Requests ==
    [mode : {"APPLY", "ROLLBACK", None}, cand : Releases, ec : Releases,
     ep : Releases \cup {None}, gen : Nat]
Processes == [op : Ops, nonce : Nat, pc : {"new", "checked", "migrated"}]

TypeOK ==
    /\ link \in [current : Releases, previous : Releases \cup {None}]
    /\ released \in SUBSET Releases
    /\ stage \in [Ops -> {"none", "partial", "ready"}]
    /\ rec \in [Releases -> {"none", "STAGED", "CURRENT", "PREVIOUS", "QUARANTINED"}]
    /\ truth \in [current : Releases, previous : Releases \cup {None}, generation : Nat,
                  pending : Ops \cup {None}]
    /\ schema \in Nat
    /\ backup \in SUBSET Ops
    /\ intent \in [Ops -> Nat]
    /\ ack \in [Ops -> Nat]
    /\ child \in SUBSET Processes
    /\ req \in [Ops -> Requests]
    /\ state \in [Ops -> OperationState]
    /\ at \in [Ops -> 1..8]
    /\ row \in [Ops -> {"PENDING", "RUNNING", "CHECKPOINTED"}]
    /\ undoing \in [Ops -> SUBSET Undoable]
    /\ undone \in [Ops -> SUBSET Undoable]
    /\ worker \in Ops \cup {None}
    /\ pc \in Pcs
    /\ todo \in SUBSET Undoable
    /\ ending \in Endings
    /\ faults \in Nat

\* Whenever the machine stops, the links name release directories that are
\* complete: the launcher always finds an application behind current.
LinksResolve == link.current \in released /\ link.previous \in released \cup {None}

\* Until it rolls back, the update that holds the reservation can tell from
\* the links how far its publication got, whoever ran in between: untouched
\* before step 4, prepared or published in it, published after it.  So a
\* takeover never has to give up on the pointers, and the slot that worked is
\* one of the two links.
PointersFollowSteps ==
    \A o \in Ops :
        truth.pending = o /\ state[o] \in Forward /\ 4 \notin undoing[o] =>
            /\ at[o] < 4 => Pointers(o) = "ABSENT"
            /\ at[o] = 4 => Pointers(o) # "UNCERTAIN"
            /\ at[o] > 4 => Pointers(o) = "COMPLETE"

\* An update that ended safe, rolled back or cancelled has given the machine
\* back to the release it found there.
EndedOnPrior ==
    \A o \in Ops :
        truth.pending = o /\ state[o] \in {"FAILED_SAFE", "FAILED_ROLLED_BACK", "CANCELLED"}
            => link.current = req[o].ec

\* With no update reserved, the installation record describes the links, and
\* exactly the current release is CURRENT and the previous one PREVIOUS.
RecordDescribesLinks ==
    truth.pending = None =>
        /\ link = [current |-> truth.current, previous |-> truth.previous]
        /\ \A r \in Releases : /\ rec[r] = "CURRENT" <=> r = truth.current
                               /\ rec[r] = "PREVIOUS" <=> r = truth.previous

\* When no update is in progress or in doubt, the application in the current
\* slot finds the profile in its own schema: a migration is never left behind
\* by a rolled-back update, nor by a replacement process that outlived one.
ProfileFitsSlot ==
    (\A o \in Ops : state[o] \notin Active \cup {"RECOVERY_REQUIRED"})
        => schema = Target[link.current]

\* An update is recorded only while its candidate is the running slot and the
\* profile has the candidate's schema, however long ago its health was checked.
RecordedWhenHealthy ==
    [][truth'.current # truth.current \/ truth'.generation # truth.generation
         => link.current = truth'.current /\ schema = Target[truth'.current]]_vars

\* Every update nobody cancels ends, unless another is in RECOVERY_REQUIRED or
\* its acknowledgement was overwritten by an orphaned replacement process.
UpdatesEnd ==
    \A o \in Ops :
        state[o] = "RUNNING" ~>
            \/ state[o] \in Terminal \cup {"CANCEL_REQUESTED"}
            \/ \E p \in Ops : state[p] = "RECOVERY_REQUIRED"
            \/ ack[o] \notin {0, intent[o]}

\* An update whose record is committed is not rolled back: a takeover
\* recognizes the completed effect.
RecordedNeverUndone ==
    [][\A o \in Ops :
         state[o] # "ROLLING_BACK" /\ state'[o] = "ROLLING_BACK" =>
             ~ (/\ truth.current = req[o].cand /\ truth.previous = req[o].ec
                /\ truth.generation = req[o].gen + 1)]_vars

=============================================================================
