--------------------------- MODULE ProfileRestore ---------------------------
(***************************************************************************)
(* BACKUP_RESTORE (backup_adapter.py, restore_profile.py,                  *)
(* profile_access.py): the profile directory is exchanged with a staged    *)
(* candidate while the operation runs, and the database that records the   *)
(* operation is inside it.  The receipt and the lock are files beside the  *)
(* profile.  Other processes write to the profile whenever lock and        *)
(* receipt let them.                                                       *)
(*                                                                         *)
(* Left out: what archives, manifests and digests contain; the tables of   *)
(* the backup that replace current ones.                                   *)
(***************************************************************************)
EXTENDS Naturals, Sequences, FiniteSets

CONSTANTS None, MaxFaults

INSTANCE StepRun
W == INSTANCE Workflows

Profiles == {"prior", "candidate"}

VARIABLES
    run,       \* the run of the operation, as the engine's process has it
    rows,      \* profile -> the operation's rows in its database, or None
    active,    \* the profile in the place of the active one
    receipt,   \* the phase of the restore receipt: "none", "intent", "published",
               \* "verified", "promoted", "rollback_intent", "rolled_back"
    sealed,    \* what vouches for the candidate's database: "no", "marker", "receipt"
    sound,     \* whether the candidate passes the checks after publication
    output,    \* what promote_or_rollback reported: "none", "published", "rolled_back"
    attempt,   \* whether restore_attempts has the row of this operation
    work,      \* where the adapter is inside publish_exchange or verify_post_restore
    dirty,     \* what another process wrote since it was last copied: "no", "files", "all"
    faults

restoreVars == <<run, rows, active, receipt, sealed, sound, output, attempt, work, dirty, faults>>

Wf == W!BackupRestore
Names == <<"validate", "stage", "validate_staged", "publish", "verify_post", "promote">>
At == Names[run.at]
Executing(name) == run.pc = "effect" /\ At = name /\ run.end = "none"

Recorded(r) == [at |-> r.at, row |-> r.row, end |-> r.end]
Read(r, recorded) == [r EXCEPT !.at = recorded.at, !.row = recorded.row, !.end = recorded.end]
Settled == receipt \in {"none", "promoted", "rolled_back"}

-----------------------------------------------------------------------------

\* probe_restore_published: the receipt against the identities of the directories.
PublishProbe ==
    CASE receipt = "none" -> "ABSENT"
      [] receipt \in {"rollback_intent", "rolled_back"} /\ active = "prior" -> "COMPLETE"
      [] receipt # "none" /\ active = "candidate" -> "COMPLETE"
      [] receipt = "intent" /\ active = "prior" -> "ABSENT"
      [] OTHER -> "UNCERTAIN_MANUAL"

Intact == active = "prior" \/ sound

\* Probes and verifications of the other steps.
Probe ==
    CASE At = "validate" -> {"COMPLETE"}
      [] At \in {"stage", "validate_staged"} -> {IF sealed = "marker" THEN "COMPLETE" ELSE "ABSENT"}
      [] At = "publish" -> {PublishProbe}
      [] At = "verify_post" ->
             {IF receipt \in {"verified", "promoted", "rolled_back"} /\ Intact
              THEN "COMPLETE" ELSE "ABSENT"}
      [] At = "promote" -> {IF receipt \in {"promoted", "rolled_back"} THEN "COMPLETE" ELSE "ABSENT"}

Holds == run.at <= Len(Wf.steps) => Probe = {"COMPLETE"}

\* A transaction of the engine on the database of whatever profile is active: if
\* the rows are not those it knows, the compare-and-set raises.
Transact(r) ==
    IF rows[active] = Recorded(run)
    THEN run' = r /\ rows' = [rows EXCEPT ![active] = Recorded(r)]
    ELSE run' = Read(Crashed(run), rows[active]) /\ UNCHANGED rows

\* All steps verified: the terminal is the one the output of the last step names;
\* a step recovered by its probe has no output, which stands for published.
Outcome(r) ==
    IF r.end = "SUCCEEDED" /\ output = "rolled_back" THEN [r EXCEPT !.end = "FAILED_SAFE"] ELSE r

Engine ==
    /\ \E r \in Turns(run, Wf, Holds, Probe, "ABSENT") :
         /\ Transact(Outcome(r))
         /\ work' = "none"
    /\ UNCHANGED <<active, receipt, sealed, sound, output, attempt, dirty, faults>>

Refused == \E r \in {Failed(run, Wf, class) : class \in Probe} : Transact(r)

\* The process dies, a refused exchange, a full disk, a damaged archive.
Misfortune ==
    /\ faults < MaxFaults /\ faults' = faults + 1
    /\ \E r \in Mishaps(run, Wf, IF run.at <= Len(Wf.steps) THEN Probe ELSE {}) :
         IF r = Crashed(run) THEN run' = Read(r, rows[active]) /\ UNCHANGED rows
         ELSE Transact(r)
    /\ work' = "none"
    /\ UNCHANGED <<active, receipt, sealed, sound, output, attempt, dirty>>

Cancel ==
    /\ Cancellable(run, Wf) /\ faults < MaxFaults /\ faults' = faults + 1
    /\ Transact(Cancelled(run, Wf))
    /\ UNCHANGED <<active, receipt, sealed, sound, output, attempt, work, dirty>>

-----------------------------------------------------------------------------

\* While execute_one runs a restore it has the profile lock exclusively.
Excluded == run.pc # "down"

\* Another process writes: profile_access, then require_writable_profile.
Write ==
    /\ ~ Excluded /\ Settled
    /\ dirty' = "all"
    /\ UNCHANGED <<run, rows, active, receipt, sealed, sound, output, attempt, work, faults>>

Validate ==
    /\ Executing("validate") \/ Executing("validate_staged")
    /\ IF Probe = {"COMPLETE"} THEN Transact(Applied(run)) ELSE Refused
    /\ UNCHANGED <<active, receipt, sealed, sound, output, attempt, work, dirty, faults>>

\* stage_candidate removes what an earlier attempt left, extracts, migrates, copies
\* the local files and the current tables; the marker comes last.
StageFiles ==
    /\ Executing("stage") /\ work = "none"
    /\ sealed' = "no" /\ sound' \in BOOLEAN /\ dirty' = "no" /\ work' = "staged"
    /\ rows' = [rows EXCEPT !["candidate"] = rows[active]]
    /\ UNCHANGED <<run, active, receipt, output, attempt, faults>>

StageMarker ==
    /\ Executing("stage") /\ work = "staged"
    /\ sealed' = "marker" /\ work' = "none"
    /\ run' = Landed(run)
    /\ UNCHANGED <<rows, active, receipt, sound, output, attempt, dirty, faults>>

-----------------------------------------------------------------------------
(* publish_exchange                                                        *)

\* A receipt of this operation is looked at first: published already, or uncertain.
PublishAgain ==
    /\ Executing("publish") /\ work = "none" /\ receipt # "none"
    /\ CASE PublishProbe = "COMPLETE" -> Transact(Applied(run))
         [] PublishProbe = "UNCERTAIN_MANUAL" -> Refused
         [] PublishProbe = "ABSENT" -> sealed # "receipt" /\ Refused
    /\ UNCHANGED <<active, receipt, sealed, sound, output, attempt, work, dirty, faults>>

PublishUnvouched ==
    /\ Executing("publish") /\ work = "none" /\ receipt = "none" /\ sealed # "marker"
    /\ Refused
    /\ UNCHANGED <<active, receipt, sealed, sound, output, attempt, work, dirty, faults>>

\* preserve_current_database copies the rows as they are into the candidate; the
\* local files stay as stage_candidate found them.
Preserve == [rows EXCEPT !["candidate"] = rows[active]]

PublishPreserve ==
    /\ Executing("publish") /\ work = "none"
    /\ \/ receipt = "none" /\ sealed = "marker"
       \/ receipt = "intent" /\ sealed = "receipt" /\ PublishProbe = "ABSENT"
    /\ rows' = Preserve
    /\ sealed' = "no" /\ work' = "preserved"
    /\ dirty' = IF dirty = "all" THEN "files" ELSE dirty
    /\ UNCHANGED <<run, active, receipt, sound, output, attempt, faults>>

\* Variant of PublishIntent: the receipt claims the exchange before it happened.
PublishIntentEarly ==
    /\ Executing("publish") /\ work = "preserved"
    /\ receipt' = "published" /\ sealed' = "receipt" /\ work' = "intended"
    /\ UNCHANGED <<run, rows, active, sound, output, attempt, dirty, faults>>

PublishIntent ==
    /\ Executing("publish") /\ work = "preserved"
    /\ receipt' = "intent" /\ sealed' = "receipt" /\ work' = "intended"
    /\ UNCHANGED <<run, rows, active, sound, output, attempt, dirty, faults>>

\* renameat2(RENAME_EXCHANGE): from here on the database is the candidate's.
PublishExchange ==
    /\ Executing("publish") /\ work = "intended"
    /\ active' = "candidate" /\ sealed' = "no" /\ work' = "exchanged"
    /\ UNCHANGED <<run, rows, receipt, sound, output, attempt, dirty, faults>>

PublishReceipt ==
    /\ Executing("publish") /\ work = "exchanged"
    /\ receipt' = "published" /\ work' = "none"
    /\ run' = Landed(run)
    /\ UNCHANGED <<rows, active, sealed, sound, output, attempt, dirty, faults>>

-----------------------------------------------------------------------------
(* verify_post_restore                                                     *)

RolledBackAlready == receipt \in {"rollback_intent", "rolled_back"} /\ active = "prior"

VerifyPost ==
    /\ Executing("verify_post") /\ work = "none"
    /\ \/ RolledBackAlready /\ receipt' = "rolled_back"
       \/ receipt # "rollback_intent" /\ active = "candidate" /\ sound /\ receipt' = "verified"
    /\ run' = Landed(run)
    /\ UNCHANGED <<rows, active, sealed, sound, output, attempt, work, dirty, faults>>

\* The restored database failed, or an earlier worker decided that it did: the
\* operation's rows are carried to the prior database, unless the restored one is
\* too damaged to be read.
ReverseCarry ==
    /\ Executing("verify_post") /\ work = "none" /\ active = "candidate"
    /\ receipt = "rollback_intent" \/ ~ sound
    /\ \/ rows' = [rows EXCEPT !["prior"] = rows["candidate"]]
       \/ ~ sound /\ UNCHANGED rows
    /\ work' = "carried"
    /\ UNCHANGED <<run, active, receipt, sealed, sound, output, attempt, dirty, faults>>

ReverseIntent ==
    /\ Executing("verify_post") /\ work = "carried"
    /\ receipt' = "rollback_intent" /\ work' = "reversing"
    /\ UNCHANGED <<run, rows, active, sealed, sound, output, attempt, dirty, faults>>

ReverseExchange ==
    /\ Executing("verify_post") /\ work = "reversing"
    /\ active' = "prior" /\ work' = "reversed"
    /\ UNCHANGED <<run, rows, receipt, sealed, sound, output, attempt, dirty, faults>>

ReverseReceipt ==
    /\ Executing("verify_post") /\ work = "reversed"
    /\ receipt' = "rolled_back" /\ work' = "none"
    /\ run' = Landed(run)
    /\ UNCHANGED <<rows, active, sealed, sound, output, attempt, dirty, faults>>

-----------------------------------------------------------------------------
(* promote_or_rollback                                                     *)

ReportRollback ==
    /\ Executing("promote") /\ receipt = "rolled_back"
    /\ output' = "rolled_back"
    /\ run' = Landed(run)
    /\ UNCHANGED <<rows, active, receipt, sealed, sound, attempt, work, dirty, faults>>

\* The row is inserted without the operation's name and is not found again: a second
\* insertion violates its primary key.
RecordAttempt ==
    /\ Executing("promote") /\ receipt # "rolled_back" /\ work = "none"
    /\ IF attempt THEN Refused /\ UNCHANGED <<attempt, work>>
       ELSE attempt' = TRUE /\ work' = "recorded" /\ UNCHANGED <<run, rows>>
    /\ UNCHANGED <<active, receipt, sealed, sound, output, dirty, faults>>

PromoteReceipt ==
    /\ Executing("promote") /\ work = "recorded"
    /\ IF receipt = "verified"
       THEN receipt' = "promoted" /\ output' = "published" /\ run' = Landed(run) /\ UNCHANGED rows
       ELSE Refused /\ UNCHANGED <<receipt, output>>
    /\ work' = "none"
    /\ UNCHANGED <<active, sealed, sound, attempt, dirty, faults>>

-----------------------------------------------------------------------------

Init ==
    /\ run = Queued
    /\ rows = [p \in Profiles |-> IF p = "prior" THEN Recorded(Queued) ELSE None]
    /\ active = "prior" /\ receipt = "none" /\ sealed = "no" /\ sound = TRUE
    /\ output = "none" /\ attempt = FALSE /\ work = "none" /\ dirty = "no" /\ faults = 0

Publication == PublishAgain \/ PublishUnvouched \/ PublishPreserve \/ PublishIntent
               \/ PublishExchange \/ PublishReceipt
Verification == VerifyPost \/ ReverseCarry \/ ReverseIntent \/ ReverseExchange \/ ReverseReceipt
Promotion == ReportRollback \/ RecordAttempt \/ PromoteReceipt

Next == Engine \/ Misfortune \/ Cancel \/ Write \/ Validate \/ StageFiles \/ StageMarker
        \/ Publication \/ Verification \/ Promotion

RestoreSpec == Init /\ [][Next]_restoreVars

-----------------------------------------------------------------------------

\* Whenever a process dies, the database in the active place has the operation, at
\* the step whose evidence is on disk or the one that reads it
\* (preserve_current_database before the exchange, _carry_operation_record).
RecordSurvives ==
    /\ rows[active] # None
    /\ receipt # "none" => rows[active].at >= 4
    /\ active = "candidate" => rows[active].at \in 4..7

\* The profiles are exchanged at most once each way and never against the receipt
\* (probe_restore_published, verify_post_restore), so whatever a dead worker left is
\* recognized.
NeverAmbiguous ==
    /\ receipt \in {"published", "verified", "promoted"} => active = "candidate"
    /\ receipt = "rolled_back" => active = "prior"
    /\ receipt # "none" => PublishProbe # "UNCERTAIN_MANUAL"

\* A new worker finds the operation and recognizes what the last one left.
RestoreRecognized == RecordSurvives /\ NeverAmbiguous

\* The database exchanged in was copied after the last write to the one exchanged
\* out (the exclusive profile lock of execute_one and require_writable_profile).
ExchangedUpToDate == work = "exchanged" => dirty # "all"

\* No death loses the operation's record, and no exchange loses a committed write.
RestoreSound == RestoreRecognized /\ ExchangedUpToDate

\* ADR 002: SUCCEEDED means that the requested end state is active (the terminal
\* decision of BACKUP_RESTORE reads it from the output of promote_or_rollback).
SucceededIsRestored == run.end = "SUCCEEDED" => active = "candidate"

=============================================================================
