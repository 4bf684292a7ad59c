--------------------------- MODULE StorageCleanup ---------------------------
(***************************************************************************)
(* STORAGE_CLEANUP (storage_cleanup_adapter.py): abandoned staging trees   *)
(* are moved to a quarantine, moved back, or, when their retention has     *)
(* expired, deleted.  Every move is a rename that replaces nothing and a   *)
(* receipt written after it, target by target, by workers that may die in  *)
(* between; the next one tells from trees and receipts how far it came.    *)
(*                                                                         *)
(* A tree is intact ("tree") or not the one that was previewed ("other").  *)
(* Left out: how targets are discovered, free space, and the owner of a    *)
(* staging tree, which has ended when the preview is made.                 *)
(***************************************************************************)
EXTENDS Naturals, Sequences

CONSTANTS
    None,
    Targets,     \* numbers, in the order of the preview
    MaxFaults

INSTANCE StepRun
W == INSTANCE Workflows

Modes == {"QUARANTINE", "RESTORE", "PURGE"}

VARIABLES
    run,
    mode,        \* what the request asks for
    staging,     \* target -> None, "tree" or "other"
    quarantine,  \* the same
    receipt,     \* target -> the state in its receipt, or None
    expired,     \* the retention has passed
    todo,        \* targets apply_mode or compensate_mode has not reached
    faults

cleanupVars == <<run, mode, staging, quarantine, receipt, expired, todo, faults>>

Wf == W!StorageCleanup(mode)
At == <<"resolve", "QUARANTINE", "RESTORE", "PURGE">>[run.at]
Executing == run.pc = "effect" /\ At = mode
Undoing == run.pc = "undoing"

-----------------------------------------------------------------------------
(* Observations                                                            *)

\* _validate_target
Admits(t) ==
    IF mode = "QUARANTINE" THEN staging[t] = "tree"
    ELSE /\ receipt[t] = "QUARANTINED" /\ quarantine[t] = "tree"
         /\ IF mode = "RESTORE" THEN ~ expired /\ staging[t] = None ELSE expired

Moved(from, to, t) == to[t] # None /\ from[t] = None

\* Variant of EffectState: the receipt is not looked at.
EffectStateUnread(t) ==
    CASE mode = "QUARANTINE" /\ Moved(staging, quarantine, t) -> "COMPLETE"
      [] mode = "RESTORE" /\ Moved(quarantine, staging, t)    -> "COMPLETE"
      [] mode = "PURGE" /\ quarantine[t] = None               -> "COMPLETE"
      [] OTHER -> "PENDING"

\* _target_effect_state: a tree that has moved needs its receipt too.
EffectState(t) ==
    CASE mode = "QUARANTINE" /\ Moved(staging, quarantine, t) ->
             IF quarantine[t] # "tree" THEN "UNCERTAIN"
             ELSE IF receipt[t] = "QUARANTINED" THEN "COMPLETE" ELSE "PENDING"
      [] mode = "RESTORE" /\ Moved(quarantine, staging, t) ->
             IF staging[t] = "tree" /\ receipt[t] = "RESTORED" THEN "COMPLETE" ELSE "PENDING"
      [] mode = "PURGE" /\ quarantine[t] = None ->
             IF receipt[t] = "PURGED" THEN "COMPLETE" ELSE "PENDING"
      [] mode = "PURGE" /\ quarantine[t] # None /\ receipt[t] = "PURGE_RETAINED" ->
             IF quarantine[t] = "tree" THEN "RETAINED" ELSE "UNCERTAIN"
      [] OTHER ->
             IF /\ Admits(t)
                /\ mode = "QUARANTINE" => quarantine[t] = None
             THEN "PENDING" ELSE "UNCERTAIN"

\* probe_mode
ModeProbe ==
    LET states == [t \in Targets |-> EffectState(t)] IN
    IF \E t \in Targets : states[t] = "UNCERTAIN" THEN "UNCERTAIN_MANUAL"
    ELSE IF \A t \in Targets : states[t] \in {"COMPLETE", "RETAINED"} THEN "COMPLETE"
    ELSE IF \E t \in Targets : states[t] = "COMPLETE" THEN "PARTIALLY_RESUMABLE" ELSE "ABSENT"

Probe ==
    IF At = "resolve" THEN (IF \A t \in Targets : Admits(t) THEN "COMPLETE" ELSE "ABSENT")
    ELSE IF At # mode THEN "COMPLETE" ELSE ModeProbe

Holds == Probe = "COMPLETE"

\* Where the trees are at rest before the operation.
Home == IF mode = "QUARANTINE" THEN staging ELSE quarantine
Away == IF mode = "QUARANTINE" THEN quarantine ELSE staging

\* probe_compensation, which does not look at receipts.
RestorationProbe ==
    LET back == {t \in Targets : Home[t] = "tree" /\ Away[t] = None} IN
    IF back = Targets THEN "COMPLETE" ELSE IF back # {} THEN "PARTIALLY_RESUMABLE" ELSE "ABSENT"

-----------------------------------------------------------------------------
(* The engine around the adapter                                           *)

Fault == faults < MaxFaults /\ faults' = faults + 1

\* The next effect or compensation begins with the first, or the last, target.
Engine ==
    /\ run' \in Turns(run, Wf, Holds, {Probe}, RestorationProbe)
    /\ todo' = Targets
    /\ UNCHANGED <<mode, staging, quarantine, receipt, expired, faults>>

Misfortune ==
    /\ Fault
    /\ run' \in Mishaps(run, Wf, {Probe})
    /\ UNCHANGED <<mode, staging, quarantine, receipt, expired, todo>>

Cancel ==
    /\ Cancellable(run, Wf)
    /\ Fault
    /\ run' = Cancelled(run, Wf)
    /\ UNCHANGED <<mode, staging, quarantine, receipt, expired, todo>>

\* A tree is edited where it lies.
Tampered ==
    /\ run.end = "none"
    /\ Fault
    /\ \E t \in Targets :
         \/ /\ staging[t] = "tree" /\ staging' = [staging EXCEPT ![t] = "other"]
            /\ UNCHANGED quarantine
         \/ /\ quarantine[t] = "tree" /\ quarantine' = [quarantine EXCEPT ![t] = "other"]
            /\ UNCHANGED staging
    /\ UNCHANGED <<run, mode, receipt, expired, todo>>

RetentionPasses ==
    /\ ~ expired /\ run.end = "none"
    /\ expired' = TRUE
    /\ UNCHANGED <<run, mode, staging, quarantine, receipt, todo, faults>>

Refused == run' = Failed(run, Wf, Probe)

-----------------------------------------------------------------------------
(* The steps                                                               *)

\* resolve
ResolveTargets ==
    /\ run.pc = "effect" /\ At = "resolve"
    /\ IF \A t \in Targets : Admits(t) THEN run' = Applied(run) ELSE Refused
    /\ UNCHANGED <<mode, staging, quarantine, receipt, expired, todo, faults>>

\* The steps of the other two modes.
NotApplicable ==
    /\ run.pc = "effect" /\ At \in Modes \ {mode}
    /\ run' = Applied(run)
    /\ UNCHANGED <<mode, staging, quarantine, receipt, expired, todo, faults>>

First == CHOOSE t \in todo : \A u \in todo : t <= u
Last  == CHOOSE t \in todo : \A u \in todo : t >= u

\* _quarantine_one, _restore_one: a tree that is not there yet is moved.
MoveTree ==
    /\ Executing /\ mode \in {"QUARANTINE", "RESTORE"} /\ todo # {}
    /\ ~ Moved(Home, Away, First)
    /\ IF Admits(First) /\ Away[First] = None
       THEN /\ staging' = [staging EXCEPT ![First] = IF mode = "RESTORE" THEN quarantine[First] ELSE None]
            /\ quarantine' = [quarantine EXCEPT ![First] = IF mode = "RESTORE" THEN None ELSE staging[First]]
            /\ UNCHANGED run
       ELSE Refused /\ UNCHANGED <<staging, quarantine>>
    /\ UNCHANGED <<mode, receipt, expired, todo, faults>>

WriteState ==
    /\ Executing /\ mode \in {"QUARANTINE", "RESTORE"} /\ todo # {}
    /\ Moved(Home, Away, First)
    /\ IF Away[First] = "tree"
       THEN /\ receipt' = [receipt EXCEPT ![First] = IF mode = "RESTORE" THEN "RESTORED" ELSE "QUARANTINED"]
            /\ todo' = todo \ {First}
            /\ UNCHANGED run
       ELSE Refused /\ UNCHANGED <<receipt, todo>>
    /\ UNCHANGED <<mode, staging, quarantine, expired, faults>>

\* _purge_one: what is not certainly the expired tree is kept.
PurgeTree ==
    /\ Executing /\ mode = "PURGE" /\ todo # {} /\ quarantine[First] # None
    /\ IF Admits(First)
       THEN quarantine' = [quarantine EXCEPT ![First] = None] /\ UNCHANGED <<receipt, todo>>
       ELSE /\ receipt' = [receipt EXCEPT ![First] = "PURGE_RETAINED"]
            /\ todo' = todo \ {First} /\ UNCHANGED quarantine
    /\ UNCHANGED <<run, mode, staging, expired, faults>>

\* rmtree fails half way, or the receipt after it cannot be written.
PurgeFails ==
    /\ Executing /\ mode = "PURGE" /\ todo # {} /\ quarantine[First] # None /\ Admits(First)
    /\ Fault
    /\ \E rest \in {None, "other"} : quarantine' = [quarantine EXCEPT ![First] = rest]
    /\ run' = Ended(run, "RECOVERY_REQUIRED")
    /\ UNCHANGED <<mode, staging, receipt, expired, todo>>

RecordPurge ==
    /\ Executing /\ mode = "PURGE" /\ todo # {} /\ quarantine[First] = None
    /\ receipt' = [receipt EXCEPT ![First] = "PURGED"]
    /\ todo' = todo \ {First}
    /\ UNCHANGED <<run, mode, staging, quarantine, expired, faults>>

ApplyDone ==
    /\ Executing /\ todo = {}
    /\ run' = Applied(run)
    /\ UNCHANGED <<mode, staging, quarantine, receipt, expired, todo, faults>>

\* compensate_mode, from the last target to the first.  Who moved a tree writes its
\* receipt; a death in between leaves the receipt as it was.
MoveBack ==
    /\ Undoing /\ todo # {} /\ Moved(Home, Away, Last)
    /\ staging' = [staging EXCEPT ![Last] = IF mode = "QUARANTINE" THEN quarantine[Last] ELSE None]
    /\ quarantine' = [quarantine EXCEPT ![Last] = IF mode = "QUARANTINE" THEN None ELSE staging[Last]]
    /\ \/ /\ receipt' = [receipt EXCEPT ![Last] = IF mode = "QUARANTINE" THEN "RESTORED_BY_COMPENSATION"
                                                ELSE "QUARANTINED"]
          /\ todo' = todo \ {Last}
          /\ UNCHANGED <<run, faults>>
       \/ /\ Fault
          /\ run' \in {Crashed(run), UndoFailed(run)}
          /\ UNCHANGED <<receipt, todo>>
    /\ UNCHANGED <<mode, expired>>

SkipBack ==
    /\ Undoing /\ todo # {} /\ ~ Moved(Home, Away, Last)
    /\ todo' = todo \ {Last}
    /\ UNCHANGED <<run, mode, staging, quarantine, receipt, expired, faults>>

VerifyRestored ==
    /\ Undoing /\ todo = {}
    /\ run' = IF RestorationProbe = "COMPLETE" THEN Undone(run) ELSE UndoFailed(run)
    /\ UNCHANGED <<mode, staging, quarantine, receipt, expired, todo, faults>>

-----------------------------------------------------------------------------

Init ==
    /\ run = Queued /\ mode \in Modes /\ expired \in BOOLEAN
    /\ LET at(place) == [t \in Targets |-> IF place THEN "tree" ELSE None] IN
       /\ staging = at(mode = "QUARANTINE")
       /\ quarantine = at(mode # "QUARANTINE")
    /\ receipt = [t \in Targets |-> IF mode = "QUARANTINE" THEN None ELSE "QUARANTINED"]
    /\ todo = Targets /\ faults = 0

Next == \/ Engine \/ Misfortune \/ Cancel \/ Tampered \/ RetentionPasses
        \/ ResolveTargets \/ NotApplicable \/ MoveTree \/ WriteState
        \/ PurgeTree \/ PurgeFails \/ RecordPurge \/ ApplyDone
        \/ MoveBack \/ SkipBack \/ VerifyRestored

CleanupSpec == Init /\ [][Next]_cleanupVars

-----------------------------------------------------------------------------

\* A tree is in one place; only an expired one may be nowhere.
TreesAccounted ==
    \A t \in Targets : IF mode = "PURGE" /\ expired THEN staging[t] = None
                       ELSE (staging[t] = None) # (quarantine[t] = None)

\* What the operation reports as done was moved, or deleted, and has its receipt.
CleanupAgrees ==
    run.end = "SUCCEEDED" =>
        \A t \in Targets :
            CASE mode = "PURGE"  -> \/ quarantine[t] = None /\ receipt[t] = "PURGED"
                                    \/ quarantine[t] # None /\ receipt[t] = "PURGE_RETAINED"
              [] mode # "PURGE" -> /\ Moved(Home, Away, t)
                                   /\ receipt[t] = IF mode = "RESTORE" THEN "RESTORED" ELSE "QUARANTINED"

\* After a rollback, or a cancellation, every tree lies where it was.
CleanupUndone ==
    run.end \in {"FAILED_ROLLED_BACK", "CANCELLED"} => \A t \in Targets : Moved(Away, Home, t)

\* Whatever dies or fails between a rename and its receipt, no tree is lost or
\* doubled, success means all targets and a rollback none (apply_mode, probe_mode,
\* compensate_mode).
CleanupSound == TreesAccounted /\ CleanupAgrees /\ CleanupUndone

=============================================================================
