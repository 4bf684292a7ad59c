---------------------------- MODULE RepairCenter ----------------------------
(***************************************************************************)
(* Repair actions and undo (repair_commands.py, repair_adapter.py,         *)
(* undo.py).  The user is shown what was observed, with a digest that      *)
(* lasts for a window of time, and confirms it; the command observes       *)
(* twice more, hands over to the owner of the thing, and probes the        *)
(* result.  The owners, and others who use them, go on all the while.      *)
(*                                                                         *)
(* A behaviour is about one action and its thing: a state from a small     *)
(* set, the revision its owner fences with, and whether an operation       *)
(* holds it by a live lease.  Left out: the actions that are never ready   *)
(* (retry-legacy-import, upgrade-newer-schema, and                         *)
(* restore-known-good-lineage, whose owner raises), the acknowledgement    *)
(* of safety, and the wording of reasons.                                  *)
(***************************************************************************)
EXTENDS Naturals

CONSTANTS None, MaxRevisions, MaxWindows

Actions == {"inspect-verified-backup", "reclaim-orphaned-content",
    "release-expired-worker-locks", "recover-durable-operation",
    "regenerate-runtime-handoff", "rotate-gateway-credentials",
    "revoke-gateway-credentials", "disable-unsafe-sharing", "quarantine-invalid-model",
    "rebuild-service-launcher", "return-to-desktop", "rebuild-support-bundle", "undo"}

VARIABLES
    action,   \* the action this behaviour is about
    thing,    \* what it repairs: its state, revision, and whether it is held
    window,   \* the window of time previews are bound to
    shown,    \* the preview the user sees: what was observed and when, or None
    command,  \* the command that runs, or None
    touched   \* what the owner changed for it, or None

repairVars == <<action, thing, window, shown, command, touched>>

\* What a thing may be, what is shown of it, and a command.
ThingStates == {"valid", "damaged", "abandoned", "quarantined", "purged", "none", "live",
    "expired", "active", "ended", "barrier", "current", "stale", "mislabelled", "revoked",
    "unsafe", "private", "invalid", "absent", "healthy", "missing", "present", "server",
    "desktop", "free", "built", "kept", "spoilt", "lapsed", "superseded", "restored"}
Outcomes == {"SUCCEEDED", "FAILED_SAFE", "RECOVERY_REQUIRED", "REFUSED"}
Things == [state : ThingStates, revision : Nat, held : BOOLEAN]
Previews == [seen : Things, window : Nat]
Commands == [pc : {"repeat", "execute", "publish", "verify"} \cup Outcomes, seen : Previews,
             owner : Outcomes \cup {None}]

\* inspect_receipt and _candidate: the receipt says QUARANTINED, the deadline lies ahead,
\* the tree is itself, and no child has tried to restore it.
Retained == {"kept"}

\* The states an action is for: the conditions of `observe'.
BrokenRecords ==
    CASE action = "inspect-verified-backup"      -> {"valid"}
      [] action = "reclaim-orphaned-content"     -> {"abandoned"}
      [] action = "release-expired-worker-locks" -> {"expired"}
      [] action = "recover-durable-operation"    -> {"active"}
      [] action = "regenerate-runtime-handoff"   -> {"stale"}
      [] action = "undo"                         -> Retained

\* observe, for what lies outside the operations; a desktop can always be returned to.
Broken ==
    CASE action \in {"rotate-gateway-credentials", "revoke-gateway-credentials"} -> {"active"}
      [] action = "disable-unsafe-sharing"   -> {"unsafe"}
      [] action = "quarantine-invalid-model" -> {"invalid"}
      [] action = "rebuild-service-launcher" -> {"missing"}
      [] action = "return-to-desktop"        -> {"server", "desktop"}
      [] action = "rebuild-support-bundle"   -> {"free"}
      [] OTHER                               -> BrokenRecords

\* The states `verify' accepts afterwards.
Mended ==
    CASE action = "inspect-verified-backup"      -> {"valid"}
      [] action = "reclaim-orphaned-content"     -> {"quarantined"}
      [] action = "release-expired-worker-locks" -> {"none"}
      [] action = "recover-durable-operation"    -> {"ended"}
      [] action = "regenerate-runtime-handoff"   -> {"current"}
      [] action = "rotate-gateway-credentials"   -> {"active"}
      [] action = "revoke-gateway-credentials"   -> {"revoked"}
      [] action = "disable-unsafe-sharing"       -> {"private"}
      [] action = "quarantine-invalid-model"     -> {"absent"}
      [] action = "rebuild-service-launcher"     -> {"present"}
      [] action = "return-to-desktop"            -> {"desktop"}
      [] action = "rebuild-support-bundle"       -> {"built"}
      [] action = "undo"                         -> {"restored"}

Is(s, r, h) == [state |-> s, revision |-> r, held |-> h]

\* An operation and an undo wait for the leases; the others do not look.
Leased == action \in {"recover-durable-operation", "undo"}

Ready == thing.state \in Broken /\ (Leased => ~ thing.held)

\* _make_preview: what the digest covers.
Preview == [seen |-> thing, window |-> window]

-----------------------------------------------------------------------------
(* The owners and everybody else                                           *)

\* How a thing changes without the repair: <<from, to>>.
Life ==
    CASE action = "inspect-verified-backup"      -> {<<"valid", "damaged">>}
      [] action = "reclaim-orphaned-content"     ->
             {<<"abandoned", "abandoned">>, <<"abandoned", "quarantined">>,
              <<"quarantined", "abandoned">>, <<"quarantined", "purged">>}
      [] action = "release-expired-worker-locks" ->
             {<<"none", "live">>, <<"live", "live">>, <<"expired", "live">>,
              <<"live", "expired">>, <<"live", "none">>, <<"expired", "none">>}
      [] action = "recover-durable-operation"    ->
             {<<"active", "active">>, <<"active", "ended">>, <<"active", "barrier">>}
      [] action = "regenerate-runtime-handoff"   ->
             {<<"current", "stale">>, <<"stale", "stale">>, <<"stale", "current">>,
              <<"mislabelled", "stale">>}
      [] action \in {"rotate-gateway-credentials", "revoke-gateway-credentials"} ->
             {<<"active", "active">>, <<"active", "revoked">>}
      [] action = "disable-unsafe-sharing"       ->
             {<<"unsafe", "unsafe">>, <<"unsafe", "private">>, <<"private", "unsafe">>}
      [] action = "quarantine-invalid-model"     ->
             {<<"invalid", "absent">>, <<"absent", "healthy">>, <<"absent", "invalid">>}
      [] action = "rebuild-service-launcher"     ->
             {<<"missing", "missing">>, <<"missing", "present">>, <<"present", "missing">>}
      [] action = "return-to-desktop"            ->
             {<<"server", "server">>, <<"server", "desktop">>,
              <<"desktop", "server">>}
      [] action = "rebuild-support-bundle"       -> {<<"free", "built">>}
      [] action = "undo"                         ->
             {<<"kept", "spoilt">>, <<"kept", "lapsed">>, <<"kept", "superseded">>,
              <<"kept", "restored">>, <<"superseded", "restored">>, <<"lapsed", "purged">>}

\* The revision a change leaves, or whatever else a preview shows of the thing beside its
\* state.  The row of a lock goes with its release, and the next one begins at 1; a model
\* that is imported again may get the id of the one that went.
RevisionAfter(from, to) ==
    CASE action = "release-expired-worker-locks" ->
             IF to = "none" THEN 0 ELSE IF to = "expired" THEN thing.revision
             ELSE thing.revision + 1
      [] action = "regenerate-runtime-handoff" ->
             IF to = "stale" THEN thing.revision + 1 ELSE thing.revision
      [] action \in {"recover-durable-operation", "rotate-gateway-credentials",
                     "revoke-gateway-credentials", "undo"} -> thing.revision + 1
      [] OTHER -> IF from = to THEN thing.revision + 1 ELSE thing.revision

\* What an operation does it does under its lease.
Lives ==
    /\ \E change \in Life :
         /\ change[1] = thing.state
         /\ Leased /\ change[2] \in {"ended", "barrier", "restored"} => thing.held
         /\ thing' = Is(change[2], RevisionAfter(change[1], change[2]),
                        thing.held /\ change[2] \in {"active", "spoilt", "lapsed", "superseded"})
         /\ thing'.revision <= MaxRevisions
    /\ UNCHANGED <<action, window, shown, command, touched>>

\* A lease on the thing is taken, and lapses or is released.
Held ==
    /\ Leased /\ thing.state \in Broken \cup {"superseded"}
    /\ thing.revision < MaxRevisions
    /\ thing' = [thing EXCEPT !.held = ~ @, !.revision = @ + 1]
    /\ UNCHANGED <<action, window, shown, command, touched>>

TimePasses ==
    /\ window < MaxWindows
    /\ window' = window + 1
    /\ UNCHANGED <<action, thing, shown, command, touched>>

-----------------------------------------------------------------------------
(* The user and the command service                                        *)

\* preview: only a ready one can be confirmed.
Show ==
    /\ command = None /\ Ready
    /\ thing.revision < MaxRevisions      \* bound
    /\ shown' = Preview
    /\ UNCHANGED <<action, thing, window, command, touched>>

At(pc, seen) == [pc |-> pc, seen |-> seen, owner |-> None]
Ends(outcome) == command' = [command EXCEPT !.pc = outcome]

\* run: its own preview must be the confirmed one.
Confirm ==
    /\ command = None /\ shown # None
    /\ command' = IF Ready /\ shown = Preview THEN At("repeat", Preview)
                  ELSE At("REFUSED", Preview)
    /\ UNCHANGED <<action, thing, window, shown, touched>>

\* run: the observation that goes to the owner still has the digest.
Repeat ==
    /\ command # None /\ command.pc = "repeat"
    /\ command' = IF Preview = command.seen THEN At("execute", Preview)
                  ELSE At("REFUSED", Preview)
    /\ UNCHANGED <<action, thing, window, shown, touched>>

Owner(outcome) == command' = [command EXCEPT !.pc = "verify", !.owner = outcome]

\* The owner changes the thing to s at revision r.
Changes(s, r) ==
    /\ thing' = Is(s, r, FALSE)
    /\ touched' = thing
    /\ Owner("SUCCEEDED")

Declines(outcome) == Owner(outcome) /\ UNCHANGED <<thing, touched>>
Raises == Ends("FAILED_SAFE") /\ UNCHANGED <<thing, touched>>

Executing(actions) ==
    /\ command # None /\ command.pc = "execute" /\ action \in actions
    /\ UNCHANGED <<action, window, shown>>

AsSeen == thing.revision = command.seen.seen.revision

\* Mutant: the lock is deleted without the fenced takeover.
ReleaseLockUnfenced ==
    /\ Executing({"release-expired-worker-locks"})
    /\ IF thing.state # "none" /\ AsSeen THEN Changes("none", 0) ELSE Raises

\* One transaction: the revision, a takeover that only an expired lock allows, the release.
ReleaseLock ==
    /\ Executing({"release-expired-worker-locks"})
    /\ IF thing.state = "expired" /\ AsSeen THEN Changes("none", 0) ELSE Raises

\* recover looks at state and leases again and drives the engine, which needs the leases;
\* whatever the engine makes of it, a driven operation counts as SUCCEEDED.
RecoverOperation ==
    /\ Executing({"recover-durable-operation"})
    /\ CASE thing.state = "barrier" -> Declines("REFUSED")
         [] thing.state = "active" /\ thing.held -> Declines("REFUSED")
         [] thing.state = "ended" -> Declines("SUCCEEDED")
         [] OTHER -> \/ \E s \in {"ended", "barrier"} : Changes(s, thing.revision)
                     \/ Declines("SUCCEEDED")

\* regenerate_handoff checks the revision, and then reads the state and publishes it.
CheckHandoff ==
    /\ Executing({"regenerate-runtime-handoff"})
    /\ IF AsSeen THEN command' = [command EXCEPT !.pc = "publish"] ELSE Ends("FAILED_SAFE")
    /\ UNCHANGED <<thing, touched>>

\* An activation in between leaves a handoff with the old label or of the old state.
PublishHandoff ==
    /\ command # None /\ command.pc = "publish"
    /\ \/ \E s \in IF AsSeen THEN {"current"} ELSE {"mislabelled", "stale"} :
            Changes(s, thing.revision)
       \/ Declines("REFUSED")
    /\ UNCHANGED <<action, window, shown>>

\* rotate_client and revoke_client: an update with the revision in its WHERE clause.
ChangeClient ==
    /\ Executing({"rotate-gateway-credentials", "revoke-gateway-credentials"})
    /\ IF AsSeen
       THEN Changes(IF action = "rotate-gateway-credentials" THEN "active" ELSE "revoked",
                    thing.revision + 1)
       ELSE Raises

\* quarantine_target makes a preview of its own, which is repeated and binds the tree;
\* the operation may still fail or find the leases taken.
ReclaimContent ==
    /\ Executing({"reclaim-orphaned-content"})
    /\ \/ thing.state = "abandoned" /\ Changes("quarantined", thing.revision)
       \/ Declines("REFUSED")

\* remove is given the alias and no revision.
QuarantineModel ==
    /\ Executing({"quarantine-invalid-model"})
    /\ \/ thing.state # "absent" /\ Changes("absent", thing.revision)
       \/ \E outcome \in {"REFUSED", "RECOVERY_REQUIRED"} : Declines(outcome)

\* Owners that set something, whatever it was.
SetAnyway ==
    /\ Executing({"disable-unsafe-sharing", "rebuild-service-launcher", "return-to-desktop"})
    /\ \/ \E s \in Mended : Changes(s, thing.revision)
       \/ Raises

\* verify_backup reads; build writes to a destination that must not exist.
Inspect ==
    /\ Executing({"inspect-verified-backup"})
    /\ Declines(IF thing.state = "valid" THEN "SUCCEEDED" ELSE "REFUSED")

BuildBundle ==
    /\ Executing({"rebuild-support-bundle"})
    /\ \/ thing.state = "free" /\ Changes("built", thing.revision)
       \/ Raises

\* restore_target previews, and the operation validates receipt, deadline and identity
\* again under its leases; one that waits or fails is a child that rules out another try.
RestoreTarget ==
    /\ Executing({"undo"})
    /\ \/ thing.state = "kept" /\ ~ thing.held /\ Changes("restored", thing.revision + 1)
       \/ Raises
       \/ /\ thing.state = "kept" /\ Ends("FAILED_SAFE")
          /\ thing' = [thing EXCEPT !.state = "superseded"]
          /\ UNCHANGED touched

\* verify; a change of a client needs a later revision too.
Verified ==
    /\ thing.state \in Mended
    /\ action \in {"rotate-gateway-credentials", "revoke-gateway-credentials"} =>
         thing.revision > command.seen.seen.revision

\* The outcome, from what the owner said and what the probe finds.
Verify ==
    /\ command # None /\ command.pc = "verify"
    /\ Ends(IF command.owner = "SUCCEEDED" /\ Verified THEN "SUCCEEDED"
            ELSE IF \/ command.owner = "RECOVERY_REQUIRED"
                    \/ action = "undo" /\ command.owner = "SUCCEEDED"
                 THEN "RECOVERY_REQUIRED" ELSE "FAILED_SAFE")
    /\ UNCHANGED <<action, thing, window, shown, touched>>

\* The result is read, and the preview used up.
Dismiss ==
    /\ command # None
    /\ command.pc \in Outcomes
    /\ command' = None /\ shown' = None /\ touched' = None
    /\ UNCHANGED <<action, thing, window>>
-----------------------------------------------------------------------------
Init ==
    /\ action \in Actions
    /\ \E s \in {change[1] : change \in Life} \cup Broken :
         thing = Is(s, IF s = "none" THEN 0 ELSE 1, FALSE)
    /\ window = 0 /\ shown = None /\ command = None /\ touched = None

Next ==
    \/ Lives \/ Held \/ TimePasses
    \/ Show \/ Confirm \/ Repeat \/ Verify \/ Dismiss
    \/ ReleaseLock \/ RecoverOperation \/ CheckHandoff \/ PublishHandoff \/ ChangeClient
    \/ ReclaimContent \/ QuarantineModel \/ SetAnyway \/ Inspect \/ BuildBundle
    \/ RestoreTarget

Spec == Init /\ [][Next]_repairVars

-----------------------------------------------------------------------------
\* The owners that look again, and those that fence with the revision shown.
Careful == {"reclaim-orphaned-content", "release-expired-worker-locks",
    "recover-durable-operation", "rotate-gateway-credentials",
    "revoke-gateway-credentials", "rebuild-support-bundle", "undo"}
FencedActions == {"release-expired-worker-locks", "rotate-gateway-credentials",
    "revoke-gateway-credentials"}

\* However long the user thinks and whatever the owners do between the observations and
\* the change: an owner is only called for exactly what the user confirmed; a careful one
\* never releases a live lock, recovers an operation somebody drives, quarantines what is
\* in use, changes a client that was changed since, or restores after the deadline, twice
\* or what is no longer itself; a refused repair has changed nothing; and one that
\* succeeded did the change itself, unless it only looks or the operation ended in time.
Repaired ==
    /\ command # None /\ command.pc \notin {"repeat", "REFUSED"} => command.seen = shown
    /\ touched # None =>
         /\ command # None /\ command.pc # "REFUSED"
         /\ action \in Careful => touched.state \in Broken /\ ~ (Leased /\ touched.held)
         /\ action \in FencedActions => touched.revision = shown.seen.revision
    /\ command # None /\ command.pc = "SUCCEEDED" =>
         \/ touched # None
         \/ action \in {"inspect-verified-backup", "recover-durable-operation"}
=============================================================================
