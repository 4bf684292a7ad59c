---------------------------- MODULE RuntimeTrees ----------------------------
(***************************************************************************)
(* What RUNTIME_UPDATE and RUNTIME_ROLLBACK do to the machine              *)
(* (runtime_lifecycle_adapter.py, operations/runtime_lifecycle.py,         *)
(* runtime_builds.py): the trees on disk, their registry, the promoted     *)
(* component, the handoff file, the service and its start receipt, changed *)
(* one system call or transaction at a time by a worker that may die       *)
(* between any two.  StepRun says which step is executed, probed, verified *)
(* or compensated when.                                                    *)
(*                                                                         *)
(* A tree is named after the operation that builds it, 0 being the tree    *)
(* found on the machine; a candidate directory has the name of its         *)
(* operation, and 0 is the active root.  Two trees of one build have equal *)
(* `build'.  An update to the source of the promoted build is a no-op that *)
(* verifies what is active: it takes the same steps, and most of them are  *)
(* skipped.  Left out: installations without a selected model (and so a    *)
(* build prepared for them), the pinned Prism bundle, and what digests,    *)
(* images and toolchains are.                                              *)
(***************************************************************************)
EXTENDS Naturals, Sequences, FiniteSets

CONSTANTS None, MaxFaults, Updates   \* Updates: how many operations are run, one after another

INSTANCE StepRun
W == INSTANCE Workflows

Trees == 0..Updates

VARIABLES
    op,        \* the operation that runs: number, kind and, for a rollback, its target build
    run,       \* its rows and its run
    build,     \* the build a tree holds
    disk,      \* directory -> the tree with a manifest in it, or None
    reg,       \* the registry: tree -> [loc, role], or None
    comp,      \* the component row
    known,     \* the runtime component of the known-good row, or None
    handoff,   \* [component, op]; component None is a handoff of schema 1
    service,   \* the running server: the build it was launched from (None: it is
               \* down), and whether it was launched since the snapshot
    receipt,   \* the start receipt [build, op]
    snap,      \* the output of capture_activation_boundary, or None
    work,      \* how far the candidate's checkout and build directory are; or that the
               \* source is that of the active build
    found,     \* history: the machine and what served when the operation began
    faults

treesVars == <<op, run, build, disk, reg, comp, known, handoff, service, receipt, snap, work,
               found, faults>>
stepVars == <<build, disk, reg, comp, known, handoff, service, receipt, snap, work>>

Work == {"none", "part", "source", "directory", "compiling", "built", "recovered",
         "registered", "active", "activeProbed"}
Handoff == [component : Trees \cup {None}, op : 0..Updates]
Component == [promoted : Trees \cup {None}, rollback : Trees \cup {None},
              promotedTree : Trees \cup {None}, rollbackTree : Trees \cup {None},
              generation : Nat, op : 0..Updates]

Names(kind) ==
    IF kind = "update"
    THEN <<"resolve", "preflight", "fetch", "configure", "compile", "smoke", "capture",
           "exchange", "publish", "restart", "verify", "promote", "finalize">>
    ELSE <<"target", "preflight", "smoke", "capture",
           "exchange", "publish", "restart", "verify", "promote", "finalize">>

Activating == {"exchange", "publish", "restart", "verify", "promote", "finalize"}

Wf == IF op.kind = "update" THEN W!RuntimeUpdate ELSE W!RuntimeRollback
At == Names(op.kind)[run.at]
Executing(name) == run.pc = "effect" /\ At = name

Rows == {t \in Trees : reg[t] # None}
RowAt(loc) == {t \in Rows : reg[t].loc = loc}
Active == IF disk[0] = None THEN None ELSE build[disk[0]]

\* _already_active: resolve_source found the source of the promoted, active build.
AlreadyActive == op.kind = "update" /\ work \in {"active", "activeProbed"}

\* _target_build_id
Target == IF AlreadyActive THEN Active ELSE IF op.kind = "update" THEN build[op.n] ELSE op.target

-----------------------------------------------------------------------------
(* Observations                                                            *)

\* What is at the directory is the registered build b (_observed_tree).
Observed(loc, b) == disk[loc] # None /\ reg[disk[loc]] # None /\ build[disk[loc]] = b

\* _classify_arrangement: the two directories of the pair frozen by the snapshot.
Arrangement ==
    IF Observed(0, build[snap.targetTree])
    THEN (IF Observed(snap.targetLoc, snap.active) THEN "COMPLETE" ELSE "UNCERTAIN_MANUAL")
    ELSE IF Observed(0, snap.active) /\ Observed(snap.targetLoc, build[snap.targetTree])
    THEN "ABSENT" ELSE "UNCERTAIN_MANUAL"

\* observe_handoff_v2
HandoffProbe ==
    CASE handoff.component = None -> "ABSENT"
      [] handoff.component = Target -> "COMPLETE"
      [] handoff.component \notin {None, Target} ->
             IF handoff.component = snap.handoff.component THEN "ABSENT" ELSE "UNCERTAIN_MANUAL"

\* observe_invocation
InvocationProbe ==
    IF service.build = None THEN "REVERTIBLE"
    ELSE IF /\ Observed(0, Target)
            /\ receipt.build = Target /\ receipt.op = handoff.op
            /\ handoff.component = Target
            /\ service.new \/ snap.active = Target
    THEN "COMPLETE" ELSE "UNCERTAIN_MANUAL"

\* verify_runtime_identity, and a server that answers.
Identified == /\ Observed(0, Target) /\ InvocationProbe = "COMPLETE" /\ HandoffProbe = "COMPLETE"

\* observe_promotion
Promoted ==
    /\ comp.promoted = Target
    /\ \/ comp.generation > snap.generation
       \/ /\ snap.promoted = Target
          /\ comp.generation = snap.generation /\ comp.rollback = snap.rollback

\* observe_restoration
RestorationProbe ==
    IF /\ Observed(0, snap.active)
       /\ handoff = snap.handoff
       /\ (service.build # None) = snap.serving
       /\ comp.promoted = snap.promoted /\ comp.rollback = snap.rollback
       /\ known = snap.known
    THEN "COMPLETE" ELSE "REVERTIBLE"

\* The probes of the steps that build a candidate.
CandidateProbe ==
    CASE At = "fetch"    -> (IF work = "none" THEN {"ABSENT"}
                             ELSE IF work = "part" THEN {"PARTIALLY_RESUMABLE", "UNCERTAIN_MANUAL"}
                             ELSE {"COMPLETE"})
      [] At = "compile"  -> {IF work = "built" THEN "COMPLETE" ELSE "PARTIALLY_RESUMABLE"}
      [] OTHER -> {"ABSENT"}

\* The probe of the step whose row is RUNNING; a step without evidence is ABSENT.  In a
\* no-op any checkout of the active build's source may be left, and the probe of the
\* compilation raises: it wants the build directory of a step that was skipped.
BuildProbe ==
    CASE AlreadyActive /\ At = "fetch" ->
             {"ABSENT", "PARTIALLY_RESUMABLE", "UNCERTAIN_MANUAL", "COMPLETE"}
      [] AlreadyActive /\ At = "compile" -> {"UNCERTAIN_MANUAL"}
      [] AlreadyActive /\ At \notin {"fetch", "compile"} -> {"ABSENT"}
      [] ~ AlreadyActive -> CandidateProbe

\* What a no-op does not do of an activation.
Skipped == {"exchange", "publish", "restart"}

ActivationProbe ==
    CASE AlreadyActive /\ At \in Skipped -> {"COMPLETE"}
      [] ~ AlreadyActive /\ At = "exchange" -> {Arrangement}
      [] ~ AlreadyActive /\ At = "publish"  -> {HandoffProbe}
      [] ~ AlreadyActive /\ At = "restart"  -> {InvocationProbe}
      [] At = "verify"   -> {IF Identified THEN "COMPLETE" ELSE "REVERTIBLE"}
      [] At \in {"promote", "finalize"} -> {"ABSENT"}

Probe == IF snap = None \/ At \notin Activating THEN BuildProbe ELSE ActivationProbe

\* What the step's verification demands.
BuildHolds ==
    CASE At = "fetch"    -> work \notin {"none", "part"}
      [] At = "smoke"    -> op.kind = "rollback" \/ AlreadyActive \/ Observed(op.n, build[op.n])
      [] OTHER -> TRUE

ActivationHolds ==
    CASE At = "exchange" -> AlreadyActive \/ Arrangement = "COMPLETE"
      [] At = "publish"  -> AlreadyActive \/ HandoffProbe = "COMPLETE"
      [] At = "restart"  -> AlreadyActive \/ InvocationProbe = "COMPLETE"
      [] At = "promote"  -> Promoted
      [] At = "finalize" -> /\ Arrangement = "COMPLETE"
                            /\ reg[snap.targetTree] = [loc |-> 0, role |-> "ACTIVE_OBSERVED"]
                            /\ snap.activeTree # snap.targetTree =>
                                 reg[snap.activeTree] = [loc |-> snap.targetLoc, role |-> "RETAINED"]
      [] OTHER -> TRUE

Holds == IF At \in Activating THEN ActivationHolds ELSE BuildHolds

-----------------------------------------------------------------------------
(* The engine around the adapter                                           *)

Fault == faults < MaxFaults /\ faults' = faults + 1

\* A probe whose output is not what the step returns is an action of its own.
Substituted == At = "compile" \/ (AlreadyActive /\ At = "exchange")

Engine ==
    /\ run.pc = "probe" => ~ Substituted
    /\ run' \in Turns(run, Wf, Holds, Probe, RestorationProbe)
    /\ UNCHANGED <<op, stepVars, found, faults>>

\* Also a refused source, a compiler error, a helper that does not come back,
\* inference that answers nothing.
Misfortune ==
    /\ Fault
    /\ run' \in Mishaps(run, Wf, Probe)
    /\ UNCHANGED <<op, stepVars, found>>

Cancel ==
    /\ Cancellable(run, Wf)
    /\ Fault
    /\ run' = Cancelled(run, Wf)
    /\ UNCHANGED <<op, stepVars, found>>

\* The launcher binds the handoff to the active tree before it starts the server
\* and writes the receipt; a handoff of schema 1 binds nothing.
Launch(h) ==
    IF h.component = None THEN service' = [build |-> Active, new |-> TRUE] /\ UNCHANGED receipt
    ELSE IF Active = h.component
    THEN /\ service' = [build |-> Active, new |-> TRUE]
         /\ receipt' = [build |-> h.component, op |-> h.op]
    ELSE service' = [service EXCEPT !.build = None] /\ UNCHANGED receipt

\* The server crashes, and systemd restarts it, if the launcher agrees.
ServiceFails ==
    /\ service.build # None
    /\ Fault
    /\ Launch(handoff)
    /\ UNCHANGED <<op, run, build, disk, reg, comp, known, handoff, snap, work, found>>

-----------------------------------------------------------------------------
(* The steps that build a candidate                                        *)

Refused == \E class \in Probe : run' = Failed(run, Wf, class)

\* resolve_source asks the network for a commit; that it may fail is Misfortune.  It
\* may be the promoted build's, and that tree may be the active one (observe_noop).
ResolveSource ==
    /\ Executing("resolve")
    /\ \/ work' = "none"
       \/ comp.promoted # None /\ Observed(0, comp.promoted) /\ work' = "active"
    /\ run' = Applied(run)
    /\ UNCHANGED <<op, build, disk, reg, comp, known, handoff, service, receipt, snap, found,
                   faults>>

\* What a no-op skips; promote_runtime then only reports what is promoted.
Skip ==
    /\ AlreadyActive
    /\ \E step \in Skipped \cup {"preflight", "fetch", "configure", "compile", "smoke", "promote"} :
          Executing(step)
    /\ run' = Applied(run)
    /\ UNCHANGED <<op, stepVars, found, faults>>

\* resolve_rollback_target wants the registered tree of the durable rollback build
\* where its row says.
ResolveRollbackTarget ==
    /\ Executing("target")
    /\ IF /\ comp.rollback = op.target /\ comp.promoted # None
          /\ comp.rollbackTree \in Rows
          /\ Observed(reg[comp.rollbackTree].loc, op.target)
       THEN run' = Applied(run) ELSE Refused
    /\ UNCHANGED <<op, stepVars, found, faults>>

\* Variant of PreflightBuild: the active tree is registered under the locator of the
\* candidate.
AdoptElsewhere ==
    /\ Executing("preflight") /\ op.kind = "update" /\ ~ AlreadyActive
    /\ reg' = [reg EXCEPT ![disk[0]] = [loc |-> op.n, role |-> "ACTIVE_OBSERVED"]]
    /\ run' = Landed(run)
    /\ UNCHANGED <<op, build, disk, comp, known, handoff, service, receipt, snap, work, found,
                   faults>>

\* preflight_build registers the active tree, adopting it if nobody has
\* (ensure_runtime_registered, _adopt_legacy_active).
PreflightBuild ==
    /\ Executing("preflight") /\ op.kind = "update" /\ ~ AlreadyActive
    /\ reg' = [reg EXCEPT ![disk[0]] = [loc |-> 0, role |-> "ACTIVE_OBSERVED"]]
    /\ run' = Landed(run)
    /\ UNCHANGED <<op, build, disk, comp, known, handoff, service, receipt, snap, work, found,
                   faults>>

PreflightRollback ==
    /\ Executing("preflight") /\ op.kind = "rollback"
    /\ IF Active = comp.promoted THEN run' = Applied(run) ELSE Refused
    /\ UNCHANGED <<op, stepVars, found, faults>>

\* fetch_exact_commit: a partial checkout is not a place `git worktree add' accepts.
Fetch ==
    /\ Executing("fetch") /\ ~ AlreadyActive
    /\ \/ work = "none" /\ work' = "part" /\ UNCHANGED run
       \/ work = "part" /\ work' = "source" /\ run' = Landed(run)
       \/ work = "part" /\ Refused /\ UNCHANGED work
       \/ work \notin {"none", "part"} /\ run' = Applied(run) /\ UNCHANGED work
    /\ UNCHANGED <<op, build, disk, reg, comp, known, handoff, service, receipt, snap, found, faults>>

\* configure_build makes a directory of its own every time it is executed.
Configure ==
    /\ Executing("configure") /\ ~ AlreadyActive
    /\ work' = "directory" /\ run' = Landed(run)
    /\ UNCHANGED <<op, build, disk, reg, comp, known, handoff, service, receipt, snap, found, faults>>

Compile ==
    /\ Executing("compile") /\ ~ AlreadyActive
    /\ \/ work = "directory" /\ work' = "compiling" /\ UNCHANGED run
       \/ work \in {"compiling", "built"} /\ work' = "built" /\ run' = Landed(run)
    /\ UNCHANGED <<op, build, disk, reg, comp, known, handoff, service, receipt, snap, found, faults>>

\* probe_compilation finds the binaries; its output is not what compile_candidate
\* returns (it lacks the build directory), and smoke_candidate cannot use it.
RecoverCompilation ==
    /\ run.end = "none" /\ run.pc = "probe" /\ At = "compile" /\ ~ AlreadyActive
    /\ \E class \in Probe :
         /\ run' = Decided(run, Wf, class)
         /\ work' = IF class = "COMPLETE" THEN "recovered" ELSE work
    /\ UNCHANGED <<op, build, disk, reg, comp, known, handoff, service, receipt, snap, found, faults>>

\* In a no-op the one probe raises, whenever it is asked; and what the other answers
\* is no exchange evidence, which finalize_trees wants.
RecoverSkipped ==
    /\ run.end = "none" /\ run.pc = "probe" /\ AlreadyActive
    /\ \/ At = "compile" /\ run' = Crashed(run) /\ UNCHANGED work
       \/ At = "exchange" /\ run' = Decided(run, Wf, "COMPLETE") /\ work' = "activeProbed"
    /\ UNCHANGED <<op, build, disk, reg, comp, known, handoff, service, receipt, snap, found, faults>>

\* smoke_and_register_candidate: the manifest goes into the tree, then the build
\* and the tree are registered.  The build may be one that exists already.
WriteManifest ==
    /\ Executing("smoke") /\ op.kind = "update" /\ disk[op.n] = None /\ work = "built"
    /\ disk' = [disk EXCEPT ![op.n] = op.n]
    /\ \E b \in {op.n} \cup {build[t] : t \in Rows \ {disk[0]}} : build' = [build EXCEPT ![op.n] = b]
    /\ UNCHANGED <<op, run, reg, comp, known, handoff, service, receipt, snap, work, found, faults>>

RegisterCandidate ==
    /\ Executing("smoke") /\ op.kind = "update" /\ disk[op.n] # None /\ ~ AlreadyActive
    /\ reg' = [reg EXCEPT ![op.n] = [loc |-> op.n, role |-> "CANDIDATE"]]
    /\ work' = "registered" /\ run' = Landed(run)
    /\ UNCHANGED <<op, build, disk, comp, known, handoff, service, receipt, snap, found, faults>>

\* Evidence that does not fit refuses an update; a rollback checks its tree.
Smoke ==
    /\ Executing("smoke")
    /\ \/ op.kind = "update" /\ work = "recovered" /\ Refused
       \/ op.kind = "rollback" /\ run' = Applied(run)
    /\ UNCHANGED <<op, stepVars, found, faults>>

-----------------------------------------------------------------------------
(* The steps that activate it                                              *)

\* capture_activation_boundary: exactly one tree of the target's build outside the
\* active root, or the active one; that a running server does not answer as it is
\* configured to is Misfortune.  Nobody asks which build it was launched from.
Capture ==
    /\ Executing("capture")
    /\ LET active == CHOOSE t \in RowAt(0) : TRUE
           targets == IF Target = Active THEN {active}
                      ELSE {t \in Rows : build[t] = Target /\ reg[t].loc # 0}
           tree == CHOOSE t \in targets : TRUE
       IN IF Cardinality(targets) # 1
          THEN Refused /\ UNCHANGED <<snap, service>>
          ELSE /\ snap' = [active |-> Active, activeTree |-> active,
                           targetTree |-> tree, targetLoc |-> reg[tree].loc,
                           promoted |-> comp.promoted, rollback |-> comp.rollback,
                           rollbackTree |-> comp.rollbackTree, generation |-> comp.generation,
                           known |-> known, handoff |-> handoff,
                           serving |-> service.build # None]
               /\ service' = [service EXCEPT !.new = FALSE]
               /\ run' = Applied(run)
    /\ UNCHANGED <<op, build, disk, reg, comp, known, handoff, receipt, work, found, faults>>

\* renameat2(RENAME_EXCHANGE) of the active root and the candidate's directory.
Swap == disk' = [l \in Trees |-> IF l = 0 THEN disk[snap.targetLoc]
                                 ELSE IF l = snap.targetLoc THEN disk[0] ELSE disk[l]]

\* exchange_active_tree, the only step that looks before it mutates.
Exchange ==
    /\ Executing("exchange") /\ ~ AlreadyActive
    /\ CASE Arrangement = "COMPLETE" -> run' = Applied(run) /\ UNCHANGED disk
         [] Arrangement = "ABSENT"   -> Swap /\ run' = Landed(run)
         [] Arrangement = "UNCERTAIN_MANUAL" -> Refused /\ UNCHANGED disk
    /\ UNCHANGED <<op, build, reg, comp, known, handoff, service, receipt, snap, work, found, faults>>

\* publish_handoff_v2
PublishHandoff ==
    /\ Executing("publish") /\ ~ AlreadyActive
    /\ handoff' = [component |-> Target, op |-> op.n]
    /\ run' = Landed(run)
    /\ UNCHANGED <<op, build, disk, reg, comp, known, service, receipt, snap, work, found, faults>>

\* restart_for_runtime_change: the restart renders the handoff again.
Restart ==
    /\ Executing("restart") /\ ~ AlreadyActive
    /\ IF InvocationProbe = "COMPLETE"
       THEN run' = Applied(run) /\ UNCHANGED <<handoff, service, receipt>>
       ELSE /\ handoff' = [component |-> Target, op |-> op.n]
            /\ Launch(handoff')
            /\ run' = Landed(run)
    /\ UNCHANGED <<op, build, disk, reg, comp, known, snap, work, found, faults>>

VerifyRuntime ==
    /\ Executing("verify")
    /\ IF Identified THEN run' = Applied(run) ELSE Refused
    /\ UNCHANGED <<op, stepVars, found, faults>>

AtRoot == [loc |-> 0, role |-> "ACTIVE_OBSERVED"]
Aside == [loc |-> snap.targetLoc, role |-> "RETAINED"]

\* _record_pair_locations moves both rows in one transaction (and none when they are
\* one: it is registered where it is).
Locations(forward) ==
    [t \in Trees |-> IF t = IF forward THEN snap.targetTree ELSE snap.activeTree THEN AtRoot
                    ELSE IF t \in {snap.targetTree, snap.activeTree} THEN Aside ELSE reg[t]]

\* promote_verified_runtime: identity, then the rows of the trees in one
\* transaction, then the component and the known-good row in another.
RecordLocations ==
    /\ Executing("promote") /\ ~ AlreadyActive
    /\ IF Arrangement = "COMPLETE" /\ Identified
       THEN reg' = Locations(TRUE) /\ reg' # reg /\ UNCHANGED run
       ELSE Refused /\ UNCHANGED reg
    /\ UNCHANGED <<op, build, disk, comp, known, handoff, service, receipt, snap, work, found, faults>>

\* The row promote_verified writes.
Promotion ==
    [promoted |-> Target, rollback |-> snap.promoted, promotedTree |-> snap.targetTree,
     rollbackTree |-> IF snap.promoted = None THEN None ELSE snap.activeTree,
     generation |-> comp.generation + 1, op |-> op.n]

Promote ==
    /\ Executing("promote") /\ ~ AlreadyActive
    /\ reg = Locations(TRUE)
    /\ IF comp.promoted = Target /\ comp.rollback = snap.promoted /\ comp.op = op.n
       THEN run' = Applied(run) /\ UNCHANGED <<comp, known>>
       ELSE IF comp.generation # snap.generation \/ comp.promoted # snap.promoted
       THEN Refused /\ UNCHANGED <<comp, known>>
       ELSE /\ comp' = Promotion
            /\ known' = Target
            /\ run' = Landed(run)
    /\ UNCHANGED <<op, build, disk, reg, handoff, service, receipt, snap, work, found, faults>>

Finalize ==
    /\ Executing("finalize")
    /\ IF Arrangement = "COMPLETE" /\ work # "activeProbed"
       THEN reg' = Locations(TRUE) /\ run' = Landed(run)
       ELSE Refused /\ UNCHANGED reg
    /\ UNCHANGED <<op, build, disk, comp, known, handoff, service, receipt, snap, work, found, faults>>

-----------------------------------------------------------------------------
(* restore_prior_runtime, the compensation of four steps                   *)

Undoing == run.pc = "undoing"
OneTree == snap.targetTree = snap.activeTree
Reversed == Arrangement = IF OneTree THEN "COMPLETE" ELSE "ABSENT"

ReverseExchange ==
    /\ Undoing /\ Arrangement = "COMPLETE" /\ ~ OneTree
    /\ Swap
    /\ UNCHANGED <<op, run, build, reg, comp, known, handoff, service, receipt, snap, work, found,
                   faults>>

RestoreLocations ==
    /\ Undoing /\ Reversed /\ reg # Locations(FALSE)
    /\ reg' = Locations(FALSE)
    /\ UNCHANGED <<op, run, build, disk, comp, known, handoff, service, receipt, snap, work, found,
                   faults>>

RestoreHandoff ==
    /\ Undoing /\ Reversed /\ reg = Locations(FALSE)
    /\ handoff # snap.handoff /\ handoff.component = build[snap.targetTree]
    /\ handoff' = snap.handoff
    /\ UNCHANGED <<op, run, build, disk, reg, comp, known, service, receipt, snap, work, found,
                   faults>>

\* record_restoration and the known-good row, in one transaction.
RestoreComponent ==
    /\ Undoing /\ Reversed /\ reg = Locations(FALSE) /\ handoff = snap.handoff
    /\ comp.promoted # snap.promoted /\ comp.promoted = build[snap.targetTree]
    /\ comp' = [promoted |-> snap.promoted, rollback |-> snap.rollback,
                promotedTree |-> IF snap.promoted = None THEN None ELSE snap.activeTree,
                rollbackTree |-> snap.rollbackTree, generation |-> comp.generation + 1,
                op |-> comp.op]
    /\ known' = snap.known
    /\ UNCHANGED <<op, run, build, disk, reg, handoff, service, receipt, snap, work, found, faults>>

\* The service as it was, and the final observation.
RestoreService ==
    /\ Undoing /\ Reversed /\ reg = Locations(FALSE) /\ handoff = snap.handoff
    /\ comp.promoted = snap.promoted /\ known = snap.known
    /\ IF snap.serving THEN Launch(snap.handoff)
       ELSE service' = [service EXCEPT !.build = None] /\ UNCHANGED receipt
    /\ run' = [run EXCEPT !.pc = "undone"]
    /\ UNCHANGED <<op, build, disk, reg, comp, known, handoff, snap, work, found, faults>>

Restored ==
    /\ run.pc = "undone"
    /\ run' = IF RestorationProbe = "COMPLETE" THEN Undone(run) ELSE UndoFailed(run)
    /\ UNCHANGED <<op, stepVars, found, faults>>

\* What makes restore_prior_runtime give up: a foreign tree, handoff or promotion.
Unrecognized ==
    \/ Arrangement = "UNCERTAIN_MANUAL"
    \/ Reversed /\ handoff # snap.handoff /\ handoff.component # build[snap.targetTree]
    \/ Reversed /\ comp.promoted \notin {snap.promoted, build[snap.targetTree]}

-----------------------------------------------------------------------------

Now == [active |-> disk[0], promoted |-> comp.promoted, rollback |-> comp.rollback,
        known |-> known, handoff |-> handoff]

\* The next operation: an update to a new candidate, or a rollback to the
\* component's rollback build.
Start ==
    /\ run.end \notin {"none", "RECOVERY_REQUIRED"} /\ op.n < Updates
    /\ \E kind \in {"update", "rollback"} :
         /\ kind = "rollback" => comp.rollback # None
         /\ op' = [n |-> op.n + 1, kind |-> kind, target |-> comp.rollback]
    /\ run' = Queued /\ work' = "none" /\ found' = [now |-> Now, serving |-> service.build]
    /\ UNCHANGED <<build, disk, reg, comp, known, handoff, service, receipt, snap, faults>>

\* A runtime nobody has registered, served by a handoff of schema 1.
Init ==
    /\ op = [n |-> 0, kind |-> "update", target |-> None]
    /\ run = [Queued EXCEPT !.end = "SUCCEEDED"]
    /\ build = [t \in Trees |-> t]
    /\ disk = [l \in Trees |-> IF l = 0 THEN 0 ELSE None]
    /\ reg = [t \in Trees |-> None]
    /\ comp = [promoted |-> None, rollback |-> None, promotedTree |-> None, rollbackTree |-> None,
               generation |-> 1, op |-> 0]
    /\ known = None
    /\ handoff = [component |-> None, op |-> 0]
    /\ service = [build |-> 0, new |-> FALSE]
    /\ receipt = [build |-> None, op |-> 0]
    /\ snap = None /\ work = "none"
    /\ found = [now |-> Now, serving |-> 0]
    /\ faults = 0

Activation == Capture \/ Exchange \/ PublishHandoff \/ Restart \/ VerifyRuntime
              \/ RecordLocations \/ Promote \/ Finalize
Construction == ResolveSource \/ Skip \/ RecoverSkipped \/ ResolveRollbackTarget \/ PreflightBuild \/ PreflightRollback
                \/ Fetch \/ Configure \/ Compile \/ WriteManifest
                \/ RegisterCandidate \/ RecoverCompilation \/ Smoke
Restoration == ReverseExchange \/ RestoreLocations \/ RestoreHandoff \/ RestoreComponent
               \/ RestoreService \/ Restored

Next == Start \/ Engine \/ Misfortune \/ Cancel \/ ServiceFails
        \/ Construction \/ Activation \/ Restoration

TreesSpec == Init /\ [][Next]_treesVars

-----------------------------------------------------------------------------

\* Between operations the registry says where every registered tree is, exactly one
\* of them in the active root (_record_pair_locations, after any mixture of
\* crashes, failures and restorations).
RegistryTrue ==
    run.end \notin {"none", "RECOVERY_REQUIRED"} =>
        /\ \A t \in Rows : disk[reg[t].loc] = t
        /\ \A t \in Rows : reg[t].role = "ACTIVE_OBSERVED" => reg[t].loc = 0

\* The component's rollback build can be rolled back to: its tree is registered and
\* where its row says (promote_verified_runtime, restore_prior_runtime).
RollbackTargetKept ==
    run.end \notin {"none", "RECOVERY_REQUIRED"} /\ comp.rollback # None =>
        /\ comp.rollbackTree \in Rows /\ reg[comp.rollbackTree].loc # 0
        /\ build[comp.rollbackTree] = comp.rollback

\* Whatever operations came and went, the next rollback finds its tree.
TreesKept == RegistryTrue /\ RollbackTargetKept

\* When observe_invocation says that a new invocation is proven, the server that
\* runs was launched from the target's tree.
InvocationProven ==
    run.end = "none" /\ snap # None /\ run.pc \in {"probe", "verify", "effect"}
        /\ At \in {"restart", "verify", "promote"} /\ InvocationProbe = "COMPLETE"
    => service.build = Target

\* A successful operation leaves tree, component, known-good row, handoff and the
\* running server, if none crashed since, on one build.
SuccessAgrees ==
    /\ InvocationProven
    /\ run.end = "SUCCEEDED" /\ op.n > 0 =>
           /\ Active = Target /\ comp.promoted = Target /\ known = Target
           /\ handoff.component = Target
           /\ service.build \in {Target, None}

\* restore_prior_runtime recognizes whatever a death or a failure left it.
RestorationRecognizes == Undoing => ~ Unrecognized

\* An operation that failed safe, was rolled back or was cancelled gave the machine
\* back as it was (restore_prior_runtime), and what serves, if the server did not
\* crash meanwhile, is the runtime it found; or the candidate, if it ran when a
\* restoration was interrupted: observe_restoration asks whether a server answers, not
\* which.
FailureRestores ==
    /\ RestorationRecognizes
    /\ run.end = "FAILED_SAFE" =>
           Now = found.now /\ service.build \in {None, Active, found.serving}
    /\ run.end \in {"FAILED_ROLLED_BACK", "CANCELLED"} =>
           Now = found.now /\ service.build \in {None, Active, found.serving, Target}

TypeOK ==
    /\ work \in Work /\ handoff \in Handoff /\ comp \in Component
    /\ build \in [Trees -> Trees \cup {None}] /\ disk \in [Trees -> Trees \cup {None}]

\* Whatever ends without a barrier, whichever way, leaves one runtime everywhere, and
\* the registry with it.
TreesSound == TypeOK /\ TreesKept /\ SuccessAgrees /\ FailureRestores

=============================================================================
