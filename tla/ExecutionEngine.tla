--------------------------- MODULE ExecutionEngine ---------------------------
(***************************************************************************)
(* The durable operation engine (operations/engine.py): how workers claim  *)
(* operations, drive their steps through intent, effect, checkpoint and    *)
(* verification, and end them, over the three tables operations,           *)
(* operation_steps and operation_leases, while processes die, effects fail *)
(* and users cancel.                                                       *)
(*                                                                         *)
(* Each action is one database transaction (BEGIN IMMEDIATE: transactions  *)
(* are serial), or one external call: an effect, a probe, a verification,  *)
(* a compensation.  run[w].pc names what the worker does next.             *)
(*                                                                         *)
(* A lease row carries no revision: by theorem RevisionIsImplied           *)
(* (LeasesProofs), operation and owner already identify the grant.         *)
(***************************************************************************)
EXTENDS Workflows, FiniteSets, FiniteSetsExt

CONSTANTS Workers,    \* worker ids
          Ops,        \* operation ids
          Catalog,    \* the registry: operation type -> workflow definition
          Unavailable,\* operation types of an application version not installed here
          NoOp, NoLease,
          Slow,       \* the points at which a worker may outlive its lease
          MayCancel,  \* whether users cancel operations
          MaxFaults   \* bound: crashes, failures, shutdowns and refusals in a behaviour

\* What the frozen registry guarantees: steps in declaration order from 1, at least
\* one key to claim first, and a barrier set of keys the steps use.
ASSUME CatalogAssumption ==
    \A k \in DOMAIN Catalog :
        /\ Len(Catalog[k].steps) \in Nat \ {0}
        /\ DOMAIN Catalog[k].steps = 1..Len(Catalog[k].steps)
        /\ InitialResources(Catalog[k]) # {}
        /\ BarrierResources(Catalog[k]) \subseteq AllResources(Catalog[k])

\* Probes answer with recovery classes, and that of a step that does something has
\* more to say than COMPLETE.
ASSUME ProbeAssumption ==
    \A k \in DOMAIN Catalog : \A i \in DOMAIN Catalog[k].steps :
        LET s == Catalog[k].steps[i] IN
        /\ s.probe \subseteq RecoveryClass /\ s.restored \subseteq RecoveryClass
        /\ "inert" \notin s.flags => s.probe \ {"COMPLETE"} # {}

\* The steps a roll-back undoes once they have begun, and among them those whose
\* effect others can see.
Compensates(s) ==
    /\ "undo" \in s.flags /\ "forward" \notin s.flags
    /\ "visible" \in s.flags \/ "critical" \in s.flags
Reverses(s) == {"visible", "undo"} \subseteq s.flags /\ s.flags \cap {"forward", "inert"} = {}

\* What compensation relies on, and every registered workflow has: phases only add
\* keys, and the first phase and the barrier set hold what may have to be undone; no
\* forward-only step follows a visible reversible one; such a step is not left to a
\* finalizer, its restoration is really probed, and its probe does not take its effect
\* for residue (or cannot tell, but then an earlier step is undone anyway).
ASSUME CompensationAssumption ==
    \A k \in DOMAIN Catalog : \A i \in DOMAIN Catalog[k].steps :
        LET wf == Catalog[k]
            s == wf.steps[i]
            Earlier == {wf.steps[j] : j \in {n \in DOMAIN wf.steps : n < i}}
        IN
        /\ "phased" \in wf.traits => \A e \in Earlier : e.resources \subseteq s.resources
        /\ Compensates(s) => s.resources \subseteq InitialResources(wf) \cup BarrierResources(wf)
        /\ "forward" \in s.flags /\ "inert" \notin s.flags => \A e \in Earlier : ~ Reverses(e)
        /\ Reverses(s) =>
             /\ "finalizer" \notin wf.traits
             /\ s.restored # {"COMPLETE"}
             /\ "DISCARDABLE" \notin s.probe
             /\ s.probe \subseteq {"ABSENT", "PARTIALLY_RESUMABLE"} =>
                  \E e \in Earlier : Compensates(e)

ASSUME NullAssumption ==
    /\ NoOp \notin Ops
    /\ NoLease \notin [op : Ops, owner : Workers, live : BOOLEAN] \cup [op : Ops, live : BOOLEAN]
ASSUME FaultsAssumption == MaxFaults \in Nat

VARIABLES
    kind,      \* operation -> its operation_type, fixed at enqueue
    opState,   \* operations.state
    stepState, \* operation_steps.state
    effect,    \* what the outside world holds of a step: none, part or done of it
    lease,     \* operation_leases
    run,       \* per worker: the local state of execute_one
    faults     \* faults that have happened

vars == <<kind, opState, stepState, effect, lease, run, faults>>

Resources == UNION {AllResources(Catalog[k]) : k \in DOMAIN Catalog}

Pcs == {"idle", "claim", "preflight", "enter", "loop", "acquire", "intent", "probe",
        "recovered", "reverify", "critical", "effect", "checkpoint", "verify", "exit",
        "failed", "roll_back", "fail_safe", "require", "pause", "honor", "cancelled",
        "comp_read", "comp", "undo", "restored", "finalize", "complete"}

Idle == [pc |-> "idle", op |-> NoOp, held |-> {}, at |-> 0, seen |-> "QUEUED",
         todo |-> {}, bad |-> FALSE, cancelled |-> FALSE]

-----------------------------------------------------------------------------
(* What a run looks at.                                                    *)

Workflow(o) == Catalog[kind[o]]
Steps(o) == DOMAIN Workflow(o).steps
Step(o, i) == Workflow(o).steps[i]
Has(o, i, flag) == flag \in Step(o, i).flags

Op(w) == run[w].op
At(w) == run[w].at
Mine(w, flag) == Has(Op(w), At(w), flag)
Row(w) == stepState[Op(w)][At(w)]

\* _fence: assert_owned for every held key.
Fence(w) ==
    \A r \in run[w].held : lease[r] = [op |-> Op(w), owner |-> w, live |-> TRUE]

\* Variant of Durable: a step interrupted before its checkpoint is forgotten.
DurableCheckpointed(o) ==
    {i \in Steps(o) :
        /\ Compensates(Step(o, i))
        /\ stepState[o][i] \in {"CHECKPOINTED", "VERIFIED", "COMPENSATING"}}

\* _durable_compensation_set
Durable(o) ==
    {i \in Steps(o) :
        /\ Compensates(Step(o, i))
        /\ stepState[o][i] \in {"RUNNING", "CHECKPOINTED", "VERIFIED", "COMPENSATING"}}

\* Variant of Unverified: a checkpoint counts as verification.
Unfinished(o) == {i \in Steps(o) : stepState[o][i] \notin {"CHECKPOINTED", "VERIFIED"}}

\* The steps still to do; the loop takes the first.
Unverified(o) == {i \in Steps(o) : stepState[o][i] # "VERIFIED"}

\* An honest probe: it says COMPLETE only of a finished effect, and does not
\* call a finished or half-done effect absent, as far as it can tell them
\* apart (a probe with one answer gives that answer).
Observed(s, real) ==
    LET truthful == s.probe \
          CASE real = "none" -> {"COMPLETE"}
            [] real = "part" -> {"COMPLETE", "ABSENT"}
            [] real = "done" -> {"ABSENT", "PARTIALLY_RESUMABLE", "DISCARDABLE"}
    IN IF truthful = {} THEN s.probe ELSE truthful

\* probe_restoration, equally honest.
ObservedRestoration(s, real) ==
    IF real = "none" \/ s.restored = {"COMPLETE"} THEN s.restored
    ELSE s.restored \ {"COMPLETE"}

\* Whether an interrupted effect can be half done: its probe would say so.
Divisible(s) == s.probe \ Present # {}

-----------------------------------------------------------------------------
(* How actions change the state.                                           *)

Goto(w, pc) == run' = [run EXCEPT ![w].pc = pc]

\* execute_one returns or raises.
Quit(w) == run' = [run EXCEPT ![w] = Idle]

Fault == faults < MaxFaults /\ faults' = faults + 1

Free(rs) == [r \in Resources |-> IF r \in rs THEN NoLease ELSE lease[r]]

\* Variant of Acquirable: the operation's live rows may be taken over too.
AcquirableReentrant(r) ==
    lease[r] # NoLease => opState[lease[r].op] # "RECOVERY_REQUIRED"

\* A free key, or an expired one that no RECOVERY_REQUIRED operation retains
\* (LeaseRepository.acquire).
Acquirable(r) ==
    lease[r] # NoLease => ~ lease[r].live /\ opState[lease[r].op] # "RECOVERY_REQUIRED"

\* availability: a key an operation other than o occupies.
Foreign(r, o) ==
    lease[r] # NoLease /\ lease[r].op # o
    /\ (lease[r].live \/ opState[lease[r].op] = "RECOVERY_REQUIRED")

Acquired(w, o, rs) ==
    [r \in Resources |-> IF r \in rs THEN [op |-> o, owner |-> w, live |-> TRUE] ELSE lease[r]]

SetState(w, target) == opState' = [opState EXCEPT ![Op(w)] = target]
SetRow(w, i, state) == stepState' = [stepState EXCEPT ![Op(w)][i] = state]
SetEffect(w, i, real) == effect' = [effect EXCEPT ![Op(w)][i] = real]

\* compare_and_transition / record_terminal_result: refused outside the table.
CanMove(w, target) == CanTransition(opState[Op(w)], target)

-----------------------------------------------------------------------------
(* _claim                                                                  *)

\* Variant of ClaimRead: terminal operations are not skipped.
ClaimReadAny(w, o) ==
    /\ run[w].pc = "idle"
    /\ opState[o] # "PAUSED"
    /\ run' = [run EXCEPT ![w] = [Idle EXCEPT !.pc = "claim", !.op = o, !.seen = opState[o]]]
    /\ UNCHANGED <<kind, opState, stepState, effect, lease, faults>>

\* The first transaction reads the operation; what it read is used after it.
ClaimRead(w, o) ==
    /\ run[w].pc = "idle"
    /\ opState[o] \notin Terminal \cup {"PAUSED"}
    /\ run' = [run EXCEPT ![w] = [Idle EXCEPT !.pc = "claim", !.op = o, !.seen = opState[o]]]
    /\ UNCHANGED <<kind, opState, stepState, effect, lease, faults>>

\* No executor for the durable version: an operation seen before its first
\* effect pauses, others are left to a newer application.
WorkflowVersionUnavailable(w) ==
    /\ run[w].pc = "claim"
    /\ kind[Op(w)] \in Unavailable
    /\ IF run[w].seen \in {"QUEUED", "PREPARING"} /\ CanMove(w, "PAUSED")
       THEN SetState(w, "PAUSED") ELSE UNCHANGED opState
    /\ Quit(w)
    /\ UNCHANGED <<kind, stepState, effect, lease, faults>>

\* Variant of Desired: a resumed roll-back claims only the first phase.
DesiredInitial(w) == InitialResources(Workflow(Op(w)))

\* What the claim acquires; a roll-back also needs the barrier set.
Desired(w) ==
    InitialResources(Workflow(Op(w)))
    \cup (IF run[w].seen = "ROLLING_BACK" THEN BarrierResources(Workflow(Op(w))) ELSE {})

\* The advisory look at everything the workflow will ever need, then
\* acquire_many of what the claim needs.
MayClaim(w) ==
    /\ \A r \in AllResources(Workflow(Op(w))) : ~ Foreign(r, Op(w))
    /\ \A r \in Desired(w) : Acquirable(r)

ClaimBusy(w) ==
    /\ run[w].pc = "claim"
    /\ kind[Op(w)] \notin Unavailable
    /\ ~ MayClaim(w)
    /\ Quit(w)
    /\ UNCHANGED <<kind, opState, stepState, effect, lease, faults>>

Claim(w) ==
    /\ run[w].pc = "claim"
    /\ kind[Op(w)] \notin Unavailable
    /\ MayClaim(w)
    /\ lease' = Acquired(w, Op(w), Desired(w))
    /\ run' = [run EXCEPT ![w] = [@ EXCEPT !.pc = "preflight", !.held = Desired(w)]]
    /\ UNCHANGED <<kind, opState, stepState, effect, faults>>

Preflight(w) ==
    /\ run[w].pc = "preflight"
    /\ Goto(w, "enter")
    /\ UNCHANGED <<kind, opState, stepState, effect, lease, faults>>

PreflightFails(w) ==
    /\ run[w].pc = "preflight"
    /\ "preflight" \in Workflow(Op(w)).traits
    /\ Fault
    /\ Goto(w, "fail_safe")
    /\ UNCHANGED <<kind, opState, stepState, effect, lease>>

-----------------------------------------------------------------------------
(* _execute: the loop                                                      *)

Enter(w) ==
    /\ run[w].pc = "enter"
    /\ Goto(w, IF opState[Op(w)] = "ROLLING_BACK" THEN "comp_read" ELSE "loop")
    /\ UNCHANGED <<kind, opState, stepState, effect, lease, faults>>

\* Cancellation waits while a critical step's row is RUNNING.
SafeToCancel(w, i) ==
    ~ (Has(Op(w), i, "critical") /\ stepState[Op(w)][i] = "RUNNING")

\* One pass of the loop: what the fenced read leads to.
LoopDone(w) ==
    /\ run[w].pc = "loop" /\ Fence(w)
    /\ Unverified(Op(w)) = {}
    /\ Goto(w, "complete")
    /\ UNCHANGED <<kind, opState, stepState, effect, lease, faults>>

CancelDue(w, i) == opState[Op(w)] = "CANCEL_REQUESTED" /\ SafeToCancel(w, i)

LoopCancel(w) ==
    /\ run[w].pc = "loop" /\ Fence(w)
    /\ Unverified(Op(w)) # {}
    /\ CancelDue(w, Min(Unverified(Op(w))))
    /\ Goto(w, "honor")
    /\ UNCHANGED <<kind, opState, stepState, effect, lease, faults>>

LoopShutdown(w) ==
    /\ run[w].pc = "loop" /\ Fence(w)
    /\ Unverified(Op(w)) # {}
    /\ opState[Op(w)] \in {"RUNNING", "PREPARING", "VERIFYING"}
    /\ Fault
    /\ Goto(w, "pause")
    /\ UNCHANGED <<kind, opState, stepState, effect, lease>>

LoopStep(w) ==
    LET i == Min(Unverified(Op(w))) IN
    /\ run[w].pc = "loop" /\ Fence(w)
    /\ Unverified(Op(w)) # {}
    /\ ~ CancelDue(w, i)
    /\ run' = [run EXCEPT ![w] = [@ EXCEPT !.at = i, !.pc = "acquire"]]
    /\ UNCHANGED <<kind, opState, stepState, effect, lease, faults>>

\* The step's missing resources, all or none; a conflict pauses.  Then
\* _advance_step goes by the row the loop read.
AcquirePhase(w) ==
    LET missing == Step(Op(w), At(w)).resources \ run[w].held
        next == IF Row(w) = "CHECKPOINTED" THEN "reverify" ELSE "intent"
    IN
    /\ run[w].pc = "acquire"
    /\ IF missing = {}
       THEN Goto(w, next) /\ UNCHANGED lease
       ELSE IF Fence(w) /\ \A r \in missing : Acquirable(r)
       THEN /\ lease' = Acquired(w, Op(w), missing)
            /\ run' = [run EXCEPT ![w] = [@ EXCEPT !.pc = next, !.held = run[w].held \cup missing]]
       ELSE Goto(w, "pause") /\ UNCHANGED lease
    /\ UNCHANGED <<kind, opState, stepState, effect, faults>>

-----------------------------------------------------------------------------
(* _intent_transaction and recovery of an interrupted step                 *)

\* Variant of EnsureRunning: only the first hop.
EnsurePreparing(w) ==
    /\ run[w].pc = "intent" /\ Fence(w)
    /\ opState[Op(w)] = "QUEUED"
    /\ SetState(w, "PREPARING")
    /\ UNCHANGED <<kind, stepState, effect, lease, run, faults>>

\* _ensure_running: one transaction per hop.
EnsureRunning(w) ==
    /\ run[w].pc = "intent" /\ Fence(w)
    /\ opState[Op(w)] \in {"QUEUED", "PREPARING"}
    /\ SetState(w, IF opState[Op(w)] = "QUEUED" THEN "PREPARING" ELSE "RUNNING")
    /\ UNCHANGED <<kind, stepState, effect, lease, run, faults>>

IntentLegal(w) == Row(w) \in {"PENDING", "RUNNING"}

\* Variant of Intent: a reclaimed step is executed without a probe.
IntentBlind(w) ==
    /\ run[w].pc = "intent" /\ Fence(w)
    /\ opState[Op(w)] \notin {"QUEUED", "PREPARING"}
    /\ IntentLegal(w)
    /\ SetRow(w, At(w), "RUNNING")
    /\ Goto(w, IF Mine(w, "critical") THEN "critical" ELSE "effect")
    /\ UNCHANGED <<kind, opState, effect, lease, faults>>

\* steps.start: PENDING becomes RUNNING; a RUNNING row is reclaimed under the
\* same effect id and is probed before anything is executed.
Intent(w) ==
    /\ run[w].pc = "intent" /\ Fence(w)
    /\ opState[Op(w)] \notin {"QUEUED", "PREPARING"}
    /\ IntentLegal(w)
    /\ SetRow(w, At(w), "RUNNING")
    /\ Goto(w, IF Row(w) = "RUNNING" THEN "probe"
               ELSE IF Mine(w, "critical") THEN "critical" ELSE "effect")
    /\ UNCHANGED <<kind, opState, effect, lease, faults>>

\* The probe, the fenced RECOVERY_DECISION event and the branch taken.
ProbeDecides(w) ==
    /\ run[w].pc = "probe" /\ Fence(w)
    /\ \E class \in Observed(Step(Op(w), At(w)), effect[Op(w)][At(w)]) :
         LET action == DecideRecovery(class, Mine(w, "quiescent")) IN
         Goto(w, CASE action = "VERIFY" -> "recovered"
                   [] action \in {"EXECUTE", "RESUME", "DISCARD_AND_RETRY"} ->
                        (IF Mine(w, "critical") THEN "critical" ELSE "effect")
                   [] action = "ROLL_BACK" -> "roll_back"
                   [] action = "PAUSE" -> "pause"
                   [] action = "REQUIRE_RECOVERY" -> "require")
    /\ UNCHANGED <<kind, opState, stepState, effect, lease, faults>>

\* A COMPLETE probe checkpoints the step without executing it again.
Recovered(w) ==
    /\ run[w].pc = "recovered" /\ Fence(w)
    /\ Row(w) = "RUNNING"
    /\ SetRow(w, At(w), "CHECKPOINTED")
    /\ Goto(w, "reverify")
    /\ UNCHANGED <<kind, opState, effect, lease, faults>>

\* Verification of a step this run did not execute; the critical section, if
\* the dead worker was in it, is not left.
Reverify(w) ==
    /\ run[w].pc = "reverify" /\ Fence(w)
    /\ Row(w) = "CHECKPOINTED"
    /\ SetRow(w, At(w), "VERIFIED")
    /\ Goto(w, "loop")
    /\ UNCHANGED <<kind, opState, effect, lease, faults>>

-----------------------------------------------------------------------------
(* _execute_effect                                                         *)

\* Variant of EnterCritical: VERIFYING, after an earlier critical step, is
\* taken for the critical section.
EnterCriticalOnce(w) ==
    /\ run[w].pc = "critical" /\ Fence(w)
    /\ \/ /\ opState[Op(w)] = "CANCEL_REQUESTED"
          /\ Goto(w, "honor")
          /\ UNCHANGED opState
       \/ /\ opState[Op(w)] \in {"COMMITTING", "VERIFYING", "RUNNING"}
          /\ SetState(w, IF opState[Op(w)] = "RUNNING" THEN "COMMITTING" ELSE opState[Op(w)])
          /\ Goto(w, "effect")
    /\ UNCHANGED <<kind, stepState, effect, lease, faults>>

\* _enter_critical
EnterCritical(w) ==
    /\ run[w].pc = "critical" /\ Fence(w)
    /\ \/ /\ opState[Op(w)] = "CANCEL_REQUESTED"
          /\ Goto(w, "honor")
          /\ UNCHANGED opState
       \/ /\ opState[Op(w)] = "COMMITTING" \/ CanMove(w, "COMMITTING")
          /\ SetState(w, "COMMITTING")
          /\ Goto(w, "effect")
    /\ UNCHANGED <<kind, stepState, effect, lease, faults>>

\* The outside world changes while execute() runs.
EffectBegins(w) ==
    /\ run[w].pc = "effect"
    /\ Divisible(Step(Op(w), At(w)))
    /\ effect[Op(w)][At(w)] = "none"
    /\ SetEffect(w, At(w), "part")
    /\ UNCHANGED <<kind, opState, stepState, lease, run, faults>>

EffectDone(w) ==
    /\ run[w].pc = "effect"
    /\ SetEffect(w, At(w), "done")
    /\ Goto(w, "checkpoint")
    /\ UNCHANGED <<kind, opState, stepState, lease, faults>>

\* execute() raises, before or after its mutation; an error that carries
\* requires_recovery ends in a barrier whatever the probe says.
EffectFails(w) ==
    /\ run[w].pc = "effect"
    /\ ~ Mine(w, "inert")
    /\ Fault
    /\ \E real \in {effect[Op(w)][At(w)], "done"} : SetEffect(w, At(w), real)
    /\ \/ Goto(w, "failed")
       \/ Mine(w, "ambiguous") /\ Goto(w, "require")
    /\ UNCHANGED <<kind, opState, stepState, lease>>

\* A cancellation-safe pulse inside a hidden effect sees CANCEL_REQUESTED.
EffectCancelled(w) ==
    /\ run[w].pc = "effect" /\ Fence(w)
    /\ Mine(w, "polls")
    /\ opState[Op(w)] = "CANCEL_REQUESTED"
    /\ Goto(w, "honor")
    /\ UNCHANGED <<kind, opState, stepState, effect, lease, faults>>

Checkpoint(w) ==
    /\ run[w].pc = "checkpoint" /\ Fence(w)
    /\ Row(w) = "RUNNING"
    /\ SetRow(w, At(w), "CHECKPOINTED")
    /\ Goto(w, "verify")
    /\ UNCHANGED <<kind, opState, effect, lease, faults>>

Verify(w) ==
    /\ run[w].pc = "verify" /\ Fence(w)
    /\ Row(w) = "CHECKPOINTED"
    /\ SetRow(w, At(w), "VERIFIED")
    /\ Goto(w, IF Mine(w, "critical") THEN "exit" ELSE "loop")
    /\ UNCHANGED <<kind, opState, effect, lease, faults>>

VerifyFails(w) ==
    /\ run[w].pc = "verify"
    /\ ~ Mine(w, "inert")
    /\ Fault
    /\ Goto(w, "failed")
    /\ UNCHANGED <<kind, opState, stepState, effect, lease>>

ExitCritical(w) ==
    /\ run[w].pc = "exit" /\ Fence(w)
    /\ opState[Op(w)] = "COMMITTING"
    /\ SetState(w, "VERIFYING")
    /\ Goto(w, "loop")
    /\ UNCHANGED <<kind, stepState, effect, lease, faults>>

-----------------------------------------------------------------------------
(* _handle_failure, _compensate_and_finalize, _honor_cancellation          *)

\* Whether a failure of step i of o, probed as class, is rolled back.
RollsBack(o, i, class) ==
    LET others == Durable(o) \ {i} IN
    /\ class \notin {"ABSENT", "DISCARDABLE"} \/ others # {}
    /\ ~ Has(o, i, "forward")
    /\ "finalizer" \notin Workflow(o).traits
    /\ others # {} \/ Has(o, i, "undo")

\* A probe that raises counts as UNCERTAIN_MANUAL.  The step that failed is
\* compensated too, even when its effect was hidden (also=[step]).
Failed(w) ==
    /\ run[w].pc = "failed"
    /\ \E class \in Observed(Step(Op(w), At(w)), effect[Op(w)][At(w)]) \cup {"UNCERTAIN_MANUAL"} :
         run' = [run EXCEPT ![w] = [@ EXCEPT
                   !.pc = IF RollsBack(Op(w), At(w), class) THEN "roll_back" ELSE "fail_safe",
                   !.todo = {i \in {At(w)} : Mine(w, "undo")}]]
    /\ UNCHANGED <<kind, opState, stepState, effect, lease, faults>>

RollBack(w) ==
    /\ run[w].pc = "roll_back" /\ Fence(w)
    /\ CanMove(w, "ROLLING_BACK")
    /\ SetState(w, "ROLLING_BACK")
    /\ Goto(w, "comp_read")
    /\ UNCHANGED <<kind, stepState, effect, lease, faults>>

Honor(w) ==
    /\ run[w].pc = "honor"
    /\ run' = [run EXCEPT ![w] = [@ EXCEPT
                 !.pc = IF \/ "finalizer" \in Workflow(Op(w)).traits
                           \/ Durable(Op(w)) = {}
                        THEN "cancelled" ELSE "comp_read",
                 !.todo = {},
                 !.cancelled = TRUE]]
    /\ UNCHANGED <<kind, opState, stepState, effect, lease, faults>>

CompensationRead(w) ==
    /\ run[w].pc = "comp_read"
    /\ run' = [run EXCEPT ![w] = [@ EXCEPT !.pc = "comp", !.todo = run[w].todo \cup Durable(Op(w))]]
    /\ UNCHANGED <<kind, opState, stepState, effect, lease, faults>>

\* Variant of Last: compensation in execution order.
First(w) == Min(run[w].todo)

\* The step compensated next: reverse execution order.
Last(w) == Max(run[w].todo)

\* The rest of the loop's body is skipped for step i.
Skip(w, failed) ==
    run' = [run EXCEPT ![w] = [@ EXCEPT !.pc = "comp", !.todo = run[w].todo \ {Last(w)},
                                        !.bad = run[w].bad \/ failed]]

\* begin_compensation, and on to compensate().
BeginCompensation(w) ==
    /\ run[w].pc = "comp" /\ Fence(w)
    /\ run[w].todo # {}
    /\ stepState[Op(w)][Last(w)] \in {"RUNNING", "CHECKPOINTED", "VERIFIED"}
    /\ SetRow(w, Last(w), "COMPENSATING")
    /\ Goto(w, "undo")
    /\ UNCHANGED <<kind, opState, effect, lease, faults>>

\* An interrupted compensation: its restoration probe decides.
ResumeCompensation(w) ==
    LET s == Step(Op(w), Last(w))
        Answers(class) == class \in ObservedRestoration(s, effect[Op(w)][Last(w)])
    IN
    /\ run[w].pc = "comp" /\ Fence(w)
    /\ run[w].todo # {}
    /\ stepState[Op(w)][Last(w)] = "COMPENSATING"
    /\ \/ /\ s.restored = {} \/ \E class \in s.restored \ {"COMPLETE", "UNCERTAIN_MANUAL"} : Answers(class)
          /\ Goto(w, "undo")
          /\ UNCHANGED stepState
       \/ /\ Answers("COMPLETE")
          /\ SetRow(w, Last(w), "COMPENSATED")
          /\ Skip(w, FALSE)
       \/ /\ Answers("UNCERTAIN_MANUAL")
          /\ run' = [run EXCEPT ![w] = [@ EXCEPT !.pc = "finalize", !.bad = TRUE]]
          /\ UNCHANGED stepState
    /\ UNCHANGED <<kind, opState, effect, lease, faults>>

CompensateDone(w) ==
    /\ run[w].pc = "undo"
    /\ SetEffect(w, Last(w), "none")
    /\ Goto(w, "restored")
    /\ UNCHANGED <<kind, opState, stepState, lease, faults>>

\* compensate() or verify_restoration() raises; the loop goes on.
CompensateFails(w) ==
    /\ run[w].pc = "undo"
    /\ Fault
    /\ Skip(w, TRUE)
    /\ UNCHANGED <<kind, opState, stepState, effect, lease>>

Restored(w) ==
    /\ run[w].pc = "restored" /\ Fence(w)
    /\ stepState[Op(w)][Last(w)] = "COMPENSATING"
    /\ SetRow(w, Last(w), "COMPENSATED")
    /\ Skip(w, FALSE)
    /\ UNCHANGED <<kind, opState, effect, lease, faults>>

CompensationDone(w) ==
    /\ run[w].pc = "comp"
    /\ run[w].todo = {}
    /\ Goto(w, "finalize")
    /\ UNCHANGED <<kind, opState, stepState, effect, lease, faults>>

-----------------------------------------------------------------------------
(* The transactions that end a run.                                        *)

Outcome(w) ==
    CASE run[w].pc = "fail_safe" -> {"FAILED_SAFE"}
      [] run[w].pc = "require"   -> {"RECOVERY_REQUIRED"}
      [] run[w].pc = "pause"     -> {"PAUSED"}
      [] run[w].pc = "cancelled" -> {"CANCELLED"}
      [] run[w].pc = "complete"  -> TerminalDecision(Workflow(Op(w)))
      [] run[w].pc = "finalize"  -> IF run[w].bad THEN {"RECOVERY_REQUIRED"}
                                    ELSE IF run[w].cancelled THEN {"CANCELLED"}
                                    ELSE {"FAILED_ROLLED_BACK"}
      [] OTHER -> {}

\* _complete enters COMMITTING in the same transaction.
OutcomeLegal(w, target) ==
    IF run[w].pc = "complete"
    THEN opState[Op(w)] = "COMMITTING" \/ CanMove(w, "COMMITTING")
    ELSE CanMove(w, target)

\* Variant of EndRun: RECOVERY_REQUIRED releases its leases like the others.
EndRunReleasing(w) ==
    \E target \in Outcome(w) :
        /\ Fence(w)
        /\ OutcomeLegal(w, target)
        /\ SetState(w, target)
        /\ lease' = Free(run[w].held)
        /\ Quit(w)
        /\ UNCHANGED <<kind, stepState, effect, faults>>

\* _fail_safe, _pause, _complete, the terminal transactions of cancellation
\* and compensation: leases are released unless they become a barrier.
EndRun(w) ==
    \E target \in Outcome(w) :
        /\ Fence(w)
        /\ OutcomeLegal(w, target)
        /\ SetState(w, target)
        /\ lease' = IF target = "RECOVERY_REQUIRED" THEN lease ELSE Free(run[w].held)
        /\ Quit(w)
        /\ UNCHANGED <<kind, stepState, effect, faults>>

Fenced == {"loop", "intent", "probe", "recovered", "reverify", "critical", "checkpoint",
           "verify", "exit", "roll_back", "fail_safe", "require", "pause", "cancelled",
           "comp", "restored", "finalize", "complete"}

\* A transaction that raises leaves execute_one with the leases still held:
\* the fence is lost, a row is not in the state expected, or the transition
\* is not in the table.  (A run that loses its fence never gets it back, so
\* what handlers in between do comes to the same.)
Illegal(w) ==
    \/ run[w].pc \in Fenced /\ ~ Fence(w)
    \/ run[w].pc = "intent" /\ ~ IntentLegal(w) /\ opState[Op(w)] \notin {"QUEUED", "PREPARING"}
    \/ run[w].pc \in {"recovered", "checkpoint"} /\ Row(w) # "RUNNING"
    \/ run[w].pc \in {"reverify", "verify"} /\ Row(w) # "CHECKPOINTED"
    \/ /\ run[w].pc = "critical"
       /\ opState[Op(w)] \notin {"COMMITTING", "CANCEL_REQUESTED"}
       /\ ~ CanMove(w, "COMMITTING")
    \/ run[w].pc = "exit" /\ opState[Op(w)] # "COMMITTING"
    \/ run[w].pc = "roll_back" /\ ~ CanMove(w, "ROLLING_BACK")
    \/ \E target \in Outcome(w) : ~ OutcomeLegal(w, target)

Escape(w) ==
    /\ Illegal(w)
    /\ Quit(w)
    /\ UNCHANGED <<kind, opState, stepState, effect, lease, faults>>

\* Process death, or an exception nothing catches (a probe or a verification
\* that raises on the recovery path, a pulse that finds its lease gone).
Crash(w) ==
    /\ run[w].pc # "idle"
    /\ Fault
    /\ Quit(w)
    /\ UNCHANGED <<kind, opState, stepState, effect, lease>>

-----------------------------------------------------------------------------
(* The user and the clock.                                                 *)

\* OperationRepository.request_cancel
RequestCancel(o) ==
    /\ MayCancel
    /\ opState[o] \notin {"COMMITTING", "ROLLING_BACK", "CANCEL_REQUESTED"}
    /\ CanTransition(opState[o], "CANCEL_REQUESTED")
    /\ opState' = [opState EXCEPT ![o] = "CANCEL_REQUESTED"]
    /\ UNCHANGED <<kind, stepState, effect, lease, run, faults>>

\* OperationCommandService.resume re-arms a paused operation.
Resume(o) ==
    /\ opState[o] = "PAUSED"
    /\ opState' = [opState EXCEPT ![o] = "PREPARING"]
    /\ UNCHANGED <<kind, stepState, effect, lease, run, faults>>

\* A row expires.  A run that is not Slow finishes or pulses in time.
Expire(r) ==
    /\ lease[r] # NoLease /\ lease[r].live
    /\ \A w \in Workers :
         lease[r].owner = w /\ lease[r].op = Op(w) /\ r \in run[w].held => run[w].pc \in Slow
    /\ lease' = [lease EXCEPT ![r].live = FALSE]
    /\ UNCHANGED <<kind, opState, stepState, effect, run, faults>>

-----------------------------------------------------------------------------

Init ==
    /\ kind \in [Ops -> DOMAIN Catalog]
    /\ opState = [o \in Ops |-> "QUEUED"]
    /\ stepState = [o \in Ops |-> [i \in Steps(o) |-> "PENDING"]]
    /\ effect = [o \in Ops |-> [i \in Steps(o) |-> "none"]]
    /\ lease = [r \in Resources |-> NoLease]
    /\ run = [w \in Workers |-> Idle]
    /\ faults = 0

\* What a worker does when nothing goes wrong around it.
Work(w) ==
    \/ \E o \in Ops : ClaimRead(w, o)
    \/ WorkflowVersionUnavailable(w) \/ ClaimBusy(w) \/ Claim(w) \/ Preflight(w) \/ Enter(w)
    \/ LoopDone(w) \/ LoopCancel(w) \/ LoopStep(w) \/ AcquirePhase(w)
    \/ EnsureRunning(w) \/ Intent(w) \/ ProbeDecides(w) \/ Recovered(w) \/ Reverify(w)
    \/ EnterCritical(w) \/ EffectDone(w) \/ EffectCancelled(w)
    \/ Checkpoint(w) \/ Verify(w) \/ ExitCritical(w)
    \/ Failed(w) \/ RollBack(w) \/ Honor(w)
    \/ CompensationRead(w) \/ BeginCompensation(w) \/ ResumeCompensation(w)
    \/ CompensateDone(w) \/ Restored(w) \/ CompensationDone(w)
    \/ EndRun(w) \/ Escape(w)

Misfortune(w) ==
    \/ PreflightFails(w) \/ LoopShutdown(w) \/ EffectBegins(w) \/ EffectFails(w)
    \/ VerifyFails(w) \/ CompensateFails(w) \/ Crash(w)

Next ==
    \/ \E w \in Workers : Work(w) \/ Misfortune(w)
    \/ \E o \in Ops : RequestCancel(o) \/ Resume(o)
    \/ \E r \in Resources : Expire(r)

Spec == Init /\ [][Next]_vars

\* A live worker keeps polling and working (WorkerHost.run, or the operator's
\* recover command), and time passes.
Fairness ==
    /\ \A w \in Workers : WF_vars(Work(w))
    /\ \A r \in Resources : WF_vars(Expire(r))

FairSpec == Spec /\ Fairness

-----------------------------------------------------------------------------

\* The type of every variable.
TypeOK ==
    /\ kind \in [Ops -> DOMAIN Catalog]
    /\ opState \in [Ops -> OperationState]
    /\ \A o \in Ops : stepState[o] \in [Steps(o) -> StepState]
    /\ \A o \in Ops : effect[o] \in [Steps(o) -> {"none", "part", "done"}]
    /\ lease \in [Resources -> [op : Ops, owner : Workers, live : BOOLEAN] \cup {NoLease}]
    /\ \A w \in Workers :
         /\ run[w].pc \in Pcs
         /\ run[w].pc = "idle" <=> run[w].op = NoOp
         /\ run[w].held \subseteq Resources
    /\ faults \in 0..MaxFaults

\* The steps the terminal table of ADR 002 speaks of: visible and reversible.
Reversible(o, i) == Reverses(Step(o, i))

\* ADR 002, section 3: an operation reported CANCELLED, FAILED_SAFE before its
\* end or FAILED_ROLLED_BACK has left none of its visible reversible effects
\* in the world, whichever worker died where.
TerminalsTruthful ==
    \A o \in Ops :
        /\ opState[o] \in {"CANCELLED", "FAILED_SAFE", "FAILED_ROLLED_BACK"}
        /\ Unverified(o) # {}
        => \A i \in Steps(o) : Reversible(o, i) => effect[o][i] = "none"

\* SUCCEEDED is recorded only of an operation whose every step was executed
\* to its end and verified, by however many workers.
SucceededIsVerified ==
    \A o \in Ops :
        opState[o] = "SUCCEEDED" =>
            \A i \in Steps(o) :
                stepState[o][i] = "VERIFIED" /\ (Has(o, i, "inert") \/ effect[o][i] = "done")

\* ADR 002, section 4: from the critical effect to the end of its verification
\* the operation is COMMITTING, so no cancellation can be accepted inside.
CriticalNotCancelled ==
    \A w \in Workers :
        run[w].pc \in {"effect", "checkpoint", "verify", "exit"} /\ Mine(w, "critical") /\ Fence(w)
        => opState[Op(w)] = "COMMITTING"

\* Compensation runs in reverse: when step i is being undone, every later
\* reversible effect is already gone, unless undoing one of them failed.
ReverseOrder ==
    \A w \in Workers :
        run[w].pc = "undo" /\ ~ run[w].bad =>
            \A i \in Steps(Op(w)) :
                i > Last(w) /\ Reversible(Op(w), i) => effect[Op(w)][i] = "none"

\* A barrier covers what is in doubt: a RECOVERY_REQUIRED operation still
\* owns the lease of every resource on which it left a reversible effect.
BarrierCoversEffects ==
    \A o \in Ops : opState[o] = "RECOVERY_REQUIRED" =>
        \A i \in Steps(o) : Reversible(o, i) /\ effect[o][i] # "none" =>
            \A r \in Step(o, i).resources : lease[r] # NoLease /\ lease[r].op = o

\* A run that touches the world holds the step's resources, in the phases of
\* a workflow that acquires them one by one and in a resumed roll-back.  (The
\* compensation of a cancellation is left out: only ROLLING_BACK makes a claim
\* ask for the barrier set.)
HoldsWhatItTouches ==
    \A w \in Workers :
        /\ run[w].pc = "effect" => Step(Op(w), At(w)).resources \subseteq run[w].held
        /\ run[w].pc = "undo" /\ ~ run[w].cancelled
           => Step(Op(w), Last(w)).resources \subseteq run[w].held

\* Two runs never touch the same resource at the same time.
Touching(w) ==
    CASE run[w].pc = "effect" -> Step(Op(w), At(w)).resources
      [] run[w].pc = "undo"   -> Step(Op(w), Last(w)).resources
      [] OTHER -> {}

EffectsExclusive ==
    \A v, w \in Workers : v # w => Touching(v) \cap Touching(w) = {}

\* An effect that finished is not executed again: whoever resumes its step
\* probes first (steps whose probe cannot tell are idempotent by design).
EffectNotRepeated ==
    [][\A w \in Workers :
         run'[w].pc = "effect" /\ run[w].pc # "effect" /\ "COMPLETE" \in Step(Op(w), At(w)).probe
         => effect[Op(w)][At(w)] # "done"]_vars

\* Every operation comes to rest: again and again it is terminal, or paused
\* until somebody resumes it.
ComesToRest == \A o \in Ops : []<>(opState[o] \in Terminal \cup {"PAUSED"})

\* An accepted cancellation is honored.
CancelHonored ==
    \A o \in Ops : opState[o] = "CANCEL_REQUESTED" ~> opState[o] \in Terminal

-----------------------------------------------------------------------------
(* The contract the engine keeps.                                          *)

\* What the contract calls the world: all steps verified and in place, no reversible
\* effect in place, or anything else.
World(o) ==
    IF \A i \in Steps(o) :
         stepState[o][i] = "VERIFIED" /\ (Has(o, i, "inert") \/ effect[o][i] = "done")
    THEN "complete"
    ELSE IF \A i \in Steps(o) : Reversible(o, i) => effect[o][i] = "none"
    THEN "untouched" ELSE "touched"

Worlds == [o \in Ops |-> World(o)]

\* A lease row without its owner.
Rows == [r \in Resources |-> IF lease[r] = NoLease THEN NoLease
                             ELSE [op |-> lease[r].op, live |-> lease[r].live]]

Claimable == UNION {SUBSET AllResources(Catalog[k]) : k \in DOMAIN Catalog} \ {{}}

Contract == INSTANCE OperationContract WITH
    Keys <- Resources, Nobody <- NoLease, Claims <- Claimable,
    state <- opState, world <- Worlds, held <- Rows

\* The engine keeps the contract: one worker at a time that dies, stalls past its
\* leases and takes its own work over, with every workflow.
KeepsContract == Contract!ContractSpec

=============================================================================
