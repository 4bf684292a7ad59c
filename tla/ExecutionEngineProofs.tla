------------------------ MODULE ExecutionEngineProofs ------------------------
(***************************************************************************)
(* Proofs about ExecutionEngine.  The first part needs no assumption on    *)
(* time: the types, and the one safety property that holds of any number   *)
(* of workers, however long each of them stalls and wherever it dies.  The *)
(* parts that follow have introductions of their own: what the rows say of *)
(* the world; how operations end; and that the engine implements           *)
(* OperationContract.                                                      *)
(*                                                                         *)
(* What every proof rests on is Base: the tables and runs have their       *)
(* types, a run has an operation, a step and steps to undo where its place *)
(* says so (Placed), and it holds the keys its claim began with and those  *)
(* of the step it is in (Holding).  A step of a worker is summed up once,  *)
(* as its Footprint, and read through it from then on.                     *)
(***************************************************************************)
EXTENDS ExecutionEngine, TLAPS, WellFoundedInduction

StepPcs == {"acquire", "intent", "probe", "recovered", "reverify", "critical", "effect",
            "checkpoint", "verify", "exit", "failed"}

RunType ==
    [pc : Pcs, op : Ops \cup {NoOp}, held : SUBSET Resources, at : Nat, seen : OperationState,
     todo : SUBSET Nat, bad : BOOLEAN, cancelled : BOOLEAN]

LeaseRow == [op : Ops, owner : Workers, live : BOOLEAN]

KindTyped == kind \in [Ops -> DOMAIN Catalog]
StateTyped == opState \in [Ops -> OperationState]
RowsTyped ==
    /\ stepState = [o \in Ops |-> stepState[o]]
    /\ \A o \in Ops : stepState[o] \in [Steps(o) -> StepState]
EffectsTyped ==
    /\ effect = [o \in Ops |-> effect[o]]
    /\ \A o \in Ops : effect[o] \in [Steps(o) -> {"none", "part", "done"}]
LeasesTyped == lease \in [Resources -> LeaseRow \cup {NoLease}]
RunTyped == run \in [Workers -> RunType]
FaultsTyped == faults \in 0..MaxFaults

Typed ==
    /\ KindTyped /\ StateTyped /\ RowsTyped /\ EffectsTyped /\ LeasesTyped /\ RunTyped
    /\ FaultsTyped

\* What a run has at each place: an operation, a step of it, steps to undo.
PlacedAt(w) ==
    /\ run[w].pc = "idle" <=> run[w].op = NoOp
    /\ run[w].pc = "idle" => run[w].todo = {}
    /\ run[w].pc \in StepPcs => At(w) \in Steps(Op(w))
    /\ \A i \in run[w].todo : i \in Steps(Op(w)) /\ Has(Op(w), i, "undo")
    /\ run[w].pc \in {"undo", "restored"} => run[w].todo # {}

Placed == \A w \in Workers : PlacedAt(w)

\* In a run, past the claim.
Claimed(w) == run[w].pc \notin {"idle", "claim"}

\* A run holds what its claim began with, and what the step it is in needs.
HoldsAt(w) ==
    /\ Claimed(w) => InitialResources(Workflow(Op(w))) \subseteq run[w].held
    /\ run[w].pc \in StepPcs \ {"acquire"} => Step(Op(w), At(w)).resources \subseteq run[w].held

Holding == \A w \in Workers : HoldsAt(w)

Base == Typed /\ Placed /\ Holding

\* The acquire phase goes on with what the run held and what the step missed.
LEMMA AcquireRun ==
    ASSUME RunTyped, NEW w \in Workers, AcquirePhase(w)
    PROVE  /\ run[w].pc = "acquire"
           /\ run'[w] = [run[w] EXCEPT !.pc = run'[w].pc, !.held = run'[w].held]
           /\ run'[w].pc \in {"reverify", "intent", "pause"}
           /\ run'[w].held \in {run[w].held, run[w].held \cup Step(Op(w), At(w)).resources}
           /\ run'[w].pc # "pause" => Step(Op(w), At(w)).resources \subseteq run'[w].held
           /\ run'[w].op = run[w].op /\ run'[w].at = run[w].at /\ run'[w].todo = run[w].todo
           /\ run'[w].bad = run[w].bad /\ run'[w].cancelled = run[w].cancelled
           /\ \A v \in Workers \ {w} : run'[v] = run[v]
<1> DEFINE missing == Step(Op(w), At(w)).resources \ run[w].held
           next == IF Row(w) = "CHECKPOINTED" THEN "reverify" ELSE "intent"
<1>0. run[w] \in RunType
  BY DEF RunTyped
<1>1. run[w].pc = "acquire" /\ next \in {"reverify", "intent"}
  BY DEF AcquirePhase
<1>2. run[w].held \cup missing = run[w].held \cup Step(Op(w), At(w)).resources
  OBVIOUS
<1>3. CASE missing = {}
  <2>1. Goto(w, next) /\ UNCHANGED lease
    BY <1>3 DEF AcquirePhase
  <2> HIDE DEF next
  <2>2. run'[w] = [run[w] EXCEPT !.pc = next]
    BY <2>1 DEF Goto, RunTyped
  <2>3. /\ run'[w] = [run[w] EXCEPT !.pc = next, !.held = run[w].held]
        /\ run'[w].pc = next /\ run'[w].held = run[w].held
        /\ run'[w].op = run[w].op /\ run'[w].at = run[w].at /\ run'[w].todo = run[w].todo
        /\ run'[w].bad = run[w].bad /\ run'[w].cancelled = run[w].cancelled
    BY <1>0, <1>1, <2>2 DEF RunType
  <2>4. \A v \in Workers \ {w} : run'[v] = run[v]
    BY <2>1 DEF Goto, RunTyped
  <2> QED BY <1>1, <1>3, <2>1, <2>3, <2>4
<1>4. CASE missing # {} /\ Fence(w) /\ \A r \in missing : Acquirable(r)
  <2>1. run' = [run EXCEPT ![w] = [@ EXCEPT !.pc = next, !.held = run[w].held \cup missing]]
    BY <1>4 DEF AcquirePhase
  <2>2. missing # {} /\ run[w].held \cup missing # run[w].held
    BY <1>4
  <2> HIDE DEF next, missing
  <2>3. run'[w] = [run[w] EXCEPT !.pc = next, !.held = run[w].held \cup missing]
    BY <2>1 DEF RunTyped
  <2>4. /\ run'[w].pc = next /\ run'[w].held = run[w].held \cup missing
        /\ run'[w].op = run[w].op /\ run'[w].at = run[w].at /\ run'[w].todo = run[w].todo
        /\ run'[w].bad = run[w].bad /\ run'[w].cancelled = run[w].cancelled
    BY <1>0, <2>3 DEF RunType
  <2>5. \A v \in Workers \ {w} : run'[v] = run[v]
    BY <2>1 DEF RunTyped
  <2> QED BY <1>1, <1>2, <2>2, <2>3, <2>4, <2>5
<1>5. CASE missing # {} /\ ~ (Fence(w) /\ \A r \in missing : Acquirable(r))
  <2>1. Goto(w, "pause") /\ UNCHANGED lease
    BY <1>5 DEF AcquirePhase
  <2>2. run'[w] = [run[w] EXCEPT !.pc = "pause"]
    BY <2>1 DEF Goto, RunTyped
  <2>3. /\ run'[w] = [run[w] EXCEPT !.pc = "pause", !.held = run[w].held]
        /\ run'[w].pc = "pause" /\ run'[w].held = run[w].held
        /\ run'[w].op = run[w].op /\ run'[w].at = run[w].at /\ run'[w].todo = run[w].todo
        /\ run'[w].bad = run[w].bad /\ run'[w].cancelled = run[w].cancelled
    BY <1>0, <2>2 DEF RunType
  <2>4. \A v \in Workers \ {w} : run'[v] = run[v]
    BY <2>1 DEF Goto, RunTyped
  <2> QED BY <1>1, <2>1, <2>3, <2>4
<1> QED BY <1>3, <1>4, <1>5

\* What a skipped compensation leaves of the run.
LEMMA SkipRun ==
    ASSUME RunTyped, NEW w \in Workers, NEW failed \in BOOLEAN, Skip(w, failed)
    PROVE  /\ run'[w].pc = "comp" /\ run'[w].todo = run[w].todo \ {Last(w)}
           /\ run'[w].op = run[w].op /\ run'[w].held = run[w].held
           /\ run'[w].at = run[w].at /\ run'[w].cancelled = run[w].cancelled
           /\ run'[w].bad = (run[w].bad \/ failed)
<1>1. run'[w] = [run[w] EXCEPT !.pc = "comp", !.todo = run[w].todo \ {Last(w)},
                               !.bad = run[w].bad \/ failed]
  BY DEF Skip, RunTyped
<1> QED BY <1>1 DEF RunTyped, RunType

\* What the probe of an interrupted compensation leaves of the run.
LEMMA ResumeRun ==
    ASSUME RunTyped, NEW w \in Workers, ResumeCompensation(w)
    PROVE  /\ run[w].pc = "comp" /\ run'[w].pc \in {"undo", "comp", "finalize"}
           /\ run'[w].op = run[w].op /\ run'[w].held = run[w].held
           /\ run'[w].at = run[w].at /\ run'[w].cancelled = run[w].cancelled
<1>1. /\ run[w].pc = "comp"
      /\ \/ Goto(w, "undo") \/ Skip(w, FALSE)
         \/ run' = [run EXCEPT ![w] = [@ EXCEPT !.pc = "finalize", !.bad = TRUE]]
  BY DEF ResumeCompensation
<1>2. CASE Goto(w, "undo")
  BY <1>1, <1>2 DEF Goto, RunTyped, RunType
<1>3. CASE Skip(w, FALSE)
  BY <1>1, <1>3, SkipRun
<1>4. CASE run' = [run EXCEPT ![w] = [@ EXCEPT !.pc = "finalize", !.bad = TRUE]]
  BY <1>1, <1>4 DEF RunTyped, RunType
<1> QED BY <1>1, <1>2, <1>3, <1>4

\* A workflow's keys are keys of the system, and its steps are numbered.
LEMMA ResourcesOf ==
    ASSUME KindTyped, NEW o \in Ops
    PROVE  /\ \A i \in Steps(o) : Step(o, i).resources \subseteq Resources
           /\ InitialResources(Workflow(o)) \subseteq Resources
           /\ BarrierResources(Workflow(o)) \subseteq Resources
           /\ InitialResources(Workflow(o)) # {}
           /\ Steps(o) \subseteq Nat
<1>1. Workflow(o) \in {Catalog[k] : k \in DOMAIN Catalog}
  BY DEF KindTyped, Workflow
<1>2. AllResources(Workflow(o)) \subseteq Resources
  BY <1>1 DEF Resources
<1>3. \A i \in Steps(o) : Step(o, i).resources \subseteq AllResources(Workflow(o))
  BY DEF AllResources, Step, Steps
<1>4. /\ Len(Workflow(o).steps) \in Nat \ {0}
      /\ Steps(o) = 1..Len(Workflow(o).steps)
      /\ InitialResources(Workflow(o)) # {}
      /\ BarrierResources(Workflow(o)) \subseteq AllResources(Workflow(o))
  BY <1>1, CatalogAssumption DEF Steps
<1>5. InitialResources(Workflow(o)) \subseteq AllResources(Workflow(o))
  <2>1. 1 \in Steps(o)
    BY <1>4
  <2>2. Workflow(o).steps[1].resources \subseteq AllResources(Workflow(o))
    BY <2>1, <1>3 DEF Step
  <2> QED BY <2>2 DEF InitialResources
<1> QED BY <1>2, <1>3, <1>4, <1>5


-----------------------------------------------------------------------------
(* The first and the last step of a set of steps.                          *)

\* The loop's next step is the first of those still to do.
LEMMA MinIsFirst ==
    ASSUME NEW S, S \subseteq Nat, S # {}
    PROVE  Min(S) \in S /\ \A y \in S : Min(S) =< y
<1>1. PICK x \in S : \A y \in S : ~ (<<y, x>> \in OpToRel(<, Nat))
  BY NatLessThanWellFounded, WFMin
<1>2. \A y \in S : ~ (y < x)
  BY <1>1, Zenon DEF OpToRel
<1>3. \A y \in S : x =< y
  BY <1>2
<1> QED BY <1>3 DEF Min

\* The step compensated next is the last of those to undo.
LEMMA MaxIsLast ==
    ASSUME NEW n \in Nat, NEW S, S \subseteq 1..n, S # {}
    PROVE  Max(S) \in S /\ \A y \in S : y =< Max(S)
<1> DEFINE T == {n - x : x \in S}
<1>1. T \subseteq Nat /\ T # {}
  <2>1. \A x \in S : n - x \in Nat
    OBVIOUS
  <2>2. PICK x \in S : TRUE
    OBVIOUS
  <2>3. n - x \in T
    OBVIOUS
  <2> QED BY <2>1, <2>3
<1> HIDE DEF T
<1>2. PICK t \in T : \A u \in T : t =< u
  BY <1>1, MinIsFirst
<1>3. PICK x \in S : t = n - x
  BY <1>2 DEF T
<1>4. \A y \in S : n - x =< n - y
  BY <1>2, <1>3 DEF T
<1>5. \A y \in S : x >= y
  BY <1>4
<1>6. Max(S) \in S /\ \A y \in S : Max(S) >= y
  BY <1>5 DEF Max
<1> QED BY <1>6

\* A run is of an operation.
LEMMA OpOfRun ==
    ASSUME RunTyped, Placed, NEW w \in Workers, run[w].pc # "idle"
    PROVE  Op(w) \in Ops
  BY DEF RunTyped, RunType, Placed, PlacedAt, Op

\* Where a run ends, and what it may record.
LEMMA OutcomeOf ==
    ASSUME NEW w \in Workers, NEW target \in Outcome(w)
    PROVE  /\ run[w].pc \in {"fail_safe", "require", "pause", "cancelled", "complete", "finalize"}
           /\ target \in Terminal \cup {"PAUSED"}
           /\ run[w].pc \notin {"idle", "claim"}
           /\ target \in OperationState \ {"CANCEL_REQUESTED"}
  BY DEF Outcome, TerminalDecision, Terminal, OperationState

\* The step to undo next is a step of the operation.
LEMMA LastIsToDo ==
    ASSUME Typed, Placed, NEW w \in Workers, run[w].pc # "idle", run[w].todo # {}
    PROVE  /\ Last(w) \in run[w].todo
           /\ \A i \in run[w].todo : i =< Last(w)
           /\ Last(w) \in Steps(Op(w))
<1>1. Op(w) \in Ops
  BY OpOfRun DEF Typed
<1>2. PICK k \in DOMAIN Catalog : Workflow(Op(w)) = Catalog[k]
  BY <1>1 DEF Typed, KindTyped, Workflow
<1>3. Len(Catalog[k].steps) \in Nat /\ run[w].todo \subseteq 1..Len(Catalog[k].steps)
  BY <1>2, CatalogAssumption DEF Placed, PlacedAt, Steps
<1>4. Last(w) \in run[w].todo /\ \A i \in run[w].todo : i =< Last(w)
  BY <1>3, MaxIsLast DEF Last
<1> QED BY <1>4 DEF Placed, PlacedAt

-----------------------------------------------------------------------------
(* What a step of a worker may change.                                     *)

RowStep(w) ==
    \/ UNCHANGED stepState
    \/ \E i \in Steps(Op(w)), s \in StepState \ {"PENDING"} :
         Claimed(w) /\ Fence(w) /\ SetRow(w, i, s)

EffectStep(w) ==
    \/ UNCHANGED effect
    \/ \E real \in {"none", "part", "done"} : run[w].pc = "effect" /\ SetEffect(w, At(w), real)
    \/ run[w].pc = "undo" /\ SetEffect(w, Last(w), "none")

StateStep(w) ==
    \/ UNCHANGED opState
    \/ /\ Op(w) \in Ops
       /\ CanMove(w, "PAUSED") /\ SetState(w, "PAUSED")
    \/ \E target \in OperationState \ {"CANCEL_REQUESTED"} :
         Claimed(w) /\ Fence(w) /\ SetState(w, target)

LeaseStep(w) ==
    \/ UNCHANGED lease
    \/ \E rs \in SUBSET Resources :
         /\ \A r \in rs : Acquirable(r)
         /\ Op(w) \in Ops /\ lease' = Acquired(w, Op(w), rs)
    \/ Claimed(w) /\ Fence(w) /\ lease' = Free(run[w].held)

RunStep(w) == run' = [run EXCEPT ![w] = run'[w]]

FaultStep == UNCHANGED faults \/ Fault

Footprint(w) ==
    /\ UNCHANGED kind
    /\ RowStep(w) /\ EffectStep(w) /\ StateStep(w) /\ LeaseStep(w) /\ RunStep(w) /\ FaultStep

\* One transaction or one external call has one footprint.
LEMMA StepFootprint ==
    ASSUME Typed, Placed, NEW w \in Workers, Work(w) \/ Misfortune(w)
    PROVE  Footprint(w)
<1> USE DEF Typed, RunTyped, Footprint, RowStep, EffectStep, StateStep, LeaseStep, RunStep,
   FaultStep
<1>0. ASSUME NEW o \in Ops, ClaimRead(w, o) PROVE Footprint(w)
  BY <1>0 DEF ClaimRead
<1>1. ASSUME WorkflowVersionUnavailable(w) PROVE Footprint(w)
  <2>1. Op(w) \in Ops
    BY <1>1, OpOfRun DEF WorkflowVersionUnavailable
  <2>2. StateStep(w)
    BY <1>1, <2>1 DEF WorkflowVersionUnavailable
  <2> QED BY <1>1, <2>2 DEF WorkflowVersionUnavailable, Quit
<1>2. ASSUME ClaimBusy(w) PROVE Footprint(w)
  BY <1>2 DEF ClaimBusy, Goto, Quit, Claimed, StepState, OperationState
<1>3. ASSUME Claim(w) PROVE Footprint(w)
  <2>1. Op(w) \in Ops
    BY <1>3, OpOfRun DEF Claim
  <2>2. Desired(w) \in SUBSET Resources
    BY <2>1, ResourcesOf DEF Desired
  <2>3. LeaseStep(w)
    BY <1>3, <2>1, <2>2 DEF Claim, MayClaim
  <2> QED BY <1>3, <2>3 DEF Claim
<1>4. ASSUME Preflight(w) PROVE Footprint(w)
  BY <1>4 DEF Preflight, Goto, Quit, Claimed, StepState, OperationState
<1>5. ASSUME Enter(w) PROVE Footprint(w)
  BY <1>5 DEF Enter, Goto, Quit, Claimed, StepState, OperationState
<1>6. ASSUME LoopDone(w) PROVE Footprint(w)
  BY <1>6 DEF LoopDone, Goto, Quit, Claimed, StepState, OperationState
<1>7. ASSUME LoopCancel(w) PROVE Footprint(w)
  BY <1>7 DEF LoopCancel, Goto, Quit, Claimed, StepState, OperationState
<1>8. ASSUME LoopStep(w) PROVE Footprint(w)
  BY <1>8 DEF LoopStep, Goto, Quit, Claimed, StepState, OperationState
<1>9. ASSUME AcquirePhase(w) PROVE Footprint(w)
  <2> DEFINE missing == Step(Op(w), At(w)).resources \ run[w].held
  <2>1. Op(w) \in Ops /\ At(w) \in Steps(Op(w))
    BY <1>9, OpOfRun DEF AcquirePhase, Placed, PlacedAt, StepPcs
  <2>2. missing \in SUBSET Resources
    BY <2>1, ResourcesOf
  <2>3. \/ UNCHANGED lease
        \/ (\A r \in missing : Acquirable(r)) /\ lease' = Acquired(w, Op(w), missing)
    BY <1>9 DEF AcquirePhase
  <2>4. LeaseStep(w)
    BY <2>1, <2>2, <2>3
  <2> QED BY <1>9, <2>4 DEF AcquirePhase, Goto
<1>10. ASSUME EnsureRunning(w) PROVE Footprint(w)
  BY <1>10 DEF EnsureRunning, Goto, Quit, Claimed, StepState, OperationState
<1>11. ASSUME Intent(w) PROVE Footprint(w)
  <2>1. At(w) \in Steps(Op(w)) /\ Claimed(w) /\ Fence(w) /\ SetRow(w, At(w), "RUNNING")
    BY <1>11 DEF Intent, Placed, PlacedAt, StepPcs, Claimed
  <2>2. RowStep(w)
    BY <2>1 DEF StepState
  <2> QED BY <1>11, <2>2 DEF Intent, Goto
<1>12. ASSUME ProbeDecides(w) PROVE Footprint(w)
  BY <1>12 DEF ProbeDecides, Goto, Quit, Claimed, StepState, OperationState
<1>13. ASSUME Recovered(w) PROVE Footprint(w)
  <2>1. At(w) \in Steps(Op(w)) /\ Claimed(w) /\ Fence(w) /\ SetRow(w, At(w), "CHECKPOINTED")
    BY <1>13 DEF Recovered, Placed, PlacedAt, StepPcs, Claimed
  <2>2. RowStep(w)
    BY <2>1 DEF StepState
  <2> QED BY <1>13, <2>2 DEF Recovered, Goto
<1>14. ASSUME Reverify(w) PROVE Footprint(w)
  <2>1. At(w) \in Steps(Op(w)) /\ Claimed(w) /\ Fence(w) /\ SetRow(w, At(w), "VERIFIED")
    BY <1>14 DEF Reverify, Placed, PlacedAt, StepPcs, Claimed
  <2>2. RowStep(w)
    BY <2>1 DEF StepState
  <2> QED BY <1>14, <2>2 DEF Reverify, Goto
<1>15. ASSUME EnterCritical(w) PROVE Footprint(w)
  BY <1>15 DEF EnterCritical, Goto, Quit, Claimed, StepState, OperationState
<1>16. ASSUME EffectDone(w) PROVE Footprint(w)
  BY <1>16 DEF EffectDone, Goto, Quit, Claimed, StepState, OperationState
<1>17. ASSUME EffectCancelled(w) PROVE Footprint(w)
  BY <1>17 DEF EffectCancelled, Goto, Quit, Claimed, StepState, OperationState
<1>18. ASSUME Checkpoint(w) PROVE Footprint(w)
  <2>1. At(w) \in Steps(Op(w)) /\ Claimed(w) /\ Fence(w) /\ SetRow(w, At(w), "CHECKPOINTED")
    BY <1>18 DEF Checkpoint, Placed, PlacedAt, StepPcs, Claimed
  <2>2. RowStep(w)
    BY <2>1 DEF StepState
  <2> QED BY <1>18, <2>2 DEF Checkpoint, Goto
<1>19. ASSUME Verify(w) PROVE Footprint(w)
  <2>1. At(w) \in Steps(Op(w)) /\ Claimed(w) /\ Fence(w) /\ SetRow(w, At(w), "VERIFIED")
    BY <1>19 DEF Verify, Placed, PlacedAt, StepPcs, Claimed
  <2>2. RowStep(w)
    BY <2>1 DEF StepState
  <2> QED BY <1>19, <2>2 DEF Verify, Goto
<1>20. ASSUME ExitCritical(w) PROVE Footprint(w)
  BY <1>20 DEF ExitCritical, Goto, Quit, Claimed, StepState, OperationState
<1>21. ASSUME Failed(w) PROVE Footprint(w)
  BY <1>21 DEF Failed, Goto, Quit, Claimed, StepState, OperationState
<1>22. ASSUME RollBack(w) PROVE Footprint(w)
  BY <1>22 DEF RollBack, Goto, Quit, Claimed, StepState, OperationState
<1>23. ASSUME Honor(w) PROVE Footprint(w)
  BY <1>23 DEF Honor, Goto, Quit, Claimed, StepState, OperationState
<1>24. ASSUME CompensationRead(w) PROVE Footprint(w)
  BY <1>24 DEF CompensationRead, Goto, Quit, Claimed, StepState, OperationState
<1>25. ASSUME BeginCompensation(w) PROVE Footprint(w)
  <2>1. Claimed(w) /\ Fence(w) /\ SetRow(w, Last(w), "COMPENSATING") /\ run[w].todo # {}
    BY <1>25 DEF BeginCompensation, Claimed, Placed, PlacedAt
  <2>2. RowStep(w)
    BY <2>1, LastIsToDo DEF StepState, Claimed
  <2> QED BY <1>25, <2>2 DEF BeginCompensation, Goto, Skip
<1>26. ASSUME ResumeCompensation(w) PROVE Footprint(w)
  <2>1. Claimed(w) /\ Fence(w) /\ run[w].todo # {}
        /\ (UNCHANGED stepState \/ SetRow(w, Last(w), "COMPENSATED"))
    BY <1>26 DEF ResumeCompensation, Claimed
  <2>2. RowStep(w)
    BY <2>1, LastIsToDo DEF StepState, Claimed
  <2> QED BY <1>26, <2>2 DEF ResumeCompensation, Goto, Skip
<1>27. ASSUME CompensateDone(w) PROVE Footprint(w)
  BY <1>27 DEF CompensateDone, Goto, Quit, Claimed, StepState, OperationState
<1>28. ASSUME Restored(w) PROVE Footprint(w)
  <2>1. Claimed(w) /\ Fence(w) /\ SetRow(w, Last(w), "COMPENSATED") /\ run[w].todo # {}
    BY <1>28 DEF Restored, Claimed, Placed, PlacedAt
  <2>2. RowStep(w)
    BY <2>1, LastIsToDo DEF StepState, Claimed
  <2> QED BY <1>28, <2>2 DEF Restored, Goto, Skip
<1>29. ASSUME CompensationDone(w) PROVE Footprint(w)
  BY <1>29 DEF CompensationDone, Goto, Quit, Claimed, StepState, OperationState
<1>30. ASSUME EndRun(w) PROVE Footprint(w)
  <2>1. PICK target \in Outcome(w) :
          /\ Fence(w) /\ SetState(w, target) /\ Quit(w)
          /\ lease' = IF target = "RECOVERY_REQUIRED" THEN lease ELSE Free(run[w].held)
          /\ UNCHANGED <<kind, stepState, effect, faults>>
    BY <1>30 DEF EndRun
  <2>2. Claimed(w) /\ target \in OperationState \ {"CANCEL_REQUESTED"}
    BY <2>1, OutcomeOf DEF Claimed
  <2> QED BY <2>1, <2>2 DEF Quit
<1>31. ASSUME Escape(w) PROVE Footprint(w)
  BY <1>31 DEF Escape, Goto, Quit, Claimed, StepState, OperationState
<1>32. ASSUME PreflightFails(w) PROVE Footprint(w)
  BY <1>32 DEF PreflightFails, Goto, Quit, Claimed, StepState, OperationState
<1>33. ASSUME LoopShutdown(w) PROVE Footprint(w)
  BY <1>33 DEF LoopShutdown, Goto, Quit, Claimed, StepState, OperationState
<1>34. ASSUME EffectBegins(w) PROVE Footprint(w)
  BY <1>34 DEF EffectBegins, Goto, Quit, Claimed, StepState, OperationState
<1>35. ASSUME EffectFails(w) PROVE Footprint(w)
  <2>1. PICK real \in {effect[Op(w)][At(w)], "done"} : SetEffect(w, At(w), real)
    BY <1>35 DEF EffectFails
  <2>2. effect[Op(w)][At(w)] \in {"none", "part", "done"}
    BY <1>35, OpOfRun DEF EffectFails, EffectsTyped, Placed, PlacedAt, StepPcs
  <2>3. EffectStep(w)
    BY <1>35, <2>1, <2>2 DEF EffectFails
  <2> QED BY <1>35, <2>3 DEF EffectFails, Goto
<1>36. ASSUME VerifyFails(w) PROVE Footprint(w)
  BY <1>36 DEF VerifyFails, Goto, Quit, Claimed, StepState, OperationState
<1>37. ASSUME CompensateFails(w) PROVE Footprint(w)
  BY <1>37 DEF CompensateFails, Skip
<1>38. ASSUME Crash(w) PROVE Footprint(w)
  BY <1>38 DEF Crash, Goto, Quit, Claimed, StepState, OperationState
<1> QED
  BY <1>0, <1>1, <1>2, <1>3, <1>4, <1>5, <1>6, <1>7, <1>8, <1>9, <1>10, <1>11, <1>12, <1>13,
     <1>14, <1>15, <1>16, <1>17, <1>18, <1>19, <1>20, <1>21, <1>22, <1>23, <1>24, <1>25, <1>26,
     <1>27, <1>28, <1>29, <1>30, <1>31, <1>32, <1>33, <1>34, <1>35, <1>36, <1>37,
           <1>38 DEF Work, Misfortune


-----------------------------------------------------------------------------
(* Types, places and holdings are kept.                                    *)

\* A footprint keeps the tables typed.
LEMMA TablesTyped ==
    ASSUME Typed, Placed, NEW w \in Workers, run[w].pc # "idle", Footprint(w)
    PROVE  KindTyped' /\ StateTyped' /\ RowsTyped' /\ EffectsTyped' /\ LeasesTyped'
        /\ FaultsTyped'
<1> USE DEF Typed, Footprint
<1>0. Op(w) \in Ops
  BY OpOfRun
<1>1. KindTyped' /\ \A o \in Ops : Steps(o)' = Steps(o)
  BY DEF KindTyped, Steps, Workflow
<1>2. StateTyped'
  BY <1>0 DEF StateTyped, StateStep, SetState, OperationState
<1>3. RowsTyped'
  BY <1>0, <1>1 DEF RowsTyped, RowStep, SetRow
<1>4. EffectsTyped'
  <2>1. run[w].pc = "effect" => At(w) \in Steps(Op(w))
    BY DEF Placed, PlacedAt, StepPcs
  <2>2. run[w].pc = "undo" => Last(w) \in Steps(Op(w))
    BY LastIsToDo DEF Placed, PlacedAt
  <2> QED BY <1>0, <1>1, <2>1, <2>2 DEF EffectsTyped, EffectStep, SetEffect
<1>5. LeasesTyped'
  <2>1. CASE UNCHANGED lease
    BY <2>1 DEF LeasesTyped
  <2>2. ASSUME NEW rs \in SUBSET Resources, lease' = Acquired(w, Op(w), rs) PROVE LeasesTyped'
    <3>1. [op |-> Op(w), owner |-> w, live |-> TRUE] \in LeaseRow
      BY <1>0 DEF LeaseRow
    <3> QED BY <2>2, <3>1 DEF LeasesTyped, Acquired
  <2>3. CASE lease' = Free(run[w].held)
    BY <2>3 DEF LeasesTyped, Free
  <2> QED BY <2>1, <2>2, <2>3 DEF LeaseStep
<1>6. FaultsTyped'
  BY FaultsAssumption DEF FaultsTyped, FaultStep, Fault
<1> QED BY <1>1, <1>2, <1>3, <1>4, <1>5, <1>6

\* The local state of w is as it should be.
RunFits(w) == run[w] \in RunType /\ PlacedAt(w) /\ HoldsAt(w)

\* Goto changes the place and nothing else.
LEMMA GotoRun ==
    ASSUME RunTyped, NEW w \in Workers, NEW pc, Goto(w, pc)
    PROVE  run'[w] = [run[w] EXCEPT !.pc = pc]
  BY DEF RunTyped, Goto

\* Going on to another place of the same kind keeps what the run has.
LEMMA GotoFits ==
    ASSUME run \in [Workers -> RunType], NEW w \in Workers, RunFits(w), Claimed(w),
           NEW pc \in Pcs \ {"idle", "claim"}, Goto(w, pc), kind' = kind,
           pc \in StepPcs => run[w].pc \in StepPcs \ {"acquire"},
           pc \in {"undo", "restored"} => run[w].todo # {}
    PROVE  RunFits(w)'
  BY DEF Goto, RunFits, RunType, PlacedAt, HoldsAt, Claimed, At, Op, Steps, Has, Step, Workflow

\* So does ending.
LEMMA QuitFits ==
    ASSUME run \in [Workers -> RunType], NEW w \in Workers, Quit(w), kind' = kind
    PROVE  RunFits(w)'
  BY DEF Quit, Idle, RunFits, RunType, PlacedAt, HoldsAt, Claimed, StepPcs, Pcs, OperationState

\* The worker goes on with other steps to undo.
LEMMA TodoFits ==
    ASSUME run \in [Workers -> RunType], NEW w \in Workers, RunFits(w), Claimed(w), kind' = kind,
           NEW pc \in Pcs \ ({"idle", "claim", "undo", "restored"} \cup StepPcs),
           NEW todo, \A i \in todo : i \in Nat /\ i \in Steps(Op(w)) /\ Has(Op(w), i, "undo"),
           NEW bad \in BOOLEAN, NEW cancelled \in BOOLEAN,
           run' = [run EXCEPT ![w] = [@ EXCEPT !.pc = pc, !.todo = todo, !.bad = bad,
                              !.cancelled = cancelled]]
    PROVE  RunFits(w)'
<1>1. run'[w] = [run[w] EXCEPT !.pc = pc, !.todo = todo, !.bad = bad, !.cancelled = cancelled]
  BY DEF RunFits
<1>2. run'[w] \in RunType
  BY <1>1 DEF RunFits, RunType
<1>3. PlacedAt(w)' /\ HoldsAt(w)'
  BY <1>1 DEF RunFits, RunType, PlacedAt, HoldsAt, Claimed, At, Op, Steps, Has, Step, Workflow
<1> QED BY <1>2, <1>3 DEF RunFits

\* Skip.
LEMMA SkipFits ==
    ASSUME run \in [Workers -> RunType], NEW w \in Workers, RunFits(w), Claimed(w), kind' = kind,
           NEW failed \in BOOLEAN, Skip(w, failed)
    PROVE  RunFits(w)'
<1> DEFINE bad == run[w].bad \/ failed
<1>1. bad \in BOOLEAN /\ run[w].cancelled \in BOOLEAN /\ run[w].todo \subseteq Nat
  BY DEF RunFits, RunType
<1>2. run' = [run EXCEPT ![w] = [@ EXCEPT !.pc = "comp", !.todo = run[w].todo \ {Last(w)},
                                        !.bad = bad, !.cancelled = run[w].cancelled]]
  BY DEF Skip, RunFits, RunType
<1> HIDE DEF bad
<1>3. \A i \in run[w].todo \ {Last(w)} : i \in Nat /\ i \in Steps(Op(w)) /\ Has(Op(w), i, "undo")
  BY <1>1 DEF RunFits, PlacedAt
<1> QED BY <1>1, <1>2, <1>3, TodoFits DEF Pcs, StepPcs

\* A step is one of a workflow of the catalog.
LEMMA StepOf ==
    ASSUME KindTyped, NEW o \in Ops, NEW i \in Steps(o)
    PROVE  /\ Step(o, i).probe \subseteq RecoveryClass
               /\ Step(o, i).restored \subseteq RecoveryClass
           /\ ~ Has(o, i, "inert") => Step(o, i).probe \ {"COMPLETE"} # {}
<1>1. PICK k \in DOMAIN Catalog : Workflow(o) = Catalog[k]
  BY DEF KindTyped, Workflow
<1> QED BY <1>1, ProbeAssumption DEF Steps, Step, Has

\* An honest probe answers with a class it declares.
LEMMA ObservedIsProbed ==
    ASSUME NEW s, NEW real
    PROVE  Observed(s, real) \subseteq s.probe
  BY DEF Observed

\* What a probe says decides where the run goes.
LEMMA ProbeLeads ==
    ASSUME Base, NEW w \in Workers, ProbeDecides(w)
    PROVE  \E class \in Observed(Step(Op(w), At(w)), effect[Op(w)][At(w)]) :
              /\ class \in RecoveryClass
              /\ \E pc \in {"recovered", "critical", "effect", "roll_back", "pause", "require"} :
                    /\ Goto(w, pc)
                    /\ pc = "recovered" => class = "COMPLETE"
                    /\ pc \in {"critical", "effect"} =>
                         /\ class \in {"ABSENT", "PARTIALLY_RESUMABLE", "DISCARDABLE"}
                         /\ pc = "critical" <=> Mine(w, "critical")
<1> DEFINE s == Step(Op(w), At(w))
<1>1. PICK class \in Observed(s, effect[Op(w)][At(w)]) :
        Goto(w, CASE DecideRecovery(class, Mine(w, "quiescent")) = "VERIFY" -> "recovered"
                  [] DecideRecovery(class, Mine(w, "quiescent"))
                       \in {"EXECUTE", "RESUME", "DISCARD_AND_RETRY"} ->
                       (IF Mine(w, "critical") THEN "critical" ELSE "effect")
                  [] DecideRecovery(class, Mine(w, "quiescent")) = "ROLL_BACK" -> "roll_back"
                  [] DecideRecovery(class, Mine(w, "quiescent")) = "PAUSE" -> "pause"
                  [] DecideRecovery(class,
                      Mine(w, "quiescent")) = "REQUIRE_RECOVERY" -> "require")
  BY DEF ProbeDecides
<1>2. class \in RecoveryClass
  <2>1. Op(w) \in Ops /\ At(w) \in Steps(Op(w))
    BY OpOfRun DEF ProbeDecides, Base, Typed, Placed, PlacedAt, StepPcs
  <2>2. s.probe \subseteq RecoveryClass
    BY <2>1, StepOf DEF Base, Typed
  <2> QED BY <2>2, ObservedIsProbed
<1> DEFINE action == DecideRecovery(class, Mine(w, "quiescent"))
<1>3. /\ class = "COMPLETE" <=> action = "VERIFY"
      /\ class \in {"ABSENT", "PARTIALLY_RESUMABLE", "DISCARDABLE"}
           <=> action \in {"EXECUTE", "RESUME", "DISCARD_AND_RETRY"}
      /\ action \in {"VERIFY", "EXECUTE", "RESUME", "DISCARD_AND_RETRY", "ROLL_BACK", "PAUSE",
                     "REQUIRE_RECOVERY"}
  BY <1>2 DEF DecideRecovery, RecoveryClass
<1> HIDE DEF action, s
<1>4. CASE action = "VERIFY"
  <2>1. Goto(w, "recovered")
    BY <1>1, <1>4 DEF action
  <2> QED BY <1>1, <1>2, <1>3, <1>4, <2>1 DEF s
<1>5. CASE action \in {"EXECUTE", "RESUME", "DISCARD_AND_RETRY"}
  <2>1. Goto(w, IF Mine(w, "critical") THEN "critical" ELSE "effect")
    BY <1>1, <1>5 DEF action
  <2>2. CASE Mine(w, "critical")
    BY <1>1, <1>2, <1>3, <1>5, <2>1, <2>2 DEF s
  <2>3. CASE ~ Mine(w, "critical")
    BY <1>1, <1>2, <1>3, <1>5, <2>1, <2>3 DEF s
  <2> QED BY <2>2, <2>3
<1>6. CASE action \in {"ROLL_BACK", "PAUSE", "REQUIRE_RECOVERY"}
  <2>1. \E pc \in {"roll_back", "pause", "require"} : Goto(w, pc)
    BY <1>1, <1>6 DEF action
  <2> QED BY <1>1, <1>2, <2>1 DEF s
<1> QED BY <1>3, <1>4, <1>5, <1>6

\* Every step leaves its run typed, placed and holding what it needs.
LEMMA RunStaysFit ==
    ASSUME Base, NEW w \in Workers, Work(w) \/ Misfortune(w)
    PROVE  RunFits(w)'
<1>0. run \in [Workers -> RunType] /\ RunFits(w)
  BY DEF Base, Typed, RunTyped, Placed, Holding, RunFits
<1>1. ASSUME NEW o \in Ops, ClaimRead(w, o) PROVE RunFits(w)'
  <2>1. opState[o] \in OperationState /\ o # NoOp
    BY <1>1, NullAssumption DEF Base, Typed, StateTyped
  <2>2. run'[w] = [Idle EXCEPT !.pc = "claim", !.op = o, !.seen = opState[o]]
    BY <1>0, <1>1 DEF ClaimRead
  <2>3. run'[w] \in RunType
    <3>1. run'[w] = [pc |-> "claim", op |-> o, held |-> {}, at |-> 0, seen |-> opState[o],
                     todo |-> {}, bad |-> FALSE, cancelled |-> FALSE]
      BY <2>2 DEF Idle
    <3> QED BY <1>1, <2>1, <3>1 DEF RunType, Pcs
  <2> QED BY <2>1, <2>2, <2>3 DEF RunFits, PlacedAt, HoldsAt, Claimed, Idle, StepPcs
<1>2. ASSUME WorkflowVersionUnavailable(w) PROVE RunFits(w)'
  BY <1>0, <1>2, QuitFits DEF WorkflowVersionUnavailable
<1>3. ASSUME ClaimBusy(w) PROVE RunFits(w)'
  BY <1>0, <1>3, QuitFits DEF ClaimBusy
<1>4. ASSUME Claim(w) PROVE RunFits(w)'
  <2>1. Op(w) \in Ops
    BY <1>4, OpOfRun DEF Base, Typed, Claim
  <2>2. Desired(w) \in SUBSET Resources
    BY <2>1, ResourcesOf DEF Base, Typed, Desired
  <2>3. run'[w] = [run[w] EXCEPT !.pc = "preflight", !.held = Desired(w)]
    BY <1>0, <1>4 DEF Claim
  <2>4. InitialResources(Workflow(Op(w))) \subseteq Desired(w)
    BY DEF Desired
  <2>5. run'[w] \in RunType
    BY <1>0, <2>2, <2>3 DEF RunFits, RunType, Pcs
  <2>6. HoldsAt(w)'
    BY <1>0, <1>4, <2>3, <2>4 DEF Claim, HoldsAt, RunFits, RunType, Op, Workflow, StepPcs
  <2>7. PlacedAt(w)'
    BY <1>0, <1>4, <2>3 DEF Claim, PlacedAt, RunFits, RunType, Op, At, Workflow, StepPcs, Steps,
       Has, Step
  <2> QED BY <2>5, <2>6, <2>7 DEF RunFits
<1>5. ASSUME Preflight(w) PROVE RunFits(w)'
  BY <1>0, <1>5, GotoFits DEF Preflight, Claimed, Pcs, StepPcs
<1>6. ASSUME Enter(w) PROVE RunFits(w)'
  BY <1>0, <1>6, GotoFits DEF Enter, Claimed, Pcs, StepPcs
<1>7. ASSUME LoopDone(w) PROVE RunFits(w)'
  BY <1>0, <1>7, GotoFits DEF LoopDone, Claimed, Pcs, StepPcs
<1>8. ASSUME LoopCancel(w) PROVE RunFits(w)'
  BY <1>0, <1>8, GotoFits DEF LoopCancel, Claimed, Pcs, StepPcs
<1>9. ASSUME LoopStep(w) PROVE RunFits(w)'
  <2> DEFINE i == Min(Unverified(Op(w)))
  <2>1. Op(w) \in Ops
    BY <1>9, OpOfRun DEF Base, Typed, LoopStep
  <2>2. Unverified(Op(w)) \subseteq Steps(Op(w)) /\ Steps(Op(w)) \subseteq Nat
    BY <2>1, ResourcesOf DEF Base, Typed, Unverified
  <2>3. i \in Steps(Op(w)) /\ i \in Nat
    BY <1>9, <2>2, MinIsFirst DEF LoopStep
  <2>4. run'[w] = [run[w] EXCEPT !.at = i, !.pc = "acquire"] /\ run[w].pc = "loop" /\ kind' = kind
    BY <1>0, <1>9 DEF LoopStep
  <2> HIDE DEF i
  <2>5. run'[w] \in RunType
    BY <1>0, <2>3, <2>4 DEF RunFits, RunType, Pcs
  <2>6. /\ run'[w].op = run[w].op /\ run'[w].held = run[w].held /\ run'[w].todo = run[w].todo
        /\ run'[w].pc = "acquire" /\ run'[w].at = i
    BY <1>0, <2>4 DEF RunFits, RunType
  <2>7. HoldsAt(w)'
    BY <1>0, <2>4, <2>6 DEF RunFits, HoldsAt, Claimed, Op, Workflow, StepPcs
  <2>8. PlacedAt(w)'
    BY <1>0, <2>3, <2>4, <2>6 DEF RunFits, PlacedAt, At, Op, Workflow, Steps, Has, Step
  <2> QED BY <2>5, <2>7, <2>8 DEF RunFits
<1>10. ASSUME AcquirePhase(w) PROVE RunFits(w)'
  <2>1. Op(w) \in Ops /\ At(w) \in Steps(Op(w)) /\ Claimed(w)
    BY <1>10, <1>0, OpOfRun DEF AcquirePhase, Base, Typed, RunFits, PlacedAt, StepPcs, Claimed
  <2>2. Step(Op(w), At(w)).resources \subseteq Resources
    BY <2>1, ResourcesOf DEF Base, Typed
  <2>3. /\ run'[w] = [run[w] EXCEPT !.pc = run'[w].pc, !.held = run'[w].held]
        /\ run'[w].pc \in {"reverify", "intent", "pause"}
        /\ run'[w].held \in {run[w].held, run[w].held \cup Step(Op(w), At(w)).resources}
        /\ run'[w].pc # "pause" => Step(Op(w), At(w)).resources \subseteq run'[w].held
        /\ run'[w].op = run[w].op /\ run'[w].at = run[w].at /\ run'[w].todo = run[w].todo
    BY <1>10, AcquireRun DEF Base, Typed
  <2>4. run'[w].held \in SUBSET Resources /\ run[w].held \subseteq run'[w].held
    BY <1>0, <2>2, <2>3 DEF RunFits, RunType
  <2>5. kind' = kind /\ run[w].pc = "acquire"
    BY <1>10 DEF AcquirePhase
  <2>6. run'[w] \in RunType
    BY <1>0, <2>3, <2>4 DEF RunFits, RunType, Pcs
  <2>8. HoldsAt(w)'
    BY <1>0, <2>1, <2>3, <2>4, <2>5 DEF HoldsAt, RunFits, Op, At, Workflow, Step,
       StepPcs, Claimed
  <2>9. PlacedAt(w)'
    BY <1>0, <2>1, <2>3, <2>5 DEF PlacedAt, RunFits, Op, At, Workflow, StepPcs, Steps,
       Has, Step, Claimed
  <2> QED BY <2>6, <2>8, <2>9 DEF RunFits
<1>11. ASSUME EnsureRunning(w) PROVE RunFits(w)'
  BY <1>0, <1>11 DEF EnsureRunning, RunFits, PlacedAt, HoldsAt, Claimed, At, Op, Steps, Has, Step,
     Workflow
<1>12. ASSUME Intent(w) PROVE RunFits(w)'
  BY <1>0, <1>12, GotoFits DEF Intent, Claimed, Pcs, StepPcs
<1>13. ASSUME ProbeDecides(w) PROVE RunFits(w)'
  <2>1. PICK pc \in {"recovered", "critical", "effect", "roll_back", "pause", "require"} :
          Goto(w, pc)
    BY <1>13, ProbeLeads DEF Base
  <2> QED BY <1>0, <1>13, <2>1, GotoFits DEF ProbeDecides, Claimed, Pcs, StepPcs
<1>14. ASSUME Recovered(w) PROVE RunFits(w)'
  BY <1>0, <1>14, GotoFits DEF Recovered, Claimed, Pcs, StepPcs
<1>15. ASSUME Reverify(w) PROVE RunFits(w)'
  BY <1>0, <1>15, GotoFits DEF Reverify, Claimed, Pcs, StepPcs
<1>16. ASSUME EnterCritical(w) PROVE RunFits(w)'
  BY <1>0, <1>16, GotoFits DEF EnterCritical, Claimed, Pcs, StepPcs
<1>17. ASSUME EffectDone(w) PROVE RunFits(w)'
  BY <1>0, <1>17, GotoFits DEF EffectDone, Claimed, Pcs, StepPcs
<1>18. ASSUME EffectCancelled(w) PROVE RunFits(w)'
  BY <1>0, <1>18, GotoFits DEF EffectCancelled, Claimed, Pcs, StepPcs
<1>19. ASSUME Checkpoint(w) PROVE RunFits(w)'
  BY <1>0, <1>19, GotoFits DEF Checkpoint, Claimed, Pcs, StepPcs
<1>20. ASSUME Verify(w) PROVE RunFits(w)'
  BY <1>0, <1>20, GotoFits DEF Verify, Claimed, Pcs, StepPcs
<1>21. ASSUME ExitCritical(w) PROVE RunFits(w)'
  BY <1>0, <1>21, GotoFits DEF ExitCritical, Claimed, Pcs, StepPcs
<1>22. ASSUME Failed(w) PROVE RunFits(w)'
  <2>1. At(w) \in Nat /\ At(w) \in Steps(Op(w))
    BY <1>0, <1>22 DEF Failed, RunFits, RunType, PlacedAt, StepPcs, At
  <2>2. PICK pc \in {"roll_back", "fail_safe"} :
          run' = [run EXCEPT ![w] = [@ EXCEPT
              !.pc = pc, !.todo = {i \in {At(w)} : Mine(w, "undo")}]]
    BY <1>22 DEF Failed
  <2>3. run' = [run EXCEPT ![w] = [@ EXCEPT !.pc = pc, !.todo = {i \in {At(w)} : Mine(w, "undo")},
                           !.bad = run[w].bad, !.cancelled = run[w].cancelled]]
    BY <1>0, <2>2 DEF RunFits, RunType
  <2>4. \A i \in {i \in {At(w)} : Mine(w, "undo")} :
          i \in Nat /\ i \in Steps(Op(w)) /\ Has(Op(w), i, "undo")
    BY <2>1 DEF Mine
  <2>5. run[w].bad \in BOOLEAN /\ run[w].cancelled \in BOOLEAN
    BY <1>0 DEF RunFits, RunType
  <2> QED BY <1>0, <1>22, <2>3, <2>4, <2>5, TodoFits DEF Failed, Claimed, Pcs, StepPcs
<1>23. ASSUME RollBack(w) PROVE RunFits(w)'
  BY <1>0, <1>23, GotoFits DEF RollBack, Claimed, Pcs, StepPcs
<1>24. ASSUME Honor(w) PROVE RunFits(w)'
  <2>1. PICK pc \in {"cancelled", "comp_read"} :
          run' = [run EXCEPT ![w] = [@ EXCEPT !.pc = pc, !.todo = {}, !.cancelled = TRUE]]
    BY <1>24 DEF Honor
  <2>2. run' = [run EXCEPT ![w] = [@ EXCEPT !.pc = pc, !.todo = {}, !.bad = run[w].bad,
                           !.cancelled = TRUE]]
    BY <1>0, <2>1 DEF RunFits, RunType
  <2>3. run[w].bad \in BOOLEAN
    BY <1>0 DEF RunFits, RunType
  <2>4. Claimed(w) /\ kind' = kind
          /\ pc \in Pcs \ ({"idle", "claim", "undo", "restored"} \cup StepPcs)
    BY <1>24, <2>1 DEF Honor, Claimed, Pcs, StepPcs
  <2>5. \A i \in {} : i \in Nat /\ i \in Steps(Op(w)) /\ Has(Op(w), i, "undo")
    OBVIOUS
  <2> QED BY <1>0, <2>2, <2>3, <2>4, <2>5, TodoFits
<1>25. ASSUME CompensationRead(w) PROVE RunFits(w)'
  <2>1. Op(w) \in Ops
    BY <1>0, <1>25, OpOfRun DEF CompensationRead, Base, Typed
  <2>2. \A i \in run[w].todo \cup Durable(Op(w)) :
          i \in Nat /\ i \in Steps(Op(w)) /\ Has(Op(w), i, "undo")
    BY <1>0, <2>1, ResourcesOf DEF RunFits, PlacedAt, Durable, Compensates, Has, Base, Typed
  <2>3. run' = [run EXCEPT ![w] = [@ EXCEPT !.pc = "comp", !.todo = run[w].todo \cup
          Durable(Op(w)),
                           !.bad = run[w].bad, !.cancelled = run[w].cancelled]]
    BY <1>0, <1>25 DEF CompensationRead, RunFits, RunType
  <2>4. run[w].bad \in BOOLEAN /\ run[w].cancelled \in BOOLEAN
    BY <1>0 DEF RunFits, RunType
  <2>5. Claimed(w) /\ kind' = kind
        /\ "comp" \in Pcs \ ({"idle", "claim", "undo", "restored"} \cup StepPcs)
    BY <1>25 DEF CompensationRead, Claimed, Pcs, StepPcs
  <2> QED BY <1>0, <2>2, <2>3, <2>4, <2>5, TodoFits
<1>26. ASSUME BeginCompensation(w) PROVE RunFits(w)'
  BY <1>0, <1>26, GotoFits DEF BeginCompensation, Claimed, Pcs, StepPcs
<1>27. ASSUME ResumeCompensation(w) PROVE RunFits(w)'
  <2>1. run[w].pc = "comp" /\ run[w].todo # {} /\ Claimed(w) /\ kind' = kind
    BY <1>27 DEF ResumeCompensation, Claimed
  <2>2. CASE Goto(w, "undo")
    BY <1>0, <2>1, <2>2, GotoFits DEF Pcs, StepPcs
  <2>3. CASE Skip(w, FALSE)
    BY <1>0, <2>1, <2>3, SkipFits
  <2>4. CASE run' = [run EXCEPT ![w] = [@ EXCEPT !.pc = "finalize", !.bad = TRUE]]
    <3>1. run' = [run EXCEPT ![w] = [@ EXCEPT !.pc = "finalize", !.todo = run[w].todo,
            !.bad = TRUE,
                             !.cancelled = run[w].cancelled]]
      BY <1>0, <2>4 DEF RunFits, RunType
    <3>2. run[w].cancelled \in BOOLEAN /\ run[w].todo \subseteq Nat
      BY <1>0 DEF RunFits, RunType
    <3>3. \A i \in run[w].todo : i \in Nat /\ i \in Steps(Op(w)) /\ Has(Op(w), i, "undo")
      BY <1>0, <3>2 DEF RunFits, PlacedAt
    <3> QED BY <1>0, <2>1, <3>1, <3>2, <3>3, TodoFits DEF Pcs, StepPcs
  <2> QED BY <1>27, <2>2, <2>3, <2>4 DEF ResumeCompensation
<1>28. ASSUME CompensateDone(w) PROVE RunFits(w)'
  <2>1. run[w].todo # {}
    BY <1>0, <1>28 DEF CompensateDone, RunFits, PlacedAt
  <2> QED BY <1>0, <1>28, <2>1, GotoFits DEF CompensateDone, Claimed, Pcs, StepPcs
<1>29. ASSUME Restored(w) PROVE RunFits(w)'
  BY <1>0, <1>29, SkipFits DEF Restored, Claimed
<1>30. ASSUME CompensationDone(w) PROVE RunFits(w)'
  BY <1>0, <1>30, GotoFits DEF CompensationDone, Claimed, Pcs, StepPcs
<1>31. ASSUME EndRun(w) PROVE RunFits(w)'
  BY <1>0, <1>31, QuitFits DEF EndRun
<1>32. ASSUME Escape(w) PROVE RunFits(w)'
  BY <1>0, <1>32, QuitFits DEF Escape
<1>33. ASSUME PreflightFails(w) PROVE RunFits(w)'
  BY <1>0, <1>33, GotoFits DEF PreflightFails, Claimed, Pcs, StepPcs
<1>34. ASSUME LoopShutdown(w) PROVE RunFits(w)'
  BY <1>0, <1>34, GotoFits DEF LoopShutdown, Claimed, Pcs, StepPcs
<1>35. ASSUME EffectBegins(w) PROVE RunFits(w)'
  BY <1>0, <1>35 DEF EffectBegins, RunFits, PlacedAt, HoldsAt, Claimed, At, Op, Steps, Has, Step,
     Workflow
<1>36. ASSUME EffectFails(w) PROVE RunFits(w)'
  BY <1>0, <1>36, GotoFits DEF EffectFails, Claimed, Pcs, StepPcs
<1>37. ASSUME VerifyFails(w) PROVE RunFits(w)'
  BY <1>0, <1>37, GotoFits DEF VerifyFails, Claimed, Pcs, StepPcs
<1>38. ASSUME CompensateFails(w) PROVE RunFits(w)'
  BY <1>0, <1>38, SkipFits DEF CompensateFails, Claimed
<1>39. ASSUME Crash(w) PROVE RunFits(w)'
  BY <1>0, <1>39, QuitFits DEF Crash
<1> QED
  BY <1>1, <1>2, <1>3, <1>4, <1>5, <1>6, <1>7, <1>8, <1>9, <1>10, <1>11, <1>12, <1>13, <1>14,
     <1>15, <1>16, <1>17, <1>18, <1>19, <1>20, <1>21, <1>22, <1>23, <1>24, <1>25, <1>26, <1>27,
     <1>28, <1>29, <1>30, <1>31, <1>32, <1>33, <1>34, <1>35, <1>36, <1>37, <1>38,
           <1>39 DEF Work, Misfortune

-----------------------------------------------------------------------------
(* The shape of a worker's step.                                           *)

\* Places where the run knows nothing of the row or the effect of its step.
Calm == {"idle", "claim", "preflight", "enter", "loop", "acquire", "intent", "reverify",
         "failed", "roll_back", "fail_safe", "require", "pause", "honor", "cancelled",
         "comp_read", "comp", "finalize"}

\* Only a claim and a step's phase change what a run holds.
KeepsHold(w) ==
    \/ \E o \in Ops : ClaimRead(w, o)
    \/ Claim(w) \/ AcquirePhase(w)
    \/ Quit(w)
    \/ /\ Claimed(w) /\ Claimed(w)'
       /\ run'[w].op = run[w].op /\ run'[w].held = run[w].held
       /\ UNCHANGED lease

\* Where a run goes, but for the actions inside a step.
GoesCalm(w) ==
    \/ Intent(w) \/ ProbeDecides(w) \/ EnterCritical(w) \/ EffectBegins(w) \/ EffectDone(w)
    \/ Checkpoint(w) \/ Verify(w)
    \/ BeginCompensation(w) \/ ResumeCompensation(w) \/ CompensateDone(w) \/ LoopDone(w)
    \/ run'[w].pc \in Calm

\* Every step has that shape.
LEMMA StepShape ==
    ASSUME Base, NEW w \in Workers, Work(w) \/ Misfortune(w)
    PROVE  KeepsHold(w) /\ GoesCalm(w)
<1>0. run \in [Workers -> RunType]
  BY DEF Base, Typed, RunTyped
<1> USE DEF KeepsHold, GoesCalm
<1>1. ASSUME NEW o \in Ops, ClaimRead(w, o) PROVE KeepsHold(w) /\ GoesCalm(w)
  BY <1>0, <1>1 DEF ClaimRead, Calm, Idle
<1>2. ASSUME WorkflowVersionUnavailable(w) PROVE KeepsHold(w) /\ GoesCalm(w)
  BY <1>0, <1>2 DEF WorkflowVersionUnavailable, Goto, Quit, Skip, Idle, Calm, Claimed, RunType
<1>3. ASSUME ClaimBusy(w) PROVE KeepsHold(w) /\ GoesCalm(w)
  BY <1>0, <1>3 DEF ClaimBusy, Goto, Quit, Skip, Idle, Calm, Claimed, RunType
<1>4. ASSUME Claim(w) PROVE KeepsHold(w) /\ GoesCalm(w)
  BY <1>0, <1>4 DEF Claim, Goto, Quit, Skip, Idle, Calm, Claimed, RunType
<1>5. ASSUME Preflight(w) PROVE KeepsHold(w) /\ GoesCalm(w)
  BY <1>0, <1>5 DEF Preflight, Goto, Quit, Skip, Idle, Calm, Claimed, RunType
<1>6. ASSUME Enter(w) PROVE KeepsHold(w) /\ GoesCalm(w)
  BY <1>0, <1>6 DEF Enter, Goto, Quit, Skip, Idle, Calm, Claimed, RunType
<1>7. ASSUME LoopDone(w) PROVE KeepsHold(w) /\ GoesCalm(w)
  BY <1>0, <1>7 DEF LoopDone, Goto, Quit, Skip, Idle, Calm, Claimed, RunType
<1>8. ASSUME LoopCancel(w) PROVE KeepsHold(w) /\ GoesCalm(w)
  BY <1>0, <1>8 DEF LoopCancel, Goto, Quit, Skip, Idle, Calm, Claimed, RunType
<1>9. ASSUME LoopStep(w) PROVE KeepsHold(w) /\ GoesCalm(w)
  BY <1>0, <1>9 DEF LoopStep, Goto, Quit, Skip, Idle, Calm, Claimed, RunType
<1>10. ASSUME AcquirePhase(w) PROVE KeepsHold(w) /\ GoesCalm(w)
  <2>1. run[w].pc = "acquire" /\ run'[w].pc \in {"reverify", "intent", "pause"}
    BY <1>0, <1>10, AcquireRun DEF RunTyped, RunType
  <2> QED BY <1>10, <2>1 DEF Calm
<1>11. ASSUME EnsureRunning(w) PROVE KeepsHold(w) /\ GoesCalm(w)
  BY <1>0, <1>11 DEF EnsureRunning, Goto, Quit, Skip, Idle, Calm, Claimed, RunType
<1>12. ASSUME Intent(w) PROVE KeepsHold(w) /\ GoesCalm(w)
  BY <1>0, <1>12 DEF Intent, Goto, Quit, Skip, Idle, Calm, Claimed, RunType
<1>13. ASSUME ProbeDecides(w) PROVE KeepsHold(w) /\ GoesCalm(w)
  <2>1. PICK pc \in {"recovered", "critical", "effect", "roll_back", "pause", "require"} :
          Goto(w, pc)
    BY <1>13, ProbeLeads
  <2>2. run'[w] = [run[w] EXCEPT !.pc = pc] /\ run[w] \in RunType
    BY <1>0, <2>1 DEF Goto
  <2>3. run'[w].pc = pc /\ run'[w].op = run[w].op /\ run'[w].held = run[w].held
    BY <2>2 DEF RunType
  <2>4. run[w].pc = "probe" /\ UNCHANGED lease
    BY <1>13 DEF ProbeDecides
  <2> QED BY <1>13, <2>3, <2>4 DEF Claimed
<1>14. ASSUME Recovered(w) PROVE KeepsHold(w) /\ GoesCalm(w)
  BY <1>0, <1>14 DEF Recovered, Goto, Quit, Skip, Idle, Calm, Claimed, RunType
<1>15. ASSUME Reverify(w) PROVE KeepsHold(w) /\ GoesCalm(w)
  BY <1>0, <1>15 DEF Reverify, Goto, Quit, Skip, Idle, Calm, Claimed, RunType
<1>16. ASSUME EnterCritical(w) PROVE KeepsHold(w) /\ GoesCalm(w)
  BY <1>0, <1>16 DEF EnterCritical, Goto, Quit, Skip, Idle, Calm, Claimed, RunType
<1>17. ASSUME EffectDone(w) PROVE KeepsHold(w) /\ GoesCalm(w)
  BY <1>0, <1>17 DEF EffectDone, Goto, Quit, Skip, Idle, Calm, Claimed, RunType
<1>18. ASSUME EffectCancelled(w) PROVE KeepsHold(w) /\ GoesCalm(w)
  BY <1>0, <1>18 DEF EffectCancelled, Goto, Quit, Skip, Idle, Calm, Claimed, RunType
<1>19. ASSUME Checkpoint(w) PROVE KeepsHold(w) /\ GoesCalm(w)
  BY <1>0, <1>19 DEF Checkpoint, Goto, Quit, Skip, Idle, Calm, Claimed, RunType
<1>20. ASSUME Verify(w) PROVE KeepsHold(w) /\ GoesCalm(w)
  BY <1>0, <1>20 DEF Verify, Goto, Quit, Skip, Idle, Calm, Claimed, RunType
<1>21. ASSUME ExitCritical(w) PROVE KeepsHold(w) /\ GoesCalm(w)
  BY <1>0, <1>21 DEF ExitCritical, Goto, Quit, Skip, Idle, Calm, Claimed, RunType
<1>22. ASSUME Failed(w) PROVE KeepsHold(w) /\ GoesCalm(w)
  BY <1>0, <1>22 DEF Failed, Goto, Quit, Skip, Idle, Calm, Claimed, RunType
<1>23. ASSUME RollBack(w) PROVE KeepsHold(w) /\ GoesCalm(w)
  BY <1>0, <1>23 DEF RollBack, Goto, Quit, Skip, Idle, Calm, Claimed, RunType
<1>24. ASSUME Honor(w) PROVE KeepsHold(w) /\ GoesCalm(w)
  BY <1>0, <1>24 DEF Honor, Goto, Quit, Skip, Idle, Calm, Claimed, RunType
<1>25. ASSUME CompensationRead(w) PROVE KeepsHold(w) /\ GoesCalm(w)
  BY <1>0, <1>25 DEF CompensationRead, Goto, Quit, Skip, Idle, Calm, Claimed, RunType
<1>26. ASSUME BeginCompensation(w) PROVE KeepsHold(w) /\ GoesCalm(w)
  BY <1>0, <1>26 DEF BeginCompensation, Goto, Quit, Skip, Idle, Calm, Claimed, RunType
<1>27. ASSUME ResumeCompensation(w) PROVE KeepsHold(w) /\ GoesCalm(w)
  BY <1>0, <1>27, ResumeRun DEF RunTyped, ResumeCompensation, Claimed
<1>28. ASSUME CompensateDone(w) PROVE KeepsHold(w) /\ GoesCalm(w)
  BY <1>0, <1>28 DEF CompensateDone, Goto, Quit, Skip, Idle, Calm, Claimed, RunType
<1>29. ASSUME Restored(w) PROVE KeepsHold(w) /\ GoesCalm(w)
  BY <1>0, <1>29 DEF Restored, Goto, Quit, Skip, Idle, Calm, Claimed, RunType
<1>30. ASSUME CompensationDone(w) PROVE KeepsHold(w) /\ GoesCalm(w)
  BY <1>0, <1>30 DEF CompensationDone, Goto, Quit, Skip, Idle, Calm, Claimed, RunType
<1>31. ASSUME EndRun(w) PROVE KeepsHold(w) /\ GoesCalm(w)
  BY <1>0, <1>31 DEF EndRun, Quit, Idle, Calm
<1>32. ASSUME Escape(w) PROVE KeepsHold(w) /\ GoesCalm(w)
  BY <1>0, <1>32 DEF Escape, Goto, Quit, Skip, Idle, Calm, Claimed, RunType
<1>33. ASSUME PreflightFails(w) PROVE KeepsHold(w) /\ GoesCalm(w)
  BY <1>0, <1>33 DEF PreflightFails, Goto, Quit, Skip, Idle, Calm, Claimed, RunType
<1>34. ASSUME LoopShutdown(w) PROVE KeepsHold(w) /\ GoesCalm(w)
  BY <1>0, <1>34 DEF LoopShutdown, Goto, Quit, Skip, Idle, Calm, Claimed, RunType
<1>35. ASSUME EffectBegins(w) PROVE KeepsHold(w) /\ GoesCalm(w)
  BY <1>0, <1>35 DEF EffectBegins, Goto, Quit, Skip, Idle, Calm, Claimed, RunType
<1>36. ASSUME EffectFails(w) PROVE KeepsHold(w) /\ GoesCalm(w)
  BY <1>0, <1>36 DEF EffectFails, Goto, Quit, Skip, Idle, Calm, Claimed, RunType
<1>37. ASSUME VerifyFails(w) PROVE KeepsHold(w) /\ GoesCalm(w)
  BY <1>0, <1>37 DEF VerifyFails, Goto, Quit, Skip, Idle, Calm, Claimed, RunType
<1>38. ASSUME CompensateFails(w) PROVE KeepsHold(w) /\ GoesCalm(w)
  BY <1>0, <1>38 DEF CompensateFails, Goto, Quit, Skip, Idle, Calm, Claimed, RunType
<1>39. ASSUME Crash(w) PROVE KeepsHold(w) /\ GoesCalm(w)
  BY <1>0, <1>39 DEF Crash, Goto, Quit, Skip, Idle, Calm, Claimed, RunType
<1> QED
  BY <1>1, <1>2, <1>3, <1>4, <1>5, <1>6, <1>7, <1>8, <1>9, <1>10, <1>11, <1>12, <1>13, <1>14,
     <1>15, <1>16, <1>17, <1>18, <1>19, <1>20, <1>21, <1>22, <1>23, <1>24, <1>25, <1>26, <1>27,
     <1>28, <1>29, <1>30, <1>31, <1>32, <1>33, <1>34, <1>35, <1>36, <1>37, <1>38,
           <1>39 DEF Work, Misfortune

\* Only ClaimRead is a step of an idle worker.
LEMMA WorksOn ==
    ASSUME NEW w \in Workers, Work(w) \/ Misfortune(w), ~ \E o \in Ops : ClaimRead(w, o)
    PROVE  run[w].pc # "idle"
<1>1. EndRun(w) => run[w].pc # "idle"
  BY OutcomeOf DEF EndRun
<1>2. Escape(w) => run[w].pc # "idle"
  BY OutcomeOf DEF Escape, Illegal, Fenced
<1> QED
  BY <1>1, <1>2 DEF Work, Misfortune, WorkflowVersionUnavailable, ClaimBusy, Claim, Preflight,
     Enter, LoopDone, LoopCancel, LoopStep, AcquirePhase, EnsureRunning, Intent, ProbeDecides,
     Recovered, Reverify, EnterCritical, EffectDone, EffectCancelled, Checkpoint, Verify,
     ExitCritical, Failed, RollBack, Honor, CompensationRead, BeginCompensation,
     ResumeCompensation, CompensateDone, Restored, CompensationDone, PreflightFails, LoopShutdown,
     EffectBegins, EffectFails, VerifyFails, CompensateFails, Crash

-----------------------------------------------------------------------------
(* The basic invariant.                                                    *)

\* Base holds at the start,
LEMMA InitBase == Init => Base
<1> SUFFICES ASSUME Init PROVE Base
  OBVIOUS
<1>1. KindTyped /\ StateTyped /\ LeasesTyped /\ FaultsTyped
  BY FaultsAssumption DEF Init, KindTyped, StateTyped, LeasesTyped, FaultsTyped, OperationState
<1>2. RowsTyped /\ EffectsTyped
  BY DEF Init, RowsTyped, EffectsTyped, StepState
<1>3. Idle \in RunType
  BY DEF Idle, RunType, Pcs, OperationState
<1>4. RunTyped
  BY <1>3 DEF Init, RunTyped
<1>5. Placed /\ Holding
  BY DEF Init, Placed, PlacedAt, Holding, HoldsAt, Claimed, Idle, StepPcs
<1> QED BY <1>1, <1>2, <1>4, <1>5 DEF Base, Typed

\* A step of one worker leaves the runs of the others, and what they know of the
\* registry, alone.
LEMMA OthersFit ==
    ASSUME Base, NEW w \in Workers, Footprint(w), NEW v \in Workers, v # w
    PROVE  RunFits(v)'
<1>1. run'[v] = run[v] /\ kind' = kind
  BY DEF Footprint, RunStep, Base, Typed, RunTyped
<1>2. RunFits(v)
  BY DEF Base, Typed, RunTyped, Placed, Holding, RunFits
<1> QED BY <1>1, <1>2 DEF RunFits, PlacedAt, HoldsAt, Claimed, At, Op, Steps, Has, Step, Workflow

\* and is kept by the workers,
LEMMA WorkKeepsBase ==
    ASSUME Base, NEW w \in Workers, Work(w) \/ Misfortune(w)
    PROVE  Base'
<1>1. Footprint(w)
  BY StepFootprint DEF Base
<1>2. \A v \in Workers : RunFits(v)'
  BY <1>1, OthersFit, RunStaysFit
<1>3. RunTyped' /\ Placed' /\ Holding'
  BY <1>1, <1>2 DEF RunTyped, Placed, Holding, RunFits, Footprint, RunStep, Base, Typed
<1>4. KindTyped' /\ StateTyped' /\ RowsTyped' /\ EffectsTyped' /\ LeasesTyped' /\ FaultsTyped'
  <2>1. CASE \E o \in Ops : ClaimRead(w, o)
    BY <2>1 DEF ClaimRead, Base, Typed, KindTyped, StateTyped, RowsTyped, EffectsTyped,
               LeasesTyped, FaultsTyped, Steps, Workflow
  <2>2. CASE ~ \E o \in Ops : ClaimRead(w, o)
    BY <1>1, <2>2, WorksOn, TablesTyped DEF Base
  <2> QED BY <2>1, <2>2
<1> QED BY <1>3, <1>4 DEF Base, Typed

\* by the user and the clock,
LEMMA WorldKeepsBase ==
    ASSUME Base,
           \/ \E o \in Ops : RequestCancel(o) \/ Resume(o)
           \/ \E r \in Resources : Expire(r)
    PROVE  Base'
<1>1. UNCHANGED <<kind, stepState, effect, run, faults>>
  BY DEF RequestCancel, Resume, Expire
<1>2. StateTyped'
  BY DEF RequestCancel, Resume, Expire, Base, Typed, StateTyped, OperationState
<1>3. LeasesTyped'
  <2>1. ASSUME NEW r \in Resources, Expire(r) PROVE LeasesTyped'
    <3>1. lease[r] \in LeaseRow
      BY <2>1 DEF Expire, Base, Typed, LeasesTyped
    <3>2. [lease[r] EXCEPT !.live = FALSE] \in LeaseRow
      BY <3>1 DEF LeaseRow
    <3> QED BY <2>1, <3>2 DEF Expire, Base, Typed, LeasesTyped
  <2> QED BY <2>1 DEF RequestCancel, Resume, Base, Typed, LeasesTyped
<1> QED
  BY <1>1, <1>2, <1>3 DEF Base, Typed, KindTyped, RowsTyped, EffectsTyped, RunTyped, FaultsTyped,
     Placed, PlacedAt, Holding, HoldsAt, Claimed, At, Op, Steps, Has, Step, Workflow

\* and so by every step.
LEMMA NextKeepsBase == Base /\ [Next]_vars => Base'
<1> SUFFICES ASSUME Base, [Next]_vars PROVE Base'
  OBVIOUS
<1>1. CASE UNCHANGED vars
  BY <1>1 DEF vars, Base, Typed, KindTyped, StateTyped, RowsTyped, EffectsTyped, LeasesTyped,
     RunTyped, FaultsTyped, Placed, PlacedAt, Holding, HoldsAt, Claimed, At, Op, Steps, Has, Step,
     Workflow
<1> QED BY <1>1, WorkKeepsBase, WorldKeepsBase DEF Next

\* Typing: every run of execute_one, whatever died or stalled around it, works on an
\* operation of the table, in a step of its workflow, with the keys it claimed for it.
THEOREM BaseHolds == Spec => []Base
  BY InitBase, NextKeepsBase, PTL DEF Spec

\* Typing: operations, rows, effects, leases and runs keep their types through every
\* transaction of engine.py.
THEOREM TypeCorrect == Spec => []TypeOK
<1>1. Base => TypeOK
  BY DEF Base, Typed, KindTyped, StateTyped, RowsTyped, EffectsTyped, LeasesTyped, LeaseRow,
         RunTyped, RunType, FaultsTyped, Placed, PlacedAt, TypeOK
<1> QED BY <1>1, BaseHolds, PTL

-----------------------------------------------------------------------------
(* Fences.                                                                 *)

\* Two runs of one operation never both pass their fence.
LEMMA OneFenced ==
    ASSUME Base, NEW v \in Workers, NEW w \in Workers, v # w, Op(v) = Op(w),
           Claimed(v), Claimed(w), Fence(v), Fence(w)
    PROVE  FALSE
<1>1. Op(w) \in Ops
  BY OpOfRun DEF Base, Typed, Claimed
<1>2. PICK r : r \in InitialResources(Workflow(Op(w)))
  BY <1>1, ResourcesOf DEF Base, Typed
<1>3. r \in run[v].held /\ r \in run[w].held
  BY <1>2 DEF Base, Holding, HoldsAt
<1>4. lease[r].owner = v /\ lease[r].owner = w
  BY <1>3 DEF Fence
<1> QED BY <1>4

\* A run that lost its fence does not get it back.
LEMMA FenceNotRegained ==
    ASSUME Base, NEW v \in Workers, Claimed(v), Claimed(v)', [Next]_vars, Fence(v)'
    PROVE  Fence(v) /\ Op(v)' = Op(v)
<1> USE DEF Base, Typed
<1>0. \A r \in Resources : r \in run[v].held' =>
        lease'[r] = [op |-> Op(v)', owner |-> v, live |-> TRUE]
  BY DEF Fence
<1>1. run[v].held \subseteq Resources
  BY DEF RunTyped, RunType
<1>2. ASSUME Work(v) \/ Misfortune(v) PROVE Fence(v) /\ Op(v)' = Op(v)
  <2>1. CASE AcquirePhase(v)
    <3>1. Op(v)' = Op(v) /\ run[v].held \subseteq run'[v].held
      BY <2>1, AcquireRun DEF RunTyped, RunType, Op
    <3>2. CASE UNCHANGED lease
      BY <1>0, <1>1, <3>1, <3>2 DEF Fence
    <3>3. CASE ~ UNCHANGED lease
      BY <2>1, <3>1, <3>3 DEF AcquirePhase
    <3> QED BY <3>2, <3>3
  <2>2. CASE ~ AcquirePhase(v)
    <3>1. /\ Op(v)' = Op(v) /\ run'[v].held = run[v].held
          /\ UNCHANGED lease
      <4>1. ~ Quit(v)
        BY DEF Quit, Idle, Claimed, RunTyped
      <4>2. ~ Claim(v) /\ \A o \in Ops : ~ ClaimRead(v, o)
        BY DEF Claim, ClaimRead, Claimed
      <4>3. KeepsHold(v)
        BY <1>2, StepShape
      <4> QED BY <2>2, <4>1, <4>2, <4>3 DEF KeepsHold, Op
    <3> QED BY <3>1 DEF Fence
  <2> QED BY <2>1, <2>2
<1>3. ASSUME NEW w \in Workers, w # v, Work(w) \/ Misfortune(w) PROVE Fence(v) /\ Op(v)' = Op(v)
  <2>1. Footprint(w)
    BY <1>3, StepFootprint
  <2>2. run'[v] = run[v]
    BY <1>3, <2>1 DEF Footprint, RunStep, RunTyped
  <2>3. \A r \in run[v].held : lease[r] = lease'[r]
    <3> SUFFICES ASSUME NEW r \in run[v].held, lease[r] # lease'[r] PROVE FALSE
      OBVIOUS
    <3>1. lease'[r] = [op |-> Op(v), owner |-> v, live |-> TRUE]
      BY <1>0, <1>1, <2>2 DEF Op
    <3>2. lease'[r] = [op |-> Op(w), owner |-> w, live |-> TRUE] \/ lease'[r] = NoLease
      BY <1>1, <2>1 DEF Footprint, LeaseStep, Acquired, Free
    <3>3. [op |-> Op(v), owner |-> v, live |-> TRUE] # NoLease
      <4>1. Op(v) \in Ops
        BY OpOfRun DEF Claimed
      <4>2. [op |-> Op(v), owner |-> v, live |-> TRUE] \in LeaseRow
        BY <4>1 DEF LeaseRow
      <4> QED BY <4>2, NullAssumption DEF LeaseRow
    <3> QED BY <1>3, <3>1, <3>2, <3>3
  <2> QED BY <1>0, <1>1, <2>2, <2>3 DEF Fence, Op
<1>4. ASSUME (\E o \in Ops : RequestCancel(o) \/ Resume(o)) \/ UNCHANGED vars
      PROVE Fence(v) /\ Op(v)' = Op(v)
  BY <1>4 DEF RequestCancel, Resume, vars, Fence, Op
<1>5. ASSUME NEW r \in Resources, Expire(r) PROVE Fence(v) /\ Op(v)' = Op(v)
  <2>1. run' = run /\ lease' = [lease EXCEPT ![r].live = FALSE]
    BY <1>5 DEF Expire
  <2>2. lease'[r].live = FALSE
    BY <1>5, <2>1 DEF LeasesTyped, LeaseRow, Expire
  <2>3. r \notin run[v].held
    BY <1>0, <2>1, <2>2
  <2> QED BY <1>0, <1>1, <2>1, <2>3 DEF Fence, Op, LeasesTyped
<1> QED BY <1>2, <1>3, <1>4, <1>5 DEF Next

-----------------------------------------------------------------------------
(* What a fenced run may rely on.                                          *)

\* Nobody but the fenced run itself moves its operation, except that a user cancels
\* or resumes it and that a worker without a workflow for it pauses it.
LEMMA OnlyOwnerMoves ==
    ASSUME Base, NEW v \in Workers, Claimed(v), Fence(v),
           NEW w \in Workers, w # v, Work(w) \/ Misfortune(w)
    PROVE  /\ run'[v] = run[v] /\ kind' = kind
           /\ stepState'[Op(v)] = stepState[Op(v)]
           /\ \/ opState'[Op(v)] = opState[Op(v)]
              \/ CanTransition(opState[Op(v)], "PAUSED") /\ opState'[Op(v)] = "PAUSED"
<1> USE DEF Base, Typed
<1>1. Footprint(w)
  BY StepFootprint
<1>2. run'[v] = run[v] /\ kind' = kind
  BY <1>1 DEF Footprint, RunStep, RunTyped
<1>3. Op(v) \in Ops
  BY OpOfRun DEF Claimed
<1>4. ~ (Claimed(w) /\ Fence(w) /\ Op(w) = Op(v))
  BY OneFenced
<1>5. Claimed(w) => Op(w) \in Ops
  BY OpOfRun DEF Claimed
<1>6. stepState'[Op(v)] = stepState[Op(v)]
  BY <1>1, <1>3, <1>4, <1>5 DEF Footprint, RowStep, SetRow, RowsTyped
<1>7. \/ opState'[Op(v)] = opState[Op(v)]
      \/ CanTransition(opState[Op(v)], "PAUSED") /\ opState'[Op(v)] = "PAUSED"
  BY <1>1, <1>3, <1>4, <1>5 DEF Footprint, StateStep, SetState, CanMove, StateTyped
<1> QED BY <1>2, <1>6, <1>7

\* A critical section is kept: the owner moves its operation only at its end, a takeover
\* costs the owner its fence, and request_cancel refuses COMMITTING.
LEMMA CriticalKept == Base /\ CriticalNotCancelled /\ [Next]_vars => CriticalNotCancelled'
<1> SUFFICES ASSUME Base, CriticalNotCancelled, [Next]_vars, NEW v \in Workers,
                    run'[v].pc \in {"effect", "checkpoint", "verify", "exit"},
                    Mine(v, "critical")', Fence(v)'
             PROVE  opState'[Op(v)'] = "COMMITTING"
  BY DEF CriticalNotCancelled
<1> USE DEF Base, Typed
<1>0. RunTyped /\ StateTyped
  OBVIOUS
<1>1. ASSUME Work(v) \/ Misfortune(v) PROVE opState'[Op(v)'] = "COMMITTING"
  <2>1. CASE Intent(v)
    BY <1>0, <2>1 DEF Intent, Goto, RunTyped, RunType, Mine, Has, Step, Workflow, Op, At
  <2>2. CASE ProbeDecides(v)
    <3>1. PICK pc \in {"recovered", "critical", "effect", "roll_back", "pause", "require"} :
            Goto(v, pc) /\ (pc = "effect" => ~ Mine(v, "critical"))
      BY <2>2, ProbeLeads
    <3>2. run'[v] = [run[v] EXCEPT !.pc = pc] /\ kind' = kind
      <4>2. kind' = kind
        BY <2>2 DEF ProbeDecides
      <4> QED BY <1>0, <3>1, <4>2, GotoRun
    <3>3. pc = "effect" /\ Mine(v, "critical")
      BY <1>0, <3>2 DEF RunTyped, RunType, Mine, Has, Step, Workflow, Op, At
    <3> QED BY <3>1, <3>3
  <2>3. CASE EnterCritical(v)
    <3>1. Op(v) \in Ops
      BY <2>3, OpOfRun DEF EnterCritical
    <3> QED BY <1>0, <2>3, <3>1 DEF EnterCritical, Goto, SetState, RunTyped, RunType,
          StateTyped, Op
  <2>4. CASE EffectBegins(v) \/ EffectDone(v) \/ Checkpoint(v) \/ Verify(v)
    <3>1. /\ run[v].pc \in {"effect", "checkpoint", "verify"} /\ Mine(v, "critical")
          /\ opState' = opState /\ Claimed(v)
      <4>1. /\ run[v].pc \in {"effect", "checkpoint", "verify"} /\ Claimed(v)
            /\ opState' = opState /\ kind' = kind
        BY <2>4 DEF EffectBegins, EffectDone, Checkpoint, Verify, Claimed
      <4>2. run' = run \/ \E pc \in Pcs : Goto(v, pc)
        BY <2>4 DEF EffectBegins, EffectDone, Checkpoint, Verify, Pcs
      <4>3. Op(v)' = Op(v) /\ At(v)' = At(v)
        BY <4>2, GotoRun DEF RunTyped, RunType, Op, At
      <4> QED BY <1>0, <4>1, <4>3 DEF Mine, Has, Step, Workflow
    <3>2. Fence(v) /\ Op(v)' = Op(v)
      BY <3>1, FenceNotRegained DEF Claimed
    <3> QED BY <3>1, <3>2 DEF CriticalNotCancelled
  <2>5. CASE BeginCompensation(v) \/ ResumeCompensation(v) \/ CompensateDone(v) \/ LoopDone(v)
    <3>1. CASE ResumeCompensation(v)
      BY <3>1, ResumeRun DEF Base, Typed
    <3> QED BY <1>0, <2>5, <3>1 DEF BeginCompensation, CompensateDone, LoopDone, Goto, RunTyped,
       RunType
  <2> QED BY <1>1, <2>1, <2>2, <2>3, <2>4, <2>5, StepShape DEF GoesCalm, Calm
<1>2. ASSUME ~ (Work(v) \/ Misfortune(v)) PROVE opState'[Op(v)'] = "COMMITTING"
  <2>1. run'[v] = run[v] /\ kind' = kind
    <3>1. CASE \E w \in Workers : w # v /\ (Work(w) \/ Misfortune(w))
      BY <3>1, StepFootprint DEF Footprint, RunStep, RunTyped
    <3>2. CASE ~ \E w \in Workers : Work(w) \/ Misfortune(w)
      BY <3>2 DEF Next, RequestCancel, Resume, Expire, vars
    <3> QED BY <1>2, <3>1, <3>2
  <2>2. Fence(v) /\ Claimed(v) /\ Mine(v, "critical") /\ Op(v)' = Op(v)
    BY <2>1, FenceNotRegained DEF Claimed, Mine, Has, Step, Workflow, Op, At
  <2>3. opState[Op(v)] = "COMMITTING"
    BY <2>1, <2>2 DEF CriticalNotCancelled
  <2>4. CASE \E w \in Workers : Work(w) \/ Misfortune(w)
    BY <1>2, <2>2, <2>3, <2>4, OnlyOwnerMoves DEF CanTransition, Transitions
  <2>5. CASE ~ \E w \in Workers : Work(w) \/ Misfortune(w)
    <3>1. opState' = opState \/ \E o \in Ops : RequestCancel(o) \/ Resume(o)
      BY <2>5 DEF Next, Expire, vars
    <3>2. ASSUME NEW o \in Ops, RequestCancel(o) \/ Resume(o), o # Op(v)
          PROVE  opState'[Op(v)] = opState[Op(v)]
      <4>1. Op(v) \in Ops
        BY <2>2, OpOfRun DEF Claimed
      <4> QED BY <1>0, <3>2, <4>1 DEF RequestCancel, Resume, StateTyped
    <3>3. ~ RequestCancel(Op(v)) /\ ~ Resume(Op(v))
      BY <2>3 DEF RequestCancel, Resume
    <3> QED BY <2>2, <2>3, <3>1, <3>2, <3>3
  <2> QED BY <2>4, <2>5
<1> QED BY <1>1, <1>2

\* From the critical effect to the end of its verification, a run that still passes its
\* fence has the operation COMMITTING: no cancellation is accepted inside, for any number
\* of workers and any stall (_enter_critical, _exit_critical, request_cancel).
THEOREM CriticalNeverCancelled == Spec => []CriticalNotCancelled
<1>1. Init => CriticalNotCancelled
  BY DEF Init, CriticalNotCancelled, Idle
<1> QED BY <1>1, CriticalKept, BaseHolds, PTL DEF Spec

-----------------------------------------------------------------------------
(***************************************************************************)
(* What the rows say of the world.  With any number of workers, as long as *)
(* none outlives its lease in an effect or a compensation (Disciplined:    *)
(* both pulse their leases), a checkpoint is of a finished effect, a       *)
(* finished effect is not executed again, SUCCEEDED is recorded only of    *)
(* steps in place, and two runs never touch one resource together.         *)
(*                                                                         *)
(* None of these is inductive alone.  What carries them is what a run that *)
(* nobody disturbs (Sure) knows at each place of the row and the effect of *)
(* its step (Knows), and that a run without its fence is not touching      *)
(* anything (TouchesSure).                                                 *)
(***************************************************************************)

\* No worker outlives its lease inside an effect or a compensation, or there is only one.
Disciplined == Slow \cap {"effect", "undo"} = {} \/ \A v, w \in Workers : v = w

\* Nobody else acts for w's operation: its rows are w's, or w is the only worker.
Sure(w) == Fence(w) \/ \A v \in Workers : v = w

TouchesSure == \A w \in Workers : run[w].pc \in {"effect", "undo"} => Sure(w)

\* What the rows say of the world, and what the world allows a row to say.
RecordedAt(o, i) ==
    /\ stepState[o][i] \in {"CHECKPOINTED", "VERIFIED"} =>
         Has(o, i, "inert") \/ effect[o][i] = "done"
    /\ stepState[o][i] = "PENDING" => effect[o][i] = "none"
    /\ effect[o][i] = "part" => Divisible(Step(o, i))

EffectsRecorded == \A o \in Ops : \A i \in Steps(o) : RecordedAt(o, i)

\* What a run that nobody disturbs knows at each place.
Knows(w) ==
    /\ run[w].pc \in {"probe", "recovered", "critical", "effect", "checkpoint"} =>
         Row(w) = "RUNNING"
    /\ run[w].pc = "checkpoint" => effect[Op(w)][At(w)] = "done"
    /\ run[w].pc = "recovered" => Mine(w, "inert") \/ effect[Op(w)][At(w)] = "done"
    /\ run[w].pc = "critical" /\ "COMPLETE" \in Step(Op(w), At(w)).probe
       => effect[Op(w)][At(w)] # "done"
    /\ run[w].pc \in {"undo", "restored"} => stepState[Op(w)][Last(w)] = "COMPENSATING"
    /\ run[w].pc = "complete" => Unverified(Op(w)) = {}

Knowing == \A w \in Workers : Claimed(w) /\ Sure(w) => Knows(w)

\* A run of a SUCCEEDED operation (a claim may be late) finds nothing to do.
Late == {"idle", "claim", "preflight", "enter", "loop", "complete", "fail_safe"}

LateRuns ==
    \A w \in Workers :
        run[w].pc # "idle" /\ Sure(w) /\ opState[Op(w)] = "SUCCEEDED" => run[w].pc \in Late

EffectInv == Base /\ TouchesSure /\ EffectsRecorded /\ Knowing /\ LateRuns /\ SucceededIsVerified

-----------------------------------------------------------------------------

\* A run keeps its operation.
LEMMA RunKeepsOp ==
    ASSUME Base, NEW v \in Workers, Claimed(v), Claimed(v)', [Next]_vars
    PROVE  Op(v)' = Op(v)
<1> USE DEF Base, Typed
<1>1. ASSUME Work(v) \/ Misfortune(v) PROVE Op(v)' = Op(v)
  <2>1. CASE AcquirePhase(v)
    BY <2>1 DEF AcquirePhase, Goto, RunTyped, RunType, Op
  <2>2. CASE ~ AcquirePhase(v)
    <3>1. ~ Quit(v)
      BY DEF Quit, Idle, Claimed, RunTyped
    <3>2. ~ Claim(v) /\ \A o \in Ops : ~ ClaimRead(v, o)
      BY DEF Claim, ClaimRead, Claimed
    <3>3. KeepsHold(v)
      BY <1>1, StepShape
    <3> QED BY <2>2, <3>1, <3>2, <3>3 DEF KeepsHold, Op
  <2> QED BY <2>1, <2>2
<1>2. ASSUME NEW w \in Workers, w # v, Work(w) \/ Misfortune(w) PROVE Op(v)' = Op(v)
  BY <1>2, StepFootprint DEF Footprint, RunStep, RunTyped, Op
<1>3. ASSUME \/ UNCHANGED vars
             \/ \E o \in Ops : RequestCancel(o) \/ Resume(o)
             \/ \E r \in Resources : Expire(r)
      PROVE  Op(v)' = Op(v)
  BY <1>3 DEF RequestCancel, Resume, Expire, vars, Op
<1> QED BY <1>1, <1>2, <1>3 DEF Next

\* A run that lost its fence does not get it back.
LEMMA SureNotRegained ==
    ASSUME Base, NEW v \in Workers, Claimed(v), Claimed(v)', [Next]_vars, Sure(v)'
    PROVE  Sure(v) /\ Op(v)' = Op(v)
<1>1. CASE \A u \in Workers : u = v
  BY <1>1, RunKeepsOp DEF Sure
<1>2. CASE ~ \A u \in Workers : u = v
  BY <1>2, FenceNotRegained DEF Sure
<1> QED BY <1>1, <1>2

\* What others do leaves the operation of an undisturbed run alone.
LEMMA OnlyOwnerTouches ==
    ASSUME Base, TouchesSure, NEW v \in Workers, Claimed(v), Sure(v),
           NEW w \in Workers, w # v, Work(w) \/ Misfortune(w)
    PROVE  /\ run'[v] = run[v] /\ kind' = kind
           /\ stepState'[Op(v)] = stepState[Op(v)]
           /\ effect'[Op(v)] = effect[Op(v)]
           /\ \/ opState'[Op(v)] = opState[Op(v)]
              \/ CanTransition(opState[Op(v)], "PAUSED") /\ opState'[Op(v)] = "PAUSED"
<1> USE DEF Base, Typed
<1>1. Fence(v)
  BY DEF Sure
<1>2. Footprint(w)
  BY StepFootprint
<1>3. Op(v) \in Ops
  BY OpOfRun DEF Claimed
<1>4. effect'[Op(v)] = effect[Op(v)]
  <2>1. CASE UNCHANGED effect
    BY <2>1
  <2>2. CASE ~ UNCHANGED effect
    <3>1. run[w].pc \in {"effect", "undo"} /\ Claimed(w)
      BY <1>2, <2>2 DEF Footprint, EffectStep, Claimed
    <3>2. Fence(w) /\ Op(w) \in Ops
      BY <3>1, OpOfRun DEF TouchesSure, Sure, Claimed
    <3>3. Op(w) # Op(v)
      BY <1>1, <3>1, <3>2, OneFenced
    <3> QED BY <1>2, <1>3, <3>2, <3>3 DEF Footprint, EffectStep, SetEffect, EffectsTyped
  <2> QED BY <2>1, <2>2
<1> QED BY <1>1, <1>4, OnlyOwnerMoves

\* The rows of a run are not taken by others, and do not expire where it pulses.
LEMMA FenceStays ==
    ASSUME Base, NEW v \in Workers, Claimed(v), Fence(v), NEW w \in Workers, w # v,
           Work(w) \/ Misfortune(w)
    PROVE  Fence(v)'
<1> USE DEF Base, Typed
<1>1. Footprint(w)
  BY StepFootprint
<1>2. run'[v] = run[v]
  BY <1>1 DEF Footprint, RunStep, RunTyped
<1>3. run[v].held \subseteq Resources
  BY DEF RunTyped, RunType
<1>4. ASSUME NEW r \in run[v].held PROVE lease'[r] = lease[r]
  <2>1. lease[r] = [op |-> Op(v), owner |-> v, live |-> TRUE]
    BY <1>4 DEF Fence
  <2>2. lease[r] # NoLease
    <3>1. Op(v) \in Ops
      BY OpOfRun DEF Claimed
    <3>2. [op |-> Op(v), owner |-> v, live |-> TRUE] \in [op : Ops, owner : Workers, live :
            BOOLEAN]
      BY <3>1
    <3> QED BY <2>1, <3>2, NullAssumption
  <2>3. ~ Acquirable(r)
    BY <2>1, <2>2 DEF Acquirable
  <2>4. Fence(w) => r \notin run[w].held
    BY <2>1 DEF Fence
  <2> QED BY <1>1, <1>3, <1>4, <2>3, <2>4 DEF Footprint, LeaseStep, Acquired, Free
<1> QED BY <1>2, <1>4 DEF Fence, Op

\* Nor does a lease run out under a run that pulses it.
LEMMA FenceDoesNotExpire ==
    ASSUME Base, NEW v \in Workers, Fence(v), run[v].pc \notin Slow, NEW r \in Resources,
        Expire(r)
    PROVE  Fence(v)'
<1>1. r \notin run[v].held
  BY DEF Expire, Fence
<1>2. run[v].held \subseteq Resources
  BY DEF Base, Typed, RunTyped, RunType
<1> QED BY <1>1, <1>2 DEF Expire, Fence, Op, Base, Typed, LeasesTyped

-----------------------------------------------------------------------------
(* A run that touches the world is undisturbed.                            *)

\* Where a step of a run may lead into an effect or a compensation.
LEMMA EntersTouch ==
    ASSUME Base, NEW v \in Workers, Work(v) \/ Misfortune(v), run'[v].pc \in {"effect", "undo"}
    PROVE  /\ Claimed(v) /\ lease' = lease
           /\ run'[v].op = run[v].op /\ run'[v].held = run[v].held
           /\ Fence(v) \/ (run[v].pc = "effect" /\ EffectBegins(v))
<1>0. run \in [Workers -> RunType]
  BY DEF Base, Typed, RunTyped
<1>1. CASE Intent(v)
  BY <1>0, <1>1 DEF Intent, Goto, Claimed
<1>2. CASE ProbeDecides(v)
  <2>1. PICK pc \in {"recovered", "critical", "effect", "roll_back", "pause", "require"} :
          Goto(v, pc)
    BY <1>2, ProbeLeads
  <2> QED BY <1>0, <1>2, <2>1 DEF ProbeDecides, Goto, Claimed, RunType
<1>3. CASE EnterCritical(v)
  BY <1>0, <1>3 DEF EnterCritical, Goto, Claimed, RunType
<1>4. CASE EffectBegins(v) \/ EffectDone(v)
  BY <1>0, <1>4 DEF EffectBegins, EffectDone, Goto, Claimed, RunType
<1>5. CASE Checkpoint(v) \/ Verify(v) \/ LoopDone(v) \/ CompensateDone(v)
  BY <1>0, <1>5 DEF Checkpoint, Verify, LoopDone, CompensateDone, Goto, RunType
<1>6. CASE BeginCompensation(v)
  BY <1>0, <1>6 DEF BeginCompensation, Goto, Claimed
<1>7. CASE ResumeCompensation(v)
  <2>1. \/ Goto(v, "undo") \/ Skip(v, FALSE)
        \/ run' = [run EXCEPT ![v] = [@ EXCEPT !.pc = "finalize", !.bad = TRUE]]
    BY <1>7 DEF ResumeCompensation
  <2>2. ~ Skip(v, FALSE)
    BY SkipRun DEF Base, Typed
  <2>3. CASE run' = [run EXCEPT ![v] = [@ EXCEPT !.pc = "finalize", !.bad = TRUE]]
    <3>1. run'[v].pc = "finalize"
      BY <1>0, <2>3 DEF RunType
    <3> QED BY <3>1
  <2>4. CASE Goto(v, "undo")
    BY <1>0, <1>7, <2>4 DEF ResumeCompensation, Goto, Claimed
  <2> QED BY <2>1, <2>2, <2>3, <2>4
<1> QED BY <1>1, <1>2, <1>3, <1>4, <1>5, <1>6, <1>7, StepShape DEF GoesCalm, Calm

\* Whoever touches the world still has its fence.
LEMMA TouchesSureKept == Disciplined /\ Base /\ TouchesSure /\ [Next]_vars => TouchesSure'
<1> SUFFICES ASSUME Disciplined, Base, TouchesSure, [Next]_vars, NEW v \in Workers,
                    run'[v].pc \in {"effect", "undo"}
             PROVE  Sure(v)'
  BY DEF TouchesSure
<1>1. CASE \A u \in Workers : u = v
  BY <1>1 DEF Sure
<1> SUFFICES ASSUME ~ \A u \in Workers : u = v
             PROVE  Fence(v)'
  BY <1>1 DEF Sure
<1>2. Slow \cap {"effect", "undo"} = {}
  BY DEF Disciplined
<1>3. CASE Work(v) \/ Misfortune(v)
  BY <1>3, EntersTouch DEF TouchesSure, Sure, Fence, Op
<1>4. CASE \E w \in Workers : w # v /\ (Work(w) \/ Misfortune(w))
  <2>1. run'[v] = run[v]
    BY <1>4, StepFootprint DEF Footprint, RunStep, Base, Typed, RunTyped
  <2>2. Fence(v) /\ Claimed(v)
    BY <2>1 DEF TouchesSure, Sure, Claimed
  <2> QED BY <1>4, <2>2, FenceStays
<1>5. CASE UNCHANGED vars \/ \E o \in Ops : RequestCancel(o) \/ Resume(o)
  BY <1>5 DEF RequestCancel, Resume, vars, TouchesSure, Sure, Fence, Op
<1>6. CASE \E r \in Resources : Expire(r)
  <2>1. run' = run
    BY <1>6 DEF Expire
  <2>2. Fence(v) /\ run[v].pc \notin Slow
    BY <1>2, <2>1 DEF TouchesSure, Sure
  <2> QED BY <1>6, <2>2, FenceDoesNotExpire
<1> QED BY <1>3, <1>4, <1>5, <1>6 DEF Next

-----------------------------------------------------------------------------
(* Probes.                                                                 *)

\* COMPLETE is said of a finished effect only; of what is half done, the probe of a
\* divisible effect has something better to say.
LEMMA CompleteIsDone ==
    ASSUME NEW s, NEW real \in {"none", "part", "done"}, "COMPLETE" \in Observed(s, real),
           s.probe \ {"COMPLETE"} # {}, real = "part" => Divisible(s)
    PROVE  real = "done"
<1>1. CASE real = "none"
  BY <1>1 DEF Observed
<1>2. CASE real = "part"
  <2>1. s.probe \ {"COMPLETE", "ABSENT"} # {}
    BY <1>2 DEF Divisible, Present
  <2> QED BY <1>2, <2>1 DEF Observed
<1> QED BY <1>1, <1>2

\* A finished effect is not called absent or half done, by a probe that can tell.
LEMMA DoneIsNotAbsent ==
    ASSUME NEW s, NEW class \in Observed(s, "done"), "COMPLETE" \in s.probe
    PROVE  class \notin {"ABSENT", "PARTIALLY_RESUMABLE", "DISCARDABLE"}
<1>1. "COMPLETE" \in s.probe \ {"ABSENT", "PARTIALLY_RESUMABLE", "DISCARDABLE"}
  OBVIOUS
<1> QED BY <1>1 DEF Observed

-----------------------------------------------------------------------------
(* Rows and effects as the steps write them.                               *)

\* The transactions that write a row, and the calls that change the world.
LEMMA WhoWritesRows ==
    ASSUME NEW w \in Workers, Work(w) \/ Misfortune(w), stepState' # stepState
    PROVE  \/ Intent(w) \/ Recovered(w) \/ Reverify(w) \/ Checkpoint(w) \/ Verify(w)
           \/ BeginCompensation(w) \/ ResumeCompensation(w) \/ Restored(w)
  BY DEF Work, Misfortune, ClaimRead, WorkflowVersionUnavailable, ClaimBusy, Claim,
     Preflight, Enter, LoopDone, LoopCancel, LoopStep, AcquirePhase, EnsureRunning,
     ProbeDecides, EnterCritical, EffectDone, EffectCancelled, ExitCritical, Failed,
     RollBack, Honor, CompensationRead, CompensateDone, CompensationDone, EndRun, Escape,
     PreflightFails, LoopShutdown, EffectBegins, EffectFails, VerifyFails, CompensateFails,
     Crash

\* By which actions the world changes.
LEMMA WhoTouches ==
    ASSUME NEW w \in Workers, Work(w) \/ Misfortune(w), effect' # effect
    PROVE  EffectBegins(w) \/ EffectDone(w) \/ EffectFails(w) \/ CompensateDone(w)
  BY DEF Work, Misfortune, ClaimRead, WorkflowVersionUnavailable, ClaimBusy, Claim,
     Preflight, Enter, LoopDone, LoopCancel, LoopStep, AcquirePhase, EnsureRunning, Intent,
     ProbeDecides, Recovered, Reverify, EnterCritical, EffectCancelled, Checkpoint, Verify,
     ExitCritical, Failed, RollBack, Honor, CompensationRead, BeginCompensation,
     ResumeCompensation, Restored, CompensationDone, EndRun, Escape, PreflightFails,
     LoopShutdown, VerifyFails, CompensateFails, Crash

\* A row is written, and no other.
LEMMA RowSet ==
    ASSUME Base, NEW w \in Workers, Claimed(w), NEW i \in Steps(Op(w)), NEW s, SetRow(w, i, s)
    PROVE  /\ stepState'[Op(w)][i] = s
           /\ \A o \in Ops : \A j \in Steps(o) :
                o # Op(w) \/ j # i => stepState'[o][j] = stepState[o][j]
<1>1. Op(w) \in Ops
  BY OpOfRun DEF Base, Typed, Claimed
<1> QED BY <1>1 DEF Base, Typed, RowsTyped, SetRow

\* So is an effect.
LEMMA EffectSet ==
    ASSUME Base, NEW w \in Workers, Claimed(w), NEW i \in Steps(Op(w)), NEW real,
           SetEffect(w, i, real)
    PROVE  /\ effect'[Op(w)][i] = real
           /\ \A o \in Ops : \A j \in Steps(o) :
                o # Op(w) \/ j # i => effect'[o][j] = effect[o][j]
<1>1. Op(w) \in Ops
  BY OpOfRun DEF Base, Typed, Claimed
<1> QED BY <1>1 DEF Base, Typed, EffectsTyped, SetEffect

\* An operation keeps its type.
LEMMA KindKept == Base /\ [Next]_vars => kind' = kind
<1> SUFFICES ASSUME Base, [Next]_vars PROVE kind' = kind
  OBVIOUS
<1> QED BY StepFootprint DEF Base, Footprint, Next, RequestCancel, Resume, Expire, vars

\* What rows say of effects stays true.
LEMMA EffectsRecordedKept ==
    Base /\ TouchesSure /\ EffectsRecorded /\ Knowing /\ [Next]_vars => EffectsRecorded'
<1> SUFFICES ASSUME Base, TouchesSure, EffectsRecorded, Knowing, [Next]_vars,
                    NEW o \in Ops, NEW i \in Steps(o)
             PROVE  RecordedAt(o, i)'
  BY KindKept DEF EffectsRecorded, Steps, Workflow
<1>0. kind' = kind /\ RecordedAt(o, i)
  BY KindKept DEF EffectsRecorded
<1>1. CASE stepState'[o][i] = stepState[o][i] /\ effect'[o][i] = effect[o][i]
  BY <1>0, <1>1 DEF RecordedAt, Has, Step, Workflow
<1>2. ASSUME NEW w \in Workers, Work(w) \/ Misfortune(w), stepState' # stepState,
             stepState'[o][i] # stepState[o][i]
      PROVE  RecordedAt(o, i)'
  <2>1. Claimed(w) /\ Fence(w) /\ effect' = effect
    BY <1>2, WhoWritesRows DEF Intent, Recovered, Reverify, Checkpoint, Verify, BeginCompensation,
       ResumeCompensation, Restored, Claimed
  <2>2. Knows(w)
    BY <2>1 DEF Knowing, Sure
  <2>3. run[w].pc \in StepPcs => At(w) \in Steps(Op(w))
    BY DEF Base, Placed, PlacedAt
  <2>4. run[w].pc \in {"comp", "restored"} /\ run[w].todo # {} => Last(w) \in Steps(Op(w))
    BY <2>1, LastIsToDo DEF Base, Claimed
  <2>5. CASE Intent(w)
    <3>1. stepState'[o][i] = "RUNNING"
      BY <1>2, <2>1, <2>3, <2>5, RowSet DEF Intent, StepPcs
    <3> QED BY <1>0, <2>1, <3>1 DEF RecordedAt, Has, Step, Workflow
  <2>6. CASE Recovered(w)
    <3>1. o = Op(w) /\ i = At(w) /\ stepState'[o][i] = "CHECKPOINTED"
      BY <1>2, <2>1, <2>3, <2>6, RowSet DEF Recovered, StepPcs
    <3> QED BY <1>0, <2>1, <2>2, <2>6, <3>1 DEF Recovered, Knows, Mine, RecordedAt, Has, Step,
       Workflow
  <2>7. CASE Reverify(w) \/ Verify(w)
    <3>1. o = Op(w) /\ i = At(w) /\ stepState'[o][i] = "VERIFIED"
      BY <1>2, <2>1, <2>3, <2>7, RowSet DEF Reverify, Verify, StepPcs
    <3>2. stepState[o][i] = "CHECKPOINTED"
      BY <2>7, <3>1 DEF Reverify, Verify, Row
    <3> QED BY <1>0, <2>1, <3>1, <3>2 DEF RecordedAt, Has, Step, Workflow
  <2>8. CASE Checkpoint(w)
    <3>1. o = Op(w) /\ i = At(w) /\ stepState'[o][i] = "CHECKPOINTED"
      BY <1>2, <2>1, <2>3, <2>8, RowSet DEF Checkpoint, StepPcs
    <3> QED BY <1>0, <2>1, <2>2, <2>8, <3>1 DEF Checkpoint, Knows, RecordedAt, Has, Step, Workflow
  <2>9. CASE BeginCompensation(w) \/ ResumeCompensation(w) \/ Restored(w)
    <3>1. \E s \in {"COMPENSATING", "COMPENSATED"} : SetRow(w, Last(w), s)
      BY <1>2, <2>9 DEF BeginCompensation, ResumeCompensation, Restored
    <3>2. run[w].pc \in {"comp", "restored"} /\ run[w].todo # {}
      BY <2>9 DEF BeginCompensation, ResumeCompensation, Restored, Base, Placed, PlacedAt
    <3>3. stepState'[o][i] \in {"COMPENSATING", "COMPENSATED"}
      BY <1>2, <2>1, <2>4, <3>1, <3>2, RowSet
    <3> QED BY <1>0, <2>1, <3>3 DEF RecordedAt, Has, Step, Workflow
  <2> QED BY <1>2, <2>5, <2>6, <2>7, <2>8, <2>9, WhoWritesRows
<1>3. ASSUME NEW w \in Workers, Work(w) \/ Misfortune(w), effect' # effect,
             effect'[o][i] # effect[o][i]
      PROVE  RecordedAt(o, i)'
  <2>1. Claimed(w) /\ run[w].pc \in {"effect", "undo"} /\ stepState' = stepState
    BY <1>3, WhoTouches DEF EffectBegins, EffectDone, EffectFails, CompensateDone, Claimed
  <2>2. Knows(w)
    BY <2>1 DEF Knowing, TouchesSure
  <2>3. CASE CompensateDone(w)
    <3>1. Last(w) \in Steps(Op(w))
      BY <2>1, <2>3, LastIsToDo DEF CompensateDone, Base, Placed, PlacedAt
    <3>2. o = Op(w) /\ i = Last(w) /\ effect'[o][i] = "none"
      BY <1>3, <2>1, <2>3, <3>1, EffectSet DEF CompensateDone
    <3> QED BY <2>1, <2>2, <2>3, <3>2 DEF CompensateDone, Knows, RecordedAt
  <2>4. CASE EffectBegins(w) \/ EffectDone(w) \/ EffectFails(w)
    <3>1. At(w) \in Steps(Op(w)) /\ run[w].pc = "effect"
      BY <2>4 DEF EffectBegins, EffectDone, EffectFails, Base, Placed, PlacedAt, StepPcs
    <3>2. \E real : SetEffect(w, At(w), real)
      BY <2>4 DEF EffectBegins, EffectDone, EffectFails
    <3>3. o = Op(w) /\ i = At(w)
      BY <1>3, <2>1, <3>1, <3>2, EffectSet
    <3>4. stepState'[o][i] = "RUNNING"
      BY <2>1, <2>2, <3>1, <3>3 DEF Knows, Row
    <3>5. effect'[o][i] = "part" => Divisible(Step(o, i))
      BY <1>0, <1>3, <2>1, <2>4, <3>1, <3>3, EffectSet
         DEF EffectBegins, EffectDone, EffectFails, RecordedAt
    <3> QED BY <1>0, <3>4, <3>5 DEF RecordedAt, Step, Workflow
  <2> QED BY <1>3, <2>3, <2>4, WhoTouches
<1>4. CASE ~ \E w \in Workers : Work(w) \/ Misfortune(w)
  <2>1. UNCHANGED <<stepState, effect>>
    BY <1>4 DEF Next, RequestCancel, Resume, Expire, vars
  <2> QED BY <1>1, <2>1
<1> QED BY <1>1, <1>2, <1>3, <1>4

-----------------------------------------------------------------------------
(* What a run knows.                                                       *)

\* A step of the run itself leads to what it knows at the next place.
LEMMA OwnStepKnows ==
    ASSUME Base, TouchesSure, EffectsRecorded, Knowing, NEW v \in Workers,
           Work(v) \/ Misfortune(v), Claimed(v)', Sure(v)'
    PROVE  Knows(v)'
<1>0. run \in [Workers -> RunType] /\ kind' = kind /\ [Next]_vars
  BY StepFootprint DEF Base, Typed, RunTyped, Footprint, Next
<1>1. CASE run'[v].pc \in Calm
  BY <1>1 DEF Knows, Calm
<1>2. CASE ProbeDecides(v) \/ EnterCritical(v)
  <2>0. run[v].pc \in StepPcs /\ stepState' = stepState /\ effect' = effect
    BY <1>2 DEF ProbeDecides, EnterCritical, StepPcs
  <2>1. At(v) \in Steps(Op(v)) /\ Op(v) \in Ops
    BY <2>0, OpOfRun DEF Base, Typed, Placed, PlacedAt, StepPcs
  <2>2. Claimed(v)
    BY <2>0 DEF StepPcs, Claimed
  <2>3. Knows(v)
    BY <1>0, <2>2, SureNotRegained DEF Knowing
  <2>4. CASE ProbeDecides(v)
    <3> DEFINE s == Step(Op(v), At(v))
               real == effect[Op(v)][At(v)]
    <3>1. PICK class \in Observed(s, real) :
            \E pc \in {"recovered", "critical", "effect", "roll_back", "pause", "require"} :
                /\ Goto(v, pc)
                /\ pc = "recovered" => class = "COMPLETE"
                /\ pc = "critical" => class \in {"ABSENT", "PARTIALLY_RESUMABLE", "DISCARDABLE"}
      BY <2>4, ProbeLeads
    <3>2. PICK pc \in {"recovered", "critical", "effect", "roll_back", "pause", "require"} :
            /\ Goto(v, pc)
            /\ pc = "recovered" => class = "COMPLETE"
            /\ pc = "critical" => class \in {"ABSENT", "PARTIALLY_RESUMABLE", "DISCARDABLE"}
      BY <3>1
    <3>3. run'[v] = [run[v] EXCEPT !.pc = pc]
      BY <3>2, GotoRun DEF Base, Typed
    <3>4. Row(v) = "RUNNING"
      BY <2>3, <2>4 DEF ProbeDecides, Knows
    <3>5. real \in {"none", "part", "done"} /\ (real = "part" => Divisible(s))
      BY <2>1 DEF Base, Typed, EffectsTyped, EffectsRecorded, RecordedAt
    <3>6. pc = "recovered" => Mine(v, "inert") \/ real = "done"
      <4>1. Mine(v, "inert") \/ s.probe \ {"COMPLETE"} # {}
        BY <2>1, StepOf DEF Base, Typed, Mine
      <4> QED BY <3>2, <3>5, <4>1, CompleteIsDone
    <3>7. pc = "critical" /\ "COMPLETE" \in s.probe => real # "done"
      BY <3>2, DoneIsNotAbsent
    <3> HIDE DEF s, real
    <3>8. Op(v)' = Op(v) /\ At(v)' = At(v) /\ run'[v].pc = pc
      BY <1>0, <3>3 DEF RunType, Op, At
    <3> QED BY <1>0, <2>0, <3>4, <3>6, <3>7, <3>8
            DEF s, real, Knows, Row, Mine, Has, Step, Workflow
  <2>5. CASE EnterCritical(v)
    BY <1>0, <2>0, <2>3, <2>5 DEF EnterCritical, Goto, RunType, Knows, Row, Op, At
  <2> QED BY <1>2, <2>4, <2>5
<1>3. CASE Intent(v)
  <2>1. At(v) \in Steps(Op(v)) /\ Op(v) \in Ops /\ Claimed(v)
    BY <1>3, OpOfRun DEF Intent, Base, Typed, Placed, PlacedAt, StepPcs, Claimed
  <2>2. stepState'[Op(v)][At(v)] = "RUNNING" /\ effect' = effect
    BY <1>3, <2>1, RowSet DEF Intent
  <2>3. PICK pc \in {"probe", "critical", "effect"} :
          Goto(v, pc) /\ (pc = "critical" => Row(v) = "PENDING")
    BY <1>3 DEF Intent, IntentLegal
  <2>4. run'[v] = [run[v] EXCEPT !.pc = pc]
    BY <2>3, GotoRun DEF Base, Typed
  <2>5. Op(v)' = Op(v) /\ At(v)' = At(v) /\ run'[v].pc = pc
    BY <1>0, <2>4 DEF RunType, Op, At
  <2>6. pc = "critical" => effect[Op(v)][At(v)] = "none"
    BY <2>1, <2>3 DEF EffectsRecorded, RecordedAt, Row
  <2> QED BY <2>2, <2>5, <2>6 DEF Knows, Row
<1>4. CASE EffectBegins(v) \/ EffectDone(v)
  <2>1. At(v) \in Steps(Op(v)) /\ Op(v) \in Ops /\ Claimed(v) /\ run[v].pc = "effect"
    BY <1>4, OpOfRun DEF EffectBegins, EffectDone, Base, Typed, Placed, PlacedAt, StepPcs, Claimed
  <2>2. Row(v) = "RUNNING" /\ stepState' = stepState
    BY <1>4, <2>1 DEF EffectBegins, EffectDone, TouchesSure, Knowing, Knows
  <2>3. CASE EffectBegins(v)
    BY <1>0, <2>1, <2>2, <2>3 DEF EffectBegins, Knows, Row, Op, At
  <2>4. CASE EffectDone(v)
    <3>1. effect'[Op(v)][At(v)] = "done"
      BY <2>1, <2>4, EffectSet DEF EffectDone
    <3>2. run'[v] = [run[v] EXCEPT !.pc = "checkpoint"]
      BY <2>4, GotoRun DEF EffectDone, Base, Typed
    <3> QED BY <1>0, <2>2, <3>1, <3>2 DEF Knows, Row, Op, At, RunType
  <2> QED BY <1>4, <2>3, <2>4
<1>5. CASE Checkpoint(v) \/ Verify(v)
  BY <1>0, <1>5 DEF Checkpoint, Verify, Goto, RunType, Knows
<1>6. CASE BeginCompensation(v)
  <2>1. Last(v) \in Steps(Op(v)) /\ Claimed(v)
    BY <1>6, LastIsToDo DEF BeginCompensation, Base, Claimed
  <2>2. stepState'[Op(v)][Last(v)] = "COMPENSATING"
    BY <1>6, <2>1, RowSet DEF BeginCompensation
  <2>3. run'[v] = [run[v] EXCEPT !.pc = "undo"]
    BY <1>6, GotoRun DEF BeginCompensation, Base, Typed
  <2> QED BY <1>0, <2>2, <2>3 DEF Knows, Op, Last, RunType
<1>7. CASE ResumeCompensation(v)
  <2>1. \/ Goto(v, "undo") /\ stepState' = stepState
        \/ Skip(v, FALSE)
        \/ run' = [run EXCEPT ![v] = [@ EXCEPT !.pc = "finalize", !.bad = TRUE]]
    BY <1>7 DEF ResumeCompensation
  <2>2. CASE Goto(v, "undo") /\ stepState' = stepState
    <3>1. run'[v] = [run[v] EXCEPT !.pc = "undo"]
      BY <2>2, GotoRun DEF Base, Typed
    <3> QED BY <1>0, <1>7, <2>2, <3>1 DEF ResumeCompensation, Knows, Op, Last, RunType
  <2>3. CASE \/ Skip(v, FALSE)
             \/ run' = [run EXCEPT ![v] = [@ EXCEPT !.pc = "finalize", !.bad = TRUE]]
    <3>1. CASE Skip(v, FALSE)
      BY <1>1, <3>1, SkipRun DEF Base, Typed, Calm
    <3>2. CASE run' = [run EXCEPT ![v] = [@ EXCEPT !.pc = "finalize", !.bad = TRUE]]
      <4>1. run'[v].pc = "finalize"
        BY <1>0, <3>2 DEF RunType
      <4> QED BY <1>1, <4>1 DEF Calm
    <3> QED BY <2>3, <3>1, <3>2
  <2> QED BY <2>1, <2>2, <2>3
<1>8. CASE CompensateDone(v)
  <2>1. run[v].pc = "undo" /\ stepState' = stepState /\ Claimed(v)
    BY <1>8 DEF CompensateDone, Claimed
  <2>2. run'[v] = [run[v] EXCEPT !.pc = "restored"]
    BY <1>8, GotoRun DEF CompensateDone, Base, Typed
  <2>3. stepState[Op(v)][Last(v)] = "COMPENSATING"
    BY <2>1 DEF TouchesSure, Knowing, Knows
  <2> QED BY <1>0, <2>1, <2>2, <2>3 DEF Knows, Op, Last, RunType
<1>9. CASE LoopDone(v)
  BY <1>0, <1>9 DEF LoopDone, Goto, RunType, Knows, Op, Unverified, Steps, Workflow
<1> QED BY <1>1, <1>2, <1>3, <1>4, <1>5, <1>6, <1>7, <1>8, <1>9, StepShape DEF GoesCalm

\* Nobody else changes what a sure run knows.
LEMMA KnowingKept ==
    Base /\ TouchesSure /\ EffectsRecorded /\ Knowing /\ [Next]_vars => Knowing'
<1> SUFFICES ASSUME Base, TouchesSure, EffectsRecorded, Knowing, [Next]_vars,
                    NEW v \in Workers, Claimed(v)', Sure(v)'
             PROVE  Knows(v)'
  BY DEF Knowing
<1>1. CASE Work(v) \/ Misfortune(v)
  BY <1>1, OwnStepKnows
<1>2. CASE ~ (Work(v) \/ Misfortune(v))
  <2>1. run'[v] = run[v]
    <3>1. CASE \E w \in Workers : w # v /\ (Work(w) \/ Misfortune(w))
      BY <3>1, StepFootprint DEF Footprint, RunStep, Base, Typed, RunTyped
    <3>2. CASE ~ \E w \in Workers : Work(w) \/ Misfortune(w)
      BY <3>2 DEF Next, RequestCancel, Resume, Expire, vars
    <3> QED BY <1>2, <3>1, <3>2
  <2>2. Claimed(v)
    BY <2>1 DEF Claimed
  <2>3. Sure(v) /\ Knows(v)
    BY <2>2, SureNotRegained DEF Knowing
  <2>4. stepState'[Op(v)] = stepState[Op(v)] /\ effect'[Op(v)] = effect[Op(v)]
    <3>1. CASE \E w \in Workers : w # v /\ (Work(w) \/ Misfortune(w))
      BY <2>2, <2>3, <3>1, OnlyOwnerTouches
    <3>2. CASE ~ \E w \in Workers : Work(w) \/ Misfortune(w)
      BY <3>2 DEF Next, RequestCancel, Resume, Expire, vars
    <3> QED BY <1>2, <3>1, <3>2
  <2>5. kind' = kind
    BY KindKept
  <2>6. /\ Op(v)' = Op(v) /\ At(v)' = At(v) /\ Last(v)' = Last(v)
        /\ Workflow(Op(v))' = Workflow(Op(v))
    BY <2>1, <2>5 DEF Op, At, Last, Workflow
  <2> QED BY <2>1, <2>3, <2>4, <2>6
          DEF Knows, Row, Mine, Has, Step, Unverified, Steps, Workflow, Op, At, Last
<1> QED BY <1>1, <1>2

-----------------------------------------------------------------------------
(* An operation that succeeded stays as it is.                             *)

\* The transactions that move an operation.
LEMMA WhoMoves ==
    ASSUME NEW w \in Workers, Work(w) \/ Misfortune(w), opState' # opState
    PROVE  \/ WorkflowVersionUnavailable(w) \/ EnsureRunning(w) \/ EnterCritical(w)
           \/ ExitCritical(w) \/ RollBack(w) \/ EndRun(w)
  BY DEF Work, Misfortune, ClaimRead, ClaimBusy, Claim, Preflight, Enter, LoopDone, LoopCancel,
     LoopStep, AcquirePhase, Intent, ProbeDecides, Recovered, Reverify, EffectDone,
     EffectCancelled, Checkpoint, Verify, Failed, Honor, CompensationRead, BeginCompensation,
     ResumeCompensation, CompensateDone, Restored, CompensationDone, Escape, PreflightFails,
     LoopShutdown, EffectBegins, EffectFails, VerifyFails, CompensateFails, Crash

\* SUCCEEDED is recorded at the end of a run that found nothing left to do.
LEMMA WhoSucceeds ==
    ASSUME Base, [Next]_vars, NEW o \in Ops, opState'[o] = "SUCCEEDED", opState[o] # "SUCCEEDED"
    PROVE  \E w \in Workers :
              /\ run[w].pc = "complete" /\ Fence(w) /\ Op(w) = o
              /\ run'[w].pc = "idle" /\ UNCHANGED <<kind, stepState, effect>>
<1>1. PICK w \in Workers : Work(w) \/ Misfortune(w)
  BY DEF Next, RequestCancel, Resume, Expire, vars, Base, Typed, StateTyped
<1>2. CASE EndRun(w)
  <2>1. PICK target \in Outcome(w) :
          Fence(w) /\ SetState(w, target) /\ Quit(w) /\ UNCHANGED <<kind, stepState, effect>>
    BY <1>2 DEF EndRun
  <2>2. Op(w) = o /\ target = "SUCCEEDED"
    BY <2>1 DEF SetState, Base, Typed, StateTyped
  <2>3. run[w].pc = "complete"
    BY <2>2 DEF Outcome
  <2>4. run'[w].pc = "idle"
    BY <2>1 DEF Quit, Idle, Base, Typed, RunTyped
  <2> QED BY <2>1, <2>2, <2>3, <2>4
<1>3. CASE ~ EndRun(w)
  <2>1. \E target \in OperationState \ {"SUCCEEDED"} : SetState(w, target)
    BY <1>1, <1>3, WhoMoves DEF WorkflowVersionUnavailable, EnsureRunning, EnterCritical,
       ExitCritical, RollBack, OperationState
  <2> QED BY <2>1 DEF SetState, Base, Typed, StateTyped
<1> QED BY <1>2, <1>3

\* A late run of an operation that succeeded goes where there is nothing to do.
LEMMA LateStaysLate ==
    ASSUME Base, SucceededIsVerified, LateRuns, NEW v \in Workers, Work(v) \/ Misfortune(v),
           [Next]_vars, run'[v].pc # "idle", Sure(v)', opState'[Op(v)'] = "SUCCEEDED"
    PROVE  run'[v].pc \in Late
<1>0. run \in [Workers -> RunType]
  BY DEF Base, Typed, RunTyped
<1>1. CASE \E o \in Ops : ClaimRead(v, o)
  BY <1>0, <1>1 DEF ClaimRead, Idle, Late
<1>2. CASE Claim(v) \/ Preflight(v) \/ PreflightFails(v) \/ LoopDone(v)
  <2>1. CASE Claim(v)
    BY <1>0, <2>1 DEF Claim, Late, RunType
  <2>2. CASE Preflight(v) \/ PreflightFails(v)
    BY <1>0, <2>2 DEF Preflight, PreflightFails, Goto, Late, RunType
  <2>3. CASE LoopDone(v)
    BY <1>0, <2>3 DEF LoopDone, Goto, Late, RunType
  <2> QED BY <1>2, <2>1, <2>2, <2>3
<1>3. CASE Quit(v)
  BY <1>0, <1>3 DEF Quit, Idle
<1> SUFFICES ASSUME ~ \E o \in Ops : ClaimRead(v, o),
                    ~ (Claim(v) \/ Preflight(v) \/ PreflightFails(v) \/ LoopDone(v)),
                    ~ Quit(v)
             PROVE  run'[v].pc \in Late
  BY <1>1, <1>2, <1>3
<1>4. Claimed(v) /\ Claimed(v)'
  <2>1. CASE AcquirePhase(v)
    <3>1. \E pc \in {"reverify", "intent", "pause"} : run'[v].pc = pc
      BY <1>0, <2>1 DEF AcquirePhase, Goto, RunType
    <3> QED BY <2>1, <3>1 DEF AcquirePhase, Claimed
  <2> QED BY <2>1, StepShape DEF KeepsHold
<1>5. Sure(v) /\ Op(v)' = Op(v) /\ Op(v) \in Ops
  BY <1>4, SureNotRegained, OpOfRun DEF Base, Typed, Claimed
<1>6. opState[Op(v)] = "SUCCEEDED"
  <2> SUFFICES ASSUME opState[Op(v)] # "SUCCEEDED" PROVE FALSE
    OBVIOUS
  <2>1. PICK w \in Workers :
          run[w].pc = "complete" /\ Fence(w) /\ Op(w) = Op(v) /\ run'[w].pc = "idle"
    BY <1>5, WhoSucceeds
  <2>2. w # v /\ Claimed(w) /\ Fence(v)
    BY <1>5, <2>1 DEF Claimed, Sure
  <2> QED BY <1>4, <2>1, <2>2, OneFenced
<1>7. run[v].pc \in {"preflight", "enter", "loop", "complete", "fail_safe"}
        /\ Unverified(Op(v)) = {}
  <2>1. run[v].pc \in Late
    BY <1>4, <1>5, <1>6 DEF LateRuns, Claimed
  <2>2. Unverified(Op(v)) = {}
    BY <1>5, <1>6 DEF SucceededIsVerified, Unverified
  <2> QED BY <1>4, <2>1, <2>2 DEF Late, Claimed
<1>8. CASE Enter(v)
  BY <1>0, <1>6, <1>8 DEF Enter, Goto, RunType, Late
<1>9. ~ EndRun(v) /\ ~ Escape(v) /\ ~ Crash(v)
  BY DEF EndRun, Escape, Crash
<1>10. ~ LoopCancel(v) /\ ~ LoopShutdown(v) /\ ~ LoopStep(v)
  BY <1>6, <1>7 DEF LoopCancel, LoopShutdown, LoopStep
<1> QED
  BY <1>7, <1>8, <1>9, <1>10
     DEF Work, Misfortune, WorkflowVersionUnavailable, ClaimBusy, AcquirePhase, EnsureRunning,
         Intent, ProbeDecides, Recovered, Reverify, EnterCritical, EffectDone, EffectCancelled,
         Checkpoint, Verify, ExitCritical, Failed, RollBack, Honor, CompensationRead,
         BeginCompensation, ResumeCompensation, CompensateDone, Restored, CompensationDone,
         EffectBegins, EffectFails, VerifyFails, CompensateFails

\* A run of an operation that succeeded meanwhile stays out of its steps.
LEMMA LateRunsKept ==
    Base /\ SucceededIsVerified /\ LateRuns /\ [Next]_vars => LateRuns'
<1> SUFFICES ASSUME Base, SucceededIsVerified, LateRuns, [Next]_vars, NEW v \in Workers,
                    run'[v].pc # "idle", Sure(v)', opState'[Op(v)'] = "SUCCEEDED"
             PROVE  run'[v].pc \in Late
  BY DEF LateRuns
<1>1. CASE Work(v) \/ Misfortune(v)
  BY <1>1, LateStaysLate
<1>2. CASE ~ (Work(v) \/ Misfortune(v))
  <2>1. run'[v] = run[v]
    <3>1. CASE \E w \in Workers : w # v /\ (Work(w) \/ Misfortune(w))
      BY <3>1, StepFootprint DEF Footprint, RunStep, Base, Typed, RunTyped
    <3>2. CASE ~ \E w \in Workers : Work(w) \/ Misfortune(w)
      BY <3>2 DEF Next, RequestCancel, Resume, Expire, vars
    <3> QED BY <1>2, <3>1, <3>2
  <2>2. CASE run[v].pc = "claim"
    BY <2>1, <2>2 DEF Late
  <2>3. CASE run[v].pc # "claim"
    <3>1. Claimed(v) /\ Claimed(v)'
      BY <2>1, <2>3 DEF Claimed
    <3>2. Sure(v) /\ Op(v)' = Op(v) /\ Op(v) \in Ops
      BY <3>1, SureNotRegained, OpOfRun DEF Base, Typed, Claimed
    <3>3. opState[Op(v)] = "SUCCEEDED"
      <4> SUFFICES ASSUME opState[Op(v)] # "SUCCEEDED" PROVE FALSE
        OBVIOUS
      <4>1. PICK w \in Workers :
              run[w].pc = "complete" /\ Fence(w) /\ Op(w) = Op(v) /\ run'[w].pc = "idle"
        BY <3>2, WhoSucceeds
      <4>2. w # v /\ Claimed(w) /\ Fence(v)
        BY <2>1, <3>2, <4>1 DEF Claimed, Sure
      <4> QED BY <3>1, <4>1, <4>2, OneFenced
    <3> QED BY <2>1, <3>1, <3>2, <3>3 DEF LateRuns, Claimed
  <2> QED BY <2>2, <2>3
<1> QED BY <1>1, <1>2

\* SUCCEEDED is recorded with everything verified, and nothing moves after it.
LEMMA SucceededIsVerifiedKept ==
    EffectInv /\ [Next]_vars => SucceededIsVerified'
<1> SUFFICES ASSUME EffectInv, [Next]_vars, NEW o \in Ops, opState'[o] = "SUCCEEDED",
                    NEW i \in Steps(o)
             PROVE  stepState'[o][i] = "VERIFIED"
                 /\ (Has(o, i, "inert") \/ effect'[o][i] = "done")
  BY KindKept DEF EffectInv, SucceededIsVerified, Has, Step, Steps, Workflow
<1> USE DEF EffectInv
<1>1. CASE opState[o] # "SUCCEEDED"
  <2>1. PICK w \in Workers : /\ run[w].pc = "complete" /\ Fence(w) /\ Op(w) = o
                             /\ UNCHANGED <<stepState, effect>>
    BY <1>1, WhoSucceeds
  <2>2. Unverified(o) = {}
    BY <2>1 DEF Knowing, Knows, Sure, Claimed
  <2>3. stepState[o][i] = "VERIFIED"
    BY <2>2 DEF Unverified
  <2> QED BY <2>1, <2>3 DEF EffectsRecorded, RecordedAt
<1>2. CASE opState[o] = "SUCCEEDED"
  <2>1. stepState[o][i] = "VERIFIED" /\ (Has(o, i, "inert") \/ effect[o][i] = "done")
    BY <1>2 DEF SucceededIsVerified
  <2>2. stepState'[o][i] = stepState[o][i]
    <3> SUFFICES ASSUME stepState'[o][i] # stepState[o][i] PROVE FALSE
      OBVIOUS
    <3>1. PICK w \in Workers : Work(w) \/ Misfortune(w)
      BY DEF Next, RequestCancel, Resume, Expire, vars
    <3>2. run[w].pc \notin Late /\ Fence(w)
      BY <3>1, WhoWritesRows DEF Intent, Recovered, Reverify, Checkpoint, Verify,
         BeginCompensation, ResumeCompensation, Restored, Late
    <3>3. Footprint(w) /\ Claimed(w) /\ Op(w) \in Ops
      BY <3>1, <3>2, StepFootprint, OpOfRun DEF Base, Typed, Late, Claimed
    <3>4. Op(w) = o
      BY <3>3 DEF Footprint, RowStep, SetRow, Base, Typed, RowsTyped
    <3> QED BY <1>2, <3>2, <3>3, <3>4 DEF LateRuns, Sure, Claimed
  <2>3. effect'[o][i] = effect[o][i]
    <3> SUFFICES ASSUME effect'[o][i] # effect[o][i] PROVE FALSE
      OBVIOUS
    <3>1. PICK w \in Workers : Work(w) \/ Misfortune(w)
      BY DEF Next, RequestCancel, Resume, Expire, vars
    <3>2. run[w].pc \in {"effect", "undo"}
      BY <3>1, WhoTouches DEF EffectBegins, EffectDone, EffectFails, CompensateDone
    <3>3. Footprint(w) /\ Op(w) \in Ops /\ Sure(w)
      BY <3>1, <3>2, StepFootprint, OpOfRun DEF Base, Typed, TouchesSure
    <3>4. Op(w) = o
      BY <3>3 DEF Footprint, EffectStep, SetEffect, Base, Typed, EffectsTyped
    <3> QED BY <1>2, <3>2, <3>3, <3>4 DEF LateRuns, Late
  <2> QED BY <2>1, <2>2, <2>3
<1> QED BY <1>1, <1>2

\* The invariant holds at the start,
LEMMA InitEffectInv == Init => EffectInv
<1> SUFFICES ASSUME Init PROVE EffectInv
  OBVIOUS
<1>1. Base
  BY InitBase
<1>2. TouchesSure /\ Knowing /\ LateRuns
  BY DEF Init, Idle, TouchesSure, Knowing, Claimed, LateRuns
<1>3. EffectsRecorded /\ SucceededIsVerified
  BY DEF Init, EffectsRecorded, RecordedAt, SucceededIsVerified
<1> QED BY <1>1, <1>2, <1>3 DEF EffectInv

\* and is kept.
LEMMA EffectInvKept == Disciplined /\ EffectInv /\ [Next]_vars => EffectInv'
  BY NextKeepsBase, TouchesSureKept, EffectsRecordedKept, KnowingKept, LateRunsKept,
     SucceededIsVerifiedKept DEF EffectInv

\* The inductive invariant of this module: rows, effects and runs agree at every place of
\* execute_one.
THEOREM EffectInvHolds == ASSUME Disciplined PROVE Spec => []EffectInv
<1>1. EffectInv /\ [Next]_vars => EffectInv'
  BY EffectInvKept
<1> QED BY <1>1, InitEffectInv, PTL DEF Spec

\* SUCCEEDED is recorded (_complete) only of an operation whose every step is verified and
\* in place, whoever executed, probed or took over which of them.
THEOREM SuccessIsVerified == ASSUME Disciplined PROVE Spec => []SucceededIsVerified
<1>1. EffectInv => SucceededIsVerified
  BY DEF EffectInv
<1> QED BY <1>1, EffectInvHolds, PTL

\* The step that enters an effect does not repeat it.
LEMMA NoRepetition ==
    ASSUME EffectInv, [Next]_vars, NEW v \in Workers,
           run'[v].pc = "effect", run[v].pc # "effect", "COMPLETE" \in Step(Op(v), At(v)).probe
    PROVE  effect[Op(v)][At(v)] # "done"
<1> USE DEF EffectInv
<1>0. run \in [Workers -> RunType]
  BY DEF Base, Typed, RunTyped
<1>1. Work(v) \/ Misfortune(v)
  <2>1. ASSUME NEW w \in Workers, w # v, Work(w) \/ Misfortune(w) PROVE FALSE
    BY <2>1, StepFootprint DEF Footprint, RunStep, Base, Typed, RunTyped
  <2> QED BY <2>1 DEF Next, RequestCancel, Resume, Expire, vars
<1>2. Claimed(v) /\ Fence(v) /\ run'[v].op = run[v].op
  BY <1>1, EntersTouch
<1>3. Knows(v)
  BY <1>2 DEF Knowing, Sure
<1>4. CASE Intent(v)
  <2>1. Row(v) = "PENDING"
    BY <1>0, <1>4 DEF Intent, IntentLegal, Goto
  <2>2. Op(v) \in Ops /\ At(v) \in Steps(Op(v))
    BY <1>4, OpOfRun DEF Intent, Base, Typed, Placed, PlacedAt, StepPcs
  <2> QED BY <2>1, <2>2 DEF EffectsRecorded, RecordedAt, Row
<1>5. CASE ProbeDecides(v)
  <2>1. PICK class \in Observed(Step(Op(v), At(v)), effect[Op(v)][At(v)]) :
          \E pc \in {"recovered", "critical", "effect", "roll_back", "pause", "require"} :
              /\ Goto(v, pc)
              /\ pc \in {"critical", "effect"} =>
                   class \in {"ABSENT", "PARTIALLY_RESUMABLE", "DISCARDABLE"}
    BY <1>5, ProbeLeads
  <2>2. class \in {"ABSENT", "PARTIALLY_RESUMABLE", "DISCARDABLE"}
    BY <1>0, <2>1 DEF Goto, RunType
  <2> QED BY <2>1, <2>2, DoneIsNotAbsent
<1>6. CASE EnterCritical(v)
  BY <1>3, <1>6 DEF EnterCritical, Knows
<1>7. ~ (EffectBegins(v) \/ EffectDone(v) \/ CompensateDone(v))
  BY <1>0 DEF EffectBegins, EffectDone, CompensateDone, Goto, RunType
<1>8. ~ (Checkpoint(v) \/ Verify(v) \/ LoopDone(v) \/ BeginCompensation(v))
  BY <1>0 DEF Checkpoint, Verify, LoopDone, BeginCompensation, Goto, RunType
<1>9. ~ ResumeCompensation(v)
  BY ResumeRun DEF Base, Typed
<1> QED BY <1>1, <1>4, <1>5, <1>6, <1>7, <1>8, <1>9, StepShape DEF GoesCalm, Calm

\* A finished effect whose probe can tell is not executed again: a RUNNING row is reclaimed
\* through its probe (Intent, ProbeDecides), and the probe of a finished effect says so.
THEOREM EffectNeverRepeated == ASSUME Disciplined PROVE Spec => EffectNotRepeated
<1>1. EffectInv /\ [Next]_vars =>
        [\A w \in Workers :
           run'[w].pc = "effect" /\ run[w].pc # "effect"
               /\ "COMPLETE" \in Step(Op(w), At(w)).probe
           => effect[Op(w)][At(w)] # "done"]_vars
  BY NoRepetition
<1> QED BY <1>1, EffectInvHolds, PTL DEF Spec, EffectNotRepeated

-----------------------------------------------------------------------------
(* Two workers and one resource.                                           *)

\* What a workflow may have to undo is claimed with its first phase: every workflow
\* but RUNTIME_UPDATE and APPLICATION_UPDATE.
UndoClaimedFirst ==
    \A k \in DOMAIN Catalog : \A i \in DOMAIN Catalog[k].steps :
        "undo" \in Catalog[k].steps[i].flags =>
            Catalog[k].steps[i].resources \subseteq InitialResources(Catalog[k])

\* A run holds the keys of what it touches, if undoing needs no key of a later phase.
LEMMA TouchesHeld ==
    ASSUME UndoClaimedFirst, Base, NEW w \in Workers
    PROVE  Touching(w) \subseteq run[w].held
<1>1. CASE run[w].pc = "effect"
  BY <1>1 DEF Touching, Base, Holding, HoldsAt, StepPcs
<1>2. CASE run[w].pc = "undo"
  <2>1. Op(w) \in Ops /\ Last(w) \in run[w].todo /\ Last(w) \in Steps(Op(w))
    BY <1>2, OpOfRun, LastIsToDo DEF Base, Typed, Placed, PlacedAt
  <2>2. Has(Op(w), Last(w), "undo")
    BY <2>1 DEF Base, Placed, PlacedAt
  <2>3. PICK k \in DOMAIN Catalog : Workflow(Op(w)) = Catalog[k]
    BY <2>1 DEF Base, Typed, KindTyped, Workflow
  <2>4. Step(Op(w), Last(w)).resources \subseteq InitialResources(Workflow(Op(w)))
    BY <2>1, <2>2, <2>3 DEF UndoClaimedFirst, Has, Step, Steps
  <2> QED BY <1>2, <2>4 DEF Touching, Base, Holding, HoldsAt, Claimed
<1> QED BY <1>1, <1>2 DEF Touching

\* Two runs, of one operation or of two, never have their hands on the same resource: both
\* hold its key, a key has one live owner, and whoever touches still passes its fence.
THEOREM EffectsNeverShare ==
    ASSUME Disciplined, UndoClaimedFirst PROVE Spec => []EffectsExclusive
<1>1. EffectInv => EffectsExclusive
  <2> SUFFICES ASSUME EffectInv, NEW v \in Workers, NEW w \in Workers, v # w,
                      NEW r, r \in Touching(v), r \in Touching(w)
               PROVE  FALSE
    BY DEF EffectsExclusive
  <2>1. Fence(v) /\ Fence(w)
    BY DEF EffectInv, TouchesSure, Sure, Touching
  <2>2. r \in run[v].held /\ r \in run[w].held
    BY TouchesHeld DEF EffectInv
  <2>3. lease[r].owner = v /\ lease[r].owner = w
    BY <2>1, <2>2 DEF Fence
  <2> QED BY <2>3
<1> QED BY <1>1, EffectInvHolds, PTL

-----------------------------------------------------------------------------
(***************************************************************************)
(* How operations end, with one worker process that dies, restarts,        *)
(* outlives its leases and takes its own work over: what a terminal state  *)
(* says of the world is so, a barrier covers what is in doubt,             *)
(* compensation runs in reverse, and a run holds what it touches.  (A      *)
(* second worker that claims on a stale read refutes them: run             *)
(* stale_claim.)                                                           *)
(*                                                                         *)
(* The argument follows the run from place to place (AtClaim, AtStep,      *)
(* AtUndo).  Steps begin in order (InOrder), and whatever is in the world  *)
(* has a row a roll-back finds (Traced).  Inside a step, everything that   *)
(* may have to be undone lies within reach of the keys held (StepReach); a *)
(* roll-back carries that along, and what is left in the world shrinks     *)
(* with what is left to undo.                                              *)
(***************************************************************************)

\* One worker process: it dies, restarts and outlives its leases as it likes.
OneWorker == \A v, w \in Workers : v = w

\* The visible reversible effects that o has in the world.
Left(o) == {i \in Steps(o) : Reversible(o, i) /\ effect[o][i] # "none"}

Begun == {"RUNNING", "CHECKPOINTED", "VERIFIED", "COMPENSATING"}

\* Steps are taken one after the other.
InOrder ==
    \A o \in Ops : \A i, j \in Steps(o) :
        i < j /\ stepState[o][j] # "PENDING" =>
            stepState[o][i] \in {"VERIFIED", "COMPENSATING", "COMPENSATED"}

\* Whatever is in the world has a row that a roll-back finds.
Traced == \A o \in Ops : \A i \in Left(o) : stepState[o][i] \in Begun

\* The places before a roll-back; nothing is to be undone yet.
Fresh == {"claim", "preflight", "enter", "loop", "complete", "honor", "require"} \cup StepPcs

AtClaim(w) ==
    /\ run[w].pc # "idle" => opState[Op(w)] \notin Terminal
    /\ run[w].pc = "claim" /\ opState[Op(w)] = "ROLLING_BACK" => run[w].seen = "ROLLING_BACK"
    /\ run[w].pc \in {"preflight", "enter"} /\ opState[Op(w)] = "ROLLING_BACK" =>
         \A i \in Steps(Op(w)) :
             Compensates(Step(Op(w), i)) => Step(Op(w), i).resources \subseteq run[w].held
    /\ run[w].pc = "honor" => opState[Op(w)] = "CANCEL_REQUESTED"
    /\ run[w].pc \in Fresh => run[w].todo = {}
    /\ run[w].pc \in Fresh \cup {"roll_back"} => ~ run[w].bad /\ ~ run[w].cancelled

AtStep(w) ==
    /\ run[w].pc \in StepPcs =>
         \A i \in Steps(Op(w)) : i < At(w) => stepState[Op(w)][i] = "VERIFIED"
    /\ run[w].pc = "verify" => Row(w) = "CHECKPOINTED"
    /\ run[w].pc = "failed" => Row(w) \in {"RUNNING", "CHECKPOINTED"} /\ ~ Mine(w, "inert")

\* The resources of what there is to undo.
Reach(w) ==
    \A i \in run[w].todo \cup Left(Op(w)) \cup Durable(Op(w)) :
        Step(Op(w), i).resources \subseteq run[w].held

Undoing == {"comp_read", "comp", "undo", "restored", "finalize"}

AtUndo(w) ==
    /\ run[w].pc \in {"roll_back", "require"} => Reach(w)
    /\ run[w].pc \in Undoing =>
         \/ run[w].cancelled /\ opState[Op(w)] = "CANCEL_REQUESTED"
         \/ ~ run[w].cancelled /\ opState[Op(w)] = "ROLLING_BACK" /\ Reach(w)
    /\ run[w].pc \in Undoing \ {"comp_read"} /\ ~ run[w].bad => Left(Op(w)) \subseteq run[w].todo
    /\ run[w].pc = "finalize" /\ ~ run[w].bad => run[w].todo = {}
    /\ run[w].pc = "restored" => effect[Op(w)][Last(w)] = "none"

AtPlaces == \A w \in Workers : AtClaim(w) /\ AtStep(w) /\ AtUndo(w)

OutcomeInv == EffectInv /\ InOrder /\ Traced /\ AtPlaces

-----------------------------------------------------------------------------
(* The control flow of a run.                                              *)

\* By which actions a run reaches the places that something is said of below.
LEMMA Leads ==
    ASSUME Base, NEW w \in Workers, Work(w) \/ Misfortune(w)
    PROVE  LET pc == run'[w].pc IN
           /\ pc = "claim" => \E o \in Ops : ClaimRead(w, o)
           /\ pc = "preflight" => Claim(w)
           /\ pc = "enter" => Preflight(w)
           /\ pc = "loop" => Enter(w) \/ Reverify(w) \/ Verify(w) \/ ExitCritical(w)
           /\ pc = "acquire" => LoopStep(w)
           /\ pc = "honor" => LoopCancel(w) \/ EnterCritical(w) \/ EffectCancelled(w)
           /\ pc = "verify" => Checkpoint(w)
           /\ pc = "failed" => EffectFails(w) \/ VerifyFails(w)
           /\ pc = "roll_back" => ProbeDecides(w) \/ Failed(w)
           /\ pc = "require" => ProbeDecides(w) \/ EffectFails(w)
           /\ pc = "fail_safe" => PreflightFails(w) \/ Failed(w)
           /\ pc = "cancelled" => Honor(w)
           /\ pc = "comp_read" => Enter(w) \/ RollBack(w) \/ Honor(w)
           /\ pc = "comp" => \/ CompensationRead(w) \/ ResumeCompensation(w)
                             \/ CompensateFails(w) \/ Restored(w)
           /\ pc = "undo" => BeginCompensation(w) \/ ResumeCompensation(w)
           /\ pc = "restored" => CompensateDone(w)
           /\ pc = "finalize" => ResumeCompensation(w) \/ CompensationDone(w)
<1>0. run \in [Workers -> RunType]
  BY DEF Base, Typed, RunTyped
<1>1. CASE ProbeDecides(w)
  <2>1. \E pc \in {"recovered", "critical", "effect", "roll_back", "pause", "require"} :
          Goto(w, pc)
    BY <1>1, ProbeLeads
  <2> QED BY <1>0, <1>1, <2>1 DEF Goto, RunType
<1>2. CASE AcquirePhase(w)
  BY <1>2, AcquireRun DEF Base, Typed
<1>3. CASE Quit(w)
  BY <1>0, <1>3 DEF Quit, Idle
<1>4. CASE ResumeCompensation(w)
  BY <1>4, ResumeRun DEF Base, Typed
<1>5. CASE \E o \in Ops : ClaimRead(w, o)
  <2>1. run'[w].pc = "claim"
    BY <1>0, <1>5 DEF ClaimRead, Idle
  <2> QED BY <1>5, <2>1
<1>6. CASE EnsureRunning(w) \/ EffectBegins(w)
  BY <1>0, <1>6 DEF EnsureRunning, EffectBegins
<1>7. EndRun(w) \/ Escape(w) \/ Crash(w) \/ WorkflowVersionUnavailable(w) \/ ClaimBusy(w) =>
        Quit(w)
  BY DEF EndRun, Escape, Crash, WorkflowVersionUnavailable, ClaimBusy
<1>14. CASE Claim(w)
  BY <1>0, <1>14 DEF Claim, RunType
<1>15. CASE LoopStep(w)
  <2>1. PICK i : run' = [run EXCEPT ![w] = [@ EXCEPT !.at = i, !.pc = "acquire"]]
    BY <1>15 DEF LoopStep
  <2>2. run'[w].pc = "acquire"
    BY <1>0, <2>1 DEF RunType
  <2> QED BY <1>15, <2>2
<1>8. CASE \/ Preflight(w) \/ PreflightFails(w) \/ Enter(w) \/ LoopDone(w)
           \/ LoopCancel(w) \/ LoopShutdown(w)
  BY <1>0, <1>8 DEF Preflight, PreflightFails, Enter, LoopDone, LoopCancel, LoopShutdown,
     Goto, RunType
<1>9. CASE \/ Intent(w) \/ Recovered(w) \/ Reverify(w) \/ EnterCritical(w) \/ EffectDone(w)
           \/ EffectFails(w) \/ EffectCancelled(w)
  BY <1>0, <1>9 DEF Intent, Recovered, Reverify, EnterCritical, EffectDone, EffectFails,
     EffectCancelled, Goto, RunType
<1>10. CASE Checkpoint(w) \/ Verify(w) \/ VerifyFails(w) \/ ExitCritical(w) \/ RollBack(w)
  BY <1>0, <1>10 DEF Checkpoint, Verify, VerifyFails, ExitCritical, RollBack, Goto, RunType
<1>12. CASE Failed(w)
  <2>1. PICK pc \in {"roll_back", "fail_safe"} :
          run' = [run EXCEPT ![w] = [@ EXCEPT
              !.pc = pc, !.todo = {i \in {At(w)} : Mine(w, "undo")}]]
    BY <1>12 DEF Failed
  <2>2. run'[w].pc = pc
    BY <1>0, <2>1 DEF RunType
  <2> QED BY <1>12, <2>2
<1>13. CASE Honor(w)
  <2>1. PICK pc \in {"cancelled", "comp_read"} :
          run' = [run EXCEPT ![w] = [@ EXCEPT !.pc = pc, !.todo = {}, !.cancelled = TRUE]]
    BY <1>13 DEF Honor
  <2>2. run'[w].pc = pc
    BY <1>0, <2>1 DEF RunType
  <2> QED BY <1>13, <2>2
<1>16. CASE CompensationRead(w)
  BY <1>0, <1>16 DEF CompensationRead, RunType
<1>17. CASE CompensateFails(w) \/ Restored(w)
  <2>1. \E failed \in BOOLEAN : Skip(w, failed)
    BY <1>17 DEF CompensateFails, Restored
  <2>2. run'[w].pc = "comp"
    BY <2>1, SkipRun DEF Base, Typed
  <2> QED BY <1>17, <2>2
<1>11. CASE BeginCompensation(w) \/ CompensateDone(w) \/ CompensationDone(w)
  BY <1>0, <1>11 DEF BeginCompensation, CompensateDone, CompensationDone, Goto, RunType
<1> QED
  BY <1>1, <1>2, <1>3, <1>4, <1>5, <1>6, <1>7, <1>8, <1>9, <1>10, <1>11, <1>12, <1>13, <1>14,
     <1>15, <1>16, <1>17 DEF Work, Misfortune

\* A run keeps its operation until it ends.
LEMMA KeepsOp ==
    ASSUME Base, NEW w \in Workers, Work(w) \/ Misfortune(w), ~ Quit(w),
           ~ \E o \in Ops : ClaimRead(w, o)
    PROVE  Op(w)' = Op(w)
<1>0. run \in [Workers -> RunType]
  BY DEF Base, Typed, RunTyped
<1>1. CASE Claim(w)
  BY <1>0, <1>1 DEF Claim, RunType, Op
<1>2. CASE AcquirePhase(w)
  BY <1>2, AcquireRun DEF Base, Typed, Op
<1> QED BY <1>1, <1>2, StepShape DEF KeepsHold, Op

\* Before a roll-back a run has noted nothing.
LEMMA StaysFresh ==
    ASSUME Base, NEW w \in Workers, Work(w) \/ Misfortune(w), ~ \E o \in Ops : ClaimRead(w, o),
           run'[w].pc \in Fresh \cup {"roll_back"}
    PROVE  /\ run[w].pc \in Fresh
           /\ run'[w].bad = run[w].bad /\ run'[w].cancelled = run[w].cancelled
           /\ run'[w].pc # "roll_back" => run'[w].todo = run[w].todo
           /\ run'[w].pc \in StepPcs =>
                LoopStep(w) \/ (run[w].pc \in StepPcs /\ run'[w].at = run[w].at)
<1>0. run \in [Workers -> RunType]
  BY DEF Base, Typed, RunTyped
<1> USE DEF Fresh, StepPcs
<1>1. CASE ProbeDecides(w)
  <2>1. \E pc \in {"recovered", "critical", "effect", "roll_back", "pause", "require"} :
          Goto(w, pc)
    BY <1>1, ProbeLeads
  <2> QED BY <1>0, <1>1, <2>1 DEF ProbeDecides, Goto, RunType
<1>2. CASE AcquirePhase(w)
  BY <1>2, AcquireRun DEF Base, Typed
<1>3. ~ Quit(w)
  BY <1>0 DEF Quit, Idle
<1>4. ~ ResumeCompensation(w)
  BY ResumeRun DEF Base, Typed
<1>5. CASE EnsureRunning(w) \/ EffectBegins(w)
  BY <1>0, <1>5 DEF EnsureRunning, EffectBegins
<1>6. EndRun(w) \/ Escape(w) \/ Crash(w) \/ WorkflowVersionUnavailable(w) \/ ClaimBusy(w) =>
        Quit(w)
  BY DEF EndRun, Escape, Crash, WorkflowVersionUnavailable, ClaimBusy
<1>13. CASE Claim(w)
  BY <1>0, <1>13 DEF Claim, RunType
<1>14. CASE LoopStep(w)
  <2>1. run[w].pc = "loop" /\ \E i :
          run' = [run EXCEPT ![w] = [@ EXCEPT !.at = i, !.pc = "acquire"]]
    BY <1>14 DEF LoopStep
  <2>2. /\ run'[w].pc = "acquire" /\ run'[w].todo = run[w].todo
        /\ run'[w].bad = run[w].bad /\ run'[w].cancelled = run[w].cancelled
    BY <1>0, <2>1 DEF RunType
  <2> QED BY <1>14, <2>1, <2>2
<1>7. CASE \/ Preflight(w) \/ PreflightFails(w) \/ Enter(w) \/ LoopDone(w)
           \/ LoopCancel(w) \/ LoopShutdown(w)
  BY <1>0, <1>7 DEF Preflight, PreflightFails, Enter, LoopDone, LoopCancel, LoopShutdown,
     Goto, RunType
<1>8. CASE \/ Intent(w) \/ Recovered(w) \/ Reverify(w) \/ EnterCritical(w) \/ EffectDone(w)
           \/ EffectFails(w) \/ EffectCancelled(w)
  BY <1>0, <1>8 DEF Intent, Recovered, Reverify, EnterCritical, EffectDone, EffectFails,
     EffectCancelled, Goto, RunType
<1>9. CASE Checkpoint(w) \/ Verify(w) \/ VerifyFails(w) \/ ExitCritical(w)
  BY <1>0, <1>9 DEF Checkpoint, Verify, VerifyFails, ExitCritical, Goto, RunType
<1>10. CASE Failed(w)
  <2>1. PICK pc \in {"roll_back", "fail_safe"} :
          run' = [run EXCEPT ![w] = [@ EXCEPT
              !.pc = pc, !.todo = {i \in {At(w)} : Mine(w, "undo")}]]
    BY <1>10 DEF Failed
  <2>2. /\ run'[w].pc = pc
        /\ run'[w].bad = run[w].bad /\ run'[w].cancelled = run[w].cancelled
    BY <1>0, <2>1 DEF RunType
  <2> QED BY <1>10, <2>2 DEF Failed
<1>11. ~ Honor(w)
  <2> SUFFICES ASSUME Honor(w) PROVE FALSE
    OBVIOUS
  <2>1. PICK pc \in {"cancelled", "comp_read"} :
          run' = [run EXCEPT ![w] = [@ EXCEPT !.pc = pc, !.todo = {}, !.cancelled = TRUE]]
    BY DEF Honor
  <2>2. run'[w].pc = pc
    BY <1>0, <2>1 DEF RunType
  <2> QED BY <2>2
<1>12. ~ (BeginCompensation(w) \/ CompensateDone(w) \/ RollBack(w) \/ CompensationDone(w))
  BY <1>0 DEF BeginCompensation, CompensateDone, RollBack, CompensationDone, Goto, RunType
<1>15. ~ CompensationRead(w)
  BY <1>0 DEF CompensationRead, RunType
<1>16. ~ (CompensateFails(w) \/ Restored(w))
  <2>1. CompensateFails(w) \/ Restored(w) => \E failed \in BOOLEAN : Skip(w, failed)
    BY DEF CompensateFails, Restored
  <2> QED BY <2>1, SkipRun DEF Base, Typed
<1> QED
  BY <1>1, <1>2, <1>3, <1>4, <1>5, <1>6, <1>7, <1>8, <1>9, <1>10, <1>11, <1>12, <1>13, <1>14,
     <1>15, <1>16 DEF Work, Misfortune

\* How a row moves, and when.
LEMMA HowRowsMove ==
    ASSUME Base, NEW w \in Workers, Work(w) \/ Misfortune(w), stepState' # stepState
    PROVE  \E i \in Steps(Op(w)), s \in StepState :
              LET row == stepState[Op(w)][i] IN
              /\ Claimed(w) /\ Fence(w) /\ SetRow(w, i, s) /\ effect' = effect
                  /\ opState' = opState
              /\ \/ /\ run[w].pc = "intent" /\ i = At(w)
                    /\ row \in {"PENDING", "RUNNING"} /\ s = "RUNNING"
                 \/ /\ run[w].pc \in StepPcs /\ i = At(w)
                    /\ row = "RUNNING" /\ s = "CHECKPOINTED"
                 \/ /\ run[w].pc \in StepPcs /\ i = At(w)
                    /\ row = "CHECKPOINTED" /\ s = "VERIFIED"
                 \/ /\ run[w].pc = "comp" /\ i = Last(w)
                    /\ row \in {"RUNNING", "CHECKPOINTED", "VERIFIED"} /\ s = "COMPENSATING"
                 \/ /\ run[w].pc = "comp" /\ i = Last(w)
                    /\ row = "COMPENSATING" /\ s = "COMPENSATED"
                    /\ "COMPLETE" \in ObservedRestoration(Step(Op(w), i), effect[Op(w)][i])
                 \/ /\ run[w].pc = "restored" /\ i = Last(w)
                    /\ row = "COMPENSATING" /\ s = "COMPENSATED"
<1>1. run[w].pc \in StepPcs => At(w) \in Steps(Op(w))
  BY DEF Base, Placed, PlacedAt
<1>2. run[w].pc \in {"comp", "restored"} /\ run[w].todo # {} => Last(w) \in Steps(Op(w))
  BY LastIsToDo DEF Base
<1>3. run[w].pc = "restored" => run[w].todo # {}
  BY DEF Base, Placed, PlacedAt
<1>4. CASE Intent(w)
  BY <1>1, <1>4 DEF Intent, IntentLegal, Row, StepPcs, Claimed, StepState
<1>5. CASE Recovered(w) \/ Checkpoint(w)
  BY <1>1, <1>5 DEF Recovered, Checkpoint, Row, StepPcs, Claimed, StepState
<1>6. CASE Reverify(w) \/ Verify(w)
  BY <1>1, <1>6 DEF Reverify, Verify, Row, StepPcs, Claimed, StepState
<1>7. CASE BeginCompensation(w)
  BY <1>2, <1>7 DEF BeginCompensation, Claimed, StepState
<1>8. CASE ResumeCompensation(w)
  BY <1>2, <1>8 DEF ResumeCompensation, Claimed, StepState
<1>9. CASE Restored(w)
  BY <1>2, <1>3, <1>9 DEF Restored, Claimed, StepState
<1> QED BY <1>4, <1>5, <1>6, <1>7, <1>8, <1>9, WhoWritesRows

\* How an operation moves, and when.
LEMMA HowOpsMove ==
    ASSUME Base, NEW w \in Workers, Work(w) \/ Misfortune(w), opState' # opState
    PROVE  \E target \in OperationState :
              /\ run[w].pc # "idle" /\ SetState(w, target)
              /\ stepState' = stepState /\ effect' = effect
              /\ \/ /\ target = "PAUSED" /\ CanMove(w, "PAUSED") /\ run'[w].pc = "idle"
                 \/ /\ run[w].pc = "intent" /\ run' = run /\ target \in {"PREPARING", "RUNNING"}
                    /\ opState[Op(w)] \in {"QUEUED", "PREPARING"}
                 \/ /\ run[w].pc = "critical" /\ target = "COMMITTING" /\ CanMove(w, target)
                 \/ /\ run[w].pc = "exit" /\ target = "VERIFYING" /\ opState[Op(w)] = "COMMITTING"
                 \/ /\ run[w].pc = "roll_back" /\ target = "ROLLING_BACK" /\ CanMove(w, target)
                    /\ RollBack(w)
                 \/ /\ target \in Terminal /\ run'[w].pc = "idle" /\ EndRun(w)
<1>0. run \in [Workers -> RunType]
  BY DEF Base, Typed, RunTyped
<1>1. CASE WorkflowVersionUnavailable(w)
  BY <1>0, <1>1 DEF WorkflowVersionUnavailable, Quit, Idle, OperationState
<1>2. CASE EnsureRunning(w)
  BY <1>2 DEF EnsureRunning, OperationState
<1>3. CASE EnterCritical(w)
  <2>1. SetState(w, "COMMITTING") /\ (opState[Op(w)] = "COMMITTING" \/ CanMove(w, "COMMITTING"))
    BY <1>3 DEF EnterCritical
  <2>2. opState[Op(w)] # "COMMITTING"
    BY <2>1 DEF SetState, Base, Typed, StateTyped
  <2> QED BY <1>3, <2>1, <2>2 DEF EnterCritical, OperationState
<1>4. CASE ExitCritical(w)
  BY <1>4 DEF ExitCritical, OperationState
<1>5. CASE RollBack(w)
  BY <1>5 DEF RollBack, OperationState
<1>6. CASE EndRun(w)
  <2>1. PICK target \in Outcome(w) :
          /\ SetState(w, target) /\ OutcomeLegal(w, target) /\ Quit(w)
          /\ UNCHANGED <<stepState, effect>>
    BY <1>6 DEF EndRun
  <2>2. target \in Terminal \/ (target = "PAUSED" /\ run[w].pc = "pause")
    BY <2>1, OutcomeOf DEF Outcome, TerminalDecision, Terminal
  <2>3. target = "PAUSED" => CanMove(w, "PAUSED")
    BY <2>1, <2>2 DEF OutcomeLegal, Terminal
  <2>4. run'[w].pc = "idle" /\ run[w].pc # "idle" /\ target \in OperationState
    BY <1>0, <2>1, OutcomeOf DEF Quit, Idle
  <2> QED BY <1>6, <2>1, <2>2, <2>3, <2>4
<1> QED BY <1>1, <1>2, <1>3, <1>4, <1>5, <1>6, WhoMoves

-----------------------------------------------------------------------------
(* What the user and the clock may change.                                 *)

WorldStep ==
    \/ UNCHANGED vars
    \/ \E o \in Ops : RequestCancel(o) \/ Resume(o)
    \/ \E r \in Resources : Expire(r)

\* They touch neither rows nor effects nor runs, and no operation that has ended.
LEMMA WorldStays ==
    ASSUME Base, WorldStep
    PROVE  /\ UNCHANGED <<kind, stepState, effect, run>>
           /\ \A o \in Ops : \/ opState'[o] = opState[o]
                             \/ /\ opState[o] \notin Terminal \cup {"COMMITTING", "ROLLING_BACK"}
                                /\ opState[o] # "CANCEL_REQUESTED"
                                /\ opState'[o] \in {"CANCEL_REQUESTED", "PREPARING"}
           /\ \A r \in Resources :
                lease[r] # NoLease => lease'[r] # NoLease /\ lease'[r].op = lease[r].op
<1> USE DEF Base, Typed
<1>1. UNCHANGED <<kind, stepState, effect, run>>
  BY DEF WorldStep, RequestCancel, Resume, Expire, vars
<1>2. ASSUME NEW o \in Ops, opState'[o] # opState[o]
      PROVE  /\ opState[o] \notin Terminal \cup {"COMMITTING", "ROLLING_BACK"}
             /\ opState[o] # "CANCEL_REQUESTED"
             /\ opState'[o] \in {"CANCEL_REQUESTED", "PREPARING"}
  BY <1>2 DEF WorldStep, RequestCancel, Resume, Expire, vars, StateTyped, CanTransition, Terminal
<1>3. ASSUME NEW r \in Resources, lease[r] # NoLease
      PROVE  lease'[r] # NoLease /\ lease'[r].op = lease[r].op
  <2>1. CASE lease' = lease
    BY <1>3, <2>1
  <2>2. CASE \E x \in Resources : Expire(x)
    <3>1. lease[r] \in LeaseRow
      BY <1>3 DEF LeasesTyped
    <3>2. lease'[r] = lease[r] \/ lease'[r] = [lease[r] EXCEPT !.live = FALSE]
      BY <2>2 DEF Expire, LeasesTyped
    <3>3. lease'[r] \in LeaseRow /\ lease'[r].op = lease[r].op
      BY <3>1, <3>2 DEF LeaseRow
    <3> QED BY <3>3, NullAssumption DEF LeaseRow
  <2> QED BY <2>1, <2>2 DEF WorldStep, RequestCancel, Resume, vars
<1> QED BY <1>1, <1>2, <1>3

-----------------------------------------------------------------------------
(* Rows and effects.                                                       *)

\* A step begins when the loop has verified the steps before it.
LEMMA InOrderKept ==
    ASSUME OutcomeInv, NEW w \in Workers, Work(w) \/ Misfortune(w)
    PROVE  InOrder'
<1> SUFFICES ASSUME NEW o \in Ops, NEW i \in Steps(o), NEW j \in Steps(o), i < j,
                    stepState'[o][j] # "PENDING"
             PROVE  stepState'[o][i] \in {"VERIFIED", "COMPENSATING", "COMPENSATED"}
  BY StepFootprint DEF InOrder, Footprint, Steps, Workflow, OutcomeInv, EffectInv, Base
<1>1. CASE stepState' = stepState
  BY <1>1 DEF OutcomeInv, InOrder
<1>2. CASE stepState' # stepState
  <2>1. PICK x \in Steps(Op(w)), s \in StepState :
          LET row == stepState[Op(w)][x] IN
          /\ Claimed(w) /\ Fence(w) /\ SetRow(w, x, s)
          /\ \/ run[w].pc = "intent" /\ x = At(w) /\ row \in {"PENDING", "RUNNING"}
                 /\ s = "RUNNING"
             \/ row = "RUNNING" /\ s = "CHECKPOINTED"
             \/ row \in Begun /\ s \in {"VERIFIED", "COMPENSATING", "COMPENSATED"}
    BY <1>2, HowRowsMove DEF OutcomeInv, EffectInv, Begun
  <2>2. /\ stepState'[Op(w)][x] = s
        /\ \A p \in Ops : \A k \in Steps(p) :
             p # Op(w) \/ k # x => stepState'[p][k] = stepState[p][k]
    BY <2>1, RowSet DEF OutcomeInv, EffectInv
  <2>3. stepState[o][j] # "PENDING" =>
          stepState[o][i] \in {"VERIFIED", "COMPENSATING", "COMPENSATED"}
    BY DEF OutcomeInv, InOrder
  <2>4. run[w].pc = "intent" /\ o = Op(w) /\ j = At(w) => stepState[o][i] = "VERIFIED"
    BY DEF OutcomeInv, AtPlaces, AtStep, StepPcs
  <2>5. i # j
    <3>1. i \in Nat /\ j \in Nat
      BY ResourcesOf DEF OutcomeInv, EffectInv, Base, Typed
    <3> QED BY <3>1
  <2> QED BY <2>1, <2>2, <2>3, <2>4, <2>5 DEF Begun
<1> QED BY <1>1, <1>2

\* An effect begins under a RUNNING row, and its row is closed when it is gone.
LEMMA TracedKept ==
    ASSUME OneWorker, OutcomeInv, NEW w \in Workers, Work(w) \/ Misfortune(w)
    PROVE  Traced'
<1> USE DEF OutcomeInv, EffectInv
<1>0. kind' = kind /\ EffectStep(w)
  BY StepFootprint DEF Footprint, Base
<1> SUFFICES ASSUME NEW o \in Ops, NEW i \in Steps(o), Reversible(o, i), effect'[o][i] # "none"
             PROVE  stepState'[o][i] \in Begun
  BY <1>0 DEF Traced, Left, Steps, Workflow, Reversible, Step
<1>1. ASSUME effect'[o][i] # effect[o][i] PROVE stepState'[o][i] \in Begun
  <2>1. run[w].pc \in {"effect", "undo"} /\ Claimed(w)
    BY <1>0, <1>1 DEF EffectStep, Claimed
  <2>2. run[w].pc = "effect" /\ SetEffect(w, At(w), effect'[o][i])
        /\ o = Op(w) /\ i = At(w) /\ At(w) \in Steps(Op(w))
    <3>1. CASE run[w].pc = "effect"
      <4>1. At(w) \in Steps(Op(w)) /\ \E real : SetEffect(w, At(w), real)
        BY <1>0, <1>1, <3>1 DEF EffectStep, Base, Placed, PlacedAt, StepPcs
      <4> QED BY <1>1, <2>1, <3>1, <4>1, EffectSet
    <3>2. CASE run[w].pc = "undo"
      <4>1. Last(w) \in Steps(Op(w)) /\ SetEffect(w, Last(w), "none")
        BY <1>0, <1>1, <3>2, LastIsToDo DEF EffectStep, Base, Placed, PlacedAt
      <4> QED BY <1>1, <2>1, <4>1, EffectSet
    <3> QED BY <2>1, <3>1, <3>2
  <2>3. Row(w) = "RUNNING"
    BY <2>1, <2>2 DEF OneWorker, Sure, Knowing, Knows
  <2>4. stepState' = stepState
    BY <1>1, <2>1, HowRowsMove
  <2> QED BY <2>2, <2>3, <2>4 DEF Row, Begun
<1>2. ASSUME effect'[o][i] = effect[o][i] PROVE stepState'[o][i] \in Begun
  <2>1. i \in Left(o) /\ stepState[o][i] \in Begun
    BY <1>2 DEF Left, Traced
  <2> SUFFICES ASSUME stepState'[o][i] # stepState[o][i] PROVE stepState'[o][i] \in Begun
    BY <2>1
  <2>2. PICK x \in Steps(Op(w)), s \in StepState :
          /\ Claimed(w) /\ SetRow(w, x, s)
          /\ \/ s \in Begun
             \/ /\ s = "COMPENSATED" /\ run[w].pc = "comp"
                /\ "COMPLETE" \in ObservedRestoration(Step(Op(w), x), effect[Op(w)][x])
             \/ s = "COMPENSATED" /\ run[w].pc = "restored" /\ x = Last(w)
    BY HowRowsMove DEF Begun
  <2>3. o = Op(w) /\ i = x /\ stepState'[o][i] = s
    BY <2>2, RowSet
  <2>4. Step(o, i).restored # {"COMPLETE"}
    <3>1. PICK k \in DOMAIN Catalog : Workflow(o) = Catalog[k]
      BY DEF Base, Typed, KindTyped, Workflow
    <3> QED BY <3>1, CompensationAssumption DEF Reversible, Step, Steps
  <2>5. run[w].pc = "restored" /\ x = Last(w) => effect[o][i] = "none"
    BY <2>3 DEF AtPlaces, AtUndo
  <2> QED BY <2>1, <2>2, <2>3, <2>4, <2>5 DEF ObservedRestoration, Left
<1> QED BY <1>1, <1>2

-----------------------------------------------------------------------------
(* Where the run stands.                                                   *)

\* Steps of a workflow, as the assumptions on the catalog speak of them.
LEMMA StepsOfWorkflow ==
    ASSUME KindTyped, NEW o \in Ops
    PROVE  \E k \in DOMAIN Catalog :
              /\ Workflow(o) = Catalog[k] /\ Steps(o) = DOMAIN Catalog[k].steps
              /\ \A i \in Steps(o) : Step(o, i) = Catalog[k].steps[i]
  BY DEF KindTyped, Workflow, Steps, Step

\* From the claim to the loop: nothing noted, nothing ended.
LEMMA AtClaimKept ==
    ASSUME OneWorker, OutcomeInv, NEW w \in Workers, Work(w) \/ Misfortune(w)
    PROVE  AtClaim(w)'
<1> USE DEF OutcomeInv, EffectInv
<1>0. run \in [Workers -> RunType] /\ kind' = kind /\ RunStep(w)
  BY StepFootprint DEF Base, Typed, RunTyped, Footprint
<1>1. AtClaim(w) /\ AtUndo(w)
  BY DEF AtPlaces
<1>2. run'[w].pc # "idle" => opState'[Op(w)'] \notin Terminal
  <2>1. CASE \E o \in Ops : ClaimRead(w, o)
    BY <1>0, <2>1 DEF ClaimRead, Idle, Op
  <2>2. CASE Quit(w)
    BY <1>0, <2>2 DEF Quit, Idle
  <2>3. CASE ~ Quit(w) /\ ~ \E o \in Ops : ClaimRead(w, o)
    <3>1. run[w].pc # "idle" /\ Op(w) \in Ops
      BY <2>3, WorksOn, OpOfRun DEF Base, Typed
    <3>2. Op(w)' = Op(w)
      BY <2>3, KeepsOp
    <3>3. CASE opState' = opState
      BY <1>1, <3>1, <3>2, <3>3 DEF AtClaim
    <3>4. CASE opState' # opState
      <4>1. PICK target \in OperationState :
              /\ SetState(w, target)
              /\ run'[w].pc = "idle" \/ target \notin Terminal
        BY <3>4, HowOpsMove DEF Terminal
      <4> QED BY <3>1, <3>2, <4>1 DEF SetState, Base, Typed, StateTyped
    <3> QED BY <3>3, <3>4
  <2> QED BY <2>1, <2>2, <2>3
<1>3. run'[w].pc = "claim" /\ opState'[Op(w)'] = "ROLLING_BACK" => run'[w].seen = "ROLLING_BACK"
  <2> SUFFICES ASSUME run'[w].pc = "claim", opState'[Op(w)'] = "ROLLING_BACK"
               PROVE  run'[w].seen = "ROLLING_BACK"
    OBVIOUS
  <2>1. PICK o \in Ops : ClaimRead(w, o)
    BY Leads
  <2>2. run'[w] = [Idle EXCEPT !.pc = "claim", !.op = o, !.seen = opState[o]]
    BY <1>0, <2>1 DEF ClaimRead
  <2> QED BY <2>1, <2>2 DEF ClaimRead, Idle, Op
<1>4. ASSUME run'[w].pc \in {"preflight", "enter"}, opState'[Op(w)'] = "ROLLING_BACK",
             NEW i \in Steps(Op(w)'), Compensates(Step(Op(w)', i))
      PROVE  Step(Op(w)', i).resources \subseteq run'[w].held
  <2>1. CASE Claim(w)
    <3>1. Op(w)' = Op(w) /\ run'[w].held = Desired(w) /\ opState' = opState
      BY <1>0, <2>1 DEF Claim, RunType, Op
    <3>2. run[w].seen = "ROLLING_BACK"
      BY <1>1, <1>4, <2>1, <3>1 DEF AtClaim, Claim
    <3>3. Desired(w) = InitialResources(Workflow(Op(w))) \cup BarrierResources(Workflow(Op(w)))
      BY <3>2 DEF Desired
    <3>4. Op(w) \in Ops
      BY <2>1, OpOfRun DEF Claim, Base, Typed
    <3>5. PICK k \in DOMAIN Catalog : Workflow(Op(w)) = Catalog[k]
      BY <3>4 DEF Base, Typed, KindTyped, Workflow
    <3>6. Step(Op(w), i).resources
            \subseteq InitialResources(Workflow(Op(w))) \cup BarrierResources(Workflow(Op(w)))
      BY <1>0, <1>4, <3>1, <3>5, CompensationAssumption DEF Steps, Step, Workflow
    <3> QED BY <1>0, <3>1, <3>3, <3>6 DEF Step, Workflow
  <2>2. CASE Preflight(w)
    BY <1>0, <1>1, <1>4, <2>2 DEF Preflight, Goto, RunType, Op, AtClaim, Steps, Step, Workflow
  <2> QED BY <1>4, <2>1, <2>2, Leads
<1>5. run'[w].pc = "honor" => opState'[Op(w)'] = "CANCEL_REQUESTED"
  <2>1. CASE LoopCancel(w)
    BY <1>0, <2>1 DEF LoopCancel, CancelDue, Goto, RunType, Op
  <2>2. CASE EnterCritical(w)
    BY <1>0, <2>2 DEF EnterCritical, Goto, RunType, Op
  <2>3. CASE EffectCancelled(w)
    BY <1>0, <2>3 DEF EffectCancelled, Goto, RunType, Op
  <2> QED BY <2>1, <2>2, <2>3, Leads
<1>6. /\ run'[w].pc \in Fresh => run'[w].todo = {}
      /\ run'[w].pc \in Fresh \cup {"roll_back"} => ~ run'[w].bad /\ ~ run'[w].cancelled
  <2>1. CASE \E o \in Ops : ClaimRead(w, o)
    BY <1>0, <2>1 DEF ClaimRead, Idle
  <2>2. CASE run'[w].pc \in Fresh \cup {"roll_back"} /\ ~ \E o \in Ops : ClaimRead(w, o)
    <3>1. /\ run[w].pc \in Fresh
          /\ run'[w].bad = run[w].bad /\ run'[w].cancelled = run[w].cancelled
          /\ run'[w].pc # "roll_back" => run'[w].todo = run[w].todo
      BY <2>2, StaysFresh
    <3>2. run[w].todo = {} /\ ~ run[w].bad /\ ~ run[w].cancelled
      BY <1>1, <3>1 DEF AtClaim
    <3> QED BY <3>1, <3>2 DEF Fresh, StepPcs
  <2> QED BY <2>1, <2>2
<1> QED BY <1>0, <1>2, <1>3, <1>4, <1>5, <1>6 DEF AtClaim, Steps, Step, Workflow

\* Inside a step: the earlier ones are verified.
LEMMA AtStepKept ==
    ASSUME OneWorker, OutcomeInv, NEW w \in Workers, Work(w) \/ Misfortune(w)
    PROVE  AtStep(w)'
<1> USE DEF OutcomeInv, EffectInv
<1>0. run \in [Workers -> RunType] /\ kind' = kind
  BY StepFootprint DEF Base, Typed, RunTyped, Footprint
<1>1. AtStep(w)
  BY DEF AtPlaces
<1>2. Claimed(w) => Knows(w)
  BY DEF OneWorker, Sure, Knowing
<1>3. ASSUME run'[w].pc \in StepPcs, NEW i \in Steps(Op(w))', i < At(w)'
      PROVE  stepState'[Op(w)'][i] = "VERIFIED"
  <2>1. CASE LoopStep(w)
    <3>1. /\ Op(w)' = Op(w) /\ At(w)' = Min(Unverified(Op(w)))
          /\ Unverified(Op(w)) # {} /\ stepState' = stepState
      BY <1>0, <2>1 DEF LoopStep, RunType, Op, At
    <3>2. Op(w) \in Ops
      BY <2>1, OpOfRun DEF LoopStep, Base, Typed
    <3>3. Unverified(Op(w)) \subseteq Nat /\ i \in Steps(Op(w)) /\ i \in Nat
      BY <1>0, <1>3, <3>1, <3>2, ResourcesOf DEF Base, Typed, Unverified, Steps, Workflow
    <3>4. i \notin Unverified(Op(w))
      BY <1>3, <3>1, <3>3, MinIsFirst
    <3> QED BY <3>1, <3>3, <3>4 DEF Unverified
  <2>2. CASE ~ LoopStep(w)
    <3>0. \A o \in Ops : ClaimRead(w, o) => run'[w].pc = "claim"
      BY <1>0 DEF ClaimRead, Idle
    <3>1. ~ Quit(w) /\ ~ \E o \in Ops : ClaimRead(w, o)
      BY <1>0, <1>3, <3>0 DEF Quit, Idle, StepPcs
    <3>2. run[w].pc \in StepPcs /\ At(w)' = At(w) /\ Op(w)' = Op(w)
      BY <1>3, <2>2, <3>1, StaysFresh, KeepsOp DEF Fresh, At
    <3>3. i \in Steps(Op(w)) /\ stepState[Op(w)][i] = "VERIFIED" /\ Op(w) \in Ops
      BY <1>0, <1>1, <1>3, <3>2, OpOfRun DEF AtStep, Steps, Workflow, Base, Typed, StepPcs
    <3>4. CASE stepState' # stepState
      <4>1. PICK x \in Steps(Op(w)), s \in StepState : Claimed(w) /\ SetRow(w, x, s) /\ x = At(w)
        BY <3>2, <3>4, HowRowsMove DEF StepPcs
      <4>2. i \in Nat /\ x \in Nat
        BY <3>3, ResourcesOf DEF Base, Typed
      <4>3. i # x
        BY <1>3, <3>2, <4>1, <4>2
      <4> QED BY <3>2, <3>3, <4>1, <4>3, RowSet
    <3> QED BY <3>2, <3>3, <3>4
  <2> QED BY <2>1, <2>2
<1>4. run'[w].pc = "verify" => Row(w)' = "CHECKPOINTED"
  <2> SUFFICES ASSUME Checkpoint(w) PROVE Row(w)' = "CHECKPOINTED"
    BY Leads
  <2>1. Claimed(w) /\ At(w) \in Steps(Op(w)) /\ SetRow(w, At(w), "CHECKPOINTED")
    BY DEF Checkpoint, Claimed, Base, Placed, PlacedAt, StepPcs
  <2>2. Op(w)' = Op(w) /\ At(w)' = At(w)
    BY <1>0 DEF Checkpoint, Goto, RunType, Op, At
  <2> QED BY <2>1, <2>2, RowSet DEF Row
<1>5. run'[w].pc = "failed" => Row(w)' \in {"RUNNING", "CHECKPOINTED"} /\ ~ Mine(w, "inert")'
  <2>1. CASE EffectFails(w)
    <3>1. Row(w) = "RUNNING"
      BY <1>2, <2>1 DEF EffectFails, Knows, Claimed
    <3>2. Op(w)' = Op(w) /\ At(w)' = At(w)
      BY <1>0, <2>1 DEF EffectFails, Goto, RunType, Op, At
    <3> QED BY <1>0, <2>1, <3>1, <3>2 DEF EffectFails, Row, Mine, Has, Step, Workflow
  <2>2. CASE VerifyFails(w)
    <3>1. Row(w) = "CHECKPOINTED"
      BY <1>1, <2>2 DEF VerifyFails, AtStep
    <3>2. Op(w)' = Op(w) /\ At(w)' = At(w)
      BY <1>0, <2>2 DEF VerifyFails, Goto, RunType, Op, At
    <3> QED BY <1>0, <2>2, <3>1, <3>2 DEF VerifyFails, Row, Mine, Has, Step, Workflow
  <2> QED BY <2>1, <2>2, Leads
<1> QED BY <1>3, <1>4, <1>5 DEF AtStep

\* Inside a step, what there is to undo lies at or before it, in reach.
LEMMA StepReach ==
    ASSUME OneWorker, OutcomeInv, NEW w \in Workers, run[w].pc \in {"probe", "effect", "failed"},
           NEW i \in Steps(Op(w)), i = At(w) \/ stepState[Op(w)][i] # "PENDING"
    PROVE  i =< At(w) /\ Step(Op(w), i).resources \subseteq run[w].held
<1> USE DEF OutcomeInv, EffectInv
<1>1. Op(w) \in Ops /\ At(w) \in Steps(Op(w)) /\ Claimed(w)
  BY OpOfRun DEF Base, Typed, Placed, PlacedAt, StepPcs, Claimed
<1>2. Row(w) \in {"RUNNING", "CHECKPOINTED"}
  BY <1>1 DEF OneWorker, Sure, Knowing, Knows, AtPlaces, AtStep
<1>3. i \in Nat /\ At(w) \in Nat
  BY <1>1, ResourcesOf DEF Base, Typed
<1>4. i =< At(w)
  BY <1>1, <1>2, <1>3 DEF InOrder, Row
<1>5. Step(Op(w), At(w)).resources \subseteq run[w].held
      /\ InitialResources(Workflow(Op(w))) \subseteq run[w].held
  BY <1>1 DEF Base, Holding, HoldsAt, StepPcs
<1>6. PICK k \in DOMAIN Catalog :
        /\ Workflow(Op(w)) = Catalog[k] /\ Steps(Op(w)) = DOMAIN Catalog[k].steps
        /\ \A j \in Steps(Op(w)) : Step(Op(w), j) = Catalog[k].steps[j]
  BY <1>1, StepsOfWorkflow DEF Base, Typed
<1>7. CASE "phased" \in Catalog[k].traits
  <2>1. i < At(w) => Step(Op(w), i).resources \subseteq Step(Op(w), At(w)).resources
    BY <1>1, <1>6, <1>7, CompensationAssumption
  <2> QED BY <1>3, <1>4, <1>5, <2>1
<1>8. CASE "phased" \notin Catalog[k].traits
  <2>1. InitialResources(Workflow(Op(w))) = AllResources(Catalog[k])
    BY <1>6, <1>8 DEF InitialResources
  <2> QED BY <1>4, <1>5, <1>6, <2>1 DEF AllResources
<1> QED BY <1>7, <1>8

-----------------------------------------------------------------------------
(* The roll-back.                                                          *)

\* One step of a roll-back: the steps to undo are read; the last one is undone, or
\* found undone; or something went wrong, and is noted.
LEMMA HowUndoMoves ==
    ASSUME Base, NEW w \in Workers, Work(w) \/ Misfortune(w),
           run'[w].pc \in Undoing \ {"comp_read"}
    PROVE  /\ run[w].pc \in Undoing /\ opState' = opState
           /\ Op(w)' = Op(w)
           /\ run'[w].held = run[w].held /\ run'[w].cancelled = run[w].cancelled
           /\ run[w].bad => run'[w].bad
           /\ run[w].pc = "comp_read" => run'[w].todo = run[w].todo \cup Durable(Op(w))
           /\ \/ /\ run'[w].todo = run[w].todo \cup Durable(Op(w))
                 /\ run'[w].pc = "comp" /\ UNCHANGED <<stepState, effect>>
              \/ /\ run'[w].todo = run[w].todo \ {Last(w)} /\ run'[w].pc = "comp"
                 /\ run[w].todo # {} /\ SetRow(w, Last(w), "COMPENSATED") /\ UNCHANGED effect
                 /\ \/ run[w].pc = "restored"
                    \/ "COMPLETE" \in ObservedRestoration(Step(Op(w), Last(w)),
                                                          effect[Op(w)][Last(w)])
              \/ /\ run'[w].bad /\ run'[w].todo \subseteq run[w].todo
                 /\ run'[w].pc \in {"comp", "finalize"} /\ UNCHANGED effect
              \/ /\ run[w].todo = {} /\ run'[w].todo = {} /\ run'[w].pc = "finalize"
                 /\ UNCHANGED <<stepState, effect>>
              \/ /\ run'[w].todo = run[w].todo /\ run'[w].pc = "undo" /\ UNCHANGED effect
              \/ /\ run'[w].todo = run[w].todo /\ run'[w].pc = "restored" /\ run[w].todo # {}
                 /\ SetEffect(w, Last(w), "none") /\ UNCHANGED stepState
<1>0. run \in [Workers -> RunType]
  BY DEF Base, Typed, RunTyped
<1>1. CASE CompensationRead(w)
  BY <1>0, <1>1 DEF CompensationRead, RunType, Op, Undoing
<1>2. CASE CompensateFails(w)
  <2>1. run' = [run EXCEPT ![w] = [@ EXCEPT !.pc = "comp", !.todo = run[w].todo \ {Last(w)},
                           !.bad = run[w].bad \/ TRUE]]
    BY <1>0, <1>2 DEF CompensateFails, Skip, RunType
  <2>2. /\ run'[w].pc = "comp" /\ run'[w].todo = run[w].todo \ {Last(w)} /\ run'[w].bad = TRUE
        /\ run'[w].op = run[w].op /\ run'[w].held = run[w].held
        /\ run'[w].cancelled = run[w].cancelled
    BY <1>0, <2>1 DEF RunType
  <2> QED BY <1>2, <2>2 DEF CompensateFails, Undoing, Op
<1>3. CASE Restored(w)
  <2>1. /\ run'[w].pc = "comp" /\ run'[w].todo = run[w].todo \ {Last(w)}
        /\ run'[w].bad = run[w].bad
        /\ run'[w].op = run[w].op /\ run'[w].held = run[w].held
        /\ run'[w].cancelled = run[w].cancelled
    BY <1>0, <1>3 DEF Restored, Skip, RunType
  <2>2. run[w].todo # {}
    BY <1>3 DEF Restored, Base, Placed, PlacedAt
  <2> QED BY <1>3, <2>1, <2>2 DEF Restored, Undoing, Op
<1>4. CASE ResumeCompensation(w)
  <2>1. CASE Goto(w, "undo")
    BY <1>0, <1>4, <2>1 DEF ResumeCompensation, Goto, RunType, Op, Undoing
  <2>2. CASE Skip(w, FALSE)
    <3>1. /\ run'[w].pc = "comp" /\ run'[w].todo = run[w].todo \ {Last(w)}
          /\ run'[w].bad = run[w].bad
          /\ run'[w].op = run[w].op /\ run'[w].held = run[w].held
          /\ run'[w].cancelled = run[w].cancelled
      BY <1>0, <2>2 DEF Skip, RunType
    <3>2. ~ Goto(w, "undo")
            /\ run' # [run EXCEPT ![w] = [@ EXCEPT !.pc = "finalize", !.bad = TRUE]]
      BY <1>0, <3>1 DEF Goto, RunType
    <3> QED BY <1>4, <3>1, <3>2 DEF ResumeCompensation, Undoing, Op
  <2>3. CASE run' = [run EXCEPT ![w] = [@ EXCEPT !.pc = "finalize", !.bad = TRUE]]
    BY <1>0, <1>4, <2>3 DEF ResumeCompensation, RunType, Op, Undoing
  <2> QED BY <1>4, <2>1, <2>2, <2>3 DEF ResumeCompensation
<1>5. CASE CompensationDone(w)
  BY <1>0, <1>5 DEF CompensationDone, Goto, RunType, Op, Undoing
<1>6. CASE BeginCompensation(w)
  BY <1>0, <1>6 DEF BeginCompensation, Goto, RunType, Op, Undoing
<1>7. CASE CompensateDone(w)
  <2>1. run[w].todo # {}
    BY <1>7 DEF CompensateDone, Base, Placed, PlacedAt
  <2> QED BY <1>0, <1>7, <2>1 DEF CompensateDone, Goto, RunType, Op, Undoing
<1> QED BY <1>1, <1>2, <1>3, <1>4, <1>5, <1>6, <1>7, Leads DEF Undoing

\* What has to be undone is what a visible reversible effect left, with its row.
LEMMA LeftIsDurable ==
    ASSUME Traced, NEW o \in Ops
    PROVE  Left(o) \subseteq Durable(o)
  BY DEF Traced, Left, Durable, Begun, Reversible, Reverses, Compensates

\* A roll-back only takes away from what is to be undone.
LEMMA UndoShrinks ==
    ASSUME OutcomeInv, NEW w \in Workers, Work(w) \/ Misfortune(w), run[w].pc \in Undoing,
           NEW o \in Ops, Op(w) = o
    PROVE  Left(o)' \subseteq Left(o) /\ Durable(o)' \subseteq Durable(o)
<1> USE DEF OutcomeInv, EffectInv
<1>0. kind' = kind /\ EffectStep(w) /\ Claimed(w)
  BY StepFootprint DEF Footprint, Base, Undoing, Claimed
<1>1. Left(o)' \subseteq Left(o)
  <2> SUFFICES ASSUME NEW i \in Steps(o), effect'[o][i] # "none", effect'[o][i] # effect[o][i]
               PROVE  FALSE
    BY <1>0 DEF Left, Steps, Workflow, Reversible, Step
  <2>1. run[w].pc = "undo" /\ SetEffect(w, Last(w), "none")
    BY <1>0 DEF EffectStep, Undoing
  <2>2. Last(w) \in Steps(Op(w))
    BY <2>1, LastIsToDo DEF Base, Placed, PlacedAt
  <2> QED BY <1>0, <2>1, <2>2, EffectSet
<1>2. Durable(o)' \subseteq Durable(o)
  <2> SUFFICES ASSUME NEW i \in Steps(o), stepState'[o][i] \in Begun,
                      stepState'[o][i] # stepState[o][i]
               PROVE  stepState[o][i] \in Begun
    BY <1>0 DEF Durable, Begun, Steps, Workflow, Step
  <2>1. PICK x \in Steps(Op(w)), s \in StepState :
          SetRow(w, x, s) /\ (stepState[Op(w)][x] \in Begun \/ s = "COMPENSATED")
    BY HowRowsMove DEF Begun, Undoing, StepPcs
  <2> QED BY <1>0, <2>1, RowSet DEF Begun
<1> QED BY <1>1, <1>2

\* In a roll-back: what is left is to be undone, and within reach.
LEMMA AtUndoKept ==
    ASSUME OneWorker, OutcomeInv, NEW w \in Workers, Work(w) \/ Misfortune(w)
    PROVE  AtUndo(w)'
<1> USE DEF OutcomeInv, EffectInv
<1>0. run \in [Workers -> RunType] /\ kind' = kind
  BY StepFootprint DEF Base, Typed, RunTyped, Footprint
<1>1. AtClaim(w) /\ AtStep(w) /\ AtUndo(w)
  BY DEF AtPlaces
<1>2. ASSUME run'[w].pc \in {"roll_back", "require"} PROVE Reach(w)'
  <2>1. run[w].pc \in {"probe", "effect", "failed"}
    BY <1>2, Leads DEF ProbeDecides, Failed, EffectFails
  <2>2. /\ Op(w) \in Ops /\ Op(w)' = Op(w) /\ run'[w].held = run[w].held
        /\ run[w].todo = {} /\ run'[w].todo \subseteq {At(w)}
        /\ stepState' = stepState /\ At(w) \in Steps(Op(w))
    <3>1. Op(w) \in Ops /\ At(w) \in Steps(Op(w)) /\ run[w].todo = {}
      BY <1>1, <2>1, OpOfRun DEF AtClaim, Fresh, Base, Typed, Placed, PlacedAt, StepPcs
    <3>2. CASE ProbeDecides(w) \/ EffectFails(w)
      <4>1. \E pc \in Pcs : Goto(w, pc) /\ stepState' = stepState
        <5>1. CASE ProbeDecides(w)
          <6>1. \E pc \in {"recovered", "critical", "effect", "roll_back", "pause", "require"} :
                  Goto(w, pc)
            BY <5>1, ProbeLeads
          <6> QED BY <5>1, <6>1 DEF ProbeDecides, Pcs
        <5>2. CASE EffectFails(w)
          BY <5>2 DEF EffectFails, Pcs
        <5> QED BY <3>2, <5>1, <5>2
      <4> QED BY <1>0, <3>1, <4>1 DEF Goto, RunType, Op
    <3>3. CASE Failed(w)
      <4>1. PICK pc \in {"roll_back", "fail_safe"} :
              run' = [run EXCEPT ![w] = [@ EXCEPT
                  !.pc = pc, !.todo = {i \in {At(w)} : Mine(w, "undo")}]]
        BY <3>3 DEF Failed
      <4>2. /\ run'[w].op = run[w].op /\ run'[w].held = run[w].held
            /\ run'[w].todo = {i \in {At(w)} : Mine(w, "undo")}
        BY <1>0, <4>1 DEF RunType
      <4> QED BY <3>1, <3>3, <4>2 DEF Failed, Op
    <3> QED BY <1>2, <3>2, <3>3, Leads
  <2>3. \A i \in Left(Op(w))' :
          i \in Steps(Op(w)) /\ (i = At(w) \/ stepState[Op(w)][i] # "PENDING")
    <3> SUFFICES ASSUME NEW i \in Steps(Op(w)), Reversible(Op(w), i), effect'[Op(w)][i] # "none",
                        i # At(w)
                 PROVE  stepState[Op(w)][i] # "PENDING"
      BY <1>0, <2>2 DEF Left, Steps, Workflow, Reversible, Step
    <3>1. Claimed(w) /\ EffectStep(w) /\ run[w].pc # "undo"
      BY <2>1, StepFootprint DEF Footprint, Base, Claimed
    <3>2. effect'[Op(w)][i] = effect[Op(w)][i]
      BY <2>2, <3>1, EffectSet DEF EffectStep
    <3> QED BY <2>2, <3>2 DEF Traced, Left, Begun
  <2>4. \A i \in Durable(Op(w))' : i \in Steps(Op(w)) /\ stepState[Op(w)][i] # "PENDING"
    BY <1>0, <2>2 DEF Durable, Steps, Workflow
  <2>5. \A i \in run'[w].todo \cup Left(Op(w))' \cup Durable(Op(w))' :
          Step(Op(w), i).resources \subseteq run[w].held
    BY <2>1, <2>2, <2>3, <2>4, StepReach
  <2> QED BY <1>0, <2>2, <2>5 DEF Reach, Step, Workflow
<1>3. ASSUME run'[w].pc = "comp_read"
      PROVE  \/ run'[w].cancelled /\ opState'[Op(w)'] = "CANCEL_REQUESTED"
             \/ ~ run'[w].cancelled /\ opState'[Op(w)'] = "ROLLING_BACK" /\ Reach(w)'
  <2>1. CASE Enter(w)
    <3>1. run' = [run EXCEPT ![w].pc = "comp_read"] /\ opState[Op(w)] = "ROLLING_BACK"
      BY <1>0, <1>3, <2>1 DEF Enter, Goto, RunType
    <3>2. run[w].todo = {} /\ ~ run[w].cancelled
      BY <1>1, <2>1 DEF Enter, AtClaim, Fresh
    <3>3. Op(w) \in Ops
      BY <2>1, OpOfRun DEF Enter, Base, Typed
    <3>4. Reach(w)
      <4>1. \A i \in Durable(Op(w)) : i \in Steps(Op(w)) /\ Compensates(Step(Op(w), i))
        BY DEF Durable
      <4> QED BY <1>1, <2>1, <3>1, <3>2, <3>3, <4>1, LeftIsDurable DEF Enter, AtClaim, Reach
    <3>5. UNCHANGED <<kind, opState, stepState, effect>> /\ Op(w)' = Op(w)
          /\ run'[w].todo = run[w].todo /\ run'[w].held = run[w].held
          /\ run'[w].cancelled = run[w].cancelled
      BY <1>0, <2>1, <3>1 DEF Enter, RunType, Op
    <3> QED BY <3>1, <3>2, <3>4, <3>5
            DEF Reach, Left, Durable, Reversible, Steps, Step, Workflow
  <2>2. CASE RollBack(w)
    <3>1. Op(w) \in Ops /\ Reach(w) /\ ~ run[w].cancelled
      BY <1>1, <2>2, OpOfRun DEF RollBack, AtClaim, AtUndo, Base, Typed
    <3>2. UNCHANGED <<kind, stepState, effect>> /\ Op(w)' = Op(w)
          /\ run'[w].todo = run[w].todo /\ run'[w].held = run[w].held
          /\ run'[w].cancelled = run[w].cancelled
      BY <1>0, <2>2 DEF RollBack, Goto, RunType, Op
    <3>3. opState'[Op(w)] = "ROLLING_BACK"
      BY <2>2, <3>1 DEF RollBack, SetState, Base, Typed, StateTyped
    <3> QED BY <3>1, <3>2, <3>3 DEF Reach, Left, Durable, Reversible, Steps, Step, Workflow
  <2>3. CASE Honor(w)
    <3>1. PICK pc \in {"cancelled", "comp_read"} :
            run' = [run EXCEPT ![w] = [@ EXCEPT !.pc = pc, !.todo = {}, !.cancelled = TRUE]]
      BY <2>3 DEF Honor
    <3>2. run'[w].cancelled = TRUE /\ run'[w].op = run[w].op
      BY <1>0, <3>1 DEF RunType
    <3> QED BY <1>1, <2>3, <3>2 DEF Honor, AtClaim, Op
  <2> QED BY <1>3, <2>1, <2>2, <2>3, Leads
<1>4. ASSUME run'[w].pc \in Undoing \ {"comp_read"}
      PROVE  AtUndo(w)'
  <2>1. /\ run[w].pc \in Undoing /\ opState' = opState /\ Op(w)' = Op(w)
        /\ run'[w].held = run[w].held /\ run'[w].cancelled = run[w].cancelled
        /\ run[w].bad => run'[w].bad
    BY <1>4, HowUndoMoves
  <2>2. Op(w) \in Ops /\ Claimed(w)
    BY <2>1, OpOfRun DEF Base, Typed, Undoing, Claimed
  <2>3. Left(Op(w))' \subseteq Left(Op(w)) /\ Durable(Op(w))' \subseteq Durable(Op(w))
    BY <2>1, <2>2, UndoShrinks
  <2>4. run'[w].todo \subseteq run[w].todo \cup Durable(Op(w))
    BY <1>4, HowUndoMoves
  <2>5. Reach(w) => Reach(w)'
    BY <1>0, <2>1, <2>3, <2>4 DEF Reach, Step, Workflow
  <2>6. ~ run'[w].bad => Left(Op(w))' \subseteq run'[w].todo
    <3> SUFFICES ASSUME ~ run'[w].bad, NEW i \in Left(Op(w))', i \notin run'[w].todo
                 PROVE  FALSE
      OBVIOUS
    <3>1. i \in Left(Op(w)) /\ i \in Durable(Op(w))
      BY <2>2, <2>3, LeftIsDurable
    <3>2. run[w].pc # "comp_read" /\ ~ run[w].bad
      BY <1>4, <2>1, <3>1, HowUndoMoves
    <3>3. i \in run[w].todo
      BY <1>1, <2>1, <3>1, <3>2 DEF AtUndo
    <3>4. /\ i = Last(w)
          /\ \/ run[w].pc = "restored"
             \/ "COMPLETE" \in ObservedRestoration(Step(Op(w), i), effect[Op(w)][i])
      BY <1>4, <3>1, <3>3, HowUndoMoves
    <3>5. effect[Op(w)][i] # "none" /\ i \in Steps(Op(w)) /\ Reversible(Op(w), i)
      BY <3>1 DEF Left
    <3>6. Step(Op(w), i).restored # {"COMPLETE"}
      <4>1. PICK k \in DOMAIN Catalog : Workflow(Op(w)) = Catalog[k]
        BY <2>2 DEF Base, Typed, KindTyped, Workflow
      <4> QED BY <3>5, <4>1, CompensationAssumption DEF Reversible, Step, Steps
    <3> QED BY <1>1, <3>4, <3>5, <3>6 DEF AtUndo, ObservedRestoration
  <2>7. run'[w].pc = "finalize" /\ ~ run'[w].bad => run'[w].todo = {}
    BY <1>4, HowUndoMoves
  <2>8. run'[w].pc = "restored" => effect'[Op(w)'][Last(w)'] = "none"
    <3> SUFFICES ASSUME run'[w].pc = "restored"
                 PROVE  effect'[Op(w)'][Last(w)'] = "none"
      OBVIOUS
    <3>1. run'[w].todo = run[w].todo /\ run[w].todo # {} /\ SetEffect(w, Last(w), "none")
      <4>1. run'[w].pc \notin {"comp", "finalize", "undo"}
        OBVIOUS
      <4> QED BY <1>4, <4>1, HowUndoMoves
    <3>2. Last(w) \in Steps(Op(w)) /\ Last(w)' = Last(w)
      BY <2>1, <3>1, LastIsToDo DEF Last, Base, Undoing
    <3> QED BY <2>1, <2>2, <3>1, <3>2, EffectSet
  <2> QED BY <1>1, <1>4, <2>1, <2>5, <2>6, <2>7, <2>8 DEF AtUndo, Undoing
<1> QED BY <1>2, <1>3, <1>4 DEF AtUndo, Undoing

\* A cancellation, a resumption or an expiry disturbs none of it.
LEMMA WorldKeepsPlaces ==
    ASSUME OutcomeInv, WorldStep
    PROVE  InOrder' /\ Traced' /\ AtPlaces'
<1> USE DEF OutcomeInv, EffectInv
<1>1. UNCHANGED <<kind, stepState, effect, run>>
  BY WorldStays
<1>2. InOrder' /\ Traced'
  BY <1>1 DEF InOrder, Traced, Left, Reversible, Steps, Step, Workflow
<1>3. ASSUME NEW w \in Workers PROVE AtClaim(w)' /\ AtStep(w)' /\ AtUndo(w)'
  <2>1. AtClaim(w) /\ AtStep(w) /\ AtUndo(w)
    BY DEF AtPlaces
  <2>2. run[w].pc # "idle" =>
          \/ opState'[Op(w)] = opState[Op(w)]
          \/ /\ opState[Op(w)] \notin Terminal \cup {"COMMITTING", "ROLLING_BACK"}
             /\ opState[Op(w)] # "CANCEL_REQUESTED"
             /\ opState'[Op(w)] \in {"CANCEL_REQUESTED", "PREPARING"}
    BY WorldStays, OpOfRun DEF Base, Typed
  <2>3. Op(w)' = Op(w)
    BY <1>1 DEF Op
  <2>4. AtClaim(w)'
    BY <1>1, <2>1, <2>2, <2>3 DEF AtClaim, Terminal, Steps, Step, Workflow
  <2>5. AtStep(w)'
    BY <1>1, <2>1 DEF AtStep, Row, Mine, Has, Op, At, Steps, Step, Workflow
  <2>6. Reach(w) => Reach(w)'
    BY <1>1 DEF Reach, Left, Durable, Reversible, Op, Steps, Step, Workflow
  <2>7. Left(Op(w))' = Left(Op(w)) /\ Last(w)' = Last(w)
    BY <1>1 DEF Left, Last, Reversible, Op, Steps, Step, Workflow
  <2>8. AtUndo(w)'
    BY <1>1, <2>1, <2>2, <2>3, <2>6, <2>7 DEF AtUndo, Undoing
  <2> QED BY <2>4, <2>5, <2>8
<1> QED BY <1>2, <1>3 DEF AtPlaces

\* A step of the only worker, or of the user or the clock.
LEMMA WhoSteps ==
    ASSUME [Next]_vars
    PROVE  WorldStep \/ \E w \in Workers : Work(w) \/ Misfortune(w)
  BY DEF Next, WorldStep

\* The invariant is kept,
LEMMA OutcomeInvKept == OneWorker /\ OutcomeInv /\ [Next]_vars => OutcomeInv'
<1> SUFFICES ASSUME OneWorker, OutcomeInv, [Next]_vars PROVE OutcomeInv'
  OBVIOUS
<1>1. EffectInv'
  BY EffectInvKept DEF OneWorker, Disciplined, OutcomeInv
<1>2. ASSUME NEW w \in Workers, Work(w) \/ Misfortune(w)
      PROVE  InOrder' /\ Traced' /\ AtPlaces'
  <2>1. InOrder' /\ Traced'
    BY <1>2, InOrderKept, TracedKept
  <2>2. AtClaim(w)' /\ AtStep(w)' /\ AtUndo(w)'
    BY <1>2, AtClaimKept, AtStepKept, AtUndoKept
  <2>3. \A v \in Workers : v = w
    BY DEF OneWorker
  <2>4. AtPlaces'
    BY <2>2, <2>3 DEF AtPlaces
  <2> QED BY <2>1, <2>4
<1> QED BY <1>1, <1>2, WhoSteps, WorldKeepsPlaces DEF OutcomeInv

\* and holds at the start.
LEMMA InitOutcomeInv == Init => OutcomeInv
<1> SUFFICES ASSUME Init PROVE OutcomeInv
  OBVIOUS
<1>1. EffectInv
  BY InitEffectInv
<1>2. InOrder /\ Traced
  BY DEF Init, InOrder, Traced, Left
<1>3. AtPlaces
  BY DEF Init, AtPlaces, AtClaim, AtStep, AtUndo, Idle, Fresh, StepPcs, Undoing
<1> QED BY <1>1, <1>2, <1>3 DEF OutcomeInv

\* The inductive invariant of this module: what a run of execute_one finds in the tables and
\* in the world at each of its places, after any number of crashes and takeovers.
THEOREM OutcomeInvHolds == ASSUME OneWorker PROVE Spec => []OutcomeInv
<1>1. OutcomeInv /\ [Next]_vars => OutcomeInv'
  BY OutcomeInvKept
<1> QED BY <1>1, InitOutcomeInv, PTL DEF Spec

\* _compensate_and_finalize undoes in reverse: when a step is being undone, every later
\* visible reversible effect is gone, unless undoing one of them failed.
THEOREM UndoneInReverseOrder == ASSUME OneWorker PROVE Spec => []ReverseOrder
<1>1. OutcomeInv => ReverseOrder
  <2> SUFFICES ASSUME OutcomeInv, NEW w \in Workers, run[w].pc = "undo", ~ run[w].bad,
                      NEW i \in Steps(Op(w)), i > Last(w), Reversible(Op(w), i)
               PROVE  effect[Op(w)][i] = "none"
    BY DEF ReverseOrder
  <2> USE DEF OutcomeInv, EffectInv
  <2>1. Left(Op(w)) \subseteq run[w].todo
    BY DEF AtPlaces, AtUndo, Undoing
  <2>2. \A j \in run[w].todo : j =< Last(w)
    BY LastIsToDo DEF Base, Placed, PlacedAt
  <2>3. i \in Nat /\ Last(w) \in Nat
    BY OpOfRun, ResourcesOf, LastIsToDo DEF Base, Typed, Placed, PlacedAt
  <2>4. i \notin run[w].todo
    BY <2>2, <2>3
  <2> QED BY <2>1, <2>4 DEF Left
<1> QED BY <1>1, OutcomeInvHolds, PTL

\* A run holds every key of the step it executes or, outside a cancellation, undoes: in the
\* phases of a workflow, and in a roll-back another run began.
THEOREM TouchesWhatItHolds == ASSUME OneWorker PROVE Spec => []HoldsWhatItTouches
<1>1. OutcomeInv => HoldsWhatItTouches
  <2> SUFFICES ASSUME OutcomeInv, NEW w \in Workers
               PROVE  /\ run[w].pc = "effect" =>
                          Step(Op(w), At(w)).resources \subseteq run[w].held
                      /\ run[w].pc = "undo" /\ ~ run[w].cancelled
                         => Step(Op(w), Last(w)).resources \subseteq run[w].held
    BY DEF HoldsWhatItTouches
  <2> USE DEF OutcomeInv, EffectInv
  <2>1. run[w].pc = "effect" => Step(Op(w), At(w)).resources \subseteq run[w].held
    BY DEF Base, Holding, HoldsAt, StepPcs
  <2>2. run[w].pc = "undo" => Last(w) \in run[w].todo
    BY LastIsToDo DEF Base, Placed, PlacedAt
  <2>3. run[w].pc = "undo" /\ ~ run[w].cancelled => Reach(w)
    BY DEF AtPlaces, AtUndo, Undoing
  <2> QED BY <2>1, <2>2, <2>3 DEF Reach
<1> QED BY <1>1, OutcomeInvHolds, PTL

-----------------------------------------------------------------------------
(* How operations end.                                                     *)

\* A preflight that can refuse belongs to a workflow whose effects need no undoing.
NoLateRefusal ==
    \A k \in DOMAIN Catalog : "preflight" \in Catalog[k].traits =>
        \A i \in DOMAIN Catalog[k].steps : ~ Reverses(Catalog[k].steps[i])

\* A run about to report that nothing happened, or that all was taken back.
AtEnd(w) == run[w].pc \in {"fail_safe", "cancelled"} => Left(Op(w)) = {}

Ending == \A w \in Workers : AtEnd(w)

\* Once an operation has ended, nothing of it moves, nor its barrier.
LEMMA TerminalStays ==
    ASSUME OutcomeInv, NEW w \in Workers, Work(w) \/ Misfortune(w),
           NEW o \in Ops, opState[o] \in Terminal
    PROVE  /\ opState'[o] = opState[o] /\ stepState'[o] = stepState[o] /\ effect'[o] = effect[o]
           /\ opState[o] = "RECOVERY_REQUIRED" =>
                \A r \in Resources : lease[r] # NoLease /\ lease[r].op = o => lease'[r] = lease[r]
<1> USE DEF OutcomeInv, EffectInv, Base, Typed
<1>1. Footprint(w)
  BY StepFootprint
<1>2. ASSUME run[w].pc # "idle" PROVE o # Op(w)
  BY <1>2 DEF AtPlaces, AtClaim
<1>3. opState'[o] = opState[o]
  <2>1. ASSUME NEW target, SetState(w, target), run[w].pc # "idle" PROVE opState'[o] = opState[o]
    BY <1>2, <2>1 DEF SetState, StateTyped
  <2> QED BY <2>1, HowOpsMove
<1>4. stepState'[o] = stepState[o]
  BY <1>1, <1>2 DEF Footprint, RowStep, SetRow, Claimed, RowsTyped
<1>5. effect'[o] = effect[o]
  BY <1>1, <1>2 DEF Footprint, EffectStep, SetEffect, EffectsTyped
<1>6. ASSUME opState[o] = "RECOVERY_REQUIRED", NEW r \in Resources, lease[r] # NoLease,
             lease[r].op = o
      PROVE  lease'[r] = lease[r]
  <2>1. ~ Acquirable(r)
    BY <1>6 DEF Acquirable
  <2>2. Claimed(w) /\ Fence(w) => r \notin run[w].held
    BY <1>2, <1>6 DEF Fence, Claimed
  <2> QED BY <1>1, <1>6, <2>1, <2>2 DEF Footprint, LeaseStep, Acquired, Free
<1> QED BY <1>3, <1>4, <1>5, <1>6

\* A failure is called safe only when the failed step left nothing, and no other did.
LEMMA SafeFailureIsClean ==
    ASSUME OneWorker, OutcomeInv, NEW w \in Workers, run[w].pc = "failed",
           NEW class \in Observed(Step(Op(w), At(w)), effect[Op(w)][At(w)]) \cup
               {"UNCERTAIN_MANUAL"},
           ~ RollsBack(Op(w), At(w), class)
    PROVE  Left(Op(w)) = {}
<1> USE DEF OutcomeInv, EffectInv
<1>1. Op(w) \in Ops /\ At(w) \in Steps(Op(w))
  BY OpOfRun DEF Base, Typed, Placed, PlacedAt, StepPcs
<1>2. PICK k \in DOMAIN Catalog :
        /\ Workflow(Op(w)) = Catalog[k] /\ Steps(Op(w)) = DOMAIN Catalog[k].steps
        /\ \A j \in Steps(Op(w)) : Step(Op(w), j) = Catalog[k].steps[j]
  BY <1>1, StepsOfWorkflow DEF Base, Typed
<1> SUFFICES ASSUME NEW i \in Left(Op(w)) PROVE FALSE
  OBVIOUS
<1> DEFINE s == Step(Op(w), At(w))
           others == Durable(Op(w)) \ {At(w)}
<1>3. /\ i \in Steps(Op(w)) /\ Reverses(Step(Op(w), i)) /\ effect[Op(w)][i] # "none"
      /\ i \in Durable(Op(w))
  BY <1>1, LeftIsDurable DEF Left, Reversible
<1>4. i =< At(w)
  BY <1>3, StepReach DEF Durable
<1>5. i \in Nat /\ At(w) \in Nat
  BY <1>1, <1>3, ResourcesOf DEF Base, Typed
<1>6. "finalizer" \notin Workflow(Op(w)).traits
  BY <1>2, <1>3, CompensationAssumption
<1>7. CASE i < At(w)
  <2>1. i \in others
    BY <1>3, <1>5, <1>7
  <2>2. ~ Mine(w, "inert")
    BY DEF AtPlaces, AtStep
  <2>3. ~ Has(Op(w), At(w), "forward")
    <3>1. Catalog[k].steps[i] \in
            {Catalog[k].steps[j] : j \in {n \in DOMAIN Catalog[k].steps : n < At(w)}}
      BY <1>2, <1>3, <1>7
    <3>2. ~ ("forward" \in Catalog[k].steps[At(w)].flags
             /\ "inert" \notin Catalog[k].steps[At(w)].flags)
      BY <1>1, <1>2, <1>3, <3>1, CompensationAssumption
    <3> QED BY <1>1, <1>2, <2>2, <3>2 DEF Has, Mine
  <2> QED BY <1>6, <2>1, <2>3 DEF RollsBack
<1>8. CASE i = At(w)
  <2>1. "undo" \in s.flags /\ "forward" \notin s.flags
    BY <1>3, <1>8 DEF Reverses
  <2>2. class \in {"ABSENT", "DISCARDABLE"} /\ others = {}
    BY <1>6, <2>1 DEF RollsBack, Has
  <2>3. class \in Observed(s, effect[Op(w)][At(w)]) /\ class \in s.probe
    BY <2>2, ObservedIsProbed
  <2>4. /\ "DISCARDABLE" \notin s.probe
        /\ s.probe \subseteq {"ABSENT", "PARTIALLY_RESUMABLE"} =>
             \E j \in Steps(Op(w)) : j < At(w) /\ Compensates(Step(Op(w), j))
    BY <1>1, <1>2, <1>3, <1>8, CompensationAssumption
  <2>5. class = "ABSENT"
    BY <2>2, <2>3, <2>4
  <2>6. ~ \E j \in Steps(Op(w)) : j < At(w) /\ Compensates(Step(Op(w), j))
    <3> SUFFICES ASSUME NEW j \in Steps(Op(w)), j < At(w), Compensates(Step(Op(w), j))
                 PROVE  j \in others
      BY <2>2
    <3>1. stepState[Op(w)][j] = "VERIFIED"
      BY DEF AtPlaces, AtStep, StepPcs
    <3>2. j \in Nat
      BY <1>1, ResourcesOf DEF Base, Typed
    <3> QED BY <1>5, <3>1, <3>2 DEF Durable
  <2>7. effect[Op(w)][At(w)] \in {"part", "done"}
    BY <1>1, <1>3, <1>8 DEF Base, Typed, EffectsTyped
  <2>8. CASE effect[Op(w)][At(w)] = "part"
    <3>1. Divisible(s)
      BY <1>1, <2>8 DEF EffectsRecorded, RecordedAt
    <3>2. Observed(s, "part") = s.probe \ {"COMPLETE", "ABSENT"}
      BY <3>1 DEF Divisible, Present, Observed
    <3> QED BY <2>3, <2>5, <2>8, <3>2
  <2>9. CASE effect[Op(w)][At(w)] = "done"
    <3>1. ~ s.probe \subseteq {"ABSENT", "PARTIALLY_RESUMABLE"}
      BY <2>4, <2>6
    <3>2. s.probe \ {"ABSENT", "PARTIALLY_RESUMABLE", "DISCARDABLE"} # {}
      BY <2>4, <3>1
    <3>3. Observed(s, "done") = s.probe \ {"ABSENT", "PARTIALLY_RESUMABLE", "DISCARDABLE"}
      BY <3>2 DEF Observed
    <3> QED BY <2>3, <2>5, <2>9, <3>3
  <2> QED BY <2>7, <2>8, <2>9
<1> QED BY <1>4, <1>5, <1>7, <1>8

\* A run that is about to say so has left nothing behind.
LEMMA AtEndKept ==
    ASSUME OneWorker, NoLateRefusal, OutcomeInv, NEW w \in Workers, Work(w) \/ Misfortune(w)
    PROVE  AtEnd(w)'
<1> USE DEF OutcomeInv, EffectInv
<1>0. run \in [Workers -> RunType]
  BY DEF Base, Typed, RunTyped
<1> SUFFICES ASSUME run'[w].pc \in {"fail_safe", "cancelled"} PROVE Left(Op(w))' = {}
  BY DEF AtEnd
<1>1. PreflightFails(w) \/ Failed(w) \/ Honor(w)
  BY Leads
<1>2. /\ UNCHANGED <<kind, effect>> /\ Op(w)' = Op(w) /\ Op(w) \in Ops
  <2>1. \A o \in Ops : ClaimRead(w, o) => run'[w].pc = "claim"
    BY <1>0 DEF ClaimRead, Idle
  <2>2. ~ Quit(w)
    BY <1>0 DEF Quit, Idle
  <2> QED BY <1>1, <2>1, <2>2, KeepsOp, OpOfRun DEF PreflightFails, Failed, Honor, Base, Typed
<1> SUFFICES Left(Op(w)) = {}
  BY <1>2 DEF Left, Reversible, Steps, Step, Workflow
<1>3. PICK k \in DOMAIN Catalog :
        /\ Workflow(Op(w)) = Catalog[k] /\ Steps(Op(w)) = DOMAIN Catalog[k].steps
        /\ \A j \in Steps(Op(w)) : Step(Op(w), j) = Catalog[k].steps[j]
  BY <1>2, StepsOfWorkflow DEF Base, Typed
<1>4. CASE PreflightFails(w)
  BY <1>3, <1>4 DEF PreflightFails, NoLateRefusal, Left, Reversible
<1>5. CASE Honor(w)
  <2>1. "finalizer" \in Workflow(Op(w)).traits \/ Durable(Op(w)) = {}
    BY <1>0, <1>5 DEF Honor, RunType
  <2>2. "finalizer" \in Workflow(Op(w)).traits => Left(Op(w)) = {}
    BY <1>3, CompensationAssumption DEF Left, Reversible
  <2> QED BY <1>2, <2>1, <2>2, LeftIsDurable
<1>6. CASE Failed(w)
  <2>1. PICK class \in Observed(Step(Op(w), At(w)), effect[Op(w)][At(w)]) \cup
          {"UNCERTAIN_MANUAL"} :
          run' = [run EXCEPT ![w] = [@ EXCEPT
                    !.pc = IF RollsBack(Op(w), At(w), class) THEN "roll_back" ELSE "fail_safe",
                    !.todo = {i \in {At(w)} : Mine(w, "undo")}]]
    BY <1>6 DEF Failed
  <2>2. ~ RollsBack(Op(w), At(w), class)
    BY <1>0, <2>1 DEF RunType
  <2> QED BY <1>6, <2>2, SafeFailureIsClean DEF Failed
<1> QED BY <1>1, <1>4, <1>5, <1>6

\* How a run records that its operation ended.
LEMMA HowOpsEnd ==
    ASSUME OutcomeInv, NEW w \in Workers, Work(w) \/ Misfortune(w),
           NEW o \in Ops, opState'[o] # opState[o], opState'[o] \in Terminal
    PROVE  /\ o = Op(w) /\ UNCHANGED <<kind, stepState, effect>> /\ Claimed(w) /\ Fence(w)
           /\ opState'[o] \in Outcome(w) /\ OutcomeLegal(w, opState'[o])
           /\ opState'[o] = "RECOVERY_REQUIRED" => lease' = lease
<1> USE DEF OutcomeInv, EffectInv, Base, Typed
<1>1. PICK target \in OperationState :
        /\ run[w].pc # "idle" /\ SetState(w, target)
        /\ target \in Terminal => EndRun(w)
  BY HowOpsMove DEF Terminal
<1>2. o = Op(w) /\ opState'[o] = target
  BY <1>1 DEF SetState, StateTyped
<1>3. PICK t \in Outcome(w) :
        /\ Fence(w) /\ OutcomeLegal(w, t) /\ SetState(w, t)
        /\ lease' = (IF t = "RECOVERY_REQUIRED" THEN lease ELSE Free(run[w].held))
        /\ UNCHANGED <<kind, stepState, effect>>
  BY <1>1, <1>2 DEF EndRun
<1>4. opState'[o] = t
  BY <1>2, <1>3 DEF SetState, StateTyped
<1> QED BY <1>2, <1>3, <1>4, OutcomeOf DEF Claimed

\* The terminal states are truthful, by what a run about to end knows.
TruthInv == OutcomeInv /\ Ending /\ TerminalsTruthful

\* The run that ends an operation knows what it records, and nothing is left to move after.
LEMMA TerminalsTruthfulKept ==
    ASSUME OneWorker, TruthInv, NEW w \in Workers, Work(w) \/ Misfortune(w)
    PROVE  TerminalsTruthful'
<1> USE DEF TruthInv, OutcomeInv, EffectInv
<1>0. kind' = kind
  BY StepFootprint DEF Base, Footprint
<1> SUFFICES ASSUME NEW o \in Ops,
      opState'[o] \in {"CANCELLED", "FAILED_SAFE", "FAILED_ROLLED_BACK"},
                    Unverified(o)' # {}, NEW i \in Steps(o), Reversible(o, i)
             PROVE  effect'[o][i] = "none"
  BY <1>0 DEF TerminalsTruthful, Reversible, Steps, Step, Workflow
<1>1. CASE opState'[o] = opState[o]
  <2>1. stepState'[o] = stepState[o] /\ effect'[o] = effect[o]
    BY <1>1, TerminalStays DEF Terminal
  <2>2. Unverified(o) # {}
    BY <1>0, <2>1 DEF Unverified, Steps, Workflow
  <2> QED BY <1>1, <2>1, <2>2 DEF TerminalsTruthful
<1>2. CASE opState'[o] # opState[o]
  <2>1. /\ o = Op(w) /\ UNCHANGED <<stepState, effect>> /\ Claimed(w)
        /\ opState'[o] \in Outcome(w)
    BY <1>2, HowOpsEnd DEF Terminal
  <2>2. run[w].pc # "complete"
    <3>1. run[w].pc = "complete" => Unverified(o) = {}
      BY <2>1 DEF OneWorker, Sure, Knowing, Knows
    <3> QED BY <1>0, <2>1, <3>1 DEF Unverified, Steps, Workflow
  <2>3. run[w].pc \in {"fail_safe", "cancelled"} \/ (run[w].pc = "finalize" /\ ~ run[w].bad)
    BY <2>1, <2>2 DEF Outcome
  <2>4. Left(o) = {}
    <3>1. run[w].pc \in {"fail_safe", "cancelled"} => Left(o) = {}
      BY <2>1 DEF Ending, AtEnd
    <3>2. run[w].pc = "finalize" /\ ~ run[w].bad => Left(o) = {}
      BY <2>1 DEF AtPlaces, AtUndo, Undoing
    <3> QED BY <2>3, <3>1, <3>2
  <2> QED BY <2>1, <2>4 DEF Left
<1> QED BY <1>1, <1>2

\* The run that raises a barrier passes its fence with the keys of all that is in doubt.
LEMMA BarrierKept ==
    ASSUME OneWorker, OutcomeInv, BarrierCoversEffects, NEW w \in Workers, Work(w)
        \/ Misfortune(w)
    PROVE  BarrierCoversEffects'
<1> USE DEF OutcomeInv, EffectInv
<1>0. kind' = kind
  BY StepFootprint DEF Base, Footprint
<1> SUFFICES ASSUME NEW o \in Ops, opState'[o] = "RECOVERY_REQUIRED", NEW i \in Steps(o),
                    Reversible(o, i), effect'[o][i] # "none", NEW r \in Step(o, i).resources
             PROVE  lease'[r] # NoLease /\ lease'[r].op = o
  BY <1>0 DEF BarrierCoversEffects, Reversible, Steps, Step, Workflow
<1>1. r \in Resources
  BY ResourcesOf DEF Base, Typed
<1>2. CASE opState'[o] = opState[o]
  <2>1. effect'[o] = effect[o]
    BY <1>2, TerminalStays DEF Terminal
  <2>2. lease[r] # NoLease /\ lease[r].op = o
    BY <1>2, <2>1 DEF BarrierCoversEffects
  <2> QED BY <1>1, <1>2, <2>2, TerminalStays DEF Terminal
<1>3. CASE opState'[o] # opState[o]
  <2>1. /\ o = Op(w) /\ effect' = effect /\ lease' = lease /\ Fence(w)
        /\ "RECOVERY_REQUIRED" \in Outcome(w) /\ OutcomeLegal(w, "RECOVERY_REQUIRED")
    BY <1>3, HowOpsEnd DEF Terminal
  <2>2. Reach(w)
    <3>1. run[w].pc \in {"require", "finalize"}
      BY <2>1 DEF Outcome, TerminalDecision
    <3>2. opState[Op(w)] # "CANCEL_REQUESTED"
      BY <2>1, <3>1 DEF OutcomeLegal, CanMove, CanTransition, Transitions
    <3> QED BY <3>1, <3>2 DEF AtPlaces, AtUndo, Undoing
  <2>3. r \in run[w].held
    BY <2>1, <2>2 DEF Reach, Left
  <2>4. lease[r] = [op |-> o, owner |-> w, live |-> TRUE]
    BY <2>1, <2>3 DEF Fence
  <2>5. lease[r] \in [op : Ops, owner : Workers, live : BOOLEAN]
    BY <2>4
  <2>6. lease[r] # NoLease
    BY <2>5, NullAssumption
  <2>7. lease[r].op = o
    BY <2>4
  <2> QED BY <2>1, <2>6, <2>7
<1> QED BY <1>2, <1>3

\* The invariant holds at the start,
LEMMA InitTruthInv == Init => TruthInv
  BY InitOutcomeInv DEF TruthInv, Init, Ending, AtEnd, Idle, TerminalsTruthful

\* and is kept.
LEMMA TruthInvKept == OneWorker /\ NoLateRefusal /\ TruthInv /\ [Next]_vars => TruthInv'
<1> SUFFICES ASSUME OneWorker, NoLateRefusal, TruthInv, [Next]_vars PROVE TruthInv'
  OBVIOUS
<1> USE DEF TruthInv, OutcomeInv, EffectInv
<1>1. OutcomeInv'
  BY OutcomeInvKept
<1>2. ASSUME NEW w \in Workers, Work(w) \/ Misfortune(w) PROVE Ending' /\ TerminalsTruthful'
  <2>1. AtEnd(w)'
    BY <1>2, AtEndKept
  <2> QED BY <1>2, <2>1, TerminalsTruthfulKept DEF Ending, OneWorker
<1>3. ASSUME WorldStep PROVE Ending' /\ TerminalsTruthful'
  <2>1. UNCHANGED <<kind, stepState, effect, run>>
    BY <1>3, WorldStays
  <2>2. Ending'
    BY <2>1 DEF Ending, AtEnd, Left, Reversible, Op, Steps, Step, Workflow
  <2>3. \A o \in Ops : opState'[o] \in Terminal => opState'[o] = opState[o]
    BY <1>3, WorldStays DEF Terminal
  <2>4. TerminalsTruthful'
    BY <2>1, <2>3 DEF TerminalsTruthful, Terminal, Unverified, Reversible, Steps, Step, Workflow
  <2> QED BY <2>2, <2>4
<1> QED BY <1>1, <1>2, <1>3, WhoSteps

\* ADR 002, section 3: an operation recorded CANCELLED, FAILED_SAFE before its end or
\* FAILED_ROLLED_BACK has left none of its visible reversible effects in the world, wherever
\* the worker died, stalled or failed on the way (_handle_failure, _honor_cancellation,
\* _compensate_and_finalize, _fail_safe).
THEOREM TerminalsAreTruthful ==
    ASSUME OneWorker, NoLateRefusal
    PROVE  Spec => []TerminalsTruthful
<1>1. TruthInv /\ [Next]_vars => TruthInv'
  BY TruthInvKept
<1> QED BY <1>1, InitTruthInv, PTL DEF Spec, TruthInv

\* A RECOVERY_REQUIRED operation still owns the lease of every resource on which it left a
\* visible reversible effect: the keys are not released, not taken over and not reclaimed.
THEOREM BarrierCoversWhatIsLeft == ASSUME OneWorker PROVE Spec => []BarrierCoversEffects
<1>1. Init => OutcomeInv /\ BarrierCoversEffects
  BY InitOutcomeInv DEF Init, BarrierCoversEffects
<1>2. (OutcomeInv /\ BarrierCoversEffects) /\ [Next]_vars => (OutcomeInv /\ BarrierCoversEffects)'
  <2> SUFFICES ASSUME OutcomeInv, BarrierCoversEffects, [Next]_vars
               PROVE  OutcomeInv' /\ BarrierCoversEffects'
    OBVIOUS
  <2>1. CASE WorldStep
    <3>1. UNCHANGED <<kind, effect>>
      BY <2>1, WorldStays DEF OutcomeInv, EffectInv
    <3>2. \A o \in Ops : opState'[o] = "RECOVERY_REQUIRED" => opState[o] = "RECOVERY_REQUIRED"
      BY <2>1, WorldStays DEF OutcomeInv, EffectInv
    <3>3. \A o \in Ops : \A i \in Steps(o) : Step(o, i).resources \subseteq Resources
      BY ResourcesOf DEF OutcomeInv, EffectInv, Base, Typed
    <3>4. \A r \in Resources :
            lease[r] # NoLease => lease'[r] # NoLease /\ lease'[r].op = lease[r].op
      BY <2>1, WorldStays DEF OutcomeInv, EffectInv
    <3>5. BarrierCoversEffects'
      BY <3>1, <3>2, <3>3, <3>4 DEF BarrierCoversEffects, Reversible, Steps, Step, Workflow
    <3> QED BY <3>5, OutcomeInvKept
  <2> QED BY <2>1, OutcomeInvKept, BarrierKept, WhoSteps
<1> QED BY <1>1, <1>2, PTL DEF Spec

-----------------------------------------------------------------------------
(***************************************************************************)
(* The engine implements OperationContract: with one worker process and    *)
(* every workflow, each transaction or external call is one step of the    *)
(* contract, or none.  The mapping (Contract, in ExecutionEngine) forgets  *)
(* steps, runs and owners: it keeps operation states, one word for what    *)
(* each operation has in place (World), and the lease rows without owners. *)
(*                                                                         *)
(* Beyond the invariants above the proof needs that a run is never on a    *)
(* paused operation and only asks for keys of its workflow (AtRest), and   *)
(* that a queued operation has not begun (QueuedUntouched).                *)
(***************************************************************************)

\* Between the claim's read and its lease, only the user moves the operation; from
\* there on a run holds keys of its workflow, and no run is on a paused operation.
AtRest(w) ==
    /\ run[w].pc # "idle" => opState[Op(w)] # "PAUSED"
    /\ run[w].pc = "claim" =>
         opState[Op(w)] = run[w].seen \/ opState[Op(w)] \in {"CANCEL_REQUESTED", "PREPARING"}
    /\ Claimed(w) => run[w].held \subseteq AllResources(Workflow(Op(w)))

\* An operation that is still queued has not begun.
QueuedUntouched ==
    \A o \in Ops : opState[o] = "QUEUED" => \A i \in Steps(o) : stepState[o][i] = "PENDING"

\* The inductive invariant of the refinement.
KeepInv == TruthInv /\ QueuedUntouched /\ \A w \in Workers : AtRest(w)

-----------------------------------------------------------------------------
(* The invariant.                                                          *)

\* A workflow only asks for its own keys.
LEMMA KeysOfWorkflow ==
    ASSUME KindTyped, NEW o \in Ops
    PROVE  /\ \A i \in Steps(o) : Step(o, i).resources \subseteq AllResources(Workflow(o))
           /\ InitialResources(Workflow(o)) \subseteq AllResources(Workflow(o))
           /\ BarrierResources(Workflow(o)) \subseteq AllResources(Workflow(o))
<1>1. PICK k \in DOMAIN Catalog : Workflow(o) = Catalog[k]
  BY DEF KindTyped, Workflow
<1>2. \A i \in Steps(o) : Step(o, i).resources \subseteq AllResources(Workflow(o))
  BY DEF AllResources, Step, Steps
<1>3. BarrierResources(Workflow(o)) \subseteq AllResources(Workflow(o))
  BY <1>1, CatalogAssumption
<1>4. 1 \in Steps(o)
  BY <1>1, CatalogAssumption DEF Steps
<1> QED BY <1>2, <1>3, <1>4 DEF InitialResources, Step

\* Intent writes the first row, and only of an operation past the queue.
LEMMA QueuedKept ==
    ASSUME OutcomeInv, QueuedUntouched, NEW w \in Workers, Work(w) \/ Misfortune(w)
    PROVE  QueuedUntouched'
<1> USE DEF OutcomeInv, EffectInv, Base, Typed
<1>0. kind' = kind
  BY StepFootprint DEF Footprint
<1> SUFFICES ASSUME NEW o \in Ops, opState'[o] = "QUEUED", NEW i \in Steps(o)
             PROVE  stepState'[o][i] = "PENDING"
  BY <1>0 DEF QueuedUntouched, Steps, Workflow
<1>1. opState[o] = "QUEUED"
  <2>1. CASE opState' # opState
    <3>1. PICK target \in OperationState : SetState(w, target) /\ target # "QUEUED"
      BY <2>1, HowOpsMove DEF Terminal
    <3> QED BY <3>1 DEF SetState, StateTyped
  <2> QED BY <2>1
<1>2. stepState[o][i] = "PENDING"
  BY <1>1 DEF QueuedUntouched
<1>3. ASSUME stepState'[o][i] # stepState[o][i] PROVE FALSE
  <2>1. PICK x \in Steps(Op(w)), s \in StepState :
          LET row == stepState[Op(w)][x] IN
          /\ Claimed(w) /\ SetRow(w, x, s)
          /\ (run[w].pc = "intent" /\ s = "RUNNING") \/ row # "PENDING"
    BY <1>3, HowRowsMove DEF StepPcs
  <2>2. o = Op(w) /\ i = x
    BY <1>3, <2>1, RowSet
  <2>3. run[w].pc = "intent" /\ s = "RUNNING"
    BY <1>2, <2>1, <2>2
  <2>4. Intent(w)
    <3>1. \/ Intent(w) \/ Recovered(w) \/ Reverify(w) \/ Checkpoint(w) \/ Verify(w)
          \/ BeginCompensation(w) \/ ResumeCompensation(w) \/ Restored(w)
      BY <1>3, WhoWritesRows
    <3> QED BY <2>3, <3>1 DEF Recovered, Reverify, Checkpoint, Verify, BeginCompensation,
               ResumeCompensation, Restored
  <2> QED BY <1>1, <2>2, <2>4 DEF Intent
<1> QED BY <1>2, <1>3

\* By which actions the lease table changes.
LEMMA WhoLeases ==
    ASSUME NEW w \in Workers, Work(w) \/ Misfortune(w), lease' # lease
    PROVE  Claim(w) \/ AcquirePhase(w) \/ EndRun(w)
  BY DEF Work, Misfortune, ClaimRead, WorkflowVersionUnavailable, ClaimBusy, Preflight, Enter,
     LoopDone, LoopCancel, LoopStep, EnsureRunning, Intent, ProbeDecides, Recovered, Reverify,
     EnterCritical, EffectDone, EffectCancelled, Checkpoint, Verify, ExitCritical, Failed,
     RollBack, Honor, CompensationRead, BeginCompensation, ResumeCompensation, CompensateDone,
     Restored, CompensationDone, Escape, PreflightFails, LoopShutdown, EffectBegins,
     EffectFails, VerifyFails, CompensateFails, Crash

\* A run quits in the transaction that pauses its operation.
LEMMA AtRestKept ==
    ASSUME OneWorker, OutcomeInv, NEW w \in Workers, AtRest(w), Work(w) \/ Misfortune(w)
    PROVE  AtRest(w)'
<1> USE DEF OutcomeInv, EffectInv, Base, Typed
<1>0. run \in [Workers -> RunType] /\ kind' = kind
  BY StepFootprint DEF RunTyped, Footprint
<1>1. CASE Quit(w)
  BY <1>0, <1>1 DEF Quit, Idle, AtRest, Claimed
<1>2. CASE \E o \in Ops : ClaimRead(w, o)
  <2>1. PICK o \in Ops : ClaimRead(w, o)
    BY <1>2
  <2>2. run'[w].pc = "claim" /\ run'[w].op = o /\ run'[w].seen = opState[o]
    BY <1>0, <2>1 DEF ClaimRead, Idle
  <2> QED BY <2>1, <2>2 DEF ClaimRead, AtRest, Claimed, Op
<1>3. CASE ~ Quit(w) /\ ~ \E o \in Ops : ClaimRead(w, o)
  <2>1. run[w].pc # "idle" /\ Op(w) \in Ops /\ Op(w)' = Op(w)
    BY <1>3, WorksOn, OpOfRun, KeepsOp
  <2>2. opState'[Op(w)] # "PAUSED"
    <3>1. CASE opState' = opState
      BY <2>1, <3>1 DEF AtRest
    <3>2. CASE opState' # opState
      <4>1. PICK target \in OperationState :
              SetState(w, target) /\ (target = "PAUSED" => run'[w].pc = "idle")
        BY <3>2, HowOpsMove DEF Terminal
      <4>2. run'[w].pc # "idle"
        <5>1. run' = run => run'[w].pc # "idle"
          BY <2>1
        <5>2. run'[w].op = Op(w)
          BY <2>1 DEF Op
        <5>3. PlacedAt(w)'
          BY RunStaysFit DEF RunFits
        <5> QED BY <2>1, <5>2, <5>3, NullAssumption DEF PlacedAt
      <4> QED BY <2>1, <4>1, <4>2 DEF SetState, StateTyped
    <3> QED BY <3>1, <3>2
  <2>3. run'[w].pc # "claim"
    BY <1>3, Leads
  <2>4. Claimed(w)' => run'[w].held \subseteq AllResources(Workflow(Op(w)))
    <3>1. CASE Claim(w)
      <4>1. run'[w].held = Desired(w)
        BY <1>0, <3>1 DEF Claim, RunType
      <4>2. Desired(w) \subseteq AllResources(Workflow(Op(w)))
        BY <2>1, KeysOfWorkflow DEF Desired
      <4> QED BY <4>1, <4>2
    <3>2. CASE AcquirePhase(w)
      <4>1. run'[w].held \subseteq run[w].held \cup Step(Op(w), At(w)).resources
        BY <3>2, AcquireRun DEF Base, Typed
      <4>2. At(w) \in Steps(Op(w)) /\ Claimed(w)
        BY <3>2 DEF AcquirePhase, Placed, PlacedAt, StepPcs, Claimed
      <4>3. Step(Op(w), At(w)).resources \subseteq AllResources(Workflow(Op(w)))
        BY <2>1, <4>2, KeysOfWorkflow
      <4> QED BY <4>1, <4>2, <4>3 DEF AtRest
    <3>3. CASE ~ Claim(w) /\ ~ AcquirePhase(w)
      <4>1. KeepsHold(w)
        BY StepShape
      <4> QED BY <1>3, <2>3, <3>3, <4>1, Leads DEF KeepsHold, AtRest, Claimed
    <3> QED BY <3>1, <3>2, <3>3
  <2> QED BY <1>0, <2>1, <2>2, <2>3, <2>4 DEF AtRest, Claimed, Workflow
<1> QED BY <1>1, <1>2, <1>3

\* The user pauses nothing.
LEMMA WorldKeepsRest ==
    ASSUME OutcomeInv, QueuedUntouched, \A w \in Workers : AtRest(w), WorldStep
    PROVE  QueuedUntouched' /\ \A w \in Workers : AtRest(w)'
<1> USE DEF OutcomeInv, EffectInv, Base, Typed
<1>1. /\ UNCHANGED <<kind, stepState, run>>
      /\ \A o \in Ops :
          opState'[o] = opState[o] \/ opState'[o] \in {"CANCEL_REQUESTED", "PREPARING"}
  BY WorldStays
<1>2. QueuedUntouched'
  BY <1>1 DEF QueuedUntouched, Steps, Workflow
<1>3. ASSUME NEW w \in Workers PROVE AtRest(w)'
  <2>1. run[w].pc # "idle" => Op(w) \in Ops
    BY OpOfRun
  <2>2. Op(w)' = Op(w)
    BY <1>1 DEF Op
  <2> QED BY <1>1, <2>1, <2>2 DEF AtRest, Claimed, Workflow
<1> QED BY <1>2, <1>3

\* The invariant is kept,
LEMMA KeepInvKept == OneWorker /\ NoLateRefusal /\ KeepInv /\ [Next]_vars => KeepInv'
<1> SUFFICES ASSUME OneWorker, NoLateRefusal, KeepInv, [Next]_vars PROVE KeepInv'
  OBVIOUS
<1>1. TruthInv'
  BY TruthInvKept DEF KeepInv
<1>2. ASSUME NEW w \in Workers, Work(w) \/ Misfortune(w)
      PROVE  QueuedUntouched' /\ \A v \in Workers : AtRest(v)'
  <2>1. \A v \in Workers : v = w
    BY DEF OneWorker
  <2>2. QueuedUntouched'
    BY <1>2, QueuedKept DEF KeepInv, TruthInv
  <2>3. AtRest(w)'
    BY <1>2, AtRestKept DEF KeepInv, TruthInv
  <2> QED BY <2>1, <2>2, <2>3
<1>3. ASSUME WorldStep PROVE QueuedUntouched' /\ \A v \in Workers : AtRest(v)'
  BY <1>3, WorldKeepsRest DEF KeepInv, TruthInv
<1> QED BY <1>1, <1>2, <1>3, WhoSteps DEF KeepInv

\* and holds at the start.
LEMMA InitKeepInv == Init => KeepInv
<1> SUFFICES ASSUME Init PROVE KeepInv
  OBVIOUS
<1>1. TruthInv
  BY InitTruthInv
<1>2. QueuedUntouched
  BY DEF Init, QueuedUntouched
<1>3. \A w \in Workers : AtRest(w)
  BY DEF Init, AtRest, Claimed, Idle
<1> QED BY <1>1, <1>2, <1>3 DEF KeepInv

-----------------------------------------------------------------------------
(* What the contract sees.                                                 *)

\* A lease row under the refinement mapping.
LEMMA RowsOf ==
    ASSUME LeasesTyped, NEW r \in Resources
    PROVE  /\ Rows[r] # NoLease <=> lease[r] # NoLease
           /\ lease[r] # NoLease => /\ Rows[r].op = lease[r].op /\ Rows[r].live = lease[r].live
                                    /\ Rows[r].op \in Ops /\ Rows[r].live \in BOOLEAN
<1>1. CASE lease[r] = NoLease
  BY <1>1 DEF Rows
<1>2. CASE lease[r] # NoLease
  <2>1. lease[r] \in LeaseRow
    BY <1>2 DEF LeasesTyped
  <2>2. lease[r].op \in Ops /\ lease[r].live \in BOOLEAN
    BY <2>1 DEF LeaseRow
  <2>3. Rows[r] = [op |-> lease[r].op, live |-> lease[r].live]
    BY <1>2 DEF Rows
  <2>4. Rows[r] \in [op : Ops, live : BOOLEAN]
    BY <2>2, <2>3
  <2>5. Rows[r] # NoLease
    BY <2>4, NullAssumption
  <2> QED BY <1>2, <2>2, <2>3, <2>5
<1> QED BY <1>1, <1>2

\* What LeaseRepository.acquire grants is available to the contract.
LEMMA AvailableIsAcquirable ==
    ASSUME LeasesTyped, NEW r \in Resources, Acquirable(r)
    PROVE  Contract!Available(r)
  BY RowsOf DEF Acquirable, Contract!Available

\* A run that passes its fence holds live keys.
LEMMA FenceIsHeld ==
    ASSUME Base, NEW w \in Workers, Claimed(w), Fence(w)
    PROVE  /\ run[w].held \subseteq Contract!KeysOf(Op(w))
           /\ Contract!Held(Op(w))
<1> USE DEF Base, Typed
<1>1. Op(w) \in Ops
  BY OpOfRun DEF Claimed
<1>2. run[w].held \subseteq Resources /\ run[w].held # {}
  BY <1>1, ResourcesOf DEF RunTyped, RunType, Holding, HoldsAt
<1>3. ASSUME NEW r \in run[w].held
      PROVE  r \in Resources /\ Rows[r] # NoLease /\ Rows[r].op = Op(w) /\ Rows[r].live
  <2>1. lease[r] = [op |-> Op(w), owner |-> w, live |-> TRUE]
    BY DEF Fence
  <2>2. lease[r] \in LeaseRow /\ r \in Resources
    BY <1>1, <1>2, <2>1 DEF LeaseRow
  <2>3. lease[r] # NoLease
    BY <2>2, NullAssumption DEF LeaseRow
  <2>4. lease[r].op = Op(w) /\ lease[r].live = TRUE
    BY <2>1
  <2> QED BY <2>2, <2>3, <2>4, RowsOf
<1> QED BY <1>2, <1>3 DEF Contract!KeysOf, Contract!Held

\* The world under the refinement mapping.
LEMMA WorldsOf == \A o \in Ops : Worlds[o] = World(o) /\ World(o) \in Contract!World
  BY DEF Worlds, World, Contract!World

\* What a terminal state says of the world.
EndsTrue ==
    \A o \in Ops :
            opState[o] \in Terminal \cup {"PAUSED"} => Contract!Truthful(opState[o], World(o))

\* It follows from the invariant,
LEMMA EndIsTruthful == KeepInv => EndsTrue
<1> SUFFICES ASSUME SucceededIsVerified, TerminalsTruthful, EffectsRecorded,
                    NEW o \in Ops, opState[o] \in Terminal \cup {"PAUSED"}
             PROVE  Contract!Truthful(opState[o], World(o))
  BY DEF EndsTrue, KeepInv, TruthInv, OutcomeInv, EffectInv
<1>1. CASE opState[o] = "SUCCEEDED"
  BY <1>1 DEF SucceededIsVerified, World, Contract!Truthful
<1>2. CASE opState[o] \in {"CANCELLED", "FAILED_SAFE", "FAILED_ROLLED_BACK"}
  <2>1. CASE Unverified(o) = {}
    BY <1>2, <2>1 DEF EffectsRecorded, RecordedAt, Unverified, World, Contract!Truthful
  <2>2. CASE Unverified(o) # {}
    BY <1>2, <2>2 DEF TerminalsTruthful, World, Contract!Truthful
  <2> QED BY <2>1, <2>2
<1>3. CASE opState[o] \in {"PAUSED", "RECOVERY_REQUIRED"}
  BY <1>3 DEF Contract!Truthful
<1> QED BY <1>1, <1>2, <1>3 DEF Terminal

\* before and after a step.
LEMMA EndIsTruthfulNext == KeepInv' => EndsTrue'
  BY EndIsTruthful, PTL

\* Steps that move no operation and no lease: they touch the world, or the contract
\* does not see them.
LEMMA TouchesOrStutters ==
    ASSUME OneWorker, KeepInv, NEW w \in Workers, Work(w) \/ Misfortune(w),
           opState' = opState, lease' = lease
    PROVE  [Contract!ContractNext]_(Contract!contractVars)
<1> USE DEF KeepInv, TruthInv, OutcomeInv, EffectInv, Base, Typed
<1>0. Footprint(w) /\ kind' = kind
  BY StepFootprint DEF Footprint
<1>1. Rows' = Rows
  BY DEF Rows
<1>2. CASE stepState' = stepState /\ effect' = effect
  <2>1. Worlds' = Worlds
    BY <1>0, <1>2 DEF Worlds, World, Reversible, Has, Steps, Step, Workflow
  <2> QED BY <1>1, <2>1 DEF Contract!contractVars
<1>3. CASE stepState' # stepState \/ effect' # effect
  <2>1. /\ Claimed(w) /\ Op(w) \in Ops
        /\ \A o \in Ops : o # Op(w) => stepState'[o] = stepState[o] /\ effect'[o] = effect[o]
    BY <1>0, <1>3, OpOfRun DEF Footprint, RowStep, EffectStep, SetRow, SetEffect, Claimed,
       RowsTyped, EffectsTyped
  <2>2. opState[Op(w)] \notin Terminal \cup {"PAUSED"}
    BY <2>1 DEF AtPlaces, AtClaim, AtRest, Claimed
  <2>3. opState[Op(w)] # "QUEUED"
    <3> SUFFICES ASSUME opState[Op(w)] = "QUEUED" PROVE FALSE
      OBVIOUS
    <3>1. \A i \in Steps(Op(w)) : stepState[Op(w)][i] = "PENDING"
      BY <2>1 DEF QueuedUntouched
    <3>2. CASE stepState' # stepState
      <4>1. PICK x \in Steps(Op(w)), s \in StepState :
              run[w].pc = "intent" \/ stepState[Op(w)][x] # "PENDING"
        BY <3>2, HowRowsMove DEF StepPcs
      <4>2. Intent(w)
        <5>1. \/ Intent(w) \/ Recovered(w) \/ Reverify(w) \/ Checkpoint(w) \/ Verify(w)
              \/ BeginCompensation(w) \/ ResumeCompensation(w) \/ Restored(w)
          BY <3>2, WhoWritesRows
        <5> QED BY <3>1, <4>1, <5>1 DEF Recovered, Reverify, Checkpoint, Verify,
                   BeginCompensation, ResumeCompensation, Restored
      <4> QED BY <4>2 DEF Intent
    <3>3. CASE effect' # effect
      <4>1. run[w].pc \in {"effect", "undo"}
        BY <1>0, <3>3 DEF Footprint, EffectStep
      <4>2. Knows(w)
        BY <2>1 DEF OneWorker, Sure, Knowing
      <4>3. run[w].pc = "effect" => At(w) \in Steps(Op(w)) /\ Row(w) = "RUNNING"
        BY <4>2 DEF Knows, Placed, PlacedAt, StepPcs
      <4>4. run[w].pc = "undo" => Last(w) \in Steps(Op(w))
                                  /\ stepState[Op(w)][Last(w)] = "COMPENSATING"
        BY <4>2, LastIsToDo DEF Knows, Placed, PlacedAt
      <4> QED BY <3>1, <4>1, <4>3, <4>4 DEF Row
    <3> QED BY <1>3, <3>2, <3>3
  <2>4. opState[Op(w)] \in Contract!Working
    BY <2>1, <2>2, <2>3 DEF StateTyped, OperationState, Terminal, Contract!Working
  <2>5. \A o \in Ops : o # Op(w) => World(o)' = World(o)
    BY <1>0, <2>1 DEF World, Reversible, Has, Steps, Step, Workflow
  <2>6. \A o \in Ops : World(o)' \in Contract!World
    BY DEF World, Contract!World
  <2>7. Worlds' = [Worlds EXCEPT ![Op(w)] = Worlds'[Op(w)]]
    BY <2>5 DEF Worlds
  <2>8. Worlds'[Op(w)] \in Contract!World
    BY <2>1, <2>6 DEF Worlds
  <2>9. Contract!Touch(Op(w))
    BY <1>1, <2>4, <2>7, <2>8 DEF Contract!Touch
  <2> QED BY <2>1, <2>9 DEF Contract!ContractNext
<1> QED BY <1>2, <1>3

\* A transaction that acquires keys.
LEMMA TakesKeys ==
    ASSUME OneWorker, KeepInv, NEW w \in Workers, Claim(w) \/ AcquirePhase(w), lease' # lease
    PROVE  Contract!Take(Op(w)) /\ Op(w) \in Ops
<1> USE DEF KeepInv, TruthInv, OutcomeInv, EffectInv, Base, Typed
<1>1. Op(w) \in Ops /\ UNCHANGED <<kind, opState, stepState, effect>>
  BY OpOfRun DEF Claim, AcquirePhase
<1>2. PICK rs \in SUBSET AllResources(Workflow(Op(w))) :
        rs # {} /\ lease' = Acquired(w, Op(w), rs) /\ \A r \in rs : Acquirable(r)
  <2>1. CASE Claim(w)
    <3>1. Desired(w) \in SUBSET AllResources(Workflow(Op(w))) /\ Desired(w) # {}
      BY <1>1, KeysOfWorkflow, ResourcesOf DEF Desired
    <3> QED BY <2>1, <3>1 DEF Claim, MayClaim
  <2>2. CASE AcquirePhase(w)
    <3>1. At(w) \in Steps(Op(w))
      BY <2>2 DEF AcquirePhase, Placed, PlacedAt, StepPcs
    <3>2. Step(Op(w), At(w)).resources \ run[w].held \in SUBSET AllResources(Workflow(Op(w)))
      BY <1>1, <3>1, KeysOfWorkflow
    <3> QED BY <2>2, <3>2 DEF AcquirePhase
  <2> QED BY <2>1, <2>2
<1>3. PICK k \in DOMAIN Catalog : Workflow(Op(w)) = Catalog[k]
  BY <1>1 DEF KindTyped, Workflow
<1>4. rs \in Claimable /\ rs \subseteq Resources
  BY <1>2, <1>3 DEF Claimable, Resources
<1>5. Rows' = [r \in Resources |-> IF r \in rs THEN [op |-> Op(w), live |-> TRUE] ELSE Rows[r]]
  <2>1. \A r \in Resources : r \in rs => lease'[r] \in LeaseRow /\ lease'[r].op = Op(w)
                                         /\ lease'[r].live = TRUE
    BY <1>1, <1>2 DEF Acquired, LeaseRow
  <2>2. \A r \in Resources : r \notin rs => lease'[r] = lease[r]
    BY <1>2 DEF Acquired
  <2>3. NoLease \notin LeaseRow
    BY NullAssumption DEF LeaseRow
  <2> QED BY <2>1, <2>2, <2>3 DEF Rows
<1>6. Worlds' = Worlds
  BY <1>1 DEF Worlds, World, Reversible, Has, Steps, Step, Workflow
<1>7. opState[Op(w)] \notin Terminal \cup {"PAUSED"}
  BY DEF AtPlaces, AtClaim, AtRest, Claim, AcquirePhase
<1>8. \A r \in rs : Contract!Available(r)
  BY <1>2, <1>4, AvailableIsAcquirable
<1> QED BY <1>1, <1>2, <1>4, <1>5, <1>6, <1>7, <1>8 DEF Contract!Take, Contract!Terminal, Terminal

\* A fenced transaction that moves its operation and goes on.
LEMMA MovesOn ==
    ASSUME OneWorker, KeepInv, NEW w \in Workers, opState' # opState,
           EnsureRunning(w) \/ EnterCritical(w) \/ ExitCritical(w) \/ RollBack(w)
    PROVE  Contract!Move(Op(w)) /\ Op(w) \in Ops
<1> USE DEF KeepInv, TruthInv, OutcomeInv, EffectInv, Base, Typed
<1>1. Op(w) \in Ops /\ Claimed(w) /\ Fence(w) /\ UNCHANGED <<kind, stepState, effect, lease>>
  BY OpOfRun DEF EnsureRunning, EnterCritical, ExitCritical, RollBack, Claimed
<1>2. PICK target \in {"PREPARING", "RUNNING", "COMMITTING", "VERIFYING", "ROLLING_BACK"} :
        SetState(w, target) /\ (target = opState[Op(w)] \/ CanMove(w, target))
  <2>1. CASE EnsureRunning(w)
    BY <2>1 DEF EnsureRunning, CanMove, CanTransition, Transitions, Terminal
  <2>2. CASE EnterCritical(w)
    BY <2>2 DEF EnterCritical
  <2>3. CASE ExitCritical(w)
    BY <2>3 DEF ExitCritical, CanMove, CanTransition, Transitions, Terminal
  <2>4. CASE RollBack(w)
    BY <2>4 DEF RollBack
  <2> QED BY <2>1, <2>2, <2>3, <2>4
<1>3. CanTransition(opState[Op(w)], target)
  <2>1. opState[Op(w)] # target
    BY <1>1, <1>2 DEF SetState, StateTyped
  <2> QED BY <1>2, <2>1 DEF CanMove
<1>4. Contract!CanTransition(opState[Op(w)], target)
  BY <1>3 DEF CanTransition, Contract!CanTransition, Transitions, Contract!Transitions, Terminal,
     Contract!Terminal
<1>5. target \in Contract!OperationState \ (Contract!Terminal \cup {"PAUSED", "CANCEL_REQUESTED"})
  BY DEF Contract!OperationState, Contract!Terminal
<1>6. Rows' = Rows /\ Worlds' = Worlds
  BY <1>1 DEF Rows, Worlds, World, Reversible, Has, Steps, Step, Workflow
<1>7. Contract!Held(Op(w))
  BY <1>1, FenceIsHeld
<1> QED BY <1>1, <1>2, <1>4, <1>5, <1>6, <1>7 DEF Contract!Move, SetState

\* An operation of a version not installed here is put aside.
LEMMA PutsAside ==
    ASSUME KeepInv, NEW w \in Workers, WorkflowVersionUnavailable(w), opState' # opState
    PROVE  Contract!Shelve(Op(w)) /\ Op(w) \in Ops
<1> USE DEF KeepInv, TruthInv, OutcomeInv, EffectInv, Base, Typed
<1>1. /\ Op(w) \in Ops /\ UNCHANGED <<kind, stepState, effect, lease>>
      /\ run[w].seen \in {"QUEUED", "PREPARING"} /\ CanMove(w, "PAUSED") /\ SetState(w, "PAUSED")
  BY OpOfRun DEF WorkflowVersionUnavailable
<1>2. opState[Op(w)] # "CANCEL_REQUESTED"
  BY <1>1 DEF CanMove, CanTransition, Transitions
<1>3. opState[Op(w)] \in {"QUEUED", "PREPARING"}
  BY <1>1, <1>2 DEF AtRest, WorkflowVersionUnavailable
<1>4. Rows' = Rows /\ Worlds' = Worlds
  BY <1>1 DEF Rows, Worlds, World, Reversible, Has, Steps, Step, Workflow
<1> QED BY <1>1, <1>3, <1>4 DEF Contract!Shelve, SetState

\* The transaction that ends a run.
LEMMA EndsRun ==
    ASSUME OneWorker, NoLateRefusal, KeepInv, NEW w \in Workers, EndRun(w)
    PROVE  (Contract!Settle(Op(w)) \/ Contract!Barrier(Op(w))) /\ Op(w) \in Ops
<1> USE DEF KeepInv, TruthInv, OutcomeInv, EffectInv, Base, Typed
<1>1. PICK target \in Outcome(w) :
        /\ Fence(w) /\ OutcomeLegal(w, target) /\ SetState(w, target)
        /\ lease' = (IF target = "RECOVERY_REQUIRED" THEN lease ELSE Free(run[w].held))
        /\ UNCHANGED <<kind, stepState, effect>>
  BY DEF EndRun
<1>2. Claimed(w) /\ Op(w) \in Ops /\ target \in Terminal \cup {"PAUSED"}
  BY OutcomeOf, OpOfRun DEF Claimed
<1>3. Contract!Held(Op(w)) /\ run[w].held \subseteq Contract!KeysOf(Op(w))
  BY <1>1, <1>2, FenceIsHeld
<1>4. Worlds' = Worlds
  BY <1>1 DEF Worlds, World, Reversible, Has, Steps, Step, Workflow
<1>5. Contract!Reaches(Op(w), target)
  <2>1. CASE run[w].pc = "complete"
    <3>1. target \in {"SUCCEEDED", "FAILED_SAFE"}
      BY <1>1, <2>1 DEF Outcome, TerminalDecision
    <3>2. opState[Op(w)] = "COMMITTING" \/ CanTransition(opState[Op(w)], "COMMITTING")
      BY <1>1, <2>1 DEF OutcomeLegal, CanMove
    <3> QED BY <3>1, <3>2 DEF Contract!Reaches, CanTransition, Transitions, Terminal,
               Contract!CanTransition, Contract!Transitions, Contract!Terminal
  <2>2. CASE run[w].pc # "complete"
    <3>1. CanTransition(opState[Op(w)], target)
      BY <1>1, <2>2 DEF OutcomeLegal, CanMove
    <3> QED BY <3>1 DEF Contract!Reaches, CanTransition, Transitions, Terminal,
               Contract!CanTransition, Contract!Transitions, Contract!Terminal
  <2> QED BY <2>1, <2>2
<1>6. opState' = [opState EXCEPT ![Op(w)] = target]
  BY <1>1 DEF SetState
<1>7. CASE target = "RECOVERY_REQUIRED"
  <2>1. Rows' = Rows
    BY <1>1, <1>7 DEF Rows
  <2> QED BY <1>2, <1>3, <1>4, <1>5, <1>6, <1>7, <2>1 DEF Contract!Barrier
<1>8. CASE target # "RECOVERY_REQUIRED"
  <2>1. target \in Contract!Rest
    BY <1>2, <1>8 DEF Contract!Rest, Contract!Terminal, Terminal
  <2>2. Contract!Truthful(target, Worlds[Op(w)])
    <3>1. (Work(w) \/ Misfortune(w)) /\ [Next]_vars
      BY DEF Work, Next
    <3>2. KeepInv'
      BY <3>1, KeepInvKept
    <3>3. opState'[Op(w)] = target
      BY <1>2, <1>6 DEF StateTyped
    <3>4. EndsTrue'
      BY <3>2, EndIsTruthfulNext
    <3>5. \A o \in Ops : World(o)' = World(o)
      BY <1>1 DEF World, Reversible, Has, Steps, Step, Workflow
    <3> QED BY <1>2, <3>3, <3>4, <3>5 DEF EndsTrue, Worlds
  <2>3. run[w].held \in Claimable
    <3>1. PICK k \in DOMAIN Catalog : Workflow(Op(w)) = Catalog[k]
      BY <1>2 DEF KindTyped, Workflow
    <3>2. run[w].held # {} /\ run[w].held \subseteq AllResources(Workflow(Op(w)))
      BY <1>2, ResourcesOf DEF Holding, HoldsAt, AtRest
    <3>3. run[w].held \in SUBSET AllResources(Catalog[k])
      BY <3>1, <3>2
    <3>4. SUBSET AllResources(Catalog[k]) \in {SUBSET AllResources(Catalog[j]) :
            j \in DOMAIN Catalog}
      OBVIOUS
    <3> QED BY <3>2, <3>3, <3>4, Zenon DEF Claimable
  <2>4. Rows' = Contract!Without(run[w].held)
    BY <1>1, <1>8 DEF Rows, Free, Contract!Without
  <2> QED BY <1>2, <1>3, <1>4, <1>5, <1>6, <2>1, <2>2, <2>3, <2>4 DEF Contract!Settle
<1> QED BY <1>2, <1>7, <1>8

\* An expired row, field by field.
LEMMA LiveCleared ==
    ASSUME NEW o, NEW live
    PROVE  [[op |-> o, live |-> live] EXCEPT !.live = FALSE] = [op |-> o, live |-> FALSE]
<1> DEFINE T == [op : {o}, live : {live, FALSE}]
           row == [op |-> o, live |-> live]
           cleared == [row EXCEPT !.live = FALSE]
<1>1. row \in T
  OBVIOUS
<1> HIDE DEF row
<1>2. cleared \in T /\ cleared.op = row.op /\ cleared.live = FALSE
  BY <1>1
<1> HIDE DEF cleared
<1>3. cleared = [op |-> cleared.op, live |-> cleared.live]
  BY <1>2
<1>4. row.op = o
  BY DEF row
<1>5. cleared = [op |-> o, live |-> FALSE]
  BY <1>2, <1>3, <1>4
<1> QED BY <1>5 DEF row, cleared

\* The user and the clock.
LEMMA WorldRefines ==
    ASSUME KeepInv, WorldStep
    PROVE  [Contract!ContractNext]_(Contract!contractVars)
<1> USE DEF KeepInv, TruthInv, OutcomeInv, EffectInv, Base, Typed
<1>1. Worlds' = Worlds
  <2>1. UNCHANGED <<kind, stepState, effect>>
    BY WorldStays
  <2> QED BY <2>1 DEF Worlds, World, Reversible, Has, Steps, Step, Workflow
<1>2. ASSUME NEW o \in Ops, RequestCancel(o) PROVE Contract!Cancel(o)
  <2>1. Rows' = Rows
    BY <1>2 DEF RequestCancel, Rows
  <2>2. Contract!CanTransition(opState[o], "CANCEL_REQUESTED")
    BY <1>2 DEF RequestCancel, CanTransition, Transitions, Terminal,
       Contract!CanTransition, Contract!Transitions, Contract!Terminal
  <2> QED BY <1>1, <1>2, <2>1, <2>2 DEF RequestCancel, Contract!Cancel
<1>3. ASSUME NEW o \in Ops, Resume(o) PROVE Contract!Rearm(o)
  <2>1. Rows' = Rows
    BY <1>3 DEF Resume, Rows
  <2> QED BY <1>1, <1>3, <2>1 DEF Resume, Contract!Rearm
<1>4. ASSUME NEW r \in Resources, Expire(r) PROVE Contract!Lapse(r)
  <2>1. lease[r] \in LeaseRow /\ lease[r] # NoLease /\ lease[r].live
    BY <1>4 DEF Expire, LeasesTyped
  <2>2. lease'[r] = [lease[r] EXCEPT !.live = FALSE]
    BY <1>4 DEF Expire, LeasesTyped
  <2>3. \A x \in Resources : x # r => lease'[x] = lease[x]
    BY <1>4 DEF Expire, LeasesTyped
  <2>4. lease'[r] \in LeaseRow /\ lease'[r].op = lease[r].op /\ lease'[r].live = FALSE
    BY <2>1, <2>2 DEF LeaseRow
  <2>5. lease'[r] # NoLease
    BY <2>4, NullAssumption DEF LeaseRow
  <2>6. Rows'[r] = [Rows[r] EXCEPT !.live = FALSE]
    <3>1. Rows[r] = [op |-> lease[r].op, live |-> lease[r].live] /\ lease[r].op \in Ops
      BY <2>1 DEF Rows, LeaseRow
    <3>2. Rows'[r] = [op |-> lease[r].op, live |-> FALSE]
      BY <2>4, <2>5 DEF Rows
    <3> QED BY <3>1, <3>2, LiveCleared
  <2>7. \A x \in Resources : x # r => Rows'[x] = Rows[x]
    BY <2>3 DEF Rows
  <2>8. Rows' = [Rows EXCEPT ![r].live = FALSE]
    <3>1. Rows' = [x \in Resources |-> IF x = r THEN [Rows[r] EXCEPT !.live = FALSE] ELSE Rows[x]]
      BY <2>6, <2>7 DEF Rows
    <3>2. Rows = [x \in Resources |-> Rows[x]]
      BY DEF Rows
    <3> QED BY <3>1, <3>2
  <2>9. Rows[r] # NoLease /\ Rows[r].live
    BY <2>1, RowsOf
  <2> QED BY <1>1, <1>4, <2>8, <2>9 DEF Expire, Contract!Lapse
<1>5. ASSUME UNCHANGED vars PROVE UNCHANGED Contract!contractVars
  BY <1>1, <1>5 DEF vars, Rows, Contract!contractVars
<1> QED BY <1>2, <1>3, <1>4, <1>5 DEF WorldStep, Contract!ContractNext

\* Every step is a step of the contract, or none.
LEMMA StepRefines ==
    ASSUME OneWorker, NoLateRefusal, KeepInv, [Next]_vars
    PROVE  [Contract!ContractNext]_(Contract!contractVars)
<1>1. ASSUME NEW w \in Workers, Work(w) \/ Misfortune(w)
      PROVE  [Contract!ContractNext]_(Contract!contractVars)
  <2>1. CASE opState' # opState
    BY <1>1, <2>1, WhoMoves, PutsAside, MovesOn, EndsRun DEF Contract!ContractNext
  <2>2. CASE EndRun(w)
    BY <2>2, EndsRun DEF Contract!ContractNext
  <2>3. CASE lease' # lease
    BY <1>1, <2>2, <2>3, WhoLeases, TakesKeys DEF Contract!ContractNext
  <2>4. CASE opState' = opState /\ lease' = lease
    BY <1>1, <2>4, TouchesOrStutters
  <2> QED BY <2>1, <2>3, <2>4
<1> QED BY <1>1, WhoSteps, WorldRefines

\* The engine starts where the contract does.
LEMMA InitRefines == Init => Contract!ContractInit
<1> SUFFICES ASSUME Init PROVE Contract!ContractInit
  OBVIOUS
<1>1. ASSUME NEW o \in Ops PROVE World(o) = "untouched"
  <2>1. PICK k \in DOMAIN Catalog : Workflow(o) = Catalog[k]
    BY DEF Init, Workflow
  <2>2. 1 \in Steps(o)
    BY <2>1, CatalogAssumption DEF Steps
  <2> QED BY <2>2 DEF Init, World
<1>2. Worlds = [o \in Ops |-> "untouched"]
  BY <1>1 DEF Worlds
<1>3. Rows = [r \in Resources |-> NoLease]
  BY DEF Init, Rows
<1> QED BY <1>2, <1>3 DEF Init, Contract!ContractInit

\* The engine implements the contract: operations move along the frozen table, only under a
\* live key; what they claim of the world when they end is so; the keys of a barrier stay
\* (every transaction of engine.py, with _claim, request_cancel, resume and lease expiry).
THEOREM EngineKeepsContract ==
    ASSUME OneWorker, NoLateRefusal
    PROVE  Spec => KeepsContract
<1>1. KeepInv /\ [Next]_vars => KeepInv'
  BY KeepInvKept
<1>2. KeepInv /\ [Next]_vars => [Contract!ContractNext]_(Contract!contractVars)
  BY StepRefines
<1> QED BY <1>1, <1>2, InitKeepInv, InitRefines, PTL DEF Spec, KeepsContract,
      Contract!ContractSpec

=============================================================================
