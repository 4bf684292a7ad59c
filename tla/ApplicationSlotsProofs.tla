----------------------- MODULE ApplicationSlotsProofs -----------------------
(***************************************************************************)
(* Proofs about ApplicationSlots, for every set of releases and updates    *)
(* and any number of faults.                                               *)
(***************************************************************************)
EXTENDS ApplicationSlots, TLAPS

CompPcs == {"comp", "undo", "restore", "restored"}

\* A worker runs one active update, and the release it is about to link to is
\* in place.
WorkerInv ==
    /\ worker = None => pc = "idle"
    /\ pc = "idle" => worker = None
    /\ worker # None => state[worker] \in Active
    /\ pc \notin {"idle", "loop"} \cup CompPcs => at[worker] \in StepNo
    /\ pc = "switch" => req[worker].cand \in released
    /\ pc = "restore" => req[worker].ec \in released

\* What holds even if updates overtake each other.
BaseInv == TypeOK /\ LinksResolve /\ WorkerInv

-----------------------------------------------------------------------------
(* Types.                                                                  *)

\* The step compensated next is one that can be.
LEMMA LastType == Last \in Undoable
  BY DEF Last, Undoable

\* compensate_step keeps the COMPENSATED rows a set of compensable steps.
LEMMA CompensatedType ==
    ASSUME TypeOK, worker # None, Compensated
    PROVE  undone' \in [Ops -> SUBSET Undoable]
  BY LastType DEF TypeOK, Compensated, U

\* _durable_compensation_set names compensable steps only.
LEMMA DurableType == \A o : Durable(o) \in SUBSET Undoable
  BY DEF Durable

\* _honor_cancellation ends the operation or starts its compensation.
LEMMA HonorType ==
    ASSUME TypeOK, worker # None, Honor
    PROVE  /\ state' \in [Ops -> OperationState] /\ pc' \in Pcs /\ worker' \in Ops \cup {None}
           /\ todo' \in SUBSET Undoable /\ ending' \in Endings
           /\ UNCHANGED <<at, row, undoing, undone>>
<1>1. CASE Durable(U) = {}
  BY <1>1 DEF Honor, End, Leave, SetState, TypeOK, OperationState, Pcs, Endings, U
<1>2. CASE Durable(U) # {}
  BY <1>2, DurableType DEF Honor, TypeOK, Pcs, Endings, op
<1> QED BY <1>1, <1>2

\* A replacement process stays one as it advances.
LEMMA ProcessType ==
    ASSUME NEW c \in Processes, NEW p \in {"new", "checked", "migrated"}
    PROVE  [c EXCEPT !.pc = p] \in Processes
  BY DEF Processes

\* run_post_update_mode changes or ends its own process only.
LEMMA ChildrenType ==
    ASSUME TypeOK, NEW c \in child, Child(c) \/ ChildDies(c)
    PROVE  child' \in SUBSET Processes
<1>1. child' \subseteq child \cup {[c EXCEPT !.pc = "checked"], [c EXCEPT !.pc = "migrated"]}
  BY DEF Child, ChildChecks, ChildMigrates, ChildAcknowledges, ChildDies
<1>2. c \in Processes /\ child \subseteq Processes
  BY DEF TypeOK
<1>3. [c EXCEPT !.pc = "checked"] \in Processes /\ [c EXCEPT !.pc = "migrated"] \in Processes
  BY <1>2, ProcessType
<1> QED BY <1>1, <1>2, <1>3

\* Every step keeps the types: one case per action.
LEMMA TypeStep ==
    ASSUME TypeOK, WorkerInv, Next
    PROVE  TypeOK'
<1> USE SlotsAssumption DEF TypeOK, Requests, Processes, Pcs, Endings, U, At, Doing, Goto,
        Leave, Fault, world, proc, op, run
<1>1. ASSUME NEW o \in Ops, NEW r \in Releases, Apply(o, r)
      PROVE  TypeOK'
  BY <1>1 DEF Apply, Enqueued, SetState, OperationState
<1>2. ASSUME NEW o \in Ops, Rollback(o)
      PROVE  TypeOK'
  BY <1>2 DEF Rollback, Enqueued, SetState, OperationState
<1>3. ASSUME NEW o \in Ops, RequestCancel(o)
      PROVE  TypeOK'
  BY <1>3 DEF RequestCancel, SetState, OperationState
<1>4. ASSUME NEW o \in Ops, Claim(o)
      PROVE  TypeOK'
  BY <1>4 DEF Claim, Durable
<1>5. CASE Crash
  BY <1>5 DEF Crash
<1>6. CASE Complete
  BY <1>6 DEF Complete, SetState, OperationState
<1>7. CASE LoopCancel
  BY <1>7 DEF LoopCancel, CancelDue, Durable, End, Honor, SetState, OperationState
<1>8. CASE LoopStep
  <2>1. /\ row' \in [Ops -> {"PENDING", "RUNNING", "CHECKPOINTED"}]
        /\ UNCHANGED <<state, at, undoing, undone>>
    BY <1>8 DEF LoopStep, SetRow
  <2>2. pc' \in Pcs /\ UNCHANGED <<worker, todo, ending>>
    BY <1>8 DEF LoopStep, Execute
  <2> QED BY <1>8, <2>1, <2>2 DEF LoopStep
<1>9. CASE Recover
  <2>1. CASE DecideRecovery(Probe(U, at[U]), FALSE) = "VERIFY"
    BY <1>9, <2>1 DEF Recover, SetRow
  <2>2. CASE DecideRecovery(Probe(U, at[U]), FALSE) \in {"EXECUTE", "RESUME"}
    BY <1>9, <2>2 DEF Recover, Execute
  <2>3. CASE DecideRecovery(Probe(U, at[U]), FALSE) = "REQUIRE_RECOVERY"
    <3>1. End("RECOVERY_REQUIRED")
      BY <1>9, <2>3 DEF Recover
    <3> QED BY <1>9, <3>1 DEF Recover, End, SetState, OperationState
  <2> QED BY <1>9, <2>1, <2>2, <2>3 DEF Recover
<1>10. CASE Reverify
  BY <1>10 DEF Reverify, NextStep, OperationState, WorkerInv, CompPcs, StepNo
<1>11. CASE EnterCritical
  <2>1. CASE state[U] = "CANCEL_REQUESTED"
    BY <1>11, <2>1, HonorType DEF EnterCritical
  <2>2. CASE state[U] # "CANCEL_REQUESTED"
    BY <1>11, <2>2 DEF EnterCritical, SetState, OperationState
  <2> QED BY <2>1, <2>2
<1>12. CASE Checkpoint
  BY <1>12 DEF Checkpoint, SetRow
<1>13. CASE Verify
  <2>1. CASE Probe(U, at[U]) = "COMPLETE"
    <3>1. at[U] \in StepNo
      BY <1>13 DEF Verify, WorkerInv, CompPcs
    <3>2. NextStep(IF at[U] \in Critical THEN "VERIFYING" ELSE state[U])
      BY <1>13, <2>1 DEF Verify
    <3>3. at' \in [Ops -> 1..8]
      BY <1>13, <3>1, <3>2 DEF Verify, NextStep, StepNo
    <3>4. state' \in [Ops -> OperationState]
      BY <1>13, <3>2 DEF Verify, NextStep, OperationState
    <3> QED BY <1>13, <2>1, <3>2, <3>3, <3>4 DEF Verify, NextStep
  <2>2. CASE Probe(U, at[U]) # "COMPLETE"
    BY <1>13, <2>2 DEF Verify
  <2> QED BY <2>1, <2>2
<1>14. CASE EffectFails
  BY <1>14 DEF EffectFails
<1>15. CASE Failed
  BY <1>15 DEF Failed, Durable, End, SetState, OperationState
<1>16. CASE VerifyRelease
  BY <1>16 DEF VerifyRelease
<1>17. CASE StageCandidate
  BY <1>17 DEF StageCandidate
<1>18. CASE InstallStage
  BY <1>18 DEF InstallStage
<1>19. CASE RegisterStage
  BY <1>19 DEF RegisterStage
<1>20. CASE EnsureBackup
  BY <1>20 DEF EnsureBackup
<1>21. CASE PromoteStage
  <2>1. stage' \in [Ops -> {"none", "partial", "ready"}] /\ released' \in SUBSET Releases
    BY <1>21 DEF PromoteStage
  <2>2. pc' \in Pcs /\ UNCHANGED <<worker, todo, ending>>
    BY <1>21 DEF PromoteStage
  <2> QED BY <1>21, <2>1, <2>2 DEF PromoteStage
<1>22. CASE SwitchPrevious
  BY <1>22 DEF SwitchPrevious, Pointers
<1>23. CASE SwitchCurrent
  BY <1>23 DEF SwitchCurrent, Pointers
<1>24. CASE SwitchDone
  BY <1>24 DEF SwitchDone, Pointers
<1>25. CASE LaunchIntent
  BY <1>25 DEF LaunchIntent
<1>26. CASE LaunchSpawn
  BY <1>26 DEF LaunchSpawn
<1>27. CASE LaunchReturns
  BY <1>27 DEF LaunchReturns, Awaited
<1>28. CASE LaunchTimesOut
  BY <1>28 DEF LaunchTimesOut, Awaited
<1>29. CASE VerifyHealth
  BY <1>29 DEF VerifyHealth
<1>30. CASE RecordInstallation
  BY <1>30 DEF RecordInstallation, CommittedRows
<1>31. CASE CompensationDone
  BY <1>31 DEF CompensationDone, End, SetState, OperationState
<1>32. CASE BeginCompensation
  BY <1>32 DEF BeginCompensation, Last, Undoable
<1>33. CASE ResumeCompensation
  <2>1. \/ pc' \in Pcs /\ UNCHANGED <<worker, todo, ending, op>>
        \/ Compensated /\ Skip(ending)
        \/ End("RECOVERY_REQUIRED")
    BY <1>33 DEF ResumeCompensation
  <2>2. CASE pc' \in Pcs /\ UNCHANGED <<worker, todo, ending, op>>
    BY <1>33, <2>2 DEF ResumeCompensation
  <2>3. CASE Compensated /\ Skip(ending)
    BY <1>33, <2>3, CompensatedType DEF ResumeCompensation, Compensated, Skip
  <2>4. CASE End("RECOVERY_REQUIRED")
    BY <1>33, <2>4 DEF ResumeCompensation, End, SetState, OperationState
  <2> QED BY <2>1, <2>2, <2>3, <2>4
<1>34. CASE RestoreProfile
  <2>1. CASE NeedsRestore(U)
    BY <1>34, <2>1 DEF RestoreProfile, Skip
  <2>2. CASE ~ NeedsRestore(U)
    BY <1>34, <2>2, CompensatedType DEF RestoreProfile, Compensated, Skip
  <2> QED BY <2>1, <2>2
<1>35. CASE RestorePrevious
  BY <1>35 DEF RestorePrevious, Last, Pointers
<1>36. CASE RestoreCurrent
  BY <1>36 DEF RestoreCurrent
<1>37. CASE RestoreUnchanged
  BY <1>37 DEF RestoreUnchanged, Last, Pointers, Skip
<1>38. CASE RestoreVerified
  <2>1. CASE IsRestored(U)
    BY <1>38, <2>1, CompensatedType DEF RestoreVerified, Compensated, Skip
  <2>2. CASE ~ IsRestored(U)
    BY <1>38, <2>2 DEF RestoreVerified, Skip
  <2> QED BY <2>1, <2>2
<1>39. CASE UndoFails
  BY <1>39 DEF UndoFails, Last, Skip
<1>40. ASSUME NEW c \in child, Child(c) \/ ChildDies(c)
      PROVE  TypeOK'
  <2>1. c \in Processes /\ c.op \in Ops
    OBVIOUS
  <2>2. child' \in SUBSET Processes
    BY <1>40, ChildrenType
  <2>3. ack' \in [Ops -> Nat] /\ schema' \in Nat
    BY <1>40, <2>1 DEF Child, ChildChecks, ChildMigrates, ChildAcknowledges, ChildDies
  <2>4. faults' \in Nat
    BY <1>40 DEF Child, ChildChecks, ChildMigrates, ChildAcknowledges, ChildDies
  <2> QED BY <1>40, <2>2, <2>3, <2>4
         DEF Child, ChildChecks, ChildMigrates, ChildAcknowledges, ChildDies
<1> QED BY <1>1, <1>2, <1>3, <1>4, <1>5, <1>6, <1>7, <1>8, <1>9, <1>10, <1>11, <1>12, <1>13,
    <1>14, <1>15, <1>16, <1>17, <1>18, <1>19, <1>20, <1>21, <1>22, <1>23, <1>24, <1>25, <1>26,
    <1>27, <1>28, <1>29, <1>30, <1>31, <1>32, <1>33, <1>34, <1>35, <1>36, <1>37, <1>38, <1>39,
    <1>40 DEF Next, Engine, Effects

-----------------------------------------------------------------------------
(* The links.                                                              *)

\* Every step keeps both links on complete releases: the worker links to
\* the candidate only after promote_stage, and back to the release it came from
\* only while previous still names that one.
LEMMA SlotStep ==
    ASSUME TypeOK, LinksResolve, WorkerInv, Next
    PROVE  LinksResolve' /\ WorkerInv'
<1> USE SlotsAssumption DEF TypeOK, LinksResolve, WorkerInv, Requests, StepNo, Active, CompPcs,
        U, At, Doing, Goto, Leave, Fault, world, proc, op, run
<1>1. ASSUME NEW o \in Ops, NEW r \in Releases, Apply(o, r)
      PROVE  LinksResolve' /\ WorkerInv'
  BY <1>1 DEF Apply, Enqueued, SetState
<1>2. ASSUME NEW o \in Ops, Rollback(o)
      PROVE  LinksResolve' /\ WorkerInv'
  BY <1>2 DEF Rollback, Enqueued, SetState
<1>3. ASSUME NEW o \in Ops, RequestCancel(o)
      PROVE  LinksResolve' /\ WorkerInv'
  BY <1>3 DEF RequestCancel, SetState
<1>4. ASSUME NEW o \in Ops, Claim(o)
      PROVE  LinksResolve' /\ WorkerInv'
  BY <1>4 DEF Claim, Durable
<1>5. CASE Crash
  BY <1>5 DEF Crash
<1>6. CASE Complete
  BY <1>6 DEF Complete, SetState
<1>7. CASE LoopCancel
  BY <1>7 DEF LoopCancel, CancelDue, Durable, End, Honor, SetState
<1>8. CASE LoopStep
  BY <1>8 DEF LoopStep, CancelDue, Execute, SetRow
<1>9. CASE Recover
  <2>1. CASE DecideRecovery(Probe(U, at[U]), FALSE) = "VERIFY"
    BY <1>9, <2>1 DEF Recover, SetRow
  <2>2. CASE DecideRecovery(Probe(U, at[U]), FALSE) \in {"EXECUTE", "RESUME"}
    BY <1>9, <2>2 DEF Recover, Execute
  <2>3. CASE DecideRecovery(Probe(U, at[U]), FALSE) = "REQUIRE_RECOVERY"
    BY <1>9, <2>3 DEF Recover, End, SetState
  <2> QED BY <1>9, <2>1, <2>2, <2>3 DEF Recover
<1>10. CASE Reverify
  BY <1>10 DEF Reverify, NextStep
<1>11. CASE EnterCritical
  BY <1>11 DEF EnterCritical, Durable, End, Honor, SetState
<1>12. CASE Checkpoint
  BY <1>12 DEF Checkpoint, SetRow
<1>13. CASE Verify
  BY <1>13 DEF Verify, NextStep
<1>14. CASE EffectFails
  BY <1>14 DEF EffectFails
<1>15. CASE Failed
  BY <1>15 DEF Failed, Durable, End, SetState
<1>16. CASE VerifyRelease
  BY <1>16 DEF VerifyRelease
<1>17. CASE StageCandidate
  BY <1>17 DEF StageCandidate
<1>18. CASE InstallStage
  BY <1>18 DEF InstallStage
<1>19. CASE RegisterStage
  BY <1>19 DEF RegisterStage
<1>20. CASE EnsureBackup
  BY <1>20 DEF EnsureBackup
<1>21. CASE PromoteStage
  BY <1>21 DEF PromoteStage
<1>22. CASE SwitchPrevious
  BY <1>22 DEF SwitchPrevious, Pointers, Classify
<1>23. CASE SwitchCurrent
  BY <1>23 DEF SwitchCurrent, Pointers, Classify
<1>24. CASE SwitchDone
  BY <1>24 DEF SwitchDone, Pointers, Classify
<1>25. CASE LaunchIntent
  BY <1>25 DEF LaunchIntent
<1>26. CASE LaunchSpawn
  BY <1>26 DEF LaunchSpawn
<1>27. CASE LaunchReturns
  BY <1>27 DEF LaunchReturns, Awaited
<1>28. CASE LaunchTimesOut
  BY <1>28 DEF LaunchTimesOut, Awaited
<1>29. CASE VerifyHealth
  BY <1>29 DEF VerifyHealth
<1>30. CASE RecordInstallation
  BY <1>30 DEF RecordInstallation, CommittedRows
<1>31. CASE CompensationDone
  BY <1>31 DEF CompensationDone, End, SetState
<1>32. CASE BeginCompensation
  BY <1>32 DEF BeginCompensation, Last
<1>33. CASE ResumeCompensation
  BY <1>33 DEF ResumeCompensation, Compensated, End, Last, SetState, Skip
<1>34. CASE RestoreProfile
  BY <1>34 DEF RestoreProfile, Compensated, Last, Skip
<1>35. CASE RestorePrevious
  BY <1>35 DEF RestorePrevious, Last, Pointers, Classify
<1>36. CASE RestoreCurrent
  BY <1>36 DEF RestoreCurrent
<1>37. CASE RestoreUnchanged
  BY <1>37 DEF RestoreUnchanged, Last, Pointers, Skip, Classify
<1>38. CASE RestoreVerified
  BY <1>38 DEF RestoreVerified, Compensated, Last, Skip
<1>39. CASE UndoFails
  BY <1>39 DEF UndoFails, Last, Skip
<1>40. ASSUME NEW c \in child, Child(c) \/ ChildDies(c)
      PROVE  LinksResolve' /\ WorkerInv'
  BY <1>40 DEF Child, ChildChecks, ChildMigrates, ChildAcknowledges, ChildDies
<1> QED BY <1>1, <1>2, <1>3, <1>4, <1>5, <1>6, <1>7, <1>8, <1>9, <1>10, <1>11, <1>12, <1>13,
    <1>14, <1>15, <1>16, <1>17, <1>18, <1>19, <1>20, <1>21, <1>22, <1>23, <1>24, <1>25, <1>26,
    <1>27, <1>28, <1>29, <1>30, <1>31, <1>32, <1>33, <1>34, <1>35, <1>36, <1>37, <1>38, <1>39,
    <1>40 DEF Next, Engine, Effects

-----------------------------------------------------------------------------
(* The inductive invariant of the update.                                  *)

\* The record describes the links while nothing is reserved, and two slots
\* are two releases.
TruthInv ==
    /\ truth.current # truth.previous
    /\ truth.pending = None =>
         link.current = truth.current /\ link.previous = truth.previous

\* The update's record is committed and its row does not say so yet.
Committed(o) ==
    /\ state[o] = "COMMITTING" /\ at[o] = 7 /\ row[o] # "PENDING"
    /\ Recorded(o) /\ rec[req[o].cand] = "CURRENT"

\* The row of step i says that it was started.
Began(o, i) == at[o] > i \/ (at[o] = i /\ row[o] # "PENDING")

\* What the rows of an update say about its reservation.
RowInv(o) ==
    /\ state[o] \in Active \cup Terminal \cup {"QUEUED"}
    /\ state[o] = "QUEUED" => truth.pending # o /\ at[o] = 1 /\ undoing[o] = {}
    /\ undone[o] \subseteq undoing[o]
    /\ undoing[o] # {} => state[o] \notin {"RUNNING", "COMMITTING", "VERIFYING"}
    /\ 4 \in undoing[o] => Began(o, 4)
    /\ state[o] = "ROLLING_BACK" => at[o] <= 7
    /\ state[o] \in Active /\ at[o] \in 2..7 => truth.pending = o \/ Committed(o)

\* What the links say to the update that holds the reservation.
LinkInv(o) ==
    truth.pending = o =>
        /\ Expected(o)
        /\ ~ Began(o, 4) => Pointers(o) = "ABSENT"
        /\ state[o] \in Forward /\ 4 \notin undoing[o] =>
             /\ at[o] = 4 => Pointers(o) # "UNCERTAIN"
             /\ at[o] > 4 => Pointers(o) = "COMPLETE"
        /\ 4 \in undone[o] => link.current = req[o].ec
        /\ state[o] \in {"FAILED_SAFE", "FAILED_ROLLED_BACK", "CANCELLED"}
             => link.current = req[o].ec

\* While a worker runs, no other update's record is in doubt.
DoubtInv == worker # None => \A p \in Ops \ {worker} : ~ RecordInDoubt(p)

\* Going forward: where the worker is in which step.
ForwardInv ==
    pc \notin {"idle"} \cup CompPcs =>
        /\ state[worker] \in Forward
        /\ pc # "loop" => undoing[worker] = {} /\ row[worker] # "PENDING"
        /\ pc = "switch" => at[worker] = 4
        /\ pc \in {"installing", "register"} => at[worker] = 2
        /\ pc \in {"spawn", "await"} => at[worker] = 5
        /\ pc \notin {"loop", "probe", "reverify", "critical"} /\ at[worker] \in Critical
             => state[worker] = "COMMITTING"
        /\ pc \in {"critical", "effect", "failed"} /\ at[worker] = 7 => truth.pending = worker
        /\ pc \in {"checkpoint", "verify"} /\ at[worker] = 7 => Committed(worker)

\* Rolling back: what is still to undo is what was begun and is not undone,
\* unless something failed.
CompInv ==
    pc \in CompPcs =>
        /\ state[worker] \in {"ROLLING_BACK", "CANCEL_REQUESTED"}
        /\ at[worker] \in StepNo
        /\ \A i \in todo : Began(worker, i) /\ i \notin undone[worker]
        /\ ending # "RECOVERY_REQUIRED" =>
             \A i \in Undoable : Began(worker, i) /\ i \notin undone[worker] => i \in todo
        /\ pc # "comp" => todo # {} /\ Last \in undoing[worker]
        /\ pc \in {"restore", "restored"} => Last = 4

\* The inductive invariant.
UpdateInv ==
    /\ TruthInv
    /\ \A o \in Ops : RowInv(o)
    /\ \A o \in Ops : LinkInv(o)
    /\ DoubtInv
    /\ ForwardInv
    /\ CompInv

\* Compensation is not disturbed by what leaves its rows alone.
LEMMA CompFrame ==
    ASSUME CompInv, UNCHANGED <<at, row, undoing, undone, worker, pc, todo, ending>>,
           pc \in CompPcs => state'[worker] = state[worker]
    PROVE  CompInv'
  BY DEF CompInv, Began, Last

\* Neither a new request nor a cancellation disturbs a compensation.
LEMMA RequestComp ==
    ASSUME TypeOK, WorkerInv, CompInv, NEW o \in Ops,
           (\E r \in Releases : Apply(o, r)) \/ Rollback(o) \/ RequestCancel(o)
    PROVE  CompInv'
<1>1. /\ state[o] \in {"QUEUED", "RUNNING", "VERIFYING"}
      /\ UNCHANGED <<at, row, undoing, undone, worker, pc, todo, ending>>
      /\ \E s : state' = [state EXCEPT ![o] = s]
  BY DEF Apply, Rollback, RequestCancel, Enqueued, SetState, run
<1>2. pc \in CompPcs => state'[worker] = state[worker]
  BY <1>1 DEF CompInv, TypeOK
<1> QED BY <1>1, <1>2, CompFrame

\* The replacement process touches the schema and its own receipts only.
LEMMA ChildFrame ==
    ASSUME NEW c \in child, Child(c) \/ ChildDies(c)
    PROVE  UNCHANGED <<link, released, truth, rec, req, op, run>>
  BY DEF Child, ChildChecks, ChildMigrates, ChildAcknowledges, ChildDies, world

\* The invariant is about the links, the record, the rows and the worker.
LEMMA CoreFrame ==
    ASSUME UpdateInv, UNCHANGED <<link, released, truth, rec, req, op, run>>
    PROVE  UpdateInv'
<1>1. CompInv'
  BY CompFrame DEF UpdateInv, op, run
<1>2. ASSUME NEW o \in Ops PROVE RowInv(o)' /\ LinkInv(o)'
  BY DEF UpdateInv, RowInv, LinkInv, Committed, Recorded, Expected, Began, Pointers, Classify, op
<1>3. TruthInv'
  BY DEF UpdateInv, TruthInv
<1>4. DoubtInv' /\ ForwardInv'
  BY DEF UpdateInv, DoubtInv, RecordInDoubt, ForwardInv, Committed, Recorded, op, run
<1> QED BY <1>1, <1>2, <1>3, <1>4 DEF UpdateInv

\* restore: the last replacement leaves the rows alone.
LEMMA RestoreCurrentComp ==
    ASSUME CompInv, RestoreCurrent
    PROVE  CompInv'
  BY DEF RestoreCurrent, At, Goto, op, CompInv, CompPcs, Began, Last

\* What the probe of an interrupted step leads to; one that is executed again
\* was not found complete.
LEMMA RecoverCases ==
    ASSUME Recover
    PROVE  \/ SetRow("CHECKPOINTED") /\ Goto("reverify")
           \/ /\ pc' = Execute /\ UNCHANGED <<op, worker, todo, ending>>
              /\ Probe(U, at[U]) # "COMPLETE"
           \/ End("RECOVERY_REQUIRED")
<1>1. DecideRecovery(Probe(U, at[U]), FALSE) \in {"EXECUTE", "RESUME"}
        => Probe(U, at[U]) # "COMPLETE"
  BY DEF DecideRecovery
<1> QED BY <1>1 DEF Recover, Goto

\* probe_recorded finds a committed record complete.
LEMMA NotCommitted ==
    ASSUME worker # None, at[worker] = 7, Probe(worker, at[worker]) # "COMPLETE"
    PROVE  ~ Committed(worker)
  BY DEF Probe, Committed

\* record_installation runs with the reservation held, so it fails or commits,
\* and it commits what the links say.
LEMMA NewRecord ==
    ASSUME TypeOK, UpdateInv, RecordInstallation
    PROVE  /\ worker \in Ops /\ at[worker] = 7 /\ state[worker] = "COMMITTING"
           /\ truth.pending = worker /\ pc = "effect"
           /\ \/ /\ truth' = truth /\ rec' = rec /\ pc' = "failed"
              \/ /\ pc' = "checkpoint"
                 /\ req[worker].cand # req[worker].ec
                 /\ truth'.current = req[worker].cand /\ truth'.previous = req[worker].ec
                 /\ truth'.generation = req[worker].gen + 1 /\ truth'.pending = None
                 /\ rec'[req[worker].cand] = "CURRENT"
                 /\ link.current = req[worker].cand /\ link.previous = req[worker].ec
<1>1. worker \in Ops /\ pc = "effect" /\ at[worker] = 7
  BY DEF RecordInstallation, Doing, At, U, TypeOK
<1>2. state[worker] = "COMMITTING" /\ truth.pending = worker
  BY <1>1 DEF UpdateInv, ForwardInv, CompPcs, Critical
<1>3. Expected(worker) /\ Pointers(worker) = "COMPLETE"
  BY <1>1, <1>2 DEF UpdateInv, LinkInv, ForwardInv, CompPcs, Forward, Active
<1>4. link.current = req[worker].cand /\ link.previous = req[worker].ec
  BY <1>3 DEF Pointers, Classify
<1>5. ~ Recorded(worker)
  BY <1>1, <1>2, SlotsAssumption DEF Recorded
<1>6. CASE ~ Committable(worker)
  BY <1>1, <1>2, <1>5, <1>6 DEF RecordInstallation, Goto, U
<1>7. CASE Committable(worker)
  <2>1. /\ rec' = CommittedRows(worker) /\ pc' = "checkpoint"
        /\ truth' = [current |-> req[worker].cand, previous |-> req[worker].ec,
                     generation |-> truth.generation + 1, pending |-> None]
    BY <1>5, <1>7 DEF RecordInstallation, Goto, U
  <2>2. rec'[req[worker].cand] = "CURRENT"
    BY <1>1, <2>1 DEF CommittedRows, TypeOK, Requests
  <2>3. req[worker].cand # req[worker].ec
    BY <1>7 DEF Committable
  <2> QED BY <1>1, <1>2, <1>3, <1>4, <2>1, <2>2, <2>3 DEF Expected
<1> QED BY <1>6, <1>7

\* What is compensated next is still to be compensated.
LEMMA LastInTodo ==
    ASSUME TypeOK, todo # {}
    PROVE  Last \in todo /\ Last \in Undoable
<1>1. PICK i \in todo : i \in {4, 5}
  BY DEF TypeOK, Undoable
<1>2. 5 \notin todo => i = 4
  BY <1>1
<1> QED BY <1>1, <1>2 DEF Undoable, Last

\* A step leaves the list undone, or the compensation is to end in
\* RECOVERY_REQUIRED.
LEMMA SkipComp ==
    ASSUME TypeOK, CompInv, worker # None, pc \in CompPcs, todo # {},
           \/ Compensated /\ Skip(ending)
           \/ Skip("RECOVERY_REQUIRED") /\ UNCHANGED op
    PROVE  CompInv'
<1>1. Last \in todo /\ Last \in Undoable
  BY LastInTodo
<1>2. /\ pc' = "comp" /\ todo' = todo \ {Last} /\ UNCHANGED <<worker, state, at, row>>
      /\ undone'[worker] \subseteq undone[worker] \cup {Last}
      /\ ending' # "RECOVERY_REQUIRED" =>
            ending # "RECOVERY_REQUIRED" /\ undone'[worker] = undone[worker] \cup {Last}
  BY DEF Skip, Compensated, op, U, TypeOK
<1>3. \A i : Began(worker, i)' <=> Began(worker, i)
  BY <1>2 DEF Began
<1> HIDE DEF Last, Began
<1>4. /\ state[worker] \in {"ROLLING_BACK", "CANCEL_REQUESTED"} /\ at[worker] \in StepNo
      /\ \A i \in todo : Began(worker, i) /\ i \notin undone[worker]
      /\ ending # "RECOVERY_REQUIRED" =>
           \A i \in Undoable : Began(worker, i) /\ i \notin undone[worker] => i \in todo
  BY DEF CompInv
<1>5. \A i \in todo' : Began(worker, i)' /\ i \notin undone'[worker]
  BY <1>2, <1>3, <1>4
<1>6. ending' # "RECOVERY_REQUIRED" =>
        \A i \in Undoable : Began(worker, i)' /\ i \notin undone'[worker] => i \in todo'
  BY <1>2, <1>3, <1>4
<1> QED BY <1>2, <1>4, <1>5, <1>6 DEF CompInv, StepNo

\* Within the compensation of one step the rows stand.
LEMMA MoveComp ==
    ASSUME CompInv, pc \in CompPcs, todo # {}, Last \in undoing[worker], NEW p \in CompPcs,
           p \in {"restore", "restored"} => Last = 4, Goto(p), UNCHANGED op
    PROVE  CompInv'
<1>1. UNCHANGED <<Last, worker, state, at, todo, ending, undoing, undone>>
  BY DEF Goto, op, Last
<1>2. \A i : Began(worker, i)' <=> Began(worker, i)
  BY DEF Began, Goto, op
<1> QED BY <1>1, <1>2 DEF CompInv, CompPcs, Goto

\* The four actions that end or continue the compensation of a step.
LEMMA UndoComp ==
    ASSUME TypeOK, CompInv,
           ResumeCompensation \/ RestoreProfile \/ RestoreUnchanged \/ RestoreVerified
    PROVE  CompInv'
<1>1. worker # None /\ pc \in CompPcs /\ todo # {} /\ Last \in undoing[worker]
  BY DEF ResumeCompensation, RestoreProfile, RestoreUnchanged, RestoreVerified, At, U, CompInv,
         CompPcs
<1>2. \/ Compensated /\ Skip(ending)
      \/ Skip("RECOVERY_REQUIRED") /\ UNCHANGED op
      \/ Goto("undo") /\ UNCHANGED op
      \/ Goto("restored") /\ UNCHANGED op /\ Last = 4
      \/ pc' = "idle"
  BY DEF ResumeCompensation, RestoreProfile, RestoreUnchanged, RestoreVerified, End, Leave
<1>3. CASE \/ Compensated /\ Skip(ending)
           \/ Skip("RECOVERY_REQUIRED") /\ UNCHANGED op
  BY <1>1, <1>3, SkipComp
<1>4. CASE Goto("undo") /\ UNCHANGED op
  BY <1>1, <1>4, MoveComp DEF CompPcs
<1>5. CASE Goto("restored") /\ UNCHANGED op /\ Last = 4
  BY <1>1, <1>5, MoveComp DEF CompPcs
<1>6. CASE pc' = "idle"
  BY <1>6 DEF CompInv, CompPcs
<1> QED BY <1>2, <1>3, <1>4, <1>5, <1>6

\* A compensation begins only for a step that began.
LEMMA BeginRow ==
    ASSUME TypeOK, CompInv, BeginCompensation, NEW o \in Ops, RowInv(o)
    PROVE  RowInv(o)'
<1>1. /\ worker \in Ops /\ todo # {} /\ pc = "comp"
      /\ undoing' = [undoing EXCEPT ![worker] = @ \cup {Last}]
      /\ UNCHANGED <<state, at, row, undone, truth, rec, req>>
  BY DEF BeginCompensation, At, U, TypeOK, world
<1>2. state[worker] \in {"ROLLING_BACK", "CANCEL_REQUESTED"} /\ Began(worker, Last)
  BY <1>1, LastInTodo DEF CompInv, CompPcs
<1>3. CASE o # worker
  BY <1>1, <1>3 DEF RowInv, Committed, Recorded, Began, TypeOK
<1>4. CASE o = worker
  <2>1. /\ undoing'[o] = undoing[o] \cup {Last}
        /\ Began(o, 4)' <=> Began(o, 4)
        /\ Committed(o)' <=> Committed(o)
    BY <1>1, <1>4 DEF TypeOK, Began, Committed, Recorded
  <2> HIDE DEF Last, Began, Committed
  <2>2. 4 \in undoing'[o] => Began(o, 4)
    BY <1>2, <1>4, <2>1 DEF RowInv
  <2> QED BY <1>1, <1>2, <1>4, <2>1, <2>2 DEF RowInv
<1> QED BY <1>3, <1>4

\* Every step keeps the record, the rows and the links in agreement: one case
\* per action.
LEMMA RowsStep ==
    ASSUME TypeOK, WorkerInv, UpdateInv, ~ MayOvertake, Next
    PROVE  TruthInv' /\ (\A p \in Ops : RowInv(p)' /\ LinkInv(p)')
<1> USE SlotsAssumption DEF TypeOK, Requests, WorkerInv, UpdateInv, TruthInv, RowInv, LinkInv,
        DoubtInv, ForwardInv, CompInv, Expected, Recorded, Committed, RecordInDoubt, Began,
        Pointers, Classify, StepNo, Critical, Undoable, Active, Forward, Terminal, CompPcs, U,
        At, Doing, Goto, Leave, Fault, world, proc, op, run
<1>1. ASSUME NEW o \in Ops, NEW r \in Releases, Apply(o, r)
      PROVE  TruthInv' /\ (\A p \in Ops : RowInv(p)' /\ LinkInv(p)')
  BY <1>1, SMTT(20) DEF Apply, Enqueued, SetState
<1>2. ASSUME NEW o \in Ops, Rollback(o)
      PROVE  TruthInv' /\ (\A p \in Ops : RowInv(p)' /\ LinkInv(p)')
  BY <1>2, SMTT(20) DEF Rollback, Enqueued, SetState
<1>3. ASSUME NEW o \in Ops, RequestCancel(o)
      PROVE  TruthInv' /\ (\A p \in Ops : RowInv(p)' /\ LinkInv(p)')
  BY <1>3, SMTT(20) DEF RequestCancel, SetState
<1>4. ASSUME NEW o \in Ops, Claim(o)
      PROVE  TruthInv' /\ (\A p \in Ops : RowInv(p)' /\ LinkInv(p)')
  BY <1>4, SMTT(20) DEF Claim, Durable
<1>5. CASE Crash
  BY <1>5, SMTT(20) DEF Crash
<1>6. CASE Complete
  BY <1>6, SMTT(20) DEF Complete, SetState
<1>7. CASE LoopCancel
  BY <1>7, SMTT(20) DEF LoopCancel, CancelDue, Durable, End, Honor, SetState
<1>8. CASE LoopStep
  BY <1>8, SMTT(20) DEF LoopStep, CancelDue, Execute, SetRow
<1>9. CASE Recover
  <2>1. CASE SetRow("CHECKPOINTED") /\ Goto("reverify")
    BY <1>9, <2>1 DEF Recover, SetRow
  <2>2. CASE UNCHANGED op
    BY <1>9, <2>2 DEF Recover
  <2>3. CASE End("RECOVERY_REQUIRED")
    BY <1>9, <2>3 DEF Recover, End, SetState
  <2> QED BY <1>9, RecoverCases, <2>1, <2>2, <2>3
<1>10. CASE Reverify
  BY <1>10, SMTT(20) DEF Reverify, NextStep, Probe
<1>11. CASE EnterCritical
  BY <1>11, SMTT(20) DEF EnterCritical, Durable, End, Honor, SetState
<1>12. CASE Checkpoint
  BY <1>12, SMTT(20) DEF Checkpoint, SetRow
<1>13. CASE Verify
  BY <1>13, SMTT(20) DEF Verify, NextStep, Probe
<1>14. CASE EffectFails
  BY <1>14, SMTT(20) DEF EffectFails
<1>15. CASE Failed
  BY <1>15, SMTT(20) DEF Failed, Durable, End, SetState, Probe
<1>16. CASE VerifyRelease
  BY <1>16, SMTT(20) DEF VerifyRelease, Reservable
<1>17. CASE StageCandidate
  BY <1>17, SMTT(20) DEF StageCandidate
<1>18. CASE InstallStage
  BY <1>18, SMTT(20) DEF InstallStage
<1>19. CASE RegisterStage
  BY <1>19, SMTT(20) DEF RegisterStage
<1>20. CASE EnsureBackup
  BY <1>20, SMTT(20) DEF EnsureBackup
<1>21. CASE PromoteStage
  BY <1>21, SMTT(20) DEF PromoteStage
<1>22. CASE SwitchPrevious
  BY <1>22, SMTT(20) DEF SwitchPrevious
<1>23. CASE SwitchCurrent
  BY <1>23, SMTT(20) DEF SwitchCurrent
<1>24. CASE SwitchDone
  BY <1>24, SMTT(20) DEF SwitchDone
<1>25. CASE LaunchIntent
  BY <1>25, SMTT(20) DEF LaunchIntent
<1>26. CASE LaunchSpawn
  BY <1>26, SMTT(20) DEF LaunchSpawn
<1>27. CASE LaunchReturns
  BY <1>27, SMTT(20) DEF LaunchReturns, Awaited
<1>28. CASE LaunchTimesOut
  BY <1>28, SMTT(20) DEF LaunchTimesOut, Awaited
<1>29. CASE VerifyHealth
  BY <1>29, SMTT(20) DEF VerifyHealth
<1>30. CASE RecordInstallation
  BY <1>30, NewRecord DEF RecordInstallation
<1>31. CASE CompensationDone
  <2>1. ending \in Terminal
    BY DEF Endings
  <2>2. CASE CanTransition(state[U], ending)
    BY <1>31, <2>1, <2>2, SMTT(20) DEF CompensationDone, End, SetState
  <2>3. CASE ~ CanTransition(state[U], ending)
    BY <1>31, <2>3 DEF CompensationDone, End, SetState
  <2> QED BY <2>2, <2>3
<1>32. CASE BeginCompensation
  <2>1. TruthInv'
    BY <1>32 DEF BeginCompensation
  <2>2. ASSUME NEW o \in Ops PROVE RowInv(o)'
    BY <1>32, BeginRow DEF UpdateInv
  <2>3. ASSUME NEW o \in Ops PROVE LinkInv(o)'
    BY <1>32, SMTT(20) DEF BeginCompensation, Last
  <2> QED BY <2>1, <2>2, <2>3
<1>33. CASE ResumeCompensation
  BY <1>33, SMTT(20) DEF ResumeCompensation, Compensated, End, Last, SetState, Skip, IsRestored
<1>34. CASE RestoreProfile
  BY <1>34, SMTT(20) DEF RestoreProfile, Compensated, Last, Skip
<1>35. CASE RestorePrevious
  BY <1>35, SMTT(20) DEF RestorePrevious, Last
<1>36. CASE RestoreCurrent
  BY <1>36, SMTT(20) DEF RestoreCurrent
<1>37. CASE RestoreUnchanged
  BY <1>37, SMTT(20) DEF RestoreUnchanged, Last, Skip
<1>38. CASE RestoreVerified
  BY <1>38, SMTT(20) DEF RestoreVerified, Compensated, Last, Skip, IsRestored
<1>39. CASE UndoFails
  BY <1>39, SMTT(20) DEF UndoFails, Last, Skip
<1>40. ASSUME NEW c \in child, Child(c) \/ ChildDies(c)
      PROVE  TruthInv' /\ (\A p \in Ops : RowInv(p)' /\ LinkInv(p)')
  BY <1>40, ChildFrame, CoreFrame
<1> QED BY <1>1, <1>2, <1>3, <1>4, <1>5, <1>6, <1>7, <1>8, <1>9, <1>10, <1>11, <1>12, <1>13,
    <1>14, <1>15, <1>16, <1>17, <1>18, <1>19, <1>20, <1>21, <1>22, <1>23, <1>24, <1>25, <1>26,
    <1>27, <1>28, <1>29, <1>30, <1>31, <1>32, <1>33, <1>34, <1>35, <1>36, <1>37, <1>38, <1>39,
    <1>40 DEF Next, Engine, Effects

\* Every step leaves the worker where the rows say it is: one case per action.
LEMMA PlaceStep ==
    ASSUME TypeOK, WorkerInv, UpdateInv, ~ MayOvertake, Next
    PROVE  DoubtInv' /\ ForwardInv' /\ CompInv'
<1> USE SlotsAssumption DEF TypeOK, Requests, WorkerInv, UpdateInv, TruthInv, RowInv, LinkInv,
        DoubtInv, ForwardInv, CompInv, Expected, Recorded, Committed, RecordInDoubt, Began,
        Pointers, Classify, StepNo, Critical, Undoable, Active, Forward, Terminal, CompPcs, U,
        At, Doing, Goto, Leave, Fault, world, proc, op, run
<1>1. ASSUME NEW o \in Ops, NEW r \in Releases, Apply(o, r)
      PROVE  DoubtInv' /\ ForwardInv' /\ CompInv'
  <2>1. DoubtInv' /\ ForwardInv'
    BY <1>1 DEF Apply, Enqueued, SetState
  <2> QED BY <1>1, <2>1, RequestComp DEF UpdateInv
<1>2. ASSUME NEW o \in Ops, Rollback(o)
      PROVE  DoubtInv' /\ ForwardInv' /\ CompInv'
  <2>1. DoubtInv' /\ ForwardInv'
    BY <1>2 DEF Rollback, Enqueued, SetState
  <2> QED BY <1>2, <2>1, RequestComp DEF UpdateInv
<1>3. ASSUME NEW o \in Ops, RequestCancel(o)
      PROVE  DoubtInv' /\ ForwardInv' /\ CompInv'
  <2>1. DoubtInv' /\ ForwardInv'
    BY <1>3 DEF RequestCancel, SetState
  <2> QED BY <1>3, <2>1, RequestComp DEF UpdateInv
<1>4. ASSUME NEW o \in Ops, Claim(o)
      PROVE  DoubtInv' /\ ForwardInv' /\ CompInv'
  BY <1>4, SMTT(20) DEF Claim, Durable
<1>5. CASE Crash
  BY <1>5, SMTT(20) DEF Crash
<1>6. CASE Complete
  BY <1>6, SMTT(20) DEF Complete, SetState
<1>7. CASE LoopCancel
  BY <1>7, SMTT(20) DEF LoopCancel, CancelDue, Durable, End, Honor, SetState
<1>8. CASE LoopStep
  BY <1>8, SMTT(20) DEF LoopStep, CancelDue, Execute, SetRow
<1>9. CASE Recover
  <2>1. CASE SetRow("CHECKPOINTED") /\ Goto("reverify")
    BY <1>9, <2>1 DEF Recover, SetRow
  <2>2. CASE /\ pc' = Execute /\ UNCHANGED <<op, worker, todo, ending>>
             /\ Probe(U, at[U]) # "COMPLETE"
    BY <1>9, <2>2, NotCommitted DEF Recover, Execute
  <2>3. CASE End("RECOVERY_REQUIRED")
    BY <1>9, <2>3 DEF Recover, End, SetState
  <2> QED BY <1>9, RecoverCases, <2>1, <2>2, <2>3
<1>10. CASE Reverify
  BY <1>10, SMTT(20) DEF Reverify, NextStep, Probe
<1>11. CASE EnterCritical
  BY <1>11, SMTT(20) DEF EnterCritical, Durable, End, Honor, SetState
<1>12. CASE Checkpoint
  BY <1>12, SMTT(20) DEF Checkpoint, SetRow
<1>13. CASE Verify
  BY <1>13, SMTT(20) DEF Verify, NextStep, Probe
<1>14. CASE EffectFails
  BY <1>14, SMTT(20) DEF EffectFails
<1>15. CASE Failed
  BY <1>15, SMTT(20) DEF Failed, Durable, End, SetState, Probe
<1>16. CASE VerifyRelease
  BY <1>16, SMTT(20) DEF VerifyRelease, Reservable
<1>17. CASE StageCandidate
  BY <1>17, SMTT(20) DEF StageCandidate
<1>18. CASE InstallStage
  BY <1>18, SMTT(20) DEF InstallStage
<1>19. CASE RegisterStage
  BY <1>19, SMTT(20) DEF RegisterStage
<1>20. CASE EnsureBackup
  BY <1>20, SMTT(20) DEF EnsureBackup
<1>21. CASE PromoteStage
  BY <1>21, SMTT(20) DEF PromoteStage
<1>22. CASE SwitchPrevious
  BY <1>22, SMTT(20) DEF SwitchPrevious
<1>23. CASE SwitchCurrent
  BY <1>23, SMTT(20) DEF SwitchCurrent
<1>24. CASE SwitchDone
  BY <1>24, SMTT(20) DEF SwitchDone
<1>25. CASE LaunchIntent
  BY <1>25, SMTT(20) DEF LaunchIntent
<1>26. CASE LaunchSpawn
  BY <1>26, SMTT(20) DEF LaunchSpawn
<1>27. CASE LaunchReturns
  BY <1>27, SMTT(20) DEF LaunchReturns, Awaited
<1>28. CASE LaunchTimesOut
  BY <1>28, SMTT(20) DEF LaunchTimesOut, Awaited
<1>29. CASE VerifyHealth
  BY <1>29, SMTT(20) DEF VerifyHealth
<1>30. CASE RecordInstallation
  BY <1>30, NewRecord DEF RecordInstallation
<1>31. CASE CompensationDone
  BY <1>31, SMTT(20) DEF CompensationDone, End, SetState
<1>32. CASE BeginCompensation
  BY <1>32, SMTT(20) DEF BeginCompensation, Last
<1>33. CASE ResumeCompensation
  <2>1. DoubtInv' /\ ForwardInv'
    BY <1>33, SMTT(20) DEF ResumeCompensation, Compensated, End, Last, SetState, Skip, IsRestored
  <2>2. CompInv'
    BY <1>33, UndoComp DEF UpdateInv
  <2> QED BY <2>1, <2>2
<1>34. CASE RestoreProfile
  <2>1. DoubtInv' /\ ForwardInv'
    BY <1>34, SMTT(20) DEF RestoreProfile, Compensated, Last, Skip
  <2>2. CompInv'
    BY <1>34, UndoComp DEF UpdateInv
  <2> QED BY <2>1, <2>2
<1>35. CASE RestorePrevious
  BY <1>35, SMTT(20) DEF RestorePrevious, Last
<1>36. CASE RestoreCurrent
  <2>1. DoubtInv' /\ ForwardInv'
    BY <1>36 DEF RestoreCurrent
  <2> QED BY <1>36, <2>1, RestoreCurrentComp DEF UpdateInv
<1>37. CASE RestoreUnchanged
  <2>1. DoubtInv' /\ ForwardInv'
    BY <1>37, SMTT(20) DEF RestoreUnchanged, Last, Skip
  <2>2. CompInv'
    BY <1>37, UndoComp DEF UpdateInv
  <2> QED BY <2>1, <2>2
<1>38. CASE RestoreVerified
  <2>1. DoubtInv' /\ ForwardInv'
    BY <1>38, SMTT(20) DEF RestoreVerified, Compensated, Last, Skip, IsRestored
  <2>2. CompInv'
    BY <1>38, UndoComp DEF UpdateInv
  <2> QED BY <2>1, <2>2
<1>39. CASE UndoFails
  BY <1>39, SMTT(20) DEF UndoFails, Last, Skip
<1>40. ASSUME NEW c \in child, Child(c) \/ ChildDies(c)
      PROVE  DoubtInv' /\ ForwardInv' /\ CompInv'
  BY <1>40, ChildFrame, CoreFrame
<1> QED BY <1>1, <1>2, <1>3, <1>4, <1>5, <1>6, <1>7, <1>8, <1>9, <1>10, <1>11, <1>12, <1>13,
    <1>14, <1>15, <1>16, <1>17, <1>18, <1>19, <1>20, <1>21, <1>22, <1>23, <1>24, <1>25, <1>26,
    <1>27, <1>28, <1>29, <1>30, <1>31, <1>32, <1>33, <1>34, <1>35, <1>36, <1>37, <1>38, <1>39,
    <1>40 DEF Next, Engine, Effects

-----------------------------------------------------------------------------
(* The record and the schema of the profile.                               *)

\* application_installations agrees with application_installation_state.
RecordRows ==
    \A r \in Releases : /\ rec[r] = "CURRENT" <=> r = truth.current
                        /\ rec[r] = "PREVIOUS" <=> r = truth.previous

\* The candidate updates from the schema in use, or it is the slot before this.
Fits(o) ==
    \/ /\ req[o].mode = "APPLY"
       /\ Source[req[o].cand] = Target[req[o].ec] /\ Source[req[o].cand] <= Target[req[o].cand]
    \/ req[o].mode = "ROLLBACK" /\ req[o].cand = req[o].ep

\* A request that can still be reserved, or is, was made of the running slot.
AskedInv(o) ==
    /\ req[o].gen <= truth.generation
    /\ /\ state[o] # "QUEUED" /\ req[o].gen = truth.generation
       /\ truth.pending \in {None, o}
       => Fits(o)

\* A replacement process that outlived its update's reservation finds the
\* profile at its schema or a newer one.
ChildInv(c) ==
    /\ state[c.op] # "QUEUED" /\ Began(c.op, 5) /\ c.nonce # 0
    /\ c.pc = "migrated" \/ truth.pending # c.op => Target[req[c.op].cand] <= schema

\* An acknowledged update has its schema until it is recorded; one that
\* changed the schema never counts as compensated.
AckInv(o) ==
    /\ ack[o] # 0 => Began(o, 5)
    /\ ack[o] # 0 /\ truth.pending = o => schema = Target[req[o].cand]
    /\ at[o] > 5 => ack[o] # 0
    /\ NeedsRestore(o) => 5 \notin undone[o]

\* What the update that holds the reservation did to the schema.
HeldInv(o) ==
    truth.pending = o =>
        /\ at[o] <= 7 /\ state[o] # "SUCCEEDED"
        /\ schema \in {Target[truth.current], Target[req[o].cand]}
        /\ ~ Began(o, 5) => schema = Target[truth.current]
        /\ NeedsRestore(o) /\ Began(o, 5)
             => state[o] \notin {"FAILED_SAFE", "FAILED_ROLLED_BACK", "CANCELLED"}

\* The schema never falls behind the recorded release, nor that behind the one
\* before it, and without a reservation it is the recorded release's.
SchemaInv ==
    /\ Target[truth.current] <= schema
    /\ truth.previous # None => Target[truth.previous] <= Target[truth.current]
    /\ truth.pending = None => schema = Target[truth.current]
    /\ pc = "spawn" => intent[worker] # 0

\* Requests, acknowledgements, processes and the schema agree.
SchemaPart ==
    /\ SchemaInv
    /\ \A o \in Ops : AskedInv(o) /\ AckInv(o) /\ HeldInv(o)
    /\ \A c \in child : ChildInv(c)

\* The inductive invariant of the record and the schema.
FitInv == RecordRows /\ SchemaPart

\* Rows are written by insert_staged and by record_installation only.
LEMMA RowsOfRecord ==
    ASSUME TypeOK, UpdateInv, RecordRows, Next
    PROVE  RecordRows'
<1>1. CASE UNCHANGED <<rec, truth>>
  BY <1>1 DEF RecordRows
<1>2. CASE VerifyRelease
  <2>1. UNCHANGED rec /\ truth'.current = truth.current /\ truth'.previous = truth.previous
    BY <1>2 DEF VerifyRelease, TypeOK
  <2> QED BY <2>1 DEF RecordRows
<1>3. CASE RegisterStage
  <2>1. UNCHANGED truth /\ \A r \in Releases : rec'[r] = IF r = req[U].cand /\ rec[r] = "none"
                                                         THEN "STAGED" ELSE rec[r]
    BY <1>3 DEF RegisterStage, TypeOK
  <2> QED BY <2>1 DEF RecordRows
<1>4. CASE RecordInstallation
  <2>1. CASE UNCHANGED <<rec, truth>>
    BY <2>1 DEF RecordRows
  <2>2. CASE rec' = CommittedRows(U) /\ Committable(U)
             /\ truth' = [current |-> req[U].cand, previous |-> req[U].ec,
                          generation |-> truth.generation + 1, pending |-> None]
    <3>1. req[U].cand # req[U].ec /\ req[U].ec = truth.current /\ req[U].ep = truth.previous
      BY <2>2 DEF Committable, Expected
    <3> QED BY <2>2, <3>1 DEF RecordRows, CommittedRows
  <2> QED BY <1>4, <2>1, <2>2 DEF RecordInstallation
<1>5. Next => UNCHANGED <<rec, truth>> \/ VerifyRelease \/ RegisterStage \/ RecordInstallation
  <2> USE DEF world
  <2>1. ASSUME NEW o \in Ops, \/ \E r \in Releases : Apply(o, r)
                              \/ Rollback(o) \/ RequestCancel(o) \/ Claim(o)
        PROVE  UNCHANGED <<rec, truth>>
    BY <2>1 DEF Apply, Rollback, Enqueued, RequestCancel, Claim
  <2>2. Engine => UNCHANGED <<rec, truth>>
    BY DEF Engine, Complete, LoopCancel, LoopStep, Recover, Reverify, EnterCritical, Checkpoint,
           Verify, Failed, CompensationDone, BeginCompensation, ResumeCompensation
  <2>3. Effects =>
          UNCHANGED <<rec, truth>> \/ VerifyRelease \/ RegisterStage \/ RecordInstallation
    BY DEF Effects, StageCandidate, InstallStage, EnsureBackup, PromoteStage, SwitchPrevious,
           SwitchCurrent, SwitchDone, LaunchIntent, LaunchSpawn, LaunchReturns, VerifyHealth,
           RestoreProfile, RestorePrevious, RestoreCurrent, RestoreUnchanged, RestoreVerified
  <2>4. Crash \/ EffectFails \/ UndoFails \/ LaunchTimesOut => UNCHANGED <<rec, truth>>
    BY DEF Crash, EffectFails, UndoFails, LaunchTimesOut
  <2> QED BY <2>1, <2>2, <2>3, <2>4, ChildFrame DEF Next
<1> QED BY <1>1, <1>2, <1>3, <1>4, <1>5

\* A step that moves one active update, and only in its rows.
LEMMA RowsOnly ==
    ASSUME TypeOK, SchemaPart, UNCHANGED <<truth, schema, ack, child, req>>,
           pc' = "spawn" => intent'[worker'] # 0,
           NEW w \in Ops, state[w] \in Active, state'[w] # "QUEUED",
           \A p \in Ops \ {w} : /\ state'[p] = state[p] /\ at'[p] = at[p] /\ row'[p] = row[p]
                                /\ undone'[p] = undone[p],
           Began(w, 5) => Began(w, 5)',
           at'[w] > 5 => ack[w] # 0,
           truth.pending = w => at'[w] <= 7 /\ state'[w] # "SUCCEEDED",
           NeedsRestore(w) => 5 \notin undone'[w],
           truth.pending = w /\ NeedsRestore(w) /\ Began(w, 5)'
             => state'[w] \notin {"FAILED_SAFE", "FAILED_ROLLED_BACK", "CANCELLED"}
    PROVE  SchemaPart'
<1>1. SchemaInv'
  BY DEF SchemaPart, SchemaInv
<1>2. ASSUME NEW p \in Ops \ {w} PROVE Began(p, 5)' <=> Began(p, 5)
  BY <1>2 DEF Began
<1>3. \A p \in Ops : NeedsRestore(p)' <=> NeedsRestore(p)
  BY DEF NeedsRestore
<1> HIDE DEF Began, NeedsRestore
<1>4. ASSUME NEW p \in Ops PROVE AskedInv(p)'
  BY <1>4 DEF SchemaPart, AskedInv, Fits, Active
<1>5. ASSUME NEW p \in Ops PROVE AckInv(p)'
  BY <1>5, <1>2, <1>3 DEF SchemaPart, AckInv
<1>6. ASSUME NEW p \in Ops PROVE HeldInv(p)'
  BY <1>6, <1>2, <1>3 DEF SchemaPart, HeldInv
<1>7. ASSUME NEW c \in child PROVE ChildInv(c)'
  <2>1. c.op \in Ops
    BY <1>7 DEF TypeOK, Processes
  <2> QED BY <1>7, <1>2, <2>1 DEF SchemaPart, ChildInv
<1> QED BY <1>1, <1>4, <1>5, <1>6, <1>7 DEF SchemaPart

\* A step that leaves the rows alone too.
LEMMA SchemaFrame ==
    ASSUME SchemaPart, UNCHANGED <<truth, schema, ack, child, req, op>>,
           pc' = "spawn" => intent'[worker'] # 0
    PROVE  SchemaPart'
  BY DEF SchemaPart, SchemaInv, AskedInv, AckInv, HeldInv, ChildInv, Fits, Began, NeedsRestore, op

\* A terminal transaction of an update whose schema stays: it did not reach
\* step 5, or it needs no restore, or it needs attention.
LEMMA EndSchema ==
    ASSUME TypeOK, WorkerInv, UpdateInv, SchemaPart, worker # None,
           NEW t \in Endings \cup {"FAILED_SAFE"}, End(t),
           t # "RECOVERY_REQUIRED" => ~ Began(U, 5) \/ ~ NeedsRestore(U),
           UNCHANGED <<world, proc, req, faults>>
    PROVE  SchemaPart'
<1>1. /\ U \in Ops /\ state[U] \in Active /\ pc' = "idle"
      /\ UNCHANGED <<truth, schema, ack, child, req, at, row, undone>>
      /\ state' = [state EXCEPT ![U] = IF CanTransition(state[U], t) THEN t ELSE state[U]]
  BY DEF End, Leave, SetState, world, proc, WorkerInv, TypeOK, U
<1>2. state'[U] \in {t, state[U]} /\ \A p \in Ops \ {U} : state'[p] = state[p]
  BY <1>1 DEF TypeOK
<1>3. \A p : (Began(p, 5)' <=> Began(p, 5)) /\ (NeedsRestore(p)' <=> NeedsRestore(p))
  BY <1>1 DEF Began, NeedsRestore
<1>4. /\ at[U] > 5 => ack[U] # 0
      /\ truth.pending = U => at[U] <= 7
      /\ NeedsRestore(U) => 5 \notin undone[U]
  BY <1>1 DEF SchemaPart, AckInv, HeldInv
<1>5. /\ t \notin {"QUEUED", "SUCCEEDED"}
      /\ state[U] \notin {"QUEUED", "SUCCEEDED", "FAILED_SAFE", "FAILED_ROLLED_BACK", "CANCELLED"}
  BY <1>1 DEF Endings, Active
<1> HIDE DEF U
<1> QED BY <1>1, <1>2, <1>3, <1>4, <1>5, RowsOnly

\* _honor_cancellation: an update whose migration is published compensates it.
LEMMA HonorSchema ==
    ASSUME TypeOK, WorkerInv, UpdateInv, SchemaPart, worker # None, at[U] \in StepNo, Honor,
           UNCHANGED <<world, proc, req, faults>>
    PROVE  SchemaPart'
<1>1. CASE Durable(U) # {}
  BY <1>1, SchemaFrame DEF Honor, world, proc
<1>2. CASE Durable(U) = {}
  <2>1. Began(U, 5) => 5 \in undone[U]
    BY <1>2 DEF Durable, Undoable, Began
  <2>2. U \in Ops /\ (NeedsRestore(U) => 5 \notin undone[U])
    BY DEF SchemaPart, AckInv, U, TypeOK
  <2> QED BY <1>2, <2>1, <2>2, EndSchema DEF Honor, Endings
<1> QED BY <1>1, <1>2

\* The next step: step 5 is left only with its acknowledgement, step 7 only
\* once the reservation is gone.
LEMMA NextStepSchema ==
    ASSUME TypeOK, WorkerInv, UpdateInv, SchemaPart, worker # None, at[U] \in StepNo,
           Probe(U, at[U]) = "COMPLETE", NEW t \in {state[U], "VERIFYING"}, NextStep(t),
           pc' = "loop", UNCHANGED <<world, proc, req, faults>>
    PROVE  SchemaPart'
<1>0. PICK w \in Ops : w = worker
  BY DEF TypeOK
<1>1. /\ state[w] \in Active
      /\ UNCHANGED <<truth, schema, ack, child, req, undone>>
  BY <1>0 DEF NextStep, world, proc, WorkerInv, TypeOK, U
<1>2. /\ at'[w] = at[w] + 1 /\ state'[w] = t
      /\ \A p \in Ops \ {w} : /\ state'[p] = state[p] /\ at'[p] = at[p] /\ row'[p] = row[p]
                              /\ undone'[p] = undone[p]
  BY <1>0, <1>1 DEF NextStep, TypeOK, U
<1>3. at[w] = 5 => ack[w] # 0
  BY <1>0 DEF Probe, AckVerified, U
<1>4. at[w] = 7 => truth.pending # w
  BY <1>0, SlotsAssumption DEF Probe, Recorded, U
<1>5. /\ at[w] > 5 => ack[w] # 0
      /\ NeedsRestore(w) => 5 \notin undone[w]
  BY <1>0, <1>1 DEF SchemaPart, AckInv
<1>6. at[w] \in 1..7 /\ (Began(w, 5) => Began(w, 5)')
  BY <1>0, <1>2 DEF Began, StepNo, U
<1>7. state'[w] \notin {"QUEUED", "SUCCEEDED", "FAILED_SAFE", "FAILED_ROLLED_BACK", "CANCELLED"}
  BY <1>0, <1>1, <1>2 DEF Active, U
<1> HIDE DEF Began, NeedsRestore
<1>8. at'[w] > 5 => ack[w] # 0
  BY <1>2, <1>3, <1>5, <1>6
<1>9. truth.pending = w => at'[w] <= 7
  BY <1>2, <1>4, <1>6
<1> QED BY <1>1, <1>2, <1>5, <1>6, <1>7, <1>8, <1>9, RowsOnly

\* A step row of the worker's update moves, or its compensation begins.
LEMMA MarkSchema ==
    ASSUME TypeOK, WorkerInv, UpdateInv, SchemaPart, worker # None,
           \/ SetRow("RUNNING") \/ SetRow("CHECKPOINTED")
           \/ UNCHANGED <<state, at, row, undone>>,
           pc' # "spawn", UNCHANGED <<world, proc, req, faults>>
    PROVE  SchemaPart'
<1>0. PICK w \in Ops : w = worker
  BY DEF TypeOK
<1>1. /\ state[w] \in Active
      /\ UNCHANGED <<truth, schema, ack, child, req, state, at, undone>>
  BY <1>0 DEF SetRow, world, proc, WorkerInv, TypeOK, U
<1>2. \/ row' = row
      \/ row' = [row EXCEPT ![w] = "RUNNING"]
      \/ row' = [row EXCEPT ![w] = "CHECKPOINTED"]
  BY <1>0 DEF SetRow, U
<1>3. (\A p \in Ops \ {w} : row'[p] = row[p]) /\ row'[w] \in {row[w], "RUNNING", "CHECKPOINTED"}
  BY <1>1, <1>2 DEF TypeOK
<1>4. Began(w, 5) => Began(w, 5)'
  BY <1>1, <1>3 DEF Began
<1>5. /\ at[w] > 5 => ack[w] # 0
      /\ truth.pending = w => at[w] <= 7
      /\ NeedsRestore(w) => 5 \notin undone[w]
  BY <1>0, <1>1 DEF SchemaPart, AckInv, HeldInv
<1>6. state[w] \notin {"QUEUED", "SUCCEEDED", "FAILED_SAFE", "FAILED_ROLLED_BACK", "CANCELLED"}
  BY <1>0, <1>1 DEF Active
<1> HIDE DEF Began, NeedsRestore
<1> QED BY <1>1, <1>3, <1>4, <1>5, <1>6, RowsOnly

\* A state that is not an end.
LEMMA StateSchema ==
    ASSUME TypeOK, WorkerInv, UpdateInv, SchemaPart, NEW o \in Ops, state[o] \in Active,
           NEW t \in {"CANCEL_REQUESTED", "COMMITTING", "ROLLING_BACK", "SUCCEEDED"},
           t = "SUCCEEDED" => at[o] = 8,
           SetState(o, t), UNCHANGED <<world, proc, req, faults>>,
           pc' = "spawn" => intent'[worker'] # 0
    PROVE  SchemaPart'
<1>1. UNCHANGED <<truth, schema, ack, child, req, at, row, undone>>
  BY DEF SetState, world, proc
<1>2. state'[o] = t /\ \A p \in Ops \ {o} : state'[p] = state[p]
  BY DEF SetState, TypeOK
<1>3. Began(o, 5) => Began(o, 5)'
  BY <1>1 DEF Began
<1>4. /\ at[o] > 5 => ack[o] # 0
      /\ truth.pending = o => at[o] <= 7
      /\ NeedsRestore(o) => 5 \notin undone[o]
  BY DEF SchemaPart, AckInv, HeldInv
<1> HIDE DEF Began, NeedsRestore
<1> QED BY <1>1, <1>2, <1>3, <1>4, RowsOnly

\* A compensation counts as done: the one of step 5 only without a migration.
LEMMA CompensatedSchema ==
    ASSUME TypeOK, WorkerInv, UpdateInv, SchemaPart, worker # None, Compensated,
           Last = 5 => ~ NeedsRestore(U), pc' = "comp", UNCHANGED <<world, proc, req, faults>>
    PROVE  SchemaPart'
<1>0. PICK w \in Ops : w = worker
  BY DEF TypeOK
<1>1. /\ state[w] \in Active
      /\ UNCHANGED <<truth, schema, ack, child, req, state, at, row>>
  BY <1>0 DEF Compensated, world, proc, WorkerInv, TypeOK, U
<1>2. undone'[w] = undone[w] \cup {Last} /\ \A p \in Ops \ {w} : undone'[p] = undone[p]
  BY <1>0, <1>1 DEF Compensated, TypeOK, U
<1>3. Began(w, 5) => Began(w, 5)'
  BY <1>0, <1>1 DEF Began
<1>4. /\ at[w] > 5 => ack[w] # 0
      /\ truth.pending = w => at[w] <= 7
      /\ NeedsRestore(w) => 5 \notin undone[w]
  BY <1>0, <1>1 DEF SchemaPart, AckInv, HeldInv
<1>5. state[w] \notin {"QUEUED", "SUCCEEDED", "FAILED_SAFE", "FAILED_ROLLED_BACK", "CANCELLED"}
  BY <1>0, <1>1 DEF Active
<1> HIDE DEF Began, NeedsRestore, Last
<1>6. NeedsRestore(w) => 5 \notin undone'[w]
  BY <1>0, <1>2, <1>4 DEF U
<1> QED BY <1>1, <1>2, <1>3, <1>4, <1>5, <1>6, RowsOnly

\* A new request is made of the running slot, in the schema it runs on.
LEMMA RequestSchema ==
    ASSUME TypeOK, WorkerInv, UpdateInv, SchemaPart, NEW o \in Ops,
           (\E r \in Releases : Apply(o, r)) \/ Rollback(o)
    PROVE  SchemaPart'
<1>1. PICK m \in {"APPLY", "ROLLBACK"}, r \in Releases :
        /\ Enqueued(o, m, r)
        /\ m = "APPLY" => Source[r] = Target[link.current] /\ Source[r] <= Target[r]
        /\ m = "ROLLBACK" => r = truth.previous
  BY DEF Apply, Rollback, TypeOK
<1>2. /\ state[o] = "QUEUED" /\ truth.pending # o /\ at[o] = 1 /\ undone[o] = {}
      /\ truth.pending = None => link.current = truth.current
  BY <1>1 DEF Enqueued, UpdateInv, RowInv, TruthInv
<1>3. /\ UNCHANGED <<truth, schema, ack, child, at, row, undone, pc, intent, worker>>
      /\ \A p \in Ops \ {o} : state'[p] = state[p] /\ req'[p] = req[p]
      /\ req'[o] = [mode |-> m, cand |-> r, ec |-> truth.current, ep |-> truth.previous,
                    gen |-> truth.generation]
  BY <1>1 DEF Enqueued, SetState, world, proc, run, TypeOK
<1>4. ASSUME NEW p \in Ops PROVE Began(p, 5)' <=> Began(p, 5)
  BY <1>3 DEF Began
<1>5. ASSUME NEW p \in Ops \ {o} PROVE NeedsRestore(p)' <=> NeedsRestore(p)
  BY <1>3, <1>5 DEF NeedsRestore
<1>6. ~ Began(o, 5)
  BY <1>2 DEF Began
<1> HIDE DEF Began, NeedsRestore
<1>7. SchemaInv'
  BY <1>3 DEF SchemaPart, SchemaInv
<1>8. ASSUME NEW p \in Ops PROVE AskedInv(p)' /\ AckInv(p)' /\ HeldInv(p)'
  <2>1. CASE p # o
    BY <1>3, <1>4, <1>5, <1>8, <2>1 DEF SchemaPart, AskedInv, AckInv, HeldInv, Fits
  <2>2. CASE p = o
    <3>1. AskedInv(o)'
      BY <1>1, <1>2, <1>3 DEF AskedInv, Fits, TypeOK
    <3>2. AckInv(o)' /\ HeldInv(o)'
      BY <1>2, <1>3, <1>4, <1>6 DEF SchemaPart, AckInv, HeldInv
    <3> QED BY <2>2, <3>1, <3>2
  <2> QED BY <2>1, <2>2
<1>9. ASSUME NEW c \in child PROVE ChildInv(c)'
  <2>1. c.op \in Ops /\ c.op # o
    BY <1>2, <1>9 DEF TypeOK, Processes, SchemaPart, ChildInv
  <2> QED BY <1>3, <1>4, <1>9, <2>1 DEF SchemaPart, ChildInv
<1> QED BY <1>3, <1>7, <1>8, <1>9 DEF SchemaPart

\* verify_release reserves what was asked of the recorded release.
LEMMA ReserveSchema ==
    ASSUME TypeOK, WorkerInv, UpdateInv, SchemaPart, VerifyRelease
    PROVE  SchemaPart'
<1>0. PICK w \in Ops : w = worker
  BY DEF VerifyRelease, Doing, At, U, TypeOK
<1>1. /\ at[w] = 1 /\ state[w] \in Active /\ pc' # "spawn"
      /\ UNCHANGED <<schema, ack, child, req, op>>
  BY <1>0 DEF VerifyRelease, Doing, At, U, proc, Goto, WorkerInv
<1>2. CASE UNCHANGED truth
  BY <1>1, <1>2, SchemaFrame
<1>3. CASE Reservable(w) /\ truth' = [truth EXCEPT !.pending = w]
  <2>1. /\ truth.pending \in {None, w} /\ truth'.pending = w
        /\ truth'.current = truth.current /\ truth'.previous = truth.previous
        /\ truth'.generation = truth.generation
    BY <1>3 DEF Reservable, TypeOK
  <2>2. ~ Began(w, 5) /\ ack[w] = 0
    BY <1>1 DEF Began, SchemaPart, AckInv
  <2>3. \A p : (Began(p, 5)' <=> Began(p, 5)) /\ (NeedsRestore(p)' <=> NeedsRestore(p))
    BY <1>1 DEF Began, NeedsRestore, op
  <2>4. schema = Target[truth.current]
    BY <2>1, <2>2 DEF SchemaPart, SchemaInv, HeldInv
  <2> HIDE DEF Began, NeedsRestore
  <2>5. SchemaInv'
    BY <1>1, <2>1, SlotsAssumption DEF SchemaPart, SchemaInv
  <2>6. ASSUME NEW p \in Ops PROVE AskedInv(p)' /\ AckInv(p)' /\ HeldInv(p)'
    <3>1. AskedInv(p)'
      BY <1>1, <2>1, <2>6, SlotsAssumption DEF SchemaPart, AskedInv, Fits, op
    <3>2. AckInv(p)'
      BY <1>1, <2>1, <2>2, <2>3, <2>6 DEF SchemaPart, AckInv, op
    <3>3. HeldInv(p)'
      BY <1>1, <2>1, <2>2, <2>3, <2>4, <2>6 DEF SchemaPart, HeldInv, Active, op
    <3> QED BY <3>1, <3>2, <3>3
  <2>7. ASSUME NEW c \in child PROVE ChildInv(c)'
    <3>1. c.op \in Ops /\ c.op # w
      BY <2>2, <2>7 DEF TypeOK, Processes, SchemaPart, ChildInv
    <3>2. UNCHANGED state
      BY <1>1 DEF op
    <3>3. truth'.pending # c.op /\ truth.pending # c.op
      BY <2>1, <3>1, SlotsAssumption
    <3> QED BY <1>1, <2>3, <2>7, <3>1, <3>2, <3>3 DEF SchemaPart, ChildInv
  <2> QED BY <1>1, <2>5, <2>6, <2>7 DEF SchemaPart
<1> QED BY <1>0, <1>2, <1>3 DEF VerifyRelease, U

\* record_installation records the schema that was acknowledged.
LEMMA RecordSchema ==
    ASSUME TypeOK, WorkerInv, UpdateInv, SchemaPart, RecordInstallation
    PROVE  SchemaPart'
<1>0. PICK w \in Ops : w = worker
  BY NewRecord
<1>1. /\ at[w] = 7 /\ truth.pending = w /\ pc' # "spawn"
      /\ UNCHANGED <<schema, ack, child, req, op>>
  BY <1>0, NewRecord DEF RecordInstallation, proc
<1>2. CASE UNCHANGED truth
  BY <1>1, <1>2, SchemaFrame
<1>3. CASE /\ truth'.current = req[w].cand /\ truth'.previous = req[w].ec
           /\ truth'.generation = req[w].gen + 1 /\ truth'.pending = None
  <2>1. truth.current = req[w].ec /\ truth.generation = req[w].gen
    BY <1>1 DEF UpdateInv, LinkInv, Expected
  <2>2. schema = Target[req[w].cand]
    BY <1>1 DEF SchemaPart, AckInv
  <2>3. \A p : (Began(p, 5)' <=> Began(p, 5)) /\ (NeedsRestore(p)' <=> NeedsRestore(p))
    BY <1>1 DEF Began, NeedsRestore, op
  <2> HIDE DEF Began, NeedsRestore
  <2>4. SchemaInv'
    BY <1>0, <1>1, <1>3, <2>1, <2>2, SlotsAssumption DEF SchemaPart, SchemaInv, TypeOK, Requests
  <2>5. ASSUME NEW p \in Ops PROVE AskedInv(p)' /\ AckInv(p)' /\ HeldInv(p)'
    <3>1. AskedInv(p)'
      <4>1. req[p].gen \in Nat /\ req[p].gen <= truth.generation /\ truth.generation \in Nat
        BY <2>5 DEF SchemaPart, AskedInv, TypeOK, Requests
      <4>2. req'[p].gen < truth'.generation
        BY <1>1, <1>3, <2>1, <4>1
      <4>3. truth'.generation \in Nat /\ req'[p].gen \in Nat
        BY <1>1, <1>3, <2>1, <4>1
      <4> QED BY <4>2, <4>3 DEF AskedInv
    <3>2. AckInv(p)' /\ HeldInv(p)'
      BY <1>1, <1>3, <2>3, <2>5, SlotsAssumption DEF SchemaPart, AckInv, HeldInv, op
    <3> QED BY <3>1, <3>2
  <2>6. ASSUME NEW c \in child PROVE ChildInv(c)'
    <3>1. c.op \in Ops /\ UNCHANGED state
      BY <1>1, <2>6 DEF TypeOK, Processes, op
    <3>2. Target[req[c.op].cand] <= schema
      BY <1>0, <1>1, <2>2, <2>6, <3>1, SlotsAssumption
      DEF SchemaPart, ChildInv, TypeOK, Requests
    <3> QED BY <1>1, <2>3, <2>6, <3>1, <3>2 DEF SchemaPart, ChildInv
  <2> QED BY <1>1, <2>4, <2>5, <2>6 DEF SchemaPart
<1> QED BY <1>0, <1>2, <1>3, NewRecord

\* A new process belongs to the update that holds the reservation.
LEMMA SpawnSchema ==
    ASSUME TypeOK, WorkerInv, UpdateInv, SchemaPart, LaunchSpawn
    PROVE  SchemaPart'
<1>0. PICK w \in Ops : w = worker
  BY DEF LaunchSpawn, At, TypeOK
<1>1. /\ pc = "spawn" /\ pc' # "spawn" /\ UNCHANGED <<truth, schema, ack, req, op>>
      /\ child' = child \cup {[op |-> w, nonce |-> intent[w], pc |-> "new"]}
  BY <1>0 DEF LaunchSpawn, At, Goto, world, U
<1>2. at[w] = 5 /\ row[w] # "PENDING" /\ state[w] \in Active /\ intent[w] # 0
  BY <1>0, <1>1 DEF WorkerInv, UpdateInv, ForwardInv, CompPcs, SchemaPart, SchemaInv
<1>3. truth.pending = w
  BY <1>0, <1>2 DEF UpdateInv, RowInv, Committed
<1>4. /\ \A p : (Began(p, 5)' <=> Began(p, 5)) /\ (NeedsRestore(p)' <=> NeedsRestore(p))
      /\ Began(w, 5)
  BY <1>1, <1>2 DEF Began, NeedsRestore, op
<1> HIDE DEF Began, NeedsRestore
<1>5. SchemaInv'
  BY <1>1 DEF SchemaPart, SchemaInv
<1>6. ASSUME NEW p \in Ops PROVE AskedInv(p)' /\ AckInv(p)' /\ HeldInv(p)'
  BY <1>1, <1>4, <1>6 DEF SchemaPart, AskedInv, AckInv, HeldInv, Fits, op
<1>7. ASSUME NEW c \in child' PROVE ChildInv(c)'
  <2>1. UNCHANGED state
    BY <1>1 DEF op
  <2>2. CASE c \in child
    BY <1>1, <1>4, <2>1, <2>2 DEF SchemaPart, ChildInv
  <2>3. CASE c = [op |-> w, nonce |-> intent[w], pc |-> "new"]
    BY <1>1, <1>2, <1>3, <1>4, <2>1, <2>3 DEF ChildInv, Active
  <2> QED BY <1>1, <1>7, <2>2, <2>3
<1> QED BY <1>5, <1>6, <1>7 DEF SchemaPart

\* run_post_update_mode: only the process of the reserving update can find a
\* profile older than its own schema.
LEMMA ChildSchema ==
    ASSUME TypeOK, WorkerInv, UpdateInv, SchemaPart, NEW c \in child, Child(c) \/ ChildDies(c)
    PROVE  SchemaPart'
<1>1. UNCHANGED <<truth, req, op, run, intent>>
  BY DEF Child, ChildChecks, ChildMigrates, ChildAcknowledges, ChildDies, world
<1>2. c.op \in Ops /\ ChildInv(c)
  BY DEF TypeOK, Processes, SchemaPart
<1>3. /\ \A p : (Began(p, 5)' <=> Began(p, 5)) /\ (NeedsRestore(p)' <=> NeedsRestore(p))
      /\ UNCHANGED state
  BY <1>1 DEF Began, NeedsRestore, op
<1> HIDE DEF Began, NeedsRestore
<1>4. CASE UNCHANGED <<schema, ack>> /\ child' \subseteq child \cup {[c EXCEPT !.pc = "checked"]}
  <2>1. ASSUME NEW d \in child' PROVE ChildInv(d)'
    <3>1. CASE d \in child
      BY <1>1, <1>3, <1>4, <3>1 DEF SchemaPart, ChildInv
    <3>2. CASE d = [c EXCEPT !.pc = "checked"]
      <4>1. d.op = c.op /\ d.nonce = c.nonce /\ d.pc = "checked"
        BY <3>2 DEF TypeOK, Processes
      <4> QED BY <1>1, <1>2, <1>3, <1>4, <4>1 DEF ChildInv
    <3> QED BY <1>4, <2>1, <3>1, <3>2
  <2>2. SchemaInv'
    BY <1>1, <1>4 DEF SchemaPart, SchemaInv, run
  <2>3. ASSUME NEW p \in Ops PROVE AskedInv(p)' /\ AckInv(p)' /\ HeldInv(p)'
    BY <1>1, <1>3, <1>4, <2>3 DEF SchemaPart, AskedInv, AckInv, HeldInv, Fits, op
  <2> QED BY <2>1, <2>2, <2>3 DEF SchemaPart
<1>5. CASE /\ schema <= Target[req[c.op].cand] /\ schema' = Target[req[c.op].cand]
           /\ child' = (child \ {c}) \cup {[c EXCEPT !.pc = "migrated"]} /\ UNCHANGED ack
  <2> DEFINE T == Target[req[c.op].cand]
  <2>0. schema \in Nat /\ T \in Nat /\ schema <= T /\ schema' = T
    BY <1>2, <1>5, SlotsAssumption DEF TypeOK, Requests
  <2>1. schema <= schema' /\ (truth.pending # c.op => schema' = schema)
    <3>1. truth.pending # c.op => T <= schema
      BY <1>2 DEF ChildInv
    <3> QED BY <2>0, <3>1
  <2>2. ASSUME NEW d \in child' PROVE ChildInv(d)'
    <3>1. CASE d \in child
      <4>1. d.op \in Ops
        BY <3>1 DEF TypeOK, Processes
      <4>2. /\ state[d.op] # "QUEUED" /\ Began(d.op, 5) /\ d.nonce # 0
            /\ d.pc = "migrated" \/ truth.pending # d.op => Target[req[d.op].cand] <= schema
        BY <3>1 DEF SchemaPart, ChildInv
      <4>3. Target[req[d.op].cand] \in Nat
        BY <4>1, SlotsAssumption DEF TypeOK, Requests
      <4>4. Target[req[d.op].cand] <= schema => Target[req[d.op].cand] <= schema'
        BY <2>0, <2>1, <4>3
      <4> QED BY <1>1, <1>3, <4>2, <4>4 DEF ChildInv
    <3>2. CASE d = [c EXCEPT !.pc = "migrated"]
      <4>1. d.op = c.op /\ d.nonce = c.nonce
        BY <3>2 DEF TypeOK, Processes
      <4>2. Target[req[c.op].cand] <= schema'
        BY <1>2, <1>5, SlotsAssumption DEF TypeOK, Requests
      <4> QED BY <1>1, <1>2, <1>3, <4>1, <4>2 DEF ChildInv
    <3> QED BY <1>5, <2>2, <3>1, <3>2
  <2>3. SchemaInv'
    <3>1. truth.pending = None => truth.pending # c.op
      BY <1>2, SlotsAssumption
    <3>2. Target[truth.current] <= schema'
      BY <1>2, <1>5, <2>1, SlotsAssumption DEF SchemaPart, SchemaInv, TypeOK, Requests
    <3> QED BY <1>1, <2>1, <3>1, <3>2 DEF SchemaPart, SchemaInv, run
  <2>4. ASSUME NEW p \in Ops PROVE AskedInv(p)' /\ AckInv(p)' /\ HeldInv(p)'
    <3>1. AskedInv(p)'
      BY <1>1, <1>3, <2>4 DEF SchemaPart, AskedInv, Fits
    <3>2. AckInv(p)'
      BY <1>1, <1>3, <1>5, <2>1, <2>4 DEF SchemaPart, AckInv, op
    <3>3. HeldInv(p)'
      BY <1>1, <1>2, <1>3, <1>5, <2>1, <2>4 DEF SchemaPart, HeldInv, ChildInv, op
    <3> QED BY <3>1, <3>2, <3>3
  <2> QED BY <2>2, <2>3, <2>4 DEF SchemaPart
<1>6. CASE /\ ack' = [ack EXCEPT ![c.op] = IF schema = Target[req[c.op].cand] THEN c.nonce ELSE @]
           /\ child' = child \ {c} /\ UNCHANGED schema
  <2>1. ASSUME NEW d \in child' PROVE ChildInv(d)'
    BY <1>1, <1>3, <1>6, <2>1 DEF SchemaPart, ChildInv
  <2>2. SchemaInv'
    BY <1>1, <1>6 DEF SchemaPart, SchemaInv, run
  <2>3. ASSUME NEW p \in Ops PROVE AskedInv(p)' /\ AckInv(p)' /\ HeldInv(p)'
    <3>1. /\ ack'[p] # 0 => ack[p] # 0 \/ (p = c.op /\ schema = Target[req[p].cand])
          /\ ack[p] # 0 => ack'[p] # 0
      BY <1>2, <1>6, <2>3 DEF TypeOK, ChildInv
    <3>2. AskedInv(p)' /\ HeldInv(p)'
      BY <1>1, <1>3, <1>6, <2>3 DEF SchemaPart, AskedInv, HeldInv, Fits, op
    <3>3. AckInv(p)'
      BY <1>1, <1>2, <1>3, <1>6, <2>3, <3>1 DEF SchemaPart, AckInv, ChildInv, op
    <3> QED BY <3>2, <3>3
  <2> QED BY <2>1, <2>2, <2>3 DEF SchemaPart
<1> QED BY <1>4, <1>5, <1>6
        DEF Child, ChildChecks, ChildMigrates, ChildAcknowledges, ChildDies, world

\* A process that was waited for too long is gone.
LEMMA TimeoutSchema ==
    ASSUME SchemaPart, LaunchTimesOut
    PROVE  SchemaPart'
<1>1. /\ child' \subseteq child /\ pc' # "spawn"
      /\ UNCHANGED <<truth, schema, ack, req, op>>
  BY DEF LaunchTimesOut, Goto, world
<1>2. \A p : (Began(p, 5)' <=> Began(p, 5)) /\ (NeedsRestore(p)' <=> NeedsRestore(p))
  BY <1>1 DEF Began, NeedsRestore, op
<1> HIDE DEF Began, NeedsRestore
<1> QED BY <1>1, <1>2
        DEF SchemaPart, SchemaInv, AskedInv, AckInv, HeldInv, ChildInv, Fits, op

\* Every step keeps the schema and the requests in agreement: one case per
\* action.
LEMMA SchemaStep ==
    ASSUME TypeOK, WorkerInv, UpdateInv, SchemaPart, Next
    PROVE  SchemaPart'
<1> USE DEF At, Doing, Goto, Leave
<1>1. ASSUME NEW o \in Ops, (\E r \in Releases : Apply(o, r)) \/ Rollback(o)
      PROVE  SchemaPart'
  BY <1>1, RequestSchema
<1>2. ASSUME NEW o \in Ops, RequestCancel(o)
      PROVE  SchemaPart'
  <2>1. pc = "spawn" => intent[worker] # 0
    BY DEF SchemaPart, SchemaInv
  <2> QED BY <1>2, <2>1, StateSchema DEF RequestCancel, Active, run, proc
<1>3. ASSUME NEW o \in Ops, Claim(o)
      PROVE  SchemaPart'
  BY <1>3, SchemaFrame DEF Claim, world, proc
<1>4. CASE Complete
  <2>1. worker \in Ops /\ state[worker] \in Active
    BY <1>4 DEF Complete, TypeOK, WorkerInv
  <2> QED BY <1>4, <2>1, StateSchema DEF Complete, U
<1>5. CASE LoopCancel
  BY <1>5, HonorSchema DEF LoopCancel
<1>6. CASE LoopStep
  <2>1. worker # None /\ pc' # "spawn" /\ UNCHANGED <<world, proc, req, faults>>
    BY <1>6 DEF LoopStep, Execute
  <2>2. SetRow("RUNNING") \/ UNCHANGED <<state, at, row, undone>>
    BY <1>6 DEF LoopStep, op
  <2> QED BY <2>1, <2>2, MarkSchema
<1>7. CASE Recover
  <2>1. worker # None /\ UNCHANGED <<world, proc, req, faults>>
    BY <1>7 DEF Recover
  <2>2. CASE SetRow("CHECKPOINTED") /\ Goto("reverify")
    BY <2>1, <2>2, MarkSchema
  <2>3. CASE pc' = Execute /\ UNCHANGED <<op, worker, todo, ending>>
    BY <2>1, <2>3, SchemaFrame DEF Execute, world, proc
  <2>4. CASE End("RECOVERY_REQUIRED")
    BY <2>1, <2>4, EndSchema DEF Endings
  <2> QED BY <1>7, RecoverCases, <2>2, <2>3, <2>4
<1>8. CASE Reverify
  <2>1. /\ worker # None /\ at[U] \in StepNo /\ UNCHANGED <<world, proc, req, faults>>
    BY <1>8 DEF Reverify, WorkerInv, CompPcs, U
  <2>2. CASE Probe(U, at[U]) = "COMPLETE"
    BY <1>8, <2>1, <2>2, NextStepSchema DEF Reverify
  <2>3. CASE Probe(U, at[U]) # "COMPLETE"
    BY <1>8, <2>3, SchemaFrame DEF Reverify, world, proc
  <2> QED BY <2>2, <2>3
<1>9. CASE EnterCritical
  <2>1. /\ worker \in Ops /\ state[worker] \in Active /\ at[U] \in StepNo
        /\ UNCHANGED <<world, proc, req, faults>>
    BY <1>9 DEF EnterCritical, WorkerInv, CompPcs, U, TypeOK
  <2>2. CASE Honor
    BY <1>9, <2>1, <2>2, HonorSchema, SlotsAssumption
  <2>3. CASE SetState(U, "COMMITTING") /\ Goto("effect")
    BY <2>1, <2>3, StateSchema DEF U
  <2> QED BY <1>9, <2>2, <2>3 DEF EnterCritical
<1>10. CASE Checkpoint
  BY <1>10, MarkSchema DEF Checkpoint
<1>11. CASE Verify
  <2>1. /\ worker # None /\ at[U] \in StepNo /\ UNCHANGED <<world, proc, req, faults>>
    BY <1>11 DEF Verify, WorkerInv, CompPcs, U
  <2>2. CASE Probe(U, at[U]) = "COMPLETE"
    BY <1>11, <2>1, <2>2, NextStepSchema DEF Verify
  <2>3. CASE Probe(U, at[U]) # "COMPLETE"
    BY <1>11, <2>3, SchemaFrame DEF Verify, world, proc
  <2> QED BY <2>2, <2>3
<1>12. CASE Failed
  <2>1. /\ worker \in Ops /\ state[worker] \in Active /\ at[U] \in StepNo
        /\ UNCHANGED <<world, proc, req, faults>>
    BY <1>12 DEF Failed, WorkerInv, CompPcs, U, TypeOK
  <2>2. CASE SetState(U, "ROLLING_BACK") /\ pc' = "comp"
    BY <2>1, <2>2, StateSchema DEF U
  <2>3. CASE End("FAILED_SAFE") /\ ~ at[U] > 4
    <3>1. ~ Began(U, 5)
      BY <2>1, <2>3 DEF Began, StepNo
    <3> QED BY <2>1, <2>3, <3>1, EndSchema, SlotsAssumption
  <2> QED BY <1>12, <2>2, <2>3 DEF Failed
<1>13. CASE CompensationDone
  <2>1. /\ worker \in Ops /\ End(ending) /\ ending \in Endings
        /\ UNCHANGED <<world, proc, req, faults>>
    BY <1>13 DEF CompensationDone, TypeOK
  <2>2. ending # "RECOVERY_REQUIRED" => (Began(U, 5) => 5 \in undone[U])
    BY <1>13 DEF CompensationDone, UpdateInv, CompInv, CompPcs, Undoable, U
  <2>3. NeedsRestore(U) => 5 \notin undone[U]
    BY <2>1 DEF SchemaPart, AckInv, U
  <2> QED BY <2>1, <2>2, <2>3, EndSchema, SlotsAssumption
<1>14. CASE BeginCompensation
  BY <1>14, MarkSchema DEF BeginCompensation
<1>15. CASE ResumeCompensation \/ RestoreProfile \/ RestoreVerified
  <2>1. /\ worker # None /\ UNCHANGED <<world, proc, req, faults>>
        /\ \/ Compensated /\ (Last = 5 => ~ NeedsRestore(U)) /\ pc' = "comp"
           \/ UNCHANGED op /\ pc' # "spawn"
           \/ End("RECOVERY_REQUIRED")
    <3>1. CASE ResumeCompensation
      BY <3>1 DEF ResumeCompensation, Skip
    <3>2. CASE RestoreProfile
      BY <3>2 DEF RestoreProfile, Skip
    <3>3. CASE RestoreVerified
      <4>1. Last = 4
        BY <3>3 DEF RestoreVerified, UpdateInv, CompInv, CompPcs
      <4> QED BY <3>3, <4>1 DEF RestoreVerified, Skip
    <3> QED BY <1>15, <3>1, <3>2, <3>3
  <2>2. CASE Compensated /\ (Last = 5 => ~ NeedsRestore(U)) /\ pc' = "comp"
    BY <2>1, <2>2, CompensatedSchema
  <2>3. CASE UNCHANGED op /\ pc' # "spawn"
    BY <2>1, <2>3, SchemaFrame DEF world, proc
  <2>4. CASE End("RECOVERY_REQUIRED")
    BY <2>1, <2>4, EndSchema DEF Endings
  <2> QED BY <2>1, <2>2, <2>3, <2>4
<1>16. CASE VerifyRelease
  BY <1>16, ReserveSchema
<1>17. CASE RecordInstallation
  BY <1>17, RecordSchema
<1>18. CASE LaunchSpawn
  BY <1>18, SpawnSchema
<1>19. CASE LaunchTimesOut
  BY <1>19, TimeoutSchema
<1>20. CASE LaunchIntent
  <2>1. pc' = "spawn" => intent' = [intent EXCEPT ![U] = @ + 1]
    BY <1>20 DEF LaunchIntent
  <2>2. worker' = worker /\ worker \in Ops
    BY <1>20 DEF LaunchIntent, TypeOK
  <2>3. pc' = "spawn" => intent'[worker'] # 0
    BY <2>1, <2>2 DEF TypeOK, U
  <2> QED BY <1>20, <2>3, SchemaFrame DEF LaunchIntent, world
<1>21. CASE \/ StageCandidate \/ InstallStage \/ RegisterStage \/ EnsureBackup \/ PromoteStage
            \/ LaunchReturns \/ VerifyHealth
  <2>1. UNCHANGED <<truth, schema, ack, child, req, op>> /\ pc' # "spawn"
    <3>1. CASE StageCandidate
      <4>1. U \in Ops /\ stage[U] \in {"none", "ready", "partial"}
        BY <3>1 DEF StageCandidate, TypeOK, U
      <4> QED BY <3>1, <4>1 DEF StageCandidate, proc
    <3>2. CASE PromoteStage
      BY <3>2 DEF PromoteStage, proc
    <3> QED BY <1>21, <3>1, <3>2
            DEF InstallStage, RegisterStage, EnsureBackup, LaunchReturns, VerifyHealth, world,
                proc
  <2> QED BY <2>1, SchemaFrame
<1>22. CASE SwitchPrevious \/ SwitchCurrent \/ SwitchDone
  <2>1. UNCHANGED <<truth, schema, ack, child, req, op>> /\ pc' # "spawn"
    BY <1>22 DEF SwitchPrevious, SwitchCurrent, SwitchDone, world, proc, run
  <2> QED BY <2>1, SchemaFrame
<1>23. CASE RestorePrevious \/ RestoreCurrent \/ RestoreUnchanged
  <2>1. UNCHANGED <<truth, schema, ack, child, req, op>> /\ pc' # "spawn"
    BY <1>23 DEF RestorePrevious, RestoreCurrent, RestoreUnchanged, Skip, world, proc
  <2> QED BY <2>1, SchemaFrame
<1>24. CASE Crash \/ EffectFails \/ UndoFails
  <2>1. UNCHANGED <<truth, schema, ack, child, req, op>> /\ pc' # "spawn"
    BY <1>24 DEF Crash, EffectFails, UndoFails, Skip, world, proc
  <2> QED BY <2>1, SchemaFrame
<1>25. ASSUME NEW c \in child, Child(c) \/ ChildDies(c)
       PROVE  SchemaPart'
  BY <1>25, ChildSchema
<1> QED BY <1>1, <1>2, <1>3, <1>4, <1>5, <1>6, <1>7, <1>8, <1>9, <1>10, <1>11, <1>12, <1>13,
    <1>14, <1>15, <1>16, <1>17, <1>18, <1>19, <1>20, <1>21, <1>22, <1>23, <1>24, <1>25
    DEF Next, Engine, Effects

-----------------------------------------------------------------------------
(* The theorems.                                                           *)

\* The installer's slots resolve.
LEMMA InitBase == Init => BaseInv
  BY SlotsAssumption
  DEF Init, BaseInv, TypeOK, LinksResolve, WorkerInv, NoReq, Requests, Processes, Pcs, Endings,
      Undoable, OperationState, StepNo, CompPcs

\* BaseInv is inductive.
LEMMA NextBase == BaseInv /\ [Next]_vars => BaseInv'
<1> SUFFICES ASSUME BaseInv, [Next]_vars PROVE BaseInv'
  OBVIOUS
<1>1. CASE Next
  BY <1>1, TypeStep, SlotStep DEF BaseInv
<1>2. CASE UNCHANGED vars
  BY <1>2 DEF vars, world, proc, op, run, BaseInv, TypeOK, LinksResolve, WorkerInv
<1> QED BY <1>1, <1>2

\* Types and links, with or without overtaking.
LEMMA BaseInvariant == Spec => []BaseInv
  BY InitBase, NextBase, PTL DEF Spec

\* Nothing is reserved at the start.
LEMMA InitUpdate == Init => UpdateInv
<1> SUFFICES ASSUME Init PROVE UpdateInv
  OBVIOUS
<1> USE SlotsAssumption DEF Init
<1>1. TruthInv
  BY DEF TruthInv
<1>2. ASSUME NEW o \in Ops PROVE RowInv(o) /\ LinkInv(o)
  BY DEF RowInv, LinkInv, Began, Active
<1>3. DoubtInv /\ ForwardInv /\ CompInv
  BY DEF DoubtInv, ForwardInv, CompInv, CompPcs
<1> QED BY <1>1, <1>2, <1>3 DEF UpdateInv

\* UpdateInv is inductive relative to BaseInv, unless an update overtakes one
\* whose record is in doubt.
LEMMA NextUpdate ==
    ASSUME ~ MayOvertake
    PROVE  BaseInv /\ UpdateInv /\ [Next]_vars => UpdateInv'
<1> SUFFICES ASSUME BaseInv, UpdateInv, [Next]_vars PROVE UpdateInv'
  OBVIOUS
<1>1. CASE Next
  BY <1>1, RowsStep, PlaceStep DEF BaseInv, UpdateInv
<1>2. CASE UNCHANGED vars
  BY <1>2, CoreFrame DEF vars, world
<1> QED BY <1>1, <1>2

\* The rows of every update tell the truth about the links.
LEMMA UpdateInvariant ==
    ASSUME ~ MayOvertake
    PROVE  Spec => []UpdateInv
  BY BaseInvariant, InitUpdate, NextUpdate, PTL DEF Spec

\* Nothing is reserved at the start, and the profile is the installer's.
LEMMA InitFit == Init => FitInv
<1> SUFFICES ASSUME Init PROVE FitInv
  OBVIOUS
<1>1. PICK p \in {r \in Releases \ {Initial} : Target[r] <= Target[Initial]} \cup {None} :
        /\ rec = [r \in Releases |-> IF r = Initial THEN "CURRENT"
                                     ELSE IF r = p THEN "PREVIOUS" ELSE "none"]
        /\ truth = [current |-> Initial, previous |-> p, generation |-> 0, pending |-> None]
        /\ schema = Target[Initial] /\ pc = "idle" /\ child = {}
        /\ ack = [o \in Ops |-> 0] /\ req = [o \in Ops |-> NoReq]
        /\ state = [o \in Ops |-> "QUEUED"] /\ at = [o \in Ops |-> 1]
        /\ row = [o \in Ops |-> "PENDING"] /\ undone = [o \in Ops |-> {}]
  BY DEF Init
<1>2. RecordRows
  BY <1>1, SlotsAssumption DEF RecordRows
<1>3. SchemaInv
  BY <1>1, SlotsAssumption DEF SchemaInv
<1>4. ASSUME NEW o \in Ops PROVE AskedInv(o) /\ AckInv(o) /\ HeldInv(o)
  BY <1>1, <1>4, SlotsAssumption DEF AskedInv, AckInv, HeldInv, Began, NoReq
<1> QED BY <1>1, <1>2, <1>3, <1>4 DEF FitInv, SchemaPart

\* FitInv is inductive relative to BaseInv and UpdateInv.
LEMMA NextFit == BaseInv /\ UpdateInv /\ FitInv /\ [Next]_vars => FitInv'
<1> SUFFICES ASSUME BaseInv, UpdateInv, FitInv, [Next]_vars PROVE FitInv'
  OBVIOUS
<1>1. CASE Next
  BY <1>1, RowsOfRecord, SchemaStep DEF BaseInv, FitInv
<1>2. CASE UNCHANGED vars
  <2>1. UNCHANGED <<rec, truth, schema, ack, child, req, op, pc, intent, worker>>
    BY <1>2 DEF vars, world, proc, run
  <2>2. pc' = "spawn" => intent'[worker'] # 0
    BY <2>1 DEF FitInv, SchemaPart, SchemaInv
  <2>3. SchemaPart'
    BY <2>1, <2>2, SchemaFrame DEF FitInv
  <2> QED BY <2>1, <2>3 DEF FitInv, RecordRows
<1> QED BY <1>1, <1>2

\* The record, the requests and the schema agree.
LEMMA FitInvariant ==
    ASSUME ~ MayOvertake
    PROVE  Spec => []FitInv
  BY BaseInvariant, UpdateInvariant, InitFit, NextFit, PTL DEF Spec

\* The type invariant, for any number of releases, updates and faults, whether
\* or not updates may overtake each other.
THEOREM TypeCorrect == Spec => []TypeOK
  BY BaseInvariant, PTL DEF BaseInv

\* publish_pointer_set and promote_stage: whatever crashes, fails or is
\* cancelled in between, current and previous name complete releases.
THEOREM LinksAlwaysResolve == Spec => []LinksResolve
  BY BaseInvariant, PTL DEF BaseInv

\* classify_pointer_state tells the reserving update how far it got, whoever
\* takes it over, as long as no update overtakes an interrupted record step.
THEOREM PointersAlwaysFollowSteps ==
    ASSUME ~ MayOvertake
    PROVE  Spec => []PointersFollowSteps
<1>1. BaseInv /\ UpdateInv => PointersFollowSteps
  BY DEF BaseInv, TypeOK, UpdateInv, LinkInv, PointersFollowSteps, Began
<1> QED BY <1>1, BaseInvariant, UpdateInvariant, PTL

\* _handle_failure, _honor_cancellation and the compensations: an update that
\* ended safe, rolled back or cancelled left current on the release it found.
THEOREM AlwaysEndedOnPrior ==
    ASSUME ~ MayOvertake
    PROVE  Spec => []EndedOnPrior
<1>1. UpdateInv => EndedOnPrior
  BY DEF UpdateInv, LinkInv, EndedOnPrior
<1> QED BY <1>1, UpdateInvariant, PTL

\* record_installation and insert_staged: with nothing reserved the record
\* describes the links, and one release is CURRENT and one PREVIOUS at most.
THEOREM RecordAlwaysDescribesLinks ==
    ASSUME ~ MayOvertake
    PROVE  Spec => []RecordDescribesLinks
<1>1. BaseInv /\ UpdateInv /\ FitInv => RecordDescribesLinks
  BY DEF BaseInv, TypeOK, UpdateInv, TruthInv, FitInv, RecordRows, RecordDescribesLinks
<1> QED BY <1>1, BaseInvariant, UpdateInvariant, FitInvariant, PTL

\* An update that ended without success, and was not given up on, needed no
\* restore or never reached the replacement process, so the schema is the one
\* it found.
LEMMA EndedInSchema ==
    ASSUME BaseInv, UpdateInv, FitInv, NEW o \in Ops, truth.pending = o,
           state[o] \notin Active \cup {"RECOVERY_REQUIRED"}
    PROVE  link.current = truth.current /\ schema = Target[truth.current]
<1>1. /\ Expected(o) /\ state[o] \in {"FAILED_SAFE", "FAILED_ROLLED_BACK", "CANCELLED"}
      /\ link.current = req[o].ec
  BY DEF UpdateInv, LinkInv, RowInv, FitInv, SchemaPart, HeldInv, Terminal
<1>2. /\ schema \in {Target[truth.current], Target[req[o].cand]}
      /\ Began(o, 5) => Source[req[o].cand] = Target[req[o].cand]
      /\ ~ Began(o, 5) => schema = Target[truth.current]
  BY <1>1 DEF FitInv, SchemaPart, HeldInv, NeedsRestore
<1>3. Fits(o)
  BY <1>1 DEF FitInv, SchemaPart, AskedInv, Expected
<1>4. CASE req[o].mode = "APPLY"
  BY <1>1, <1>2, <1>3, <1>4 DEF Fits, Expected
<1>5. CASE req[o].mode = "ROLLBACK"
  <2>1. /\ req[o].cand = truth.previous /\ truth.current \in Releases /\ schema \in Nat
        /\ req[o].cand \in Releases /\ truth.previous # None
    BY <1>1, <1>3, <1>5, SlotsAssumption DEF Fits, Expected, BaseInv, TypeOK, Requests
  <2>2. /\ Target[req[o].cand] <= Target[truth.current] /\ Target[truth.current] <= schema
        /\ Target[req[o].cand] \in Nat /\ Target[truth.current] \in Nat
    BY <2>1, SlotsAssumption DEF FitInv, SchemaPart, SchemaInv
  <2>3. schema = Target[truth.current]
    BY <1>2, <2>1, <2>2
  <2> QED BY <1>1, <2>3 DEF Expected
<1> QED BY <1>3, <1>4, <1>5 DEF Fits

\* _durable_compensation_set and compose: no rolled-back update and no
\* replacement process that outlived one leaves a migration behind.
THEOREM ProfileAlwaysFitsSlot ==
    ASSUME ~ MayOvertake
    PROVE  Spec => []ProfileFitsSlot
<1>1. BaseInv /\ UpdateInv /\ FitInv => ProfileFitsSlot
  <2> SUFFICES ASSUME BaseInv, UpdateInv, FitInv,
                      \A o \in Ops : state[o] \notin Active \cup {"RECOVERY_REQUIRED"}
               PROVE  schema = Target[link.current]
    BY DEF ProfileFitsSlot
  <2>1. CASE truth.pending = None
    BY <2>1 DEF UpdateInv, TruthInv, FitInv, SchemaPart, SchemaInv
  <2>2. CASE truth.pending \in Ops
    BY <2>2, EndedInSchema
  <2> QED BY <2>1, <2>2 DEF BaseInv, TypeOK
<1> QED BY <1>1, BaseInvariant, UpdateInvariant, FitInvariant, PTL

\* Only record_installation moves the recorded release.
LEMMA OnlyRecordMoves ==
    ASSUME TypeOK, Next, ~ RecordInstallation
    PROVE  truth'.current = truth.current /\ truth'.generation = truth.generation
<1> USE DEF world
<1>1. ASSUME NEW o \in Ops, \/ \E r \in Releases : Apply(o, r)
                            \/ Rollback(o) \/ RequestCancel(o) \/ Claim(o)
      PROVE  UNCHANGED truth
  BY <1>1 DEF Apply, Rollback, Enqueued, RequestCancel, Claim
<1>2. Engine => UNCHANGED truth
  BY DEF Engine, Complete, LoopCancel, LoopStep, Recover, Reverify, EnterCritical, Checkpoint,
         Verify, Failed, CompensationDone, BeginCompensation, ResumeCompensation
<1>3. VerifyRelease => truth'.current = truth.current /\ truth'.generation = truth.generation
  BY DEF VerifyRelease, TypeOK
<1>4. Effects => UNCHANGED truth \/ VerifyRelease
  BY DEF Effects, StageCandidate, InstallStage, RegisterStage, EnsureBackup, PromoteStage,
         SwitchPrevious, SwitchCurrent, SwitchDone, LaunchIntent, LaunchSpawn, LaunchReturns,
         VerifyHealth, RestoreProfile, RestorePrevious, RestoreCurrent, RestoreUnchanged,
         RestoreVerified
<1>5. Crash \/ EffectFails \/ UndoFails \/ LaunchTimesOut => UNCHANGED truth
  BY DEF Crash, EffectFails, UndoFails, LaunchTimesOut
<1> QED BY <1>1, <1>2, <1>3, <1>4, <1>5, ChildFrame DEF Next

\* health and record_installation: however long ago its health was checked, an
\* update is recorded while its candidate runs on its own schema.
THEOREM AlwaysRecordedWhenHealthy ==
    ASSUME ~ MayOvertake
    PROVE  Spec => RecordedWhenHealthy
<1> DEFINE Moved == truth'.current # truth.current \/ truth'.generation # truth.generation
           Step == Moved => link.current = truth'.current /\ schema = Target[truth'.current]
<1>1. BaseInv /\ UpdateInv /\ FitInv /\ [Next]_vars => [Step]_vars
  <2> SUFFICES ASSUME BaseInv, UpdateInv, FitInv, Next, Moved
               PROVE  link.current = truth'.current /\ schema = Target[truth'.current]
    OBVIOUS
  <2>1. RecordInstallation
    BY OnlyRecordMoves DEF BaseInv
  <2>2. /\ worker \in Ops /\ at[worker] = 7 /\ truth.pending = worker
        /\ truth'.current = req[worker].cand /\ link.current = req[worker].cand
    BY <2>1, NewRecord DEF BaseInv
  <2>3. schema = Target[req[worker].cand]
    BY <2>2 DEF FitInv, SchemaPart, AckInv
  <2> QED BY <2>2, <2>3
<1>2. BaseInv /\ UpdateInv /\ FitInv /\ [Next]_vars
        => [truth'.current # truth.current \/ truth'.generation # truth.generation
             => link.current = truth'.current /\ schema = Target[truth'.current]]_vars
  BY <1>1
<1> QED BY <1>2, BaseInvariant, UpdateInvariant, FitInvariant, PTL DEF Spec, RecordedWhenHealthy

=============================================================================
