------------------------- MODULE RuntimeTreesProofs -------------------------
(***************************************************************************)
(* Safety of the trees, the registry and the service of a runtime          *)
(* (RuntimeTrees, as RuntimeWorld in CoreWorlds), from the inductive       *)
(* invariant TreesInv.  How the run of the operation moves is proved in    *)
(* CoreWorldsProofs.                                                       *)
(***************************************************************************)
EXTENDS CoreWorldsProofs

Roles == {"CANDIDATE", "ACTIVE_OBSERVED", "RETAINED"}
TreeRow == [loc : RuntimeWorld!Trees, role : Roles]
Maybe == RuntimeWorld!Trees \cup {None}
Snapshot ==
    [active : RuntimeWorld!Trees, activeTree : RuntimeWorld!Trees,
     targetTree : RuntimeWorld!Trees, targetLoc : RuntimeWorld!Trees,
     promoted : Maybe, rollback : Maybe, rollbackTree : Maybe, known : Maybe,
     generation : Nat, handoff : RuntimeWorld!Handoff, serving : BOOLEAN]

\* None is no tree, no row and no snapshot of these.
LEMMA RuntimeNone ==
    TreesUpdates \in Nat /\ None \notin Nat /\ None \notin TreeRow /\ None \notin Snapshot
BY RuntimeAssumption DEF TreeRow, Roles, Snapshot, Maybe

\* One cardinality, by two names.
LEMMA RuntimeCardinality == \A S : RuntimeWorld!Cardinality(S) = Cardinality(S)
BY DEF RuntimeWorld!Cardinality, Cardinality

MachineTyped ==
    /\ op \in [n : RuntimeWorld!Trees, kind : {"update", "rollback"}, target : Maybe]
    /\ build \in [RuntimeWorld!Trees -> RuntimeWorld!Trees]
    /\ disk \in [RuntimeWorld!Trees -> Maybe]
    /\ reg \in [RuntimeWorld!Trees -> TreeRow \cup {None}]
    /\ comp \in RuntimeWorld!Component /\ known \in Maybe
    /\ handoff \in RuntimeWorld!Handoff /\ work \in RuntimeWorld!Work
    /\ service \in [build : Maybe, new : BOOLEAN]
    /\ receipt \in [build : Maybe, op : RuntimeWorld!Trees]

\* Numbers are given in their order: a build is that of the tree or of an older one, and
\* nothing bears the number of an operation to come.
Numbered ==
    /\ \A t \in RuntimeWorld!Trees : build[t] <= t
    /\ \A t \in RuntimeWorld!Trees :
         t > op.n => t \notin RuntimeWorld!Rows /\ disk[t] = None /\ build[t] = t
             /\ \A l \in RuntimeWorld!Trees : disk[l] # t
    /\ handoff.op <= op.n /\ receipt.op <= op.n

\* A receipt of the handoff h is that of the server that runs.
Bound(h) ==
    h.component # None /\ receipt.op = h.op /\ receipt.build = h.component
    => service.build \in {None, h.component}

\* Between operations: every row says where its tree is, no other tree is of the active
\* build, and component and handoff, if they name a build, name the active one.
Home ==
    /\ Bound(handoff) /\ (comp.promoted # None => known = comp.promoted)
    /\ disk[0] # None
    /\ \A t \in RuntimeWorld!Rows :
        disk[reg[t].loc] = t /\ (reg[t].role = "ACTIVE_OBSERVED" => reg[t].loc = 0)
    /\ \A t \in RuntimeWorld!Rows :
        (t = disk[0] => reg[t].loc = 0) /\ (build[t] = RuntimeWorld!Active => t = disk[0])
    /\ RuntimeWorld!Rows # {} => disk[0] \in RuntimeWorld!Rows
    /\ comp.promoted \in {None, RuntimeWorld!Active}
    /\ handoff.component \in {None, RuntimeWorld!Active}
    /\ comp.rollback # None =>
          /\ comp.rollbackTree \in RuntimeWorld!Rows /\ reg[comp.rollbackTree].loc # 0
          /\ build[comp.rollbackTree] = comp.rollback

\* The new tree is where the operation builds it, and not of the active build.
Candidate ==
    /\ disk[op.n] \in {None, op.n} /\ \A l \in RuntimeWorld!Trees : disk[l] = op.n => l = op.n
    /\ op.n \in RuntimeWorld!Rows => disk[op.n] = op.n
    /\ build[op.n] # RuntimeWorld!Active

\* preflight_build has registered the active tree.
Registered(r) ==
    op.kind = "update" /\ ~ RuntimeWorld!AlreadyActive
        /\ (r.at > 2 \/ (r.at = 2 /\ (r.row = "CHECKPOINTED" \/ r.pc = "landed")))
    => disk[0] \in RuntimeWorld!Rows

\* Until the boundary is captured nothing that serves is touched.
Untouched ==
    /\ op.kind = "rollback" => op.target = comp.rollback /\ op.target # None
    /\ Home /\ Candidate /\ RuntimeWorld!Now = found.now /\ handoff.op < op.n /\ receipt.op < op.n
    /\ service.build \in {None, RuntimeWorld!Active, found.serving}

-----------------------------------------------------------------------------
(* The pair that is exchanged                                              *)

NewBuild == build[snap.targetTree]

Boundary ==
    /\ ~ RuntimeWorld!AlreadyActive /\ snap \in Snapshot
    /\ {snap.activeTree, snap.targetTree} \subseteq RuntimeWorld!Rows
    /\ snap.activeTree # snap.targetTree /\ snap.targetLoc # 0
    /\ NewBuild = RuntimeWorld!Target /\ build[snap.activeTree] = snap.active
    /\ snap.active # NewBuild
    /\ \A t \in RuntimeWorld!Rows : /\ build[t] = snap.active => t = snap.activeTree
                                    /\ build[t] = NewBuild => t = snap.targetTree
    /\ \A t \in RuntimeWorld!Rows \ {snap.activeTree, snap.targetTree} :
          disk[reg[t].loc] = t /\ reg[t].loc \notin {0, snap.targetLoc}
              /\ reg[t].role # "ACTIVE_OBSERVED"

\* What the snapshot says is what the operation found.
Evidence ==
    /\ found.now = [active |-> snap.activeTree, promoted |-> snap.promoted,
        rollback |-> snap.rollback,
                known |-> snap.known, handoff |-> snap.handoff]
    /\ snap.promoted # None => snap.known = snap.promoted
    /\ snap.promoted \in {None, snap.active} /\ snap.handoff.component \in {None, snap.active}
    /\ snap.handoff.op < op.n
    /\ snap.rollback # None =>
          snap.rollbackTree \in RuntimeWorld!Rows \ {snap.activeTree}
              /\ build[snap.rollbackTree] = snap.rollback

TreesBack == disk[0] = snap.activeTree /\ disk[snap.targetLoc] = snap.targetTree
TreesMoved == disk[0] = snap.targetTree /\ disk[snap.targetLoc] = snap.activeTree
RowsBack ==
    /\ reg[snap.activeTree].loc = 0 /\ reg[snap.targetTree].loc = snap.targetLoc
    /\ reg[snap.targetTree].role # "ACTIVE_OBSERVED"
RowsMoved ==
    reg[snap.targetTree] = RuntimeWorld!AtRoot /\ reg[snap.activeTree] = RuntimeWorld!Aside
HandoffBack == handoff = snap.handoff
HandoffMoved == handoff = [component |-> NewBuild, op |-> op.n]
ComponentBack ==
    /\ comp.promoted = snap.promoted /\ comp.rollback = snap.rollback
    /\ comp.rollbackTree = snap.rollbackTree /\ known = snap.known
ComponentMoved ==
    /\ comp.promoted = NewBuild /\ comp.rollback = snap.promoted /\ known = NewBuild
    /\ comp.rollback # None => comp.rollbackTree = snap.activeTree

\* Everything is in one of two places; a row is moved after the handoff, and back before.
InTwoPlaces ==
    /\ TreesBack \/ TreesMoved
    /\ RowsBack \/ RowsMoved
    /\ HandoffBack \/ HandoffMoved
    /\ ComponentBack \/ ComponentMoved
    /\ RowsMoved => HandoffMoved
    /\ service.build \in {None, snap.active, NewBuild, found.serving}
    /\ Bound(snap.handoff)

AllBack == TreesBack /\ RowsBack /\ HandoffBack /\ ComponentBack

\* The capture is step C; exchange, publish, restart, verify, promote, finalize follow.
C == IF op.kind = "update" THEN 7 ELSE 4
Passed(r, i) == r.at > i \/ (r.at = i /\ r.row = "CHECKPOINTED")
Ahead(r, i) == r.at < i \/ (r.at = i /\ r.row = "PENDING")

\* The order of the steps forward.
Forward(r) ==
    /\ HandoffMoved => TreesMoved
    /\ ComponentMoved => RowsMoved
    /\ receipt.op = op.n =>
          receipt.build = NewBuild /\ HandoffMoved /\ service.build \in {None, NewBuild}
    /\ Ahead(r, C + 1) => TreesBack
    /\ r.at > C + 1 => TreesMoved
    /\ Ahead(r, C + 2) => HandoffBack
    /\ r.at > C + 2 => HandoffMoved
    /\ r.at > C + 3 => receipt.op = op.n
    /\ Ahead(r, C + 5) => RowsBack /\ ComponentBack
    /\ r.at > C + 5 => ComponentMoved
    /\ TreesBack => service.build \in {None, snap.active, found.serving}

Undid(r) == Run!ToUndo(r, RuntimeWorld!Wf) = {}
    \/ r.end \in {"FAILED_SAFE", "FAILED_ROLLED_BACK", "CANCELLED"}

Activated(r) ==
    /\ Boundary /\ Evidence /\ InTwoPlaces
    /\ r.way = "forward" => Forward(r)
    /\ Undid(r) => AllBack
    /\ r.end = "FAILED_SAFE" => r.way = "forward"

\* The boundary of a no-op is the one tree it verifies.
TreesUnmoved ==
    /\ snap \in Snapshot /\ snap.activeTree = disk[0] /\ snap.targetTree = disk[0]
    /\ snap.targetLoc = 0 /\ snap.active = RuntimeWorld!Active
    /\ snap.promoted = comp.promoted /\ snap.known = known /\ snap.handoff = handoff

Proving == handoff.component = RuntimeWorld!Active
    /\ service.build \in {None, RuntimeWorld!Active}

\* A no-op leaves everything as it is, and has proven the server when it has verified it.
NothingToDo(r) ==
    RuntimeWorld!AlreadyActive =>
        /\ comp.promoted = RuntimeWorld!Active /\ disk[0] \in RuntimeWorld!Rows
        /\ Passed(r, C) => TreesUnmoved /\ (Passed(r, C + 4) => Proving)

RuntimePlaced(r) ==
    IF Passed(r, C) /\ ~ RuntimeWorld!AlreadyActive THEN Activated(r)
    ELSE Untouched /\ Registered(r) /\ NothingToDo(r)

Endings == {"none", "SUCCEEDED", "FAILED_SAFE", "FAILED_ROLLED_BACK", "CANCELLED",
    "RECOVERY_REQUIRED"}

TreesInv ==
    /\ MachineTyped /\ Numbered /\ run.end \in Endings
    /\ op.n = 0 => Home /\ run.end = "SUCCEEDED" /\ run.pc = "down"
    /\ op.n > 0 => RunInv(run, RuntimeWorld!Wf) /\ (run.pc = "landed" => run.at \notin {C, C + 4})
    /\ op.n > 0 /\ run.end # "RECOVERY_REQUIRED" => RuntimePlaced(run)

-----------------------------------------------------------------------------
LEMMA StepsOfTrees ==
    ASSUME op.kind \in {"update", "rollback"}
    PROVE  /\ C \in {4, 7} /\ Len(RuntimeWorld!Wf.steps) = C + 6
           /\ DOMAIN RuntimeWorld!Wf.steps = 1..(C + 6)
           /\ "finalizer" \notin RuntimeWorld!Wf.traits
           /\ \A i \in 1..(C + 6) :
                 /\ Run!Flagged(RuntimeWorld!Wf, i, "undo") <=> i \in {C + 1, C + 2, C + 3, C + 5}
                 /\ ~ Run!Flagged(RuntimeWorld!Wf, i, "forward")
                 /\ i \in {C + 1, C + 2, C + 3, C + 5} =>
                     Run!Flagged(RuntimeWorld!Wf, i, "visible")
<1>1. CASE op.kind = "update"
  <2>1. /\ C = 7 /\ RuntimeWorld!Wf.traits = {"phased"}
        /\ Len(RuntimeWorld!Wf.steps) = 13 /\ DOMAIN RuntimeWorld!Wf.steps = 1..13
        /\ RuntimeWorld!Wf.steps[1].flags = {} /\ RuntimeWorld!Wf.steps[2].flags = {}
        /\ RuntimeWorld!Wf.steps[3].flags = {"polls"}
        /\ RuntimeWorld!Wf.steps[4].flags = {"polls"}
        /\ RuntimeWorld!Wf.steps[5].flags = {"polls"}
        /\ RuntimeWorld!Wf.steps[6].flags = {} /\ RuntimeWorld!Wf.steps[7].flags = {}
        /\ RuntimeWorld!Wf.steps[8].flags = {"visible", "critical", "undo"}
        /\ RuntimeWorld!Wf.steps[9].flags = {"visible", "critical", "undo"}
        /\ RuntimeWorld!Wf.steps[10].flags = {"visible", "critical", "undo"}
        /\ RuntimeWorld!Wf.steps[11].flags = {"critical"}
        /\ RuntimeWorld!Wf.steps[12].flags = {"visible", "critical", "undo"}
        /\ RuntimeWorld!Wf.steps[13].flags = {}
    BY <1>1 DEF C, RuntimeWorld!Wf, RuntimeWorld!W!RuntimeUpdate,
       RuntimeWorld!W!WorkflowDefinition, RuntimeWorld!W!Mutation, RuntimeWorld!W!Plain,
       RuntimeWorld!W!Critical,
                RuntimeWorld!W!StepDefinition
  <2> HIDE DEF RuntimeWorld!Wf
  <2>2. ASSUME NEW i \in 1..13
        PROVE  \/ i = 1 \/ i = 2 \/ i = 3 \/ i = 4 \/ i = 5 \/ i = 6 \/ i = 7 \/ i = 8 \/ i = 9
               \/ i = 10 \/ i = 11 \/ i = 12 \/ i = 13
    OBVIOUS
  <2>3. ASSUME NEW i \in 1..13
        PROVE  /\ Run!Flagged(RuntimeWorld!Wf, i, "undo") <=> i \in {8, 9, 10, 12}
               /\ ~ Run!Flagged(RuntimeWorld!Wf, i, "forward")
               /\ i \in {8, 9, 10, 12} => Run!Flagged(RuntimeWorld!Wf, i, "visible")
    BY <2>1, <2>2 DEF Run!Flagged
  <2> QED BY <2>1, <2>3
<1>2. CASE op.kind = "rollback"
  <2>1. /\ C = 4 /\ RuntimeWorld!Wf.traits = {"phased"}
        /\ Len(RuntimeWorld!Wf.steps) = 10 /\ DOMAIN RuntimeWorld!Wf.steps = 1..10
        /\ RuntimeWorld!Wf.steps[1].flags = {} /\ RuntimeWorld!Wf.steps[2].flags = {}
        /\ RuntimeWorld!Wf.steps[3].flags = {}
        /\ RuntimeWorld!Wf.steps[4].flags = {}
        /\ RuntimeWorld!Wf.steps[5].flags = {"visible", "critical", "undo"}
        /\ RuntimeWorld!Wf.steps[6].flags = {"visible", "critical", "undo"}
        /\ RuntimeWorld!Wf.steps[7].flags = {"visible", "critical", "undo"}
        /\ RuntimeWorld!Wf.steps[8].flags = {"critical"}
        /\ RuntimeWorld!Wf.steps[9].flags = {"visible", "critical", "undo"}
        /\ RuntimeWorld!Wf.steps[10].flags = {}
    BY <1>2 DEF C, RuntimeWorld!Wf, RuntimeWorld!W!RuntimeRollback,
       RuntimeWorld!W!WorkflowDefinition, RuntimeWorld!W!Mutation, RuntimeWorld!W!Plain,
       RuntimeWorld!W!Critical,
                RuntimeWorld!W!StepDefinition
  <2> HIDE DEF RuntimeWorld!Wf
  <2>2. ASSUME NEW i \in 1..10
        PROVE  \/ i = 1 \/ i = 2 \/ i = 3 \/ i = 4 \/ i = 5 \/ i = 6 \/ i = 7 \/ i = 8 \/ i = 9
               \/ i = 10
    OBVIOUS
  <2>3. ASSUME NEW i \in 1..10
        PROVE  /\ Run!Flagged(RuntimeWorld!Wf, i, "undo") <=> i \in {5, 6, 7, 9}
               /\ ~ Run!Flagged(RuntimeWorld!Wf, i, "forward")
               /\ i \in {5, 6, 7, 9} => Run!Flagged(RuntimeWorld!Wf, i, "visible")
    BY <2>1, <2>2 DEF Run!Flagged
  <2> QED BY <2>1, <2>3
<1> QED BY <1>1, <1>2

LEMMA TreesWorkable ==
    ASSUME op.kind \in {"update", "rollback"}
    PROVE  Workable(RuntimeWorld!Wf)
<1> HIDE DEF RuntimeWorld!Wf, C
<1>1. Len(RuntimeWorld!Wf.steps) \in Nat
  BY StepsOfTrees
<1> QED BY <1>1, StepsOfTrees DEF Workable

\* What is to be compensated, by the place of the run.
LEMMA TreesUndo ==
    ASSUME op.kind \in {"update", "rollback"}, NEW r, RunInv(r, RuntimeWorld!Wf)
    PROVE  /\ r.at \in 1..(C + 7) /\ r.row \in {"PENDING", "RUNNING", "CHECKPOINTED"}
           /\ Run!ToUndo(r, RuntimeWorld!Wf) = {i \in {C + 1, C + 2, C + 3, C + 5} :
                                     i < r.at \/ (i = r.at /\ r.row # "PENDING")} \ r.undone
           /\ r.way = "forward" =>
               r.undone = {} /\ (Run!ToUndo(r, RuntimeWorld!Wf) = {} <=> Ahead(r, C + 1))
           /\ Run!ToUndo(r, RuntimeWorld!Wf) # {} => Passed(r, C) /\ ~ Ahead(r, C + 1)
<1> HIDE DEF RuntimeWorld!Wf, C
<1>0. C \in {4, 7}
  BY StepsOfTrees
<1>1. r.at \in 1..(C + 7) /\ r.row \in {"PENDING", "RUNNING", "CHECKPOINTED"}
  <2>1. Len(RuntimeWorld!Wf.steps) + 1 = C + 7
    BY <1>0, StepsOfTrees
  <2> QED BY <2>1 DEF RunInv, RunShaped
<1>2. \A i : i \in Run!ToUndo(r, RuntimeWorld!Wf) <=>
             i \in {j \in {C + 1, C + 2, C + 3, C + 5} :
                      j < r.at \/ (j = r.at /\ r.row # "PENDING")} \ r.undone
  <2>1. \A i \in {C + 1, C + 2, C + 3, C + 5} : i \in 1..(C + 6)
    BY <1>0
  <2> QED BY <2>1, StepsOfTrees DEF Run!ToUndo
<1>3. r.way = "forward" =>
        r.undone = {} /\ (Run!ToUndo(r, RuntimeWorld!Wf) = {} <=> Ahead(r, C + 1))
  <2>1. r.way = "forward" => r.undone = {}
    BY DEF RunInv, RunPlaced
  <2>2. ASSUME r.way = "forward", Run!ToUndo(r, RuntimeWorld!Wf) = {} PROVE Ahead(r, C + 1)
    <3>1. C + 1 \notin Run!ToUndo(r, RuntimeWorld!Wf)
      BY <2>2
    <3> QED BY <1>0, <1>1, <1>2, <2>1, <2>2, <3>1 DEF Ahead
  <2>3. ASSUME r.way = "forward", Ahead(r, C + 1) PROVE Run!ToUndo(r, RuntimeWorld!Wf) = {}
    <3>1. \A i : i \notin Run!ToUndo(r, RuntimeWorld!Wf)
      BY <1>0, <1>1, <1>2, <2>3 DEF Ahead
    <3> QED BY <3>1
  <2> QED BY <2>1, <2>2, <2>3
<1>4. ASSUME Run!ToUndo(r, RuntimeWorld!Wf) # {} PROVE Passed(r, C) /\ ~ Ahead(r, C + 1)
  <2>1. PICK i : i \in Run!ToUndo(r, RuntimeWorld!Wf)
    BY <1>4
  <2>2. i \in {C + 1, C + 2, C + 3, C + 5} /\ (i < r.at \/ (i = r.at /\ r.row # "PENDING"))
    BY <1>2, <2>1
  <2> QED BY <1>0, <1>1, <2>2 DEF Passed, Ahead
<1> QED BY <1>1, <1>2, <1>3, <1>4

LEMMA NamesOfTrees ==
    ASSUME op.kind \in {"update", "rollback"}
    PROVE  LET names == RuntimeWorld!Names(op.kind) IN
           /\ \A i \in 1..(C - 1) :
               names[i] \notin RuntimeWorld!Activating /\ names[i] # "capture"
           /\ names[C] = "capture" /\ "capture" \notin RuntimeWorld!Activating
           /\ names[C + 1] = "exchange" /\ names[C + 2] = "publish" /\ names[C + 3] = "restart"
           /\ names[C + 4] = "verify" /\ names[C + 5] = "promote" /\ names[C + 6] = "finalize"
           /\ \A i \in 1..(C + 6) : names[i] = "preflight" => i = 2
           /\ \A i \in 1..(C + 6) : names[i] = "resolve" => i = 1
           /\ names[2] = "preflight" /\ (op.kind = "update" => names[1] = "resolve")
           /\ RuntimeWorld!Activating = {"exchange", "publish", "restart", "verify", "promote",
               "finalize"}
<1>1. CASE op.kind = "update"
  <2>1. \A i \in 1..6 : i = 1 \/ i = 2 \/ i = 3 \/ i = 4 \/ i = 5 \/ i = 6
    OBVIOUS
  <2>2. \A i \in 1..13 :
          i \in 1..6 \/ i = 7 \/ i = 8 \/ i = 9 \/ i = 10 \/ i = 11 \/ i = 12 \/ i = 13
    OBVIOUS
  <2> QED BY <1>1, <2>1, <2>2 DEF RuntimeWorld!Names, C, RuntimeWorld!Activating
<1>2. CASE op.kind = "rollback"
  <2>1. \A i \in 1..3 : i = 1 \/ i = 2 \/ i = 3
    OBVIOUS
  <2>2. \A i \in 1..10 :
          i \in 1..3 \/ i = 4 \/ i = 5 \/ i = 6 \/ i = 7 \/ i = 8 \/ i = 9 \/ i = 10
    OBVIOUS
  <2> QED BY <1>2, <2>1, <2>2 DEF RuntimeWorld!Names, C, RuntimeWorld!Activating
<1> QED BY <1>1, <1>2

\* The step at work.
LEMMA TreeAtWork ==
    ASSUME op.kind \in {"update", "rollback"}, run.at \in 1..(C + 6)
    PROVE  /\ RuntimeWorld!At \in RuntimeWorld!Activating <=> run.at > C
           /\ RuntimeWorld!At = "capture" <=> run.at = C
           /\ RuntimeWorld!At = "exchange" <=> run.at = C + 1
           /\ RuntimeWorld!At = "publish" <=> run.at = C + 2
           /\ RuntimeWorld!At = "restart" <=> run.at = C + 3
           /\ RuntimeWorld!At = "verify" <=> run.at = C + 4
           /\ RuntimeWorld!At = "promote" <=> run.at = C + 5
           /\ RuntimeWorld!At = "finalize" <=> run.at = C + 6
           /\ RuntimeWorld!At = "preflight" <=> run.at = 2
           /\ RuntimeWorld!At = "resolve" => run.at = 1
           /\ op.kind = "update" /\ RuntimeWorld!At = "smoke" => run.at > 2
<1> DEFINE names == RuntimeWorld!Names(op.kind)
<1>1. /\ \A i \in 1..(C - 1) : names[i] \notin RuntimeWorld!Activating /\ names[i] # "capture"
      /\ names[C] = "capture" /\ "capture" \notin RuntimeWorld!Activating
      /\ names[C + 1] = "exchange" /\ names[C + 2] = "publish" /\ names[C + 3] = "restart"
      /\ names[C + 4] = "verify" /\ names[C + 5] = "promote" /\ names[C + 6] = "finalize"
      /\ \A i \in 1..(C + 6) : names[i] = "preflight" => i = 2
      /\ \A i \in 1..(C + 6) : names[i] = "resolve" => i = 1
      /\ names[2] = "preflight" /\ (op.kind = "update" => names[1] = "resolve")
      /\ RuntimeWorld!Activating = {"exchange", "publish", "restart", "verify", "promote",
          "finalize"}
  BY NamesOfTrees
<1>2. C \in {4, 7} /\ RuntimeWorld!At = names[run.at]
  BY StepsOfTrees DEF RuntimeWorld!At
<1> HIDE DEF names, C, RuntimeWorld!At
<1>3. \/ run.at \in 1..(C - 1) \/ run.at = C \/ run.at = C + 1 \/ run.at = C + 2 \/ run.at = C + 3
      \/ run.at = C + 4 \/ run.at = C + 5 \/ run.at = C + 6
  BY <1>2
<1>4. CASE run.at \in 1..(C - 1)
  <2>1. /\ RuntimeWorld!At \notin RuntimeWorld!Activating /\ RuntimeWorld!At # "capture"
        /\ run.at < C /\ (RuntimeWorld!At = "preflight" => run.at = 2)
    BY <1>1, <1>2, <1>4
  <2> QED BY <1>1, <1>2, <2>1
<1>5. CASE run.at \notin 1..(C - 1)
  BY <1>1, <1>2, <1>3, <1>5
<1> QED BY <1>4, <1>5

\* What an observer sees of a pair that is in one of its two places.
LEMMA PairSeen ==
    ASSUME MachineTyped, Boundary, TreesBack \/ TreesMoved
    PROVE  /\ RuntimeWorld!Arrangement \in {"ABSENT", "COMPLETE"}
           /\ TreesBack <=> RuntimeWorld!Arrangement = "ABSENT"
           /\ TreesMoved <=> RuntimeWorld!Arrangement = "COMPLETE"
           /\ RuntimeWorld!Observed(0, RuntimeWorld!Target) <=> TreesMoved
           /\ RuntimeWorld!Observed(0, snap.active) <=> TreesBack
           /\ ~ (TreesBack /\ TreesMoved)
           /\ TreesBack => RuntimeWorld!Active = snap.active
           /\ TreesMoved => RuntimeWorld!Active = NewBuild
           /\ RuntimeWorld!Target = NewBuild /\ NewBuild \in RuntimeWorld!Trees
           /\ snap.active \in RuntimeWorld!Trees
           /\ snap.active # NewBuild /\ None \notin RuntimeWorld!Trees
           /\ snap.activeTree \in RuntimeWorld!Rows /\ snap.targetTree \in RuntimeWorld!Rows
<1>1. /\ snap.activeTree \in RuntimeWorld!Trees
      /\ snap.targetTree \in RuntimeWorld!Trees /\ None \notin RuntimeWorld!Trees
      /\ snap.activeTree # None /\ snap.targetTree # None
      /\ reg[snap.activeTree] # None /\ reg[snap.targetTree] # None
      /\ NewBuild \in RuntimeWorld!Trees /\ snap.active \in RuntimeWorld!Trees
      /\ snap.active # NewBuild
      /\ build[snap.targetTree] = NewBuild /\ build[snap.activeTree] = snap.active
      /\ RuntimeWorld!Target = NewBuild /\ snap.activeTree # snap.targetTree
  <2>1. None \notin RuntimeWorld!Trees
    BY RuntimeNone DEF RuntimeWorld!Trees
  <2>2. /\ {snap.activeTree, snap.targetTree} \subseteq RuntimeWorld!Rows
        /\ snap \in Snapshot /\ build \in [RuntimeWorld!Trees -> RuntimeWorld!Trees]
    BY DEF Boundary, MachineTyped
  <2>3. /\ snap.activeTree \in RuntimeWorld!Trees
        /\ snap.targetTree \in RuntimeWorld!Trees /\ snap.active \in RuntimeWorld!Trees
        /\ reg[snap.activeTree] # None /\ reg[snap.targetTree] # None
    BY <2>2 DEF RuntimeWorld!Rows, Snapshot
  <2> QED BY <2>1, <2>2, <2>3 DEF Boundary, NewBuild
<1>2. CASE TreesBack
  BY <1>1, <1>2 DEF TreesBack, TreesMoved, RuntimeWorld!Arrangement, RuntimeWorld!Observed,
     RuntimeWorld!Active, Boundary
<1>3. CASE TreesMoved
  BY <1>1, <1>3 DEF TreesBack, TreesMoved, RuntimeWorld!Arrangement, RuntimeWorld!Observed,
     RuntimeWorld!Active, Boundary
<1> QED BY <1>2, <1>3

LEMMA RuntimeProbes ==
    ASSUME op.kind \in {"update", "rollback"}, run.at \in 1..(C + 6)
    PROVE  /\ RuntimeWorld!Probe \subseteq Answers
           /\ run.at \in {2, C} => RuntimeWorld!Probe = {"ABSENT"}
           /\ run.at = C + 1 /\ snap # None /\ ~ RuntimeWorld!AlreadyActive =>
               RuntimeWorld!Probe = {RuntimeWorld!Arrangement}
           /\ run.at = C + 4 /\ snap # None /\ "COMPLETE" \in RuntimeWorld!Probe =>
               RuntimeWorld!Identified
<1> HIDE DEF C, RuntimeWorld!AlreadyActive, RuntimeWorld!Identified
<1>1. /\ RuntimeWorld!Arrangement \in Answers /\ RuntimeWorld!HandoffProbe \in Answers
      /\ RuntimeWorld!InvocationProbe \in Answers
  BY DEF RuntimeWorld!Arrangement, RuntimeWorld!HandoffProbe, RuntimeWorld!InvocationProbe,
     Answers
<1>2. {"ABSENT", "COMPLETE", "REVERTIBLE", "PARTIALLY_RESUMABLE",
        "UNCERTAIN_MANUAL"} \subseteq Answers
  BY DEF Answers
<1>3. RuntimeWorld!BuildProbe \subseteq Answers
  <2>1. \/ RuntimeWorld!CandidateProbe \in {{"ABSENT"},
            {"PARTIALLY_RESUMABLE", "UNCERTAIN_MANUAL"}, {"COMPLETE"}}
        \/ RuntimeWorld!CandidateProbe \in {{"COMPLETE"}, {"PARTIALLY_RESUMABLE"}, {"ABSENT"}}
    BY DEF RuntimeWorld!CandidateProbe
  <2>2. CASE RuntimeWorld!AlreadyActive
    <3>1. CASE RuntimeWorld!At = "fetch"
      BY <1>2, <2>2, <3>1 DEF RuntimeWorld!BuildProbe
    <3>2. CASE RuntimeWorld!At = "compile"
      BY <1>2, <2>2, <3>2 DEF RuntimeWorld!BuildProbe
    <3>3. CASE RuntimeWorld!At \notin {"fetch", "compile"}
      BY <1>2, <2>2, <3>3 DEF RuntimeWorld!BuildProbe
    <3> QED BY <3>1, <3>2, <3>3
  <2>3. CASE ~ RuntimeWorld!AlreadyActive
    <3>1. RuntimeWorld!BuildProbe = RuntimeWorld!CandidateProbe
      BY <2>3 DEF RuntimeWorld!BuildProbe
    <3> QED BY <1>2, <2>1, <3>1
  <2> QED BY <2>2, <2>3
<1>4. RuntimeWorld!At \in RuntimeWorld!Activating =>
        RuntimeWorld!ActivationProbe \subseteq Answers
  <2>1. ASSUME RuntimeWorld!At \in RuntimeWorld!Activating
        PROVE  \/ RuntimeWorld!ActivationProbe \in {{RuntimeWorld!Arrangement},
                   {RuntimeWorld!HandoffProbe}, {RuntimeWorld!InvocationProbe}, {"COMPLETE"},
                       {"REVERTIBLE"}}
               \/ RuntimeWorld!ActivationProbe = {"ABSENT"}
    BY <2>1 DEF RuntimeWorld!ActivationProbe, RuntimeWorld!Activating, RuntimeWorld!Skipped
  <2> QED BY <1>1, <1>2, <2>1
<1>5. RuntimeWorld!Probe \subseteq Answers
  BY <1>3, <1>4 DEF RuntimeWorld!Probe
<1>6. ASSUME run.at \in {2, C} PROVE RuntimeWorld!Probe = {"ABSENT"}
  <2>1. /\ (RuntimeWorld!At = "preflight" \/ RuntimeWorld!At = "capture")
        /\ RuntimeWorld!At \notin RuntimeWorld!Activating
    BY <1>6, TreeAtWork, StepsOfTrees
  <2> QED BY <2>1 DEF RuntimeWorld!Probe, RuntimeWorld!BuildProbe, RuntimeWorld!CandidateProbe
<1>7. ASSUME run.at = C + 1, snap # None, ~ RuntimeWorld!AlreadyActive
      PROVE  RuntimeWorld!Probe = {RuntimeWorld!Arrangement}
  <2>1. RuntimeWorld!At = "exchange" /\ RuntimeWorld!At \in RuntimeWorld!Activating
    BY <1>7, TreeAtWork, StepsOfTrees
  <2> QED BY <1>7, <2>1 DEF RuntimeWorld!Probe, RuntimeWorld!ActivationProbe
<1>8. ASSUME run.at = C + 4, snap # None, "COMPLETE" \in RuntimeWorld!Probe
      PROVE  RuntimeWorld!Identified
  <2>1. RuntimeWorld!At = "verify" /\ RuntimeWorld!At \in RuntimeWorld!Activating
    BY <1>8, TreeAtWork, StepsOfTrees
  <2>2. RuntimeWorld!Probe = {IF RuntimeWorld!Identified THEN "COMPLETE" ELSE "REVERTIBLE"}
    BY <1>8, <2>1 DEF RuntimeWorld!Probe, RuntimeWorld!ActivationProbe, RuntimeWorld!Skipped
  <2> QED BY <1>8, <2>2
<1> QED BY <1>5, <1>6, <1>7, <1>8

LEMMA RuntimeHolds ==
    ASSUME op.kind \in {"update", "rollback"}, run.at \in 1..(C + 6), RuntimeWorld!Holds,
        ~ RuntimeWorld!AlreadyActive
    PROVE  /\ run.at = C + 1 => RuntimeWorld!Arrangement = "COMPLETE"
           /\ run.at = C + 2 => RuntimeWorld!HandoffProbe = "COMPLETE"
           /\ run.at = C + 3 => RuntimeWorld!InvocationProbe = "COMPLETE"
           /\ run.at = C + 5 => RuntimeWorld!Promoted
<1> HIDE DEF C, RuntimeWorld!At, RuntimeWorld!Arrangement, RuntimeWorld!HandoffProbe,
   RuntimeWorld!InvocationProbe, RuntimeWorld!Promoted, RuntimeWorld!AlreadyActive
<1>1. C \in {4, 7}
  BY StepsOfTrees
<1>2. run.at > C => RuntimeWorld!ActivationHolds
  BY TreeAtWork DEF RuntimeWorld!Holds
<1> QED BY <1>1, <1>2, TreeAtWork DEF RuntimeWorld!ActivationHolds

-----------------------------------------------------------------------------
(* Nothing changes but the place of the run                                *)

\* What a place claims of a machine that an earlier place of the same step had.
LEMMA SamePlace ==
    ASSUME MachineTyped, RunInv(run, RuntimeWorld!Wf), RuntimePlaced(run), NEW q, q.at = run.at,
           Passed(q, C) <=> Passed(run, C),
           q.pc # "landed",
           ~ RuntimeWorld!AlreadyActive,
           run.at = 2 /\ op.kind = "update" /\ q.row = "CHECKPOINTED" =>
               run.row = "CHECKPOINTED" \/ run.pc = "landed",
           q.way = "forward" => run.way = "forward" /\ \A i : Ahead(q, i) => Ahead(run, i),
           Passed(run, C) /\ Undid(q) => AllBack,
           q.end = "FAILED_SAFE" => q.way = "forward"
    PROVE  RuntimePlaced(q)
<1> HIDE DEF C, RuntimeWorld!Wf, RuntimeWorld!AlreadyActive
<1>1. CASE Passed(run, C)
  <2>1. Activated(run)
    BY <1>1 DEF RuntimePlaced
  <2>2. q.way = "forward" => Forward(q)
    BY <2>1 DEF Activated, Forward
  <2>3. Activated(q)
    BY <1>1, <2>1, <2>2 DEF Activated
  <2> QED BY <1>1, <2>3 DEF RuntimePlaced
<1>2. CASE ~ Passed(run, C)
  <2>1. Untouched /\ Registered(run)
    BY <1>2 DEF RuntimePlaced
  <2>2. Registered(q)
    BY <2>1 DEF Registered
  <2> QED BY <1>2, <2>1, <2>2 DEF RuntimePlaced, NothingToDo
<1> QED BY <1>1, <1>2

\* A no-op leaves the machine as it is, wherever its run goes.
LEMMA NoOpPlace ==
    ASSUME RuntimeWorld!AlreadyActive, RuntimePlaced(run), C \in {4, 7}, run.at \in Nat, NEW q,
           \/ q.at = run.at /\ (q.row = "CHECKPOINTED" /\ run.at = C => run.row = "CHECKPOINTED")
              /\ (q.row = "CHECKPOINTED" /\ run.at = C + 4 => run.row = "CHECKPOINTED" \/ Proving)
           \/ q.at = run.at + 1 /\ q.row = "PENDING" /\ run.row = "CHECKPOINTED"
    PROVE  RuntimePlaced(q)
<1> HIDE DEF C, RuntimeWorld!AlreadyActive, Untouched, TreesUnmoved, Proving
<1>1. Untouched /\ Registered(run) /\ NothingToDo(run)
  BY DEF RuntimePlaced
<1>2. /\ comp.promoted = RuntimeWorld!Active /\ disk[0] \in RuntimeWorld!Rows
      /\ (Passed(run, C) => TreesUnmoved /\ (Passed(run, C + 4) => Proving))
  BY <1>1 DEF NothingToDo
<1>3. Passed(q, C) => Passed(run, C)
  BY DEF Passed
<1>4. Passed(q, C + 4) => Passed(run, C) /\ (Passed(run, C + 4) \/ Proving)
  BY DEF Passed
<1>5. NothingToDo(q)
  BY <1>2, <1>3, <1>4 DEF NothingToDo
<1>6. Registered(q)
  BY DEF Registered
<1> QED BY <1>1, <1>5, <1>6 DEF RuntimePlaced

\* The server of a no-op that is identified.
LEMMA IdentityProves ==
    ASSUME MachineTyped, Untouched, RuntimeWorld!AlreadyActive, RuntimeWorld!Identified
    PROVE  Proving
<1> HIDE DEF RuntimeWorld!AlreadyActive
<1>1. RuntimeWorld!Target = RuntimeWorld!Active
  BY DEF RuntimeWorld!Target
<1>2. handoff.component = RuntimeWorld!Target
  <2>1. RuntimeWorld!HandoffProbe = "COMPLETE"
    BY DEF RuntimeWorld!Identified
  <2> QED BY <2>1 DEF RuntimeWorld!HandoffProbe
<1>3. receipt.build = RuntimeWorld!Target /\ receipt.op = handoff.op
  <2>1. RuntimeWorld!InvocationProbe = "COMPLETE"
    BY DEF RuntimeWorld!Identified
  <2> QED BY <2>1 DEF RuntimeWorld!InvocationProbe
<1>4. /\ disk[0] # None /\ disk[0] \in RuntimeWorld!Trees
      /\ build \in [RuntimeWorld!Trees -> RuntimeWorld!Trees]
      /\ None \notin RuntimeWorld!Trees
  <2>1. 0 \in RuntimeWorld!Trees /\ None \notin RuntimeWorld!Trees
    BY RuntimeNone DEF RuntimeWorld!Trees
  <2> QED BY <2>1 DEF MachineTyped, Maybe, Untouched, Home
<1>5. RuntimeWorld!Active # None
  BY <1>4 DEF RuntimeWorld!Active
<1>6. Bound(handoff)
  BY DEF Untouched, Home
<1> QED BY <1>1, <1>2, <1>3, <1>5, <1>6 DEF Bound, Proving

\* What was given back is back.
LEMMA RestorationSeen ==
    ASSUME MachineTyped, Boundary, Evidence, InTwoPlaces,
        RuntimeWorld!RestorationProbe = "COMPLETE"
    PROVE  AllBack
<1>1. /\ RuntimeWorld!Observed(0, snap.active) /\ handoff = snap.handoff
      /\ comp.promoted = snap.promoted
  BY DEF RuntimeWorld!RestorationProbe
<1>2. /\ TreesBack /\ snap.active # NewBuild /\ NewBuild \in RuntimeWorld!Trees
      /\ None \notin RuntimeWorld!Trees
  BY <1>1, PairSeen DEF InTwoPlaces
<1>3. op.n \in Nat /\ snap.handoff.op \in Nat /\ snap.handoff.op < op.n
  BY DEF MachineTyped, RuntimeWorld!Trees, Boundary, Snapshot, RuntimeWorld!Handoff, Evidence
<1>4. HandoffBack /\ ~ HandoffMoved
  BY <1>1, <1>3 DEF HandoffBack, HandoffMoved
<1>5. RowsBack
  BY <1>4 DEF InTwoPlaces
<1>6. ComponentBack
  BY <1>1, <1>2 DEF InTwoPlaces, ComponentMoved, Evidence
<1> QED BY <1>2, <1>4, <1>5, <1>6 DEF AllBack

\* What the verification of a step saw is in the place forward.
LEMMA VerifiedSeen ==
    ASSUME MachineTyped, Boundary, Evidence, InTwoPlaces
    PROVE  /\ RuntimeWorld!Arrangement = "COMPLETE" => TreesMoved
           /\ RuntimeWorld!HandoffProbe = "COMPLETE" => HandoffMoved
           /\ RuntimeWorld!InvocationProbe = "COMPLETE" =>
               HandoffMoved /\ receipt.op = op.n /\ service.build # None
           /\ RuntimeWorld!Promoted => ComponentMoved
<1>1. /\ RuntimeWorld!Target = NewBuild /\ snap.active # NewBuild
      /\ NewBuild \in RuntimeWorld!Trees /\ None \notin RuntimeWorld!Trees
      /\ RuntimeWorld!Arrangement = "COMPLETE" => TreesMoved
  BY PairSeen DEF InTwoPlaces
<1>2. handoff.component = RuntimeWorld!Target => HandoffMoved
  BY <1>1 DEF InTwoPlaces, HandoffBack, Evidence
<1>3. RuntimeWorld!HandoffProbe = "COMPLETE" => HandoffMoved
  BY <1>1, <1>2 DEF RuntimeWorld!HandoffProbe
<1>4. RuntimeWorld!InvocationProbe = "COMPLETE" =>
        HandoffMoved /\ receipt.op = op.n /\ service.build # None
  <2>1. RuntimeWorld!InvocationProbe = "COMPLETE" =>
            receipt.op = handoff.op /\ handoff.component = RuntimeWorld!Target
                /\ service.build # None
    BY DEF RuntimeWorld!InvocationProbe
  <2> QED BY <1>2, <2>1 DEF HandoffMoved
<1>5. RuntimeWorld!Promoted => ComponentMoved
  <2>1. RuntimeWorld!Promoted => comp.promoted = RuntimeWorld!Target
    BY DEF RuntimeWorld!Promoted
  <2> QED BY <1>1, <2>1 DEF InTwoPlaces, ComponentBack, Evidence
<1> QED BY <1>1, <1>3, <1>4, <1>5

LEMMA TreesPlace ==
    ASSUME TreesInv, op.n > 0
    PROVE  /\ op.kind \in {"update", "rollback"} /\ op.n \in Nat /\ C \in {4, 7}
           /\ RunInv(run, RuntimeWorld!Wf) /\ Workable(RuntimeWorld!Wf)
           /\ Len(RuntimeWorld!Wf.steps) = C + 6
           /\ run.at \in 1..(C + 7) /\ run.row \in {"PENDING", "RUNNING", "CHECKPOINTED"}
           /\ run.end # "none" => run.pc = "down"
           /\ run.pc \in {"effect", "landed", "probe", "verify", "reverify"} =>
                 run.at \in 1..(C + 6) /\ run.way = "forward"
           /\ run.pc \in {"effect", "landed", "probe"} => run.row = "RUNNING"
           /\ run.end = "none" => RuntimePlaced(run)
           /\ run.pc = "landed" => run.at \notin {C, C + 4}
           /\ MachineTyped
<1> HIDE DEF C, RuntimeWorld!Wf
<1>1. op.kind \in {"update", "rollback"} /\ RunInv(run, RuntimeWorld!Wf) /\ op.n \in Nat
  BY DEF TreesInv, MachineTyped, RuntimeWorld!Trees
<1>2. C \in {4, 7} /\ Len(RuntimeWorld!Wf.steps) = C + 6
  BY <1>1, StepsOfTrees
<1>3. run.at \in 1..(C + 7) /\ run.row \in {"PENDING", "RUNNING", "CHECKPOINTED"}
  BY <1>1, TreesUndo
<1>4. /\ run.pc \in {"effect", "landed", "probe", "verify", "reverify"} =>
           run.at \in 1..(C + 6) /\ run.way = "forward"
      /\ run.pc \in {"effect", "landed", "probe"} => run.row = "RUNNING"
      /\ run.end # "none" => run.pc = "down"
  BY <1>1, <1>2, <1>3 DEF RunInv, RunPlaced
<1>5. /\ run.end = "none" => RuntimePlaced(run)
      /\ run.pc = "landed" => run.at \notin {C, C + 4}
  BY DEF TreesInv
<1>6. MachineTyped
  BY DEF TreesInv
<1> QED BY <1>1, <1>2, <1>3, <1>4, <1>5, <1>6, TreesWorkable

\* However the run of an operation that is no no-op moves.
LEMMA TreesMovesOn ==
    ASSUME TreesInv, ~ RuntimeWorld!AlreadyActive, op.n > 0, run.end = "none", NEW q,
        RunInv(q, RuntimeWorld!Wf), NEW classes,
           Moves(run, q, RuntimeWorld!Wf, RuntimeWorld!Holds, classes,
               RuntimeWorld!RestorationProbe = "COMPLETE"),
           run.at = C + 1 /\ Activated(run) =>
               classes \subseteq {RuntimeWorld!Arrangement, "UNCERTAIN_MANUAL"},
           q.pc # "landed",
           (run.at = C \/ (run.at = 2 /\ op.kind = "update" /\ ~ RuntimeWorld!AlreadyActive))
               /\ q.at = run.at /\ q.row = "CHECKPOINTED"
           => run.row = "CHECKPOINTED" \/ run.pc = "landed",
           q.row = "RUNNING" => run.row # "CHECKPOINTED"
    PROVE  RuntimePlaced(q)
<1> HIDE DEF C, RuntimeWorld!Wf, RuntimeWorld!Holds, RuntimeWorld!AlreadyActive, Proving
<1> DEFINE back == RuntimeWorld!RestorationProbe = "COMPLETE"
<1>0. /\ RunInv(run, RuntimeWorld!Wf) /\ RuntimePlaced(run) /\ MachineTyped /\ C \in {4, 7}
      /\ op.kind \in {"update", "rollback"} /\ (run.pc = "landed" => run.at # C)
  BY TreesPlace
<1>1. /\ run.at \in 1..(C + 7) /\ run.row \in {"PENDING", "RUNNING", "CHECKPOINTED"}
      /\ q.at \in 1..(C + 7) /\ q.row \in {"PENDING", "RUNNING", "CHECKPOINTED"}
      /\ run.way = "forward" =>
          run.undone = {} /\ (Run!ToUndo(run, RuntimeWorld!Wf) = {} <=> Ahead(run, C + 1))
      /\ q.way = "forward" =>
          q.undone = {} /\ (Run!ToUndo(q, RuntimeWorld!Wf) = {} <=> Ahead(q, C + 1))
      /\ Run!ToUndo(run, RuntimeWorld!Wf) # {} => Passed(run, C) /\ ~ Ahead(run, C + 1)
      /\ Run!ToUndo(q, RuntimeWorld!Wf) # {} => Passed(q, C) /\ ~ Ahead(q, C + 1)
  BY <1>0, TreesUndo
<1>2. ASSUME Stays(run, q),
             q.end \in {"FAILED_SAFE", "FAILED_ROLLED_BACK", "CANCELLED"} /\ Passed(run, C) =>
                 AllBack,
             q.end = "FAILED_SAFE" => q.way = "forward"
      PROVE  RuntimePlaced(q)
  <2>1. q.at = run.at /\ q.row = run.row /\ q.way = run.way /\ q.undone = run.undone
    BY <1>2 DEF Stays
  <2>2. Run!ToUndo(q, RuntimeWorld!Wf) = Run!ToUndo(run, RuntimeWorld!Wf)
    BY <2>1, SameToUndo
  <2>3. (Passed(q, C) <=> Passed(run, C)) /\ \A i : Ahead(q, i) => Ahead(run, i)
    BY <2>1 DEF Passed, Ahead
  <2>4. Passed(run, C) /\ Undid(q) => AllBack
    BY <1>0, <1>2, <2>2 DEF RuntimePlaced, Activated, Undid
  <2> QED BY <1>0, <1>2, <2>1, <2>3, <2>4, SamePlace
<1>3. CASE Stops(run, q) \/ Succeeds(run, q, RuntimeWorld!Wf) \/ GoesBack(run, q)
  <2>1. Stays(run, q) /\ q.end \in {"none", "RECOVERY_REQUIRED", "SUCCEEDED"}
    BY <1>3 DEF Stops, Succeeds, GoesBack
  <2> QED BY <1>2, <2>1
<1>4. CASE CancelsAtOnce(run, q, RuntimeWorld!Wf) \/ HasUndone(run, q, RuntimeWorld!Wf)
  <2>1. /\ Stays(run, q) /\ Run!ToUndo(run, RuntimeWorld!Wf) = {}
        /\ q.end \in {"CANCELLED", "FAILED_ROLLED_BACK"}
    BY <1>0, <1>4, StepsOfTrees DEF CancelsAtOnce, HasUndone
  <2>2. Passed(run, C) => AllBack
    BY <1>0, <2>1 DEF RuntimePlaced, Activated, Undid
  <2> QED BY <1>2, <2>1, <2>2
<1>5. CASE \E class \in classes : FailsSafe(run, q, RuntimeWorld!Wf, class)
  <2>1. PICK class \in classes : FailsSafe(run, q, RuntimeWorld!Wf, class)
    BY <1>5
  <2>2. /\ Stays(run, q) /\ run.way = "forward" /\ run.row # "PENDING" /\ run.at \in 1..(C + 6)
        /\ Run!ToUndo(run, RuntimeWorld!Wf) \ {run.at} = {}
        /\ class \in {"ABSENT", "DISCARDABLE"} \/ run.at \notin {C + 1, C + 2, C + 3, C + 5}
    BY <1>0, <1>1, <2>1, StepsOfTrees DEF FailsSafe
  <2>3. run.at <= C + 1
    <3>1. ASSUME run.at > C + 1 PROVE FALSE
      <4>1. C + 1 \in Run!ToUndo(run, RuntimeWorld!Wf)
        BY <1>0, <1>1, <2>2, <3>1, TreesUndo
      <4> QED BY <2>2, <3>1, <4>1
    <3> QED BY <1>0, <1>1, <3>1
  <2>4. q.way = "forward"
    BY <2>2 DEF Stays
  <2>5. Passed(run, C) => AllBack
    <3>1. CASE run.at <= C
      <4>1. Run!ToUndo(run, RuntimeWorld!Wf) = {}
        BY <1>0, <1>1, <2>2, <3>1 DEF Ahead
      <4> QED BY <1>0, <4>1 DEF RuntimePlaced, Activated, Undid
    <3>2. CASE run.at = C + 1
      <4>1. Activated(run) /\ Forward(run)
        BY <1>0, <2>2, <3>2 DEF RuntimePlaced, Activated, Passed
      <4>2. /\ class = RuntimeWorld!Arrangement
            /\ RuntimeWorld!Arrangement \in {"ABSENT", "DISCARDABLE"}
        BY <2>2, <3>2, <4>1
      <4>3. TreesBack
        BY <1>0, <4>1, <4>2, PairSeen DEF Activated, InTwoPlaces
      <4>4. HandoffBack /\ RowsBack /\ ComponentBack
        BY <1>0, <3>2, <4>1 DEF Forward, Ahead
      <4> QED BY <4>3, <4>4 DEF AllBack
    <3> QED BY <1>0, <1>1, <2>3, <3>1, <3>2
  <2> QED BY <1>2, <2>2, <2>4, <2>5
<1>6. CASE GoesOn(run, q)
  <2>1. /\ run.way = "forward" /\ q.way = "forward" /\ q.end = "none" /\ q.at = run.at
        /\ q.row = "PENDING" => run.row = "PENDING"
    BY <1>6 DEF GoesOn
  <2>2. \A i : Ahead(q, i) => Ahead(run, i)
    BY <2>1 DEF Ahead
  <2>3. run.at = C => (q.row = "CHECKPOINTED" <=> run.row = "CHECKPOINTED")
    BY <1>0, <1>1, <2>1
  <2>4. Passed(q, C) <=> Passed(run, C)
    BY <2>1, <2>3 DEF Passed
  <2>5. Passed(run, C) /\ Undid(q) => AllBack
    <3>1. Undid(q) => Undid(run)
      BY <1>1, <2>1, <2>2 DEF Undid
    <3> QED BY <1>0, <3>1 DEF RuntimePlaced, Activated
  <2> QED BY <1>0, <2>1, <2>2, <2>4, <2>5, SamePlace
<1>7. CASE Verifies(run, q) /\ RuntimeWorld!Holds
  <2>1. /\ run.way = "forward" /\ q.way = "forward" /\ q.end = "none" /\ q.at = run.at + 1
        /\ run.row = "CHECKPOINTED" /\ q.row = "PENDING" /\ run.at \in 1..(C + 6)
        /\ RuntimeWorld!Holds
        /\ q.pc = "next"
    BY <1>0, <1>1, <1>7 DEF Verifies
  <2>2. Passed(q, C) <=> Passed(run, C)
    BY <1>0, <2>1 DEF Passed
  <2>3. CASE ~ Passed(run, C)
    <3>1. Untouched /\ Registered(run)
      BY <1>0, <2>3 DEF RuntimePlaced
    <3>2. Registered(q)
      BY <2>1, <3>1 DEF Registered
    <3> QED BY <2>2, <2>3, <3>1, <3>2 DEF RuntimePlaced, NothingToDo
  <2>4. CASE Passed(run, C)
    <3>1. Activated(run) /\ Forward(run) /\ run.at >= C
      BY <1>0, <2>1, <2>4 DEF RuntimePlaced, Activated, Passed
    <3>2. Boundary /\ Evidence /\ InTwoPlaces
      BY <3>1 DEF Activated
    <3>3. run.at = C + 1 => TreesMoved
      BY <1>0, <2>1, <3>2, RuntimeHolds, VerifiedSeen
    <3>4. run.at = C + 2 => HandoffMoved
      BY <1>0, <2>1, <3>2, RuntimeHolds, VerifiedSeen
    <3>5. run.at = C + 3 => receipt.op = op.n
      BY <1>0, <2>1, <3>2, RuntimeHolds, VerifiedSeen
    <3>6. run.at = C + 5 => ComponentMoved
      BY <1>0, <2>1, <3>2, RuntimeHolds, VerifiedSeen
    <3>7. /\ HandoffMoved => TreesMoved
          /\ ComponentMoved => RowsMoved
          /\ receipt.op = op.n =>
                receipt.build = NewBuild /\ HandoffMoved /\ service.build \in {None, NewBuild}
          /\ TreesBack => service.build \in {None, snap.active, found.serving}
      BY <3>1 DEF Forward
    <3>8. Ahead(q, C + 1) => TreesBack
      BY <1>0, <2>1, <3>1 DEF Forward, Ahead
    <3>9. Ahead(q, C + 2) => HandoffBack
      BY <1>0, <2>1, <3>1 DEF Forward, Ahead
    <3>10. Ahead(q, C + 5) => RowsBack /\ ComponentBack
      BY <1>0, <2>1, <3>1 DEF Forward, Ahead
    <3>11. /\ q.at > C + 1 => TreesMoved
           /\ q.at > C + 2 => HandoffMoved
           /\ q.at > C + 3 => receipt.op = op.n
           /\ q.at > C + 5 => ComponentMoved
      BY <1>0, <2>1, <3>1, <3>3, <3>4, <3>5, <3>6 DEF Forward
    <3>12. Forward(q)
      BY <3>7, <3>8, <3>9, <3>10, <3>11 DEF Forward
    <3>13. Undid(q) => AllBack
      <4>1. Undid(q) => Ahead(run, C + 1)
        BY <1>0, <1>1, <2>1 DEF Undid, Ahead
      <4>2. Ahead(run, C + 1) => Undid(run)
        BY <1>1, <2>1 DEF Undid
      <4> QED BY <3>1, <4>1, <4>2 DEF Activated
    <3>14. Activated(q)
      BY <2>1, <3>2, <3>12, <3>13 DEF Activated
    <3> QED BY <2>2, <2>4, <3>14 DEF RuntimePlaced
  <2> QED BY <2>3, <2>4
<1>8. CASE TurnsBack(run, q, RuntimeWorld!Wf)
  <2>1. /\ q.way # "forward" /\ q.at = run.at /\ q.row = run.row /\ q.end = "none"
        /\ q.undone = run.undone
    BY <1>1, <1>8 DEF TurnsBack
  <2>2. Run!ToUndo(q, RuntimeWorld!Wf) = Run!ToUndo(run, RuntimeWorld!Wf)
    BY <2>1, SameToUndo
  <2>3. Passed(q, C) <=> Passed(run, C)
    BY <2>1 DEF Passed
  <2>4. Passed(run, C) /\ Undid(q) => AllBack
    BY <1>0, <2>1, <2>2 DEF RuntimePlaced, Activated, Undid
  <2> QED BY <1>0, <2>1, <2>3, <2>4, SamePlace
<1>9. CASE UndoesOne(run, q) /\ back
  <2>1. /\ q.way # "forward" /\ q.at = run.at /\ q.row = run.row /\ q.end = "none"
        /\ run.todo # {}
        /\ run.pc \in {"undo", "undoing", "undone"} /\ back
    BY <1>9 DEF UndoesOne
  <2>2. Run!ToUndo(run, RuntimeWorld!Wf) # {}
    BY <1>0, <2>1 DEF RunInv, RunPlaced
  <2>3. Passed(run, C) /\ Boundary /\ Evidence /\ InTwoPlaces
    BY <1>0, <1>1, <2>2 DEF RuntimePlaced, Activated
  <2>4. AllBack
    BY <1>0, <2>1, <2>3, RestorationSeen
  <2>5. Passed(q, C) <=> Passed(run, C)
    BY <2>1 DEF Passed
  <2> QED BY <1>0, <2>1, <2>4, <2>5, SamePlace
<1> QED BY <1>3, <1>4, <1>5, <1>6, <1>7, <1>8, <1>9 DEF Moves

\* However the run moves: nothing changes but its place.
LEMMA TreesMoves ==
    ASSUME TreesInv, op.n > 0, run.end = "none", NEW q, RunInv(q, RuntimeWorld!Wf), NEW classes,
           Moves(run, q, RuntimeWorld!Wf, RuntimeWorld!Holds, classes,
               RuntimeWorld!RestorationProbe = "COMPLETE"),
           run.at = C + 1 /\ Activated(run) =>
               classes \subseteq {RuntimeWorld!Arrangement, "UNCERTAIN_MANUAL"},
           q.pc # "landed",
           (run.at = C \/ (run.at = 2 /\ op.kind = "update" /\ ~ RuntimeWorld!AlreadyActive))
               /\ q.at = run.at /\ q.row = "CHECKPOINTED"
           => run.row = "CHECKPOINTED" \/ run.pc = "landed",
           RuntimeWorld!AlreadyActive /\ run.at = C + 4 /\ q.at = run.at /\ q.row = "CHECKPOINTED"
           => run.row = "CHECKPOINTED" \/ Proving,
           q.row = "RUNNING" => run.row # "CHECKPOINTED"
    PROVE  RuntimePlaced(q)
<1> HIDE DEF C, RuntimeWorld!Wf, RuntimeWorld!Holds, RuntimeWorld!AlreadyActive, Proving
<1> DEFINE back == RuntimeWorld!RestorationProbe = "COMPLETE"
<1>0. /\ RunInv(run, RuntimeWorld!Wf) /\ RuntimePlaced(run) /\ MachineTyped /\ C \in {4, 7}
      /\ op.kind \in {"update", "rollback"} /\ (run.pc = "landed" => run.at # C)
  BY TreesPlace
<1>1. /\ run.at \in 1..(C + 7) /\ run.row \in {"PENDING", "RUNNING", "CHECKPOINTED"}
      /\ q.at \in 1..(C + 7) /\ q.row \in {"PENDING", "RUNNING", "CHECKPOINTED"}
      /\ run.way = "forward" =>
          run.undone = {} /\ (Run!ToUndo(run, RuntimeWorld!Wf) = {} <=> Ahead(run, C + 1))
      /\ q.way = "forward" =>
          q.undone = {} /\ (Run!ToUndo(q, RuntimeWorld!Wf) = {} <=> Ahead(q, C + 1))
      /\ Run!ToUndo(run, RuntimeWorld!Wf) # {} => Passed(run, C) /\ ~ Ahead(run, C + 1)
      /\ Run!ToUndo(q, RuntimeWorld!Wf) # {} => Passed(q, C) /\ ~ Ahead(q, C + 1)
  BY <1>0, TreesUndo
<1>2. CASE RuntimeWorld!AlreadyActive
  <2>1. CASE Verifies(run, q)
    BY <1>0, <1>1, <1>2, <2>1, NoOpPlace DEF Verifies
  <2>2. CASE ~ Verifies(run, q)
    <3>1. q.at = run.at /\ (q.row = run.row \/ GoesOn(run, q))
      BY <2>2 DEF Moves, Stops, Succeeds, FailsSafe, TurnsBack, CancelsAtOnce,
                  GoesBack, HasUndone, UndoesOne, Stays, GoesOn
    <3>2. q.row = "CHECKPOINTED" /\ run.at = C => run.row = "CHECKPOINTED"
      BY <1>0, <3>1
    <3>3. q.row = "CHECKPOINTED" /\ run.at = C + 4 => run.row = "CHECKPOINTED" \/ Proving
      BY <1>2, <3>1
    <3>4. run.at \in Nat
      BY <1>0, <1>1
    <3> QED BY <1>0, <1>2, <3>1, <3>2, <3>3, <3>4, NoOpPlace
  <2> QED BY <2>1, <2>2
<1>3. CASE ~ RuntimeWorld!AlreadyActive
  BY <1>3, TreesMovesOn
<1> QED BY <1>2, <1>3

Machine == <<op, build, disk, reg, comp, known, handoff, service, receipt, snap, found>>

LEMMA SameMachine ==
    ASSUME UNCHANGED Machine
    PROVE  /\ RuntimeWorld!Wf' = RuntimeWorld!Wf /\ C' = C /\ NewBuild' = NewBuild
           /\ RuntimeWorld!Rows' = RuntimeWorld!Rows
           /\ RuntimeWorld!Active' = RuntimeWorld!Active
           /\ (TreesBack <=> TreesBack') /\ (TreesMoved <=> TreesMoved')
           /\ (RowsBack <=> RowsBack') /\ (RowsMoved <=> RowsMoved')
           /\ (HandoffBack <=> HandoffBack') /\ (HandoffMoved <=> HandoffMoved')
           /\ (ComponentBack <=> ComponentBack') /\ (ComponentMoved <=> ComponentMoved')
           /\ (RuntimeWorld!AlreadyActive <=> RuntimeWorld!AlreadyActive') =>
               (Boundary <=> Boundary')
           /\ (Evidence <=> Evidence') /\ (AllBack <=> AllBack')
           /\ (InTwoPlaces <=> InTwoPlaces') /\ (Untouched <=> Untouched') /\ (Home <=> Home')
           /\ (TreesUnmoved <=> TreesUnmoved') /\ (Proving <=> Proving')
           /\ (Numbered <=> Numbered')
<1>1. /\ op' = op /\ build' = build /\ disk' = disk /\ reg' = reg /\ comp' = comp
      /\ known' = known
      /\ handoff' = handoff /\ service' = service /\ receipt' = receipt /\ snap' = snap
      /\ found' = found
  BY DEF Machine
<1>2. RuntimeWorld!Wf' = RuntimeWorld!Wf /\ C' = C
  BY <1>1 DEF RuntimeWorld!Wf, C
<1>3. /\ NewBuild' = NewBuild /\ RuntimeWorld!Rows' = RuntimeWorld!Rows
      /\ RuntimeWorld!Active' = RuntimeWorld!Active
      /\ RuntimeWorld!Now' = RuntimeWorld!Now
  BY <1>1 DEF NewBuild, RuntimeWorld!Rows, RuntimeWorld!Active, RuntimeWorld!Now,
     RuntimeWorld!Trees
<1>4. /\ (TreesBack <=> TreesBack') /\ (TreesMoved <=> TreesMoved')
      /\ (RowsBack <=> RowsBack') /\ (RowsMoved <=> RowsMoved')
      /\ (HandoffBack <=> HandoffBack') /\ (HandoffMoved <=> HandoffMoved')
      /\ (ComponentBack <=> ComponentBack') /\ (ComponentMoved <=> ComponentMoved')
  BY <1>1, <1>3 DEF TreesBack, TreesMoved, RowsBack, RowsMoved, HandoffBack, HandoffMoved,
                   ComponentBack, ComponentMoved, RuntimeWorld!AtRoot, RuntimeWorld!Aside
<1>5. AllBack <=> AllBack'
  BY <1>4 DEF AllBack
<1>6. InTwoPlaces <=> InTwoPlaces'
  BY <1>1, <1>3, <1>4 DEF InTwoPlaces, Bound
<1>7. ASSUME RuntimeWorld!AlreadyActive <=> RuntimeWorld!AlreadyActive'
      PROVE  Boundary <=> Boundary'
  <2>1. RuntimeWorld!Target' = RuntimeWorld!Target
    BY <1>1, <1>3, <1>7 DEF RuntimeWorld!Target
  <2> HIDE DEF RuntimeWorld!AlreadyActive, RuntimeWorld!Target
  <2> QED BY <1>1, <1>3, <1>7, <2>1 DEF Boundary
<1>8. Evidence <=> Evidence'
  BY <1>1, <1>3 DEF Evidence
<1>9. Home <=> Home'
  BY <1>1, <1>3 DEF Home, Bound
<1>10. Untouched <=> Untouched'
  <2>1. Candidate <=> Candidate'
    BY <1>1, <1>3 DEF Candidate
  <2> QED BY <1>1, <1>3, <1>9, <2>1 DEF Untouched
<1>11. Numbered <=> Numbered'
  BY <1>1, <1>3 DEF Numbered
<1>12. (TreesUnmoved <=> TreesUnmoved') /\ (Proving <=> Proving')
  BY <1>1, <1>3 DEF TreesUnmoved, Proving
<1> HIDE DEF RuntimeWorld!AlreadyActive
<1> QED BY <1>2, <1>3, <1>4, <1>5, <1>6, <1>7, <1>8, <1>9, <1>10, <1>11, <1>12

LEMMA TreesAround ==
    ASSUME TreesInv, UNCHANGED Machine, work' \in RuntimeWorld!Work,
        RuntimeWorld!AlreadyActive <=>
            RuntimeWorld!AlreadyActive', NEW q, q = run', RuntimePlaced(q)
    PROVE  RuntimePlaced(run)' /\ MachineTyped' /\ Numbered'
<1> HIDE DEF RuntimeWorld!Wf, C, Machine, RuntimeWorld!AlreadyActive
<1>1. /\ RuntimeWorld!Wf' = RuntimeWorld!Wf /\ C' = C /\ NewBuild' = NewBuild
      /\ RuntimeWorld!Rows' = RuntimeWorld!Rows
      /\ (TreesBack <=> TreesBack') /\ (TreesMoved <=> TreesMoved')
      /\ (RowsBack <=> RowsBack') /\ (RowsMoved <=> RowsMoved')
      /\ (HandoffBack <=> HandoffBack') /\ (HandoffMoved <=> HandoffMoved')
      /\ (ComponentBack <=> ComponentBack') /\ (ComponentMoved <=> ComponentMoved')
      /\ (Boundary <=> Boundary') /\ (Evidence <=> Evidence') /\ (AllBack <=> AllBack')
      /\ (InTwoPlaces <=> InTwoPlaces') /\ (Untouched <=> Untouched') /\ (Numbered <=> Numbered')
      /\ (TreesUnmoved <=> TreesUnmoved') /\ (Proving <=> Proving')
      /\ RuntimeWorld!Active' = RuntimeWorld!Active
  BY SameMachine
<1>2. /\ op' = op /\ disk' = disk /\ receipt' = receipt /\ service' = service
      /\ comp' = comp /\ found' = found /\ snap' = snap
  BY DEF Machine
<1>3. Forward(q) => Forward(run)'
  BY <1>1, <1>2 DEF Forward, Ahead
<1>4. Undid(run)' => Undid(q)
  BY <1>1 DEF Undid
<1>5. Activated(q) => Activated(run)'
  BY <1>1, <1>3, <1>4 DEF Activated
<1>6. Registered(q) => Registered(run)'
  BY <1>1, <1>2 DEF Registered
<1>7. Passed(q, C) <=> Passed(run, C)'
  BY <1>1 DEF Passed
<1>8. RuntimePlaced(run)'
  <2>1. Passed(q, C + 4) <=> Passed(run, C + 4)'
    BY <1>1 DEF Passed
  <2>2. NothingToDo(q) => NothingToDo(run)'
    BY <1>1, <1>2, <1>7, <2>1 DEF NothingToDo
  <2> QED BY <1>1, <1>5, <1>6, <1>7, <2>2 DEF RuntimePlaced
<1>9. MachineTyped'
  BY DEF TreesInv, MachineTyped, Machine
<1> QED BY <1>1, <1>8, <1>9 DEF TreesInv

LEMMA RuntimeMoved ==
    ASSUME TreesInv, op.n > 0, run.end = "none", NEW q, q = run', RunInv(q, RuntimeWorld!Wf),
        NEW classes,
           Moves(run, q, RuntimeWorld!Wf, RuntimeWorld!Holds, classes,
               RuntimeWorld!RestorationProbe = "COMPLETE"),
           run.at = C + 1 /\ Activated(run) =>
               classes \subseteq {RuntimeWorld!Arrangement, "UNCERTAIN_MANUAL"},
           q.pc # "landed",
           (run.at = C \/ (run.at = 2 /\ op.kind = "update" /\ ~ RuntimeWorld!AlreadyActive))
               /\ q.at = run.at /\ q.row = "CHECKPOINTED"
           => run.row = "CHECKPOINTED" \/ run.pc = "landed",
           RuntimeWorld!AlreadyActive /\ run.at = C + 4 /\ q.at = run.at /\ q.row = "CHECKPOINTED"
           => run.row = "CHECKPOINTED" \/ Proving,
           q.row = "RUNNING" => run.row # "CHECKPOINTED",
           UNCHANGED Machine, work' \in RuntimeWorld!Work, RuntimeWorld!AlreadyActive <=>
               RuntimeWorld!AlreadyActive'
    PROVE  TreesInv'
<1> HIDE DEF RuntimeWorld!Wf, C, Machine, RuntimeWorld!Holds, RuntimeWorld!AlreadyActive, Proving
<1>1. RuntimePlaced(q)
  BY TreesMoves
<1>2. RuntimePlaced(run)' /\ MachineTyped' /\ Numbered'
  BY <1>1, TreesAround
<1>3. RunInv(run, RuntimeWorld!Wf)' /\ run'.pc # "landed" /\ op' = op
  BY SameMachine DEF Machine
<1>4. op.n # 0
  BY TreesPlace
<1>5. q.end \in Endings
  BY DEF Moves, Stops, GoesOn, Succeeds, Verifies, FailsSafe, TurnsBack,
         CancelsAtOnce, GoesBack, HasUndone, UndoesOne, Endings
<1> QED BY <1>2, <1>3, <1>4, <1>5 DEF TreesInv

\* The definitions of StepRun are the same in both modules.
LEMMA SameTurns ==
    ASSUME NEW r, NEW wf, NEW holds, NEW classes, NEW restoration
    PROVE  RuntimeWorld!Turns(r, wf, holds, classes, restoration) = Run!Turns(r, wf, holds,
        classes, restoration)
  BY DEF RuntimeWorld!Turns, RuntimeWorld!Claimed, RuntimeWorld!Advanced, RuntimeWorld!Ended,
     RuntimeWorld!Crashed, RuntimeWorld!Applied, RuntimeWorld!Verified,
     RuntimeWorld!RollingBack, RuntimeWorld!Decided, RuntimeWorld!Failed,
         RuntimeWorld!Rejected, RuntimeWorld!Latest, RuntimeWorld!UndoAdvanced,
         RuntimeWorld!Interrupted, RuntimeWorld!Undone, RuntimeWorld!UndoDecided,
         RuntimeWorld!ToUndo, RuntimeWorld!Flagged,
         RuntimeWorld!DecideRecovery,
         Run!Turns, Run!Claimed, Run!Advanced, Run!Ended, Run!Crashed, Run!Applied, Run!Verified,
         Run!RollingBack, Run!Decided, Run!Failed, Run!Rejected, Run!Latest, Run!UndoAdvanced,
         Run!Interrupted, Run!Undone, Run!UndoDecided, Run!ToUndo, Run!Flagged, Run!DecideRecovery

LEMMA SameMishaps ==
    ASSUME NEW r, NEW wf, NEW classes
    PROVE  RuntimeWorld!Mishaps(r, wf, classes) = Run!Mishaps(r, wf, classes)
  BY DEF RuntimeWorld!Mishaps, RuntimeWorld!Ended, RuntimeWorld!Crashed,
     RuntimeWorld!RollingBack, RuntimeWorld!Failed, RuntimeWorld!Rejected, RuntimeWorld!Latest,
     RuntimeWorld!UndoFailed, RuntimeWorld!ToUndo, RuntimeWorld!Flagged,
         Run!Mishaps, Run!Ended, Run!Crashed, Run!RollingBack, Run!Failed, Run!Rejected,
         Run!Latest,
         Run!UndoFailed, Run!ToUndo, Run!Flagged

LEMMA SameMoments ==
    ASSUME NEW r, NEW wf, NEW class
    PROVE  /\ RuntimeWorld!Cancellable(r, wf) = Run!Cancellable(r, wf)
           /\ RuntimeWorld!Cancelled(r, wf) = Run!Cancelled(r, wf)
           /\ RuntimeWorld!Failed(r, wf, class) = Run!Failed(r, wf, class)
           /\ RuntimeWorld!Applied(r) = Run!Applied(r) /\ RuntimeWorld!Landed(r) = Run!Landed(r)
           /\ RuntimeWorld!Undone(r) = Run!Undone(r)
           /\ RuntimeWorld!UndoFailed(r) = Run!UndoFailed(r)
  BY DEF RuntimeWorld!Cancellable, RuntimeWorld!Cancelled, RuntimeWorld!Ended,
     RuntimeWorld!Failed, RuntimeWorld!RollingBack, RuntimeWorld!Applied, RuntimeWorld!Landed,
     RuntimeWorld!Undone, RuntimeWorld!UndoFailed,
         RuntimeWorld!Latest, RuntimeWorld!ToUndo, RuntimeWorld!Flagged,
         Run!Cancellable, Run!Cancelled, Run!Ended, Run!Failed, Run!RollingBack, Run!Applied,
         Run!Landed, Run!Undone, Run!UndoFailed, Run!Latest, Run!ToUndo, Run!Flagged

LEMMA RuntimeTurns ==
    ASSUME TreesInv, RuntimeWorld!Engine
    PROVE  TreesInv'
<1> HIDE DEF RuntimeWorld!Wf, C, RuntimeWorld!Holds, RuntimeWorld!Probe, RuntimeWorld!At,
   RuntimeWorld!Arrangement, RuntimeWorld!AlreadyActive, Proving, RuntimeWorld!Identified
<1>1. run' \in Run!Turns(run, RuntimeWorld!Wf, RuntimeWorld!Holds, RuntimeWorld!Probe,
        RuntimeWorld!RestorationProbe)
  BY SameTurns DEF RuntimeWorld!Engine
<1>2. op.n > 0
  <2>1. run.end # "none" /\ run.pc = "down" => Run!Turns(run, RuntimeWorld!Wf,
          RuntimeWorld!Holds, RuntimeWorld!Probe, RuntimeWorld!RestorationProbe) = {}
    BY DEF Run!Turns
  <2> QED BY <1>1, <2>1 DEF TreesInv, MachineTyped, RuntimeWorld!Trees
<1>3. /\ RunInv(run, RuntimeWorld!Wf) /\ Workable(RuntimeWorld!Wf)
      /\ Len(RuntimeWorld!Wf.steps) = C + 6 /\ run.at \in 1..(C + 7)
      /\ C \in {4, 7} /\ op.kind \in {"update", "rollback"}
      /\ (run.pc = "landed" => run.at \notin {C, C + 4})
      /\ MachineTyped
  BY <1>2, TreesPlace
<1>4. run.at <= Len(RuntimeWorld!Wf.steps) => RuntimeWorld!Probe \subseteq Answers
  BY <1>3, RuntimeProbes
<1>5. /\ RunInv(run', RuntimeWorld!Wf) /\ run.end = "none"
      /\ Moves(run, run', RuntimeWorld!Wf, RuntimeWorld!Holds, RuntimeWorld!Probe,
          RuntimeWorld!RestorationProbe = "COMPLETE")
  BY <1>1, <1>3, <1>4, RunTurns
<1>6. Lands(run, run', RuntimeWorld!Probe) /\ Begins(run, run', RuntimeWorld!Probe)
  BY <1>1, <1>3, <1>4, TurnsLand, TurnsBegin
<1>7. /\ run'.pc # "landed"
      /\ run.at \in {2, C} /\ run'.at = run.at /\ run'.row = "CHECKPOINTED" =>
            run.row = "CHECKPOINTED" \/ run.pc = "landed"
      /\ run'.row = "RUNNING" => run.row # "CHECKPOINTED"
  <2>1. run.at \in {2, C} => RuntimeWorld!Probe = {"ABSENT"}
    BY <1>3, RuntimeProbes
  <2> QED BY <1>6, <2>1 DEF Lands, Begins
<1>8. run.at = C + 1 /\ Activated(run) =>
        RuntimeWorld!Probe \subseteq {RuntimeWorld!Arrangement, "UNCERTAIN_MANUAL"}
  <2>1. Activated(run) => snap # None /\ ~ RuntimeWorld!AlreadyActive
    BY RuntimeNone DEF Activated, Boundary
  <2> QED BY <1>3, <2>1, RuntimeProbes
<1>9. /\ UNCHANGED Machine /\ work' \in RuntimeWorld!Work
      /\ (RuntimeWorld!AlreadyActive <=> RuntimeWorld!AlreadyActive')
  BY <1>3 DEF RuntimeWorld!Engine, Machine, RuntimeWorld!stepVars, MachineTyped,
     RuntimeWorld!AlreadyActive
<1>10. /\ RuntimeWorld!AlreadyActive /\ run.at = C + 4 /\ run'.at = run.at
       /\ run'.row = "CHECKPOINTED"
       => run.row = "CHECKPOINTED" \/ Proving
  <2>1. SUFFICES ASSUME RuntimeWorld!AlreadyActive, run.at = C + 4,
          "COMPLETE" \in RuntimeWorld!Probe PROVE Proving
    BY <1>3, <1>6 DEF Lands
  <2>2. RuntimePlaced(run) /\ Passed(run, C)
    BY <1>2, <1>3, <1>5, <2>1, TreesPlace DEF Passed
  <2>3. Untouched /\ snap # None
    BY <2>1, <2>2, RuntimeNone DEF RuntimePlaced, NothingToDo, TreesUnmoved
  <2>4. RuntimeWorld!Identified
    BY <1>3, <2>1, <2>3, RuntimeProbes
  <2> QED BY <1>3, <2>1, <2>3, <2>4, IdentityProves
<1> HIDE DEF Machine
<1> QED BY <1>2, <1>5, <1>7, <1>8, <1>9, <1>10, RuntimeMoved

LEMMA RuntimeMisfortune ==
    ASSUME TreesInv, RuntimeWorld!Misfortune
    PROVE  TreesInv'
<1> HIDE DEF RuntimeWorld!Wf, C, RuntimeWorld!Holds, RuntimeWorld!Probe, RuntimeWorld!At,
   RuntimeWorld!Arrangement, RuntimeWorld!AlreadyActive, Proving
<1>1. run' \in Run!Mishaps(run, RuntimeWorld!Wf, RuntimeWorld!Probe)
  BY SameMishaps DEF RuntimeWorld!Misfortune
<1>2. op.n > 0
  <2>1. run.pc = "down" => Run!Mishaps(run, RuntimeWorld!Wf, RuntimeWorld!Probe) = {}
    BY DEF Run!Mishaps
  <2> QED BY <1>1, <2>1 DEF TreesInv, MachineTyped, RuntimeWorld!Trees
<1>3. /\ RunInv(run, RuntimeWorld!Wf) /\ Workable(RuntimeWorld!Wf) /\ run.at \in 1..(C + 7)
      /\ C \in {4, 7} /\ op.kind \in {"update", "rollback"} /\ MachineTyped
  BY <1>2, TreesPlace
<1>4. /\ RunInv(run', RuntimeWorld!Wf) /\ run.end = "none"
      /\ Moves(run, run', RuntimeWorld!Wf, FALSE, RuntimeWorld!Probe \cup {"UNCERTAIN_MANUAL"},
          FALSE)
  BY <1>1, <1>3, RunMishaps
<1>5. run'.pc # "landed" /\ run'.at = run.at /\ run'.row = run.row
  BY <1>1, <1>3, MishapsStay
<1>6. Moves(run, run', RuntimeWorld!Wf, RuntimeWorld!Holds, RuntimeWorld!Probe \cup
        {"UNCERTAIN_MANUAL"}, RuntimeWorld!RestorationProbe = "COMPLETE")
  BY <1>4 DEF Moves
<1>7. run.at = C + 1 /\ Activated(run) => RuntimeWorld!Probe \cup
        {"UNCERTAIN_MANUAL"} \subseteq {RuntimeWorld!Arrangement, "UNCERTAIN_MANUAL"}
  <2>1. Activated(run) => snap # None /\ ~ RuntimeWorld!AlreadyActive
    BY RuntimeNone DEF Activated, Boundary
  <2> QED BY <1>3, <2>1, RuntimeProbes
<1>8. /\ UNCHANGED Machine /\ work' \in RuntimeWorld!Work
      /\ (RuntimeWorld!AlreadyActive <=> RuntimeWorld!AlreadyActive')
  BY <1>3 DEF RuntimeWorld!Misfortune, Machine, RuntimeWorld!stepVars, MachineTyped,
     RuntimeWorld!AlreadyActive
<1> HIDE DEF Machine
<1> QED BY <1>2, <1>4, <1>5, <1>6, <1>7, <1>8, RuntimeMoved

LEMMA RuntimeCancelled ==
    ASSUME TreesInv, RuntimeWorld!Cancel
    PROVE  TreesInv'
<1> HIDE DEF RuntimeWorld!Wf, C, RuntimeWorld!Holds, RuntimeWorld!Probe, RuntimeWorld!At,
   RuntimeWorld!Arrangement, RuntimeWorld!AlreadyActive, Proving
<1>1. Run!Cancellable(run, RuntimeWorld!Wf) /\ run' = Run!Cancelled(run, RuntimeWorld!Wf)
  BY SameMoments DEF RuntimeWorld!Cancel
<1>2. op.n > 0 /\ run.end = "none"
  BY <1>1 DEF TreesInv, MachineTyped, RuntimeWorld!Trees, Run!Cancellable
<1>3. RunInv(run, RuntimeWorld!Wf) /\ MachineTyped
  BY <1>2, TreesPlace
<1>4. /\ RunInv(run', RuntimeWorld!Wf)
      /\ (CancelsAtOnce(run, run', RuntimeWorld!Wf) \/ TurnsBack(run, run', RuntimeWorld!Wf))
  BY <1>1, <1>3, RunCancelled
<1>5. run'.at = run.at /\ run'.row = run.row /\ run'.pc # "landed"
  BY <1>4 DEF CancelsAtOnce, TurnsBack, Stays
<1>6. Moves(run, run', RuntimeWorld!Wf, RuntimeWorld!Holds, {},
        RuntimeWorld!RestorationProbe = "COMPLETE")
  BY <1>4 DEF Moves
<1>7. /\ UNCHANGED Machine /\ work' \in RuntimeWorld!Work
      /\ (RuntimeWorld!AlreadyActive <=> RuntimeWorld!AlreadyActive')
  BY <1>3 DEF RuntimeWorld!Cancel, Machine, RuntimeWorld!stepVars, MachineTyped,
     RuntimeWorld!AlreadyActive
<1> HIDE DEF Machine
<1> QED BY <1>2, <1>4, <1>5, <1>6, <1>7, RuntimeMoved

-----------------------------------------------------------------------------
(* The steps that build a candidate                                        *)

LEMMA SameDecided ==
    ASSUME NEW r, NEW wf, NEW class
    PROVE  RuntimeWorld!Decided(r, wf, class) = Run!Decided(r, wf, class)
  BY DEF RuntimeWorld!Decided, RuntimeWorld!Applied, RuntimeWorld!RollingBack,
     RuntimeWorld!Crashed, RuntimeWorld!Ended, RuntimeWorld!ToUndo, RuntimeWorld!Flagged,
     RuntimeWorld!DecideRecovery,
         Run!Decided, Run!Applied, Run!RollingBack, Run!Crashed, Run!Ended, Run!ToUndo,
         Run!Flagged,
         Run!DecideRecovery

Early == {"resolve", "target", "preflight", "fetch", "configure", "compile", "smoke"}

LEMMA StepIsEarly ==
    ASSUME TreesInv, run.pc # "down", run.at \in 1..(C + 6), RuntimeWorld!At \in Early
    PROVE  run.at < C /\ (RuntimeWorld!At # "preflight" => run.at # 2)
<1> HIDE DEF C, RuntimeWorld!At
<1>1. op.n > 0
  BY DEF TreesInv, MachineTyped, RuntimeWorld!Trees
<1>2. RuntimeWorld!At \notin RuntimeWorld!Activating /\ RuntimeWorld!At # "capture"
  BY DEF Early, RuntimeWorld!Activating
<1> QED BY <1>1, <1>2, TreesPlace, TreeAtWork

\* A step at work.
LEMMA StepExecutes ==
    ASSUME TreesInv, run.pc = "effect"
    PROVE  /\ op.n > 0 /\ run.end = "none" /\ run.at \in 1..(C + 6) /\ run.row = "RUNNING"
           /\ run.way = "forward" /\ RuntimePlaced(run) /\ MachineTyped /\ Numbered
           /\ C \in {4, 7}
           /\ op.kind \in {"update", "rollback"} /\ RunInv(run, RuntimeWorld!Wf)
<1> HIDE DEF C, RuntimeWorld!Wf
<1>1. op.n > 0
  BY DEF TreesInv, MachineTyped, RuntimeWorld!Trees
<1> QED BY <1>1, TreesPlace DEF TreesInv

LEMMA StepAfter ==
    ASSUME TreesInv, run.pc = "effect", NEW q,
        q \in {run, RuntimeWorld!Landed(run), RuntimeWorld!Applied(run)}
    PROVE  /\ RunInv(q, RuntimeWorld!Wf) /\ q.at = run.at /\ q.row \in {"RUNNING", "CHECKPOINTED"}
           /\ q.way = "forward" /\ q.end = "none" /\ q.pc \in {"effect", "landed", "verify"}
           /\ q = RuntimeWorld!Landed(run) => q.pc = "landed" /\ q.row = "RUNNING"
           /\ q = RuntimeWorld!Applied(run) => q.pc = "verify"
           /\ q = RuntimeWorld!Applied(run) => GoesOn(run, q)
<1> HIDE DEF C, RuntimeWorld!Wf
<1>1. /\ RunInv(run, RuntimeWorld!Wf) /\ run.end = "none" /\ run.way = "forward"
      /\ run.row = "RUNNING"
      /\ Workable(RuntimeWorld!Wf)
  BY StepExecutes, TreesPlace
<1>2. /\ RuntimeWorld!Landed(run) = Run!Landed(run)
      /\ RuntimeWorld!Applied(run) = Run!Applied(run)
  BY SameMoments
<1>3. /\ RunInv(Run!Landed(run), RuntimeWorld!Wf) /\ RunInv(Run!Applied(run), RuntimeWorld!Wf)
      /\ GoesOn(run, Run!Applied(run))
  BY <1>1, RunApplied
<1>4. DOMAIN run = {"at", "row", "way", "begun", "undone", "pc", "todo", "bad", "end"}
  BY <1>1 DEF RunInv, RunShaped
<1>5. /\ Run!Landed(run).at = run.at /\ Run!Landed(run).row = run.row
      /\ Run!Landed(run).pc = "landed"
      /\ Run!Landed(run).way = run.way /\ Run!Landed(run).end = run.end
      /\ Run!Applied(run).at = run.at /\ Run!Applied(run).row = "CHECKPOINTED"
      /\ Run!Applied(run).pc = "verify" /\ Run!Applied(run).way = run.way
      /\ Run!Applied(run).end = run.end
  BY <1>4 DEF Run!Landed, Run!Applied
<1> QED BY <1>1, <1>2, <1>3, <1>5

LEMMA RuntimeRefused ==
    ASSUME TreesInv, run.pc = "effect", RuntimeWorld!Refused, UNCHANGED Machine, work' = work
    PROVE  TreesInv'
<1> HIDE DEF RuntimeWorld!Wf, C, RuntimeWorld!Holds, RuntimeWorld!Probe, RuntimeWorld!At,
   RuntimeWorld!Arrangement, Machine, RuntimeWorld!AlreadyActive, Proving
<1>1. /\ op.n > 0 /\ run.end = "none" /\ run.at \in 1..(C + 6) /\ run.row = "RUNNING"
      /\ RunInv(run, RuntimeWorld!Wf) /\ C \in {4, 7} /\ op.kind \in {"update", "rollback"}
      /\ Workable(RuntimeWorld!Wf) /\ work \in RuntimeWorld!Work
  BY StepExecutes, TreesPlace DEF MachineTyped
<1>2. PICK class \in RuntimeWorld!Probe : run' = Run!Failed(run, RuntimeWorld!Wf, class)
  BY SameMoments DEF RuntimeWorld!Refused
<1>3. /\ RunInv(run', RuntimeWorld!Wf)
      /\ FailsSafe(run, run', RuntimeWorld!Wf, class) \/ TurnsBack(run, run', RuntimeWorld!Wf)
  BY <1>1, <1>2, RunFailed
<1>4. run'.at = run.at /\ run'.row = run.row /\ run'.pc # "landed"
  BY <1>3 DEF FailsSafe, TurnsBack, Stays
<1>5. Moves(run, run', RuntimeWorld!Wf, RuntimeWorld!Holds, RuntimeWorld!Probe,
        RuntimeWorld!RestorationProbe = "COMPLETE")
  BY <1>3 DEF Moves
<1>6. run.at = C + 1 /\ Activated(run) =>
        RuntimeWorld!Probe \subseteq {RuntimeWorld!Arrangement, "UNCERTAIN_MANUAL"}
  <2>1. Activated(run) => snap # None /\ ~ RuntimeWorld!AlreadyActive
    BY RuntimeNone DEF Activated, Boundary
  <2> QED BY <1>1, <2>1, RuntimeProbes
<1>7. RuntimeWorld!AlreadyActive <=> RuntimeWorld!AlreadyActive'
  BY DEF RuntimeWorld!AlreadyActive, Machine
<1> QED BY <1>1, <1>3, <1>4, <1>5, <1>6, <1>7, RuntimeMoved

LEMMA RuntimeApplied ==
    ASSUME TreesInv, run.pc = "effect", run.at # C, run.at = 2 =>
        op.kind = "rollback" \/ RuntimeWorld!AlreadyActive,
           RuntimeWorld!AlreadyActive /\ run.at = C + 4 => Proving,
           run' = RuntimeWorld!Applied(run), UNCHANGED Machine, work' = work
    PROVE  TreesInv'
<1> HIDE DEF RuntimeWorld!Wf, C, RuntimeWorld!Holds, RuntimeWorld!Probe, RuntimeWorld!At,
   RuntimeWorld!Arrangement, Machine, RuntimeWorld!AlreadyActive, Proving
<1>1. op.n > 0 /\ run.end = "none" /\ run.row = "RUNNING" /\ work \in RuntimeWorld!Work
  BY StepExecutes DEF MachineTyped
<1>2. /\ RunInv(run', RuntimeWorld!Wf) /\ GoesOn(run, run') /\ run'.at = run.at
      /\ run'.pc = "verify"
  BY StepAfter
<1>3. Moves(run, run', RuntimeWorld!Wf, RuntimeWorld!Holds, {},
        RuntimeWorld!RestorationProbe = "COMPLETE")
  BY <1>2 DEF Moves
<1>4. RuntimeWorld!AlreadyActive <=> RuntimeWorld!AlreadyActive'
  BY DEF RuntimeWorld!AlreadyActive, Machine
<1> QED BY <1>1, <1>2, <1>3, <1>4, RuntimeMoved

\* A step before the capture: what it leaves is untouched.
LEMMA RuntimeBuilt ==
    ASSUME TreesInv, run.pc = "effect", run.at < C, NEW q, q = run',
           q \in {run, RuntimeWorld!Landed(run), RuntimeWorld!Applied(run)}, UNCHANGED op,
           MachineTyped', Numbered', Untouched', Registered(run)', NothingToDo(run)'
    PROVE  TreesInv'
<1> HIDE DEF RuntimeWorld!Wf, C, RuntimeWorld!AlreadyActive
<1>1. /\ op.n > 0 /\ run.at \in 1..(C + 6) /\ C \in {4, 7}
  BY StepExecutes
<1>2. RunInv(q, RuntimeWorld!Wf) /\ q.at = run.at /\ q.end \in Endings
  BY StepAfter DEF Endings
<1>3. RuntimeWorld!Wf' = RuntimeWorld!Wf /\ C' = C
  BY DEF RuntimeWorld!Wf, C
<1>4. ~ Passed(run, C)' /\ run'.at \notin {C, C + 4}
  BY <1>1, <1>2, <1>3 DEF Passed
<1>5. RuntimePlaced(run)'
  BY <1>4 DEF RuntimePlaced
<1>6. RunInv(run, RuntimeWorld!Wf)' /\ op'.n > 0
  BY <1>1, <1>2, <1>3
<1> QED BY <1>1, <1>2, <1>3, <1>4, <1>5, <1>6 DEF TreesInv

LEMMA RuntimeWorked ==
    ASSUME TreesInv, run.pc = "effect", run.at < C, run.at # 2, NEW q, q = run',
           q \in {run, RuntimeWorld!Landed(run), RuntimeWorld!Applied(run)}, UNCHANGED Machine,
               work' \in RuntimeWorld!Work,
           run.at = 1 \/ ~ RuntimeWorld!AlreadyActive,
           RuntimeWorld!AlreadyActive' =>
               comp.promoted = RuntimeWorld!Active /\ disk[0] \in RuntimeWorld!Rows
    PROVE  TreesInv'
<1> HIDE DEF RuntimeWorld!Wf, C, Machine, RuntimeWorld!AlreadyActive
<1>1. run.at \in 1..(C + 6) /\ C \in {4, 7} /\ RuntimePlaced(run) /\ MachineTyped /\ Numbered
  BY StepExecutes
<1>2. Untouched /\ Registered(run)
  BY <1>1 DEF RuntimePlaced, Passed
<1>3. q.at = run.at
  BY StepAfter
<1>4. Registered(run)'
  BY <1>1, <1>2, <1>3, SameMachine DEF Registered, Machine
<1>6. NothingToDo(run)'
  <2>1. ~ Passed(run, C)'
    BY <1>1, <1>3, SameMachine DEF Passed
  <2> QED BY <2>1, SameMachine DEF NothingToDo, Machine
<1>5. MachineTyped' /\ op' = op
  BY <1>1 DEF MachineTyped, Machine
<1> QED BY <1>1, <1>2, <1>4, <1>5, <1>6, SameMachine, RuntimeBuilt

\* The tree in the active root, while nothing that serves is touched.
LEMMA RootTree ==
    ASSUME MachineTyped, Numbered, Untouched, op.n \in RuntimeWorld!Trees, op.n > 0
    PROVE  /\ disk[0] \in RuntimeWorld!Trees /\ disk[0] # None /\ disk[0] # op.n
           /\ disk[0] <= op.n
           /\ TreesUpdates \in Nat /\ None \notin RuntimeWorld!Trees
           /\ 0 \in RuntimeWorld!Trees /\ op.n # 0
           /\ RuntimeWorld!Rows \subseteq RuntimeWorld!Trees
           /\ RuntimeWorld!AtRoot \in TreeRow /\ RuntimeWorld!AtRoot # None
           /\ RuntimeWorld!AtRoot.loc = 0
           /\ \A row \in TreeRow : row # None
<1>1. /\ TreesUpdates \in Nat /\ None \notin RuntimeWorld!Trees /\ op.n \in Nat
      /\ op.n <= TreesUpdates /\ op.n # 0
      /\ 0 \in RuntimeWorld!Trees /\ RuntimeWorld!Rows \subseteq RuntimeWorld!Trees
  BY RuntimeNone DEF RuntimeWorld!Trees, RuntimeWorld!Rows
<1>2. disk[0] \in RuntimeWorld!Trees /\ disk[0] # None
  BY <1>1 DEF MachineTyped, Maybe, Untouched, Home
<1>3. disk[0] # op.n
  BY <1>1 DEF Untouched, Candidate
<1>4. disk[0] <= op.n
  <2>1. disk[0] > op.n => disk[0] # disk[0]
    BY <1>1, <1>2 DEF Numbered
  <2>2. disk[0] \in Nat
    BY <1>1, <1>2 DEF RuntimeWorld!Trees
  <2> QED BY <1>1, <2>1, <2>2
<1>5. RuntimeWorld!AtRoot \in TreeRow /\ RuntimeWorld!AtRoot.loc = 0
  BY <1>1 DEF RuntimeWorld!AtRoot, TreeRow, Roles
<1>6. \A row \in TreeRow : row # None
  BY RuntimeNone
<1> QED BY <1>1, <1>2, <1>3, <1>4, <1>5, <1>6

\* preflight_build registers the active tree.
LEMMA ActiveTreeRegistered ==
    ASSUME TreesInv, RuntimeWorld!PreflightBuild
    PROVE  TreesInv'
<1> HIDE DEF RuntimeWorld!Wf, C, RuntimeWorld!At
<1>0. /\ run.pc = "effect" /\ RuntimeWorld!At = "preflight" /\ op.kind = "update"
      /\ run' = RuntimeWorld!Landed(run)
      /\ ~ RuntimeWorld!AlreadyActive
  BY DEF RuntimeWorld!PreflightBuild, RuntimeWorld!Executing
<1>1. /\ op.n > 0 /\ op.n \in RuntimeWorld!Trees /\ run.at \in 1..(C + 6)
      /\ MachineTyped /\ Numbered /\ C \in {4, 7}
      /\ RuntimePlaced(run) /\ run.at = 2
  BY <1>0, StepExecutes, TreeAtWork DEF MachineTyped
<1>2. Untouched
  BY <1>1 DEF RuntimePlaced, Passed
<1>3. /\ UNCHANGED <<op, build, disk, comp, known, handoff, service, receipt, snap, work, found>>
      /\ reg' = [reg EXCEPT ![disk[0]] = RuntimeWorld!AtRoot]
  BY DEF RuntimeWorld!PreflightBuild, RuntimeWorld!AtRoot
<1>4. /\ disk[0] \in RuntimeWorld!Trees /\ disk[0] # None /\ disk[0] # op.n
      /\ 0 \in RuntimeWorld!Trees /\ disk[0] <= op.n
      /\ TreesUpdates \in Nat /\ None \notin RuntimeWorld!Trees
      /\ RuntimeWorld!AtRoot \in TreeRow /\ None # RuntimeWorld!AtRoot
  BY <1>1, <1>2, RootTree
<1>5. /\ reg' \in [RuntimeWorld!Trees -> TreeRow \cup {None}]
      /\ reg'[disk[0]] = RuntimeWorld!AtRoot
      /\ \A t \in RuntimeWorld!Trees : t # disk[0] => reg'[t] = reg[t]
      /\ RuntimeWorld!AtRoot.loc = 0
  BY <1>1, <1>3, <1>4 DEF MachineTyped, RuntimeWorld!AtRoot
<1>6. RuntimeWorld!Rows' = RuntimeWorld!Rows \cup {disk[0]}
  BY <1>4, <1>5 DEF RuntimeWorld!Rows
<1>7. RuntimeWorld!Active' = RuntimeWorld!Active /\ RuntimeWorld!Now' = RuntimeWorld!Now
  BY <1>3 DEF RuntimeWorld!Active, RuntimeWorld!Now
<1>8. MachineTyped'
  BY <1>1, <1>3, <1>5 DEF MachineTyped
<1>9. Numbered'
  BY <1>1, <1>3, <1>4, <1>6 DEF Numbered, RuntimeWorld!Trees
<1>10. Home'
  <2>1. \A t \in RuntimeWorld!Rows' :
          disk[reg'[t].loc] = t /\ (reg'[t].role = "ACTIVE_OBSERVED" => reg'[t].loc = 0)
    BY <1>2, <1>4, <1>5, <1>6 DEF Untouched, Home, RuntimeWorld!Rows
  <2>2. \A t \in RuntimeWorld!Rows' :
          (t = disk[0] => reg'[t].loc = 0) /\ (build[t] = RuntimeWorld!Active => t = disk[0])
    BY <1>2, <1>4, <1>5, <1>6 DEF Untouched, Home
  <2>3. comp.rollback # None =>
          /\ comp.rollbackTree \in RuntimeWorld!Rows' /\ reg'[comp.rollbackTree].loc # 0
          /\ build[comp.rollbackTree] = comp.rollback
    BY <1>2, <1>5, <1>6 DEF Untouched, Home, RuntimeWorld!Rows
  <2> QED BY <1>2, <1>3, <1>4, <1>6, <1>7, <2>1, <2>2, <2>3 DEF Untouched, Home, Bound
<1>11. Candidate'
  BY <1>2, <1>3, <1>4, <1>6, <1>7 DEF Untouched, Candidate
<1>12. Untouched'
  BY <1>2, <1>3, <1>7, <1>10, <1>11 DEF Untouched
<1>13. Registered(run)'
  BY <1>3, <1>6 DEF Registered
<1>14. NothingToDo(run)'
  BY <1>0, <1>3 DEF NothingToDo, RuntimeWorld!AlreadyActive
<1> HIDE DEF RuntimeWorld!AlreadyActive
<1> QED BY <1>0, <1>1, <1>3, <1>14, <1>8, <1>9, <1>12, <1>13, RuntimeBuilt

\* The candidate's manifest is written.
LEMMA ManifestWritten ==
    ASSUME TreesInv, RuntimeWorld!WriteManifest
    PROVE  TreesInv'
<1> HIDE DEF RuntimeWorld!Wf, C, RuntimeWorld!At
<1>0. /\ run.pc = "effect" /\ RuntimeWorld!At = "smoke" /\ op.kind = "update"
      /\ run' = run /\ disk[op.n] = None
      /\ ~ RuntimeWorld!AlreadyActive
  BY DEF RuntimeWorld!WriteManifest, RuntimeWorld!Executing, RuntimeWorld!AlreadyActive
<1>1. /\ op.n > 0 /\ op.n \in RuntimeWorld!Trees /\ run.at \in 1..(C + 6)
      /\ MachineTyped /\ Numbered /\ C \in {4, 7}
      /\ RuntimePlaced(run) /\ run.at < C
  BY <1>0, StepExecutes, StepIsEarly DEF MachineTyped, Early
<1>2. Untouched /\ Registered(run)
  BY <1>1 DEF RuntimePlaced, Passed
<1>3. /\ UNCHANGED <<op, reg, comp, known, handoff, service, receipt, snap, work, found>>
      /\ disk' = [disk EXCEPT ![op.n] = op.n]
  BY DEF RuntimeWorld!WriteManifest
<1>4. PICK b \in {op.n} \cup {build[t] : t \in RuntimeWorld!Rows \ {disk[0]}} :
        build' = [build EXCEPT ![op.n] = b]
  BY DEF RuntimeWorld!WriteManifest
<1>5. /\ disk[0] \in RuntimeWorld!Trees /\ disk[0] # None /\ disk[0] # op.n
      /\ 0 \in RuntimeWorld!Trees /\ disk[0] <= op.n /\ op.n # 0
      /\ TreesUpdates \in Nat /\ None \notin RuntimeWorld!Trees
      /\ op.n \notin RuntimeWorld!Rows /\ RuntimeWorld!Rows \subseteq RuntimeWorld!Trees
  <2>1. op.n \notin RuntimeWorld!Rows
    BY <1>0, <1>1, <1>2, RootTree DEF Untouched, Candidate
  <2> QED BY <1>1, <1>2, <2>1, RootTree
<1>6. RuntimeWorld!Active = build[disk[0]] /\ build[disk[0]] <= disk[0]
  BY <1>1, <1>5 DEF RuntimeWorld!Active, Numbered
<1>7. b \in RuntimeWorld!Trees /\ b <= op.n /\ b # RuntimeWorld!Active
  <2>1. CASE b = op.n
    <3>1. op.n \in Nat /\ disk[0] \in Nat /\ disk[0] < op.n /\ build[disk[0]] \in Nat
      BY <1>1, <1>5 DEF RuntimeWorld!Trees, MachineTyped
    <3> QED BY <1>1, <1>5, <1>6, <2>1, <3>1
  <2>2. CASE \E t \in RuntimeWorld!Rows \ {disk[0]} : b = build[t]
    <3>1. PICK t \in RuntimeWorld!Rows \ {disk[0]} : b = build[t]
      BY <2>2
    <3>2. /\ t \in RuntimeWorld!Trees /\ build[t] \in RuntimeWorld!Trees
          /\ build[t] <= t /\ t <= op.n /\ build[t] # RuntimeWorld!Active
      BY <1>1, <1>2, <1>5, <3>1 DEF MachineTyped, Numbered, Untouched, Home, RuntimeWorld!Trees
    <3> QED BY <1>1, <3>1, <3>2 DEF RuntimeWorld!Trees
  <2> QED BY <1>4, <2>1, <2>2
<1>8. /\ disk' \in [RuntimeWorld!Trees -> Maybe] /\ disk'[op.n] = op.n
      /\ \A l \in RuntimeWorld!Trees : l # op.n => disk'[l] = disk[l]
      /\ build' \in [RuntimeWorld!Trees -> RuntimeWorld!Trees] /\ build'[op.n] = b
      /\ \A t \in RuntimeWorld!Trees : t # op.n => build'[t] = build[t]
  BY <1>1, <1>3, <1>4, <1>7 DEF MachineTyped, Maybe
<1>9. /\ RuntimeWorld!Rows' = RuntimeWorld!Rows /\ disk'[0] = disk[0]
      /\ RuntimeWorld!Active' = RuntimeWorld!Active
      /\ RuntimeWorld!Now' = RuntimeWorld!Now
  BY <1>3, <1>5, <1>6, <1>8 DEF RuntimeWorld!Rows, RuntimeWorld!Active, RuntimeWorld!Now
<1>10. MachineTyped'
  BY <1>1, <1>3, <1>8 DEF MachineTyped
<1>11. Numbered'
  <2>1. \A t \in RuntimeWorld!Trees : build'[t] <= t
    BY <1>1, <1>7, <1>8 DEF Numbered
  <2>2. ASSUME NEW t \in RuntimeWorld!Trees, t > op.n
        PROVE  t \notin RuntimeWorld!Rows /\ disk'[t] = None /\ build'[t] = t
            /\ \A l \in RuntimeWorld!Trees : disk'[l] # t
    <3>1. t # op.n
      BY <1>1, <2>2 DEF RuntimeWorld!Trees
    <3> QED BY <1>1, <1>8, <2>2, <3>1 DEF Numbered
  <2> QED BY <1>1, <1>3, <1>9, <2>1, <2>2 DEF Numbered
<1>12. Home'
  <2>1. \A t \in RuntimeWorld!Rows : reg[t].loc \in RuntimeWorld!Trees
    BY <1>1, <1>5 DEF MachineTyped, RuntimeWorld!Rows, TreeRow
  <2>2. \A t \in RuntimeWorld!Rows : disk'[reg[t].loc] = t
    BY <1>0, <1>2, <1>5, <1>8, <2>1 DEF Untouched, Home
  <2>3. \A t \in RuntimeWorld!Rows : build'[t] = build[t]
    BY <1>5, <1>8
  <2> QED BY <1>2, <1>3, <1>9, <2>2, <2>3 DEF Untouched, Home, Bound
<1>13. Candidate'
  BY <1>1, <1>2, <1>3, <1>5, <1>7, <1>8, <1>9 DEF Untouched, Candidate
<1>14. Untouched'
  BY <1>2, <1>3, <1>9, <1>12, <1>13 DEF Untouched
<1>16. NothingToDo(run)'
  BY <1>0, <1>3 DEF NothingToDo, RuntimeWorld!AlreadyActive
<1>15. Registered(run)'
  BY <1>0, <1>2, <1>3, <1>9 DEF Registered
<1> HIDE DEF RuntimeWorld!AlreadyActive
<1> QED BY <1>0, <1>1, <1>3, <1>16, <1>10, <1>11, <1>14, <1>15, RuntimeBuilt

\* The candidate is registered where it was built.
LEMMA CandidateRegistered ==
    ASSUME TreesInv, RuntimeWorld!RegisterCandidate
    PROVE  TreesInv'
<1> HIDE DEF RuntimeWorld!Wf, C, RuntimeWorld!At
<1>0. /\ run.pc = "effect" /\ RuntimeWorld!At = "smoke" /\ op.kind = "update"
      /\ run' = RuntimeWorld!Landed(run) /\ disk[op.n] # None
      /\ ~ RuntimeWorld!AlreadyActive
  BY DEF RuntimeWorld!RegisterCandidate, RuntimeWorld!Executing
<1>1. /\ op.n > 0 /\ op.n \in RuntimeWorld!Trees /\ run.at \in 1..(C + 6)
      /\ MachineTyped /\ Numbered /\ C \in {4, 7}
      /\ RuntimePlaced(run) /\ run.at < C /\ run.at > 2
  BY <1>0, StepExecutes, StepIsEarly, TreeAtWork DEF MachineTyped, Early
<1>2. Untouched /\ disk[0] \in RuntimeWorld!Rows /\ disk[op.n] = op.n
  BY <1>0, <1>1 DEF RuntimePlaced, Passed, Registered, Untouched, Candidate
<1> DEFINE row == [loc |-> op.n, role |-> "CANDIDATE"]
<1>3. /\ UNCHANGED <<op, build, disk, comp, known, handoff, service, receipt, snap, found>>
      /\ reg' = [reg EXCEPT ![op.n] = row] /\ work' = "registered"
  BY DEF RuntimeWorld!RegisterCandidate
<1>4. /\ disk[0] \in RuntimeWorld!Trees /\ disk[0] # None /\ disk[0] # op.n /\ op.n # 0
      /\ TreesUpdates \in Nat /\ None \notin RuntimeWorld!Trees /\ row \in TreeRow /\ None # row
      /\ row.loc = op.n /\ row.role # "ACTIVE_OBSERVED"
  <2>1. row \in TreeRow
    BY <1>1 DEF TreeRow, Roles
  <2> QED BY <1>1, <1>2, <2>1, RootTree
<1> HIDE DEF row
<1>5. /\ reg' \in [RuntimeWorld!Trees -> TreeRow \cup {None}] /\ reg'[op.n] = row
      /\ \A t \in RuntimeWorld!Trees : t # op.n => reg'[t] = reg[t]
  BY <1>1, <1>3, <1>4 DEF MachineTyped
<1>6. RuntimeWorld!Rows' = RuntimeWorld!Rows \cup {op.n}
  BY <1>1, <1>4, <1>5 DEF RuntimeWorld!Rows
<1>7. RuntimeWorld!Active' = RuntimeWorld!Active /\ RuntimeWorld!Now' = RuntimeWorld!Now
  BY <1>3 DEF RuntimeWorld!Active, RuntimeWorld!Now
<1>8. MachineTyped'
  BY <1>1, <1>3, <1>5 DEF MachineTyped, RuntimeWorld!Work
<1>9. Numbered'
  BY <1>1, <1>3, <1>6 DEF Numbered, RuntimeWorld!Trees
<1>10. Home'
  <2>1. \A t \in RuntimeWorld!Rows' :
          disk[reg'[t].loc] = t /\ (reg'[t].role = "ACTIVE_OBSERVED" => reg'[t].loc = 0)
    BY <1>1, <1>2, <1>4, <1>5, <1>6 DEF Untouched, Home, RuntimeWorld!Rows
  <2>2. \A t \in RuntimeWorld!Rows' :
          (t = disk[0] => reg'[t].loc = 0) /\ (build[t] = RuntimeWorld!Active => t = disk[0])
    BY <1>2, <1>4, <1>5, <1>6 DEF Untouched, Home, RuntimeWorld!Rows, Candidate
  <2>3. comp.rollback # None =>
          /\ comp.rollbackTree \in RuntimeWorld!Rows' /\ reg'[comp.rollbackTree].loc # 0
          /\ build[comp.rollbackTree] = comp.rollback
    BY <1>2, <1>4, <1>5, <1>6 DEF Untouched, Home, RuntimeWorld!Rows
  <2> QED BY <1>2, <1>3, <1>4, <1>6, <1>7, <2>1, <2>2, <2>3 DEF Untouched, Home, Bound
<1>11. Candidate'
  BY <1>2, <1>3, <1>4, <1>6, <1>7 DEF Untouched, Candidate
<1>12. Untouched'
  BY <1>2, <1>3, <1>7, <1>10, <1>11 DEF Untouched
<1>14. NothingToDo(run)'
  BY <1>0, <1>3 DEF NothingToDo, RuntimeWorld!AlreadyActive
<1>13. Registered(run)'
  BY <1>2, <1>3, <1>6 DEF Registered
<1> HIDE DEF RuntimeWorld!AlreadyActive
<1> QED BY <1>0, <1>1, <1>3, <1>14, <1>8, <1>9, <1>12, <1>13, RuntimeBuilt

LEMMA CompilationRecovered ==
    ASSUME TreesInv, RuntimeWorld!RecoverCompilation
    PROVE  TreesInv'
<1> HIDE DEF RuntimeWorld!Wf, C, RuntimeWorld!Holds, RuntimeWorld!At, RuntimeWorld!Arrangement
<1>1. PICK class \in RuntimeWorld!Probe : /\ run' = Run!Decided(run, RuntimeWorld!Wf, class)
                                          /\ work' = IF class = "COMPLETE" THEN "recovered"
                                              ELSE work
  BY SameDecided DEF RuntimeWorld!RecoverCompilation
<1>2. /\ run.end = "none" /\ run.pc = "probe" /\ RuntimeWorld!At = "compile"
      /\ ~ RuntimeWorld!AlreadyActive
  BY DEF RuntimeWorld!RecoverCompilation
<1>3. op.n > 0
  BY <1>2 DEF TreesInv, MachineTyped, RuntimeWorld!Trees
<1>4. /\ RunInv(run, RuntimeWorld!Wf) /\ Workable(RuntimeWorld!Wf)
      /\ run.at \in 1..(C + 6) /\ run.row = "RUNNING"
      /\ C \in {4, 7} /\ op.kind \in {"update", "rollback"} /\ MachineTyped
  BY <1>2, <1>3, TreesPlace
<1>5. run.at < C /\ run.at # 2
  BY <1>2, <1>4, StepIsEarly DEF Early
<1>6. class \in Answers
  BY <1>1, <1>4, RuntimeProbes
<1>7. /\ RunInv(run', RuntimeWorld!Wf)
      /\ GoesOn(run, run') \/ TurnsBack(run, run', RuntimeWorld!Wf) \/ Stops(run, run')
  BY <1>1, <1>2, <1>4, <1>6, RunDecided
<1>8. Moves(run, run', RuntimeWorld!Wf, RuntimeWorld!Holds, {},
        RuntimeWorld!RestorationProbe = "COMPLETE")
  BY <1>7 DEF Moves
<1>9. run'.pc # "landed"
  <2>1. DOMAIN run = {"at", "row", "way", "begun", "undone", "pc", "todo", "bad", "end"}
    BY <1>4 DEF RunInv, RunShaped
  <2>2. \/ class = "UNCERTAIN_MANUAL" \/ class = "ABSENT" \/ class = "COMPLETE"
        \/ class = "PARTIALLY_RESUMABLE" \/ class = "DISCARDABLE" \/ class = "REVERTIBLE"
    BY <1>6 DEF Answers
  <2>3. \/ run' = [Run!Applied(run) EXCEPT !.pc = "reverify"]
            \/ run' = [run EXCEPT !.pc = "effect"]
        \/ run' = Run!RollingBack(run, RuntimeWorld!Wf, {}) \/ run' = Run!Crashed(run)
        \/ run' = Run!Ended(run, "RECOVERY_REQUIRED")
    BY <1>1, <2>2 DEF Run!Decided, Run!DecideRecovery
  <2> QED BY <2>1, <2>3 DEF Run!Applied, Run!RollingBack, Run!Crashed, Run!Ended
<1>10. UNCHANGED Machine /\ work' \in RuntimeWorld!Work /\ ~ RuntimeWorld!AlreadyActive'
  BY <1>1, <1>2, <1>4 DEF RuntimeWorld!RecoverCompilation, Machine, MachineTyped,
     RuntimeWorld!Work, RuntimeWorld!AlreadyActive
<1> HIDE DEF Machine, RuntimeWorld!AlreadyActive
<1> QED BY <1>2, <1>3, <1>4, <1>5, <1>7, <1>8, <1>9, <1>10, RuntimeMoved

\* What the probes of a no-op make of its run.
LEMMA SkippedRecovered ==
    ASSUME TreesInv, RuntimeWorld!RecoverSkipped
    PROVE  TreesInv'
<1> HIDE DEF RuntimeWorld!Wf, C, RuntimeWorld!Holds, RuntimeWorld!At, RuntimeWorld!Arrangement
<1>1. /\ run.end = "none" /\ run.pc = "probe" /\ RuntimeWorld!AlreadyActive
      /\ \/ RuntimeWorld!At = "compile" /\ run' = RuntimeWorld!Crashed(run) /\ work' = work
         \/ RuntimeWorld!At = "exchange" /\ run' = RuntimeWorld!Decided(run, RuntimeWorld!Wf,
             "COMPLETE") /\ work' = "activeProbed"
      /\ UNCHANGED Machine
  BY DEF RuntimeWorld!RecoverSkipped, Machine
<1>2. op.n > 0
  BY <1>1 DEF TreesInv, MachineTyped, RuntimeWorld!Trees
<1>3. /\ RunInv(run, RuntimeWorld!Wf) /\ Workable(RuntimeWorld!Wf)
      /\ run.at \in 1..(C + 6) /\ run.row = "RUNNING"
      /\ C \in {4, 7} /\ op.kind \in {"update", "rollback"} /\ MachineTyped
  BY <1>1, <1>2, TreesPlace
<1>4. DOMAIN run = {"at", "row", "way", "begun", "undone", "pc", "todo", "bad", "end"}
  BY <1>3 DEF RunInv, RunShaped
<1>5. work' \in RuntimeWorld!Work /\ (RuntimeWorld!AlreadyActive <=> RuntimeWorld!AlreadyActive')
  BY <1>1, <1>3 DEF Machine, MachineTyped, RuntimeWorld!Work, RuntimeWorld!AlreadyActive
<1> HIDE DEF RuntimeWorld!AlreadyActive, Machine
<1>6. CASE RuntimeWorld!At = "compile" /\ run' = RuntimeWorld!Crashed(run)
  <2>1. run.at < C /\ run.at # 2
    BY <1>1, <1>3, <1>6, StepIsEarly DEF Early
  <2>2. run' = Run!Crashed(run)
    BY <1>6 DEF RuntimeWorld!Crashed, Run!Crashed
  <2>3. RunInv(run', RuntimeWorld!Wf) /\ Stops(run, run')
    BY <1>1, <1>3, <2>2, RunCrashes
  <2>4. Moves(run, run', RuntimeWorld!Wf, RuntimeWorld!Holds, {},
          RuntimeWorld!RestorationProbe = "COMPLETE")
    BY <2>3 DEF Moves
  <2>5. run'.pc # "landed" /\ run'.row = run.row /\ run'.at = run.at
    BY <2>3 DEF Stops, Stays
  <2> QED BY <1>1, <1>2, <1>3, <1>5, <2>1, <2>3, <2>4, <2>5, RuntimeMoved
<1>7. CASE RuntimeWorld!At = "exchange"
        /\ run' = RuntimeWorld!Decided(run, RuntimeWorld!Wf, "COMPLETE")
  <2>1. run.at = C + 1
    BY <1>3, <1>7, TreeAtWork
  <2>2. run' = Run!Decided(run, RuntimeWorld!Wf, "COMPLETE")
    BY <1>7, SameDecided
  <2>3. run' = [Run!Applied(run) EXCEPT !.pc = "reverify"]
    BY <2>2 DEF Run!Decided, Run!DecideRecovery
  <2>4. RunInv(run', RuntimeWorld!Wf) /\ GoesOn(run, run')
    BY <1>1, <1>3, <2>3, RunApplied
  <2>5. Moves(run, run', RuntimeWorld!Wf, RuntimeWorld!Holds, {},
          RuntimeWorld!RestorationProbe = "COMPLETE")
    BY <2>4 DEF Moves
  <2>6. run'.pc # "landed" /\ run'.at = run.at /\ run'.row = "CHECKPOINTED"
    BY <1>4, <2>3 DEF Run!Applied
  <2> QED BY <1>1, <1>2, <1>3, <1>5, <2>1, <2>4, <2>5, <2>6, RuntimeMoved
<1> QED BY <1>1, <1>6, <1>7

\* A step that a no-op skips.
LEMMA NoOpSkips ==
    ASSUME TreesInv, RuntimeWorld!Skip
    PROVE  TreesInv'
<1> HIDE DEF RuntimeWorld!Wf, C, RuntimeWorld!At
<1>1. PICK step \in RuntimeWorld!Skipped \cup
        {"preflight", "fetch", "configure", "compile", "smoke", "promote"} :
         RuntimeWorld!Executing(step)
  BY DEF RuntimeWorld!Skip
<1>2. /\ run.pc = "effect" /\ RuntimeWorld!At = step /\ RuntimeWorld!AlreadyActive
      /\ run' = RuntimeWorld!Applied(run)
  BY <1>1 DEF RuntimeWorld!Skip, RuntimeWorld!Executing
<1>3. UNCHANGED Machine /\ work' = work
  BY DEF RuntimeWorld!Skip, RuntimeWorld!stepVars, Machine
<1>4. RuntimeWorld!At # "capture" /\ RuntimeWorld!At # "verify"
  BY <1>2 DEF RuntimeWorld!Skipped
<1>5. run.at \in 1..(C + 6) /\ op.kind \in {"update", "rollback"}
  BY <1>2, StepExecutes
<1>6. run.at # C /\ run.at # C + 4
  BY <1>4, <1>5, TreeAtWork
<1> HIDE DEF Machine, RuntimeWorld!AlreadyActive
<1> QED BY <1>2, <1>3, <1>6, RuntimeApplied

LEMMA ConstructionSteps ==
    ASSUME TreesInv, RuntimeWorld!Construction
    PROVE  TreesInv'
<1> HIDE DEF RuntimeWorld!Wf, C, RuntimeWorld!At, RuntimeWorld!Refused, RuntimeWorld!AlreadyActive
<1>1. CASE RuntimeWorld!RecoverCompilation
  BY <1>1, CompilationRecovered
<1>2. CASE RuntimeWorld!PreflightBuild
  BY <1>2, ActiveTreeRegistered
<1>3. CASE RuntimeWorld!WriteManifest
  BY <1>3, ManifestWritten
<1>4. CASE RuntimeWorld!RegisterCandidate
  BY <1>4, CandidateRegistered
<1>5. ASSUME run.pc = "effect", RuntimeWorld!At \in Early
      PROVE  /\ run.at < C /\ run.at # C /\ run.at # C + 4
             /\ (RuntimeWorld!At # "preflight" => run.at # 2)
             /\ work \in RuntimeWorld!Work
  <2>1. run.at < C /\ run.at \in Nat /\ C \in {4, 7}
    BY <1>5, StepExecutes, StepIsEarly
  <2> QED BY <1>5, <2>1, StepExecutes, StepIsEarly DEF MachineTyped
<1>6. CASE RuntimeWorld!ResolveSource
  <2>1. /\ run.pc = "effect" /\ RuntimeWorld!At = "resolve" /\ RuntimeWorld!At \in Early
        /\ RuntimeWorld!At # "preflight" /\ run' = RuntimeWorld!Applied(run)
    BY <1>6 DEF RuntimeWorld!ResolveSource, RuntimeWorld!Executing, Early
  <2>2. UNCHANGED Machine /\ work' \in RuntimeWorld!Work
    BY <1>6 DEF RuntimeWorld!ResolveSource, Machine, RuntimeWorld!Work
  <2>3. /\ run.at = 1 /\ MachineTyped /\ RuntimePlaced(run)
        /\ op.n \in RuntimeWorld!Trees /\ op.n > 0 /\ Numbered
        /\ C \in {4, 7}
    <3>1. /\ op.kind \in {"update", "rollback"} /\ run.at \in 1..(C + 6) /\ C \in {4, 7}
          /\ MachineTyped
          /\ RuntimePlaced(run) /\ op.n > 0 /\ Numbered
      BY <2>1, StepExecutes
    <3> QED BY <2>1, <3>1, TreeAtWork DEF MachineTyped
  <2>4. Untouched
    BY <1>5, <2>1, <2>3 DEF RuntimePlaced, Passed
  <2>5. RuntimeWorld!AlreadyActive' =>
          comp.promoted # None /\ RuntimeWorld!Observed(0, comp.promoted)
    BY <1>6 DEF RuntimeWorld!ResolveSource, RuntimeWorld!AlreadyActive
  <2>6. RuntimeWorld!AlreadyActive' =>
          comp.promoted = RuntimeWorld!Active /\ disk[0] \in RuntimeWorld!Rows
    BY <2>3, <2>4, <2>5, RootTree DEF RuntimeWorld!Observed, RuntimeWorld!Active,
       RuntimeWorld!Rows
  <2> QED BY <1>5, <2>1, <2>2, <2>3, <2>6, RuntimeWorked
<1>7. CASE RuntimeWorld!ResolveRollbackTarget
  <2>1. /\ run.pc = "effect" /\ RuntimeWorld!At \in Early
        /\ RuntimeWorld!At # "preflight"
        /\ (run' = RuntimeWorld!Applied(run) \/ RuntimeWorld!Refused)
    BY <1>7 DEF RuntimeWorld!ResolveRollbackTarget, RuntimeWorld!Executing, Early
  <2>2. UNCHANGED Machine /\ work' = work
    BY <1>7 DEF RuntimeWorld!ResolveRollbackTarget, RuntimeWorld!stepVars, Machine
  <2> QED BY <1>5, <2>1, <2>2, RuntimeApplied, RuntimeRefused
<1>8. CASE RuntimeWorld!PreflightRollback
  <2>1. /\ run.pc = "effect" /\ RuntimeWorld!At \in Early /\ op.kind = "rollback"
        /\ (run' = RuntimeWorld!Applied(run) \/ RuntimeWorld!Refused)
    BY <1>8 DEF RuntimeWorld!PreflightRollback, RuntimeWorld!Executing, Early
  <2>2. UNCHANGED Machine /\ work' = work
    BY <1>8 DEF RuntimeWorld!PreflightRollback, RuntimeWorld!stepVars, Machine
  <2> QED BY <1>5, <2>1, <2>2, RuntimeApplied, RuntimeRefused
<1>9. CASE RuntimeWorld!Fetch
  <2>1. /\ run.pc = "effect" /\ RuntimeWorld!At \in Early
        /\ RuntimeWorld!At # "preflight" /\ work' \in RuntimeWorld!Work
        /\ run' \in {run, RuntimeWorld!Landed(run), RuntimeWorld!Applied(run)}
            \/ (RuntimeWorld!Refused /\ work' = work)
        /\ ~ RuntimeWorld!AlreadyActive /\ ~ RuntimeWorld!AlreadyActive'
    BY <1>5, <1>9 DEF RuntimeWorld!Fetch, RuntimeWorld!Executing, Early, RuntimeWorld!Work,
       RuntimeWorld!AlreadyActive
  <2>2. UNCHANGED Machine
    BY <1>9 DEF RuntimeWorld!Fetch, Machine
  <2> QED BY <1>5, <2>1, <2>2, RuntimeWorked, RuntimeRefused
<1>10. CASE RuntimeWorld!Configure
  <2>1. /\ run.pc = "effect" /\ RuntimeWorld!At \in Early
        /\ RuntimeWorld!At # "preflight" /\ work' \in RuntimeWorld!Work
        /\ run' \in {run, RuntimeWorld!Landed(run), RuntimeWorld!Applied(run)}
        /\ ~ RuntimeWorld!AlreadyActive /\ ~ RuntimeWorld!AlreadyActive'
    BY <1>10 DEF RuntimeWorld!Configure, RuntimeWorld!Executing, Early, RuntimeWorld!Work,
       RuntimeWorld!AlreadyActive
  <2>2. UNCHANGED Machine
    BY <1>10 DEF RuntimeWorld!Configure, Machine
  <2> QED BY <1>5, <2>1, <2>2, RuntimeWorked
<1>11. CASE RuntimeWorld!Compile
  <2>1. /\ run.pc = "effect" /\ RuntimeWorld!At \in Early
        /\ RuntimeWorld!At # "preflight" /\ work' \in RuntimeWorld!Work
        /\ run' \in {run, RuntimeWorld!Landed(run), RuntimeWorld!Applied(run)}
        /\ ~ RuntimeWorld!AlreadyActive /\ ~ RuntimeWorld!AlreadyActive'
    BY <1>11 DEF RuntimeWorld!Compile, RuntimeWorld!Executing, Early, RuntimeWorld!Work,
       RuntimeWorld!AlreadyActive
  <2>2. UNCHANGED Machine
    BY <1>11 DEF RuntimeWorld!Compile, Machine
  <2> QED BY <1>5, <2>1, <2>2, RuntimeWorked
<1>12. CASE RuntimeWorld!Smoke
  <2>1. /\ run.pc = "effect" /\ RuntimeWorld!At \in Early
        /\ RuntimeWorld!At # "preflight"
        /\ (run' = RuntimeWorld!Applied(run) \/ RuntimeWorld!Refused)
    BY <1>12 DEF RuntimeWorld!Smoke, RuntimeWorld!Executing, Early
  <2>2. UNCHANGED Machine /\ work' = work
    BY <1>12 DEF RuntimeWorld!Smoke, RuntimeWorld!stepVars, Machine
  <2> QED BY <1>5, <2>1, <2>2, RuntimeApplied, RuntimeRefused
<1>13. CASE RuntimeWorld!Skip \/ RuntimeWorld!RecoverSkipped
  BY <1>13, NoOpSkips, SkippedRecovered
<1> QED BY <1>1, <1>2, <1>3, <1>4, <1>6, <1>7, <1>8, <1>9, <1>10, <1>11, <1>12,
      <1>13 DEF RuntimeWorld!Construction

-----------------------------------------------------------------------------
(* The capture                                                             *)

\* The snapshot is what the machine is, and names the one tree to exchange.
LEMMA BoundaryCaptured ==
    ASSUME TreesInv, RuntimeWorld!Capture
    PROVE  TreesInv'
<1> HIDE DEF RuntimeWorld!Wf, C, RuntimeWorld!At, RuntimeWorld!AlreadyActive
<1>0. run.pc = "effect" /\ RuntimeWorld!At = "capture"
  BY DEF RuntimeWorld!Capture, RuntimeWorld!Executing
<1>1. /\ op.n > 0 /\ op.n \in RuntimeWorld!Trees /\ op.n \in Nat
      /\ run.at \in 1..(C + 6) /\ MachineTyped /\ Numbered
      /\ C \in {4, 7} /\ RuntimePlaced(run) /\ run.at = C /\ run.row = "RUNNING"
      /\ run.way = "forward"
      /\ run.end = "none"
  BY <1>0, StepExecutes, TreeAtWork DEF MachineTyped, RuntimeWorld!Trees
<1>2. Untouched /\ Home
  BY <1>1 DEF RuntimePlaced, Passed, Untouched
<1> DEFINE here == CHOOSE t \in RuntimeWorld!RowAt(0) : TRUE
           others == {t \in RuntimeWorld!Rows : build[t] = RuntimeWorld!Target /\ reg[t].loc # 0}
           targets == IF RuntimeWorld!Target = RuntimeWorld!Active THEN {here} ELSE others
           tree == CHOOSE t \in targets : TRUE
<1>3. CASE RuntimeWorld!Cardinality(targets) # 1
  <2>1. RuntimeWorld!Refused /\ UNCHANGED Machine /\ work' = work
    BY <1>3 DEF RuntimeWorld!Capture, Machine
  <2> QED BY <1>0, <2>1, RuntimeRefused
<1>4. CASE RuntimeWorld!Cardinality(targets) = 1 /\ RuntimeWorld!AlreadyActive
  <2>1. RuntimeWorld!Target = RuntimeWorld!Active
    BY <1>4 DEF RuntimeWorld!Target
  <2>2. comp.promoted = RuntimeWorld!Active /\ disk[0] \in RuntimeWorld!Rows
    BY <1>1, <1>4 DEF RuntimePlaced, NothingToDo
  <2>3. /\ disk[0] \in RuntimeWorld!Trees /\ disk[0] # None /\ TreesUpdates \in Nat
        /\ None \notin RuntimeWorld!Trees
        /\ RuntimeWorld!Rows \subseteq RuntimeWorld!Trees /\ 0 \in RuntimeWorld!Trees
    BY <1>1, <1>2, RootTree
  <2>4. here = disk[0] /\ reg[disk[0]].loc = 0
    <3>1. RuntimeWorld!RowAt(0) = {disk[0]} /\ reg[disk[0]].loc = 0
      BY <1>2, <2>2 DEF RuntimeWorld!RowAt, Home
    <3> QED BY <3>1
  <2>5. tree = disk[0]
    BY <2>1, <2>4
  <2>6. /\ snap' = [active |-> RuntimeWorld!Active, activeTree |-> here, targetTree |-> tree,
                    targetLoc |-> reg[tree].loc, promoted |-> comp.promoted,
                    rollback |-> comp.rollback, rollbackTree |-> comp.rollbackTree,
                    generation |-> comp.generation, known |-> known, handoff |-> handoff,
                    serving |-> service.build # None]
        /\ service' = [service EXCEPT !.new = FALSE]
        /\ run' = RuntimeWorld!Applied(run)
        /\ UNCHANGED <<op, build, disk, reg, comp, known, handoff, receipt, work, found>>
    BY <1>4 DEF RuntimeWorld!Capture
  <2> HIDE DEF targets, tree, here
  <2>7. snap' = [active |-> RuntimeWorld!Active, activeTree |-> disk[0], targetTree |-> disk[0],
          targetLoc |-> 0,
                 promoted |-> comp.promoted, rollback |-> comp.rollback,
                 rollbackTree |-> comp.rollbackTree, generation |-> comp.generation,
                 known |-> known, handoff |-> handoff, serving |-> service.build # None]
    BY <2>4, <2>5, <2>6
  <2>8. RuntimeWorld!Active \in RuntimeWorld!Trees
    BY <1>1, <2>3 DEF RuntimeWorld!Active, MachineTyped
  <2>9. snap' \in Snapshot
    <3>1. /\ comp.promoted \in Maybe /\ comp.rollback \in Maybe /\ comp.rollbackTree \in Maybe
          /\ comp.generation \in Nat /\ known \in Maybe /\ handoff \in RuntimeWorld!Handoff
      BY <1>1 DEF MachineTyped, RuntimeWorld!Component, Maybe
    <3> QED BY <2>3, <2>7, <2>8, <3>1 DEF Snapshot
  <2>10. service'.build = service.build /\ service' \in [build : Maybe, new : BOOLEAN]
    BY <1>1, <2>6 DEF MachineTyped
  <2>11. /\ RuntimeWorld!Rows' = RuntimeWorld!Rows
         /\ RuntimeWorld!Active' = RuntimeWorld!Active /\ C' = C
         /\ RuntimeWorld!Wf' = RuntimeWorld!Wf /\ RuntimeWorld!Now' = RuntimeWorld!Now
    BY <2>6 DEF RuntimeWorld!Rows, RuntimeWorld!Active, C, RuntimeWorld!Wf, RuntimeWorld!Now
  <2>12. TreesUnmoved'
    BY <2>6, <2>7, <2>9, <2>11 DEF TreesUnmoved
  <2>13. Untouched'
    <3>1. Home' /\ Candidate'
      BY <1>2, <2>6, <2>10, <2>11 DEF Untouched, Home, Candidate, Bound
    <3> QED BY <1>2, <2>6, <2>10, <2>11, <3>1 DEF Untouched
  <2>14. /\ RunInv(run', RuntimeWorld!Wf) /\ run'.at = C /\ run'.end = "none"
         /\ run'.pc = "verify"
    <3>1. run' \in {run, RuntimeWorld!Landed(run), RuntimeWorld!Applied(run)}
      BY <2>6
    <3> QED BY <1>0, <1>1, <2>6, <3>1, StepAfter
  <2>15. RuntimeWorld!AlreadyActive'
    BY <1>4, <2>6 DEF RuntimeWorld!AlreadyActive
  <2>16. ~ Passed(run, C + 4)'
    <3>1. ~ (run'.at > C + 4) /\ run'.at # C + 4
      BY <1>1, <2>14
    <3> QED BY <2>11, <3>1 DEF Passed
  <2>17. NothingToDo(run)'
    BY <2>2, <2>6, <2>11, <2>12, <2>16 DEF NothingToDo
  <2>18. Registered(run)'
    BY <2>15 DEF Registered
  <2>19. RuntimePlaced(run)'
    BY <2>13, <2>15, <2>17, <2>18 DEF RuntimePlaced
  <2>20. MachineTyped' /\ Numbered'
    BY <1>1, <2>6, <2>10, <2>11 DEF MachineTyped, Numbered
  <2> QED BY <1>1, <2>6, <2>11, <2>14, <2>19, <2>20 DEF TreesInv, Endings
<1>5. CASE RuntimeWorld!Cardinality(targets) = 1 /\ ~ RuntimeWorld!AlreadyActive
  <2>a. RuntimeWorld!Target # RuntimeWorld!Active
    <3>1. CASE op.kind = "update"
      BY <1>2, <1>5, <3>1 DEF RuntimeWorld!Target, Untouched, Candidate
    <3>2. CASE op.kind # "update"
      <4>1. op.kind = "rollback" /\ RuntimeWorld!Target = comp.rollback /\ comp.rollback # None
        BY <1>1, <1>2, <3>2 DEF RuntimeWorld!Target, Untouched, MachineTyped,
           RuntimeWorld!AlreadyActive
      <4>2. \A t \in RuntimeWorld!Rows :
              (t = disk[0] => reg[t].loc = 0) /\ (build[t] = RuntimeWorld!Active => t = disk[0])
        BY <1>2 DEF Home
      <4>3. comp.rollbackTree \in RuntimeWorld!Rows /\ reg[comp.rollbackTree].loc # 0
            /\ build[comp.rollbackTree] = comp.rollback
        BY <1>2, <4>1 DEF Home
      <4> QED BY <4>1, <4>2, <4>3
    <3> QED BY <3>1, <3>2
  <2>b. targets = others
    BY <2>a
  <2>1. /\ snap' = [active |-> RuntimeWorld!Active, activeTree |-> here,
                    targetTree |-> tree, targetLoc |-> reg[tree].loc,
                    promoted |-> comp.promoted, rollback |-> comp.rollback,
                    rollbackTree |-> comp.rollbackTree, generation |-> comp.generation,
                    known |-> known, handoff |-> handoff, serving |-> service.build # None]
        /\ service' = [service EXCEPT !.new = FALSE]
        /\ run' = RuntimeWorld!Applied(run)
        /\ UNCHANGED <<op, build, disk, reg, comp, known, handoff, receipt, work, found>>
    BY <1>5 DEF RuntimeWorld!Capture
  <2>2. /\ disk[0] \in RuntimeWorld!Trees /\ disk[0] # None /\ TreesUpdates \in Nat
        /\ None \notin RuntimeWorld!Trees
        /\ RuntimeWorld!Rows \subseteq RuntimeWorld!Trees /\ 0 \in RuntimeWorld!Trees
    BY <1>1, <1>2, RootTree
  <2>3. tree \in targets /\ \A t \in targets : t = tree
    <3>1. IsFiniteSet(RuntimeWorld!Trees)
      BY <2>2, FS_Interval DEF RuntimeWorld!Trees
    <3>2. IsFiniteSet(targets)
      <4>1. targets \subseteq RuntimeWorld!Trees
        BY <2>2, <2>b
      <4> QED BY <3>1, <4>1, FS_Subset
    <3>3. PICK x : targets = {x}
      BY <1>5, <3>2, FS_Singleton, RuntimeCardinality
    <3> QED BY <3>3
  <2>4. tree \in RuntimeWorld!Rows /\ build[tree] = RuntimeWorld!Target /\ reg[tree].loc # 0
    BY <2>3, <2>b
  <2>5. disk[0] \in RuntimeWorld!Rows /\ reg[disk[0]].loc = 0
    BY <1>2, <2>4 DEF Home
  <2>6. here = disk[0]
    <3>1. RuntimeWorld!RowAt(0) = {disk[0]}
      BY <1>2, <2>5 DEF RuntimeWorld!RowAt, Home
    <3> QED BY <3>1
  <2> HIDE DEF targets, tree, here, others
  <2>7. /\ RuntimeWorld!Active = build[disk[0]]
        /\ RuntimeWorld!Active \in RuntimeWorld!Trees /\ RuntimeWorld!Active # None
    BY <1>1, <2>2 DEF RuntimeWorld!Active, MachineTyped
  <2>8. snap' = [active |-> RuntimeWorld!Active, activeTree |-> disk[0], targetTree |-> tree,
                 targetLoc |-> reg[tree].loc, promoted |-> comp.promoted,
                 rollback |-> comp.rollback, rollbackTree |-> comp.rollbackTree,
                 generation |-> comp.generation, known |-> known, handoff |-> handoff,
                 serving |-> service.build # None]
    BY <2>1, <2>6
  <2>9. /\ snap'.active = RuntimeWorld!Active /\ snap'.activeTree = disk[0]
        /\ snap'.targetTree = tree
        /\ snap'.targetLoc = reg[tree].loc /\ snap'.promoted = comp.promoted
        /\ snap'.rollback = comp.rollback /\ snap'.rollbackTree = comp.rollbackTree
        /\ snap'.known = known /\ snap'.handoff = handoff
    BY <2>8
  <2>10. service'.build = service.build /\ service' \in [build : Maybe, new : BOOLEAN]
    BY <1>1, <2>1 DEF MachineTyped
  <2>c. ~ RuntimeWorld!AlreadyActive'
    BY <1>5, <2>1 DEF RuntimeWorld!AlreadyActive
  <2>11. /\ RuntimeWorld!Rows' = RuntimeWorld!Rows
         /\ RuntimeWorld!Active' = RuntimeWorld!Active
         /\ RuntimeWorld!Target' = RuntimeWorld!Target /\ C' = C
         /\ NewBuild' = build[tree]
         /\ RuntimeWorld!Wf' = RuntimeWorld!Wf /\ RuntimeWorld!Now' = RuntimeWorld!Now
    BY <1>5, <2>1, <2>9, <2>c DEF RuntimeWorld!Rows, RuntimeWorld!Active, RuntimeWorld!Target,
       C, NewBuild, RuntimeWorld!Wf, RuntimeWorld!Now
  <2>12. /\ tree \in RuntimeWorld!Trees /\ build[tree] \in RuntimeWorld!Trees
         /\ build[tree] # RuntimeWorld!Active /\ tree # disk[0]
         /\ reg[tree] \in TreeRow /\ reg[tree].loc \in RuntimeWorld!Trees
    BY <1>1, <1>2, <2>2, <2>4, <2>5 DEF MachineTyped, Home, RuntimeWorld!Rows, TreeRow
  <2>13. snap' \in Snapshot
    <3>1. /\ comp.promoted \in Maybe /\ comp.rollback \in Maybe /\ comp.rollbackTree \in Maybe
          /\ comp.generation \in Nat /\ known \in Maybe /\ handoff \in RuntimeWorld!Handoff
      BY <1>1 DEF MachineTyped, RuntimeWorld!Component, Maybe
    <3> QED BY <2>2, <2>7, <2>8, <2>12, <3>1 DEF Snapshot
  <2>14. Boundary'
    <3>1. \A t \in RuntimeWorld!Rows : /\ build[t] = RuntimeWorld!Active => t = disk[0]
                                       /\ build[t] = build[tree] => t = tree
      <4>1. ASSUME NEW t \in RuntimeWorld!Rows, build[t] = build[tree] PROVE t = tree
        <5>1. CASE reg[t].loc # 0
          BY <2>3, <2>4, <2>b, <4>1, <5>1 DEF others
        <5>2. CASE reg[t].loc = 0
          BY <1>2, <2>7, <2>12, <4>1, <5>2 DEF Home
        <5> QED BY <5>1, <5>2
      <4> QED BY <1>2, <4>1 DEF Home
    <3>2. \A t \in RuntimeWorld!Rows \ {disk[0], tree} :
            disk[reg[t].loc] = t /\ reg[t].loc \notin {0, reg[tree].loc}
                /\ reg[t].role # "ACTIVE_OBSERVED"
      BY <1>2, <2>4 DEF Home
    <3>3. /\ {disk[0], tree} \subseteq RuntimeWorld!Rows
          /\ RuntimeWorld!Active # build[tree] /\ build[tree] = RuntimeWorld!Target
      BY <2>4, <2>5, <2>12
    <3>4. /\ {snap'.activeTree, snap'.targetTree} \subseteq RuntimeWorld!Rows'
          /\ snap'.activeTree # snap'.targetTree
          /\ snap'.targetLoc # 0
      BY <2>4, <2>9, <2>11, <2>12, <3>3
    <3>5. /\ NewBuild' = RuntimeWorld!Target' /\ build'[snap'.activeTree] = snap'.active
          /\ snap'.active # NewBuild'
      BY <2>1, <2>7, <2>9, <2>11, <3>3
    <3>6. \A t \in RuntimeWorld!Rows' : /\ build'[t] = snap'.active => t = snap'.activeTree
                                        /\ build'[t] = NewBuild' => t = snap'.targetTree
      BY <2>1, <2>9, <2>11, <3>1
    <3>7. \A t \in RuntimeWorld!Rows' \ {snap'.activeTree, snap'.targetTree} :
             /\ disk'[reg'[t].loc] = t /\ reg'[t].loc \notin {0, snap'.targetLoc}
             /\ reg'[t].role # "ACTIVE_OBSERVED"
      BY <2>1, <2>9, <2>11, <3>2
    <3> QED BY <2>13, <2>c, <3>4, <3>5, <3>6, <3>7 DEF Boundary
  <2>15. Evidence'
    <3>1. found.now = [active |-> disk[0], promoted |-> comp.promoted, rollback |-> comp.rollback,
                known |-> known, handoff |-> handoff]
      BY <1>2 DEF Untouched, RuntimeWorld!Now
    <3>2. comp.rollback # None =>
             comp.rollbackTree \in RuntimeWorld!Rows \ {disk[0]}
                 /\ build[comp.rollbackTree] = comp.rollback
      BY <1>2, <2>5 DEF Home
    <3> QED BY <1>2, <2>1, <2>9, <2>11, <3>1, <3>2 DEF Evidence, Home, Untouched
  <2>16. TreesBack' /\ RowsBack' /\ HandoffBack' /\ ComponentBack'
    <3>1. disk[reg[tree].loc] = tree /\ reg[tree].role # "ACTIVE_OBSERVED"
      BY <1>2, <2>4 DEF Home
    <3> QED BY <2>1, <2>5, <2>9, <3>1 DEF TreesBack, RowsBack, HandoffBack, ComponentBack
  <2>17. ~ RowsMoved' /\ ~ HandoffMoved' /\ ~ ComponentMoved' /\ receipt'.op # op'.n
    <3>1. reg'[snap'.targetTree].loc # 0
      BY <2>1, <2>4, <2>9
    <3>2. handoff'.op < op'.n /\ op'.n \in Nat /\ handoff'.op \in Nat /\ receipt'.op \in Nat
          /\ receipt'.op < op'.n
      BY <1>1, <1>2, <2>1 DEF Untouched, MachineTyped, RuntimeWorld!Handoff, RuntimeWorld!Trees
    <3>3. comp'.promoted # NewBuild'
      BY <1>2, <2>1, <2>2, <2>7, <2>11, <2>12 DEF Home
    <3> QED BY <3>1, <3>2, <3>3 DEF RowsMoved, RuntimeWorld!AtRoot, HandoffMoved, ComponentMoved
  <2>d. Bound(snap.handoff)' /\ service'.build \in {None, snap'.active, found'.serving}
    BY <1>2, <2>1, <2>9, <2>10 DEF Bound, Home, Untouched
  <2>18. InTwoPlaces' /\ AllBack'
    BY <2>9, <2>10, <2>16, <2>17, <2>d DEF InTwoPlaces, AllBack
  <2>19. /\ RunInv(run', RuntimeWorld!Wf) /\ run'.at = C /\ run'.row = "CHECKPOINTED"
         /\ run'.way = "forward"
         /\ run'.end = "none" /\ run'.pc = "verify"
    <3>1. run' \in {run, RuntimeWorld!Landed(run), RuntimeWorld!Applied(run)}
      BY <2>1
    <3>2. /\ RunInv(run', RuntimeWorld!Wf) /\ run'.at = C /\ run'.way = "forward"
          /\ run'.end = "none" /\ run'.pc = "verify"
      BY <1>0, <1>1, <2>1, <3>1, StepAfter
    <3>3. run'.row = "CHECKPOINTED"
      BY <3>2 DEF RunInv, RunPlaced
    <3> QED BY <3>2, <3>3
  <2>20. Forward(run)'
    <3>1. run'.at = C' /\ C' \in Nat
      BY <1>1, <2>11, <2>19
    <3>3. /\ ~ (run'.at > C' + 1) /\ ~ (run'.at > C' + 2)
          /\ ~ (run'.at > C' + 3) /\ ~ (run'.at > C' + 5)
      <4>1. run'.at = C /\ C' = C /\ C \in Nat
        BY <1>1, <2>11, <2>19
      <4>2. ~ (C > C + 1) /\ ~ (C > C + 2) /\ ~ (C > C + 3) /\ ~ (C > C + 5)
        BY <4>1
      <4> QED BY <4>1, <4>2
    <3> QED BY <2>16, <2>17, <2>d, <3>3 DEF Forward
  <2>21. RuntimePlaced(run)'
    BY <1>1, <2>11, <2>14, <2>15, <2>18, <2>19, <2>20, <2>c DEF RuntimePlaced, Passed, Activated
  <2>22. MachineTyped' /\ Numbered'
    BY <1>1, <2>1, <2>10, <2>11 DEF MachineTyped, Numbered
  <2> QED BY <1>1, <2>1, <2>11, <2>19, <2>21, <2>22 DEF TreesInv, Endings
<1> QED BY <1>3, <1>4, <1>5

-----------------------------------------------------------------------------
(* The steps that activate it                                              *)

\* What is known at a step that activates.
LEMMA StepActivates ==
    ASSUME TreesInv, run.pc = "effect", RuntimeWorld!At \in RuntimeWorld!Activating,
        ~ RuntimeWorld!AlreadyActive
    PROVE  /\ run.at > C /\ run.at \in 1..(C + 6) /\ C \in {4, 7} /\ run.row = "RUNNING"
           /\ op.n \in RuntimeWorld!Trees /\ op.n > 0 /\ op.n \in Nat /\ TreesUpdates \in Nat
           /\ op.kind \in {"update", "rollback"}
           /\ Boundary /\ Evidence /\ InTwoPlaces /\ Forward(run) /\ MachineTyped /\ Numbered
           /\ RuntimeWorld!At = "exchange" <=> run.at = C + 1
           /\ RuntimeWorld!At = "publish" <=> run.at = C + 2
           /\ RuntimeWorld!At = "restart" <=> run.at = C + 3
           /\ RuntimeWorld!At = "promote" <=> run.at = C + 5
           /\ RuntimeWorld!At = "finalize" <=> run.at = C + 6
<1> HIDE DEF C, RuntimeWorld!At, RuntimeWorld!AlreadyActive
<1>1. /\ run.at \in 1..(C + 6) /\ C \in {4, 7} /\ run.row = "RUNNING" /\ run.way = "forward"
      /\ MachineTyped /\ Numbered /\ RuntimePlaced(run)
      /\ op.kind \in {"update", "rollback"} /\ op.n > 0
  BY StepExecutes
<1>2. /\ run.at > C
      /\ RuntimeWorld!At = "exchange" <=> run.at = C + 1
      /\ RuntimeWorld!At = "publish" <=> run.at = C + 2
      /\ RuntimeWorld!At = "restart" <=> run.at = C + 3
      /\ RuntimeWorld!At = "promote" <=> run.at = C + 5
      /\ RuntimeWorld!At = "finalize" <=> run.at = C + 6
  BY <1>1, TreeAtWork
<1>3. Activated(run)
  BY <1>1, <1>2 DEF RuntimePlaced, Passed
<1>4. Boundary /\ Evidence /\ InTwoPlaces /\ Forward(run)
  BY <1>1, <1>3 DEF Activated
<1>5. op.n \in RuntimeWorld!Trees /\ op.n \in Nat /\ TreesUpdates \in Nat
  BY <1>1, RuntimeNone DEF MachineTyped, RuntimeWorld!Trees
<1> QED BY <1>1, <1>2, <1>4, <1>5

\* An effect that leaves everything in one of its two places, in the order of the steps.
LEMMA TreesEffect ==
    ASSUME TreesInv, run.pc = "effect", run.at > C, run.at # C + 4, NEW q, q = run',
        q \in {run, RuntimeWorld!Landed(run)},
           UNCHANGED op,
           MachineTyped', Numbered', Boundary', Evidence', InTwoPlaces', Forward(run)'
    PROVE  TreesInv'
<1> HIDE DEF C, RuntimeWorld!Wf, RuntimeWorld!AlreadyActive
<1>1. /\ op.n > 0 /\ run.at \in 1..(C + 6) /\ C \in {4, 7} /\ op.kind \in {"update", "rollback"}
  BY StepExecutes
<1>2. /\ RunInv(q, RuntimeWorld!Wf) /\ q.at = run.at /\ q.row \in {"RUNNING", "CHECKPOINTED"}
      /\ q.way = "forward" /\ q.end = "none"
  BY StepAfter
<1>3. RuntimeWorld!Wf' = RuntimeWorld!Wf /\ C' = C /\ op' = op
  BY DEF RuntimeWorld!Wf, C
<1>4. Run!ToUndo(q, RuntimeWorld!Wf) # {}
  BY <1>1, <1>2, TreesUndo DEF Ahead
<1>5. ~ Undid(run)'
  BY <1>2, <1>3, <1>4 DEF Undid
<1>6. Activated(run)'
  BY <1>2, <1>5 DEF Activated
<1>7. RuntimePlaced(run)'
  <2>1. ~ RuntimeWorld!AlreadyActive'
    BY DEF Boundary
  <2> QED BY <1>1, <1>2, <1>3, <1>6, <2>1 DEF RuntimePlaced, Passed
<1>8. op.n # 0 /\ run'.at \notin {C, C + 4}
  BY <1>1, <1>2
<1> QED BY <1>1, <1>2, <1>3, <1>7, <1>8 DEF TreesInv, Endings

\* Nothing is exchanged but the pair, and no row but those of the pair is written.
LEMMA BoundaryKept ==
    ASSUME Boundary, Evidence, MachineTyped, UNCHANGED <<op, build, snap, work, found>>,
           \A t \in RuntimeWorld!Trees : reg'[t] # None <=> reg[t] # None,
           \A t \in RuntimeWorld!Rows \ {snap.activeTree, snap.targetTree} : reg'[t] = reg[t],
           \A l \in RuntimeWorld!Trees \ {0, snap.targetLoc} : disk'[l] = disk[l]
    PROVE  /\ Boundary' /\ Evidence' /\ RuntimeWorld!Rows' = RuntimeWorld!Rows
           /\ NewBuild' = NewBuild
<1>0. ~ RuntimeWorld!AlreadyActive /\ ~ RuntimeWorld!AlreadyActive'
  BY DEF Boundary, RuntimeWorld!AlreadyActive
<1> HIDE DEF RuntimeWorld!AlreadyActive
<1>1. /\ RuntimeWorld!Rows' = RuntimeWorld!Rows /\ NewBuild' = NewBuild
      /\ RuntimeWorld!Target' = RuntimeWorld!Target
  BY <1>0 DEF RuntimeWorld!Rows, NewBuild, RuntimeWorld!Target
<1>2. \A t \in RuntimeWorld!Rows : reg[t] \in TreeRow /\ reg[t].loc \in RuntimeWorld!Trees
  BY DEF MachineTyped, RuntimeWorld!Rows, TreeRow
<1>3. \A t \in RuntimeWorld!Rows \ {snap.activeTree, snap.targetTree} :
          disk'[reg'[t].loc] = t /\ reg'[t].loc \notin {0, snap.targetLoc}
              /\ reg'[t].role # "ACTIVE_OBSERVED"
  BY <1>2 DEF Boundary
<1>4. Boundary'
  BY <1>0, <1>1, <1>3 DEF Boundary
<1>5. Evidence'
  BY <1>1 DEF Evidence
<1> QED BY <1>1, <1>4, <1>5

\* The two directories change places.
LEMMA Swapped ==
    ASSUME Boundary, Evidence, MachineTyped, Numbered, TreesBack \/ TreesMoved, RuntimeWorld!Swap,
           UNCHANGED <<op, build, reg, handoff, receipt, snap, work, found>>
    PROVE  /\ disk' \in [RuntimeWorld!Trees -> Maybe] /\ disk'[0] = disk[snap.targetLoc]
           /\ disk'[snap.targetLoc] = disk[0]
           /\ Boundary' /\ Evidence' /\ RuntimeWorld!Rows' = RuntimeWorld!Rows
           /\ NewBuild' = NewBuild /\ Numbered'
           /\ TreesBack => TreesMoved' /\ ~ TreesBack'
           /\ TreesMoved => TreesBack' /\ ~ TreesMoved'
<1>1. /\ 0 \in RuntimeWorld!Trees /\ snap.targetLoc \in RuntimeWorld!Trees
      /\ snap.targetLoc # 0 /\ snap.activeTree # snap.targetTree
  BY RuntimeNone DEF Boundary, Snapshot, RuntimeWorld!Trees
<1>2. /\ disk' \in [RuntimeWorld!Trees -> Maybe] /\ disk'[0] = disk[snap.targetLoc]
      /\ disk'[snap.targetLoc] = disk[0]
      /\ \A l \in RuntimeWorld!Trees \ {0, snap.targetLoc} : disk'[l] = disk[l]
      /\ \A l \in RuntimeWorld!Trees : \E m \in RuntimeWorld!Trees : disk'[l] = disk[m]
  BY <1>1 DEF RuntimeWorld!Swap, MachineTyped
<1>3. Boundary' /\ Evidence' /\ RuntimeWorld!Rows' = RuntimeWorld!Rows /\ NewBuild' = NewBuild
  BY <1>2, BoundaryKept
<1>4. Numbered'
  <2>1. ASSUME NEW t \in RuntimeWorld!Trees, t > op.n
        PROVE  t \notin RuntimeWorld!Rows /\ disk'[t] = None /\ build[t] = t
            /\ \A l \in RuntimeWorld!Trees : disk'[l] # t
    <3>1. t \notin RuntimeWorld!Rows /\ disk[t] = None /\ build[t] = t
            /\ \A l \in RuntimeWorld!Trees : disk[l] # t
      BY <2>1 DEF Numbered
    <3>2. \A l \in RuntimeWorld!Trees : disk'[l] # t
      BY <1>2, <3>1
    <3>3. t # 0
      BY <2>1 DEF MachineTyped, RuntimeWorld!Trees
    <3>4. t # snap.targetLoc
      <4>1. disk[snap.targetLoc] \in {snap.activeTree, snap.targetTree}
        BY DEF TreesBack, TreesMoved
      <4>2. disk[snap.targetLoc] # None
        BY <4>1, RuntimeNone DEF Boundary, Snapshot, RuntimeWorld!Trees
      <4> QED BY <3>1, <4>2
    <3> QED BY <1>2, <3>1, <3>2, <3>3, <3>4
  <2> QED BY <1>3, <2>1 DEF Numbered
<1>5. TreesBack => TreesMoved' /\ ~ TreesBack'
  BY <1>1, <1>2 DEF TreesBack, TreesMoved
<1>6. TreesMoved => TreesBack' /\ ~ TreesMoved'
  BY <1>1, <1>2 DEF TreesBack, TreesMoved
<1> QED BY <1>2, <1>3, <1>4, <1>5, <1>6

LEMMA ExchangeEffect ==
    ASSUME TreesInv, RuntimeWorld!Exchange
    PROVE  TreesInv'
<1> HIDE DEF RuntimeWorld!Wf, C, RuntimeWorld!At, RuntimeWorld!Arrangement,
   RuntimeWorld!Refused, RuntimeWorld!AlreadyActive
<1>0. /\ run.pc = "effect" /\ RuntimeWorld!At = "exchange"
      /\ RuntimeWorld!At \in RuntimeWorld!Activating /\ ~ RuntimeWorld!AlreadyActive
  BY DEF RuntimeWorld!Exchange, RuntimeWorld!Executing, RuntimeWorld!Activating
<1>1. /\ run.at = C + 1 /\ C \in {4, 7} /\ run.row = "RUNNING"
      /\ Boundary /\ Evidence /\ InTwoPlaces /\ Forward(run) /\ MachineTyped /\ Numbered
  BY <1>0, StepActivates
<1>2. /\ RuntimeWorld!Arrangement \in {"ABSENT", "COMPLETE"}
      /\ (TreesBack <=> RuntimeWorld!Arrangement = "ABSENT")
      /\ ~ (TreesBack /\ TreesMoved)
  BY <1>1, PairSeen DEF InTwoPlaces
<1>3. CASE RuntimeWorld!Arrangement = "COMPLETE"
  <2>1. run' = RuntimeWorld!Applied(run) /\ UNCHANGED Machine /\ work' = work
    BY <1>3 DEF RuntimeWorld!Exchange, Machine
  <2> QED BY <1>0, <1>1, <2>1, RuntimeApplied
<1>4. CASE RuntimeWorld!Arrangement = "ABSENT"
  <2>1. /\ RuntimeWorld!Swap /\ run' = RuntimeWorld!Landed(run)
        /\ UNCHANGED <<op, build, reg, comp, known, handoff, service, receipt, snap, work, found>>
    BY <1>4 DEF RuntimeWorld!Exchange
  <2>2. TreesBack /\ ~ TreesMoved
    BY <1>2, <1>4
  <2>3. /\ disk' \in [RuntimeWorld!Trees -> Maybe] /\ Boundary' /\ Evidence'
        /\ NewBuild' = NewBuild /\ Numbered'
        /\ TreesMoved' /\ ~ TreesBack'
    BY <1>1, <2>1, <2>2, Swapped
  <2>4. MachineTyped'
    BY <1>1, <2>1, <2>3 DEF MachineTyped
  <2>5. /\ (RowsBack <=> RowsBack') /\ (RowsMoved <=> RowsMoved')
        /\ (HandoffBack <=> HandoffBack') /\ (HandoffMoved <=> HandoffMoved')
        /\ (ComponentBack <=> ComponentBack') /\ (ComponentMoved <=> ComponentMoved')
    BY <2>1, <2>3 DEF RowsBack, RowsMoved, HandoffBack, HandoffMoved, ComponentBack,
       ComponentMoved,
                      RuntimeWorld!AtRoot, RuntimeWorld!Aside
  <2>6. InTwoPlaces'
    BY <1>1, <2>1, <2>3, <2>5 DEF InTwoPlaces, Bound
  <2>7. /\ run'.at = run.at /\ run'.row = "RUNNING" /\ C' = C
        /\ run' \in {run, RuntimeWorld!Landed(run)}
    BY <1>0, <2>1, StepAfter DEF C
  <2>8. Forward(run)'
    BY <1>1, <2>1, <2>3, <2>5, <2>7 DEF Forward, Ahead
  <2> QED BY <1>0, <1>1, <2>1, <2>3, <2>4, <2>6, <2>7, <2>8, TreesEffect
<1> QED BY <1>2, <1>3, <1>4

\* The handoff names the new build.
LEMMA PublishEffect ==
    ASSUME TreesInv, RuntimeWorld!PublishHandoff
    PROVE  TreesInv'
<1> HIDE DEF RuntimeWorld!Wf, C, RuntimeWorld!At, RuntimeWorld!AlreadyActive
<1>0. /\ run.pc = "effect" /\ RuntimeWorld!At = "publish"
      /\ RuntimeWorld!At \in RuntimeWorld!Activating /\ ~ RuntimeWorld!AlreadyActive
  BY DEF RuntimeWorld!PublishHandoff, RuntimeWorld!Executing, RuntimeWorld!Activating
<1>1. /\ run.at = C + 2 /\ C \in {4, 7} /\ run.row = "RUNNING"
      /\ op.n \in RuntimeWorld!Trees /\ op.n \in Nat
      /\ Boundary /\ Evidence /\ InTwoPlaces /\ Forward(run) /\ MachineTyped /\ Numbered
  BY <1>0, StepActivates
<1>2. /\ RuntimeWorld!Target = NewBuild /\ NewBuild \in RuntimeWorld!Trees
      /\ ~ (TreesBack /\ TreesMoved)
  BY <1>1, PairSeen DEF InTwoPlaces
<1>3. TreesMoved /\ ~ TreesBack
  BY <1>1, <1>2 DEF Forward
<1>4. /\ handoff' = [component |-> NewBuild, op |-> op.n] /\ run' = RuntimeWorld!Landed(run)
      /\ UNCHANGED <<op, build, disk, reg, comp, known, service, receipt, snap, work, found>>
  BY <1>2 DEF RuntimeWorld!PublishHandoff
<1>5. Boundary' /\ Evidence' /\ RuntimeWorld!Rows' = RuntimeWorld!Rows /\ NewBuild' = NewBuild
  BY <1>1, <1>4, BoundaryKept
<1>6. handoff' \in RuntimeWorld!Handoff /\ handoff'.op = op.n
  BY <1>1, <1>2, <1>4 DEF RuntimeWorld!Handoff, RuntimeWorld!Trees
<1>7. MachineTyped' /\ Numbered'
  BY <1>1, <1>4, <1>5, <1>6 DEF MachineTyped, Numbered
<1>8. /\ (RowsBack <=> RowsBack') /\ (RowsMoved <=> RowsMoved') /\ HandoffMoved'
      /\ (TreesBack <=> TreesBack') /\ (TreesMoved <=> TreesMoved')
      /\ (ComponentBack <=> ComponentBack') /\ (ComponentMoved <=> ComponentMoved')
  BY <1>4, <1>5 DEF RowsBack, RowsMoved, HandoffMoved, TreesBack, TreesMoved, ComponentBack,
                    ComponentMoved, RuntimeWorld!AtRoot, RuntimeWorld!Aside
<1>9. InTwoPlaces'
  BY <1>1, <1>4, <1>5, <1>8 DEF InTwoPlaces, Bound
<1>10. /\ run'.at = run.at /\ run'.row = "RUNNING" /\ C' = C
       /\ run' \in {run, RuntimeWorld!Landed(run)}
  BY <1>0, <1>4, StepAfter DEF C
<1>11. Forward(run)'
  BY <1>1, <1>3, <1>4, <1>5, <1>8, <1>10 DEF Forward, Ahead
<1> QED BY <1>0, <1>1, <1>4, <1>5, <1>7, <1>9, <1>10, <1>11, TreesEffect

\* The server is launched from the new tree, and its receipt says so.
LEMMA RestartEffect ==
    ASSUME TreesInv, RuntimeWorld!Restart
    PROVE  TreesInv'
<1> HIDE DEF RuntimeWorld!Wf, C, RuntimeWorld!At, RuntimeWorld!InvocationProbe,
   RuntimeWorld!AlreadyActive
<1>0. /\ run.pc = "effect" /\ RuntimeWorld!At = "restart"
      /\ RuntimeWorld!At \in RuntimeWorld!Activating /\ ~ RuntimeWorld!AlreadyActive
  BY DEF RuntimeWorld!Restart, RuntimeWorld!Executing, RuntimeWorld!Activating
<1>1. /\ run.at = C + 3 /\ C \in {4, 7} /\ run.row = "RUNNING"
      /\ op.n \in RuntimeWorld!Trees /\ op.n \in Nat
      /\ Boundary /\ Evidence /\ InTwoPlaces /\ Forward(run) /\ MachineTyped /\ Numbered
  BY <1>0, StepActivates
<1>2. /\ RuntimeWorld!Target = NewBuild /\ NewBuild \in RuntimeWorld!Trees
      /\ ~ (TreesBack /\ TreesMoved) /\ None \notin RuntimeWorld!Trees
      /\ TreesMoved => RuntimeWorld!Active = NewBuild
  BY <1>1, PairSeen DEF InTwoPlaces
<1>3. TreesMoved /\ ~ TreesBack /\ RuntimeWorld!Active = NewBuild
  BY <1>1, <1>2 DEF Forward
<1>4. CASE RuntimeWorld!InvocationProbe = "COMPLETE"
  <2>1. run' = RuntimeWorld!Applied(run) /\ UNCHANGED Machine /\ work' = work
    BY <1>4 DEF RuntimeWorld!Restart, Machine
  <2> QED BY <1>0, <1>1, <2>1, RuntimeApplied
<1>5. CASE RuntimeWorld!InvocationProbe # "COMPLETE"
  <2>1. /\ handoff' = [component |-> NewBuild, op |-> op.n]
        /\ RuntimeWorld!Launch(handoff') /\ run' = RuntimeWorld!Landed(run)
        /\ UNCHANGED <<op, build, disk, reg, comp, known, snap, work, found>>
    BY <1>2, <1>5 DEF RuntimeWorld!Restart
  <2>2. handoff' \in RuntimeWorld!Handoff /\ handoff'.op = op.n /\ handoff'.component = NewBuild
    BY <1>1, <1>2, <2>1 DEF RuntimeWorld!Handoff, RuntimeWorld!Trees
  <2>3. /\ service' = [build |-> NewBuild, new |-> TRUE]
        /\ receipt' = [build |-> NewBuild, op |-> op.n]
    BY <1>2, <1>3, <2>1, <2>2 DEF RuntimeWorld!Launch
  <2>4. /\ service' \in [build : Maybe, new : BOOLEAN]
        /\ receipt' \in [build : Maybe, op : RuntimeWorld!Trees]
        /\ service'.build = NewBuild /\ receipt'.build = NewBuild /\ receipt'.op = op.n
    BY <1>1, <1>2, <2>3 DEF Maybe
  <2>5. Boundary' /\ Evidence' /\ RuntimeWorld!Rows' = RuntimeWorld!Rows /\ NewBuild' = NewBuild
    BY <1>1, <2>1, BoundaryKept
  <2>6. MachineTyped' /\ Numbered'
    BY <1>1, <2>1, <2>2, <2>4, <2>5 DEF MachineTyped, Numbered
  <2>7. /\ (RowsBack <=> RowsBack') /\ (RowsMoved <=> RowsMoved') /\ HandoffMoved'
        /\ (TreesBack <=> TreesBack') /\ (TreesMoved <=> TreesMoved')
        /\ (ComponentBack <=> ComponentBack') /\ (ComponentMoved <=> ComponentMoved')
    BY <2>1, <2>5 DEF RowsBack, RowsMoved, HandoffMoved, TreesBack, TreesMoved, ComponentBack,
                      ComponentMoved, RuntimeWorld!AtRoot, RuntimeWorld!Aside
  <2>8. InTwoPlaces'
    <3>1. snap'.handoff = snap.handoff /\ snap.handoff.op < op.n
      BY <1>1, <2>1 DEF Evidence
    <3>2. Bound(snap.handoff)'
      BY <1>1, <2>4, <3>1 DEF Bound
    <3> QED BY <1>1, <2>1, <2>4, <2>5, <2>7, <3>2 DEF InTwoPlaces
  <2>9. /\ run'.at = run.at /\ run'.row = "RUNNING" /\ C' = C
        /\ run' \in {run, RuntimeWorld!Landed(run)}
    BY <1>0, <2>1, StepAfter DEF C
  <2>10. Forward(run)'
    BY <1>1, <1>3, <2>1, <2>4, <2>5, <2>7, <2>9 DEF Forward, Ahead
  <2> QED BY <1>0, <1>1, <2>1, <2>5, <2>6, <2>8, <2>9, <2>10, TreesEffect
<1> QED BY <1>4, <1>5

\* The rows of the pair are moved with it.
LEMMA RowsAreMoved ==
    ASSUME Boundary, Evidence, MachineTyped, Numbered, NEW forward \in BOOLEAN,
           reg' = RuntimeWorld!Locations(forward),
           UNCHANGED <<op, build, disk, handoff, receipt, snap, work, found>>
    PROVE  /\ reg' \in [RuntimeWorld!Trees -> TreeRow \cup {None}]
           /\ Boundary' /\ Evidence' /\ RuntimeWorld!Rows' = RuntimeWorld!Rows
           /\ NewBuild' = NewBuild /\ Numbered'
           /\ forward => RowsMoved' /\ ~ RowsBack'
           /\ ~ forward => RowsBack' /\ ~ RowsMoved'
<1>1. /\ {snap.activeTree, snap.targetTree} \subseteq RuntimeWorld!Rows
      /\ snap.activeTree # snap.targetTree
      /\ snap.targetLoc # 0 /\ snap.targetLoc \in RuntimeWorld!Trees
      /\ 0 \in RuntimeWorld!Trees /\ RuntimeWorld!Rows \subseteq RuntimeWorld!Trees
      /\ \A t \in RuntimeWorld!Rows : reg[t] # None
  BY RuntimeNone DEF Boundary, Snapshot, RuntimeWorld!Trees, RuntimeWorld!Rows
<1>2. /\ RuntimeWorld!AtRoot \in TreeRow /\ RuntimeWorld!AtRoot # None
      /\ RuntimeWorld!Aside \in TreeRow /\ RuntimeWorld!Aside # None
      /\ RuntimeWorld!AtRoot.loc = 0 /\ RuntimeWorld!Aside.loc = snap.targetLoc
      /\ RuntimeWorld!Aside.role = "RETAINED"
      /\ RuntimeWorld!AtRoot # RuntimeWorld!Aside
  <2>1. RuntimeWorld!AtRoot \in TreeRow /\ RuntimeWorld!Aside \in TreeRow
    BY <1>1 DEF TreeRow, RuntimeWorld!AtRoot, RuntimeWorld!Aside, Roles
  <2> QED BY <1>1, <2>1, RuntimeNone DEF RuntimeWorld!AtRoot, RuntimeWorld!Aside
<1> DEFINE here == IF forward THEN snap.targetTree ELSE snap.activeTree
           there == IF forward THEN snap.activeTree ELSE snap.targetTree
<1>3. /\ here \in RuntimeWorld!Trees /\ there \in RuntimeWorld!Trees /\ here # there
      /\ {here, there} = {snap.activeTree, snap.targetTree}
  BY <1>1
<1>4. /\ reg' = [t \in RuntimeWorld!Trees |-> IF t = here THEN RuntimeWorld!AtRoot
                                ELSE IF t \in {snap.targetTree, snap.activeTree}
                                    THEN RuntimeWorld!Aside ELSE reg[t]]
  BY DEF RuntimeWorld!Locations
<1> HIDE DEF here, there
<1>5. /\ reg'[here] = RuntimeWorld!AtRoot /\ reg'[there] = RuntimeWorld!Aside
      /\ \A t \in RuntimeWorld!Trees \ {snap.activeTree, snap.targetTree} : reg'[t] = reg[t]
      /\ reg' \in [RuntimeWorld!Trees -> TreeRow \cup {None}]
  BY <1>2, <1>3, <1>4 DEF MachineTyped
<1>6. \A t \in RuntimeWorld!Trees : reg'[t] # None <=> reg[t] # None
  <2>1. ASSUME NEW t \in RuntimeWorld!Trees PROVE reg'[t] # None <=> reg[t] # None
    <3>1. CASE t \in {snap.activeTree, snap.targetTree}
      <4>1. reg[t] # None
        BY <1>1, <3>1
      <4>2. reg'[t] # None
        BY <1>2, <1>3, <1>5, <3>1
      <4> QED BY <4>1, <4>2
    <3>2. CASE t \notin {snap.activeTree, snap.targetTree}
      BY <1>5, <3>2
    <3> QED BY <3>1, <3>2
  <2> QED BY <2>1
<1>7. Boundary' /\ Evidence' /\ RuntimeWorld!Rows' = RuntimeWorld!Rows /\ NewBuild' = NewBuild
  BY <1>1, <1>5, <1>6, BoundaryKept
<1>8. Numbered'
  BY <1>7 DEF Numbered
<1>9. ASSUME forward PROVE RowsMoved' /\ ~ RowsBack'
  <2>1. reg'[snap.targetTree] = RuntimeWorld!AtRoot /\ reg'[snap.activeTree] = RuntimeWorld!Aside
    BY <1>5, <1>9 DEF here, there
  <2>2. RuntimeWorld!AtRoot' = RuntimeWorld!AtRoot /\ RuntimeWorld!Aside' = RuntimeWorld!Aside
    BY DEF RuntimeWorld!AtRoot, RuntimeWorld!Aside
  <2>3. reg'[snap.activeTree].loc # 0
    BY <1>1, <1>2, <2>1
  <2> QED BY <2>1, <2>2, <2>3 DEF RowsMoved, RowsBack
<1>10. ASSUME ~ forward PROVE RowsBack' /\ ~ RowsMoved'
  <2>1. reg'[snap.activeTree] = RuntimeWorld!AtRoot /\ reg'[snap.targetTree] = RuntimeWorld!Aside
    BY <1>5, <1>10 DEF here, there
  <2>2. RuntimeWorld!AtRoot' = RuntimeWorld!AtRoot /\ RuntimeWorld!Aside' = RuntimeWorld!Aside
    BY DEF RuntimeWorld!AtRoot, RuntimeWorld!Aside
  <2> QED BY <1>2, <2>1, <2>2 DEF RowsMoved, RowsBack
<1> QED BY <1>5, <1>7, <1>8, <1>9, <1>10

LEMMA VerificationEffect ==
    ASSUME TreesInv, RuntimeWorld!VerifyRuntime
    PROVE  TreesInv'
<1> HIDE DEF RuntimeWorld!Wf, C, RuntimeWorld!At, RuntimeWorld!Refused,
   RuntimeWorld!AlreadyActive, RuntimeWorld!Identified, Proving
<1>0. run.pc = "effect" /\ RuntimeWorld!At = "verify"
  BY DEF RuntimeWorld!VerifyRuntime, RuntimeWorld!Executing
<1>1. run.at = C + 4 /\ C \in {4, 7} /\ RuntimePlaced(run) /\ MachineTyped
  BY <1>0, StepExecutes, TreeAtWork
<1>2. UNCHANGED Machine /\ work' = work
  BY DEF RuntimeWorld!VerifyRuntime, Machine, RuntimeWorld!stepVars
<1>3. CASE RuntimeWorld!Identified
  <2>1. RuntimeWorld!AlreadyActive => Proving
    BY <1>1, <1>3, IdentityProves DEF RuntimePlaced
  <2>2. run' = RuntimeWorld!Applied(run)
    BY <1>3 DEF RuntimeWorld!VerifyRuntime
  <2> QED BY <1>0, <1>1, <1>2, <2>1, <2>2, RuntimeApplied
<1>4. CASE ~ RuntimeWorld!Identified
  <2>1. RuntimeWorld!Refused
    BY <1>4 DEF RuntimeWorld!VerifyRuntime
  <2> QED BY <1>0, <1>2, <2>1, RuntimeRefused
<1> QED BY <1>3, <1>4

LEMMA LocationsEffect ==
    ASSUME TreesInv, RuntimeWorld!RecordLocations
    PROVE  TreesInv'
<1> HIDE DEF RuntimeWorld!Wf, C, RuntimeWorld!At, RuntimeWorld!Refused,
   RuntimeWorld!Arrangement, RuntimeWorld!AlreadyActive
<1>0. /\ run.pc = "effect" /\ RuntimeWorld!At = "promote"
      /\ RuntimeWorld!At \in RuntimeWorld!Activating /\ ~ RuntimeWorld!AlreadyActive
  BY DEF RuntimeWorld!RecordLocations, RuntimeWorld!Executing, RuntimeWorld!Activating
<1>1. /\ run.at = C + 5 /\ C \in {4, 7} /\ run.row = "RUNNING"
      /\ Boundary /\ Evidence /\ InTwoPlaces /\ Forward(run) /\ MachineTyped /\ Numbered
  BY <1>0, StepActivates
<1>2. CASE ~ (RuntimeWorld!Arrangement = "COMPLETE" /\ RuntimeWorld!Identified)
  <2>1. RuntimeWorld!Refused /\ UNCHANGED Machine /\ work' = work
    BY <1>2 DEF RuntimeWorld!RecordLocations, Machine
  <2> QED BY <1>0, <2>1, RuntimeRefused
<1>3. CASE RuntimeWorld!Arrangement = "COMPLETE" /\ RuntimeWorld!Identified
  <2>1. /\ reg' = RuntimeWorld!Locations(TRUE) /\ run' = run
        /\ UNCHANGED <<op, build, disk, comp, known, handoff, service, receipt, snap, work,
            found>>
    BY <1>3 DEF RuntimeWorld!RecordLocations
  <2>2. /\ reg' \in [RuntimeWorld!Trees -> TreeRow \cup {None}] /\ Boundary'
        /\ Evidence' /\ NewBuild' = NewBuild
        /\ Numbered' /\ RowsMoved'
    BY <1>1, <2>1, RowsAreMoved
  <2>3. MachineTyped'
    BY <1>1, <2>1, <2>2 DEF MachineTyped
  <2>4. /\ (TreesBack <=> TreesBack') /\ (TreesMoved <=> TreesMoved')
        /\ (HandoffBack <=> HandoffBack') /\ (HandoffMoved <=> HandoffMoved')
        /\ (ComponentBack <=> ComponentBack') /\ (ComponentMoved <=> ComponentMoved')
    BY <2>1, <2>2 DEF TreesBack, TreesMoved, HandoffBack, HandoffMoved, ComponentBack,
       ComponentMoved
  <2>5. HandoffMoved /\ C' = C
    BY <1>1, <2>1 DEF Forward, C
  <2>6. InTwoPlaces'
    BY <1>1, <2>1, <2>2, <2>4, <2>5 DEF InTwoPlaces, Bound
  <2>7. Forward(run)'
    BY <1>1, <2>1, <2>2, <2>4, <2>5 DEF Forward, Ahead
  <2> QED BY <1>0, <1>1, <2>1, <2>2, <2>3, <2>6, <2>7, TreesEffect
<1> QED BY <1>2, <1>3

\* The component and the known-good row name the new build.
LEMMA PromotionEffect ==
    ASSUME TreesInv, RuntimeWorld!Promote
    PROVE  TreesInv'
<1> HIDE DEF RuntimeWorld!Wf, C, RuntimeWorld!At, RuntimeWorld!Refused, RuntimeWorld!AlreadyActive
<1>0. /\ run.pc = "effect" /\ RuntimeWorld!At = "promote"
      /\ RuntimeWorld!At \in RuntimeWorld!Activating
      /\ reg = RuntimeWorld!Locations(TRUE) /\ ~ RuntimeWorld!AlreadyActive
  BY DEF RuntimeWorld!Promote, RuntimeWorld!Executing, RuntimeWorld!Activating
<1>1. /\ run.at = C + 5 /\ C \in {4, 7} /\ run.row = "RUNNING"
      /\ op.n \in RuntimeWorld!Trees /\ op.n \in Nat
      /\ Boundary /\ Evidence /\ InTwoPlaces /\ Forward(run) /\ MachineTyped /\ Numbered
  BY <1>0, StepActivates
<1>2. CASE (run' = RuntimeWorld!Applied(run) \/ RuntimeWorld!Refused) /\ UNCHANGED <<comp, known>>
  <2>1. UNCHANGED Machine /\ work' = work
    BY <1>2 DEF RuntimeWorld!Promote, Machine
  <2> QED BY <1>0, <1>1, <1>2, <2>1, RuntimeApplied, RuntimeRefused
<1>3. CASE comp' = RuntimeWorld!Promotion /\ known' = RuntimeWorld!Target
        /\ run' = RuntimeWorld!Landed(run)
  <2>1. UNCHANGED <<op, build, disk, reg, handoff, service, receipt, snap, work, found>>
    BY DEF RuntimeWorld!Promote
  <2>2. /\ RuntimeWorld!Target = NewBuild /\ NewBuild \in RuntimeWorld!Trees
    BY <1>1, PairSeen DEF InTwoPlaces
  <2>3. RowsMoved /\ HandoffMoved
    <3>1. /\ {snap.activeTree, snap.targetTree} \subseteq RuntimeWorld!Trees
          /\ snap.activeTree # snap.targetTree
      BY <1>1 DEF Boundary, RuntimeWorld!Rows
    <3> QED BY <1>0, <1>1, <3>1 DEF RowsMoved, RuntimeWorld!Locations, Forward
  <2>4. /\ comp' \in RuntimeWorld!Component /\ comp'.promoted = NewBuild
        /\ comp'.rollback = snap.promoted
        /\ (comp'.rollback # None => comp'.rollbackTree = snap.activeTree)
    <3>1. /\ snap.promoted \in Maybe /\ snap.targetTree \in RuntimeWorld!Trees
          /\ snap.activeTree \in RuntimeWorld!Trees
          /\ comp.generation + 1 \in Nat /\ op.n \in 0..TreesUpdates
      BY <1>1 DEF Boundary, Snapshot, MachineTyped, RuntimeWorld!Component, RuntimeWorld!Trees
    <3> QED BY <1>3, <2>2, <3>1 DEF RuntimeWorld!Promotion, RuntimeWorld!Component, Maybe
  <2>5. Boundary' /\ Evidence' /\ RuntimeWorld!Rows' = RuntimeWorld!Rows /\ NewBuild' = NewBuild
    BY <1>1, <2>1, BoundaryKept
  <2>6. MachineTyped' /\ Numbered'
    BY <1>1, <1>3, <2>1, <2>2, <2>4, <2>5 DEF MachineTyped, Numbered, Maybe
  <2>7. ComponentMoved'
    BY <1>3, <2>1, <2>2, <2>4, <2>5 DEF ComponentMoved
  <2>8. /\ (TreesBack <=> TreesBack') /\ (TreesMoved <=> TreesMoved')
        /\ (HandoffBack <=> HandoffBack') /\ (HandoffMoved <=> HandoffMoved')
        /\ (RowsBack <=> RowsBack') /\ RowsMoved'
    BY <2>1, <2>3, <2>5 DEF TreesBack, TreesMoved, HandoffBack, HandoffMoved, RowsBack, RowsMoved,
                            RuntimeWorld!AtRoot, RuntimeWorld!Aside
  <2>9. InTwoPlaces'
    BY <1>1, <2>1, <2>3, <2>5, <2>7, <2>8 DEF InTwoPlaces, Bound
  <2>10. /\ run'.at = run.at /\ run'.row = "RUNNING" /\ C' = C
         /\ run' \in {run, RuntimeWorld!Landed(run)}
    BY <1>0, <1>3, <2>1, StepAfter DEF C
  <2>11. Forward(run)'
    BY <1>1, <2>1, <2>5, <2>8, <2>10 DEF Forward, Ahead
  <2> QED BY <1>0, <1>1, <2>1, <2>5, <2>6, <2>9, <2>10, <2>11, TreesEffect
<1> QED BY <1>2, <1>3 DEF RuntimeWorld!Promote

LEMMA PairFinal ==
    ASSUME TreesInv, RuntimeWorld!Finalize, ~ RuntimeWorld!AlreadyActive
    PROVE  TreesInv'
<1> HIDE DEF RuntimeWorld!Wf, C, RuntimeWorld!At, RuntimeWorld!Refused,
   RuntimeWorld!Arrangement, RuntimeWorld!AlreadyActive
<1>0. /\ run.pc = "effect" /\ RuntimeWorld!At = "finalize"
      /\ RuntimeWorld!At \in RuntimeWorld!Activating
  BY DEF RuntimeWorld!Finalize, RuntimeWorld!Executing, RuntimeWorld!Activating
<1>1. /\ run.at = C + 6 /\ C \in {4, 7} /\ run.row = "RUNNING"
      /\ Boundary /\ Evidence /\ InTwoPlaces /\ Forward(run) /\ MachineTyped /\ Numbered
  BY <1>0, StepActivates
<1>2. CASE ~ (RuntimeWorld!Arrangement = "COMPLETE" /\ work # "activeProbed")
  <2>1. RuntimeWorld!Refused /\ UNCHANGED Machine /\ work' = work
    BY <1>2 DEF RuntimeWorld!Finalize, Machine
  <2> QED BY <1>0, <2>1, RuntimeRefused
<1>3. CASE RuntimeWorld!Arrangement = "COMPLETE" /\ work # "activeProbed"
  <2>1. /\ reg' = RuntimeWorld!Locations(TRUE) /\ run' = RuntimeWorld!Landed(run)
        /\ UNCHANGED <<op, build, disk, comp, known, handoff, service, receipt, snap, work,
            found>>
    BY <1>3 DEF RuntimeWorld!Finalize
  <2>2. /\ reg' \in [RuntimeWorld!Trees -> TreeRow \cup {None}] /\ Boundary'
        /\ Evidence' /\ NewBuild' = NewBuild
        /\ Numbered' /\ RowsMoved'
    BY <1>1, <2>1, RowsAreMoved
  <2>3. MachineTyped'
    BY <1>1, <2>1, <2>2 DEF MachineTyped
  <2>4. /\ (TreesBack <=> TreesBack') /\ (TreesMoved <=> TreesMoved')
        /\ (HandoffBack <=> HandoffBack') /\ (HandoffMoved <=> HandoffMoved')
        /\ (ComponentBack <=> ComponentBack') /\ (ComponentMoved <=> ComponentMoved')
    BY <2>1, <2>2 DEF TreesBack, TreesMoved, HandoffBack, HandoffMoved, ComponentBack,
       ComponentMoved
  <2>5. /\ HandoffMoved /\ C' = C /\ run'.at = run.at /\ run'.row = "RUNNING"
        /\ run' \in {run, RuntimeWorld!Landed(run)}
    BY <1>0, <1>1, <2>1, StepAfter DEF Forward, C
  <2>6. InTwoPlaces'
    BY <1>1, <2>1, <2>2, <2>4, <2>5 DEF InTwoPlaces, Bound
  <2>7. Forward(run)'
    BY <1>1, <2>1, <2>2, <2>4, <2>5 DEF Forward, Ahead
  <2> QED BY <1>0, <1>1, <2>1, <2>2, <2>3, <2>5, <2>6, <2>7, TreesEffect
<1> QED BY <1>2, <1>3

\* A no-op finds the row of the one tree it verifies as it wants it, or writes it so.
LEMMA RootRowWritten ==
    ASSUME MachineTyped, Numbered, Untouched, TreesUnmoved, RuntimeWorld!AlreadyActive,
        disk[0] \in RuntimeWorld!Rows,
           op.n \in RuntimeWorld!Trees, op.n > 0, NEW forward \in BOOLEAN,
               reg' = RuntimeWorld!Locations(forward),
           UNCHANGED <<op, build, disk, comp, known, handoff, service, receipt, snap, work,
               found>>
    PROVE  /\ MachineTyped' /\ Numbered' /\ Untouched' /\ TreesUnmoved'
           /\ RuntimeWorld!Rows' = RuntimeWorld!Rows
           /\ RuntimeWorld!Active' = RuntimeWorld!Active
<1> HIDE DEF RuntimeWorld!AlreadyActive
<1>1. /\ disk[0] \in RuntimeWorld!Trees /\ disk[0] # None /\ disk[0] # op.n
      /\ 0 \in RuntimeWorld!Trees
      /\ TreesUpdates \in Nat /\ None \notin RuntimeWorld!Trees
      /\ RuntimeWorld!AtRoot \in TreeRow /\ None # RuntimeWorld!AtRoot
      /\ RuntimeWorld!AtRoot.loc = 0
  BY RootTree
<1>2. snap.activeTree = disk[0] /\ snap.targetTree = disk[0]
  BY DEF TreesUnmoved
<1>3. reg' = [t \in RuntimeWorld!Trees |-> IF t = disk[0] THEN RuntimeWorld!AtRoot ELSE reg[t]]
  BY <1>2 DEF RuntimeWorld!Locations
<1>4. /\ reg' \in [RuntimeWorld!Trees -> TreeRow \cup {None}]
      /\ reg'[disk[0]] = RuntimeWorld!AtRoot
      /\ \A t \in RuntimeWorld!Trees : t # disk[0] => reg'[t] = reg[t]
  BY <1>1, <1>3 DEF MachineTyped
<1>5. RuntimeWorld!Rows' = RuntimeWorld!Rows
  BY <1>1, <1>4 DEF RuntimeWorld!Rows
<1>6. RuntimeWorld!Active' = RuntimeWorld!Active /\ RuntimeWorld!Now' = RuntimeWorld!Now
  BY DEF RuntimeWorld!Active, RuntimeWorld!Now
<1>7. MachineTyped'
  BY <1>4 DEF MachineTyped
<1>8. Numbered'
  BY <1>5 DEF Numbered
<1>9. TreesUnmoved'
  BY <1>6 DEF TreesUnmoved
<1>10. Home'
  <2>1. \A t \in RuntimeWorld!Rows :
          disk[reg'[t].loc] = t /\ (reg'[t].role = "ACTIVE_OBSERVED" => reg'[t].loc = 0)
    BY <1>1, <1>4 DEF Untouched, Home, RuntimeWorld!Rows
  <2>2. \A t \in RuntimeWorld!Rows :
          (t = disk[0] => reg'[t].loc = 0) /\ (build[t] = RuntimeWorld!Active => t = disk[0])
    BY <1>1, <1>4 DEF Untouched, Home
  <2>3. comp.rollback # None =>
          /\ comp.rollbackTree \in RuntimeWorld!Rows /\ reg'[comp.rollbackTree].loc # 0
          /\ build[comp.rollbackTree] = comp.rollback
    <3>1. comp.rollbackTree = disk[0] => comp.rollback = None
      BY DEF Untouched, Home
    <3> QED BY <1>4, <3>1 DEF Untouched, Home, RuntimeWorld!Rows
  <2> QED BY <1>1, <1>5, <1>6, <2>1, <2>2, <2>3 DEF Untouched, Home, Bound
<1>11. Candidate'
  BY <1>5, <1>6 DEF Untouched, Candidate
<1>12. Untouched'
  BY <1>6, <1>10, <1>11 DEF Untouched
<1> QED BY <1>5, <1>6, <1>7, <1>8, <1>9, <1>12

\* What a no-op does when the boundary is captured.
LEMMA NoOpKept ==
    ASSUME TreesInv, op.n > 0, run.end = "none", RuntimeWorld!AlreadyActive,
        UNCHANGED <<op, work>>,
           NEW q, q = run', RunInv(q, RuntimeWorld!Wf), q.at = run.at, q.row = run.row,
               q.end = "none",
           q.pc = "landed" => q.at \notin {C, C + 4},
           MachineTyped', Numbered', Untouched', TreesUnmoved',
               comp'.promoted = RuntimeWorld!Active',
           disk'[0] \in RuntimeWorld!Rows', Proving => Proving'
    PROVE  TreesInv'
<1> HIDE DEF C, RuntimeWorld!Wf, Proving, TreesUnmoved
<1>1. RuntimeWorld!AlreadyActive' /\ C' = C /\ RuntimeWorld!Wf' = RuntimeWorld!Wf
  BY DEF RuntimeWorld!AlreadyActive, C, RuntimeWorld!Wf
<1> HIDE DEF RuntimeWorld!AlreadyActive
<1>2. RuntimePlaced(run)
  BY TreesPlace
<1>3. Passed(run, C + 4)' => Passed(run, C + 4)
  BY <1>1 DEF Passed
<1>4. C \in Nat /\ run.at \in Nat
  BY TreesPlace
<1>5. Passed(run, C + 4) => Passed(run, C)
  BY <1>4 DEF Passed
<1>6. NothingToDo(run)'
  BY <1>1, <1>2, <1>3, <1>5 DEF NothingToDo, RuntimePlaced
<1>7. Registered(run)'
  BY <1>1 DEF Registered
<1>8. RuntimePlaced(run)'
  BY <1>1, <1>6, <1>7 DEF RuntimePlaced
<1>9. op'.n > 0 /\ op'.n # 0 /\ run'.end \in Endings
  BY DEF Endings, MachineTyped, TreesInv, RuntimeWorld!Trees
<1> QED BY <1>1, <1>8, <1>9 DEF TreesInv

LEMMA NoOpFinal ==
    ASSUME TreesInv, RuntimeWorld!Finalize, RuntimeWorld!AlreadyActive
    PROVE  TreesInv'
<1> HIDE DEF RuntimeWorld!Wf, C, RuntimeWorld!At, RuntimeWorld!Refused,
   RuntimeWorld!Arrangement, RuntimeWorld!AlreadyActive, Proving
<1>0. run.pc = "effect" /\ RuntimeWorld!At = "finalize"
  BY DEF RuntimeWorld!Finalize, RuntimeWorld!Executing
<1>1. /\ op.n > 0 /\ op.n \in RuntimeWorld!Trees /\ run.end = "none"
      /\ run.row = "RUNNING" /\ run.at = C + 6
      /\ RuntimePlaced(run) /\ MachineTyped /\ Numbered /\ C \in {4, 7} /\ run.at \in Nat
  BY <1>0, StepExecutes, TreeAtWork DEF MachineTyped
<1>2. CASE ~ (RuntimeWorld!Arrangement = "COMPLETE" /\ work # "activeProbed")
  <2>1. RuntimeWorld!Refused /\ UNCHANGED Machine /\ work' = work
    BY <1>2 DEF RuntimeWorld!Finalize, Machine
  <2> QED BY <1>0, <2>1, RuntimeRefused
<1>3. CASE RuntimeWorld!Arrangement = "COMPLETE" /\ work # "activeProbed"
  <2>1. /\ reg' = RuntimeWorld!Locations(TRUE) /\ run' = RuntimeWorld!Landed(run)
        /\ UNCHANGED <<op, build, disk, comp, known, handoff, service, receipt, snap, work,
            found>>
    BY <1>3 DEF RuntimeWorld!Finalize
  <2>2. /\ Untouched /\ TreesUnmoved /\ comp.promoted = RuntimeWorld!Active
        /\ disk[0] \in RuntimeWorld!Rows
    BY <1>1 DEF RuntimePlaced, NothingToDo, Passed
  <2>3. /\ MachineTyped' /\ Numbered' /\ Untouched' /\ TreesUnmoved'
        /\ RuntimeWorld!Rows' = RuntimeWorld!Rows
        /\ RuntimeWorld!Active' = RuntimeWorld!Active
    BY <1>1, <2>1, <2>2, RootRowWritten
  <2>4. Proving => Proving'
    BY <2>1, <2>3 DEF Proving
  <2>5. /\ RunInv(run', RuntimeWorld!Wf) /\ run'.at = run.at /\ run'.row = run.row
        /\ run'.end = "none"
    BY <1>0, <1>1, <2>1, StepAfter
  <2>6. run'.at \notin {C, C + 4}
    BY <1>1, <2>5
  <2> QED BY <1>1, <2>1, <2>2, <2>3, <2>4, <2>5, <2>6, NoOpKept
<1> QED BY <1>2, <1>3

LEMMA FinalEffect ==
    ASSUME TreesInv, RuntimeWorld!Finalize
    PROVE  TreesInv'
  BY PairFinal, NoOpFinal

LEMMA RuntimeActivationSteps ==
    ASSUME TreesInv, RuntimeWorld!Activation
    PROVE  TreesInv'
  BY BoundaryCaptured, ExchangeEffect, PublishEffect, RestartEffect, VerificationEffect,
     LocationsEffect, PromotionEffect, FinalEffect DEF RuntimeWorld!Activation

-----------------------------------------------------------------------------
(* restore_prior_runtime                                                   *)

LEMMA StepRestores ==
    ASSUME TreesInv, run.pc \in {"undoing", "undone"}
    PROVE  /\ op.n > 0 /\ op.n \in RuntimeWorld!Trees /\ op.n \in Nat
           /\ run.end = "none" /\ run.way # "forward"
           /\ run.todo # {} /\ RunInv(run, RuntimeWorld!Wf)
           /\ Run!ToUndo(run, RuntimeWorld!Wf) # {} /\ Passed(run, C)
           /\ MachineTyped /\ Numbered /\ C \in {4, 7}
           /\ ~ RuntimeWorld!AlreadyActive => Boundary /\ Evidence /\ InTwoPlaces
           /\ RuntimeWorld!AlreadyActive =>
               /\ Untouched /\ TreesUnmoved /\ comp.promoted = RuntimeWorld!Active
                                            /\ disk[0] \in RuntimeWorld!Rows
<1> HIDE DEF C, RuntimeWorld!Wf, RuntimeWorld!AlreadyActive
<1>1. op.n > 0 /\ op.n \in RuntimeWorld!Trees /\ op.n \in Nat /\ Numbered
  BY DEF TreesInv, MachineTyped, RuntimeWorld!Trees
<1>2. /\ op.kind \in {"update", "rollback"} /\ C \in {4, 7}
      /\ RunInv(run, RuntimeWorld!Wf) /\ MachineTyped
      /\ run.end # "none" => run.pc = "down"
  BY <1>1, TreesPlace
<1>3. run.end = "none" /\ RuntimePlaced(run)
  BY <1>1, <1>2, TreesPlace
<1>4. run.way # "forward" /\ run.todo # {} /\ run.todo \subseteq Run!ToUndo(run, RuntimeWorld!Wf)
  BY <1>2 DEF RunInv, RunPlaced
<1>5. Run!ToUndo(run, RuntimeWorld!Wf) # {}
  BY <1>4
<1>6. Passed(run, C)
  BY <1>2, <1>5, TreesUndo
<1>7. ~ RuntimeWorld!AlreadyActive => Boundary /\ Evidence /\ InTwoPlaces
  BY <1>3, <1>6 DEF RuntimePlaced, Activated
<1>8. RuntimeWorld!AlreadyActive =>
        /\ Untouched /\ TreesUnmoved /\ comp.promoted = RuntimeWorld!Active
            /\ disk[0] \in RuntimeWorld!Rows
  BY <1>3, <1>6 DEF RuntimePlaced, NothingToDo
<1> QED BY <1>1, <1>2, <1>3, <1>4, <1>5, <1>6, <1>7, <1>8

LEMMA RestorationEffect ==
    ASSUME TreesInv, run.pc \in {"undoing", "undone"}, NEW q, q = run',
           q \in {run, [run EXCEPT !.pc = "undone"]}, UNCHANGED op,
           MachineTyped', Numbered', Boundary', Evidence', InTwoPlaces'
    PROVE  TreesInv'
<1> HIDE DEF C, RuntimeWorld!Wf, RuntimeWorld!AlreadyActive
<1>1. /\ op.n > 0 /\ op.n \in Nat /\ run.end = "none" /\ run.way # "forward" /\ run.todo # {}
      /\ RunInv(run, RuntimeWorld!Wf) /\ Run!ToUndo(run, RuntimeWorld!Wf) # {} /\ Passed(run, C)
  BY StepRestores
<1>2. DOMAIN run = {"at", "row", "way", "begun", "undone", "pc", "todo", "bad", "end"}
  BY <1>1 DEF RunInv, RunShaped
<1>3. /\ q.at = run.at /\ q.row = run.row /\ q.way = run.way /\ q.undone = run.undone
      /\ q.end = "none"
      /\ q.pc \in {"undoing", "undone"}
  BY <1>1, <1>2
<1>4. RunInv(q, RuntimeWorld!Wf)
  <2>1. q = [run EXCEPT !.pc = "undone"] => RunInv(q, RuntimeWorld!Wf)
    BY <1>1, RunInUndo
  <2> QED BY <1>1, <2>1
<1>5. Run!ToUndo(q, RuntimeWorld!Wf) # {}
  BY <1>1, <1>3, SameToUndo
<1>6. RuntimeWorld!Wf' = RuntimeWorld!Wf /\ C' = C /\ op' = op
  BY DEF RuntimeWorld!Wf, C
<1>7. ~ Undid(run)'
  BY <1>3, <1>5, <1>6 DEF Undid
<1>8. Activated(run)'
  BY <1>1, <1>3, <1>7 DEF Activated
<1>9. RuntimePlaced(run)'
  <2>1. ~ RuntimeWorld!AlreadyActive'
    BY DEF Boundary
  <2> QED BY <1>1, <1>3, <1>6, <1>8, <2>1 DEF RuntimePlaced, Passed
<1>10. op.n # 0 /\ run'.pc # "landed"
  BY <1>1, <1>3
<1> QED BY <1>1, <1>3, <1>4, <1>6, <1>9, <1>10 DEF TreesInv, Endings

\* A step that gives back what a no-op never took.
LEMMA NoOpRestores ==
    ASSUME TreesInv, run.pc \in {"undoing", "undone"}, RuntimeWorld!AlreadyActive, NEW q,
        q = run',
           q \in {run, [run EXCEPT !.pc = "undone"]}, UNCHANGED <<op, work>>,
           MachineTyped', Numbered', Untouched', TreesUnmoved',
               comp'.promoted = RuntimeWorld!Active',
           disk'[0] \in RuntimeWorld!Rows', Proving => Proving'
    PROVE  TreesInv'
<1> HIDE DEF C, RuntimeWorld!Wf, RuntimeWorld!AlreadyActive, Proving, TreesUnmoved
<1>1. op.n > 0 /\ run.end = "none" /\ run.todo # {} /\ RunInv(run, RuntimeWorld!Wf)
  BY StepRestores
<1>2. DOMAIN run = {"at", "row", "way", "begun", "undone", "pc", "todo", "bad", "end"}
  BY <1>1 DEF RunInv, RunShaped
<1>3. q.at = run.at /\ q.row = run.row /\ q.end = "none" /\ q.pc \in {"undoing", "undone"}
  BY <1>1, <1>2
<1>4. RunInv(q, RuntimeWorld!Wf)
  <2>1. q = [run EXCEPT !.pc = "undone"] => RunInv(q, RuntimeWorld!Wf)
    BY <1>1, RunInUndo
  <2> QED BY <1>1, <2>1
<1> QED BY <1>1, <1>3, <1>4, NoOpKept

\* What the launcher does depends on the handoff and the tree it finds.
LEMMA Launched ==
    ASSUME MachineTyped, NEW h \in RuntimeWorld!Handoff, RuntimeWorld!Launch(h)
    PROVE  /\ service' \in [build : Maybe, new : BOOLEAN]
           /\ receipt' \in [build : Maybe, op : RuntimeWorld!Trees]
           /\ service'.build \in {None, RuntimeWorld!Active} /\ receipt'.op \in {receipt.op, h.op}
           /\ receipt' = receipt \/ (/\ receipt'.build = h.component /\ receipt'.op = h.op
                                     /\ h.component = RuntimeWorld!Active /\ h.component # None)
           /\ \/ h.component = None \/ service'.build = None
              \/ service'.build = h.component /\ receipt'.build = h.component
                  /\ receipt'.op = h.op
<1>1. RuntimeWorld!Active \in Maybe /\ h.op \in RuntimeWorld!Trees
  <2>1. 0 \in RuntimeWorld!Trees
    BY RuntimeNone DEF RuntimeWorld!Trees
  <2> QED BY <2>1 DEF RuntimeWorld!Active, Maybe, MachineTyped, RuntimeWorld!Handoff,
        RuntimeWorld!Trees
<1>2. CASE h.component = None
  <2>1. service' = [build |-> RuntimeWorld!Active, new |-> TRUE] /\ receipt' = receipt
    BY <1>2 DEF RuntimeWorld!Launch
  <2> QED BY <1>1, <1>2, <2>1 DEF MachineTyped
<1>3. CASE h.component # None /\ RuntimeWorld!Active = h.component
  <2>1. /\ service' = [build |-> RuntimeWorld!Active, new |-> TRUE]
        /\ receipt' = [build |-> h.component, op |-> h.op]
    BY <1>3 DEF RuntimeWorld!Launch
  <2> QED BY <1>1, <1>3, <2>1
<1>4. CASE h.component # None /\ RuntimeWorld!Active # h.component
  <2>1. service' = [service EXCEPT !.build = None] /\ receipt' = receipt
    BY <1>4 DEF RuntimeWorld!Launch
  <2>2. service'.build = None /\ service' \in [build : Maybe, new : BOOLEAN]
    BY <2>1 DEF MachineTyped, Maybe
  <2> QED BY <1>1, <2>1, <2>2 DEF MachineTyped
<1> QED BY <1>2, <1>3, <1>4

LEMMA ExchangeReversed ==
    ASSUME TreesInv, RuntimeWorld!ReverseExchange
    PROVE  TreesInv'
<1> HIDE DEF C, RuntimeWorld!Wf, RuntimeWorld!AlreadyActive, RuntimeWorld!Arrangement
<1>1. /\ run.pc = "undoing" /\ RuntimeWorld!Arrangement = "COMPLETE"
      /\ RuntimeWorld!Swap /\ ~ RuntimeWorld!OneTree
      /\ UNCHANGED <<op, run, build, reg, comp, known, handoff, service, receipt, snap, work,
          found>>
  BY DEF RuntimeWorld!ReverseExchange, RuntimeWorld!Undoing
<1>2. Boundary /\ Evidence /\ InTwoPlaces /\ MachineTyped /\ Numbered
  BY <1>1, StepRestores DEF TreesUnmoved, RuntimeWorld!OneTree
<1>3. TreesMoved
  BY <1>1, <1>2, PairSeen DEF InTwoPlaces
<1>4. /\ disk' \in [RuntimeWorld!Trees -> Maybe] /\ Boundary' /\ Evidence'
      /\ NewBuild' = NewBuild /\ Numbered'
      /\ TreesBack'
  BY <1>1, <1>2, <1>3, Swapped
<1>5. MachineTyped'
  BY <1>1, <1>2, <1>4 DEF MachineTyped
<1>6. /\ (RowsBack <=> RowsBack') /\ (RowsMoved <=> RowsMoved')
      /\ (HandoffBack <=> HandoffBack') /\ (HandoffMoved <=> HandoffMoved')
      /\ (ComponentBack <=> ComponentBack') /\ (ComponentMoved <=> ComponentMoved')
  BY <1>1, <1>4 DEF RowsBack, RowsMoved, HandoffBack, HandoffMoved, ComponentBack, ComponentMoved,
                    RuntimeWorld!AtRoot, RuntimeWorld!Aside
<1>7. InTwoPlaces'
  BY <1>1, <1>2, <1>4, <1>6 DEF InTwoPlaces, Bound
<1> QED BY <1>1, <1>4, <1>5, <1>7, RestorationEffect

LEMMA PairRestored ==
    ASSUME TreesInv, RuntimeWorld!RestoreLocations, ~ RuntimeWorld!AlreadyActive
    PROVE  TreesInv'
<1> HIDE DEF C, RuntimeWorld!Wf, RuntimeWorld!AlreadyActive, RuntimeWorld!Arrangement
<1>1. /\ run.pc = "undoing" /\ reg' = RuntimeWorld!Locations(FALSE)
      /\ UNCHANGED <<op, run, build, disk, comp, known, handoff, service, receipt, snap, work,
          found>>
  BY DEF RuntimeWorld!RestoreLocations, RuntimeWorld!Undoing
<1>2. Boundary /\ Evidence /\ InTwoPlaces /\ MachineTyped /\ Numbered
  BY <1>1, StepRestores
<1>3. /\ reg' \in [RuntimeWorld!Trees -> TreeRow \cup {None}] /\ Boundary' /\ Evidence'
      /\ NewBuild' = NewBuild
      /\ Numbered' /\ RowsBack' /\ ~ RowsMoved'
  BY <1>1, <1>2, RowsAreMoved
<1>4. MachineTyped'
  BY <1>1, <1>2, <1>3 DEF MachineTyped
<1>5. /\ (TreesBack <=> TreesBack') /\ (TreesMoved <=> TreesMoved')
      /\ (HandoffBack <=> HandoffBack') /\ (HandoffMoved <=> HandoffMoved')
      /\ (ComponentBack <=> ComponentBack') /\ (ComponentMoved <=> ComponentMoved')
  BY <1>1, <1>3 DEF TreesBack, TreesMoved, HandoffBack, HandoffMoved, ComponentBack,
     ComponentMoved
<1>6. InTwoPlaces'
  BY <1>1, <1>2, <1>3, <1>5 DEF InTwoPlaces, Bound
<1> QED BY <1>1, <1>3, <1>4, <1>6, RestorationEffect

LEMMA LocationsRestored ==
    ASSUME TreesInv, RuntimeWorld!RestoreLocations
    PROVE  TreesInv'
<1> HIDE DEF C, RuntimeWorld!Wf, RuntimeWorld!AlreadyActive, RuntimeWorld!Arrangement, Proving
<1>1. /\ run.pc = "undoing" /\ reg' = RuntimeWorld!Locations(FALSE)
      /\ UNCHANGED <<op, run, build, disk, comp, known, handoff, service, receipt, snap, work,
          found>>
  BY DEF RuntimeWorld!RestoreLocations, RuntimeWorld!Undoing
<1>2. CASE RuntimeWorld!AlreadyActive
  <2>1. /\ Untouched /\ TreesUnmoved /\ comp.promoted = RuntimeWorld!Active
        /\ disk[0] \in RuntimeWorld!Rows
        /\ MachineTyped /\ Numbered /\ op.n \in RuntimeWorld!Trees /\ op.n > 0
    BY <1>1, <1>2, StepRestores
  <2>2. /\ MachineTyped' /\ Numbered' /\ Untouched' /\ TreesUnmoved'
        /\ RuntimeWorld!Rows' = RuntimeWorld!Rows
        /\ RuntimeWorld!Active' = RuntimeWorld!Active
    BY <1>1, <1>2, <2>1, RootRowWritten
  <2>3. Proving => Proving'
    BY <1>1, <2>2 DEF Proving
  <2> QED BY <1>1, <1>2, <2>1, <2>2, <2>3, NoOpRestores
<1>3. CASE ~ RuntimeWorld!AlreadyActive
  BY <1>3, PairRestored
<1> QED BY <1>2, <1>3

\* The rows as a restoration writes them.
LEMMA RowsBackWritten ==
    ASSUME Boundary, reg = RuntimeWorld!Locations(FALSE)
    PROVE  RowsBack /\ ~ RowsMoved
<1>1. /\ snap.activeTree \in RuntimeWorld!Trees
      /\ snap.targetTree \in RuntimeWorld!Trees /\ snap.activeTree # snap.targetTree
      /\ snap.targetLoc # 0
  BY DEF Boundary, Snapshot
<1>2. reg[snap.activeTree] = RuntimeWorld!AtRoot /\ reg[snap.targetTree] = RuntimeWorld!Aside
  BY <1>1 DEF RuntimeWorld!Locations
<1>3. /\ RuntimeWorld!AtRoot.loc = 0 /\ RuntimeWorld!Aside.loc = snap.targetLoc
      /\ RuntimeWorld!Aside.role = "RETAINED"
  BY DEF RuntimeWorld!AtRoot, RuntimeWorld!Aside
<1> HIDE DEF RuntimeWorld!Locations
<1>4. RowsBack
  BY <1>2, <1>3 DEF RowsBack
<1>5. ~ RowsMoved
  BY <1>1, <1>2, <1>3 DEF RowsMoved
<1> QED BY <1>4, <1>5

LEMMA HandoffRestored ==
    ASSUME TreesInv, RuntimeWorld!RestoreHandoff
    PROVE  TreesInv'
<1> HIDE DEF C, RuntimeWorld!Wf, RuntimeWorld!AlreadyActive, RuntimeWorld!Arrangement
<1>1. /\ run.pc = "undoing" /\ reg = RuntimeWorld!Locations(FALSE) /\ handoff' = snap.handoff
      /\ handoff # snap.handoff
      /\ UNCHANGED <<op, run, build, disk, reg, comp, known, service, receipt, snap, work, found>>
  BY DEF RuntimeWorld!RestoreHandoff, RuntimeWorld!Undoing
<1>2. Boundary /\ Evidence /\ InTwoPlaces /\ MachineTyped /\ Numbered /\ op.n \in Nat
  BY <1>1, StepRestores DEF TreesUnmoved
<1>3. RowsBack /\ ~ RowsMoved
  BY <1>1, <1>2, RowsBackWritten
<1>4. Boundary' /\ Evidence' /\ RuntimeWorld!Rows' = RuntimeWorld!Rows /\ NewBuild' = NewBuild
  BY <1>1, <1>2, BoundaryKept
<1>5. handoff' \in RuntimeWorld!Handoff /\ handoff'.op <= op.n
  BY <1>1, <1>2 DEF Boundary, Snapshot, Evidence, RuntimeWorld!Handoff
<1>6. MachineTyped' /\ Numbered'
  BY <1>1, <1>2, <1>4, <1>5 DEF MachineTyped, Numbered
<1>7. /\ (TreesBack <=> TreesBack') /\ (TreesMoved <=> TreesMoved')
      /\ (RowsBack <=> RowsBack') /\ (RowsMoved <=> RowsMoved') /\ HandoffBack'
      /\ (ComponentBack <=> ComponentBack') /\ (ComponentMoved <=> ComponentMoved')
  BY <1>1, <1>4 DEF TreesBack, TreesMoved, RowsBack, RowsMoved, HandoffBack, ComponentBack,
                    ComponentMoved, RuntimeWorld!AtRoot, RuntimeWorld!Aside
<1>8. InTwoPlaces'
  BY <1>1, <1>2, <1>3, <1>4, <1>7 DEF InTwoPlaces, Bound
<1> QED BY <1>1, <1>4, <1>6, <1>8, RestorationEffect

LEMMA ComponentRestored ==
    ASSUME TreesInv, RuntimeWorld!RestoreComponent
    PROVE  TreesInv'
<1> HIDE DEF C, RuntimeWorld!Wf, RuntimeWorld!AlreadyActive, RuntimeWorld!Arrangement
<1>1. /\ run.pc = "undoing" /\ known' = snap.known
      /\ comp.promoted # snap.promoted
      /\ comp' = [promoted |-> snap.promoted, rollback |-> snap.rollback,
                  promotedTree |-> IF snap.promoted = None THEN None ELSE snap.activeTree,
                  rollbackTree |-> snap.rollbackTree, generation |-> comp.generation + 1,
                  op |-> comp.op]
      /\ UNCHANGED <<op, run, build, disk, reg, handoff, service, receipt, snap, work, found>>
  BY DEF RuntimeWorld!RestoreComponent, RuntimeWorld!Undoing
<1>2. Boundary /\ Evidence /\ InTwoPlaces /\ MachineTyped /\ Numbered
  BY <1>1, StepRestores DEF TreesUnmoved
<1>3. Boundary' /\ Evidence' /\ RuntimeWorld!Rows' = RuntimeWorld!Rows /\ NewBuild' = NewBuild
  BY <1>1, <1>2, BoundaryKept
<1>4. comp' \in RuntimeWorld!Component /\ known' \in Maybe
  <2>1. /\ snap.promoted \in Maybe /\ snap.rollback \in Maybe /\ snap.rollbackTree \in Maybe
        /\ snap.activeTree \in RuntimeWorld!Trees /\ comp.generation + 1 \in Nat
        /\ comp.op \in 0..TreesUpdates
        /\ snap.known \in Maybe
    BY <1>2 DEF Boundary, Snapshot, MachineTyped, RuntimeWorld!Component
  <2> QED BY <1>1, <2>1 DEF RuntimeWorld!Component, Maybe
<1>5. MachineTyped' /\ Numbered'
  BY <1>1, <1>2, <1>3, <1>4 DEF MachineTyped, Numbered
<1>6. ComponentBack'
  BY <1>1 DEF ComponentBack
<1>7. /\ (TreesBack <=> TreesBack') /\ (TreesMoved <=> TreesMoved')
      /\ (RowsBack <=> RowsBack') /\ (RowsMoved <=> RowsMoved')
      /\ (HandoffBack <=> HandoffBack') /\ (HandoffMoved <=> HandoffMoved')
  BY <1>1, <1>3 DEF TreesBack, TreesMoved, RowsBack, RowsMoved, HandoffBack, HandoffMoved,
     RuntimeWorld!AtRoot, RuntimeWorld!Aside
<1>8. InTwoPlaces'
  BY <1>1, <1>2, <1>3, <1>6, <1>7 DEF InTwoPlaces, Bound
<1> QED BY <1>1, <1>3, <1>5, <1>8, RestorationEffect

LEMMA PairServed ==
    ASSUME TreesInv, RuntimeWorld!RestoreService, ~ RuntimeWorld!AlreadyActive
    PROVE  TreesInv'
<1> HIDE DEF C, RuntimeWorld!Wf, RuntimeWorld!AlreadyActive, RuntimeWorld!Arrangement,
   RuntimeWorld!Launch
<1>1. /\ run.pc = "undoing" /\ run' = [run EXCEPT !.pc = "undone"]
      /\ RuntimeWorld!Launch(snap.handoff)
          \/ (service' = [service EXCEPT !.build = None] /\ UNCHANGED receipt)
      /\ UNCHANGED <<op, build, disk, reg, comp, known, handoff, snap, work, found>>
  BY DEF RuntimeWorld!RestoreService, RuntimeWorld!Undoing
<1>2. Boundary /\ Evidence /\ InTwoPlaces /\ MachineTyped /\ Numbered /\ op.n \in Nat
  BY <1>1, StepRestores
<1>3. Boundary' /\ Evidence' /\ RuntimeWorld!Rows' = RuntimeWorld!Rows /\ NewBuild' = NewBuild
  BY <1>1, <1>2, BoundaryKept
<1>4. snap.handoff \in RuntimeWorld!Handoff /\ snap.handoff.op <= op.n
  BY <1>2 DEF Boundary, Snapshot, Evidence, RuntimeWorld!Handoff
<1>5. RuntimeWorld!Active \in {snap.active, NewBuild}
  BY <1>2, PairSeen DEF InTwoPlaces
<1>6. /\ service' \in [build : Maybe, new : BOOLEAN]
      /\ receipt' \in [build : Maybe, op : RuntimeWorld!Trees]
      /\ service'.build \in {None, snap.active, NewBuild} /\ receipt'.op <= op.n
      /\ Bound(snap.handoff)'
  <2>1. CASE RuntimeWorld!Launch(snap.handoff)
    BY <1>1, <1>2, <1>4, <1>5, <2>1, Launched DEF Numbered, Bound
  <2>2. CASE service' = [service EXCEPT !.build = None] /\ UNCHANGED receipt
    <3>1. service' \in [build : Maybe, new : BOOLEAN] /\ service'.build = None
      BY <1>2, <2>2 DEF MachineTyped, Maybe
    <3> QED BY <1>2, <2>2, <3>1 DEF MachineTyped, Numbered, Bound
  <2> QED BY <1>1, <2>1, <2>2
<1>7. MachineTyped' /\ Numbered'
  BY <1>1, <1>2, <1>3, <1>6 DEF MachineTyped, Numbered
<1>8. /\ (TreesBack <=> TreesBack') /\ (TreesMoved <=> TreesMoved')
      /\ (RowsBack <=> RowsBack') /\ (RowsMoved <=> RowsMoved')
      /\ (HandoffBack <=> HandoffBack') /\ (HandoffMoved <=> HandoffMoved')
      /\ (ComponentBack <=> ComponentBack') /\ (ComponentMoved <=> ComponentMoved')
  BY <1>1, <1>3 DEF TreesBack, TreesMoved, RowsBack, RowsMoved, HandoffBack, HandoffMoved,
                    ComponentBack, ComponentMoved, RuntimeWorld!AtRoot, RuntimeWorld!Aside
<1>9. InTwoPlaces'
  BY <1>1, <1>2, <1>3, <1>6, <1>8 DEF InTwoPlaces
<1> QED BY <1>1, <1>3, <1>7, <1>9, RestorationEffect

LEMMA ServiceRestored ==
    ASSUME TreesInv, RuntimeWorld!RestoreService
    PROVE  TreesInv'
<1> HIDE DEF C, RuntimeWorld!Wf, RuntimeWorld!AlreadyActive, RuntimeWorld!Arrangement,
   RuntimeWorld!Launch, Proving
<1>1. /\ run.pc = "undoing" /\ run' = [run EXCEPT !.pc = "undone"]
      /\ RuntimeWorld!Launch(snap.handoff)
          \/ (service' = [service EXCEPT !.build = None] /\ UNCHANGED receipt)
      /\ UNCHANGED <<op, build, disk, reg, comp, known, handoff, snap, work, found>>
  BY DEF RuntimeWorld!RestoreService, RuntimeWorld!Undoing
<1>2. CASE RuntimeWorld!AlreadyActive
  <2>1. /\ Untouched /\ TreesUnmoved /\ comp.promoted = RuntimeWorld!Active
        /\ disk[0] \in RuntimeWorld!Rows
        /\ MachineTyped /\ Numbered /\ op.n \in Nat
    BY <1>1, <1>2, StepRestores
  <2>2. /\ snap.handoff = handoff /\ handoff \in RuntimeWorld!Handoff
        /\ handoff.op < op.n /\ receipt.op < op.n
    BY <2>1 DEF TreesUnmoved, MachineTyped, Untouched
  <2>3. /\ service' \in [build : Maybe, new : BOOLEAN]
        /\ receipt' \in [build : Maybe, op : RuntimeWorld!Trees]
        /\ service'.build \in {None, RuntimeWorld!Active}
        /\ receipt'.op \in {receipt.op, handoff.op}
        /\ Bound(handoff)'
    <3>1. CASE RuntimeWorld!Launch(snap.handoff)
      BY <1>1, <2>1, <2>2, <3>1, Launched DEF Bound
    <3>2. CASE service' = [service EXCEPT !.build = None] /\ UNCHANGED receipt
      <4>1. service' \in [build : Maybe, new : BOOLEAN] /\ service'.build = None
        BY <2>1, <3>2 DEF MachineTyped, Maybe
      <4> QED BY <2>1, <3>2, <4>1 DEF MachineTyped, Bound
    <3> QED BY <1>1, <3>1, <3>2
  <2>4. /\ RuntimeWorld!Rows' = RuntimeWorld!Rows
        /\ RuntimeWorld!Active' = RuntimeWorld!Active
        /\ RuntimeWorld!Now' = RuntimeWorld!Now
    BY <1>1 DEF RuntimeWorld!Rows, RuntimeWorld!Active, RuntimeWorld!Now
  <2>5. receipt'.op < op.n /\ receipt'.op <= op.n
    <3>1. receipt'.op \in Nat
      BY <2>3 DEF RuntimeWorld!Trees
    <3> QED BY <2>1, <2>2, <2>3, <3>1
  <2>6. MachineTyped' /\ Numbered'
    BY <1>1, <2>1, <2>3, <2>4, <2>5 DEF MachineTyped, Numbered
  <2>7. Untouched'
    <3>1. Home'
      BY <1>1, <2>1, <2>3, <2>4 DEF Untouched, Home
    <3>2. Candidate'
      BY <1>1, <2>1, <2>4 DEF Untouched, Candidate
    <3> QED BY <1>1, <2>1, <2>3, <2>4, <2>5, <3>1, <3>2 DEF Untouched
  <2>8. TreesUnmoved'
    BY <1>1, <2>1, <2>4 DEF TreesUnmoved
  <2>9. Proving => Proving'
    BY <1>1, <2>3, <2>4 DEF Proving
  <2> QED BY <1>1, <1>2, <2>1, <2>4, <2>6, <2>7, <2>8, <2>9, NoOpRestores
<1>3. CASE ~ RuntimeWorld!AlreadyActive
  BY <1>3, PairServed
<1> QED BY <1>2, <1>3

LEMMA RestorationObserved ==
    ASSUME TreesInv, RuntimeWorld!Restored
    PROVE  TreesInv'
<1> HIDE DEF C, RuntimeWorld!Wf, RuntimeWorld!Holds, RuntimeWorld!At, RuntimeWorld!Arrangement,
   Proving
<1>1. /\ run.pc = "undone"
      /\ \/ RuntimeWorld!RestorationProbe = "COMPLETE" /\ run' = Run!Undone(run)
         \/ run' = Run!UndoFailed(run)
  BY SameMoments DEF RuntimeWorld!Restored
<1>2. /\ op.n > 0 /\ run.end = "none" /\ RunInv(run, RuntimeWorld!Wf) /\ run.todo # {}
      /\ work \in RuntimeWorld!Work
      /\ run.way # "forward"
  BY <1>1, StepRestores DEF MachineTyped
<1>3. /\ RunInv(run', RuntimeWorld!Wf)
      /\ GoesBack(run, run')
          \/ (UndoesOne(run, run') /\ RuntimeWorld!RestorationProbe = "COMPLETE")
  BY <1>1, <1>2, RunUndone, RunUndoFailed
<1>4. run'.at = run.at /\ run'.row = run.row /\ run'.pc # "landed"
  BY <1>3 DEF GoesBack, Stays, UndoesOne
<1>5. Moves(run, run', RuntimeWorld!Wf, RuntimeWorld!Holds, {},
        RuntimeWorld!RestorationProbe = "COMPLETE")
  BY <1>3 DEF Moves
<1>6. UNCHANGED Machine /\ work' \in RuntimeWorld!Work
  BY <1>2 DEF RuntimeWorld!Restored, Machine, RuntimeWorld!stepVars
<1>7. RuntimeWorld!AlreadyActive <=> RuntimeWorld!AlreadyActive'
  BY <1>6 DEF RuntimeWorld!AlreadyActive, RuntimeWorld!Restored, Machine, RuntimeWorld!stepVars
<1> HIDE DEF Machine, RuntimeWorld!AlreadyActive
<1> QED BY <1>2, <1>3, <1>4, <1>5, <1>6, <1>7, RuntimeMoved

LEMMA RuntimeRestorationSteps ==
    ASSUME TreesInv, RuntimeWorld!Restoration
    PROVE  TreesInv'
  BY ExchangeReversed, LocationsRestored, HandoffRestored, ComponentRestored, ServiceRestored,
     RestorationObserved DEF RuntimeWorld!Restoration

-----------------------------------------------------------------------------
(* Between operations                                                      *)

\* Whatever ended without a barrier is at home.
LEMMA HomeAgain ==
    ASSUME TreesInv, run.end \notin {"none", "RECOVERY_REQUIRED"}
    PROVE  Home
<1> HIDE DEF C, RuntimeWorld!Wf, RuntimeWorld!AlreadyActive
<1>1. CASE op.n = 0
  BY <1>1 DEF TreesInv
<1>2. CASE op.n # 0
  <2>1. op.n > 0
    BY <1>2 DEF TreesInv, MachineTyped, RuntimeWorld!Trees
  <2>2. RuntimePlaced(run) /\ MachineTyped /\ run.end \in Endings
    BY <2>1 DEF TreesInv
  <2>3. /\ C \in {4, 7} /\ Len(RuntimeWorld!Wf.steps) = C + 6 /\ RunInv(run, RuntimeWorld!Wf)
    BY <2>1, TreesPlace
  <2>4. CASE ~ Passed(run, C) \/ RuntimeWorld!AlreadyActive
    BY <2>2, <2>4 DEF RuntimePlaced, Untouched
  <2>5. CASE Passed(run, C) /\ ~ RuntimeWorld!AlreadyActive
    <3>1. Boundary /\ Evidence /\ InTwoPlaces /\ Activated(run)
      BY <2>2, <2>5 DEF RuntimePlaced, Activated
    <3>2. /\ {snap.activeTree, snap.targetTree} \subseteq RuntimeWorld!Rows
          /\ RuntimeWorld!Rows \subseteq RuntimeWorld!Trees
          /\ snap.activeTree # snap.targetTree /\ snap.targetLoc # 0
          /\ build[snap.activeTree] = snap.active /\ build[snap.targetTree] = NewBuild
          /\ \A t \in RuntimeWorld!Rows : /\ build[t] = snap.active => t = snap.activeTree
                                          /\ build[t] = NewBuild => t = snap.targetTree
          /\ \A t \in RuntimeWorld!Rows \ {snap.activeTree, snap.targetTree} :
                disk[reg[t].loc] = t /\ reg[t].loc \notin {0, snap.targetLoc}
                /\ reg[t].role # "ACTIVE_OBSERVED"
      BY <3>1 DEF Boundary, NewBuild, RuntimeWorld!Rows
    <3>3. /\ snap.activeTree # None /\ snap.targetTree # None
      <4>1. None \notin RuntimeWorld!Trees
        BY RuntimeNone DEF RuntimeWorld!Trees
      <4> QED BY <3>2, <4>1
    <3>4. /\ TreesBack => RuntimeWorld!Active = snap.active
          /\ TreesMoved => RuntimeWorld!Active = NewBuild
      BY <2>2, <3>1, PairSeen DEF InTwoPlaces
    <3>5. CASE run.end = "SUCCEEDED"
      <4>1. run.way = "forward" /\ run.at = C + 7 /\ Forward(run)
        BY <2>3, <3>1, <3>5 DEF RunInv, RunPlaced, Activated
      <4>2. TreesMoved /\ HandoffMoved /\ ComponentMoved /\ RowsMoved
        BY <2>3, <4>1 DEF Forward
      <4>3. /\ disk[0] = snap.targetTree /\ disk[snap.targetLoc] = snap.activeTree
            /\ reg[snap.targetTree].loc = 0 /\ reg[snap.activeTree].loc = snap.targetLoc
            /\ reg[snap.activeTree].role # "ACTIVE_OBSERVED" /\ RuntimeWorld!Active = NewBuild
        BY <3>4, <4>2 DEF TreesMoved, RowsMoved, RuntimeWorld!AtRoot, RuntimeWorld!Aside
      <4>4. \A t \in RuntimeWorld!Rows :
               disk[reg[t].loc] = t /\ (reg[t].role = "ACTIVE_OBSERVED" => reg[t].loc = 0)
        BY <3>2, <4>3
      <4>5. \A t \in RuntimeWorld!Rows :
              (t = disk[0] => reg[t].loc = 0) /\ (build[t] = RuntimeWorld!Active => t = disk[0])
        BY <3>2, <4>3
      <4>6. /\ comp.promoted \in {None, RuntimeWorld!Active}
            /\ handoff.component \in {None, RuntimeWorld!Active}
            /\ comp.rollback # None =>
                  /\ comp.rollbackTree \in RuntimeWorld!Rows /\ reg[comp.rollbackTree].loc # 0
                  /\ build[comp.rollbackTree] = comp.rollback
        BY <3>1, <3>2, <4>2, <4>3 DEF ComponentMoved, HandoffMoved, Evidence
      <4>7. Bound(handoff) /\ (comp.promoted # None => known = comp.promoted)
        BY <4>1, <4>2 DEF Bound, Forward, HandoffMoved, ComponentMoved
      <4> QED BY <3>2, <3>3, <4>3, <4>4, <4>5, <4>6, <4>7 DEF Home
    <3>6. CASE run.end # "SUCCEEDED"
      <4>1. TreesBack /\ RowsBack /\ HandoffBack /\ ComponentBack
        BY <2>2, <3>1, <3>6 DEF Endings, Activated, Undid, AllBack
      <4>2. /\ disk[0] = snap.activeTree /\ disk[snap.targetLoc] = snap.targetTree
            /\ reg[snap.activeTree].loc = 0 /\ reg[snap.targetTree].loc = snap.targetLoc
            /\ reg[snap.targetTree].role # "ACTIVE_OBSERVED" /\ RuntimeWorld!Active = snap.active
        BY <3>4, <4>1 DEF TreesBack, RowsBack
      <4>3. \A t \in RuntimeWorld!Rows :
               disk[reg[t].loc] = t /\ (reg[t].role = "ACTIVE_OBSERVED" => reg[t].loc = 0)
        BY <3>2, <4>2
      <4>4. \A t \in RuntimeWorld!Rows :
              (t = disk[0] => reg[t].loc = 0) /\ (build[t] = RuntimeWorld!Active => t = disk[0])
        <5>1. ASSUME NEW t \in RuntimeWorld!Rows, t = disk[0] PROVE reg[t].loc = 0
          BY <4>2, <5>1
        <5>2. ASSUME NEW t \in RuntimeWorld!Rows, build[t] = RuntimeWorld!Active PROVE t = disk[0]
          <6>1. t = snap.activeTree
            BY <3>2, <4>2, <5>2
          <6> QED BY <4>2, <6>1
        <5> QED BY <5>1, <5>2
      <4>5. /\ comp.promoted \in {None, RuntimeWorld!Active}
            /\ handoff.component \in {None, RuntimeWorld!Active}
            /\ comp.rollback # None =>
                  /\ comp.rollbackTree \in RuntimeWorld!Rows /\ reg[comp.rollbackTree].loc # 0
                  /\ build[comp.rollbackTree] = comp.rollback
        BY <3>1, <3>2, <4>1, <4>2 DEF ComponentBack, HandoffBack, Evidence
      <4>6. Bound(handoff) /\ (comp.promoted # None => known = comp.promoted)
        BY <3>1, <4>1 DEF Bound, InTwoPlaces, HandoffBack, ComponentBack, Evidence
      <4> QED BY <3>2, <3>3, <4>2, <4>3, <4>4, <4>5, <4>6 DEF Home
    <3> QED BY <3>5, <3>6
  <2> QED BY <2>4, <2>5
<1> QED BY <1>1, <1>2

LEMMA QueuedRun ==
    ASSUME NEW wf, wf = RuntimeWorld!W!RuntimeUpdate \/ wf = RuntimeWorld!W!RuntimeRollback
    PROVE  RunInv(RuntimeWorld!Queued, wf)
<1>1. Len(wf.steps) \in {10, 13}
  BY DEF RuntimeWorld!W!RuntimeUpdate, RuntimeWorld!W!RuntimeRollback,
     RuntimeWorld!W!WorkflowDefinition, RuntimeWorld!W!Mutation, RuntimeWorld!W!Plain,
     RuntimeWorld!W!Critical,
         RuntimeWorld!W!StepDefinition
<1>2. RunShaped(RuntimeWorld!Queued, wf)
  BY <1>1 DEF RunShaped, RuntimeWorld!Queued
<1>3. RunPlaced(RuntimeWorld!Queued, wf)
  BY <1>1 DEF RunPlaced, RuntimeWorld!Queued
<1> QED BY <1>2, <1>3 DEF RunInv

\* The next operation finds the machine at home.
LEMMA OperationStarts ==
    ASSUME TreesInv, RuntimeWorld!Start
    PROVE  TreesInv'
<1>1. PICK kind \in {"update", "rollback"} :
          /\ kind = "rollback" => comp.rollback # None
          /\ op' = [n |-> op.n + 1, kind |-> kind, target |-> comp.rollback]
  BY DEF RuntimeWorld!Start
<1>2. /\ run' = RuntimeWorld!Queued /\ work' = "none"
      /\ found' = [now |-> RuntimeWorld!Now, serving |-> service.build]
      /\ UNCHANGED <<build, disk, reg, comp, known, handoff, service, receipt, snap>>
      /\ run.end \notin {"none", "RECOVERY_REQUIRED"} /\ op.n < TreesUpdates
  BY DEF RuntimeWorld!Start
<1>3. Home /\ MachineTyped /\ Numbered
  BY <1>2, HomeAgain DEF TreesInv
<1>4. /\ op.n \in Nat /\ op.n + 1 \in RuntimeWorld!Trees /\ TreesUpdates \in Nat
      /\ op'.n = op.n + 1 /\ op'.n > 0
      /\ op.n + 1 > op.n /\ handoff.op \in Nat /\ receipt.op \in Nat
      /\ handoff.op <= op.n /\ receipt.op <= op.n
  <2>1. /\ op.n \in RuntimeWorld!Trees /\ handoff.op \in RuntimeWorld!Trees
        /\ receipt.op \in RuntimeWorld!Trees
    BY <1>3 DEF MachineTyped, RuntimeWorld!Handoff, RuntimeWorld!Trees
  <2>2. op'.n = op.n + 1
    BY <1>1
  <2>3. handoff.op <= op.n /\ receipt.op <= op.n
    BY <1>3 DEF Numbered
  <2> QED BY <1>2, <2>1, <2>2, <2>3, RuntimeNone DEF RuntimeWorld!Trees
<1>5. op' \in [n : RuntimeWorld!Trees, kind : {"update", "rollback"}, target : Maybe]
  BY <1>1, <1>3, <1>4 DEF MachineTyped, RuntimeWorld!Component, Maybe
<1>6. /\ RuntimeWorld!Rows' = RuntimeWorld!Rows
      /\ RuntimeWorld!Active' = RuntimeWorld!Active
      /\ RuntimeWorld!Now' = RuntimeWorld!Now
  BY <1>2 DEF RuntimeWorld!Rows, RuntimeWorld!Active, RuntimeWorld!Now
<1>7. MachineTyped'
  BY <1>2, <1>3, <1>5 DEF MachineTyped, RuntimeWorld!Work
<1>8. Numbered'
  <2>1. ASSUME NEW t \in RuntimeWorld!Trees, t > op'.n PROVE t > op.n
    BY <1>4, <2>1 DEF RuntimeWorld!Trees
  <2>2. handoff.op <= op'.n /\ receipt.op <= op'.n
    BY <1>4
  <2> QED BY <1>2, <1>3, <1>6, <2>1, <2>2 DEF Numbered
<1>9. Home'
  BY <1>2, <1>3, <1>6 DEF Home, Bound
<1>10. Candidate'
  <2>1. op.n + 1 \notin RuntimeWorld!Rows /\ disk[op.n + 1] = None
          /\ \A l \in RuntimeWorld!Trees : disk[l] # op.n + 1
    BY <1>3, <1>4 DEF Numbered
  <2>2. build[op.n + 1] = op.n + 1 /\ build \in [RuntimeWorld!Trees -> RuntimeWorld!Trees]
    BY <1>3, <1>4 DEF Numbered, MachineTyped
  <2>3. disk[0] \in RuntimeWorld!Trees /\ disk[0] # op.n + 1 /\ ~ (disk[0] > op.n)
    <3>1. disk[0] \in RuntimeWorld!Trees /\ 0 \in RuntimeWorld!Trees
      <4>1. 0 \in RuntimeWorld!Trees
        BY <1>4 DEF RuntimeWorld!Trees
      <4> QED BY <1>3, <4>1 DEF Home, MachineTyped, Maybe
    <3> QED BY <1>3, <2>1, <3>1 DEF Numbered
  <2>4. RuntimeWorld!Active # op.n + 1
    <3>1. /\ RuntimeWorld!Active = build[disk[0]] /\ build[disk[0]] <= disk[0]
          /\ build[disk[0]] \in Nat
          /\ disk[0] \in Nat
      BY <1>3, <2>2, <2>3 DEF RuntimeWorld!Active, Home, Numbered, RuntimeWorld!Trees
    <3> QED BY <1>4, <2>3, <3>1
  <2> QED BY <1>2, <1>4, <1>6, <2>1, <2>2, <2>4 DEF Candidate
<1>11. handoff'.op < op'.n /\ receipt'.op < op'.n
  BY <1>2, <1>4
<1>12. Untouched'
  <2>1. op'.kind = "rollback" => op'.target = comp'.rollback /\ op'.target # None
    BY <1>1, <1>2
  <2>2. /\ RuntimeWorld!Now' = found'.now
        /\ service'.build \in {None, RuntimeWorld!Active', found'.serving}
    BY <1>2, <1>6
  <2> QED BY <1>9, <1>10, <1>11, <2>1, <2>2 DEF Untouched
<1>13. run'.at = 1 /\ run'.row = "PENDING" /\ run'.pc = "down" /\ run'.end = "none"
  BY <1>2 DEF RuntimeWorld!Queued
<1>14. C' \in {4, 7}
  BY DEF C
<1>15. RuntimePlaced(run)'
  <2>1. ~ Passed(run, C)'
    BY <1>13, <1>14 DEF Passed
  <2>2. Registered(run)'
    BY <1>13 DEF Registered
  <2>3. NothingToDo(run)'
    BY <1>2 DEF NothingToDo, RuntimeWorld!AlreadyActive
  <2> HIDE DEF NothingToDo
  <2> QED BY <1>12, <2>1, <2>2, <2>3 DEF RuntimePlaced
<1>16. RunInv(run, RuntimeWorld!Wf)'
  <2>1. RuntimeWorld!Wf' = RuntimeWorld!W!RuntimeUpdate
          \/ RuntimeWorld!Wf' = RuntimeWorld!W!RuntimeRollback
    BY DEF RuntimeWorld!Wf
  <2>2. RunInv(RuntimeWorld!Queued, RuntimeWorld!Wf')
    BY <2>1, QueuedRun
  <2> QED BY <1>2, <2>2
<1>17. op'.n # 0
  BY <1>4
<1>18. run'.pc # "landed"
  BY <1>13
<1> HIDE DEF C, RuntimeWorld!Wf
<1> QED BY <1>4, <1>7, <1>8, <1>13, <1>18, <1>15, <1>16, <1>17 DEF TreesInv, Endings

\* The server crashes and is launched again from the handoff there is.
LEMMA ServiceRelaunched ==
    ASSUME TreesInv, RuntimeWorld!ServiceFails
    PROVE  TreesInv'
<1> HIDE DEF RuntimeWorld!Wf, C, RuntimeWorld!Launch, RuntimeWorld!AlreadyActive
<1>1. /\ RuntimeWorld!Launch(handoff)
      /\ UNCHANGED <<op, run, build, disk, reg, comp, known, handoff, snap, work, found>>
  BY DEF RuntimeWorld!ServiceFails
<1>2. MachineTyped /\ Numbered /\ handoff \in RuntimeWorld!Handoff /\ op.n \in Nat
  BY DEF TreesInv, MachineTyped, RuntimeWorld!Trees
<1>3. /\ service' \in [build : Maybe, new : BOOLEAN]
      /\ receipt' \in [build : Maybe, op : RuntimeWorld!Trees]
      /\ service'.build \in {None, RuntimeWorld!Active}
      /\ receipt'.op \in {receipt.op, handoff.op}
      /\ receipt' = receipt \/ (/\ receipt'.build = handoff.component /\ receipt'.op = handoff.op
                                /\ handoff.component = RuntimeWorld!Active
                                /\ handoff.component # None)
      /\ \/ handoff.component = None \/ service'.build = None
         \/ /\ service'.build = handoff.component /\ receipt'.build = handoff.component
            /\ receipt'.op = handoff.op
  BY <1>1, <1>2, Launched
<1>4. /\ RuntimeWorld!Rows' = RuntimeWorld!Rows
      /\ RuntimeWorld!Active' = RuntimeWorld!Active
      /\ RuntimeWorld!Now' = RuntimeWorld!Now /\ NewBuild' = NewBuild
      /\ RuntimeWorld!Wf' = RuntimeWorld!Wf /\ C' = C
      /\ RuntimeWorld!Target' = RuntimeWorld!Target
      /\ (RuntimeWorld!AlreadyActive <=> RuntimeWorld!AlreadyActive')
  BY <1>1 DEF RuntimeWorld!Rows, RuntimeWorld!Active, RuntimeWorld!Now, NewBuild,
     RuntimeWorld!Wf, C, RuntimeWorld!Target, RuntimeWorld!AlreadyActive
<1>5. MachineTyped' /\ Numbered'
  BY <1>1, <1>2, <1>3, <1>4 DEF MachineTyped, Numbered
<1>6. Home => Home'
  BY <1>1, <1>3, <1>4 DEF Home, Bound
<1>7. ASSUME Untouched, Registered(run), NothingToDo(run)
      PROVE  Untouched' /\ Registered(run)' /\ NothingToDo(run)'
  <2>1. Candidate'
    BY <1>1, <1>4, <1>7 DEF Untouched, Candidate
  <2>2. Home' /\ RuntimeWorld!Now' = found'.now /\ handoff'.op < op'.n /\ receipt'.op < op'.n
        /\ service'.build \in {None, RuntimeWorld!Active', found'.serving}
    BY <1>1, <1>3, <1>4, <1>6, <1>7 DEF Untouched
  <2>3. Registered(run)'
    BY <1>1, <1>4, <1>7 DEF Registered
  <2>4. (TreesUnmoved => TreesUnmoved') /\ (Proving => Proving')
    BY <1>1, <1>3, <1>4 DEF TreesUnmoved, Proving
  <2>5. NothingToDo(run)'
    BY <1>1, <1>4, <1>7, <2>4 DEF NothingToDo, Passed
  <2>6. op'.kind = "rollback" => op'.target = comp'.rollback /\ op'.target # None
    BY <1>1, <1>7 DEF Untouched
  <2> QED BY <2>1, <2>2, <2>3, <2>5, <2>6 DEF Untouched
<1>8. ASSUME Activated(run) PROVE Activated(run)'
  <2>1. Boundary /\ Evidence /\ InTwoPlaces
    BY <1>8 DEF Activated
  <2>2. Boundary' /\ Evidence'
    BY <1>1, <1>2, <2>1, BoundaryKept
  <2>3. /\ (TreesBack <=> TreesBack') /\ (TreesMoved <=> TreesMoved')
        /\ (RowsBack <=> RowsBack') /\ (RowsMoved <=> RowsMoved')
        /\ (HandoffBack <=> HandoffBack') /\ (HandoffMoved <=> HandoffMoved')
        /\ (ComponentBack <=> ComponentBack') /\ (ComponentMoved <=> ComponentMoved')
    BY <1>1, <1>4 DEF TreesBack, TreesMoved, RowsBack, RowsMoved, HandoffBack, HandoffMoved,
                      ComponentBack, ComponentMoved, RuntimeWorld!AtRoot, RuntimeWorld!Aside
  <2>4. /\ TreesBack => RuntimeWorld!Active = snap.active
        /\ TreesMoved => RuntimeWorld!Active = NewBuild
        /\ snap.active # NewBuild /\ NewBuild \in RuntimeWorld!Trees
        /\ snap.active \in RuntimeWorld!Trees /\ None \notin RuntimeWorld!Trees
        /\ TreesBack \/ TreesMoved
    BY <1>2, <2>1, PairSeen DEF InTwoPlaces
  <2>9. Bound(snap.handoff)'
    <3>1. CASE handoff = snap.handoff
      BY <1>1, <1>3, <3>1 DEF Bound
    <3>2. CASE handoff.op = op.n /\ handoff.component # None
      <4>1. snap.handoff.op # op.n
        BY <1>2, <2>1 DEF Evidence
      <4> QED BY <1>1, <1>3, <3>2, <4>1 DEF Bound
    <3> QED BY <2>1, <2>4, <3>1, <3>2 DEF InTwoPlaces, HandoffBack, HandoffMoved
  <2>5. InTwoPlaces'
    BY <1>1, <1>3, <1>4, <2>1, <2>3, <2>4, <2>9 DEF InTwoPlaces
  <2>6. ASSUME Forward(run) PROVE Forward(run)'
    <3>1. handoff.op = op.n => HandoffMoved
      BY <2>1 DEF InTwoPlaces, HandoffBack, Evidence, Boundary, Snapshot, RuntimeWorld!Handoff
    <3>2. receipt.op = op.n =>
              receipt.build = NewBuild /\ HandoffMoved /\ service.build \in {None, NewBuild}
      BY <2>6 DEF Forward
    <3>3. HandoffMoved => /\ service'.build \in {None, NewBuild} /\ handoff.component = NewBuild
                          /\ handoff.op = op.n
      BY <1>3, <2>4, <2>6 DEF Forward, HandoffMoved
    <3>4. receipt'.op = op.n =>
              receipt'.build = NewBuild /\ HandoffMoved /\ service'.build \in {None, NewBuild}
      BY <1>3, <3>1, <3>2, <3>3
    <3>5. receipt.op = op.n => receipt'.op = op.n
      BY <1>3, <3>2, <3>3
    <3>6. TreesBack => service'.build \in {None, snap.active}
      BY <1>3, <2>4
    <3> QED BY <1>1, <1>4, <2>3, <2>6, <3>4, <3>5, <3>6 DEF Forward, Ahead
  <2>7. Undid(run)' => Undid(run)
    BY <1>1, <1>4 DEF Undid
  <2>8. AllBack => AllBack'
    BY <2>3 DEF AllBack
  <2> QED BY <1>1, <1>8, <2>2, <2>5, <2>6, <2>7, <2>8 DEF Activated
<1>9. RuntimePlaced(run) => RuntimePlaced(run)'
  BY <1>1, <1>4, <1>7, <1>8 DEF RuntimePlaced, Passed
<1>10. run' = run /\ op' = op
  BY <1>1
<1> QED BY <1>4, <1>5, <1>6, <1>9, <1>10 DEF TreesInv

LEMMA NothingHappens ==
    ASSUME TreesInv, UNCHANGED RuntimeWorld!treesVars
    PROVE  TreesInv'
<1> HIDE DEF RuntimeWorld!Wf, C, RuntimeWorld!AlreadyActive
<1>1. /\ UNCHANGED Machine /\ run' = run /\ work' = work
      /\ (RuntimeWorld!AlreadyActive <=> RuntimeWorld!AlreadyActive')
  BY DEF RuntimeWorld!treesVars, Machine, RuntimeWorld!AlreadyActive
<1>2. MachineTyped /\ Numbered /\ op' = op /\ RuntimeWorld!Wf' = RuntimeWorld!Wf /\ C' = C
  BY <1>1, SameMachine DEF TreesInv, Machine
<1>3. MachineTyped' /\ Numbered' /\ (Home <=> Home')
  <2>1. MachineTyped'
    BY <1>1, <1>2 DEF MachineTyped, Machine
  <2> QED BY <1>1, <1>2, <2>1, SameMachine
<1>4. RuntimePlaced(run) => RuntimePlaced(run)'
  BY <1>1, <1>2, TreesAround DEF MachineTyped
<1> QED BY <1>1, <1>2, <1>3, <1>4 DEF TreesInv

LEMMA TreesStep ==
    ASSUME TreesInv, [RuntimeWorld!Next]_(RuntimeWorld!treesVars)
    PROVE  TreesInv'
<1>1. CASE RuntimeWorld!Next
  BY <1>1, OperationStarts, RuntimeTurns, RuntimeMisfortune, RuntimeCancelled, ServiceRelaunched,
     ConstructionSteps, RuntimeActivationSteps, RuntimeRestorationSteps DEF RuntimeWorld!Next
<1>2. CASE UNCHANGED RuntimeWorld!treesVars
  BY <1>2, NothingHappens
<1> QED BY <1>1, <1>2

LEMMA TreesFirst ==
    ASSUME RuntimeWorld!Init
    PROVE  TreesInv
<1>1. /\ op = [n |-> 0, kind |-> "update", target |-> None]
      /\ run = [RuntimeWorld!Queued EXCEPT !.end = "SUCCEEDED"]
      /\ build = [t \in RuntimeWorld!Trees |-> t]
      /\ disk = [l \in RuntimeWorld!Trees |-> IF l = 0 THEN 0 ELSE None]
      /\ reg = [t \in RuntimeWorld!Trees |-> None]
      /\ comp = [promoted |-> None, rollback |-> None, promotedTree |-> None,
          rollbackTree |-> None,
                 generation |-> 1, op |-> 0]
      /\ known = None /\ handoff = [component |-> None, op |-> 0]
      /\ service = [build |-> 0, new |-> FALSE] /\ receipt = [build |-> None, op |-> 0]
      /\ work = "none"
  BY DEF RuntimeWorld!Init
<1>2. /\ TreesUpdates \in Nat /\ 0 \in RuntimeWorld!Trees /\ 0 \in 0..TreesUpdates
      /\ None \notin RuntimeWorld!Trees /\ None \in Maybe
      /\ RuntimeWorld!Trees \subseteq Nat /\ None # 0
  BY RuntimeNone DEF RuntimeWorld!Trees, Maybe
<1>3. /\ op.n = 0 /\ run.end = "SUCCEEDED" /\ run.pc = "down" /\ disk[0] = 0
      /\ handoff.component = None /\ handoff.op = 0 /\ receipt.op = 0
      /\ comp.promoted = None /\ comp.rollback = None /\ run.pc # "landed"
  BY <1>1, <1>2 DEF RuntimeWorld!Queued
<1>4. RuntimeWorld!Rows = {}
  BY <1>1 DEF RuntimeWorld!Rows
<1>5. MachineTyped
  <2>1. op \in [n : RuntimeWorld!Trees, kind : {"update", "rollback"}, target : Maybe]
    BY <1>1, <1>2
  <2>2. /\ build \in [RuntimeWorld!Trees -> RuntimeWorld!Trees]
        /\ disk \in [RuntimeWorld!Trees -> Maybe]
        /\ reg \in [RuntimeWorld!Trees -> TreeRow \cup {None}]
    BY <1>1, <1>2 DEF Maybe
  <2>3. comp \in RuntimeWorld!Component /\ handoff \in RuntimeWorld!Handoff
    BY <1>1, <1>2 DEF RuntimeWorld!Component, RuntimeWorld!Handoff
  <2>4. /\ service \in [build : Maybe, new : BOOLEAN]
        /\ receipt \in [build : Maybe, op : RuntimeWorld!Trees]
    BY <1>1, <1>2 DEF Maybe
  <2> QED BY <1>1, <1>2, <2>1, <2>2, <2>3, <2>4 DEF MachineTyped, RuntimeWorld!Work
<1>6. Numbered
  <2>1. ASSUME NEW t \in RuntimeWorld!Trees PROVE build[t] <= t /\ build[t] = t
    BY <1>1, <1>2
  <2>2. ASSUME NEW t \in RuntimeWorld!Trees, t > 0
        PROVE  disk[t] = None /\ \A l \in RuntimeWorld!Trees : disk[l] # t
    BY <1>1, <1>2, <2>2
  <2> QED BY <1>3, <1>4, <2>1, <2>2 DEF Numbered
<1>7. Home
  BY <1>2, <1>3, <1>4 DEF Home, Bound
<1> QED BY <1>3, <1>5, <1>6, <1>7 DEF TreesInv, Endings

-----------------------------------------------------------------------------
(* What the run asks                                                       *)

LEMMA NothingUnrecognized ==
    ASSUME TreesInv
    PROVE  RuntimeWorld!RestorationRecognizes
<1> SUFFICES ASSUME run.pc = "undoing" PROVE ~ RuntimeWorld!Unrecognized
  BY DEF RuntimeWorld!RestorationRecognizes, RuntimeWorld!Undoing
<1> HIDE DEF C, RuntimeWorld!Wf, RuntimeWorld!AlreadyActive
<1>a. CASE RuntimeWorld!AlreadyActive
  <2>1. /\ Untouched /\ TreesUnmoved /\ comp.promoted = RuntimeWorld!Active
        /\ disk[0] \in RuntimeWorld!Rows /\ MachineTyped
    BY <1>a, StepRestores
  <2>2. /\ snap.targetTree = disk[0] /\ snap.targetLoc = 0 /\ snap.active = RuntimeWorld!Active
        /\ snap.handoff = handoff /\ snap.promoted = comp.promoted
    BY <2>1 DEF TreesUnmoved
  <2>3. disk[0] # None /\ reg[disk[0]] # None /\ RuntimeWorld!Active = build[disk[0]]
    BY <2>1 DEF Untouched, Home, RuntimeWorld!Rows, RuntimeWorld!Active
  <2>4. RuntimeWorld!Arrangement = "COMPLETE"
    BY <2>2, <2>3 DEF RuntimeWorld!Arrangement, RuntimeWorld!Observed
  <2> QED BY <2>2, <2>4 DEF RuntimeWorld!Unrecognized
<1>b. CASE ~ RuntimeWorld!AlreadyActive
  <2>1. Boundary /\ Evidence /\ InTwoPlaces /\ MachineTyped
    BY <1>b, StepRestores
  <2>2. RuntimeWorld!Arrangement \in {"ABSENT", "COMPLETE"}
    BY <2>1, PairSeen DEF InTwoPlaces
  <2>3. handoff # snap.handoff => handoff.component = build[snap.targetTree]
    BY <2>1 DEF InTwoPlaces, HandoffBack, HandoffMoved, NewBuild
  <2>4. comp.promoted \in {snap.promoted, build[snap.targetTree]}
    BY <2>1 DEF InTwoPlaces, ComponentBack, ComponentMoved, NewBuild
  <2> QED BY <2>2, <2>3, <2>4 DEF RuntimeWorld!Unrecognized
<1> QED BY <1>a, <1>b

LEMMA ServerProven ==
    ASSUME TreesInv
    PROVE  RuntimeWorld!InvocationProven
<1> SUFFICES ASSUME run.end = "none", run.pc \in {"probe", "verify", "effect"},
                    RuntimeWorld!At \in {"restart", "verify", "promote"},
                        RuntimeWorld!InvocationProbe = "COMPLETE"
             PROVE  service.build = RuntimeWorld!Target
  BY DEF RuntimeWorld!InvocationProven
<1> HIDE DEF C, RuntimeWorld!Wf, RuntimeWorld!At, RuntimeWorld!AlreadyActive,
   RuntimeWorld!InvocationProbe
<1>1. op.n > 0
  BY DEF TreesInv, MachineTyped, RuntimeWorld!Trees
<1>2. /\ run.at \in 1..(C + 6) /\ run.way = "forward" /\ RuntimePlaced(run)
      /\ MachineTyped /\ C \in {4, 7}
      /\ op.kind \in {"update", "rollback"}
  BY <1>1, TreesPlace
<1>3. run.at > C
  BY <1>2, TreeAtWork DEF RuntimeWorld!Activating
<1>4. CASE RuntimeWorld!AlreadyActive
  <2>1. Untouched /\ RuntimeWorld!Target = RuntimeWorld!Active
    BY <1>2, <1>4 DEF RuntimePlaced, RuntimeWorld!Target
  <2>2. /\ Bound(handoff) /\ disk[0] # None /\ 0 \in RuntimeWorld!Trees
        /\ None \notin RuntimeWorld!Trees
    BY <2>1, RuntimeNone DEF Untouched, Home, RuntimeWorld!Trees
  <2>3. RuntimeWorld!Active # None
    BY <1>2, <2>2 DEF RuntimeWorld!Active, MachineTyped, Maybe
  <2>4. /\ receipt.build = RuntimeWorld!Target /\ receipt.op = handoff.op
        /\ handoff.component = RuntimeWorld!Target
        /\ service.build # None
    BY DEF RuntimeWorld!InvocationProbe
  <2> QED BY <2>1, <2>2, <2>3, <2>4 DEF Bound
<1>5. CASE ~ RuntimeWorld!AlreadyActive
  <2>1. Boundary /\ Evidence /\ InTwoPlaces /\ Forward(run)
    BY <1>2, <1>3, <1>5 DEF RuntimePlaced, Passed, Activated
  <2>2. receipt.op = op.n /\ service.build # None
    BY <1>2, <2>1, VerifiedSeen
  <2>3. RuntimeWorld!Target = NewBuild
    BY <1>2, <2>1, PairSeen DEF InTwoPlaces
  <2> QED BY <2>1, <2>2, <2>3 DEF Forward
<1> QED BY <1>4, <1>5

LEMMA SuccessIsWhole ==
    ASSUME TreesInv, run.end = "SUCCEEDED", op.n > 0
    PROVE  /\ RuntimeWorld!Active = RuntimeWorld!Target
           /\ comp.promoted = RuntimeWorld!Target /\ known = RuntimeWorld!Target
           /\ handoff.component = RuntimeWorld!Target
           /\ service.build \in {RuntimeWorld!Target, None}
<1> HIDE DEF C, RuntimeWorld!Wf, RuntimeWorld!AlreadyActive
<1>1. /\ RuntimePlaced(run) /\ MachineTyped /\ C \in {4, 7}
      /\ RunInv(run, RuntimeWorld!Wf) /\ Len(RuntimeWorld!Wf.steps) = C + 6
  BY TreesPlace DEF TreesInv
<1>2. run.at = C + 7 /\ run.way = "forward"
  BY <1>1 DEF RunInv, RunPlaced
<1>3. CASE RuntimeWorld!AlreadyActive
  <2>1. /\ Untouched /\ comp.promoted = RuntimeWorld!Active /\ Proving
        /\ RuntimeWorld!Target = RuntimeWorld!Active
    BY <1>1, <1>2, <1>3 DEF RuntimePlaced, NothingToDo, Passed, RuntimeWorld!Target
  <2>2. (comp.promoted # None => known = comp.promoted) /\ disk[0] # None
    BY <2>1 DEF Untouched, Home
  <2>3. RuntimeWorld!Active # None
    BY <1>1, <2>2, RuntimeNone DEF RuntimeWorld!Active, MachineTyped, Maybe, RuntimeWorld!Trees
  <2> QED BY <2>1, <2>2, <2>3 DEF Proving
<1>4. CASE ~ RuntimeWorld!AlreadyActive
  <2>1. Boundary /\ Evidence /\ InTwoPlaces /\ Forward(run)
    BY <1>1, <1>2, <1>4 DEF RuntimePlaced, Passed, Activated
  <2>2. /\ TreesMoved /\ HandoffMoved /\ ComponentMoved /\ receipt.op = op.n
        /\ service.build \in {None, NewBuild}
    BY <1>1, <1>2, <2>1 DEF Forward
  <2>3. RuntimeWorld!Target = NewBuild /\ RuntimeWorld!Active = NewBuild
    BY <1>1, <2>1, <2>2, PairSeen
  <2> QED BY <2>2, <2>3 DEF HandoffMoved, ComponentMoved
<1> QED BY <1>3, <1>4

LEMMA FailureIsWhole ==
    ASSUME TreesInv, run.end \in {"FAILED_SAFE", "FAILED_ROLLED_BACK", "CANCELLED"}
    PROVE  /\ RuntimeWorld!Now = found.now
           /\ service.build \in {None, RuntimeWorld!Active, found.serving, RuntimeWorld!Target}
           /\ run.end = "FAILED_SAFE" =>
               service.build \in {None, RuntimeWorld!Active, found.serving}
<1> HIDE DEF C, RuntimeWorld!Wf, RuntimeWorld!AlreadyActive
<1>1. op.n > 0
  BY DEF TreesInv, MachineTyped, RuntimeWorld!Trees
<1>2. RuntimePlaced(run) /\ MachineTyped
  BY <1>1 DEF TreesInv
<1>3. CASE ~ Passed(run, C) \/ RuntimeWorld!AlreadyActive
  BY <1>2, <1>3 DEF RuntimePlaced, Untouched
<1>4. CASE Passed(run, C) /\ ~ RuntimeWorld!AlreadyActive
  <2>1. Activated(run) /\ Boundary /\ Evidence /\ InTwoPlaces
    BY <1>2, <1>4 DEF RuntimePlaced, Activated
  <2>2. TreesBack /\ HandoffBack /\ ComponentBack
    BY <2>1 DEF Activated, Undid, AllBack
  <2>3. RuntimeWorld!Active = snap.active /\ RuntimeWorld!Target = NewBuild
    BY <1>2, <2>1, <2>2, PairSeen
  <2>4. RuntimeWorld!Now = found.now
    BY <2>1, <2>2 DEF RuntimeWorld!Now, TreesBack, HandoffBack, ComponentBack, Evidence
  <2>5. service.build \in {None, RuntimeWorld!Active, RuntimeWorld!Target, found.serving}
    BY <2>1, <2>3 DEF InTwoPlaces
  <2>6. run.end = "FAILED_SAFE" => service.build \in {None, RuntimeWorld!Active, found.serving}
    BY <2>1, <2>2, <2>3 DEF Activated, Forward
  <2> QED BY <2>4, <2>5, <2>6
<1> QED BY <1>3, <1>4

LEMMA TreesAreSound ==
    ASSUME TreesInv
    PROVE  RuntimeWorld!TreesSound
<1>1. RuntimeWorld!TypeOK
  BY DEF TreesInv, MachineTyped, RuntimeWorld!TypeOK, Maybe
<1>2. RuntimeWorld!TreesKept
  <2>1. run.end \notin {"none", "RECOVERY_REQUIRED"} => Home
    BY HomeAgain
  <2> QED BY <2>1 DEF RuntimeWorld!TreesKept, RuntimeWorld!RegistryTrue,
        RuntimeWorld!RollbackTargetKept, Home
<1>3. RuntimeWorld!SuccessAgrees
  BY ServerProven, SuccessIsWhole DEF RuntimeWorld!SuccessAgrees
<1>4. RuntimeWorld!FailureRestores
  BY NothingUnrecognized, FailureIsWhole DEF RuntimeWorld!FailureRestores
<1> QED BY <1>1, <1>2, <1>3, <1>4 DEF RuntimeWorld!TreesSound

\* Whatever ends without a barrier, whichever way, leaves one runtime everywhere, and the
\* registry with it, for every number of operations and of faults.
THEOREM TreesStaySound == RuntimeWorld!TreesSpec => []RuntimeWorld!TreesSound
<1>1. RuntimeWorld!Init => TreesInv
  BY TreesFirst
<1>2. TreesInv /\ [RuntimeWorld!Next]_(RuntimeWorld!treesVars) => TreesInv'
  BY TreesStep
<1>3. TreesInv => RuntimeWorld!TreesSound
  BY TreesAreSound
<1> QED BY <1>1, <1>2, <1>3, PTL DEF RuntimeWorld!TreesSpec

=============================================================================
