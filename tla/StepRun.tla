------------------------------ MODULE StepRun -------------------------------
(***************************************************************************)
(* One durable operation as the adapters of its steps see it: who calls    *)
(* execute, probe, verify and compensate, in which order, also after the   *)
(* worker died.  ExecutionEngine has the transactions and leases behind    *)
(* this; here they are operators on a record, so that a module about what  *)
(* adapters change needs no engine of its own.  No state.                  *)
(*                                                                         *)
(* at, row: the first step that is not verified and the state of its row.  *)
(* way: the operation runs, rolls back, or was cancelled.  begun, undone:  *)
(* the steps whose rows are COMPENSATING, COMPENSATED.  pc, todo, bad: the *)
(* local variables of the run; pc = "landed" is inside execute, after its  *)
(* last change of the world.  end: the terminal state, or "none".          *)
(***************************************************************************)
EXTENDS Naturals, Sequences
INSTANCE OperationModel

StepRuns(n) ==
    [at : 1..(n + 1), row : {"PENDING", "RUNNING", "CHECKPOINTED"},
     way : {"forward", "rolling", "cancelling"}, begun : SUBSET (1..n), undone : SUBSET (1..n),
     pc : {"down", "next", "probe", "effect", "landed", "verify", "reverify", "undo",
            "undoing", "undone"},
     todo : SUBSET (1..n), bad : BOOLEAN, end : {"none"} \cup Terminal]

Queued == [at |-> 1, row |-> "PENDING", way |-> "forward", begun |-> {}, undone |-> {},
           pc |-> "down", todo |-> {}, bad |-> FALSE, end |-> "none"]

Flagged(wf, i, f) == f \in wf.steps[i].flags

\* What a new run finds it would have to compensate.
ToUndo(r, wf) ==
    {i \in DOMAIN wf.steps :
        /\ Flagged(wf, i, "undo") /\ ~ Flagged(wf, i, "forward")
        /\ (Flagged(wf, i, "visible") \/ Flagged(wf, i, "critical"))
        /\ i < r.at \/ (i = r.at /\ r.row # "PENDING")} \ r.undone

Ended(r, state) == [r EXCEPT !.end = state, !.pc = "down", !.todo = {}, !.bad = FALSE]

\* The process dies, or an exception leaves execute_one.
Crashed(r) == [r EXCEPT !.pc = "down", !.todo = {}, !.bad = FALSE]

Claimed(r, wf) ==
    IF r.way = "forward" THEN [r EXCEPT !.pc = "next"]
    ELSE [r EXCEPT !.pc = "undo", !.todo = ToUndo(r, wf)]

\* The loop looks at the row of the next step.
Advanced(r, wf) ==
    CASE r.at > Len(wf.steps)   -> Ended(r, "SUCCEEDED")
      [] r.at <= Len(wf.steps) /\ r.row = "PENDING" ->
             [r EXCEPT !.row = "RUNNING", !.pc = "effect"]
      [] r.row = "RUNNING"      -> [r EXCEPT !.pc = "probe"]
      [] r.row = "CHECKPOINTED" -> [r EXCEPT !.pc = "reverify"]

\* execute changed the world; execute returned; the result was verified.
Landed(r) == [r EXCEPT !.pc = "landed"]
Applied(r) == [r EXCEPT !.row = "CHECKPOINTED", !.pc = "verify"]
Verified(r) == [r EXCEPT !.at = @ + 1, !.row = "PENDING", !.pc = "next"]

RollingBack(r, wf, also) ==
    [r EXCEPT !.way = "rolling", !.pc = "undo", !.todo = ToUndo(r, wf) \cup also]

\* The probe of an interrupted step answered class.
Decided(r, wf, class) ==
    LET action == DecideRecovery(class, Flagged(wf, r.at, "quiescent")) IN
    CASE action = "VERIFY"          -> [Applied(r) EXCEPT !.pc = "reverify"]
      [] action \in {"EXECUTE", "RESUME", "DISCARD_AND_RETRY"} -> [r EXCEPT !.pc = "effect"]
      [] action = "ROLL_BACK"       -> RollingBack(r, wf, {})
      [] action = "PAUSE"           -> Crashed(r)
      [] action = "REQUIRE_RECOVERY" -> Ended(r, "RECOVERY_REQUIRED")

\* execute or verify raised, and the probe answered class.
Failed(r, wf, class) ==
    LET others == ToUndo(r, wf) \ {r.at} IN
    IF /\ (class \notin {"ABSENT", "DISCARDABLE"} \/ others # {})
       /\ ~ Flagged(wf, r.at, "forward") /\ "finalizer" \notin wf.traits
       /\ (others # {} \/ Flagged(wf, r.at, "undo"))
    THEN RollingBack(r, wf, IF Flagged(wf, r.at, "undo") THEN {r.at} ELSE {})
    ELSE Ended(r, "FAILED_SAFE")

\* The result does not verify.  A run that did not produce it just raises.
Rejected(r, wf, class) == IF r.pc = "reverify" THEN Crashed(r) ELSE Failed(r, wf, class)

\* A cancellation is honored between two steps, but not at a critical step that
\* was interrupted.
Cancellable(r, wf) ==
    /\ r.end = "none" /\ r.pc = "next" /\ r.at <= Len(wf.steps)
    /\ ~ (Flagged(wf, r.at, "critical") /\ r.row = "RUNNING")

Cancelled(r, wf) ==
    IF ToUndo(r, wf) = {} \/ "finalizer" \in wf.traits THEN Ended(r, "CANCELLED")
    ELSE [r EXCEPT !.way = "cancelling", !.pc = "undo", !.todo = ToUndo(r, wf)]

\* The step compensated next.
Latest(r) == CHOOSE i \in r.todo : \A j \in r.todo : j <= i

\* One turn of the compensation loop.  A failed compensation of a cancelled
\* operation has no legal terminal: the exception leaves execute_one.
UndoAdvanced(r) ==
    IF r.todo # {} THEN [r EXCEPT !.begun = @ \cup {Latest(r)}, !.pc = "undoing"]
    ELSE IF ~ r.bad THEN Ended(r, IF r.way = "rolling" THEN "FAILED_ROLLED_BACK" ELSE "CANCELLED")
    ELSE IF r.way = "rolling" THEN Ended(r, "RECOVERY_REQUIRED") ELSE Crashed(r)

Interrupted(r) == r.todo # {} /\ Latest(r) \in r.begun

Undone(r) ==
    [r EXCEPT !.undone = @ \cup {Latest(r)}, !.begun = @ \ {Latest(r)}, !.todo = @ \ {Latest(r)},
              !.pc = "undo"]

UndoFailed(r) == [r EXCEPT !.todo = @ \ {Latest(r)}, !.bad = TRUE, !.pc = "undo"]

\* probe_restoration of an interrupted compensation answered class.
UndoDecided(r, class) ==
    CASE class = "COMPLETE"         -> Undone(r)
      [] class = "UNCERTAIN_MANUAL" -> [r EXCEPT !.todo = {}, !.bad = TRUE, !.pc = "undo"]
      [] OTHER                      -> [r EXCEPT !.pc = "undoing"]

-----------------------------------------------------------------------------

\* What the engine does next, given whether the result of the step holds, what its
\* probe may answer and what the probe of its restoration answers.  Empty where an
\* adapter is at work.
Turns(r, wf, holds, classes, restoration) ==
    CASE r.end # "none" -> {}
      [] r.end = "none" /\ r.pc = "down"   -> {Claimed(r, wf)}
      [] r.pc = "next"   -> {Advanced(r, wf)}
      [] r.pc = "probe"  -> {Decided(r, wf, class) : class \in classes}
      [] r.pc = "landed" -> {Applied(r)}
      [] r.pc \in {"verify", "reverify"} ->
             IF holds THEN {Verified(r)} ELSE {Rejected(r, wf, class) : class \in classes}
      [] r.pc = "undo"   ->
             {IF Interrupted(r) THEN UndoDecided(r, restoration) ELSE UndoAdvanced(r)}
      [] OTHER -> {}

\* A process death; a step or its verification that fails, before or after its
\* effect; a failed compensation.  A probe may fail too.
Mishaps(r, wf, classes) ==
    IF r.end # "none" \/ r.pc = "down" THEN {}
    ELSE {Crashed(r)}
         \cup (IF r.pc \in {"effect", "landed", "verify", "reverify"}
               THEN {Rejected(r, wf, class) : class \in classes \cup {"UNCERTAIN_MANUAL"}} ELSE {})
         \cup (IF r.pc = "undoing" THEN {UndoFailed(r)} ELSE {})

=============================================================================
