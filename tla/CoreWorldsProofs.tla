-------------------------- MODULE CoreWorldsProofs --------------------------
(***************************************************************************)
(* Safety of the worlds of CoreWorlds, each from an inductive invariant    *)
(* of its own: the trees of a storage cleanup (CleanupInv), the machine a  *)
(* model is activated on (ActivationInv), the profiles of a restore        *)
(* (RestoreInv), what an access plan changes (IntegrationInv) and the machine *)
(* a profile is calibrated on (CalibrationInv).  All rest on how a run moves *)
(* at all (RunInv, Moves), proved for every workflow whose steps, if they can *)
(* be undone, are undone.                                                  *)
(***************************************************************************)
EXTENDS CoreWorlds, Sequences, TLAPS, FiniteSetTheorems

Run == INSTANCE StepRun

-----------------------------------------------------------------------------
(* The run of an operation                                                 *)

\* A workflow whose steps, if they can be undone, are undone when a run turns back.
Workable(wf) ==
    /\ Len(wf.steps) \in Nat /\ DOMAIN wf.steps = 1..Len(wf.steps)
    /\ \A i \in DOMAIN wf.steps :
         Run!Flagged(wf, i, "undo") =>
           /\ ~ Run!Flagged(wf, i, "forward")
           /\ Run!Flagged(wf, i, "visible") \/ Run!Flagged(wf, i, "critical")

RunShaped(r, wf) ==
    /\ DOMAIN r = {"at", "row", "way", "begun", "undone", "pc", "todo", "bad", "end"}
    /\ r.at \in 1..(Len(wf.steps) + 1) /\ r.row \in {"PENDING", "RUNNING", "CHECKPOINTED"}
    /\ r.way \in {"forward", "rolling", "cancelling"} /\ r.bad \in BOOLEAN
    /\ r.pc \in {"down", "next", "probe", "effect", "landed", "verify", "reverify", "undo",
                 "undoing", "undone"}

\* Where a run stands says which way it goes; a run that turned back is to compensate
\* what has begun and was not undone, all of it unless a compensation failed.
RunPlaced(r, wf) ==
    /\ r.end # "none" => r.pc = "down"
    /\ r.pc \in {"next", "probe", "effect", "landed", "verify", "reverify"} => r.way = "forward"
    /\ r.pc \in {"undo", "undoing", "undone"} =>
          r.way # "forward" /\ r.todo \subseteq Run!ToUndo(r, wf)
              /\ (r.bad \/ r.todo = Run!ToUndo(r, wf))
    /\ r.pc \in {"undoing", "undone"} => r.todo # {}
    /\ r.pc \in {"probe", "effect", "landed"} => r.at <= Len(wf.steps) /\ r.row = "RUNNING"
    /\ r.pc \in {"verify", "reverify"} => r.at <= Len(wf.steps) /\ r.row = "CHECKPOINTED"
    /\ r.at > Len(wf.steps) => r.row = "PENDING"
    /\ r.way = "forward" => r.undone = {}
    /\ r.end = "SUCCEEDED" => r.way = "forward" /\ r.at = Len(wf.steps) + 1

RunInv(r, wf) == RunShaped(r, wf) /\ RunPlaced(r, wf)

-----------------------------------------------------------------------------
(* The ways in which a run moves                                           *)

Stays(r, q) == q.at = r.at /\ q.row = r.row /\ q.way = r.way /\ q.undone = r.undone

\* It dies or ends behind a barrier.
Stops(r, q) == Stays(r, q) /\ q.pc = "down" /\ q.end \in {"none", "RECOVERY_REQUIRED"}

\* It comes to a place inside its step.
GoesOn(r, q) ==
    /\ r.way = "forward" /\ q.way = "forward" /\ q.undone = {} /\ q.end = "none"
    /\ q.at = r.at /\ (q.row = "PENDING" => r.row = "PENDING")

Verifies(r, q) ==
    /\ r.way = "forward" /\ q.way = "forward" /\ q.undone = {} /\ q.end = "none"
    /\ r.row = "CHECKPOINTED" /\ r.pc \in {"verify", "reverify"}
    /\ q.at = r.at + 1 /\ q.row = "PENDING" /\ q.pc = "next"

Succeeds(r, q, wf) ==
    Stays(r, q) /\ r.way = "forward" /\ r.at = Len(wf.steps) + 1 /\ q.pc = "down"
        /\ q.end = "SUCCEEDED"

\* A step fails that left nothing, or that is never undone.
FailsSafe(r, q, wf, class) ==
    /\ Stays(r, q) /\ r.way = "forward" /\ r.row # "PENDING" /\ r.at <= Len(wf.steps)
    /\ r.pc \in {"effect", "landed", "verify"} /\ q.pc = "down" /\ q.end = "FAILED_SAFE"
    /\ LET others == Run!ToUndo(r, wf) \ {r.at} IN
       \/ others = {} /\ (class \in {"ABSENT", "DISCARDABLE"} \/ ~ Run!Flagged(wf, r.at, "undo"))
       \/ Run!Flagged(wf, r.at, "forward") \/ "finalizer" \in wf.traits

TurnsBack(r, q, wf) ==
    /\ r.way = "forward" /\ q.way # "forward" /\ q.at = r.at /\ q.row = r.row /\ q.undone = {}
    /\ q.pc = "undo" /\ q.end = "none" /\ q.todo = Run!ToUndo(r, wf)

CancelsAtOnce(r, q, wf) ==
    /\ Stays(r, q) /\ r.way = "forward" /\ q.pc = "down" /\ q.end = "CANCELLED"
    /\ Run!ToUndo(r, wf) = {} \/ "finalizer" \in wf.traits

\* It is somewhere in its compensations.
GoesBack(r, q) ==
    Stays(r, q) /\ r.way # "forward" /\ q.pc \in {"undo", "undoing", "undone"} /\ q.end = "none"

UndoesOne(r, q) ==
    /\ r.way # "forward" /\ r.todo # {} /\ r.pc \in {"undo", "undoing", "undone"}
    /\ q.at = r.at /\ q.row = r.row /\ q.way = r.way
    /\ q.undone = r.undone \cup {Run!Latest(r)} /\ q.pc = "undo" /\ q.end = "none"

HasUndone(r, q, wf) ==
    /\ Stays(r, q) /\ r.way # "forward" /\ Run!ToUndo(r, wf) = {} /\ q.pc = "down"
    /\ q.end = IF r.way = "rolling" THEN "FAILED_ROLLED_BACK" ELSE "CANCELLED"

Moves(r, q, wf, holds, classes, back) ==
    \/ Stops(r, q) \/ GoesOn(r, q) \/ Succeeds(r, q, wf)
    \/ Verifies(r, q) /\ holds
    \/ \E class \in classes : FailsSafe(r, q, wf, class)
    \/ TurnsBack(r, q, wf) \/ CancelsAtOnce(r, q, wf)
    \/ GoesBack(r, q) \/ HasUndone(r, q, wf)
    \/ UndoesOne(r, q) /\ back

Answers == {"UNCERTAIN_MANUAL", "ABSENT", "COMPLETE", "PARTIALLY_RESUMABLE", "DISCARDABLE",
            "REVERTIBLE"}

-----------------------------------------------------------------------------

LEMMA SameToUndo ==
    ASSUME NEW r, NEW q, NEW wf, q.at = r.at, q.row = r.row, q.undone = r.undone
    PROVE  Run!ToUndo(q, wf) = Run!ToUndo(r, wf)
  BY DEF Run!ToUndo

LEMMA RunEnds ==
    ASSUME NEW wf, NEW r, RunInv(r, wf), NEW ending
    PROVE  LET q == Run!Ended(r, ending) IN
           /\ Stays(r, q) /\ q.pc = "down" /\ q.end = ending
           /\ (ending = "SUCCEEDED" => r.way = "forward" /\ r.at = Len(wf.steps) + 1) =>
               RunInv(q, wf)
<1> DEFINE q == Run!Ended(r, ending)
<1>1. /\ q.at = r.at /\ q.row = r.row /\ q.way = r.way /\ q.undone = r.undone
      /\ q.pc = "down" /\ q.end = ending /\ q.bad = FALSE /\ DOMAIN q = DOMAIN r
  BY DEF RunInv, RunShaped, Run!Ended
<1> HIDE DEF q
<1>2. RunShaped(q, wf)
  BY <1>1 DEF RunInv, RunShaped
<1>3. (ending = "SUCCEEDED" => r.way = "forward" /\ r.at = Len(wf.steps) + 1) => RunPlaced(q, wf)
  BY <1>1 DEF RunInv, RunPlaced
<1>4. Stays(r, q)
  BY <1>1 DEF Stays
<1> QED BY <1>1, <1>2, <1>3, <1>4 DEF RunInv, q

LEMMA RunCrashes ==
    ASSUME NEW wf, NEW r, RunInv(r, wf), r.end = "none"
    PROVE  RunInv(Run!Crashed(r), wf) /\ Stops(r, Run!Crashed(r))
<1> DEFINE q == Run!Crashed(r)
<1>1. /\ q.at = r.at /\ q.row = r.row /\ q.way = r.way /\ q.undone = r.undone
      /\ q.pc = "down" /\ q.end = "none" /\ q.bad = FALSE /\ DOMAIN q = DOMAIN r
  BY DEF RunInv, RunShaped, Run!Crashed
<1> HIDE DEF q
<1>2. RunShaped(q, wf) /\ RunPlaced(q, wf)
  BY <1>1 DEF RunInv, RunShaped, RunPlaced
<1> QED BY <1>1, <1>2 DEF RunInv, Stops, Stays, q

\* Forward inside a step.
LEMMA RunGoesOn ==
    ASSUME NEW wf, Workable(wf), NEW r, RunInv(r, wf), r.way = "forward", r.end = "none", NEW q,
           DOMAIN q = DOMAIN r, q.at = r.at, q.way = r.way, q.undone = r.undone, q.bad = r.bad,
           q.end = r.end,
           \/ q.pc = "next" /\ q.row = r.row
           \/ q.pc \in {"probe", "effect", "landed"} /\ q.row = "RUNNING"
           \/ q.pc \in {"verify", "reverify"} /\ q.row = "CHECKPOINTED",
           q.pc # "next" => r.at <= Len(wf.steps)
    PROVE  RunInv(q, wf) /\ GoesOn(r, q)
<1>1. RunShaped(q, wf)
  BY DEF RunInv, RunShaped
<1>2. RunPlaced(q, wf)
  BY DEF RunInv, RunPlaced, RunShaped, Workable
<1>3. GoesOn(r, q)
  BY DEF GoesOn, RunInv, RunPlaced
<1> QED BY <1>1, <1>2, <1>3 DEF RunInv

LEMMA RunApplied ==
    ASSUME NEW wf, Workable(wf), NEW r, RunInv(r, wf), r.end = "none",
           r.pc \in {"effect", "probe", "landed"}
    PROVE  /\ RunInv(Run!Applied(r), wf) /\ GoesOn(r, Run!Applied(r))
           /\ RunInv(Run!Landed(r), wf) /\ GoesOn(r, Run!Landed(r))
           /\ RunInv([Run!Applied(r) EXCEPT !.pc = "reverify"], wf)
           /\ GoesOn(r, [Run!Applied(r) EXCEPT !.pc = "reverify"])
           /\ RunInv([r EXCEPT !.pc = "effect"], wf) /\ GoesOn(r, [r EXCEPT !.pc = "effect"])
<1> SUFFICES ASSUME NEW q,
      q \in {Run!Applied(r), Run!Landed(r), [Run!Applied(r) EXCEPT !.pc = "reverify"],
                                  [r EXCEPT !.pc = "effect"]}
             PROVE  RunInv(q, wf) /\ GoesOn(r, q)
  OBVIOUS
<1>1. r.way = "forward" /\ r.at <= Len(wf.steps) /\ r.row = "RUNNING"
  BY DEF RunInv, RunPlaced
<1>2. /\ q.at = r.at /\ q.way = r.way /\ q.undone = r.undone /\ q.bad = r.bad /\ q.end = r.end
      /\ DOMAIN q = DOMAIN r
      /\ \/ q.pc \in {"effect", "landed"} /\ q.row = "RUNNING"
         \/ q.pc \in {"verify", "reverify"} /\ q.row = "CHECKPOINTED"
  BY <1>1 DEF RunInv, RunShaped, Run!Applied, Run!Landed
<1> QED BY <1>1, <1>2, RunGoesOn

LEMMA RunVerified ==
    ASSUME NEW wf, Workable(wf), NEW r, RunInv(r, wf), r.end = "none",
        r.pc \in {"verify", "reverify"}
    PROVE  RunInv(Run!Verified(r), wf) /\ Verifies(r, Run!Verified(r))
<1> DEFINE q == Run!Verified(r)
<1>1. /\ q.at = r.at + 1 /\ q.row = "PENDING" /\ q.way = r.way /\ q.undone = r.undone
      /\ q.pc = "next" /\ q.bad = r.bad /\ q.end = "none" /\ DOMAIN q = DOMAIN r
  BY DEF Run!Verified, RunInv, RunShaped
<1>2. /\ r.at <= Len(wf.steps) /\ r.row = "CHECKPOINTED" /\ r.way = "forward" /\ r.undone = {}
      /\ r.at \in Nat /\ r.at >= 1
  BY DEF RunInv, RunPlaced, RunShaped, Workable
<1> HIDE DEF q
<1>3. RunShaped(q, wf)
  BY <1>1, <1>2 DEF RunInv, RunShaped, Workable
<1>4. RunPlaced(q, wf)
  BY <1>1, <1>2 DEF RunPlaced
<1>5. Verifies(r, q)
  BY <1>1, <1>2 DEF Verifies
<1> QED BY <1>3, <1>4, <1>5 DEF RunInv, q

\* Backward inside the compensations.
LEMMA RunGoesBack ==
    ASSUME NEW wf, NEW r, RunInv(r, wf), r.way # "forward", r.end = "none", NEW q,
           DOMAIN q = DOMAIN r, q.at = r.at, q.row = r.row, q.way = r.way, q.undone = r.undone,
           q.bad \in BOOLEAN, q.end = r.end, q.pc \in {"undo", "undoing", "undone"},
           q.todo \subseteq Run!ToUndo(r, wf), q.bad \/ q.todo = Run!ToUndo(r, wf),
           q.pc # "undo" => q.todo # {}
    PROVE  RunInv(q, wf) /\ GoesBack(r, q)
<1>1. Run!ToUndo(q, wf) = Run!ToUndo(r, wf)
  BY SameToUndo
<1>2. RunShaped(q, wf)
  BY DEF RunInv, RunShaped
<1>3. RunPlaced(q, wf)
  BY <1>1 DEF RunInv, RunPlaced
<1>4. GoesBack(r, q)
  BY DEF GoesBack, Stays
<1> QED BY <1>2, <1>3, <1>4 DEF RunInv

\* A run is taken up.
LEMMA RunClaimed ==
    ASSUME NEW wf, Workable(wf), NEW r, RunInv(r, wf), r.end = "none", r.pc = "down"
    PROVE  LET q == Run!Claimed(r, wf) IN RunInv(q, wf) /\ (GoesOn(r, q) \/ GoesBack(r, q))
<1> DEFINE q == Run!Claimed(r, wf)
<1>1. CASE r.way = "forward"
  <2>1. /\ q.at = r.at /\ q.row = r.row /\ q.way = r.way /\ q.undone = r.undone
        /\ q.pc = "next" /\ q.bad = r.bad /\ q.end = r.end /\ DOMAIN q = DOMAIN r
    BY <1>1 DEF Run!Claimed, RunInv, RunShaped
  <2> HIDE DEF q
  <2>2. RunInv(q, wf) /\ GoesOn(r, q)
    BY <1>1, <2>1, RunGoesOn
  <2> QED BY <2>2 DEF q
<1>2. CASE r.way # "forward"
  <2>1. /\ q.at = r.at /\ q.row = r.row /\ q.way = r.way /\ q.undone = r.undone
        /\ q.pc = "undo" /\ q.bad = r.bad /\ q.end = r.end /\ DOMAIN q = DOMAIN r
        /\ q.todo = Run!ToUndo(r, wf)
    BY <1>2 DEF Run!Claimed, RunInv, RunShaped
  <2>2. r.bad \in BOOLEAN
    BY DEF RunInv, RunShaped
  <2> HIDE DEF q
  <2>3. RunInv(q, wf) /\ GoesBack(r, q)
    BY <1>2, <2>1, <2>2, RunGoesBack
  <2> QED BY <2>3 DEF q
<1> QED BY <1>1, <1>2

\* The loop looks at the next step.
LEMMA RunAdvanced ==
    ASSUME NEW wf, Workable(wf), NEW r, RunInv(r, wf), r.end = "none", r.pc = "next"
    PROVE  LET q == Run!Advanced(r, wf) IN RunInv(q, wf) /\ (GoesOn(r, q) \/ Succeeds(r, q, wf))
<1> DEFINE q == Run!Advanced(r, wf)
<1>1. /\ r.way = "forward" /\ r.row \in {"PENDING", "RUNNING", "CHECKPOINTED"}
      /\ r.at \in 1..(Len(wf.steps) + 1) /\ Len(wf.steps) \in Nat
      /\ r.at > Len(wf.steps) => r.row = "PENDING"
  BY DEF RunInv, RunPlaced, RunShaped, Workable
<1>2. CASE r.at > Len(wf.steps)
  <2>1. q = Run!Ended(r, "SUCCEEDED") /\ r.at = Len(wf.steps) + 1
    BY <1>1, <1>2 DEF Run!Advanced
  <2> HIDE DEF q
  <2>2. RunInv(q, wf) /\ Succeeds(r, q, wf)
    BY <1>1, <2>1, RunEnds DEF Succeeds
  <2> QED BY <2>2 DEF q
<1>3. CASE r.at <= Len(wf.steps)
  <2>1. \/ r.row = "PENDING" /\ q = [r EXCEPT !.row = "RUNNING", !.pc = "effect"]
        \/ r.row = "RUNNING" /\ q = [r EXCEPT !.pc = "probe"]
        \/ r.row = "CHECKPOINTED" /\ q = [r EXCEPT !.pc = "reverify"]
    BY <1>1, <1>3 DEF Run!Advanced
  <2> HIDE DEF q
  <2>2. /\ q.at = r.at /\ q.way = r.way /\ q.undone = r.undone /\ q.bad = r.bad /\ q.end = r.end
        /\ DOMAIN q = DOMAIN r
        /\ \/ q.pc \in {"probe", "effect"} /\ q.row = "RUNNING"
           \/ q.pc = "reverify" /\ q.row = "CHECKPOINTED"
    BY <2>1 DEF RunInv, RunShaped
  <2>3. RunInv(q, wf) /\ GoesOn(r, q)
    BY <1>1, <1>3, <2>2, RunGoesOn
  <2> QED BY <2>3 DEF q
<1> QED BY <1>1, <1>2, <1>3

\* A run turns back, over all that has begun.
LEMMA RunTurnsBack ==
    ASSUME NEW wf, NEW r, RunInv(r, wf), r.end = "none", r.way = "forward",
           NEW way \in {"rolling", "cancelling"}, NEW left, left = Run!ToUndo(r, wf)
    PROVE  LET q == [r EXCEPT !.way = way, !.pc = "undo", !.todo = left] IN
           RunInv(q, wf) /\ TurnsBack(r, q, wf)
<1> DEFINE q == [r EXCEPT !.way = way, !.pc = "undo", !.todo = left]
<1>1. /\ q.at = r.at /\ q.row = r.row /\ q.way = way /\ q.undone = r.undone
      /\ q.pc = "undo" /\ q.bad = r.bad /\ q.end = "none" /\ q.todo = left /\ DOMAIN q = DOMAIN r
  BY DEF RunInv, RunShaped
<1> HIDE DEF q
<1>2. Run!ToUndo(q, wf) = Run!ToUndo(r, wf)
  BY <1>1, SameToUndo
<1>3. RunShaped(q, wf)
  BY <1>1 DEF RunInv, RunShaped
<1>4. RunPlaced(q, wf)
  BY <1>1, <1>2 DEF RunInv, RunPlaced
<1>5. TurnsBack(r, q, wf)
  BY <1>1 DEF TurnsBack, RunInv, RunPlaced
<1> QED BY <1>3, <1>4, <1>5 DEF RunInv, q

\* A failed step ends the run, or the run turns back.
LEMMA RunFailed ==
    ASSUME NEW wf, Workable(wf), NEW r, RunInv(r, wf), r.end = "none",
           r.pc \in {"effect", "landed", "verify"}, NEW class
    PROVE  LET q == Run!Failed(r, wf, class) IN
           RunInv(q, wf) /\ (FailsSafe(r, q, wf, class) \/ TurnsBack(r, q, wf))
<1> DEFINE q == Run!Failed(r, wf, class)
           others == Run!ToUndo(r, wf) \ {r.at}
<1>1. /\ r.way = "forward" /\ r.undone = {} /\ r.at \in 1..Len(wf.steps) /\ r.row # "PENDING"
      /\ DOMAIN wf.steps = 1..Len(wf.steps)
  BY DEF RunInv, RunPlaced, RunShaped, Workable
<1>2. Run!Flagged(wf, r.at, "undo") => r.at \in Run!ToUndo(r, wf)
  BY <1>1 DEF Run!ToUndo, Workable
<1>3. CASE /\ (class \notin {"ABSENT", "DISCARDABLE"} \/ others # {})
           /\ ~ Run!Flagged(wf, r.at, "forward") /\ "finalizer" \notin wf.traits
           /\ (others # {} \/ Run!Flagged(wf, r.at, "undo"))
  <2> DEFINE left == Run!ToUndo(r, wf) \cup IF Run!Flagged(wf, r.at, "undo") THEN {r.at} ELSE {}
  <2>1. q = [r EXCEPT !.way = "rolling", !.pc = "undo", !.todo = left]
    BY <1>3 DEF Run!Failed, Run!RollingBack
  <2>2. left = Run!ToUndo(r, wf)
    BY <1>2
  <2> HIDE DEF q, left
  <2>3. LET p == [r EXCEPT !.way = "rolling", !.pc = "undo", !.todo = left] IN
        RunInv(p, wf) /\ TurnsBack(r, p, wf)
    BY <1>1, <2>2, RunTurnsBack
  <2>4. RunInv(q, wf) /\ TurnsBack(r, q, wf)
    BY <2>1, <2>3
  <2> QED BY <2>4 DEF q
<1>4. CASE ~ /\ (class \notin {"ABSENT", "DISCARDABLE"} \/ others # {})
             /\ ~ Run!Flagged(wf, r.at, "forward") /\ "finalizer" \notin wf.traits
             /\ (others # {} \/ Run!Flagged(wf, r.at, "undo"))
  <2>1. q = Run!Ended(r, "FAILED_SAFE")
    BY <1>4 DEF Run!Failed
  <2> HIDE DEF q
  <2>2. RunInv(q, wf) /\ Stays(r, q) /\ q.pc = "down" /\ q.end = "FAILED_SAFE"
    BY <2>1, RunEnds
  <2>3. FailsSafe(r, q, wf, class)
    BY <1>1, <1>4, <2>2 DEF FailsSafe
  <2> QED BY <2>2, <2>3 DEF q
<1> QED BY <1>3, <1>4

LEMMA RunRejected ==
    ASSUME NEW wf, Workable(wf), NEW r, RunInv(r, wf), r.end = "none",
           r.pc \in {"effect", "landed", "verify", "reverify"}, NEW class
    PROVE  LET q == Run!Rejected(r, wf, class) IN
           RunInv(q, wf) /\ (FailsSafe(r, q, wf, class) \/ TurnsBack(r, q, wf) \/ Stops(r, q))
<1>1. CASE r.pc = "reverify"
  BY <1>1, RunCrashes DEF Run!Rejected
<1>2. CASE r.pc # "reverify"
  BY <1>2, RunFailed DEF Run!Rejected
<1> QED BY <1>1, <1>2

\* An interrupted step is judged by its probe.
LEMMA RunDecided ==
    ASSUME NEW wf, Workable(wf), NEW r, RunInv(r, wf), r.end = "none", r.pc = "probe",
           NEW class \in Answers
    PROVE  LET q == Run!Decided(r, wf, class) IN
           RunInv(q, wf) /\ (GoesOn(r, q) \/ TurnsBack(r, q, wf) \/ Stops(r, q))
<1> DEFINE q == Run!Decided(r, wf, class)
           decision == Run!DecideRecovery(class, Run!Flagged(wf, r.at, "quiescent"))
           left == Run!ToUndo(r, wf) \cup {}
<1>1. /\ decision \in {"VERIFY", "EXECUTE", "RESUME", "DISCARD_AND_RETRY", "ROLL_BACK", "PAUSE",
                     "REQUIRE_RECOVERY"}
  <2>1. \/ class = "UNCERTAIN_MANUAL" \/ class = "ABSENT" \/ class = "COMPLETE"
        \/ class = "PARTIALLY_RESUMABLE" \/ class = "DISCARDABLE" \/ class = "REVERTIBLE"
    BY DEF Answers
  <2> QED BY <2>1 DEF Run!DecideRecovery
<1> HIDE DEF decision
<1>2. \/ q = [Run!Applied(r) EXCEPT !.pc = "reverify"]
      \/ q = [r EXCEPT !.pc = "effect"]
      \/ q = [r EXCEPT !.way = "rolling", !.pc = "undo", !.todo = left]
      \/ q = Run!Crashed(r)
      \/ q = Run!Ended(r, "RECOVERY_REQUIRED")
  BY <1>1 DEF Run!Decided, Run!RollingBack, decision
<1> HIDE DEF q, left
<1>3. CASE q = [Run!Applied(r) EXCEPT !.pc = "reverify"]
  BY <1>3, RunApplied DEF q
<1>4. CASE q = [r EXCEPT !.pc = "effect"]
  BY <1>4, RunApplied DEF q
<1>5. CASE q = [r EXCEPT !.way = "rolling", !.pc = "undo", !.todo = left]
  <2>1. r.way = "forward" /\ left = Run!ToUndo(r, wf)
    BY DEF RunInv, RunPlaced, left
  <2>2. LET p == [r EXCEPT !.way = "rolling", !.pc = "undo", !.todo = left] IN
        RunInv(p, wf) /\ TurnsBack(r, p, wf)
    BY <2>1, RunTurnsBack
  <2>3. RunInv(q, wf) /\ TurnsBack(r, q, wf)
    BY <1>5, <2>2
  <2> QED BY <2>3 DEF q
<1>6. CASE q = Run!Crashed(r)
  BY <1>6, RunCrashes DEF q
<1>7. CASE q = Run!Ended(r, "RECOVERY_REQUIRED")
  <2>1. RunInv(q, wf) /\ Stops(r, q)
    BY <1>7, RunEnds DEF Stops
  <2> QED BY <2>1 DEF q
<1> QED BY <1>2, <1>3, <1>4, <1>5, <1>6, <1>7

\* A cancellation between two steps.
LEMMA RunCancelled ==
    ASSUME NEW wf, NEW r, RunInv(r, wf), Run!Cancellable(r, wf)
    PROVE  LET q == Run!Cancelled(r, wf) IN
           RunInv(q, wf) /\ (CancelsAtOnce(r, q, wf) \/ TurnsBack(r, q, wf))
<1> DEFINE q == Run!Cancelled(r, wf)
           left == Run!ToUndo(r, wf)
<1>1. r.end = "none" /\ r.way = "forward"
  BY DEF Run!Cancellable, RunInv, RunPlaced
<1>2. CASE left = {} \/ "finalizer" \in wf.traits
  <2>1. q = Run!Ended(r, "CANCELLED")
    BY <1>2 DEF Run!Cancelled
  <2> HIDE DEF q
  <2>2. RunInv(q, wf) /\ CancelsAtOnce(r, q, wf)
    BY <1>1, <1>2, <2>1, RunEnds DEF CancelsAtOnce
  <2> QED BY <2>2 DEF q
<1>3. CASE ~ (left = {} \/ "finalizer" \in wf.traits)
  <2>1. q = [r EXCEPT !.way = "cancelling", !.pc = "undo", !.todo = left]
    BY <1>3 DEF Run!Cancelled
  <2> HIDE DEF q
  <2>2. LET p == [r EXCEPT !.way = "cancelling", !.pc = "undo", !.todo = left] IN
        RunInv(p, wf) /\ TurnsBack(r, p, wf)
    BY <1>1, RunTurnsBack
  <2>3. RunInv(q, wf) /\ TurnsBack(r, q, wf)
    BY <2>1, <2>2
  <2> QED BY <2>3 DEF q
<1> QED BY <1>2, <1>3

\* One compensation is proven, or fails.
LEMMA RunUndone ==
    ASSUME NEW wf, NEW r, RunInv(r, wf), r.end = "none", r.pc \in {"undo", "undoing", "undone"},
           r.todo # {}
    PROVE  RunInv(Run!Undone(r), wf) /\ UndoesOne(r, Run!Undone(r))
<1> DEFINE q == Run!Undone(r)
<1>1. /\ q.at = r.at /\ q.row = r.row /\ q.way = r.way /\ q.undone = r.undone \cup {Run!Latest(r)}
      /\ q.pc = "undo" /\ q.bad = r.bad /\ q.end = "none" /\ q.todo = r.todo \ {Run!Latest(r)}
      /\ DOMAIN q = DOMAIN r
  BY DEF Run!Undone, RunInv, RunShaped
<1> HIDE DEF q
<1>2. Run!ToUndo(q, wf) = Run!ToUndo(r, wf) \ {Run!Latest(r)}
  BY <1>1 DEF Run!ToUndo
<1>3. RunShaped(q, wf)
  BY <1>1 DEF RunInv, RunShaped
<1>4. RunPlaced(q, wf)
  BY <1>1, <1>2 DEF RunInv, RunPlaced
<1>5. UndoesOne(r, q)
  BY <1>1 DEF UndoesOne, RunInv, RunPlaced
<1> QED BY <1>3, <1>4, <1>5 DEF RunInv, q

LEMMA RunUndoFails ==
    ASSUME NEW wf, NEW r, RunInv(r, wf), r.end = "none", r.pc \in {"undo", "undoing", "undone"},
           NEW left, left \subseteq r.todo
    PROVE  LET q == [r EXCEPT !.todo = left, !.bad = TRUE, !.pc = "undo"] IN
           RunInv(q, wf) /\ GoesBack(r, q)
<1> DEFINE q == [r EXCEPT !.todo = left, !.bad = TRUE, !.pc = "undo"]
<1>1. /\ q.at = r.at /\ q.row = r.row /\ q.way = r.way /\ q.undone = r.undone
      /\ q.pc = "undo" /\ q.bad = TRUE /\ q.end = r.end /\ q.todo = left /\ DOMAIN q = DOMAIN r
  BY DEF RunInv, RunShaped
<1>2. r.way # "forward" /\ r.todo \subseteq Run!ToUndo(r, wf)
  BY DEF RunInv, RunPlaced
<1> HIDE DEF q
<1>3. RunInv(q, wf) /\ GoesBack(r, q)
  BY <1>1, <1>2, RunGoesBack
<1> QED BY <1>3 DEF q

LEMMA RunUndoFailed ==
    ASSUME NEW wf, NEW r, RunInv(r, wf), r.end = "none", r.pc \in {"undo", "undoing", "undone"}
    PROVE  RunInv(Run!UndoFailed(r), wf) /\ GoesBack(r, Run!UndoFailed(r))
<1> DEFINE left == r.todo \ {Run!Latest(r)}
<1>1. LET q == [r EXCEPT !.todo = left, !.bad = TRUE, !.pc = "undo"] IN
      RunInv(q, wf) /\ GoesBack(r, q)
  BY RunUndoFails
<1> QED BY <1>1 DEF Run!UndoFailed

\* A compensation goes on.
LEMMA RunInUndo ==
    ASSUME NEW wf, NEW r, RunInv(r, wf), r.end = "none", r.pc \in {"undo", "undoing", "undone"},
           r.todo # {}, NEW q, NEW more, NEW place \in {"undoing", "undone"},
           \/ q = [r EXCEPT !.pc = place]
           \/ q = [r EXCEPT !.begun = more, !.pc = place]
    PROVE  RunInv(q, wf) /\ GoesBack(r, q)
<1>1. /\ q.at = r.at /\ q.row = r.row /\ q.way = r.way /\ q.undone = r.undone
      /\ q.pc = place /\ q.bad = r.bad /\ q.end = r.end /\ q.todo = r.todo /\ DOMAIN q = DOMAIN r
  BY DEF RunInv, RunShaped
<1>2. /\ r.way # "forward" /\ r.todo \subseteq Run!ToUndo(r, wf)
      /\ (r.bad \/ r.todo = Run!ToUndo(r, wf))
      /\ r.bad \in BOOLEAN
  BY DEF RunInv, RunPlaced, RunShaped
<1> QED BY <1>1, <1>2, RunGoesBack

\* One turn of the compensation loop.
LEMMA RunUndoAdvanced ==
    ASSUME NEW wf, NEW r, RunInv(r, wf), r.end = "none", r.pc = "undo"
    PROVE  LET q == Run!UndoAdvanced(r) IN
           RunInv(q, wf) /\ (GoesBack(r, q) \/ HasUndone(r, q, wf) \/ Stops(r, q))
<1> DEFINE q == Run!UndoAdvanced(r)
<1>1. CASE r.todo # {}
  <2> DEFINE more == r.begun \cup {Run!Latest(r)}
  <2>1. q = [r EXCEPT !.begun = more, !.pc = "undoing"]
    BY <1>1 DEF Run!UndoAdvanced
  <2> HIDE DEF q, more
  <2>2. RunInv(q, wf) /\ GoesBack(r, q)
    BY <1>1, <2>1, RunInUndo
  <2> QED BY <2>2 DEF q
<1>2. CASE r.todo = {} /\ ~ r.bad
  <2> DEFINE ending == IF r.way = "rolling" THEN "FAILED_ROLLED_BACK" ELSE "CANCELLED"
  <2>1. q = Run!Ended(r, ending) /\ ending # "SUCCEEDED"
    BY <1>2 DEF Run!UndoAdvanced
  <2> HIDE DEF q
  <2>2. r.way # "forward" /\ Run!ToUndo(r, wf) = {}
    BY <1>2 DEF RunInv, RunPlaced
  <2>3. RunInv(q, wf) /\ Stays(r, q) /\ q.pc = "down" /\ q.end = ending
    BY <2>1, RunEnds
  <2>4. HasUndone(r, q, wf)
    BY <2>2, <2>3 DEF HasUndone
  <2> QED BY <2>3, <2>4 DEF q
<1>3. CASE r.todo = {} /\ r.bad
  <2>1. q = Run!Ended(r, "RECOVERY_REQUIRED") \/ q = Run!Crashed(r)
    BY <1>3 DEF Run!UndoAdvanced
  <2> HIDE DEF q
  <2>2. RunInv(q, wf) /\ Stops(r, q)
    BY <2>1, RunEnds, RunCrashes DEF Stops
  <2> QED BY <2>2 DEF q
<1> QED BY <1>1, <1>2, <1>3 DEF RunInv, RunShaped

LEMMA RunUndoDecided ==
    ASSUME NEW wf, NEW r, RunInv(r, wf), r.end = "none", r.pc = "undo", r.todo # {}, NEW class
    PROVE  LET q == Run!UndoDecided(r, class) IN
           RunInv(q, wf) /\ (GoesBack(r, q) \/ (UndoesOne(r, q) /\ class = "COMPLETE"))
<1> DEFINE q == Run!UndoDecided(r, class)
           left == {}
<1>1. CASE class = "COMPLETE"
  BY <1>1, RunUndone DEF Run!UndoDecided
<1>2. CASE class = "UNCERTAIN_MANUAL"
  <2>1. q = [r EXCEPT !.todo = left, !.bad = TRUE, !.pc = "undo"]
    BY <1>2 DEF Run!UndoDecided
  <2>2. LET p == [r EXCEPT !.todo = left, !.bad = TRUE, !.pc = "undo"] IN
        RunInv(p, wf) /\ GoesBack(r, p)
    BY RunUndoFails
  <2> HIDE DEF q, left
  <2>3. RunInv(q, wf) /\ GoesBack(r, q)
    BY <2>1, <2>2
  <2> QED BY <2>3 DEF q
<1>3. CASE class \notin {"COMPLETE", "UNCERTAIN_MANUAL"}
  <2>1. q = [r EXCEPT !.pc = "undoing"]
    BY <1>3 DEF Run!UndoDecided
  <2> HIDE DEF q
  <2>2. RunInv(q, wf) /\ GoesBack(r, q)
    BY <2>1, RunInUndo
  <2> QED BY <2>2 DEF q
<1> QED BY <1>1, <1>2, <1>3

-----------------------------------------------------------------------------

\* Whatever the engine does next, the run moves in one of these ways.
LEMMA RunTurns ==
    ASSUME NEW wf, Workable(wf), NEW r, RunInv(r, wf), NEW holds,
           NEW classes, r.at <= Len(wf.steps) => classes \subseteq Answers, NEW restoration,
           NEW q \in Run!Turns(r, wf, holds, classes, restoration)
    PROVE  RunInv(q, wf) /\ Moves(r, q, wf, holds, classes, restoration = "COMPLETE")
           /\ r.end = "none"
<1>1. r.end = "none"
  <2>1. r.end # "none" => Run!Turns(r, wf, holds, classes, restoration) = {}
    BY DEF Run!Turns, RunInv, RunPlaced
  <2> QED BY <2>1
<1>2. CASE r.pc = "down"
  <2>1. q = Run!Claimed(r, wf)
    BY <1>1, <1>2 DEF Run!Turns
  <2> QED BY <1>1, <1>2, <2>1, RunClaimed DEF Moves
<1>3. CASE r.pc = "next"
  <2>1. q = Run!Advanced(r, wf)
    BY <1>1, <1>3 DEF Run!Turns
  <2> QED BY <1>1, <1>3, <2>1, RunAdvanced DEF Moves
<1>4. CASE r.pc = "probe"
  <2>0. classes \subseteq Answers
    BY <1>4 DEF RunInv, RunPlaced
  <2>1. PICK class \in classes : q = Run!Decided(r, wf, class)
    BY <1>1, <1>4 DEF Run!Turns
  <2> QED BY <1>1, <1>4, <2>0, <2>1, RunDecided DEF Moves
<1>5. CASE r.pc = "landed"
  <2>1. q = Run!Applied(r)
    BY <1>1, <1>5 DEF Run!Turns
  <2> QED BY <1>1, <1>5, <2>1, RunApplied DEF Moves
<1>6. CASE r.pc \in {"verify", "reverify"}
  <2>1. CASE holds
    <3>1. q = Run!Verified(r)
      BY <1>1, <1>6, <2>1 DEF Run!Turns
    <3> QED BY <1>1, <1>6, <2>1, <3>1, RunVerified DEF Moves
  <2>2. CASE ~ holds
    <3>1. PICK class \in classes : q = Run!Rejected(r, wf, class)
      BY <1>1, <1>6, <2>2 DEF Run!Turns
    <3> QED BY <1>1, <1>6, <3>1, RunRejected DEF Moves
  <2> QED BY <2>1, <2>2
<1>7. CASE r.pc = "undo"
  <2>1. \/ q = Run!UndoDecided(r, restoration) /\ r.todo # {}
        \/ q = Run!UndoAdvanced(r)
    BY <1>1, <1>7 DEF Run!Turns, Run!Interrupted
  <2>2. CASE q = Run!UndoDecided(r, restoration) /\ r.todo # {}
    BY <1>1, <1>7, <2>2, RunUndoDecided DEF Moves
  <2>3. CASE q = Run!UndoAdvanced(r)
    BY <1>1, <1>7, <2>3, RunUndoAdvanced DEF Moves
  <2> QED BY <2>1, <2>2, <2>3
<1>8. CASE r.pc \in {"effect", "undoing", "undone"}
  <2>1. Run!Turns(r, wf, holds, classes, restoration) = {}
    BY <1>1, <1>8 DEF Run!Turns
  <2> QED BY <2>1
<1> QED BY <1>1, <1>2, <1>3, <1>4, <1>5, <1>6, <1>7, <1>8 DEF RunInv, RunShaped

\* Whatever goes wrong, it stops, fails or turns back.
LEMMA RunMishaps ==
    ASSUME NEW wf, Workable(wf), NEW r, RunInv(r, wf), NEW classes,
        NEW q \in Run!Mishaps(r, wf, classes)
    PROVE  /\ RunInv(q, wf) /\ Moves(r, q, wf, FALSE, classes \cup {"UNCERTAIN_MANUAL"}, FALSE)
           /\ r.end = "none"
<1>1. r.end = "none"
  BY DEF Run!Mishaps
<1>2. \/ q = Run!Crashed(r)
      \/ /\ r.pc \in {"effect", "landed", "verify", "reverify"}
         /\ \E class \in classes \cup {"UNCERTAIN_MANUAL"} : q = Run!Rejected(r, wf, class)
      \/ r.pc = "undoing" /\ q = Run!UndoFailed(r)
  BY DEF Run!Mishaps
<1>3. CASE q = Run!Crashed(r)
  BY <1>1, <1>3, RunCrashes DEF Moves
<1>4. CASE /\ r.pc \in {"effect", "landed", "verify", "reverify"}
           /\ \E class \in classes \cup {"UNCERTAIN_MANUAL"} : q = Run!Rejected(r, wf, class)
  <2>1. PICK class \in classes \cup {"UNCERTAIN_MANUAL"} : q = Run!Rejected(r, wf, class)
    BY <1>4
  <2> QED BY <1>1, <1>4, <2>1, RunRejected DEF Moves
<1>5. CASE r.pc = "undoing" /\ q = Run!UndoFailed(r)
  BY <1>1, <1>5, RunUndoFailed DEF Moves
<1> QED BY <1>1, <1>2, <1>3, <1>4, <1>5

\* A turn lands no effect; it checkpoints a step only after its effect or as its probe says.
Lands(r, q, classes) ==
    /\ q.pc # "landed"
    /\ q.row = "CHECKPOINTED" =>
          r.row = "CHECKPOINTED" \/ r.pc = "landed" \/ "COMPLETE" \in classes

LEMMA TurnsLand ==
    ASSUME NEW wf, NEW r, RunInv(r, wf), NEW holds, NEW classes,
           r.at <= Len(wf.steps) => classes \subseteq Answers, NEW restoration,
           NEW q \in Run!Turns(r, wf, holds, classes, restoration)
    PROVE  Lands(r, q, classes)
<1> USE DEF Lands
<1>0. DOMAIN r = {"at", "row", "way", "begun", "undone", "pc", "todo", "bad", "end"}
  BY DEF RunInv, RunShaped
<1>1. r.end = "none"
  <2>1. r.end # "none" => Run!Turns(r, wf, holds, classes, restoration) = {}
    BY DEF Run!Turns, RunInv, RunPlaced
  <2> QED BY <2>1
<1>2. CASE r.pc = "down"
  <2>1. q = Run!Claimed(r, wf)
    BY <1>1, <1>2 DEF Run!Turns
  <2> QED BY <1>0, <2>1 DEF Run!Claimed
<1>3. CASE r.pc = "next"
  <2>1. q = Run!Advanced(r, wf)
    BY <1>1, <1>3 DEF Run!Turns
  <2>2. /\ r.at > Len(wf.steps) \/ r.at <= Len(wf.steps)
        /\ r.row \in {"PENDING", "RUNNING", "CHECKPOINTED"}
    BY DEF RunInv, RunShaped
  <2> QED BY <1>0, <1>3, <2>1, <2>2 DEF Run!Advanced, Run!Ended
<1>4. CASE r.pc = "probe"
  <2>0. classes \subseteq Answers
    BY <1>4 DEF RunInv, RunPlaced
  <2>1. PICK class \in classes : q = Run!Decided(r, wf, class)
    BY <1>1, <1>4 DEF Run!Turns
  <2>2. \/ class = "UNCERTAIN_MANUAL" \/ class = "ABSENT" \/ class = "COMPLETE"
        \/ class = "PARTIALLY_RESUMABLE" \/ class = "DISCARDABLE" \/ class = "REVERTIBLE"
    BY <2>0 DEF Answers
  <2>3. CASE class = "COMPLETE"
    <3>1. q = [Run!Applied(r) EXCEPT !.pc = "reverify"]
      BY <2>1, <2>3 DEF Run!Decided, Run!DecideRecovery
    <3> QED BY <1>0, <2>3, <3>1 DEF Run!Applied
  <2>4. CASE class # "COMPLETE"
    <3>1. \/ q = [r EXCEPT !.pc = "effect"] \/ q = Run!Crashed(r)
              \/ q = Run!Ended(r, "RECOVERY_REQUIRED")
          \/ q = Run!RollingBack(r, wf, {})
      BY <2>1, <2>2, <2>4 DEF Run!Decided, Run!DecideRecovery
    <3> QED BY <1>0, <3>1 DEF Run!Crashed, Run!Ended, Run!RollingBack
  <2> QED BY <2>3, <2>4
<1>5. CASE r.pc = "landed"
  <2>1. q = Run!Applied(r)
    BY <1>1, <1>5 DEF Run!Turns
  <2> QED BY <1>0, <1>5, <2>1 DEF Run!Applied
<1>6. CASE r.pc \in {"verify", "reverify"}
  <2>1. r.row = "CHECKPOINTED"
    BY <1>6 DEF RunInv, RunPlaced
  <2>2. q = Run!Verified(r) \/ \E class \in classes : q = Run!Rejected(r, wf, class)
    BY <1>1, <1>6 DEF Run!Turns
  <2>3. q.pc # "landed"
    BY <1>0, <2>2 DEF Run!Verified, Run!Rejected, Run!Failed, Run!Crashed, Run!Ended,
       Run!RollingBack
  <2> QED BY <2>1, <2>3
<1>7. CASE r.pc = "undo"
  <2>1. q = Run!UndoDecided(r, restoration) \/ q = Run!UndoAdvanced(r)
    BY <1>1, <1>7 DEF Run!Turns
  <2>2. /\ Run!UndoDecided(r, restoration).pc # "landed"
        /\ Run!UndoDecided(r, restoration).row = r.row
    BY <1>0 DEF Run!UndoDecided, Run!Undone
  <2>3. Run!UndoAdvanced(r).pc # "landed" /\ Run!UndoAdvanced(r).row = r.row
    BY <1>0 DEF Run!UndoAdvanced, Run!Ended, Run!Crashed
  <2> QED BY <2>1, <2>2, <2>3
<1>8. CASE r.pc \in {"effect", "undoing", "undone"}
  <2>1. Run!Turns(r, wf, holds, classes, restoration) = {}
    BY <1>1, <1>8 DEF Run!Turns
  <2> QED BY <2>1
<1> QED BY <1>2, <1>3, <1>4, <1>5, <1>6, <1>7, <1>8 DEF RunInv, RunShaped

\* A mishap carries nothing further.
LEMMA MishapsStay ==
    ASSUME NEW wf, NEW r, RunInv(r, wf), NEW classes, NEW q \in Run!Mishaps(r, wf, classes)
    PROVE  q.pc \notin {"landed", "effect"} /\ q.at = r.at /\ q.row = r.row
<1>0. DOMAIN r = {"at", "row", "way", "begun", "undone", "pc", "todo", "bad", "end"}
  BY DEF RunInv, RunShaped
<1>1. \/ q = Run!Crashed(r) \/ q = Run!UndoFailed(r)
      \/ \E class \in classes \cup {"UNCERTAIN_MANUAL"} : q = Run!Rejected(r, wf, class)
  BY DEF Run!Mishaps
<1> QED BY <1>0, <1>1 DEF Run!Crashed, Run!UndoFailed, Run!Rejected, Run!Failed, Run!Ended,
      Run!RollingBack

\* A turn enters a step that has not begun or that its probe allows to execute, and leaves
\* an interrupted one only as its probe says.
Begins(r, q, classes) ==
    /\ q.pc = "effect" =>
          r.row = "PENDING" \/ classes \cap {"ABSENT", "PARTIALLY_RESUMABLE", "DISCARDABLE"} # {}
    /\ q.row = "RUNNING" => r.row # "CHECKPOINTED"
    /\ r.way = "forward" /\ r.row = "RUNNING" /\ r.pc # "landed" =>
          \/ q.row = "RUNNING" /\ q.way = "forward" /\ q.at = r.at
              /\ q.end \in {"none", "RECOVERY_REQUIRED"}
          \/ classes \cap {"COMPLETE", "REVERTIBLE"} # {}

LEMMA TurnsBegin ==
    ASSUME NEW wf, NEW r, RunInv(r, wf), NEW holds, NEW classes,
           r.at <= Len(wf.steps) => classes \subseteq Answers, NEW restoration,
           NEW q \in Run!Turns(r, wf, holds, classes, restoration)
    PROVE  Begins(r, q, classes)
<1> USE DEF Begins
<1>0. DOMAIN r = {"at", "row", "way", "begun", "undone", "pc", "todo", "bad", "end"}
  BY DEF RunInv, RunShaped
<1>1. r.end = "none"
  <2>1. r.end # "none" => Run!Turns(r, wf, holds, classes, restoration) = {}
    BY DEF Run!Turns, RunInv, RunPlaced
  <2> QED BY <2>1
<1>2. CASE r.pc = "down"
  <2>1. q = Run!Claimed(r, wf)
    BY <1>1, <1>2 DEF Run!Turns
  <2> QED BY <1>0, <1>1, <2>1 DEF Run!Claimed
<1>3. CASE r.pc = "next"
  <2>1. q = Run!Advanced(r, wf)
    BY <1>1, <1>3 DEF Run!Turns
  <2>2. /\ r.at > Len(wf.steps) => r.row = "PENDING"
        /\ r.at > Len(wf.steps) \/ r.at <= Len(wf.steps)
        /\ r.row \in {"PENDING", "RUNNING", "CHECKPOINTED"}
    BY DEF RunInv, RunShaped, RunPlaced
  <2>3. CASE r.row = "PENDING"
    BY <1>0, <1>3, <2>1, <2>2, <2>3 DEF Run!Advanced, Run!Ended
  <2>4. CASE r.row = "RUNNING"
    BY <1>0, <1>1, <1>3, <2>1, <2>2, <2>4 DEF Run!Advanced, Run!Ended
  <2>5. CASE r.row = "CHECKPOINTED"
    BY <1>0, <1>3, <2>1, <2>2, <2>5 DEF Run!Advanced, Run!Ended
  <2> QED BY <2>2, <2>3, <2>4, <2>5
<1>4. CASE r.pc = "probe"
  <2>0. classes \subseteq Answers /\ r.row = "RUNNING"
    BY <1>4 DEF RunInv, RunPlaced
  <2>1. PICK class \in classes : q = Run!Decided(r, wf, class)
    BY <1>1, <1>4 DEF Run!Turns
  <2>2. \/ class = "UNCERTAIN_MANUAL" \/ class = "ABSENT" \/ class = "COMPLETE"
        \/ class = "PARTIALLY_RESUMABLE" \/ class = "DISCARDABLE" \/ class = "REVERTIBLE"
    BY <2>0 DEF Answers
  <2>3. CASE class = "COMPLETE"
    <3>1. q = [Run!Applied(r) EXCEPT !.pc = "reverify"]
      BY <2>1, <2>3 DEF Run!Decided, Run!DecideRecovery
    <3> QED BY <1>0, <2>0, <2>1, <2>3, <3>1 DEF Run!Applied
  <2>4. CASE class = "REVERTIBLE"
    <3>1. q = Run!RollingBack(r, wf, {})
      BY <2>1, <2>4 DEF Run!Decided, Run!DecideRecovery
    <3> QED BY <1>0, <2>0, <2>1, <2>4, <3>1 DEF Run!RollingBack
  <2>5. CASE class = "UNCERTAIN_MANUAL"
    <3>1. q = Run!Crashed(r) \/ q = Run!Ended(r, "RECOVERY_REQUIRED")
      BY <2>1, <2>5 DEF Run!Decided, Run!DecideRecovery
    <3> QED BY <1>0, <1>1, <2>0, <3>1 DEF Run!Crashed, Run!Ended
  <2>6. CASE class \in {"ABSENT", "PARTIALLY_RESUMABLE", "DISCARDABLE"}
    <3>1. q = [r EXCEPT !.pc = "effect"]
      BY <2>1, <2>6 DEF Run!Decided, Run!DecideRecovery
    <3> QED BY <1>0, <1>1, <2>0, <2>1, <2>6, <3>1
  <2> QED BY <2>2, <2>3, <2>4, <2>5, <2>6
<1>5. CASE r.pc = "landed"
  <2>1. q = Run!Applied(r)
    BY <1>1, <1>5 DEF Run!Turns
  <2> QED BY <1>0, <1>5, <2>1 DEF Run!Applied
<1>6. CASE r.pc \in {"verify", "reverify"}
  <2>1. r.row = "CHECKPOINTED"
    BY <1>6 DEF RunInv, RunPlaced
  <2>2. q = Run!Verified(r) \/ \E class \in classes : q = Run!Rejected(r, wf, class)
    BY <1>1, <1>6 DEF Run!Turns
  <2>3. q.pc # "effect" /\ q.row # "RUNNING"
    BY <1>0, <2>1, <2>2 DEF Run!Verified, Run!Rejected, Run!Failed, Run!Crashed, Run!Ended,
       Run!RollingBack
  <2> QED BY <2>1, <2>3
<1>7. CASE r.pc = "undo"
  <2>0. r.way # "forward"
    BY <1>7 DEF RunInv, RunPlaced
  <2>1. q = Run!UndoDecided(r, restoration) \/ q = Run!UndoAdvanced(r)
    BY <1>1, <1>7 DEF Run!Turns
  <2>2. /\ Run!UndoDecided(r, restoration).pc # "effect"
        /\ Run!UndoDecided(r, restoration).row = r.row
    BY <1>0 DEF Run!UndoDecided, Run!Undone
  <2>3. Run!UndoAdvanced(r).pc # "effect" /\ Run!UndoAdvanced(r).row = r.row
    BY <1>0 DEF Run!UndoAdvanced, Run!Ended, Run!Crashed
  <2> QED BY <2>0, <2>1, <2>2, <2>3
<1>8. CASE r.pc \in {"effect", "undoing", "undone"}
  <2>1. Run!Turns(r, wf, holds, classes, restoration) = {}
    BY <1>1, <1>8 DEF Run!Turns
  <2> QED BY <2>1
<1> QED BY <1>2, <1>3, <1>4, <1>5, <1>6, <1>7, <1>8 DEF RunInv, RunShaped

-----------------------------------------------------------------------------
(* The trees of a storage cleanup                                          *)

\* The reversible steps that have begun.
BegunSteps(r) == {i \in {2, 3} : i < r.at \/ (i = r.at /\ r.row # "PENDING")}

Outcomes == {"COMPLETE", "ABSENT", "PARTIALLY_RESUMABLE", "UNCERTAIN_MANUAL"}

\* Where a run may go from r: on by a step only if its result holds, and to an end that
\* takes back only if everything was taken back or nothing had begun.
Follows(r, q, holds, back) ==
    /\ RunInv(q, Cleanup!Wf)
    /\ q.way = "forward" => r.way = "forward"
    /\ \/ q.at = r.at /\ (q.row = "PENDING" => r.row = "PENDING")
       \/ q.at = r.at + 1 /\ holds
    /\ q.undone # {} => r.undone # {} \/ back
    /\ q.end \in {"FAILED_ROLLED_BACK", "CANCELLED"} => r.undone # {} \/ BegunSteps(r) = {}

-----------------------------------------------------------------------------

LEMMA StepsOfCleanup ==
    ASSUME mode \in Cleanup!Modes
    PROVE  /\ Len(Cleanup!Wf.steps) = 4 /\ DOMAIN Cleanup!Wf.steps = 1..4
           /\ "finalizer" \notin Cleanup!Wf.traits
           /\ \A i \in 1..4 :
                 /\ Run!Flagged(Cleanup!Wf, i, "undo") <=> i \in {2, 3}
                 /\ Run!Flagged(Cleanup!Wf, i, "forward") <=> i = 4
                 /\ i \in {2, 3} => Run!Flagged(Cleanup!Wf, i, "visible")
                 /\ ~ Run!Flagged(Cleanup!Wf, i, "quiescent")
<1> DEFINE Inert(s) == [s EXCEPT !.flags = @ \cup {"inert"}, !.probe = {"COMPLETE"},
                                 !.restored = IF @ = {} THEN {} ELSE {"COMPLETE"}]
           ModeStep(m, s) == IF m = mode THEN s ELSE Inert(s)
           q == Cleanup!W!Mutation(Cleanup!W!Cleanup, Cleanup!W!Resumable, Cleanup!W!Resumable)
           p == Cleanup!W!StepDefinition(Cleanup!W!Cleanup,
               {"visible", "critical", "forward", "ambiguous"},
                                 Cleanup!W!Resumable, {})
<1>1. Cleanup!Wf = [steps |-> <<Cleanup!W!Plain(Cleanup!W!Cleanup, Cleanup!W!Present),
        ModeStep("QUARANTINE", q),
                        ModeStep("RESTORE", q), ModeStep("PURGE", p)>>,
            traits |-> {}, barrier |-> {}]
  BY DEF Cleanup!Wf, Cleanup!W!StorageCleanup, Cleanup!W!WorkflowDefinition
<1>2. q.flags = {"visible", "critical", "undo"}
      /\ p.flags = {"visible", "critical", "forward", "ambiguous"}
      /\ Cleanup!W!Plain(Cleanup!W!Cleanup, Cleanup!W!Present).flags = {}
  BY DEF Cleanup!W!Mutation, Cleanup!W!StepDefinition, Cleanup!W!Plain
<1>3. \A m \in Cleanup!Modes : /\ ModeStep(m, q).flags \in {q.flags, q.flags \cup {"inert"}}
                               /\ ModeStep(m, p).flags \in {p.flags, p.flags \cup {"inert"}}
  BY DEF Cleanup!W!Mutation, Cleanup!W!StepDefinition
<1> HIDE DEF ModeStep, q, p
<1>4. "QUARANTINE" \in Cleanup!Modes /\ "RESTORE" \in Cleanup!Modes /\ "PURGE" \in Cleanup!Modes
  BY DEF Cleanup!Modes
<1>5. /\ Len(Cleanup!Wf.steps) = 4 /\ DOMAIN Cleanup!Wf.steps = 1..4 /\ Cleanup!Wf.traits = {}
      /\ Cleanup!Wf.steps[1].flags = {}
      /\ Cleanup!Wf.steps[2].flags = ModeStep("QUARANTINE", q).flags
      /\ Cleanup!Wf.steps[3].flags = ModeStep("RESTORE", q).flags
      /\ Cleanup!Wf.steps[4].flags = ModeStep("PURGE", p).flags
  BY <1>1, <1>2
<1> HIDE DEF Cleanup!Wf
<1>6. /\ Cleanup!Wf.steps[2].flags \in {q.flags, q.flags \cup {"inert"}}
      /\ Cleanup!Wf.steps[3].flags \in {q.flags, q.flags \cup {"inert"}}
      /\ Cleanup!Wf.steps[4].flags \in {p.flags, p.flags \cup {"inert"}}
  BY <1>3, <1>4, <1>5
<1>7. ASSUME NEW i \in 1..4 PROVE i = 1 \/ i = 2 \/ i = 3 \/ i = 4
  OBVIOUS
<1> QED BY <1>2, <1>5, <1>6, <1>7 DEF Run!Flagged

LEMMA CleanupWorkable ==
    ASSUME mode \in Cleanup!Modes
    PROVE  Workable(Cleanup!Wf)
<1> HIDE DEF Cleanup!Wf
<1> QED BY StepsOfCleanup DEF Workable

LEMMA WhatToUndo ==
    ASSUME mode \in Cleanup!Modes, NEW r, RunInv(r, Cleanup!Wf)
    PROVE  Run!ToUndo(r, Cleanup!Wf) = BegunSteps(r) \ r.undone
<1> HIDE DEF Cleanup!Wf
<1>1. \A i : i \in Run!ToUndo(r, Cleanup!Wf) <=> i \in BegunSteps(r) \ r.undone
  BY StepsOfCleanup DEF Run!ToUndo, BegunSteps, RunInv, RunShaped
<1> QED BY <1>1

LEMMA CleanupPlace ==
    ASSUME mode \in Cleanup!Modes, NEW r, RunInv(r, Cleanup!Wf)
    PROVE  /\ r.at \in 1..5 /\ r.row \in {"PENDING", "RUNNING", "CHECKPOINTED"}
           /\ r.end # "none" => r.pc = "down"
           /\ r.end = "SUCCEEDED" => r.way = "forward" /\ r.at = 5
           /\ r.pc = "effect" => r.at \in 1..4 /\ r.row = "RUNNING" /\ r.way = "forward"
           /\ r.pc = "undoing" => r.way # "forward" /\ r.todo # {}
<1> HIDE DEF Cleanup!Wf
<1>1. Len(Cleanup!Wf.steps) = 4
  BY StepsOfCleanup
<1> QED BY <1>1 DEF RunInv, RunShaped, RunPlaced

LEMMA MovesFollow ==
    ASSUME mode \in Cleanup!Modes, NEW r, RunInv(r, Cleanup!Wf), NEW q, RunInv(q, Cleanup!Wf),
           NEW holds, NEW classes, NEW back, Moves(r, q, Cleanup!Wf, holds, classes, back)
    PROVE  Follows(r, q, holds, back)
<1> HIDE DEF Cleanup!Wf
<1>1. "finalizer" \notin Cleanup!Wf.traits
  BY StepsOfCleanup
<1>2. Run!ToUndo(r, Cleanup!Wf) = {} => r.undone # {} \/ BegunSteps(r) = {}
  BY WhatToUndo
<1> USE DEF Follows, Stays
<1>3. CASE Stops(r, q) \/ GoesOn(r, q) \/ Succeeds(r, q, Cleanup!Wf)
        \/ TurnsBack(r, q, Cleanup!Wf)
  BY <1>3 DEF Stops, GoesOn, Succeeds, TurnsBack
<1>4. CASE Verifies(r, q) /\ holds
  BY <1>4 DEF Verifies
<1>5. CASE \E class \in classes : FailsSafe(r, q, Cleanup!Wf, class)
  BY <1>5 DEF FailsSafe
<1>6. CASE CancelsAtOnce(r, q, Cleanup!Wf)
  BY <1>1, <1>2, <1>6 DEF CancelsAtOnce
<1>7. CASE GoesBack(r, q)
  BY <1>7 DEF GoesBack
<1>8. CASE HasUndone(r, q, Cleanup!Wf)
  BY <1>2, <1>8 DEF HasUndone
<1>9. CASE UndoesOne(r, q) /\ back
  BY <1>9 DEF UndoesOne
<1> QED BY <1>3, <1>4, <1>5, <1>6, <1>7, <1>8, <1>9 DEF Moves

\* The definitions of StepRun are the same in both modules.
LEMMA SameCleanupTurns ==
    ASSUME NEW r, NEW wf, NEW holds, NEW classes, NEW restoration
    PROVE  Cleanup!Turns(r, wf, holds, classes, restoration) = Run!Turns(r, wf, holds, classes,
        restoration)
  BY DEF Cleanup!Turns, Cleanup!Claimed, Cleanup!Advanced, Cleanup!Ended, Cleanup!Crashed,
     Cleanup!Applied, Cleanup!Verified, Cleanup!RollingBack, Cleanup!Decided, Cleanup!Failed,
         Cleanup!Rejected, Cleanup!Latest, Cleanup!UndoAdvanced, Cleanup!Interrupted,
         Cleanup!Undone, Cleanup!UndoDecided, Cleanup!ToUndo, Cleanup!Flagged,
         Cleanup!DecideRecovery,
         Run!Turns, Run!Claimed, Run!Advanced, Run!Ended, Run!Crashed, Run!Applied, Run!Verified,
         Run!RollingBack, Run!Decided, Run!Failed, Run!Rejected, Run!Latest, Run!UndoAdvanced,
         Run!Interrupted, Run!Undone, Run!UndoDecided, Run!ToUndo, Run!Flagged, Run!DecideRecovery

LEMMA SameCleanupMishaps ==
    ASSUME NEW r, NEW wf, NEW classes
    PROVE  Cleanup!Mishaps(r, wf, classes) = Run!Mishaps(r, wf, classes)
  BY DEF Cleanup!Mishaps, Cleanup!Ended, Cleanup!Crashed, Cleanup!RollingBack, Cleanup!Failed,
     Cleanup!Rejected, Cleanup!Latest, Cleanup!UndoFailed, Cleanup!ToUndo, Cleanup!Flagged,
         Run!Mishaps, Run!Ended, Run!Crashed, Run!RollingBack, Run!Failed, Run!Rejected,
         Run!Latest,
         Run!UndoFailed, Run!ToUndo, Run!Flagged

LEMMA SameCleanupMoments ==
    ASSUME NEW r, NEW wf, NEW class, NEW ending
    PROVE  /\ Cleanup!Cancellable(r, wf) = Run!Cancellable(r, wf)
           /\ Cleanup!Cancelled(r, wf) = Run!Cancelled(r, wf)
           /\ Cleanup!Failed(r, wf, class) = Run!Failed(r, wf, class)
           /\ Cleanup!Applied(r) = Run!Applied(r) /\ Cleanup!Landed(r) = Run!Landed(r)
           /\ Cleanup!Undone(r) = Run!Undone(r) /\ Cleanup!UndoFailed(r) = Run!UndoFailed(r)
           /\ Cleanup!Crashed(r) = Run!Crashed(r)
           /\ Cleanup!Ended(r, ending) = Run!Ended(r, ending)
  BY DEF Cleanup!Cancellable, Cleanup!Cancelled, Cleanup!Ended, Cleanup!Failed,
     Cleanup!RollingBack, Cleanup!Applied, Cleanup!Landed, Cleanup!Undone, Cleanup!UndoFailed,
         Cleanup!Latest, Cleanup!ToUndo, Cleanup!Flagged,
         Run!Cancellable, Run!Cancelled, Run!Ended, Run!Failed, Run!RollingBack, Run!Applied,
         Run!Landed, Run!Undone, Run!UndoFailed, Run!Latest, Run!ToUndo, Run!Flagged,
         Cleanup!Crashed,
         Run!Crashed

-----------------------------------------------------------------------------

Places == {None, "tree", "other"}

\* The step that does the work of the mode.
ModeAt == IF mode = "QUARANTINE" THEN 2 ELSE IF mode = "RESTORE" THEN 3 ELSE 4

AllHome == \A t \in Targets : Cleanup!Moved(Cleanup!Away, Cleanup!Home, t)

\* What CleanupAgrees says of a success.
AllDone ==
    \A t \in Targets :
        CASE mode = "PURGE"  -> \/ quarantine[t] = None /\ receipt[t] = "PURGED"
                                \/ quarantine[t] # None /\ receipt[t] = "PURGE_RETAINED"
          [] mode # "PURGE" -> /\ Cleanup!Moved(Cleanup!Home, Cleanup!Away, t)
                               /\ receipt[t] = IF mode = "RESTORE" THEN "RESTORED"
                                   ELSE "QUARANTINED"

\* A tree leaves its place only for the other one, or expired and for good.
InOnePlace(t) ==
    IF mode = "PURGE" THEN staging[t] = None /\ (quarantine[t] # None \/ expired)
    ELSE staging[t] = None <=> quarantine[t] # None

TreesShaped ==
    /\ mode \in Cleanup!Modes /\ expired \in BOOLEAN
    /\ staging \in [Targets -> Places] /\ quarantine \in [Targets -> Places]
    /\ DOMAIN receipt = Targets /\ todo \subseteq Targets

\* No tree has moved: before the first reversible step, once one was undone, and after
\* an end that took all back.
Unmoved ==
    \/ BegunSteps(run) = {}
    \/ run.undone # {}
    \/ run.end \in {"FAILED_ROLLED_BACK", "CANCELLED"}

TreesPlaced ==
    /\ \A t \in Targets : InOnePlace(t)
    /\ Unmoved => AllHome
    /\ run.way = "forward" /\ run.at > ModeAt => AllDone

CleanupInv == RunInv(run, Cleanup!Wf) /\ TreesShaped /\ TreesPlaced

-----------------------------------------------------------------------------

LEMMA ModeAtIs ==
    ASSUME CleanupInv, run.at \in 1..4
    PROVE  /\ Cleanup!At = mode <=> run.at = ModeAt
           /\ Cleanup!At = "resolve" <=> run.at = 1
           /\ ModeAt \in {2, 3, 4}
<1>1. mode \in Cleanup!Modes
  BY DEF CleanupInv, TreesShaped
<1>2. run.at = 1 \/ run.at = 2 \/ run.at = 3 \/ run.at = 4
  OBVIOUS
<1> QED BY <1>1, <1>2 DEF Cleanup!At, ModeAt, Cleanup!Modes

\* The probes answer with a known outcome; COMPLETE means what it says.
LEMMA ProbesTell ==
    ASSUME CleanupInv
    PROVE  /\ Cleanup!Probe \in Outcomes
           /\ run.at = ModeAt /\ Cleanup!Holds => AllDone
           /\ Cleanup!RestorationProbe = "COMPLETE" => AllHome
<1>1. Cleanup!ModeProbe \in Outcomes
  BY DEF Cleanup!ModeProbe, Outcomes
<1>2. Cleanup!Probe \in Outcomes
  BY <1>1 DEF Cleanup!Probe, Outcomes
<1>3. ASSUME Cleanup!ModeProbe = "COMPLETE" PROVE AllDone
  <2>1. ASSUME NEW t \in Targets PROVE Cleanup!EffectState(t) \in {"COMPLETE", "RETAINED"}
    <3> DEFINE states == [u \in Targets |-> Cleanup!EffectState(u)]
    <3>1. \A u \in Targets : states[u] \in {"COMPLETE", "RETAINED"}
      BY <1>3 DEF Cleanup!ModeProbe
    <3> QED BY <3>1
  <2>2. ASSUME NEW t \in Targets
        PROVE  CASE mode = "PURGE"  -> \/ quarantine[t] = None /\ receipt[t] = "PURGED"
                                       \/ quarantine[t] # None /\ receipt[t] = "PURGE_RETAINED"
                 [] mode # "PURGE" -> /\ Cleanup!Moved(Cleanup!Home, Cleanup!Away, t)
                                      /\ receipt[t] = IF mode = "RESTORE" THEN "RESTORED"
                                          ELSE "QUARANTINED"
    <3>1. Cleanup!EffectState(t) \in {"COMPLETE", "RETAINED"}
      BY <2>1, <2>2
    <3>2. mode = "QUARANTINE" \/ mode = "RESTORE" \/ mode = "PURGE"
      BY DEF CleanupInv, TreesShaped, Cleanup!Modes
    <3>3. CASE mode = "QUARANTINE"
      BY <3>1, <3>3 DEF Cleanup!EffectState, Cleanup!Home, Cleanup!Away
    <3>4. CASE mode = "RESTORE"
      BY <3>1, <3>4 DEF Cleanup!EffectState, Cleanup!Home, Cleanup!Away
    <3>5. CASE mode = "PURGE"
      BY <3>1, <3>5 DEF Cleanup!EffectState
    <3> QED BY <3>2, <3>3, <3>4, <3>5
  <2> QED BY <2>2 DEF AllDone
<1>4. ASSUME run.at = ModeAt, Cleanup!Holds PROVE AllDone
  <2>1. run.at \in 1..4
    BY <1>4 DEF ModeAt
  <2>2. Cleanup!At = mode /\ Cleanup!At # "resolve"
    BY <1>4, <2>1, ModeAtIs
  <2> QED BY <1>3, <1>4, <2>2 DEF Cleanup!Holds, Cleanup!Probe
<1>5. ASSUME Cleanup!RestorationProbe = "COMPLETE" PROVE AllHome
  <2>1. {t \in Targets : Cleanup!Home[t] = "tree" /\ Cleanup!Away[t] = None} = Targets
    BY <1>5 DEF Cleanup!RestorationProbe
  <2>2. \A t \in Targets : Cleanup!Home[t] = "tree" /\ Cleanup!Away[t] = None
    BY <2>1
  <2> QED BY <2>2, TreesAssumption DEF AllHome, Cleanup!Moved
<1> QED BY <1>2, <1>4, <1>5

-----------------------------------------------------------------------------

LEMMA FollowedUnmoved ==
    ASSUME CleanupInv, NEW holds, NEW back, run' = run \/ Follows(run, run', holds, back)
    PROVE  Unmoved' => Unmoved \/ back
<1> HIDE DEF Cleanup!Wf
<1>1. CASE run' = run
  BY <1>1 DEF Unmoved, BegunSteps
<1>2. CASE Follows(run, run', holds, back)
  <2>1. run.at \in 1..5
    BY CleanupPlace DEF CleanupInv, TreesShaped
  <2>2. BegunSteps(run)' = {} => BegunSteps(run) = {}
    BY <1>2, <2>1 DEF Follows, BegunSteps
  <2> QED BY <1>2, <2>2 DEF Unmoved, Follows
<1> QED BY <1>1, <1>2

\* The run goes on and no tree moves.
LEMMA OnlyTheRunMoves ==
    ASSUME CleanupInv, NEW back, back => AllHome,
           run' = run \/ Follows(run, run', Cleanup!Holds, back),
           UNCHANGED <<mode, staging, quarantine, receipt, expired>>, todo' \subseteq Targets
    PROVE  CleanupInv'
<1> HIDE DEF Cleanup!Wf
<1>1. RunInv(run, Cleanup!Wf)'
  <2>1. RunInv(run', Cleanup!Wf) /\ Cleanup!Wf' = Cleanup!Wf
    BY DEF CleanupInv, Follows, Cleanup!Wf
  <2> QED BY <2>1
<1>2. TreesShaped'
  BY DEF CleanupInv, TreesShaped
<1>3. (AllHome <=> AllHome') /\ (AllDone <=> AllDone') /\ ModeAt' = ModeAt
  BY DEF AllHome, AllDone, ModeAt, Cleanup!Moved, Cleanup!Home, Cleanup!Away
<1>4. \A t \in Targets : InOnePlace(t)'
  BY DEF CleanupInv, TreesPlaced, InOnePlace
<1>5. Unmoved' => AllHome
  BY FollowedUnmoved DEF CleanupInv, TreesPlaced
<1>6. ASSUME run'.way = "forward", run'.at > ModeAt PROVE AllDone
  <2>1. CASE run' = run
    BY <1>6, <2>1 DEF CleanupInv, TreesPlaced
  <2>2. CASE Follows(run, run', Cleanup!Holds, back)
    <3>1. run.way = "forward"
      BY <1>6, <2>2 DEF Follows
    <3>2. run.at > ModeAt \/ (run.at = ModeAt /\ Cleanup!Holds)
      BY <1>6, <2>2, CleanupPlace DEF Follows, CleanupInv, TreesShaped, ModeAt
    <3> QED BY <3>1, <3>2, ProbesTell DEF CleanupInv, TreesPlaced
  <2> QED BY <2>1, <2>2
<1>7. TreesPlaced'
  BY <1>3, <1>4, <1>5, <1>6 DEF TreesPlaced
<1> QED BY <1>1, <1>2, <1>7 DEF CleanupInv

\* Trees move, while the run stands in the step of the mode or goes back; it may fail
\* with them.
LEMMA OnlyTreesMove ==
    ASSUME CleanupInv, TreesShaped', mode' = mode, NEW holds,
           run' = run \/ Follows(run, run', holds, FALSE),
           \A t \in Targets : InOnePlace(t)',
           Unmoved => AllHome',
           run.way # "forward" \/ (run.at = ModeAt /\ ~ holds)
    PROVE  CleanupInv'
<1> HIDE DEF Cleanup!Wf
<1>1. RunInv(run, Cleanup!Wf)'
  <2>1. RunInv(run', Cleanup!Wf) /\ Cleanup!Wf' = Cleanup!Wf
    BY DEF CleanupInv, Follows, Cleanup!Wf
  <2> QED BY <2>1
<1>2. Unmoved' => Unmoved
  BY FollowedUnmoved
<1>3. ~ (run'.way = "forward" /\ run'.at > ModeAt')
  <2>1. ModeAt' = ModeAt /\ ModeAt \in {2, 3, 4}
    BY DEF ModeAt
  <2>2. CASE run' = run
    BY <2>1, <2>2
  <2>3. CASE Follows(run, run', holds, FALSE)
    BY <2>1, <2>3 DEF Follows
  <2> QED BY <2>2, <2>3
<1>4. TreesPlaced'
  BY <1>2, <1>3 DEF TreesPlaced
<1> QED BY <1>1, <1>4 DEF CleanupInv

\* An adapter at work on the mode: something has begun and nothing is done.
LEMMA AtWork ==
    ASSUME CleanupInv, Cleanup!Executing
    PROVE  /\ run.at = ModeAt /\ run.way = "forward" /\ run.end = "none" /\ run.pc = "effect"
           /\ ~ Unmoved
<1>1. run.at \in 1..4 /\ run.row = "RUNNING" /\ run.way = "forward" /\ run.end = "none"
      /\ run.undone = {} /\ run.pc = "effect"
  BY CleanupPlace DEF Cleanup!Executing, CleanupInv, TreesShaped, RunInv, RunPlaced
<1>2. run.at = ModeAt /\ ModeAt \in {2, 3, 4}
  BY <1>1, ModeAtIs DEF Cleanup!Executing
<1>3. 2 \in BegunSteps(run)
  BY <1>1, <1>2 DEF BegunSteps
<1> QED BY <1>1, <1>2, <1>3 DEF Unmoved

LEMMA EngineKeeps ==
    ASSUME CleanupInv, Cleanup!Engine \/ Cleanup!Misfortune \/ Cleanup!Cancel
    PROVE  CleanupInv'
<1> DEFINE back == Cleanup!RestorationProbe = "COMPLETE"
<1> HIDE DEF Cleanup!Wf
<1>1. Cleanup!Holds \in BOOLEAN /\ Cleanup!Probe \in Outcomes /\ (back => AllHome)
  BY ProbesTell DEF Cleanup!Holds
<1>2. mode \in Cleanup!Modes /\ RunInv(run, Cleanup!Wf) /\ todo \subseteq Targets
  BY DEF CleanupInv, TreesShaped
<1>3. CASE Cleanup!Engine
  <2>1. run' \in Cleanup!Turns(run, Cleanup!Wf, Cleanup!Holds, {Cleanup!Probe},
          Cleanup!RestorationProbe)
    BY <1>3 DEF Cleanup!Engine
  <2>2. /\ RunInv(run', Cleanup!Wf)
        /\ Moves(run, run', Cleanup!Wf, Cleanup!Holds, {Cleanup!Probe},
            Cleanup!RestorationProbe = "COMPLETE")
    <3>1. run' \in Run!Turns(run, Cleanup!Wf, Cleanup!Holds, {Cleanup!Probe},
            Cleanup!RestorationProbe)
      BY <2>1, SameCleanupTurns
    <3>2. {Cleanup!Probe} \subseteq Answers
      BY <1>1 DEF Outcomes, Answers
    <3> QED BY <1>2, <3>1, <3>2, CleanupWorkable, RunTurns
  <2>4. Follows(run, run', Cleanup!Holds, back)
    BY <1>2, <2>2, MovesFollow
  <2>3. UNCHANGED <<mode, staging, quarantine, receipt, expired>> /\ todo' \subseteq Targets
    BY <1>3 DEF Cleanup!Engine
  <2> HIDE DEF back
  <2> QED BY <1>1, <2>3, <2>4, OnlyTheRunMoves
<1>4. CASE Cleanup!Misfortune
  <2>1. run' \in Cleanup!Mishaps(run, Cleanup!Wf, {Cleanup!Probe})
    BY <1>4 DEF Cleanup!Misfortune
  <2>2. /\ RunInv(run', Cleanup!Wf)
        /\ Moves(run, run', Cleanup!Wf, FALSE, {Cleanup!Probe} \cup {"UNCERTAIN_MANUAL"}, FALSE)
    <3>1. run' \in Run!Mishaps(run, Cleanup!Wf, {Cleanup!Probe})
      BY <2>1, SameCleanupMishaps
    <3> QED BY <1>2, <3>1, CleanupWorkable, RunMishaps
  <2>4. Follows(run, run', FALSE, FALSE)
    BY <1>2, <2>2, MovesFollow
  <2>5. Follows(run, run', Cleanup!Holds, FALSE)
    BY <2>4 DEF Follows
  <2>3. UNCHANGED <<mode, staging, quarantine, receipt, expired>> /\ todo' \subseteq Targets
    BY <1>2, <1>4 DEF Cleanup!Misfortune
  <2> HIDE DEF back
  <2> QED BY <2>3, <2>5, OnlyTheRunMoves
<1>5. CASE Cleanup!Cancel
  <2>1. Cleanup!Cancellable(run, Cleanup!Wf) /\ run' = Cleanup!Cancelled(run, Cleanup!Wf)
    BY <1>5 DEF Cleanup!Cancel
  <2>2. /\ RunInv(run', Cleanup!Wf)
        /\ CancelsAtOnce(run, run', Cleanup!Wf) \/ TurnsBack(run, run', Cleanup!Wf)
    BY <1>2, <2>1, SameCleanupMoments, RunCancelled
  <2>4. Moves(run, run', Cleanup!Wf, FALSE, {}, FALSE)
    BY <2>2 DEF Moves
  <2>5. Follows(run, run', FALSE, FALSE)
    BY <1>2, <2>2, <2>4, MovesFollow
  <2>6. Follows(run, run', Cleanup!Holds, FALSE)
    BY <2>5 DEF Follows
  <2>3. UNCHANGED <<mode, staging, quarantine, receipt, expired>> /\ todo' \subseteq Targets
    BY <1>2, <1>5 DEF Cleanup!Cancel
  <2> HIDE DEF back
  <2> QED BY <2>3, <2>6, OnlyTheRunMoves
<1> QED BY <1>3, <1>4, <1>5

\* What lies in a place may change; which places are taken does not, and an expiry
\* only allows more.
LEMMA WorldKeeps ==
    ASSUME CleanupInv, Cleanup!Tampered \/ Cleanup!RetentionPasses
    PROVE  CleanupInv'
<1>1. UNCHANGED <<run, mode, receipt, todo>> /\ (expired => expired') /\ expired' \in BOOLEAN
  BY DEF Cleanup!Tampered, Cleanup!RetentionPasses, CleanupInv, TreesShaped
<1>2. /\ staging' \in [Targets -> Places] /\ quarantine' \in [Targets -> Places]
      /\ \A t \in Targets : /\ staging'[t] = None <=> staging[t] = None
                            /\ quarantine'[t] = None <=> quarantine[t] = None
  <2>1. CASE Cleanup!RetentionPasses
    BY <2>1 DEF Cleanup!RetentionPasses, CleanupInv, TreesShaped
  <2>2. CASE Cleanup!Tampered
    BY <2>2, TreesAssumption DEF Cleanup!Tampered, CleanupInv, TreesShaped, Places
  <2> QED BY <2>1, <2>2
<1>3. TreesShaped'
  BY <1>1, <1>2 DEF CleanupInv, TreesShaped
<1>4. RunInv(run, Cleanup!Wf)'
  BY <1>1 DEF CleanupInv, Cleanup!Wf
<1>5. \A t \in Targets : InOnePlace(t)'
  BY <1>1, <1>2 DEF CleanupInv, TreesPlaced, InOnePlace
<1>6. (AllHome => AllHome') /\ (AllDone => AllDone')
  <2>1. AllHome => AllHome'
    BY <1>1, <1>2 DEF AllHome, Cleanup!Moved, Cleanup!Home, Cleanup!Away
  <2>2. CASE mode = "PURGE"
    BY <1>1, <1>2, <2>1, <2>2 DEF AllDone
  <2>3. CASE mode # "PURGE"
    <3>1. \A t \in Targets : Cleanup!Moved(Cleanup!Home, Cleanup!Away, t) =>
            Cleanup!Moved(Cleanup!Home, Cleanup!Away, t)'
      BY <1>1, <1>2 DEF Cleanup!Moved, Cleanup!Home, Cleanup!Away
    <3> QED BY <1>1, <2>1, <2>3, <3>1 DEF AllDone
  <2> QED BY <2>2, <2>3
<1>7. ModeAt' = ModeAt /\ (Unmoved' => Unmoved)
  BY <1>1 DEF ModeAt, Unmoved, BegunSteps
<1>8. TreesPlaced'
  BY <1>1, <1>5, <1>6, <1>7 DEF CleanupInv, TreesPlaced
<1> QED BY <1>3, <1>4, <1>8 DEF CleanupInv

\* The step is refused, or returns; no tree has moved with it.
LEMMA StepEnds ==
    ASSUME CleanupInv, run.pc = "effect",
        run' \in {Cleanup!Applied(run), Cleanup!Failed(run, Cleanup!Wf, Cleanup!Probe)},
           UNCHANGED <<mode, staging, quarantine, receipt, expired, todo>>
    PROVE  CleanupInv'
<1> HIDE DEF Cleanup!Wf
<1>1. /\ mode \in Cleanup!Modes /\ RunInv(run, Cleanup!Wf) /\ todo \subseteq Targets
      /\ run.end = "none"
  BY CleanupPlace DEF CleanupInv, TreesShaped
<1>2. run' \in {Run!Applied(run), Run!Failed(run, Cleanup!Wf, Cleanup!Probe)}
  BY SameCleanupMoments
<1>3. /\ RunInv(run', Cleanup!Wf)
      /\ \/ GoesOn(run, run')
         \/ FailsSafe(run, run', Cleanup!Wf, Cleanup!Probe) \/ TurnsBack(run, run', Cleanup!Wf)
  <2>1. CASE run' = Run!Applied(run)
    BY <1>1, <2>1, CleanupWorkable, RunApplied
  <2>2. CASE run' = Run!Failed(run, Cleanup!Wf, Cleanup!Probe)
    BY <1>1, <2>2, CleanupWorkable, RunFailed
  <2> QED BY <1>2, <2>1, <2>2
<1>4. Moves(run, run', Cleanup!Wf, FALSE, {Cleanup!Probe}, FALSE)
  BY <1>3 DEF Moves
<1>5. Follows(run, run', FALSE, FALSE)
  BY <1>1, <1>3, <1>4, MovesFollow
<1>6. Follows(run, run', Cleanup!Holds, FALSE)
  BY <1>5 DEF Follows
<1> QED BY <1>1, <1>6, OnlyTheRunMoves

LEMMA StepsKeep ==
    ASSUME CleanupInv, Cleanup!ResolveTargets \/ Cleanup!NotApplicable \/ Cleanup!ApplyDone
    PROVE  CleanupInv'
<1>1. /\ run.pc = "effect"
      /\ run' \in {Cleanup!Applied(run), Cleanup!Failed(run, Cleanup!Wf, Cleanup!Probe)}
  BY DEF Cleanup!ResolveTargets, Cleanup!NotApplicable, Cleanup!ApplyDone, Cleanup!Executing,
     Cleanup!Refused
<1>2. UNCHANGED <<mode, staging, quarantine, receipt, expired, todo>>
  BY DEF Cleanup!ResolveTargets, Cleanup!NotApplicable, Cleanup!ApplyDone
<1> QED BY <1>1, <1>2, StepEnds

LEMMA MoveTreeKeeps ==
    ASSUME CleanupInv, Cleanup!MoveTree
    PROVE  CleanupInv'
<1>1. /\ Cleanup!Executing /\ mode \in {"QUARANTINE", "RESTORE"}
      /\ ~ Cleanup!Moved(Cleanup!Home, Cleanup!Away, Cleanup!First)
      /\ UNCHANGED <<mode, receipt, expired, todo>>
  BY DEF Cleanup!MoveTree
<1>2. CASE Cleanup!Admits(Cleanup!First) /\ Cleanup!Away[Cleanup!First] = None
  <2>1. /\ staging' = [staging EXCEPT ![Cleanup!First] = IF mode = "RESTORE"
            THEN quarantine[Cleanup!First] ELSE None]
        /\ quarantine' = [quarantine EXCEPT ![Cleanup!First] = IF mode = "RESTORE" THEN None
            ELSE staging[Cleanup!First]]
        /\ run' = run
    BY <1>2 DEF Cleanup!MoveTree
  <2> DEFINE f == Cleanup!First
  <2>2. Cleanup!Admits(f) /\ Cleanup!Away[f] = None
    BY <1>2
  <2>3. f \in Targets => Cleanup!Home[f] = "tree"
    BY <1>1, <2>2 DEF Cleanup!Admits, Cleanup!Home
  <2> HIDE DEF f
  <2>4. /\ staging' = [staging EXCEPT ![f] = IF mode = "RESTORE" THEN quarantine[f] ELSE None]
        /\ quarantine' = [quarantine EXCEPT ![f] = IF mode = "RESTORE" THEN None ELSE staging[f]]
    BY <2>1 DEF f
  <2>5. staging \in [Targets -> Places] /\ quarantine \in [Targets -> Places]
    BY DEF CleanupInv, TreesShaped
  <2>6. staging' \in [Targets -> Places] /\ quarantine' \in [Targets -> Places]
    BY <1>1, <2>4, <2>5 DEF Places
  <2>7. ASSUME NEW t \in Targets PROVE InOnePlace(t)'
    <3>1. InOnePlace(t)
      BY DEF CleanupInv, TreesPlaced
    <3>2. CASE t = f
      BY <1>1, <2>2, <2>3, <2>4, <2>5, <2>7, <3>2, TreesAssumption DEF InOnePlace, Cleanup!Home,
         Cleanup!Away
    <3>3. CASE t # f
      BY <1>1, <2>4, <2>5, <2>7, <3>1, <3>3 DEF InOnePlace
    <3> QED BY <3>2, <3>3
  <2>8. TreesShaped'
    BY <1>1, <2>6 DEF CleanupInv, TreesShaped
  <2> QED BY <1>1, <2>1, <2>7, <2>8, AtWork, OnlyTreesMove
<1>3. CASE ~ (Cleanup!Admits(Cleanup!First) /\ Cleanup!Away[Cleanup!First] = None)
  <2>1. Cleanup!Refused /\ UNCHANGED <<staging, quarantine>>
    BY <1>3 DEF Cleanup!MoveTree
  <2> QED BY <1>1, <2>1, StepEnds DEF Cleanup!Refused, Cleanup!Executing
<1> QED BY <1>2, <1>3

LEMMA WriteStateKeeps ==
    ASSUME CleanupInv, Cleanup!WriteState
    PROVE  CleanupInv'
<1>1. Cleanup!Executing /\ UNCHANGED <<mode, staging, quarantine, expired>>
  BY DEF Cleanup!WriteState
<1>2. CASE Cleanup!Away[Cleanup!First] = "tree"
  <2>1. run' = run /\ DOMAIN receipt' = DOMAIN receipt /\ todo' \subseteq todo
    BY <1>2 DEF Cleanup!WriteState
  <2>2. TreesShaped' /\ \A t \in Targets : InOnePlace(t)'
    BY <1>1, <2>1 DEF CleanupInv, TreesShaped, TreesPlaced, InOnePlace
  <2> QED BY <1>1, <2>1, <2>2, AtWork, OnlyTreesMove
<1>3. CASE Cleanup!Away[Cleanup!First] # "tree"
  BY <1>1, <1>3, StepEnds DEF Cleanup!WriteState, Cleanup!Refused, Cleanup!Executing
<1> QED BY <1>2, <1>3

\* _purge_one deletes only what has expired.
LEMMA PurgeKeeps ==
    ASSUME CleanupInv, Cleanup!PurgeTree \/ Cleanup!PurgeFails \/ Cleanup!RecordPurge
    PROVE  CleanupInv'
<1>1. Cleanup!Executing /\ mode = "PURGE" /\ UNCHANGED <<mode, staging, expired>>
  BY DEF Cleanup!PurgeTree, Cleanup!PurgeFails, Cleanup!RecordPurge
<1>2. run' = run \/ Follows(run, run', FALSE, FALSE)
  <2>1. CASE Cleanup!PurgeFails
    <3>1. /\ run' = Run!Ended(run, "RECOVERY_REQUIRED") /\ mode \in Cleanup!Modes
          /\ RunInv(run, Cleanup!Wf)
      BY <2>1, SameCleanupMoments DEF Cleanup!PurgeFails, CleanupInv, TreesShaped
    <3>2. RunInv(run', Cleanup!Wf) /\ Stops(run, run')
      BY <3>1, RunEnds DEF Stops
    <3>3. Moves(run, run', Cleanup!Wf, FALSE, {}, FALSE)
      BY <3>2 DEF Moves
    <3> QED BY <3>1, <3>2, <3>3, MovesFollow
  <2> QED BY <2>1 DEF Cleanup!PurgeTree, Cleanup!RecordPurge
<1>3. DOMAIN receipt' = DOMAIN receipt /\ todo' \subseteq todo
  BY DEF Cleanup!PurgeTree, Cleanup!PurgeFails, Cleanup!RecordPurge
<1>4. \/ quarantine' = quarantine
      \/ expired /\ \E f, rest : /\ rest \in {None, "other"}
                                 /\ quarantine' = [quarantine EXCEPT ![f] = rest]
  BY <1>1 DEF Cleanup!PurgeTree, Cleanup!PurgeFails, Cleanup!RecordPurge, Cleanup!Admits
<1>5. quarantine' \in [Targets -> Places] /\ (quarantine' = quarantine \/ expired)
  BY <1>4 DEF CleanupInv, TreesShaped, Places
<1>6. TreesShaped' /\ \A t \in Targets : InOnePlace(t)'
  BY <1>1, <1>3, <1>5 DEF CleanupInv, TreesShaped, TreesPlaced, InOnePlace
<1> QED BY <1>1, <1>2, <1>6, AtWork, OnlyTreesMove

LEMMA MoveBackKeeps ==
    ASSUME CleanupInv, Cleanup!MoveBack
    PROVE  CleanupInv'
<1> DEFINE f == Cleanup!Last
<1>1. /\ Cleanup!Moved(Cleanup!Home, Cleanup!Away, f) /\ UNCHANGED <<mode, expired>>
      /\ run.pc = "undoing"
      /\ staging' = [staging EXCEPT ![f] = IF mode = "QUARANTINE" THEN quarantine[f] ELSE None]
      /\ quarantine' = [quarantine EXCEPT ![f] = IF mode = "QUARANTINE" THEN None ELSE staging[f]]
  BY DEF Cleanup!MoveBack, Cleanup!Undoing
<1>2. DOMAIN receipt' = DOMAIN receipt /\ todo' \subseteq todo
  BY DEF Cleanup!MoveBack
<1>3. run' = run \/ run' \in {Cleanup!Crashed(run), Cleanup!UndoFailed(run)}
  BY DEF Cleanup!MoveBack
<1> HIDE DEF f
<1>4. /\ mode \in Cleanup!Modes /\ RunInv(run, Cleanup!Wf)
      /\ staging \in [Targets -> Places] /\ quarantine \in [Targets -> Places]
  BY DEF CleanupInv, TreesShaped
<1>5. run.end = "none" /\ run.way # "forward"
  BY <1>1, <1>4, CleanupPlace
<1>6. run' = run \/ Follows(run, run', FALSE, FALSE)
  <2>1. ASSUME run' \in {Cleanup!Crashed(run), Cleanup!UndoFailed(run)}
        PROVE  Follows(run, run', FALSE, FALSE)
    <3>1. run' \in {Run!Crashed(run), Run!UndoFailed(run)}
      BY <2>1, SameCleanupMoments
    <3>2. RunInv(run', Cleanup!Wf) /\ (Stops(run, run') \/ GoesBack(run, run'))
      BY <1>1, <1>4, <1>5, <3>1, RunCrashes, RunUndoFailed
    <3>3. Moves(run, run', Cleanup!Wf, FALSE, {}, FALSE)
      BY <3>2 DEF Moves
    <3> QED BY <1>4, <3>2, <3>3, MovesFollow
  <2> QED BY <1>3, <2>1
<1>7. f \notin Targets => staging' = staging /\ quarantine' = quarantine
  BY <1>1, <1>4
<1>8. staging' \in [Targets -> Places] /\ quarantine' \in [Targets -> Places]
  BY <1>1, <1>4, <1>7 DEF Places
<1>9. ASSUME NEW t \in Targets PROVE InOnePlace(t)'
  <2>1. InOnePlace(t) /\ (mode = "QUARANTINE" \/ mode = "RESTORE" \/ mode = "PURGE")
    BY <1>4 DEF CleanupInv, TreesPlaced, Cleanup!Modes
  <2>2. CASE t = f
    BY <1>1, <1>4, <1>9, <2>1, <2>2 DEF InOnePlace, Cleanup!Moved, Cleanup!Home, Cleanup!Away
  <2>3. CASE t # f
    BY <1>1, <1>4, <1>9, <2>1, <2>3 DEF InOnePlace
  <2> QED BY <2>2, <2>3
<1>10. TreesShaped'
  BY <1>1, <1>2, <1>8 DEF CleanupInv, TreesShaped
<1>11. ASSUME Unmoved PROVE AllHome'
  <2>1. AllHome
    BY <1>11 DEF CleanupInv, TreesPlaced
  <2>2. f \notin Targets
    BY <1>1, <2>1 DEF AllHome, Cleanup!Moved
  <2> QED BY <1>1, <1>7, <2>1, <2>2 DEF AllHome, Cleanup!Moved, Cleanup!Home, Cleanup!Away
<1> QED BY <1>1, <1>5, <1>6, <1>9, <1>10, <1>11, OnlyTreesMove

LEMMA UndoKeeps ==
    ASSUME CleanupInv, Cleanup!SkipBack \/ Cleanup!VerifyRestored
    PROVE  CleanupInv'
<1> DEFINE back == Cleanup!RestorationProbe = "COMPLETE"
<1>1. /\ UNCHANGED <<mode, staging, quarantine, receipt, expired>> /\ todo' \subseteq todo
      /\ run.pc = "undoing"
  BY DEF Cleanup!SkipBack, Cleanup!VerifyRestored, Cleanup!Undoing
<1>2. /\ todo \subseteq Targets /\ RunInv(run, Cleanup!Wf) /\ run.end = "none" /\ run.todo # {}
      /\ mode \in Cleanup!Modes
  BY <1>1, CleanupPlace DEF CleanupInv, TreesShaped
<1>3. run' = run \/ Follows(run, run', Cleanup!Holds, back)
  <2>1. CASE Cleanup!SkipBack
    BY <2>1 DEF Cleanup!SkipBack
  <2>2. CASE Cleanup!VerifyRestored
    <3>1. \/ run' = Run!Undone(run) /\ back
          \/ run' = Run!UndoFailed(run)
      BY <2>2, SameCleanupMoments DEF Cleanup!VerifyRestored
    <3> HIDE DEF back
    <3>2. RunInv(run', Cleanup!Wf) /\ ((UndoesOne(run, run') /\ back) \/ GoesBack(run, run'))
      BY <1>1, <1>2, <3>1, RunUndone, RunUndoFailed
    <3>3. Moves(run, run', Cleanup!Wf, FALSE, {}, back)
      BY <3>2 DEF Moves
    <3>4. Follows(run, run', FALSE, back)
      BY <1>2, <3>2, <3>3, MovesFollow
    <3> QED BY <3>4 DEF Follows
  <2> QED BY <2>1, <2>2 DEF Cleanup!SkipBack
<1>4. back => AllHome
  BY ProbesTell
<1> HIDE DEF back
<1> QED BY <1>1, <1>2, <1>3, <1>4, OnlyTheRunMoves

-----------------------------------------------------------------------------

LEMMA CleanupInit == Cleanup!Init => CleanupInv
<1> SUFFICES ASSUME Cleanup!Init PROVE CleanupInv
  OBVIOUS
<1> HIDE DEF Cleanup!Wf
<1>1. BegunSteps(run) = {} /\ run.at = 1 /\ mode \in Cleanup!Modes
  BY DEF Cleanup!Init, Cleanup!Queued, BegunSteps
<1>2. RunInv(run, Cleanup!Wf)
  BY <1>1, StepsOfCleanup DEF Cleanup!Init, Cleanup!Queued, RunInv, RunShaped, RunPlaced
<1>3. TreesShaped
  BY DEF Cleanup!Init, TreesShaped, Places
<1>4. \A t \in Targets : IF mode = "QUARANTINE" THEN staging[t] = "tree" /\ quarantine[t] = None
                        ELSE staging[t] = None /\ quarantine[t] = "tree"
  BY DEF Cleanup!Init
<1>5. AllHome /\ \A t \in Targets : InOnePlace(t)
  BY <1>4, TreesAssumption DEF AllHome, InOnePlace, Cleanup!Moved, Cleanup!Home, Cleanup!Away
<1>6. ~ (run.at > ModeAt)
  BY <1>1 DEF ModeAt
<1> QED BY <1>1, <1>2, <1>3, <1>5, <1>6 DEF CleanupInv, TreesPlaced

LEMMA CleanupSteps == CleanupInv /\ [Cleanup!Next]_(Cleanup!cleanupVars) => CleanupInv'
<1> SUFFICES ASSUME CleanupInv, [Cleanup!Next]_(Cleanup!cleanupVars) PROVE CleanupInv'
  OBVIOUS
<1>1. CASE Cleanup!Engine \/ Cleanup!Misfortune \/ Cleanup!Cancel
  BY <1>1, EngineKeeps
<1>2. CASE Cleanup!Tampered \/ Cleanup!RetentionPasses
  BY <1>2, WorldKeeps
<1>3. CASE Cleanup!ResolveTargets \/ Cleanup!NotApplicable \/ Cleanup!ApplyDone
  BY <1>3, StepsKeep
<1>4. CASE Cleanup!MoveTree
  BY <1>4, MoveTreeKeeps
<1>5. CASE Cleanup!WriteState
  BY <1>5, WriteStateKeeps
<1>6. CASE Cleanup!PurgeTree \/ Cleanup!PurgeFails \/ Cleanup!RecordPurge
  BY <1>6, PurgeKeeps
<1>7. CASE Cleanup!MoveBack
  BY <1>7, MoveBackKeeps
<1>8. CASE Cleanup!SkipBack \/ Cleanup!VerifyRestored
  BY <1>8, UndoKeeps
<1>9. CASE UNCHANGED Cleanup!cleanupVars
  BY <1>9, OnlyTheRunMoves DEF Cleanup!cleanupVars, CleanupInv, TreesShaped
<1> QED BY <1>1, <1>2, <1>3, <1>4, <1>5, <1>6, <1>7, <1>8, <1>9 DEF Cleanup!Next

LEMMA CleanupInvSound == CleanupInv => Cleanup!CleanupSound
<1> SUFFICES ASSUME CleanupInv PROVE Cleanup!CleanupSound
  OBVIOUS
<1>1. Cleanup!TreesAccounted
  BY DEF Cleanup!TreesAccounted, CleanupInv, TreesPlaced, InOnePlace
<1>2. ASSUME run.end = "SUCCEEDED" PROVE AllDone
  BY <1>2, CleanupPlace DEF CleanupInv, TreesShaped, TreesPlaced, ModeAt
<1>3. Cleanup!CleanupAgrees
  BY <1>2 DEF Cleanup!CleanupAgrees, AllDone
<1>4. Cleanup!CleanupUndone
  BY DEF Cleanup!CleanupUndone, CleanupInv, TreesPlaced, Unmoved, AllHome
<1> QED BY <1>1, <1>3, <1>4 DEF Cleanup!CleanupSound

\* Whatever dies or fails between a rename and its receipt, no tree is lost or
\* doubled, success means all targets and a rollback none (apply_mode, probe_mode,
\* compensate_mode).
THEOREM CleanupStaysSound == Cleanup!CleanupSpec => []Cleanup!CleanupSound
<1>1. Cleanup!CleanupSpec => []CleanupInv
  BY CleanupInit, CleanupSteps, PTL DEF Cleanup!CleanupSpec
<1> QED BY <1>1, CleanupInvSound, PTL

-----------------------------------------------------------------------------
(* The machine a model is activated on                                     *)

\* Before anything of step i.
BeforeStep(r, i) == r.at < i \/ (r.at = i /\ r.row = "PENDING")

\* Configuration, known-good row, handoff and, if there was none, server are as found.
AsFound ==
    /\ config.model = found.config.model /\ known = found.known
    /\ Activation!ModelOf(handoff) = Activation!ModelOf(found.handoff)
    /\ found.serving = None => service = None

\* What capture_prior saw is what the operation found, but for a server that died since.
PriorKept ==
    /\ prior.config = found.config /\ prior.handoff = found.handoff /\ prior.known = found.known
    /\ found.serving = None => prior.serving = None

CandidateConfig == [model |-> target, rev |-> found.config.rev + 1]
CandidateHandoff == [model |-> target, rev |-> config.rev]

\* What each verified step left, and what no step has touched yet.
ForwardSoFar(r) ==
    /\ config \in {found.config, CandidateConfig} /\ handoff \in {found.handoff, CandidateHandoff}
    /\ r.at > 3 => config.model = target
    /\ r.at > 4 => handoff = CandidateHandoff
    /\ r.at > 5 => service \in {None, target}
    /\ r.at > 8 => known = target
    /\ BeforeStep(r, 3) => config = found.config
    /\ BeforeStep(r, 4) => handoff = found.handoff
    /\ BeforeStep(r, 5) => (found.serving = None => service = None)
    /\ BeforeStep(r, 8) => known = found.known

FoundSane ==
    /\ target \in Activation!Models /\ found.config.rev \in Nat
    /\ found.handoff # None => found.handoff.rev = found.config.rev

HasPrior(r) == r.at > 2 \/ (r.at = 2 /\ r.row = "CHECKPOINTED")
TakenBack(r) ==
    Run!ToUndo(r, Activation!Wf) = {}
        \/ r.end \in {"FAILED_SAFE", "FAILED_ROLLED_BACK", "CANCELLED"}

ActivationPlaced(r) ==
    /\ HasPrior(r) => PriorKept
    /\ r.way = "forward" => ForwardSoFar(r)
    /\ TakenBack(r) => AsFound

ActivationInv ==
    /\ RunInv(run, Activation!Wf) /\ FoundSane
    /\ run.pc = "landed" => run.at >= 3
    /\ ActivationPlaced(run)

-----------------------------------------------------------------------------
LEMMA StepsOfActivation ==
    /\ Len(Activation!Wf.steps) = 8 /\ DOMAIN Activation!Wf.steps = 1..8
    /\ "finalizer" \notin Activation!Wf.traits
    /\ \A i \in 1..8 :
          /\ Run!Flagged(Activation!Wf, i, "undo") <=> i \in {3, 4, 5, 8}
          /\ ~ Run!Flagged(Activation!Wf, i, "forward")
          /\ i \in {3, 4, 5, 8} => Run!Flagged(Activation!Wf, i, "visible")
<1>1. /\ Activation!Wf.traits = {} /\ Len(Activation!Wf.steps) = 8
      /\ DOMAIN Activation!Wf.steps = 1..8
      /\ Activation!Wf.steps[1].flags = {} /\ Activation!Wf.steps[2].flags = {}
      /\ Activation!Wf.steps[3].flags = {"visible", "critical", "undo"}
      /\ Activation!Wf.steps[4].flags = {"visible", "critical", "undo"}
      /\ Activation!Wf.steps[5].flags = {"visible", "critical", "undo"}
      /\ Activation!Wf.steps[6].flags = {"critical"}
      /\ Activation!Wf.steps[7].flags = {"critical"}
      /\ Activation!Wf.steps[8].flags = {"visible", "critical", "undo"}
  BY DEF Activation!Wf, Activation!W!ModelActivate, Activation!W!WorkflowDefinition,
     Activation!W!Mutation, Activation!W!Plain, Activation!W!Critical,
     Activation!W!StepDefinition
<1> HIDE DEF Activation!Wf
<1>2. ASSUME NEW i \in 1..8
      PROVE  i = 1 \/ i = 2 \/ i = 3 \/ i = 4 \/ i = 5 \/ i = 6 \/ i = 7 \/ i = 8
  OBVIOUS
<1> QED BY <1>1, <1>2 DEF Run!Flagged

LEMMA ActivationWorkable == Workable(Activation!Wf)
<1> HIDE DEF Activation!Wf
<1> QED BY StepsOfActivation DEF Workable

\* What is to be compensated, by the place of the run.
LEMMA ActivationUndo ==
    ASSUME NEW r, RunInv(r, Activation!Wf)
    PROVE  /\ r.at \in 1..9 /\ r.row \in {"PENDING", "RUNNING", "CHECKPOINTED"}
           /\ Run!ToUndo(r, Activation!Wf) =
                 {i \in {3, 4, 5, 8} : i < r.at \/ (i = r.at /\ r.row # "PENDING")} \ r.undone
           /\ r.way = "forward" =>
               r.undone = {} /\ (Run!ToUndo(r, Activation!Wf) = {} <=> BeforeStep(r, 3))
           /\ Run!ToUndo(r, Activation!Wf) # {} => HasPrior(r) /\ ~ BeforeStep(r, 3)
<1> HIDE DEF Activation!Wf
<1>1. r.at \in 1..9 /\ r.row \in {"PENDING", "RUNNING", "CHECKPOINTED"}
  BY StepsOfActivation DEF RunInv, RunShaped
<1>2. \A i : i \in Run!ToUndo(r, Activation!Wf) <=>
             i \in {j \in {3, 4, 5, 8} : j < r.at \/ (j = r.at /\ r.row # "PENDING")} \ r.undone
  BY StepsOfActivation DEF Run!ToUndo
<1>3. r.way = "forward" =>
        r.undone = {} /\ (Run!ToUndo(r, Activation!Wf) = {} <=> BeforeStep(r, 3))
  <2>1. r.way = "forward" => r.undone = {}
    BY DEF RunInv, RunPlaced
  <2>2. ASSUME r.way = "forward", Run!ToUndo(r, Activation!Wf) = {} PROVE BeforeStep(r, 3)
    <3>1. 3 \notin Run!ToUndo(r, Activation!Wf)
      BY <2>2
    <3> QED BY <1>1, <1>2, <2>1, <2>2, <3>1 DEF BeforeStep
  <2>3. ASSUME r.way = "forward", BeforeStep(r, 3) PROVE Run!ToUndo(r, Activation!Wf) = {}
    <3>1. \A i : i \notin Run!ToUndo(r, Activation!Wf)
      BY <1>1, <1>2, <2>3 DEF BeforeStep
    <3> QED BY <3>1
  <2> QED BY <2>1, <2>2, <2>3
<1>4. ASSUME Run!ToUndo(r, Activation!Wf) # {} PROVE HasPrior(r) /\ ~ BeforeStep(r, 3)
  <2>1. PICK i : i \in Run!ToUndo(r, Activation!Wf)
    BY <1>4
  <2>2. i \in {3, 4, 5, 8} /\ (i < r.at \/ (i = r.at /\ r.row # "PENDING"))
    BY <1>2, <2>1
  <2> QED BY <1>1, <2>2 DEF HasPrior, BeforeStep
<1> QED BY <1>1, <1>2, <1>3, <1>4

\* The step at work, and what its probe and its verification say.
LEMMA StepAtWork ==
    ASSUME run.at \in 1..9
    PROVE  /\ run.at = 1 <=> Activation!At = "resolve" /\ run.at < 9
           /\ run.at = 2 <=> Activation!At = "capture" /\ run.at < 9
           /\ run.at = 3 <=> Activation!At = "commit" /\ run.at < 9
           /\ run.at = 4 <=> Activation!At = "publish" /\ run.at < 9
           /\ run.at = 5 <=> Activation!At = "restart" /\ run.at < 9
           /\ run.at = 6 <=> Activation!At = "health" /\ run.at < 9
           /\ run.at = 7 <=> Activation!At = "inference" /\ run.at < 9
           /\ run.at = 8 <=> Activation!At = "promote" /\ run.at < 9
<1>1. \/ run.at = 1 \/ run.at = 2 \/ run.at = 3 \/ run.at = 4 \/ run.at = 5 \/ run.at = 6
      \/ run.at = 7 \/ run.at = 8 \/ run.at = 9
  OBVIOUS
<1>2. /\ Activation!Names[1] = "resolve" /\ Activation!Names[2] = "capture"
      /\ Activation!Names[3] = "commit"
      /\ Activation!Names[4] = "publish" /\ Activation!Names[5] = "restart"
      /\ Activation!Names[6] = "health"
      /\ Activation!Names[7] = "inference" /\ Activation!Names[8] = "promote"
  BY DEF Activation!Names
<1> HIDE DEF Activation!Names
<1> QED BY <1>1, <1>2 DEF Activation!At

LEMMA ProbeAnswers ==
    ASSUME run.at \in 1..8
    PROVE  /\ Activation!Probe \subseteq Answers
           /\ run.at \in {1, 2} => Activation!Probe = {"ABSENT"}
           /\ run.at = 3 => Activation!Probe = {Activation!ConfigProbe}
<1>1. /\ Activation!ConfigProbe \in Answers /\ Activation!HandoffProbe \in Answers
      /\ Activation!RestartProbe \in Answers /\ Activation!KnownProbe \in Answers
  BY DEF Activation!ConfigProbe, Activation!HandoffProbe, Activation!RestartProbe,
     Activation!KnownProbe, Answers
<1>2. Activation!PublishProbe \in Answers
  BY <1>1 DEF Activation!PublishProbe, Answers
<1>3. "ABSENT" \in Answers /\ "COMPLETE" \in Answers /\ "REVERTIBLE" \in Answers
  BY DEF Answers
<1> HIDE DEF Answers, Activation!ConfigProbe, Activation!PublishProbe, Activation!RestartProbe,
   Activation!KnownProbe, Activation!Serving, Activation!At
<1>4. \/ Activation!At = "resolve" /\ Activation!Probe = {"ABSENT"} /\ run.at = 1
      \/ Activation!At = "capture" /\ Activation!Probe = {"ABSENT"} /\ run.at = 2
      \/ Activation!At = "commit" /\ Activation!Probe = {Activation!ConfigProbe} /\ run.at = 3
      \/ Activation!At = "publish" /\ Activation!Probe = {Activation!PublishProbe} /\ run.at = 4
      \/ Activation!At = "restart" /\ Activation!Probe = {Activation!RestartProbe} /\ run.at = 5
      \/ Activation!At = "health" /\ Activation!Probe \in {{}, {"COMPLETE"}, {"REVERTIBLE"}}
          /\ run.at = 6
      \/ Activation!At = "inference" /\ Activation!Probe \in {{}, {"COMPLETE"}} /\ run.at = 7
      \/ Activation!At = "promote" /\ Activation!Probe = {Activation!KnownProbe} /\ run.at = 8
  BY StepAtWork DEF Activation!Probe
<1> QED BY <1>1, <1>2, <1>3, <1>4

LEMMA HoldsSays ==
    ASSUME run.at \in 1..8, Activation!Holds
    PROVE  /\ run.at = 3 => Activation!ConfigProbe = "COMPLETE"
           /\ run.at = 4 => Activation!HandoffProbe = "COMPLETE"
           /\ run.at = 5 => Activation!RestartProbe = "COMPLETE"
           /\ run.at = 8 => Activation!KnownProbe = "COMPLETE"
<1> HIDE DEF Activation!ConfigProbe, Activation!HandoffProbe, Activation!RestartProbe,
   Activation!KnownProbe, Activation!At
<1> QED BY StepAtWork DEF Activation!Holds

\* However the run moves: nothing changes but its place.
LEMMA ActivationMoves ==
    ASSUME ActivationInv, NEW q, RunInv(q, Activation!Wf), NEW classes,
           Moves(run, q, Activation!Wf, Activation!Holds, classes, Activation!Restored),
           run.at = 3 => classes \subseteq {Activation!ConfigProbe, "UNCERTAIN_MANUAL"},
           q.row = "CHECKPOINTED" /\ q.at = 2 => run.row = "CHECKPOINTED"
    PROVE  ActivationPlaced(q)
<1> HIDE DEF Activation!Wf, Activation!Holds, Activation!Restored, Activation!ConfigProbe
<1>0. RunInv(run, Activation!Wf) /\ ActivationPlaced(run) /\ FoundSane
  BY DEF ActivationInv
<1>1. /\ run.at \in 1..9 /\ run.row \in {"PENDING", "RUNNING", "CHECKPOINTED"}
      /\ q.at \in 1..9 /\ q.row \in {"PENDING", "RUNNING", "CHECKPOINTED"}
      /\ run.way = "forward" =>
          run.undone = {} /\ (Run!ToUndo(run, Activation!Wf) = {} <=> BeforeStep(run, 3))
      /\ q.way = "forward" =>
          q.undone = {} /\ (Run!ToUndo(q, Activation!Wf) = {} <=> BeforeStep(q, 3))
      /\ Run!ToUndo(run, Activation!Wf) # {} => HasPrior(run)
      /\ Run!ToUndo(q, Activation!Wf) # {} => HasPrior(q)
  BY <1>0, ActivationUndo
<1>2. CASE Stays(run, q)
        /\ (q.end \in {"FAILED_SAFE", "FAILED_ROLLED_BACK", "CANCELLED"} => AsFound)
  <2>1. q.at = run.at /\ q.row = run.row /\ q.way = run.way /\ q.undone = run.undone
    BY <1>2 DEF Stays
  <2>2. Run!ToUndo(q, Activation!Wf) = Run!ToUndo(run, Activation!Wf)
    BY <2>1, SameToUndo
  <2>3. HasPrior(q) => PriorKept
    BY <1>0, <2>1 DEF ActivationPlaced, HasPrior
  <2>4. q.way = "forward" => ForwardSoFar(q)
    BY <1>0, <2>1 DEF ActivationPlaced, ForwardSoFar, BeforeStep
  <2>5. TakenBack(q) => AsFound
    BY <1>0, <1>2, <2>2 DEF ActivationPlaced, TakenBack
  <2> QED BY <2>3, <2>4, <2>5 DEF ActivationPlaced
<1>3. CASE Stops(run, q) \/ Succeeds(run, q, Activation!Wf) \/ GoesBack(run, q)
  <2>1. Stays(run, q) /\ q.end \in {"none", "RECOVERY_REQUIRED", "SUCCEEDED"}
    BY <1>3 DEF Stops, Succeeds, GoesBack
  <2> QED BY <1>2, <2>1
<1>4. CASE CancelsAtOnce(run, q, Activation!Wf) \/ HasUndone(run, q, Activation!Wf)
  <2>1. Stays(run, q) /\ Run!ToUndo(run, Activation!Wf) = {}
    BY <1>4, StepsOfActivation DEF CancelsAtOnce, HasUndone
  <2>2. AsFound
    BY <1>0, <2>1 DEF ActivationPlaced, TakenBack
  <2> QED BY <1>2, <2>1, <2>2
<1>5. CASE \E class \in classes : FailsSafe(run, q, Activation!Wf, class)
  <2>1. PICK class \in classes : FailsSafe(run, q, Activation!Wf, class)
    BY <1>5
  <2>2. /\ Stays(run, q) /\ run.way = "forward" /\ run.row # "PENDING" /\ run.at \in 1..8
        /\ Run!ToUndo(run, Activation!Wf) \ {run.at} = {}
        /\ class \in {"ABSENT", "DISCARDABLE"} \/ run.at \notin {3, 4, 5, 8}
    BY <1>1, <2>1, StepsOfActivation DEF FailsSafe
  <2>3. run.at <= 3
    <3>1. ASSUME run.at > 3 PROVE FALSE
      <4>1. 3 \in Run!ToUndo(run, Activation!Wf)
        BY <1>0, <1>1, <2>2, <3>1, ActivationUndo
      <4> QED BY <2>2, <3>1, <4>1
    <3> QED BY <1>1, <3>1
  <2>4. CASE run.at < 3
    <3>1. AsFound
      BY <1>0, <1>1, <2>2, <2>4 DEF ActivationPlaced, TakenBack, BeforeStep
    <3> QED BY <1>2, <2>2, <3>1
  <2>5. CASE run.at = 3
    <3>1. class = Activation!ConfigProbe /\ class \in {"ABSENT", "DISCARDABLE"}
      BY <2>2, <2>5
    <3>2. config.model = prior.config.model
      BY <3>1 DEF Activation!ConfigProbe
    <3>3. PriorKept /\ ForwardSoFar(run)
      BY <1>0, <2>2, <2>5 DEF ActivationPlaced, HasPrior
    <3>4. AsFound
      BY <2>5, <3>2, <3>3 DEF AsFound, PriorKept, ForwardSoFar, BeforeStep
    <3> QED BY <1>2, <2>2, <3>4
  <2> QED BY <1>1, <2>3, <2>4, <2>5
<1>6. CASE GoesOn(run, q)
  <2>1. /\ run.way = "forward" /\ q.way = "forward" /\ q.end = "none" /\ q.at = run.at
        /\ q.row = "PENDING" => run.row = "PENDING"
    BY <1>6 DEF GoesOn
  <2>2. \A i : BeforeStep(q, i) => BeforeStep(run, i)
    BY <2>1 DEF BeforeStep
  <2>3. HasPrior(q) => PriorKept
    BY <1>0, <1>1, <2>1 DEF ActivationPlaced, HasPrior
  <2>4. ForwardSoFar(q)
    BY <1>0, <2>1, <2>2 DEF ActivationPlaced, ForwardSoFar
  <2>5. TakenBack(q) => AsFound
    BY <1>0, <1>1, <2>1, <2>2 DEF ActivationPlaced, TakenBack
  <2> QED BY <2>3, <2>4, <2>5 DEF ActivationPlaced
<1>7. CASE Verifies(run, q) /\ Activation!Holds
  <2>1. /\ run.way = "forward" /\ q.way = "forward" /\ q.end = "none" /\ q.at = run.at + 1
        /\ run.row = "CHECKPOINTED" /\ q.row = "PENDING" /\ run.at \in 1..8 /\ Activation!Holds
    BY <1>1, <1>7 DEF Verifies
  <2>2. HasPrior(q) => PriorKept
    BY <1>0, <2>1 DEF ActivationPlaced, HasPrior
  <2>3. ForwardSoFar(run) /\ (run.at > 1 => PriorKept)
    BY <1>0, <2>1 DEF ActivationPlaced, HasPrior
  <2>4. run.at = 3 => config.model = target
    BY <2>1, HoldsSays DEF Activation!ConfigProbe
  <2>5. run.at = 4 => handoff = CandidateHandoff
    <3>1. ASSUME run.at = 4 PROVE handoff = CandidateHandoff
      <4>1. handoff # None /\ handoff.rev = prior.config.rev + 1
        BY <2>1, <3>1, HoldsSays DEF Activation!HandoffProbe
      <4>2. found.config.rev \in Nat /\ prior.config = found.config
        BY <1>0, <2>3, <3>1 DEF FoundSane, PriorKept
      <4>3. handoff # found.handoff
        BY <1>0, <4>1, <4>2 DEF FoundSane
      <4> QED BY <2>3, <4>3 DEF ForwardSoFar
    <3> QED BY <3>1
  <2>6. run.at = 5 => service \in {None, target}
    BY <2>1, HoldsSays DEF Activation!RestartProbe, Activation!Serving
  <2>7. run.at = 8 => known = target
    <3>1. ASSUME run.at = 8 PROVE known = target
      <4>1. Activation!KnownProbe = "COMPLETE"
        BY <2>1, <3>1, HoldsSays
      <4> QED BY <4>1 DEF Activation!KnownProbe
    <3> QED BY <3>1
  <2>8. ForwardSoFar(q)
    BY <2>1, <2>3, <2>4, <2>5, <2>6, <2>7 DEF ForwardSoFar, BeforeStep
  <2>9. TakenBack(q) => AsFound
    BY <1>0, <1>1, <2>1 DEF ActivationPlaced, TakenBack, BeforeStep
  <2> QED BY <2>2, <2>8, <2>9 DEF ActivationPlaced
<1>8. CASE TurnsBack(run, q, Activation!Wf)
  <2>1. /\ q.way # "forward" /\ q.at = run.at /\ q.row = run.row /\ q.end = "none"
        /\ q.undone = run.undone
    BY <1>1, <1>8 DEF TurnsBack
  <2>2. Run!ToUndo(q, Activation!Wf) = Run!ToUndo(run, Activation!Wf)
    BY <2>1, SameToUndo
  <2> QED BY <1>0, <2>1, <2>2 DEF ActivationPlaced, HasPrior, TakenBack
<1>9. CASE UndoesOne(run, q) /\ Activation!Restored
  <2>1. /\ q.way # "forward" /\ q.at = run.at /\ q.row = run.row /\ q.end = "none"
        /\ run.todo # {}
        /\ run.pc \in {"undo", "undoing", "undone"} /\ Activation!Restored
    BY <1>9 DEF UndoesOne
  <2>2. Run!ToUndo(run, Activation!Wf) # {}
    BY <1>0, <2>1 DEF RunInv, RunPlaced
  <2>3. PriorKept
    BY <1>0, <1>1, <2>2 DEF ActivationPlaced
  <2>4. AsFound
    BY <2>1, <2>3 DEF AsFound, PriorKept, Activation!Restored, Activation!ServiceLike
  <2> QED BY <2>1, <2>3, <2>4 DEF ActivationPlaced
<1> QED BY <1>3, <1>4, <1>5, <1>6, <1>7, <1>8, <1>9 DEF Moves

MachineVars == <<target, config, handoff, service, known, prior, found>>

LEMMA ActivationMoved ==
    ASSUME ActivationInv, RunInv(run', Activation!Wf), NEW classes,
           Moves(run, run', Activation!Wf, Activation!Holds, classes, Activation!Restored),
           run.at = 3 => classes \subseteq {Activation!ConfigProbe, "UNCERTAIN_MANUAL"},
           run'.row = "CHECKPOINTED" /\ run'.at = 2 => run.row = "CHECKPOINTED",
           run'.pc # "landed", UNCHANGED MachineVars
    PROVE  ActivationInv'
<1> HIDE DEF Activation!Wf, Activation!Holds, Activation!Restored, Activation!ConfigProbe
<1>1. DEFINE q == run'
<1>2. ActivationPlaced(q)
  BY ActivationMoves
<1>3. ActivationPlaced(run)'
  BY <1>2 DEF ActivationPlaced, PriorKept, ForwardSoFar, BeforeStep, TakenBack, HasPrior,
     AsFound, CandidateConfig,
              CandidateHandoff, Activation!ModelOf, MachineVars
<1>4. RunInv(run, Activation!Wf)' /\ FoundSane' /\ (run.pc = "landed" => run.at >= 3)'
  BY DEF ActivationInv, FoundSane, MachineVars, Activation!Wf
<1> QED BY <1>3, <1>4 DEF ActivationInv

\* The definitions of StepRun are the same in both modules.
LEMMA SameActivationTurns ==
    ASSUME NEW r, NEW wf, NEW holds, NEW classes, NEW restoration
    PROVE  Activation!Turns(r, wf, holds, classes, restoration) = Run!Turns(r, wf, holds,
        classes, restoration)
  BY DEF Activation!Turns, Activation!Claimed, Activation!Advanced, Activation!Ended,
     Activation!Crashed, Activation!Applied, Activation!Verified, Activation!RollingBack,
     Activation!Decided, Activation!Failed,
         Activation!Rejected, Activation!Latest, Activation!UndoAdvanced,
         Activation!Interrupted, Activation!Undone, Activation!UndoDecided, Activation!ToUndo,
         Activation!Flagged,
         Activation!DecideRecovery,
         Run!Turns, Run!Claimed, Run!Advanced, Run!Ended, Run!Crashed, Run!Applied, Run!Verified,
         Run!RollingBack, Run!Decided, Run!Failed, Run!Rejected, Run!Latest, Run!UndoAdvanced,
         Run!Interrupted, Run!Undone, Run!UndoDecided, Run!ToUndo, Run!Flagged, Run!DecideRecovery

LEMMA SameActivationMishaps ==
    ASSUME NEW r, NEW wf, NEW classes
    PROVE  Activation!Mishaps(r, wf, classes) = Run!Mishaps(r, wf, classes)
  BY DEF Activation!Mishaps, Activation!Ended, Activation!Crashed, Activation!RollingBack,
     Activation!Failed, Activation!Rejected, Activation!Latest, Activation!UndoFailed,
     Activation!ToUndo, Activation!Flagged,
         Run!Mishaps, Run!Ended, Run!Crashed, Run!RollingBack, Run!Failed, Run!Rejected,
         Run!Latest,
         Run!UndoFailed, Run!ToUndo, Run!Flagged

LEMMA SameActivationMoments ==
    ASSUME NEW r, NEW wf, NEW class
    PROVE  /\ Activation!Cancellable(r, wf) = Run!Cancellable(r, wf)
           /\ Activation!Cancelled(r, wf) = Run!Cancelled(r, wf)
           /\ Activation!Failed(r, wf, class) = Run!Failed(r, wf, class)
           /\ Activation!Applied(r) = Run!Applied(r) /\ Activation!Landed(r) = Run!Landed(r)
           /\ Activation!Undone(r) = Run!Undone(r) /\ Activation!UndoFailed(r) = Run!UndoFailed(r)
  BY DEF Activation!Cancellable, Activation!Cancelled, Activation!Ended, Activation!Failed,
     Activation!RollingBack, Activation!Applied, Activation!Landed, Activation!Undone,
     Activation!UndoFailed,
         Activation!Latest, Activation!ToUndo, Activation!Flagged,
         Run!Cancellable, Run!Cancelled, Run!Ended, Run!Failed, Run!RollingBack, Run!Applied,
         Run!Landed, Run!Undone, Run!UndoFailed, Run!Latest, Run!ToUndo, Run!Flagged

LEMMA ActivationPlace ==
    ASSUME ActivationInv
    PROVE  /\ RunInv(run, Activation!Wf) /\ run.at \in 1..9
           /\ (run.end # "none" => run.pc = "down")
           /\ run.pc \in {"effect", "landed", "probe", "verify"} =>
               run.at \in 1..8 /\ run.way = "forward"
           /\ run.pc \in {"effect", "landed", "probe"} => run.row = "RUNNING"
<1> HIDE DEF Activation!Wf
<1> QED BY ActivationUndo, StepsOfActivation DEF ActivationInv, RunInv, RunPlaced

LEMMA ActivationTurns ==
    ASSUME ActivationInv, Activation!Engine
    PROVE  ActivationInv'
<1> HIDE DEF Activation!Wf, Activation!Holds, Activation!Restored, Activation!ConfigProbe,
   Activation!Probe, Activation!At
<1>1. RunInv(run, Activation!Wf) /\ run.at \in 1..9 /\ (run.pc = "landed" => run.at >= 3)
  BY ActivationPlace DEF ActivationInv
<1>2. run.at <= 8 => Activation!Probe \subseteq Answers
  BY <1>1, ProbeAnswers
<1>3. run' \in Run!Turns(run, Activation!Wf, Activation!Holds, Activation!Probe,
        Activation!RestorationProbe)
  BY SameActivationTurns DEF Activation!Engine
<1>8. Len(Activation!Wf.steps) = 8
  BY StepsOfActivation
<1>4. /\ RunInv(run', Activation!Wf)
      /\ Moves(run, run', Activation!Wf, Activation!Holds, Activation!Probe,
          Activation!RestorationProbe = "COMPLETE")
  BY <1>1, <1>2, <1>3, <1>8, ActivationWorkable, RunTurns
<1>9. /\ run'.pc # "landed"
      /\ run'.row = "CHECKPOINTED" =>
            run.row = "CHECKPOINTED" \/ run.pc = "landed" \/ "COMPLETE" \in Activation!Probe
  <2>1. Lands(run, run', Activation!Probe)
    BY <1>1, <1>2, <1>3, <1>8, TurnsLand
  <2> QED BY <2>1 DEF Lands
<1>5. Activation!RestorationProbe = "COMPLETE" => Activation!Restored
  BY DEF Activation!RestorationProbe
<1>6. run'.row = "CHECKPOINTED" /\ run'.at = 2 => run.row = "CHECKPOINTED"
  <2>1. run'.at = run.at \/ (run'.at = run.at + 1 /\ run'.row = "PENDING")
    BY <1>4 DEF Moves, Stops, GoesOn, Succeeds, Verifies, FailsSafe,
                TurnsBack, CancelsAtOnce, GoesBack, HasUndone, UndoesOne, Stays
  <2> QED BY <1>1, <1>9, <2>1, ProbeAnswers
<1>7. UNCHANGED MachineVars
  BY DEF Activation!Engine, MachineVars
<1>10. run.at = 3 => Activation!Probe \subseteq {Activation!ConfigProbe, "UNCERTAIN_MANUAL"}
  BY ProbeAnswers
<1> HIDE DEF MachineVars
<1>11. Moves(run, run', Activation!Wf, Activation!Holds, Activation!Probe, Activation!Restored)
  BY <1>4, <1>5 DEF Moves
<1> QED BY <1>4, <1>6, <1>7, <1>9, <1>10, <1>11, ActivationMoved

LEMMA ActivationMisfortune ==
    ASSUME ActivationInv, Activation!Misfortune
    PROVE  ActivationInv'
<1> HIDE DEF Activation!Wf, Activation!Holds, Activation!Restored, Activation!ConfigProbe,
   Activation!Probe, Activation!At
<1>1. RunInv(run, Activation!Wf) /\ run.at \in 1..9
  BY ActivationPlace
<1>2. run' \in Run!Mishaps(run, Activation!Wf, Activation!Probe)
  BY SameActivationMishaps DEF Activation!Misfortune
<1>3. /\ RunInv(run', Activation!Wf)
      /\ Moves(run, run', Activation!Wf, FALSE, Activation!Probe \cup {"UNCERTAIN_MANUAL"}, FALSE)
      /\ run'.pc # "landed" /\ run'.at = run.at /\ run'.row = run.row
  <2>1. /\ RunInv(run', Activation!Wf)
        /\ Moves(run, run', Activation!Wf, FALSE, Activation!Probe \cup {"UNCERTAIN_MANUAL"},
            FALSE)
    BY <1>1, <1>2, ActivationWorkable, RunMishaps
  <2>2. run'.pc \notin {"landed", "effect"} /\ run'.at = run.at /\ run'.row = run.row
    BY <1>1, <1>2, MishapsStay
  <2> QED BY <2>1, <2>2
<1>6. Moves(run, run', Activation!Wf, Activation!Holds, Activation!Probe \cup
        {"UNCERTAIN_MANUAL"}, Activation!Restored)
  BY <1>3 DEF Moves
<1>4. run.at = 3 => Activation!Probe \cup
        {"UNCERTAIN_MANUAL"} \subseteq {Activation!ConfigProbe, "UNCERTAIN_MANUAL"}
  BY ProbeAnswers
<1>5. UNCHANGED MachineVars
  BY DEF Activation!Misfortune, MachineVars
<1> HIDE DEF MachineVars
<1> QED BY <1>3, <1>4, <1>5, <1>6, ActivationMoved

LEMMA ActivationCancelled ==
    ASSUME ActivationInv, Activation!Cancel
    PROVE  ActivationInv'
<1> HIDE DEF Activation!Wf, Activation!Holds, Activation!Restored, Activation!ConfigProbe,
   Activation!Probe, Activation!At
<1>1. RunInv(run, Activation!Wf)
  BY ActivationPlace
<1>2. Run!Cancellable(run, Activation!Wf) /\ run' = Run!Cancelled(run, Activation!Wf)
  BY SameActivationMoments DEF Activation!Cancel
<1>3. /\ RunInv(run', Activation!Wf)
      /\ (CancelsAtOnce(run, run', Activation!Wf) \/ TurnsBack(run, run', Activation!Wf))
  BY <1>1, <1>2, RunCancelled
<1>4. run'.at = run.at /\ run'.row = run.row /\ run'.pc # "landed"
  BY <1>3 DEF CancelsAtOnce, TurnsBack, Stays
<1>5. Moves(run, run', Activation!Wf, Activation!Holds, {}, Activation!Restored)
  BY <1>3 DEF Moves
<1>6. UNCHANGED MachineVars
  BY DEF Activation!Cancel, MachineVars
<1> HIDE DEF MachineVars
<1> QED BY <1>3, <1>4, <1>5, <1>6, ActivationMoved

-----------------------------------------------------------------------------
(* The steps                                                               *)

\* A step that refuses, or changes nothing.
LEMMA ActivationRefused ==
    ASSUME ActivationInv, run.pc = "effect", Activation!Refused, UNCHANGED MachineVars
    PROVE  ActivationInv'
<1> HIDE DEF Activation!Wf, Activation!Holds, Activation!Restored, Activation!ConfigProbe,
   Activation!Probe, Activation!At, MachineVars
<1>1. RunInv(run, Activation!Wf) /\ run.end = "none"
  BY ActivationPlace
<1>2. PICK class \in Activation!Probe \cup {"UNCERTAIN_MANUAL"} :
        run' = Run!Failed(run, Activation!Wf, class)
  BY SameActivationMoments DEF Activation!Refused
<1>3. /\ RunInv(run', Activation!Wf)
      /\ FailsSafe(run, run', Activation!Wf, class) \/ TurnsBack(run, run', Activation!Wf)
  BY <1>1, <1>2, ActivationWorkable, RunFailed
<1>4. run'.at = run.at /\ run'.row = run.row /\ run'.pc # "landed"
  BY <1>3 DEF FailsSafe, TurnsBack, Stays
<1>5. Moves(run, run', Activation!Wf, Activation!Holds, Activation!Probe \cup
        {"UNCERTAIN_MANUAL"}, Activation!Restored)
  BY <1>3 DEF Moves
<1>6. run.at = 3 => Activation!Probe \cup
        {"UNCERTAIN_MANUAL"} \subseteq {Activation!ConfigProbe, "UNCERTAIN_MANUAL"}
  BY ProbeAnswers
<1> QED BY <1>3, <1>4, <1>5, <1>6, ActivationMoved

LEMMA ActivationApplied ==
    ASSUME ActivationInv, run.pc = "effect", run.at # 2, run' = Activation!Applied(run),
        UNCHANGED MachineVars
    PROVE  ActivationInv'
<1> HIDE DEF Activation!Wf, Activation!Holds, Activation!Restored, Activation!ConfigProbe,
   Activation!Probe, Activation!At, MachineVars
<1>1. RunInv(run, Activation!Wf) /\ run.end = "none" /\ DOMAIN run # {}
  BY ActivationPlace DEF RunInv, RunShaped
<1>2. run' = Run!Applied(run)
  BY SameActivationMoments
<1>3. RunInv(run', Activation!Wf) /\ GoesOn(run, run')
  BY <1>1, <1>2, ActivationWorkable, RunApplied
<1>4. run'.at = run.at
  BY <1>3 DEF GoesOn
<1>5. run'.pc # "landed"
  BY <1>1, <1>2 DEF Run!Applied, RunInv, RunShaped
<1>6. Moves(run, run', Activation!Wf, Activation!Holds, {}, Activation!Restored)
  BY <1>3 DEF Moves
<1> QED BY <1>3, <1>4, <1>5, <1>6, ActivationMoved

\* What a landed or applied step left the run as.
LEMMA ActivationLanded ==
    ASSUME ActivationInv, run.pc = "effect", NEW q,
        q \in {Activation!Landed(run), Activation!Applied(run)}
    PROVE  /\ RunInv(q, Activation!Wf) /\ q.at = run.at /\ q.row \in {"RUNNING", "CHECKPOINTED"}
           /\ q.way = "forward" /\ q.end = "none" /\ run.way = "forward" /\ run.row = "RUNNING"
           /\ run.at \in 1..8 /\ q.pc \in {"landed", "verify"}
           /\ q = Activation!Applied(run) => q.pc = "verify"
<1> HIDE DEF Activation!Wf
<1>1. /\ RunInv(run, Activation!Wf) /\ run.end = "none" /\ run.way = "forward"
      /\ run.row = "RUNNING"
      /\ run.at \in 1..8
  BY ActivationPlace
<1>2. /\ q \in {Run!Landed(run), Run!Applied(run)}
      /\ (q = Activation!Applied(run) => q = Run!Applied(run))
  BY SameActivationMoments
<1>3. RunInv(q, Activation!Wf)
  BY <1>1, <1>2, ActivationWorkable, RunApplied
<1> QED BY <1>1, <1>2, <1>3 DEF Run!Landed, Run!Applied, RunInv, RunShaped

LEMMA ActivationCaptures ==
    ASSUME ActivationInv, Activation!CapturePrior
    PROVE  ActivationInv'
<1> HIDE DEF Activation!Wf
<1> DEFINE q == run'
<1>1. run.pc = "effect" /\ q = Activation!Applied(run)
  BY DEF Activation!CapturePrior, Activation!Executing
<1>2. /\ RunInv(q, Activation!Wf) /\ q.at = run.at
      /\ q.row \in {"RUNNING", "CHECKPOINTED"} /\ q.way = "forward"
      /\ q.end = "none" /\ run.way = "forward" /\ run.row = "RUNNING" /\ run.at \in 1..8
      /\ q.pc = "verify"
  BY <1>1, ActivationLanded
<1>3. run.at = 2
  BY <1>2, StepAtWork DEF Activation!CapturePrior, Activation!Executing
<1>4. ForwardSoFar(run) /\ FoundSane
  BY <1>2 DEF ActivationInv, ActivationPlaced
<1>5. PriorKept'
  BY <1>3, <1>4 DEF Activation!CapturePrior, PriorKept, ForwardSoFar, BeforeStep
<1>6. ForwardSoFar(run)'
  BY <1>2, <1>3, <1>4 DEF Activation!CapturePrior, ForwardSoFar, BeforeStep, CandidateConfig,
     CandidateHandoff
<1>7. AsFound'
  BY <1>3, <1>4 DEF Activation!CapturePrior, AsFound, ForwardSoFar, BeforeStep, Activation!ModelOf
<1>8. FoundSane' /\ RunInv(run, Activation!Wf)'
  BY <1>2, <1>4 DEF Activation!CapturePrior, FoundSane, Activation!Wf
<1> QED BY <1>2, <1>5, <1>6, <1>7, <1>8 DEF ActivationInv, ActivationPlaced

\* A step of the four that are undone has landed.
LEMMA ActivationEffect ==
    ASSUME ActivationInv, run.pc = "effect", run.at \in {3, 4, 5, 8},
        run' = Activation!Landed(run),
           UNCHANGED <<target, prior, found>>, ForwardSoFar(run)'
    PROVE  ActivationInv'
<1> HIDE DEF Activation!Wf
<1> DEFINE q == run'
<1>1. /\ RunInv(q, Activation!Wf) /\ q.at = run.at
      /\ q.row \in {"RUNNING", "CHECKPOINTED"} /\ q.way = "forward"
      /\ q.end = "none" /\ run.way = "forward" /\ run.row = "RUNNING"
  BY ActivationLanded
<1>2. PriorKept /\ FoundSane
  BY DEF ActivationInv, ActivationPlaced, HasPrior
<1>3. Run!ToUndo(q, Activation!Wf) # {}
  <2>1. ~ BeforeStep(q, 3)
    BY <1>1 DEF BeforeStep
  <2> QED BY <1>1, <2>1, ActivationUndo
<1>4. ~ TakenBack(run)'
  BY <1>1, <1>3 DEF TakenBack, Activation!Wf
<1>5. PriorKept' /\ FoundSane' /\ RunInv(run, Activation!Wf)'
  BY <1>1, <1>2 DEF PriorKept, FoundSane, Activation!Wf
<1> QED BY <1>1, <1>4, <1>5 DEF ActivationInv, ActivationPlaced

LEMMA ActivationSteps ==
    ASSUME ActivationInv, Activation!Activation
    PROVE  ActivationInv'
<1> HIDE DEF Activation!Wf
<1>1. run.at \in 1..9 /\ run.row \in {"PENDING", "RUNNING", "CHECKPOINTED"}
  BY ActivationPlace DEF RunInv, RunShaped
<1>2. CASE Activation!ResolveCandidate
  BY <1>1, <1>2, StepAtWork, ActivationApplied DEF Activation!ResolveCandidate,
     Activation!Executing, MachineVars
<1>3. CASE Activation!CapturePrior
  BY <1>3, ActivationCaptures
<1> USE DEF Activation!Executing
<1>4. CASE Activation!CommitCandidate
  <2>0. run.pc = "effect" /\ run.at = 3
    BY <1>1, <1>4, StepAtWork, ActivationPlace DEF Activation!CommitCandidate
  <2>1. CASE config.rev = found.config.rev
    <3>1. /\ run' = Activation!Landed(run) /\ config' = CandidateConfig
          /\ UNCHANGED <<target, prior, found, handoff, service, known>>
      BY <1>4, <2>1 DEF Activation!CommitCandidate, CandidateConfig
    <3>2. ForwardSoFar(run)
      BY <2>0, ActivationPlace DEF ActivationInv, ActivationPlaced
    <3>3. run'.at = 3 /\ run'.row \in {"RUNNING", "CHECKPOINTED"} /\ run.row = "RUNNING"
      BY <2>0, <3>1, ActivationLanded
    <3>4. ForwardSoFar(run)'
      BY <2>0, <3>1, <3>2, <3>3 DEF ForwardSoFar, BeforeStep, CandidateConfig
    <3> QED BY <2>0, <3>1, <3>4, ActivationEffect
  <2>2. CASE config.rev # found.config.rev
    BY <1>4, <2>0, <2>2, ActivationRefused DEF Activation!CommitCandidate, MachineVars
  <2> QED BY <2>1, <2>2
<1>5. CASE Activation!PublishCandidate
  <2>0. run.pc = "effect" /\ run.at = 4
    BY <1>1, <1>5, StepAtWork, ActivationPlace DEF Activation!PublishCandidate
  <2>1. /\ run' = Activation!Landed(run) /\ handoff' = CandidateHandoff
        /\ UNCHANGED <<target, prior, found, config, service, known>>
    BY <1>5 DEF Activation!PublishCandidate, CandidateHandoff
  <2>2. ForwardSoFar(run)
    BY <2>0, ActivationPlace DEF ActivationInv, ActivationPlaced
  <2>3. run'.at = 4 /\ run'.row \in {"RUNNING", "CHECKPOINTED"} /\ run.row = "RUNNING"
    BY <2>0, <2>1, ActivationLanded
  <2>4. ForwardSoFar(run)'
    BY <2>0, <2>1, <2>2, <2>3 DEF ForwardSoFar, BeforeStep, CandidateConfig, CandidateHandoff
  <2> QED BY <2>0, <2>1, <2>4, ActivationEffect
<1>6. CASE Activation!RestartCandidate
  <2>0. run.pc = "effect" /\ run.at = 5
    BY <1>1, <1>6, StepAtWork, ActivationPlace DEF Activation!RestartCandidate
  <2>1. CASE ~ sound
    BY <1>6, <2>0, <2>1, ActivationRefused DEF Activation!RestartCandidate, MachineVars
  <2>2. CASE sound /\ service # None /\ Activation!Serving
    BY <1>6, <2>0, <2>2, ActivationApplied DEF Activation!RestartCandidate, MachineVars
  <2>3. CASE sound /\ ~ (service # None /\ Activation!Serving)
    <3>1. /\ run' = Activation!Landed(run)
          /\ UNCHANGED <<target, prior, found, config, handoff, known>>
      BY <1>6, <2>3 DEF Activation!RestartCandidate
    <3>2. ForwardSoFar(run)
      BY <2>0, ActivationPlace DEF ActivationInv, ActivationPlaced
    <3>3. run'.at = 5 /\ run'.row \in {"RUNNING", "CHECKPOINTED"} /\ run.row = "RUNNING"
      BY <2>0, <3>1, ActivationLanded
    <3>4. ForwardSoFar(run)'
      BY <2>0, <3>1, <3>2, <3>3 DEF ForwardSoFar, BeforeStep, CandidateConfig, CandidateHandoff
    <3> QED BY <2>0, <3>1, <3>4, ActivationEffect
  <2> QED BY <2>1, <2>2, <2>3
<1>7. CASE Activation!CheckHealth
  <2>0. run.pc = "effect" /\ run.at = 6
    BY <1>1, <1>7, StepAtWork, ActivationPlace DEF Activation!CheckHealth
  <2> QED BY <1>7, <2>0, ActivationApplied, ActivationRefused DEF Activation!CheckHealth,
        MachineVars
<1>8. CASE Activation!CheckInference
  <2>0. run.pc = "effect" /\ run.at = 7
    BY <1>1, <1>8, StepAtWork, ActivationPlace DEF Activation!CheckInference
  <2> QED BY <1>8, <2>0, ActivationApplied, ActivationRefused DEF Activation!CheckInference,
        MachineVars
<1>9. CASE Activation!PromoteKnownGood
  <2>0. run.pc = "effect" /\ run.at = 8
    BY <1>1, <1>9, StepAtWork, ActivationPlace DEF Activation!PromoteKnownGood
  <2>1. /\ run' = Activation!Landed(run)
        /\ UNCHANGED <<target, prior, found, config, handoff, service>>
    BY <1>9 DEF Activation!PromoteKnownGood
  <2>2. ForwardSoFar(run)
    BY <2>0, ActivationPlace DEF ActivationInv, ActivationPlaced
  <2>3. run'.at = 8 /\ run'.row \in {"RUNNING", "CHECKPOINTED"} /\ run.row = "RUNNING"
    BY <2>0, <2>1, ActivationLanded
  <2>4. ForwardSoFar(run)'
    BY <2>0, <2>1, <2>2, <2>3 DEF ForwardSoFar, BeforeStep, CandidateConfig, CandidateHandoff
  <2> QED BY <2>0, <2>1, <2>4, ActivationEffect
<1> QED BY <1>2, <1>3, <1>4, <1>5, <1>6, <1>7, <1>8, <1>9 DEF Activation!Activation

-----------------------------------------------------------------------------
(* restore_prior                                                           *)

\* While a compensation is at work nothing is claimed but what was captured.
LEMMA ActivationUndoing ==
    ASSUME ActivationInv, run.pc \in {"undoing", "undone"}
    PROVE  /\ RunInv(run, Activation!Wf) /\ run.way # "forward" /\ run.end = "none"
           /\ run.todo # {}
           /\ Run!ToUndo(run, Activation!Wf) # {} /\ PriorKept
<1> HIDE DEF Activation!Wf
<1>1. /\ RunInv(run, Activation!Wf) /\ run.way # "forward" /\ run.end = "none" /\ run.todo # {}
      /\ Run!ToUndo(run, Activation!Wf) # {}
  BY DEF ActivationInv, RunInv, RunPlaced
<1> QED BY <1>1, ActivationUndo DEF ActivationInv, ActivationPlaced

LEMMA ActivationRestores ==
    ASSUME ActivationInv, run.pc = "undoing",
           UNCHANGED run \/ run' = [run EXCEPT !.pc = "undone"],
           UNCHANGED <<target, prior, found>>
    PROVE  ActivationInv'
<1> HIDE DEF Activation!Wf
<1> DEFINE q == run'
<1>1. /\ RunInv(run, Activation!Wf) /\ run.way # "forward" /\ run.end = "none" /\ run.todo # {}
      /\ Run!ToUndo(run, Activation!Wf) # {} /\ PriorKept
  BY ActivationUndoing
<1>2. RunInv(q, Activation!Wf) /\ Stays(run, q) /\ q.end = "none" /\ q.pc # "landed"
  <2>1. CASE UNCHANGED run
    BY <1>1, <2>1 DEF Stays
  <2>2. CASE run' = [run EXCEPT !.pc = "undone"]
    <3>1. RunInv(q, Activation!Wf) /\ GoesBack(run, q)
      BY <1>1, <2>2, RunInUndo
    <3> QED BY <3>1 DEF GoesBack
  <2> QED BY <2>1, <2>2
<1>3. /\ q.at = run.at /\ q.row = run.row /\ q.way # "forward"
      /\ Run!ToUndo(q, Activation!Wf) # {}
  BY <1>1, <1>2, SameToUndo DEF Stays
<1>4. ~ TakenBack(run)'
  BY <1>2, <1>3 DEF TakenBack, Activation!Wf
<1>5. PriorKept' /\ FoundSane' /\ RunInv(run, Activation!Wf)'
  BY <1>1, <1>2 DEF ActivationInv, PriorKept, FoundSane, Activation!Wf
<1> QED BY <1>2, <1>3, <1>4, <1>5 DEF ActivationInv, ActivationPlaced

LEMMA ActivationVerifiesRestored ==
    ASSUME ActivationInv, Activation!VerifyRestored
    PROVE  ActivationInv'
<1> HIDE DEF Activation!Wf, Activation!Holds, Activation!Restored, Activation!ConfigProbe,
   Activation!Probe, Activation!At
<1>1. /\ RunInv(run, Activation!Wf) /\ run.way # "forward" /\ run.end = "none" /\ run.todo # {}
      /\ run.pc = "undone"
  BY ActivationUndoing DEF Activation!VerifyRestored
<1>2. UNCHANGED MachineVars
  BY DEF Activation!VerifyRestored, MachineVars
<1> HIDE DEF MachineVars
<1>3. CASE Activation!Restored
  <2>1. run' = Run!Undone(run)
    BY <1>3, SameActivationMoments DEF Activation!VerifyRestored
  <2>2. RunInv(run', Activation!Wf) /\ UndoesOne(run, run')
    BY <1>1, <2>1, RunUndone
  <2>3. Moves(run, run', Activation!Wf, Activation!Holds, {}, Activation!Restored)
    BY <1>3, <2>2 DEF Moves
  <2>4. run'.at = run.at /\ run'.row = run.row /\ run'.pc = "undo"
    BY <2>2 DEF UndoesOne
  <2> QED BY <1>2, <2>2, <2>3, <2>4, ActivationMoved
<1>4. CASE ~ Activation!Restored
  <2>1. run' = Run!UndoFailed(run)
    BY <1>4, SameActivationMoments DEF Activation!VerifyRestored
  <2>2. RunInv(run', Activation!Wf) /\ GoesBack(run, run')
    BY <1>1, <2>1, RunUndoFailed
  <2>3. Moves(run, run', Activation!Wf, Activation!Holds, {}, Activation!Restored)
    BY <2>2 DEF Moves
  <2>4. run'.at = run.at /\ run'.row = run.row /\ run'.pc # "landed"
    BY <2>2 DEF GoesBack, Stays
  <2> QED BY <1>2, <2>2, <2>3, <2>4, ActivationMoved
<1> QED BY <1>3, <1>4

LEMMA RestorationSteps ==
    ASSUME ActivationInv, Activation!Restoration
    PROVE  ActivationInv'
<1> HIDE DEF Activation!Wf, Activation!Restored
<1>1. CASE Activation!VerifyRestored
  BY <1>1, ActivationVerifiesRestored
<1>2. CASE ~ Activation!VerifyRestored
  <2>1. /\ run.pc = "undoing" /\ UNCHANGED <<target, prior, found>>
        /\ UNCHANGED run \/ run' = [run EXCEPT !.pc = "undone"]
    BY <1>2 DEF Activation!Restoration, Activation!AlreadyProven, Activation!RestoreConfig,
       Activation!RenderHandoff, Activation!RestoreKnownGood,
                Activation!RestoreHandoff, Activation!RestoreService, Activation!Undoing
  <2> QED BY <2>1, ActivationRestores
<1> QED BY <1>1, <1>2

-----------------------------------------------------------------------------
(* Around the run                                                          *)

LEMMA ActivationAround ==
    ASSUME ActivationInv, Activation!ServiceFails \/ Activation!ArtifactReplaced
        \/ UNCHANGED Activation!activationVars
    PROVE  ActivationInv'
<1> HIDE DEF Activation!Wf
<1>0. UNCHANGED <<run, target, config, handoff, known, prior, found>>
  BY DEF Activation!ServiceFails, Activation!ArtifactReplaced, Activation!activationVars
<1>1. service' = service \/ (service # None /\ service' \in {None, Activation!ModelOf(handoff)})
  BY DEF Activation!ServiceFails, Activation!ArtifactReplaced, Activation!activationVars
<1>2. RunInv(run, Activation!Wf)' /\ FoundSane' /\ (run.pc = "landed" => run.at >= 3)'
  BY <1>0 DEF ActivationInv, FoundSane, Activation!Wf
<1>3. ASSUME HasPrior(run)' PROVE PriorKept'
  BY <1>0, <1>3 DEF ActivationInv, ActivationPlaced, HasPrior, PriorKept
<1>4. ASSUME TakenBack(run)' PROVE AsFound'
  <2>1. AsFound
    BY <1>0, <1>4 DEF ActivationInv, ActivationPlaced, TakenBack, Activation!Wf
  <2> QED BY <1>0, <1>1, <2>1 DEF AsFound, Activation!ModelOf
<1>5. ASSUME (run.way = "forward")' PROVE ForwardSoFar(run)'
  <2>1. ForwardSoFar(run) /\ target \in Activation!Models
    BY <1>0, <1>5 DEF ActivationInv, ActivationPlaced, FoundSane
  <2>2. run.at > 5 => run.at > 4
    BY ActivationPlace
  <2>3. run.at > 5 => service' \in {None, target}
    <3>1. ASSUME run.at > 5 PROVE Activation!ModelOf(handoff) \in {None, target}
      BY <2>1, <2>2, <3>1 DEF ForwardSoFar, CandidateHandoff, Activation!ModelOf
    <3> QED BY <1>1, <2>1, <3>1 DEF ForwardSoFar
  <2>4. BeforeStep(run, 5) => (found.serving = None => service' = None)
    BY <1>1, <2>1 DEF ForwardSoFar
  <2> QED BY <1>0, <2>1, <2>3, <2>4 DEF ForwardSoFar, BeforeStep, CandidateConfig,
        CandidateHandoff
<1> QED BY <1>2, <1>3, <1>4, <1>5 DEF ActivationInv, ActivationPlaced

LEMMA ActivationStarts == Activation!Init => ActivationInv
<1> SUFFICES ASSUME Activation!Init PROVE ActivationInv
  OBVIOUS
<1>1. run = Activation!Queued /\ target \in Activation!Models /\ prior = None
      /\ found = [config |-> config, handoff |-> handoff, known |-> known, serving |-> service]
  BY DEF Activation!Init
<1>2. PICK m \in {None, "old"} :
        /\ config = [model |-> m, rev |-> 1]
        /\ handoff \in {None} \cup (IF m = None THEN {} ELSE {[model |-> m, rev |-> 1]})
  BY DEF Activation!Init
<1> HIDE DEF Activation!Wf
<1>3. RunInv(run, Activation!Wf)
  <2>1. RunShaped(run, Activation!Wf)
    BY <1>1, StepsOfActivation DEF RunShaped, Activation!Queued
  <2>2. RunPlaced(run, Activation!Wf)
    BY <1>1, StepsOfActivation DEF RunPlaced, Activation!Queued
  <2> QED BY <2>1, <2>2 DEF RunInv
<1>4. FoundSane
  BY <1>1, <1>2 DEF FoundSane
<1>5. AsFound /\ ~ HasPrior(run) /\ run.pc # "landed"
  BY <1>1 DEF AsFound, HasPrior, Activation!Queued
<1>6. ForwardSoFar(run)
  BY <1>1 DEF ForwardSoFar, BeforeStep, Activation!Queued
<1> QED BY <1>3, <1>4, <1>5, <1>6 DEF ActivationInv, ActivationPlaced

LEMMA ActivationInduction ==
    ActivationInv /\ [Activation!Next]_(Activation!activationVars) => ActivationInv'
<1> SUFFICES ASSUME ActivationInv, [Activation!Next]_(Activation!activationVars)
             PROVE ActivationInv'
  OBVIOUS
<1> HIDE DEF Activation!Wf
<1> QED BY ActivationTurns, ActivationMisfortune, ActivationCancelled, ActivationAround,
           ActivationSteps, RestorationSteps DEF Activation!Next

LEMMA ActivationInvSound == ActivationInv => Activation!ActivationSound
<1> SUFFICES ASSUME ActivationInv PROVE Activation!ActivationSound
  OBVIOUS
<1> HIDE DEF Activation!Wf
<1>1. Activation!ActivatedAgrees
  <2>1. ASSUME run.end = "SUCCEEDED"
        PROVE  /\ config.model = target /\ known = target
               /\ handoff # None /\ handoff = [model |-> target, rev |-> config.rev]
               /\ service \in {None, target}
    <3>1. run.way = "forward" /\ run.at = 9
      BY <2>1, StepsOfActivation DEF ActivationInv, RunInv, RunPlaced
    <3>2. ForwardSoFar(run) /\ FoundSane
      BY <3>1 DEF ActivationInv, ActivationPlaced
    <3>3. config.rev \in Nat
      BY <3>2 DEF ForwardSoFar, FoundSane, CandidateConfig
    <3>4. CandidateHandoff \in [model : Activation!Models \cup {None}, rev : Nat]
      BY <3>2, <3>3 DEF CandidateHandoff, FoundSane
    <3> QED BY <3>1, <3>2, <3>4, ActivationAssumption DEF ForwardSoFar, CandidateHandoff
  <2> QED BY <2>1 DEF Activation!ActivatedAgrees
<1>2. Activation!ActivationUndone
  BY DEF ActivationInv, ActivationPlaced, TakenBack, AsFound, Activation!ActivationUndone
<1> QED BY <1>1, <1>2 DEF Activation!ActivationSound

THEOREM ActivationStaysSound == Activation!ActivationSpec => []Activation!ActivationSound
<1>1. Activation!Init => ActivationInv
  BY ActivationStarts
<1>2. ActivationInv /\ [Activation!Next]_(Activation!activationVars) => ActivationInv'
  BY ActivationInduction
<1>3. ActivationInv => Activation!ActivationSound
  BY ActivationInvSound
<1> QED BY <1>1, <1>2, <1>3, PTL DEF Activation!ActivationSpec

-----------------------------------------------------------------------------
(* The profiles of a restore                                               *)
RecordsOf ==
    [at : 1..7, row : {"PENDING", "RUNNING", "CHECKPOINTED"}, end : {"none"} \cup Run!Terminal]

\* Rows that a run could have written.
RecordSane(r) ==
    /\ r \in RecordsOf
    /\ r.at = 7 => r.row = "PENDING"
    /\ r.end = "SUCCEEDED" => r.at = 7

RestorePhases ==
    {"none", "intent", "published", "verified", "promoted", "rollback_intent", "rolled_back"}

RestoreTyped ==
    /\ run.end \in {"none"} \cup Run!Terminal /\ run.way = "forward"
    /\ active \in Restore!Profiles /\ receipt \in RestorePhases /\ DOMAIN rows = Restore!Profiles
    /\ work \in {"none", "staged", "preserved", "intended", "exchanged", "carried", "reversing",
                "reversed", "recorded"}
    /\ RecordSane(rows["prior"])
    /\ rows["candidate"] # None => RecordSane(rows["candidate"])

\* The rows of the run are in the active profile, unless an exchange back left them behind.
RecordFollows ==
    /\ run.pc = "down" => rows[active] = Restore!Recorded(run)
    /\ rows[active] # Restore!Recorded(run) => receipt \in {"rollback_intent", "rolled_back"}

\* Evidence of the publication is there only for a run that has come to it.
RestorePublished ==
    /\ receipt # "none" => run.at >= 4 /\ rows["prior"].at >= 4
    /\ active = "candidate" =>
        receipt # "none" /\ rows["candidate"] # None /\ rows["candidate"].at >= 4
    /\ receipt \in {"published", "verified", "promoted"} => active = "candidate"
    /\ receipt = "rolled_back" => active = "prior"

\* Where the adapter is.
RestoreWork ==
    /\ work # "none" => run.pc = "effect" /\ run.end = "none"
    /\ work = "staged" => run.at = 2
    /\ work \in {"preserved", "intended", "exchanged"} => run.at = 4 /\ dirty # "all"
    /\ work \in {"preserved", "intended"} => active = "prior" /\ rows["candidate"] = rows["prior"]
    /\ work = "preserved" => receipt \in {"none", "intent"}
    /\ work = "intended" => receipt = "intent"
    /\ work = "exchanged" => receipt = "intent" /\ active = "candidate"
    /\ work \in {"carried", "reversing", "reversed"} => run.at = 5
    /\ work = "carried" => active = "candidate"
    /\ work \in {"reversing", "reversed"} => receipt = "rollback_intent"
    /\ work = "reversing" => active = "candidate"
    /\ work = "reversed" => active = "prior"
    /\ work = "recorded" => run.at = 6 /\ receipt # "rolled_back"

RestoreInv ==
    RunInv(run, Restore!Wf) /\ RestoreTyped /\ RecordFollows /\ RestorePublished /\ RestoreWork

-----------------------------------------------------------------------------
(* A run that has nothing to undo                                          *)

NothingToUndo(wf) == \A i \in DOMAIN wf.steps : ~ Run!Flagged(wf, i, "undo")

LEMMA ToUndoEmpty ==
    ASSUME NEW wf, NothingToUndo(wf), NEW r
    PROVE  Run!ToUndo(r, wf) = {}
  BY DEF NothingToUndo, Run!ToUndo

LEMMA FailedForward ==
    ASSUME NEW wf, NothingToUndo(wf), NEW r, RunInv(r, wf), r.at \in DOMAIN wf.steps, NEW class
    PROVE  /\ Run!Failed(r, wf, class) = Run!Ended(r, "FAILED_SAFE")
           /\ Run!Failed(r, wf, class).way = r.way /\ Run!Failed(r, wf, class).at = r.at
           /\ Run!Failed(r, wf, class).end = "FAILED_SAFE"
<1>1. Run!ToUndo(r, wf) \ {r.at} = {} /\ ~ Run!Flagged(wf, r.at, "undo")
  BY ToUndoEmpty DEF NothingToUndo
<1>2. Run!Failed(r, wf, class) = Run!Ended(r, "FAILED_SAFE")
  BY <1>1 DEF Run!Failed
<1> QED BY <1>2 DEF Run!Ended, RunInv, RunShaped

\* It goes forward for good, and never back to an earlier step.
StaysForward(r, q) ==
    /\ q.way = "forward" /\ q.at \in {r.at, r.at + 1}
    /\ q.end \in {"none", "SUCCEEDED", "FAILED_SAFE", "RECOVERY_REQUIRED", "CANCELLED"}

LEMMA TurnsForward ==
    ASSUME NEW wf, Workable(wf), NothingToUndo(wf), NEW r, RunInv(r, wf), r.way = "forward",
           r.end = "none", NEW holds, NEW classes,
           r.at <= Len(wf.steps) => classes \subseteq Answers \ {"REVERTIBLE"}, NEW restoration,
           NEW q \in Run!Turns(r, wf, holds, classes, restoration)
    PROVE  StaysForward(r, q)
<1> DEFINE n == Len(wf.steps)
<1>1. /\ DOMAIN r = {"at", "row", "way", "begun", "undone", "pc", "todo", "bad", "end"}
      /\ r.at \in 1..(n + 1) /\ n \in Nat /\ DOMAIN wf.steps = 1..n
  BY DEF RunInv, RunShaped, Workable
<1>2. r.pc \notin {"undo", "undoing", "undone"}
  BY DEF RunInv, RunPlaced
<1>3. r.pc \in {"probe", "verify", "reverify"} => r.at \in DOMAIN wf.steps
  BY <1>1 DEF RunInv, RunPlaced
<1>4. CASE r.end = "none" /\ r.pc = "down" /\ q = Run!Claimed(r, wf)
  BY <1>1, <1>4 DEF Run!Claimed, StaysForward
<1>5. CASE r.pc = "next" /\ q = Run!Advanced(r, wf)
  <2>1. r.row \in {"PENDING", "RUNNING", "CHECKPOINTED"}
    BY DEF RunInv, RunShaped
  <2>2. r.at > n => r.row = "PENDING"
    BY DEF RunInv, RunPlaced
  <2> QED BY <1>1, <1>5, <2>1, <2>2 DEF Run!Advanced, Run!Ended, StaysForward
<1>6. CASE r.pc = "probe" /\ \E class \in classes : q = Run!Decided(r, wf, class)
  <2>1. PICK class \in classes : q = Run!Decided(r, wf, class)
    BY <1>6
  <2>2. CASE class \in {"UNCERTAIN_MANUAL", "ABSENT", "COMPLETE", "PARTIALLY_RESUMABLE",
          "DISCARDABLE"}
    <3>1. Run!DecideRecovery(class, Run!Flagged(wf, r.at, "quiescent"))
            \in {"PAUSE", "REQUIRE_RECOVERY", "EXECUTE", "VERIFY", "RESUME", "DISCARD_AND_RETRY"}
      BY <2>2 DEF Run!DecideRecovery
    <3> QED BY <1>1, <2>1, <3>1 DEF Run!Decided, Run!Applied, Run!Crashed, Run!Ended, StaysForward
  <2> QED BY <1>1, <1>3, <1>6, <2>1, <2>2 DEF Answers
<1>7. CASE r.pc = "landed" /\ q = Run!Applied(r)
  BY <1>1, <1>7 DEF Run!Applied, StaysForward
<1>8. CASE r.pc \in {"verify", "reverify"} /\ q = Run!Verified(r)
  BY <1>1, <1>8 DEF Run!Verified, StaysForward
<1>9. CASE r.pc \in {"verify", "reverify"} /\ \E class \in classes :
        q = Run!Rejected(r, wf, class)
  <2>1. PICK class \in classes : q = Run!Rejected(r, wf, class)
    BY <1>9
  <2>2. CASE r.pc = "reverify"
    BY <1>1, <2>1, <2>2 DEF Run!Rejected, Run!Crashed, StaysForward
  <2>3. CASE r.pc = "verify"
    BY <1>1, <1>3, <2>1, <2>3, FailedForward DEF Run!Rejected, StaysForward
  <2> QED BY <1>9, <2>2, <2>3
<1> QED BY <1>2, <1>4, <1>5, <1>6, <1>7, <1>8, <1>9 DEF Run!Turns

\* It crashes, or ends at the step where it is.
LEMMA MishapsForward ==
    ASSUME NEW wf, Workable(wf), NothingToUndo(wf), NEW r, RunInv(r, wf), r.way = "forward",
           NEW classes, NEW q \in Run!Mishaps(r, wf, classes)
    PROVE  q = Run!Crashed(r) \/ StaysForward(r, q)
<1>1. \/ q = Run!Crashed(r)
      \/ /\ r.pc \in {"effect", "landed", "verify", "reverify"}
         /\ \E class \in classes \cup {"UNCERTAIN_MANUAL"} : q = Run!Rejected(r, wf, class)
      \/ r.pc = "undoing"
  BY DEF Run!Mishaps
<1>2. r.pc # "undoing" /\ DOMAIN wf.steps = 1..Len(wf.steps)
  BY DEF RunInv, RunPlaced, Workable
<1>3. CASE /\ r.pc \in {"effect", "landed", "verify", "reverify"}
           /\ \E class \in classes \cup {"UNCERTAIN_MANUAL"} : q = Run!Rejected(r, wf, class)
  <2>1. r.at \in DOMAIN wf.steps
    BY <1>2, <1>3 DEF RunInv, RunPlaced, RunShaped
  <2> QED BY <1>3, <2>1, FailedForward DEF Run!Rejected, StaysForward
<1> QED BY <1>1, <1>2, <1>3

LEMMA CancelledForward ==
    ASSUME NEW wf, NothingToUndo(wf), NEW r, RunInv(r, wf), Run!Cancellable(r, wf)
    PROVE  StaysForward(r, Run!Cancelled(r, wf))
<1>1. Run!Cancelled(r, wf) = Run!Ended(r, "CANCELLED") /\ r.way = "forward"
  BY ToUndoEmpty DEF Run!Cancelled, Run!Cancellable, RunInv, RunPlaced
<1> QED BY <1>1 DEF Run!Ended, RunInv, RunShaped, StaysForward

-----------------------------------------------------------------------------

LEMMA StepsOfRestore ==
    Len(Restore!Wf.steps) = 6 /\ DOMAIN Restore!Wf.steps = 1..6 /\ NothingToUndo(Restore!Wf)
        /\ Workable(Restore!Wf)
<1>1. /\ Len(Restore!Wf.steps) = 6 /\ DOMAIN Restore!Wf.steps = 1..6
      /\ Restore!Wf.steps[1].flags = {} /\ Restore!Wf.steps[2].flags = {}
      /\ Restore!Wf.steps[3].flags = {}
      /\ Restore!Wf.steps[4].flags = {"critical", "forward"}
      /\ Restore!Wf.steps[5].flags = {"critical"}
      /\ Restore!Wf.steps[6].flags = {}
  BY DEF Restore!Wf, Restore!W!BackupRestore, Restore!W!WorkflowDefinition, Restore!W!Plain,
     Restore!W!Critical, Restore!W!StepDefinition
<1> HIDE DEF Restore!Wf
<1>2. ASSUME NEW i \in 1..6 PROVE i = 1 \/ i = 2 \/ i = 3 \/ i = 4 \/ i = 5 \/ i = 6
  OBVIOUS
<1>3. \A i \in 1..6 : ~ Run!Flagged(Restore!Wf, i, "undo")
  BY <1>1, <1>2 DEF Run!Flagged
<1> QED BY <1>1, <1>3 DEF NothingToUndo, Workable

\* The step at work, and what its probe answers.
LEMMA StepAtRestore ==
    ASSUME run.at \in 1..7
    PROVE  /\ run.at = 1 <=> Restore!At = "validate" /\ run.at < 7
           /\ run.at = 2 <=> Restore!At = "stage" /\ run.at < 7
           /\ run.at = 3 <=> Restore!At = "validate_staged" /\ run.at < 7
           /\ run.at = 4 <=> Restore!At = "publish" /\ run.at < 7
           /\ run.at = 5 <=> Restore!At = "verify_post" /\ run.at < 7
           /\ run.at = 6 <=> Restore!At = "promote" /\ run.at < 7
<1>1. \/ run.at = 1 \/ run.at = 2 \/ run.at = 3 \/ run.at = 4 \/ run.at = 5 \/ run.at = 6
      \/ run.at = 7
  OBVIOUS
<1>2. /\ Restore!Names[1] = "validate" /\ Restore!Names[2] = "stage"
      /\ Restore!Names[3] = "validate_staged"
      /\ Restore!Names[4] = "publish" /\ Restore!Names[5] = "verify_post"
      /\ Restore!Names[6] = "promote"
  BY DEF Restore!Names
<1> HIDE DEF Restore!Names
<1> QED BY <1>1, <1>2 DEF Restore!At

LEMMA RestoreProbes ==
    ASSUME run.at \in 1..6
    PROVE  Restore!Probe \subseteq Answers \ {"REVERTIBLE"}
<1>1. Restore!PublishProbe \in {"ABSENT", "COMPLETE", "UNCERTAIN_MANUAL"}
  BY DEF Restore!PublishProbe
<1>2. Restore!At \in {"validate", "stage", "validate_staged", "publish", "verify_post", "promote"}
  BY StepAtRestore
<1> HIDE DEF Restore!At, Restore!PublishProbe
<1>3. Restore!Probe \subseteq {"ABSENT", "COMPLETE", "UNCERTAIN_MANUAL"}
  BY <1>1, <1>2 DEF Restore!Probe
<1> QED BY <1>3 DEF Answers

\* Where the run of a restore is.
LEMMA RestorePlace ==
    ASSUME RestoreInv
    PROVE  /\ RunInv(run, Restore!Wf) /\ run.at \in 1..7 /\ run.way = "forward"
           /\ run.pc = "effect" => run.at \in 1..6 /\ run.end = "none" /\ run.row = "RUNNING"
<1> HIDE DEF Restore!Wf
<1> QED BY StepsOfRestore DEF RestoreInv, RestoreTyped, RunInv, RunShaped, RunPlaced

-----------------------------------------------------------------------------
(* Transactions                                                            *)

\* The rows of a run that goes forward are sane, and a run that is read from sane
\* rows is one that could be there.
LEMMA RecordedSane ==
    ASSUME NEW q, RunInv(q, Restore!Wf), q.way = "forward", q.end \in {"none"} \cup Run!Terminal
    PROVE  RecordSane(Restore!Recorded(q)) /\ Restore!Recorded(q).at = q.at
<1> HIDE DEF Restore!Wf
<1> QED BY StepsOfRestore DEF RecordSane, RecordsOf, Restore!Recorded, RunInv, RunShaped,
      RunPlaced

LEMMA RestoreReads ==
    ASSUME RestoreInv, NEW row, RecordSane(row)
    PROVE  LET q == Restore!Read(Run!Crashed(run), row) IN
           /\ RunInv(q, Restore!Wf) /\ q.way = "forward" /\ q.end \in {"none"} \cup Run!Terminal
           /\ q.at = row.at /\ q.pc = "down" /\ Restore!Recorded(q) = row
<1> HIDE DEF Restore!Wf
<1> DEFINE q == Restore!Read(Run!Crashed(run), row)
<1>1. RunInv(run, Restore!Wf) /\ run.way = "forward" /\ Len(Restore!Wf.steps) = 6
  BY RestorePlace, StepsOfRestore
<1>2. /\ q.at = row.at /\ q.row = row.row /\ q.end = row.end /\ q.way = "forward"
      /\ q.pc = "down" /\ q.bad = FALSE /\ q.undone = run.undone /\ DOMAIN q = DOMAIN run
  BY <1>1 DEF Restore!Read, Run!Crashed, RunInv, RunShaped
<1> HIDE DEF q
<1>3. Restore!Recorded(q) = row
  BY <1>2 DEF Restore!Recorded, RecordSane, RecordsOf
<1>4. /\ row.at \in 1..7 /\ row.row \in {"PENDING", "RUNNING", "CHECKPOINTED"}
      /\ row.end \in {"none"} \cup Run!Terminal
      /\ row.at = 7 => row.row = "PENDING"
      /\ row.end = "SUCCEEDED" => row.at = 7
  BY DEF RecordSane, RecordsOf
<1>5. RunShaped(q, Restore!Wf)
  <2>1. 1..(Len(Restore!Wf.steps) + 1) = 1..7
    BY <1>1
  <2>2. q.at \in 1..7 /\ q.row \in {"PENDING", "RUNNING", "CHECKPOINTED"}
    BY <1>2, <1>4
  <2>3. DOMAIN q = {"at", "row", "way", "begun", "undone", "pc", "todo", "bad", "end"}
    BY <1>1, <1>2 DEF RunInv, RunShaped
  <2> QED BY <1>2, <2>1, <2>2, <2>3 DEF RunShaped
<1>6. RunPlaced(q, Restore!Wf)
  BY <1>1, <1>2, <1>4 DEF RunInv, RunPlaced
<1> QED BY <1>2, <1>3, <1>4, <1>5, <1>6 DEF RunInv, q

\* What a step does to the run by a transaction.
LEMMA RestoreTransacts ==
    ASSUME RestoreInv, NEW q, RunInv(q, Restore!Wf), StaysForward(run, q), Restore!Transact(q),
        work' = "none",
           UNCHANGED <<active, receipt>>
    PROVE  RestoreInv'
<1> HIDE DEF Restore!Wf
<1> DEFINE row == Restore!Recorded(q)
<1>0. /\ RestoreTyped /\ RecordFollows /\ RestorePublished /\ RunInv(run, Restore!Wf)
      /\ run.at \in 1..7
  BY RestorePlace DEF RestoreInv
<1>1. /\ q.way = "forward" /\ q.at \in {run.at, run.at + 1}
      /\ q.end \in {"none"} \cup Run!Terminal
      /\ RecordSane(row) /\ row.at = q.at /\ q.at >= run.at /\ q.at \in 1..7
  <2>1. q.way = "forward" /\ q.at \in {run.at, run.at + 1} /\ q.end \in {"none"} \cup Run!Terminal
    BY DEF StaysForward, Run!Terminal
  <2>2. RecordSane(row) /\ row.at = q.at
    BY <2>1, RecordedSane
  <2> QED BY <1>0, <2>1, <2>2 DEF RecordSane, RecordsOf
<1>2. /\ RecordSane(rows[active])
      /\ receipt # "none" => rows[active].at >= 4
  BY <1>0 DEF RestoreTyped, RestorePublished, Restore!Profiles
<1> HIDE DEF row
<1>3. /\ RunInv(run', Restore!Wf) /\ run'.way = "forward"
      /\ run'.end \in {"none"} \cup Run!Terminal
      /\ rows'[active] = Restore!Recorded(run') /\ RecordSane(rows'[active])
      /\ receipt # "none" => run'.at >= 4 /\ rows'[active].at >= 4
      /\ DOMAIN rows' = Restore!Profiles
      /\ \A p \in Restore!Profiles \ {active} : rows'[p] = rows[p]
  <2>1. CASE rows[active] = Restore!Recorded(run)
    <3>1. run' = q /\ rows' = [rows EXCEPT ![active] = row]
      BY <2>1 DEF Restore!Transact, row
    <3>2. receipt # "none" => run.at >= 4
      BY <1>0 DEF RestorePublished
    <3>3. rows'[active] = row /\ DOMAIN rows' = Restore!Profiles
            /\ \A p \in Restore!Profiles \ {active} : rows'[p] = rows[p]
      BY <1>0, <3>1 DEF RestoreTyped
    <3> QED BY <1>0, <1>1, <3>1, <3>2, <3>3 DEF row
  <2>2. CASE rows[active] # Restore!Recorded(run)
    <3>1. run' = Restore!Read(Run!Crashed(run), rows[active]) /\ rows' = rows
      BY <2>2 DEF Restore!Transact, Restore!Crashed, Run!Crashed
    <3>2. /\ RunInv(run', Restore!Wf) /\ run'.way = "forward"
          /\ run'.end \in {"none"} \cup Run!Terminal
          /\ run'.at = rows[active].at /\ Restore!Recorded(run') = rows[active]
      BY <1>2, <3>1, RestoreReads
    <3> QED BY <1>0, <1>2, <3>1, <3>2 DEF RestoreTyped
  <2> QED BY <2>1, <2>2
<1>4. RestoreTyped'
  <2>1. \A p \in Restore!Profiles : rows'[p] # None => RecordSane(rows'[p])
    BY <1>0, <1>3 DEF RestoreTyped, Restore!Profiles
  <2>2. rows'["prior"] # rows["prior"] => active = "prior"
    BY <1>3 DEF Restore!Profiles
  <2>3. RecordSane(rows'["prior"])
    BY <1>0, <1>3, <2>2 DEF RestoreTyped
  <2> QED BY <1>0, <1>3, <2>1, <2>3 DEF RestoreTyped, Restore!Profiles
<1>5. RecordFollows'
  BY <1>3 DEF RecordFollows
<1>6. RestorePublished'
  <2>1. /\ rows'["prior"] # rows["prior"] => active = "prior"
        /\ rows'["candidate"] # rows["candidate"] => active = "candidate"
    BY <1>3 DEF Restore!Profiles
  <2>2. receipt # "none" => rows'["prior"].at >= 4
    BY <1>0, <1>3, <2>1 DEF RestorePublished
  <2>3. active = "candidate" =>
          receipt # "none" /\ rows'["candidate"] # None /\ rows'["candidate"].at >= 4
    BY <1>0, <1>3, RestoreAssumption DEF Restore!Terminal, Run!Terminal, RestorePublished,
       RecordSane, RecordsOf
  <2> QED BY <1>0, <1>3, <2>2, <2>3 DEF RestorePublished
<1>7. RestoreWork'
  BY DEF RestoreWork
<1>8. RunInv(run, Restore!Wf)'
  BY <1>3 DEF Restore!Wf
<1> QED BY <1>4, <1>5, <1>6, <1>7, <1>8 DEF RestoreInv

\* The rows are read again by a process that has just died or lost its rows.
LEMMA RestoreRereads ==
    ASSUME RestoreInv, run' = Restore!Read(Run!Crashed(run), rows[active]), rows' = rows,
        work' = "none",
           UNCHANGED <<active, receipt>>
    PROVE  RestoreInv'
<1> HIDE DEF Restore!Wf
<1>1. RestoreTyped /\ RecordFollows /\ RestorePublished
  BY DEF RestoreInv
<1>2. RecordSane(rows[active]) /\ (receipt # "none" => rows[active].at >= 4)
  BY <1>1 DEF RestoreTyped, RestorePublished, Restore!Profiles
<1>3. /\ RunInv(run', Restore!Wf) /\ run'.way = "forward"
      /\ run'.end \in {"none"} \cup Run!Terminal
      /\ run'.at = rows[active].at /\ Restore!Recorded(run') = rows[active]
  BY <1>2, RestoreReads
<1>4. RestoreTyped' /\ RecordFollows' /\ RestorePublished' /\ RestoreWork'
  BY <1>1, <1>2, <1>3 DEF RestoreTyped, RecordFollows, RestorePublished, RestoreWork
<1>5. RunInv(run, Restore!Wf)'
  BY <1>3 DEF Restore!Wf
<1> QED BY <1>4, <1>5 DEF RestoreInv

-----------------------------------------------------------------------------

\* The definitions of StepRun are the same in both modules.
LEMMA SameRestoreTurns ==
    ASSUME NEW r, NEW wf, NEW holds, NEW classes, NEW restoration
    PROVE  Restore!Turns(r, wf, holds, classes, restoration) = Run!Turns(r, wf, holds, classes,
        restoration)
  BY DEF Restore!Turns, Restore!Claimed, Restore!Advanced, Restore!Ended, Restore!Crashed,
     Restore!Applied, Restore!Verified, Restore!RollingBack, Restore!Decided, Restore!Failed,
         Restore!Rejected, Restore!Latest, Restore!UndoAdvanced, Restore!Interrupted,
         Restore!Undone, Restore!UndoDecided, Restore!ToUndo, Restore!Flagged,
         Restore!DecideRecovery,
         Run!Turns, Run!Claimed, Run!Advanced, Run!Ended, Run!Crashed, Run!Applied, Run!Verified,
         Run!RollingBack, Run!Decided, Run!Failed, Run!Rejected, Run!Latest, Run!UndoAdvanced,
         Run!Interrupted, Run!Undone, Run!UndoDecided, Run!ToUndo, Run!Flagged, Run!DecideRecovery

LEMMA SameRestoreMishaps ==
    ASSUME NEW r, NEW wf, NEW classes
    PROVE  Restore!Mishaps(r, wf, classes) = Run!Mishaps(r, wf, classes)
  BY DEF Restore!Mishaps, Restore!Ended, Restore!Crashed, Restore!RollingBack, Restore!Failed,
     Restore!Rejected, Restore!Latest, Restore!UndoFailed, Restore!ToUndo, Restore!Flagged,
         Run!Mishaps, Run!Ended, Run!Crashed, Run!RollingBack, Run!Failed, Run!Rejected,
         Run!Latest,
         Run!UndoFailed, Run!ToUndo, Run!Flagged

LEMMA SameRestoreMoments ==
    ASSUME NEW r, NEW wf, NEW class
    PROVE  /\ Restore!Cancellable(r, wf) = Run!Cancellable(r, wf)
           /\ Restore!Cancelled(r, wf) = Run!Cancelled(r, wf)
           /\ Restore!Failed(r, wf, class) = Run!Failed(r, wf, class)
           /\ Restore!Crashed(r) = Run!Crashed(r)
           /\ Restore!Applied(r) = Run!Applied(r) /\ Restore!Landed(r) = Run!Landed(r)
           /\ Restore!Queued = Run!Queued
  BY DEF Restore!Cancellable, Restore!Cancelled, Restore!Ended, Restore!Failed,
     Restore!RollingBack, Restore!Applied, Restore!Landed, Restore!ToUndo, Restore!Flagged,
     Restore!Crashed,
         Restore!Queued,
         Run!Cancellable, Run!Cancelled, Run!Ended, Run!Failed, Run!RollingBack, Run!Applied,
         Run!Landed, Run!ToUndo, Run!Flagged, Run!Crashed, Run!Queued

LEMMA RestoreTurns ==
    ASSUME RestoreInv, Restore!Engine
    PROVE  RestoreInv'
<1> HIDE DEF Restore!Wf, Restore!Probe, Restore!Holds
<1>1. /\ RunInv(run, Restore!Wf) /\ run.at \in 1..7 /\ run.way = "forward"
      /\ Len(Restore!Wf.steps) = 6
  BY RestorePlace, StepsOfRestore
<1>2. PICK r \in Run!Turns(run, Restore!Wf, Restore!Holds, Restore!Probe, "ABSENT") :
        Restore!Transact(Restore!Outcome(r))
  BY SameRestoreTurns DEF Restore!Engine
<1>3. run.at <= 6 => Restore!Probe \subseteq Answers \ {"REVERTIBLE"}
  BY <1>1, RestoreProbes
<1>4. RunInv(r, Restore!Wf) /\ run.end = "none"
  BY <1>1, <1>2, <1>3, StepsOfRestore, RunTurns
<1>5. StaysForward(run, r)
  BY <1>1, <1>2, <1>3, <1>4, StepsOfRestore, TurnsForward
<1> DEFINE q == Restore!Outcome(r)
<1>6. RunInv(q, Restore!Wf) /\ StaysForward(run, q)
  <2>1. CASE q = r
    BY <1>4, <1>5, <2>1
  <2>2. CASE q = [r EXCEPT !.end = "FAILED_SAFE"] /\ r.end = "SUCCEEDED"
    <3>1. /\ q.at = r.at /\ q.row = r.row /\ q.way = r.way /\ q.undone = r.undone /\ q.bad = r.bad
          /\ q.pc = r.pc /\ q.todo = r.todo /\ q.end = "FAILED_SAFE" /\ DOMAIN q = DOMAIN r
          /\ q.begun = r.begun
      BY <1>4, <2>2 DEF RunInv, RunShaped
    <3> HIDE DEF q
    <3>2. Run!ToUndo(q, Restore!Wf) = Run!ToUndo(r, Restore!Wf)
      BY <3>1, SameToUndo
    <3>3. RunShaped(q, Restore!Wf)
      BY <1>4, <3>1 DEF RunInv, RunShaped
    <3>4. RunPlaced(q, Restore!Wf)
      BY <1>4, <2>2, <3>1, <3>2 DEF RunInv, RunPlaced
    <3> QED BY <1>5, <3>1, <3>3, <3>4 DEF RunInv, StaysForward
  <2> QED BY <2>1, <2>2 DEF Restore!Outcome
<1> HIDE DEF q
<1>7. Restore!Transact(q) /\ work' = "none" /\ UNCHANGED <<active, receipt>>
  BY <1>2 DEF Restore!Engine, q
<1> QED BY <1>6, <1>7, RestoreTransacts

LEMMA RestoreMisfortune ==
    ASSUME RestoreInv, Restore!Misfortune
    PROVE  RestoreInv'
<1> HIDE DEF Restore!Wf, Restore!Probe
<1> DEFINE classes == IF run.at <= Len(Restore!Wf.steps) THEN Restore!Probe ELSE {}
<1>1. RunInv(run, Restore!Wf) /\ run.way = "forward"
  BY RestorePlace
<1>2. PICK r \in Run!Mishaps(run, Restore!Wf, classes) :
         IF r = Run!Crashed(run) THEN run' = Restore!Read(r, rows[active]) /\ UNCHANGED rows
             ELSE Restore!Transact(r)
  BY SameRestoreMishaps, SameRestoreMoments DEF Restore!Misfortune
<1>3. work' = "none" /\ UNCHANGED <<active, receipt>>
  BY DEF Restore!Misfortune
<1> HIDE DEF classes
<1>4. CASE r = Run!Crashed(run)
  BY <1>2, <1>3, <1>4, RestoreRereads
<1>5. CASE r # Run!Crashed(run)
  <2>1. RunInv(r, Restore!Wf) /\ StaysForward(run, r)
    BY <1>1, <1>5, StepsOfRestore, RunMishaps, MishapsForward
  <2> QED BY <1>2, <1>3, <1>5, <2>1, RestoreTransacts
<1> QED BY <1>4, <1>5

\* A cancellation comes between two steps, where no adapter is at work.
LEMMA RestoreCancelled ==
    ASSUME RestoreInv, Restore!Cancel
    PROVE  RestoreInv'
<1> HIDE DEF Restore!Wf
<1> DEFINE q == Run!Cancelled(run, Restore!Wf)
<1>1. RunInv(run, Restore!Wf) /\ Run!Cancellable(run, Restore!Wf) /\ Restore!Transact(q)
  BY RestorePlace, SameRestoreMoments DEF Restore!Cancel
<1>2. RunInv(q, Restore!Wf) /\ StaysForward(run, q)
  BY <1>1, StepsOfRestore, RunCancelled, CancelledForward
<1>3. work' = "none" /\ UNCHANGED <<active, receipt>>
  <2>1. run.pc = "next"
    BY <1>1 DEF Run!Cancellable
  <2> QED BY <2>1 DEF Restore!Cancel, RestoreInv, RestoreWork
<1> HIDE DEF q
<1> QED BY <1>1, <1>2, <1>3, RestoreTransacts

\* A step that refuses.
LEMMA RestoreRefused ==
    ASSUME RestoreInv, run.pc = "effect", Restore!Refused, work' = "none",
        UNCHANGED <<active, receipt>>
    PROVE  RestoreInv'
<1> HIDE DEF Restore!Wf, Restore!Probe
<1>1. RunInv(run, Restore!Wf) /\ run.way = "forward" /\ run.at \in 1..6 /\ run.end = "none"
  BY RestorePlace
<1>2. PICK class \in Restore!Probe : Restore!Transact(Run!Failed(run, Restore!Wf, class))
  BY SameRestoreMoments DEF Restore!Refused
<1> DEFINE q == Run!Failed(run, Restore!Wf, class)
<1>3. RunInv(q, Restore!Wf)
  BY <1>1, StepsOfRestore, RunFailed
<1>4. q.way = run.way /\ q.at = run.at /\ q.end = "FAILED_SAFE"
  BY <1>1, StepsOfRestore, FailedForward
<1>5. StaysForward(run, q)
  BY <1>1, <1>4 DEF StaysForward
<1> HIDE DEF q
<1>6. Restore!Transact(q)
  BY <1>2 DEF q
<1> QED BY <1>3, <1>5, <1>6, RestoreTransacts

\* A step whose work is done already.
LEMMA RestoreApplied ==
    ASSUME RestoreInv, run.pc = "effect", Restore!Transact(Restore!Applied(run)), work' = "none",
           UNCHANGED <<active, receipt>>
    PROVE  RestoreInv'
<1> HIDE DEF Restore!Wf
<1>1. RunInv(run, Restore!Wf) /\ run.way = "forward" /\ run.at \in 1..6 /\ run.end = "none"
  BY RestorePlace
<1> DEFINE q == Run!Applied(run)
<1>2. RunInv(q, Restore!Wf) /\ GoesOn(run, q)
  BY <1>1, StepsOfRestore, RunApplied
<1>3. StaysForward(run, q)
  BY <1>2 DEF StaysForward, GoesOn
<1>4. Restore!Transact(q)
  BY SameRestoreMoments DEF q
<1> HIDE DEF q
<1> QED BY <1>2, <1>3, <1>4, RestoreTransacts

\* The last change of a step: its rows say the same as before.
LEMMA RestoreLanded ==
    ASSUME RestoreInv, run.pc = "effect", run' = Restore!Landed(run)
    PROVE  /\ RunInv(run, Restore!Wf)' /\ run'.way = "forward" /\ run'.at = run.at
           /\ run'.end = "none"
           /\ run'.pc = "landed" /\ Restore!Recorded(run)' = Restore!Recorded(run)
<1> HIDE DEF Restore!Wf
<1>1. RunInv(run, Restore!Wf) /\ run.way = "forward" /\ run.at \in 1..6 /\ run.end = "none"
  BY RestorePlace
<1>2. run' = Run!Landed(run)
  BY SameRestoreMoments
<1>3. RunInv(run', Restore!Wf)
  BY <1>1, <1>2, StepsOfRestore, RunApplied
<1>4. /\ run'.way = run.way /\ run'.at = run.at /\ run'.row = run.row /\ run'.end = run.end
      /\ run'.pc = "landed"
  BY <1>1, <1>2 DEF Run!Landed, RunInv, RunShaped
<1>5. RunInv(run, Restore!Wf)'
  BY <1>3 DEF Restore!Wf
<1> QED BY <1>1, <1>4, <1>5 DEF Restore!Recorded

-----------------------------------------------------------------------------
(* The steps                                                               *)

\* What the invariant says while a step is at work.
LEMMA RestoreAtWork ==
    ASSUME RestoreInv, run.pc = "effect"
    PROVE  /\ RestoreTyped /\ RecordFollows /\ RestorePublished /\ RestoreWork
           /\ run.at \in 1..6 /\ run.end = "none" /\ run.way = "forward"
           /\ RunInv(run, Restore!Wf)
           /\ run.at = 1 <=> Restore!At = "validate"
           /\ run.at = 2 <=> Restore!At = "stage"
           /\ run.at = 3 <=> Restore!At = "validate_staged"
           /\ run.at = 4 <=> Restore!At = "publish"
           /\ run.at = 5 <=> Restore!At = "verify_post"
           /\ run.at = 6 <=> Restore!At = "promote"
           /\ Restore!Recorded(run).at = run.at
           /\ RecordSane(rows["prior"])
           /\ receipt \notin {"rollback_intent", "rolled_back"} =>
               rows[active] = Restore!Recorded(run)
           /\ active = "prior" \/ active = "candidate"
<1> HIDE DEF Restore!Wf, Restore!At
<1>1. run.at \in 1..6 /\ run.end = "none" /\ run.way = "forward" /\ RunInv(run, Restore!Wf)
  BY RestorePlace
<1>2. /\ run.at = 1 <=> Restore!At = "validate"
      /\ run.at = 2 <=> Restore!At = "stage"
      /\ run.at = 3 <=> Restore!At = "validate_staged"
      /\ run.at = 4 <=> Restore!At = "publish"
      /\ run.at = 5 <=> Restore!At = "verify_post"
      /\ run.at = 6 <=> Restore!At = "promote"
  BY <1>1, StepAtRestore
<1>3. RestoreTyped /\ RecordFollows /\ RestorePublished /\ RestoreWork
  BY DEF RestoreInv
<1>4. active = "prior" \/ active = "candidate"
  BY <1>3 DEF RestoreTyped, Restore!Profiles
<1> QED BY <1>1, <1>2, <1>3, <1>4 DEF RestoreTyped, RecordFollows, Restore!Recorded

LEMMA RestoreWrites ==
    ASSUME RestoreInv, Restore!Write
    PROVE  RestoreInv'
<1> HIDE DEF Restore!Wf
<1>1. RestoreTyped' /\ RecordFollows' /\ RestorePublished'
  BY DEF Restore!Write, RestoreInv, RestoreTyped, RecordFollows, RestorePublished,
     Restore!Recorded
<1>2. RestoreWork'
  BY DEF Restore!Write, Restore!Excluded, RestoreInv, RestoreWork
<1>3. RunInv(run, Restore!Wf)'
  BY DEF Restore!Write, RestoreInv, Restore!Wf
<1> QED BY <1>1, <1>2, <1>3 DEF RestoreInv

LEMMA RestoreValidates ==
    ASSUME RestoreInv, Restore!Validate
    PROVE  RestoreInv'
<1> HIDE DEF Restore!Wf, Restore!At, Restore!Probe
<1>1. run.pc = "effect" /\ run.at \in {1, 3} /\ work = "none"
  BY RestoreAtWork DEF Restore!Validate, Restore!Executing, RestoreWork, RestoreTyped
<1>2. /\ work' = "none" /\ UNCHANGED <<active, receipt>>
      /\ (Restore!Transact(Restore!Applied(run)) \/ Restore!Refused)
  BY <1>1 DEF Restore!Validate
<1> QED BY <1>1, <1>2, RestoreApplied, RestoreRefused

LEMMA RestoreStages ==
    ASSUME RestoreInv, Restore!StageFiles \/ Restore!StageMarker
    PROVE  RestoreInv'
<1> HIDE DEF Restore!Wf, Restore!At
<1>1. run.pc = "effect" /\ run.at = 2
  BY RestoreAtWork DEF Restore!StageFiles, Restore!StageMarker, Restore!Executing
<1>2. receipt = "none" /\ active = "prior" /\ rows["prior"] = Restore!Recorded(run)
  BY <1>1, RestoreAtWork DEF RestorePublished
<1>3. CASE Restore!StageFiles
  <2>1. /\ run' = run /\ active' = "prior" /\ receipt' = "none" /\ work' = "staged"
        /\ DOMAIN rows' = Restore!Profiles /\ rows'["prior"] = rows["prior"]
        /\ rows'["candidate"] = rows["prior"]
    BY <1>1, <1>2, <1>3, RestoreAtWork DEF Restore!StageFiles, RestoreTyped, Restore!Profiles
  <2>2. RestoreTyped' /\ RecordFollows' /\ RestorePublished' /\ RestoreWork'
    BY <1>1, <1>2, <2>1, RestoreAtWork DEF RestoreTyped, RecordFollows, RestorePublished,
       RestoreWork, Restore!Recorded, Restore!Profiles
  <2>3. RunInv(run, Restore!Wf)'
    BY <1>1, <2>1, RestoreAtWork DEF Restore!Wf
  <2> QED BY <2>2, <2>3 DEF RestoreInv
<1>4. CASE Restore!StageMarker
  <2>1. /\ run' = Restore!Landed(run) /\ active' = active /\ receipt' = "none" /\ work' = "none"
        /\ rows' = rows
    BY <1>2, <1>4 DEF Restore!StageMarker
  <2>2. /\ RunInv(run, Restore!Wf)' /\ run'.way = "forward" /\ run'.at = run.at
        /\ run'.end = "none"
        /\ run'.pc = "landed" /\ Restore!Recorded(run)' = Restore!Recorded(run)
    BY <1>1, <2>1, RestoreLanded
  <2>3. RestoreTyped' /\ RecordFollows' /\ RestorePublished' /\ RestoreWork'
    BY <1>1, <1>2, <2>1, <2>2, RestoreAtWork DEF RestoreTyped, RecordFollows, RestorePublished,
       RestoreWork
  <2> QED BY <2>2, <2>3 DEF RestoreInv
<1> QED BY <1>3, <1>4

LEMMA RestorePublishes ==
    ASSUME RestoreInv, Restore!Publication
    PROVE  RestoreInv'
<1> HIDE DEF Restore!Wf, Restore!At, Restore!Probe
<1>1. run.pc = "effect" /\ run.at = 4
  BY RestoreAtWork DEF Restore!Publication, Restore!PublishAgain, Restore!PublishUnvouched,
     Restore!PublishPreserve, Restore!PublishIntent,
                Restore!PublishExchange, Restore!PublishReceipt, Restore!Executing
<1>2. CASE Restore!PublishAgain \/ Restore!PublishUnvouched
  <2>1. /\ work' = "none" /\ UNCHANGED <<active, receipt>>
        /\ (Restore!Transact(Restore!Applied(run)) \/ Restore!Refused)
    <3>1. Restore!PublishProbe \in {"ABSENT", "COMPLETE", "UNCERTAIN_MANUAL"}
      BY DEF Restore!PublishProbe
    <3> QED BY <1>2, <3>1 DEF Restore!PublishAgain, Restore!PublishUnvouched
  <2> QED BY <1>1, <2>1, RestoreApplied, RestoreRefused
<1>3. CASE Restore!PublishPreserve
  <2>1. receipt \in {"none", "intent"} /\ active = "prior"
    <3>1. receipt = "intent" /\ Restore!PublishProbe = "ABSENT" => active = "prior"
      BY <1>1, RestoreAtWork DEF Restore!PublishProbe
    <3> QED BY <1>1, <1>3, <3>1, RestoreAtWork DEF Restore!PublishPreserve, RestorePublished
  <2>2. /\ run' = run /\ active' = "prior" /\ receipt' = receipt /\ work' = "preserved"
        /\ dirty' # "all" /\ DOMAIN rows' = Restore!Profiles /\ rows'["prior"] = rows["prior"]
        /\ rows'["candidate"] = rows["prior"]
    BY <1>1, <1>3, <2>1, RestoreAtWork DEF Restore!PublishPreserve, Restore!Preserve,
       RestoreTyped, Restore!Profiles
  <2>3. RestoreTyped' /\ RecordFollows' /\ RestorePublished' /\ RestoreWork'
    BY <1>1, <2>1, <2>2, RestoreAtWork DEF RestoreTyped, RecordFollows, RestorePublished,
       RestoreWork, Restore!Recorded, Restore!Profiles
  <2>4. RunInv(run, Restore!Wf)'
    BY <1>1, <2>2, RestoreAtWork DEF Restore!Wf
  <2> QED BY <2>3, <2>4 DEF RestoreInv
<1>4. CASE Restore!PublishIntent
  <2>1. /\ active = "prior" /\ receipt \in {"none", "intent"}
        /\ rows["prior"] = Restore!Recorded(run)
        /\ rows["candidate"] = rows["prior"] /\ dirty # "all"
    BY <1>1, <1>4, RestoreAtWork DEF Restore!PublishIntent, RestoreWork
  <2>2. /\ run' = run /\ active' = "prior" /\ receipt' = "intent" /\ work' = "intended"
        /\ dirty' = dirty /\ rows' = rows
    BY <1>4, <2>1 DEF Restore!PublishIntent
  <2>3. RestoreTyped' /\ RecordFollows' /\ RestorePublished' /\ RestoreWork'
    BY <1>1, <2>1, <2>2, RestoreAtWork
    DEF RestoreTyped, RecordFollows, RestorePublished, RestoreWork, Restore!Recorded,
        RestorePhases, Restore!Profiles
  <2>4. RunInv(run, Restore!Wf)'
    BY <1>1, <2>2, RestoreAtWork DEF Restore!Wf
  <2> QED BY <2>3, <2>4 DEF RestoreInv
<1>5. CASE Restore!PublishExchange
  <2>1. /\ active = "prior" /\ receipt = "intent" /\ rows["prior"] = Restore!Recorded(run)
        /\ rows["candidate"] = rows["prior"] /\ dirty # "all"
    BY <1>1, <1>5, RestoreAtWork DEF Restore!PublishExchange, RestoreWork
  <2>2. /\ run' = run /\ active' = "candidate" /\ receipt' = "intent" /\ work' = "exchanged"
        /\ dirty' = dirty /\ rows' = rows
    BY <1>5, <2>1 DEF Restore!PublishExchange
  <2>3. rows["prior"] # None
    BY <1>1, RestoreAtWork, RestoreAssumption DEF Restore!Terminal, Run!Terminal, RecordSane,
       RecordsOf
  <2>4. RestoreTyped' /\ RecordFollows' /\ RestorePublished' /\ RestoreWork'
    BY <1>1, <2>1, <2>2, <2>3, RestoreAtWork
    DEF RestoreTyped, RecordFollows, RestorePublished, RestoreWork, Restore!Recorded,
        Restore!Profiles
  <2>5. RunInv(run, Restore!Wf)'
    BY <1>1, <2>2, RestoreAtWork DEF Restore!Wf
  <2> QED BY <2>4, <2>5 DEF RestoreInv
<1>6. CASE Restore!PublishReceipt
  <2>1. active = "candidate" /\ receipt = "intent"
    BY <1>6, RestoreAtWork, <1>1 DEF Restore!PublishReceipt, RestoreWork
  <2>2. /\ run' = Restore!Landed(run) /\ active' = active /\ receipt' = "published"
        /\ work' = "none"
        /\ rows' = rows
    BY <1>6 DEF Restore!PublishReceipt
  <2>3. /\ RunInv(run, Restore!Wf)' /\ run'.way = "forward" /\ run'.at = run.at
        /\ run'.end = "none"
        /\ run'.pc = "landed" /\ Restore!Recorded(run)' = Restore!Recorded(run)
    BY <1>1, <2>2, RestoreLanded
  <2>4. RestoreTyped' /\ RecordFollows' /\ RestorePublished' /\ RestoreWork'
    BY <1>1, <2>1, <2>2, <2>3, RestoreAtWork
    DEF RestoreTyped, RecordFollows, RestorePublished, RestoreWork, RestorePhases
  <2> QED BY <2>3, <2>4 DEF RestoreInv
<1> QED BY <1>2, <1>3, <1>4, <1>5, <1>6 DEF Restore!Publication

LEMMA RestoreVerifies ==
    ASSUME RestoreInv, Restore!Verification
    PROVE  RestoreInv'
<1> HIDE DEF Restore!Wf, Restore!At
<1>1. run.pc = "effect" /\ run.at = 5
  BY RestoreAtWork DEF Restore!Verification, Restore!VerifyPost, Restore!ReverseCarry,
     Restore!ReverseIntent, Restore!ReverseExchange, Restore!ReverseReceipt,
                Restore!Executing
<1>2. CASE Restore!VerifyPost
  <2>1. /\ run' = Restore!Landed(run) /\ active' = active /\ work' = "none" /\ rows' = rows
        /\ \/ receipt' = "rolled_back" /\ active = "prior"
               /\ receipt \in {"rollback_intent", "rolled_back"}
           \/ receipt' = "verified" /\ active = "candidate" /\ receipt # "rollback_intent"
    BY <1>2 DEF Restore!VerifyPost, Restore!RolledBackAlready
  <2>2. receipt # "none" /\ (active = "candidate" => receipt # "rolled_back")
    BY <1>1, <2>1, RestoreAtWork DEF RestorePublished
  <2>3. /\ RunInv(run, Restore!Wf)' /\ run'.way = "forward" /\ run'.at = run.at
        /\ run'.end = "none"
        /\ run'.pc = "landed" /\ Restore!Recorded(run)' = Restore!Recorded(run)
    BY <1>1, <2>1, RestoreLanded
  <2>4. RestoreTyped' /\ RecordFollows' /\ RestorePublished' /\ RestoreWork'
    BY <1>1, <2>1, <2>2, <2>3, RestoreAtWork
    DEF RestoreTyped, RecordFollows, RestorePublished, RestoreWork, RestorePhases
  <2> QED BY <2>3, <2>4 DEF RestoreInv
<1>3. CASE Restore!ReverseCarry
  <2>1. /\ run' = run /\ active' = active /\ active = "candidate" /\ receipt' = receipt
        /\ work' = "carried" /\ DOMAIN rows' = Restore!Profiles
        /\ rows'["candidate"] = rows["candidate"]
        /\ rows'["prior"] \in {rows["prior"], rows["candidate"]}
    BY <1>1, <1>3, RestoreAtWork DEF Restore!ReverseCarry, RestoreTyped, Restore!Profiles
  <2>2. RestoreTyped' /\ RecordFollows' /\ RestorePublished' /\ RestoreWork'
    BY <1>1, <2>1, RestoreAtWork DEF RestoreTyped, RecordFollows, RestorePublished, RestoreWork,
       Restore!Recorded, Restore!Profiles
  <2>3. RunInv(run, Restore!Wf)'
    BY <1>1, <2>1, RestoreAtWork DEF Restore!Wf
  <2> QED BY <2>2, <2>3 DEF RestoreInv
<1>4. CASE Restore!ReverseIntent
  <2>1. /\ run' = run /\ active' = active /\ active = "candidate" /\ receipt' = "rollback_intent"
        /\ work' = "reversing" /\ rows' = rows
    BY <1>1, <1>4, RestoreAtWork DEF Restore!ReverseIntent, RestoreWork
  <2>2. RestoreTyped' /\ RecordFollows' /\ RestorePublished' /\ RestoreWork'
    BY <1>1, <2>1, RestoreAtWork DEF RestoreTyped, RecordFollows, RestorePublished, RestoreWork,
       RestorePhases
  <2>3. RunInv(run, Restore!Wf)'
    BY <1>1, <2>1, RestoreAtWork DEF Restore!Wf
  <2> QED BY <2>2, <2>3 DEF RestoreInv
<1>5. CASE Restore!ReverseExchange
  <2>1. /\ run' = run /\ active' = "prior" /\ active = "candidate" /\ receipt = "rollback_intent"
        /\ receipt' = receipt /\ work' = "reversed" /\ rows' = rows
    BY <1>1, <1>5, RestoreAtWork DEF Restore!ReverseExchange, RestoreWork
  <2>2. RestoreTyped' /\ RecordFollows' /\ RestorePublished' /\ RestoreWork'
    BY <1>1, <2>1, RestoreAtWork DEF RestoreTyped, RecordFollows, RestorePublished, RestoreWork,
       Restore!Profiles
  <2>3. RunInv(run, Restore!Wf)'
    BY <1>1, <2>1, RestoreAtWork DEF Restore!Wf
  <2> QED BY <2>2, <2>3 DEF RestoreInv
<1>6. CASE Restore!ReverseReceipt
  <2>1. /\ run' = Restore!Landed(run) /\ active' = active /\ active = "prior" /\ work' = "none"
        /\ rows' = rows /\ receipt = "rollback_intent" /\ receipt' = "rolled_back"
    BY <1>1, <1>6, RestoreAtWork DEF Restore!ReverseReceipt, RestoreWork
  <2>2. /\ RunInv(run, Restore!Wf)' /\ run'.way = "forward" /\ run'.at = run.at
        /\ run'.end = "none"
        /\ run'.pc = "landed" /\ Restore!Recorded(run)' = Restore!Recorded(run)
    BY <1>1, <2>1, RestoreLanded
  <2>3. RestoreTyped' /\ RecordFollows' /\ RestorePublished' /\ RestoreWork'
    BY <1>1, <2>1, <2>2, RestoreAtWork
    DEF RestoreTyped, RecordFollows, RestorePublished, RestoreWork, RestorePhases
  <2> QED BY <2>2, <2>3 DEF RestoreInv
<1> QED BY <1>2, <1>3, <1>4, <1>5, <1>6 DEF Restore!Verification

LEMMA RestorePromotes ==
    ASSUME RestoreInv, Restore!Promotion
    PROVE  RestoreInv'
<1> HIDE DEF Restore!Wf, Restore!At, Restore!Probe
<1>1. run.pc = "effect" /\ run.at = 6
  BY RestoreAtWork DEF Restore!Promotion, Restore!ReportRollback, Restore!RecordAttempt,
     Restore!PromoteReceipt, Restore!Executing
<1>2. CASE \/ Restore!ReportRollback
           \/ Restore!PromoteReceipt /\ receipt = "verified"
  <2>1. /\ run' = Restore!Landed(run) /\ active' = active /\ rows' = rows /\ work' = "none"
        /\ \/ receipt' = "promoted" /\ receipt = "verified"
           \/ receipt' = "rolled_back" /\ receipt = "rolled_back"
    BY <1>1, <1>2, RestoreAtWork DEF Restore!ReportRollback, Restore!PromoteReceipt,
       RestoreWork, RestoreTyped
  <2>2. /\ RunInv(run, Restore!Wf)' /\ run'.way = "forward" /\ run'.at = run.at
        /\ run'.end = "none"
        /\ run'.pc = "landed" /\ Restore!Recorded(run)' = Restore!Recorded(run)
    BY <1>1, <2>1, RestoreLanded
  <2>3. RestoreTyped' /\ RecordFollows' /\ RestorePublished' /\ RestoreWork'
    BY <1>1, <2>1, <2>2, RestoreAtWork
    DEF RestoreTyped, RecordFollows, RestorePublished, RestoreWork, RestorePhases
  <2> QED BY <2>2, <2>3 DEF RestoreInv
<1>3. CASE Restore!RecordAttempt /\ ~ attempt
  <2>1. /\ run' = run /\ active' = active /\ rows' = rows /\ work' = "recorded"
        /\ receipt' = receipt
        /\ receipt # "rolled_back"
    BY <1>3 DEF Restore!RecordAttempt
  <2>2. RestoreTyped' /\ RecordFollows' /\ RestorePublished' /\ RestoreWork'
    BY <1>1, <2>1, RestoreAtWork DEF RestoreTyped, RecordFollows, RestorePublished, RestoreWork,
       Restore!Recorded
  <2>3. RunInv(run, Restore!Wf)'
    BY <1>1, <2>1, RestoreAtWork DEF Restore!Wf
  <2> QED BY <2>2, <2>3 DEF RestoreInv
<1>4. CASE \/ Restore!RecordAttempt /\ attempt
           \/ Restore!PromoteReceipt /\ receipt # "verified"
  <2>1. work' = "none" /\ UNCHANGED <<active, receipt>> /\ Restore!Refused
    BY <1>4 DEF Restore!RecordAttempt, Restore!PromoteReceipt
  <2> QED BY <1>1, <2>1, RestoreRefused
<1> QED BY <1>2, <1>3, <1>4 DEF Restore!Promotion

LEMMA RestoreStarts ==
    ASSUME Restore!Init
    PROVE  RestoreInv
<1> HIDE DEF Restore!Wf
<1>1. run = Run!Queued
  BY SameRestoreMoments DEF Restore!Init
<1>2. /\ RunInv(run, Restore!Wf) /\ run.way = "forward" /\ run.end = "none"
      /\ run.at = 1 /\ run.row = "PENDING"
  BY <1>1, StepsOfRestore DEF RunInv, RunShaped, RunPlaced, Run!Queued
<1>3. /\ DOMAIN rows = Restore!Profiles /\ rows["prior"] = Restore!Recorded(run)
      /\ rows["candidate"] = None
      /\ active = "prior" /\ receipt = "none" /\ work = "none"
  BY DEF Restore!Init, Restore!Profiles
<1>4. RecordSane(rows["prior"])
  BY <1>2, <1>3, RecordedSane
<1>5. RestoreTyped /\ RecordFollows /\ RestorePublished /\ RestoreWork
  BY <1>2, <1>3, <1>4 DEF RestoreTyped, RecordFollows, RestorePublished, RestoreWork,
     RestorePhases, Restore!Profiles
<1> QED BY <1>2, <1>5 DEF RestoreInv

LEMMA RestoreInduction == RestoreInv /\ [Restore!Next]_(Restore!restoreVars) => RestoreInv'
<1> SUFFICES ASSUME RestoreInv, [Restore!Next]_(Restore!restoreVars) PROVE RestoreInv'
  OBVIOUS
<1> HIDE DEF Restore!Wf
<1>1. CASE UNCHANGED Restore!restoreVars
  <2>1. RestoreTyped' /\ RecordFollows' /\ RestorePublished' /\ RestoreWork'
    BY <1>1 DEF Restore!restoreVars, RestoreInv, RestoreTyped, RecordFollows, RestorePublished,
       RestoreWork, Restore!Recorded
  <2>2. RunInv(run, Restore!Wf)'
    BY <1>1 DEF Restore!restoreVars, RestoreInv, Restore!Wf
  <2> QED BY <2>1, <2>2 DEF RestoreInv
<1>2. CASE Restore!Next
  BY <1>2, RestoreTurns, RestoreMisfortune, RestoreCancelled, RestoreWrites, RestoreValidates,
     RestoreStages, RestorePublishes, RestoreVerifies, RestorePromotes DEF Restore!Next
<1> QED BY <1>1, <1>2

THEOREM RestoreInvSound == Restore!RestoreSpec => []RestoreInv
<1>1. Restore!Init => RestoreInv
  BY RestoreStarts
<1> QED BY <1>1, RestoreInduction, PTL DEF Restore!RestoreSpec

\* Whoever dies during a restore leaves the database in the active place with the
\* operation's record and a receipt that fits the places of the profiles, and no
\* write is lost in the exchange (publish_exchange, probe_restore_published).
THEOREM RestoreStaysSound == Restore!RestoreSpec => []Restore!RestoreSound
<1>1. RestoreInv => Restore!RestoreSound
  <2> SUFFICES ASSUME RestoreInv PROVE Restore!RestoreSound
    OBVIOUS
  <2>1. RestoreTyped /\ RestorePublished /\ RestoreWork
    BY DEF RestoreInv
  <2>2. Restore!RecordSurvives
    BY <2>1, RestoreAssumption DEF Restore!Terminal, Run!Terminal, RestoreTyped,
       RestorePublished, Restore!RecordSurvives, RecordSane, RecordsOf, Restore!Profiles
  <2>3. Restore!NeverAmbiguous
    BY <2>1 DEF RestoreTyped, RestorePublished, Restore!NeverAmbiguous, Restore!PublishProbe,
       RestorePhases, Restore!Profiles
  <2>4. Restore!ExchangedUpToDate
    BY <2>1 DEF RestoreWork, Restore!ExchangedUpToDate
  <2> QED BY <2>2, <2>3, <2>4 DEF Restore!RestoreSound, Restore!RestoreRecognized
<1> QED BY <1>1, RestoreInvSound, PTL

-----------------------------------------------------------------------------
(* What an access plan changes                                             *)
\* The steps that a run has begun and not undone.
Open(r) == {i \in 1..5 : i < r.at \/ (i = r.at /\ r.row # "PENDING")} \ r.undone

IntegrationTyped ==
    /\ access \in BOOLEAN /\ model \in BOOLEAN /\ gateway \in BOOLEAN
    /\ sharing \in BOOLEAN /\ tailnet \in BOOLEAN
    /\ clients \subseteq Integration!SetupClients
    /\ created = None \/ created \subseteq Integration!SetupClients
    /\ base.access \in BOOLEAN /\ base.model \in BOOLEAN /\ base.sharing \in BOOLEAN
    /\ work \in [pc : {"none", "second", "enable", "record", "use", "stop"},
                 had : BOOLEAN, new : SUBSET Integration!SetupClients]

\* Where the work on a step stands, and the gateway is up for who is about to be recorded.
WorkKnown ==
    /\ run.pc \notin {"effect", "landed", "undoing"} => work = Integration!Idle
    /\ work.new # {} \/ work.pc \in {"second", "enable"} =>
          run.at = 1 /\ run.pc \in {"effect", "landed"}
    /\ work.pc \in {"record", "use"} =>
          /\ run.pc = "effect" /\ run.at \in {3, 4, 5} /\ (run.at = 5 => tailnet)
    /\ work.pc = "record" /\ touched # "raced" => gateway

\* A client is of the user or known to have been created, and an output lists none of
\* the user's.
ClientsKnown ==
    /\ clients \subseteq base.clients \cup unlisted \cup work.new \cup Integration!Output
    /\ 1 \in run.undone => Integration!Output \cap clients = {}
    /\ run.at = 1 /\ run.row # "CHECKPOINTED" => created = None
    /\ base.access => base.clients \subseteq clients
        /\ base.clients \cap (work.new \cup Integration!Output) = {}

\* What differs from the baseline is of a step that is still to be undone.
OpenOrBack ==
    touched = "no" =>
       /\ (base.access => access) /\ (access # base.access => 1 \in Open(run))
       /\ (base.model => model) /\ (model # base.model => 2 \in Open(run))
       /\ "client" \in base.consumers => "client" \in consumers
       /\ "client" \in consumers /\ "client" \notin base.consumers => 3 \in Open(run)
       /\ base.webui = "running" => webui = "running"
       /\ webui = "running" /\ base.webui # "running" => 4 \in Open(run)
       /\ (base.sharing => sharing) /\ (sharing # base.sharing => tailnet /\ 5 \in Open(run))

EndsKnown ==
    /\ run.end \in {"FAILED_ROLLED_BACK", "CANCELLED"} => Open(run) = {}
    /\ run.way = "forward" /\ run.end # "FAILED_SAFE" /\ run.at = 7 /\ touched = "no" =>
        Integration!Reachable

IntegrationInv ==
    /\ RunInv(run, Integration!Wf) /\ IntegrationTyped /\ WorkKnown /\ ClientsKnown
    /\ OpenOrBack /\ EndsKnown
    /\ Integration!ConsumersServed

\* Where a run may go from r: on by a step only if its result holds, an undone step only
\* if its restoration is proven, and to an end that takes back only if nothing is open.
SetupFollows(r, q, holds, back) ==
    /\ RunInv(q, Integration!Wf) /\ r.end = "none"
    /\ q.undone = r.undone
        \/ (back /\ r.way # "forward" /\ q.undone = r.undone \cup {Run!Latest(r)})
    /\ \/ q.at = r.at /\ (q.row = "PENDING" => r.row = "PENDING")
       \/ q.at = r.at + 1 /\ holds
    /\ q.way = "forward" => r.way = "forward"
    /\ q.end \in {"FAILED_ROLLED_BACK", "CANCELLED"} => q.undone = r.undone /\ q.at = r.at
                                                       /\ q.row = r.row /\ Open(r) = {}

-----------------------------------------------------------------------------

LEMMA StepsOfSetup ==
    /\ Len(Integration!Wf.steps) = 6 /\ DOMAIN Integration!Wf.steps = 1..6
    /\ "finalizer" \notin Integration!Wf.traits
    /\ \A i \in 1..6 :
          /\ Run!Flagged(Integration!Wf, i, "undo") <=> i \in 1..5
          /\ ~ Run!Flagged(Integration!Wf, i, "forward")
          /\ i \in 1..5 => Run!Flagged(Integration!Wf, i, "visible")
<1> DEFINE q == Integration!W!StepDefinition(Integration!W!Integration, {"visible", "undo"},
      Integration!W!Present, Integration!W!Present)
           p == Integration!W!Plain(Integration!W!Integration, Integration!W!Present)
<1>1. Integration!Wf = [steps |-> <<q, q, q, q, q, p>>, traits |-> {}, barrier |-> {}]
  BY DEF Integration!Wf, Integration!W!IntegrationSetup, Integration!W!WorkflowDefinition
<1>2. q.flags = {"visible", "undo"} /\ p.flags = {}
  BY DEF Integration!W!StepDefinition, Integration!W!Plain
<1> HIDE DEF q, p
<1>3. /\ Len(Integration!Wf.steps) = 6 /\ DOMAIN Integration!Wf.steps = 1..6
      /\ Integration!Wf.traits = {}
      /\ Integration!Wf.steps[1] = q /\ Integration!Wf.steps[2] = q
      /\ Integration!Wf.steps[3] = q /\ Integration!Wf.steps[4] = q
      /\ Integration!Wf.steps[5] = q
      /\ Integration!Wf.steps[6] = p
  BY <1>1
<1> HIDE DEF Integration!Wf
<1>4. ASSUME NEW i \in 1..6 PROVE i = 1 \/ i = 2 \/ i = 3 \/ i = 4 \/ i = 5 \/ i = 6
  OBVIOUS
<1> QED BY <1>2, <1>3, <1>4 DEF Run!Flagged

LEMMA SetupWorkable == Workable(Integration!Wf)
<1> HIDE DEF Integration!Wf
<1> QED BY StepsOfSetup DEF Workable

LEMMA OpenToUndo ==
    ASSUME NEW r, RunInv(r, Integration!Wf)
    PROVE  Run!ToUndo(r, Integration!Wf) = Open(r)
<1> HIDE DEF Integration!Wf
<1>1. \A i : i \in Run!ToUndo(r, Integration!Wf) <=> i \in Open(r)
  BY StepsOfSetup DEF Run!ToUndo, Open, RunInv, RunShaped
<1> QED BY <1>1

\* A set of steps has a last one.
LEMMA LastOfSteps ==
    ASSUME NEW some, some \subseteq 1..5, some # {}
    PROVE  \E i \in some : \A j \in some : j <= i
<1>1. \A j \in some : j = 1 \/ j = 2 \/ j = 3 \/ j = 4 \/ j = 5
  OBVIOUS
<1>2. CASE 5 \in some
  BY <1>1, <1>2
<1>3. CASE 5 \notin some /\ 4 \in some
  BY <1>1, <1>3
<1>4. CASE 5 \notin some /\ 4 \notin some /\ 3 \in some
  BY <1>1, <1>4
<1>5. CASE 5 \notin some /\ 4 \notin some /\ 3 \notin some
  <2>1. CASE 2 \in some
    BY <1>1, <1>5, <2>1
  <2>2. CASE 2 \notin some
    <3>1. \A j \in some : j = 1
      BY <1>1, <1>5, <2>2
    <3>2. PICK i \in some : i = 1
      BY <3>1
    <3> QED BY <3>1, <3>2
  <2> QED BY <2>1, <2>2
<1> QED BY <1>2, <1>3, <1>4, <1>5

LEMMA LatestIsOpen ==
    ASSUME NEW r, NEW all, all \subseteq 1..5, r.todo \subseteq all, r.todo # {}
    PROVE  Run!Latest(r) \in r.todo
<1>1. \E i \in r.todo : \A j \in r.todo : j <= i
  BY LastOfSteps
<1> QED BY <1>1 DEF Run!Latest

LEMMA IntegrationPlace ==
    ASSUME NEW r, RunInv(r, Integration!Wf)
    PROVE  /\ r.at \in 1..7 /\ r.row \in {"PENDING", "RUNNING", "CHECKPOINTED"}
           /\ r.end # "none" => r.pc = "down"
           /\ r.pc \in {"effect", "landed", "probe"} =>
               r.at \in 1..6 /\ r.row = "RUNNING" /\ r.way = "forward"
           /\ r.pc \in {"verify", "reverify"} =>
               r.at \in 1..6 /\ r.row = "CHECKPOINTED" /\ r.way = "forward"
           /\ r.way = "forward" => r.undone = {}
           /\ r.pc \in {"undoing", "undone"} =>
                 r.way # "forward" /\ r.todo # {} /\ Run!Latest(r) \in Open(r)
<1> HIDE DEF Integration!Wf
<1>1. Len(Integration!Wf.steps) = 6
  BY StepsOfSetup
<1>2. r.pc \in {"undoing", "undone"} =>
        r.todo # {} /\ r.todo \subseteq Open(r) /\ Open(r) \subseteq 1..5
  BY OpenToUndo DEF RunInv, RunPlaced, Open
<1>3. r.pc \in {"undoing", "undone"} => Run!Latest(r) \in Open(r)
  BY <1>2, LatestIsOpen
<1> QED BY <1>1, <1>2, <1>3 DEF RunInv, RunShaped, RunPlaced

LEMMA SetupMovesFollow ==
    ASSUME NEW r, RunInv(r, Integration!Wf), NEW q, RunInv(q, Integration!Wf), r.end = "none",
           NEW holds, NEW classes, NEW back, Moves(r, q, Integration!Wf, holds, classes, back)
    PROVE  SetupFollows(r, q, holds, back)
<1> HIDE DEF Integration!Wf
<1>1. "finalizer" \notin Integration!Wf.traits
  BY StepsOfSetup
<1>2. Run!ToUndo(r, Integration!Wf) = Open(r) /\ (r.way = "forward" => r.undone = {})
  BY OpenToUndo, IntegrationPlace
<1> USE DEF SetupFollows, Stays
<1>3. CASE Stops(r, q) \/ GoesOn(r, q) \/ Succeeds(r, q, Integration!Wf)
        \/ TurnsBack(r, q, Integration!Wf)
  BY <1>2, <1>3 DEF Stops, GoesOn, Succeeds, TurnsBack
<1>4. CASE Verifies(r, q) /\ holds
  BY <1>2, <1>4 DEF Verifies
<1>5. CASE \E class \in classes : FailsSafe(r, q, Integration!Wf, class)
  BY <1>5 DEF FailsSafe
<1>6. CASE CancelsAtOnce(r, q, Integration!Wf)
  BY <1>1, <1>2, <1>6 DEF CancelsAtOnce
<1>7. CASE GoesBack(r, q)
  BY <1>7 DEF GoesBack
<1>8. CASE HasUndone(r, q, Integration!Wf)
  BY <1>2, <1>8 DEF HasUndone
<1>9. CASE UndoesOne(r, q) /\ back
  BY <1>9 DEF UndoesOne
<1> QED BY <1>3, <1>4, <1>5, <1>6, <1>7, <1>8, <1>9 DEF Moves

\* The definitions of StepRun are the same in both modules.
LEMMA SameSetupTurns ==
    ASSUME NEW r, NEW wf, NEW holds, NEW classes, NEW restoration
    PROVE  Integration!Turns(r, wf, holds, classes, restoration) = Run!Turns(r, wf, holds,
        classes, restoration)
  BY DEF Integration!Turns, Integration!Claimed, Integration!Advanced, Integration!Ended,
     Integration!Crashed, Integration!Applied, Integration!Verified, Integration!RollingBack,
     Integration!Decided, Integration!Failed,
         Integration!Rejected, Integration!Latest, Integration!UndoAdvanced,
         Integration!Interrupted, Integration!Undone, Integration!UndoDecided,
         Integration!ToUndo, Integration!Flagged,
         Integration!DecideRecovery,
         Run!Turns, Run!Claimed, Run!Advanced, Run!Ended, Run!Crashed, Run!Applied, Run!Verified,
         Run!RollingBack, Run!Decided, Run!Failed, Run!Rejected, Run!Latest, Run!UndoAdvanced,
         Run!Interrupted, Run!Undone, Run!UndoDecided, Run!ToUndo, Run!Flagged, Run!DecideRecovery

LEMMA SameSetupMishaps ==
    ASSUME NEW r, NEW wf, NEW classes
    PROVE  Integration!Mishaps(r, wf, classes) = Run!Mishaps(r, wf, classes)
  BY DEF Integration!Mishaps, Integration!Ended, Integration!Crashed, Integration!RollingBack,
     Integration!Failed, Integration!Rejected, Integration!Latest, Integration!UndoFailed,
     Integration!ToUndo, Integration!Flagged,
         Run!Mishaps, Run!Ended, Run!Crashed, Run!RollingBack, Run!Failed, Run!Rejected,
         Run!Latest,
         Run!UndoFailed, Run!ToUndo, Run!Flagged

LEMMA SameSetupMoments ==
    ASSUME NEW r, NEW wf, NEW class, NEW ending
    PROVE  /\ Integration!Cancellable(r, wf) = Run!Cancellable(r, wf)
           /\ Integration!Cancelled(r, wf) = Run!Cancelled(r, wf)
           /\ Integration!Failed(r, wf, class) = Run!Failed(r, wf, class)
           /\ Integration!Applied(r) = Run!Applied(r) /\ Integration!Landed(r) = Run!Landed(r)
           /\ Integration!Undone(r) = Run!Undone(r)
           /\ Integration!UndoFailed(r) = Run!UndoFailed(r)
           /\ Integration!Crashed(r) = Run!Crashed(r)
           /\ Integration!Ended(r, ending) = Run!Ended(r, ending)
  BY DEF Integration!Cancellable, Integration!Cancelled, Integration!Ended, Integration!Failed,
     Integration!RollingBack, Integration!Applied, Integration!Landed, Integration!Undone,
     Integration!UndoFailed,
         Integration!Latest, Integration!ToUndo, Integration!Flagged,
         Run!Cancellable, Run!Cancelled, Run!Ended, Run!Failed, Run!RollingBack, Run!Applied,
         Run!Landed, Run!Undone, Run!UndoFailed, Run!Latest, Run!ToUndo, Run!Flagged,
         Integration!Crashed,
         Run!Crashed

-----------------------------------------------------------------------------

\* What is open stays so, but for what was proven to be restored.
LEMMA OpenFollows ==
    ASSUME NEW r, NEW q, NEW holds, NEW back, RunInv(r, Integration!Wf),
           q = r \/ SetupFollows(r, q, holds, back)
    PROVE  /\ \A i \in Open(r) : i \in Open(q) \/ (back /\ i = Run!Latest(r))
           /\ \A i \in 1..5 : i \in q.undone => i \in r.undone \/ (back /\ i = Run!Latest(r))
<1> HIDE DEF Integration!Wf
<1>1. CASE q = r
  BY <1>1
<1>2. CASE SetupFollows(r, q, holds, back)
  <2>1. r.at \in 1..7 /\ r.row \in {"PENDING", "RUNNING", "CHECKPOINTED"}
    BY IntegrationPlace
  <2> QED BY <1>2, <2>1 DEF SetupFollows, Open
<1> QED BY <1>1, <1>2

LEMMA NamesOfSteps ==
    ASSUME NEW i \in 1..6
    PROVE  /\ Integration!Names[i] = "clients" <=> i = 1
           /\ Integration!Names[i] = "model" <=> i = 2
           /\ Integration!Names[i] = "gateway" <=> i = 3
           /\ Integration!Names[i] = "openwebui" <=> i = 4
           /\ Integration!Names[i] = "tailnet" <=> i = 5
           /\ Integration!Names[i] = "verify" <=> i = 6
<1>1. i = 1 \/ i = 2 \/ i = 3 \/ i = 4 \/ i = 5 \/ i = 6
  OBVIOUS
<1> QED BY <1>1 DEF Integration!Names

\* What the probe of a restoration says of the step.
LEMMA RestoredTells ==
    ASSUME NEW i \in 1..5, Integration!Restored[Integration!Names[i]]
    PROVE  /\ i = 1 => Integration!Output \cap clients = {} /\ access = base.access
           /\ i = 2 => model = base.model
           /\ i = 3 => ("client" \in consumers => "client" \in base.consumers)
           /\ i = 4 => (webui = "running" <=> base.webui = "running")
           /\ i = 5 => sharing = base.sharing
<1>1. /\ Integration!Restored["clients"] <=>
          (Integration!Output \cap clients = {} /\ access = base.access)
      /\ Integration!Restored["model"] <=> model = base.model
      /\ Integration!Restored["gateway"] <=>
          ("client" \in consumers => "client" \in base.consumers)
      /\ Integration!Restored["openwebui"] <=> ((webui = "running") = (base.webui = "running"))
      /\ Integration!Restored["tailnet"] <=> sharing = base.sharing
  BY DEF Integration!Restored
<1> QED BY <1>1, NamesOfSteps

\* The probe of a step that has begun answers; the verification is judged by what is reachable.
LEMMA SetupAnswers ==
    ASSUME IntegrationInv, run.at <= 6
    PROVE  /\ Integration!Probe \subseteq Answers
           /\ (run.at = 6 /\ Integration!Holds => Integration!Reachable)
<1>1. run.at \in 1..6
  BY IntegrationPlace DEF IntegrationInv
<1> QED BY <1>1, NamesOfSteps DEF Integration!Probe, Integration!Holds, Integration!At, Answers

-----------------------------------------------------------------------------
(* What the steps leave alone                                              *)

LEMMA IdleIsKnown ==
    ASSUME work' = Integration!Idle
    PROVE  WorkKnown'
  BY DEF WorkKnown, Integration!Idle

LEMMA SetupEffects ==
    ASSUME IntegrationInv, run.pc \in {"effect", "landed"}
    PROVE  /\ run.way = "forward" /\ run.row = "RUNNING" /\ run.undone = {} /\ run.end = "none"
           /\ run.at \in 1..6 /\ \A i \in 1..5 : i <= run.at => i \in Open(run)
<1>1. /\ run.way = "forward" /\ run.row = "RUNNING" /\ run.undone = {} /\ run.end = "none"
      /\ run.at \in 1..6
  BY IntegrationPlace DEF IntegrationInv
<1> QED BY <1>1 DEF Open

LEMMA SetupUndoings ==
    ASSUME IntegrationInv, run.pc \in {"undoing", "undone"}
    PROVE  /\ run.way # "forward" /\ run.end = "none"
           /\ Integration!Undoes = Integration!Names[Run!Latest(run)]
           /\ Run!Latest(run) \in 1..5 /\ Run!Latest(run) \in Open(run) /\ run.todo # {}
<1>1. Run!Latest(run) = Integration!Latest(run)
  BY DEF Integration!Latest, Run!Latest
<1> QED BY <1>1, IntegrationPlace DEF IntegrationInv, Integration!Undoes, Open

LEMMA NewAtFirst ==
    ASSUME IntegrationInv, run.pc \notin {"effect", "landed"} \/ run.at # 1
    PROVE  work.new = {}
  BY DEF IntegrationInv, WorkKnown, Integration!Idle

\* While an adapter is at work no end is reached.
LEMMA EndsStay ==
    ASSUME IntegrationInv, run.pc \in {"effect", "undoing", "undone"}, NEW back,
           run' = run \/ SetupFollows(run, run', FALSE, back), UNCHANGED Integration!Wf
    PROVE  EndsKnown' /\ RunInv(run, Integration!Wf)'
<1> HIDE DEF Integration!Wf
<1>1. run.end = "none" /\ (run.way = "forward" => run.at \in 1..6)
  BY SetupEffects, SetupUndoings
<1>2. RunInv(run, Integration!Wf)'
  BY DEF IntegrationInv, SetupFollows
<1>3. CASE run' = run
  BY <1>1, <1>2, <1>3 DEF EndsKnown
<1>4. CASE SetupFollows(run, run', FALSE, back)
  <2>1. run'.end \in {"FAILED_ROLLED_BACK", "CANCELLED"} => Open(run') = {}
    BY <1>4 DEF SetupFollows, Open
  <2>2. ~ (run'.way = "forward" /\ run'.at = 7)
    BY <1>1, <1>4 DEF SetupFollows
  <2> QED BY <1>2, <2>1, <2>2 DEF EndsKnown
<1> QED BY <1>2, <1>3, <1>4

\* The clients stay what they are.
LEMMA ClientsStay ==
    ASSUME IntegrationInv, NEW holds, NEW back, run' = run
        \/ SetupFollows(run, run', holds, back),
           back /\ Run!Latest(run) = 1 => Integration!Output \cap clients = {},
           run'.at = 1 /\ run'.row # "CHECKPOINTED" => run.at = 1 /\ run.row # "CHECKPOINTED",
           UNCHANGED <<clients, created, base, unlisted>>, work'.new = work.new
    PROVE  ClientsKnown'
<1> HIDE DEF Integration!Wf
<1>1. Integration!Output' = Integration!Output
  BY DEF Integration!Output
<1>2. 1 \in run'.undone => 1 \in run.undone \/ (back /\ Run!Latest(run) = 1)
  BY OpenFollows DEF IntegrationInv
<1> QED BY <1>1, <1>2 DEF ClientsKnown, IntegrationInv

-----------------------------------------------------------------------------
(* The engine                                                              *)

\* The machine rests and the run goes on.
LEMMA MachineRests ==
    ASSUME IntegrationInv, NEW back, SetupFollows(run, run', Integration!Holds, back),
           back => Integration!Restored[Integration!Names[Run!Latest(run)]],
               UNCHANGED <<Integration!world, tailnet, base, touched>>
    PROVE  OpenOrBack' /\ EndsKnown' /\ RunInv(run, Integration!Wf)'
<1> HIDE DEF Integration!Wf
<1>1. UNCHANGED <<access, model, sharing, consumers, webui, clients, gateway>>
  BY DEF Integration!world
<1>2. RunInv(run, Integration!Wf)'
  <2>1. Integration!Wf' = Integration!Wf
    BY DEF Integration!Wf
  <2> QED BY <2>1 DEF SetupFollows
<1>3. ASSUME NEW i \in Open(run), i # Run!Latest(run) \/ ~ back
      PROVE  i \in Open(run')
  BY <1>3, OpenFollows DEF IntegrationInv
<1>4. Open(run) \subseteq 1..5
  BY DEF Open
<1>5. OpenOrBack'
  <2>1. SUFFICES ASSUME touched = "no" PROVE OpenOrBack'
    BY DEF OpenOrBack
  <2>2. OpenOrBack
    BY DEF IntegrationInv
  <2>3. access # base.access => 1 \in Open(run')
    BY <1>3, <1>4, <2>1, <2>2, NamesOfSteps, RestoredTells DEF OpenOrBack
  <2>4. model # base.model => 2 \in Open(run')
    BY <1>3, <1>4, <2>1, <2>2, NamesOfSteps, RestoredTells DEF OpenOrBack
  <2>5. "client" \in consumers /\ "client" \notin base.consumers => 3 \in Open(run')
    BY <1>3, <1>4, <2>1, <2>2, NamesOfSteps, RestoredTells DEF OpenOrBack
  <2>6. webui = "running" /\ base.webui # "running" => 4 \in Open(run')
    BY <1>3, <1>4, <2>1, <2>2, NamesOfSteps, RestoredTells DEF OpenOrBack
  <2>7. sharing # base.sharing => 5 \in Open(run')
    BY <1>3, <1>4, <2>1, <2>2, NamesOfSteps, RestoredTells DEF OpenOrBack
  <2> QED BY <1>1, <2>1, <2>2, <2>3, <2>4, <2>5, <2>6, <2>7 DEF OpenOrBack
<1>6. EndsKnown'
  <2>1. run'.end \in {"FAILED_ROLLED_BACK", "CANCELLED"} => Open(run') = {}
    BY DEF SetupFollows, Open
  <2>2. ASSUME run'.way = "forward", run'.at = 7, touched = "no" PROVE Integration!Reachable
    <3>1. /\ run.way = "forward" /\ run.end = "none"
          /\ (run.at = 7 \/ (run.at = 6 /\ Integration!Holds))
      BY <2>2, IntegrationPlace DEF SetupFollows, IntegrationInv
    <3> QED BY <2>2, <3>1, SetupAnswers DEF IntegrationInv, EndsKnown
  <2>3. Integration!Reachable' = Integration!Reachable
    BY <1>1 DEF Integration!Reachable, Integration!Ready
  <2> QED BY <2>1, <2>2, <2>3 DEF EndsKnown
<1> QED BY <1>2, <1>5, <1>6

LEMMA EngineKeepsSetup ==
    ASSUME IntegrationInv, Integration!Engine
    PROVE  IntegrationInv'
<1> HIDE DEF Integration!Wf
<1> DEFINE back == Integration!RestorationProbe = "COMPLETE"
<1>1. /\ RunInv(run, Integration!Wf)
      /\ run' \in Integration!Turns(run, Integration!Wf, Integration!Holds, Integration!Probe,
          Integration!RestorationProbe)
  BY DEF IntegrationInv, Integration!Engine
<1>2. run' \in Run!Turns(run, Integration!Wf, Integration!Holds, Integration!Probe,
        Integration!RestorationProbe)
  BY <1>1, SameSetupTurns
<1>3. run.at <= Len(Integration!Wf.steps) => Integration!Probe \subseteq Answers
  BY StepsOfSetup, SetupAnswers
<1>4. /\ RunInv(run', Integration!Wf)
      /\ Moves(run, run', Integration!Wf, Integration!Holds, Integration!Probe, back)
      /\ run.end = "none"
  BY <1>1, <1>2, <1>3, SetupWorkable, RunTurns
<1>5. Begins(run, run', Integration!Probe)
  BY <1>1, <1>2, <1>3, TurnsBegin
<1>6. SetupFollows(run, run', Integration!Holds, back)
  BY <1>1, <1>4, SetupMovesFollow
<1>7. run.pc \notin {"effect", "undoing", "undone"}
  <2>1. run.pc \in {"effect", "undoing", "undone"} =>
          Run!Turns(run, Integration!Wf, Integration!Holds, Integration!Probe,
              Integration!RestorationProbe) = {}
    BY <1>4 DEF Run!Turns
  <2> QED BY <1>2, <2>1
<1>8. back => Integration!Restored[Integration!Names[Run!Latest(run)]]
  <2>1. Integration!Undoes = Integration!Names[Run!Latest(run)]
    BY DEF Integration!Undoes, Integration!Latest, Run!Latest
  <2> QED BY <2>1 DEF Integration!RestorationProbe
<1> HIDE DEF back
<1>9. /\ UNCHANGED <<clients, access, model, gateway, consumers, webui, sharing>>
      /\ UNCHANGED <<tailnet, base, foreign, unlisted, touched, faults>>
      /\ work' = Integration!Idle /\ created' = Integration!Checkpointed(run')
  BY DEF Integration!Engine, Integration!world
<1>10. OpenOrBack' /\ EndsKnown' /\ RunInv(run, Integration!Wf)'
  BY <1>6, <1>8, <1>9, MachineRests DEF Integration!world
<1>11. /\ run.at \in 1..7 /\ run.row \in {"PENDING", "RUNNING", "CHECKPOINTED"}
       /\ run'.row \in {"PENDING", "RUNNING", "CHECKPOINTED"}
       /\ run.pc \in {"landed", "probe"} =>
           run.row = "RUNNING" /\ run.way = "forward" /\ run.at <= 6
       /\ run'.pc = "reverify" => run'.row = "CHECKPOINTED"
  BY <1>1, <1>4, IntegrationPlace
<1>12. IntegrationTyped /\ WorkKnown /\ ClientsKnown /\ Integration!ConsumersServed
  BY DEF IntegrationInv
<1>13. /\ work'.new = {}
       /\ created' = created \/ created' \subseteq Integration!SetupClients
  BY <1>9, <1>12 DEF Integration!Idle, Integration!Checkpointed, IntegrationTyped
<1>14. IntegrationTyped'
  BY <1>9, <1>12, <1>13 DEF IntegrationTyped, Integration!Idle
<1>15. Integration!ConsumersServed'
  BY <1>9, <1>12 DEF Integration!ConsumersServed
<1>16. ClientsKnown'
  <2>1. CASE run.pc = "landed" /\ Integration!At = "clients"
    <3>1. /\ created' = work.new /\ run.at = 1 /\ created = None
          /\ Integration!Output' = created' /\ Integration!Output = {}
      BY <1>9, <1>11, <1>12, <2>1, NamesOfSteps, IntegrationAssumption
         DEF Integration!Checkpointed, ClientsKnown, Integration!At, Integration!Output,
             IntegrationTyped, Integration!SetupClients
    <3>2. run' = Run!Applied(run)
      BY <1>2, <1>4, <2>1 DEF Run!Turns
    <3>3. run'.row = "CHECKPOINTED" /\ run'.undone = {}
      BY <1>1, <1>11, <2>1, <3>2, IntegrationPlace DEF Run!Applied, RunInv, RunShaped
    <3> QED BY <1>9, <1>12, <1>13, <3>1, <3>3 DEF ClientsKnown
  <2>2. CASE run.pc = "probe" /\ Integration!At = "clients" /\ run'.pc = "reverify"
    <3>1. created' = Integration!SetupClients \ base.clients /\ Integration!Output' = created'
      BY <1>9, <1>12, <2>2, IntegrationAssumption DEF Integration!Checkpointed,
         Integration!Output, IntegrationTyped, Integration!SetupClients
    <3>2. run'.undone = {} /\ run'.row = "CHECKPOINTED"
      BY <1>1, <1>6, <1>11, <2>2, IntegrationPlace DEF SetupFollows
    <3> QED BY <1>9, <1>12, <1>13, <3>1, <3>2 DEF ClientsKnown, IntegrationTyped
  <2>3. CASE ~ (run.pc = "landed" /\ Integration!At = "clients")
          /\ ~ (run.pc = "probe" /\ Integration!At = "clients" /\ run'.pc = "reverify")
    <3>1. created' = created
      BY <1>9, <2>3 DEF Integration!Checkpointed
    <3>2. work.new = {}
      <4>1. run.pc = "landed" /\ run.at = 1 => Integration!At = "clients"
        BY NamesOfSteps DEF Integration!At
      <4> QED BY <1>7, <2>3, <4>1, NewAtFirst
    <3>3. run'.at = 1 /\ run'.row # "CHECKPOINTED" => run.at = 1 /\ run.row # "CHECKPOINTED"
      BY <1>5, <1>6, <1>11 DEF SetupFollows, Begins
    <3>4. back /\ Run!Latest(run) = 1 => Integration!Output \cap clients = {}
      BY <1>8, NamesOfSteps, RestoredTells
    <3> QED BY <1>6, <1>9, <1>13, <3>1, <3>2, <3>3, <3>4, ClientsStay
  <2> QED BY <2>1, <2>2, <2>3
<1> QED BY <1>9, <1>10, <1>14, <1>15, <1>16, IdleIsKnown DEF IntegrationInv

LEMMA MisfortuneKeepsSetup ==
    ASSUME IntegrationInv, Integration!Misfortune
    PROVE  IntegrationInv'
<1> HIDE DEF Integration!Wf
<1>1. /\ RunInv(run, Integration!Wf)
      /\ run' \in Integration!Mishaps(run, Integration!Wf, Integration!Probe)
  BY DEF IntegrationInv, Integration!Misfortune
<1>2. run' \in Run!Mishaps(run, Integration!Wf, Integration!Probe)
  BY <1>1, SameSetupMishaps
<1>3. /\ RunInv(run', Integration!Wf) /\ run.end = "none"
      /\ Moves(run, run', Integration!Wf, FALSE, Integration!Probe \cup {"UNCERTAIN_MANUAL"},
          FALSE)
  BY <1>1, <1>2, SetupWorkable, RunMishaps
<1>4. run'.at = run.at /\ run'.row = run.row
  BY <1>1, <1>2, MishapsStay
<1>5. SetupFollows(run, run', FALSE, FALSE)
  BY <1>1, <1>3, SetupMovesFollow
<1>6. SetupFollows(run, run', Integration!Holds, FALSE)
  BY <1>5 DEF SetupFollows
<1>7. /\ UNCHANGED <<clients, access, model, gateway, consumers, webui, sharing>>
      /\ UNCHANGED <<tailnet, base, foreign, created, touched>>
      /\ work' = Integration!Idle /\ unlisted' = unlisted \cup work.new
  BY DEF Integration!Misfortune, Integration!world
<1>8. OpenOrBack' /\ EndsKnown' /\ RunInv(run, Integration!Wf)'
  BY <1>6, <1>7, MachineRests DEF Integration!world
<1>9. IntegrationTyped /\ WorkKnown /\ ClientsKnown /\ Integration!ConsumersServed
  BY DEF IntegrationInv
<1>10. IntegrationTyped' /\ Integration!ConsumersServed'
  BY <1>7, <1>9 DEF IntegrationTyped, Integration!ConsumersServed, Integration!Idle
<1>11. ClientsKnown'
  <2>1. Integration!Output' = Integration!Output /\ work'.new = {}
    BY <1>7 DEF Integration!Output, Integration!Idle
  <2>2. run'.undone = run.undone
    BY <1>5 DEF SetupFollows
  <2> QED BY <1>4, <1>7, <1>9, <2>1, <2>2 DEF ClientsKnown
<1> QED BY <1>7, <1>8, <1>10, <1>11, IdleIsKnown DEF IntegrationInv

LEMMA CancelKeepsSetup ==
    ASSUME IntegrationInv, Integration!Cancel
    PROVE  IntegrationInv'
<1> HIDE DEF Integration!Wf
<1>1. /\ RunInv(run, Integration!Wf) /\ Run!Cancellable(run, Integration!Wf)
      /\ run' = Run!Cancelled(run, Integration!Wf)
  BY SameSetupMoments DEF IntegrationInv, Integration!Cancel
<1>2. /\ RunInv(run', Integration!Wf)
      /\ CancelsAtOnce(run, run', Integration!Wf) \/ TurnsBack(run, run', Integration!Wf)
  BY <1>1, RunCancelled
<1>3. run.pc = "next" /\ run.end = "none"
  BY <1>1 DEF Run!Cancellable
<1>4. SetupFollows(run, run', Integration!Holds, FALSE)
  BY <1>1, <1>2, <1>3, SetupMovesFollow DEF Moves
<1>5. /\ UNCHANGED <<clients, access, model, gateway, consumers, webui, sharing>>
      /\ UNCHANGED <<tailnet, base, foreign, created, work, unlisted, touched>>
  BY DEF Integration!Cancel, Integration!world
<1>6. OpenOrBack' /\ EndsKnown' /\ RunInv(run, Integration!Wf)'
  BY <1>4, <1>5, MachineRests DEF Integration!world
<1>7. IntegrationTyped /\ WorkKnown /\ ClientsKnown /\ Integration!ConsumersServed
  BY DEF IntegrationInv
<1>8. IntegrationTyped' /\ Integration!ConsumersServed'
  BY <1>5, <1>7 DEF IntegrationTyped, Integration!ConsumersServed
<1>9. run'.at = run.at /\ run'.row = run.row
  BY <1>2 DEF CancelsAtOnce, TurnsBack, Stays
<1>10. ClientsKnown'
  BY <1>4, <1>5, <1>9, ClientsStay
<1>11. work' = Integration!Idle
  BY <1>3, <1>5, <1>7 DEF WorkKnown
<1> QED BY <1>6, <1>8, <1>10, <1>11, IdleIsKnown DEF IntegrationInv

-----------------------------------------------------------------------------
(* The ways in which a step ends                                           *)

LEMMA TurnEnds ==
    ASSUME IntegrationInv, run.pc = "effect",
           run' = Integration!Landed(run) \/ run' = Integration!Applied(run)
               \/ Integration!Refused
    PROVE  SetupFollows(run, run', FALSE, FALSE)
<1> HIDE DEF Integration!Wf
<1>1. RunInv(run, Integration!Wf) /\ run.end = "none"
  BY SetupEffects DEF IntegrationInv
<1>2. CASE run' = Integration!Landed(run) \/ run' = Integration!Applied(run)
  <2>1. run' = Run!Landed(run) \/ run' = Run!Applied(run)
    BY <1>2, SameSetupMoments
  <2>2. RunInv(run', Integration!Wf) /\ GoesOn(run, run')
    BY <1>1, <2>1, SetupWorkable, RunApplied
  <2> QED BY <1>1, <2>2, SetupMovesFollow DEF Moves
<1>3. CASE Integration!Refused
  <2>1. PICK class \in Integration!Probe : run' = Run!Failed(run, Integration!Wf, class)
    BY <1>3, SameSetupMoments DEF Integration!Refused
  <2>2. /\ RunInv(run', Integration!Wf)
        /\ FailsSafe(run, run', Integration!Wf, class) \/ TurnsBack(run, run', Integration!Wf)
    BY <1>1, <2>1, SetupWorkable, RunFailed
  <2>3. Moves(run, run', Integration!Wf, FALSE, Integration!Probe, FALSE)
    BY <2>2 DEF Moves
  <2> QED BY <1>1, <2>2, <2>3, SetupMovesFollow
<1> QED BY <1>2, <1>3

\* Nothing of the run changes but where its process is.
LEMMA StepEndsHere ==
    ASSUME IntegrationInv, run.pc = "effect",
           run' = Integration!Landed(run) \/ run' = Integration!Applied(run)
               \/ Integration!Refused
    PROVE  /\ run'.at = run.at
           /\ (run' = Integration!Landed(run) => run'.pc = "landed" /\ run'.row = "RUNNING")
<1> HIDE DEF Integration!Wf
<1>1. SetupFollows(run, run', FALSE, FALSE)
  BY TurnEnds
<1>2. run' = Run!Landed(run) => run'.pc = "landed" /\ run'.row = "RUNNING"
  BY SetupEffects DEF IntegrationInv, RunInv, RunShaped, Run!Landed
<1> QED BY <1>1, <1>2, SameSetupMoments DEF SetupFollows

LEMMA StepOfSetupGoesOn ==
    ASSUME IntegrationInv, run.pc = "effect", UNCHANGED <<clients, created, base, unlisted>>,
           UNCHANGED run \/ run' = Integration!Landed(run) \/ run' = Integration!Applied(run)
               \/ Integration!Refused,
           work'.new = work.new, tailnet' = tailnet
    PROVE  /\ ClientsKnown' /\ EndsKnown' /\ RunInv(run, Integration!Wf)'
           /\ \A i \in Open(run) : i \in Open(run')
           /\ run'.at = run.at
<1> HIDE DEF Integration!Wf
<1>1. run' = run \/ SetupFollows(run, run', FALSE, FALSE)
  BY TurnEnds
<1>2. run'.at = run.at /\ run.row # "CHECKPOINTED"
  BY <1>1, SetupEffects DEF SetupFollows
<1>3. ClientsKnown'
  BY <1>1, <1>2, ClientsStay
<1>4. Integration!Wf' = Integration!Wf
  BY DEF Integration!Wf
<1>5. EndsKnown' /\ RunInv(run, Integration!Wf)'
  BY <1>1, <1>4, EndsStay
<1>6. \A i \in Open(run) : i \in Open(run')
  BY <1>1, OpenFollows DEF IntegrationInv
<1> QED BY <1>2, <1>3, <1>5, <1>6

-----------------------------------------------------------------------------
(* The steps                                                               *)

LEMMA EnsureKeepsSetup ==
    ASSUME IntegrationInv, Integration!EnsureClient
    PROVE  IntegrationInv'
<1> HIDE DEF Integration!Wf
<1> DEFINE c == IF work.pc = "none" THEN "webui" ELSE "external"
<1>1. /\ run.pc = "effect" /\ run' = run /\ clients' = clients \cup {c}
      /\ work' = [work EXCEPT !.pc = IF @ = "none" THEN "second" ELSE "enable",
                              !.new = @ \cup ({c} \ clients)]
      /\ UNCHANGED <<created, access, model, gateway, consumers, webui, sharing>>
      /\ UNCHANGED <<tailnet, base, foreign, unlisted, touched, faults>>
  BY DEF Integration!EnsureClient, Integration!Rest
<1>2. IntegrationTyped /\ WorkKnown /\ ClientsKnown /\ OpenOrBack /\ Integration!ConsumersServed
  BY DEF IntegrationInv
<1>3. run.at = 1
  BY <1>1, SetupEffects, NamesOfSteps DEF Integration!EnsureClient, Integration!At
<1>4. c \in Integration!SetupClients
  BY DEF Integration!SetupClients
<1> HIDE DEF c
<1>5. /\ work'.pc \in {"second", "enable"} /\ work'.had = work.had
      /\ work'.new = work.new \cup ({c} \ clients)
      /\ work' \in [pc : {"none", "second", "enable", "record", "use", "stop"},
                    had : BOOLEAN, new : SUBSET Integration!SetupClients]
  BY <1>1, <1>2, <1>4 DEF IntegrationTyped
<1>6. IntegrationTyped' /\ WorkKnown' /\ OpenOrBack' /\ Integration!ConsumersServed'
  BY <1>1, <1>2, <1>3, <1>4, <1>5 DEF IntegrationTyped, WorkKnown, OpenOrBack,
     Integration!ConsumersServed
<1>7. Integration!Output' = Integration!Output /\ run.undone = {}
  BY <1>1, SetupEffects DEF Integration!Output
<1>8. ClientsKnown'
  BY <1>1, <1>2, <1>5, <1>7 DEF ClientsKnown
<1>9. EndsKnown' /\ RunInv(run, Integration!Wf)'
  <2>1. Integration!Wf' = Integration!Wf
    BY DEF Integration!Wf
  <2> QED BY <1>1, <2>1, EndsStay
<1> QED BY <1>6, <1>8, <1>9 DEF IntegrationInv

LEMMA EnableKeepsSetup ==
    ASSUME IntegrationInv, Integration!EnableAccess
    PROVE  IntegrationInv'
<1> HIDE DEF Integration!Wf
<1>1. /\ run.pc = "effect" /\ run' = Integration!Landed(run) /\ access' = TRUE
      /\ UNCHANGED <<work, created, clients, model, gateway, consumers, webui, sharing>>
      /\ UNCHANGED <<tailnet, base, foreign, unlisted, touched, faults>>
  BY DEF Integration!EnableAccess, Integration!Executing, Integration!Rest
<1>2. IntegrationTyped /\ WorkKnown /\ OpenOrBack /\ Integration!ConsumersServed
  BY DEF IntegrationInv
<1>3. run.at = 1 /\ 1 \in Open(run) /\ work.pc = "enable"
  BY <1>1, SetupEffects, NamesOfSteps DEF Integration!EnableAccess, Integration!Executing,
     Integration!At
<1>4. /\ ClientsKnown' /\ EndsKnown' /\ RunInv(run, Integration!Wf)'
      /\ \A i \in Open(run) : i \in Open(run')
  BY <1>1, StepOfSetupGoesOn
<1>5. run'.at = 1 /\ run'.pc = "landed"
  BY <1>1, <1>3, StepEndsHere
<1>6. IntegrationTyped' /\ Integration!ConsumersServed'
  BY <1>1, <1>2 DEF IntegrationTyped, Integration!ConsumersServed
<1>7. WorkKnown'
  BY <1>1, <1>2, <1>3, <1>5 DEF WorkKnown
<1>8. OpenOrBack'
  BY <1>1, <1>2, <1>3, <1>4 DEF OpenOrBack
<1> QED BY <1>4, <1>6, <1>7, <1>8 DEF IntegrationInv

LEMMA ModelKeepsSetup ==
    ASSUME IntegrationInv, Integration!StartModel
    PROVE  IntegrationInv'
<1> HIDE DEF Integration!Wf
<1>1. /\ run.pc = "effect" /\ run' = Integration!Landed(run) /\ model' = TRUE
      /\ work' = Integration!Idle
      /\ UNCHANGED <<created, clients, access, gateway, consumers, webui, sharing>>
      /\ UNCHANGED <<tailnet, base, foreign, unlisted, touched, faults>>
  BY DEF Integration!StartModel, Integration!Executing, Integration!Rest, Integration!Completes
<1>2. IntegrationTyped /\ WorkKnown /\ OpenOrBack /\ Integration!ConsumersServed
  BY DEF IntegrationInv
<1>3. run.at = 2 /\ 2 \in Open(run)
  BY <1>1, SetupEffects, NamesOfSteps DEF Integration!StartModel, Integration!Executing,
     Integration!At
<1>4. work'.new = work.new
  BY <1>1, <1>3, NewAtFirst DEF Integration!Idle
<1>5. /\ ClientsKnown' /\ EndsKnown' /\ RunInv(run, Integration!Wf)'
      /\ \A i \in Open(run) : i \in Open(run')
  BY <1>1, <1>4, StepOfSetupGoesOn
<1>6. IntegrationTyped' /\ Integration!ConsumersServed'
  BY <1>1, <1>2 DEF IntegrationTyped, Integration!ConsumersServed, Integration!Idle
<1>7. OpenOrBack'
  BY <1>1, <1>2, <1>3, <1>5 DEF OpenOrBack
<1> QED BY <1>1, <1>5, <1>6, <1>7, IdleIsKnown DEF IntegrationInv

\* The gateway is up before anybody is recorded.
LEMMA StartsKeepsSetup ==
    ASSUME IntegrationInv, Integration!AcquireStarts
    PROVE  IntegrationInv'
<1> HIDE DEF Integration!Wf
<1> DEFINE had == Integration!Takes[Integration!At] \in consumers
<1>1. /\ run.pc = "effect" /\ run' = run /\ gateway' = TRUE
      /\ access' = (access \/ Integration!At = "tailnet")
      /\ model' = (model \/ Integration!At = "tailnet")
      /\ work' = [work EXCEPT !.pc = "record", !.had = had]
      /\ UNCHANGED <<created, clients, consumers, webui, sharing>>
      /\ UNCHANGED <<tailnet, base, foreign, unlisted, touched, faults>>
  BY DEF Integration!AcquireStarts, Integration!Rest, Integration!Continues
<1>2. IntegrationTyped /\ WorkKnown /\ OpenOrBack /\ Integration!ConsumersServed
  BY DEF IntegrationInv
<1>3. /\ run.at \in {3, 4, 5} /\ (run.at = 5 => tailnet)
      /\ (Integration!At = "tailnet" <=> run.at = 5)
      /\ run.at = 5 => 1 \in Open(run) /\ 2 \in Open(run)
  BY <1>1, SetupEffects, NamesOfSteps DEF Integration!AcquireStarts, Integration!At,
     Integration!Takes
<1> HIDE DEF had
<1>4. had \in BOOLEAN
  BY DEF had
<1>5. work'.new = work.new /\ work'.pc = "record"
      /\ work' \in [pc : {"none", "second", "enable", "record", "use", "stop"},
                    had : BOOLEAN, new : SUBSET Integration!SetupClients]
  BY <1>1, <1>2, <1>4 DEF IntegrationTyped
<1>6. /\ ClientsKnown' /\ EndsKnown' /\ RunInv(run, Integration!Wf)'
  BY <1>1, <1>5, StepOfSetupGoesOn
<1>7. work.new = {}
  BY <1>3, NewAtFirst
<1>8. IntegrationTyped' /\ Integration!ConsumersServed'
  BY <1>1, <1>2, <1>5 DEF IntegrationTyped, Integration!ConsumersServed
<1>9. WorkKnown'
  BY <1>1, <1>3, <1>5, <1>7 DEF WorkKnown
<1>10. OpenOrBack'
  BY <1>1, <1>2, <1>3 DEF OpenOrBack, IntegrationTyped
<1> QED BY <1>6, <1>8, <1>9, <1>10 DEF IntegrationInv

\* A step ends that changed nothing.
LEMMA QuietKeepsSetup ==
    ASSUME IntegrationInv, Integration!AcquireRefused \/ Integration!NotRequested
        \/ Integration!VerifyClient
    PROVE  IntegrationInv'
<1> HIDE DEF Integration!Wf
<1>1. /\ run.pc = "effect" /\ work' = Integration!Idle
      /\ (run' = Integration!Applied(run) \/ Integration!Refused)
      /\ UNCHANGED <<clients, access, model, gateway, consumers, webui, sharing>>
      /\ UNCHANGED <<created, tailnet, base, foreign, unlisted, touched, faults>>
  BY DEF Integration!AcquireRefused, Integration!NotRequested, Integration!VerifyClient,
     Integration!Executing, Integration!Rest, Integration!Refused, Integration!world
<1>2. IntegrationTyped /\ WorkKnown /\ OpenOrBack /\ Integration!ConsumersServed
  BY DEF IntegrationInv
<1>3. run.at # 1
  BY <1>1, SetupEffects, NamesOfSteps
     DEF Integration!AcquireRefused, Integration!NotRequested, Integration!VerifyClient,
         Integration!Executing, Integration!At, Integration!Takes
<1>4. work'.new = work.new
  BY <1>1, <1>3, NewAtFirst DEF Integration!Idle
<1>5. /\ ClientsKnown' /\ EndsKnown' /\ RunInv(run, Integration!Wf)'
      /\ \A i \in Open(run) : i \in Open(run')
  BY <1>1, <1>4, StepOfSetupGoesOn
<1>6. IntegrationTyped' /\ Integration!ConsumersServed'
  BY <1>1, <1>2 DEF IntegrationTyped, Integration!ConsumersServed, Integration!Idle
<1>7. OpenOrBack'
  BY <1>1, <1>2, <1>5 DEF OpenOrBack
<1> QED BY <1>1, <1>5, <1>6, <1>7, IdleIsKnown DEF IntegrationInv

LEMMA RecordsKeepsSetup ==
    ASSUME IntegrationInv, Integration!AcquireRecords
    PROVE  IntegrationInv'
<1> HIDE DEF Integration!Wf
<1>1. /\ run.pc = "effect" /\ work.pc = "record"
      /\ consumers' = consumers \cup {Integration!Takes[Integration!At]}
      /\ IF Integration!At = "gateway"
          THEN run' = Integration!Landed(run) /\ work' = Integration!Idle
         ELSE run' = run /\ work' = [work EXCEPT !.pc = "use", !.had = work.had]
      /\ UNCHANGED <<created, clients, access, model, gateway, webui, sharing>>
      /\ UNCHANGED <<tailnet, base, foreign, unlisted, touched, faults>>
  BY DEF Integration!AcquireRecords, Integration!Rest, Integration!Completes,
     Integration!Continues
<1>2. IntegrationTyped /\ WorkKnown /\ OpenOrBack /\ Integration!ConsumersServed
  BY DEF IntegrationInv
<1>3. /\ run.at \in {3, 4, 5} /\ (run.at = 5 => tailnet) /\ 3 \in Open(run)
      /\ Integration!Takes[Integration!At] = "client" <=> run.at = 3
      /\ Integration!At = "gateway" <=> run.at = 3
      /\ touched # "raced" => gateway
  <2>1. run.at \in {3, 4, 5} /\ (run.at = 5 => tailnet) /\ (touched # "raced" => gateway)
    BY <1>1, <1>2 DEF WorkKnown
  <2> QED BY <1>1, <2>1, SetupEffects, NamesOfSteps DEF Integration!At, Integration!Takes
<1>4. work.new = {}
  BY <1>3, NewAtFirst
<1>5. /\ work'.new = work.new /\ work'.pc \in {"use", "none"}
      /\ work'.pc = "use" => run' = run
      /\ work'.pc = "none" => work' = Integration!Idle
      /\ work' \in [pc : {"none", "second", "enable", "record", "use", "stop"},
                    had : BOOLEAN, new : SUBSET Integration!SetupClients]
  <2>1. CASE Integration!At = "gateway"
    <3>1. work' = Integration!Idle
      BY <1>1, <2>1
    <3>2. /\ Integration!Idle.new = {} /\ Integration!Idle.pc = "none"
          /\ Integration!Idle \in [pc : {"none", "second", "enable", "record", "use", "stop"},
                       had : BOOLEAN, new : SUBSET Integration!SetupClients]
      BY DEF Integration!Idle
    <3> QED BY <1>4, <3>1, <3>2
  <2>2. CASE Integration!At # "gateway"
    BY <1>1, <1>2, <2>2 DEF IntegrationTyped
  <2> QED BY <2>1, <2>2
<1>6. /\ ClientsKnown' /\ EndsKnown' /\ RunInv(run, Integration!Wf)'
      /\ \A i \in Open(run) : i \in Open(run')
  BY <1>1, <1>5, StepOfSetupGoesOn
<1>7. IntegrationTyped' /\ Integration!ConsumersServed'
  BY <1>1, <1>2, <1>3, <1>5 DEF IntegrationTyped, Integration!ConsumersServed
<1>8. WorkKnown'
  <2>1. CASE work'.pc = "use"
    BY <1>1, <1>3, <1>4, <1>5, <2>1 DEF WorkKnown
  <2> QED BY <1>5, <2>1, IdleIsKnown
<1>9. OpenOrBack'
  BY <1>1, <1>2, <1>3, <1>6 DEF OpenOrBack
<1> QED BY <1>6, <1>7, <1>8, <1>9 DEF IntegrationInv

\* Open WebUI is started, or the mappings published; or the step leaves the gateway again.
LEMMA UsesKeepsSetup ==
    ASSUME IntegrationInv, Integration!StartWebUI \/ Integration!PublishMappings
    PROVE  IntegrationInv'
<1> HIDE DEF Integration!Wf
<1>1. /\ run.pc = "effect" /\ work' = Integration!Idle
      /\ (run' = Integration!Landed(run) \/ Integration!Refused)
      /\ UNCHANGED <<created, clients, access, model>>
      /\ UNCHANGED <<tailnet, base, foreign, unlisted, touched>>
  BY DEF Integration!StartWebUI, Integration!PublishMappings, Integration!Executing,
     Integration!Completes, Integration!Refused
<1>2. IntegrationTyped /\ WorkKnown /\ OpenOrBack /\ Integration!ConsumersServed
  BY DEF IntegrationInv
<1>3. /\ run.at \in {4, 5} /\ (run.at = 5 => tailnet) /\ run.at \in Open(run)
      /\ Integration!StartWebUI => run.at = 4
      /\ Integration!PublishMappings => run.at = 5
  <2>1. run.at \in {3, 4, 5} /\ (run.at = 5 => tailnet)
    BY <1>2 DEF WorkKnown, Integration!StartWebUI, Integration!PublishMappings,
       Integration!Executing
  <2>2. /\ Integration!StartWebUI => Integration!Names[run.at] = "openwebui"
        /\ Integration!PublishMappings => Integration!Names[run.at] = "tailnet"
    BY DEF Integration!StartWebUI, Integration!PublishMappings, Integration!Executing,
       Integration!At
  <2>3. /\ Integration!StartWebUI => run.at = 4
        /\ Integration!PublishMappings => run.at = 5
    BY <2>1, <2>2, NamesOfSteps
  <2> QED BY <1>1, <2>1, <2>3, SetupEffects
<1>4. work'.new = work.new
  BY <1>1, <1>3, NewAtFirst DEF Integration!Idle
<1>5. /\ ClientsKnown' /\ EndsKnown' /\ RunInv(run, Integration!Wf)'
      /\ \A i \in Open(run) : i \in Open(run')
  BY <1>1, <1>4, StepOfSetupGoesOn
<1>6. /\ webui' = webui \/ (webui' = "running" /\ run.at = 4)
      /\ sharing' = sharing \/ (sharing' = TRUE /\ run.at = 5)
      /\ "client" \in consumers' <=> "client" \in consumers
      /\ consumers' \subseteq consumers
      /\ gateway' = gateway \/ gateway' = (gateway /\ (work.had \/ consumers' # {}))
      /\ work.had => consumers' = consumers
  BY <1>1, <1>3 DEF Integration!StartWebUI, Integration!PublishMappings, Integration!Leaves
<1>7. IntegrationTyped'
  BY <1>1, <1>2, <1>6 DEF IntegrationTyped, Integration!Idle
<1>8. Integration!ConsumersServed'
  BY <1>1, <1>2, <1>6 DEF Integration!ConsumersServed, IntegrationTyped
<1>9. OpenOrBack'
  BY <1>1, <1>2, <1>3, <1>5, <1>6 DEF OpenOrBack
<1> QED BY <1>1, <1>5, <1>7, <1>8, <1>9, IdleIsKnown DEF IntegrationInv

-----------------------------------------------------------------------------
(* The compensations                                                       *)

\* A compensation goes on, or is over.
LEMMA UndoneHere ==
    ASSUME IntegrationInv, run.pc = "undoing", UNCHANGED run
        \/ run' = [run EXCEPT !.pc = "undone"]
    PROVE  SetupFollows(run, run', FALSE, FALSE) \/ run' = run
<1> HIDE DEF Integration!Wf
<1>1. RunInv(run, Integration!Wf) /\ run.end = "none" /\ run.todo # {}
  BY SetupUndoings DEF IntegrationInv
<1>2. CASE run' = [run EXCEPT !.pc = "undone"]
  <2>1. RunInv(run', Integration!Wf) /\ GoesBack(run, run')
    BY <1>1, <1>2, RunInUndo
  <2> QED BY <1>1, <2>1, SetupMovesFollow DEF Moves
<1> QED BY <1>2

LEMMA CompensationGoesOn ==
    ASSUME IntegrationInv, run.pc = "undoing", UNCHANGED <<tailnet, base>>,
           UNCHANGED run \/ run' = [run EXCEPT !.pc = "undone"]
    PROVE  /\ EndsKnown' /\ RunInv(run, Integration!Wf)'
           /\ \A i \in Open(run) : i \in Open(run')
           /\ run'.at = run.at /\ run'.row = run.row /\ run'.undone = run.undone
<1> HIDE DEF Integration!Wf
<1>1. run' = run \/ SetupFollows(run, run', FALSE, FALSE)
  BY UndoneHere
<1>2. Integration!Wf' = Integration!Wf
  BY DEF Integration!Wf
<1>3. EndsKnown' /\ RunInv(run, Integration!Wf)'
  BY <1>1, <1>2, EndsStay
<1>4. \A i \in Open(run) : i \in Open(run')
  BY <1>1, OpenFollows DEF IntegrationInv
<1>5. run'.at = run.at /\ run'.row = run.row /\ run'.undone = run.undone
  BY DEF IntegrationInv, RunInv, RunShaped
<1> QED BY <1>3, <1>4, <1>5

\* What release does to the receipt.
LEMMA Releases ==
    ASSUME IntegrationInv, run.pc = "undoing", NEW c, NEW leaves \in BOOLEAN,
        Integration!ReleaseOrEnd(c, leaves)
    PROVE  /\ UNCHANGED run \/ run' = [run EXCEPT !.pc = "undone"]
           /\ consumers' = consumers \/ (leaves /\ consumers' = consumers \ {c})
           /\ work'.new = work.new /\ work'.pc \in {"none", "stop"}
           /\ work' \in [pc : {"none", "second", "enable", "record", "use", "stop"},
                         had : BOOLEAN, new : SUBSET Integration!SetupClients]
<1>1. work.new = {}
  BY NewAtFirst
<1>2. CASE leaves /\ c \in consumers
  <2>1. /\ work' = [work EXCEPT !.pc = "stop", !.had = FALSE]
        /\ consumers' = consumers \ {c} /\ run' = run
    BY <1>2 DEF Integration!ReleaseOrEnd, Integration!Continues
  <2> QED BY <1>2, <2>1 DEF IntegrationInv, IntegrationTyped
<1>3. CASE ~ (leaves /\ c \in consumers)
  <2>1. work' = Integration!Idle /\ consumers' = consumers /\ run' = [run EXCEPT !.pc = "undone"]
    BY <1>3 DEF Integration!ReleaseOrEnd, Integration!UndoneNow
  <2> QED BY <1>1, <2>1 DEF Integration!Idle
<1> QED BY <1>2, <1>3

\* A compensation that changes no client.
LEMMA UndoingKeeps ==
    ASSUME IntegrationInv, run.pc = "undoing", UNCHANGED run
        \/ run' = [run EXCEPT !.pc = "undone"],
           UNCHANGED <<clients, created, base, unlisted, touched, tailnet, access>>,
           work'.new = work.new, work'.pc \in {"none", "stop"},
           work' \in [pc : {"none", "second", "enable", "record", "use", "stop"},
                      had : BOOLEAN, new : SUBSET Integration!SetupClients],
           work' = Integration!Idle \/ run' = run
    PROVE  /\ EndsKnown' /\ RunInv(run, Integration!Wf)' /\ ClientsKnown' /\ WorkKnown'
           /\ \A i \in Open(run) : i \in Open(run')
<1> HIDE DEF Integration!Wf
<1>1. /\ EndsKnown' /\ RunInv(run, Integration!Wf)'
      /\ \A i \in Open(run) : i \in Open(run')
      /\ run'.at = run.at /\ run'.row = run.row /\ run'.undone = run.undone
  BY CompensationGoesOn
<1>2. ClientsKnown'
  <2>1. Integration!Output' = Integration!Output
    BY DEF Integration!Output
  <2> QED BY <1>1, <2>1 DEF IntegrationInv, ClientsKnown
<1>3. WorkKnown'
  <2>1. CASE run' = run
    <3>1. work.new = {}
      BY NewAtFirst
    <3> QED BY <2>1, <3>1 DEF WorkKnown
  <2> QED BY <2>1, IdleIsKnown
<1> QED BY <1>1, <1>2, <1>3

LEMMA StopsKeepsSetup ==
    ASSUME IntegrationInv, Integration!ReleaseStops
    PROVE  IntegrationInv'
<1> HIDE DEF Integration!Wf
<1>1. /\ run.pc = "undoing" /\ gateway' = (gateway /\ consumers # {})
      /\ run' = [run EXCEPT !.pc = "undone"] /\ work' = Integration!Idle
      /\ UNCHANGED <<created, clients, access, model, consumers, webui, sharing>>
      /\ UNCHANGED <<tailnet, base, foreign, unlisted, touched, faults>>
  BY DEF Integration!ReleaseStops, Integration!Rest, Integration!UndoneNow
<1>2. IntegrationTyped /\ OpenOrBack /\ Integration!ConsumersServed
  BY DEF IntegrationInv
<1>3. work.new = {}
  BY <1>1, NewAtFirst
<1>4. /\ EndsKnown' /\ RunInv(run, Integration!Wf)' /\ ClientsKnown' /\ WorkKnown'
      /\ \A i \in Open(run) : i \in Open(run')
  BY <1>1, <1>3, UndoingKeeps DEF Integration!Idle
<1>5. IntegrationTyped' /\ Integration!ConsumersServed'
  BY <1>1, <1>2 DEF IntegrationTyped, Integration!ConsumersServed, Integration!Idle
<1>6. OpenOrBack'
  BY <1>1, <1>2, <1>4 DEF OpenOrBack
<1> QED BY <1>4, <1>5, <1>6 DEF IntegrationInv

LEMMA ReleasesKeepSetup ==
    ASSUME IntegrationInv, Integration!RestoreTailnet \/ Integration!RestoreWebUI
        \/ Integration!RestoreGateway
    PROVE  IntegrationInv'
<1> HIDE DEF Integration!Wf
<1>1. /\ run.pc = "undoing"
      /\ UNCHANGED <<created, clients, access, model, gateway>>
      /\ UNCHANGED <<tailnet, base, foreign, unlisted, touched, faults>>
  BY DEF Integration!RestoreTailnet, Integration!RestoreWebUI, Integration!RestoreGateway,
     Integration!Rest, Integration!Undoing
<1>2. IntegrationTyped /\ OpenOrBack /\ Integration!ConsumersServed
  BY DEF IntegrationInv
<1>3. PICK c \in Integration!Consumers, leaves \in BOOLEAN :
         /\ Integration!ReleaseOrEnd(c, leaves)
         /\ c = "client" /\ leaves => "client" \notin base.consumers
         /\ sharing' = sharing \/ (sharing' = FALSE /\ ~ base.sharing)
         /\ webui' = webui \/ (webui' = "stopped" /\ base.webui # "running")
  <2>1. CASE Integration!RestoreTailnet
    <3> DEFINE off == tailnet /\ ~ base.sharing
    <3>1. /\ Integration!ReleaseOrEnd("sharing", off) /\ sharing' = (sharing /\ ~ off)
          /\ webui' = webui
      BY <2>1 DEF Integration!RestoreTailnet
    <3>2. off \in BOOLEAN /\ (off => ~ base.sharing) /\ "sharing" \in Integration!Consumers
      BY DEF Integration!Consumers
    <3> HIDE DEF off
    <3>3. sharing' = sharing \/ (sharing' = FALSE /\ ~ base.sharing)
      BY <1>2, <3>1, <3>2 DEF IntegrationTyped
    <3> QED BY <3>1, <3>2, <3>3
  <2>2. CASE Integration!RestoreWebUI
    <3> DEFINE off == base.webui # "running"
    <3>1. /\ Integration!ReleaseOrEnd("openwebui", off) /\ sharing' = sharing
          /\ webui' = IF off /\ webui = "running" THEN "stopped" ELSE webui
      BY <2>2 DEF Integration!RestoreWebUI
    <3>2. off \in BOOLEAN /\ "openwebui" \in Integration!Consumers
      BY DEF Integration!Consumers
    <3> QED BY <3>1, <3>2
  <2>3. CASE Integration!RestoreGateway
    <3>1. /\ Integration!ReleaseOrEnd("client", "client" \notin base.consumers)
          /\ sharing' = sharing /\ webui' = webui
      BY <2>3 DEF Integration!RestoreGateway
    <3>2. "client" \in Integration!Consumers /\ ("client" \notin base.consumers) \in BOOLEAN
      BY DEF Integration!Consumers
    <3> QED BY <3>1, <3>2
  <2> QED BY <2>1, <2>2, <2>3
<1>4. /\ UNCHANGED run \/ run' = [run EXCEPT !.pc = "undone"]
      /\ consumers' = consumers \/ (leaves /\ consumers' = consumers \ {c})
      /\ work'.new = work.new /\ work'.pc \in {"none", "stop"}
      /\ work' \in [pc : {"none", "second", "enable", "record", "use", "stop"},
                    had : BOOLEAN, new : SUBSET Integration!SetupClients]
  BY <1>1, <1>3, Releases
<1>5. work' = Integration!Idle \/ run' = run
  BY <1>3 DEF Integration!ReleaseOrEnd, Integration!UndoneNow, Integration!Continues
<1>6. /\ EndsKnown' /\ RunInv(run, Integration!Wf)' /\ ClientsKnown' /\ WorkKnown'
      /\ \A i \in Open(run) : i \in Open(run')
  BY <1>1, <1>4, <1>5, UndoingKeeps
<1>7. /\ consumers' \subseteq consumers
      /\ ("client" \in base.consumers /\ "client" \in consumers => "client" \in consumers')
  BY <1>3, <1>4
<1>8. IntegrationTyped'
  BY <1>1, <1>2, <1>3, <1>4 DEF IntegrationTyped
<1>9. Integration!ConsumersServed'
  BY <1>1, <1>2, <1>7 DEF Integration!ConsumersServed
<1>10. OpenOrBack'
  <2>1. SUFFICES ASSUME touched = "no" PROVE OpenOrBack'
    BY <1>1 DEF OpenOrBack
  <2>2. base.webui = "running" => webui' = "running"
    BY <1>2, <1>3, <2>1 DEF OpenOrBack
  <2>3. webui' = "running" /\ base.webui # "running" => 4 \in Open(run')
    BY <1>2, <1>3, <1>6, <2>1 DEF OpenOrBack
  <2>4. (base.sharing => sharing') /\ (sharing' # base.sharing => tailnet /\ 5 \in Open(run'))
    <3>1. (base.sharing => sharing) /\ (sharing # base.sharing => tailnet /\ 5 \in Open(run))
      BY <1>2, <2>1 DEF OpenOrBack
    <3>2. sharing \in BOOLEAN /\ base.sharing \in BOOLEAN
      BY <1>2 DEF IntegrationTyped
    <3>3. CASE sharing' = sharing
      BY <1>6, <3>1, <3>3
    <3>4. CASE sharing' = FALSE /\ ~ base.sharing
      BY <3>2, <3>4
    <3> QED BY <1>3, <3>3, <3>4
  <2>5. /\ "client" \in base.consumers => "client" \in consumers'
        /\ "client" \in consumers' /\ "client" \notin base.consumers => 3 \in Open(run')
    BY <1>2, <1>6, <1>7, <2>1 DEF OpenOrBack
  <2>6. /\ (base.access => access) /\ (access # base.access => 1 \in Open(run'))
        /\ (base.model => model) /\ (model # base.model => 2 \in Open(run'))
    BY <1>2, <1>6, <2>1 DEF OpenOrBack
  <2> QED BY <1>1, <2>2, <2>3, <2>4, <2>5, <2>6 DEF OpenOrBack
<1> QED BY <1>6, <1>8, <1>9, <1>10 DEF IntegrationInv

LEMMA UndoModelKeepsSetup ==
    ASSUME IntegrationInv, Integration!RestoreModel
    PROVE  IntegrationInv'
<1> HIDE DEF Integration!Wf
<1>1. /\ run.pc = "undoing" /\ model' = (model /\ base.model)
      /\ run' = [run EXCEPT !.pc = "undone"] /\ work' = Integration!Idle
      /\ UNCHANGED <<created, clients, access, gateway, consumers, webui, sharing>>
      /\ UNCHANGED <<tailnet, base, foreign, unlisted, touched, faults>>
  BY DEF Integration!RestoreModel, Integration!Rest, Integration!UndoneNow, Integration!Undoing
<1>2. IntegrationTyped /\ OpenOrBack /\ Integration!ConsumersServed
  BY DEF IntegrationInv
<1>3. work.new = {}
  BY <1>1, NewAtFirst
<1>4. /\ EndsKnown' /\ RunInv(run, Integration!Wf)' /\ ClientsKnown' /\ WorkKnown'
      /\ \A i \in Open(run) : i \in Open(run')
  BY <1>1, <1>3, UndoingKeeps DEF Integration!Idle
<1>5. IntegrationTyped' /\ Integration!ConsumersServed'
  BY <1>1, <1>2 DEF IntegrationTyped, Integration!ConsumersServed, Integration!Idle
<1>6. OpenOrBack'
  BY <1>1, <1>2, <1>4 DEF OpenOrBack, IntegrationTyped
<1> QED BY <1>4, <1>5, <1>6 DEF IntegrationInv

LEMMA UndoClientsKeepsSetup ==
    ASSUME IntegrationInv, Integration!RemoveClients
    PROVE  IntegrationInv'
<1> HIDE DEF Integration!Wf
<1>1. /\ run.pc = "undoing" /\ access' = (access /\ base.access)
      /\ clients' = IF access /\ ~ base.access THEN {} ELSE clients \ Integration!Output
      /\ run' = [run EXCEPT !.pc = "undone"] /\ work' = Integration!Idle
      /\ UNCHANGED <<created, model, gateway, consumers, webui, sharing>>
      /\ UNCHANGED <<tailnet, base, foreign, unlisted, touched, faults>>
  BY DEF Integration!RemoveClients, Integration!Rest, Integration!UndoneNow, Integration!Undoing
<1>2. IntegrationTyped /\ OpenOrBack /\ Integration!ConsumersServed /\ ClientsKnown
  BY DEF IntegrationInv
<1>3. work.new = {} /\ work'.new = {}
  BY <1>1, NewAtFirst DEF Integration!Idle
<1>4. /\ EndsKnown' /\ RunInv(run, Integration!Wf)'
      /\ \A i \in Open(run) : i \in Open(run')
      /\ run'.at = run.at /\ run'.row = run.row /\ run'.undone = run.undone
  BY <1>1, CompensationGoesOn
<1>5. IntegrationTyped' /\ Integration!ConsumersServed'
  BY <1>1, <1>2 DEF IntegrationTyped, Integration!ConsumersServed, Integration!Idle
<1>6. OpenOrBack'
  BY <1>1, <1>2, <1>4 DEF OpenOrBack, IntegrationTyped
<1>7. ClientsKnown'
  <2>1. Integration!Output' = Integration!Output
    BY <1>1 DEF Integration!Output
  <2>2. clients' \subseteq clients /\ (base.access => clients' = clients \ Integration!Output)
    BY <1>1
  <2> QED BY <1>1, <1>2, <1>3, <1>4, <2>1, <2>2 DEF ClientsKnown
<1> QED BY <1>1, <1>4, <1>5, <1>6, <1>7, IdleIsKnown DEF IntegrationInv

\* A step counts as undone when its restoration is proven.
LEMMA ProofKeepsSetup ==
    ASSUME IntegrationInv, Integration!VerifyRestored
    PROVE  IntegrationInv'
<1> HIDE DEF Integration!Wf
<1>1. /\ run.pc = "undone" /\ work' = Integration!Idle
      /\ run' = IF Integration!Restored[Integration!Undoes] THEN Integration!Undone(run)
          ELSE Integration!UndoFailed(run)
      /\ UNCHANGED <<clients, access, model, gateway, consumers, webui, sharing>>
      /\ UNCHANGED <<tailnet, base, foreign, created, unlisted, touched, faults>>
  BY DEF Integration!VerifyRestored, Integration!world
<1>2. /\ RunInv(run, Integration!Wf) /\ run.end = "none" /\ run.todo # {}
      /\ Integration!Undoes = Integration!Names[Run!Latest(run)]
  BY <1>1, SetupUndoings DEF IntegrationInv
<1> DEFINE back == Integration!Restored[Integration!Undoes]
<1>3. SetupFollows(run, run', Integration!Holds, back) /\ run'.at = run.at /\ run'.row = run.row
  <2>1. CASE back
    <3>1. run' = Run!Undone(run)
      BY <1>1, <2>1, SameSetupMoments
    <3>2. RunInv(run', Integration!Wf) /\ UndoesOne(run, run')
      BY <1>1, <1>2, <3>1, RunUndone
    <3>3. Moves(run, run', Integration!Wf, Integration!Holds, {}, back)
      BY <2>1, <3>2 DEF Moves
    <3> QED BY <1>2, <3>2, <3>3, SetupMovesFollow DEF UndoesOne
  <2>2. CASE ~ back
    <3>1. run' = Run!UndoFailed(run)
      BY <1>1, <2>2, SameSetupMoments
    <3>2. RunInv(run', Integration!Wf) /\ GoesBack(run, run')
      BY <1>1, <1>2, <3>1, RunUndoFailed
    <3>3. Moves(run, run', Integration!Wf, Integration!Holds, {}, back)
      BY <3>2 DEF Moves
    <3> QED BY <1>2, <3>2, <3>3, SetupMovesFollow DEF GoesBack, Stays
  <2> QED BY <2>1, <2>2
<1>4. back => Integration!Restored[Integration!Names[Run!Latest(run)]]
  BY <1>2
<1> HIDE DEF back
<1>5. OpenOrBack' /\ EndsKnown' /\ RunInv(run, Integration!Wf)'
  BY <1>1, <1>3, <1>4, MachineRests DEF Integration!world
<1>6. IntegrationTyped' /\ Integration!ConsumersServed'
  BY <1>1 DEF IntegrationInv, IntegrationTyped, Integration!ConsumersServed, Integration!Idle
<1>7. ClientsKnown'
  <2>1. back /\ Run!Latest(run) = 1 => Integration!Output \cap clients = {}
    BY <1>4, NamesOfSteps, RestoredTells
  <2>2. work'.new = work.new
    BY <1>1, NewAtFirst DEF Integration!Idle
  <2> QED BY <1>1, <1>3, <2>1, <2>2, ClientsStay
<1> QED BY <1>1, <1>5, <1>6, <1>7, IdleIsKnown DEF IntegrationInv

-----------------------------------------------------------------------------

LEMMA UserKeepsSetup ==
    ASSUME IntegrationInv, Integration!UserStops
    PROVE  IntegrationInv'
<1> HIDE DEF Integration!Wf
<1>1. /\ run.end = "none" /\ touched = "no"
      /\ touched' = IF run.pc = "effect" /\ work.pc = "record" THEN "raced" ELSE "yes"
      /\ model' \in {model, FALSE} /\ sharing' \in {sharing, FALSE}
      /\ consumers' \subseteq consumers
      /\ gateway' = (gateway /\ (consumers' = consumers \/ consumers' # {}))
      /\ UNCHANGED <<run, tailnet, base, foreign, clients, access, created, work, unlisted>>
  BY DEF Integration!UserStops
<1>2. /\ IntegrationTyped /\ Integration!ConsumersServed /\ ClientsKnown /\ WorkKnown
      /\ EndsKnown /\ RunInv(run, Integration!Wf)
  BY DEF IntegrationInv
<1>3. RunInv(run, Integration!Wf)'
  <2>1. Integration!Wf' = Integration!Wf
    BY DEF Integration!Wf
  <2> QED BY <1>1, <1>2, <2>1
<1>4. IntegrationTyped' /\ Integration!ConsumersServed'
  <2>1. gateway' \in BOOLEAN /\ model' \in BOOLEAN /\ sharing' \in BOOLEAN
    BY <1>1, <1>2 DEF IntegrationTyped
  <2>2. IntegrationTyped'
    BY <1>1, <1>2, <2>1 DEF IntegrationTyped
  <2>3. consumers' # {} => gateway
    BY <1>1, <1>2 DEF Integration!ConsumersServed
  <2>4. consumers' # {} => gateway'
    BY <1>1, <2>3
  <2> QED BY <2>2, <2>4 DEF Integration!ConsumersServed
<1>5. WorkKnown'
  BY <1>1, <1>2 DEF WorkKnown
<1>6. ClientsKnown'
  BY <1>1, <1>2 DEF ClientsKnown, Integration!Output
<1>7. OpenOrBack' /\ EndsKnown'
  BY <1>1, <1>2 DEF OpenOrBack, EndsKnown
<1> QED BY <1>3, <1>4, <1>5, <1>6, <1>7 DEF IntegrationInv

LEMMA SetupInit == Integration!Init => IntegrationInv
<1> SUFFICES ASSUME Integration!Init PROVE IntegrationInv
  OBVIOUS
<1>1. /\ RunInv(run, Integration!Wf) /\ run.at = 1 /\ run.row = "PENDING"
      /\ run.end = "none" /\ run.pc = "down"
      /\ run.undone = {}
  <2>1. Len(Integration!Wf.steps) = 6
    BY StepsOfSetup
  <2> HIDE DEF Integration!Wf
  <2> QED BY <2>1 DEF Integration!Init, Integration!Queued, RunInv, RunShaped, RunPlaced
<1> HIDE DEF Integration!Wf
<1>2. /\ base.clients = clients /\ base.access = access /\ base.model = model
      /\ base.consumers = consumers /\ base.webui = webui /\ base.sharing = sharing
  BY DEF Integration!Init, Integration!Now
<1>3. IntegrationTyped
  BY <1>2 DEF Integration!Init, IntegrationTyped, Integration!Idle, Integration!SetupClients
<1>4. WorkKnown /\ Integration!ConsumersServed
  BY <1>1 DEF Integration!Init, WorkKnown, Integration!Idle, Integration!ConsumersServed
<1>5. ClientsKnown
  BY <1>1, <1>2 DEF Integration!Init, ClientsKnown, Integration!Output, Integration!Idle
<1>6. OpenOrBack /\ EndsKnown
  BY <1>1, <1>2 DEF OpenOrBack, EndsKnown
<1> QED BY <1>1, <1>3, <1>4, <1>5, <1>6 DEF IntegrationInv

LEMMA SetupSteps ==
    IntegrationInv /\ [Integration!Next]_(Integration!setupVars) => IntegrationInv'
<1> SUFFICES ASSUME IntegrationInv, [Integration!Next]_(Integration!setupVars)
             PROVE IntegrationInv'
  OBVIOUS
<1>1. CASE Integration!Engine \/ Integration!Misfortune \/ Integration!Cancel
  BY <1>1, EngineKeepsSetup, MisfortuneKeepsSetup, CancelKeepsSetup
<1>2. CASE Integration!EnsureClient \/ Integration!EnableAccess \/ Integration!StartModel
        \/ Integration!AcquireStarts \/ Integration!AcquireRecords
  BY <1>2, EnsureKeepsSetup, EnableKeepsSetup, ModelKeepsSetup, StartsKeepsSetup,
     RecordsKeepsSetup
<1>3. CASE Integration!AcquireRefused \/ Integration!NotRequested \/ Integration!VerifyClient
        \/ Integration!StartWebUI \/ Integration!PublishMappings
  BY <1>3, QuietKeepsSetup, UsesKeepsSetup
<1>4. CASE Integration!ReleaseStops \/ Integration!RestoreTailnet \/ Integration!RestoreWebUI
        \/ Integration!RestoreGateway \/ Integration!RestoreModel
  BY <1>4, StopsKeepsSetup, ReleasesKeepSetup, UndoModelKeepsSetup
<1>5. CASE Integration!RemoveClients \/ Integration!VerifyRestored \/ Integration!UserStops
  BY <1>5, UndoClientsKeepsSetup, ProofKeepsSetup, UserKeepsSetup
<1>6. CASE UNCHANGED Integration!setupVars
  BY <1>6 DEF Integration!setupVars, IntegrationInv, IntegrationTyped, WorkKnown, ClientsKnown,
     OpenOrBack, EndsKnown,
         Integration!ConsumersServed, Integration!Output, Integration!Reachable,
         Integration!Ready, Integration!Wf
<1> QED BY <1>1, <1>2, <1>3, <1>4, <1>5, <1>6 DEF Integration!Next

LEMMA IntegrationInvSound == IntegrationInv => Integration!SetupKeepsBaseline
<1> SUFFICES ASSUME IntegrationInv PROVE Integration!SetupKeepsBaseline
  OBVIOUS
<1> HIDE DEF Integration!Wf
<1>1. run.at \in 1..7 /\ (run.end = "SUCCEEDED" => run.way = "forward" /\ run.at = 7)
  BY StepsOfSetup, IntegrationPlace DEF IntegrationInv, RunInv, RunPlaced
<1>2. Integration!SucceededReady
  BY <1>1 DEF IntegrationInv, EndsKnown, Integration!SucceededReady
<1>3. Integration!BaselineBack
  <2>1. SUFFICES ASSUME run.end \in {"FAILED_ROLLED_BACK", "CANCELLED"}, touched = "no"
                 PROVE  Integration!BaselineBack
    BY DEF Integration!BaselineBack
  <2>2. Open(run) = {} /\ run.pc = "down"
    BY <2>1, IntegrationPlace DEF IntegrationInv, EndsKnown
  <2>3. /\ access = base.access /\ model = base.model /\ sharing = base.sharing
        /\ webui = "running" <=> base.webui = "running"
        /\ "client" \in consumers <=> "client" \in base.consumers
    BY <2>1, <2>2 DEF IntegrationInv, OpenOrBack
  <2>4. work.new = {}
    BY <2>2, NewAtFirst
  <2>5. Integration!Output \cap clients = {}
    <3>1. CASE 1 \in run.undone
      BY <3>1 DEF IntegrationInv, ClientsKnown
    <3>2. CASE 1 \notin run.undone
      <4>1. run.at = 1 /\ run.row = "PENDING"
        BY <1>1, <2>2, <3>2 DEF Open
      <4> QED BY <4>1 DEF IntegrationInv, ClientsKnown, Integration!Output
    <3> QED BY <3>1, <3>2
  <2>6. /\ clients \subseteq base.clients \cup unlisted
        /\ (base.access => base.clients \subseteq clients)
    BY <2>4, <2>5 DEF IntegrationInv, ClientsKnown
  <2> QED BY <2>1, <2>3, <2>6 DEF Integration!BaselineBack
<1> QED BY <1>2, <1>3 DEF IntegrationInv, Integration!SetupKeepsBaseline

\* The gateway runs for whom its receipt names, success is complete and a rollback
\* restores the baseline, wherever a step fails, the worker dies or a cancellation arrives.
THEOREM IntegrationIsSafe == Integration!SetupSpec => []Integration!SetupKeepsBaseline
<1>1. Integration!Init => IntegrationInv
  BY SetupInit
<1>2. IntegrationInv /\ [Integration!Next]_(Integration!setupVars) => IntegrationInv'
  BY SetupSteps
<1>3. IntegrationInv => Integration!SetupKeepsBaseline
  BY IntegrationInvSound
<1> QED BY <1>1, <1>2, <1>3, PTL DEF Integration!SetupSpec

-----------------------------------------------------------------------------
(* The machine a profile is calibrated on                                  *)
\* The measurements that have begun.
BegunTrials(r) == {i \in {3, 4, 5} : i < r.at \/ (i = r.at /\ r.row # "PENDING")}

CalibrationTyped ==
    /\ found.config \in {None, "base"} /\ found.service \in {None, found.config}
    /\ plan.size \in Nat /\ DOMAIN receipts = Calibration!Candidates
    /\ DOMAIN out = Calibration!Candidates
    /\ DOMAIN work = {"stage", "rate"}

\* The captured baseline is what the operation found; nothing is torn before a trial.
PriorKnown ==
    /\ prior # None =>
        prior.config = found.config /\ (prior.serving => found.service = found.config)
    /\ run.at > 2 \/ (run.at = 2 /\ run.row = "CHECKPOINTED") => prior # None
    /\ refused => run.end = "FAILED_SAFE"
    /\ BegunTrials(run) = {} => ~ torn

\* A trial is at work, or was cut short and will be tried again.
InTrial ==
    /\ run.way = "forward" /\ run.end = "none" /\ run.at \in 3..5 /\ run.row = "RUNNING"
    /\ Calibration!Index <= plan.size /\ receipts[Calibration!Index] = None
    /\ work.stage # "restored"

InRestoration == run.pc = "undoing" /\ work.stage \in {"back", "rendered"}

Beyond == refused \/ run.end = "RECOVERY_REQUIRED"

\* Where the configuration is back, so are the handoff and the server.
Settled == config = found.config /\ ~ torn =>
    handoff = found.config /\ service \in {None, found.service}

ServedAsFound == InTrial \/ InRestoration \/ Beyond \/ Settled

ConfigAsFound ==
    \/ BegunTrials(run) = {} \/ run.undone # {}
    \/ run.way = "forward" /\ (run.row = "PENDING" \/ run.at > 5)
    \/ run.end # "none" /\ ~ Beyond
    => config = found.config

StageKnown ==
    /\ work.stage \in {"back", "rendered", "restored"} =>
          config = IF found.config = None THEN "mixed" ELSE found.config
    /\ work.stage \in {"rendered", "restored"} => handoff = config
    /\ work.stage = "restored" => work.rate # None
    /\ work.stage # "none" =>
        run.pc = "undoing" \/ (Calibration!Executing("measure") /\ Calibration!Index <= plan.size)
    /\ run.pc = "undoing" => work.stage \in {"none", "back", "rendered"}

\* What is to come was not tried, and what was tried has its result.
TriedOnce ==
    /\ \A i \in Calibration!Candidates :
        run.at < i + 2 \/ (run.at = i + 2 /\ run.row = "PENDING") =>
          receipts[i] = None /\ out[i] = None
    /\ run.at \in 3..5 /\ run.row = "RUNNING" /\ receipts[Calibration!Index] = None =>
        out[Calibration!Index] = None
    /\ run.at \in 3..5 /\ run.pc = "effect" => receipts[Calibration!Index] = None
    /\ run.pc = "landed" => run.at > 2 /\ (run.at \in 3..5 => receipts[Calibration!Index] # None)

EvidenceKnown ==
    evidence # found.evidence /\ ~ edited => run.at > 5 /\ out[1] \in Calibration!Rates
        /\ \A j \in Calibration!Completed : Calibration!Faster(1, j)

CalibrationInv ==
    /\ RunInv(run, Calibration!Wf) /\ CalibrationTyped /\ PriorKnown /\ ServedAsFound
    /\ ConfigAsFound
    /\ StageKnown /\ TriedOnce /\ EvidenceKnown

\* Where a run may go from r: on by a step only if its result holds, and to an end only
\* if nothing had begun, something was undone, all is done, or the first trial left nothing.
CalibrationFollows(r, q, holds, classes, back) ==
    /\ RunInv(q, Calibration!Wf)
    /\ q.way = "forward" => r.way = "forward"
    /\ \/ q.at = r.at /\ (q.row = "PENDING" => r.row = "PENDING")
       \/ q.at = r.at + 1 /\ holds /\ r.row = "CHECKPOINTED" /\ q.row = "PENDING" /\ q.pc = "next"
    /\ q.undone # {} => r.undone # {} \/ (back /\ BegunTrials(r) # {})
    /\ q.end \notin {"none", "RECOVERY_REQUIRED"} =>
          \/ BegunTrials(r) = {} \/ r.undone # {} \/ (r.way = "forward" /\ r.at = 7)
          \/ r.at = 3 /\ classes \cap {"ABSENT", "DISCARDABLE"} # {}

-----------------------------------------------------------------------------

LEMMA StepsOfCalibration ==
    /\ Len(Calibration!Wf.steps) = 6 /\ DOMAIN Calibration!Wf.steps = 1..6
    /\ "finalizer" \notin Calibration!Wf.traits
    /\ \A i \in 1..6 :
          /\ Run!Flagged(Calibration!Wf, i, "undo") <=> i \in 3..5
          /\ ~ Run!Flagged(Calibration!Wf, i, "forward")
          /\ i \in 3..5 => Run!Flagged(Calibration!Wf, i, "visible")
              /\ Run!Flagged(Calibration!Wf, i, "critical")
<1> DEFINE q == Calibration!W!Mutation(Calibration!W!Benchmark \cup Calibration!W!Active,
      Calibration!W!Present \cup Calibration!W!Served, Calibration!W!Served)
           p == Calibration!W!StepDefinition(Calibration!W!Benchmark, {"quiescent"},
               Calibration!W!Absent, {})
           o == Calibration!W!StepDefinition(Calibration!W!Benchmark \cup Calibration!W!Active,
               {"quiescent"}, Calibration!W!Absent, {})
           s == Calibration!W!StepDefinition(Calibration!W!Benchmark,
               {"visible", "critical", "quiescent"}, Calibration!W!Present, {})
<1>1. Calibration!Wf = [steps |-> <<p, o, q, q, q, s>>,
        traits |-> {"preflight", "may_fail_safe"}, barrier |-> {}]
  BY DEF Calibration!Wf, Calibration!W!ProfileCalibrate, Calibration!W!WorkflowDefinition
<1>2. /\ q.flags = {"visible", "critical", "undo"} /\ p.flags = {"quiescent"}
      /\ o.flags = {"quiescent"}
      /\ s.flags = {"visible", "critical", "quiescent"}
  BY DEF Calibration!W!Mutation, Calibration!W!StepDefinition
<1> HIDE DEF q, p, o, s
<1>3. /\ Len(Calibration!Wf.steps) = 6 /\ DOMAIN Calibration!Wf.steps = 1..6
      /\ Calibration!Wf.traits = {"preflight", "may_fail_safe"}
      /\ Calibration!Wf.steps[1] = p /\ Calibration!Wf.steps[2] = o
      /\ Calibration!Wf.steps[3] = q /\ Calibration!Wf.steps[4] = q
      /\ Calibration!Wf.steps[5] = q
      /\ Calibration!Wf.steps[6] = s
  BY <1>1
<1> HIDE DEF Calibration!Wf
<1>4. ASSUME NEW i \in 1..6 PROVE i = 1 \/ i = 2 \/ i = 3 \/ i = 4 \/ i = 5 \/ i = 6
  OBVIOUS
<1> QED BY <1>2, <1>3, <1>4 DEF Run!Flagged

LEMMA CalibrationWorkable == Workable(Calibration!Wf)
<1> HIDE DEF Calibration!Wf
<1> QED BY StepsOfCalibration DEF Workable

LEMMA TrialsToUndo ==
    ASSUME NEW r, RunInv(r, Calibration!Wf)
    PROVE  Run!ToUndo(r, Calibration!Wf) = BegunTrials(r) \ r.undone
<1> HIDE DEF Calibration!Wf
<1>1. \A i : i \in Run!ToUndo(r, Calibration!Wf) <=> i \in BegunTrials(r) \ r.undone
  BY StepsOfCalibration DEF Run!ToUndo, BegunTrials, RunInv, RunShaped
<1> QED BY <1>1

LEMMA CalibrationPlace ==
    ASSUME NEW r, RunInv(r, Calibration!Wf)
    PROVE  /\ r.at \in 1..7 /\ r.row \in {"PENDING", "RUNNING", "CHECKPOINTED"}
           /\ r.end # "none" => r.pc = "down"
           /\ r.pc \in {"effect", "landed", "probe"} =>
               r.at \in 1..6 /\ r.row = "RUNNING" /\ r.way = "forward"
           /\ r.pc \in {"verify", "reverify"} =>
               r.at \in 1..6 /\ r.row = "CHECKPOINTED" /\ r.way = "forward"
           /\ r.way = "forward" => r.undone = {}
           /\ r.at = 7 => r.row = "PENDING"
           /\ r.pc \in {"undoing", "undone"} =>
                 r.way # "forward" /\ r.todo # {} /\ r.at >= 3 /\ BegunTrials(r) # {}
<1> HIDE DEF Calibration!Wf
<1>1. Len(Calibration!Wf.steps) = 6
  BY StepsOfCalibration
<1>2. r.pc \in {"undoing", "undone"} => r.todo # {} /\ r.todo \subseteq BegunTrials(r)
  BY TrialsToUndo DEF RunInv, RunPlaced
<1>3. BegunTrials(r) # {} => r.at >= 3
  BY <1>1 DEF BegunTrials, RunInv, RunShaped
<1> QED BY <1>1, <1>2, <1>3 DEF RunInv, RunShaped, RunPlaced

LEMMA CalibrationMovesFollow ==
    ASSUME NEW r, RunInv(r, Calibration!Wf), NEW q, RunInv(q, Calibration!Wf),
           NEW holds, NEW classes, NEW back, Moves(r, q, Calibration!Wf, holds, classes, back)
    PROVE  CalibrationFollows(r, q, holds, classes, back)
<1> HIDE DEF Calibration!Wf
<1>1. "finalizer" \notin Calibration!Wf.traits /\ Len(Calibration!Wf.steps) = 6
  BY StepsOfCalibration
<1>2. Run!ToUndo(r, Calibration!Wf) = BegunTrials(r) \ r.undone
  BY TrialsToUndo
<1> USE DEF CalibrationFollows, Stays
<1>3. CASE Stops(r, q) \/ GoesOn(r, q) \/ Succeeds(r, q, Calibration!Wf)
        \/ TurnsBack(r, q, Calibration!Wf)
  BY <1>1, <1>3 DEF Stops, GoesOn, Succeeds, TurnsBack
<1>4. CASE Verifies(r, q) /\ holds
  BY <1>4 DEF Verifies
<1>5. CASE \E class \in classes : FailsSafe(r, q, Calibration!Wf, class)
  <2>1. PICK class \in classes : FailsSafe(r, q, Calibration!Wf, class)
    BY <1>5
  <2>2. /\ q.at = r.at /\ q.row = r.row /\ q.way = r.way /\ q.undone = r.undone
        /\ r.way = "forward"
        /\ r.at <= 6 /\ ~ Run!Flagged(Calibration!Wf, r.at, "forward")
    BY <1>1, <2>1, StepsOfCalibration, CalibrationPlace DEF FailsSafe
  <2>3. /\ Run!ToUndo(r, Calibration!Wf) \ {r.at} = {} /\ r.row # "PENDING"
        /\ class \in {"ABSENT", "DISCARDABLE"} \/ ~ Run!Flagged(Calibration!Wf, r.at, "undo")
    BY <1>1, <2>1, <2>2 DEF FailsSafe
  <2>4. r.undone # {} \/ BegunTrials(r) \ {r.at} = {}
    BY <1>2, <2>3
  <2>5. r.at \in 1..6 /\ (Run!Flagged(Calibration!Wf, r.at, "undo") <=> r.at \in 3..5)
    BY <2>2, StepsOfCalibration, CalibrationPlace
  <2>6. CASE r.at \notin 3..5
    BY <2>2, <2>4, <2>5, <2>6 DEF BegunTrials
  <2>7. CASE r.at \in 3..5
    <3>1. class \in {"ABSENT", "DISCARDABLE"}
      BY <2>3, <2>5, <2>7
    <3>2. r.at = 3 \/ 3 \in BegunTrials(r) \ {r.at}
      BY <2>7 DEF BegunTrials
    <3> QED BY <2>1, <2>2, <2>4, <3>1, <3>2
  <2> QED BY <2>6, <2>7
<1>6. CASE CancelsAtOnce(r, q, Calibration!Wf)
  BY <1>1, <1>2, <1>6 DEF CancelsAtOnce
<1>7. CASE GoesBack(r, q)
  BY <1>7 DEF GoesBack
<1>8. CASE HasUndone(r, q, Calibration!Wf)
  BY <1>2, <1>8 DEF HasUndone
<1>9. CASE UndoesOne(r, q) /\ back
  <2>1. r.todo \subseteq Run!ToUndo(r, Calibration!Wf) /\ r.todo # {}
    BY <1>9 DEF UndoesOne, RunInv, RunPlaced
  <2>2. BegunTrials(r) # {}
    BY <1>2, <2>1
  <2> QED BY <1>9, <2>2 DEF UndoesOne
<1> QED BY <1>3, <1>4, <1>5, <1>6, <1>7, <1>8, <1>9 DEF Moves

\* The definitions of StepRun are the same in both modules.
LEMMA SameCalibrationTurns ==
    ASSUME NEW r, NEW wf, NEW holds, NEW classes, NEW restoration
    PROVE  Calibration!Turns(r, wf, holds, classes, restoration) = Run!Turns(r, wf, holds,
        classes, restoration)
  BY DEF Calibration!Turns, Calibration!Claimed, Calibration!Advanced, Calibration!Ended,
     Calibration!Crashed, Calibration!Applied, Calibration!Verified, Calibration!RollingBack,
     Calibration!Decided, Calibration!Failed,
         Calibration!Rejected, Calibration!Latest, Calibration!UndoAdvanced,
         Calibration!Interrupted, Calibration!Undone, Calibration!UndoDecided,
         Calibration!ToUndo, Calibration!Flagged,
         Calibration!DecideRecovery,
         Run!Turns, Run!Claimed, Run!Advanced, Run!Ended, Run!Crashed, Run!Applied, Run!Verified,
         Run!RollingBack, Run!Decided, Run!Failed, Run!Rejected, Run!Latest, Run!UndoAdvanced,
         Run!Interrupted, Run!Undone, Run!UndoDecided, Run!ToUndo, Run!Flagged, Run!DecideRecovery

LEMMA SameCalibrationMishaps ==
    ASSUME NEW r, NEW wf, NEW classes
    PROVE  Calibration!Mishaps(r, wf, classes) = Run!Mishaps(r, wf, classes)
  BY DEF Calibration!Mishaps, Calibration!Ended, Calibration!Crashed, Calibration!RollingBack,
     Calibration!Failed, Calibration!Rejected, Calibration!Latest, Calibration!UndoFailed,
     Calibration!ToUndo, Calibration!Flagged,
         Run!Mishaps, Run!Ended, Run!Crashed, Run!RollingBack, Run!Failed, Run!Rejected,
         Run!Latest,
         Run!UndoFailed, Run!ToUndo, Run!Flagged

LEMMA SameCalibrationMoments ==
    ASSUME NEW r, NEW wf, NEW class, NEW ending
    PROVE  /\ Calibration!Cancellable(r, wf) = Run!Cancellable(r, wf)
           /\ Calibration!Cancelled(r, wf) = Run!Cancelled(r, wf)
           /\ Calibration!Failed(r, wf, class) = Run!Failed(r, wf, class)
           /\ Calibration!Applied(r) = Run!Applied(r) /\ Calibration!Landed(r) = Run!Landed(r)
           /\ Calibration!Undone(r) = Run!Undone(r)
           /\ Calibration!UndoFailed(r) = Run!UndoFailed(r)
           /\ Calibration!Crashed(r) = Run!Crashed(r)
           /\ Calibration!Ended(r, ending) = Run!Ended(r, ending)
  BY DEF Calibration!Cancellable, Calibration!Cancelled, Calibration!Ended, Calibration!Failed,
     Calibration!RollingBack, Calibration!Applied, Calibration!Landed, Calibration!Undone,
     Calibration!UndoFailed,
         Calibration!Latest, Calibration!ToUndo, Calibration!Flagged,
         Run!Cancellable, Run!Cancelled, Run!Ended, Run!Failed, Run!RollingBack, Run!Applied,
         Run!Landed, Run!Undone, Run!UndoFailed, Run!Latest, Run!ToUndo, Run!Flagged,
         Calibration!Crashed,
         Run!Crashed

-----------------------------------------------------------------------------

LEMMA BegunBy ==
    ASSUME NEW r, NEW q, r.at \in 1..7, r.row \in {"PENDING", "RUNNING", "CHECKPOINTED"},
           \/ q.at = r.at /\ (q.row = "PENDING" => r.row = "PENDING")
           \/ q.at = r.at + 1
    PROVE  BegunTrials(q) = {} => BegunTrials(r) = {}
  BY DEF BegunTrials

\* The probe of a measurement tells whether the configuration is back.
LEMMA TrialProbed ==
    ASSUME CalibrationInv, run.at \in 3..5
    PROVE  /\ Calibration!Probe = {Calibration!CandidateProbe}
           /\ Calibration!CandidateProbe \in {"ABSENT", "COMPLETE", "REVERTIBLE"}
           /\ Calibration!CandidateProbe = "COMPLETE" <=>
               Calibration!Index > plan.size \/ receipts[Calibration!Index] # None
           /\ Calibration!CandidateProbe = "ABSENT" => config = found.config
           /\ Calibration!CandidateProbe = "REVERTIBLE" => config # found.config
           /\ Calibration!Holds <=> config = found.config
<1>1. run.at = 3 \/ run.at = 4 \/ run.at = 5
  OBVIOUS
<1>2. Calibration!Names[run.at] = "measure"
  BY <1>1 DEF Calibration!Names
<1>3. prior.config = found.config
  BY <1>1 DEF CalibrationInv, PriorKnown
<1> QED BY <1>2, <1>3 DEF Calibration!Probe, Calibration!CandidateProbe, Calibration!Holds

LEMMA TrialAnswers ==
    ASSUME CalibrationInv, run.at <= 6
    PROVE  Calibration!Probe \subseteq Answers /\ (run.at < 3 => Calibration!Probe = {"ABSENT"})
<1>1. run.at = 1 \/ run.at = 2 \/ run.at \in 3..5 \/ run.at = 6
  BY CalibrationPlace DEF CalibrationInv
<1>2. CASE run.at \in 3..5
  BY <1>2, TrialProbed DEF Answers
<1>3. CASE run.at \in {1, 2}
  BY <1>3 DEF Calibration!Probe, Calibration!Names, Answers
<1>4. CASE run.at = 6
  BY <1>4 DEF Calibration!Probe, Calibration!Names, Calibration!RecordProbe, Answers
<1> QED BY <1>1, <1>2, <1>3, <1>4

\* The run goes on, and nothing changes on the machine.
LEMMA RunFollowed ==
    ASSUME CalibrationInv, run.end = "none", NEW holds, NEW classes, NEW back,
           CalibrationFollows(run, run', holds, classes, back),
           holds /\ run.at \in 3..5 => config = found.config,
           back /\ BegunTrials(run) # {} => config = found.config,
           run.at = 3 /\ classes \cap {"ABSENT", "DISCARDABLE"} # {} => config = found.config,
           config' = config, found' = found, plan' = plan, refused' => refused,
           prior # None => prior' # None,
           prior' # None =>
               prior'.config = found.config /\ (prior'.serving => found.service = found.config),
           run.at = 2 /\ run'.row = "CHECKPOINTED" => prior' # None,
           torn' => torn \/ BegunTrials(run) # {},
           DOMAIN receipts' = Calibration!Candidates, DOMAIN out' = Calibration!Candidates,
           DOMAIN work' = {"stage", "rate"}, work'.stage = "none",
           \/ edited' = edited /\ evidence' = evidence /\ (out' = out \/ run.at <= 5)
           \/ EvidenceKnown'
    PROVE  /\ RunInv(run, Calibration!Wf)' /\ CalibrationTyped' /\ PriorKnown' /\ ConfigAsFound'
           /\ StageKnown' /\ EvidenceKnown'
<1> HIDE DEF Calibration!Wf
<1>1. /\ RunInv(run, Calibration!Wf) /\ CalibrationTyped /\ PriorKnown /\ ConfigAsFound
      /\ EvidenceKnown
  BY DEF CalibrationInv
<1>2. /\ run.at \in 1..7 /\ run.row \in {"PENDING", "RUNNING", "CHECKPOINTED"}
      /\ run.way = "forward" => run.undone = {}
  BY <1>1, CalibrationPlace
<1>3. /\ run'.at = run.at \/ run'.at = run.at + 1
      /\ BegunTrials(run') = {} => BegunTrials(run) = {}
  BY <1>2, BegunBy DEF CalibrationFollows
<1>4. RunInv(run, Calibration!Wf)'
  <2>1. RunInv(run', Calibration!Wf) /\ Calibration!Wf' = Calibration!Wf
    BY DEF CalibrationFollows, Calibration!Wf
  <2> QED BY <2>1
<1>5. CalibrationTyped'
  BY <1>1 DEF CalibrationTyped
<1>6. ~ refused /\ ~ Beyond
  BY <1>1 DEF PriorKnown, Beyond
<1>7. PriorKnown'
  <2>1. ASSUME run'.at > 2 \/ (run'.at = 2 /\ run'.row = "CHECKPOINTED") PROVE prior' # None
    BY <1>1, <1>2, <2>1 DEF CalibrationFollows, PriorKnown
  <2> QED BY <1>1, <1>3, <1>6, <2>1 DEF PriorKnown
<1>8. ConfigAsFound'
  <2>1. BegunTrials(run') = {} => config = found.config
    BY <1>1, <1>3 DEF ConfigAsFound
  <2>2. run'.undone # {} => config = found.config
    BY <1>1 DEF ConfigAsFound, CalibrationFollows
  <2>3. BegunTrials(run) = {} => config = found.config
    BY <1>1 DEF ConfigAsFound
  <2>4. ASSUME run'.way = "forward", run'.row = "PENDING" \/ run'.at > 5
        PROVE  config = found.config
    <3>1. run.way = "forward"
      BY <2>4 DEF CalibrationFollows
    <3>2. CASE run'.at = run.at /\ (run'.row = "PENDING" => run.row = "PENDING")
      BY <1>1, <2>4, <3>1, <3>2 DEF ConfigAsFound
    <3>3. CASE run'.at = run.at + 1 /\ holds
      <4>1. run.at < 3 => BegunTrials(run) = {}
        BY <1>2 DEF BegunTrials
      <4> QED BY <1>1, <1>2, <2>3, <3>1, <3>3, <4>1 DEF ConfigAsFound
    <3> QED BY <3>2, <3>3 DEF CalibrationFollows
  <2>5. ASSUME run'.end \notin {"none", "RECOVERY_REQUIRED"} PROVE config = found.config
    <3>1. \/ BegunTrials(run) = {} \/ run.undone # {} \/ (run.way = "forward" /\ run.at = 7)
          \/ run.at = 3 /\ classes \cap {"ABSENT", "DISCARDABLE"} # {}
      BY <2>5 DEF CalibrationFollows
    <3> QED BY <1>1, <3>1 DEF ConfigAsFound
  <2> QED BY <2>1, <2>2, <2>4, <2>5 DEF ConfigAsFound, Beyond
<1>9. StageKnown'
  BY DEF StageKnown
<1>10. EvidenceKnown'
  <2> SUFFICES ASSUME edited' = edited, evidence' = evidence, out' = out \/ run.at <= 5
               PROVE  EvidenceKnown'
    OBVIOUS
  <2>1. CASE run.at <= 5
    BY <1>1, <1>2, <2>1 DEF EvidenceKnown
  <2>2. CASE run.at > 5
    <3>1. out' = out /\ run'.at > 5
      BY <1>2, <1>3, <2>2
    <3> QED BY <1>1, <2>2, <3>1 DEF EvidenceKnown, Calibration!Completed, Calibration!Faster
  <2> QED BY <1>2, <2>1, <2>2
<1> QED BY <1>4, <1>5, <1>7, <1>8, <1>9, <1>10

\* What the server is doing does not change either, unless the run leaves a trial.
LEMMA ServedFollowed ==
    ASSUME CalibrationInv, run.end = "none",
           UNCHANGED <<config, handoff, service, found>>,
           torn => torn', InRestoration /\ config = found.config => torn',
           InTrial => InTrial' \/ Beyond' \/ config # found.config
    PROVE  ServedAsFound'
<1>1. ServedAsFound /\ ~ Beyond
  BY DEF CalibrationInv, PriorKnown, Beyond
<1>2. CASE InTrial
  BY <1>2 DEF ServedAsFound, Settled
<1>3. CASE InRestoration
  BY <1>3 DEF ServedAsFound, Settled
<1>4. CASE Settled
  BY <1>4 DEF ServedAsFound, Settled
<1> QED BY <1>1, <1>2, <1>3, <1>4 DEF ServedAsFound

\* A run that stays in its step, or begins the next one, has not tried it.
LEMMA TriedFollowed ==
    ASSUME CalibrationInv, DOMAIN receipts' = Calibration!Candidates,
        DOMAIN out' = Calibration!Candidates,
           run'.at \in 1..7,
           \/ run'.at = run.at /\ (run'.row = "PENDING" => run.row = "PENDING")
           \/ run'.at = run.at + 1 /\ run'.row = "PENDING" /\ run'.pc = "next",
           \A i \in Calibration!Candidates : i + 2 # run.at \/ run'.row = "RUNNING" =>
               receipts'[i] = receipts[i] /\ out'[i] = out[i],
           run.at \in 3..5 /\ run'.at = run.at /\ run'.row = "PENDING" =>
               receipts' = receipts /\ out' = out,
           run'.row = "RUNNING" => run.row # "CHECKPOINTED",
           run'.at \in 3..5 /\ run'.pc = "effect" =>
               run'.row = "RUNNING" /\ (run.row = "PENDING" \/ receipts[run.at - 2] = None),
           run'.pc # "landed"
    PROVE  TriedOnce'
<1>1. TriedOnce /\ run.at \in 1..7 /\ run.row \in {"PENDING", "RUNNING", "CHECKPOINTED"}
  BY CalibrationPlace DEF CalibrationInv
<1>2. ASSUME NEW i \in Calibration!Candidates, run'.at < i + 2
        \/ (run'.at = i + 2 /\ run'.row = "PENDING")
      PROVE  receipts'[i] = None /\ out'[i] = None
  <2>1. run.at < i + 2 \/ (run.at = i + 2 /\ run.row = "PENDING")
    BY <1>1, <1>2 DEF Calibration!Candidates
  <2>2. receipts[i] = None /\ out[i] = None
    BY <1>1, <2>1 DEF TriedOnce
  <2>3. receipts'[i] = receipts[i] /\ out'[i] = out[i]
    BY <1>1, <1>2, <2>1 DEF Calibration!Candidates
  <2> QED BY <2>2, <2>3
<1>3. ASSUME run'.at \in 3..5, run'.row = "RUNNING"
      PROVE  /\ run'.at = run.at /\ Calibration!Index \in Calibration!Candidates
             /\ Calibration!Index' = Calibration!Index
             /\ receipts'[Calibration!Index] = receipts[Calibration!Index]
             /\ out'[Calibration!Index] = out[Calibration!Index]
             /\ receipts[Calibration!Index] = None => out[Calibration!Index] = None
             /\ run.row = "PENDING" => receipts[Calibration!Index] = None
  <2>1. /\ run'.at = run.at /\ Calibration!Index \in Calibration!Candidates
        /\ Calibration!Index' = Calibration!Index /\ run.at = Calibration!Index + 2
    BY <1>1, <1>3 DEF Calibration!Index, Calibration!Candidates
  <2>2. /\ receipts'[Calibration!Index] = receipts[Calibration!Index]
        /\ out'[Calibration!Index] = out[Calibration!Index]
    BY <1>3, <2>1
  <2>3. run.row = "PENDING" => receipts[Calibration!Index] = None /\ out[Calibration!Index] = None
    BY <1>1, <2>1 DEF TriedOnce
  <2> QED BY <1>1, <1>3, <2>1, <2>2, <2>3 DEF TriedOnce
<1>4. run'.at \in 3..5 /\ run'.pc = "effect" => (receipts[Calibration!Index])' = None
  BY <1>3 DEF Calibration!Index
<1> QED BY <1>2, <1>3, <1>4 DEF TriedOnce

-----------------------------------------------------------------------------
(* The engine                                                              *)

LEMMA EngineKeepsTrials ==
    ASSUME CalibrationInv, Calibration!Engine
    PROVE  CalibrationInv'
<1> HIDE DEF Calibration!Wf
<1> DEFINE back == Calibration!RestorationProbe = "COMPLETE"
<1>1. /\ RunInv(run, Calibration!Wf) /\ run.pc # "down"
      /\ run' \in Calibration!Turns(run, Calibration!Wf, Calibration!Holds, Calibration!Probe,
          Calibration!RestorationProbe)
  BY DEF CalibrationInv, Calibration!Engine
<1>2. run' \in Run!Turns(run, Calibration!Wf, Calibration!Holds, Calibration!Probe,
        Calibration!RestorationProbe)
  BY <1>1, SameCalibrationTurns
<1>3. run.at <= Len(Calibration!Wf.steps) => Calibration!Probe \subseteq Answers
  BY StepsOfCalibration, TrialAnswers
<1>4. /\ RunInv(run', Calibration!Wf)
      /\ Moves(run, run', Calibration!Wf, Calibration!Holds, Calibration!Probe, back)
      /\ run.end = "none"
  BY <1>1, <1>2, <1>3, CalibrationWorkable, RunTurns
<1>5. Lands(run, run', Calibration!Probe)
  BY <1>1, <1>2, <1>3, TurnsLand
<1>6. Begins(run, run', Calibration!Probe)
  BY <1>1, <1>2, <1>3, TurnsBegin
<1>7. CalibrationFollows(run, run', Calibration!Holds, Calibration!Probe, back)
  BY <1>1, <1>4, CalibrationMovesFollow
<1>8. run.pc # "undoing"
  <2>1. run.pc = "undoing" => Run!Turns(run, Calibration!Wf, Calibration!Holds,
          Calibration!Probe, Calibration!RestorationProbe) = {}
    BY <1>4 DEF Run!Turns
  <2> QED BY <1>2, <2>1
<1>9. /\ UNCHANGED <<config, handoff, service, latched, edited, evidence, plan, known, found>>
      /\ UNCHANGED <<prior, refused, torn>> /\ work' = Calibration!Idle
  BY DEF Calibration!Engine, Calibration!Machine, Calibration!Profile, Calibration!Constant
<1>10. /\ run.at \in 1..7 /\ run.row \in {"PENDING", "RUNNING", "CHECKPOINTED"}
       /\ run'.at \in 1..7 /\ run'.row \in {"PENDING", "RUNNING", "CHECKPOINTED"}
       /\ run'.pc = "effect" => run'.row = "RUNNING"
       /\ run.pc \in {"verify", "reverify"} => run.row = "CHECKPOINTED"
       /\ run.pc = "probe" => run.row = "RUNNING"
  BY <1>1, <1>4, CalibrationPlace
<1>11. PriorKnown /\ TriedOnce /\ CalibrationTyped
  BY DEF CalibrationInv
<1>12. /\ out' = out \/ (run'.row = "CHECKPOINTED" /\ run.at \in 3..5)
       /\ receipts' = receipts
           \/ (run.pc \in {"verify", "reverify"} /\ run'.at > run.at /\ run.at \in 3..5)
       /\ DOMAIN receipts' = Calibration!Candidates /\ DOMAIN out' = Calibration!Candidates
       /\ \A i \in Calibration!Candidates : i # Calibration!Index =>
           receipts'[i] = receipts[i] /\ out'[i] = out[i]
  <2>1. /\ DOMAIN receipts = Calibration!Candidates /\ DOMAIN out = Calibration!Candidates
    BY <1>11 DEF CalibrationTyped
  <2>2. \E o : out' = out \/ (out' = [out EXCEPT ![Calibration!Index] = o]
          /\ run'.row = "CHECKPOINTED" /\ run.at \in 3..5)
    BY DEF Calibration!Engine
  <2>3. \/ receipts' = receipts
        \/ /\ receipts' = [receipts EXCEPT ![Calibration!Index] = None]
           /\ run.pc \in {"verify", "reverify"} /\ run'.at > run.at /\ run.at \in 3..5
    BY DEF Calibration!Engine
  <2> QED BY <2>1, <2>2, <2>3
<1>13. /\ Calibration!Holds /\ run.at \in 3..5 => config = found.config
       /\ back /\ BegunTrials(run) # {} => config = found.config
       /\ run.at = 3 /\ Calibration!Probe \cap {"ABSENT", "DISCARDABLE"} # {} =>
           config = found.config
  <2>1. BegunTrials(run) # {} => prior.config = found.config
    BY <1>10, <1>11 DEF BegunTrials, PriorKnown
  <2> QED BY <2>1, TrialProbed DEF Calibration!RestorationProbe
<1>14. run.at = 2 /\ run'.row = "CHECKPOINTED" => prior # None
  <2>1. run.at = 2 => "COMPLETE" \notin Calibration!Probe
    BY TrialAnswers
  <2> QED BY <1>5, <1>11, <2>1 DEF Lands, TriedOnce, PriorKnown
<1> HIDE DEF back
<1>15. /\ RunInv(run, Calibration!Wf)' /\ CalibrationTyped' /\ PriorKnown' /\ ConfigAsFound'
       /\ StageKnown' /\ EvidenceKnown'
  <2>1. work'.stage = "none" /\ DOMAIN work' = {"stage", "rate"}
    BY <1>9 DEF Calibration!Idle
  <2>2. out' = out \/ run.at <= 5
    BY <1>10, <1>12
  <2>3. /\ prior # None => prior' # None
        /\ prior' # None =>
            prior'.config = found.config /\ (prior'.serving => found.service = found.config)
    BY <1>9, <1>11 DEF PriorKnown
  <2> QED BY <1>4, <1>7, <1>9, <1>12, <1>13, <1>14, <2>1, <2>2, <2>3, RunFollowed
<1>16. ServedAsFound'
  <2>1. ASSUME InTrial PROVE InTrial' \/ Beyond' \/ config # found.config
    <3>1. /\ run.way = "forward" /\ run.row = "RUNNING" /\ run.at \in 3..5
          /\ receipts[Calibration!Index] = None
          /\ Calibration!Index <= plan.size
      BY <2>1 DEF InTrial
    <3>2. run.pc # "landed"
      BY <1>11, <3>1 DEF TriedOnce
    <3>3. CASE /\ run'.row = "RUNNING" /\ run'.way = "forward" /\ run'.at = run.at
               /\ run'.end \in {"none", "RECOVERY_REQUIRED"}
      <4>1. receipts' = receipts /\ Calibration!Index' = Calibration!Index
        BY <1>10, <1>12, <3>1, <3>3 DEF Calibration!Index
      <4>2. work'.stage = "none" /\ plan' = plan
        BY <1>9 DEF Calibration!Idle
      <4> QED BY <3>1, <3>3, <4>1, <4>2 DEF InTrial, Beyond
    <3>4. CASE Calibration!Probe \cap {"COMPLETE", "REVERTIBLE"} # {}
      BY <3>1, <3>4, TrialProbed, <1>10, <1>11 DEF Calibration!Index, CalibrationTyped
    <3> QED BY <1>6, <3>1, <3>2, <3>3, <3>4 DEF Begins
  <2>2. ~ InRestoration
    BY <1>8 DEF InRestoration
  <2> QED BY <1>4, <1>9, <2>1, <2>2, ServedFollowed
<1>17. TriedOnce'
  <2>1. \/ run'.at = run.at /\ (run'.row = "PENDING" => run.row = "PENDING")
        \/ run'.at = run.at + 1 /\ run'.row = "PENDING" /\ run'.pc = "next"
    BY <1>7 DEF CalibrationFollows
  <2>2. \A i \in Calibration!Candidates : i + 2 # run.at \/ run'.row = "RUNNING" =>
               receipts'[i] = receipts[i] /\ out'[i] = out[i]
    <3>1. run'.row = "RUNNING" => receipts' = receipts /\ out' = out
      BY <1>10, <1>12, <2>1
    <3>2. \A i \in Calibration!Candidates : i + 2 # run.at => i # Calibration!Index
      BY <1>10 DEF Calibration!Candidates, Calibration!Index
    <3> QED BY <1>12, <3>1, <3>2
  <2>3. run.at \in 3..5 /\ run'.at = run.at /\ run'.row = "PENDING" =>
          receipts' = receipts /\ out' = out
    BY <1>10, <1>12
  <2>4. run'.row = "RUNNING" => run.row # "CHECKPOINTED"
    BY <1>6 DEF Begins
  <2>5. ASSUME run'.at \in 3..5, run'.pc = "effect"
        PROVE  run'.row = "RUNNING" /\ (run.row = "PENDING" \/ receipts[run.at - 2] = None)
    <3>1. run'.row = "RUNNING" /\ run'.at = run.at
      BY <1>10, <2>1, <2>5
    <3>2. run.row = "PENDING"
            \/ Calibration!Probe \cap {"ABSENT", "PARTIALLY_RESUMABLE", "DISCARDABLE"} # {}
      BY <1>6, <2>5 DEF Begins
    <3> QED BY <2>5, <3>1, <3>2, TrialProbed DEF Calibration!Index
  <2>6. run'.pc # "landed"
    BY <1>5 DEF Lands
  <2> QED BY <1>10, <1>12, <2>1, <2>2, <2>3, <2>4, <2>5, <2>6, TriedFollowed
<1> QED BY <1>15, <1>16, <1>17 DEF CalibrationInv

-----------------------------------------------------------------------------
(* The run without its adapter                                             *)

LEMMA QuietRun ==
    ASSUME CalibrationInv, run.end = "none", NEW classes,
           run.pc = "undoing" => (torn' <=> torn \/ config = prior.config),
           CalibrationFollows(run, run', FALSE, classes, FALSE),
           run.at = 3 /\ classes \cap {"ABSENT", "DISCARDABLE"} # {} => config = found.config,
           UNCHANGED <<config, handoff, service, found, plan, receipts, edited, evidence>>,
           refused' => refused, prior # None => prior' # None,
           prior' # None =>
               prior'.config = found.config /\ (prior'.serving => found.service = found.config),
           run.at = 2 /\ run'.row = "CHECKPOINTED" => prior' # None,
           run.pc # "undoing" => (torn' <=> torn),
           DOMAIN work' = {"stage", "rate"}, work'.stage = "none",
           \/ out' = out
           \/ run.at \in 3..5 /\ run'.row = "CHECKPOINTED" /\ \E o :
               out' = [out EXCEPT ![Calibration!Index] = o],
           run'.row = "RUNNING" => run.row = "RUNNING", run'.pc \notin {"effect", "landed"},
           InTrial => InTrial' \/ Beyond' \/ config # found.config
    PROVE  CalibrationInv'
<1> HIDE DEF Calibration!Wf
<1>1. /\ CalibrationTyped /\ PriorKnown /\ run.at \in 1..7
      /\ run.pc = "undoing" => BegunTrials(run) # {} /\ prior.config = found.config
  BY CalibrationPlace DEF CalibrationInv, PriorKnown
<1>2. /\ DOMAIN receipts' = Calibration!Candidates /\ DOMAIN out' = Calibration!Candidates
      /\ out' = out \/ (run.at \in 3..5 /\ run'.row = "CHECKPOINTED")
      /\ \A i \in Calibration!Candidates : i # Calibration!Index => out'[i] = out[i]
  BY <1>1 DEF CalibrationTyped
<1>3. torn => torn'
  BY <1>1
<1>4. /\ RunInv(run, Calibration!Wf)' /\ CalibrationTyped' /\ PriorKnown' /\ ConfigAsFound'
      /\ StageKnown' /\ EvidenceKnown'
  <2>1. torn' => torn \/ BegunTrials(run) # {}
    BY <1>1
  <2>2. out' = out \/ run.at <= 5
    BY <1>1, <1>2
  <2> QED BY <1>2, <2>1, <2>2, RunFollowed
<1>5. ServedAsFound'
  <2>1. InRestoration /\ config = found.config => torn'
    BY <1>1 DEF InRestoration
  <2> QED BY <1>3, <2>1, ServedFollowed
<1>6. TriedOnce'
  <2>1. \/ run'.at = run.at /\ (run'.row = "PENDING" => run.row = "PENDING")
        \/ run'.at = run.at + 1 /\ run'.row = "PENDING" /\ run'.pc = "next"
    BY DEF CalibrationFollows
  <2>2. \A i \in Calibration!Candidates : i + 2 # run.at \/ run'.row = "RUNNING" =>
               receipts'[i] = receipts[i] /\ out'[i] = out[i]
    <3>1. \A i \in Calibration!Candidates : i + 2 # run.at => i # Calibration!Index
      BY <1>1 DEF Calibration!Candidates, Calibration!Index
    <3> QED BY <1>2, <3>1
  <2>3. run.at \in 3..5 /\ run'.at = run.at /\ run'.row = "PENDING" =>
          receipts' = receipts /\ out' = out
    BY <1>2
  <2>4. run'.at \in 1..7
    BY CalibrationPlace DEF CalibrationFollows
  <2> QED BY <1>2, <2>1, <2>2, <2>3, <2>4, TriedFollowed
<1> QED BY <1>4, <1>5, <1>6 DEF CalibrationInv

LEMMA ClaimKeepsTrials ==
    ASSUME CalibrationInv, Calibration!Claim
    PROVE  CalibrationInv'
<1> HIDE DEF Calibration!Wf
<1>1. /\ run.pc = "down" /\ run.end = "none" /\ RunInv(run, Calibration!Wf)
      /\ PriorKnown /\ ~ refused
      /\ DOMAIN run = {"at", "row", "way", "begun", "undone", "pc", "todo", "bad", "end"}
  BY DEF CalibrationInv, Calibration!Claim, PriorKnown, RunInv, RunShaped
<1>2. /\ UNCHANGED <<config, handoff, service, latched, edited, evidence, plan, known, found>>
      /\ UNCHANGED <<prior, receipts, out, torn>> /\ work' = Calibration!Idle
      /\ work'.stage = "none" /\ DOMAIN work' = {"stage", "rate"}
  BY DEF Calibration!Claim, Calibration!Machine, Calibration!Profile, Calibration!Constant,
     Calibration!Idle
<1>3. /\ run.at \in 1..7 /\ (run.at <= 2 => BegunTrials(run) = {})
      /\ run.at = 2 /\ run.row = "CHECKPOINTED" => prior # None
      /\ prior # None =>
          prior.config = found.config /\ (prior.serving => found.service = found.config)
  BY <1>1, CalibrationPlace DEF BegunTrials, PriorKnown
<1>4. CASE Calibration!Admitted
  <2>1. run' = Run!Claimed(run, Calibration!Wf) /\ refused' = FALSE
    BY <1>4 DEF Calibration!Claim, Calibration!Claimed, Calibration!ToUndo, Calibration!Flagged,
       Run!Claimed, Run!ToUndo, Run!Flagged
  <2>2. RunInv(run', Calibration!Wf) /\ (GoesOn(run, run') \/ GoesBack(run, run'))
    BY <1>1, <2>1, CalibrationWorkable, RunClaimed
  <2>3. Moves(run, run', Calibration!Wf, FALSE, {}, FALSE)
    BY <2>2 DEF Moves
  <2>4. CalibrationFollows(run, run', FALSE, {}, FALSE)
    BY <1>1, <2>2, <2>3, CalibrationMovesFollow
  <2>5. /\ run'.at = run.at /\ run'.row = run.row /\ run'.way = run.way /\ run'.end = run.end
        /\ run'.pc \in {"next", "undo"}
    BY <1>1, <2>1 DEF Run!Claimed
  <2>6. InTrial => InTrial'
    BY <1>2, <2>5 DEF InTrial, Calibration!Index
  <2>7. run.pc # "undoing" /\ (refused' => refused)
    BY <1>1, <2>1
  <2> QED BY <1>1, <1>2, <1>3, <2>4, <2>5, <2>6, <2>7, QuietRun
<1>5. CASE ~ Calibration!Admitted
  <2>1. run.way = "forward" /\ run' = Run!Ended(run, "FAILED_SAFE") /\ refused' = (prior # None)
    BY <1>5 DEF Calibration!Claim, Calibration!Ended, Run!Ended
  <2>2. /\ RunInv(run', Calibration!Wf) /\ Stays(run, run') /\ run'.pc = "down"
        /\ run'.end = "FAILED_SAFE"
    BY <1>1, <2>1, RunEnds
  <2>3. run'.at = run.at /\ run'.row = run.row /\ run'.way = run.way /\ run'.undone = run.undone
    BY <2>2 DEF Stays
  <2>4. CASE prior = None
    <3>1. run.at \in 1..2 /\ BegunTrials(run) = {} /\ (refused' => refused)
      <4>1. ~ (run.at > 2)
        BY <1>1, <2>4 DEF PriorKnown
      <4>2. run.at \in 1..2
        BY <1>3, <4>1
      <4>3. ~ refused'
        BY <2>1, <2>4
      <4> QED BY <1>3, <4>2, <4>3
    <3>2. run.undone = {}
      BY <1>1, <2>1, CalibrationPlace
    <3>3. CalibrationFollows(run, run', FALSE, {}, FALSE)
      BY <2>2, <2>3, <3>1, <3>2 DEF CalibrationFollows
    <3>4. ~ InTrial
      BY <3>1 DEF InTrial
    <3>5. run.pc # "undoing" /\ run'.pc \notin {"effect", "landed"}
      BY <1>1, <2>2
    <3> QED BY <1>1, <1>2, <1>3, <2>3, <3>1, <3>3, <3>4, <3>5, QuietRun
  <2>5. CASE prior # None
    <3>1. /\ refused' /\ Beyond' /\ BegunTrials(run') = BegunTrials(run)
          /\ Calibration!Index' = Calibration!Index
      BY <2>1, <2>3, <2>5 DEF Beyond, BegunTrials, Calibration!Index
    <3>2. RunInv(run, Calibration!Wf)' /\ CalibrationTyped'
      <4>1. Calibration!Wf' = Calibration!Wf
        BY DEF Calibration!Wf
      <4> QED BY <1>2, <2>2, <4>1 DEF CalibrationInv, CalibrationTyped
    <3>3. PriorKnown' /\ ConfigAsFound' /\ ServedAsFound'
      BY <1>1, <1>2, <2>2, <2>3, <2>5, <3>1 DEF CalibrationInv, PriorKnown, ConfigAsFound,
         ServedAsFound
    <3>4. StageKnown' /\ EvidenceKnown'
      BY <1>2, <2>2, <2>3 DEF CalibrationInv, StageKnown, EvidenceKnown, Calibration!Completed,
         Calibration!Faster
    <3>5. TriedOnce'
      BY <1>2, <2>2, <2>3, <3>1 DEF CalibrationInv, TriedOnce
    <3> QED BY <3>2, <3>3, <3>4, <3>5 DEF CalibrationInv
  <2> QED BY <2>4, <2>5
<1> QED BY <1>4, <1>5

LEMMA CrashKeepsTrials ==
    ASSUME CalibrationInv, Calibration!Crash
    PROVE  CalibrationInv'
<1> HIDE DEF Calibration!Wf
<1>1. /\ run.pc # "down" /\ run.end = "none" /\ RunInv(run, Calibration!Wf)
      /\ PriorKnown /\ ~ refused
      /\ DOMAIN run = {"at", "row", "way", "begun", "undone", "pc", "todo", "bad", "end"}
  BY DEF CalibrationInv, Calibration!Crash, PriorKnown, RunInv, RunShaped
<1>2. /\ UNCHANGED <<config, handoff, service, latched, edited, evidence, plan, known, found>>
      /\ UNCHANGED <<prior, receipts, out, refused>> /\ work' = Calibration!Idle
      /\ work'.stage = "none" /\ DOMAIN work' = {"stage", "rate"}
      /\ torn' = (torn \/ (run.pc = "undoing" /\ config = prior.config))
  BY DEF Calibration!Crash, Calibration!Machine, Calibration!Profile, Calibration!Constant,
     Calibration!Idle
<1>3. /\ run.at = 2 /\ run.row = "CHECKPOINTED" => prior # None
      /\ prior # None =>
          prior.config = found.config /\ (prior.serving => found.service = found.config)
  BY <1>1 DEF PriorKnown
<1>4. run' = Run!Crashed(run)
  BY DEF Calibration!Crash, Calibration!Crashed, Run!Crashed
<1>5. RunInv(run', Calibration!Wf) /\ Stops(run, run')
  BY <1>1, <1>4, RunCrashes
<1>6. Moves(run, run', Calibration!Wf, FALSE, {}, FALSE)
  BY <1>5 DEF Moves
<1>7. CalibrationFollows(run, run', FALSE, {}, FALSE)
  BY <1>1, <1>5, <1>6, CalibrationMovesFollow
<1>8. /\ run'.at = run.at /\ run'.row = run.row /\ run'.way = run.way /\ run'.end = run.end
      /\ run'.pc = "down"
  BY <1>1, <1>4 DEF Run!Crashed
<1>9. InTrial => InTrial'
  BY <1>2, <1>8 DEF InTrial, Calibration!Index
<1>10. /\ run.pc = "undoing" => (torn' <=> torn \/ config = prior.config)
       /\ run.pc # "undoing" => (torn' <=> torn)
  BY <1>2
<1> QED BY <1>1, <1>2, <1>3, <1>7, <1>8, <1>9, <1>10, QuietRun

LEMMA MisfortuneKeepsTrials ==
    ASSUME CalibrationInv, Calibration!Misfortune
    PROVE  CalibrationInv'
<1> HIDE DEF Calibration!Wf
<1>1. /\ RunInv(run, Calibration!Wf) /\ PriorKnown /\ run.pc # "undoing"
      /\ ~ Calibration!Executing("measure")
      /\ run' \in Calibration!Mishaps(run, Calibration!Wf, Calibration!Probe)
      /\ run' # Calibration!Crashed(run)
      /\ DOMAIN run = {"at", "row", "way", "begun", "undone", "pc", "todo", "bad", "end"}
  BY DEF CalibrationInv, Calibration!Misfortune, RunInv, RunShaped
<1>2. /\ UNCHANGED <<config, handoff, service, latched, edited, evidence, plan, known, found>>
      /\ UNCHANGED <<prior, receipts, out, refused, torn>> /\ work' = Calibration!Idle
      /\ work'.stage = "none" /\ DOMAIN work' = {"stage", "rate"}
  BY DEF Calibration!Misfortune, Calibration!Machine, Calibration!Profile, Calibration!Constant,
     Calibration!Idle
<1>3. /\ run.at = 2 /\ run.row = "CHECKPOINTED" => prior # None
      /\ prior # None =>
          prior.config = found.config /\ (prior.serving => found.service = found.config)
  BY <1>1 DEF PriorKnown
<1>4. run' \in Run!Mishaps(run, Calibration!Wf, Calibration!Probe)
  BY <1>1, SameCalibrationMishaps
<1>5. /\ RunInv(run', Calibration!Wf) /\ run.end = "none"
      /\ Moves(run, run', Calibration!Wf, FALSE, Calibration!Probe \cup {"UNCERTAIN_MANUAL"},
          FALSE)
  BY <1>1, <1>4, CalibrationWorkable, RunMishaps
<1>6. CalibrationFollows(run, run', FALSE, Calibration!Probe \cup {"UNCERTAIN_MANUAL"}, FALSE)
  BY <1>1, <1>5, CalibrationMovesFollow
<1>7. run'.pc \notin {"landed", "effect"} /\ run'.at = run.at /\ run'.row = run.row
  BY <1>1, <1>4, MishapsStay
<1>8. run.at = 3 /\ (Calibration!Probe \cup {"UNCERTAIN_MANUAL"}) \cap {"ABSENT",
        "DISCARDABLE"} # {} => config = found.config
  BY TrialProbed
<1>9. ~ InTrial
  <2>1. run.pc \in {"effect", "landed", "verify", "reverify"}
    BY <1>1, <1>4, SameCalibrationMoments DEF Run!Mishaps
  <2>2. ASSUME InTrial PROVE FALSE
    <3>1. run.at \in 3..5 /\ run.row = "RUNNING" /\ receipts[Calibration!Index] = None
      BY <2>2 DEF InTrial
    <3>2. run.pc # "landed" /\ run.pc \notin {"verify", "reverify"}
      BY <1>1, <3>1, CalibrationPlace DEF CalibrationInv, TriedOnce
    <3>3. Calibration!Names[run.at] = "measure"
      BY <3>1 DEF Calibration!Names
    <3> QED BY <1>1, <2>1, <3>2, <3>3 DEF Calibration!Executing
  <2> QED BY <2>2
<1> QED BY <1>1, <1>2, <1>3, <1>5, <1>6, <1>7, <1>8, <1>9, QuietRun

LEMMA CancelKeepsTrials ==
    ASSUME CalibrationInv, Calibration!Cancel
    PROVE  CalibrationInv'
<1> HIDE DEF Calibration!Wf
<1>1. /\ RunInv(run, Calibration!Wf) /\ PriorKnown /\ StageKnown
      /\ Run!Cancellable(run, Calibration!Wf) /\ run' = Run!Cancelled(run, Calibration!Wf)
      /\ DOMAIN run = {"at", "row", "way", "begun", "undone", "pc", "todo", "bad", "end"}
      /\ DOMAIN work = {"stage", "rate"}
  BY SameCalibrationMoments DEF CalibrationInv, CalibrationTyped, Calibration!Cancel, RunInv,
     RunShaped
<1>2. /\ UNCHANGED <<config, handoff, service, latched, edited, evidence, plan, known, found>>
      /\ UNCHANGED <<prior, receipts, out, work, refused, torn>>
  BY DEF Calibration!Cancel, Calibration!Machine, Calibration!Profile, Calibration!Constant
<1>3. /\ run.at = 2 /\ run.row = "CHECKPOINTED" => prior # None
      /\ prior # None =>
          prior.config = found.config /\ (prior.serving => found.service = found.config)
  BY <1>1 DEF PriorKnown
<1>4. /\ run.end = "none" /\ run.pc = "next" /\ run.at <= Len(Calibration!Wf.steps)
      /\ ~ (Run!Flagged(Calibration!Wf, run.at, "critical") /\ run.row = "RUNNING")
  BY <1>1 DEF Run!Cancellable
<1>5. /\ RunInv(run', Calibration!Wf)
      /\ CancelsAtOnce(run, run', Calibration!Wf) \/ TurnsBack(run, run', Calibration!Wf)
  BY <1>1, RunCancelled
<1>6. Moves(run, run', Calibration!Wf, FALSE, {}, FALSE)
  BY <1>5 DEF Moves
<1>7. CalibrationFollows(run, run', FALSE, {}, FALSE)
  BY <1>1, <1>5, <1>6, CalibrationMovesFollow
<1>8. run'.row = run.row /\ run'.pc \notin {"effect", "landed"}
  BY <1>5 DEF CancelsAtOnce, TurnsBack, Stays
<1>9. ~ InTrial
  BY <1>4, StepsOfCalibration DEF InTrial
<1>10. work'.stage = "none"
  BY <1>1, <1>2, <1>4 DEF StageKnown, Calibration!Executing
<1> QED BY <1>1, <1>2, <1>3, <1>4, <1>7, <1>8, <1>9, <1>10, QuietRun

\* A refusal of execute ends the run or turns it back.
LEMMA RefusalFollows ==
    ASSUME CalibrationInv, run.pc = "effect", Calibration!Refused
    PROVE  /\ CalibrationFollows(run, run', FALSE, Calibration!Probe, FALSE) /\ run.end = "none"
           /\ run'.row = run.row /\ run'.at = run.at
           /\ run'.pc \notin {"effect", "landed", "undoing"}
           /\ run.at = 3 /\ Calibration!Probe \cap {"ABSENT", "DISCARDABLE"} # {} =>
               config = found.config
<1> HIDE DEF Calibration!Wf
<1>1. RunInv(run, Calibration!Wf) /\ run.end = "none"
  BY CalibrationPlace DEF CalibrationInv
<1>2. PICK class \in Calibration!Probe : run' = Run!Failed(run, Calibration!Wf, class)
  BY SameCalibrationMoments DEF Calibration!Refused
<1>3. /\ RunInv(run', Calibration!Wf)
      /\ FailsSafe(run, run', Calibration!Wf, class) \/ TurnsBack(run, run', Calibration!Wf)
  BY <1>1, <1>2, CalibrationWorkable, RunFailed
<1>4. Moves(run, run', Calibration!Wf, FALSE, Calibration!Probe, FALSE)
  BY <1>3 DEF Moves
<1>5. CalibrationFollows(run, run', FALSE, Calibration!Probe, FALSE)
  BY <1>1, <1>3, <1>4, CalibrationMovesFollow
<1>6. run'.row = run.row /\ run'.at = run.at /\ run'.pc \notin {"effect", "landed", "undoing"}
  BY <1>3 DEF FailsSafe, TurnsBack, Stays
<1>7. run.at = 3 /\ Calibration!Probe \cap {"ABSENT", "DISCARDABLE"} # {} => config = found.config
  BY TrialProbed
<1> QED BY <1>1, <1>5, <1>6, <1>7

-----------------------------------------------------------------------------
(* The steps before and after the trials                                   *)

LEMMA EffectAt ==
    ASSUME CalibrationInv, NEW name, Calibration!Executing(name)
    PROVE  /\ run.pc = "effect" /\ run.at \in 1..6 /\ run.row = "RUNNING"
           /\ run.way = "forward" /\ run.end = "none"
           /\ run.undone = {} /\ ~ refused /\ ~ Beyond /\ ~ InRestoration
           /\ name = "resolve" => run.at = 1
           /\ name = "capture" => run.at = 2
           /\ name = "measure" => run.at \in 3..5
           /\ name = "record" => run.at = 6
<1>1. /\ run.pc = "effect" /\ run.at \in 1..6 /\ run.row = "RUNNING"
      /\ run.way = "forward" /\ run.end = "none"
      /\ run.undone = {}
  BY CalibrationPlace DEF CalibrationInv, Calibration!Executing
<1>2. ~ refused /\ ~ Beyond /\ ~ InRestoration
  BY <1>1 DEF CalibrationInv, PriorKnown, Beyond, InRestoration
<1>3. run.at = 1 \/ run.at = 2 \/ run.at = 3 \/ run.at = 4 \/ run.at = 5 \/ run.at = 6
  BY <1>1
<1>4. name = Calibration!Names[run.at]
  BY DEF Calibration!Executing
<1> QED BY <1>1, <1>2, <1>3, <1>4 DEF Calibration!Names

\* A step outside a trial returns or is refused.
LEMMA StepEndsTrials ==
    ASSUME CalibrationInv, run.pc = "effect", run' = Calibration!Applied(run)
        \/ Calibration!Refused, ~ InTrial,
           UNCHANGED <<config, handoff, service, found, plan, receipts, edited, evidence, work>>,
           refused' = refused, torn' = torn, prior # None => prior' # None,
           prior' # None =>
               prior'.config = found.config /\ (prior'.serving => found.service = found.config),
           run.at = 2 /\ run' = Calibration!Applied(run) => prior' # None,
           work.stage = "none",
           \/ out' = out
           \/ run.at \in 3..5 /\ run' = Calibration!Applied(run) /\ \E o :
               out' = [out EXCEPT ![Calibration!Index] = o]
    PROVE  CalibrationInv'
<1> HIDE DEF Calibration!Wf
<1>1. /\ RunInv(run, Calibration!Wf) /\ run.end = "none" /\ run.row = "RUNNING"
      /\ DOMAIN run = {"at", "row", "way", "begun", "undone", "pc", "todo", "bad", "end"}
      /\ DOMAIN work = {"stage", "rate"}
  BY CalibrationPlace DEF CalibrationInv, CalibrationTyped, RunInv, RunShaped
<1>2. CASE Calibration!Refused
  <2>1. /\ CalibrationFollows(run, run', FALSE, Calibration!Probe, FALSE)
        /\ run'.row = run.row /\ run'.at = run.at
        /\ run'.pc \notin {"effect", "landed", "undoing"}
        /\ run.at = 3 /\ Calibration!Probe \cap {"ABSENT", "DISCARDABLE"} # {} =>
            config = found.config
    BY <1>2, RefusalFollows
  <2>2. run' # Calibration!Applied(run)
    BY <1>1, <2>1 DEF Calibration!Applied
  <2> QED BY <1>1, <2>1, <2>2, QuietRun
<1>3. CASE run' = Calibration!Applied(run)
  <2>1. run' = Run!Applied(run)
    BY <1>3, SameCalibrationMoments
  <2>2. RunInv(run', Calibration!Wf) /\ GoesOn(run, run')
    BY <1>1, <2>1, CalibrationWorkable, RunApplied
  <2>3. Moves(run, run', Calibration!Wf, FALSE, {}, FALSE)
    BY <2>2 DEF Moves
  <2>4. CalibrationFollows(run, run', FALSE, {}, FALSE)
    BY <1>1, <2>2, <2>3, CalibrationMovesFollow
  <2>5. run'.row = "CHECKPOINTED" /\ run'.pc = "verify"
    BY <1>1, <2>1 DEF Run!Applied
  <2> QED BY <1>1, <1>3, <2>4, <2>5, QuietRun
<1> QED BY <1>2, <1>3

LEMMA ResolveKeepsTrials ==
    ASSUME CalibrationInv, Calibration!Resolve
    PROVE  CalibrationInv'
<1>1. run.pc = "effect" /\ run.at = 1
  BY EffectAt DEF Calibration!Resolve
<1>2. (run' = Calibration!Applied(run) \/ Calibration!Refused) /\ ~ InTrial
  BY <1>1 DEF Calibration!Resolve, InTrial
<1>3. /\ UNCHANGED <<config, handoff, service, latched, edited, evidence, plan, known, found>>
      /\ UNCHANGED <<prior, receipts, out, work, refused, torn>>
  BY DEF Calibration!Resolve, Calibration!Machine, Calibration!Profile, Calibration!Constant
<1>4. work.stage = "none"
  BY <1>1, EffectAt DEF CalibrationInv, StageKnown, Calibration!Resolve, Calibration!Executing,
     Calibration!Names
<1>5. prior # None =>
        prior.config = found.config /\ (prior.serving => found.service = found.config)
  BY DEF CalibrationInv, PriorKnown
<1> QED BY <1>1, <1>2, <1>3, <1>4, <1>5, StepEndsTrials

LEMMA CaptureKeepsTrials ==
    ASSUME CalibrationInv, Calibration!CaptureBaseline
    PROVE  CalibrationInv'
<1>1. run.pc = "effect" /\ run.at = 2 /\ ~ Beyond /\ ~ InRestoration /\ run.row = "RUNNING"
  BY EffectAt DEF Calibration!CaptureBaseline
<1>2. ~ InTrial /\ BegunTrials(run) = {}
  BY <1>1 DEF InTrial, BegunTrials
<1>3. /\ UNCHANGED <<config, handoff, service, latched, edited, evidence, plan, known, found>>
      /\ UNCHANGED <<receipts, out, work, refused, torn>>
  BY DEF Calibration!CaptureBaseline, Calibration!Machine, Calibration!Profile,
     Calibration!Constant
<1>4. work.stage = "none"
  BY <1>1 DEF CalibrationInv, StageKnown, Calibration!Executing, Calibration!Names
<1>5. /\ config = found.config /\ found.config \in {None, "base"}
      /\ found.service \in {None, found.config}
      /\ service # None => found.service = found.config
      /\ prior # None =>
          prior.config = found.config /\ (prior.serving => found.service = found.config)
  BY <1>1, <1>2 DEF CalibrationInv, CalibrationTyped, PriorKnown, ConfigAsFound, ServedAsFound,
     Settled
<1>6. \/ Calibration!Refused /\ prior' = prior
      \/ run' = Calibration!Applied(run)
          /\ prior' = [config |-> config, serving |-> service # None]
  BY DEF Calibration!CaptureBaseline
<1>7. ASSUME prior' = [config |-> config, serving |-> service # None]
      PROVE  /\ prior' # None /\ prior'.config = found.config
             /\ (prior'.serving => found.service = found.config)
  <2>1. (service # None) \in BOOLEAN /\ config \in {None, "base"}
    BY <1>5
  <2>2. prior' \in [config : {None, "base"}, serving : BOOLEAN]
    BY <1>7, <2>1
  <2> QED BY <1>5, <1>7, <2>2, CalibrationAssumption
<1>8. Calibration!Refused => run' # Calibration!Applied(run)
  BY <1>1, RefusalFollows DEF CalibrationInv, RunInv, RunShaped, Calibration!Applied
<1>9. CASE Calibration!Refused /\ prior' = prior
  BY <1>1, <1>2, <1>3, <1>4, <1>5, <1>8, <1>9, StepEndsTrials
<1>10. CASE run' = Calibration!Applied(run)
         /\ prior' = [config |-> config, serving |-> service # None]
  BY <1>1, <1>2, <1>3, <1>4, <1>7, <1>10, StepEndsTrials
<1> QED BY <1>6, <1>9, <1>10

\* Of the trials that were measured there is a fastest, and of those a first.
LEMMA WinnerIsFastest ==
    ASSUME Calibration!Recordable
    PROVE  out[1] \in Calibration!Rates /\ \A j \in Calibration!Completed :
        Calibration!Faster(1, j)
<1> DEFINE Best(i) ==
      i \in Calibration!Completed /\ \A j \in Calibration!Completed : Calibration!Faster(i, j)
<1>1. /\ Calibration!Completed # {} /\ Calibration!Winner = 1
      /\ \A i : i \in Calibration!Completed <=>
          (i = 1 \/ i = 2 \/ i = 3) /\ (out[i] = "slow" \/ out[i] = "fast")
  BY DEF Calibration!Recordable, Calibration!Completed, Calibration!Candidates, Calibration!Rates
<1>2. \E i \in Calibration!Completed : \A j \in Calibration!Completed : Calibration!Faster(i, j)
  <2>1. CASE out[1] = "fast"
    <3>1. Best(1)
      BY <1>1, <2>1 DEF Calibration!Faster
    <3> QED BY <3>1
  <2>2. CASE out[1] # "fast" /\ out[2] = "fast"
    <3>1. Best(2)
      BY <1>1, <2>2 DEF Calibration!Faster
    <3> QED BY <3>1
  <2>3. CASE out[1] # "fast" /\ out[2] # "fast" /\ out[3] = "fast"
    <3>1. Best(3)
      BY <1>1, <2>3 DEF Calibration!Faster
    <3> QED BY <3>1
  <2>4. CASE out[1] # "fast" /\ out[2] # "fast" /\ out[3] # "fast"
    <3>1. CASE out[1] = "slow"
      <4>1. Best(1)
        BY <1>1, <2>4, <3>1 DEF Calibration!Faster
      <4> QED BY <4>1
    <3>2. CASE out[1] # "slow" /\ out[2] = "slow"
      <4>1. Best(2)
        BY <1>1, <2>4, <3>2 DEF Calibration!Faster
      <4> QED BY <4>1
    <3>3. CASE out[1] # "slow" /\ out[2] # "slow"
      <4>1. Best(3)
        BY <1>1, <2>4, <3>3 DEF Calibration!Faster
      <4> QED BY <4>1
    <3> QED BY <3>1, <3>2, <3>3
  <2> QED BY <2>1, <2>2, <2>3, <2>4
<1>3. Calibration!Winner \in Calibration!Completed /\ \A j \in Calibration!Completed :
        Calibration!Faster(Calibration!Winner, j)
  BY <1>2 DEF Calibration!Winner
<1> QED BY <1>1, <1>3 DEF Calibration!Completed

LEMMA LandedFollows ==
    ASSUME CalibrationInv, run.pc = "effect", run' = Calibration!Landed(run)
    PROVE  /\ CalibrationFollows(run, run', FALSE, {}, FALSE) /\ run.end = "none"
           /\ run'.row = "RUNNING" /\ run'.at = run.at /\ run'.pc = "landed"
<1> HIDE DEF Calibration!Wf
<1>1. /\ RunInv(run, Calibration!Wf) /\ run.end = "none" /\ run.row = "RUNNING"
      /\ run' = Run!Landed(run)
      /\ DOMAIN run = {"at", "row", "way", "begun", "undone", "pc", "todo", "bad", "end"}
  BY CalibrationPlace, SameCalibrationMoments DEF CalibrationInv, RunInv, RunShaped
<1>2. RunInv(run', Calibration!Wf) /\ GoesOn(run, run')
  BY <1>1, CalibrationWorkable, RunApplied
<1>3. Moves(run, run', Calibration!Wf, FALSE, {}, FALSE)
  BY <1>2 DEF Moves
<1>4. CalibrationFollows(run, run', FALSE, {}, FALSE)
  BY <1>1, <1>2, <1>3, CalibrationMovesFollow
<1> QED BY <1>1, <1>4 DEF Run!Landed

LEMMA RecordKeepsTrials ==
    ASSUME CalibrationInv, Calibration!RecordWinner
    PROVE  CalibrationInv'
<1> HIDE DEF Calibration!Wf
<1>1. /\ run.pc = "effect" /\ run.at = 6 /\ ~ Beyond /\ ~ InRestoration
      /\ run.row = "RUNNING" /\ run.end = "none"
  BY EffectAt DEF Calibration!RecordWinner
<1>2. ~ InTrial
  BY <1>1 DEF InTrial
<1>3. /\ UNCHANGED <<config, handoff, service, latched, edited, plan, known, found>>
      /\ UNCHANGED <<prior, receipts, out, work, refused, torn>>
  BY DEF Calibration!RecordWinner, Calibration!Machine, Calibration!Profile, Calibration!Constant
<1>4. work.stage = "none" /\ DOMAIN work = {"stage", "rate"}
  BY <1>1 DEF CalibrationInv, CalibrationTyped, StageKnown, Calibration!Executing,
     Calibration!Names
<1>5. /\ prior # None /\ prior.config = found.config
      /\ (prior.serving => found.service = found.config)
  BY <1>1 DEF CalibrationInv, PriorKnown
<1>6. CASE (run' = Calibration!Applied(run) \/ Calibration!Refused) /\ evidence' = evidence
  BY <1>1, <1>2, <1>3, <1>4, <1>5, <1>6, StepEndsTrials
<1>7. CASE Calibration!RecordProbe # "COMPLETE" /\ evidence' = "measured"
        /\ run' = Calibration!Landed(run)
  <2>1. /\ CalibrationFollows(run, run', FALSE, {}, FALSE)
        /\ run'.row = "RUNNING" /\ run'.at = run.at /\ run'.pc = "landed"
    BY <1>1, <1>7, LandedFollows
  <2>2. EvidenceKnown'
    <3>1. Calibration!Recordable
      BY <1>7 DEF Calibration!RecordProbe
    <3>2. out[1] \in Calibration!Rates /\ \A j \in Calibration!Completed :
            Calibration!Faster(1, j)
      BY <3>1, WinnerIsFastest
    <3> QED BY <1>1, <1>3, <2>1, <3>2 DEF EvidenceKnown, Calibration!Completed, Calibration!Faster
  <2>3. /\ RunInv(run, Calibration!Wf)' /\ CalibrationTyped' /\ PriorKnown' /\ ConfigAsFound'
        /\ StageKnown' /\ EvidenceKnown'
    <3>1. DOMAIN receipts' = Calibration!Candidates /\ DOMAIN out' = Calibration!Candidates
      BY <1>3 DEF CalibrationInv, CalibrationTyped
    <3> QED BY <1>1, <1>3, <1>4, <1>5, <2>1, <2>2, <3>1, RunFollowed
  <2>4. ServedAsFound'
    BY <1>1, <1>2, <1>3, ServedFollowed
  <2>5. TriedOnce'
    BY <1>1, <1>3, <2>1 DEF CalibrationInv, TriedOnce
  <2> QED BY <2>3, <2>4, <2>5 DEF CalibrationInv
<1> QED BY <1>6, <1>7 DEF Calibration!RecordWinner

LEMMA SkipKeepsTrials ==
    ASSUME CalibrationInv, Calibration!SkipCandidate
    PROVE  CalibrationInv'
<1>1. /\ run.pc = "effect" /\ run.at \in 3..5 /\ Calibration!Index > plan.size
      /\ run' = Calibration!Applied(run)
  BY EffectAt DEF Calibration!SkipCandidate
<1>2. ~ (Calibration!Index <= plan.size)
  BY <1>1 DEF CalibrationInv, CalibrationTyped, Calibration!Index
<1>3. ~ InTrial
  BY <1>2 DEF InTrial
<1>4. /\ UNCHANGED <<config, handoff, service, latched, edited, evidence, plan, known, found>>
      /\ UNCHANGED <<prior, receipts, work, refused, torn>>
      /\ out' = [out EXCEPT ![Calibration!Index] = "skipped"]
  BY DEF Calibration!SkipCandidate, Calibration!Machine, Calibration!Profile,
     Calibration!Constant, Calibration!Rest
<1>5. work.stage = "none"
  BY <1>1, <1>2 DEF CalibrationInv, StageKnown
<1>6. prior # None =>
        prior.config = found.config /\ (prior.serving => found.service = found.config)
  BY DEF CalibrationInv, PriorKnown
<1>7. \E o : out' = [out EXCEPT ![Calibration!Index] = o]
  BY <1>4
<1>8. /\ prior # None => prior' # None
      /\ prior' # None =>
          prior'.config = found.config /\ (prior'.serving => found.service = found.config)
      /\ run.at = 2 /\ run' = Calibration!Applied(run) => prior' # None
  <2>1. prior' = prior /\ found' = found /\ run.at # 2
    BY <1>1, <1>4
  <2> QED BY <1>6, <2>1
<1>9. /\ UNCHANGED <<config, handoff, service, found, plan, receipts, edited, evidence, work>>
      /\ refused' = refused /\ torn' = torn
  BY <1>4
<1> QED BY <1>1, <1>3, <1>5, <1>7, <1>8, <1>9, StepEndsTrials

-----------------------------------------------------------------------------
(* The trials and their restoration                                        *)

\* A trial at work.
LEMMA TrialAtWork ==
    ASSUME CalibrationInv, NEW stage, Calibration!Trying(stage)
    PROVE  /\ Calibration!Executing("measure") /\ run.pc = "effect" /\ run.at \in 3..5
           /\ run.row = "RUNNING"
           /\ run.way = "forward" /\ run.end = "none" /\ run.undone = {} /\ ~ Beyond
           /\ Calibration!Index <= plan.size /\ receipts[Calibration!Index] = None
           /\ work.stage = stage
           /\ Calibration!Index \in Calibration!Candidates /\ BegunTrials(run) # {}
           /\ prior # None /\ prior.config = found.config
           /\ prior.serving => found.service = found.config
           /\ DOMAIN work = {"stage", "rate"} /\ plan.size \in Nat
<1>1. Calibration!Executing("measure") /\ Calibration!Index <= plan.size /\ work.stage = stage
  BY DEF Calibration!Trying
<1>2. /\ run.pc = "effect" /\ run.at \in 3..5 /\ run.row = "RUNNING" /\ run.way = "forward"
      /\ run.end = "none" /\ run.undone = {} /\ ~ Beyond
  BY <1>1, EffectAt
<1>3. Calibration!Index \in Calibration!Candidates /\ BegunTrials(run) # {}
  BY <1>2 DEF Calibration!Index, Calibration!Candidates, BegunTrials
<1>4. receipts[Calibration!Index] = None
  BY <1>2 DEF CalibrationInv, TriedOnce
<1>5. /\ prior # None /\ prior.config = found.config
      /\ (prior.serving => found.service = found.config)
      /\ DOMAIN work = {"stage", "rate"} /\ plan.size \in Nat
  BY <1>2 DEF CalibrationInv, CalibrationTyped, PriorKnown
<1> QED BY <1>1, <1>2, <1>3, <1>4, <1>5

\* It goes on, whatever it changes on the machine.
LEMMA TrialWorks ==
    ASSUME CalibrationInv, NEW stage, Calibration!Trying(stage), run' = run,
           UNCHANGED <<found, plan, prior, receipts, out, refused, edited, evidence>>,
           DOMAIN work' = {"stage", "rate"}, work'.stage # "restored", StageKnown'
    PROVE  CalibrationInv'
<1>1. /\ run.at \in 3..5 /\ run.row = "RUNNING" /\ run.way = "forward" /\ run.end = "none"
      /\ run.undone = {} /\ ~ Beyond /\ Calibration!Index <= plan.size
      /\ receipts[Calibration!Index] = None
      /\ BegunTrials(run) # {}
  BY TrialAtWork
<1>2. RunInv(run, Calibration!Wf)' /\ CalibrationTyped' /\ PriorKnown'
  <2>1. Calibration!Wf' = Calibration!Wf
    BY DEF Calibration!Wf
  <2> QED BY <1>1, <2>1 DEF CalibrationInv, CalibrationTyped, PriorKnown
<1>3. InTrial'
  BY <1>1 DEF InTrial, Calibration!Index
<1>4. ConfigAsFound'
  BY <1>1 DEF ConfigAsFound
<1>5. TriedOnce' /\ EvidenceKnown'
  BY DEF CalibrationInv, TriedOnce, EvidenceKnown, Calibration!Completed, Calibration!Faster,
     Calibration!Index
<1> QED BY <1>2, <1>3, <1>4, <1>5 DEF CalibrationInv, ServedAsFound

\* A compensation at work.
LEMMA UndoAtWork ==
    ASSUME CalibrationInv, run.pc \in {"undoing", "undone"}
    PROVE  /\ run.end = "none" /\ run.way # "forward" /\ run.todo # {} /\ BegunTrials(run) # {}
           /\ prior # None /\ prior.config = found.config /\ ~ Beyond
           /\ prior.serving => found.service = found.config
           /\ DOMAIN work = {"stage", "rate"} /\ ~ InTrial
<1>1. /\ run.end = "none" /\ run.way # "forward" /\ run.todo # {}
      /\ BegunTrials(run) # {} /\ run.at >= 3
      /\ run.at \in 1..7
  BY CalibrationPlace DEF CalibrationInv
<1> QED BY <1>1 DEF CalibrationInv, CalibrationTyped, PriorKnown, Beyond, InTrial

LEMMA UndoWorks ==
    ASSUME CalibrationInv, run.pc = "undoing", run' = run,
           UNCHANGED <<found, plan, prior, receipts, out, refused, edited, evidence>>, torn' =>
               torn,
           DOMAIN work' = {"stage", "rate"}, work'.stage \in {"back", "rendered"}, StageKnown',
           run.undone # {} => config' = found.config
    PROVE  CalibrationInv'
<1>1. run.end = "none" /\ run.way # "forward" /\ BegunTrials(run) # {} /\ ~ Beyond
  BY UndoAtWork
<1>2. RunInv(run, Calibration!Wf)' /\ CalibrationTyped' /\ PriorKnown'
  <2>1. Calibration!Wf' = Calibration!Wf
    BY DEF Calibration!Wf
  <2> QED BY <1>1, <2>1 DEF CalibrationInv, CalibrationTyped, PriorKnown
<1>3. InRestoration'
  BY DEF InRestoration
<1>4. ConfigAsFound'
  BY <1>1 DEF ConfigAsFound
<1>5. TriedOnce' /\ EvidenceKnown'
  BY DEF CalibrationInv, TriedOnce, EvidenceKnown, Calibration!Completed, Calibration!Faster,
     Calibration!Index
<1> QED BY <1>2, <1>3, <1>4, <1>5 DEF CalibrationInv, ServedAsFound

LEMMA TrialsKeep ==
    ASSUME CalibrationInv, Calibration!ApplyCandidate \/ Calibration!RenderCandidate
        \/ Calibration!LaunchCandidate \/ Calibration!Measure \/ Calibration!TrialFails
    PROVE  CalibrationInv'
<1>1. PICK stage \in {"none", "applied", "rendered trial", "launched"} : Calibration!Trying(stage)
  BY DEF Calibration!ApplyCandidate, Calibration!RenderCandidate, Calibration!LaunchCandidate,
     Calibration!Measure, Calibration!TrialFails
<1>2. /\ run' = run /\ run.pc = "effect" /\ work.stage = stage
      /\ Calibration!Executing("measure") /\ Calibration!Index <= plan.size
      /\ DOMAIN work = {"stage", "rate"}
  BY <1>1, TrialAtWork DEF Calibration!ApplyCandidate, Calibration!RenderCandidate,
     Calibration!LaunchCandidate, Calibration!Measure, Calibration!TrialFails
<1>3. UNCHANGED <<found, plan, prior, receipts, out, refused, edited, evidence>>
  BY DEF Calibration!ApplyCandidate, Calibration!RenderCandidate, Calibration!LaunchCandidate,
     Calibration!Measure, Calibration!TrialFails, Calibration!Profile, Calibration!Constant,
     Calibration!Rest
<1>4. /\ DOMAIN work' = {"stage", "rate"}
      /\ work'.stage \in {"applied", "rendered trial", "launched", "restore"}
  <2>1. CASE Calibration!ApplyCandidate \/ Calibration!RenderCandidate
          \/ Calibration!LaunchCandidate
    <3>1. PICK s \in {"applied", "rendered trial", "launched"} : work' = [work EXCEPT !.stage = s]
      BY <2>1 DEF Calibration!ApplyCandidate, Calibration!RenderCandidate,
         Calibration!LaunchCandidate, Calibration!At
    <3> QED BY <1>2, <3>1
  <2>2. CASE Calibration!Measure \/ Calibration!TrialFails
    <3>1. PICK r : work' = [stage |-> "restore", rate |-> r]
      BY <2>2 DEF Calibration!Measure, Calibration!TrialFails
    <3> QED BY <3>1
  <2> QED BY <2>1, <2>2
<1>5. StageKnown'
  BY <1>2, <1>3, <1>4 DEF StageKnown, Calibration!Executing, Calibration!Index
<1> QED BY <1>1, <1>2, <1>3, <1>4, <1>5, TrialWorks

LEMMA RestorationGoesOn ==
    ASSUME CalibrationInv, Calibration!RestoreConfig \/ Calibration!RenderBaseline
    PROVE  CalibrationInv'
<1>1. PICK stage \in {"restore", "back"} : Calibration!Restoring(stage)
  BY DEF Calibration!RestoreConfig, Calibration!RenderBaseline
<1>2. UNCHANGED <<run, found, plan, prior, receipts, out, refused, edited, evidence, torn>>
  BY DEF Calibration!RestoreConfig, Calibration!RenderBaseline, Calibration!Profile,
     Calibration!Constant, Calibration!Rest
<1>3. run.pc = "undoing" \/ Calibration!Trying(stage)
  BY <1>1 DEF Calibration!Restoring
<1>4. /\ prior.config = found.config /\ DOMAIN work = {"stage", "rate"}
      /\ run.pc = "undoing"
          \/ (Calibration!Executing("measure") /\ Calibration!Index <= plan.size)
  BY <1>3, TrialAtWork, UndoAtWork
<1>5. CASE Calibration!RestoreConfig
  <2>1. /\ work' = [work EXCEPT !.stage = "back"] /\ (prior.config # None \/ config # None)
        /\ config' = IF prior.config = None THEN "mixed" ELSE prior.config
    BY <1>5 DEF Calibration!RestoreConfig, Calibration!At
  <2>2. DOMAIN work' = {"stage", "rate"} /\ work'.stage = "back"
    BY <1>4, <2>1
  <2>3. StageKnown'
    BY <1>2, <1>4, <2>1, <2>2 DEF StageKnown, Calibration!Executing, Calibration!Index
  <2>4. run.undone # {} => config' = found.config
    BY <1>4, <2>1 DEF CalibrationInv, ConfigAsFound
  <2>5. run.pc = "undoing" => CalibrationInv'
    BY <1>2, <2>2, <2>3, <2>4, UndoWorks
  <2>6. Calibration!Trying(stage) => CalibrationInv'
    BY <1>2, <2>2, <2>3, TrialWorks
  <2> QED BY <1>3, <2>5, <2>6
<1>6. CASE Calibration!RenderBaseline
  <2>1. /\ work' = [work EXCEPT !.stage = "rendered"] /\ config' = config
        /\ handoff' = config /\ Calibration!Restoring("back")
    BY <1>6 DEF Calibration!RenderBaseline, Calibration!At
  <2>2. DOMAIN work' = {"stage", "rate"} /\ work'.stage = "rendered" /\ work.stage = "back"
    BY <1>4, <2>1 DEF Calibration!Restoring, Calibration!Trying
  <2>3. StageKnown'
    BY <1>2, <1>4, <2>1, <2>2 DEF StageKnown, Calibration!Executing, Calibration!Index,
       CalibrationInv
  <2>4. run.undone # {} => config' = found.config
    BY <2>1 DEF CalibrationInv, ConfigAsFound
  <2>5. run.pc = "undoing" => CalibrationInv'
    BY <1>2, <2>2, <2>3, <2>4, UndoWorks
  <2>6. Calibration!Trying(stage) => CalibrationInv'
    BY <1>2, <2>2, <2>3, TrialWorks
  <2> QED BY <1>3, <2>5, <2>6
<1> QED BY <1>5, <1>6

\* A restoration ends: it is done, or the run fails with it, or it is undone.
LEMMA RestorationEnds ==
    ASSUME CalibrationInv, run.end = "none", BegunTrials(run) # {}, NEW classes, NEW back,
           CalibrationFollows(run, run', FALSE, classes, back), back => config = found.config,
           run.at = 3 /\ classes \cap {"ABSENT", "DISCARDABLE"} # {} => config = found.config,
           UNCHANGED <<config, found, plan, prior, receipts, out, refused, edited, evidence>>,
           DOMAIN work' = {"stage", "rate"}, work'.stage = "none", ServedAsFound',
           run'.row = run.row, run'.pc \notin {"effect", "landed"}
    PROVE  CalibrationInv'
<1> HIDE DEF Calibration!Wf
<1>1. /\ CalibrationTyped /\ PriorKnown /\ run.at \in 1..7
  BY CalibrationPlace DEF CalibrationInv
<1>2. DOMAIN receipts' = Calibration!Candidates /\ DOMAIN out' = Calibration!Candidates
  BY <1>1 DEF CalibrationTyped
<1>3. /\ prior # None => prior' # None
      /\ prior' # None =>
          prior'.config = found.config /\ (prior'.serving => found.service = found.config)
      /\ run.at = 2 /\ run'.row = "CHECKPOINTED" => prior' # None
  BY <1>1 DEF PriorKnown
<1>4. /\ RunInv(run, Calibration!Wf)' /\ CalibrationTyped' /\ PriorKnown' /\ ConfigAsFound'
      /\ StageKnown' /\ EvidenceKnown'
  BY <1>2, <1>3, RunFollowed
<1>5. TriedOnce'
  <2>1. \/ run'.at = run.at /\ (run'.row = "PENDING" => run.row = "PENDING")
        \/ run'.at = run.at + 1 /\ run'.row = "PENDING" /\ run'.pc = "next"
    BY DEF CalibrationFollows
  <2>2. run'.at \in 1..7
    BY CalibrationPlace DEF CalibrationFollows
  <2> QED BY <1>2, <2>1, <2>2, TriedFollowed
<1> QED BY <1>4, <1>5 DEF CalibrationInv

LEMMA UndoFollows ==
    ASSUME CalibrationInv, run.pc \in {"undoing", "undone"},
           \/ run' = [run EXCEPT !.pc = "undone"] \/ run' = Calibration!UndoFailed(run)
           \/ run' = Calibration!Undone(run) /\ config = found.config
    PROVE  /\ CalibrationFollows(run, run', FALSE, {}, config = found.config)
           /\ run'.row = run.row /\ run'.pc \in {"undo", "undone"}
<1> HIDE DEF Calibration!Wf
<1>1. /\ RunInv(run, Calibration!Wf) /\ run.end = "none" /\ run.todo # {}
      /\ DOMAIN run = {"at", "row", "way", "begun", "undone", "pc", "todo", "bad", "end"}
  BY UndoAtWork DEF CalibrationInv, RunInv, RunShaped
<1>2. CASE run' = [run EXCEPT !.pc = "undone"]
  <2>1. RunInv(run', Calibration!Wf) /\ GoesBack(run, run')
    BY <1>1, <1>2, RunInUndo
  <2>2. Moves(run, run', Calibration!Wf, FALSE, {}, config = found.config)
    BY <2>1 DEF Moves
  <2> QED BY <1>1, <1>2, <2>1, <2>2, CalibrationMovesFollow
<1>3. CASE run' = Calibration!UndoFailed(run)
  <2>1. run' = Run!UndoFailed(run)
    BY <1>3, SameCalibrationMoments
  <2>2. RunInv(run', Calibration!Wf) /\ GoesBack(run, run')
    BY <1>1, <2>1, RunUndoFailed
  <2>3. Moves(run, run', Calibration!Wf, FALSE, {}, config = found.config)
    BY <2>2 DEF Moves
  <2>4. run'.row = run.row /\ run'.pc = "undo"
    BY <1>1, <2>1 DEF Run!UndoFailed
  <2> QED BY <1>1, <2>2, <2>3, <2>4, CalibrationMovesFollow
<1>4. CASE run' = Calibration!Undone(run) /\ config = found.config
  <2>1. run' = Run!Undone(run)
    BY <1>4, SameCalibrationMoments
  <2>2. RunInv(run', Calibration!Wf) /\ UndoesOne(run, run')
    BY <1>1, <2>1, RunUndone
  <2>3. Moves(run, run', Calibration!Wf, FALSE, {}, config = found.config)
    BY <1>4, <2>2 DEF Moves
  <2>4. run'.row = run.row /\ run'.pc = "undo"
    BY <1>1, <2>1 DEF Run!Undone
  <2> QED BY <1>1, <2>2, <2>3, <2>4, CalibrationMovesFollow
<1> QED BY <1>2, <1>3, <1>4

LEMMA RestoreServiceKeepsTrials ==
    ASSUME CalibrationInv, Calibration!RestoreService
    PROVE  CalibrationInv'
<1> HIDE DEF Calibration!Wf
<1>1. /\ run.pc = "undoing" \/ Calibration!Trying("rendered")
      /\ UNCHANGED <<config, found, plan, prior, receipts, out, refused, edited, evidence>>
      /\ service' = Calibration!Relaunched /\ ~ torn'
      /\ handoff' = IF prior.serving THEN config ELSE handoff
  BY DEF Calibration!RestoreService, Calibration!Restoring, Calibration!Trying,
     Calibration!Profile, Calibration!Constant, Calibration!Rest
<1>2. /\ prior.config = found.config /\ (prior.serving => found.service = found.config)
      /\ run.end = "none" /\ BegunTrials(run) # {} /\ DOMAIN work = {"stage", "rate"}
  BY <1>1, TrialAtWork, UndoAtWork
<1>3. work.stage = "rendered"
  BY DEF Calibration!RestoreService, Calibration!Restoring, Calibration!Trying
<1>4. handoff = config
  BY <1>3 DEF CalibrationInv, StageKnown
<1>5. Settled'
  BY <1>1, <1>2, <1>4 DEF Settled, Calibration!Relaunched
<1>6. CASE run.pc = "undoing"
  <2>1. run' = [run EXCEPT !.pc = "undone"] /\ work' = Calibration!Idle
    BY <1>6 DEF Calibration!RestoreService
  <2>2. /\ CalibrationFollows(run, run', FALSE, {}, config = found.config)
        /\ run'.row = run.row /\ run'.pc \in {"undo", "undone"}
    BY <1>6, <2>1, UndoFollows
  <2>3. work'.stage = "none" /\ DOMAIN work' = {"stage", "rate"} /\ ServedAsFound'
    BY <1>5, <2>1 DEF Calibration!Idle, ServedAsFound
  <2> QED BY <1>1, <1>2, <2>2, <2>3, RestorationEnds
<1>7. CASE run.pc # "undoing" /\ work.rate = None
  <2>1. Calibration!Refused /\ work' = Calibration!Idle /\ run.pc = "effect"
    BY <1>1, <1>7, TrialAtWork DEF Calibration!RestoreService
  <2>2. /\ CalibrationFollows(run, run', FALSE, Calibration!Probe, FALSE)
        /\ run'.row = run.row /\ run'.pc \notin {"effect", "landed"}
        /\ run.at = 3 /\ Calibration!Probe \cap {"ABSENT", "DISCARDABLE"} # {} =>
            config = found.config
    BY <2>1, RefusalFollows
  <2>3. work'.stage = "none" /\ DOMAIN work' = {"stage", "rate"} /\ ServedAsFound'
    BY <1>5, <2>1 DEF Calibration!Idle, ServedAsFound
  <2> QED BY <1>1, <1>2, <2>2, <2>3, RestorationEnds
<1>8. CASE run.pc # "undoing" /\ work.rate # None
  <2>1. run' = run /\ work' = [work EXCEPT !.stage = "restored"]
    BY <1>8 DEF Calibration!RestoreService, Calibration!At
  <2>2. work'.stage = "restored" /\ work'.rate # None /\ DOMAIN work' = {"stage", "rate"}
    BY <1>2, <1>8, <2>1
  <2>3. run.way = "forward" /\ run.undone = {} /\ run.row = "RUNNING" /\ run.at \in 3..5
        /\ Calibration!Executing("measure") /\ Calibration!Index <= plan.size /\ run.pc = "effect"
    BY <1>1, <1>8, TrialAtWork
  <2>4. RunInv(run, Calibration!Wf)' /\ CalibrationTyped' /\ PriorKnown'
    <3>1. Calibration!Wf' = Calibration!Wf
      BY DEF Calibration!Wf
    <3> QED BY <1>1, <1>2, <2>1, <2>2, <3>1 DEF CalibrationInv, CalibrationTyped, PriorKnown
  <2>5. ConfigAsFound' /\ TriedOnce' /\ EvidenceKnown'
    BY <1>1, <1>2, <2>1, <2>3 DEF CalibrationInv, ConfigAsFound, TriedOnce, EvidenceKnown,
       Calibration!Completed,
       Calibration!Faster, Calibration!Index
  <2>6. StageKnown'
    <3>1. handoff' = config
      BY <1>1, <1>4
    <3> QED BY <1>1, <1>3, <2>1, <2>2, <2>3, <3>1 DEF CalibrationInv, StageKnown,
          Calibration!Executing, Calibration!Index
  <2> QED BY <1>5, <2>4, <2>5, <2>6 DEF CalibrationInv, ServedAsFound
<1> QED BY <1>6, <1>7, <1>8

LEMMA RestoreFailsKeepsTrials ==
    ASSUME CalibrationInv, Calibration!RestoreFails
    PROVE  CalibrationInv'
<1> HIDE DEF Calibration!Wf
<1>1. PICK stage \in {"restore", "rendered"} : Calibration!Restoring(stage)
  BY DEF Calibration!RestoreFails
<1>2. /\ run.pc = "undoing" \/ Calibration!Trying(stage)
      /\ UNCHANGED <<config, found, plan, prior, receipts, out, refused, edited, evidence>>
      /\ torn' = (torn \/ config = prior.config) /\ work' = Calibration!Idle
  BY <1>1 DEF Calibration!RestoreFails, Calibration!Restoring, Calibration!Profile,
     Calibration!Constant
<1>3. prior.config = found.config /\ run.end = "none" /\ BegunTrials(run) # {}
  BY <1>2, TrialAtWork, UndoAtWork
<1>4. work'.stage = "none" /\ DOMAIN work' = {"stage", "rate"} /\ ServedAsFound'
  BY <1>2, <1>3 DEF Calibration!Idle, ServedAsFound, Settled
<1>5. CASE run.pc = "undoing"
  <2>1. run' = Calibration!UndoFailed(run)
    BY <1>5 DEF Calibration!RestoreFails
  <2>2. /\ CalibrationFollows(run, run', FALSE, {}, config = found.config)
        /\ run'.row = run.row /\ run'.pc \in {"undo", "undone"}
    BY <1>5, <2>1, UndoFollows
  <2> QED BY <1>2, <1>3, <1>4, <2>2, RestorationEnds
<1>6. CASE run.pc # "undoing"
  <2>1. Calibration!Refused /\ run.pc = "effect"
    BY <1>2, <1>6, TrialAtWork DEF Calibration!RestoreFails
  <2>2. /\ CalibrationFollows(run, run', FALSE, Calibration!Probe, FALSE)
        /\ run'.row = run.row /\ run'.pc \notin {"effect", "landed"}
        /\ run.at = 3 /\ Calibration!Probe \cap {"ABSENT", "DISCARDABLE"} # {} =>
            config = found.config
    BY <2>1, RefusalFollows
  <2> QED BY <1>2, <1>3, <1>4, <2>2, RestorationEnds
<1> QED BY <1>5, <1>6

LEMMA VerifyRestoredKeepsTrials ==
    ASSUME CalibrationInv, Calibration!VerifyRestored
    PROVE  CalibrationInv'
<1> HIDE DEF Calibration!Wf
<1>1. /\ run.pc = "undone" /\ run' = IF config = prior.config THEN Calibration!Undone(run)
          ELSE Calibration!UndoFailed(run)
      /\ UNCHANGED <<config, handoff, service, found, plan, prior, receipts, out, refused,
          edited, evidence>>
      /\ UNCHANGED <<work, torn>>
  BY DEF Calibration!VerifyRestored, Calibration!Machine, Calibration!Profile,
     Calibration!Constant, Calibration!Rest
<1>2. /\ prior.config = found.config /\ run.end = "none" /\ BegunTrials(run) # {}
      /\ DOMAIN work = {"stage", "rate"} /\ ~ InTrial
  BY <1>1, UndoAtWork
<1>3. work.stage = "none"
  BY <1>1 DEF CalibrationInv, StageKnown, Calibration!Executing
<1>4. run' = Calibration!UndoFailed(run)
        \/ (run' = Calibration!Undone(run) /\ config = found.config)
  BY <1>1, <1>2
<1>5. /\ CalibrationFollows(run, run', FALSE, {}, config = found.config)
      /\ run'.row = run.row /\ run'.pc \in {"undo", "undone"}
  BY <1>1, <1>4, UndoFollows
<1>6. ~ InRestoration
  BY <1>1 DEF InRestoration
<1>7. ServedAsFound'
  BY <1>1, <1>2, <1>6, ServedFollowed
<1> QED BY <1>1, <1>2, <1>3, <1>5, <1>7, RestorationEnds

\* The receipt is the last thing a trial writes.
LEMMA ReceiptKeepsTrials ==
    ASSUME CalibrationInv, Calibration!WriteReceipt
    PROVE  CalibrationInv'
<1> HIDE DEF Calibration!Wf
<1>1. /\ Calibration!Trying("restored") /\ run' = Calibration!Landed(run)
      /\ work' = Calibration!Idle
      /\ receipts' = [receipts EXCEPT ![Calibration!Index] = work.rate]
      /\ out' = [out EXCEPT ![Calibration!Index] = work.rate]
      /\ UNCHANGED <<config, handoff, service, found, plan, prior, refused, edited, evidence,
          torn>>
  BY DEF Calibration!WriteReceipt, Calibration!Machine, Calibration!Profile, Calibration!Constant
<1>2. /\ run.pc = "effect" /\ run.at \in 3..5 /\ run.row = "RUNNING" /\ work.stage = "restored"
      /\ Calibration!Index \in Calibration!Candidates /\ prior # None
      /\ prior.config = found.config
      /\ prior.serving => found.service = found.config
  BY <1>1, TrialAtWork
<1>3. /\ CalibrationFollows(run, run', FALSE, {}, FALSE) /\ run.end = "none"
      /\ run'.row = "RUNNING" /\ run'.at = run.at /\ run'.pc = "landed"
  BY <1>1, <1>2, LandedFollows
<1>4. /\ DOMAIN receipts = Calibration!Candidates /\ DOMAIN out = Calibration!Candidates
      /\ work.rate # None
  BY <1>2 DEF CalibrationInv, CalibrationTyped, StageKnown
<1>5. /\ DOMAIN receipts' = Calibration!Candidates
      /\ DOMAIN out' = Calibration!Candidates /\ receipts'[Calibration!Index] # None
      /\ \A i \in Calibration!Candidates : i # Calibration!Index =>
          receipts'[i] = receipts[i] /\ out'[i] = out[i]
      /\ Calibration!Index' = Calibration!Index /\ run.at = Calibration!Index + 2
  <2>1. Calibration!Index' = Calibration!Index /\ run.at = Calibration!Index + 2
    BY <1>2, <1>3 DEF Calibration!Index
  <2> QED BY <1>1, <1>2, <1>4, <2>1
<1>6. work'.stage = "none" /\ DOMAIN work' = {"stage", "rate"}
  BY <1>1 DEF Calibration!Idle
<1>7. /\ RunInv(run, Calibration!Wf)' /\ CalibrationTyped' /\ PriorKnown' /\ ConfigAsFound'
      /\ StageKnown' /\ EvidenceKnown'
  <2>1. /\ run.at <= 5 /\ edited' = edited /\ evidence' = evidence /\ prior' = prior
        /\ refused' = refused /\ torn' = torn
    BY <1>1, <1>2
  <2>2. /\ prior # None => prior' # None
        /\ prior' # None =>
            prior'.config = found.config /\ (prior'.serving => found.service = found.config)
        /\ run.at = 2 /\ run'.row = "CHECKPOINTED" => prior' # None
    BY <1>2, <2>1
  <2>3. config' = config /\ found' = found /\ plan' = plan
    BY <1>1
  <2>4. DOMAIN receipts' = Calibration!Candidates /\ DOMAIN out' = Calibration!Candidates
    BY <1>5
  <2> QED BY <1>3, <1>6, <2>1, <2>2, <2>3, <2>4, RunFollowed
<1>8. ServedAsFound'
  <2>1. ~ InTrial /\ ~ InRestoration
    BY <1>2 DEF InTrial, InRestoration
  <2> QED BY <1>1, <1>3, <2>1, ServedFollowed
<1>9. TriedOnce'
  <2>1. ASSUME NEW i \in Calibration!Candidates, run'.at < i + 2
          \/ (run'.at = i + 2 /\ run'.row = "PENDING")
        PROVE  receipts'[i] = None /\ out'[i] = None
    <3>1. run.at < i + 2 /\ i # Calibration!Index
      BY <1>2, <1>3, <1>5, <2>1 DEF Calibration!Candidates
    <3> QED BY <1>5, <3>1 DEF CalibrationInv, TriedOnce
  <2>2. (receipts[Calibration!Index])' # None
    BY <1>5
  <2> QED BY <1>2, <1>3, <2>1, <2>2 DEF TriedOnce
<1> QED BY <1>7, <1>8, <1>9 DEF CalibrationInv

-----------------------------------------------------------------------------
(* The machine and the profile                                             *)

LEMMA OthersKeepTrials ==
    ASSUME CalibrationInv, Calibration!ServiceFails \/ Calibration!ThermalStop
        \/ Calibration!ThermalReset \/ Calibration!EditProfile
            \/ UNCHANGED Calibration!calibrationVars
    PROVE  CalibrationInv'
<1>1. /\ UNCHANGED <<run, plan, config, handoff, found, prior, receipts, out, work, refused,
          torn>>
      /\ edited' = TRUE \/ (edited' = edited /\ evidence' = evidence)
  <2>1. CASE Calibration!ServiceFails \/ Calibration!ThermalStop \/ Calibration!ThermalReset
    BY <2>1 DEF Calibration!ServiceFails, Calibration!ThermalStop, Calibration!ThermalReset,
       Calibration!Profile, Calibration!Constant
  <2>2. CASE Calibration!EditProfile
    BY <2>2 DEF Calibration!EditProfile, Calibration!Machine, Calibration!Constant
  <2>3. CASE UNCHANGED Calibration!calibrationVars
    BY <2>3 DEF Calibration!calibrationVars
  <2> QED BY <2>1, <2>2, <2>3
<1>2. service' \in {None, service} \/ (service # None /\ service' = handoff)
  BY DEF Calibration!ServiceFails, Calibration!ThermalStop, Calibration!ThermalReset,
     Calibration!EditProfile, Calibration!calibrationVars, Calibration!Machine
<1>3. /\ RunInv(run, Calibration!Wf)' /\ CalibrationTyped' /\ PriorKnown'
      /\ ConfigAsFound' /\ TriedOnce'
  <2>1. Calibration!Wf' = Calibration!Wf
    BY DEF Calibration!Wf
  <2> QED BY <1>1, <2>1 DEF CalibrationInv, CalibrationTyped, PriorKnown, ConfigAsFound, Beyond,
          TriedOnce, Calibration!Index
<1>4. EvidenceKnown'
  BY <1>1 DEF CalibrationInv, EvidenceKnown, Calibration!Completed, Calibration!Faster
<1>5. StageKnown'
  BY <1>1 DEF CalibrationInv, StageKnown, Calibration!Executing, Calibration!Index
<1>6. ServedAsFound'
  <2>1. found.service \in {None, found.config} /\ ServedAsFound
    BY DEF CalibrationInv, CalibrationTyped
  <2>2. (InTrial => InTrial') /\ (InRestoration => InRestoration') /\ (Beyond => Beyond')
    BY <1>1 DEF InTrial, InRestoration, Beyond, Calibration!Index
  <2>3. Settled => Settled'
    BY <1>1, <1>2, <2>1 DEF Settled
  <2> QED BY <2>1, <2>2, <2>3 DEF ServedAsFound
<1> QED BY <1>3, <1>4, <1>5, <1>6 DEF CalibrationInv

-----------------------------------------------------------------------------

LEMMA CalibrationInit == Calibration!Init => CalibrationInv
<1> SUFFICES ASSUME Calibration!Init PROVE CalibrationInv
  OBVIOUS
<1> HIDE DEF Calibration!Wf
<1>1. /\ run = Calibration!Queued /\ BegunTrials(run) = {} /\ run.at = 1
      /\ run.row = "PENDING" /\ run.undone = {}
  BY DEF Calibration!Init, Calibration!Queued, BegunTrials
<1>2. RunInv(run, Calibration!Wf)
  BY <1>1, StepsOfCalibration DEF Calibration!Queued, RunInv, RunShaped, RunPlaced
<1>3. plan.size \in Nat
  <2>1. PICK n \in 1..2 : plan \in [size : {n}, alike : 0..n, named : BOOLEAN]
    BY DEF Calibration!Init
  <2> QED BY <2>1
<1>4. /\ config \in {None, "base"} /\ service \in {None, config} /\ handoff = config
      /\ found = [config |-> config, service |-> service, evidence |-> evidence]
      /\ prior = None /\ refused = FALSE /\ torn = FALSE /\ work = Calibration!Idle
      /\ receipts = [i \in Calibration!Candidates |-> None]
      /\ out = [i \in Calibration!Candidates |-> None]
  BY DEF Calibration!Init
<1>5. CalibrationTyped
  BY <1>3, <1>4 DEF CalibrationTyped, Calibration!Idle
<1>6. PriorKnown /\ ServedAsFound /\ ConfigAsFound /\ EvidenceKnown
  BY <1>1, <1>4 DEF PriorKnown, ServedAsFound, Settled, ConfigAsFound, EvidenceKnown
<1>7. StageKnown /\ TriedOnce
  BY <1>1, <1>4 DEF StageKnown, TriedOnce, Calibration!Idle, Calibration!Queued
<1> QED BY <1>2, <1>5, <1>6, <1>7 DEF CalibrationInv

LEMMA CalibrationSteps ==
    CalibrationInv /\ [Calibration!Next]_(Calibration!calibrationVars) => CalibrationInv'
<1> SUFFICES ASSUME CalibrationInv, [Calibration!Next]_(Calibration!calibrationVars)
             PROVE CalibrationInv'
  OBVIOUS
<1>1. CASE Calibration!Claim \/ Calibration!Engine
  BY <1>1, ClaimKeepsTrials, EngineKeepsTrials
<1>2. CASE Calibration!Steps
  BY <1>2, ResolveKeepsTrials, CaptureKeepsTrials, SkipKeepsTrials, RecordKeepsTrials
     DEF Calibration!Steps
<1>3. CASE Calibration!Trials
  BY <1>3, TrialsKeep, ReceiptKeepsTrials DEF Calibration!Trials
<1>4. CASE Calibration!Restoration
  BY <1>4, RestorationGoesOn, RestoreServiceKeepsTrials, RestoreFailsKeepsTrials,
     VerifyRestoredKeepsTrials DEF Calibration!Restoration
<1>5. CASE Calibration!Others \/ UNCHANGED Calibration!calibrationVars
  BY <1>5, CrashKeepsTrials, MisfortuneKeepsTrials, CancelKeepsTrials, OthersKeepTrials
     DEF Calibration!Others
<1> QED BY <1>1, <1>2, <1>3, <1>4, <1>5 DEF Calibration!Next

LEMMA CalibrationInvSound == CalibrationInv => Calibration!CalibrationSound
<1> SUFFICES ASSUME CalibrationInv PROVE Calibration!CalibrationSound
  OBVIOUS
<1>1. Calibration!BaselineKept
  BY DEF CalibrationInv, Calibration!BaselineKept, ConfigAsFound, Beyond
<1>2. Calibration!NoTrialServed
  <2> SUFFICES ASSUME run.end \notin {"none", "RECOVERY_REQUIRED"}, ~ refused, ~ torn
               PROVE  handoff = found.config /\ service \in {None, found.service}
    BY DEF Calibration!NoTrialServed
  <2>1. config = found.config
    BY DEF CalibrationInv, ConfigAsFound, Beyond
  <2>2. ~ InTrial /\ ~ InRestoration /\ ~ Beyond
    BY CalibrationPlace DEF CalibrationInv, InTrial, InRestoration, Beyond
  <2> QED BY <2>1, <2>2 DEF CalibrationInv, ServedAsFound, Settled
<1>3. Calibration!EvidenceEarned
  BY DEF CalibrationInv, Calibration!EvidenceEarned, EvidenceKnown
<1>4. Calibration!NotTriedTwice
  <2> SUFFICES ASSUME Calibration!Executing("measure")
               PROVE receipts[Calibration!Index] = None /\ out[Calibration!Index] = None
    BY DEF Calibration!NotTriedTwice
  <2>1. run.at \in 3..5 /\ run.pc = "effect" /\ run.row = "RUNNING"
    BY EffectAt
  <2> QED BY <2>1 DEF CalibrationInv, TriedOnce
<1> QED BY <1>1, <1>2, <1>3, <1>4 DEF Calibration!CalibrationSound

\* However a calibration ends and whatever dies, fails or refuses on the way, the
\* configuration, the handoff and the server are as before, new evidence was measured, and
\* no trial is run twice (_restore, probe_candidate, record_winner).
THEOREM CalibrationIsSound == Calibration!CalibrationSpec => []Calibration!CalibrationSound
<1>1. Calibration!CalibrationSpec => []CalibrationInv
  BY CalibrationInit, CalibrationSteps, PTL DEF Calibration!CalibrationSpec
<1> QED BY <1>1, CalibrationInvSound, PTL

=============================================================================
