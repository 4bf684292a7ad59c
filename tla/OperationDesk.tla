---------------------------- MODULE OperationDesk ----------------------------
(***************************************************************************)
(* The surfaces that start, watch and steer durable operations: the        *)
(* services of the *_command modules, OperationCommandService (cancel,     *)
(* resume, retry, recover, detach), OperationQueryService and the worker   *)
(* process.  Each looks at the rows in one transaction, creates in         *)
(* another, drives the engine and answers from the row it then reads; two  *)
(* surfaces do all that side by side, and either may die.                  *)
(*                                                                         *)
(* A behaviour is about the operations of one service and their lease.  Of *)
(* the engine there is what OperationContract promises: a run is a path    *)
(* through the table under a lease.                                        *)
(***************************************************************************)
EXTENDS OperationModel, Naturals, Sequences, FiniteSetsExt

CONSTANTS None, Surfaces,
          Twice   \* the services with up to two operations; the others have one

VARIABLES
    service,    \* the command service this behaviour is about
    state, parent,   \* of its operations, in the order of their creation
    cancelled,  \* the operations a cancellation was accepted for
    lease,      \* the row of the key they share: [op, by, live], or None
    whole,      \* the runtime is one that a verification accepts
    desk,       \* what a surface is doing: [pc, cmd, op, interrupted]
    told        \* the end a surface is reporting: [op, by, says], or None

deskVars == <<service, state, parent, cancelled, lease, whole, desk, told>>

\* A command service: it looks for work of its kind first ("looks"), takes it up
\* when its lease has run out ("resumes"), turns Ctrl-C into a cancellation; what it
\* answers for a lost lease, a paused row, a state that it has no word for.
Command(flags, lost, paused, other) ==
    [looks |-> "looks" \in flags, resumes |-> "resumes" \in flags,
     barrier |-> "barrier" \in flags, interruptible |-> "interruptible" \in flags,
     lost |-> lost, paused |-> paused, other |-> other]

Activation == Command({"looks", "barrier", "resumes"}, "RECOVERY_REQUIRED", "BUSY", "RECOVERY_REQUIRED")
Runtime == Command({"looks", "barrier", "resumes", "interruptible"},
                   "RECOVERY_REQUIRED", "BUSY", "RECOVERY_REQUIRED")
Acquisition == Command({"looks", "barrier", "resumes"}, "RECOVERY_REQUIRED", "PAUSED", "BUSY")
Removal == Command({"looks", "barrier", "resumes"}, "RECOVERY_REQUIRED", "PAUSED", "BUSY")
Calibration == Command({"looks"}, "row", "BUSY", "BUSY")
Setup == Command({"looks"}, "row", "BUSY", "BUSY")
Cleanup == Command({}, "row", "FAILED_SAFE", "FAILED_SAFE")
Update == Command({}, "row", "FAILED_SAFE", "FAILED_SAFE")
Create == Command({}, "RECOVERY_REQUIRED", "BUSY", "BUSY")
Restore == Command({}, "RECOVERY_REQUIRED", "BUSY", "BUSY")
\* OperationCommandService and the worker host report the row itself.
Operator == Command({}, "row", "PAUSED", "row")

Services == {"activation", "runtime", "acquisition", "removal", "calibration", "setup",
             "cleanup", "update", "create", "restore"}

Kinds ==
    [c \in Services \cup {"operator"} |->
        CASE c = "activation" -> Activation    [] c = "runtime" -> Runtime
          [] c = "acquisition" -> Acquisition  [] c = "removal" -> Removal
          [] c = "calibration" -> Calibration  [] c = "setup" -> Setup
          [] c = "cleanup" -> Cleanup          [] c = "update" -> Update
          [] c = "create" -> Create            [] c = "restore" -> Restore
          [] c = "operator" -> Operator]

Detachable == {"activation", "acquisition", "runtime"}

Numbers == DOMAIN state   \* of the operations
Idle == [pc |-> "idle", cmd |-> None, op |-> None, interrupted |-> FALSE]
Of(s) == Kinds[desk[s].cmd]
Kind == Kinds[service]

-----------------------------------------------------------------------------
(* What the rows say.                                                      *)

\* A row that execute_one may take: none, or one that ran out and is no barrier.
Acquirable == lease # None => ~ lease.live /\ state[lease.op] # "RECOVERY_REQUIRED"

Owns(s) == lease # None /\ lease.op = desk[s].op /\ lease.by = s /\ lease.live

Barred == Kind.barrier /\ lease # None /\ state[lease.op] = "RECOVERY_REQUIRED"

\* Unfinished work; the services take the oldest.
Unfinished == {o \in Numbers : state[o] \notin Terminal}

Interrupted(o) == lease # None /\ lease.op = o /\ ~ lease.live

\* What a service answers for a row (its _map).
Says(c, s) ==
    CASE s = "PAUSED" -> Kinds[c].paused
      [] s \in {"SUCCEEDED", "RECOVERY_REQUIRED", "FAILED_SAFE"} -> s
      [] s \in {"CANCELLED", "FAILED_ROLLED_BACK"} ->
           IF c \in {"removal", "create", "restore"} THEN "BUSY"
           ELSE IF c = "update" \/ (c = "acquisition" /\ s = "FAILED_ROLLED_BACK")
           THEN Kinds[c].other ELSE s
      [] OTHER -> IF Kinds[c].other = "row" THEN s ELSE Kinds[c].other

Tells(o, c, says) ==
    told' = IF says \in Terminal THEN [op |-> o, by |-> c, says |-> says] ELSE None

\* The engine of a run that is over owns nothing any more.
Left(s) == IF lease # None /\ lease.by = s THEN [lease EXCEPT !.by = None] ELSE lease

Answer(s, o, says) ==
    /\ Tells(o, desk[s].cmd, says)
    /\ desk' = [desk EXCEPT ![s] = Idle]

Silent == told' = None

Rows == <<state, parent, cancelled>>

-----------------------------------------------------------------------------
(* Starting                                                                *)

\* _scan_existing finds a barrier of its kind.
StartBarred(s) ==
    /\ desk[s].pc = "idle" /\ Barred
    /\ Tells(lease.op, service, "RECOVERY_REQUIRED")
    /\ UNCHANGED <<service, Rows, lease, whole, desk>>

\* It finds work of its kind that it does not take up.
StartBusy(s) ==
    /\ desk[s].pc = "idle" /\ ~ Barred
    /\ Kind.looks /\ Unfinished # {}
    /\ ~ (Kind.resumes /\ Interrupted(Min(Unfinished)))
    /\ Tells(Min(Unfinished), service, "BUSY")
    /\ UNCHANGED <<service, Rows, lease, whole, desk>>

\* Interrupted work is taken up instead.
StartResumes(s) ==
    /\ desk[s].pc = "idle" /\ ~ Barred
    /\ Kind.resumes /\ Unfinished # {} /\ Interrupted(Min(Unfinished))
    /\ desk' = [desk EXCEPT ![s] = [Idle EXCEPT !.pc = "claim", !.cmd = service, !.op = Min(Unfinished)]]
    /\ UNCHANGED <<service, Rows, lease, whole>> /\ Silent

\* Nothing is in the way, as far as this transaction can see.
StartNew(s) ==
    /\ desk[s].pc = "idle" /\ ~ Barred
    /\ Kind.looks => Unfinished = {}
    /\ desk' = [desk EXCEPT ![s] = [Idle EXCEPT !.pc = "new", !.cmd = service]]
    /\ UNCHANGED <<service, Rows, lease, whole>> /\ Silent

Created(from) ==
    /\ Len(state) < IF service \in Twice THEN 2 ELSE 1
    /\ state' = Append(state, "QUEUED") /\ parent' = Append(parent, from)
    /\ UNCHANGED cancelled

\* The next transaction creates the row; the engine drives it, or a worker will.
Enqueue(s) ==
    /\ desk[s].pc = "new" /\ Created(None)
    /\ \/ desk' = [desk EXCEPT ![s] = [@ EXCEPT !.pc = "claim", !.op = Len(state) + 1]] /\ Silent
       \/ service \in Detachable /\ Answer(s, Len(state) + 1, "DETACHED")
    /\ UNCHANGED <<service, lease, whole>>

-----------------------------------------------------------------------------
(* The engine                                                              *)

\* execute_one leaves a terminal or a paused row to _map, and a key that is held,
\* by its own operation too, makes it skip.
Claim(s) ==
    LET o == desk[s].op IN
    /\ desk[s].pc = "claim"
    /\ \/ /\ state[o] \in Terminal \cup {"PAUSED"}
          /\ desk' = [desk EXCEPT ![s].pc = "map"] /\ UNCHANGED <<state, lease>> /\ Silent
       \/ /\ state[o] \notin Terminal \cup {"PAUSED"} /\ ~ Acquirable
          /\ Answer(s, o, "BUSY") /\ UNCHANGED <<state, lease>>
       \/ /\ state[o] \notin Terminal \cup {"PAUSED"} /\ Acquirable
          /\ lease' = [op |-> o, by |-> s, live |-> TRUE]
          /\ state' = IF state[o] = "QUEUED" THEN [state EXCEPT ![o] = "PREPARING"] ELSE state
          /\ desk' = [desk EXCEPT ![s].pc = "run"] /\ Silent
    /\ UNCHANGED <<service, parent, cancelled, whole>>

Advance(s) ==
    LET o == desk[s].op IN
    /\ desk[s].pc = "run" /\ Owns(s)
    /\ \E t \in {"RUNNING", "COMMITTING", "ROLLING_BACK"} :
         CanTransition(state[o], t) /\ state' = [state EXCEPT ![o] = t]
    /\ UNCHANGED <<service, parent, cancelled, lease, whole, desk>> /\ Silent

\* Where a run can end (_complete, _handle_failure, _compensate_and_finalize): a
\* compensation that another run takes over forgets that it was a cancellation.
Ends(o) ==
    {t \in Terminal :
       /\ CanTransition(state[o], t)
       /\ t = "CANCELLED" => o \in cancelled
       /\ t = "FAILED_ROLLED_BACK" => state[o] = "ROLLING_BACK"}

\* A barrier keeps the lease, and of a runtime operation it may keep a tree that is
\* neither the old nor the new one.
End(s) ==
    LET o == desk[s].op IN
    /\ desk[s].pc = "run" /\ Owns(s)
    /\ \E t \in Ends(o) :
         /\ state' = [state EXCEPT ![o] = t]
         /\ lease' = IF t = "RECOVERY_REQUIRED" THEN Left(s) ELSE None
         /\ \/ whole' = whole
            \/ t = "RECOVERY_REQUIRED" /\ service = "runtime" /\ whole' = FALSE
    /\ desk' = [desk EXCEPT ![s].pc = "map"]
    /\ UNCHANGED <<service, parent, cancelled>> /\ Silent

Pause(s) ==
    LET o == desk[s].op IN
    /\ desk[s].pc = "run" /\ Owns(s) /\ CanTransition(state[o], "PAUSED")
    /\ state' = [state EXCEPT ![o] = "PAUSED"] /\ lease' = None
    /\ desk' = [desk EXCEPT ![s].pc = "map"]
    /\ UNCHANGED <<service, parent, cancelled, whole>> /\ Silent

\* Variant of Lost: a lost lease is reported as a run that ended by itself.
LostSafe(s) ==
    /\ desk[s].pc = "run" /\ ~ Owns(s) /\ Answer(s, desk[s].op, "FAILED_SAFE")
    /\ lease' = Left(s) /\ UNCHANGED <<service, Rows, whole>>

\* The fence refuses: LOST_LEASE.
Lost(s) ==
    /\ desk[s].pc = "run" /\ ~ Owns(s)
    /\ IF Of(s).lost = "row"
       THEN desk' = [desk EXCEPT ![s].pc = "map"] /\ Silent
       ELSE Answer(s, desk[s].op, Of(s).lost)
    /\ lease' = Left(s) /\ UNCHANGED <<service, Rows, whole>>

\* The answer is what the row says now.
Map(s) ==
    /\ desk[s].pc = "map"
    /\ Answer(s, desk[s].op, Says(desk[s].cmd, state[desk[s].op]))
    /\ UNCHANGED <<service, Rows, lease, whole>>

RequestCancel(o) ==
    IF state[o] \in {"CANCEL_REQUESTED", "CANCELLED"} THEN UNCHANGED <<state, cancelled>>
    ELSE /\ CanTransition(state[o], "CANCEL_REQUESTED")
         /\ state' = [state EXCEPT ![o] = "CANCEL_REQUESTED"]
         /\ cancelled' = cancelled \cup {o}

\* _drive: the first Ctrl-C is a durable cancellation and the operation is driven
\* again; a second one, or one in a critical section, leaves the command.
CtrlC(s) ==
    /\ desk[s].pc = "run" /\ Of(s).interruptible
    /\ \/ /\ ~ desk[s].interrupted /\ RequestCancel(desk[s].op)
          /\ desk' = [desk EXCEPT ![s] = [@ EXCEPT !.pc = "claim", !.interrupted = TRUE]]
       \/ /\ desk[s].interrupted
             \/ state[desk[s].op] \in {"COMMITTING", "ROLLING_BACK"} \cup (Terminal \ {"CANCELLED"})
          /\ desk' = [desk EXCEPT ![s] = Idle] /\ UNCHANGED <<state, cancelled>>
    /\ lease' = Left(s) /\ UNCHANGED <<service, parent, whole>> /\ Silent

\* The process of a surface, or of the worker it is, dies.
Dies(s) ==
    /\ desk[s].pc # "idle"
    /\ desk' = [desk EXCEPT ![s] = Idle]
    /\ lease' = Left(s) /\ UNCHANGED <<service, Rows, whole>> /\ Silent

\* The lease of a run that died, or stalls, runs out.
Expire ==
    /\ lease # None /\ lease.live /\ lease' = [lease EXCEPT !.live = FALSE]
    /\ UNCHANGED <<service, Rows, whole, desk>> /\ Silent

-----------------------------------------------------------------------------
(* Steering                                                                *)

Flags(o) ==
    [cancellable |-> "CANCEL_REQUESTED" \in (IF state[o] \in Terminal THEN {} ELSE Transitions[state[o]]),
     resumable   |-> state[o] = "PAUSED",
     retryable   |-> state[o] \in {"FAILED_SAFE", "FAILED_ROLLED_BACK", "CANCELLED"},
     recoverable |-> /\ state[o] \in {"RECOVERY_REQUIRED", "RUNNING", "PREPARING", "VERIFYING",
                                      "CANCEL_REQUESTED", "ROLLING_BACK"}
                     /\ ~ (lease # None /\ lease.op = o /\ lease.live)]

MayCancel(o) ==
    state[o] \notin Terminal \cup {"CANCEL_REQUESTED", "COMMITTING", "ROLLING_BACK"}

Cancel(o) ==
    /\ MayCancel(o) /\ RequestCancel(o)
    /\ UNCHANGED <<service, parent, lease, whole, desk>> /\ Silent

MayResume(o) == state[o] \in {"PAUSED", "QUEUED"}

Drive(s, o) == desk' = [desk EXCEPT ![s] = [Idle EXCEPT !.pc = "claim", !.cmd = "operator", !.op = o]]

\* Paused work is re-armed in its own transaction, whatever execute_one then finds.
Resume(s, o) ==
    /\ desk[s].pc = "idle" /\ MayResume(o)
    /\ state' = IF state[o] = "PAUSED" THEN [state EXCEPT ![o] = "PREPARING"] ELSE state
    /\ Drive(s, o)
    /\ UNCHANGED <<service, parent, cancelled, lease, whole>> /\ Silent

Retryable == {"FAILED_SAFE", "FAILED_ROLLED_BACK", "CANCELLED"}

\* A new operation from the stored request; a worker or a resume drives it.
Retry(o) ==
    /\ state[o] \in Retryable /\ Created(o)
    /\ UNCHANGED <<service, lease, whole, desk>> /\ Silent

\* Unfinished work nobody holds a live lease for, once confirmed.
MayRecover(o) ==
    state[o] \notin Terminal /\ ~ (lease # None /\ lease.op = o /\ lease.live)

Recover(s, o) ==
    /\ desk[s].pc = "idle" /\ MayRecover(o) /\ Drive(s, o)
    /\ UNCHANGED <<service, Rows, lease, whole>> /\ Silent

\* detach: a queued operation of a kind that may run detached waits for the worker.
Detach(s, o) ==
    /\ desk[s].pc = "idle" /\ state[o] = "QUEUED"
    /\ service \in Detachable
    /\ Tells(o, "operator", "DETACHED")
    /\ UNCHANGED <<service, Rows, lease, whole, desk>>

\* wait: what the row says, once it is terminal or the time is over.
Wait(s, o) ==
    /\ desk[s].pc = "idle"
    /\ Tells(o, "operator", state[o])
    /\ UNCHANGED <<service, Rows, lease, whole, desk>>

\* The worker process takes the oldest queued operation.
Adopt(s) ==
    /\ desk[s].pc = "idle"
    /\ \E o \in Numbers : state[o] = "QUEUED" /\ (\A p \in 1..(o - 1) : state[p] # "QUEUED") /\ Drive(s, o)
    /\ UNCHANGED <<service, Rows, lease, whole>> /\ Silent

\* reconcile_restored asks the adapter whether the prior runtime is in place.
Restorable(o) == state[o] = "RECOVERY_REQUIRED" /\ service = "runtime" /\ whole

Reconcile ==
    /\ lease # None /\ Restorable(lease.op) /\ lease' = None
    /\ UNCHANGED <<service, Rows, whole, desk>> /\ Silent

\* A human puts the trees right.
ManualRepair ==
    /\ ~ whole /\ whole' = TRUE
    /\ UNCHANGED <<service, Rows, lease, desk>> /\ Silent

-----------------------------------------------------------------------------

Init ==
    /\ service \in Services
    /\ state = <<>> /\ parent = <<>> /\ cancelled = {}
    /\ lease = None /\ whole = TRUE
    /\ desk = [s \in Surfaces |-> Idle] /\ told = None

Next ==
    \/ \E s \in Surfaces :
         \/ StartBarred(s) \/ StartBusy(s) \/ StartResumes(s) \/ StartNew(s)
         \/ Enqueue(s) \/ Claim(s) \/ Advance(s) \/ End(s) \/ Pause(s) \/ Lost(s) \/ Map(s)
         \/ CtrlC(s) \/ Dies(s) \/ Adopt(s)
         \/ \E o \in Numbers : Resume(s, o) \/ Recover(s, o) \/ Detach(s, o) \/ Wait(s, o)
    \/ \E o \in Numbers : Cancel(o) \/ Retry(o)
    \/ Expire \/ Reconcile \/ ManualRepair

DeskSpec == Init /\ [][Next]_deskVars

-----------------------------------------------------------------------------

\* A surface that answers with an end answers with the end of that operation.
\* RECOVERY_REQUIRED is also the answer for states a service has no word for, and
\* FAILED_SAFE that of the cleanup and the application update.
AnswersDurable ==
    told # None =>
        /\ told.says \in {"SUCCEEDED", "CANCELLED", "FAILED_ROLLED_BACK"}
           => state[told.op] = told.says
        /\ told.says = "FAILED_SAFE" /\ told.by \notin {"cleanup", "update"}
           => state[told.op] = "FAILED_SAFE"

\* A runtime that is not whole is behind a barrier, and nothing runs.
WholeBeforeNext ==
    ~ whole => /\ lease # None /\ state[lease.op] = "RECOVERY_REQUIRED"
               /\ \A s \in Surfaces : desk[s].pc = "run" => ~ Owns(s)

\* What was cancelled never succeeds, nor does it fail without having tried.
CancelKept ==
    \A o \in cancelled :
        state[o] \in {"CANCEL_REQUESTED", "ROLLING_BACK", "CANCELLED", "FAILED_ROLLED_BACK",
                      "RECOVERY_REQUIRED"}

Lineage ==
    \A o \in Numbers : parent[o] # None =>
        parent[o] < o /\ state[parent[o]] \in Retryable

\* What the view of a row offers, the command accepts, as long as nothing moves;
\* recover refuses a barrier although the view says "recoverable".
OffersHold ==
    \A o \in Numbers :
        /\ Flags(o).cancellable => MayCancel(o)
        /\ Flags(o).resumable => MayResume(o)
        /\ Flags(o).recoverable /\ state[o] # "RECOVERY_REQUIRED" => MayRecover(o)

\* The surfaces keep their word.
DeskKeepsWord ==
    AnswersDurable /\ WholeBeforeNext /\ CancelKept /\ Lineage /\ OffersHold

=============================================================================
