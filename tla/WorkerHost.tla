----------------------------- MODULE WorkerHost -----------------------------
(***************************************************************************)
(* The worker hosts of one profile (operations/worker_host.py): the        *)
(* worker_locks row that admits one host, the choice of the next           *)
(* operation, the restart policy and the idle exit.                        *)
(*                                                                         *)
(* execute_one is module ExecutionEngine; here a run of an operation is    *)
(* its claim, and one of its ways to end.  An operation needs one lease of *)
(* its own, and PREPARING, RUNNING and VERIFYING are one state, RUNNING.   *)
(* A timestamp is only compared with the clock: a row is live or expired.  *)
(* A host process has a fresh worker id, so the lock's owner alone names   *)
(* its grant and lease_revision, which only the owner changes, is left out.*)
(***************************************************************************)
EXTENDS Naturals, FiniteSets, FiniteSetsExt

CONSTANTS Hosts,        \* worker ids of the host processes
          Ops,          \* operations, in the order of created_at: 1..n
          Blocked,      \* operations whose resources a recovery barrier occupies
          NoHost, NoOp,
          MaxFailures,  \* policy.max_consecutive_failures
          Slow,         \* where a live host may spend longer than its rows last
          MaxRaises     \* bound: exceptions that leave execute_one

VARIABLES
    lock,    \* worker_locks: [owner, live], owner NoHost when there is no row
    op,      \* operation -> [state, owner, live]; owner NoHost when it has no lease row
    host,    \* worker id -> the state of its process
    raises   \* exceptions so far

vars == <<lock, op, host, raises>>

States == {"QUEUED", "RUNNING", "PAUSED", "DONE"}
Pcs == {"new", "off", "loop", "heartbeat", "renew", "execute", "working", "idle"}

\* quiet: idle_since is set, and the quiet period is over; late (history, read
\* by no action): operations claimed since the lock was lost.
Process(pc) == [pc |-> pc, job |-> NoOp, failures |-> 0,
                shutdown |-> FALSE, quiet |-> FALSE, late |-> 0]

NoLock == [owner |-> NoHost, live |-> FALSE]

At(h, pc) == host[h].pc = pc
Job(h) == host[h].job
Working(h, o) == At(h, "working") /\ Job(h) = o
Running(h) == host[h].pc \notin {"new", "off"}

\* The row heartbeat and release look for; they do not look at its expiry.
HasLock(h) == lock.owner = h

Goto(h, pc) == host' = [host EXCEPT ![h].pc = pc]

-----------------------------------------------------------------------------

\* start: _acquire_profile_lock inserts the row or takes over an expired one;
\* a live one refuses the host.
Start(h) ==
    /\ At(h, "new")
    /\ ~ lock.live
    /\ lock' = [owner |-> h, live |-> TRUE]
    /\ Goto(h, "loop")
    /\ UNCHANGED <<op, raises>>

\* Variant of Queued: only the head of the list is looked at.
QueuedHead ==
    {o \in Ops : op[o].state = "QUEUED" /\ \A p \in Ops : p < o => op[p].state = "DONE"}

\* Variant of Abandoned: expiry is not looked at.
AbandonedOrHeld == {o \in Ops : op[o].state = "RUNNING" /\ op[o].owner # NoHost}

Queued == {o \in Ops : op[o].state = "QUEUED"}
Abandoned == {o \in Ops : op[o].state = "RUNNING" /\ op[o].owner # NoHost /\ ~ op[o].live}

\* _next_work: the oldest QUEUED operation, otherwise the oldest abandoned one.
NextWork(h) ==
    /\ At(h, "loop") /\ ~ host[h].shutdown
    /\ \E work \in {IF Queued # {} THEN Queued ELSE Abandoned} :
         IF work = {}
         THEN Goto(h, "idle")
         ELSE host' = [host EXCEPT ![h] = [@ EXCEPT !.pc = "heartbeat", !.job = Min(work)]]
    /\ UNCHANGED <<lock, op, raises>>

\* _heartbeat_lock: the only renewal of the worker_locks row.  A lost row asks
\* for shutdown; run_once goes on.
HeartbeatLock(h) ==
    /\ At(h, "heartbeat")
    /\ IF HasLock(h)
       THEN lock' = [lock EXCEPT !.live = TRUE] /\ Goto(h, "renew")
       ELSE /\ host' = [host EXCEPT ![h] = [@ EXCEPT !.pc = "renew", !.shutdown = TRUE]]
            /\ UNCHANGED lock
    /\ UNCHANGED <<op, raises>>

\* The rest of _heartbeat: the host's own lease rows of the operation are
\* renewed, expired or not.
HeartbeatLeases(h) ==
    /\ At(h, "renew")
    /\ op' = [op EXCEPT ![Job(h)].live = (@ \/ op[Job(h)].owner = h)]
    /\ Goto(h, "execute")
    /\ UNCHANGED <<lock, raises>>

-----------------------------------------------------------------------------
(* run_once: execute_one, and what becomes of its outcome.                 *)

\* An outcome, not an exception: the failure budget is reset.
Outcome(h) ==
    host' = [host EXCEPT ![h] = [@ EXCEPT !.pc = "loop", !.job = NoOp, !.failures = 0,
                                          !.quiet = FALSE]]

Held(o) == op[o].owner # NoHost /\ op[o].live

\* SKIPPED_BUSY, SKIPPED_TERMINAL or SKIPPED_PAUSED
Skipped(h) ==
    /\ At(h, "execute")
    /\ op[Job(h)].state \in {"PAUSED", "DONE"} \/ Held(Job(h)) \/ Job(h) \in Blocked
    /\ Outcome(h)
    /\ UNCHANGED <<lock, op, raises>>

\* Variant of Claim: whoever holds the operation's lease.
ClaimAnyway(h) ==
    /\ At(h, "execute")
    /\ op[Job(h)].state \in {"QUEUED", "RUNNING"}
    /\ Job(h) \notin Blocked
    /\ op' = [op EXCEPT ![Job(h)] = [state |-> "RUNNING", owner |-> h, live |-> TRUE]]
    /\ host' = [host EXCEPT ![h] = [@ EXCEPT
                  !.pc = "working", !.late = IF HasLock(h) THEN 0 ELSE host[h].late + 1]]
    /\ UNCHANGED <<lock, raises>>

\* _claim of the engine, as far as the host can tell.
Claim(h) ==
    /\ At(h, "execute")
    /\ op[Job(h)].state \in {"QUEUED", "RUNNING"}
    /\ ~ Held(Job(h)) /\ Job(h) \notin Blocked
    /\ op' = [op EXCEPT ![Job(h)] = [state |-> "RUNNING", owner |-> h, live |-> TRUE]]
    /\ host' = [host EXCEPT ![h] = [@ EXCEPT
                  !.pc = "working", !.late = IF HasLock(h) THEN 0 ELSE host[h].late + 1]]
    /\ UNCHANGED <<lock, raises>>

\* A fenced end of the run: terminal, or PAUSED on shutdown, leases released.
Finish(h) ==
    /\ At(h, "working")
    /\ op[Job(h)].owner = h /\ op[Job(h)].live
    /\ \E end \in {"DONE"} \cup (IF host[h].shutdown THEN {"PAUSED"} ELSE {}) :
         op' = [op EXCEPT ![Job(h)] = [state |-> end, owner |-> NoHost, live |-> FALSE]]
    /\ Outcome(h)
    /\ UNCHANGED <<lock, raises>>

\* Variant of Raise: the operation's lease is released on the way out.
RaiseReleasing(h) ==
    /\ \/ At(h, "execute") \/ At(h, "working")
    /\ raises < MaxRaises
    /\ raises' = raises + 1
    /\ host' = [host EXCEPT ![h] = [@ EXCEPT !.pc = "loop", !.job = NoOp, !.quiet = FALSE]]
    /\ op' = [op EXCEPT ![Job(h)] = [@ EXCEPT !.owner = NoHost, !.live = FALSE]]
    /\ UNCHANGED lock

\* An exception before the claim or, leases still held, after it; the
\* MaxFailures-th in a row pauses the operation, whoever works on it by now
\* (_pause_operation is not fenced).
Raise(h) ==
    /\ \/ At(h, "execute") \/ At(h, "working")
    /\ raises < MaxRaises
    /\ raises' = raises + 1
    /\ LET exhausted == host[h].failures + 1 >= MaxFailures IN
       /\ host' = [host EXCEPT ![h] = [@ EXCEPT
                     !.pc = "loop", !.job = NoOp, !.quiet = FALSE,
                     !.failures = IF exhausted THEN 0 ELSE host[h].failures + 1]]
       /\ op' = IF exhausted /\ op[Job(h)].state # "DONE"
                THEN [op EXCEPT ![Job(h)].state = "PAUSED"] ELSE op
    /\ UNCHANGED <<lock>>

-----------------------------------------------------------------------------

\* Nothing to do: the first silence waits for the rest of the quiet period.
Wait(h) ==
    /\ At(h, "idle") /\ ~ host[h].quiet
    /\ \E woken \in BOOLEAN :
         host' = [host EXCEPT ![h] = [@ EXCEPT !.pc = "loop", !.quiet = ~ woken]]
    /\ UNCHANGED <<lock, op, raises>>

\* Silence for the quiet period, or shutdown: release the lock if it is still owned.
Exit(h) ==
    /\ \/ At(h, "idle") /\ host[h].quiet
       \/ At(h, "loop") /\ host[h].shutdown
    /\ host' = [host EXCEPT ![h] = Process("off")]
    /\ lock' = IF HasLock(h) THEN NoLock ELSE lock
    /\ UNCHANGED <<op, raises>>

RequestShutdown(h) ==
    /\ Running(h) /\ ~ host[h].shutdown
    /\ host' = [host EXCEPT ![h].shutdown = TRUE]
    /\ UNCHANGED <<lock, op, raises>>

\* The process dies; nothing is released.
Die(h) ==
    /\ Running(h)
    /\ host' = [host EXCEPT ![h] = Process("off")]
    /\ UNCHANGED <<lock, op, raises>>

\* Time passes.  A run renews its operation's lease with pulses; nothing
\* renews the lock while it lasts.
ExpireLock ==
    /\ lock.live
    /\ \A h \in Hosts : Running(h) /\ HasLock(h) => host[h].pc \in Slow
    /\ lock' = [lock EXCEPT !.live = FALSE]
    /\ UNCHANGED <<op, host, raises>>

ExpireLease(o) ==
    /\ op[o].live
    /\ \A h \in Hosts :
         Running(h) /\ op[o].owner = h => host[h].pc \in Slow /\ ~ Working(h, o)
    /\ op' = [op EXCEPT ![o].live = FALSE]
    /\ UNCHANGED <<lock, host, raises>>

-----------------------------------------------------------------------------

Init ==
    /\ lock = NoLock
    /\ op = [o \in Ops |-> [state |-> "QUEUED", owner |-> NoHost, live |-> FALSE]]
    /\ host = [h \in Hosts |-> Process("new")]
    /\ raises = 0

Loop(h) ==
    \/ NextWork(h) \/ HeartbeatLock(h) \/ HeartbeatLeases(h) \/ Skipped(h) \/ Claim(h)
    \/ Finish(h) \/ Wait(h) \/ Exit(h)

Next ==
    \/ \E h \in Hosts : Loop(h) \/ Start(h) \/ Raise(h) \/ RequestShutdown(h) \/ Die(h)
    \/ ExpireLock \/ \E o \in Ops : ExpireLease(o)

Spec == Init /\ [][Next]_vars

\* A host that runs goes on, and an operation's effects end.
FairSpec == Spec /\ \A h \in Hosts : WF_vars(Loop(h))

-----------------------------------------------------------------------------

\* The type of every variable.
TypeOK ==
    /\ lock \in [owner : Hosts \cup {NoHost}, live : BOOLEAN]
    /\ op \in [Ops -> [state : States, owner : Hosts \cup {NoHost}, live : BOOLEAN]]
    /\ \A h \in Hosts :
         /\ host[h].pc \in Pcs
         /\ host[h].job \in Ops \cup {NoOp}
         /\ host[h].failures \in 0..(MaxFailures - 1)
    /\ raises \in 0..MaxRaises

\* Two hosts are never inside execute_one of the same operation.
OneExecutor ==
    \A g, h \in Hosts : \A o \in Ops : Working(g, o) /\ Working(h, o) => g = h

\* A host that has lost the worker_locks row claims at most two operations
\* more: one it had checked the lock for, and one before the failed check
\* takes effect.
LateHostStops == \A h \in Hosts : host[h].late <= 2

\* Whatever becomes of the worker_locks row (_heartbeat_lock), hosts keep apart: an
\* operation has one executor, and a host that lost the row soon leaves the rest alone.
HostsApart == OneExecutor /\ LateHostStops

\* A RUNNING operation has a lease row, so that when its executor is gone
\* _next_work finds it by its expired leases.
RunningIsFindable == \A o \in Ops : op[o].state = "RUNNING" => op[o].owner # NoHost

\* A host is idle, or gone, again and again: it does not poll an operation it
\* can only skip.
Quiesces == \A h \in Hosts : []<>(At(h, "idle") \/ ~ Running(h))

\* While a host runs undisturbed, a queued operation does not stay queued.
QueuedIsTaken ==
    \A o \in Ops : \A h \in Hosts :
        op[o].state = "QUEUED" /\ At(h, "loop") ~> op[o].state # "QUEUED" \/ At(h, "off")

=============================================================================
