------------------------------- MODULE Leases -------------------------------
(***************************************************************************)
(* The operation_leases table (operations/repositories.py, class           *)
(* LeaseRepository) as the engine's runs use it.                           *)
(*                                                                         *)
(* One row per resource key.  A run (one worker id executing one           *)
(* operation) remembers the revisions it was granted and proves ownership  *)
(* with them, in the same BEGIN IMMEDIATE transaction as the write it      *)
(* guards; each action below is one such transaction, or a step of time.   *)
(*                                                                         *)
(* expires_at is only ever compared with the current time, so a row keeps  *)
(* the time it has left: 0 is `expires_at <= now'.                         *)
(***************************************************************************)
EXTENDS Integers

CONSTANTS Workers,    \* worker ids; a worker runs one operation at a time
          Ops,        \* operation ids
          Resources,  \* resource keys
          FirstKeys,  \* per operation: what every claim of it acquires
          NoOp,       \* the operation of an idle worker
          NoLease,    \* a resource key with no row
          TTL,        \* lease_ttl_seconds, in units of Tick
          MaxRevision \* bound: a row is taken over at most this often

Lease == [op : Ops, owner : Workers, revision : Nat \ {0}, left : 0..TTL]

ASSUME TTLAssumption == TTL \in Nat \ {0}
ASSUME NoOpAssumption == NoOp \notin Ops
ASSUME NoLeaseAssumption == NoLease \notin Lease
ASSUME FirstKeysAssumption == FirstKeys \in [Ops -> (SUBSET Resources) \ {{}}]
ASSUME BoundAssumption == MaxRevision \in Nat

VARIABLES
    row,      \* operation_leases: resource key -> row
    barrier,  \* operations whose state is RECOVERY_REQUIRED
    job,      \* the operation each worker is executing
    held,     \* the revisions its run was granted (0: not granted)
    \* history, read by no action:
    lost,     \* per run: resources granted to another run meanwhile
    retained  \* per barrier operation: what its last run held

vars == <<row, barrier, job, held, lost, retained>>

-----------------------------------------------------------------------------

Live(r) == row[r] # NoLease /\ row[r].left > 0

\* Variant of Acquirable: takeover of any expired row, barrier or not.
AcquirableExpired(r) == row[r] # NoLease => row[r].left = 0

\* acquire: a missing row is inserted, an expired one is taken over unless
\* its operation is RECOVERY_REQUIRED.
Acquirable(r) ==
    row[r] # NoLease => row[r].left = 0 /\ row[r].op \notin barrier

\* The upsert's lease_revision: 1 on insert, one more on takeover.
NextRevision(r) == IF row[r] = NoLease THEN 1 ELSE row[r].revision + 1

Granted(w) == {r \in Resources : held[w][r] # 0}

\* Variant of AssertOwned: the owner is not compared.
AssertOwnedByOperation(w, r) ==
    row[r] # NoLease /\ row[r].op = job[w] /\ row[r].revision = held[w][r] /\ row[r].left > 0

\* assert_owned for one key, and for every key a run holds (engine._fence).
AssertOwned(w, r) ==
    /\ row[r] # NoLease
    /\ row[r].op = job[w]
    /\ row[r].owner = w
    /\ row[r].revision = held[w][r]
    /\ row[r].left > 0

Fence(w) == \A r \in Granted(w) : AssertOwned(w, r)

NothingHeld == [r \in Resources |-> 0]

EndRun(w) ==
    /\ job' = [job EXCEPT ![w] = NoOp]
    /\ held' = [held EXCEPT ![w] = NothingHeld]
    /\ lost' = [lost EXCEPT ![w] = {}]

-----------------------------------------------------------------------------

Init ==
    /\ row = [r \in Resources |-> NoLease]
    /\ barrier = {}
    /\ job = [w \in Workers |-> NoOp]
    /\ held = [w \in Workers |-> NothingHeld]
    /\ lost = [w \in Workers |-> {}]
    /\ retained = [o \in Ops |-> {}]

\* acquire_many: the claim of an idle worker, which asks for at least
\* initial_resources(), or a running one's next phase.  What is already held
\* is fenced first; any conflict aborts the transaction.
AcquireMany(w, o, keys) ==
    LET missing == keys \ Granted(w) IN
    /\ job[w] \in {NoOp, o}
    /\ job[w] = NoOp => o \notin barrier /\ FirstKeys[o] \subseteq keys
    /\ Fence(w)
    /\ \A r \in missing : Acquirable(r) /\ NextRevision(r) <= MaxRevision
    /\ row' = [r \in Resources |->
                 IF r \in missing
                 THEN [op |-> o, owner |-> w,
                       revision |-> NextRevision(r), left |-> TTL]
                 ELSE row[r]]
    /\ job' = [job EXCEPT ![w] = o]
    /\ held' = [held EXCEPT ![w] =
                  [r \in Resources |->
                     IF r \in missing THEN NextRevision(r) ELSE @[r]]]
    /\ lost' = [v \in Workers |->
                  IF v = w THEN lost[v]
                  ELSE lost[v] \cup (missing \cap Granted(v))]
    /\ UNCHANGED <<barrier, retained>>

\* A pulse inside an effect: fence everything, then heartbeat every key.
Pulse(w) ==
    /\ job[w] # NoOp
    /\ Fence(w)
    /\ row' = [r \in Resources |->
                 IF r \in Granted(w) THEN [row[r] EXCEPT !.left = TTL]
                 ELSE row[r]]
    /\ UNCHANGED <<barrier, job, held, lost, retained>>

\* Variant of RenewOwn: the host also renews rows of a RECOVERY_REQUIRED operation.
RenewBarrier(w, o) ==
    /\ job[w] = NoOp
    /\ row' = [r \in Resources |->
                 IF row[r] # NoLease /\ row[r].op = o /\ row[r].owner = w
                 THEN [row[r] EXCEPT !.left = TTL]
                 ELSE row[r]]
    /\ row' # row
    /\ UNCHANGED <<barrier, job, held, lost, retained>>

\* WorkerHost._heartbeat before a run: renews the worker's own rows of the
\* operation it is about to execute.  Expiry is not looked at.
RenewOwn(w, o) ==
    /\ job[w] = NoOp
    /\ o \notin barrier
    /\ row' = [r \in Resources |->
                 IF row[r] # NoLease /\ row[r].op = o /\ row[r].owner = w
                 THEN [row[r] EXCEPT !.left = TTL]
                 ELSE row[r]]
    /\ row' # row
    /\ UNCHANGED <<barrier, job, held, lost, retained>>

\* A terminal other than RECOVERY_REQUIRED, or a pause: fence, then release
\* every held row with the revision it was granted under.
ReleaseAll(w) ==
    /\ job[w] \in Ops \ barrier
    /\ Fence(w)
    /\ row' = [r \in Resources |-> IF r \in Granted(w) THEN NoLease ELSE row[r]]
    /\ EndRun(w)
    /\ UNCHANGED <<barrier, retained>>

\* RECOVERY_REQUIRED: fence, record the terminal, keep the rows as barriers.
RequireRecovery(w) ==
    /\ job[w] \in Ops \ barrier
    /\ Fence(w)
    /\ barrier' = barrier \cup {job[w]}
    /\ retained' = [retained EXCEPT ![job[w]] = Granted(w)]
    /\ EndRun(w)
    /\ UNCHANGED row

\* Process death, a lost fence or any exception that leaves execute_one.
Abandon(w) ==
    /\ job[w] # NoOp
    /\ EndRun(w)
    /\ UNCHANGED <<row, barrier, retained>>

Tick ==
    /\ \E r \in Resources : Live(r)
    /\ row' = [r \in Resources |->
                 IF Live(r) THEN [row[r] EXCEPT !.left = @ - 1] ELSE row[r]]
    /\ UNCHANGED <<barrier, job, held, lost, retained>>

Next ==
    \/ \E w \in Workers :
         \/ \E o \in Ops, keys \in (SUBSET Resources) \ {{}} : AcquireMany(w, o, keys)
         \/ \E o \in Ops : RenewOwn(w, o)
         \/ Pulse(w)
         \/ ReleaseAll(w)
         \/ RequireRecovery(w)
         \/ Abandon(w)
    \/ Tick

Spec == Init /\ [][Next]_vars

-----------------------------------------------------------------------------

\* The type of every variable.
TypeOK ==
    /\ row \in [Resources -> Lease \cup {NoLease}]
    /\ barrier \subseteq Ops
    /\ job \in [Workers -> Ops \cup {NoOp}]
    /\ held \in [Workers -> [Resources -> Nat]]
    /\ lost \in [Workers -> SUBSET Resources]
    /\ retained \in [Ops -> SUBSET Resources]

\* A run that passes assert_owned for a key has owned that key without
\* interruption since it was granted it: nobody was granted it in between,
\* although release restarts revisions and takeover reuses the row.
FenceSound ==
    \A w \in Workers : \A r \in Granted(w) : AssertOwned(w, r) => r \notin lost[w]

\* operation_id and owner alone identify the grant: a row that names a run
\* and its operation carries the revision the run was granted.  (Modules that
\* build on the lease table may leave revisions out.)
RevisionImplied ==
    \A w \in Workers : \A r \in Granted(w) :
        row[r] # NoLease /\ row[r].owner = w => row[r].revision = held[w][r]

\* Everything an operation held when it became RECOVERY_REQUIRED still
\* belongs to it: the barrier keeps every one of the keys, for ever.
BarrierHeld ==
    \A o \in barrier : \A r \in retained[o] : row[r] # NoLease /\ row[r].op = o

\* No step renews, re-grants or deletes a row of a RECOVERY_REQUIRED
\* operation: only time passes for it.
BarrierFrozen ==
    [][\A r \in Resources :
         row[r] # NoLease /\ row[r].op \in barrier =>
            /\ row'[r] # NoLease
            /\ row'[r].left <= row[r].left
            /\ row'[r] = [row[r] EXCEPT !.left = row'[r].left]]_vars

=============================================================================
