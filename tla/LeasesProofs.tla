---------------------------- MODULE LeasesProofs ----------------------------
(***************************************************************************)
(* The lease table's safety for every set of workers, operations and       *)
(* resource keys, every TTL and every bound on revisions.                  *)
(*                                                                         *)
(* FenceSound, RevisionImplied and BarrierHeld are not inductive one by    *)
(* one.  What makes them so is that a row naming a worker was written by   *)
(* that worker's current run (GrantCurrent), that a run keeps the keys     *)
(* every claim of its operation starts with (ClaimKept), and hence that a  *)
(* run of a RECOVERY_REQUIRED operation has lost one of them (Superseded). *)
(***************************************************************************)
EXTENDS Leases, TLAPS

\* An idle worker holds nothing, and a run only loses what it was granted.
IdleHoldsNothing == \A w \in Workers : job[w] = NoOp => held[w] = NothingHeld
LostWasGranted == \A w \in Workers : lost[w] \subseteq Granted(w)

\* A row naming a running worker under a key its run was granted is that
\* grant: same operation, same revision, never granted to anyone since.
GrantCurrent ==
    \A w \in Workers : \A r \in Granted(w) :
        row[r] # NoLease /\ row[r].owner = w =>
            /\ row[r].op = job[w]
            /\ row[r].revision = held[w][r]
            /\ r \notin lost[w]

\* A run holds at least the keys every claim of its operation acquires.
ClaimKept == \A w \in Workers : job[w] # NoOp => FirstKeys[job[w]] \subseteq Granted(w)

\* A run whose operation is RECOVERY_REQUIRED lost one of those keys to the
\* run that put it there.
Superseded ==
    \A w \in Workers : job[w] \in barrier =>
        \E r \in FirstKeys[job[w]] :
            row[r] # NoLease /\ row[r].op = job[w] /\ row[r].owner # w

IInv ==
    /\ TypeOK
    /\ IdleHoldsNothing
    /\ LostWasGranted
    /\ GrantCurrent
    /\ ClaimKept
    /\ Superseded
    /\ BarrierHeld

-----------------------------------------------------------------------------

\* The fence refuses a run whose operation is already a barrier: the worker
\* that has been superseded can renew, release and escalate nothing.
LEMMA FenceRefusesBarrier ==
    ASSUME IInv, NEW w \in Workers, job[w] # NoOp, Fence(w)
    PROVE  job[w] \in Ops /\ job[w] \notin barrier
<1>1. job[w] \in Ops
  BY DEF IInv, TypeOK
<1>2. ASSUME job[w] \in barrier PROVE FALSE
  <2>1. PICK r \in FirstKeys[job[w]] : row[r] # NoLease /\ row[r].owner # w
    BY <1>2 DEF IInv, Superseded
  <2>2. r \in Granted(w)
    BY <1>1, <2>1 DEF IInv, ClaimKept
  <2> QED BY <2>1, <2>2 DEF Fence, AssertOwned
<1> QED BY <1>1, <1>2

\* What the end of a run leaves behind: its worker idle, the others as they were.
LEMMA EndRunFacts ==
    ASSUME IInv, NEW w \in Workers, EndRun(w)
    PROVE  /\ job' \in [Workers -> Ops \cup {NoOp}]
           /\ held' \in [Workers -> [Resources -> Nat]]
           /\ lost' \in [Workers -> SUBSET Resources]
           /\ job'[w] = NoOp
           /\ held'[w] = NothingHeld
           /\ \A v \in Workers : v # w => job'[v] = job[v] /\ held'[v] = held[v]
                                          /\ lost'[v] = lost[v]
           /\ Granted(w)' = {}
           /\ \A v \in Workers : v # w => Granted(v)' = Granted(v)
<1>1. NothingHeld \in [Resources -> Nat]
  BY DEF NothingHeld
<1>2. /\ job' \in [Workers -> Ops \cup {NoOp}]
      /\ held' \in [Workers -> [Resources -> Nat]]
      /\ lost' \in [Workers -> SUBSET Resources]
      /\ job'[w] = NoOp
      /\ held'[w] = NothingHeld
      /\ \A v \in Workers : v # w => job'[v] = job[v] /\ held'[v] = held[v]
                                     /\ lost'[v] = lost[v]
  BY <1>1 DEF IInv, TypeOK, EndRun
<1> QED BY <1>2 DEF Granted, NothingHeld

\* The empty table of a fresh database satisfies the invariant.
LEMMA InitInv == Init => IInv
<1> SUFFICES ASSUME Init PROVE IInv
  OBVIOUS
<1>1. \A w \in Workers : Granted(w) = {}
  BY DEF Init, Granted, NothingHeld
<1> QED
  BY <1>1, NoOpAssumption DEF Init, IInv, TypeOK, IdleHoldsNothing, LostWasGranted,
     GrantCurrent, ClaimKept, Superseded, BarrierHeld, NothingHeld

\* Renewing, or letting time pass, keeps everything a row says but the time
\* it has left.
LEMMA OnlyTimeLeft ==
    ASSUME IInv, UNCHANGED <<barrier, job, held, lost, retained>>,
           row' \in [Resources -> Lease \cup {NoLease}],
           \A r \in Resources :
               /\ row'[r] = NoLease <=> row[r] = NoLease
               /\ row[r] # NoLease => /\ row'[r].op = row[r].op
                                      /\ row'[r].owner = row[r].owner
                                      /\ row'[r].revision = row[r].revision
    PROVE  IInv'
<1>1. \A w \in Workers : Granted(w)' = Granted(w) /\ Granted(w) \subseteq Resources
  BY DEF Granted
<1>2. TypeOK' /\ IdleHoldsNothing' /\ LostWasGranted' /\ ClaimKept'
  BY <1>1 DEF IInv, TypeOK, IdleHoldsNothing, LostWasGranted, ClaimKept, NothingHeld
<1>3. GrantCurrent'
  BY <1>1 DEF IInv, GrantCurrent
<1>4. Superseded'
  BY FirstKeysAssumption DEF IInv, Superseded, TypeOK
<1>5. BarrierHeld'
  BY DEF IInv, BarrierHeld, TypeOK
<1> QED BY <1>2, <1>3, <1>4, <1>5 DEF IInv

\* acquire_many preserves the invariant: a row changes hands only when it has
\* expired and is no barrier, and every run that held it is marked.
LEMMA AcquireManyInv ==
    ASSUME IInv, NEW w \in Workers, NEW o \in Ops, NEW keys \in SUBSET Resources,
           AcquireMany(w, o, keys)
    PROVE  IInv'
<1> DEFINE missing == keys \ Granted(w)
<1>0. job[w] \in {NoOp, o} /\ (job[w] = NoOp => o \notin barrier /\ FirstKeys[o] \subseteq keys)
  BY DEF AcquireMany
<1>1. o \notin barrier
  BY <1>0, FenceRefusesBarrier, NoOpAssumption DEF AcquireMany
<1>2. \A r \in missing : NextRevision(r) \in Nat \ {0}
  BY DEF IInv, TypeOK, Lease, NextRevision
<1>3. /\ row' \in [Resources -> Lease \cup {NoLease}]
      /\ job' \in [Workers -> Ops \cup {NoOp}]
      /\ held' \in [Workers -> [Resources -> Nat]]
      /\ lost' \in [Workers -> SUBSET Resources]
  <2>1. row' \in [Resources -> Lease \cup {NoLease}]
    BY <1>2, TTLAssumption DEF IInv, TypeOK, AcquireMany, Lease
  <2>2. job' \in [Workers -> Ops \cup {NoOp}]
    BY DEF IInv, TypeOK, AcquireMany
  <2>3. held' \in [Workers -> [Resources -> Nat]]
    BY <1>2 DEF IInv, TypeOK, AcquireMany
  <2>4. lost' \in [Workers -> SUBSET Resources]
    BY DEF IInv, TypeOK, AcquireMany
  <2> QED BY <2>1, <2>2, <2>3, <2>4
<1>4. TypeOK'
  BY <1>3 DEF IInv, TypeOK, AcquireMany
<1>5. /\ job'[w] = o
      /\ \A r \in Resources : held'[w][r] = IF r \in missing THEN NextRevision(r) ELSE held[w][r]
      /\ \A v \in Workers : v # w => job'[v] = job[v] /\ held'[v] = held[v]
      /\ lost'[w] = lost[w]
      /\ \A v \in Workers : v # w => lost'[v] = lost[v] \cup (missing \cap Granted(v))
      /\ \A r \in missing :
          /\ row'[r] = [op |-> o, owner |-> w, revision |-> NextRevision(r), left |-> TTL]
          /\ row[r] # NoLease => row[r].op \notin barrier
      /\ \A r \in Resources \ missing : row'[r] = row[r]
      /\ barrier' = barrier /\ retained' = retained
  BY DEF IInv, TypeOK, AcquireMany, Acquirable
<1>6. /\ Granted(w)' = Granted(w) \cup missing
      /\ \A v \in Workers : v # w => Granted(v)' = Granted(v)
  BY <1>2, <1>5 DEF Granted
<1>7. \A r \in missing : row'[r] # NoLease /\ row'[r].op = o /\ row'[r].owner = w
                         /\ row'[r].revision = NextRevision(r)
  <2> SUFFICES ASSUME NEW r \in missing
               PROVE  row'[r] # NoLease /\ row'[r].op = o /\ row'[r].owner = w
                      /\ row'[r].revision = NextRevision(r)
    OBVIOUS
  <2>1. row'[r] = [op |-> o, owner |-> w, revision |-> NextRevision(r), left |-> TTL]
    BY <1>5
  <2>2. row'[r] \in Lease
    BY <1>2, <2>1, TTLAssumption DEF Lease
  <2>3. row'[r] # NoLease
    BY <2>2, NoLeaseAssumption
  <2> QED BY <2>1, <2>3
<1>8. IdleHoldsNothing' /\ LostWasGranted'
  BY <1>5, <1>6, NoOpAssumption DEF IInv, IdleHoldsNothing, LostWasGranted, NothingHeld
<1>9. GrantCurrent'
  <2> SUFFICES ASSUME NEW v \in Workers, NEW r \in Granted(v)',
                      row'[r] # NoLease, row'[r].owner = v
               PROVE  row'[r].op = job'[v] /\ row'[r].revision = held'[v][r] /\ r \notin lost'[v]
    BY DEF GrantCurrent
  <2>0. r \in Resources
    BY DEF Granted
  <2>1. CASE v = w /\ r \in missing
    <3>1. r \notin lost[w]
      BY <2>1 DEF IInv, LostWasGranted
    <3> QED BY <2>1, <1>5, <1>7, <2>0, <3>1
  <2>2. CASE v = w /\ r \notin missing
    <3>1. r \in Granted(w) /\ row[r] # NoLease /\ row[r].owner = w
      BY <2>2, <2>0, <1>5, <1>6
    <3>2. job[w] = o
      BY <3>1, <1>0, NoOpAssumption DEF IInv, IdleHoldsNothing, Granted, NothingHeld
    <3> QED BY <2>2, <2>0, <1>5, <3>1, <3>2 DEF IInv, GrantCurrent
  <2>3. CASE v # w
    <3>1. r \notin missing
      BY <2>3, <1>7
    <3> QED BY <2>3, <3>1, <2>0, <1>5, <1>6 DEF IInv, GrantCurrent
  <2> QED BY <2>1, <2>2, <2>3
<1>10. ClaimKept'
  <2> SUFFICES ASSUME NEW v \in Workers, job'[v] # NoOp
               PROVE  FirstKeys[job'[v]] \subseteq Granted(v)'
    BY DEF ClaimKept
  <2>1. CASE v = w
    <3>1. FirstKeys[o] \subseteq Granted(w) \cup keys
      BY <1>0, NoOpAssumption DEF IInv, ClaimKept
    <3> QED BY <2>1, <3>1, <1>5, <1>6
  <2>2. CASE v # w
    BY <2>2, <1>5, <1>6 DEF IInv, ClaimKept
  <2> QED BY <2>1, <2>2
<1>11. Superseded'
  <2> SUFFICES ASSUME NEW v \in Workers, job'[v] \in barrier'
               PROVE  \E r \in FirstKeys[job'[v]] :
                          row'[r] # NoLease /\ row'[r].op = job'[v] /\ row'[r].owner # v
    BY DEF Superseded
  <2>1. v # w /\ job'[v] = job[v] /\ job[v] \in barrier
    BY <1>1, <1>5
  <2>2. PICK r \in FirstKeys[job[v]] : row[r] # NoLease /\ row[r].op = job[v] /\ row[r].owner # v
    BY <2>1 DEF IInv, Superseded
  <2>3. r \in Resources
    BY <2>1, <2>2, FirstKeysAssumption DEF IInv, TypeOK
  <2>4. r \notin missing
    BY <2>1, <2>2, <1>5
  <2> QED BY <2>1, <2>2, <2>3, <2>4, <1>5
<1>12. BarrierHeld'
  <2> SUFFICES ASSUME NEW b \in barrier, NEW r \in retained[b]
               PROVE  row'[r] # NoLease /\ row'[r].op = b
    BY <1>5 DEF BarrierHeld
  <2>1. r \in Resources /\ row[r] # NoLease /\ row[r].op = b
    BY DEF IInv, TypeOK, BarrierHeld
  <2>2. r \notin missing
    BY <2>1, <1>5
  <2> QED BY <2>1, <2>2, <1>5
<1> QED BY <1>4, <1>8, <1>9, <1>10, <1>11, <1>12 DEF IInv

\* A pulse only extends rows whose ownership its fence has just proved.
LEMMA PulseInv ==
    ASSUME IInv, NEW w \in Workers, Pulse(w)
    PROVE  IInv'
<1>1. \A r \in Granted(w) : r \in Resources /\ row[r] \in Lease
  BY DEF IInv, TypeOK, Pulse, Fence, AssertOwned, Granted
<1>2. row' \in [Resources -> Lease \cup {NoLease}]
  BY <1>1, TTLAssumption DEF IInv, TypeOK, Pulse, Lease
<1>3. \A r \in Resources :
          /\ row'[r] = NoLease <=> row[r] = NoLease
          /\ row[r] # NoLease => /\ row'[r].op = row[r].op
                                 /\ row'[r].owner = row[r].owner
                                 /\ row'[r].revision = row[r].revision
  <2> SUFFICES ASSUME NEW r \in Resources, r \in Granted(w)
               PROVE  /\ row'[r] # NoLease /\ row[r] # NoLease
                      /\ row'[r].op = row[r].op
                      /\ row'[r].owner = row[r].owner
                      /\ row'[r].revision = row[r].revision
    BY DEF Pulse
  <2>1. row'[r] = [row[r] EXCEPT !.left = TTL] /\ row[r] \in Lease
    BY <1>1 DEF Pulse
  <2>2. row'[r] \in Lease
    BY <2>1, TTLAssumption DEF Lease
  <2> QED BY <2>1, <2>2, NoLeaseAssumption DEF Lease
<1> QED BY <1>2, <1>3, OnlyTimeLeft DEF Pulse

\* The host's renewal extends rows by owner alone and still changes no ownership.
LEMMA RenewOwnInv ==
    ASSUME IInv, NEW w \in Workers, NEW o \in Ops, RenewOwn(w, o)
    PROVE  IInv'
<1> DEFINE own(r) == row[r] # NoLease /\ row[r].op = o /\ row[r].owner = w
<1>1. \A r \in Resources : own(r) => row[r] \in Lease
  BY DEF IInv, TypeOK
<1>2. row' \in [Resources -> Lease \cup {NoLease}]
  BY <1>1, TTLAssumption DEF IInv, TypeOK, RenewOwn, Lease
<1>3. \A r \in Resources :
          /\ row'[r] = NoLease <=> row[r] = NoLease
          /\ row[r] # NoLease => /\ row'[r].op = row[r].op
                                 /\ row'[r].owner = row[r].owner
                                 /\ row'[r].revision = row[r].revision
  <2> SUFFICES ASSUME NEW r \in Resources, own(r)
               PROVE  /\ row'[r] # NoLease
                      /\ row'[r].op = row[r].op
                      /\ row'[r].owner = row[r].owner
                      /\ row'[r].revision = row[r].revision
    BY DEF RenewOwn
  <2>1. row'[r] = [row[r] EXCEPT !.left = TTL] /\ row[r] \in Lease
    BY <1>1 DEF RenewOwn
  <2>2. row'[r] \in Lease
    BY <2>1, TTLAssumption DEF Lease
  <2> QED BY <2>1, <2>2, NoLeaseAssumption DEF Lease
<1> QED BY <1>2, <1>3, OnlyTimeLeft DEF RenewOwn

\* The passing of time only takes time off rows that have some left.
LEMMA TickInv ==
    ASSUME IInv, Tick
    PROVE  IInv'
<1>1. \A r \in Resources : Live(r) => row[r] \in Lease /\ row[r].left \in 1..TTL
  BY TTLAssumption DEF IInv, TypeOK, Live, Lease
<1>2. row' \in [Resources -> Lease \cup {NoLease}]
  BY <1>1, TTLAssumption DEF IInv, TypeOK, Tick, Lease
<1>3. \A r \in Resources :
          /\ row'[r] = NoLease <=> row[r] = NoLease
          /\ row[r] # NoLease => /\ row'[r].op = row[r].op
                                 /\ row'[r].owner = row[r].owner
                                 /\ row'[r].revision = row[r].revision
  <2> SUFFICES ASSUME NEW r \in Resources, Live(r)
               PROVE  /\ row'[r] # NoLease /\ row[r] # NoLease
                      /\ row'[r].op = row[r].op
                      /\ row'[r].owner = row[r].owner
                      /\ row'[r].revision = row[r].revision
    BY DEF Tick
  <2>1. row'[r] = [row[r] EXCEPT !.left = row[r].left - 1] /\ row[r] \in Lease
    BY <1>1 DEF Tick
  <2>2. row'[r] \in Lease
    BY <1>1, <2>1, TTLAssumption DEF Lease
  <2> QED BY <2>1, <2>2, NoLeaseAssumption DEF Lease, Live
<1> QED BY <1>2, <1>3, OnlyTimeLeft DEF Tick

\* Fenced release deletes rows no barrier and no current run needs.
LEMMA ReleaseAllInv ==
    ASSUME IInv, NEW w \in Workers, ReleaseAll(w)
    PROVE  IInv'
<1>1. EndRun(w) /\ Fence(w) /\ job[w] \in Ops /\ job[w] \notin barrier
      /\ barrier' = barrier /\ retained' = retained
  BY DEF ReleaseAll
<1>2. \A r \in Resources : /\ r \in Granted(w) => row'[r] = NoLease /\ row[r].op = job[w]
                           /\ r \notin Granted(w) => row'[r] = row[r]
  BY <1>1 DEF ReleaseAll, Fence, AssertOwned
<1>3. TypeOK'
  BY <1>1, EndRunFacts DEF IInv, TypeOK, ReleaseAll
<1>4. IdleHoldsNothing' /\ LostWasGranted'
  <2>1. lost'[w] = {}
    BY <1>1 DEF EndRun, IInv, TypeOK
  <2> QED BY <1>1, <2>1, EndRunFacts DEF IInv, IdleHoldsNothing, LostWasGranted, NothingHeld
<1>5. GrantCurrent'
  BY <1>1, <1>2, EndRunFacts DEF IInv, GrantCurrent, Granted
<1>6. ClaimKept'
  BY <1>1, EndRunFacts DEF IInv, ClaimKept
<1>7. Superseded'
  <2> SUFFICES ASSUME NEW v \in Workers, job'[v] \in barrier
               PROVE  \E r \in FirstKeys[job'[v]] :
                          row'[r] # NoLease /\ row'[r].op = job'[v] /\ row'[r].owner # v
    BY <1>1 DEF Superseded
  <2>1. v # w /\ job'[v] = job[v] /\ job[v] \in Ops
    BY <1>1, EndRunFacts, NoOpAssumption DEF IInv, TypeOK
  <2>2. PICK r \in FirstKeys[job[v]] : row[r] # NoLease /\ row[r].op = job[v] /\ row[r].owner # v
    BY <2>1 DEF IInv, Superseded
  <2>3. r \in Resources
    BY <2>1, FirstKeysAssumption
  <2> QED BY <1>1, <1>2, <2>1, <2>2, <2>3
<1>8. BarrierHeld'
  BY <1>1, <1>2 DEF IInv, BarrierHeld, TypeOK
<1> QED BY <1>3, <1>4, <1>5, <1>6, <1>7, <1>8 DEF IInv

\* A run that dies forgets its grants; the table keeps its rows.
LEMMA AbandonInv ==
    ASSUME IInv, NEW w \in Workers, EndRun(w), UNCHANGED <<row, barrier, retained>>
    PROVE  IInv'
<1>1. TypeOK'
  BY EndRunFacts DEF IInv, TypeOK
<1>2. IdleHoldsNothing' /\ LostWasGranted'
  <2>1. lost'[w] = {}
    BY DEF EndRun, IInv, TypeOK
  <2> QED BY <2>1, EndRunFacts DEF IInv, IdleHoldsNothing, LostWasGranted, NothingHeld
<1>3. GrantCurrent' /\ ClaimKept' /\ BarrierHeld'
  BY EndRunFacts DEF IInv, GrantCurrent, ClaimKept, BarrierHeld
<1>4. Superseded'
  <2> SUFFICES ASSUME NEW v \in Workers, job'[v] \in barrier
               PROVE  \E r \in FirstKeys[job'[v]] :
                          row[r] # NoLease /\ row[r].op = job'[v] /\ row[r].owner # v
    BY DEF Superseded
  <2>1. v # w /\ job'[v] = job[v]
    BY EndRunFacts, NoOpAssumption DEF IInv, TypeOK
  <2> QED BY <2>1 DEF IInv, Superseded
<1> QED BY <1>1, <1>2, <1>3, <1>4 DEF IInv

\* The RECOVERY_REQUIRED terminal turns what the run holds into the barrier.
LEMMA RequireRecoveryInv ==
    ASSUME IInv, NEW w \in Workers, RequireRecovery(w)
    PROVE  IInv'
<1> DEFINE o == job[w]
<1>1. EndRun(w) /\ Fence(w) /\ o \in Ops /\ o \notin barrier /\ row' = row
      /\ barrier' = barrier \cup {o} /\ retained' = [retained EXCEPT ![o] = Granted(w)]
  BY DEF RequireRecovery
<1>2. TypeOK'
  BY <1>1, EndRunFacts DEF IInv, TypeOK, Granted
<1>3. IdleHoldsNothing' /\ LostWasGranted'
  <2>1. lost'[w] = {}
    BY <1>1 DEF EndRun, IInv, TypeOK
  <2> QED BY <1>1, <2>1, EndRunFacts DEF IInv, IdleHoldsNothing, LostWasGranted, NothingHeld
<1>4. GrantCurrent' /\ ClaimKept'
  BY <1>1, EndRunFacts DEF IInv, GrantCurrent, ClaimKept
<1>5. Superseded'
  <2> SUFFICES ASSUME NEW v \in Workers, job'[v] \in barrier'
               PROVE  \E r \in FirstKeys[job'[v]] :
                          row'[r] # NoLease /\ row'[r].op = job'[v] /\ row'[r].owner # v
    BY DEF Superseded
  <2>1. v # w /\ job'[v] = job[v]
    BY <1>1, EndRunFacts, NoOpAssumption DEF IInv, TypeOK
  <2>2. CASE job[v] \in barrier
    BY <1>1, <2>1, <2>2 DEF IInv, Superseded
  <2>3. CASE job[v] = o
    <3>1. PICK r \in FirstKeys[o] : r \in Resources
      BY <1>1, FirstKeysAssumption
    <3>2. r \in Granted(w)
      BY <1>1, <3>1, NoOpAssumption DEF IInv, ClaimKept
    <3> QED BY <1>1, <2>1, <2>3, <3>1, <3>2 DEF Fence, AssertOwned
  <2> QED BY <1>1, <2>1, <2>2, <2>3
<1>6. BarrierHeld'
  <2> SUFFICES ASSUME NEW b \in barrier', NEW r \in retained'[b]
               PROVE  row[r] # NoLease /\ row[r].op = b
    BY <1>1 DEF BarrierHeld
  <2>1. CASE b = o
    BY <1>1, <2>1 DEF IInv, TypeOK, Fence, AssertOwned
  <2>2. CASE b # o
    BY <1>1, <2>2 DEF IInv, TypeOK, BarrierHeld
  <2> QED BY <2>1, <2>2
<1> QED BY <1>2, <1>3, <1>4, <1>5, <1>6 DEF IInv

\* Steps that change nothing preserve the invariant.
LEMMA StutterInv == IInv /\ UNCHANGED vars => IInv'
  BY DEF IInv, vars, TypeOK, IdleHoldsNothing, LostWasGranted, GrantCurrent, ClaimKept,
     Superseded, BarrierHeld, Granted, NothingHeld

\* Every transaction on the lease table preserves the inductive invariant.
LEMMA NextInv == IInv /\ [Next]_vars => IInv'
<1> SUFFICES ASSUME IInv, [Next]_vars PROVE IInv'
  OBVIOUS
<1>1. CASE Tick
  BY <1>1, TickInv
<1>2. ASSUME NEW w \in Workers, NEW o \in Ops, NEW keys \in (SUBSET Resources) \ {{}},
             AcquireMany(w, o, keys)
      PROVE  IInv'
  BY <1>2, AcquireManyInv
<1>3. ASSUME NEW w \in Workers, NEW o \in Ops, RenewOwn(w, o) PROVE IInv'
  BY <1>3, RenewOwnInv
<1>4. ASSUME NEW w \in Workers, Pulse(w) PROVE IInv'
  BY <1>4, PulseInv
<1>5. ASSUME NEW w \in Workers, ReleaseAll(w) PROVE IInv'
  BY <1>5, ReleaseAllInv
<1>6. ASSUME NEW w \in Workers, RequireRecovery(w) PROVE IInv'
  BY <1>6, RequireRecoveryInv
<1>7. ASSUME NEW w \in Workers, Abandon(w) PROVE IInv'
  BY <1>7, AbandonInv DEF Abandon
<1>8. CASE UNCHANGED vars
  BY <1>8, StutterInv
<1> QED BY <1>1, <1>2, <1>3, <1>4, <1>5, <1>6, <1>7, <1>8 DEF Next

\* The inductive invariant holds in every behaviour of the lease table.
THEOREM Invariance == Spec => []IInv
<1> QED BY InitInv, NextInv, PTL DEF Spec

-----------------------------------------------------------------------------

\* TypeOK holds of every behaviour of the lease table.
THEOREM TypeCorrect == Spec => []TypeOK
<1>1. IInv => TypeOK
  BY DEF IInv
<1> QED BY <1>1, Invariance, PTL

\* A fence that passes (assert_owned) proves uninterrupted ownership.
THEOREM FenceIsSound == Spec => []FenceSound
<1>1. IInv => FenceSound
  BY DEF IInv, GrantCurrent, FenceSound, AssertOwned
<1> QED BY <1>1, Invariance, PTL

\* operation_id and owner determine lease_revision while a run lasts, so
\* the engine's model may fence without it.
THEOREM RevisionIsImplied == Spec => []RevisionImplied
<1>1. IInv => RevisionImplied
  BY DEF IInv, GrantCurrent, RevisionImplied
<1> QED BY <1>1, Invariance, PTL

\* A RECOVERY_REQUIRED operation keeps every key it held.
THEOREM BarrierIsHeld == Spec => []BarrierHeld
<1>1. IInv => BarrierHeld
  BY DEF IInv
<1> QED BY <1>1, Invariance, PTL

\* No step renews, re-grants or deletes a row of a RECOVERY_REQUIRED
\* operation.  The pulse of a superseded run is where the invariant is
\* needed: its fence fails (FenceRefusesBarrier).
THEOREM BarrierIsFrozen == Spec => BarrierFrozen
<1> DEFINE Frozen(r) == /\ row'[r] # NoLease
                        /\ row'[r].left <= row[r].left
                        /\ row'[r] = [row[r] EXCEPT !.left = row'[r].left]
           A == \A r \in Resources : row[r] # NoLease /\ row[r].op \in barrier => Frozen(r)
<1>1. IInv /\ [Next]_vars => [A]_vars
  <2> SUFFICES ASSUME IInv, Next, NEW r \in Resources,
                      row[r] # NoLease, row[r].op \in barrier
               PROVE  Frozen(r)
    OBVIOUS
  <2>0. row[r] \in Lease
    BY DEF IInv, TypeOK
  <2>1. row'[r] = row[r] => Frozen(r)
    BY <2>0 DEF Lease
  <2>2. CASE Tick
    <3>1. CASE Live(r)
      BY <2>0, <2>2, <3>1, NoLeaseAssumption, TTLAssumption DEF Tick, Live, Lease
    <3>2. CASE ~Live(r)
      BY <2>1, <2>2, <3>2 DEF Tick
    <3> QED BY <3>1, <3>2
  <2>3. ASSUME NEW w \in Workers, NEW o \in Ops, NEW keys \in (SUBSET Resources) \ {{}},
               AcquireMany(w, o, keys)
        PROVE  Frozen(r)
    BY <2>1, <2>3 DEF AcquireMany, Acquirable
  <2>4. ASSUME NEW w \in Workers, NEW o \in Ops, RenewOwn(w, o) PROVE Frozen(r)
    BY <2>1, <2>4 DEF RenewOwn
  <2>5. ASSUME NEW w \in Workers, Pulse(w) PROVE Frozen(r)
    <3>1. job[w] \notin barrier
      BY <2>5, FenceRefusesBarrier DEF Pulse
    <3>2. r \notin Granted(w)
      BY <2>5, <3>1 DEF Pulse, Fence, AssertOwned
    <3> QED BY <2>1, <2>5, <3>2 DEF Pulse
  <2>6. ASSUME NEW w \in Workers, ReleaseAll(w) PROVE Frozen(r)
    BY <2>1, <2>6 DEF ReleaseAll, Fence, AssertOwned
  <2>7. ASSUME NEW w \in Workers, RequireRecovery(w) \/ Abandon(w) PROVE Frozen(r)
    BY <2>1, <2>7 DEF RequireRecovery, Abandon
  <2> QED BY <2>2, <2>3, <2>4, <2>5, <2>6, <2>7 DEF Next
<1>2. BarrierFrozen <=> [][A]_vars
  BY DEF BarrierFrozen
<1> QED BY <1>1, <1>2, Invariance, PTL DEF Spec

=============================================================================
