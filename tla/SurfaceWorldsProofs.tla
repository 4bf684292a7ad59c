------------------------ MODULE SurfaceWorldsProofs -------------------------
(***************************************************************************)
(* Safety of the worlds of SurfaceWorlds, each from an inductive invariant *)
(* of its own: the hosts of workers (HostsInv), the table of the gateway   *)
(* (SlotsInv), the credential of a client (CredentialInv), the containers of *)
(* Open WebUI (WebUIInv), the delivery of a release (DeliveryInv), the thing *)
(* that is repaired (RepairInv), the operations and answers of the command *)
(* services (DeskInv), the database of a profile (DatabaseInv) and the     *)
(* stages of the first-run setup (StagesInv).                              *)
(*                                                                         *)
(* HostsApart is not inductive.  That an operation has one executor rests on *)
(* its lease row: an executor owns it and keeps it live (ExecutorHolds).   *)
(* That a host without the worker_locks row stops rests on the order of    *)
(* _heartbeat_lock and the claim: how many operations it may have claimed  *)
(* since depends on where it is and on whether it knows (LateByPlace).     *)
(***************************************************************************)
EXTENDS SurfaceWorlds, Sequences, TLAPS, FiniteSetTheorems, WellFoundedInduction

-----------------------------------------------------------------------------
(* The worker hosts                                                        *)
ProcessType ==
    [pc : Host!Pcs, job : HostOps \cup {0}, failures : Nat,
     shutdown : BOOLEAN, quiet : BOOLEAN, late : Nat]

\* The records have their fields.
HostLockTyped == lock \in [owner : Hosts \cup {NoHost}, live : BOOLEAN]
HostOpsTyped ==
    op \in [HostOps -> [state : Host!States, owner : Hosts \cup {NoHost}, live : BOOLEAN]]
HostTyped == host \in [Hosts -> ProcessType]

\* Between _next_work and the end of the run a host has an operation.
HostHasWork ==
    \A h \in Hosts : host[h].pc \in {"heartbeat", "renew", "execute", "working"} =>
        Host!Job(h) \in HostOps

HostsTyped == HostLockTyped /\ HostOpsTyped /\ HostTyped /\ HostHasWork

\* A host inside execute_one owns the operation's lease row, and it is live.
ExecutorHolds ==
    \A h \in Hosts : Host!At(h, "working") => op[Host!Job(h)].owner = h /\ op[Host!Job(h)].live

\* Claims since the lock was lost: none that the lock's owner made, one that
\* was past the check of the lock, one more before the failed check takes effect.
LateByPlace ==
    \A h \in Hosts :
        /\ Host!HasLock(h) => host[h].late = 0
        /\ host[h].pc \in {"new", "off"} => host[h].late = 0
        /\ Host!At(h, "heartbeat") => host[h].late <= 1
        /\ host[h].pc \in {"renew", "execute"} =>
              host[h].late <= 1 /\ (~ host[h].shutdown => host[h].late = 0)
        /\ host[h].pc \in {"loop", "idle", "working"} =>
              host[h].late <= 2 /\ (~ host[h].shutdown => host[h].late <= 1)

HostsInv == HostsTyped /\ ExecutorHolds /\ LateByPlace

-----------------------------------------------------------------------------

\* The oldest of a set of operations is one of them (_next_work's choice).
LEMMA OldestIsMember ==
    ASSUME NEW S, S \subseteq Nat, S # {}
    PROVE  Host!Min(S) \in S
<1>1. PICK x \in S : \A y \in S : ~ (<<y, x>> \in OpToRel(<, Nat))
  BY NatLessThanWellFounded, WFMin
<1>2. \A y \in S : ~ (y < x)
  BY <1>1, Zenon DEF OpToRel
<1>3. \A y \in S : x =< y
  BY <1>2
<1> QED BY <1>3 DEF Host!Min

\* No host has started: nothing is claimed.
LEMMA HostsStart ==
    ASSUME HostOps \subseteq Nat
    PROVE  Host!Init => HostsInv
  BY DEF Host!Init, HostsInv, HostsTyped, HostLockTyped, HostOpsTyped, HostTyped, HostHasWork,
     ProcessType, ExecutorHolds,
         LateByPlace, Host!Process, Host!NoLock, Host!States, Host!Pcs, Host!At, Host!HasLock,
         Host!Job

-----------------------------------------------------------------------------

\* _next_work: the host goes idle, or to the heartbeat with an operation.
LEMMA NextWorkChooses ==
    ASSUME HostOps \subseteq Nat, HostTyped, NEW h \in Hosts, Host!NextWork(h)
    PROVE  /\ \A g \in Hosts \ {h} : host'[g] = host[g]
           /\ host'[h] \in ProcessType
           /\ host'[h].late = host[h].late /\ host'[h].shutdown = host[h].shutdown
           /\ \/ host'[h].pc = "idle"
              \/ host'[h].pc = "heartbeat" /\ host'[h].job \in HostOps
<1> DEFINE chosen == IF Host!Queued # {} THEN Host!Queued ELSE Host!Abandoned
<1>1. IF chosen = {}
      THEN Host!Goto(h, "idle")
      ELSE host' = [host EXCEPT ![h] = [@ EXCEPT !.pc = "heartbeat", !.job = Host!Min(chosen)]]
  BY DEF Host!NextWork
<1>2. chosen \subseteq HostOps
  BY DEF Host!Queued, Host!Abandoned
<1> HIDE DEF chosen
<1>3. CASE chosen = {}
  BY <1>1, <1>3 DEF Host!Goto, HostTyped, ProcessType, Host!Pcs
<1>4. CASE chosen # {}
  <2>1. Host!Min(chosen) \in HostOps
    BY <1>2, <1>4, OldestIsMember
  <2> DEFINE o == Host!Min(chosen)
  <2>2. host' = [host EXCEPT ![h] = [@ EXCEPT !.pc = "heartbeat", !.job = o]]
    BY <1>1, <1>4
  <2> HIDE DEF o
  <2>3. o \in HostOps
    BY <2>1 DEF o
  <2> QED BY <2>2, <2>3 DEF HostTyped, ProcessType, Host!Pcs
<1> QED BY <1>3, <1>4

\* _heartbeat_lock: a host whose row is gone is told to stop, and goes on.
LEMMA HeartbeatLockMoves ==
    ASSUME HostTyped, NEW h \in Hosts, Host!HeartbeatLock(h)
    PROVE  /\ \A g \in Hosts \ {h} : host'[g] = host[g]
           /\ host'[h] \in ProcessType /\ host'[h].pc = "renew"
           /\ host'[h].job = host[h].job /\ host'[h].late = host[h].late
           /\ host'[h].shutdown = (host[h].shutdown \/ ~ Host!HasLock(h))
<1>1. CASE Host!HasLock(h)
  BY <1>1 DEF Host!HeartbeatLock, Host!Goto, HostTyped, ProcessType, Host!Pcs
<1>2. CASE ~ Host!HasLock(h)
  <2>1. host' = [host EXCEPT ![h] = [@ EXCEPT !.pc = "renew", !.shutdown = TRUE]]
    BY <1>2 DEF Host!HeartbeatLock
  <2> QED BY <1>2, <2>1 DEF HostTyped, ProcessType, Host!Pcs
<1> QED BY <1>1, <1>2

\* The worker_locks row and the lease rows keep their fields.
LEMMA RowsTypedKept ==
    ASSUME HostsTyped, [Host!Next]_(Host!vars)
    PROVE  HostLockTyped' /\ HostOpsTyped'
<1> USE DEF HostsTyped, HostLockTyped, HostOpsTyped, HostHasWork, Host!States, Host!Job, Host!At
<1>1. ASSUME NEW h \in Hosts, Host!NextWork(h) PROVE HostLockTyped' /\ HostOpsTyped'
  BY <1>1 DEF Host!NextWork
<1>2. ASSUME NEW h \in Hosts, Host!Start(h) PROVE HostLockTyped' /\ HostOpsTyped'
  BY <1>2 DEF Host!Start
<1>3. ASSUME NEW h \in Hosts, Host!HeartbeatLock(h) PROVE HostLockTyped' /\ HostOpsTyped'
  BY <1>3 DEF Host!HeartbeatLock
<1>4. ASSUME NEW h \in Hosts, Host!HeartbeatLeases(h) PROVE HostLockTyped' /\ HostOpsTyped'
  <2> DEFINE renewed == op[Host!Job(h)].live \/ op[Host!Job(h)].owner = h
  <2>1. HostLockTyped' /\ op' = [op EXCEPT ![Host!Job(h)].live = renewed]
    BY <1>4 DEF Host!HeartbeatLeases
  <2>2. renewed \in BOOLEAN
    OBVIOUS
  <2> HIDE DEF renewed
  <2>3. HostOpsTyped'
    BY <2>1, <2>2
  <2> QED BY <2>1, <2>3
<1>5. ASSUME NEW h \in Hosts, Host!Skipped(h) PROVE HostLockTyped' /\ HostOpsTyped'
  BY <1>5 DEF Host!Skipped
<1>6. ASSUME NEW h \in Hosts, Host!Claim(h) PROVE HostLockTyped' /\ HostOpsTyped'
  BY <1>6 DEF Host!Claim
<1>7. ASSUME NEW h \in Hosts, Host!Finish(h) PROVE HostLockTyped' /\ HostOpsTyped'
  BY <1>7 DEF Host!Finish
<1>8. ASSUME NEW h \in Hosts, Host!Raise(h) PROVE HostLockTyped' /\ HostOpsTyped'
  BY <1>8 DEF Host!Raise
<1>9. ASSUME NEW h \in Hosts, Host!Wait(h) PROVE HostLockTyped' /\ HostOpsTyped'
  BY <1>9 DEF Host!Wait
<1>10. ASSUME NEW h \in Hosts, Host!Exit(h) PROVE HostLockTyped' /\ HostOpsTyped'
  BY <1>10 DEF Host!Exit, Host!NoLock
<1>11. ASSUME NEW h \in Hosts, Host!RequestShutdown(h) PROVE HostLockTyped' /\ HostOpsTyped'
  BY <1>11 DEF Host!RequestShutdown
<1>12. ASSUME NEW h \in Hosts, Host!Die(h) PROVE HostLockTyped' /\ HostOpsTyped'
  BY <1>12 DEF Host!Die
<1>13. ASSUME Host!ExpireLock PROVE HostLockTyped' /\ HostOpsTyped'
  BY <1>13 DEF Host!ExpireLock
<1>14. ASSUME NEW o \in HostOps, Host!ExpireLease(o) PROVE HostLockTyped' /\ HostOpsTyped'
  BY <1>14 DEF Host!ExpireLease
<1>15. ASSUME UNCHANGED Host!vars PROVE HostLockTyped' /\ HostOpsTyped'
  BY <1>15 DEF Host!vars
<1> QED
  BY <1>1, <1>2, <1>3, <1>4, <1>5, <1>6, <1>7, <1>8, <1>9, <1>10, <1>11, <1>12, <1>13, <1>14,
      <1>15
  DEF Host!Next, Host!Loop

\* The process of a host whose run is over, that starts one, that waits, that is
\* told to stop.
LEMMA RunOverTyped ==
    ASSUME NEW p \in ProcessType, NEW n \in Nat
    PROVE  [p EXCEPT !.pc = "loop", !.job = 0, !.failures = n, !.quiet = FALSE] \in ProcessType
  BY DEF ProcessType, Host!Pcs

LEMMA AtWorkTyped ==
    ASSUME NEW p \in ProcessType, NEW n \in Nat
    PROVE  [p EXCEPT !.pc = "working", !.late = n] \in ProcessType
  BY DEF ProcessType, Host!Pcs

LEMMA WaitingTyped ==
    ASSUME NEW p \in ProcessType, NEW b \in BOOLEAN
    PROVE  [p EXCEPT !.pc = "loop", !.quiet = b] \in ProcessType
  BY DEF ProcessType, Host!Pcs

LEMMA ToldToStopTyped ==
    ASSUME NEW p \in ProcessType
    PROVE  [p EXCEPT !.shutdown = TRUE] \in ProcessType
  BY DEF ProcessType, Host!Pcs

\* The hosts keep their fields.
LEMMA HostTypedKept ==
    ASSUME HostOps \subseteq Nat, HostsTyped, [Host!Next]_(Host!vars)
    PROVE  HostTyped'
<1> USE DEF HostsTyped, HostTyped, Host!Goto, Host!Outcome, Host!Process
<1>1. ASSUME NEW h \in Hosts, Host!NextWork(h) PROVE HostTyped'
  <2>1. /\ host'[h] \in ProcessType
        /\ \A g \in Hosts \ {h} : host'[g] = host[g]
    BY <1>1, NextWorkChooses
  <2>2. host' = [g \in Hosts |-> host'[g]]
    BY <1>1 DEF Host!NextWork
  <2> QED BY <2>1, <2>2
<1>2. ASSUME NEW h \in Hosts, Host!Start(h) PROVE HostTyped'
  BY <1>2 DEF Host!Start, ProcessType, Host!Pcs
<1>3. ASSUME NEW h \in Hosts, Host!HeartbeatLock(h) PROVE HostTyped'
  <2>1. /\ host'[h] \in ProcessType
        /\ \A g \in Hosts \ {h} : host'[g] = host[g]
    BY <1>3, HeartbeatLockMoves
  <2>2. host' = [g \in Hosts |-> host'[g]]
    BY <1>3 DEF Host!HeartbeatLock
  <2> QED BY <2>1, <2>2
<1>4. ASSUME NEW h \in Hosts, Host!HeartbeatLeases(h) PROVE HostTyped'
  BY <1>4 DEF Host!HeartbeatLeases, ProcessType, Host!Pcs
<1>5. ASSUME NEW h \in Hosts, Host!Skipped(h) PROVE HostTyped'
  <2>0. host[h] \in ProcessType
    OBVIOUS
  <2> DEFINE over == [host[h] EXCEPT !.pc = "loop", !.job = 0, !.failures = 0, !.quiet = FALSE]
  <2>1. host' = [host EXCEPT ![h] = over]
    BY <1>5 DEF Host!Skipped
  <2>2. over \in ProcessType
    BY <2>0, RunOverTyped
  <2> QED BY <2>1, <2>2
<1>6. ASSUME NEW h \in Hosts, Host!Claim(h) PROVE HostTyped'
  <2>0. host[h] \in ProcessType
    OBVIOUS
  <2> DEFINE since == IF Host!HasLock(h) THEN 0 ELSE host[h].late + 1
  <2>1. host' =
          [host EXCEPT ![h] = [host[h] EXCEPT !.pc = "working", !.late = since]]
    BY <1>6 DEF Host!Claim
  <2>2. host[h].late \in Nat
    BY DEF ProcessType
  <2>3. since \in Nat
    BY <2>2
  <2> HIDE DEF since
  <2>4. [host[h] EXCEPT !.pc = "working", !.late = since] \in ProcessType
    BY <2>0, <2>3, AtWorkTyped
  <2> QED BY <2>1, <2>4
<1>7. ASSUME NEW h \in Hosts, Host!Finish(h) PROVE HostTyped'
  <2>0. host[h] \in ProcessType
    OBVIOUS
  <2> DEFINE over == [host[h] EXCEPT !.pc = "loop", !.job = 0, !.failures = 0, !.quiet = FALSE]
  <2>1. host' = [host EXCEPT ![h] = over]
    BY <1>7 DEF Host!Finish
  <2>2. over \in ProcessType
    BY <2>0, RunOverTyped
  <2> QED BY <2>1, <2>2
<1>8. ASSUME NEW h \in Hosts, Host!Raise(h) PROVE HostTyped'
  <2>0. host[h] \in ProcessType
    OBVIOUS
  <2> DEFINE failures == IF host[h].failures + 1 >= MaxFailures THEN 0 ELSE host[h].failures + 1
  <2> DEFINE over ==
            [host[h] EXCEPT !.pc = "loop", !.job = 0, !.failures = failures, !.quiet = FALSE]
  <2>1. host' = [host EXCEPT ![h] = over]
    BY <1>8 DEF Host!Raise
  <2>2. host[h].failures \in Nat
    BY DEF ProcessType
  <2>3. failures \in Nat
    BY <2>2
  <2> HIDE DEF failures
  <2>4. over \in ProcessType
    BY <2>0, <2>3, RunOverTyped
  <2> QED BY <2>1, <2>4
<1>9. ASSUME NEW h \in Hosts, Host!Wait(h) PROVE HostTyped'
  <2>0. host[h] \in ProcessType
    OBVIOUS
  <2>1. PICK b \in BOOLEAN : host' =
          [host EXCEPT ![h] = [host[h] EXCEPT !.pc = "loop", !.quiet = b]]
    <3>1. PICK woken \in BOOLEAN :
            host' = [host EXCEPT ![h] = [@ EXCEPT !.pc = "loop", !.quiet = ~ woken]]
      BY <1>9 DEF Host!Wait
    <3> QED BY <3>1
  <2>2. [host[h] EXCEPT !.pc = "loop", !.quiet = b] \in ProcessType
    BY <2>0, <2>1, WaitingTyped
  <2> QED BY <2>1, <2>2
<1>10. ASSUME NEW h \in Hosts, Host!Exit(h) PROVE HostTyped'
  BY <1>10 DEF Host!Exit, ProcessType, Host!Pcs
<1>11. ASSUME NEW h \in Hosts, Host!RequestShutdown(h) PROVE HostTyped'
  <2>0. host[h] \in ProcessType
    OBVIOUS
  <2>1. host' = [host EXCEPT ![h] = [host[h] EXCEPT !.shutdown = TRUE]]
    BY <1>11 DEF Host!RequestShutdown
  <2>2. [host[h] EXCEPT !.shutdown = TRUE] \in ProcessType
    BY <2>0, ToldToStopTyped
  <2> QED BY <2>1, <2>2
<1>12. ASSUME NEW h \in Hosts, Host!Die(h) PROVE HostTyped'
  BY <1>12 DEF Host!Die, ProcessType, Host!Pcs
<1>13. ASSUME Host!ExpireLock PROVE HostTyped'
  BY <1>13 DEF Host!ExpireLock
<1>14. ASSUME NEW o \in HostOps, Host!ExpireLease(o) PROVE HostTyped'
  BY <1>14 DEF Host!ExpireLease, ProcessType, Host!Pcs
<1>15. ASSUME UNCHANGED Host!vars PROVE HostTyped'
  BY <1>15 DEF Host!vars
<1> QED
  BY <1>1, <1>2, <1>3, <1>4, <1>5, <1>6, <1>7, <1>8, <1>9, <1>10, <1>11, <1>12, <1>13, <1>14,
      <1>15
  DEF Host!Next, Host!Loop

\* A host that goes to chosen has an operation.
LEMMA HasWorkKept ==
    ASSUME HostOps \subseteq Nat, HostsTyped, [Host!Next]_(Host!vars)
    PROVE  HostHasWork'
<1> USE DEF HostsTyped, HostTyped, ProcessType, HostHasWork, Host!Goto, Host!Outcome,
        Host!Process, Host!Job, Host!At
<1>1. ASSUME NEW h \in Hosts, Host!NextWork(h) PROVE HostHasWork'
  BY <1>1, NextWorkChooses
<1>2. ASSUME NEW h \in Hosts, Host!Start(h) PROVE HostHasWork'
  BY <1>2 DEF Host!Start
<1>3. ASSUME NEW h \in Hosts, Host!HeartbeatLock(h) PROVE HostHasWork'
  BY <1>3 DEF Host!HeartbeatLock
<1>4. ASSUME NEW h \in Hosts, Host!HeartbeatLeases(h) PROVE HostHasWork'
  BY <1>4 DEF Host!HeartbeatLeases
<1>5. ASSUME NEW h \in Hosts, Host!Skipped(h) PROVE HostHasWork'
  BY <1>5 DEF Host!Skipped
<1>6. ASSUME NEW h \in Hosts, Host!Claim(h) PROVE HostHasWork'
  BY <1>6 DEF Host!Claim
<1>7. ASSUME NEW h \in Hosts, Host!Finish(h) PROVE HostHasWork'
  BY <1>7 DEF Host!Finish
<1>8. ASSUME NEW h \in Hosts, Host!Raise(h) PROVE HostHasWork'
  BY <1>8 DEF Host!Raise
<1>9. ASSUME NEW h \in Hosts, Host!Wait(h) PROVE HostHasWork'
  BY <1>9 DEF Host!Wait
<1>10. ASSUME NEW h \in Hosts, Host!Exit(h) PROVE HostHasWork'
  BY <1>10 DEF Host!Exit
<1>11. ASSUME NEW h \in Hosts, Host!RequestShutdown(h) PROVE HostHasWork'
  BY <1>11 DEF Host!RequestShutdown
<1>12. ASSUME NEW h \in Hosts, Host!Die(h) PROVE HostHasWork'
  BY <1>12 DEF Host!Die
<1>13. ASSUME Host!ExpireLock PROVE HostHasWork'
  BY <1>13 DEF Host!ExpireLock
<1>14. ASSUME NEW o \in HostOps, Host!ExpireLease(o) PROVE HostHasWork'
  BY <1>14 DEF Host!ExpireLease
<1>15. ASSUME UNCHANGED Host!vars PROVE HostHasWork'
  BY <1>15 DEF Host!vars
<1> QED
  BY <1>1, <1>2, <1>3, <1>4, <1>5, <1>6, <1>7, <1>8, <1>9, <1>10, <1>11, <1>12, <1>13, <1>14,
      <1>15
  DEF Host!Next, Host!Loop

-----------------------------------------------------------------------------

\* A step that lets nobody in and leaves the lease rows alone.
LEMMA ExecutorFrame ==
    ASSUME HostHasWork, ExecutorHolds,
           \A g \in Hosts : Host!At(g, "working")' =>
               Host!At(g, "working") /\ Host!Job(g)' = Host!Job(g),
           \A o \in HostOps : op'[o].owner = op[o].owner /\ op'[o].live = op[o].live
    PROVE  ExecutorHolds'
<1> SUFFICES ASSUME NEW g \in Hosts, Host!At(g, "working")'
             PROVE  op'[Host!Job(g)'].owner = g /\ op'[Host!Job(g)'].live
  BY DEF ExecutorHolds
<1>1. Host!At(g, "working") /\ Host!Job(g)' = Host!Job(g) /\ Host!Job(g) \in HostOps
  BY DEF HostHasWork, Host!At
<1> QED BY <1>1 DEF ExecutorHolds

\* What a step may do to an operation's lease row while a host works on it:
\* nothing that changes its owner or lets it expire.
LEMMA ExecutorKept ==
    ASSUME HostOps \subseteq Nat, NoHost \notin Hosts, HostsTyped, ExecutorHolds,
        [Host!Next]_(Host!vars)
    PROVE  ExecutorHolds'
<1> USE DEF HostsTyped, HostOpsTyped, HostTyped, HostHasWork, ProcessType, ExecutorHolds,
        Host!At, Host!Job, Host!Goto,
            Host!Outcome, Host!Process
<1>1. ASSUME NEW h \in Hosts, Host!Start(h) \/ Host!Skipped(h) PROVE ExecutorHolds'
  <2>1. \A g \in Hosts : (Host!At(g, "working"))' =>
          Host!At(g, "working") /\ Host!Job(g)' = Host!Job(g)
    <3>1. CASE Host!Start(h)
      BY <3>1 DEF Host!Start
    <3>2. CASE Host!Skipped(h)
      BY <3>2 DEF Host!Skipped
    <3> QED BY <1>1, <3>1, <3>2
  <2>2. op' = op
    BY <1>1 DEF Host!Start, Host!Skipped
  <2> QED BY <2>1, <2>2, ExecutorFrame
<1>2. ASSUME NEW h \in Hosts, Host!NextWork(h) PROVE ExecutorHolds'
  <2>1. \A g \in Hosts : (Host!At(g, "working"))' =>
          Host!At(g, "working") /\ Host!Job(g)' = Host!Job(g)
    BY <1>2, NextWorkChooses
  <2>2. op' = op
    BY <1>2 DEF Host!NextWork
  <2> QED BY <2>1, <2>2, ExecutorFrame
<1>3. ASSUME NEW h \in Hosts, Host!HeartbeatLeases(h) PROVE ExecutorHolds'
  BY <1>3 DEF Host!HeartbeatLeases
<1>4. ASSUME NEW h \in Hosts, Host!Claim(h) PROVE ExecutorHolds'
  <2>1. \A g \in Hosts : g # h /\ Host!At(g, "working") => Host!Job(g) # Host!Job(h)
    BY <1>4 DEF Host!Claim, Host!Held
  <2> QED BY <1>4, <2>1 DEF Host!Claim
<1>5. ASSUME NEW h \in Hosts, Host!Finish(h) PROVE ExecutorHolds'
  <2>1. \A g \in Hosts : g # h /\ Host!At(g, "working") => Host!Job(g) # Host!Job(h)
    BY <1>5 DEF Host!Finish
  <2> QED BY <1>5, <2>1 DEF Host!Finish
<1>6. ASSUME NEW h \in Hosts, Host!Raise(h) PROVE ExecutorHolds'
  <2>1. \A o \in HostOps : op'[o].owner = op[o].owner /\ op'[o].live = op[o].live
    BY <1>6 DEF Host!Raise
  <2>2. \A g \in Hosts : (Host!At(g, "working"))' =>
          Host!At(g, "working") /\ Host!Job(g)' = Host!Job(g)
    BY <1>6 DEF Host!Raise
  <2> QED BY <2>1, <2>2, ExecutorFrame
<1>7. ASSUME NEW h \in Hosts, Host!Wait(h) \/ Host!Exit(h) \/ Host!RequestShutdown(h)
        \/ Host!Die(h)
      PROVE ExecutorHolds'
  <2>1. \A g \in Hosts : (Host!At(g, "working"))' =>
          Host!At(g, "working") /\ Host!Job(g)' = Host!Job(g)
    <3>1. CASE Host!Wait(h)
      BY <3>1 DEF Host!Wait
    <3>2. CASE Host!Exit(h)
      BY <3>2 DEF Host!Exit
    <3>3. CASE Host!RequestShutdown(h)
      BY <3>3 DEF Host!RequestShutdown
    <3>4. CASE Host!Die(h)
      BY <3>4 DEF Host!Die
    <3> QED BY <1>7, <3>1, <3>2, <3>3, <3>4
  <2>2. op' = op
    BY <1>7 DEF Host!Wait, Host!Exit, Host!RequestShutdown, Host!Die
  <2> QED BY <2>1, <2>2, ExecutorFrame
<1>8. ASSUME NEW o \in HostOps, Host!ExpireLease(o) PROVE ExecutorHolds'
  BY <1>8 DEF Host!ExpireLease, Host!Running, Host!Working
<1>9. ASSUME NEW h \in Hosts, Host!HeartbeatLock(h) PROVE ExecutorHolds'
  <2>1. \A g \in Hosts : (Host!At(g, "working"))' =>
          Host!At(g, "working") /\ Host!Job(g)' = Host!Job(g)
    BY <1>9, HeartbeatLockMoves
  <2>2. op' = op
    BY <1>9 DEF Host!HeartbeatLock
  <2> QED BY <2>1, <2>2, ExecutorFrame
<1>10. ASSUME Host!ExpireLock \/ UNCHANGED Host!vars PROVE ExecutorHolds'
  BY <1>10 DEF Host!ExpireLock, Host!vars
<1> QED
  BY <1>1, <1>2, <1>3, <1>4, <1>5, <1>6, <1>7, <1>8, <1>9, <1>10 DEF Host!Next, Host!Loop

\* A host that loses the row is since by what it had already been let through.
LEMMA LateKept ==
    ASSUME HostOps \subseteq Nat, NoHost \notin Hosts, HostsTyped, LateByPlace,
        [Host!Next]_(Host!vars)
    PROVE  LateByPlace'
<1> USE DEF HostsTyped, HostLockTyped, HostTyped, ProcessType, LateByPlace, Host!At,
        Host!HasLock, Host!Goto, Host!Outcome,
            Host!Process
<1>1. ASSUME NEW h \in Hosts, Host!Start(h) PROVE LateByPlace'
  BY <1>1 DEF Host!Start
<1>2. ASSUME NEW h \in Hosts, Host!NextWork(h) PROVE LateByPlace'
  <2>1. Host!At(h, "loop") /\ ~ host[h].shutdown /\ lock' = lock
    BY <1>2 DEF Host!NextWork
  <2> QED BY <1>2, <2>1, NextWorkChooses
<1>3. ASSUME NEW h \in Hosts, Host!HeartbeatLock(h) PROVE LateByPlace'
  <2>1. Host!At(h, "heartbeat") /\ lock'.owner = lock.owner
    BY <1>3 DEF Host!HeartbeatLock
  <2> QED BY <1>3, <2>1, HeartbeatLockMoves
<1>4. ASSUME NEW h \in Hosts, Host!HeartbeatLeases(h) PROVE LateByPlace'
  BY <1>4 DEF Host!HeartbeatLeases
<1>5. ASSUME NEW h \in Hosts, Host!Skipped(h) PROVE LateByPlace'
  BY <1>5 DEF Host!Skipped
<1>6. ASSUME NEW h \in Hosts, Host!Claim(h) PROVE LateByPlace'
  BY <1>6 DEF Host!Claim
<1>7. ASSUME NEW h \in Hosts, Host!Finish(h) PROVE LateByPlace'
  BY <1>7 DEF Host!Finish
<1>8. ASSUME NEW h \in Hosts, Host!Raise(h) PROVE LateByPlace'
  BY <1>8 DEF Host!Raise
<1>9. ASSUME NEW h \in Hosts, Host!Wait(h) PROVE LateByPlace'
  BY <1>9 DEF Host!Wait
<1>10. ASSUME NEW h \in Hosts, Host!Exit(h) \/ Host!Die(h) PROVE LateByPlace'
  BY <1>10 DEF Host!Exit, Host!Die, Host!NoLock
<1>11. ASSUME NEW h \in Hosts, Host!RequestShutdown(h) PROVE LateByPlace'
  BY <1>11 DEF Host!RequestShutdown
<1>12. ASSUME Host!ExpireLock \/ (\E o \in HostOps : Host!ExpireLease(o)) \/ UNCHANGED Host!vars
       PROVE  LateByPlace'
  BY <1>12 DEF Host!ExpireLock, Host!ExpireLease, Host!vars
<1> QED
  BY <1>1, <1>2, <1>3, <1>4, <1>5, <1>6, <1>7, <1>8, <1>9, <1>10, <1>11, <1>12
  DEF Host!Next, Host!Loop

-----------------------------------------------------------------------------

\* Whatever becomes of the worker_locks row (_heartbeat_lock, and the takeover
\* in _acquire_profile_lock), an operation has one executor, and a host that
\* lost the row claims at most two operations more.
THEOREM HostsStayApart == Host!Spec => []Host!HostsApart
<1> USE HostsAssumption
<1>1. Host!Init => HostsInv
  BY HostsStart
<1>2. HostsInv /\ [Host!Next]_(Host!vars) => HostsInv'
  BY RowsTypedKept, HostTypedKept, HasWorkKept, ExecutorKept, LateKept DEF HostsInv, HostsTyped
<1>3. HostsInv => Host!HostsApart
  <2> SUFFICES ASSUME HostsInv PROVE Host!HostsApart
    OBVIOUS
  <2>1. Host!OneExecutor
    BY DEF HostsInv, ExecutorHolds, Host!OneExecutor, Host!Working
  <2>2. Host!LateHostStops
    BY DEF HostsInv, HostsTyped, HostTyped, ProcessType, Host!Pcs, LateByPlace,
       Host!LateHostStops, Host!At
  <2> QED BY <2>1, <2>2 DEF Host!HostsApart
<1> QED BY <1>1, <1>2, <1>3, PTL DEF Host!Spec

-----------------------------------------------------------------------------

\* A RUNNING operation always has a lease row: whatever a host leaves behind by
\* dying or raising, _next_work finds it when the row expires.
THEOREM RunningIsAlwaysFindable == Host!Spec => []Host!RunningIsFindable
<1> USE HostsAssumption
<1> DEFINE Findable == HostsTyped /\ Host!RunningIsFindable
<1>1. Host!Init => Findable
  BY HostsStart DEF Host!Init, HostsInv, Host!RunningIsFindable
<1>2. ASSUME Findable, [Host!Next]_(Host!vars) PROVE Findable'
  <2> USE DEF HostsTyped, HostLockTyped, HostOpsTyped, HostTyped, HostHasWork, ProcessType,
          Host!RunningIsFindable, Host!Job
  <2>1. HostsTyped'
    BY <1>2, RowsTypedKept, HostTypedKept, HasWorkKept DEF HostsTyped
  <2>2. ASSUME NEW h \in Hosts, Host!HeartbeatLeases(h) PROVE Host!RunningIsFindable'
    BY <1>2, <2>2 DEF Host!HeartbeatLeases
  <2>3. ASSUME NEW h \in Hosts, Host!Claim(h) PROVE Host!RunningIsFindable'
    BY <1>2, <2>3 DEF Host!Claim
  <2>4. ASSUME NEW h \in Hosts, Host!Finish(h) PROVE Host!RunningIsFindable'
    BY <1>2, <2>4 DEF Host!Finish
  <2>5. ASSUME NEW h \in Hosts, Host!Raise(h) PROVE Host!RunningIsFindable'
    BY <1>2, <2>5 DEF Host!Raise
  <2>6. ASSUME NEW o \in HostOps, Host!ExpireLease(o) PROVE Host!RunningIsFindable'
    BY <1>2, <2>6 DEF Host!ExpireLease
  <2>7. ASSUME UNCHANGED op PROVE Host!RunningIsFindable'
    BY <1>2, <2>7
  <2>8. Host!RunningIsFindable'
    BY <1>2, <2>2, <2>3, <2>4, <2>5, <2>6, <2>7
    DEF Host!Next, Host!Loop, Host!vars, Host!Start, Host!NextWork, Host!HeartbeatLock,
        Host!Skipped, Host!Wait, Host!Exit, Host!RequestShutdown,
        Host!Die, Host!ExpireLock
  <2> QED BY <2>1, <2>8
<1> QED BY <1>1, <1>2, PTL DEF Host!Spec

-----------------------------------------------------------------------------
(* The gateway                                                             *)

RequestPcs == {"new", "authorize", "fetch", "check", "price", "charge", "proxy", "finish",
               "refused", "release", "done", "failed"}

ThreadType == [pc : RequestPcs, client : Clients \cup {None}, kind : Gateway!Kinds \cup {None},
               held : RowIds \cup {None}, slot : RowIds \cup {None}]
RowType == [inflight : Nat, count : Nat, tokens : Nat, elapsed : BOOLEAN]

\* The threads, the table and its rows have their fields.
RequestsTyped ==
    /\ thread \in [Requests -> ThreadType]
    /\ table \in [Clients -> RowIds \cup {None}]
    /\ rows \in [RowIds -> RowType]
    /\ torn \subseteq Clients

\* What a thread has fetched and reserved, by the place where it is.
RowsByPlace ==
    \A r \in Requests :
        /\ thread[r].client = None <=> thread[r].pc \in {"new", "done", "failed"}
        /\ thread[r].held # None <=> thread[r].pc \in {"check", "charge", "release"}
        /\ thread[r].pc \in {"new", "authorize", "fetch", "check", "done"} =>
            thread[r].slot = None
        /\ thread[r].pc \in {"price", "charge", "proxy", "finish", "refused", "release"} =>
              thread[r].slot # None

\* A row of the table is the row of one client.
RowsApart ==
    /\ \A c, d \in Clients : table[c] # None /\ table[c] = table[d] => c = d
    /\ \A r \in Requests, d \in Clients :
          thread[r].client # None /\ table[d] # None
              /\ table[d] \in {thread[r].held, thread[r].slot}
          => d = thread[r].client

\* A thread whose client's row was never evicted from under a thread refers to the row
\* in the table.
RefersToOwn ==
    \A r \in Requests :
        thread[r].client \notin torn /\ thread[r].client # None =>
            /\ thread[r].held # None => thread[r].held = table[thread[r].client]
            /\ thread[r].slot # None => thread[r].slot = table[thread[r].client]

\* No row has more reservations than a client may have.
RowsBounded == \A id \in RowIds : rows[id].inflight <= MaxConcurrent

SlotsInv ==
    RequestsTyped /\ RowsByPlace /\ RowsApart /\ RefersToOwn /\ RowsBounded
        /\ Gateway!ReservationsExact

-----------------------------------------------------------------------------

\* The size of a set is the same in every module.
LEMMA SameCardinality == \A S : Gateway!Cardinality(S) = Cardinality(S)
  BY DEF Gateway!Cardinality, Cardinality

\* There is always a row that nobody refers to.
LEMMA UnusedRow ==
    ASSUME RequestsTyped
    PROVE  (CHOOSE id \in RowIds : id \notin Gateway!Tabled \cup
        Gateway!Referred) \in RowIds \ (Gateway!Tabled \cup Gateway!Referred)
<1> DEFINE Fetched == {thread[r].held : r \in Requests}
           Reserved == {thread[r].slot : r \in Requests}
           kept == {c \in Clients : table[c] # None}
<1> USE RequestsAssumption
<1>1. IsFiniteSet(Gateway!Tabled) /\ Cardinality(Gateway!Tabled) <= Cardinality(Clients)
  <2>1. IsFiniteSet(kept) /\ Cardinality(kept) <= Cardinality(Clients)
    BY FS_Subset
  <2> DEFINE f == [c \in kept |-> table[c]]
  <2>2. f \in Surjection(kept, Gateway!Tabled)
    BY DEF Surjection, Gateway!Tabled
  <2>3. IsFiniteSet(Gateway!Tabled) /\ Cardinality(Gateway!Tabled) <= Cardinality(kept)
    <3> HIDE DEF f, kept
    <3> QED BY <2>1, <2>2, FS_Surjection
  <2> HIDE DEF kept
  <2>4. /\ Cardinality(Gateway!Tabled) \in Nat /\ Cardinality(kept) \in Nat
        /\ Cardinality(Clients) \in Nat
    BY <2>1, <2>3, FS_CardinalityType
  <2> QED BY <2>1, <2>3, <2>4
<1>2. IsFiniteSet(Fetched) /\ Cardinality(Fetched) <= Cardinality(Requests)
  <2> DEFINE f == [r \in Requests |-> thread[r].held]
  <2>1. f \in Surjection(Requests, Fetched)
    BY DEF Surjection
  <2> HIDE DEF f, Fetched
  <2> QED BY <2>1, FS_Surjection
<1>3. IsFiniteSet(Reserved) /\ Cardinality(Reserved) <= Cardinality(Requests)
  <2> DEFINE f == [r \in Requests |-> thread[r].slot]
  <2>1. f \in Surjection(Requests, Reserved)
    BY DEF Surjection
  <2> HIDE DEF f, Reserved
  <2> QED BY <2>1, FS_Surjection
<1> DEFINE used == Gateway!Tabled \cup Gateway!Referred
<1>4. used = (Gateway!Tabled \cup Fetched) \cup Reserved
  BY DEF Gateway!Referred
<1> HIDE DEF Fetched, Reserved, used
<1>5. IsFiniteSet(Gateway!Tabled \cup Fetched)
      /\ Cardinality(Gateway!Tabled \cup
          Fetched) <= Cardinality(Gateway!Tabled) + Cardinality(Fetched)
  <2>1. /\ IsFiniteSet(Gateway!Tabled \cup Fetched) /\ IsFiniteSet(Gateway!Tabled \cap Fetched)
        /\ Cardinality(Gateway!Tabled \cup Fetched)
           = Cardinality(Gateway!Tabled) + Cardinality(Fetched) - Cardinality(Gateway!Tabled \cap Fetched)
    BY <1>1, <1>2, FS_Union, FS_Intersection
  <2>2. /\ Cardinality(Gateway!Tabled \cap Fetched) \in Nat
        /\ Cardinality(Gateway!Tabled) \in Nat /\ Cardinality(Fetched) \in Nat
    BY <1>1, <1>2, <2>1, FS_CardinalityType
  <2> QED BY <2>1, <2>2
<1>6. IsFiniteSet(used)
      /\ Cardinality(used) <= Cardinality(Gateway!Tabled \cup Fetched) + Cardinality(Reserved)
  <2> DEFINE some == Gateway!Tabled \cup Fetched
  <2>1. IsFiniteSet(some)
    BY <1>5
  <2> HIDE DEF some
  <2>2. /\ IsFiniteSet(some \cup Reserved) /\ IsFiniteSet(some \cap Reserved)
        /\ Cardinality(some \cup Reserved)
           = Cardinality(some) + Cardinality(Reserved) - Cardinality(some \cap Reserved)
    BY <2>1, <1>3, FS_Union, FS_Intersection
  <2>3. /\ Cardinality(some \cap Reserved) \in Nat
        /\ Cardinality(some) \in Nat /\ Cardinality(Reserved) \in Nat
    BY <1>3, <2>1, <2>2, FS_CardinalityType
  <2>4. used = some \cup Reserved
    BY <1>4 DEF some
  <2>5. IsFiniteSet(used) /\ Cardinality(used) <= Cardinality(some) + Cardinality(Reserved)
    BY <2>2, <2>3, <2>4
  <2> QED BY <2>5 DEF some
<1>7. /\ Cardinality(Gateway!Tabled \cup Fetched) \in Nat /\ Cardinality(used) \in Nat
      /\ Cardinality(Gateway!Tabled) \in Nat /\ Cardinality(Fetched) \in Nat
      /\ Cardinality(Reserved) \in Nat
      /\ Cardinality(Clients) \in Nat /\ Cardinality(Requests) \in Nat
      /\ Cardinality(RowIds) \in Nat
  BY <1>1, <1>2, <1>3, <1>5, <1>6, FS_CardinalityType
<1>8. Cardinality(used) < Cardinality(RowIds)
  BY <1>1, <1>2, <1>3, <1>5, <1>6, <1>7
<1>9. ~ (RowIds \subseteq used)
  BY <1>6, <1>7, <1>8, FS_Subset
<1>10. \E id \in RowIds : id \notin used
  BY <1>9
<1>11. (CHOOSE id \in RowIds : id \notin used) \in RowIds \ used
  BY <1>10
<1> QED BY <1>11 DEF used

Fetches(r, next, row, gone) ==
    /\ thread' = [thread EXCEPT ![r] = [@ EXCEPT !.held = row, !.pc = next]]
    /\ table' = [d \in Clients |-> IF d = thread[r].client THEN row
                                   ELSE IF d \in gone THEN None ELSE table[d]]
    /\ torn' = torn \cup {d \in gone : table[d] \in Gateway!Referred}
    /\ \A d \in gone : table[d] # None
    /\ \/ row = table[thread[r].client] /\ gone = {} /\ rows' = rows
       \/ /\ table[thread[r].client] = None /\ row \notin Gateway!Tabled \cup Gateway!Referred
          /\ rows' = [id \in RowIds |->
                IF id \in {table[d] : d \in gone} \ Gateway!Referred \/ id = row
                    THEN Gateway!Fresh ELSE rows[id]]

\* _row leaves every thread but one as it is, gives its client a row, and forgets rows
\* without reservations.
LEMMA FetchRowGives ==
    ASSUME SlotsInv, NEW r \in Requests, thread[r].client # None, NEW next,
        Gateway!FetchRow(r, next)
    PROVE  \E row \in RowIds, gone \in SUBSET Clients : Fetches(r, next, row, gone)
<1> DEFINE c == thread[r].client
           gone == Gateway!Evicted(c)
           unused == CHOOSE id \in RowIds : id \notin Gateway!Tabled \cup Gateway!Referred
           row == IF table[c] = None THEN unused ELSE table[c]
           freed == {table[d] : d \in gone} \ Gateway!Referred
<1>1. unused \in RowIds \ (Gateway!Tabled \cup Gateway!Referred)
  BY UnusedRow DEF SlotsInv
<1>2. gone \in SUBSET Clients /\ \A d \in gone : table[d] # None
  BY DEF Gateway!Evicted
<1>3. table[c] # None => gone = {}
  BY DEF Gateway!Evicted
<1>4. c \in Clients /\ (table[c] # None => table[c] \in RowIds)
  BY DEF SlotsInv, RequestsTyped, ThreadType
<1>5. /\ thread' = [thread EXCEPT ![r] = [@ EXCEPT !.held = row, !.pc = next]]
      /\ table' = [d \in Clients |-> IF d = c THEN row ELSE IF d \in gone THEN None ELSE table[d]]
      /\ rows' = [id \in RowIds |-> IF id \in freed \/ (id = row /\ table[c] = None)
                                    THEN Gateway!Fresh ELSE rows[id]]
      /\ torn' = torn \cup {d \in gone : table[d] \in Gateway!Referred}
  BY DEF Gateway!FetchRow
<1> HIDE DEF gone, unused
<1>6. CASE table[c] # None
  <2>1. gone = {} /\ row = table[c] /\ row \in RowIds
    BY <1>3, <1>4, <1>6
  <2>2. rows' = [id \in RowIds |-> rows[id]]
    BY <1>5, <1>6, <2>1
  <2>3. rows' = rows
    BY <2>2 DEF SlotsInv, RequestsTyped
  <2> QED BY <1>2, <1>5, <2>1, <2>3 DEF Fetches
<1>7. CASE table[c] = None
  <2>1. row = unused
    BY <1>7
  <2>2. rows' = [id \in RowIds |-> IF id \in freed \/ id = row THEN Gateway!Fresh ELSE rows[id]]
    BY <1>5, <1>7
  <2>3. row \in RowIds /\ row \notin Gateway!Tabled \cup Gateway!Referred
    BY <1>1, <2>1
  <2> HIDE DEF row
  <2>4. Fetches(r, next, row, gone)
    BY <1>2, <1>5, <1>7, <2>2, <2>3 DEF Fetches
  <2> QED BY <1>2, <2>3, <2>4
<1> QED BY <1>6, <1>7

\* A row is only forgotten while nothing is reserved in it.
LEMMA FetchRowKeeps ==
    ASSUME SlotsInv, NEW r \in Requests, thread[r].client # None,
           NEW next \in {"check", "charge", "release"}, Gateway!FetchRow(r, next),
           next = "check" => thread[r].slot = None, next # "check" => thread[r].slot # None
    PROVE  SlotsInv'
<1>0. PICK row \in RowIds, gone \in SUBSET Clients : Fetches(r, next, row, gone)
  BY FetchRowGives
<1>1. /\ thread' = [thread EXCEPT ![r] = [@ EXCEPT !.held = row, !.pc = next]]
      /\ table' = [d \in Clients |-> IF d = thread[r].client THEN row
                                     ELSE IF d \in gone THEN None ELSE table[d]]
      /\ torn' = torn \cup {d \in gone : table[d] \in Gateway!Referred}
      /\ \A d \in gone : table[d] # None
      /\ \/ row = table[thread[r].client] /\ gone = {} /\ rows' = rows
         \/ /\ table[thread[r].client] = None /\ row \notin Gateway!Tabled \cup Gateway!Referred
            /\ rows' = [id \in RowIds |->
                 IF id \in {table[d] : d \in gone} \ Gateway!Referred \/ id = row
                     THEN Gateway!Fresh ELSE rows[id]]
  BY <1>0 DEF Fetches
<1> USE DEF SlotsInv
<1>2. RequestsTyped'
  <2>1. next \in RequestPcs
    BY DEF RequestPcs
  <2>2. thread' \in [Requests -> ThreadType]
    <3>1. thread \in [Requests -> ThreadType] /\ row \in RowIds
      BY <1>0 DEF RequestsTyped
    <3>2. [thread[r] EXCEPT !.held = row, !.pc = next] \in ThreadType
      BY <2>1, <3>1 DEF ThreadType
    <3> QED BY <1>1, <3>1, <3>2
  <2>3. table' \in [Clients -> RowIds \cup {None}] /\ torn' \subseteq Clients
    BY <1>1 DEF RequestsTyped, ThreadType, RowType
  <2>4. rows' \in [RowIds -> RowType]
    <3>1. Gateway!Fresh \in RowType
      BY DEF Gateway!Fresh, RowType
    <3> QED BY <1>1, <3>1 DEF RequestsTyped, ThreadType, RowType
  <2> QED BY <2>2, <2>3, <2>4 DEF RequestsTyped, ThreadType, RowType
<1>3. /\ thread'[r].client = thread[r].client /\ thread'[r].slot = thread[r].slot
      /\ thread'[r].held = row /\ thread'[r].pc = next
      /\ \A q \in Requests \ {r} : thread'[q] = thread[q]
  BY <1>1 DEF RequestsTyped, ThreadType, RowType
<1>4. /\ \A q \in Requests :
          thread'[q].client = thread[q].client /\ thread'[q].slot = thread[q].slot
      /\ \A q \in Requests : q # r =>
          thread'[q].held = thread[q].held /\ thread'[q].pc = thread[q].pc
  BY <1>3
<1>5. \A q \in Requests :
        thread[q].held \in Gateway!Referred /\ thread[q].slot \in Gateway!Referred
  BY DEF Gateway!Referred
<1>6. \A d \in Clients : table[d] # None => table[d] \in Gateway!Tabled
  BY DEF Gateway!Tabled
<1>7. \A d \in Clients : table'[d] = IF d = thread[r].client THEN row
                                     ELSE IF d \in gone THEN None ELSE table[d]
  BY <1>1
<1>8. None \notin RowIds /\ thread[r].client \in Clients
  BY RequestsAssumption DEF RequestsTyped, ThreadType, RowType
<1>9. RowsByPlace'
  BY <1>3, <1>8 DEF RowsByPlace
<1>10. row = table[thread[r].client]
         \/ (table[thread[r].client] = None /\ row \notin Gateway!Tabled \cup Gateway!Referred)
  BY <1>1
<1>11. RowsApart'
  <2>1. \A c, d \in Clients : table'[c] # None /\ table'[c] = table'[d] => c = d
    BY <1>6, <1>7, <1>8, <1>10 DEF RowsApart
  <2>2. \A q \in Requests, d \in Clients :
          thread'[q].client # None /\ table'[d] # None
              /\ table'[d] \in {thread'[q].held, thread'[q].slot}
          => d = thread'[q].client
    <3> SUFFICES ASSUME NEW q \in Requests, NEW d \in Clients, thread[q].client # None,
                        table'[d] # None, table'[d] \in {thread'[q].held, thread'[q].slot},
                        d # thread[q].client
                 PROVE  FALSE
      BY <1>4
    <3>1. CASE d = thread[r].client
      <4>1. q # r /\ table'[d] = row /\ row \in {thread[q].held, thread[q].slot}
        BY <3>1, <1>4, <1>7
      <4> QED BY <4>1, <3>1, <1>5, <1>10, <1>8 DEF RowsApart
    <3>2. CASE d # thread[r].client
      <4>1. table'[d] = table[d] /\ table[d] # None
        BY <3>2, <1>7
      <4>2. table[d] \notin {thread[q].held, thread[q].slot}
        BY <4>1 DEF RowsApart
      <4>3. q = r /\ table[d] = row
        BY <4>1, <4>2, <1>3, <1>4
      <4> QED BY <4>1, <4>3, <3>2, <1>6, <1>8, <1>10 DEF RowsApart
    <3> QED BY <3>1, <3>2
  <2> QED BY <2>1, <2>2 DEF RowsApart
<1>12. RefersToOwn'
  <2> SUFFICES ASSUME NEW q \in Requests, thread[q].client \notin torn', thread[q].client # None
               PROVE  /\ thread'[q].held # None => thread'[q].held = table'[thread[q].client]
                      /\ thread[q].slot # None => thread[q].slot = table'[thread[q].client]
    BY <1>4 DEF RefersToOwn
  <2> DEFINE d == thread[q].client
  <2>1. d \in Clients /\ d \notin torn /\ ~ (d \in gone /\ table[d] \in Gateway!Referred)
    BY <1>1 DEF RequestsTyped, ThreadType, RowType
  <2>2. /\ thread[q].held # None => thread[q].held = table[d]
        /\ thread[q].slot # None => thread[q].slot = table[d]
    BY <2>1 DEF RefersToOwn
  <2>3. CASE d = thread[r].client
    BY <2>1, <2>2, <2>3, <1>3, <1>4, <1>7, <1>10
  <2>4. CASE d # thread[r].client
    <3>1. q # r /\ thread'[q].held = thread[q].held
      BY <2>4, <1>4
    <3>2. d \in gone => thread[q].held = None /\ thread[q].slot = None
      BY <2>1, <2>2, <1>5
    <3> QED BY <3>1, <3>2, <2>1, <2>2, <2>4, <1>7
  <2> QED BY <2>3, <2>4
<1>13. RowsBounded'
  BY <1>1, LimitAssumption DEF RowsBounded, Gateway!Fresh, RequestsTyped
<1>14. Gateway!ReservationsExact'
  <2> SUFFICES ASSUME NEW d \in Clients, d \notin torn', table'[d] # None
               PROVE  rows'[table'[d]].inflight
                      = Cardinality({q \in Requests : thread'[q].slot = table'[d]})
    BY SameCardinality DEF Gateway!ReservationsExact
  <2>1. {q \in Requests : thread'[q].slot = table'[d]} = {q \in Requests :
          thread[q].slot = table'[d]}
    BY <1>4
  <2>2. d \notin torn
    BY <1>1
  <2>3. CASE table'[d] = table[d]
    <3>1. rows[table[d]].inflight = Cardinality({q \in Requests : thread[q].slot = table[d]})
      BY <2>2, <2>3, SameCardinality DEF Gateway!ReservationsExact
    <3>2. rows'[table[d]] = rows[table[d]]
      <4>1. CASE rows' = rows
        BY <4>1
      <4>2. CASE rows' # rows
        <5>1. /\ table[thread[r].client] = None /\ row \notin Gateway!Tabled \cup Gateway!Referred
              /\ rows' = [id \in RowIds |->
                     IF id \in {table[e] : e \in gone} \ Gateway!Referred \/ id = row
                         THEN Gateway!Fresh ELSE rows[id]]
          BY <1>1, <4>2
        <5>2. d \notin gone
          BY <2>3, <1>7, <5>1
        <5>3. table[d] \notin {table[e] : e \in gone}
          BY <5>2, <2>3 DEF RowsApart
        <5>4. table[d] # row /\ table[d] \in RowIds
          BY <5>1, <2>3, <1>6 DEF RequestsTyped, ThreadType, RowType
        <5> QED BY <5>1, <5>3, <5>4
      <4> QED BY <4>1, <4>2
    <3> QED BY <2>1, <2>3, <3>1, <3>2
  <2>4. CASE table'[d] # table[d]
    <3>1. d = thread[r].client /\ table'[d] = row /\ row # table[d]
      BY <2>4, <1>7
    <3>2. row \notin Gateway!Referred /\ rows'[row] = Gateway!Fresh
      BY <1>1, <3>1
    <3>3. {q \in Requests : thread[q].slot = row} = {}
      BY <3>2, <1>5
    <3>4. Cardinality({q \in Requests : thread[q].slot = row}) = 0
      BY <3>3, FS_EmptySet
    <3>5. rows'[table'[d]].inflight = 0
      BY <3>1, <3>2 DEF Gateway!Fresh
    <3>6. {q \in Requests : thread'[q].slot = table'[d]} = {q \in Requests : thread[q].slot = row}
      BY <2>1, <3>1
    <3> QED BY <3>4, <3>5, <3>6
  <2> QED BY <2>3, <2>4
<1> QED BY <1>2, <1>9, <1>11, <1>12, <1>13, <1>14

\* A thread that neither reserves nor releases goes on.
LEMMA ThreadMoves ==
    ASSUME SlotsInv, NEW r \in Requests, NEW p \in ThreadType,
           thread' = [thread EXCEPT ![r] = p], UNCHANGED <<table, torn>>,
           rows' \in [RowIds -> RowType], \A id \in RowIds :
               rows'[id].inflight = rows[id].inflight,
           p.slot = thread[r].slot, p.held \in {None, thread[r].held},
           p.client = thread[r].client \/ p.client = None \/ (p.held = None /\ p.slot = None),
           p.client = None <=> p.pc \in {"new", "done", "failed"},
           p.held # None <=> p.pc \in {"check", "charge", "release"},
           p.pc \in {"new", "authorize", "fetch", "check", "done"} => p.slot = None,
           p.pc \in {"price", "charge", "proxy", "finish", "refused", "release"} => p.slot # None
    PROVE  SlotsInv'
<1> USE DEF SlotsInv
<1>1. thread'[r] = p /\ \A q \in Requests \ {r} : thread'[q] = thread[q]
  BY DEF RequestsTyped
<1>2. RequestsTyped'
  BY DEF RequestsTyped
<1>3. RowsByPlace'
  BY <1>1 DEF RowsByPlace
<1>4. RowsApart'
  BY <1>1 DEF RowsApart
<1>5. RefersToOwn'
  BY <1>1 DEF RefersToOwn
<1>6. RowsBounded'
  BY DEF RowsBounded
<1>7. Gateway!ReservationsExact'
  <2> SUFFICES ASSUME NEW d \in Clients, d \notin torn, table[d] # None
               PROVE  rows'[table[d]].inflight
                      = Cardinality({q \in Requests : thread'[q].slot = table[d]})
    BY SameCardinality DEF Gateway!ReservationsExact
  <2>1. rows[table[d]].inflight = Cardinality({q \in Requests : thread[q].slot = table[d]})
    BY SameCardinality DEF Gateway!ReservationsExact
  <2>2. {q \in Requests : thread'[q].slot = table[d]} = {q \in Requests :
          thread[q].slot = table[d]}
    BY <1>1
  <2>3. rows'[table[d]].inflight = rows[table[d]].inflight
    BY DEF RequestsTyped
  <2> QED BY <2>1, <2>2, <2>3
<1> QED BY <1>2, <1>3, <1>4, <1>5, <1>6, <1>7

\* check: a reservation is counted in the row in which it is made.
LEMMA CheckReserves ==
    ASSUME SlotsInv, NEW r \in Requests, thread[r].pc = "check", UNCHANGED <<table, torn>>,
           rows' \in [RowIds -> RowType], rows[thread[r].held].inflight < MaxConcurrent,
           NEW next \in {"proxy", "price"},
           thread' = [thread EXCEPT ![r] = [@ EXCEPT !.held = None, !.slot = thread[r].held,
                                                     !.pc = next]],
           rows'[thread[r].held].inflight = rows[thread[r].held].inflight + 1,
           \A id \in RowIds \ {thread[r].held} : rows'[id] = rows[id]
    PROVE  SlotsInv'
<1> USE DEF SlotsInv
<1> DEFINE id == thread[r].held
           c == thread[r].client
<1>1. thread \in [Requests -> ThreadType]
  BY DEF RequestsTyped
<1>2. id \in RowIds /\ id # None /\ thread[r].slot = None /\ c \in Clients /\ c # None
  BY <1>1, RequestsAssumption DEF RowsByPlace, ThreadType
<1>3. /\ thread'[r].client = c /\ thread'[r].slot = id /\ thread'[r].held = None
      /\ thread'[r].pc = next
      /\ \A q \in Requests \ {r} : thread'[q] = thread[q]
  BY <1>1 DEF ThreadType
<1>4. RequestsTyped'
  <2>0. next \in RequestPcs /\ thread[r] \in ThreadType
    BY <1>1 DEF RequestPcs
  <2> DEFINE p == [thread[r] EXCEPT !.held = None, !.slot = id, !.pc = next]
  <2>1. thread' = [thread EXCEPT ![r] = p]
    OBVIOUS
  <2> HIDE DEF id
  <2>2. p \in ThreadType
    BY <2>0, <1>2 DEF ThreadType
  <2> HIDE DEF p
  <2> QED BY <1>1, <2>1, <2>2 DEF RequestsTyped
<1>5. RowsByPlace'
  BY <1>2, <1>3 DEF RowsByPlace
<1>6. RowsApart'
  BY <1>2, <1>3 DEF RowsApart
<1>7. RefersToOwn'
  BY <1>2, <1>3 DEF RefersToOwn
<1>8. RowsBounded'
  <2> SUFFICES ASSUME NEW i \in RowIds PROVE rows'[i].inflight <= MaxConcurrent
    BY DEF RowsBounded
  <2>1. rows[id].inflight \in Nat
    BY <1>2 DEF RequestsTyped, RowType
  <2> QED BY <2>1, <1>2, LimitAssumption DEF RowsBounded
<1>9. Gateway!ReservationsExact'
  <2> SUFFICES ASSUME NEW d \in Clients, d \notin torn, table[d] # None
               PROVE  rows'[table[d]].inflight
                      = Cardinality({q \in Requests : thread'[q].slot = table[d]})
    BY SameCardinality DEF Gateway!ReservationsExact
  <2> DEFINE before == {q \in Requests : thread[q].slot = table[d]}
             after == {q \in Requests : thread'[q].slot = table[d]}
  <2>1. rows[table[d]].inflight = Cardinality(before) /\ table[d] \in RowIds
    BY SameCardinality DEF Gateway!ReservationsExact, RequestsTyped
  <2>2. CASE table[d] = id
    <3>1. after = before \cup {r} /\ r \notin before
      BY <2>2, <1>2, <1>3
    <3>2. IsFiniteSet(before)
      BY FS_Subset, RequestsAssumption
    <3> HIDE DEF before, after
    <3>3. Cardinality(after) = Cardinality(before) + 1
      BY <3>1, <3>2, FS_AddElement
    <3> QED BY <2>1, <2>2, <3>3 DEF after
  <2>3. CASE table[d] # id
    <3>1. after = before
      BY <2>3, <1>2, <1>3
    <3>2. rows'[table[d]] = rows[table[d]]
      BY <2>1, <2>3
    <3> QED BY <2>1, <3>1, <3>2
  <2> QED BY <2>2, <2>3
<1> QED BY <1>4, <1>5, <1>6, <1>7, <1>8, <1>9

\* release: the row of a client that was never evicted from under a thread is the one in
\* which the thread reserved.
LEMMA ReleaseGivesBack ==
    ASSUME SlotsInv, NEW r \in Requests, Gateway!Release(r)
    PROVE  SlotsInv'
<1> USE DEF SlotsInv
<1> DEFINE id == thread[r].held
           c == thread[r].client
<1>1. thread \in [Requests -> ThreadType] /\ rows \in [RowIds -> RowType]
  BY DEF RequestsTyped
<1>2. id \in RowIds /\ id # None /\ thread[r].slot # None /\ c \in Clients /\ c # None
  BY <1>1, RequestsAssumption DEF RowsByPlace, ThreadType, Gateway!Release
<1>3. Gateway!At("done") \in ThreadType
  BY DEF Gateway!At, ThreadType, RequestPcs
<1>4. /\ thread'[r] = Gateway!At("done") /\ \A q \in Requests \ {r} : thread'[q] = thread[q]
      /\ table' = table /\ torn' = torn
  BY <1>1 DEF Gateway!Release, Gateway!Answered
<1>5. rows[id].inflight \in Nat
  BY <1>1, <1>2 DEF RowType
<1> DEFINE left == IF rows[id].inflight > 0 THEN rows[id].inflight - 1 ELSE 0
<1>6. left \in Nat /\ left <= rows[id].inflight
  BY <1>5
<1>7. rows' = [rows EXCEPT ![id].inflight = left]
  BY DEF Gateway!Release
<1> HIDE DEF left
<1>8. /\ rows' \in [RowIds -> RowType] /\ rows'[id].inflight = left
      /\ \A i \in RowIds \ {id} : rows'[i] = rows[i]
  BY <1>1, <1>2, <1>6, <1>7 DEF RowType
<1>9. RequestsTyped'
  BY <1>1, <1>3, <1>4, <1>8 DEF RequestsTyped, Gateway!Release, Gateway!Answered
<1>10. RowsByPlace'
  BY <1>4 DEF RowsByPlace, Gateway!At
<1>11. RowsApart'
  BY <1>4 DEF RowsApart, Gateway!At
<1>12. RefersToOwn'
  BY <1>4 DEF RefersToOwn, Gateway!At
<1>13. RowsBounded'
  <2> SUFFICES ASSUME NEW i \in RowIds PROVE rows'[i].inflight <= MaxConcurrent
    BY DEF RowsBounded
  <2> QED BY <1>2, <1>5, <1>6, <1>8, LimitAssumption DEF RowsBounded
<1>14. Gateway!ReservationsExact'
  <2> SUFFICES ASSUME NEW d \in Clients, d \notin torn, table[d] # None
               PROVE  rows'[table[d]].inflight
                      = Cardinality({q \in Requests : thread'[q].slot = table[d]})
    BY <1>4, SameCardinality DEF Gateway!ReservationsExact
  <2> DEFINE before == {q \in Requests : thread[q].slot = table[d]}
             after == {q \in Requests : thread'[q].slot = table[d]}
  <2>1. rows[table[d]].inflight = Cardinality(before) /\ table[d] \in RowIds
    BY SameCardinality DEF Gateway!ReservationsExact, RequestsTyped
  <2>2. CASE d = c
    <3>1. table[d] = id /\ thread[r].slot = id
      BY <1>2, <2>2 DEF RefersToOwn
    <3>2. after = before \ {r} /\ r \in before
      BY <3>1, <1>2, <1>4 DEF Gateway!At
    <3>3. IsFiniteSet(before)
      BY FS_Subset, RequestsAssumption
    <3> HIDE DEF before, after
    <3>4. Cardinality(after) = Cardinality(before) - 1 /\ IsFiniteSet(after)
      BY <3>2, <3>3, FS_RemoveElement
    <3>5. Cardinality(after) \in Nat
      BY <3>4, FS_CardinalityType
    <3>6. left = Cardinality(after)
      BY <2>1, <3>1, <3>4, <3>5, <1>5 DEF left
    <3> QED BY <3>1, <3>6, <1>8 DEF after
  <2>3. CASE d # c
    <3>1. table[d] # id /\ table[d] # thread[r].slot
      BY <1>2, <2>3 DEF RowsApart
    <3>2. after = before
      BY <3>1, <1>4 DEF Gateway!At
    <3>3. rows'[table[d]] = rows[table[d]]
      BY <2>1, <3>1, <1>8
    <3> QED BY <2>1, <3>2, <3>3
  <2> QED BY <2>2, <2>3
<1> QED BY <1>9, <1>10, <1>11, <1>12, <1>13, <1>14

\* Every step of a request keeps the reservations.
LEMMA SlotsStep ==
    ASSUME SlotsInv, [Gateway!Next]_(Gateway!gatewayVars)
    PROVE  SlotsInv'
<1>1. thread \in [Requests -> ThreadType] /\ rows \in [RowIds -> RowType]
  BY DEF SlotsInv, RequestsTyped
<1>2. None \notin RowIds /\ None \notin Clients
  BY RequestsAssumption
<1>3. \A r \in Requests :
        /\ thread[r] \in ThreadType /\ thread[r].client \in Clients \cup {None}
        /\ thread[r].client = None <=> thread[r].pc \in {"new", "done", "failed"}
        /\ thread[r].held # None <=> thread[r].pc \in {"check", "charge", "release"}
        /\ thread[r].pc \in {"new", "authorize", "fetch", "check", "done"} =>
            thread[r].slot = None
        /\ thread[r].pc \in {"price", "charge", "proxy", "finish", "refused", "release"} =>
              thread[r].slot # None
  BY <1>1 DEF SlotsInv, RowsByPlace, ThreadType
<1>4. /\ Gateway!At("done") \in ThreadType /\ Gateway!At("done").held = None
      /\ Gateway!At("done").slot = None
      /\ Gateway!At("done").client = None /\ Gateway!At("done").pc = "done"
  BY DEF Gateway!At, ThreadType, RequestPcs
<1>5. ASSUME NEW r \in Requests, Gateway!Answered(r), UNCHANGED <<table, torn>>,
        thread[r].slot = None,
             rows' \in [RowIds -> RowType],
             \A id \in RowIds : rows'[id].inflight = rows[id].inflight
      PROVE  SlotsInv'
  BY <1>3, <1>4, <1>5, ThreadMoves DEF Gateway!Answered
<1>6. ASSUME NEW r \in Requests, Gateway!Raised(r), UNCHANGED <<table, torn, rows>>,
             thread[r].pc \in {"price", "finish", "refused"}
      PROVE  SlotsInv'
  <2> DEFINE p == [Gateway!At("failed") EXCEPT !.slot = thread[r].slot]
  <2>1. p \in ThreadType /\ p.held = None /\ p.slot = thread[r].slot /\ p.client = None
        /\ p.pc = "failed"
    BY <1>3 DEF Gateway!At, ThreadType, RequestPcs
  <2>2. thread' = [thread EXCEPT ![r] = p]
    BY <1>6 DEF Gateway!Raised
  <2> HIDE DEF p
  <2> QED BY <1>1, <1>6, <2>1, <2>2, ThreadMoves
<1>7. ASSUME NEW r \in Requests, NEW pc \in {"fetch", "finish"}, Gateway!Goes(r, pc),
             UNCHANGED <<table, torn, rows>>,
             IF pc = "fetch" THEN thread[r].pc = "authorize" ELSE thread[r].pc = "proxy"
      PROVE  SlotsInv'
  <2> DEFINE p == [thread[r] EXCEPT !.pc = pc]
  <2>1. p \in ThreadType /\ p.held = thread[r].held /\ p.slot = thread[r].slot
        /\ p.client = thread[r].client /\ p.pc = pc
    BY <1>3, <1>7 DEF ThreadType, RequestPcs
  <2>2. thread' = [thread EXCEPT ![r] = p]
    BY <1>7 DEF Gateway!Goes
  <2> HIDE DEF p
  <2> QED BY <1>1, <1>3, <1>7, <2>1, <2>2, ThreadMoves
<1>8. ASSUME NEW r \in Requests, Gateway!Accept(r) PROVE SlotsInv'
  <2>1. ASSUME NEW c \in Clients, NEW k \in Gateway!Kinds,
               thread' = [thread EXCEPT ![r] = [Gateway!At("authorize") EXCEPT !.client = c,
                   !.kind = k]]
        PROVE  SlotsInv'
    <3> DEFINE p == [Gateway!At("authorize") EXCEPT !.client = c, !.kind = k]
    <3>1. /\ p \in ThreadType /\ p.held = None /\ p.slot = None /\ p.client # None
          /\ p.pc = "authorize"
      BY <1>2 DEF Gateway!At, ThreadType, RequestPcs
    <3>2. thread' = [thread EXCEPT ![r] = p]
      BY <2>1
    <3> HIDE DEF p
    <3> QED BY <1>1, <1>3, <1>8, <3>1, <3>2, ThreadMoves DEF Gateway!Accept
  <2> QED BY <1>1, <1>3, <1>5, <1>8, <2>1 DEF Gateway!Accept
<1>9. ASSUME NEW r \in Requests, Gateway!Authorize(r) PROVE SlotsInv'
  BY <1>1, <1>3, <1>5, <1>7, <1>9 DEF Gateway!Authorize
<1>10. ASSUME NEW r \in Requests, Gateway!FetchToCheck(r) PROVE SlotsInv'
  BY <1>1, <1>3, <1>5, <1>10, FetchRowKeeps DEF Gateway!FetchToCheck
<1>11. ASSUME NEW r \in Requests, Gateway!Check(r) PROVE SlotsInv'
  <2> DEFINE id == thread[r].held
             row == Gateway!Renewed(rows[id])
  <2>1. id \in RowIds /\ rows[id] \in RowType
    BY <1>1, <1>3, <1>11 DEF Gateway!Check, ThreadType
  <2>2. row \in RowType /\ row.inflight = rows[id].inflight
    BY <2>1 DEF Gateway!Renewed, RowType, Gateway!Fresh
  <2> HIDE DEF row
  <2>3. CASE row.inflight < MaxConcurrent /\ row.count < MaxRate
    <3> DEFINE next == IF thread[r].kind = "models" THEN "proxy" ELSE "price"
               reserved == [row EXCEPT !.inflight = @ + 1, !.count = @ + 1]
    <3>1. /\ rows' = [rows EXCEPT ![id] = reserved]
          /\ thread' = [thread EXCEPT ![r] = [@ EXCEPT !.held = None, !.slot = id, !.pc = next]]
          /\ UNCHANGED <<table, torn>> /\ thread[r].pc = "check"
      BY <1>11, <2>3 DEF Gateway!Check, row
    <3>2. reserved \in RowType /\ reserved.inflight = row.inflight + 1
      <4>1. row.inflight + 1 \in Nat /\ row.count + 1 \in Nat
        BY <2>2 DEF RowType
      <4>2. reserved = [row EXCEPT !.inflight = row.inflight + 1, !.count = row.count + 1]
        OBVIOUS
      <4> HIDE DEF reserved
      <4> QED BY <2>2, <4>1, <4>2 DEF RowType
    <3>3. next \in {"proxy", "price"}
      OBVIOUS
    <3> HIDE DEF next, reserved
    <3>4. rows' \in [RowIds -> RowType] /\ rows'[id].inflight = rows[id].inflight + 1
          /\ \A i \in RowIds \ {id} : rows'[i] = rows[i]
      BY <1>1, <2>1, <2>2, <3>1, <3>2
    <3> QED BY <2>2, <2>3, <3>1, <3>3, <3>4, CheckReserves
  <2>4. CASE ~ (row.inflight < MaxConcurrent /\ row.count < MaxRate)
    <3>1. rows' = [rows EXCEPT ![id] = row] /\ Gateway!Answered(r) /\ UNCHANGED <<table, torn>>
          /\ thread[r].pc = "check"
      BY <1>11, <2>4 DEF Gateway!Check, row
    <3>2. rows' \in [RowIds -> RowType] /\ \A i \in RowIds : rows'[i].inflight = rows[i].inflight
      BY <1>1, <2>1, <2>2, <3>1
    <3> QED BY <1>3, <1>5, <3>1, <3>2
  <2> QED BY <2>3, <2>4
<1>12. ASSUME NEW r \in Requests, Gateway!Price(r) PROVE SlotsInv'
  BY <1>3, <1>6, <1>12, FetchRowKeeps DEF Gateway!Price
<1>13. ASSUME NEW r \in Requests, Gateway!Charge(r) PROVE SlotsInv'
  <2> DEFINE id == thread[r].held
             next == IF rows[id].tokens < Allowance THEN "proxy" ELSE "refused"
             tokens == IF next = "proxy" THEN rows[id].tokens + 1 ELSE rows[id].tokens
             p == [thread[r] EXCEPT !.held = None, !.pc = next]
  <2>1. id \in RowIds /\ rows[id] \in RowType /\ thread[r].pc = "charge"
    BY <1>1, <1>3, <1>13 DEF Gateway!Charge, ThreadType
  <2>2. thread' = [thread EXCEPT ![r] = p] /\ rows' = [rows EXCEPT ![id].tokens = tokens]
        /\ UNCHANGED <<table, torn>>
    BY <1>13 DEF Gateway!Charge
  <2>3. next \in {"proxy", "refused"} /\ tokens \in Nat
    BY <2>1 DEF RowType
  <2> HIDE DEF next, tokens, id
  <2>4. p \in ThreadType /\ p.held = None /\ p.slot = thread[r].slot
        /\ p.client = thread[r].client /\ p.pc = next
    BY <1>3, <2>3 DEF ThreadType, RequestPcs
  <2>5. rows' \in [RowIds -> RowType] /\ \A i \in RowIds : rows'[i].inflight = rows[i].inflight
    BY <1>1, <2>1, <2>2, <2>3 DEF RowType
  <2> HIDE DEF p
  <2> QED BY <1>3, <2>1, <2>2, <2>3, <2>4, <2>5, ThreadMoves
<1>14. ASSUME NEW r \in Requests, Gateway!Proxy(r) PROVE SlotsInv'
  BY <1>7, <1>14 DEF Gateway!Proxy
<1>15. ASSUME NEW r \in Requests, Gateway!FetchToRelease(r) PROVE SlotsInv'
  BY <1>3, <1>6, <1>15, FetchRowKeeps DEF Gateway!FetchToRelease
<1>16. ASSUME NEW r \in Requests, Gateway!Release(r) PROVE SlotsInv'
  BY <1>16, ReleaseGivesBack
<1>17. ASSUME Gateway!WindowElapses PROVE SlotsInv'
  <2>1. /\ rows' \in [RowIds -> RowType] /\ UNCHANGED <<thread, table, torn>>
        /\ \A i \in RowIds : rows'[i].inflight = rows[i].inflight
    <3>1. \A i \in RowIds, b \in BOOLEAN :
            [rows[i] EXCEPT !.elapsed = b] \in RowType
            /\ [rows[i] EXCEPT !.elapsed = b].inflight = rows[i].inflight
      BY <1>1 DEF RowType
    <3>2. rows' = [i \in RowIds |-> [rows[i] EXCEPT !.elapsed = i \in Gateway!Tabled \cup
            Gateway!Referred]]
          /\ UNCHANGED <<thread, table, torn>>
      BY <1>17 DEF Gateway!WindowElapses
    <3>3. \A i \in RowIds : (i \in Gateway!Tabled \cup Gateway!Referred) \in BOOLEAN
      OBVIOUS
    <3> QED BY <3>1, <3>2, <3>3
  <2>2. Gateway!ReservationsExact'
    BY <2>1, SameCardinality DEF SlotsInv, Gateway!ReservationsExact, RequestsTyped
  <2> QED BY <2>1, <2>2
          DEF SlotsInv, RequestsTyped, RowsByPlace, RowsApart, RefersToOwn, RowsBounded
<1>18. ASSUME UNCHANGED Gateway!gatewayVars PROVE SlotsInv'
  BY <1>18 DEF Gateway!gatewayVars, SlotsInv, RequestsTyped, RowsByPlace, RowsApart, RefersToOwn,
               RowsBounded, Gateway!ReservationsExact
<1> QED
  BY <1>8, <1>9, <1>10, <1>11, <1>12, <1>13, <1>14, <1>15, <1>16, <1>17, <1>18 DEF Gateway!Next

LEMMA SlotsInit == Gateway!Init => SlotsInv
<1> SUFFICES ASSUME Gateway!Init PROVE SlotsInv
  OBVIOUS
<1>1. RequestsTyped
  BY DEF Gateway!Init, RequestsTyped, ThreadType, RowType, RequestPcs, Gateway!At, Gateway!Fresh
<1>2. RowsByPlace /\ RowsApart /\ RefersToOwn /\ Gateway!ReservationsExact
  BY DEF Gateway!Init, RowsByPlace, RowsApart, RefersToOwn, Gateway!ReservationsExact, Gateway!At
<1>3. RowsBounded
  BY LimitAssumption DEF Gateway!Init, RowsBounded, Gateway!Fresh
<1> QED BY <1>1, <1>2, <1>3 DEF SlotsInv

\* A request at the model server holds one of its client's reservations.
LEMMA SlotsImplied == SlotsInv => Gateway!SlotsExact
<1> SUFFICES ASSUME SlotsInv, NEW c \in Clients, c \notin torn
             PROVE  Cardinality({r \in Requests : thread[r].client = c /\ thread[r].pc = "proxy"})
                    <= MaxConcurrent
  BY SameCardinality DEF SlotsInv, Gateway!SlotsExact, Gateway!ConcurrencyHeld
<1> DEFINE there == {r \in Requests : thread[r].client = c /\ thread[r].pc = "proxy"}
           holders == {r \in Requests : thread[r].slot = table[c]}
<1>1. IsFiniteSet(there) /\ IsFiniteSet(holders)
  BY FS_Subset, RequestsAssumption
<1>2. CASE there = {}
  BY <1>2, FS_EmptySet, LimitAssumption
<1>3. CASE there # {}
  <2>1. \A r \in there : thread[r].slot = table[c] /\ table[c] # None
    BY RequestsAssumption DEF SlotsInv, RefersToOwn, RowsByPlace
  <2>2. there \subseteq holders /\ table[c] # None
    BY <1>3, <2>1
  <2>3. table[c] \in RowIds
    BY <2>2 DEF SlotsInv, RequestsTyped
  <2>4. rows[table[c]].inflight = Cardinality(holders) /\ rows[table[c]].inflight <= MaxConcurrent
    BY <2>2, <2>3, SameCardinality DEF SlotsInv, Gateway!ReservationsExact, RowsBounded
  <2> HIDE DEF there, holders
  <2>5. Cardinality(there) <= Cardinality(holders)
    BY <1>1, <2>2, FS_Subset
  <2>6. Cardinality(there) \in Nat /\ Cardinality(holders) \in Nat
    BY <1>1, FS_CardinalityType
  <2> QED BY <2>4, <2>5, <2>6, LimitAssumption DEF there
<1> QED BY <1>2, <1>3

THEOREM SlotsStayExact == Gateway!GatewaySpec => []Gateway!SlotsExact
  BY SlotsInit, SlotsStep, SlotsImplied, PTL DEF Gateway!GatewaySpec

-----------------------------------------------------------------------------
(* The credential of a client                                              *)

ClientType == [gen : Credential!Generations, revision : Nat, revoked : BOOLEAN]
CommandPcs == {"idle", "publish", "create", "rotate", "unlink", "list", "sweep"}
CommandType ==
    [pc : CommandPcs, gen : Credential!Generations \cup {None}, secret : Nat \cup {None},
                made : BOOLEAN, revision : Nat \cup {None}, files : SUBSET Credential!Generations]

\* The client, its generations and the commands under way have their fields.
CredentialTyped ==
    /\ client \in {None} \cup ClientType
    /\ state \in [Credential!Generations -> {None, "ACTIVE", "OVERLAP", "LAPSED", "RETIRED"}]
    /\ print \in [Credential!Generations -> Nat \cup {None}]
    /\ file \in [Credential!Generations -> Nat \cup {None}]
    /\ work \in [Credential!Actors -> CommandType]
    /\ drawn \in Nat /\ enabled \in BOOLEAN /\ swept \in BOOLEAN

\* Every secret there is was drawn.
SecretsDrawn ==
    /\ \A g \in Credential!Generations : print[g] \in Nat => print[g] <= drawn
    /\ \A g \in Credential!Generations : file[g] \in Nat => file[g] <= drawn
    /\ \A a \in Credential!Actors : work[a].secret \in Nat => work[a].secret <= drawn
    /\ \A s \in spent : s \in Nat => s <= drawn

\* A setup operation under way has found no client; the file is the one it will record.
SetupPlace ==
    LET w == work["setup"] IN
    /\ w.pc \in {"idle", "publish", "create"}
    /\ w.pc # "idle" => client = None /\ w.gen = 1 /\ w.secret \in Nat
    /\ w.pc = "create" => swept \/ file[1] = w.secret

\* A rotation under way makes the next generation, of a secret that nobody has seen.
UserPlace ==
    LET w == work["user"] IN
    /\ w.pc # "create"
    /\ w.pc \in {"publish", "rotate"} =>
          /\ client # None /\ w.gen = client.gen + 1 /\ w.gen \in Credential!Generations
          /\ w.secret \in Nat /\ w.secret \notin spent /\ \A g \in Credential!Generations :
              print[g] # w.secret
    /\ w.pc = "rotate" => file[w.gen] = w.secret
    /\ w.pc = "unlink" => client # None /\ (client.revoked \/ client.gen \notin w.files)

\* Nothing was ever taken back from a client that is not there, or that nobody could use.
SpentPlace ==
    /\ client = None => spent = {}
    /\ client # None /\ ~ client.revoked /\ ~ enabled => spent = {}

\* A client that is not revoked has its generation active.
ActiveState == client # None /\ ~ client.revoked => state[client.gen] = "ACTIVE"

CredentialInv ==
    /\ CredentialTyped /\ SecretsDrawn /\ SetupPlace /\ UserPlace /\ SpentPlace /\ ActiveState
    /\ Credential!SpentStaysSpent /\ Credential!ActiveHasFile

-----------------------------------------------------------------------------

LEMMA ClientFields ==
    ASSUME NEW c \in ClientType, NEW g \in Credential!Generations
    PROVE  /\ c # None /\ c.gen \in Credential!Generations /\ c.revision \in Nat
           /\ c.revoked \in BOOLEAN
           /\ LET b == [c EXCEPT !.revision = @ + 1] IN
              b \in ClientType /\ b # None /\ b.gen = c.gen /\ b.revoked = c.revoked
           /\ LET b == [c EXCEPT !.revoked = TRUE, !.revision = @ + 1] IN
              b \in ClientType /\ b # None /\ b.gen = c.gen /\ b.revoked
           /\ LET b == [c EXCEPT !.gen = g, !.revision = @ + 1] IN
              b \in ClientType /\ b # None /\ b.gen = g /\ b.revoked = c.revoked
<1>1. \A b \in ClientType : b # None
  BY CredentialAssumption DEF ClientType, Credential!Generations
<1>2. /\ c.gen \in Credential!Generations /\ c.revision \in Nat
      /\ c.revision + 1 \in Nat /\ c.revoked \in BOOLEAN
  BY DEF ClientType
<1>4. [c EXCEPT !.revision = c.revision + 1] \in ClientType
  BY <1>2 DEF ClientType
<1>5. [c EXCEPT !.revoked = TRUE, !.revision = c.revision + 1] \in ClientType
  BY <1>2 DEF ClientType
<1>6. [c EXCEPT !.gen = g, !.revision = c.revision + 1] \in ClientType
  BY <1>2 DEF ClientType
<1> QED BY <1>1, <1>2, <1>4, <1>5, <1>6 DEF ClientType

LEMMA DoesOne ==
    ASSUME CredentialTyped, NEW a \in Credential!Actors, NEW w \in CommandType,
        Credential!Does(a, w)
    PROVE  /\ work' \in [Credential!Actors -> CommandType] /\ work'[a] = w
           /\ \A b \in Credential!Actors : b # a => work'[b] = work[b]
  BY DEF CredentialTyped, Credential!Does

-----------------------------------------------------------------------------

LEMMA EnsureReadsGives ==
    ASSUME CredentialTyped, Credential!EnsureReads
    PROVE  /\ client = None /\ work' \in [Credential!Actors -> CommandType]
           /\ work'["user"] = work["user"]
           /\ work'["setup"].gen = 1 /\ work'["setup"].secret \in Nat
           /\ \/ work'["setup"].pc = "publish" /\ drawn' = drawn + 1
                  /\ work'["setup"].secret = drawn + 1
              \/ work'["setup"].pc = "create" /\ drawn' = drawn /\ work'["setup"].secret = file[1]
           /\ UNCHANGED <<client, state, print, enabled, file, swept>>
<1> USE CredentialAssumption
<1>1. /\ 1 \in Credential!Generations /\ "setup" \in Credential!Actors
      /\ "user" \in Credential!Actors
  BY DEF Credential!Generations, Credential!Actors
<1>2. CASE file[1] = None
  <2> DEFINE w == [Credential!Idle EXCEPT !.pc = "publish", !.gen = 1, !.secret = drawn + 1]
  <2>1. drawn + 1 \in Nat
    BY DEF CredentialTyped
  <2>2. w \in CommandType /\ w.pc = "publish" /\ w.gen = 1 /\ w.secret = drawn + 1
    BY <1>1, <2>1, CredentialAssumption DEF Credential!Idle, CommandType, CommandPcs
  <2>3. Credential!Does("setup", w) /\ drawn' = drawn + 1 /\ client = None
    BY <1>2 DEF Credential!EnsureReads, Credential!Draw
  <2> HIDE DEF w
  <2> QED BY <1>1, <2>1, <2>2, <2>3, DoesOne DEF Credential!EnsureReads
<1>3. CASE file[1] # None
  <2> DEFINE w == [Credential!Idle EXCEPT !.pc = "create", !.gen = 1, !.secret = file[1]]
  <2>1. file[1] \in Nat
    BY <1>1, <1>3 DEF CredentialTyped
  <2>2. w \in CommandType /\ w.pc = "create" /\ w.gen = 1 /\ w.secret = file[1]
    BY <1>1, <2>1, CredentialAssumption DEF Credential!Idle, CommandType, CommandPcs
  <2>3. Credential!Does("setup", w) /\ drawn' = drawn /\ client = None
    BY <1>3 DEF Credential!EnsureReads
  <2> HIDE DEF w
  <2> QED BY <1>1, <2>1, <2>2, <2>3, DoesOne DEF Credential!EnsureReads
<1> QED BY <1>2, <1>3

LEMMA PublishGives ==
    ASSUME CredentialTyped, NEW a \in Credential!Actors, Credential!Publish(a)
    PROVE  /\ work' \in [Credential!Actors -> CommandType] /\ \A b \in Credential!Actors :
               b # a => work'[b] = work[b]
           /\ work[a].pc = "publish"
           /\ \/ /\ file[work[a].gen] = None
                     /\ file' = [file EXCEPT ![work[a].gen] = work[a].secret]
                 /\ work'[a].gen = work[a].gen /\ work'[a].secret = work[a].secret
                 /\ work'[a].pc = IF a = "setup" THEN "create" ELSE "rotate"
              \/ work'[a].pc = "idle" /\ work'[a].secret = None /\ UNCHANGED file
           /\ UNCHANGED <<client, state, print, enabled, drawn, swept>>
<1> DEFINE pc == IF a = "setup" THEN "create" ELSE "rotate"
           w == [work[a] EXCEPT !.made = TRUE, !.pc = pc]
<1>1. pc \in CommandPcs /\ work[a] \in CommandType
  BY DEF CommandPcs, CredentialTyped
<1>2. w \in CommandType /\ w.pc = pc /\ w.gen = work[a].gen /\ w.secret = work[a].secret
  BY <1>1 DEF CommandType
<1>3. CASE file[work[a].gen] = None
  <2>1. Credential!Does(a, w) /\ file' = [file EXCEPT ![work[a].gen] = work[a].secret]
    BY <1>3 DEF Credential!Publish
  <2> HIDE DEF w
  <2> QED BY <1>2, <1>3, <2>1, DoesOne DEF Credential!Publish
<1>4. CASE file[work[a].gen] # None
  <2>1. /\ Credential!Idle \in CommandType /\ Credential!Idle.pc = "idle"
        /\ Credential!Idle.secret = None
    BY DEF Credential!Idle, CommandType, CommandPcs
  <2>2. Credential!Does(a, Credential!Idle) /\ UNCHANGED file
    BY <1>4 DEF Credential!Publish, Credential!Ends
  <2> QED BY <2>1, <2>2, DoesOne DEF Credential!Publish
<1> QED BY <1>3, <1>4

LEMMA CreateClientGives ==
    ASSUME CredentialInv, Credential!CreateClient
    PROVE  /\ client = None /\ work["setup"].secret \in Nat /\ 1 \in Credential!Generations
           /\ client' # None /\ client' \in ClientType /\ client'.gen = 1 /\ ~ client'.revoked
           /\ state' = [state EXCEPT ![1] = "ACTIVE"]
           /\ print' = [print EXCEPT ![1] = work["setup"].secret]
           /\ work' \in [Credential!Actors -> CommandType] /\ work'["user"] = work["user"]
           /\ work'["setup"].pc = "idle" /\ work'["setup"].secret = None
           /\ work["setup"].pc = "create"
           /\ UNCHANGED <<file, enabled, drawn, swept>>
<1>1. /\ Credential!Idle \in CommandType /\ Credential!Idle.pc = "idle"
      /\ Credential!Idle.secret = None
  BY DEF Credential!Idle, CommandType, CommandPcs
<1>2. /\ "setup" \in Credential!Actors /\ "user" \in Credential!Actors
      /\ Credential!Does("setup", Credential!Idle)
  BY DEF Credential!Actors, Credential!CreateClient, Credential!Ends
<1>3. client = None /\ work["setup"].secret \in Nat
  BY DEF CredentialInv, SetupPlace, Credential!CreateClient
<1>4. client' = [gen |-> 1, revision |-> 1, revoked |-> FALSE]
  BY <1>3 DEF Credential!CreateClient
<1>5. /\ client' \in ClientType /\ client'.gen = 1 /\ ~ client'.revoked
      /\ 1 \in Credential!Generations
  BY <1>4, CredentialAssumption DEF ClientType, Credential!Generations
<1>6. client' # None
  BY <1>5, ClientFields
<1> QED BY <1>1, <1>2, <1>3, <1>5, <1>6, DoesOne DEF Credential!CreateClient, CredentialInv

LEMMA RotateReadsGives ==
    ASSUME CredentialTyped, Credential!RotateReads
    PROVE  /\ client \in ClientType /\ client # None /\ drawn' = drawn + 1
           /\ work' \in [Credential!Actors -> CommandType] /\ work'["setup"] = work["setup"]
           /\ work'["user"].pc = "publish" /\ work'["user"].gen = client.gen + 1
           /\ client.gen + 1 \in Credential!Generations /\ work'["user"].secret = drawn + 1
           /\ UNCHANGED <<client, state, print, enabled, file, swept>>
<1> DEFINE w ==
      [Credential!Idle EXCEPT !.pc = "publish", !.gen = client.gen + 1, !.secret = drawn + 1,
                             !.revision = client.revision]
<1>1. /\ client # None /\ client.gen + 1 \in Credential!Generations
      /\ client \in ClientType /\ drawn + 1 \in Nat
  BY DEF Credential!RotateReads, CredentialTyped
<1>2. client.revision \in Nat
  BY <1>1 DEF ClientType
<1>3. w \in CommandType /\ w.pc = "publish" /\ w.gen = client.gen + 1 /\ w.secret = drawn + 1
  BY <1>1, <1>2, CredentialAssumption DEF Credential!Idle, CommandType, CommandPcs
<1>4. Credential!Does("user", w) /\ "setup" \in Credential!Actors /\ "user" \in Credential!Actors
  BY DEF Credential!RotateReads, Credential!Actors
<1> HIDE DEF w
<1> QED BY <1>1, <1>3, <1>4, DoesOne DEF Credential!RotateReads, Credential!Draw

LEMMA RotateGives ==
    ASSUME CredentialInv, Credential!Rotate
    PROVE  /\ work["user"].pc = "rotate" /\ work["user"].gen \in Credential!Generations
           /\ work["user"].secret \in Nat
           /\ work' \in [Credential!Actors -> CommandType] /\ work'["setup"] = work["setup"]
           /\ work'["user"].secret = None
           /\ UNCHANGED <<enabled, drawn, swept>>
           /\ \/ /\ client \in ClientType /\ client # None /\ client' \in ClientType
                     /\ client' # None
                 /\ client'.gen = work["user"].gen
                 /\ ~ client.revoked /\ ~ client'.revoked
                 /\ \E before \in {"OVERLAP", "RETIRED"} :
                       state' = [h \in Credential!Generations |->
                                    IF h = work["user"].gen THEN "ACTIVE"
                                    ELSE IF h = work["user"].gen - 1 THEN before ELSE state[h]]
                 /\ print' = [print EXCEPT ![work["user"].gen] = work["user"].secret]
                 /\ \/ work'["user"].pc = "unlink"
                        /\ work'["user"].files \subseteq {work["user"].gen - 1}
                    \/ work'["user"].pc = "idle"
                 /\ UNCHANGED file
              \/ /\ client = None \/ client.revoked \/ client.revision # work["user"].revision
                 /\ file' = Credential!Unlinked({work["user"].gen}) /\ work'["user"].pc = "idle"
                 /\ UNCHANGED <<client, state, print>>
<1> DEFINE g == work["user"].gen
           w == [Credential!Idle EXCEPT !.pc = "unlink", !.files = {g - 1}]
<1>0. /\ CredentialTyped /\ g \in Credential!Generations
      /\ g - 1 \in Credential!Generations /\ work["user"].secret \in Nat
  <2>1. CredentialTyped /\ client # None /\ g = client.gen + 1 /\ g \in Credential!Generations
        /\ work["user"].secret \in Nat
    BY DEF CredentialInv, UserPlace, Credential!Rotate
  <2>2. client.gen \in Credential!Generations
    BY <2>1 DEF CredentialTyped, ClientType
  <2> QED BY <2>1, <2>2, CredentialAssumption DEF Credential!Generations
<1>1. /\ Credential!Idle \in CommandType /\ Credential!Idle.pc = "idle"
      /\ Credential!Idle.secret = None
  BY DEF Credential!Idle, CommandType, CommandPcs
<1>2. "setup" \in Credential!Actors /\ "user" \in Credential!Actors
  BY DEF Credential!Actors
<1>3. CASE client # None /\ ~ client.revoked /\ client.revision = work["user"].revision
  <2>1. client \in ClientType
    BY <1>0, <1>3 DEF CredentialTyped
  <2>2. PICK before \in {"OVERLAP", "RETIRED"} :
              /\ client' = [client EXCEPT !.gen = g, !.revision = @ + 1]
              /\ state' = [h \in Credential!Generations |->
                             IF h = g THEN "ACTIVE" ELSE IF h = g - 1 THEN before ELSE state[h]]
              /\ print' = [print EXCEPT ![g] = work["user"].secret]
              /\ IF before = "RETIRED" THEN Credential!Does("user", w)
                  ELSE Credential!Ends("user")
              /\ UNCHANGED file
    BY <1>3 DEF Credential!Rotate
  <2>3. /\ client' \in ClientType /\ client' # None /\ client'.gen = g
        /\ client'.revoked = client.revoked
    BY <1>0, <2>1, <2>2, ClientFields
  <2> DEFINE S == work'["user"]
  <2>4. /\ work' \in [Credential!Actors -> CommandType]
        /\ work'["setup"] = work["setup"] /\ S.secret = None
        /\ \/ S.pc = "unlink" /\ S.files \subseteq {g - 1}
           \/ S.pc = "idle"
    <3>1. CASE Credential!Ends("user")
      BY <1>0, <3>1, <1>1, <1>2, DoesOne DEF Credential!Ends
    <3>2. CASE before = "RETIRED"
      <4>1. Credential!Does("user", w)
        BY <2>2, <3>2
      <4>2. w \in CommandType /\ w.pc = "unlink" /\ w.files = {g - 1} /\ w.secret = None
        BY <1>0 DEF Credential!Idle, CommandType, CommandPcs
      <4> HIDE DEF w
      <4> QED BY <1>0, <4>1, <4>2, <1>2, DoesOne
    <3> QED BY <2>2, <3>1, <3>2
  <2> QED BY <1>0, <1>3, <2>1, <2>2, <2>3, <2>4 DEF Credential!Rotate
<1>4. CASE ~ (client # None /\ ~ client.revoked /\ client.revision = work["user"].revision)
  <2>1. Credential!Does("user", Credential!Idle)
    BY <1>4 DEF Credential!Rotate, Credential!Ends
  <2>2. /\ work' \in [Credential!Actors -> CommandType]
        /\ work'["setup"] = work["setup"] /\ work'["user"] = Credential!Idle
    BY <1>0, <1>1, <1>2, <2>1, DoesOne
  <2> QED BY <1>0, <1>1, <1>4, <2>2 DEF Credential!Rotate
<1> QED BY <1>3, <1>4

LEMMA RevokeGives ==
    ASSUME CredentialTyped, Credential!Revoke
    PROVE  /\ client # None /\ client' \in ClientType /\ client' # None
           /\ client'.revoked /\ client'.gen = client.gen
           /\ state' = Credential!Retired
           /\ work' \in [Credential!Actors -> CommandType] /\ work'["setup"] = work["setup"]
           /\ work'["user"].pc = "unlink" /\ work'["user"].secret = None
           /\ UNCHANGED <<print, enabled, file, drawn, swept>>
<1> DEFINE w == [Credential!Idle EXCEPT !.pc = "unlink", !.files = 1..client.gen]
<1>1. client \in ClientType /\ client.gen \in Credential!Generations
  BY DEF CredentialTyped, Credential!Revoke, ClientType
<1>2. client' \in ClientType /\ client' # None /\ client'.revoked /\ client'.gen = client.gen
  BY <1>1, ClientFields DEF Credential!Revoke
<1>3. 1..client.gen \subseteq Credential!Generations
  BY <1>1, CredentialAssumption DEF Credential!Generations
<1>4. w \in CommandType /\ w.pc = "unlink" /\ w.secret = None
  BY <1>3 DEF Credential!Idle, CommandType, CommandPcs
<1>5. Credential!Does("user", w) /\ "user" \in Credential!Actors /\ "setup" \in Credential!Actors
  BY DEF Credential!Revoke, Credential!Actors
<1> HIDE DEF w
<1> QED BY <1>2, <1>4, <1>5, DoesOne DEF Credential!Revoke

LEMMA DisableGives ==
    ASSUME CredentialTyped, Credential!Disable
    PROVE  /\ IF client = None THEN client' = None
              ELSE client' \in ClientType /\ client' # None /\ client'.revoked
                  /\ client'.gen = client.gen
           /\ state' = Credential!Retired /\ enabled' = FALSE /\ enabled
           /\ work' \in [Credential!Actors -> CommandType] /\ work'["setup"] = work["setup"]
           /\ work'["user"].pc = "list" /\ work'["user"].secret = None
           /\ UNCHANGED <<print, file, drawn, swept>>
<1> DEFINE w == [Credential!Idle EXCEPT !.pc = "list"]
<1>1. IF client = None THEN client' = None
      ELSE client' \in ClientType /\ client' # None /\ client'.revoked /\ client'.gen = client.gen
  <2>1. CASE client = None
    BY <2>1 DEF Credential!Disable, Credential!Disabled
  <2>2. CASE client # None
    <3>1. client \in ClientType /\ client.gen \in Credential!Generations
      BY <2>2 DEF CredentialTyped, ClientType
    <3>2. client' = IF client.revoked THEN client
            ELSE [client EXCEPT !.revoked = TRUE, !.revision = @ + 1]
      BY <2>2 DEF Credential!Disable, Credential!Disabled
    <3> QED BY <2>2, <3>1, <3>2, ClientFields
  <2> QED BY <2>1, <2>2
<1>2. state' = Credential!Retired
  BY DEF Credential!Disable, Credential!Disabled
<1>3. w \in CommandType /\ w.pc = "list" /\ w.secret = None
  BY DEF Credential!Idle, CommandType, CommandPcs
<1>4. Credential!Does("user", w) /\ "user" \in Credential!Actors /\ "setup" \in Credential!Actors
  BY DEF Credential!Disable, Credential!Actors
<1> HIDE DEF w
<1> QED BY <1>1, <1>2, <1>3, <1>4, DoesOne DEF Credential!Disable

LEMMA UseGives ==
    ASSUME CredentialTyped, Credential!Use
    PROVE  /\ client # None /\ client' \in ClientType /\ client' # None
           /\ client'.revoked = client.revoked /\ client'.gen = client.gen
           /\ UNCHANGED <<state, print, enabled, file, work, drawn, swept>>
<1>1. client \in ClientType /\ client.gen \in Credential!Generations /\ client # None
  BY DEF CredentialTyped, Credential!Use, Credential!Accepted, ClientType
<1> QED BY <1>1, ClientFields DEF Credential!Use

-----------------------------------------------------------------------------

\* The records keep their fields.
LEMMA CredentialTypedKept ==
    ASSUME CredentialInv, Credential!Steps
    PROVE  CredentialTyped'
<1> USE CredentialAssumption DEF CredentialInv, CredentialTyped, ClientType, CommandPcs,
        CommandType, Credential!Generations, Credential!Actors, Credential!Idle,
        Credential!Does, Credential!Ends, Credential!Draw, Credential!Unlinked,
        Credential!Retired, Credential!Partial
<1>1. ASSUME Credential!EnsureReads PROVE CredentialTyped'
  BY <1>1, EnsureReadsGives
<1>2. ASSUME Credential!CreateClient PROVE CredentialTyped'
  BY <1>2, CreateClientGives
<1>3. ASSUME Credential!RotateReads PROVE CredentialTyped'
  BY <1>3, RotateReadsGives
<1>4. ASSUME Credential!Rotate PROVE CredentialTyped'
  <2>1. /\ client' \in {None} \cup ClientType /\ work' \in [Credential!Actors -> CommandType]
        /\ UNCHANGED <<enabled, drawn, swept>>
    BY <1>4, RotateGives
  <2>2. state' \in [Credential!Generations -> {None, "ACTIVE", "OVERLAP", "LAPSED", "RETIRED"}]
    <3>1. CASE state' = state
      BY <3>1
    <3>2. CASE state' # state
      <4>1. PICK before \in {"OVERLAP", "RETIRED"} :
               state' = [h \in Credential!Generations |->
                           IF h = work["user"].gen THEN "ACTIVE"
                           ELSE IF h = work["user"].gen - 1 THEN before ELSE state[h]]
        BY <1>4, <3>2, RotateGives
      <4> HIDE DEF ClientType, CommandType, Credential!Generations
      <4> QED BY <4>1
    <3> QED BY <3>1, <3>2
  <2>3. print' \in [Credential!Generations -> Nat \cup {None}]
    BY <1>4, RotateGives
  <2>4. file' \in [Credential!Generations -> Nat \cup {None}]
    BY <1>4, RotateGives
  <2> HIDE DEF ClientType, CommandType, Credential!Generations
  <2> QED BY <2>1, <2>2, <2>3, <2>4
<1>5. ASSUME Credential!Revoke PROVE CredentialTyped'
  BY <1>5, RevokeGives
<1>6. ASSUME Credential!Disable PROVE CredentialTyped'
  <2>1. client' \in {None} \cup ClientType /\ state' = Credential!Retired /\ enabled' = FALSE
        /\ work' \in [Credential!Actors -> CommandType] /\ UNCHANGED <<print, file, drawn, swept>>
    BY <1>6, DisableGives DEF CredentialInv
  <2>2. Credential!Retired \in [Credential!Generations -> {None, "ACTIVE", "OVERLAP", "LAPSED",
          "RETIRED"}]
    OBVIOUS
  <2> HIDE DEF Credential!Retired, ClientType, CommandType
  <2> QED BY <2>1, <2>2
<1>7. ASSUME Credential!ListFiles PROVE CredentialTyped'
  BY <1>7 DEF Credential!ListFiles
<1>8. ASSUME Credential!Unlink PROVE CredentialTyped'
  BY <1>8 DEF Credential!Unlink
<1>9. ASSUME Credential!Use PROVE CredentialTyped'
  BY <1>9, UseGives
<1>10. ASSUME Credential!OverlapEnds PROVE CredentialTyped'
  BY <1>10 DEF Credential!OverlapEnds
<1>11. ASSUME NEW a \in Credential!Actors, Credential!Publish(a) PROVE CredentialTyped'
  BY <1>11, PublishGives
<1>12. ASSUME NEW a \in Credential!Actors, Credential!Enable(a) PROVE CredentialTyped'
  BY <1>12 DEF Credential!Enable
<1>13. ASSUME NEW a \in Credential!Actors, Credential!Dies(a) PROVE CredentialTyped'
  <2>1. CredentialTyped /\ work' \in [Credential!Actors -> CommandType]
    BY <1>13 DEF Credential!Dies
  <2>2. file' \in [Credential!Generations -> Nat \cup {None}]
    <3>1. file' = file \/ file' = [file EXCEPT ![work[a].gen] = 0]
      BY <1>13 DEF Credential!Dies
    <3>2. 0 \in Nat /\ file \in [Credential!Generations -> Nat \cup {None}]
      BY <2>1
    <3> HIDE DEF CredentialTyped, Credential!Generations
    <3> QED BY <3>1, <3>2
  <2>3. UNCHANGED <<client, state, print, enabled, drawn, swept>>
    BY <1>13 DEF Credential!Dies
  <2> HIDE DEF ClientType, CommandType, Credential!Generations
  <2> QED BY <2>1, <2>2, <2>3
<1> QED
  BY <1>1, <1>2, <1>3, <1>4, <1>5, <1>6, <1>7, <1>8, <1>9, <1>10, <1>11, <1>12, <1>13
     DEF Credential!Steps

\* A fingerprint is that of a secret that was drawn.
LEMMA PrintsDrawnKept ==
    ASSUME CredentialInv, Credential!Steps
    PROVE  \A g \in Credential!Generations : print'[g] \in Nat => print'[g] <= drawn'
<1> USE CredentialAssumption DEF CredentialInv, CredentialTyped, SecretsDrawn,
        Credential!Actors, Credential!Idle, Credential!Does, Credential!Ends, Credential!Draw,
        Credential!Generations
<1>1. ASSUME Credential!EnsureReads
      PROVE  \A g \in Credential!Generations : print'[g] \in Nat => print'[g] <= drawn'
  BY <1>1, EnsureReadsGives
<1>2. ASSUME Credential!CreateClient
      PROVE  \A g \in Credential!Generations : print'[g] \in Nat => print'[g] <= drawn'
  BY <1>2, CreateClientGives
<1>3. ASSUME Credential!RotateReads
      PROVE  \A g \in Credential!Generations : print'[g] \in Nat => print'[g] <= drawn'
  BY <1>3, RotateReadsGives
<1>4. ASSUME Credential!Rotate
      PROVE  \A g \in Credential!Generations : print'[g] \in Nat => print'[g] <= drawn'
  <2>1. work["user"].secret <= drawn /\ drawn' = drawn
    BY <1>4, RotateGives
  <2>2. \/ print' = print
        \/ print' = [print EXCEPT ![work["user"].gen] = work["user"].secret]
    BY <1>4, RotateGives
  <2>3. \A g \in Credential!Generations : print'[g] = print[g] \/ print'[g] = work["user"].secret
    BY <2>2
  <2> QED BY <2>1, <2>3
<1>5. ASSUME Credential!Revoke
      PROVE  \A g \in Credential!Generations : print'[g] \in Nat => print'[g] <= drawn'
  BY <1>5, RevokeGives
<1>6. ASSUME Credential!Disable
      PROVE  \A g \in Credential!Generations : print'[g] \in Nat => print'[g] <= drawn'
  BY <1>6, DisableGives
<1>7. ASSUME Credential!ListFiles
      PROVE  \A g \in Credential!Generations : print'[g] \in Nat => print'[g] <= drawn'
  BY <1>7 DEF Credential!ListFiles
<1>8. ASSUME Credential!Unlink
      PROVE  \A g \in Credential!Generations : print'[g] \in Nat => print'[g] <= drawn'
  BY <1>8 DEF Credential!Unlink
<1>9. ASSUME Credential!Use
      PROVE  \A g \in Credential!Generations : print'[g] \in Nat => print'[g] <= drawn'
  BY <1>9, UseGives
<1>10. ASSUME Credential!OverlapEnds
       PROVE  \A g \in Credential!Generations : print'[g] \in Nat => print'[g] <= drawn'
  BY <1>10 DEF Credential!OverlapEnds
<1>11. ASSUME NEW a \in Credential!Actors, Credential!Publish(a)
       PROVE  \A g \in Credential!Generations : print'[g] \in Nat => print'[g] <= drawn'
  BY <1>11, PublishGives
<1>12. ASSUME NEW a \in Credential!Actors, Credential!Enable(a)
       PROVE  \A g \in Credential!Generations : print'[g] \in Nat => print'[g] <= drawn'
  BY <1>12 DEF Credential!Enable
<1>13. ASSUME NEW a \in Credential!Actors, Credential!Dies(a)
       PROVE  \A g \in Credential!Generations : print'[g] \in Nat => print'[g] <= drawn'
  BY <1>13 DEF Credential!Dies
<1> QED
  BY <1>1, <1>2, <1>3, <1>4, <1>5, <1>6, <1>7, <1>8, <1>9, <1>10, <1>11, <1>12, <1>13
     DEF Credential!Steps

\* A file holds what was drawn.
LEMMA FilesDrawnKept ==
    ASSUME CredentialInv, Credential!Steps
    PROVE  \A g \in Credential!Generations : file'[g] \in Nat => file'[g] <= drawn'
<1> USE CredentialAssumption DEF CredentialInv, CredentialTyped, SecretsDrawn,
        Credential!Actors, Credential!Idle, Credential!Does, Credential!Ends, Credential!Draw,
        Credential!Unlinked, Credential!Partial, Credential!Generations
<1>1. ASSUME Credential!EnsureReads
      PROVE  \A g \in Credential!Generations : file'[g] \in Nat => file'[g] <= drawn'
  BY <1>1, EnsureReadsGives
<1>2. ASSUME Credential!CreateClient
      PROVE  \A g \in Credential!Generations : file'[g] \in Nat => file'[g] <= drawn'
  BY <1>2, CreateClientGives
<1>3. ASSUME Credential!RotateReads
      PROVE  \A g \in Credential!Generations : file'[g] \in Nat => file'[g] <= drawn'
  BY <1>3, RotateReadsGives
<1>4. ASSUME Credential!Rotate
      PROVE  \A g \in Credential!Generations : file'[g] \in Nat => file'[g] <= drawn'
  BY <1>4, RotateGives
<1>5. ASSUME Credential!Revoke
      PROVE  \A g \in Credential!Generations : file'[g] \in Nat => file'[g] <= drawn'
  BY <1>5, RevokeGives
<1>6. ASSUME Credential!Disable
      PROVE  \A g \in Credential!Generations : file'[g] \in Nat => file'[g] <= drawn'
  BY <1>6, DisableGives
<1>7. ASSUME Credential!ListFiles
      PROVE  \A g \in Credential!Generations : file'[g] \in Nat => file'[g] <= drawn'
  BY <1>7 DEF Credential!ListFiles
<1>8. ASSUME Credential!Unlink
      PROVE  \A g \in Credential!Generations : file'[g] \in Nat => file'[g] <= drawn'
  BY <1>8 DEF Credential!Unlink
<1>9. ASSUME Credential!Use
      PROVE  \A g \in Credential!Generations : file'[g] \in Nat => file'[g] <= drawn'
  BY <1>9, UseGives
<1>10. ASSUME Credential!OverlapEnds
       PROVE  \A g \in Credential!Generations : file'[g] \in Nat => file'[g] <= drawn'
  BY <1>10 DEF Credential!OverlapEnds
<1>11. ASSUME NEW a \in Credential!Actors, Credential!Publish(a)
       PROVE  \A g \in Credential!Generations : file'[g] \in Nat => file'[g] <= drawn'
  <2>1. drawn' = drawn /\ (work[a].secret \in Nat => work[a].secret <= drawn)
    BY <1>11, PublishGives
  <2>2. \/ file' = file
        \/ file' = [file EXCEPT ![work[a].gen] = work[a].secret]
    BY <1>11, PublishGives
  <2>3. \A g \in Credential!Generations : file'[g] = file[g] \/ file'[g] = work[a].secret
    BY <2>2
  <2> QED BY <2>1, <2>3
<1>12. ASSUME NEW a \in Credential!Actors, Credential!Enable(a)
       PROVE  \A g \in Credential!Generations : file'[g] \in Nat => file'[g] <= drawn'
  BY <1>12 DEF Credential!Enable
<1>13. ASSUME NEW a \in Credential!Actors, Credential!Dies(a)
       PROVE  \A g \in Credential!Generations : file'[g] \in Nat => file'[g] <= drawn'
  BY <1>13 DEF Credential!Dies
<1> QED
  BY <1>1, <1>2, <1>3, <1>4, <1>5, <1>6, <1>7, <1>8, <1>9, <1>10, <1>11, <1>12, <1>13
     DEF Credential!Steps

\* A command has a secret that was drawn.
LEMMA CommandsDrawnKept ==
    ASSUME CredentialInv, Credential!Steps
    PROVE  \A b \in Credential!Actors : work'[b].secret \in Nat => work'[b].secret <= drawn'
<1> USE CredentialAssumption DEF CredentialInv, CredentialTyped, SecretsDrawn,
        Credential!Actors, Credential!Idle, Credential!Does, Credential!Ends, Credential!Draw,
        CommandType, CommandPcs, Credential!Generations
<1>1. ASSUME Credential!EnsureReads
      PROVE  \A b \in Credential!Actors : work'[b].secret \in Nat => work'[b].secret <= drawn'
  BY <1>1, EnsureReadsGives
<1>2. ASSUME Credential!CreateClient
      PROVE  \A b \in Credential!Actors : work'[b].secret \in Nat => work'[b].secret <= drawn'
  BY <1>2, CreateClientGives
<1>3. ASSUME Credential!RotateReads
      PROVE  \A b \in Credential!Actors : work'[b].secret \in Nat => work'[b].secret <= drawn'
  BY <1>3, RotateReadsGives
<1>4. ASSUME Credential!Rotate
      PROVE  \A b \in Credential!Actors : work'[b].secret \in Nat => work'[b].secret <= drawn'
  BY <1>4, RotateGives
<1>5. ASSUME Credential!Revoke
      PROVE  \A b \in Credential!Actors : work'[b].secret \in Nat => work'[b].secret <= drawn'
  BY <1>5, RevokeGives
<1>6. ASSUME Credential!Disable
      PROVE  \A b \in Credential!Actors : work'[b].secret \in Nat => work'[b].secret <= drawn'
  BY <1>6, DisableGives
<1>7. ASSUME Credential!ListFiles
      PROVE  \A b \in Credential!Actors : work'[b].secret \in Nat => work'[b].secret <= drawn'
  BY <1>7 DEF Credential!ListFiles
<1>8. ASSUME Credential!Unlink
      PROVE  \A b \in Credential!Actors : work'[b].secret \in Nat => work'[b].secret <= drawn'
  BY <1>8 DEF Credential!Unlink
<1>9. ASSUME Credential!Use
      PROVE  \A b \in Credential!Actors : work'[b].secret \in Nat => work'[b].secret <= drawn'
  BY <1>9, UseGives
<1>10. ASSUME Credential!OverlapEnds
       PROVE  \A b \in Credential!Actors : work'[b].secret \in Nat => work'[b].secret <= drawn'
  BY <1>10 DEF Credential!OverlapEnds
<1>11. ASSUME NEW a \in Credential!Actors, Credential!Publish(a)
       PROVE  \A b \in Credential!Actors : work'[b].secret \in Nat => work'[b].secret <= drawn'
  BY <1>11, PublishGives
<1>12. ASSUME NEW a \in Credential!Actors, Credential!Enable(a)
       PROVE  \A b \in Credential!Actors : work'[b].secret \in Nat => work'[b].secret <= drawn'
  BY <1>12 DEF Credential!Enable
<1>13. ASSUME NEW a \in Credential!Actors, Credential!Dies(a)
       PROVE  \A b \in Credential!Actors : work'[b].secret \in Nat => work'[b].secret <= drawn'
  BY <1>13 DEF Credential!Dies
<1> QED
  BY <1>1, <1>2, <1>3, <1>4, <1>5, <1>6, <1>7, <1>8, <1>9, <1>10, <1>11, <1>12, <1>13
     DEF Credential!Steps

\* No secret is drawn twice.
LEMMA DrawnGrows ==
    ASSUME CredentialInv, Credential!Steps
    PROVE  drawn' \in Nat /\ drawn <= drawn'
<1> USE CredentialAssumption DEF CredentialInv, CredentialTyped, Credential!Draw
<1>1. ASSUME Credential!EnsureReads PROVE drawn' \in Nat /\ drawn <= drawn'
  BY <1>1, EnsureReadsGives
<1>2. ASSUME Credential!CreateClient PROVE drawn' \in Nat /\ drawn <= drawn'
  BY <1>2, CreateClientGives
<1>3. ASSUME Credential!RotateReads PROVE drawn' \in Nat /\ drawn <= drawn'
  BY <1>3, RotateReadsGives
<1>4. ASSUME Credential!Rotate PROVE drawn' \in Nat /\ drawn <= drawn'
  BY <1>4, RotateGives
<1>5. ASSUME Credential!Revoke PROVE drawn' \in Nat /\ drawn <= drawn'
  BY <1>5, RevokeGives
<1>6. ASSUME Credential!Disable PROVE drawn' \in Nat /\ drawn <= drawn'
  BY <1>6 DEF Credential!Disable
<1>7. ASSUME Credential!ListFiles PROVE drawn' \in Nat /\ drawn <= drawn'
  BY <1>7 DEF Credential!ListFiles
<1>8. ASSUME Credential!Unlink PROVE drawn' \in Nat /\ drawn <= drawn'
  BY <1>8 DEF Credential!Unlink
<1>9. ASSUME Credential!Use PROVE drawn' \in Nat /\ drawn <= drawn'
  BY <1>9, UseGives
<1>10. ASSUME Credential!OverlapEnds PROVE drawn' \in Nat /\ drawn <= drawn'
  BY <1>10 DEF Credential!OverlapEnds
<1>11. ASSUME NEW a \in Credential!Actors, Credential!Publish(a)
       PROVE  drawn' \in Nat /\ drawn <= drawn'
  BY <1>11, PublishGives
<1>12. ASSUME NEW a \in Credential!Actors, Credential!Enable(a)
       PROVE  drawn' \in Nat /\ drawn <= drawn'
  BY <1>12 DEF Credential!Enable
<1>13. ASSUME NEW a \in Credential!Actors, Credential!Dies(a)
       PROVE  drawn' \in Nat /\ drawn <= drawn'
  BY <1>13 DEF Credential!Dies
<1> QED
  BY <1>1, <1>2, <1>3, <1>4, <1>5, <1>6, <1>7, <1>8, <1>9, <1>10, <1>11, <1>12, <1>13
     DEF Credential!Steps

\* What was accepted was drawn.
LEMMA SpentDrawnKept ==
    ASSUME CredentialInv, Credential!Steps, spent' = spent \cup
        (Credential!Accepted \ Credential!Accepted')
    PROVE  \A s \in spent' : s \in Nat => s <= drawn'
<1>1. \A s \in Credential!Accepted : \E g \in Credential!Generations : s = print[g]
  BY DEF Credential!Accepted
<1>2. \A s \in spent' : s \in Nat => s <= drawn
  BY <1>1 DEF CredentialInv, SecretsDrawn
<1> QED BY <1>2, DrawnGrows DEF CredentialInv, CredentialTyped

LEMMA SecretsDrawnKept ==
    ASSUME CredentialInv, Credential!Steps, spent' = spent \cup
        (Credential!Accepted \ Credential!Accepted')
    PROVE  SecretsDrawn'
  BY PrintsDrawnKept, FilesDrawnKept, CommandsDrawnKept, SpentDrawnKept DEF SecretsDrawn

\* Only a setup operation makes a client.
LEMMA SetupPlaceKept ==
    ASSUME CredentialInv, Credential!Steps
    PROVE  SetupPlace'
<1> USE CredentialAssumption DEF CredentialInv, CredentialTyped, ClientType, CommandPcs,
        CommandType, Credential!Generations, Credential!Actors, Credential!Idle,
        Credential!Does, Credential!Ends, Credential!Draw, Credential!Unlinked,
        Credential!Partial, SetupPlace, UserPlace
<1>1. ASSUME Credential!EnsureReads PROVE SetupPlace'
  BY <1>1, EnsureReadsGives
<1>2. ASSUME Credential!CreateClient PROVE SetupPlace'
  BY <1>2, CreateClientGives
<1>3. ASSUME Credential!RotateReads PROVE SetupPlace'
  BY <1>3, RotateReadsGives
<1>4. ASSUME Credential!Rotate PROVE SetupPlace'
  BY <1>4, RotateGives
<1>5. ASSUME Credential!Revoke PROVE SetupPlace'
  BY <1>5, RevokeGives
<1>6. ASSUME Credential!Disable PROVE SetupPlace'
  BY <1>6, DisableGives
<1>7. ASSUME Credential!ListFiles PROVE SetupPlace'
  BY <1>7 DEF Credential!ListFiles
<1>8. ASSUME Credential!Unlink PROVE SetupPlace'
  BY <1>8 DEF Credential!Unlink
<1>9. ASSUME Credential!Use PROVE SetupPlace'
  BY <1>9, UseGives
<1>10. ASSUME Credential!OverlapEnds PROVE SetupPlace'
  BY <1>10 DEF Credential!OverlapEnds
<1>11. ASSUME NEW a \in Credential!Actors, Credential!Publish(a) PROVE SetupPlace'
  BY <1>11, PublishGives
<1>12. ASSUME NEW a \in Credential!Actors, Credential!Enable(a) PROVE SetupPlace'
  BY <1>12 DEF Credential!Enable
<1>13. ASSUME NEW a \in Credential!Actors, Credential!Dies(a) PROVE SetupPlace'
  BY <1>13 DEF Credential!Dies
<1> QED
  BY <1>1, <1>2, <1>3, <1>4, <1>5, <1>6, <1>7, <1>8, <1>9, <1>10, <1>11, <1>12, <1>13
     DEF Credential!Steps

\* A rotation under way has a secret that was never accepted and is no fingerprint.
NewSecret(w) ==
    /\ w.secret \in Nat /\ w.secret \notin spent /\ \A g \in Credential!Generations :
        print[g] # w.secret

\* Only a rotation makes the next generation.
LEMMA UserPlaceKept ==
    ASSUME CredentialInv, Credential!Steps, spent' = spent \cup
        (Credential!Accepted \ Credential!Accepted')
    PROVE  UserPlace'
<1> USE CredentialAssumption DEF CredentialInv, CredentialTyped, ClientType, CommandPcs,
        CommandType, Credential!Generations, Credential!Actors, Credential!Idle,
        Credential!Does, Credential!Ends, Credential!Draw, Credential!Unlinked,
        Credential!Partial, SetupPlace, UserPlace
<1>0. \A s \in spent' : s \in spent \/ \E g \in Credential!Generations : s = print[g]
  BY DEF Credential!Accepted
<1>1. ASSUME Credential!EnsureReads PROVE UserPlace'
  BY <1>1, <1>0, EnsureReadsGives
<1>2. ASSUME Credential!CreateClient PROVE UserPlace'
  BY <1>2, <1>0, CreateClientGives
<1>3. ASSUME Credential!RotateReads PROVE UserPlace'
  <2>1. drawn + 1 \notin spent /\ \A g \in Credential!Generations : print[g] # drawn + 1
    <3>1. drawn \in Nat
      OBVIOUS
    <3> QED BY <3>1 DEF SecretsDrawn
  <2>2. drawn + 1 \notin spent' /\ drawn + 1 \in Nat
    BY <1>0, <2>1
  <2> QED BY <1>3, <2>1, <2>2, RotateReadsGives
<1>4. ASSUME Credential!Rotate PROVE UserPlace'
  <2>1. CASE work'["user"].pc = "idle"
    BY <2>1
  <2>2. CASE work'["user"].pc # "idle"
    <3>1. /\ work'["user"].pc = "unlink" /\ work'["user"].files \subseteq {work["user"].gen - 1}
          /\ client' # None /\ client'.gen = work["user"].gen
          /\ work["user"].gen \in Credential!Generations
      BY <1>4, <2>2, RotateGives
    <3>2. client'.gen \notin work'["user"].files
      BY <3>1
    <3> QED BY <3>1, <3>2
  <2> QED BY <2>1, <2>2
<1>5. ASSUME Credential!Revoke PROVE UserPlace'
  BY <1>5, <1>0, RevokeGives
<1>6. ASSUME Credential!Disable PROVE UserPlace'
  BY <1>6, <1>0, DisableGives
<1>7. ASSUME Credential!ListFiles PROVE UserPlace'
  BY <1>7, <1>0 DEF Credential!ListFiles
<1>8. ASSUME Credential!Unlink PROVE UserPlace'
  BY <1>8, <1>0 DEF Credential!Unlink
<1>9. ASSUME Credential!Use PROVE UserPlace'
  BY <1>9, <1>0, UseGives
<1>10. ASSUME Credential!OverlapEnds PROVE UserPlace'
  BY <1>10, <1>0 DEF Credential!OverlapEnds
<1>11. ASSUME NEW a \in Credential!Actors, Credential!Publish(a) PROVE UserPlace'
  BY <1>11, <1>0, PublishGives
<1>12. ASSUME NEW a \in Credential!Actors, Credential!Enable(a) PROVE UserPlace'
  BY <1>12, <1>0 DEF Credential!Enable
<1>13. ASSUME NEW a \in Credential!Actors, Credential!Dies(a) PROVE UserPlace'
  BY <1>13, <1>0 DEF Credential!Dies
<1> QED
  BY <1>1, <1>2, <1>3, <1>4, <1>5, <1>6, <1>7, <1>8, <1>9, <1>10, <1>11, <1>12, <1>13
     DEF Credential!Steps

\* What comes to be accepted was not accepted before.
LEMMA AcceptedWasNotSpent ==
    ASSUME CredentialInv, Credential!Steps
    PROVE  Credential!Accepted' \cap spent = {}
<1> USE CredentialAssumption DEF CredentialInv, CredentialTyped, SetupPlace, UserPlace,
        SpentPlace, Credential!SpentStaysSpent, Credential!Accepted, Credential!Retired,
        Credential!Actors
<1>1. ASSUME Credential!EnsureReads PROVE Credential!Accepted' \cap spent = {}
  BY <1>1, EnsureReadsGives
<1>2. ASSUME Credential!CreateClient PROVE Credential!Accepted' \cap spent = {}
  BY <1>2, CreateClientGives
<1>3. ASSUME Credential!RotateReads PROVE Credential!Accepted' \cap spent = {}
  BY <1>3, RotateReadsGives
<1>4. ASSUME Credential!Rotate PROVE Credential!Accepted' \cap spent = {}
  <2>1. CASE UNCHANGED <<client, state, print>>
    BY <1>4, <2>1, RotateGives
  <2>2. CASE ~ UNCHANGED <<client, state, print>>
    <3>1. /\ work["user"].secret \notin spent /\ enabled' = enabled
          /\ client # None /\ ~ client.revoked /\ client.gen \in Credential!Generations
          /\ work["user"].gen = client.gen + 1
      BY <1>4, <2>2, RotateGives DEF Credential!Rotate, ClientType
    <3>2. PICK before \in {"OVERLAP", "RETIRED"} :
             state' = [h \in Credential!Generations |->
                         IF h = work["user"].gen THEN "ACTIVE"
                         ELSE IF h = work["user"].gen - 1 THEN before ELSE state[h]]
      BY <1>4, <2>2, RotateGives
    <3>3. print' = [print EXCEPT ![work["user"].gen] = work["user"].secret]
      BY <1>4, <2>2, RotateGives
    <3>4. work["user"].gen - 1 = client.gen /\ state[client.gen] = "ACTIVE"
      BY <3>1 DEF ActiveState, Credential!Generations
    <3>5. ASSUME NEW g \in Credential!Generations, state'[g] \in {"ACTIVE", "OVERLAP"}, enabled
          PROVE  print'[g] \notin spent
      <4>1. CASE g = work["user"].gen
        BY <3>1, <3>3, <4>1
      <4>2. CASE g # work["user"].gen
        <5>1. print'[g] = print[g] /\ state[g] \in {"ACTIVE", "OVERLAP"}
          BY <3>2, <3>3, <3>4, <3>5, <4>2
        <5>2. print[g] \in Credential!Accepted
          BY <3>1, <3>5, <5>1
        <5> QED BY <5>1, <5>2
      <4> QED BY <4>1, <4>2
    <3> QED BY <3>1, <3>5
  <2> QED BY <2>1, <2>2
<1>5. ASSUME Credential!Revoke PROVE Credential!Accepted' \cap spent = {}
  BY <1>5, RevokeGives
<1>6. ASSUME Credential!Disable PROVE Credential!Accepted' \cap spent = {}
  BY <1>6, DisableGives
<1>7. ASSUME Credential!ListFiles PROVE Credential!Accepted' \cap spent = {}
  BY <1>7 DEF Credential!ListFiles
<1>8. ASSUME Credential!Unlink PROVE Credential!Accepted' \cap spent = {}
  BY <1>8 DEF Credential!Unlink
<1>9. ASSUME Credential!Use PROVE Credential!Accepted' \cap spent = {}
  BY <1>9, UseGives
<1>10. ASSUME Credential!OverlapEnds PROVE Credential!Accepted' \cap spent = {}
  <2>1. \A g \in Credential!Generations : state'[g] \in {"ACTIVE", "OVERLAP"} =>
          state'[g] = state[g]
    BY <1>10 DEF Credential!OverlapEnds
  <2>2. UNCHANGED <<client, print, enabled>>
    BY <1>10 DEF Credential!OverlapEnds
  <2>3. Credential!Accepted' \subseteq Credential!Accepted
    BY <2>1, <2>2
  <2> QED BY <2>3
<1>11. ASSUME NEW a \in Credential!Actors, Credential!Publish(a)
       PROVE  Credential!Accepted' \cap spent = {}
  BY <1>11, PublishGives
<1>12. ASSUME NEW a \in Credential!Actors, Credential!Enable(a)
       PROVE  Credential!Accepted' \cap spent = {}
  BY <1>12 DEF Credential!Enable
<1>13. ASSUME NEW a \in Credential!Actors, Credential!Dies(a)
       PROVE  Credential!Accepted' \cap spent = {}
  BY <1>13 DEF Credential!Dies
<1> QED
  BY <1>1, <1>2, <1>3, <1>4, <1>5, <1>6, <1>7, <1>8, <1>9, <1>10, <1>11, <1>12, <1>13
     DEF Credential!Steps

\* The file of an active client stays.
LEMMA FileKept ==
    ASSUME CredentialInv, Credential!Steps
    PROVE  Credential!ActiveHasFile'
<1> USE CredentialAssumption DEF CredentialInv, CredentialTyped, ClientType, CommandPcs,
        CommandType, Credential!Generations, Credential!Actors, Credential!Idle,
        Credential!Does, Credential!Ends, Credential!Draw, Credential!Unlinked,
        Credential!Partial, SetupPlace, UserPlace, Credential!ActiveHasFile, Credential!Readable
<1>1. ASSUME Credential!EnsureReads PROVE Credential!ActiveHasFile'
  BY <1>1, EnsureReadsGives
<1>2. ASSUME Credential!CreateClient PROVE Credential!ActiveHasFile'
  BY <1>2, CreateClientGives
<1>3. ASSUME Credential!RotateReads PROVE Credential!ActiveHasFile'
  BY <1>3, RotateReadsGives
<1>4. ASSUME Credential!Rotate PROVE Credential!ActiveHasFile'
  BY <1>4, RotateGives
<1>5. ASSUME Credential!Revoke PROVE Credential!ActiveHasFile'
  BY <1>5, RevokeGives
<1>6. ASSUME Credential!Disable PROVE Credential!ActiveHasFile'
  BY <1>6, DisableGives
<1>7. ASSUME Credential!ListFiles PROVE Credential!ActiveHasFile'
  BY <1>7 DEF Credential!ListFiles
<1>8. ASSUME Credential!Unlink PROVE Credential!ActiveHasFile'
  BY <1>8 DEF Credential!Unlink
<1>9. ASSUME Credential!Use PROVE Credential!ActiveHasFile'
  BY <1>9, UseGives
<1>10. ASSUME Credential!OverlapEnds PROVE Credential!ActiveHasFile'
  BY <1>10 DEF Credential!OverlapEnds
<1>11. ASSUME NEW a \in Credential!Actors, Credential!Publish(a) PROVE Credential!ActiveHasFile'
  <2> SUFFICES ASSUME client' # None, ~ client'.revoked, ~ swept'
               PROVE  file'[client'.gen] # None /\ file'[client'.gen] = print'[client'.gen]
    OBVIOUS
  <2>1. client' = client /\ swept' = swept /\ print' = print
    BY <1>11, PublishGives
  <2>2. file[client.gen] # None /\ file[client.gen] = print[client.gen]
    BY <2>1
  <2>3. \/ file' = file
        \/ file[work[a].gen] = None /\ file' = [file EXCEPT ![work[a].gen] = work[a].secret]
    BY <1>11, PublishGives
  <2>5. /\ client.gen \in Credential!Generations
        /\ file \in [Credential!Generations -> Nat \cup {None}]
    BY <2>1
  <2>4. file'[client.gen] = file[client.gen]
    <3> HIDE DEF Credential!Generations, CredentialTyped, UserPlace, SetupPlace
    <3> QED BY <2>2, <2>3, <2>5
  <2> QED BY <2>1, <2>2, <2>4
<1>12. ASSUME NEW a \in Credential!Actors, Credential!Enable(a) PROVE Credential!ActiveHasFile'
  BY <1>12 DEF Credential!Enable
<1>13. ASSUME NEW a \in Credential!Actors, Credential!Dies(a) PROVE Credential!ActiveHasFile'
  BY <1>13 DEF Credential!Dies
<1> QED
  BY <1>1, <1>2, <1>3, <1>4, <1>5, <1>6, <1>7, <1>8, <1>9, <1>10, <1>11, <1>12, <1>13
     DEF Credential!Steps

\* A client that is not revoked keeps an active generation.
LEMMA ActiveStateKept ==
    ASSUME CredentialInv, Credential!Steps
    PROVE  ActiveState'
<1> USE CredentialAssumption DEF CredentialInv, CredentialTyped, ClientType, CommandPcs,
        CommandType, Credential!Generations, Credential!Actors, Credential!Idle,
        Credential!Does, Credential!Ends, Credential!Draw, ActiveState
<1>1. ASSUME Credential!EnsureReads PROVE ActiveState'
  BY <1>1, EnsureReadsGives
<1>2. ASSUME Credential!CreateClient PROVE ActiveState'
  BY <1>2, CreateClientGives
<1>3. ASSUME Credential!RotateReads PROVE ActiveState'
  BY <1>3, RotateReadsGives
<1>4. ASSUME Credential!Rotate PROVE ActiveState'
  <2>1. CASE UNCHANGED <<client, state>>
    BY <2>1
  <2>2. CASE ~ UNCHANGED <<client, state>>
    <3>1. client'.gen = work["user"].gen /\ work["user"].gen \in Credential!Generations
      BY <1>4, <2>2, RotateGives
    <3>2. \E before \in {"OVERLAP", "RETIRED"} :
             state' = [h \in Credential!Generations |->
                         IF h = work["user"].gen THEN "ACTIVE"
                         ELSE IF h = work["user"].gen - 1 THEN before ELSE state[h]]
      BY <1>4, <2>2, RotateGives
    <3> HIDE DEF CredentialTyped, Credential!Generations
    <3> QED BY <3>1, <3>2
  <2> QED BY <2>1, <2>2
<1>5. ASSUME Credential!Revoke PROVE ActiveState'
  BY <1>5, RevokeGives
<1>6. ASSUME Credential!Disable PROVE ActiveState'
  BY <1>6, DisableGives
<1>7. ASSUME Credential!ListFiles PROVE ActiveState'
  BY <1>7 DEF Credential!ListFiles
<1>8. ASSUME Credential!Unlink PROVE ActiveState'
  BY <1>8 DEF Credential!Unlink
<1>9. ASSUME Credential!Use PROVE ActiveState'
  BY <1>9, UseGives
<1>10. ASSUME Credential!OverlapEnds PROVE ActiveState'
  BY <1>10 DEF Credential!OverlapEnds
<1>11. ASSUME NEW a \in Credential!Actors, Credential!Publish(a) PROVE ActiveState'
  BY <1>11, PublishGives
<1>12. ASSUME NEW a \in Credential!Actors, Credential!Enable(a) PROVE ActiveState'
  BY <1>12 DEF Credential!Enable
<1>13. ASSUME NEW a \in Credential!Actors, Credential!Dies(a) PROVE ActiveState'
  BY <1>13 DEF Credential!Dies
<1> QED
  BY <1>1, <1>2, <1>3, <1>4, <1>5, <1>6, <1>7, <1>8, <1>9, <1>10, <1>11, <1>12, <1>13
     DEF Credential!Steps

\* Nothing is taken back from a client that nobody can use.
LEMMA SpentPlaceKept ==
    ASSUME CredentialInv, Credential!Steps, spent' = spent \cup
        (Credential!Accepted \ Credential!Accepted')
    PROVE  SpentPlace'
<1> USE CredentialAssumption DEF CredentialInv, CredentialTyped, SpentPlace,
        Credential!Accepted, Credential!Actors, ClientType, SetupPlace
<1>1. ASSUME Credential!EnsureReads PROVE SpentPlace'
  BY <1>1, EnsureReadsGives
<1>2. ASSUME Credential!CreateClient PROVE SpentPlace'
  BY <1>2, CreateClientGives
<1>3. ASSUME Credential!RotateReads PROVE SpentPlace'
  BY <1>3, RotateReadsGives
<1>4. ASSUME Credential!Rotate PROVE SpentPlace'
  BY <1>4, RotateGives
<1>5. ASSUME Credential!Revoke PROVE SpentPlace'
  BY <1>5, RevokeGives
<1>6. ASSUME Credential!Disable PROVE SpentPlace'
  BY <1>6, DisableGives
<1>7. ASSUME Credential!ListFiles PROVE SpentPlace'
  BY <1>7 DEF Credential!ListFiles
<1>8. ASSUME Credential!Unlink PROVE SpentPlace'
  BY <1>8 DEF Credential!Unlink
<1>9. ASSUME Credential!Use PROVE SpentPlace'
  BY <1>9, UseGives
<1>10. ASSUME Credential!OverlapEnds PROVE SpentPlace'
  BY <1>10 DEF Credential!OverlapEnds
<1>11. ASSUME NEW a \in Credential!Actors, Credential!Publish(a) PROVE SpentPlace'
  BY <1>11, PublishGives
<1>12. ASSUME NEW a \in Credential!Actors, Credential!Enable(a) PROVE SpentPlace'
  BY <1>12 DEF Credential!Enable
<1>13. ASSUME NEW a \in Credential!Actors, Credential!Dies(a) PROVE SpentPlace'
  BY <1>13 DEF Credential!Dies
<1> QED
  BY <1>1, <1>2, <1>3, <1>4, <1>5, <1>6, <1>7, <1>8, <1>9, <1>10, <1>11, <1>12, <1>13
     DEF Credential!Steps

\* Every step keeps the invariant.
LEMMA CredentialInvKept ==
    ASSUME CredentialInv, [Credential!Next]_(Credential!credentialVars)
    PROVE  CredentialInv'
<1>1. CASE Credential!Next
  <2>1. Credential!Steps /\ spent' = spent \cup (Credential!Accepted \ Credential!Accepted')
    BY <1>1 DEF Credential!Next
  <2>2. Credential!SpentStaysSpent'
    BY <2>1, AcceptedWasNotSpent DEF Credential!SpentStaysSpent
  <2> QED
    BY <2>1, <2>2, CredentialTypedKept, SecretsDrawnKept, SetupPlaceKept, UserPlaceKept,
       ActiveStateKept, SpentPlaceKept, FileKept DEF CredentialInv
<1>2. CASE UNCHANGED Credential!credentialVars
  BY <1>2 DEF Credential!credentialVars, CredentialInv, CredentialTyped, SecretsDrawn,
     SetupPlace, UserPlace,
     SpentPlace, ActiveState, Credential!SpentStaysSpent, Credential!Accepted,
     Credential!ActiveHasFile, Credential!Readable
<1> QED BY <1>1, <1>2

LEMMA CredentialInvHolds ==
    ASSUME Credential!Init
    PROVE  CredentialInv
<1>1. /\ Credential!Idle \in CommandType /\ Credential!Idle.pc = "idle"
      /\ Credential!Idle.secret = None
  BY DEF Credential!Idle, CommandType, CommandPcs
<1>2. CredentialTyped
  BY <1>1 DEF Credential!Init, CredentialTyped
<1>3. SecretsDrawn
  BY <1>1, CredentialAssumption DEF Credential!Init, SecretsDrawn
<1>4. SetupPlace /\ UserPlace
  BY <1>1 DEF Credential!Init, SetupPlace, UserPlace, Credential!Actors
<1> QED
  BY <1>2, <1>3, <1>4 DEF Credential!Init, CredentialInv, SpentPlace, ActiveState,
     Credential!SpentStaysSpent, Credential!ActiveHasFile

THEOREM CredentialsAlwaysAgree == Credential!CredentialSpec => []Credential!CredentialsAgree
<1>1. Credential!Init => CredentialInv
  BY CredentialInvHolds
<1>2. CredentialInv /\ [Credential!Next]_(Credential!credentialVars) => CredentialInv'
  BY CredentialInvKept
<1>3. CredentialInv => Credential!CredentialsAgree
  BY DEF CredentialInv, Credential!CredentialsAgree
<1> QED BY <1>1, <1>2, <1>3, PTL DEF Credential!CredentialSpec

-----------------------------------------------------------------------------
(* The containers of Open WebUI                                            *)
Containers == [data : WebUI!Datas, runs : BOOLEAN, works : BOOLEAN]
TxPlaces == {"idle", "stop", "park", "promote", "start", "verify", "remove", "settle", "receipt",
             "unname", "rename", "restart", "clean"}

TxShape == [pc : TxPlaces, existing : {"main", "legacy", None}, up : BOOLEAN,
            promoted : BOOLEAN, removed : BOOLEAN]

WebUITyped ==
    /\ container \in [WebUI!Names -> Containers \cup {None}]
    /\ tx \in TxShape
    /\ number \in 0..3 /\ found \in Containers \cup {None}
    /\ worked \in BOOLEAN /\ late \in BOOLEAN /\ parked \in BOOLEAN

\* The names of transactions to come are free.
FreshNames ==
    \A t \in WebUI!Transactions :
        t > number => container[WebUI!Candidate[t]] = None /\ container[WebUI!Rollback[t]] = None

FoundStopped == [found EXCEPT !.runs = FALSE]
Untried(n) == container[n] # None /\ ~ container[n].works

\* What a transaction knows of the container it found.
TxKnows ==
    /\ tx.pc = "idle" => tx = WebUI!NoTx
    /\ tx.pc # "idle" => number \in WebUI!Transactions /\ (tx.existing = None <=> found = None)
    /\ tx.pc # "idle" => tx.up = (found # None /\ found.runs)
    /\ tx.pc \in {"stop", "park", "promote", "start", "verify", "remove"} => ~ tx.removed
    /\ tx.removed => tx.pc \in {"settle", "receipt"} \/ late
    /\ tx.pc \in {"settle", "receipt"} => tx.removed = (tx.existing # None)

\* Where the old and the new container are while converge goes on.
TxGoesOn ==
    /\ tx.pc \in {"stop", "park"} =>
         /\ ~ tx.promoted
         /\ tx.existing # "main" => container["main"] = None
         /\ Untried(WebUI!Candidate[number]) /\ container[WebUI!Rollback[number]] = None
         /\ tx.existing # None =>
              container[tx.existing] = IF tx.pc = "stop" THEN found ELSE FoundStopped
    /\ tx.pc = "promote" =>
         ~ tx.promoted /\ Untried(WebUI!Candidate[number]) /\ container["main"] = None
    /\ tx.pc \in {"start", "verify", "remove", "settle", "receipt"} =>
         tx.promoted /\ container["main"] # None /\ container[WebUI!Candidate[number]] = None
    /\ tx.pc \in {"remove", "settle", "receipt"} => container["main"].works
    /\ tx.pc \in {"promote", "start", "verify", "remove"} =>
         /\ tx.existing = "legacy" => container["legacy"] = None
         /\ tx.existing # None => container[WebUI!Rollback[number]] = FoundStopped
    /\ tx.pc = "restart" => tx.existing # None /\ container[tx.existing] # None

\* ... and while it is rolled back, unless the old one is gone already.
TxGoesBack ==
    /\ tx.pc \in {"unname", "rename", "restart", "clean"} =>
         outcome \in {"error", "restored"} /\ (parked => tx.existing # None)
    /\ tx.pc = "unname" /\ tx.promoted =>
         container[WebUI!Candidate[number]] = None /\ (tx.existing # None => parked)
    /\ tx.pc \in {"unname", "rename"} /\ tx.existing # None =>
         IF parked THEN container[WebUI!Rollback[number]] = FoundStopped
         ELSE WebUI!Named(tx.existing) /\ container[WebUI!Rollback[number]] = None
    /\ tx.pc = "restart" => parked /\ tx.up /\ WebUI!Named(tx.existing)
    /\ tx.pc = "clean" /\ tx.existing # None =>
         WebUI!Named(tx.existing) /\ (parked => container[tx.existing].runs = found.runs)

\* The names this transaction may still remove.
AtStake ==
    CASE tx.pc \in {"start", "verify", "remove"} -> {"main", WebUI!Candidate[number]}
      [] tx.pc \in {"settle", "receipt"} -> IF tx.existing = None THEN {"main"} ELSE {}
      [] tx.pc = "unname" -> IF tx.promoted THEN {"main", WebUI!Candidate[number]}
          ELSE {WebUI!Candidate[number]}
      [] tx.pc = "idle" -> {}
      [] OTHER -> {WebUI!Candidate[number]}

\* There is a container that worked beyond them.
HasWorked(n) == container[n] # None /\ container[n].works
Spared == worked => \E n \in WebUI!Names \ AtStake : HasWorked(n)

WebUIInv ==
    /\ WebUITyped /\ FreshNames /\ TxKnows /\ TxGoesOn
    /\ ~ late => TxGoesBack /\ Spared
    /\ WebUI!OldSurvives

-----------------------------------------------------------------------------

LEMMA NamesApart ==
    /\ "main" \in WebUI!Names /\ "legacy" \in WebUI!Names
    /\ \A t \in WebUI!Transactions :
         /\ WebUI!Candidate[t] \in WebUI!Names /\ WebUI!Rollback[t] \in WebUI!Names
         /\ WebUI!Candidate[t] \notin {"main", "legacy"}
         /\ WebUI!Rollback[t] \notin {"main", "legacy"}
         /\ \A u \in WebUI!Transactions :
              /\ WebUI!Candidate[t] # WebUI!Rollback[u]
              /\ t # u =>
                  WebUI!Candidate[t] # WebUI!Candidate[u] /\ WebUI!Rollback[t] # WebUI!Rollback[u]
<1>1. /\ WebUI!Candidate[1] = "candidate1" /\ WebUI!Candidate[2] = "candidate2"
      /\ WebUI!Candidate[3] = "candidate3"
      /\ WebUI!Rollback[1] = "rollback1" /\ WebUI!Rollback[2] = "rollback2"
      /\ WebUI!Rollback[3] = "rollback3"
  BY DEF WebUI!Candidate, WebUI!Rollback
<1>2. WebUI!Transactions = {1, 2, 3}
  BY DEF WebUI!Transactions
<1> QED BY <1>1, <1>2 DEF WebUI!Names

LEMMA WhenSwitched ==
    ASSUME WebUITyped, NEW n \in WebUI!Names, container[n] # None, NEW b \in BOOLEAN
    PROVE  /\ WebUI!Switched(n, b) \in [WebUI!Names -> Containers \cup {None}]
           /\ WebUI!Switched(n, b)[n] \in Containers
           /\ WebUI!Switched(n, b)[n] = [container[n] EXCEPT !.runs = b]
           /\ WebUI!Switched(n, b)[n] # None
           /\ WebUI!Switched(n, b)[n].data = container[n].data
           /\ WebUI!Switched(n, b)[n].works = container[n].works
           /\ WebUI!Switched(n, b)[n].runs = b
           /\ \A m \in WebUI!Names : m # n => WebUI!Switched(n, b)[m] = container[m]
<1>1. container[n] \in Containers
  BY DEF WebUITyped
<1>2. [container[n] EXCEPT !.runs = b] \in Containers
  BY <1>1 DEF Containers
<1> QED BY <1>1, <1>2, WebUIAssumption DEF WebUITyped, WebUI!Switched, Containers

LEMMA WhenRenamed ==
    ASSUME NEW s, s \in [WebUI!Names -> Containers \cup {None}], NEW n \in WebUI!Names,
        NEW m \in WebUI!Names, n # m
    PROVE  /\ WebUI!Renamed(s, n, m) \in [WebUI!Names -> Containers \cup {None}]
           /\ WebUI!Renamed(s, n, m)[n] = None
           /\ WebUI!Renamed(s, n, m)[m] = s[n]
           /\ \A k \in WebUI!Names : k \notin {n, m} => WebUI!Renamed(s, n, m)[k] = s[k]
  BY DEF WebUI!Renamed

LEMMA WhenRemoved ==
    ASSUME WebUITyped, NEW n \in WebUI!Names
    PROVE  /\ WebUI!Removed(n) \in [WebUI!Names -> Containers \cup {None}]
           /\ WebUI!Removed(n)[n] = None
           /\ \A m \in WebUI!Names : m # n => WebUI!Removed(n)[m] = container[m]
  BY DEF WebUI!Removed, WebUITyped

LEMMA WebUIInitially == WebUI!Init => WebUIInv
<1> SUFFICES ASSUME WebUI!Init PROVE WebUIInv
  OBVIOUS
<1>1. WebUITyped
  <2>1. container \in [WebUI!Names -> Containers \cup {None}]
    <3>1. CASE container = [n \in WebUI!Names |-> None]
      BY <3>1
    <3>2. ASSUME NEW n \in {"main", "legacy"}, NEW d \in WebUI!Datas, NEW r \in BOOLEAN,
                 container = [[m \in WebUI!Names |-> None] EXCEPT
                                ![n] = [data |-> d, runs |-> r, works |-> TRUE]]
          PROVE  container \in [WebUI!Names -> Containers \cup {None}]
      BY <3>2, NamesApart DEF Containers
    <3> QED BY <3>1, <3>2 DEF WebUI!Init
  <2>2. /\ tx = WebUI!NoTx /\ number = 0 /\ found = None /\ worked \in BOOLEAN
        /\ late = FALSE /\ parked = FALSE
    BY DEF WebUI!Init
  <2>3. tx \in TxShape
    BY <2>2 DEF WebUI!NoTx, TxPlaces, TxShape
  <2>4. number \in 0..3
    BY <2>2
  <2> QED BY <2>1, <2>2, <2>3, <2>4 DEF WebUITyped
<1>2. FreshNames
  BY NamesApart DEF WebUI!Init, FreshNames
<1>3. TxKnows /\ TxGoesOn /\ TxGoesBack
  BY DEF TxKnows, TxGoesOn, TxGoesBack, WebUI!Init, WebUI!NoTx
<1>4. Spared
  <2>1. AtStake = {}
    BY DEF WebUI!Init, AtStake, WebUI!NoTx
  <2>2. ASSUME NEW n \in {"main", "legacy"}, NEW d \in WebUI!Datas, NEW r \in BOOLEAN,
               container = [[m \in WebUI!Names |-> None] EXCEPT
                              ![n] = [data |-> d, runs |-> r, works |-> TRUE]]
        PROVE  n \in WebUI!Names /\ HasWorked(n)
    <3>1. container[n] = [data |-> d, runs |-> r, works |-> TRUE] /\ n \in WebUI!Names
      BY <2>2, NamesApart
    <3>2. container[n] \in [data : WebUI!Datas, runs : BOOLEAN, works : BOOLEAN]
      BY <3>1
    <3>3. container[n] # None
      BY <3>2, WebUIAssumption
    <3> QED BY <3>1, <3>3 DEF HasWorked
  <2> QED BY <2>1, <2>2 DEF WebUI!Init, Spared
<1>5. WebUI!OldSurvives
  BY <1>4, WebUIAssumption DEF WebUI!Init, WebUI!OldSurvives, WebUI!OneSurvives, Spared,
     HasWorked, AtStake
<1> QED BY <1>1, <1>2, <1>3, <1>4, <1>5 DEF WebUIInv

-----------------------------------------------------------------------------

\* The names the transaction under way deals with.
LEMMA TxNames ==
    ASSUME number \in WebUI!Transactions
    PROVE  /\ "main" \in WebUI!Names /\ "legacy" \in WebUI!Names
           /\ WebUI!Candidate[number] \in WebUI!Names /\ WebUI!Rollback[number] \in WebUI!Names
           /\ WebUI!Candidate[number] # WebUI!Rollback[number]
           /\ WebUI!Candidate[number] # "main" /\ WebUI!Candidate[number] # "legacy"
           /\ WebUI!Rollback[number] # "main" /\ WebUI!Rollback[number] # "legacy"
  BY NamesApart

LEMMA FoundStoppedIs ==
    ASSUME found \in Containers
    PROVE  /\ FoundStopped \in Containers /\ FoundStopped # None /\ found # None
           /\ FoundStopped.data = found.data /\ FoundStopped.works = found.works
           /\ FoundStopped.runs = FALSE
           /\ ~ found.runs => FoundStopped = found
<1>1. FoundStopped \in Containers
  BY DEF FoundStopped, Containers
<1> QED BY <1>1, WebUIAssumption DEF FoundStopped, Containers

LEMMA FreshNamesKept ==
    ASSUME FreshNames, number \in WebUI!Transactions, number' = number,
           \A n \in WebUI!Names :
               n \notin {"main", "legacy", WebUI!Candidate[number], WebUI!Rollback[number]} =>
                               container'[n] = container[n]
    PROVE  FreshNames'
<1> SUFFICES ASSUME NEW t \in WebUI!Transactions, t > number
             PROVE  container'[WebUI!Candidate[t]] = None /\ container'[WebUI!Rollback[t]] = None
  BY DEF FreshNames
<1>1. t # number
  BY DEF WebUI!Transactions
<1>2. /\ WebUI!Candidate[t] \in WebUI!Names /\ WebUI!Rollback[t] \in WebUI!Names
      /\ WebUI!Candidate[t] \notin {"main", "legacy", WebUI!Candidate[number],
          WebUI!Rollback[number]}
      /\ WebUI!Rollback[t] \notin {"main", "legacy", WebUI!Candidate[number],
          WebUI!Rollback[number]}
  BY <1>1, NamesApart
<1> QED BY <1>2 DEF FreshNames

\* While a transaction is under way there is only what it knows to keep.
LEMMA KeptUnderWay ==
    ASSUME WebUITyped', FreshNames', TxKnows', TxGoesOn', (~ late => TxGoesBack)',
           (~ late => Spared)', tx'.pc # "idle"
    PROVE  WebUIInv'
<1>1. WebUI!OldSurvives'
  BY DEF WebUI!OldSurvives, WebUI!OneSurvives, Spared, HasWorked
<1> QED BY <1>1 DEF WebUIInv

\* A command that fails leaves what the rollback needs.
LEMMA FailsKeeps ==
    ASSUME WebUIInv, number \in WebUI!Transactions,
        tx.pc \notin {"idle", "unname", "rename", "restart", "clean"},
           NEW error \in {"error", "restored"}, WebUI!Fails(error),
           container' \in [WebUI!Names -> Containers \cup {None}], FreshNames',
           ~ late' =>
             /\ tx.promoted => /\ container'[WebUI!Candidate[number]] = None
                               /\ tx.existing # None => container'[WebUI!Rollback[number]] # None
             /\ tx.existing # None =>
                  IF container'[WebUI!Rollback[number]] # None
                      THEN container'[WebUI!Rollback[number]] = FoundStopped
                  ELSE WebUI!Named(tx.existing)'
             /\ worked =>
                 \E n \in WebUI!Names \ (IF tx.promoted THEN {"main", WebUI!Candidate[number]}
                                             ELSE {WebUI!Candidate[number]}) : HasWorked(n)'
    PROVE  WebUIInv'
<1>1. /\ tx' = [tx EXCEPT !.pc = "unname"] /\ outcome' = error /\ late' = (late \/ tx.removed)
      /\ parked' = (tx.existing # None /\ container'[WebUI!Rollback[number]] # None)
      /\ number' = number /\ found' = found /\ worked' = worked
  BY DEF WebUI!Fails
<1>2. /\ tx \in TxShape
      /\ WebUITyped /\ TxKnows
  BY DEF WebUIInv, WebUITyped
<1>3. /\ tx' \in TxShape
      /\ tx'.pc = "unname" /\ tx'.existing = tx.existing /\ tx'.up = tx.up
      /\ tx'.promoted = tx.promoted /\ tx'.removed = tx.removed
  BY <1>1, <1>2 DEF TxPlaces, TxShape
<1>4. WebUITyped'
  BY <1>1, <1>2, <1>3 DEF WebUITyped
<1>5. TxKnows'
  BY <1>1, <1>2, <1>3 DEF TxKnows
<1>6. TxGoesOn'
  BY <1>3 DEF TxGoesOn
<1>7. (~ late => TxGoesBack)'
  BY <1>1, <1>3 DEF TxGoesBack, FoundStopped
<1>8. (~ late => Spared)'
  <2>1. AtStake' = IF tx.promoted THEN {"main", WebUI!Candidate[number]}
          ELSE {WebUI!Candidate[number]}
    BY <1>1, <1>3 DEF AtStake
  <2> QED BY <2>1, <1>1 DEF Spared
<1> QED BY <1>3, <1>4, <1>5, <1>6, <1>7, <1>8, KeptUnderWay

LEMMA GoesTo ==
    ASSUME WebUITyped, NEW p \in TxPlaces, tx' = [tx EXCEPT !.pc = p]
    PROVE  /\ tx' \in TxShape /\ tx'.pc = p /\ tx'.existing = tx.existing /\ tx'.up = tx.up
           /\ tx'.promoted = tx.promoted /\ tx'.removed = tx.removed
  BY DEF WebUITyped, TxShape

LEMMA StopOldKeeps == ASSUME WebUIInv, WebUI!StopOld PROVE WebUIInv'
<1> DEFINE c == WebUI!Candidate[number]
           r == WebUI!Rollback[number]
           o == tx.existing
<1>1. /\ tx.pc = "stop" /\ number \in WebUI!Transactions /\ number' = number
      /\ found' = found /\ worked' = worked
  BY DEF WebUI!StopOld, WebUIInv, TxKnows, WebUI!Proceeds, WebUI!Fails
<1>2. /\ "main" \in WebUI!Names /\ "legacy" \in WebUI!Names /\ c \in WebUI!Names
      /\ r \in WebUI!Names /\ c # r
      /\ c # "main" /\ c # "legacy" /\ r # "main" /\ r # "legacy"
  BY <1>1, TxNames
<1> HIDE DEF c, r
<1>3. /\ WebUITyped /\ FreshNames /\ TxKnows
      /\ ~ tx.promoted /\ ~ tx.removed /\ (o # "main" => container["main"] = None)
      /\ Untried(c) /\ container[r] = None /\ (o # None => container[o] = found)
      /\ o \in {"main", "legacy", None} /\ (o = None <=> found = None)
      /\ tx.up = (found # None /\ found.runs) /\ (~ late => Spared)
      /\ found \in Containers \cup {None}
  BY <1>1 DEF WebUIInv, WebUITyped, TxShape, TxKnows, TxGoesOn, c, r, o
<1>4. o # None => /\ o \in WebUI!Names /\ container[o] \in Containers /\ container[o] # None
                  /\ found \in Containers /\ WebUI!Switched(o, FALSE)[o] = FoundStopped
  <2> SUFFICES ASSUME o # None
               PROVE  /\ o \in WebUI!Names /\ container[o] \in Containers /\ container[o] # None
                      /\ found \in Containers /\ WebUI!Switched(o, FALSE)[o] = FoundStopped
    OBVIOUS
  <2>1. o \in WebUI!Names /\ container[o] = found /\ found \in Containers /\ found # None
    BY <1>2, <1>3
  <2>2. WebUI!Switched(o, FALSE)[o] = [container[o] EXCEPT !.runs = FALSE]
    BY <2>1, <1>3, WhenSwitched
  <2> QED BY <2>1, <2>2 DEF FoundStopped
<1>5. /\ container' \in [WebUI!Names -> Containers \cup {None}]
      /\ \A n \in WebUI!Names : n # o => container'[n] = container[n]
      /\ o # None => container'[o] \in {found, FoundStopped}
  <2>1. CASE container' = container
    BY <2>1, <1>3 DEF WebUITyped
  <2>2. CASE container' = WebUI!Switched(o, FALSE) /\ tx.up
    <3>1. o # None
      BY <2>2, <1>3
    <3> QED BY <2>2, <3>1, <1>3, <1>4, WhenSwitched
  <2> QED BY <2>1, <2>2 DEF WebUI!StopOld, o
<1>6. FreshNames'
  BY <1>1, <1>2, <1>3, <1>5, WebUIAssumption, FreshNamesKept DEF c, r
<1>7. \A n \in WebUI!Names : HasWorked(n) => HasWorked(n)'
  <2> SUFFICES ASSUME NEW n \in WebUI!Names, HasWorked(n) PROVE HasWorked(n)'
    OBVIOUS
  <2>1. CASE n # o
    BY <2>1, <1>5 DEF HasWorked
  <2>2. CASE n = o
    <3>1. /\ found \in Containers /\ container[o] = found
          /\ container'[o] \in {found, FoundStopped}
          /\ found # None
      BY <2>2, <1>3, <1>4, <1>5, WebUIAssumption
    <3> QED BY <2>2, <3>1, FoundStoppedIs DEF HasWorked
  <2> QED BY <2>1, <2>2
<1>8. worked /\ ~ late => \E n \in WebUI!Names \ {c} : HasWorked(n)'
  <2>1. AtStake = {c}
    BY <1>1 DEF AtStake, c
  <2> QED BY <2>1, <1>3, <1>7 DEF Spared
<1>9. CASE /\ container' = IF tx.up THEN WebUI!Switched(o, FALSE) ELSE container
           /\ WebUI!Goes("park") /\ WebUI!Proceeds
  <2>1. /\ tx' = [tx EXCEPT !.pc = "park"] /\ late' = late /\ parked' = parked
    BY <1>9 DEF WebUI!Goes, WebUI!Proceeds
  <2>2. o # None => container'[o] = FoundStopped
    BY <1>3, <1>4, <1>9, FoundStoppedIs
  <2>3. /\ tx' \in TxShape
        /\ tx'.pc = "park" /\ tx'.existing = o /\ tx'.up = tx.up
        /\ tx'.promoted = tx.promoted /\ tx'.removed = tx.removed
    BY <1>3, <2>1 DEF TxPlaces, TxShape, WebUITyped, o
  <2>4. WebUITyped'
    BY <1>1, <1>3, <1>5, <2>1, <2>3 DEF WebUITyped
  <2>5. TxKnows'
    BY <1>1, <1>3, <2>3 DEF TxKnows, o
  <2>6. /\ container'[c] # None /\ ~ container'[c].works /\ container'[r] = None
        /\ (o # "main" => container'["main"] = None)
    BY <1>2, <1>3, <1>4, <1>5, WebUIAssumption DEF Untried
  <2>7. TxGoesOn'
    BY <1>1, <1>3, <2>2, <2>3, <2>6 DEF TxGoesOn, FoundStopped, c, r, o, Untried
  <2>8. TxGoesBack'
    BY <2>3 DEF TxGoesBack
  <2>9. (~ late => Spared)'
    <3>1. AtStake' = {c}
      BY <1>1, <2>3 DEF AtStake, c
    <3> QED BY <1>1, <1>7, <1>8, <2>1, <3>1 DEF Spared
  <2> QED BY <1>6, <2>3, <2>4, <2>5, <2>7, <2>8, <2>9, KeptUnderWay
<1>10. CASE WebUI!Fails("error")
  <2>1. o # None =>
          (IF container'[r] # None THEN container'[r] = FoundStopped ELSE WebUI!Named(o)')
    <3> SUFFICES ASSUME o # None PROVE ~ (container'[r] # None) /\ WebUI!Named(o)'
      OBVIOUS
    <3>1. r # o /\ container'[r] = None
      BY <1>2, <1>3, <1>5
    <3>2. container'[o] \in {found, FoundStopped} /\ found \in Containers
      BY <1>4, <1>5
    <3>3. tx'.existing = o
      BY <1>10, <1>3 DEF WebUI!Fails, WebUITyped, TxShape, o
    <3> QED BY <1>1, <3>1, <3>2, <3>3, FoundStoppedIs DEF WebUI!Named
  <2>2. late' = (late \/ tx.removed)
    BY <1>10 DEF WebUI!Fails
  <2> QED BY <1>1, <1>2, <1>3, <1>5, <1>6, <1>8, <1>10, <2>1, <2>2, FailsKeeps DEF c, r, o,
        WebUIInv
<1> QED BY <1>9, <1>10 DEF WebUI!StopOld, o

LEMMA ParkKeeps == ASSUME WebUIInv, WebUI!Park PROVE WebUIInv'
<1> DEFINE c == WebUI!Candidate[number]
           r == WebUI!Rollback[number]
           o == tx.existing
<1>1. /\ tx.pc = "park" /\ number \in WebUI!Transactions /\ number' = number
      /\ found' = found /\ worked' = worked
  BY DEF WebUI!Park, WebUIInv, TxKnows, WebUI!Proceeds, WebUI!Fails
<1>2. /\ "main" \in WebUI!Names /\ "legacy" \in WebUI!Names /\ c \in WebUI!Names
      /\ r \in WebUI!Names /\ c # r
      /\ c # "main" /\ c # "legacy" /\ r # "main" /\ r # "legacy"
  BY <1>1, TxNames
<1> HIDE DEF c, r
<1>3. /\ WebUITyped /\ FreshNames /\ TxKnows
      /\ ~ tx.promoted /\ ~ tx.removed /\ (o # "main" => container["main"] = None)
      /\ container[c] # None /\ ~ container[c].works /\ container[r] = None
      /\ (o # None => container[o] = FoundStopped)
      /\ o \in {"main", "legacy", None} /\ (o = None <=> found = None)
      /\ (~ late => Spared)
      /\ found \in Containers \cup {None} /\ container \in [WebUI!Names -> Containers \cup {None}]
  BY <1>1 DEF WebUIInv, WebUITyped, TxShape, TxKnows, TxGoesOn, Untried, c, r, o
<1> DEFINE moved == IF o = None THEN container ELSE WebUI!Moved(o, r)
<1>4. /\ moved \in [WebUI!Names -> Containers \cup {None}]
      /\ \A n \in WebUI!Names : n \notin {o, r} => moved[n] = container[n]
      /\ o # None =>
          moved[r] = FoundStopped /\ moved[o] = None /\ o \in WebUI!Names /\ found \in Containers
  <2>1. CASE o = None
    BY <2>1, <1>3
  <2>2. CASE o # None
    BY <2>2, <1>2, <1>3, WhenRenamed DEF WebUI!Moved
  <2> QED BY <2>1, <2>2
<1> HIDE DEF moved
<1>5. /\ container' \in {container, moved}
      /\ container' \in [WebUI!Names -> Containers \cup {None}]
      /\ \A n \in WebUI!Names : n \notin {o, r} => container'[n] = container[n]
  BY <1>3, <1>4 DEF WebUI!Park, moved, o, r
<1>6. FreshNames'
  BY <1>1, <1>2, <1>3, <1>5, WebUIAssumption, FreshNamesKept DEF c, r
<1>7. worked /\ ~ late => \E n \in WebUI!Names \ {c} : container'[n] # None /\ container'[n].works
  <2> SUFFICES ASSUME worked, ~ late
               PROVE  \E n \in WebUI!Names \ {c} : container'[n] # None /\ container'[n].works
    OBVIOUS
  <2>1. PICK n \in WebUI!Names \ {c} : container[n] # None /\ container[n].works
    BY <1>1, <1>3 DEF Spared, AtStake, HasWorked, c
  <2>2. CASE container'[n] = container[n]
    BY <2>1, <2>2
  <2>3. CASE container'[n] # container[n]
    <3>1. n = o /\ container' = moved
      BY <2>1, <2>3, <1>3, <1>5
    <3>2. container'[r] = container[n] /\ r # c
      BY <3>1, <2>1, <1>2, <1>3, <1>4, WebUIAssumption
    <3> QED BY <3>2, <2>1, <1>2
  <2> QED BY <2>2, <2>3
<1>8. CASE container' = moved /\ WebUI!Goes("promote") /\ WebUI!Proceeds
  <2>1. /\ tx' = [tx EXCEPT !.pc = "promote"] /\ late' = late /\ parked' = parked
    BY <1>8 DEF WebUI!Goes, WebUI!Proceeds
  <2>2. /\ tx' \in TxShape /\ tx'.pc = "promote" /\ tx'.existing = o /\ tx'.up = tx.up
        /\ tx'.promoted = tx.promoted /\ tx'.removed = tx.removed
    BY <1>3, <2>1, GoesTo DEF TxPlaces
  <2>3. WebUITyped'
    BY <1>1, <1>3, <1>5, <2>1, <2>2 DEF WebUITyped
  <2>4. TxKnows'
    BY <1>1, <1>3, <2>2 DEF TxKnows, o
  <2>5. container'[c] # None /\ ~ container'[c].works /\ container'["main"] = None
    BY <1>2, <1>3, <1>4, <1>8, WebUIAssumption
  <2>6. TxGoesOn'
    <3>1. FoundStopped' = FoundStopped
      BY <1>1 DEF FoundStopped
    <3>2. o # None => container'[o] = None /\ container'[r] = FoundStopped
      BY <1>4, <1>8
    <3>3. c' = c /\ r' = r /\ "legacy" # None
      BY <1>1, <1>2, WebUIAssumption DEF c, r
    <3> QED BY <1>3, <2>2, <2>5, <3>1, <3>2, <3>3 DEF TxGoesOn, Untried, c, r
  <2>7. TxGoesBack'
    BY <2>2 DEF TxGoesBack
  <2>8. (~ late => Spared)'
    <3>1. AtStake' = {c}
      BY <1>1, <2>2 DEF AtStake, c
    <3> QED BY <1>1, <1>7, <2>1, <3>1 DEF Spared, HasWorked
  <2> QED BY <1>6, <2>2, <2>3, <2>4, <2>6, <2>7, <2>8, KeptUnderWay
<1>9. CASE o # None /\ WebUI!Fails("restored")
  <2>1. tx'.existing = o /\ late' = (late \/ tx.removed)
    BY <1>9, <1>3 DEF WebUI!Fails, WebUITyped, TxShape
  <2>2. IF container'[r] # None THEN container'[r] = FoundStopped ELSE WebUI!Named(o)'
    <3>1. CASE container' = container
      BY <3>1, <1>1, <1>3, <1>4, <1>9, <2>1, FoundStoppedIs DEF WebUI!Named
    <3>2. CASE container' = moved
      BY <3>2, <1>4, <1>9, FoundStoppedIs
    <3> QED BY <3>1, <3>2, <1>5
  <2> QED BY <1>1, <1>2, <1>3, <1>5, <1>6, <1>7, <1>9, <2>1, <2>2, FailsKeeps DEF c, r, o,
        HasWorked
<1> QED BY <1>5, <1>8, <1>9 DEF WebUI!Park, moved, o, r

LEMMA PromoteKeeps == ASSUME WebUIInv, WebUI!Promote PROVE WebUIInv'
<1> DEFINE c == WebUI!Candidate[number]
           r == WebUI!Rollback[number]
           o == tx.existing
<1>1. /\ tx.pc = "promote" /\ number \in WebUI!Transactions /\ number' = number
      /\ found' = found /\ worked' = worked
  BY DEF WebUI!Promote, WebUIInv, TxKnows, WebUI!Proceeds, WebUI!Fails
<1>2. /\ "main" \in WebUI!Names /\ "legacy" \in WebUI!Names /\ c \in WebUI!Names
      /\ r \in WebUI!Names /\ c # r
      /\ c # "main" /\ c # "legacy" /\ r # "main" /\ r # "legacy"
  BY <1>1, TxNames
<1> HIDE DEF c, r
<1>3. /\ WebUITyped /\ FreshNames /\ TxKnows
      /\ ~ tx.promoted /\ ~ tx.removed /\ container["main"] = None
      /\ container[c] # None /\ ~ container[c].works
      /\ (o # None => container[r] = FoundStopped)
      /\ (o = "legacy" => container["legacy"] = None)
      /\ o \in {"main", "legacy", None} /\ (o = None <=> found = None)
      /\ (~ late => Spared)
      /\ found \in Containers \cup {None} /\ container \in [WebUI!Names -> Containers \cup {None}]
  BY <1>1 DEF WebUIInv, WebUITyped, TxShape, TxKnows, TxGoesOn, Untried, c, r, o
<1> DEFINE promoted == WebUI!Moved(c, "main")
<1>4. /\ promoted \in [WebUI!Names -> Containers \cup {None}]
      /\ \A n \in WebUI!Names : n \notin {c, "main"} => promoted[n] = container[n]
      /\ promoted["main"] = container[c] /\ promoted[c] = None
  BY <1>2, <1>3, WhenRenamed DEF WebUI!Moved
<1> HIDE DEF promoted
<1>5. /\ container' \in {container, promoted}
      /\ container' \in [WebUI!Names -> Containers \cup {None}]
      /\ \A n \in WebUI!Names : n \notin {c, "main"} => container'[n] = container[n]
  BY <1>3, <1>4 DEF WebUI!Promote, promoted, c
<1>6. FreshNames'
  BY <1>1, <1>2, <1>3, <1>5, FreshNamesKept DEF c, r
<1>7. worked /\ ~ late => \E n \in WebUI!Names \ {"main", c} :
        container'[n] # None /\ container'[n].works
  <2> SUFFICES ASSUME worked, ~ late
               PROVE  \E n \in WebUI!Names \ {"main", c} :
                   container'[n] # None /\ container'[n].works
    OBVIOUS
  <2>1. PICK n \in WebUI!Names \ {c} : container[n] # None /\ container[n].works
    BY <1>1, <1>3 DEF Spared, AtStake, HasWorked, c
  <2> QED BY <2>1, <1>3, <1>5
<1>8. CASE /\ container' = promoted
           /\ tx' = [tx EXCEPT !.pc = "start", !.promoted = TRUE] /\ WebUI!Proceeds
  <2>1. late' = late /\ parked' = parked
    BY <1>8 DEF WebUI!Proceeds
  <2>2. /\ tx' \in TxShape /\ tx'.pc = "start" /\ tx'.existing = o /\ tx'.up = tx.up
        /\ tx'.promoted /\ tx'.removed = tx.removed
    BY <1>3, <1>8 DEF TxPlaces, TxShape, WebUITyped
  <2>3. WebUITyped'
    BY <1>1, <1>3, <1>5, <2>1, <2>2 DEF WebUITyped
  <2>4. TxKnows'
    BY <1>1, <1>3, <2>2 DEF TxKnows, o
  <2>5. /\ container'["main"] # None /\ container'[c] = None
        /\ container'["legacy"] = container["legacy"] /\ container'[r] = container[r]
    BY <1>2, <1>3, <1>4, <1>8
  <2>6. TxGoesOn'
    BY <1>1, <1>3, <2>2, <2>5 DEF TxGoesOn, FoundStopped, c, r
  <2>7. TxGoesBack'
    BY <2>2 DEF TxGoesBack
  <2>8. (~ late => Spared)'
    <3>1. AtStake' = {"main", c}
      BY <1>1, <2>2 DEF AtStake, c
    <3> QED BY <1>1, <1>7, <2>1, <3>1 DEF Spared, HasWorked
  <2> QED BY <1>6, <2>2, <2>3, <2>4, <2>6, <2>7, <2>8, KeptUnderWay
<1>9. CASE WebUI!Fails("restored")
  <2>1. tx'.existing = o /\ late' = (late \/ tx.removed)
    BY <1>9, <1>3 DEF WebUI!Fails, WebUITyped, TxShape
  <2>2. o # None => container'[r] = FoundStopped /\ FoundStopped # None
    BY <1>2, <1>3, <1>5, FoundStoppedIs
  <2> QED BY <1>1, <1>2, <1>3, <1>5, <1>6, <1>7, <1>9, <2>1, <2>2, FailsKeeps DEF c, r, o,
        HasWorked
<1> QED BY <1>5, <1>8, <1>9 DEF WebUI!Promote, promoted, c

LEMMA StartNewKeeps == ASSUME WebUIInv, WebUI!StartNew PROVE WebUIInv'
<1> DEFINE c == WebUI!Candidate[number]
           r == WebUI!Rollback[number]
           o == tx.existing
<1>1. /\ tx.pc = "start" /\ number \in WebUI!Transactions /\ number' = number
      /\ found' = found /\ worked' = worked
  BY DEF WebUI!StartNew, WebUIInv, TxKnows, WebUI!Proceeds, WebUI!Fails, WebUI!Goes, WebUI!Ends,
     WebUI!NeedsGuidance
<1>2. /\ "main" \in WebUI!Names /\ "legacy" \in WebUI!Names /\ c \in WebUI!Names
      /\ r \in WebUI!Names /\ c # r
      /\ c # "main" /\ c # "legacy" /\ r # "main" /\ r # "legacy"
  BY <1>1, TxNames
<1> HIDE DEF c, r
<1>3. /\ WebUITyped /\ FreshNames /\ TxKnows
      /\ tx.promoted /\ ~ tx.removed /\ container["main"] # None /\ container[c] = None
      /\ (o # None => container[r] = FoundStopped)
      /\ (o = "legacy" => container["legacy"] = None)
      /\ o \in {"main", "legacy", None} /\ (o = None <=> found = None)
      /\ (~ late => Spared) /\ AtStake = {"main", c}
      /\ found \in Containers \cup {None} /\ container \in [WebUI!Names -> Containers \cup {None}]
  BY <1>1 DEF WebUIInv, WebUITyped, TxShape, TxKnows, TxGoesOn, AtStake, c, r, o
<1>4. \A b \in BOOLEAN :
         /\ WebUI!Switched("main", b) \in [WebUI!Names -> Containers \cup {None}]
         /\ WebUI!Switched("main", b)["main"] # None
         /\ \A n \in WebUI!Names : n # "main" => WebUI!Switched("main", b)[n] = container[n]
  BY <1>2, <1>3, WhenSwitched
<1>5. /\ container' \in [WebUI!Names -> Containers \cup {None}] /\ container'["main"] # None
      /\ \A n \in WebUI!Names : n # "main" => container'[n] = container[n]
  <2>1. container' = container \/ \E b \in BOOLEAN : container' = WebUI!Switched("main", b)
    BY DEF WebUI!StartNew
  <2> QED BY <2>1, <1>3, <1>4
<1>6. FreshNames'
  BY <1>1, <1>2, <1>3, <1>5, FreshNamesKept DEF c, r
<1>7. worked /\ ~ late => \E n \in WebUI!Names \ {"main", c} :
        container'[n] # None /\ container'[n].works
  BY <1>3, <1>5 DEF Spared, HasWorked
<1>8. CASE WebUI!Goes("verify") /\ WebUI!Proceeds
  <2>1. /\ tx' = [tx EXCEPT !.pc = "verify"] /\ late' = late /\ parked' = parked
    BY <1>8 DEF WebUI!Goes, WebUI!Proceeds
  <2>2. /\ tx' \in TxShape /\ tx'.pc = "verify" /\ tx'.existing = o /\ tx'.up = tx.up
        /\ tx'.promoted = tx.promoted /\ tx'.removed = tx.removed
    BY <1>3, <2>1, GoesTo DEF TxPlaces
  <2>3. WebUITyped'
    BY <1>1, <1>3, <1>5, <2>1, <2>2 DEF WebUITyped
  <2>4. TxKnows'
    BY <1>1, <1>3, <2>2 DEF TxKnows, o
  <2>5. FoundStopped' = FoundStopped /\ c' = c /\ r' = r
    BY <1>1 DEF FoundStopped, c, r
  <2>6. TxGoesOn'
    BY <1>2, <1>3, <1>5, <1>8, <2>2, <2>5 DEF TxGoesOn, c, r
  <2>7. TxGoesBack'
    BY <2>2 DEF TxGoesBack
  <2>8. (~ late => Spared)'
    <3>1. AtStake' = {"main", c}
      BY <1>1, <2>2 DEF AtStake, c
    <3> QED BY <1>1, <1>7, <2>1, <3>1 DEF Spared, HasWorked
  <2> QED BY <1>6, <2>2, <2>3, <2>4, <2>6, <2>7, <2>8, KeptUnderWay
<1>9. CASE WebUI!Fails("restored")
  <2>1. tx'.existing = o /\ late' = (late \/ tx.removed)
    BY <1>9, <1>3 DEF WebUI!Fails, WebUITyped, TxShape
  <2>2. o # None => container'[r] = FoundStopped /\ FoundStopped # None
    BY <1>2, <1>3, <1>5, FoundStoppedIs
  <2> QED BY <1>1, <1>2, <1>3, <1>5, <1>6, <1>7, <1>9, <2>1, <2>2, FailsKeeps DEF c, r, o,
        HasWorked
<1> QED BY <1>8, <1>9 DEF WebUI!StartNew

LEMMA VerifyKeeps == ASSUME WebUIInv, WebUI!Verify PROVE WebUIInv'
<1> DEFINE c == WebUI!Candidate[number]
           r == WebUI!Rollback[number]
           o == tx.existing
<1>1. /\ tx.pc = "verify" /\ number \in WebUI!Transactions /\ number' = number
      /\ found' = found /\ worked' = worked
  BY DEF WebUI!Verify, WebUIInv, TxKnows, WebUI!Proceeds, WebUI!Fails, WebUI!Goes, WebUI!Ends,
     WebUI!NeedsGuidance
<1>2. /\ "main" \in WebUI!Names /\ "legacy" \in WebUI!Names /\ c \in WebUI!Names
      /\ r \in WebUI!Names /\ c # r
      /\ c # "main" /\ c # "legacy" /\ r # "main" /\ r # "legacy"
  BY <1>1, TxNames
<1> HIDE DEF c, r
<1>3. /\ WebUITyped /\ FreshNames /\ TxKnows
      /\ tx.promoted /\ ~ tx.removed /\ container["main"] # None /\ container[c] = None
      /\ (o # None => container[r] = FoundStopped)
      /\ (o = "legacy" => container["legacy"] = None)
      /\ o \in {"main", "legacy", None} /\ (o = None <=> found = None)
      /\ (~ late => Spared) /\ AtStake = {"main", c}
      /\ found \in Containers \cup {None} /\ container \in [WebUI!Names -> Containers \cup {None}]
  BY <1>1 DEF WebUIInv, WebUITyped, TxShape, TxKnows, TxGoesOn, AtStake, c, r, o
<1>4. [container["main"] EXCEPT !.works = TRUE] \in Containers
  BY <1>2, <1>3 DEF Containers
<1>5. /\ container' \in [WebUI!Names -> Containers \cup {None}] /\ container'["main"] # None
      /\ \A n \in WebUI!Names : n # "main" => container'[n] = container[n]
  <2>1. CASE container' = [container EXCEPT !["main"].works = TRUE]
    BY <2>1, <1>2, <1>3, <1>4, WebUIAssumption DEF Containers
  <2> QED BY <2>1, <1>3 DEF WebUI!Verify
<1>6. FreshNames'
  BY <1>1, <1>2, <1>3, <1>5, FreshNamesKept DEF c, r
<1>7. worked /\ ~ late => \E n \in WebUI!Names \ {"main", c} :
        container'[n] # None /\ container'[n].works
  BY <1>3, <1>5 DEF Spared, HasWorked
<1>8. CASE container' = [container EXCEPT !["main"].works = TRUE] /\ WebUI!Goes("remove")
        /\ WebUI!Proceeds
  <2>0. container'["main"].works
    BY <1>2, <1>3, <1>8 DEF Containers
  <2>1. /\ tx' = [tx EXCEPT !.pc = "remove"] /\ late' = late /\ parked' = parked
    BY <1>8 DEF WebUI!Goes, WebUI!Proceeds
  <2>2. /\ tx' \in TxShape /\ tx'.pc = "remove" /\ tx'.existing = o /\ tx'.up = tx.up
        /\ tx'.promoted = tx.promoted /\ tx'.removed = tx.removed
    BY <1>3, <2>1, GoesTo DEF TxPlaces
  <2>3. WebUITyped'
    BY <1>1, <1>3, <1>5, <2>1, <2>2 DEF WebUITyped
  <2>4. TxKnows'
    BY <1>1, <1>3, <2>2 DEF TxKnows, o
  <2>5. FoundStopped' = FoundStopped /\ c' = c /\ r' = r
    BY <1>1 DEF FoundStopped, c, r
  <2>6. TxGoesOn'
    BY <1>2, <1>3, <1>5, <1>8, <2>2, <2>5, <2>0 DEF TxGoesOn, c, r
  <2>7. TxGoesBack'
    BY <2>2 DEF TxGoesBack
  <2>8. (~ late => Spared)'
    <3>1. AtStake' = {"main", c}
      BY <1>1, <2>2 DEF AtStake, c
    <3> QED BY <1>1, <1>7, <2>1, <3>1 DEF Spared, HasWorked
  <2> QED BY <1>6, <2>2, <2>3, <2>4, <2>6, <2>7, <2>8, KeptUnderWay
<1>9. CASE WebUI!Fails("error")
  <2>1. tx'.existing = o /\ late' = (late \/ tx.removed)
    BY <1>9, <1>3 DEF WebUI!Fails, WebUITyped, TxShape
  <2>2. o # None => container'[r] = FoundStopped /\ FoundStopped # None
    BY <1>2, <1>3, <1>5, FoundStoppedIs
  <2> QED BY <1>1, <1>2, <1>3, <1>5, <1>6, <1>7, <1>9, <2>1, <2>2, FailsKeeps DEF c, r, o,
        HasWorked
<1> QED BY <1>8, <1>9 DEF WebUI!Verify

\* A transaction that ends leaves the promise kept.
LEMMA KeptAtRest ==
    ASSUME WebUITyped', FreshNames', tx' = WebUI!NoTx,
           ~ late' /\ worked' => \E n \in WebUI!Names :
               container'[n] # None /\ container'[n].works,
           outcome' \in {"error", "restored"} /\ ~ late' =>
             /\ found' # None => \E n \in {"main", "legacy"} : WebUI!Named(n)'
             /\ parked' => WebUI!BackInPlace'
    PROVE  WebUIInv'
<1>1. tx'.pc = "idle" /\ ~ tx'.removed
  BY DEF WebUI!NoTx
<1>2. TxKnows'
  BY <1>1 DEF TxKnows
<1>3. TxGoesOn' /\ TxGoesBack'
  BY <1>1 DEF TxGoesOn, TxGoesBack
<1>4. (~ late => Spared)'
  <2>1. AtStake' = {}
    BY <1>1 DEF AtStake
  <2> QED BY <2>1 DEF Spared, HasWorked
<1>5. WebUI!OldSurvives'
  BY DEF WebUI!OldSurvives, WebUI!OneSurvives
<1> QED BY <1>2, <1>3, <1>4, <1>5 DEF WebUIInv

LEMMA RemoveOldKeeps == ASSUME WebUIInv, WebUI!RemoveOld PROVE WebUIInv'
<1> DEFINE c == WebUI!Candidate[number]
           r == WebUI!Rollback[number]
           o == tx.existing
<1>1. /\ tx.pc = "remove" /\ number \in WebUI!Transactions /\ number' = number
      /\ found' = found /\ worked' = worked
  BY DEF WebUI!RemoveOld, WebUIInv, TxKnows, WebUI!Proceeds, WebUI!Fails, WebUI!Goes,
     WebUI!Ends, WebUI!NeedsGuidance
<1>2. /\ "main" \in WebUI!Names /\ "legacy" \in WebUI!Names /\ c \in WebUI!Names
      /\ r \in WebUI!Names /\ c # r
      /\ c # "main" /\ c # "legacy" /\ r # "main" /\ r # "legacy"
  BY <1>1, TxNames
<1> HIDE DEF c, r
<1>3. /\ WebUITyped /\ FreshNames /\ TxKnows
      /\ tx.promoted /\ ~ tx.removed /\ container["main"] # None /\ container[c] = None
      /\ (o # None => container[r] = FoundStopped)
      /\ (o = "legacy" => container["legacy"] = None)
      /\ o \in {"main", "legacy", None} /\ (o = None <=> found = None)
      /\ (~ late => Spared) /\ container["main"].works /\ AtStake = {"main", c}
      /\ found \in Containers \cup {None} /\ container \in [WebUI!Names -> Containers \cup {None}]
  BY <1>1 DEF WebUIInv, WebUITyped, TxShape, TxKnows, TxGoesOn, AtStake, c, r, o
<1>4. o # None => o \in WebUI!Names /\ FoundStopped # None
  BY <1>2, <1>3, FoundStoppedIs
<1> DEFINE gone == IF o = None THEN container ELSE WebUI!Removed(r)
<1>5. /\ gone \in [WebUI!Names -> Containers \cup {None}]
      /\ \A n \in WebUI!Names : n # r => gone[n] = container[n]
      /\ o = None => gone = container
  BY <1>2, <1>3, WhenRemoved
<1> HIDE DEF gone
<1>6. /\ container' \in {container, gone}
      /\ container' \in [WebUI!Names -> Containers \cup {None}]
      /\ \A n \in WebUI!Names : n # r => container'[n] = container[n]
  BY <1>3, <1>5 DEF WebUI!RemoveOld, gone, r, o
<1>7. FreshNames'
  BY <1>1, <1>2, <1>3, <1>6, FreshNamesKept DEF c, r
<1>8. CASE /\ container' = gone
           /\ tx' = [tx EXCEPT !.pc = "settle", !.removed = o # None] /\ WebUI!Proceeds
  <2>1. late' = late /\ parked' = parked
    BY <1>8 DEF WebUI!Proceeds
  <2>2. /\ tx' \in TxShape /\ tx'.pc = "settle" /\ tx'.existing = o /\ tx'.up = tx.up
        /\ tx'.promoted = tx.promoted /\ tx'.removed = (o # None)
    BY <1>3, <1>8 DEF TxPlaces, TxShape, WebUITyped
  <2>3. WebUITyped'
    BY <1>1, <1>3, <1>6, <2>1, <2>2 DEF WebUITyped
  <2>4. TxKnows'
    BY <1>1, <1>3, <2>2 DEF TxKnows, o
  <2>5. container'["main"] = container["main"] /\ container'[c] = container[c] /\ c' = c
    BY <1>1, <1>2, <1>6 DEF c
  <2>6. TxGoesOn'
    BY <1>3, <2>2, <2>5 DEF TxGoesOn, c
  <2>7. TxGoesBack'
    BY <2>2 DEF TxGoesBack
  <2>8. (~ late => Spared)'
    <3>1. CASE o = None
      <4>1. AtStake' = {"main"}
        BY <1>1, <2>2, <3>1 DEF AtStake
      <4> QED BY <1>1, <1>3, <1>5, <1>8, <2>1, <3>1, <4>1 DEF Spared, HasWorked
    <3>2. CASE o # None
      <4>1. AtStake' = {}
        BY <1>1, <2>2, <3>2 DEF AtStake
      <4> QED BY <1>2, <1>3, <2>5, <4>1 DEF Spared, HasWorked
    <3> QED BY <3>1, <3>2
  <2> QED BY <1>7, <2>2, <2>3, <2>4, <2>6, <2>7, <2>8, KeptUnderWay
<1>9. CASE o # None /\ container' = container /\ WebUI!Fails("restored")
  <2>1. tx'.existing = o /\ late' = (late \/ tx.removed)
    BY <1>9, <1>3 DEF WebUI!Fails, WebUITyped, TxShape
  <2>2. container'[r] = FoundStopped /\ FoundStopped # None
    BY <1>3, <1>4, <1>9
  <2> QED BY <1>1, <1>3, <1>6, <1>7, <1>9, <2>1, <2>2, FailsKeeps DEF c, r, o, HasWorked, Spared
<1> QED BY <1>8, <1>9 DEF WebUI!RemoveOld, gone, r, o

LEMMA SettleKeeps == ASSUME WebUIInv, WebUI!Settle PROVE WebUIInv'
<1> DEFINE c == WebUI!Candidate[number]
           r == WebUI!Rollback[number]
           o == tx.existing
<1>1. /\ tx.pc = "settle" /\ number \in WebUI!Transactions /\ number' = number
      /\ found' = found /\ worked' = worked
  BY DEF WebUI!Settle, WebUIInv, TxKnows, WebUI!Proceeds, WebUI!Fails, WebUI!Goes, WebUI!Ends,
     WebUI!NeedsGuidance
<1>2. /\ "main" \in WebUI!Names /\ "legacy" \in WebUI!Names /\ c \in WebUI!Names
      /\ r \in WebUI!Names /\ c # r
      /\ c # "main" /\ c # "legacy" /\ r # "main" /\ r # "legacy"
  BY <1>1, TxNames
<1> HIDE DEF c, r
<1>3. /\ WebUITyped /\ FreshNames /\ TxKnows
      /\ tx.promoted /\ tx.removed = (o # None) /\ container["main"] # None /\ container[c] = None
      /\ container["main"].works
      /\ o \in {"main", "legacy", None} /\ (o = None <=> found = None)
      /\ (~ late => Spared) /\ AtStake = IF o = None THEN {"main"} ELSE {}
      /\ found \in Containers \cup {None} /\ container \in [WebUI!Names -> Containers \cup {None}]
  BY <1>1 DEF WebUIInv, WebUITyped, TxShape, TxKnows, TxGoesOn, AtStake, c, r, o
<1>4. /\ WebUI!Switched("main", FALSE) \in [WebUI!Names -> Containers \cup {None}]
      /\ WebUI!Switched("main", FALSE)["main"] # None
      /\ WebUI!Switched("main", FALSE)["main"].works
      /\ \A n \in WebUI!Names : n # "main" => WebUI!Switched("main", FALSE)[n] = container[n]
  BY <1>2, <1>3, WhenSwitched
<1>5. /\ container' \in [WebUI!Names -> Containers \cup {None}] /\ container'["main"] # None
      /\ container'["main"].works
      /\ \A n \in WebUI!Names : n # "main" => container'[n] = container[n]
  BY <1>3, <1>4 DEF WebUI!Settle
<1>6. FreshNames'
  BY <1>1, <1>2, <1>3, <1>5, FreshNamesKept DEF c, r
<1>8. CASE WebUI!Goes("receipt") /\ WebUI!Proceeds
  <2>1. /\ tx' = [tx EXCEPT !.pc = "receipt"] /\ late' = late /\ parked' = parked
    BY <1>8 DEF WebUI!Goes, WebUI!Proceeds
  <2>2. /\ tx' \in TxShape /\ tx'.pc = "receipt" /\ tx'.existing = o /\ tx'.up = tx.up
        /\ tx'.promoted = tx.promoted /\ tx'.removed = tx.removed
    BY <1>3, <2>1, GoesTo DEF TxPlaces
  <2>3. WebUITyped'
    BY <1>1, <1>3, <1>5, <2>1, <2>2 DEF WebUITyped
  <2>4. TxKnows'
    BY <1>1, <1>3, <2>2 DEF TxKnows, o
  <2>5. container'[c] = container[c] /\ c' = c
    BY <1>1, <1>2, <1>5 DEF c
  <2>6. TxGoesOn'
    BY <1>3, <1>5, <2>2, <2>5 DEF TxGoesOn, c
  <2>7. TxGoesBack'
    BY <2>2 DEF TxGoesBack
  <2>8. (~ late => Spared)'
    <3>1. AtStake' = AtStake
      BY <1>1, <1>3, <2>2 DEF AtStake
    <3> QED BY <1>1, <1>3, <1>5, <2>1, <3>1 DEF Spared, HasWorked
  <2> QED BY <1>6, <2>2, <2>3, <2>4, <2>6, <2>7, <2>8, KeptUnderWay
<1>9. CASE o # None /\ WebUI!Fails("error")
  <2>1. late'
    BY <1>9, <1>3 DEF WebUI!Fails
  <2> QED BY <1>1, <1>3, <1>5, <1>6, <1>9, <2>1, FailsKeeps DEF c, r, o, HasWorked
<1> QED BY <1>8, <1>9 DEF WebUI!Settle, o

LEMMA WriteReceiptKeeps == ASSUME WebUIInv, WebUI!WriteReceipt PROVE WebUIInv'
<1> DEFINE c == WebUI!Candidate[number]
           r == WebUI!Rollback[number]
           o == tx.existing
<1>1. tx.pc = "receipt" /\ number \in WebUI!Transactions /\ number' = number /\ found' = found
  BY DEF WebUI!WriteReceipt, WebUIInv, TxKnows, WebUI!Proceeds, WebUI!Fails, WebUI!Goes,
     WebUI!Ends, WebUI!NeedsGuidance
<1>2. /\ "main" \in WebUI!Names /\ "legacy" \in WebUI!Names /\ c \in WebUI!Names
      /\ r \in WebUI!Names /\ c # r
      /\ c # "main" /\ c # "legacy" /\ r # "main" /\ r # "legacy"
  BY <1>1, TxNames
<1> HIDE DEF c, r
<1>3. /\ WebUITyped /\ FreshNames /\ TxKnows
      /\ tx.promoted /\ tx.removed = (o # None) /\ container["main"] # None /\ container[c] = None
      /\ container["main"].works
      /\ o \in {"main", "legacy", None} /\ (o = None <=> found = None)
      /\ (~ late => Spared) /\ AtStake = IF o = None THEN {"main"} ELSE {}
      /\ found \in Containers \cup {None} /\ container \in [WebUI!Names -> Containers \cup {None}]
  BY <1>1 DEF WebUIInv, WebUITyped, TxShape, TxKnows, TxGoesOn, AtStake, c, r, o
<1>5. container' = container
  BY DEF WebUI!WriteReceipt
<1>6. FreshNames'
  BY <1>1, <1>2, <1>3, <1>5, FreshNamesKept DEF c, r
<1>8. CASE /\ WebUI!Ends("converged") /\ worked' = TRUE
           /\ UNCHANGED <<number, found, parked, late, faults>>
  <2>1. tx' = WebUI!NoTx /\ outcome' = "converged" /\ WebUI!NoTx \in TxShape
    BY <1>8 DEF WebUI!Ends, WebUI!NoTx, TxShape, TxPlaces
  <2>2. WebUITyped'
    BY <1>1, <1>3, <1>5, <1>8, <2>1 DEF WebUITyped
  <2> QED BY <1>2, <1>3, <1>5, <1>6, <2>1, <2>2, KeptAtRest
<1>9. CASE WebUI!Fails("restored")
  <2>1. late' = (late \/ tx.removed) /\ worked' = worked
    BY <1>9 DEF WebUI!Fails
  <2>2. ~ late' /\ worked' => \E n \in WebUI!Names \ {"main", c} :
          container'[n] # None /\ container'[n].works
    BY <1>3, <1>5, <2>1 DEF Spared, HasWorked
  <2> QED BY <1>1, <1>3, <1>5, <1>6, <1>9, <2>1, <2>2, FailsKeeps DEF c, r, o, HasWorked
<1> QED BY <1>8, <1>9 DEF WebUI!WriteReceipt

LEMMA UnnameKeeps == ASSUME WebUIInv, WebUI!Unname PROVE WebUIInv'
<1> DEFINE c == WebUI!Candidate[number]
           r == WebUI!Rollback[number]
           o == tx.existing
<1>1. /\ tx.pc = "unname" /\ number \in WebUI!Transactions /\ number' = number
      /\ found' = found /\ worked' = worked
  BY DEF WebUI!Unname, WebUIInv, TxKnows, WebUI!Proceeds, WebUI!Fails, WebUI!Goes, WebUI!Ends,
     WebUI!NeedsGuidance
<1>2. /\ "main" \in WebUI!Names /\ "legacy" \in WebUI!Names /\ c \in WebUI!Names
      /\ r \in WebUI!Names /\ c # r
      /\ c # "main" /\ c # "legacy" /\ r # "main" /\ r # "legacy"
  BY <1>1, TxNames
<1> HIDE DEF c, r
<1>3. /\ WebUITyped /\ FreshNames /\ TxKnows /\ (tx.removed => late)
      /\ o \in {"main", "legacy", None} /\ (o = None <=> found = None)
      /\ tx.up = (found # None /\ found.runs)
      /\ (~ late => TxGoesBack /\ Spared) /\ AtStake = IF tx.promoted THEN {"main", c} ELSE {c}
      /\ found \in Containers \cup {None} /\ container \in [WebUI!Names -> Containers \cup {None}]
  BY <1>1 DEF WebUIInv, WebUITyped, TxShape, TxKnows, AtStake, c, r, o
<1> DEFINE stopped == IF WebUI!Demotes THEN WebUI!Switched("main", FALSE) ELSE container
<1>4. /\ stopped \in [WebUI!Names -> Containers \cup {None}]
      /\ \A n \in WebUI!Names : n # "main" => stopped[n] = container[n]
      /\ ~ WebUI!Demotes => stopped = container
  BY <1>2, <1>3, WhenSwitched DEF WebUI!Demotes
<1> HIDE DEF stopped
<1>5. /\ container' \in [WebUI!Names -> Containers \cup {None}]
      /\ \A n \in WebUI!Names : n \notin {"main", c} => container'[n] = container[n]
      /\ ~ WebUI!Demotes => container' = container
  <2>1. CASE WebUI!Demotes /\ container' = WebUI!Renamed(stopped, "main", c)
    BY <2>1, <1>2, <1>4, WhenRenamed
  <2>2. CASE container' = stopped
    BY <2>2, <1>4
  <2> QED BY <2>1, <2>2, <1>4 DEF WebUI!Unname, stopped, c
<1>6. FreshNames'
  BY <1>1, <1>2, <1>3, <1>5, FreshNamesKept DEF c, r
<1>7. worked /\ ~ late => \E n \in WebUI!Names \ {c} : container'[n] # None /\ container'[n].works
  <2>1. CASE tx.promoted
    BY <2>1, <1>3, <1>5 DEF Spared, HasWorked
  <2>2. CASE ~ tx.promoted
    BY <2>2, <1>3, <1>5 DEF Spared, HasWorked, WebUI!Demotes
  <2> QED BY <2>1, <2>2
<1>8. /\ tx' = [tx EXCEPT !.pc = "rename"] /\ late' = late /\ parked' = parked
      /\ outcome' = outcome
  BY DEF WebUI!Unname, WebUI!Goes
<1>9. /\ tx' \in TxShape /\ tx'.pc = "rename" /\ tx'.existing = o /\ tx'.up = tx.up
      /\ tx'.promoted = tx.promoted /\ tx'.removed = tx.removed
  BY <1>3, <1>8, GoesTo DEF TxPlaces
<1>10. WebUITyped'
  BY <1>1, <1>3, <1>5, <1>8, <1>9 DEF WebUITyped
<1>11. TxKnows'
  BY <1>1, <1>3, <1>8, <1>9 DEF TxKnows, o
<1>12. TxGoesOn'
  BY <1>9 DEF TxGoesOn
<1>13. (~ late => TxGoesBack)'
  <2> SUFFICES ASSUME ~ late PROVE TxGoesBack'
    BY <1>8
  <2>1. /\ outcome \in {"error", "restored"} /\ (parked => o # None)
        /\ (tx.promoted /\ o # None => parked)
        /\ o # None => IF parked THEN container[r] = FoundStopped
            ELSE WebUI!Named(o) /\ container[r] = None
    BY <1>1, <1>3 DEF TxGoesBack, r, o
  <2>2. container'[r] = container[r]
    BY <1>2, <1>5
  <2>3. o # None /\ ~ parked => container' = container
    BY <2>1, <1>5 DEF WebUI!Demotes
  <2>4. FoundStopped' = FoundStopped /\ r' = r /\ (o # None /\ ~ parked => WebUI!Named(o)')
    BY <2>1, <2>3, <1>1, <1>9 DEF FoundStopped, WebUI!Named, r
  <2> QED BY <2>1, <2>2, <2>4, <1>8, <1>9 DEF TxGoesBack, r
<1>14. (~ late => Spared)'
  <2>1. AtStake' = {c}
    BY <1>1, <1>9 DEF AtStake, c
  <2> QED BY <1>1, <1>7, <1>8, <2>1 DEF Spared, HasWorked
<1> QED BY <1>6, <1>9, <1>10, <1>11, <1>12, <1>13, <1>14, KeptUnderWay

LEMMA RenameKeeps == ASSUME WebUIInv, WebUI!Rename PROVE WebUIInv'
<1> DEFINE c == WebUI!Candidate[number]
           r == WebUI!Rollback[number]
           o == tx.existing
<1>1. /\ tx.pc = "rename" /\ number \in WebUI!Transactions /\ number' = number
      /\ found' = found /\ worked' = worked
  BY DEF WebUI!Rename, WebUIInv, TxKnows, WebUI!Proceeds, WebUI!Fails, WebUI!Goes, WebUI!Ends,
     WebUI!NeedsGuidance
<1>2. /\ "main" \in WebUI!Names /\ "legacy" \in WebUI!Names /\ c \in WebUI!Names
      /\ r \in WebUI!Names /\ c # r
      /\ c # "main" /\ c # "legacy" /\ r # "main" /\ r # "legacy"
  BY <1>1, TxNames
<1> HIDE DEF c, r
<1>3. /\ WebUITyped /\ FreshNames /\ TxKnows /\ (tx.removed => late)
      /\ o \in {"main", "legacy", None} /\ (o = None <=> found = None)
      /\ tx.up = (found # None /\ found.runs)
      /\ (~ late => TxGoesBack /\ Spared) /\ AtStake = {c}
      /\ found \in Containers \cup {None} /\ container \in [WebUI!Names -> Containers \cup {None}]
  BY <1>1 DEF WebUIInv, WebUITyped, TxShape, TxKnows, AtStake, c, r, o
<1>4. ~ late => /\ outcome \in {"error", "restored"} /\ (parked => o # None)
                /\ o # None => IF parked THEN container[r] = FoundStopped
                               ELSE WebUI!Named(o) /\ container[r] = None
                /\ worked => \E n \in WebUI!Names \ {c} :
                    container[n] # None /\ container[n].works
  BY <1>1, <1>3 DEF TxGoesBack, Spared, HasWorked, r, o
<1>5. late' = late /\ parked' = parked
  BY DEF WebUI!Rename
<1>6. CASE /\ o # None /\ container[r] # None /\ container[o] = None
           /\ container' = WebUI!Moved(r, o)
           /\ WebUI!Goes(IF tx.up THEN "restart" ELSE "clean") /\ UNCHANGED <<outcome, faults>>
  <2>1. o \in WebUI!Names /\ o # c /\ o # r /\ found \in Containers
    BY <1>2, <1>3, <1>6
  <2>2. /\ container' \in [WebUI!Names -> Containers \cup {None}]
        /\ container'[r] = None /\ container'[o] = container[r]
        /\ \A n \in WebUI!Names : n \notin {r, o} => container'[n] = container[n]
    BY <1>2, <1>3, <1>6, <2>1, WhenRenamed DEF WebUI!Moved
  <2>3. /\ tx' \in TxShape /\ tx'.pc = (IF tx.up THEN "restart" ELSE "clean")
        /\ tx'.existing = o /\ tx'.up = tx.up
        /\ tx'.promoted = tx.promoted /\ tx'.removed = tx.removed
    BY <1>3, <1>6, GoesTo DEF TxPlaces, WebUI!Goes
  <2>4. FreshNames'
    BY <1>1, <1>2, <1>3, <1>6, <2>2, FreshNamesKept DEF c, r
  <2>5. WebUITyped'
    BY <1>1, <1>3, <1>5, <2>2, <2>3 DEF WebUITyped
  <2>6. TxKnows'
    BY <1>1, <1>3, <1>5, <2>3 DEF TxKnows, o
  <2>7. TxGoesOn'
    BY <1>6, <2>2, <2>3 DEF TxGoesOn
  <2>8. (~ late => TxGoesBack)'
    <3> SUFFICES ASSUME ~ late PROVE TxGoesBack'
      BY <1>5
    <3>1. parked /\ container'[o] = FoundStopped
      BY <1>4, <1>6, <2>2
    <3>2. WebUI!Named(o)'
      BY <1>1, <2>1, <2>3, <3>1, FoundStoppedIs DEF WebUI!Named
    <3> QED BY <1>1, <1>3, <1>4, <1>5, <1>6, <2>1, <2>3, <3>1, <3>2, FoundStoppedIs DEF TxGoesBack
  <2>9. (~ late => Spared)'
    <3> SUFFICES ASSUME ~ late, worked
                 PROVE  \E n \in WebUI!Names \ {c} : container'[n] # None /\ container'[n].works
      <4>1. AtStake' = {c}
        BY <1>1, <2>3 DEF AtStake, c
      <4> QED BY <1>1, <1>5, <4>1 DEF Spared, HasWorked
    <3>1. PICK n \in WebUI!Names \ {c} : container[n] # None /\ container[n].works
      BY <1>4
    <3>2. CASE n = r
      BY <3>1, <3>2, <2>1, <2>2
    <3>3. CASE n # r
      BY <3>1, <3>3, <1>6, <2>2
    <3> QED BY <3>2, <3>3
  <2> QED BY <2>3, <2>4, <2>5, <2>6, <2>7, <2>8, <2>9, KeptUnderWay
<1>7. CASE /\ o = None \/ container[r] = None
           /\ WebUI!Goes("clean") /\ UNCHANGED <<container, outcome, faults>>
  <2>1. /\ tx' \in TxShape /\ tx'.pc = "clean" /\ tx'.existing = o /\ tx'.up = tx.up
        /\ tx'.promoted = tx.promoted /\ tx'.removed = tx.removed
    BY <1>3, <1>7, GoesTo DEF TxPlaces, WebUI!Goes
  <2>2. FreshNames'
    BY <1>1, <1>2, <1>3, <1>7, FreshNamesKept DEF c, r
  <2>3. WebUITyped'
    BY <1>1, <1>3, <1>5, <1>7, <2>1 DEF WebUITyped
  <2>4. TxKnows'
    BY <1>1, <1>3, <1>5, <2>1 DEF TxKnows, o
  <2>5. TxGoesOn'
    BY <2>1 DEF TxGoesOn
  <2>6. (~ late => TxGoesBack)'
    <3> SUFFICES ASSUME ~ late PROVE TxGoesBack'
      BY <1>5
    <3>1. o # None => ~ parked /\ WebUI!Named(o)
      BY <1>3, <1>4, <1>7, FoundStoppedIs
    <3>2. o # None => WebUI!Named(o)'
      BY <1>1, <1>7, <2>1, <3>1 DEF WebUI!Named
    <3> QED BY <1>4, <1>5, <1>7, <2>1, <3>1, <3>2 DEF TxGoesBack
  <2>7. (~ late => Spared)'
    <3>1. AtStake' = {c}
      BY <1>1, <2>1 DEF AtStake, c
    <3> QED BY <1>1, <1>4, <1>5, <1>7, <3>1 DEF Spared, HasWorked
  <2> QED BY <2>1, <2>2, <2>3, <2>4, <2>5, <2>6, <2>7, KeptUnderWay
<1>8. CASE WebUI!NeedsGuidance /\ UNCHANGED container
  <2>1. tx' = WebUI!NoTx /\ outcome' = "guided recovery" /\ WebUI!NoTx \in TxShape
    BY <1>8 DEF WebUI!NeedsGuidance, WebUI!Ends, WebUI!NoTx, TxShape, TxPlaces
  <2>2. WebUITyped'
    BY <1>1, <1>3, <1>5, <1>8, <2>1 DEF WebUITyped
  <2>3. FreshNames'
    BY <1>1, <1>2, <1>3, <1>8, FreshNamesKept DEF c, r
  <2> QED BY <1>1, <1>4, <1>5, <1>8, <2>1, <2>2, <2>3, KeptAtRest
<1> QED BY <1>6, <1>7, <1>8 DEF WebUI!Rename, r, o

LEMMA RestartKeeps == ASSUME WebUIInv, WebUI!Restart PROVE WebUIInv'
<1> DEFINE c == WebUI!Candidate[number]
           r == WebUI!Rollback[number]
           o == tx.existing
<1>1. /\ tx.pc = "restart" /\ number \in WebUI!Transactions /\ number' = number
      /\ found' = found /\ worked' = worked
  BY DEF WebUI!Restart, WebUIInv, TxKnows, WebUI!Proceeds, WebUI!Fails, WebUI!Goes, WebUI!Ends,
     WebUI!NeedsGuidance
<1>2. /\ "main" \in WebUI!Names /\ "legacy" \in WebUI!Names /\ c \in WebUI!Names
      /\ r \in WebUI!Names /\ c # r
      /\ c # "main" /\ c # "legacy" /\ r # "main" /\ r # "legacy"
  BY <1>1, TxNames
<1> HIDE DEF c, r
<1>3. /\ WebUITyped /\ FreshNames /\ TxKnows /\ (tx.removed => late)
      /\ o \in {"main", "legacy", None} /\ (o = None <=> found = None)
      /\ tx.up = (found # None /\ found.runs)
      /\ (~ late => TxGoesBack /\ Spared) /\ AtStake = {c}
      /\ found \in Containers \cup {None} /\ container \in [WebUI!Names -> Containers \cup {None}]
  BY <1>1 DEF WebUIInv, WebUITyped, TxShape, TxKnows, AtStake, c, r, o
<1>4. o \in {"main", "legacy"} /\ container[o] # None /\ o # c /\ o # r /\ o \in WebUI!Names
  BY <1>1, <1>2, <1>3 DEF WebUIInv, TxGoesOn, o
<1>5. ~ late => /\ outcome \in {"error", "restored"} /\ parked /\ tx.up /\ WebUI!Named(o)
                /\ worked => \E n \in WebUI!Names \ {c} : HasWorked(n)
  BY <1>1, <1>3 DEF TxGoesBack, Spared, o
<1>6. late' = late /\ parked' = parked
  BY DEF WebUI!Restart
<1>7. CASE container' = WebUI!Switched(o, TRUE) /\ WebUI!Goes("clean")
        /\ UNCHANGED <<outcome, faults>>
  <2>1. /\ container' \in [WebUI!Names -> Containers \cup {None}]
        /\ container'[o] # None /\ container'[o].data = container[o].data
        /\ container'[o].works = container[o].works /\ container'[o].runs = TRUE
        /\ \A n \in WebUI!Names : n # o => container'[n] = container[n]
    BY <1>3, <1>4, <1>7, WhenSwitched
  <2>2. /\ tx' \in TxShape /\ tx'.pc = "clean" /\ tx'.existing = o /\ tx'.up = tx.up
        /\ tx'.promoted = tx.promoted /\ tx'.removed = tx.removed
    BY <1>3, <1>7, GoesTo DEF TxPlaces, WebUI!Goes
  <2>3. FreshNames'
    BY <1>1, <1>3, <1>4, <2>1, FreshNamesKept DEF c, r
  <2>4. WebUITyped'
    BY <1>1, <1>3, <1>6, <2>1, <2>2 DEF WebUITyped
  <2>5. TxKnows'
    BY <1>1, <1>3, <1>6, <2>2 DEF TxKnows, o
  <2>6. TxGoesOn'
    BY <2>2 DEF TxGoesOn
  <2>7. (~ late => TxGoesBack)'
    <3> SUFFICES ASSUME ~ late PROVE TxGoesBack'
      BY <1>6
    <3>1. WebUI!Named(o)'
      BY <1>1, <1>5, <2>1, <2>2 DEF WebUI!Named
    <3>2. found.runs = TRUE
      BY <1>3, <1>5 DEF Containers
    <3> QED BY <1>1, <1>3, <1>5, <1>6, <1>7, <2>1, <2>2, <3>1, <3>2 DEF TxGoesBack
  <2>8. (~ late => Spared)'
    <3>1. AtStake' = {c}
      BY <1>1, <2>2 DEF AtStake, c
    <3> QED BY <1>1, <1>5, <1>6, <2>1, <3>1 DEF Spared, HasWorked
  <2> QED BY <2>2, <2>3, <2>4, <2>5, <2>6, <2>7, <2>8, KeptUnderWay
<1>8. CASE WebUI!NeedsGuidance /\ UNCHANGED container
  <2>1. tx' = WebUI!NoTx /\ outcome' = "guided recovery" /\ WebUI!NoTx \in TxShape
    BY <1>8 DEF WebUI!NeedsGuidance, WebUI!Ends, WebUI!NoTx, TxShape, TxPlaces
  <2>2. WebUITyped'
    BY <1>1, <1>3, <1>6, <1>8, <2>1 DEF WebUITyped
  <2>3. FreshNames'
    BY <1>1, <1>2, <1>3, <1>8, FreshNamesKept DEF c, r
  <2> QED BY <1>1, <1>5, <1>6, <1>8, <2>1, <2>2, <2>3, KeptAtRest DEF HasWorked
<1> QED BY <1>7, <1>8 DEF WebUI!Restart, o

LEMMA CleanKeeps == ASSUME WebUIInv, WebUI!Clean PROVE WebUIInv'
<1> DEFINE c == WebUI!Candidate[number]
           r == WebUI!Rollback[number]
           o == tx.existing
<1>1. /\ tx.pc = "clean" /\ number \in WebUI!Transactions /\ number' = number
      /\ found' = found /\ worked' = worked
  BY DEF WebUI!Clean, WebUIInv, TxKnows, WebUI!Proceeds, WebUI!Fails, WebUI!Goes, WebUI!Ends,
     WebUI!NeedsGuidance
<1>2. /\ "main" \in WebUI!Names /\ "legacy" \in WebUI!Names /\ c \in WebUI!Names
      /\ r \in WebUI!Names /\ c # r
      /\ c # "main" /\ c # "legacy" /\ r # "main" /\ r # "legacy"
  BY <1>1, TxNames
<1> HIDE DEF c, r
<1>3. /\ WebUITyped /\ FreshNames /\ TxKnows /\ (tx.removed => late)
      /\ o \in {"main", "legacy", None} /\ (o = None <=> found = None)
      /\ tx.up = (found # None /\ found.runs)
      /\ (~ late => TxGoesBack /\ Spared) /\ AtStake = {c}
      /\ found \in Containers \cup {None} /\ container \in [WebUI!Names -> Containers \cup {None}]
  BY <1>1 DEF WebUIInv, WebUITyped, TxShape, TxKnows, AtStake, c, r, o
<1>4. ~ late => /\ outcome \in {"error", "restored"} /\ (parked => o # None)
                /\ o # None => WebUI!Named(o) /\ (parked => container[o].runs = found.runs)
                /\ worked => \E n \in WebUI!Names \ {c} : HasWorked(n)
  BY <1>1, <1>3 DEF TxGoesBack, Spared, o
<1>5. /\ container' \in [WebUI!Names -> Containers \cup {None}]
      /\ \A n \in WebUI!Names : n # c => container'[n] = container[n]
  BY <1>2, <1>3, WhenRemoved DEF WebUI!Clean, c
<1>6. late' = late /\ parked' = parked /\ tx' = WebUI!NoTx /\ outcome' = outcome
  BY DEF WebUI!Clean, WebUI!Ends
<1>7. WebUITyped'
  <2>1. WebUI!NoTx \in TxShape
    BY DEF WebUI!NoTx, TxShape, TxPlaces
  <2> QED BY <1>1, <1>3, <1>5, <1>6, <2>1 DEF WebUITyped
<1>8. FreshNames'
  BY <1>1, <1>2, <1>3, <1>5, FreshNamesKept DEF c, r
<1>9. ~ late' => /\ found' # None => \E n \in {"main", "legacy"} : WebUI!Named(n)'
                 /\ parked' => WebUI!BackInPlace'
  <2> SUFFICES ASSUME ~ late, found # None
               PROVE  \E n \in {"main", "legacy"} :
                   WebUI!Named(n)' /\ (parked => container'[n].runs = found.runs)
    BY <1>1, <1>6 DEF WebUI!BackInPlace
  <2>1. o \in {"main", "legacy"} /\ WebUI!Named(o) /\ (parked => container[o].runs = found.runs)
    BY <1>3, <1>4
  <2>2. container'[o] = container[o]
    BY <2>1, <1>2, <1>5
  <2>3. \A n \in {"main", "legacy"} : n = o => WebUI!Named(n)'
    BY <2>1, <2>2, <1>1 DEF WebUI!Named
  <2> QED BY <2>1, <2>2, <2>3
<1> QED BY <1>1, <1>4, <1>5, <1>6, <1>7, <1>8, <1>9, KeptAtRest DEF HasWorked

LEMMA TxDiesKeeps == ASSUME WebUIInv, WebUI!Dies PROVE WebUIInv'
<1>1. /\ tx' = WebUI!NoTx /\ outcome' = "dead"
      /\ UNCHANGED <<container, number, found, worked, parked, late>>
  BY DEF WebUI!Dies, WebUI!Ends
<1>2. WebUI!NoTx \in TxShape
  BY DEF WebUI!NoTx, TxShape, TxPlaces
<1>3. WebUITyped' /\ FreshNames'
  BY <1>1, <1>2 DEF WebUITyped, FreshNames, WebUIInv
<1>4. ~ late /\ worked => \E n \in WebUI!Names : HasWorked(n)
  BY DEF WebUIInv, Spared
<1> QED BY <1>1, <1>3, <1>4, KeptAtRest DEF HasWorked

LEMMA UserStopsKeeps == ASSUME WebUIInv, WebUI!UserStops PROVE WebUIInv'
<1>1. /\ tx' = WebUI!NoTx /\ outcome' = None /\ UNCHANGED <<number, found, worked, parked, late>>
      /\ WebUI!Existing # None /\ container' = WebUI!Switched(WebUI!Existing, FALSE)
  BY DEF WebUI!UserStops, WebUIInv, TxKnows
<1>2. /\ WebUI!Existing \in {"main", "legacy"} /\ WebUI!Existing \in WebUI!Names
      /\ container[WebUI!Existing] # None
      /\ WebUITyped
  BY <1>1, NamesApart DEF WebUI!Existing, WebUIInv
<1> DEFINE e == WebUI!Existing
<1> HIDE DEF e
<1>3. /\ container' \in [WebUI!Names -> Containers \cup {None}]
      /\ container'[e] # None /\ container'[e].works = container[e].works
      /\ \A n \in WebUI!Names : n # e => container'[n] = container[n]
      /\ e \in {"main", "legacy"} /\ e \in WebUI!Names
  BY <1>1, <1>2, WhenSwitched DEF e
<1>4. WebUI!NoTx \in TxShape
  BY DEF WebUI!NoTx, TxShape, TxPlaces
<1>5. WebUITyped'
  BY <1>1, <1>2, <1>3, <1>4 DEF WebUITyped
<1>6. FreshNames'
  BY <1>1, <1>3, NamesApart DEF FreshNames, WebUIInv
<1>7. ~ late /\ worked => \E n \in WebUI!Names : container'[n] # None /\ container'[n].works
  <2>1. ~ late /\ worked => \E n \in WebUI!Names : HasWorked(n)
    BY DEF WebUIInv, Spared
  <2> QED BY <2>1, <1>3 DEF HasWorked
<1> QED BY <1>1, <1>5, <1>6, <1>7, WebUIAssumption, KeptAtRest

LEMMA BeginKeeps == ASSUME WebUIInv, WebUI!Begin PROVE WebUIInv'
<1> DEFINE o == WebUI!Existing
           c == WebUI!Candidate[number + 1]
           r == WebUI!Rollback[number + 1]
<1>1. /\ tx = WebUI!NoTx /\ number + 1 \in WebUI!Transactions /\ number' = number + 1
      /\ number \in 0..3
      /\ WebUITyped /\ FreshNames /\ container \in [WebUI!Names -> Containers \cup {None}]
      /\ UNCHANGED <<worked, parked, late>>
  <2>1. WebUI!Transactions = 1..3
    BY DEF WebUI!Transactions
  <2>2. /\ tx.pc = "idle" /\ number + 1 \in WebUI!Transactions /\ number' = number + 1
        /\ UNCHANGED <<worked, parked, late>>
    BY DEF WebUI!Begin
  <2>3. WebUITyped /\ FreshNames /\ tx = WebUI!NoTx
    BY <2>2 DEF WebUIInv, TxKnows
  <2>4. number \in 0..3 /\ container \in [WebUI!Names -> Containers \cup {None}]
    BY <2>1, <2>3 DEF WebUITyped
  <2> QED BY <2>1, <2>2, <2>3, <2>4
<1>2. /\ "main" \in WebUI!Names /\ "legacy" \in WebUI!Names /\ c \in WebUI!Names
      /\ r \in WebUI!Names /\ c # r
      /\ c # "main" /\ c # "legacy" /\ r # "main" /\ r # "legacy"
      /\ container[c] = None /\ container[r] = None
  BY <1>1, NamesApart DEF FreshNames
<1>3. \A t \in WebUI!Transactions : t > number + 1 =>
         /\ WebUI!Candidate[t] \in WebUI!Names /\ WebUI!Rollback[t] \in WebUI!Names
         /\ WebUI!Candidate[t] # c /\ WebUI!Rollback[t] # c
         /\ container[WebUI!Candidate[t]] = None /\ container[WebUI!Rollback[t]] = None
  BY <1>1, NamesApart DEF FreshNames, WebUI!Transactions
<1>4. /\ o \in {"main", "legacy", None} /\ (o # "main" => container["main"] = None)
      /\ o # None => container[o] # None /\ container[o] \in Containers /\ o \in WebUI!Names
      /\ found' = IF o = None THEN None ELSE container[o]
  BY <1>1, <1>2, WebUIAssumption DEF WebUI!Existing, WebUI!Begin
<1>5. ~ late /\ worked => \E n \in WebUI!Names : HasWorked(n)
  BY DEF WebUIInv, Spared
<1>6. CASE outcome' = "unchanged" /\ UNCHANGED <<tx, container>>
  <2>1. WebUI!NoTx \in TxShape
    BY DEF WebUI!NoTx, TxShape, TxPlaces
  <2>2. WebUITyped'
    BY <1>1, <1>4, <1>6, <2>1 DEF WebUITyped, WebUI!Transactions
  <2>3. FreshNames'
    BY <1>1, <1>3, <1>6 DEF FreshNames
  <2> QED BY <1>1, <1>5, <1>6, <2>2, <2>3, KeptAtRest DEF HasWorked
<1>7. CASE /\ tx' = [WebUI!NoTx EXCEPT !.pc = "stop", !.existing = o, !.up = o # None
               /\ container[o].runs]
           /\ container' = WebUI!Prepared(o, number + 1)
  <2> DEFINE new == [data |-> IF o = None THEN "volume" ELSE container[o].data,
                     runs |-> FALSE, works |-> FALSE]
  <2>1. new \in Containers /\ new # None /\ ~ new.works
    <3>1. new \in Containers
      BY <1>4 DEF Containers, WebUI!Datas
    <3> QED BY <3>1, WebUIAssumption DEF Containers
  <2>2. container' = [container EXCEPT ![c] = new]
    BY <1>7 DEF WebUI!Prepared
  <2> HIDE DEF o, c, r, new
  <2>3. /\ container' \in [WebUI!Names -> Containers \cup {None}]
        /\ container'[c] # None /\ ~ container'[c].works
        /\ \A n \in WebUI!Names : n # c => container'[n] = container[n]
    BY <1>1, <1>2, <2>1, <2>2
  <2>4. /\ tx'.pc = "stop" /\ tx'.existing = o
        /\ tx'.up = (o # None /\ container[o].runs) /\ ~ tx'.promoted /\ ~ tx'.removed
        /\ tx' \in TxShape
    BY <1>4, <1>7 DEF WebUI!NoTx, TxShape, TxPlaces, Containers
  <2>5. WebUITyped'
    BY <1>1, <1>4, <2>3, <2>4 DEF WebUITyped, WebUI!Transactions
  <2>6. FreshNames'
    BY <1>1, <1>3, <2>3 DEF FreshNames
  <2>7. TxKnows'
    BY <1>1, <1>4, <2>4 DEF TxKnows
  <2>8. TxGoesOn'
    <3>1. WebUI!Candidate[number]' = c /\ WebUI!Rollback[number]' = r
      BY <1>1 DEF c, r
    <3>2. container'[r] = None /\ (o # "main" => container'["main"] = None)
          /\ (o # None => container'[o] = found')
      BY <1>2, <1>4, <2>3
    <3> QED BY <2>3, <2>4, <3>1, <3>2 DEF TxGoesOn, Untried
  <2>9. TxGoesBack'
    BY <2>4 DEF TxGoesBack
  <2>10. (~ late => Spared)'
    <3>1. AtStake' = {c}
      BY <1>1, <2>4 DEF AtStake, c
    <3> QED BY <1>1, <1>2, <1>5, <2>3, <3>1 DEF Spared, HasWorked
  <2> QED BY <2>4, <2>5, <2>6, <2>7, <2>8, <2>9, <2>10, KeptUnderWay
<1> QED BY <1>6, <1>7 DEF WebUI!Begin

LEMMA WebUIInduction == WebUIInv /\ [WebUI!Next]_(WebUI!webuiVars) => WebUIInv'
<1> SUFFICES ASSUME WebUIInv, [WebUI!Next]_(WebUI!webuiVars) PROVE WebUIInv'
  OBVIOUS
<1>1. CASE UNCHANGED WebUI!webuiVars
  BY <1>1 DEF WebUI!webuiVars, WebUIInv, WebUITyped, FreshNames, TxKnows, TxGoesOn, TxGoesBack,
     Spared,
     AtStake, HasWorked, Untried, FoundStopped, WebUI!Named, WebUI!OldSurvives,
     WebUI!OneSurvives, WebUI!BackInPlace
<1> QED BY <1>1, BeginKeeps, StopOldKeeps, ParkKeeps, PromoteKeeps, StartNewKeeps, VerifyKeeps,
           RemoveOldKeeps, SettleKeeps, WriteReceiptKeeps, UnnameKeeps, RenameKeeps, RestartKeeps,
           CleanKeeps, TxDiesKeeps, UserStopsKeeps DEF WebUI!Next

THEOREM OldAlwaysSurvives == WebUI!WebUISpec => []WebUI!OldSurvives
<1>1. WebUIInv => WebUI!OldSurvives
  BY DEF WebUIInv
<1> QED BY <1>1, WebUIInitially, WebUIInduction, PTL DEF WebUI!WebUISpec

-----------------------------------------------------------------------------
(* The delivery of a release                                               *)
DeliveryTyped ==
    /\ DOMAIN shelf = Delivery!Digests /\ DOMAIN staged = Delivery!Kept
    /\ imports \subseteq Delivery!Digests
    /\ DOMAIN installed = {"current", "previous", "generation", "pending"}
    /\ installed.current \in Delivery!Genuine
    /\ installed.previous \in Delivery!Genuine \cup {None}
    /\ importer \in Delivery!Genuine \cup {None}
    /\ DOMAIN page = {"apply", "rollback", "drawer", "late"}

\* No process runs on a schema that the profile has not reached.
SchemasKnown ==
    /\ profile = Delivery!Schema /\ profile \in Nat
    /\ published \subseteq Delivery!Genuine /\ \A d \in published :
        Delivery!TargetOf(d) <= profile

\* A tree is on the shelf under its own digest, which is that of a verified release.
ShelfKnown ==
    /\ \A d \in Delivery!Digests :
          shelf[d] # None => d \in Delivery!Genuine /\ shelf[d] \in DOMAIN Delivery!Catalogue
              /\ Delivery!Digest(shelf[d]) = d
    /\ \A d \in imports : shelf[d] # None
    /\ importer # None => shelf[importer] # None

\* An open confirmation is of the preview that is shown.
PageKnown ==
    /\ page.apply # None => page.apply.mode = "APPLY" /\ page.apply.digest \in Delivery!Genuine
    /\ page.rollback # None =>
        page.rollback.mode = "ROLLBACK" /\ page.rollback.digest \in Delivery!Genuine
    /\ page.late # None =>
        page.late.mode \in {"APPLY", "ROLLBACK"} /\ page.late.digest \in Delivery!Genuine
    /\ page.drawer # None =>
          page.drawer = IF page.drawer.mode = "APPLY" THEN page.apply ELSE page.rollback

\* From its verification on, an update is alone with the installation it was checked for.
UpdateKnown ==
    update # None =>
       /\ DOMAIN update = {"step", "request", "agreed", "wheel"}
       /\ update.step \in {"queued", "verified", "held", "staged"}
       /\ update.request = update.agreed /\ update.request.digest \in Delivery!Genuine
       /\ update.step # "queued" => installed.pending = "gui"
       /\ update.step \in {"held", "staged"} =>
             Delivery!SourceOf(update.request.digest) <= profile
       /\ update.step = "held" =>
             /\ update.wheel = Delivery!Catalogue[update.request.digest].files.wheel
             /\ update.request.mode = "ROLLBACK" => staged[update.request.digest] # None
       /\ update.step = "staged" => staged[update.request.digest] # None

DeliveryInv == DeliveryTyped /\ SchemasKnown /\ ShelfKnown /\ PageKnown /\ UpdateKnown
    /\ Delivery!SlotHoldsItsRelease

-----------------------------------------------------------------------------
(* The catalogue                                                           *)

\* The verifier accepts nothing but a genuine release, whatever its one wrong document is.
LEMMA MixedRefused ==
    ASSUME NEW t \in Delivery!Mixed \cup {"swapped", "forged"}, NEW schema
    PROVE  ~ Delivery!Verified(Delivery!Catalogue[t], schema)
<1> USE DEF Delivery!Verified, Delivery!MembersMatch, Delivery!SignatureHolds,
        Delivery!InventoryAgrees, Delivery!DecisionAgrees, Delivery!ManifestAgrees,
        Delivery!ChecksumsAgree, Delivery!SbomAgrees
<1>1. t \in DOMAIN Delivery!Catalogue
  BY DEF Delivery!Catalogue, Delivery!Mixed
<1>2. CASE t = "ineligible"
  BY <1>2 DEF Delivery!Catalogue, Delivery!Mixed, Delivery!Genuine, Delivery!Signed,
     Delivery!Files
<1>3. CASE t = "borrowed"
  BY <1>3 DEF Delivery!Catalogue, Delivery!Mixed, Delivery!Genuine, Delivery!Signed,
     Delivery!Files
<1>4. CASE t = "unlisted"
  BY <1>4 DEF Delivery!Catalogue, Delivery!Mixed, Delivery!Genuine, Delivery!Signed,
     Delivery!Files
<1>5. CASE t = "stale"
  BY <1>5 DEF Delivery!Catalogue, Delivery!Mixed, Delivery!Genuine, Delivery!Signed,
     Delivery!Files
<1>6. CASE t = "miscounted"
  BY <1>6 DEF Delivery!Catalogue, Delivery!Mixed, Delivery!Genuine, Delivery!Signed,
     Delivery!Files
<1>7. CASE t = "relabelled"
  <2> DEFINE second == Delivery!Files("2", "w2", 1, 2)
             relabelled == [second EXCEPT !.sbom.subject = "w1", !.manifest.sbom.subject = "w1"]
  <2>1. Delivery!Catalogue[t].files = relabelled
    BY <1>7 DEF Delivery!Catalogue, Delivery!Mixed, Delivery!Genuine, Delivery!Signed
  <2>2. /\ second.sbom = [version |-> "2", subject |-> "w2"]
        /\ second.inventory = [wheel |-> "w2"]
        /\ DOMAIN second = {"decision", "manifest", "inventory", "checksums", "sbom",
            "compatibility", "wheel"}
    BY DEF Delivery!Files
  <2> HIDE DEF second
  <2>3. relabelled.sbom.subject = "w1" /\ relabelled.inventory.wheel = "w2"
    BY <2>2
  <2> HIDE DEF relabelled
  <2> QED BY <2>1, <2>3
<1>8. CASE t = "swapped"
  <2> DEFINE signed == Delivery!Signed("2", Delivery!Files("2", "w2", 1, 2))
             swapped == [signed EXCEPT !.files.wheel = "w1"]
  <2>1. Delivery!Catalogue[t] = swapped
    BY <1>8 DEF Delivery!Catalogue, Delivery!Mixed, Delivery!Genuine
  <2>2. /\ signed.members.wheel = "w2"
        /\ DOMAIN signed = {"version", "members", "files", "signed"}
        /\ "wheel" \in DOMAIN signed.files
    BY DEF Delivery!Signed, Delivery!Files
  <2> HIDE DEF signed
  <2>3. swapped.members.wheel = "w2" /\ swapped.files.wheel = "w1"
    BY <2>2
  <2> HIDE DEF swapped
  <2> QED BY <2>1, <2>3
<1>9. CASE t = "forged"
  BY <1>9 DEF Delivery!Catalogue, Delivery!Mixed, Delivery!Genuine, Delivery!Signed,
     Delivery!Files
<1> QED BY <1>2, <1>3, <1>4, <1>5, <1>6, <1>7, <1>8, <1>9 DEF Delivery!Mixed

LEMMA GenuineReleases ==
    ASSUME NEW t \in Delivery!Genuine
    PROVE  /\ t \in DOMAIN Delivery!Catalogue /\ Delivery!Digest(t) = t
           /\ Delivery!Catalogue[t].files.inventory.wheel = Delivery!Catalogue[t].files.wheel
           /\ Delivery!Catalogue[t].files.wheel # None /\ t # None
           /\ Delivery!TargetOf(t) \in Nat
<1> USE DEF Delivery!TargetOf
<1>1. t \in DOMAIN Delivery!Catalogue /\ Delivery!Digest(t) = t
  BY DEF Delivery!Catalogue, Delivery!Digest
<1>2. Delivery!Catalogue[t].files.wheel # None /\ t # None
  BY <1>1, DeliveryAssumption
<1>3. CASE t = "zero"
  BY <1>1, <1>2, <1>3 DEF Delivery!Catalogue, Delivery!Genuine, Delivery!Signed, Delivery!Files
<1>4. CASE t = "first"
  BY <1>1, <1>2, <1>4 DEF Delivery!Catalogue, Delivery!Genuine, Delivery!Signed, Delivery!Files
<1>5. CASE t = "second"
  BY <1>1, <1>2, <1>5 DEF Delivery!Catalogue, Delivery!Genuine, Delivery!Signed, Delivery!Files
<1>6. CASE t = "twin"
  BY <1>1, <1>2, <1>6 DEF Delivery!Catalogue, Delivery!Genuine, Delivery!Signed, Delivery!Files
<1>7. CASE t = "later"
  BY <1>1, <1>2, <1>7 DEF Delivery!Catalogue, Delivery!Genuine, Delivery!Signed, Delivery!Files
<1> QED BY <1>3, <1>4, <1>5, <1>6, <1>7 DEF Delivery!Genuine

LEMMA OnlyGenuineVerified ==
    ASSUME NEW t \in DOMAIN Delivery!Catalogue, NEW schema,
        Delivery!Verified(Delivery!Catalogue[t], schema)
    PROVE  t \in Delivery!Genuine /\ Delivery!SourceOf(t) = schema
<1> USE DEF Delivery!SourceOf
<1>1. DOMAIN Delivery!Catalogue = Delivery!Genuine \cup Delivery!Mixed \cup {"swapped", "forged"}
  BY DEF Delivery!Catalogue
<1> QED BY <1>1, MixedRefused DEF Delivery!Verified, Delivery!SchemaFits

-----------------------------------------------------------------------------

\* What is verified on the shelf is the release the shelf has it under.
LEMMA ResolvedIs ==
    ASSUME ShelfKnown, NEW d \in Delivery!Digests, NEW schema, Delivery!Resolved(d, schema)
    PROVE  /\ shelf[d] = d /\ d \in Delivery!Genuine /\ Delivery!SourceOf(d) = schema
<1>1. /\ shelf[d] \in DOMAIN Delivery!Catalogue /\ Delivery!Digest(shelf[d]) = d
      /\ Delivery!VerifiedTree(shelf[d], schema)
      /\ d \in Delivery!Genuine
  BY DEF ShelfKnown, Delivery!Resolved
<1>2. shelf[d] \in Delivery!Genuine /\ Delivery!SourceOf(shelf[d]) = schema
  BY <1>1, OnlyGenuineVerified DEF Delivery!VerifiedTree
<1>3. shelf[d] = d
  BY <1>1, <1>2, GenuineReleases
<1> QED BY <1>1, <1>2, <1>3

\* A preview is of a release that is verified when it is computed.
LEMMA PreviewsResolved ==
    ASSUME DeliveryInv, NEW schema, NEW preview \in Delivery!Previews(schema), preview # None
    PROVE  /\ preview.digest \in Delivery!Genuine /\ Delivery!Resolved(preview.digest, schema)
           /\ preview.mode \in {"APPLY", "ROLLBACK"}
<1>1. CASE preview = Delivery!RollbackPreview(schema)
  BY <1>1 DEF Delivery!RollbackPreview, Delivery!Previewed, DeliveryInv, DeliveryTyped
<1>2. ASSUME NEW v, preview = Delivery!ApplyPreview(v, schema)
      PROVE  /\ preview.digest \in Delivery!Genuine /\ Delivery!Resolved(preview.digest, schema)
             /\ preview.mode \in {"APPLY", "ROLLBACK"}
  <2> DEFINE offers == Delivery!Candidates(v, schema)
             i == CHOOSE i \in offers : \A j \in offers : i <= j
  <2>1. offers # {} /\ preview = Delivery!Previewed("APPLY", Delivery!Sorted[i])
    BY <1>2 DEF Delivery!ApplyPreview
  <2>2. offers \subseteq 1..5 /\ \A j \in offers : Delivery!Resolved(Delivery!Sorted[j], schema)
    BY DEF Delivery!Candidates, Delivery!Sorted
  <2> HIDE DEF offers
  <2>3. \E k \in offers : \A j \in offers : k <= j
    <3>1. \A j \in offers : j = 1 \/ j = 2 \/ j = 3 \/ j = 4 \/ j = 5
      BY <2>2
    <3>2. CASE 1 \in offers
      BY <3>1, <3>2
    <3>3. CASE 1 \notin offers /\ 2 \in offers
      BY <3>1, <3>3
    <3>4. CASE 1 \notin offers /\ 2 \notin offers /\ 3 \in offers
      BY <3>1, <3>4
    <3>5. CASE 1 \notin offers /\ 2 \notin offers /\ 3 \notin offers
      <4>1. CASE 4 \in offers
        BY <3>1, <3>5, <4>1
      <4>2. CASE 4 \notin offers
        <5>1. \A j \in offers : j = 5
          BY <3>1, <3>5, <4>2
        <5>2. PICK k \in offers : k = 5
          BY <2>1, <5>1
        <5> QED BY <5>1, <5>2
      <4> QED BY <4>1, <4>2
    <3> QED BY <3>2, <3>3, <3>4, <3>5
  <2>4. i \in offers
    BY <2>3
  <2> HIDE DEF i
  <2>5. Delivery!Sorted[i] \in Delivery!Genuine
    <3>1. i = 1 \/ i = 2 \/ i = 3 \/ i = 4 \/ i = 5
      BY <2>2, <2>4
    <3> QED BY <3>1 DEF Delivery!Sorted, Delivery!Genuine
  <2> QED BY <2>1, <2>2, <2>4, <2>5 DEF Delivery!Previewed
<1> QED BY <1>1, <1>2 DEF Delivery!Previews

-----------------------------------------------------------------------------
(* The actions                                                             *)

LEMMA ImportKeeps ==
    ASSUME DeliveryInv, Delivery!AlreadyImported \/ Delivery!RenameStage
        \/ Delivery!RecordImport \/ Delivery!ImporterDies \/ Delivery!Damage
    PROVE  DeliveryInv'
<1>1. UNCHANGED <<Delivery!slots, code, staged, page, update>>
  BY DEF Delivery!AlreadyImported, Delivery!RenameStage, Delivery!RecordImport,
     Delivery!ImporterDies, Delivery!Damage
<1>2. PageKnown' /\ UpdateKnown' /\ Delivery!SlotHoldsItsRelease' /\ SchemasKnown'
  BY <1>1 DEF DeliveryInv, PageKnown, UpdateKnown, Delivery!SlotHoldsItsRelease, SchemasKnown,
     Delivery!Schema, Delivery!slots
<1>3. DeliveryTyped /\ ShelfKnown
  BY DEF DeliveryInv
<1>5. CASE Delivery!AlreadyImported
  <2>1. PICK t \in DOMAIN Delivery!Catalogue :
          /\ shelf[Delivery!Digest(t)] # None /\ \E schema \in Delivery!Codes :
              Delivery!VerifiedTree(t, schema)
          /\ imports' = imports \cup {Delivery!Digest(t)}
    BY <1>5 DEF Delivery!AlreadyImported
  <2>2. t \in Delivery!Genuine
    BY <2>1, OnlyGenuineVerified DEF Delivery!VerifiedTree
  <2>3. Delivery!Digest(t) \in Delivery!Digests
    BY <2>2, GenuineReleases DEF Delivery!Digests
  <2>4. importer' = importer /\ shelf' = shelf
    BY <1>5 DEF Delivery!AlreadyImported
  <2> QED BY <1>1, <1>2, <1>3, <2>1, <2>3, <2>4 DEF DeliveryInv, DeliveryTyped, ShelfKnown,
        Delivery!slots
<1>6. CASE Delivery!RenameStage
  <2>1. PICK t \in DOMAIN Delivery!Catalogue :
          /\ \E schema \in Delivery!Codes : Delivery!VerifiedTree(t, schema)
          /\ shelf' = [shelf EXCEPT ![Delivery!Digest(t)] = t] /\ importer' = t
    BY <1>6 DEF Delivery!RenameStage
  <2>2. /\ t \in Delivery!Genuine /\ Delivery!Digest(t) = t /\ t # None /\ t \in Delivery!Digests
    BY <2>1, OnlyGenuineVerified, GenuineReleases DEF Delivery!VerifiedTree, Delivery!Digests
  <2>3. shelf' = [shelf EXCEPT ![t] = t] /\ imports' = imports
    BY <1>6, <2>1, <2>2 DEF Delivery!RenameStage
  <2> QED BY <1>1, <1>2, <1>3, <2>1, <2>2, <2>3 DEF DeliveryInv, DeliveryTyped, ShelfKnown,
        Delivery!slots
<1>7. CASE Delivery!RecordImport
  <2>1. /\ importer \in Delivery!Genuine /\ importer' = None /\ shelf' = shelf
        /\ imports' = imports \cup {Delivery!Digest(importer)} /\ shelf[importer] # None
    BY <1>3, <1>7 DEF Delivery!RecordImport, ShelfKnown, DeliveryTyped
  <2>2. Delivery!Digest(importer) = importer /\ importer \in Delivery!Digests
    BY <2>1, GenuineReleases DEF Delivery!Digests
  <2> QED BY <1>1, <1>2, <1>3, <2>1, <2>2 DEF DeliveryInv, DeliveryTyped, ShelfKnown,
        Delivery!slots
<1>8. CASE Delivery!ImporterDies
  <2>1. importer' = None /\ shelf' = shelf /\ imports' = imports
    BY <1>8 DEF Delivery!ImporterDies
  <2> QED BY <1>1, <1>2, <1>3, <2>1 DEF DeliveryInv, DeliveryTyped, ShelfKnown, Delivery!slots
<1>9. CASE Delivery!Damage
  <2>1. PICK t \in DOMAIN Delivery!Catalogue :
           /\ shelf[Delivery!Digest(t)] # None
           /\ shelf' = [shelf EXCEPT ![Delivery!Digest(t)] = t]
    BY <1>9 DEF Delivery!Damage
  <2>4. Delivery!Digest(t) \in Delivery!Digests
    BY DEF Delivery!Digest, Delivery!Digests, Delivery!Genuine
  <2>2. importer' = importer /\ imports' = imports
    BY <1>9 DEF Delivery!Damage
  <2>3. t # None
    BY DeliveryAssumption
  <2> QED BY <1>1, <1>2, <1>3, <2>1, <2>2, <2>3, <2>4 DEF DeliveryInv, DeliveryTyped,
        ShelfKnown, Delivery!slots
<1> QED BY <1>5, <1>6, <1>7, <1>8, <1>9

LEMMA PageKeeps ==
    ASSUME DeliveryInv, Delivery!RequestPreview \/ Delivery!ShowPreview
        \/ Delivery!AskConfirmation \/ Delivery!DropPreviews
    PROVE  DeliveryInv'
<1>1. UNCHANGED <<importer, shelf, imports, Delivery!slots, code, staged, update>>
  BY DEF Delivery!RequestPreview, Delivery!ShowPreview, Delivery!AskConfirmation,
     Delivery!DropPreviews
<1>2. DeliveryTyped /\ PageKnown
  BY DEF DeliveryInv
<1>3. ShelfKnown' /\ UpdateKnown' /\ Delivery!SlotHoldsItsRelease' /\ SchemasKnown'
  BY <1>1 DEF DeliveryInv, ShelfKnown, UpdateKnown, Delivery!SlotHoldsItsRelease, SchemasKnown,
     Delivery!Schema, Delivery!slots
<1>4. DeliveryTyped'
  BY <1>1, <1>2 DEF DeliveryTyped, Delivery!RequestPreview, Delivery!ShowPreview,
     Delivery!AskConfirmation, Delivery!DropPreviews, Delivery!EmptyPage, Delivery!slots
<1>5. CASE Delivery!RequestPreview
  <2>1. PICK preview \in Delivery!Previews(code) \ {None} : page' = [page EXCEPT !.late = preview]
    BY <1>5 DEF Delivery!RequestPreview
  <2>2. preview.mode \in {"APPLY", "ROLLBACK"} /\ preview.digest \in Delivery!Genuine
    BY <2>1, PreviewsResolved
  <2>3. /\ page'.apply = page.apply /\ page'.rollback = page.rollback
        /\ page'.drawer = page.drawer
        /\ page'.late = preview
    BY <1>2, <2>1 DEF DeliveryTyped
  <2>4. PageKnown'
    BY <1>2, <2>2, <2>3 DEF PageKnown
  <2> QED BY <1>3, <1>4, <2>4 DEF DeliveryInv
<1>6. CASE Delivery!ShowPreview
  <2>1. /\ page'.apply = IF page.late.mode = "APPLY" THEN page.late ELSE page.apply
        /\ page'.rollback = IF page.late.mode = "APPLY" THEN page.rollback ELSE page.late
        /\ page'.drawer = None /\ page'.late = None /\ page.late # None
    BY <1>6 DEF Delivery!ShowPreview
  <2>2. PageKnown'
    BY <1>2, <2>1 DEF PageKnown
  <2> QED BY <1>3, <1>4, <2>2 DEF DeliveryInv
<1>7. CASE Delivery!AskConfirmation
  <2>1. PICK preview \in {page.apply, page.rollback} \ {None} :
            page' = [page EXCEPT !.drawer = preview]
    BY <1>7 DEF Delivery!AskConfirmation
  <2>2. /\ page'.apply = page.apply /\ page'.rollback = page.rollback /\ page'.drawer = preview
        /\ page'.late = page.late
    BY <1>2, <2>1 DEF DeliveryTyped
  <2>3. PageKnown'
    BY <1>2, <2>1, <2>2 DEF PageKnown
  <2> QED BY <1>3, <1>4, <2>3 DEF DeliveryInv
<1>8. CASE Delivery!DropPreviews
  <2>1. PageKnown'
    BY <1>8 DEF Delivery!DropPreviews, Delivery!EmptyPage, PageKnown
  <2> QED BY <1>3, <1>4, <2>1 DEF DeliveryInv
<1> QED BY <1>5, <1>6, <1>7, <1>8

\* The command computes the preview anew and takes the one that the user confirmed.
LEMMA ConfirmKeeps ==
    ASSUME DeliveryInv, Delivery!Confirm
    PROVE  DeliveryInv'
<1> DEFINE preview == IF page.drawer.mode = "APPLY" THEN page.apply ELSE page.rollback
<1>1. /\ page.drawer # None /\ update' = Delivery!Queued(preview, page.drawer)
      /\ page' = Delivery!EmptyPage
      /\ UNCHANGED <<importer, shelf, imports, Delivery!slots, code, staged>>
  BY DEF Delivery!Confirm
<1>2. DeliveryTyped /\ PageKnown
  BY DEF DeliveryInv
<1>3. DeliveryTyped' /\ PageKnown'
  BY <1>1, <1>2 DEF DeliveryTyped, PageKnown, Delivery!EmptyPage, Delivery!slots
<1>4. ShelfKnown' /\ Delivery!SlotHoldsItsRelease' /\ SchemasKnown'
  BY <1>1 DEF DeliveryInv, ShelfKnown, Delivery!SlotHoldsItsRelease, SchemasKnown,
     Delivery!Schema, Delivery!slots
<1>5. page.drawer = preview /\ (preview # None => preview.digest \in Delivery!Genuine)
  BY <1>1, <1>2 DEF PageKnown
<1> HIDE DEF preview
<1>6. update' # None =>
         /\ update' = [step |-> "queued", request |-> preview, agreed |-> preview, wheel |-> None]
         /\ preview.digest \in Delivery!Genuine
  BY <1>1, <1>5 DEF Delivery!Queued
<1>7. UpdateKnown'
  BY <1>6 DEF UpdateKnown
<1> QED BY <1>3, <1>4, <1>7 DEF DeliveryInv

LEMMA VerifyReleaseKeeps ==
    ASSUME DeliveryInv, Delivery!VerifyRelease
    PROVE  DeliveryInv'
<1>1. /\ update # None /\ update.step = "queued"
      /\ UNCHANGED <<importer, shelf, imports, published, profile, code, staged, page>>
      /\ \/ /\ installed' = [installed EXCEPT !.pending = "gui"]
            /\ update' = [update EXCEPT !.step = "verified"]
         \/ update' = None /\ installed' = installed
  BY DEF Delivery!VerifyRelease
<1>2. DeliveryTyped /\ UpdateKnown
  BY DEF DeliveryInv
<1>3. PageKnown' /\ ShelfKnown' /\ Delivery!SlotHoldsItsRelease'
  BY <1>1 DEF DeliveryInv, PageKnown, ShelfKnown, Delivery!SlotHoldsItsRelease
<1>4. DeliveryTyped' /\ SchemasKnown'
  <2>1. installed'.current = installed.current
    BY <1>1, <1>2 DEF DeliveryTyped
  <2> QED BY <1>1, <1>2, <2>1 DEF DeliveryInv, DeliveryTyped, SchemasKnown, Delivery!Schema
<1>5. UpdateKnown'
  BY <1>1, <1>2 DEF DeliveryTyped, UpdateKnown
<1> QED BY <1>3, <1>4, <1>5 DEF DeliveryInv

LEMMA HoldReleaseKeeps ==
    ASSUME DeliveryInv, Delivery!HoldRelease
    PROVE  DeliveryInv'
<1> DEFINE d == update.request.digest
<1>1. /\ update # None /\ update.step = "verified"
      /\ UNCHANGED <<importer, shelf, imports, Delivery!slots, code, staged, page>>
      /\ \/ /\ \E schema \in Delivery!Codes : Delivery!Resolved(d, schema)
            /\ update.request.mode = "ROLLBACK" => staged[d] # None
            /\ update' = [update EXCEPT !.step = "held",
                            !.wheel = Delivery!Catalogue[shelf[d]].files.inventory.wheel]
         \/ update' = None
  BY DEF Delivery!HoldRelease
<1>2. DeliveryTyped /\ UpdateKnown /\ ShelfKnown /\ SchemasKnown
  BY DEF DeliveryInv
<1>3. /\ PageKnown' /\ ShelfKnown' /\ Delivery!SlotHoldsItsRelease' /\ DeliveryTyped'
      /\ SchemasKnown'
      /\ profile' = profile
  BY <1>1 DEF DeliveryInv, PageKnown, ShelfKnown, Delivery!SlotHoldsItsRelease, DeliveryTyped,
     SchemasKnown,
         Delivery!Schema, Delivery!slots
<1>4. d \in Delivery!Genuine /\ d \in Delivery!Digests
  BY <1>1, <1>2 DEF UpdateKnown, Delivery!Digests
<1>5. CASE /\ \E schema \in Delivery!Codes : Delivery!Resolved(d, schema)
           /\ (update.request.mode = "ROLLBACK" => staged[d] # None)
           /\ update' = [update EXCEPT !.step = "held",
                           !.wheel = Delivery!Catalogue[shelf[d]].files.inventory.wheel]
  <2>1. Delivery!Catalogue[shelf[d]].files.inventory.wheel = Delivery!Catalogue[d].files.wheel
        /\ Delivery!SourceOf(d) <= profile
    <3>1. PICK schema \in Delivery!Codes : Delivery!Resolved(d, schema)
      BY <1>5
    <3>2. shelf[d] = d /\ Delivery!SourceOf(d) = schema
      BY <1>2, <1>4, <3>1, ResolvedIs
    <3> QED BY <1>2, <1>4, <3>1, <3>2, GenuineReleases DEF Delivery!Codes, SchemasKnown
  <2>2. /\ DOMAIN update' = {"step", "request", "agreed", "wheel"}
        /\ update'.step = "held" /\ update'.wheel = Delivery!Catalogue[d].files.wheel
        /\ update'.request = update.request /\ update'.agreed = update.agreed
    BY <1>1, <1>2, <1>5, <2>1 DEF UpdateKnown
  <2>3. UpdateKnown'
    BY <1>1, <1>2, <1>3, <1>4, <1>5, <2>1, <2>2 DEF UpdateKnown, Delivery!slots
  <2> QED BY <1>3, <2>3 DEF DeliveryInv
<1>6. CASE update' = None
  BY <1>3, <1>6 DEF DeliveryInv, UpdateKnown
<1> QED BY <1>1, <1>5, <1>6

LEMMA StageWheelKeeps ==
    ASSUME DeliveryInv, Delivery!StageWheel
    PROVE  DeliveryInv'
<1> DEFINE d == update.request.digest
<1>1. /\ update # None /\ update.step = "held"
      /\ UNCHANGED <<importer, shelf, imports, Delivery!slots, code, page>>
      /\ \/ /\ update.request.mode = "ROLLBACK" /\ staged' = staged
            /\ update' = [update EXCEPT !.step = "staged"]
         \/ /\ Delivery!Catalogue[shelf[d]].files.wheel = update.wheel
            /\ staged' = [staged EXCEPT ![d] = Delivery!Catalogue[shelf[d]].files.wheel]
            /\ update' = [update EXCEPT !.step = "staged"]
         \/ update' = None /\ staged' = staged
  BY DEF Delivery!StageWheel, Delivery!WheelStill
<1>2. DeliveryTyped /\ UpdateKnown /\ Delivery!SlotHoldsItsRelease
  BY DEF DeliveryInv
<1>3. PageKnown' /\ ShelfKnown' /\ SchemasKnown' /\ UNCHANGED <<installed, profile>>
  BY <1>1 DEF DeliveryInv, PageKnown, ShelfKnown, SchemasKnown, Delivery!Schema, Delivery!slots
<1>4. /\ d \in Delivery!Genuine /\ update.wheel = Delivery!Catalogue[d].files.wheel
      /\ Delivery!Catalogue[d].files.wheel # None
  BY <1>1, <1>2, GenuineReleases DEF UpdateKnown
<1>5. /\ staged' = staged \/ staged' = [staged EXCEPT ![d] = Delivery!Catalogue[d].files.wheel]
      /\ update' # None => staged'[d] # None /\ update' = [update EXCEPT !.step = "staged"]
  <2>1. d \in DOMAIN staged
    BY <1>2, <1>4 DEF DeliveryTyped, Delivery!Kept
  <2>2. update.request.mode = "ROLLBACK" => staged[d] # None
    BY <1>1, <1>2 DEF UpdateKnown
  <2> QED BY <1>1, <1>4, <2>1, <2>2
<1>6. DeliveryTyped'
  BY <1>1, <1>2, <1>3, <1>5 DEF DeliveryTyped
<1>7. Delivery!SlotHoldsItsRelease'
  BY <1>2, <1>5 DEF DeliveryTyped, Delivery!SlotHoldsItsRelease
<1>8. UpdateKnown'
  BY <1>1, <1>2, <1>3, <1>5 DEF UpdateKnown
<1> QED BY <1>3, <1>6, <1>7, <1>8 DEF DeliveryInv

\* What a slot is moved to reads the profile.
LEMMA MovedFits ==
    ASSUME DeliveryInv, NEW d \in Delivery!Genuine, Delivery!Replaces(d), Delivery!Moved(d)
    PROVE  /\ SchemasKnown'
           /\ DOMAIN installed' = {"current", "previous", "generation", "pending"}
           /\ installed'.current \in Delivery!Genuine /\ installed'.previous \in Delivery!Genuine
<1>1. /\ installed' = [current |-> d, previous |-> installed.current,
                       generation |-> installed.generation + 1, pending |-> None]
      /\ profile' = Delivery!Migrated(d) /\ profile <= Delivery!TargetOf(d)
      /\ published' = published \cup {d}
  BY DEF Delivery!Moved, Delivery!Replaces
<1>2. /\ (\A g \in Delivery!Genuine : Delivery!TargetOf(g) \in Nat) /\ SchemasKnown
      /\ installed.current \in Delivery!Genuine
  BY GenuineReleases DEF DeliveryInv, DeliveryTyped
<1>3. profile' = Delivery!TargetOf(d)
  BY <1>1, <1>2 DEF Delivery!Migrated, SchemasKnown
<1>4. Delivery!Schema' = Delivery!TargetOf(d)
  BY <1>1 DEF Delivery!Schema
<1>5. SchemasKnown'
  BY <1>1, <1>2, <1>3, <1>4 DEF SchemasKnown
<1> QED BY <1>1, <1>2, <1>5

LEMMA PublishKeeps ==
    ASSUME DeliveryInv, Delivery!Publish
    PROVE  DeliveryInv'
<1>1. /\ update # None /\ update' = None
      /\ UNCHANGED <<importer, shelf, imports, code, staged, page>>
      /\ \/ Delivery!Replaces(update.request.digest) /\ Delivery!Moved(update.request.digest)
         \/ UNCHANGED Delivery!slots
  BY DEF Delivery!Publish
<1>2. update.request.digest \in Delivery!Genuine
  BY <1>1 DEF DeliveryInv, UpdateKnown
<1>3. DeliveryTyped' /\ SchemasKnown'
  <2>1. CASE Delivery!Replaces(update.request.digest) /\ Delivery!Moved(update.request.digest)
    BY <1>1, <1>2, <2>1, MovedFits DEF DeliveryInv, DeliveryTyped
  <2>2. CASE UNCHANGED Delivery!slots
    BY <1>1, <2>2 DEF DeliveryInv, DeliveryTyped, SchemasKnown, Delivery!Schema, Delivery!slots
  <2> QED BY <1>1, <2>1, <2>2
<1>4. PageKnown' /\ ShelfKnown' /\ Delivery!SlotHoldsItsRelease' /\ UpdateKnown'
  BY <1>1 DEF DeliveryInv, PageKnown, ShelfKnown, Delivery!SlotHoldsItsRelease, UpdateKnown
<1> QED BY <1>3, <1>4 DEF DeliveryInv

LEMMA ReopenKeeps ==
    ASSUME DeliveryInv, Delivery!Reopen
    PROVE  DeliveryInv'
<1>1. /\ UNCHANGED <<importer, shelf, imports, Delivery!slots, staged, update>>
      /\ page' = Delivery!EmptyPage
  BY DEF Delivery!Reopen
<1>2. DeliveryTyped' /\ ShelfKnown' /\ PageKnown' /\ UpdateKnown' /\ Delivery!SlotHoldsItsRelease'
  BY <1>1 DEF DeliveryInv, DeliveryTyped, ShelfKnown, PageKnown, UpdateKnown,
     Delivery!SlotHoldsItsRelease,
         Delivery!EmptyPage, Delivery!slots
<1>3. SchemasKnown'
  BY <1>1 DEF DeliveryInv, SchemasKnown, Delivery!Schema, Delivery!slots
<1> QED BY <1>2, <1>3 DEF DeliveryInv

\* Two updates do not meet: the one reserved the installation.
LEMMA OtherUpdateKeeps ==
    ASSUME DeliveryInv, Delivery!OtherUpdate
    PROVE  DeliveryInv'
<1>1. installed.pending = None /\ UNCHANGED <<importer, shelf, imports, code, page, update>>
  BY DEF Delivery!OtherUpdate
<1>2. DeliveryTyped /\ UpdateKnown /\ Delivery!SlotHoldsItsRelease /\ ShelfKnown
  BY DEF DeliveryInv
<1>3. PageKnown' /\ ShelfKnown'
  BY <1>1 DEF DeliveryInv, PageKnown, ShelfKnown
<1>4. update # None => update.step = "queued"
  BY <1>1, <1>2, DeliveryAssumption DEF UpdateKnown
<1>5. UpdateKnown'
  BY <1>1, <1>2, <1>4 DEF UpdateKnown
<1>6. CASE \E preview \in Delivery!Previews(Delivery!Schema) \ {None} :
             LET d == preview.digest IN
             /\ Delivery!Replaces(d) /\ Delivery!Moved(d)
             /\ staged' = [staged EXCEPT ![d] = IF preview.mode = "APPLY"
                                               THEN Delivery!Catalogue[shelf[d]].files.wheel
                                                   ELSE @]
  <2>1. PICK preview \in Delivery!Previews(Delivery!Schema) \ {None} :
           /\ Delivery!Replaces(preview.digest) /\ Delivery!Moved(preview.digest)
           /\ staged' = [staged EXCEPT ![preview.digest] =
                            IF preview.mode = "APPLY"
                            THEN Delivery!Catalogue[shelf[preview.digest]].files.wheel ELSE @]
    BY <1>6
  <2> DEFINE d == preview.digest
  <2>2. d \in Delivery!Genuine /\ Delivery!Resolved(d, Delivery!Schema) /\ d \in Delivery!Digests
    BY PreviewsResolved DEF Delivery!Digests
  <2>3. shelf[d] = d
    BY <1>2, <2>2, ResolvedIs
  <2>4. DeliveryTyped' /\ SchemasKnown'
    <3>1. /\ SchemasKnown'
          /\ DOMAIN installed' = {"current", "previous", "generation", "pending"}
          /\ installed'.current \in Delivery!Genuine /\ installed'.previous \in Delivery!Genuine
      BY <1>1, <2>1, <2>2, MovedFits
    <3> QED BY <1>1, <1>2, <2>1, <2>2, <3>1 DEF DeliveryTyped
  <2>5. Delivery!SlotHoldsItsRelease'
    BY <1>2, <2>1, <2>2, <2>3 DEF Delivery!SlotHoldsItsRelease, DeliveryTyped
  <2> QED BY <1>3, <1>5, <2>4, <2>5 DEF DeliveryInv
<1>7. CASE installed' = [installed EXCEPT !.pending = "cli"]
        /\ UNCHANGED <<staged, published, profile>>
  <2>1. DeliveryTyped'
    BY <1>1, <1>2, <1>7 DEF DeliveryTyped
  <2>2. Delivery!SlotHoldsItsRelease'
    BY <1>2, <1>7 DEF Delivery!SlotHoldsItsRelease
  <2>3. SchemasKnown'
    <3>1. installed'.current = installed.current
      BY <1>2, <1>7 DEF DeliveryTyped
    <3> QED BY <1>1, <1>7, <3>1 DEF DeliveryInv, SchemasKnown, Delivery!Schema
  <2> QED BY <1>3, <1>5, <2>1, <2>2, <2>3 DEF DeliveryInv
<1> QED BY <1>6, <1>7 DEF Delivery!OtherUpdate

-----------------------------------------------------------------------------

LEMMA DeliveryInit == Delivery!Init => DeliveryInv
<1> SUFFICES ASSUME Delivery!Init PROVE DeliveryInv
  OBVIOUS
<1>1. /\ "zero" \in Delivery!Genuine /\ "first" \in Delivery!Genuine
      /\ "twin" \in Delivery!Genuine /\ Delivery!Genuine \subseteq Delivery!Digests
  BY DEF Delivery!Genuine, Delivery!Digests
<1>2. DeliveryTyped
  BY <1>1 DEF Delivery!Init, DeliveryTyped, Delivery!EmptyPage
<1>3. ShelfKnown
  <2>1. \A d \in Delivery!Digests : shelf[d] = IF d \in {"zero", "first", "twin"} THEN d ELSE None
    BY DEF Delivery!Init
  <2>2. importer = None /\ imports = {"zero", "first", "twin"}
    BY DEF Delivery!Init
  <2> QED BY <1>1, <2>1, <2>2, GenuineReleases DEF ShelfKnown
<1>6. SchemasKnown
  <2>1. Delivery!TargetOf("zero") = 1 /\ Delivery!TargetOf("first") = 1
    BY DEF Delivery!TargetOf, Delivery!Catalogue, Delivery!Genuine, Delivery!Signed,
       Delivery!Files
  <2> QED BY <1>1, <2>1 DEF Delivery!Init, SchemasKnown, Delivery!Schema
<1>4. PageKnown /\ UpdateKnown
  BY DEF Delivery!Init, PageKnown, UpdateKnown, Delivery!EmptyPage
<1>5. Delivery!SlotHoldsItsRelease
  <2>1. /\ Delivery!Catalogue["zero"].files.wheel = "w0"
        /\ Delivery!Catalogue["first"].files.wheel = "w1"
    BY DEF Delivery!Catalogue, Delivery!Genuine, Delivery!Signed, Delivery!Files
  <2>2. /\ staged["zero"] = "w0" /\ staged["first"] = "w1"
        /\ \A d \in Delivery!Kept : d # "zero" /\ d # "first" => staged[d] = None
    BY <1>1 DEF Delivery!Init, Delivery!Kept
  <2> QED BY <2>1, <2>2 DEF Delivery!SlotHoldsItsRelease
<1> QED BY <1>2, <1>3, <1>4, <1>5, <1>6 DEF DeliveryInv

LEMMA DeliverySteps == DeliveryInv /\ [Delivery!Next]_(Delivery!deliveryVars) => DeliveryInv'
<1> SUFFICES ASSUME DeliveryInv, [Delivery!Next]_(Delivery!deliveryVars) PROVE DeliveryInv'
  OBVIOUS
<1>1. CASE Delivery!AlreadyImported \/ Delivery!RenameStage \/ Delivery!RecordImport
        \/ Delivery!ImporterDies \/ Delivery!Damage
  BY <1>1, ImportKeeps
<1>2. CASE Delivery!RequestPreview \/ Delivery!ShowPreview \/ Delivery!AskConfirmation
        \/ Delivery!DropPreviews \/ Delivery!Confirm
  BY <1>2, PageKeeps, ConfirmKeeps
<1>3. CASE Delivery!VerifyRelease \/ Delivery!HoldRelease \/ Delivery!StageWheel
        \/ Delivery!Publish \/ Delivery!OtherUpdate
  BY <1>3, VerifyReleaseKeeps, HoldReleaseKeeps, StageWheelKeeps, PublishKeeps, OtherUpdateKeeps
<1>4. CASE UNCHANGED Delivery!deliveryVars
  BY <1>4 DEF Delivery!deliveryVars, DeliveryInv, DeliveryTyped, ShelfKnown, PageKnown,
     UpdateKnown,
         Delivery!SlotHoldsItsRelease, SchemasKnown, Delivery!Schema, Delivery!slots
<1>5. CASE Delivery!Reopen
  BY <1>5, ReopenKeeps
<1> QED BY <1>1, <1>2, <1>3, <1>4, <1>5 DEF Delivery!Next

LEMMA DeliveryInvDelivers == DeliveryInv => Delivery!Delivered
<1> SUFFICES ASSUME DeliveryInv PROVE Delivery!Delivered
  OBVIOUS
<1>1. Delivery!RowVouches
  BY DEF DeliveryInv, ShelfKnown, Delivery!RowVouches
<1>2. Delivery!AppliesWhatWasConfirmed
  BY DEF DeliveryInv, UpdateKnown, Delivery!AppliesWhatWasConfirmed
<1>3. Delivery!ProfileFits
  BY DEF DeliveryInv, SchemasKnown, Delivery!ProfileFits
<1> QED BY <1>1, <1>2, <1>3 DEF DeliveryInv, Delivery!Delivered

\* Only verified releases are kept, recorded and installed, and an update publishes what
\* was confirmed, on the installation it was confirmed for, to a slot that reads the profile.
THEOREM DeliveryIsSound == Delivery!DeliverySpec => []Delivery!Delivered
<1>1. Delivery!Init => DeliveryInv
  BY DeliveryInit
<1>2. DeliveryInv /\ [Delivery!Next]_(Delivery!deliveryVars) => DeliveryInv'
  BY DeliverySteps
<1>3. DeliveryInv => Delivery!Delivered
  BY DeliveryInvDelivers
<1> QED BY <1>1, <1>2, <1>3, PTL DEF Delivery!DeliverySpec

-----------------------------------------------------------------------------
(* The thing that is repaired                                              *)
RepairTyped ==
    /\ action \in Repair!Actions /\ thing \in Repair!Things /\ window \in Nat
    /\ shown \in Repair!Previews \cup {None} /\ command \in Repair!Commands \cup {None}
    /\ touched \in Repair!Things \cup {None}

\* A command beyond its first comparison is about what the user was shown, and before its
\* owner answered nothing was changed for it.
CommandKnows ==
    /\ command # None /\ command.pc # "REFUSED" => command.seen = shown /\ shown # None
    /\ touched # None =>
          command # None
              /\ command.pc \in {"verify", "SUCCEEDED", "FAILED_SAFE", "RECOVERY_REQUIRED"}
    /\ command # None /\ command.pc = "publish" => action = "regenerate-runtime-handoff"

\* What the owner saw when it changed the thing.
OwnerLooked ==
    touched # None =>
        /\ action \in Repair!Careful =>
            touched.state \in Repair!Broken /\ ~ (Repair!Leased /\ touched.held)
        /\ action \in Repair!FencedActions => touched.revision = shown.seen.revision

\* Success is a change by the owner, or an action that may find nothing to change.
SuccessEarned ==
    command # None
        /\ (command.pc = "SUCCEEDED" \/ (command.pc = "verify" /\ command.owner = "SUCCEEDED")) =>
        touched # None \/ action \in {"inspect-verified-backup", "recover-durable-operation"}

\* An operation is active, ended, or stopped at a barrier; a client with the revision that
\* was shown is still the one that was shown.
ThingKnown ==
    /\ action = "recover-durable-operation" => thing.state \in {"active", "ended", "barrier"}
    /\ action \in {"rotate-gateway-credentials", "revoke-gateway-credentials"} /\ shown # None =>
         /\ thing.revision >= shown.seen.revision
         /\ thing.revision = shown.seen.revision => thing.state = "active"

RepairInv == RepairTyped /\ CommandKnows /\ OwnerLooked /\ SuccessEarned /\ ThingKnown

-----------------------------------------------------------------------------

LEMMA LifeTyped ==
    ASSUME action \in Repair!Actions
    PROVE  Repair!Life \subseteq Repair!ThingStates \X Repair!ThingStates
<1>1. CASE action = "inspect-verified-backup"
  BY <1>1 DEF Repair!Life, Repair!ThingStates
<1>2. CASE action = "reclaim-orphaned-content"
  BY <1>2 DEF Repair!Life, Repair!ThingStates
<1>3. CASE action = "release-expired-worker-locks"
  BY <1>3 DEF Repair!Life, Repair!ThingStates
<1>4. CASE action = "recover-durable-operation"
  BY <1>4 DEF Repair!Life, Repair!ThingStates
<1>5. CASE action = "regenerate-runtime-handoff"
  BY <1>5 DEF Repair!Life, Repair!ThingStates
<1>6. CASE action = "rotate-gateway-credentials"
  BY <1>6 DEF Repair!Life, Repair!ThingStates
<1>7. CASE action = "revoke-gateway-credentials"
  BY <1>7 DEF Repair!Life, Repair!ThingStates
<1>8. CASE action = "disable-unsafe-sharing"
  BY <1>8 DEF Repair!Life, Repair!ThingStates
<1>9. CASE action = "quarantine-invalid-model"
  BY <1>9 DEF Repair!Life, Repair!ThingStates
<1>10. CASE action = "rebuild-service-launcher"
  BY <1>10 DEF Repair!Life, Repair!ThingStates
<1>11. CASE action = "return-to-desktop"
  BY <1>11 DEF Repair!Life, Repair!ThingStates
<1>12. CASE action = "rebuild-support-bundle"
  BY <1>12 DEF Repair!Life, Repair!ThingStates
<1>13. CASE action = "undo"
  BY <1>13 DEF Repair!Life, Repair!ThingStates
<1> QED BY <1>1, <1>2, <1>3, <1>4, <1>5, <1>6, <1>7, <1>8, <1>9, <1>10, <1>11, <1>12,
      <1>13 DEF Repair!Actions

LEMMA BrokenTyped ==
    ASSUME action \in Repair!Actions
    PROVE  Repair!Broken \subseteq Repair!ThingStates
<1> USE DEF Repair!Broken, Repair!BrokenRecords, Repair!Retained, Repair!ThingStates
<1>1. CASE action = "inspect-verified-backup"
  BY <1>1
<1>2. CASE action = "reclaim-orphaned-content"
  BY <1>2
<1>3. CASE action = "release-expired-worker-locks"
  BY <1>3
<1>4. CASE action = "recover-durable-operation"
  BY <1>4
<1>5. CASE action = "regenerate-runtime-handoff"
  BY <1>5
<1>6. CASE action = "rotate-gateway-credentials"
  BY <1>6
<1>7. CASE action = "revoke-gateway-credentials"
  BY <1>7
<1>8. CASE action = "disable-unsafe-sharing"
  BY <1>8
<1>9. CASE action = "quarantine-invalid-model"
  BY <1>9
<1>10. CASE action = "rebuild-service-launcher"
  BY <1>10
<1>11. CASE action = "return-to-desktop"
  BY <1>11
<1>12. CASE action = "rebuild-support-bundle"
  BY <1>12
<1>13. CASE action = "undo"
  BY <1>13
<1> QED BY <1>1, <1>2, <1>3, <1>4, <1>5, <1>6, <1>7, <1>8, <1>9, <1>10, <1>11, <1>12,
      <1>13 DEF Repair!Actions

\* The owners and everybody else leave alone what the command knows.
LEMMA OthersKeep ==
    ASSUME RepairInv, Repair!Lives \/ Repair!Held \/ Repair!TimePasses
    PROVE  RepairInv'
<1>1. /\ RepairTyped /\ action' = action /\ shown' = shown /\ command' = command
      /\ touched' = touched
  BY DEF RepairInv, Repair!Lives, Repair!Held, Repair!TimePasses
<1>2. window' \in Nat
  BY <1>1 DEF RepairTyped, Repair!Lives, Repair!Held, Repair!TimePasses
<1>3. thing' \in Repair!Things
  <2>1. CASE Repair!Lives
    <3>1. PICK change \in Repair!Life :
             thing' = Repair!Is(change[2], Repair!RevisionAfter(change[1], change[2]),
                         thing.held /\ change[2] \in {"active", "spoilt", "lapsed", "superseded"})
      BY <2>1 DEF Repair!Lives
    <3>2. Repair!RevisionAfter(change[1], change[2]) \in Nat
      BY <1>1 DEF RepairTyped, Repair!Things, Repair!RevisionAfter
    <3>3. (thing.held /\ change[2] \in {"active", "spoilt", "lapsed", "superseded"}) \in BOOLEAN
      OBVIOUS
    <3>4. change[2] \in Repair!ThingStates
      <4>1. change \in Repair!ThingStates \X Repair!ThingStates
        BY <1>1, <3>1, LifeTyped DEF RepairTyped
      <4> QED BY <4>1
    <3> QED BY <3>1, <3>2, <3>3, <3>4 DEF Repair!Is, Repair!Things
  <2>2. CASE Repair!Held
    <3>1. /\ thing' = [thing EXCEPT !.held = ~ thing.held, !.revision = thing.revision + 1]
          /\ thing \in Repair!Things
      BY <1>1, <2>2 DEF Repair!Held, RepairTyped
    <3>2. (~ thing.held) \in BOOLEAN /\ thing.revision + 1 \in Nat
      BY <3>1 DEF Repair!Things
    <3> QED BY <3>1, <3>2 DEF Repair!Things
  <2>3. CASE Repair!TimePasses
    BY <1>1, <2>3 DEF Repair!TimePasses, RepairTyped
  <2> QED BY <2>1, <2>2, <2>3
<1>4. RepairTyped'
  BY <1>1, <1>2, <1>3 DEF RepairTyped
<1>5. CommandKnows' /\ OwnerLooked' /\ SuccessEarned'
  BY <1>1 DEF RepairInv, CommandKnows, OwnerLooked, SuccessEarned, Repair!Broken,
     Repair!BrokenRecords, Repair!Leased
<1>6. ThingKnown'
  <2>1. CASE Repair!Lives
    <3>1. PICK change \in Repair!Life :
             thing' = Repair!Is(change[2], Repair!RevisionAfter(change[1], change[2]),
                         thing.held /\ change[2] \in {"active", "spoilt", "lapsed", "superseded"})
      BY <2>1 DEF Repair!Lives
    <3>2. action = "recover-durable-operation" => change[2] \in {"active", "ended", "barrier"}
      BY <3>1 DEF Repair!Life
    <3>3. action \in {"rotate-gateway-credentials", "revoke-gateway-credentials"} =>
             thing'.revision = thing.revision + 1
      BY <3>1 DEF Repair!Is, Repair!RevisionAfter
    <3>4. /\ thing.revision \in Nat /\ ThingKnown
          /\ shown # None => shown.seen.revision \in Nat
      BY <1>1 DEF RepairTyped, Repair!Things, Repair!Previews, RepairInv
    <3>5. thing'.state = change[2]
      BY <3>1 DEF Repair!Is
    <3> HIDE DEF Repair!Life
    <3> QED BY <1>1, <3>2, <3>3, <3>4, <3>5 DEF ThingKnown
  <2>2. CASE Repair!Held
    <3>1. /\ thing' = [thing EXCEPT !.held = ~ thing.held, !.revision = thing.revision + 1]
          /\ thing \in Repair!Things
      BY <1>1, <2>2 DEF Repair!Held, RepairTyped
    <3>2. thing'.state = thing.state
      BY <3>1 DEF Repair!Things
    <3>3. Repair!Leased
      BY <2>2 DEF Repair!Held
    <3> QED BY <1>1, <3>2, <3>3 DEF ThingKnown, RepairInv, Repair!Leased
  <2>3. CASE Repair!TimePasses
    BY <1>1, <2>3 DEF Repair!TimePasses, ThingKnown, RepairInv
  <2> QED BY <2>1, <2>2, <2>3
<1> QED BY <1>4, <1>5, <1>6 DEF RepairInv

\* A command that is new, or that ends, or none: the owner is not at work.
LEMMA UserKeeps ==
    ASSUME RepairInv, Repair!Show \/ Repair!Confirm \/ Repair!Repeat \/ Repair!Dismiss
    PROVE  RepairInv'
<1>1. RepairTyped /\ CommandKnows /\ OwnerLooked /\ SuccessEarned /\ ThingKnown
  BY DEF RepairInv
<1>2. Repair!Preview \in Repair!Previews /\ Repair!Preview # None
  BY <1>1, RepairAssumption DEF RepairTyped, Repair!Preview, Repair!Previews, Repair!Things
<1>3. action' = action /\ thing' = thing /\ window' = window
  BY DEF Repair!Show, Repair!Confirm, Repair!Repeat, Repair!Dismiss
<1>4. CASE Repair!Show
  <2>1. touched = None
    BY <1>1, <1>4 DEF CommandKnows, Repair!Show
  <2>2. shown' = Repair!Preview /\ command' = None /\ touched' = None
    BY <1>4, <2>1 DEF Repair!Show
  <2>3. ThingKnown'
    <3>1. /\ shown'.seen = thing /\ thing.state \in Repair!Broken /\ thing.revision \in Nat
      BY <1>1, <1>4, <2>2 DEF Repair!Show, Repair!Ready, Repair!Preview, RepairTyped,
         Repair!Things
    <3> QED BY <1>1, <1>3, <3>1 DEF ThingKnown, Repair!Broken
  <2> QED BY <1>1, <1>2, <1>3, <2>2, <2>3 DEF RepairInv, RepairTyped, CommandKnows, OwnerLooked,
        SuccessEarned
<1>5. CASE Repair!Confirm
  <2>1. touched = None /\ shown # None
    BY <1>1, <1>5 DEF CommandKnows, Repair!Confirm
  <2>2. /\ shown' = shown /\ touched' = None
        /\ \/ command' = Repair!At("repeat", Repair!Preview) /\ shown = Repair!Preview
           \/ command' = Repair!At("REFUSED", Repair!Preview)
    BY <1>5, <2>1 DEF Repair!Confirm
  <2>3. /\ command' \in Repair!Commands /\ command'.seen = Repair!Preview
        /\ \/ command'.pc = "repeat" /\ shown = Repair!Preview
           \/ command'.pc = "REFUSED"
    BY <1>2, <2>2 DEF Repair!At, Repair!Commands, Repair!Outcomes
  <2> QED BY <1>1, <1>2, <1>3, <2>1, <2>2, <2>3 DEF RepairInv, RepairTyped, CommandKnows,
        OwnerLooked, SuccessEarned, ThingKnown
<1>6. CASE Repair!Repeat
  <2>1. touched = None /\ command.seen = shown /\ shown # None
    BY <1>1, <1>6 DEF CommandKnows, Repair!Repeat
  <2>2. /\ shown' = shown /\ touched' = None
        /\ \/ command' = Repair!At("execute", Repair!Preview) /\ shown = Repair!Preview
           \/ command' = Repair!At("REFUSED", Repair!Preview)
    BY <1>6, <2>1 DEF Repair!Repeat
  <2>3. /\ command' \in Repair!Commands /\ command'.seen = Repair!Preview
        /\ \/ command'.pc = "execute" /\ shown = Repair!Preview
           \/ command'.pc = "REFUSED"
    BY <1>2, <2>2 DEF Repair!At, Repair!Commands, Repair!Outcomes
  <2> QED BY <1>1, <1>2, <1>3, <2>1, <2>2, <2>3 DEF RepairInv, RepairTyped, CommandKnows,
        OwnerLooked, SuccessEarned, ThingKnown
<1>7. CASE Repair!Dismiss
  BY <1>1, <1>3, <1>7 DEF Repair!Dismiss, RepairInv, RepairTyped, CommandKnows, OwnerLooked,
     SuccessEarned,
     ThingKnown
<1> QED BY <1>4, <1>5, <1>6, <1>7

\* The ways of an owner: it changes the thing, answers without a change, or raises.
OwnerRepairs(s, r) ==
    /\ thing' = [state |-> s, revision |-> r, held |-> FALSE]
    /\ s \in Repair!ThingStates /\ r \in Nat
    /\ touched' = thing
    /\ command' = [command EXCEPT !.pc = "verify", !.owner = "SUCCEEDED"]
OwnerAnswers(said) ==
    /\ command' = [command EXCEPT !.pc = "verify", !.owner = said]
    /\ thing' = thing /\ touched' = touched
OwnerBreaks == command' = [command EXCEPT !.pc = "FAILED_SAFE"] /\ thing' \in Repair!Things
    /\ touched' = touched

LEMMA OwnerKeeps ==
    ASSUME RepairInv, command # None, command.pc \in {"execute", "publish"},
        UNCHANGED <<action, window, shown>>,
           \/ /\ \E s, r : OwnerRepairs(s, r)
              /\ action \in Repair!Careful =>
                  thing.state \in Repair!Broken /\ ~ (Repair!Leased /\ thing.held)
              /\ action \in Repair!FencedActions => thing.revision = shown.seen.revision
           \/ OwnerAnswers("REFUSED") \/ OwnerAnswers("RECOVERY_REQUIRED")
           \/ OwnerAnswers("SUCCEEDED")
               /\ action \in {"inspect-verified-backup", "recover-durable-operation"}
           \/ OwnerBreaks,
           ThingKnown'
    PROVE  RepairInv'
<1>1. /\ RepairTyped /\ CommandKnows /\ OwnerLooked /\ SuccessEarned /\ touched = None
      /\ command.seen = shown /\ shown # None /\ command \in Repair!Commands
  BY DEF RepairInv, RepairTyped, CommandKnows
<1>2. Repair!Broken' = Repair!Broken /\ (Repair!Leased' <=> Repair!Leased)
  BY DEF Repair!Broken, Repair!BrokenRecords, Repair!Leased
<1>3. CASE \E s, r : OwnerRepairs(s, r)
  <2>1. thing' \in Repair!Things /\ touched' = thing /\ thing # None
    BY <1>1, <1>3, RepairAssumption DEF OwnerRepairs, Repair!Things, RepairTyped
  <2>2. /\ command' \in Repair!Commands /\ command'.pc = "verify" /\ command'.owner = "SUCCEEDED"
        /\ command'.seen = command.seen /\ command' # None
    <3>1. command' = [command EXCEPT !.pc = "verify", !.owner = "SUCCEEDED"]
      BY <1>3 DEF OwnerRepairs
    <3>2. /\ command' \in Repair!Commands /\ command'.pc = "verify"
          /\ command'.owner = "SUCCEEDED"
          /\ command'.seen = command.seen
      BY <1>1, <3>1 DEF Repair!Commands, Repair!Outcomes
    <3> QED BY <3>2, RepairAssumption
  <2>3. \/ /\ action \in Repair!Careful =>
               thing.state \in Repair!Broken /\ ~ (Repair!Leased /\ thing.held)
           /\ action \in Repair!FencedActions => thing.revision = shown.seen.revision
        \/ touched' = touched
    BY DEF OwnerAnswers, OwnerBreaks
  <2>4. OwnerLooked'
    BY <1>1, <1>2, <2>1, <2>3 DEF OwnerLooked
  <2>5. RepairTyped' /\ CommandKnows' /\ SuccessEarned'
    BY <1>1, <2>1, <2>2 DEF RepairTyped, CommandKnows, SuccessEarned
  <2> QED BY <2>4, <2>5 DEF RepairInv
<1>4. CASE \/ OwnerAnswers("REFUSED") \/ OwnerAnswers("RECOVERY_REQUIRED")
           \/ OwnerAnswers("SUCCEEDED")
               /\ action \in {"inspect-verified-backup", "recover-durable-operation"}
  <2>1. /\ command' \in Repair!Commands /\ command'.pc = "verify" /\ command'.seen = command.seen
        /\ command'.owner = "SUCCEEDED" =>
            action \in {"inspect-verified-backup", "recover-durable-operation"}
        /\ thing' = thing /\ touched' = None
    BY <1>1, <1>4 DEF OwnerAnswers, Repair!Commands, Repair!Outcomes
  <2> QED BY <1>1, <2>1 DEF RepairInv, RepairTyped, CommandKnows, OwnerLooked, SuccessEarned,
        ThingKnown
<1>5. CASE OwnerBreaks
  <2>1. /\ command' \in Repair!Commands /\ command'.pc = "FAILED_SAFE"
        /\ command'.seen = command.seen
        /\ thing' \in Repair!Things /\ touched' = None
    BY <1>1, <1>5 DEF OwnerBreaks, Repair!Commands, Repair!Outcomes
  <2> QED BY <1>1, <2>1 DEF RepairInv, RepairTyped, CommandKnows, OwnerLooked, SuccessEarned,
        ThingKnown
<1> QED BY <1>3, <1>4, <1>5

\* An owner is called for what the user saw.
LEMMA AtOwner ==
    ASSUME RepairInv, command # None, command.pc \in {"execute", "publish"}
    PROVE  /\ RepairTyped /\ ThingKnown /\ command.seen = shown
           /\ thing \in Repair!Things /\ action \in Repair!Actions
           /\ thing.revision \in Nat /\ thing.revision + 1 \in Nat
           /\ thing.state \in Repair!ThingStates
           /\ command.pc = "publish" => action = "regenerate-runtime-handoff"
<1> QED BY DEF RepairInv, RepairTyped, CommandKnows, Repair!Things

LEMMA ReleaseLockKeeps == ASSUME RepairInv, Repair!ReleaseLock PROVE RepairInv'
<1>1. /\ command # None /\ command.pc = "execute" /\ UNCHANGED <<action, window, shown>>
      /\ action = "release-expired-worker-locks"
  BY DEF Repair!ReleaseLock, Repair!Executing
<1>2. command.seen = shown /\ thing \in Repair!Things
  BY <1>1, AtOwner
<1>3. ~ Repair!Leased
  BY <1>1 DEF Repair!Leased
<1>4. CASE thing.state = "expired" /\ Repair!AsSeen
  <2>1. OwnerRepairs("none", 0)
    BY <1>4 DEF Repair!ReleaseLock, Repair!Changes, Repair!Is, Repair!Owner, OwnerRepairs,
       Repair!ThingStates
  <2>2. thing.state \in Repair!Broken /\ thing.revision = shown.seen.revision
    BY <1>1, <1>2, <1>4 DEF Repair!Broken, Repair!BrokenRecords, Repair!AsSeen
  <2> QED BY <1>1, <1>3, <2>1, <2>2, OwnerKeeps DEF ThingKnown
<1>5. CASE ~ (thing.state = "expired" /\ Repair!AsSeen)
  <2>1. OwnerBreaks
    BY <1>2, <1>5 DEF Repair!ReleaseLock, Repair!Raises, Repair!Ends, OwnerBreaks
  <2> QED BY <1>1, <2>1, OwnerKeeps DEF ThingKnown
<1> QED BY <1>4, <1>5

LEMMA RecoverOperationKeeps == ASSUME RepairInv, Repair!RecoverOperation PROVE RepairInv'
<1>1. /\ command # None /\ command.pc = "execute" /\ UNCHANGED <<action, window, shown>>
      /\ action = "recover-durable-operation"
  BY DEF Repair!RecoverOperation, Repair!Executing
<1>2. /\ command.seen = shown /\ thing \in Repair!Things /\ thing.revision \in Nat /\ ThingKnown
  BY <1>1, AtOwner
<1>3. CASE Repair!Declines("REFUSED") \/ Repair!Declines("SUCCEEDED")
  <2>1. OwnerAnswers("REFUSED") \/ OwnerAnswers("SUCCEEDED")
    BY <1>3 DEF Repair!Declines, Repair!Owner, OwnerAnswers
  <2>2. ThingKnown'
    BY <1>1, <1>2, <2>1 DEF ThingKnown, OwnerAnswers
  <2> QED BY <1>1, <2>1, <2>2, OwnerKeeps
<1>4. CASE /\ ~ (thing.state = "barrier") /\ ~ (thing.state = "active" /\ thing.held)
               /\ thing.state # "ended"
           /\ \E s \in {"ended", "barrier"} : Repair!Changes(s, thing.revision)
  <2>1. \E s, r : OwnerRepairs(s, r)
    BY <1>2, <1>4 DEF Repair!Changes, Repair!Is, Repair!Owner, OwnerRepairs, Repair!ThingStates
  <2>2. thing.state = "active"
    BY <1>1, <1>2, <1>4 DEF ThingKnown
  <2>3. thing.state \in Repair!Broken /\ ~ thing.held /\ action \notin Repair!FencedActions
    BY <1>1, <1>4, <2>2 DEF Repair!Broken, Repair!BrokenRecords, Repair!FencedActions
  <2>4. ThingKnown'
    BY <1>1, <1>4 DEF ThingKnown, Repair!Changes, Repair!Is
  <2> QED BY <1>1, <2>1, <2>3, <2>4, OwnerKeeps
<1> QED BY <1>3, <1>4 DEF Repair!RecoverOperation

LEMMA ChangeClientKeeps == ASSUME RepairInv, Repair!ChangeClient PROVE RepairInv'
<1>1. /\ command # None /\ command.pc = "execute" /\ UNCHANGED <<action, window, shown>>
      /\ action \in {"rotate-gateway-credentials", "revoke-gateway-credentials"}
  BY DEF Repair!ChangeClient, Repair!Executing
<1>2. /\ command.seen = shown /\ thing \in Repair!Things /\ thing.revision \in Nat
      /\ thing.revision + 1 \in Nat /\ action \in Repair!Actions
  BY <1>1, AtOwner
<1>3. /\ ~ Repair!Leased /\ ThingKnown /\ shown # None
      /\ shown.seen.revision \in Nat
  BY <1>1 DEF Repair!Leased, RepairInv, CommandKnows, RepairTyped, Repair!Previews, Repair!Things
<1>4. CASE Repair!AsSeen
  <2>1. PICK s \in {"active", "revoked"} : OwnerRepairs(s, thing.revision + 1)
    BY <1>2, <1>4 DEF Repair!ChangeClient, Repair!Changes, Repair!Is, Repair!Owner,
       OwnerRepairs, Repair!ThingStates
  <2>2. thing.revision = shown.seen.revision
    BY <1>2, <1>4 DEF Repair!AsSeen
  <2>3. thing.state \in Repair!Broken
    BY <1>1, <1>3, <2>2 DEF ThingKnown, Repair!Broken
  <2>4. ThingKnown'
    BY <1>1, <1>2, <1>3, <2>1, <2>2 DEF ThingKnown, OwnerRepairs
  <2> QED BY <1>1, <1>3, <2>1, <2>2, <2>3, <2>4, OwnerKeeps
<1>5. CASE ~ Repair!AsSeen
  <2>1. OwnerBreaks
    BY <1>2, <1>5 DEF Repair!ChangeClient, Repair!Raises, Repair!Ends, OwnerBreaks
  <2>2. ThingKnown'
    BY <1>1, <1>3, <1>5 DEF ThingKnown, Repair!ChangeClient, Repair!Raises
  <2> QED BY <1>1, <1>3, <2>1, <2>2, OwnerKeeps
<1> QED BY <1>4, <1>5

LEMMA ReclaimContentKeeps == ASSUME RepairInv, Repair!ReclaimContent PROVE RepairInv'
<1>1. /\ command # None /\ command.pc = "execute" /\ UNCHANGED <<action, window, shown>>
      /\ action \in {"reclaim-orphaned-content"}
  BY DEF Repair!ReclaimContent, Repair!Executing
<1>2. /\ command.seen = shown /\ thing \in Repair!Things /\ thing.revision \in Nat
      /\ thing.revision + 1 \in Nat /\ action \in Repair!Actions
  BY <1>1, AtOwner
<1>3. ~ Repair!Leased /\ ThingKnown'
  BY <1>1 DEF Repair!Leased, ThingKnown
<1>4. CASE thing.state = "abandoned" /\ Repair!Changes("quarantined", thing.revision)
  <2>1. OwnerRepairs("quarantined", thing.revision)
    BY <1>2, <1>4 DEF Repair!Changes, Repair!Is, Repair!Owner, OwnerRepairs, Repair!ThingStates
  <2>2. thing.state \in Repair!Broken /\ action \notin Repair!FencedActions
    BY <1>1, <1>4 DEF Repair!Broken, Repair!BrokenRecords, Repair!FencedActions
  <2> QED BY <1>1, <1>3, <2>1, <2>2, OwnerKeeps
<1>5. CASE Repair!Declines("REFUSED")
  BY <1>1, <1>3, <1>5, OwnerKeeps DEF Repair!Declines, Repair!Owner, OwnerAnswers
<1> QED BY <1>4, <1>5 DEF Repair!ReclaimContent

LEMMA QuarantineModelKeeps == ASSUME RepairInv, Repair!QuarantineModel PROVE RepairInv'
<1>1. /\ command # None /\ command.pc = "execute" /\ UNCHANGED <<action, window, shown>>
      /\ action \in {"quarantine-invalid-model"}
  BY DEF Repair!QuarantineModel, Repair!Executing
<1>2. /\ command.seen = shown /\ thing \in Repair!Things /\ thing.revision \in Nat
      /\ thing.revision + 1 \in Nat /\ action \in Repair!Actions
  BY <1>1, AtOwner
<1>3. ~ Repair!Leased /\ ThingKnown'
  BY <1>1 DEF Repair!Leased, ThingKnown
<1>4. CASE Repair!Changes("absent", thing.revision)
  <2>1. OwnerRepairs("absent", thing.revision)
    BY <1>2, <1>4 DEF Repair!Changes, Repair!Is, Repair!Owner, OwnerRepairs, Repair!ThingStates
  <2>2. action \notin Repair!Careful /\ action \notin Repair!FencedActions
    BY <1>1 DEF Repair!Careful, Repair!FencedActions
  <2> QED BY <1>1, <1>3, <2>1, <2>2, OwnerKeeps
<1>5. CASE Repair!Declines("REFUSED") \/ Repair!Declines("RECOVERY_REQUIRED")
  <2>1. OwnerAnswers("REFUSED") \/ OwnerAnswers("RECOVERY_REQUIRED")
    BY <1>5 DEF Repair!Declines, Repair!Owner, OwnerAnswers
  <2> QED BY <1>1, <1>3, <2>1, OwnerKeeps
<1> QED BY <1>4, <1>5 DEF Repair!QuarantineModel

LEMMA SetAnywayKeeps == ASSUME RepairInv, Repair!SetAnyway PROVE RepairInv'
<1>1. /\ command # None /\ command.pc = "execute" /\ UNCHANGED <<action, window, shown>>
      /\ action \in {"disable-unsafe-sharing", "rebuild-service-launcher", "return-to-desktop"}
  BY DEF Repair!SetAnyway, Repair!Executing
<1>2. /\ command.seen = shown /\ thing \in Repair!Things /\ thing.revision \in Nat
      /\ thing.revision + 1 \in Nat /\ action \in Repair!Actions
  BY <1>1, AtOwner
<1>3. ~ Repair!Leased /\ ThingKnown'
  BY <1>1 DEF Repair!Leased, ThingKnown
<1>4. CASE \E s \in Repair!Mended : Repair!Changes(s, thing.revision)
  <2>1. PICK s \in Repair!Mended : Repair!Changes(s, thing.revision)
    BY <1>4
  <2>2. s \in Repair!ThingStates
    BY <1>1, <2>1 DEF Repair!Mended, Repair!ThingStates
  <2>3. OwnerRepairs(s, thing.revision)
    BY <1>2, <2>1, <2>2 DEF Repair!Changes, Repair!Is, Repair!Owner, OwnerRepairs
  <2>4. action \notin Repair!Careful /\ action \notin Repair!FencedActions
    BY <1>1 DEF Repair!Careful, Repair!FencedActions
  <2> QED BY <1>1, <1>3, <2>3, <2>4, OwnerKeeps
<1>5. CASE Repair!Raises
  <2>1. OwnerBreaks
    BY <1>2, <1>5 DEF Repair!Raises, Repair!Ends, OwnerBreaks
  <2> QED BY <1>1, <1>3, <2>1, OwnerKeeps
<1> QED BY <1>4, <1>5 DEF Repair!SetAnyway

LEMMA InspectKeeps == ASSUME RepairInv, Repair!Inspect PROVE RepairInv'
<1>1. /\ command # None /\ command.pc = "execute" /\ UNCHANGED <<action, window, shown>>
      /\ action \in {"inspect-verified-backup"}
  BY DEF Repair!Inspect, Repair!Executing
<1>2. /\ command.seen = shown /\ thing \in Repair!Things /\ thing.revision \in Nat
      /\ thing.revision + 1 \in Nat /\ action \in Repair!Actions
  BY <1>1, AtOwner
<1>3. ~ Repair!Leased /\ ThingKnown'
  BY <1>1 DEF Repair!Leased, ThingKnown
<1>4. OwnerAnswers("SUCCEEDED") \/ OwnerAnswers("REFUSED")
  BY DEF Repair!Inspect, Repair!Declines, Repair!Owner, OwnerAnswers
<1> QED BY <1>1, <1>3, <1>4, OwnerKeeps

LEMMA BuildBundleKeeps == ASSUME RepairInv, Repair!BuildBundle PROVE RepairInv'
<1>1. /\ command # None /\ command.pc = "execute" /\ UNCHANGED <<action, window, shown>>
      /\ action \in {"rebuild-support-bundle"}
  BY DEF Repair!BuildBundle, Repair!Executing
<1>2. /\ command.seen = shown /\ thing \in Repair!Things /\ thing.revision \in Nat
      /\ thing.revision + 1 \in Nat /\ action \in Repair!Actions
  BY <1>1, AtOwner
<1>3. ~ Repair!Leased /\ ThingKnown'
  BY <1>1 DEF Repair!Leased, ThingKnown
<1>4. CASE thing.state = "free" /\ Repair!Changes("built", thing.revision)
  <2>1. OwnerRepairs("built", thing.revision)
    BY <1>2, <1>4 DEF Repair!Changes, Repair!Is, Repair!Owner, OwnerRepairs, Repair!ThingStates
  <2>2. thing.state \in Repair!Broken /\ action \notin Repair!FencedActions
    BY <1>1, <1>4 DEF Repair!Broken, Repair!BrokenRecords, Repair!FencedActions
  <2> QED BY <1>1, <1>3, <2>1, <2>2, OwnerKeeps
<1>5. CASE Repair!Raises
  <2>1. OwnerBreaks
    BY <1>2, <1>5 DEF Repair!Raises, Repair!Ends, OwnerBreaks
  <2> QED BY <1>1, <1>3, <2>1, OwnerKeeps
<1> QED BY <1>4, <1>5 DEF Repair!BuildBundle

LEMMA RestoreTargetKeeps == ASSUME RepairInv, Repair!RestoreTarget PROVE RepairInv'
<1>1. /\ command # None /\ command.pc = "execute" /\ UNCHANGED <<action, window, shown>>
      /\ action \in {"undo"}
  BY DEF Repair!RestoreTarget, Repair!Executing
<1>2. /\ command.seen = shown /\ thing \in Repair!Things /\ thing.revision \in Nat
      /\ thing.revision + 1 \in Nat /\ action \in Repair!Actions
  BY <1>1, AtOwner
<1>3. ThingKnown'
  BY <1>1 DEF ThingKnown
<1>4. CASE thing.state = "kept" /\ ~ thing.held /\ Repair!Changes("restored", thing.revision + 1)
  <2>1. OwnerRepairs("restored", thing.revision + 1)
    BY <1>2, <1>4 DEF Repair!Changes, Repair!Is, Repair!Owner, OwnerRepairs, Repair!ThingStates
  <2>2. thing.state \in Repair!Broken /\ action \notin Repair!FencedActions
    BY <1>1, <1>4 DEF Repair!Broken, Repair!BrokenRecords, Repair!Retained, Repair!FencedActions
  <2> QED BY <1>1, <1>3, <1>4, <2>1, <2>2, OwnerKeeps
<1>5. CASE Repair!Raises
  <2>1. OwnerBreaks
    BY <1>2, <1>5 DEF Repair!Raises, Repair!Ends, OwnerBreaks
  <2> QED BY <1>1, <1>3, <2>1, OwnerKeeps
<1>6. CASE /\ thing.state = "kept" /\ Repair!Ends("FAILED_SAFE")
           /\ thing' = [thing EXCEPT !.state = "superseded"]
           /\ UNCHANGED touched
  <2>1. thing' \in Repair!Things
    BY <1>2, <1>6 DEF Repair!Things, Repair!ThingStates
  <2>2. OwnerBreaks
    BY <1>6, <2>1 DEF Repair!Ends, OwnerBreaks
  <2> QED BY <1>1, <1>3, <2>2, OwnerKeeps
<1> QED BY <1>4, <1>5, <1>6 DEF Repair!RestoreTarget

LEMMA PublishHandoffKeeps == ASSUME RepairInv, Repair!PublishHandoff PROVE RepairInv'
<1>1. /\ command # None /\ command.pc = "publish" /\ UNCHANGED <<action, window, shown>>
  BY DEF Repair!PublishHandoff
<1>2. /\ thing.revision \in Nat /\ action = "regenerate-runtime-handoff"
  BY <1>1, AtOwner
<1>3. ThingKnown' /\ action \notin Repair!Careful /\ action \notin Repair!FencedActions
  BY <1>1, <1>2 DEF ThingKnown, Repair!Careful, Repair!FencedActions
<1>4. CASE \E s \in {"current", "mislabelled", "stale"} : Repair!Changes(s, thing.revision)
  <2>1. \E s, r : OwnerRepairs(s, r)
    BY <1>2, <1>4 DEF Repair!Changes, Repair!Is, Repair!Owner, OwnerRepairs, Repair!ThingStates
  <2> QED BY <1>1, <1>3, <2>1, OwnerKeeps
<1>5. CASE Repair!Declines("REFUSED")
  BY <1>1, <1>3, <1>5, OwnerKeeps DEF Repair!Declines, Repair!Owner, OwnerAnswers
<1> QED BY <1>4, <1>5 DEF Repair!PublishHandoff

\* The handoff is checked, and the outcome written: nothing changes but the command.
LEMMA CommandKeeps ==
    ASSUME RepairInv, Repair!CheckHandoff \/ Repair!Verify
    PROVE  RepairInv'
<1>1. /\ RepairTyped /\ CommandKnows /\ OwnerLooked /\ SuccessEarned /\ ThingKnown
      /\ UNCHANGED <<action, window, shown, thing, touched>> /\ command # None
      /\ command \in Repair!Commands /\ command.pc # "REFUSED"
  BY DEF RepairInv, Repair!CheckHandoff, Repair!Verify, Repair!Executing, RepairTyped
<1>2. CASE Repair!CheckHandoff
  <2>1. /\ command.pc = "execute" /\ action = "regenerate-runtime-handoff"
        /\ \/ command' = [command EXCEPT !.pc = "publish"]
           \/ command' = [command EXCEPT !.pc = "FAILED_SAFE"]
    BY <1>2 DEF Repair!CheckHandoff, Repair!Executing, Repair!Ends
  <2>2. /\ command' \in Repair!Commands /\ command'.pc \in {"publish", "FAILED_SAFE"}
        /\ command'.seen = command.seen
    BY <1>1, <2>1 DEF Repair!Commands, Repair!Outcomes
  <2> QED BY <1>1, <2>1, <2>2 DEF RepairInv, RepairTyped, CommandKnows, OwnerLooked,
        SuccessEarned, ThingKnown,
         Repair!Broken, Repair!BrokenRecords, Repair!Leased
<1>3. CASE Repair!Verify
  <2>1. PICK said \in {"SUCCEEDED", "FAILED_SAFE", "RECOVERY_REQUIRED"} :
          /\ command' = [command EXCEPT !.pc = said]
          /\ said = "SUCCEEDED" => command.owner = "SUCCEEDED"
    BY <1>3 DEF Repair!Verify, Repair!Ends
  <2>2. /\ command' \in Repair!Commands /\ command'.pc = said /\ command'.seen = command.seen
        /\ command.pc = "verify" /\ command' # None
    BY <1>1, <1>3, <2>1, RepairAssumption DEF Repair!Commands, Repair!Outcomes, Repair!Verify
  <2>3. CommandKnows' /\ SuccessEarned'
    BY <1>1, <2>1, <2>2 DEF CommandKnows, SuccessEarned
  <2> QED BY <1>1, <2>2, <2>3 DEF RepairInv, RepairTyped, OwnerLooked, ThingKnown,
         Repair!Broken, Repair!BrokenRecords, Repair!Leased
<1> QED BY <1>2, <1>3

LEMMA RepairInitially == Repair!Init => RepairInv
<1> SUFFICES ASSUME Repair!Init PROVE RepairInv
  OBVIOUS
<1>1. /\ action \in Repair!Actions /\ window = 0 /\ shown = None /\ command = None
      /\ touched = None
  BY DEF Repair!Init
<1>2. PICK s \in {change[1] : change \in Repair!Life} \cup Repair!Broken :
        thing = Repair!Is(s, IF s = "none" THEN 0 ELSE 1, FALSE)
  BY DEF Repair!Init
<1>3. s \in Repair!ThingStates
  <2>1. CASE s \in Repair!Broken
    BY <1>1, <2>1, BrokenTyped
  <2>2. CASE s \in {change[1] : change \in Repair!Life}
    <3>1. PICK change \in Repair!Life : s = change[1]
      BY <2>2
    <3>2. change \in Repair!ThingStates \X Repair!ThingStates
      BY <1>1, <3>1, LifeTyped
    <3> QED BY <3>1, <3>2
  <2> QED BY <1>2, <2>1, <2>2
<1>4. thing \in Repair!Things
  BY <1>2, <1>3 DEF Repair!Is, Repair!Things
<1>5. ThingKnown
  BY <1>1, <1>2 DEF ThingKnown, Repair!Is, Repair!Life, Repair!Broken, Repair!BrokenRecords
<1> QED BY <1>1, <1>4, <1>5 DEF RepairInv, RepairTyped, CommandKnows, OwnerLooked, SuccessEarned

LEMMA RepairInduction == RepairInv /\ [Repair!Next]_(Repair!repairVars) => RepairInv'
<1> SUFFICES ASSUME RepairInv, [Repair!Next]_(Repair!repairVars) PROVE RepairInv'
  OBVIOUS
<1>1. CASE UNCHANGED Repair!repairVars
  BY <1>1 DEF Repair!repairVars, RepairInv, RepairTyped, CommandKnows, OwnerLooked,
     SuccessEarned, ThingKnown,
     Repair!Broken, Repair!BrokenRecords, Repair!Leased
<1> QED BY <1>1, OthersKeep, UserKeeps, CommandKeeps, ReleaseLockKeeps, RecoverOperationKeeps,
           PublishHandoffKeeps, ChangeClientKeeps, ReclaimContentKeeps, QuarantineModelKeeps,
           SetAnywayKeeps, InspectKeeps, BuildBundleKeeps, RestoreTargetKeeps DEF Repair!Next

\* However long a confirmation takes and whatever the owners do in between, a repair is
\* about what was confirmed, a careful owner changes nothing that is in use, and a success
\* is its own (RepairCommandService, ApplicationRepairAdapter, UndoService).
THEOREM RepairIsRight == Repair!Spec => []Repair!Repaired
<1>1. RepairInv => Repair!Repaired
  BY RepairAssumption DEF RepairInv, RepairTyped, CommandKnows, OwnerLooked, SuccessEarned,
     Repair!Repaired
<1> QED BY <1>1, RepairInitially, RepairInduction, PTL DEF Repair!Spec

-----------------------------------------------------------------------------
(* The command services                                                    *)
Place == [pc : {"idle", "new", "claim", "run", "map"}, cmd : Desk!Services \cup
    {"operator", None},
          op : Nat \cup {None}, interrupted : BOOLEAN]

RowsTyped ==
    /\ state \in Seq(Desk!OperationState) /\ parent \in Seq((Nat \ {0}) \cup {None})
    /\ Len(parent) = Len(state) /\ cancelled \subseteq Desk!Numbers

LeaseTyped ==
    lease # None => lease \in [op : Desk!Numbers, by : Surfaces \cup {None}, live : BOOLEAN]

\* Whoever is at work is it for a command, and drives or reports an operation that there is.
Placed(d, numbers) ==
    /\ d.pc # "idle" => d.cmd \in Desk!Services \cup {"operator"}
    /\ d.pc \in {"claim", "run", "map"} => d.op \in numbers

PlacesTyped ==
    /\ service \in Desk!Services /\ whole \in BOOLEAN /\ desk \in [Surfaces -> Place]
    /\ \A s \in Surfaces : Placed(desk[s], Desk!Numbers)

DeskInv ==
    /\ RowsTyped /\ LeaseTyped /\ PlacesTyped
    /\ Desk!AnswersDurable /\ Desk!WholeBeforeNext /\ Desk!CancelKept /\ Desk!Lineage

-----------------------------------------------------------------------------
(* The rows                                                                *)

\* One row takes one transition, or one row is new, unless nothing happens to the rows.
OneMoves ==
    \E o \in Desk!Numbers, t \in Desk!OperationState :
       /\ Desk!CanTransition(state[o], t) /\ state' = [state EXCEPT ![o] = t] /\ parent' = parent
       /\ cancelled' = cancelled \/ (t = "CANCEL_REQUESTED" /\ cancelled' = cancelled \cup {o})

OneIsNew ==
    \E from \in Desk!Numbers \cup {None} :
       /\ from # None => state[from] \in Desk!Retryable
       /\ state' = Append(state, "QUEUED") /\ parent' = Append(parent, from)
       /\ cancelled' = cancelled

RowsMove == OneMoves \/ OneIsNew \/ UNCHANGED Desk!Rows

\* Whatever can follow a state is a state, and nothing follows an end.
LEMMA FollowsTyped ==
    ASSUME NEW s \in Desk!OperationState, NEW t, Desk!CanTransition(s, t)
    PROVE  t \in Desk!OperationState /\ s \notin Desk!Terminal
<1>1. s \notin Desk!Terminal /\ t \in Desk!Transitions[s]
  BY DEF Desk!CanTransition
<1> QED BY <1>1 DEF Desk!Transitions, Desk!OperationState, Desk!Terminal

LEMMA RowsStay ==
    ASSUME RowsTyped, RowsMove
    PROVE  /\ RowsTyped' /\ Desk!Numbers \subseteq Desk!Numbers'
           /\ \A o \in Desk!Numbers :
               state'[o] = state[o] \/ Desk!CanTransition(state[o], state'[o])
           /\ \A o \in Desk!Numbers : state[o] \in Desk!Terminal => state'[o] = state[o]
<1>0. Desk!Numbers = 1..Len(state) /\ Len(state) \in Nat
  BY DEF RowsTyped, Desk!Numbers
<1>1. CASE OneMoves
  <2>1. PICK o \in Desk!Numbers, t \in Desk!OperationState :
          /\ Desk!CanTransition(state[o], t) /\ state' = [state EXCEPT ![o] = t]
          /\ parent' = parent
          /\ cancelled' = cancelled \/ (t = "CANCEL_REQUESTED" /\ cancelled' = cancelled \cup {o})
    BY <1>1 DEF OneMoves
  <2>2. /\ state' \in Seq(Desk!OperationState) /\ Len(state') = Len(state)
        /\ DOMAIN state' = DOMAIN state
    BY <2>1 DEF RowsTyped, Desk!Numbers
  <2>3. \A p \in Desk!Numbers : state'[p] = IF p = o THEN t ELSE state[p]
    BY <2>1 DEF RowsTyped, Desk!Numbers
  <2>4. state[o] \notin Desk!Terminal
    BY <2>1 DEF Desk!CanTransition
  <2>5. RowsTyped'
    BY <2>1, <2>2 DEF RowsTyped, Desk!Numbers
  <2> QED BY <2>1, <2>2, <2>3, <2>4, <2>5 DEF Desk!Numbers
<1>2. CASE OneIsNew
  <2>1. PICK from \in Desk!Numbers \cup {None} :
          state' = Append(state, "QUEUED") /\ parent' = Append(parent, from)
            /\ cancelled' = cancelled
    BY <1>2 DEF OneIsNew
  <2>2. "QUEUED" \in Desk!OperationState /\ from \in (Nat \ {0}) \cup {None}
    BY <1>0 DEF Desk!OperationState
  <2>3. /\ state' \in Seq(Desk!OperationState) /\ Len(state') = Len(state) + 1
        /\ parent' \in Seq((Nat \ {0}) \cup {None}) /\ Len(parent') = Len(parent) + 1
    BY <2>1, <2>2 DEF RowsTyped
  <2>4. Desk!Numbers' = 1..(Len(state) + 1)
    BY <2>3 DEF Desk!Numbers
  <2>5. \A p \in Desk!Numbers : state'[p] = state[p]
    BY <1>0, <2>1, <2>2 DEF RowsTyped
  <2> QED BY <1>0, <2>1, <2>3, <2>4, <2>5 DEF RowsTyped
<1>3. CASE UNCHANGED Desk!Rows
  BY <1>3 DEF Desk!Rows, RowsTyped, Desk!Numbers
<1> QED BY <1>1, <1>2, <1>3 DEF RowsMove

\* An accepted cancellation stays one, and a retry keeps the ended operation it is of.
LEMMA RowsKeepWord ==
    ASSUME RowsTyped, Desk!CancelKept, Desk!Lineage, RowsMove
    PROVE  Desk!CancelKept' /\ Desk!Lineage'
<1>0. /\ Desk!Numbers \subseteq Desk!Numbers' /\ Desk!Numbers = 1..Len(state)
      /\ Len(state) \in Nat
      /\ \A o \in Desk!Numbers : state'[o] = state[o] \/ Desk!CanTransition(state[o], state'[o])
      /\ \A o \in Desk!Numbers : state[o] \in Desk!Terminal => state'[o] = state[o]
  BY RowsStay DEF RowsTyped, Desk!Numbers
<1>1. ASSUME NEW o \in cancelled'
      PROVE  state'[o] \in {"CANCEL_REQUESTED", "ROLLING_BACK", "CANCELLED", "FAILED_ROLLED_BACK",
                            "RECOVERY_REQUIRED"}
  <2>1. CASE o \in cancelled
    <3>1. /\ o \in Desk!Numbers
          /\ state[o] \in {"CANCEL_REQUESTED", "ROLLING_BACK", "CANCELLED", "FAILED_ROLLED_BACK",
                           "RECOVERY_REQUIRED"}
      BY <2>1 DEF Desk!CancelKept, RowsTyped
    <3>2. CASE state'[o] = state[o]
      BY <3>1, <3>2
    <3>3. CASE Desk!CanTransition(state[o], state'[o])
      BY <3>1, <3>3 DEF Desk!CanTransition, Desk!Transitions, Desk!Terminal
    <3> QED BY <1>0, <3>1, <3>2, <3>3
  <2>2. CASE o \notin cancelled
    <3>1. CASE OneMoves
      <4>1. PICK p \in Desk!Numbers, t \in Desk!OperationState :
              /\ state' = [state EXCEPT ![p] = t]
              /\ cancelled' = cancelled
                   \/ (t = "CANCEL_REQUESTED" /\ cancelled' = cancelled \cup {p})
        BY <3>1 DEF OneMoves
      <4>2. o = p /\ t = "CANCEL_REQUESTED"
        BY <1>1, <2>2, <4>1
      <4>3. state'[o] = t
        BY <4>1, <4>2 DEF Desk!Numbers
      <4> QED BY <4>2, <4>3
    <3>2. ~ OneIsNew /\ ~ UNCHANGED Desk!Rows
      BY <1>1, <2>2 DEF OneIsNew, Desk!Rows
    <3> QED BY <3>1, <3>2 DEF RowsMove
  <2> QED BY <2>1, <2>2
<1>2. ASSUME NEW o \in Desk!Numbers', parent'[o] # None
      PROVE  parent'[o] < o /\ state'[parent'[o]] \in Desk!Retryable
  <2>1. ASSUME NEW p \in Desk!Numbers, state[p] \in Desk!Retryable
        PROVE  state'[p] \in Desk!Retryable
    BY <1>0, <2>1 DEF Desk!Retryable, Desk!Terminal
  <2>2. ASSUME o \in Desk!Numbers, parent'[o] = parent[o]
        PROVE  parent'[o] < o /\ state'[parent'[o]] \in Desk!Retryable
    <3>1. /\ parent[o] < o /\ state[parent[o]] \in Desk!Retryable
          /\ parent[o] \in (Nat \ {0}) \cup {None}
      BY <1>0, <1>2, <2>2 DEF Desk!Lineage, RowsTyped
    <3>2. parent[o] \in Nat \ {0}
      BY <1>2, <2>2, <3>1
    <3> QED BY <1>0, <2>1, <2>2, <3>1, <3>2 DEF Desk!Lineage
  <2>3. CASE parent' = parent /\ Desk!Numbers' = Desk!Numbers
    BY <2>2, <2>3
  <2>4. CASE OneIsNew
    <3>1. PICK from \in Desk!Numbers \cup {None} :
            /\ from # None => state[from] \in Desk!Retryable
            /\ state' = Append(state, "QUEUED") /\ parent' = Append(parent, from)
      BY <2>4 DEF OneIsNew
    <3>2. Desk!Numbers' = 1..(Len(state) + 1) /\ Len(parent) = Len(state)
      BY <1>0, <3>1 DEF Desk!Numbers, RowsTyped
    <3>3. CASE o \in Desk!Numbers
      <4>1. parent'[o] = parent[o]
        BY <1>0, <3>1, <3>2, <3>3 DEF RowsTyped
      <4> QED BY <2>2, <3>3, <4>1
    <3>4. CASE o \notin Desk!Numbers
      <4>1. o = Len(state) + 1
        BY <1>0, <3>2, <3>4
      <4>2. parent'[o] = from
        BY <1>0, <3>1, <3>2, <4>1 DEF RowsTyped
      <4>3. from \in Desk!Numbers /\ state[from] \in Desk!Retryable
        BY <1>2, <3>1, <4>2
      <4> QED BY <1>0, <2>1, <4>1, <4>2, <4>3
    <3> QED BY <3>3, <3>4
  <2>5. CASE OneMoves
    <3>1. parent' = parent /\ Desk!Numbers' = Desk!Numbers
      BY <2>5 DEF OneMoves, Desk!Numbers, RowsTyped
    <3> QED BY <2>3, <3>1
  <2>6. CASE UNCHANGED Desk!Rows
    <3>1. parent' = parent /\ Desk!Numbers' = Desk!Numbers
      BY <2>6 DEF Desk!Rows, Desk!Numbers
    <3> QED BY <2>3, <3>1
  <2> QED BY <2>4, <2>5, <2>6 DEF RowsMove
<1> QED BY <1>1, <1>2 DEF Desk!CancelKept, Desk!Lineage

-----------------------------------------------------------------------------
(* The surfaces                                                            *)

\* A surface moves to a place where it has its operation.
DeskMoves ==
    \/ desk' = desk
    \/ \E s \in Surfaces, d \in Place : Placed(d, Desk!Numbers') /\ desk' = [desk EXCEPT ![s] = d]

\* Nobody takes the lease, and nobody begins to run.
LeaseStays ==
    \/ lease' = lease
    \/ lease # None /\ lease' \in {[lease EXCEPT !.by = None], [lease EXCEPT !.live = FALSE]}

NoneBegins == \A s \in Surfaces : desk'[s].pc = "run" => desk'[s] = desk[s]

LEMMA PlacesKept ==
    ASSUME PlacesTyped, Desk!Numbers \subseteq Desk!Numbers', DeskMoves, service' = service,
        whole' \in BOOLEAN
    PROVE  PlacesTyped'
<1>1. CASE desk' = desk
  BY <1>1 DEF PlacesTyped, Placed
<1>2. ASSUME NEW s \in Surfaces, NEW d \in Place, Placed(d, Desk!Numbers'),
        desk' = [desk EXCEPT ![s] = d]
      PROVE  PlacesTyped'
  <2>1. desk' \in [Surfaces -> Place]
    BY <1>2 DEF PlacesTyped
  <2>2. ASSUME NEW r \in Surfaces
        PROVE  Placed(desk'[r], Desk!Numbers')
    <3>1. CASE r = s
      BY <1>2, <3>1 DEF PlacesTyped
    <3>2. CASE r # s
      <4>1. desk'[r] = desk[r] /\ Placed(desk[r], Desk!Numbers)
        BY <1>2, <3>2 DEF PlacesTyped
      <4> QED BY <4>1 DEF Placed
    <3> QED BY <3>1, <3>2
  <2> QED BY <2>1, <2>2 DEF PlacesTyped
<1> QED BY <1>1, <1>2 DEF DeskMoves

LEMMA LeaseKept ==
    ASSUME LeaseTyped, Desk!Numbers \subseteq Desk!Numbers', LeaseStays \/ lease' = None
    PROVE  LeaseTyped'
  BY DEF LeaseTyped, LeaseStays

\* Behind a barrier nothing runs, and nothing begins to.
LEMMA BarrierKept ==
    ASSUME Desk!WholeBeforeNext, RowsTyped, LeaseTyped, PlacesTyped, whole' = whole \/ whole',
           LeaseStays, NoneBegins,
           \A o \in Desk!Numbers : state[o] \in Desk!Terminal => state'[o] = state[o]
    PROVE  Desk!WholeBeforeNext'
<1> SUFFICES ASSUME ~ whole'
             PROVE  /\ lease' # None /\ state'[lease'.op] = "RECOVERY_REQUIRED"
                    /\ \A s \in Surfaces : desk'[s].pc = "run" => ~ Desk!Owns(s)'
  BY DEF Desk!WholeBeforeNext
<1>1. /\ lease # None /\ state[lease.op] = "RECOVERY_REQUIRED"
      /\ \A s \in Surfaces : desk[s].pc = "run" => ~ Desk!Owns(s)
  BY DEF Desk!WholeBeforeNext
<1>2. lease \in [op : Desk!Numbers, by : Surfaces \cup {None}, live : BOOLEAN]
  BY <1>1 DEF LeaseTyped
<1>3. /\ lease'.op = lease.op /\ (lease'.by = lease.by \/ lease'.by = None)
      /\ lease'.live => lease.live
      /\ lease' \in [op : Desk!Numbers, by : Surfaces \cup {None}, live : BOOLEAN]
  <2>1. CASE lease' = lease
    BY <1>2, <2>1
  <2>2. CASE lease' = [lease EXCEPT !.by = None]
    BY <1>2, <2>2
  <2>3. CASE lease' = [lease EXCEPT !.live = FALSE]
    BY <1>2, <2>3
  <2> QED BY <2>1, <2>2, <2>3 DEF LeaseStays
<1>4. lease' # None
  <2>1. Desk!Numbers \subseteq Nat
    BY DEF Desk!Numbers, RowsTyped
  <2> QED BY <1>3, <2>1, DeskAssumption
<1>5. state'[lease'.op] = "RECOVERY_REQUIRED"
  BY <1>1, <1>2, <1>3 DEF Desk!Terminal
<1>6. ASSUME NEW s \in Surfaces, desk'[s].pc = "run", Desk!Owns(s)'
      PROVE  FALSE
  <2>1. desk'[s] = desk[s] /\ ~ Desk!Owns(s)
    BY <1>1, <1>6 DEF NoneBegins
  <2>2. lease'.by = s /\ lease'.op = desk'[s].op /\ lease'.live
    BY <1>6 DEF Desk!Owns
  <2> QED BY <1>1, <1>3, <2>1, <2>2, DeskAssumption DEF Desk!Owns
<1> QED BY <1>4, <1>5, <1>6

\* What is behind no barrier may well run.
LEMMA WholeKept ==
    ASSUME whole'
    PROVE  Desk!WholeBeforeNext'
  BY DEF Desk!WholeBeforeNext

LEMMA Unsaid ==
    ASSUME told' = None
    PROVE  Desk!AnswersDurable'
  BY DEF Desk!AnswersDurable

\* The oldest of the operations is one of them.
LEMMA MinMember ==
    ASSUME NEW S, S \subseteq Nat, S # {}
    PROVE  Desk!Min(S) \in S
<1>1. PICK x \in S : \A y \in S : ~ (<<y, x>> \in OpToRel(<, Nat))
  BY NatLessThanWellFounded, WFMin
<1>2. \A y \in S : ~ (y < x)
  BY <1>1, Zenon DEF OpToRel
<1>3. \A y \in S : x =< y
  BY <1>2
<1> QED BY <1>3 DEF Desk!Min

\* A step keeps the invariant that moves rows, lease and places as above and answers
\* nothing but what is durable.
LEMMA Steady ==
    ASSUME DeskInv, RowsMove, service' = service, whole' = whole \/ whole', whole' \in BOOLEAN,
           DeskMoves, LeaseStays, NoneBegins, Desk!AnswersDurable'
    PROVE  DeskInv'
<1>1. /\ RowsTyped /\ LeaseTyped /\ PlacesTyped /\ Desk!WholeBeforeNext
      /\ Desk!CancelKept /\ Desk!Lineage
  BY DEF DeskInv
<1>2. /\ RowsTyped' /\ Desk!Numbers \subseteq Desk!Numbers'
      /\ \A o \in Desk!Numbers : state[o] \in Desk!Terminal => state'[o] = state[o]
  BY <1>1, RowsStay
<1>3. Desk!CancelKept' /\ Desk!Lineage'
  BY <1>1, RowsKeepWord
<1>4. PlacesTyped'
  BY <1>1, <1>2, PlacesKept
<1>5. LeaseTyped'
  BY <1>1, <1>2, LeaseKept
<1>6. Desk!WholeBeforeNext'
  BY <1>1, <1>2, BarrierKept
<1> QED BY <1>2, <1>3, <1>4, <1>5, <1>6 DEF DeskInv

\* So does one before which, and after which, the runtime is whole.
LEMMA SteadyWhole ==
    ASSUME DeskInv, RowsMove, service' = service, whole', whole' \in BOOLEAN, DeskMoves,
           lease' = None
               \/ lease' \in [op : Desk!Numbers, by : Surfaces \cup {None}, live : BOOLEAN],
           Desk!AnswersDurable'
    PROVE  DeskInv'
<1>1. RowsTyped /\ LeaseTyped /\ PlacesTyped /\ Desk!CancelKept /\ Desk!Lineage
  BY DEF DeskInv
<1>2. RowsTyped' /\ Desk!Numbers \subseteq Desk!Numbers'
  BY <1>1, RowsStay
<1>3. Desk!CancelKept' /\ Desk!Lineage'
  BY <1>1, RowsKeepWord
<1>4. PlacesTyped'
  BY <1>1, <1>2, PlacesKept
<1>5. LeaseTyped'
  BY <1>2 DEF LeaseTyped
<1>6. Desk!WholeBeforeNext'
  BY WholeKept
<1> QED BY <1>2, <1>3, <1>4, <1>5, <1>6 DEF DeskInv

-----------------------------------------------------------------------------
(* What a surface answers                                                  *)

\* An answer that is no end, or the one that always may be one, needs no row.
LEMMA Guarded ==
    ASSUME NEW o, NEW c, NEW says,
           says \in {"BUSY", "DETACHED", "RECOVERY_REQUIRED", "PAUSED"}, Desk!Tells(o, c, says)
    PROVE  Desk!AnswersDurable'
<1>1. told' # None => told'.says = says
  BY DEF Desk!Tells
<1> QED BY <1>1 DEF Desk!AnswersDurable

\* _map answers with an end only if it is the operation's, but for the two services that
\* answer FAILED_SAFE for what they have no word for.
LEMMA SaysWhatIs ==
    ASSUME NEW c \in Desk!Services \cup {"operator"}, NEW s \in Desk!OperationState
    PROVE  /\ Desk!Says(c, s) \in {"SUCCEEDED", "CANCELLED", "FAILED_ROLLED_BACK"} =>
               s = Desk!Says(c, s)
           /\ Desk!Says(c, s) = "FAILED_SAFE" /\ c \notin {"cleanup", "update"} =>
               s = "FAILED_SAFE"
<1>1. /\ Desk!Kinds[c].paused \in {"BUSY", "PAUSED", "FAILED_SAFE"}
      /\ Desk!Kinds[c].other \in {"RECOVERY_REQUIRED", "BUSY", "FAILED_SAFE", "row"}
      /\ "FAILED_SAFE" \in {Desk!Kinds[c].paused, Desk!Kinds[c].other} =>
          c \in {"cleanup", "update"}
  BY DEF Desk!Kinds, Desk!Command, Desk!Services, Desk!Activation, Desk!Runtime,
     Desk!Acquisition, Desk!Removal, Desk!Calibration, Desk!Setup,
         Desk!Cleanup, Desk!Update, Desk!Create, Desk!Restore, Desk!Operator
<1> QED BY <1>1 DEF Desk!Says

LEMMA TellsWhatIs ==
    ASSUME NEW o \in Desk!Numbers, NEW c, NEW says, UNCHANGED state, Desk!Tells(o, c, says),
           says \in {"SUCCEEDED", "CANCELLED", "FAILED_ROLLED_BACK"} => state[o] = says,
           says = "FAILED_SAFE" /\ c \notin {"cleanup", "update"} => state[o] = "FAILED_SAFE"
    PROVE  Desk!AnswersDurable'
<1>1. told' = None \/ told' = [op |-> o, by |-> c, says |-> says]
  BY DEF Desk!Tells
<1> QED BY <1>1 DEF Desk!AnswersDurable

-----------------------------------------------------------------------------
(* The steps                                                               *)

\* Where a surface sends an operation of its rows.
LEMMA Sends ==
    ASSUME PlacesTyped, RowsTyped, NEW s \in Surfaces, NEW d,
           d \in Place, Placed(d, Desk!Numbers'),
           desk' = [desk EXCEPT ![s] = d],
           d.pc = "run" => d = desk[s]
    PROVE  DeskMoves /\ NoneBegins
<1>1. DeskMoves
  BY DEF DeskMoves
<1>2. ASSUME NEW r \in Surfaces, desk'[r].pc = "run"
      PROVE  desk'[r] = desk[r]
  <2>1. CASE r = s
    BY <1>2, <2>1 DEF PlacesTyped
  <2>2. CASE r # s
    BY <1>2, <2>2 DEF PlacesTyped
  <2> QED BY <2>1, <2>2
<1> QED BY <1>1, <1>2 DEF NoneBegins

\* Answers at once leave everything as it is.
LEMMA AnswersKeep ==
    ASSUME DeskInv, NEW s \in Surfaces,
           \/ Desk!StartBarred(s) \/ Desk!StartBusy(s)
           \/ \E o \in Desk!Numbers : Desk!Detach(s, o) \/ Desk!Wait(s, o)
    PROVE  DeskInv'
<1>1. UNCHANGED <<service, Desk!Rows, lease, whole, desk>>
  BY DEF Desk!StartBarred, Desk!StartBusy, Desk!Detach, Desk!Wait
<1>2. Desk!AnswersDurable'
  <2>1. CASE Desk!StartBarred(s)
    BY <2>1, Guarded DEF Desk!StartBarred
  <2>2. CASE Desk!StartBusy(s)
    BY <2>2, Guarded DEF Desk!StartBusy
  <2>3. ASSUME NEW o \in Desk!Numbers, Desk!Detach(s, o)
        PROVE  Desk!AnswersDurable'
    BY <2>3, Guarded DEF Desk!Detach
  <2>4. ASSUME NEW o \in Desk!Numbers, Desk!Wait(s, o)
        PROVE  Desk!AnswersDurable'
    <3>1. UNCHANGED state /\ Desk!Tells(o, "operator", state[o])
      BY <2>4 DEF Desk!Wait, Desk!Rows
    <3> QED BY <3>1, TellsWhatIs
  <2> QED BY <2>1, <2>2, <2>3, <2>4
<1>3. /\ RowsMove /\ service' = service /\ whole' = whole /\ whole' \in BOOLEAN /\ DeskMoves
      /\ LeaseStays /\ NoneBegins
  BY <1>1 DEF RowsMove, DeskMoves, LeaseStays, NoneBegins, DeskInv, PlacesTyped
<1> QED BY <1>2, <1>3, Steady

\* Whoever is sent to an operation is there for a command.
LEMMA SentKeeps ==
    ASSUME DeskInv, NEW s \in Surfaces, NEW d, d \in Place, Placed(d, Desk!Numbers),
           d.pc = "run" => d = desk[s],
           desk' = [desk EXCEPT ![s] = d], UNCHANGED <<service, Desk!Rows, whole>>, LeaseStays,
           Desk!AnswersDurable'
    PROVE  DeskInv'
<1>1. /\ RowsMove /\ Desk!Numbers' = Desk!Numbers /\ service' = service
      /\ whole' = whole /\ whole' \in BOOLEAN
  BY DEF RowsMove, Desk!Rows, Desk!Numbers, DeskInv, PlacesTyped
<1>2. DeskMoves /\ NoneBegins
  BY <1>1, Sends DEF DeskInv
<1> QED BY <1>1, <1>2, Steady

LEMMA LeftStays ==
    ASSUME NEW s, lease' = Desk!Left(s)
    PROVE  LeaseStays
  BY DEF Desk!Left, LeaseStays

LEMMA StartsKeep ==
    ASSUME DeskInv, NEW s \in Surfaces,
           \/ Desk!StartResumes(s) \/ Desk!StartNew(s) \/ Desk!Adopt(s)
               \/ \E o \in Desk!Numbers : Desk!Recover(s, o)
    PROVE  DeskInv'
<1>0. /\ service \in Desk!Services /\ Desk!Numbers \subseteq Nat
  BY DEF DeskInv, PlacesTyped, RowsTyped, Desk!Numbers
<1>1. UNCHANGED <<service, Desk!Rows, lease, whole>> /\ told' = None
  BY DEF Desk!StartResumes, Desk!StartNew, Desk!Adopt, Desk!Recover, Desk!Silent
<1>2. LeaseStays /\ Desk!AnswersDurable'
  BY <1>1, Unsaid DEF LeaseStays
<1>3. CASE Desk!StartNew(s)
  <2> DEFINE d == [Desk!Idle EXCEPT !.pc = "new", !.cmd = service]
  <2>1. desk' = [desk EXCEPT ![s] = d]
    BY <1>3 DEF Desk!StartNew
  <2>2. d \in Place /\ Placed(d, Desk!Numbers) /\ d.pc # "run"
    BY <1>0 DEF Desk!Idle, Place, Placed
  <2> QED BY <1>1, <1>2, <2>1, <2>2, SentKeeps
<1>4. ASSUME NEW c \in Desk!Services \cup {"operator"}, NEW o \in Desk!Numbers,
             desk' = [desk EXCEPT ![s] = [Desk!Idle EXCEPT !.pc = "claim", !.cmd = c, !.op = o]]
      PROVE  DeskInv'
  <2> DEFINE d == [Desk!Idle EXCEPT !.pc = "claim", !.cmd = c, !.op = o]
  <2>1. d \in Place /\ Placed(d, Desk!Numbers) /\ d.pc # "run"
    BY <1>0 DEF Desk!Idle, Place, Placed
  <2>2. desk' = [desk EXCEPT ![s] = d]
    BY <1>4
  <2> HIDE DEF d
  <2> QED BY <1>1, <1>2, <2>1, <2>2, SentKeeps
<1>5. CASE Desk!StartResumes(s)
  <2>1. Desk!Min(Desk!Unfinished) \in Desk!Numbers
    BY <1>0, <1>5, MinMember DEF Desk!StartResumes, Desk!Unfinished
  <2> QED BY <1>0, <1>4, <1>5, <2>1 DEF Desk!StartResumes
<1>6. CASE Desk!Adopt(s)
  BY <1>4, <1>6 DEF Desk!Adopt, Desk!Drive
<1>7. ASSUME NEW o \in Desk!Numbers, Desk!Recover(s, o)
      PROVE  DeskInv'
  BY <1>4, <1>7 DEF Desk!Recover, Desk!Drive
<1> QED BY <1>3, <1>5, <1>6, <1>7

LEMMA EnqueueKeeps ==
    ASSUME DeskInv, NEW s \in Surfaces, Desk!Enqueue(s)
    PROVE  DeskInv'
<1>1. /\ OneIsNew /\ UNCHANGED <<service, lease, whole>>
  BY DEF Desk!Enqueue, Desk!Created, OneIsNew
<1>2. /\ RowsMove /\ service' = service /\ whole' = whole /\ whole' \in BOOLEAN /\ LeaseStays
  BY <1>1 DEF RowsMove, LeaseStays, DeskInv, PlacesTyped
<1>3. Desk!Numbers' = 1..(Len(state) + 1) /\ Len(state) \in Nat
  BY <1>1 DEF OneIsNew, Desk!Numbers, DeskInv, RowsTyped
<1>4. desk[s] \in Place /\ Placed(desk[s], Desk!Numbers) /\ desk[s].pc = "new"
  BY DEF Desk!Enqueue, DeskInv, PlacesTyped
<1>5. PlacesTyped /\ RowsTyped
  BY DEF DeskInv
<1>6. ASSUME desk' = [desk EXCEPT ![s] = [@ EXCEPT !.pc = "claim", !.op = Len(state) + 1]],
        told' = None
      PROVE  DeskInv'
  <2> DEFINE d == [desk[s] EXCEPT !.pc = "claim", !.op = Len(state) + 1]
  <2>0. /\ d.pc = "claim" /\ d.op = Len(state) + 1 /\ d.cmd = desk[s].cmd /\ d \in Place
        /\ desk[s].cmd \in Desk!Services \cup {"operator"}
    <3>1. Len(state) + 1 \in Nat \cup {None}
      BY <1>3
    <3>2. d.pc = "claim" /\ d.op = Len(state) + 1 /\ d.cmd = desk[s].cmd /\ d \in Place
      BY <1>4, <3>1 DEF Place
    <3> QED BY <1>4, <3>2 DEF Placed
  <2>2. desk' = [desk EXCEPT ![s] = d]
    BY <1>6
  <2>1. d \in Place /\ Placed(d, Desk!Numbers') /\ d.pc # "run"
    <3> HIDE DEF d
    <3> QED BY <1>3, <2>0 DEF Placed
  <2> HIDE DEF d
  <2>3. DeskMoves /\ NoneBegins
    BY <1>5, <2>1, <2>2, Sends
  <2> QED BY <1>2, <1>6, <2>3, Steady, Unsaid
<1>7. ASSUME desk' = [desk EXCEPT ![s] = Desk!Idle], Desk!AnswersDurable'
      PROVE  DeskInv'
  <2>1. Desk!Idle \in Place /\ Placed(Desk!Idle, Desk!Numbers') /\ Desk!Idle.pc # "run"
    BY DEF Desk!Idle, Place, Placed
  <2>2. DeskMoves /\ NoneBegins
    BY <1>5, <1>7, <2>1, Sends
  <2> QED BY <1>2, <1>7, <2>2, Steady
<1>8. CASE told' = None
  BY <1>6, <1>7, <1>8, Unsaid DEF Desk!Enqueue, Desk!Answer
<1>9. CASE Desk!Answer(s, Len(state) + 1, "DETACHED")
  BY <1>7, <1>9, Guarded DEF Desk!Answer
<1> QED BY <1>8, <1>9 DEF Desk!Enqueue, Desk!Silent

LEMMA ClaimKeeps ==
    ASSUME DeskInv, NEW s \in Surfaces, Desk!Claim(s)
    PROVE  DeskInv'
<1> DEFINE o == desk[s].op
<1>0. /\ desk[s] \in Place /\ Placed(desk[s], Desk!Numbers) /\ desk[s].pc = "claim"
      /\ o \in Desk!Numbers
      /\ PlacesTyped /\ RowsTyped
  BY DEF Desk!Claim, DeskInv, PlacesTyped, Placed
<1>1. UNCHANGED <<service, parent, cancelled, whole>> /\ whole' \in BOOLEAN
  BY DEF Desk!Claim, DeskInv, PlacesTyped
<1> HIDE DEF o
<1>2. ASSUME desk' = [desk EXCEPT ![s].pc = "map"], UNCHANGED <<state, lease>>, told' = None
      PROVE  DeskInv'
  <2> DEFINE d == [desk[s] EXCEPT !.pc = "map"]
  <2>1. d \in Place /\ Placed(d, Desk!Numbers) /\ d.pc # "run"
    BY <1>0 DEF Place, Placed, o
  <2>2. desk' = [desk EXCEPT ![s] = d] /\ UNCHANGED Desk!Rows /\ LeaseStays
    BY <1>1, <1>2 DEF Desk!Rows, LeaseStays
  <2> HIDE DEF d
  <2> QED BY <1>1, <1>2, <2>1, <2>2, SentKeeps, Unsaid
<1>3. ASSUME Desk!Answer(s, o, "BUSY"), UNCHANGED <<state, lease>>
      PROVE  DeskInv'
  <2>1. Desk!Idle \in Place /\ Placed(Desk!Idle, Desk!Numbers) /\ Desk!Idle.pc # "run"
    BY DEF Desk!Idle, Place, Placed
  <2>2. /\ desk' = [desk EXCEPT ![s] = Desk!Idle] /\ UNCHANGED Desk!Rows /\ LeaseStays
        /\ Desk!AnswersDurable'
    BY <1>1, <1>3, Guarded DEF Desk!Answer, Desk!Rows, LeaseStays
  <2> QED BY <1>1, <2>1, <2>2, SentKeeps
<1>4. ASSUME Desk!Acquirable, lease' = [op |-> o, by |-> s, live |-> TRUE], told' = None,
             state' = IF state[o] = "QUEUED" THEN [state EXCEPT ![o] = "PREPARING"] ELSE state,
             desk' = [desk EXCEPT ![s].pc = "run"]
      PROVE  DeskInv'
  <2> DEFINE d == [desk[s] EXCEPT !.pc = "run"]
  <2>1. RowsMove
    <3>1. CASE state[o] = "QUEUED"
      <4>1. Desk!CanTransition(state[o], "PREPARING") /\ "PREPARING" \in Desk!OperationState
        BY <3>1 DEF Desk!CanTransition, Desk!Terminal, Desk!Transitions, Desk!OperationState
      <4> QED BY <1>0, <1>1, <1>4, <3>1, <4>1 DEF RowsMove, OneMoves
    <3>2. CASE state[o] # "QUEUED"
      BY <1>1, <1>4, <3>2 DEF RowsMove, Desk!Rows
    <3> QED BY <3>1, <3>2
  <2>2. Desk!Numbers \subseteq Desk!Numbers'
    BY <1>0, <2>1, RowsStay
  <2>3. d \in Place /\ Placed(d, Desk!Numbers')
    BY <1>0, <2>2 DEF Place, Placed, o
  <2>4. desk' = [desk EXCEPT ![s] = d]
    BY <1>4
  <2> HIDE DEF d
  <2>5. DeskMoves
    BY <2>3, <2>4 DEF DeskMoves
  <2>6. whole'
    BY <1>1, <1>4 DEF Desk!Acquirable, DeskInv, Desk!WholeBeforeNext
  <2>7. lease' \in [op : Desk!Numbers, by : Surfaces \cup {None}, live : BOOLEAN]
    BY <1>0, <1>4
  <2> QED BY <1>1, <1>4, <2>1, <2>5, <2>6, <2>7, SteadyWhole, Unsaid
<1> QED BY <1>2, <1>3, <1>4 DEF Desk!Claim, Desk!Silent, o

\* What the engine of a run does with its row.
LEMMA RunKeeps ==
    ASSUME DeskInv, NEW s \in Surfaces, Desk!Advance(s) \/ Desk!End(s) \/ Desk!Pause(s)
    PROVE  DeskInv'
<1> DEFINE o == desk[s].op
<1>0. /\ desk[s] \in Place /\ Placed(desk[s], Desk!Numbers) /\ desk[s].pc = "run"
      /\ o \in Desk!Numbers
      /\ PlacesTyped /\ RowsTyped /\ LeaseTyped /\ whole \in BOOLEAN
  BY DEF Desk!Advance, Desk!End, Desk!Pause, DeskInv, PlacesTyped, Placed
<1>1. /\ UNCHANGED <<service, parent, cancelled>> /\ Desk!AnswersDurable' /\ Desk!Owns(s)
  BY Unsaid DEF Desk!Advance, Desk!End, Desk!Pause, Desk!Silent
<1>2. whole
  BY <1>0, <1>1 DEF DeskInv, Desk!WholeBeforeNext
<1> HIDE DEF o
<1>3. ASSUME NEW t, Desk!CanTransition(state[o], t), state' = [state EXCEPT ![o] = t]
      PROVE  RowsMove /\ Desk!Numbers \subseteq Desk!Numbers'
  <2>1. state[o] \in Desk!OperationState
    BY <1>0 DEF RowsTyped, Desk!Numbers
  <2>2. t \in Desk!OperationState
    BY <1>3, <2>1, FollowsTyped
  <2>3. RowsMove
    BY <1>0, <1>1, <1>3, <2>2 DEF RowsMove, OneMoves
  <2> QED BY <1>0, <2>3, RowsStay
<1>4. ASSUME Desk!Numbers \subseteq Desk!Numbers', desk' = [desk EXCEPT ![s].pc = "map"]
      PROVE  /\ DeskMoves
             /\ \A r \in Surfaces : r # s => desk'[r] = desk[r]
             /\ desk'[s].pc = "map"
  <2> DEFINE d == [desk[s] EXCEPT !.pc = "map"]
  <2>1. d \in Place /\ Placed(d, Desk!Numbers') /\ d.pc = "map"
    BY <1>0, <1>4 DEF Place, Placed, o
  <2>2. desk' = [desk EXCEPT ![s] = d]
    BY <1>4
  <2> HIDE DEF d
  <2> QED BY <1>0, <2>1, <2>2 DEF DeskMoves, PlacesTyped
<1>5. CASE Desk!Advance(s)
  <2>1. PICK t \in {"RUNNING", "COMMITTING", "ROLLING_BACK"} :
          Desk!CanTransition(state[o], t) /\ state' = [state EXCEPT ![o] = t]
    BY <1>5 DEF Desk!Advance, o
  <2>2. RowsMove
    BY <1>3, <2>1
  <2>3. desk' = desk /\ lease' = lease /\ whole' = whole
    BY <1>5 DEF Desk!Advance
  <2>4. DeskMoves /\ LeaseStays /\ NoneBegins
    BY <2>3 DEF DeskMoves, LeaseStays, NoneBegins
  <2> QED BY <1>0, <1>1, <2>2, <2>3, <2>4, Steady
<1>6. CASE Desk!Pause(s)
  <2>1. /\ Desk!CanTransition(state[o], "PAUSED") /\ state' = [state EXCEPT ![o] = "PAUSED"]
        /\ lease' = None /\ desk' = [desk EXCEPT ![s].pc = "map"] /\ whole' = whole
    BY <1>6 DEF Desk!Pause, o
  <2>2. RowsMove /\ DeskMoves
    BY <1>3, <1>4, <2>1
  <2> QED BY <1>0, <1>1, <1>2, <2>1, <2>2, SteadyWhole
<1>7. CASE Desk!End(s)
  <2>1. PICK t \in Desk!Ends(o) :
          /\ state' = [state EXCEPT ![o] = t]
          /\ lease' = IF t = "RECOVERY_REQUIRED" THEN Desk!Left(s) ELSE None
          /\ \/ whole' = whole
             \/ t = "RECOVERY_REQUIRED" /\ service = "runtime" /\ whole' = FALSE
    BY <1>7 DEF Desk!End, o
  <2>2. Desk!CanTransition(state[o], t) /\ desk' = [desk EXCEPT ![s].pc = "map"]
    BY <1>7, <2>1 DEF Desk!Ends, Desk!End
  <2>3. RowsMove /\ DeskMoves /\ Desk!Numbers \subseteq Desk!Numbers'
    BY <1>3, <1>4, <2>1, <2>2
  <2>4. /\ lease \in [op : Desk!Numbers, by : Surfaces \cup {None}, live : BOOLEAN]
        /\ lease.op = o /\ lease.by = s /\ lease # None
    BY <1>0, <1>1 DEF Desk!Owns, LeaseTyped, o
  <2>5. Desk!Left(s) = [lease EXCEPT !.by = None]
    BY <2>4 DEF Desk!Left
  <2>6. lease' = None \/ lease' \in [op : Desk!Numbers, by : Surfaces \cup {None}, live : BOOLEAN]
    BY <2>1, <2>4, <2>5
  <2>7. CASE whole'
    BY <1>1, <2>3, <2>6, <2>7, SteadyWhole
  <2>8. CASE ~ whole'
    <3>1. t = "RECOVERY_REQUIRED" /\ lease' = [lease EXCEPT !.by = None] /\ whole' \in BOOLEAN
      BY <1>2, <2>1, <2>5, <2>8
    <3>2. /\ lease'.op = o /\ lease'.by = None
          /\ lease' \in [op : Nat, by : Surfaces \cup {None}, live : BOOLEAN]
      <4>1. Desk!Numbers \subseteq Nat
        BY <1>0 DEF RowsTyped, Desk!Numbers
      <4> QED BY <2>4, <3>1, <4>1
    <3>3. lease' # None /\ None \notin Surfaces
      BY <3>2, DeskAssumption
    <3>4. state'[o] = "RECOVERY_REQUIRED"
      BY <1>0, <2>1, <3>1 DEF Desk!Numbers
    <3>5. \A r \in Surfaces : ~ Desk!Owns(r)'
      BY <3>2, <3>3 DEF Desk!Owns
    <3>6. Desk!WholeBeforeNext'
      BY <3>2, <3>3, <3>4, <3>5 DEF Desk!WholeBeforeNext
    <3>7. RowsTyped' /\ Desk!CancelKept' /\ Desk!Lineage'
      BY <1>0, <2>3, RowsStay, RowsKeepWord DEF DeskInv
    <3>8. PlacesTyped'
      BY <1>0, <1>1, <2>3, <3>1, PlacesKept
    <3>9. LeaseTyped'
      BY <2>3, <2>6 DEF LeaseTyped
    <3> QED BY <1>1, <3>6, <3>7, <3>8, <3>9 DEF DeskInv
  <2> QED BY <2>7, <2>8
<1> QED BY <1>5, <1>6, <1>7

\* A run that has lost its lease, a surface that is interrupted, and one that dies own
\* nothing any more.
LEMMA LeavesKeep ==
    ASSUME DeskInv, NEW s \in Surfaces, Desk!Lost(s) \/ Desk!Map(s) \/ Desk!Dies(s)
    PROVE  DeskInv'
<1>0. /\ desk[s] \in Place /\ Placed(desk[s], Desk!Numbers) /\ desk[s].pc # "idle"
      /\ RowsTyped
  BY DEF Desk!Lost, Desk!Map, Desk!Dies, DeskInv, PlacesTyped
<1>1. UNCHANGED <<service, Desk!Rows, whole>> /\ LeaseStays
  BY LeftStays DEF Desk!Lost, Desk!Map, Desk!Dies, LeaseStays
<1>2. ASSUME desk' = [desk EXCEPT ![s] = Desk!Idle], Desk!AnswersDurable'
      PROVE  DeskInv'
  <2>1. Desk!Idle \in Place /\ Placed(Desk!Idle, Desk!Numbers) /\ Desk!Idle.pc # "run"
    BY DEF Desk!Idle, Place, Placed
  <2> QED BY <1>1, <1>2, <2>1, SentKeeps
<1>3. CASE Desk!Lost(s)
  <2>1. CASE Desk!Of(s).lost = "row"
    <3> DEFINE d == [desk[s] EXCEPT !.pc = "map"]
    <3>1. desk' = [desk EXCEPT ![s] = d] /\ Desk!AnswersDurable'
      BY <1>3, <2>1, Unsaid DEF Desk!Lost, Desk!Silent
    <3>2. d \in Place /\ Placed(d, Desk!Numbers) /\ d.pc # "run"
      BY <1>0, <1>3 DEF Place, Placed, Desk!Lost
    <3> HIDE DEF d
    <3> QED BY <1>1, <3>1, <3>2, SentKeeps
  <2>2. CASE Desk!Of(s).lost # "row"
    <3>1. Desk!Answer(s, desk[s].op, Desk!Of(s).lost)
      BY <1>3, <2>2 DEF Desk!Lost
    <3>2. desk[s].cmd \in Desk!Services \cup {"operator"}
      BY <1>0 DEF Placed
    <3>3. Desk!Of(s).lost = "RECOVERY_REQUIRED"
      BY <2>2, <3>2 DEF Desk!Of, Desk!Kinds, Desk!Command, Desk!Services, Desk!Activation,
         Desk!Runtime, Desk!Acquisition, Desk!Removal,
            Desk!Calibration, Desk!Setup, Desk!Cleanup, Desk!Update, Desk!Create, Desk!Restore,
            Desk!Operator
    <3> QED BY <1>2, <3>1, <3>3, Guarded DEF Desk!Answer
  <2> QED BY <2>1, <2>2
<1>4. CASE Desk!Map(s)
  <2> DEFINE o == desk[s].op
             c == desk[s].cmd
  <2>1. /\ Desk!Tells(o, c, Desk!Says(c, state[o]))
        /\ desk' = [desk EXCEPT ![s] = Desk!Idle] /\ UNCHANGED state
    BY <1>4 DEF Desk!Map, Desk!Answer, Desk!Rows
  <2>2. /\ o \in Desk!Numbers /\ c \in Desk!Services \cup {"operator"}
        /\ state[o] \in Desk!OperationState
    BY <1>0, <1>4 DEF Desk!Map, Placed, RowsTyped, Desk!Numbers
  <2> HIDE DEF o, c
  <2>3. Desk!AnswersDurable'
    BY <2>1, <2>2, SaysWhatIs, TellsWhatIs
  <2> QED BY <1>2, <2>1, <2>3
<1>5. CASE Desk!Dies(s)
  BY <1>2, <1>5, Unsaid DEF Desk!Dies, Desk!Silent
<1> QED BY <1>3, <1>4, <1>5

\* A cancellation is a transition of one row, or none.
LEMMA RequestMoves ==
    ASSUME RowsTyped, NEW o \in Desk!Numbers, Desk!RequestCancel(o), parent' = parent
    PROVE  RowsMove
<1>1. CASE state[o] \in {"CANCEL_REQUESTED", "CANCELLED"}
  BY <1>1 DEF Desk!RequestCancel, RowsMove, Desk!Rows
<1>2. CASE state[o] \notin {"CANCEL_REQUESTED", "CANCELLED"}
  BY <1>2 DEF Desk!RequestCancel, RowsMove, OneMoves, Desk!OperationState
<1> QED BY <1>1, <1>2

LEMMA CtrlCKeeps ==
    ASSUME DeskInv, NEW s \in Surfaces, Desk!CtrlC(s)
    PROVE  DeskInv'
<1>0. /\ desk[s] \in Place /\ Placed(desk[s], Desk!Numbers) /\ desk[s].pc = "run"
      /\ desk[s].op \in Desk!Numbers /\ RowsTyped /\ PlacesTyped
  BY DEF Desk!CtrlC, DeskInv, PlacesTyped, Placed
<1>1. /\ UNCHANGED <<service, parent, whole>> /\ LeaseStays /\ Desk!AnswersDurable'
      /\ whole' \in BOOLEAN
  BY LeftStays, Unsaid DEF Desk!CtrlC, Desk!Silent, DeskInv, PlacesTyped
<1>2. RowsMove
  BY <1>0, <1>1, RequestMoves DEF Desk!CtrlC, RowsMove, Desk!Rows
<1>3. Desk!Numbers \subseteq Desk!Numbers'
  BY <1>0, <1>2, RowsStay
<1>4. DeskMoves /\ NoneBegins
  <2>1. CASE desk' = [desk EXCEPT ![s] = [@ EXCEPT !.pc = "claim", !.interrupted = TRUE]]
    <3> DEFINE d == [desk[s] EXCEPT !.pc = "claim", !.interrupted = TRUE]
    <3>1. d \in Place /\ Placed(d, Desk!Numbers') /\ d.pc # "run"
      BY <1>0, <1>3 DEF Place, Placed
    <3>2. desk' = [desk EXCEPT ![s] = d]
      BY <2>1
    <3> HIDE DEF d
    <3> QED BY <1>0, <3>1, <3>2, Sends
  <2>2. CASE desk' = [desk EXCEPT ![s] = Desk!Idle]
    <3>1. Desk!Idle \in Place /\ Placed(Desk!Idle, Desk!Numbers') /\ Desk!Idle.pc # "run"
      BY DEF Desk!Idle, Place, Placed
    <3> QED BY <1>0, <2>2, <3>1, Sends
  <2> QED BY <2>1, <2>2 DEF Desk!CtrlC
<1> QED BY <1>1, <1>2, <1>4, Steady

LEMMA SteersKeep ==
    ASSUME DeskInv, NEW o \in Desk!Numbers, Desk!Cancel(o) \/ Desk!Retry(o)
    PROVE  DeskInv'
<1>1. /\ UNCHANGED <<service, lease, whole, desk>> /\ Desk!AnswersDurable' /\ whole' \in BOOLEAN
  BY Unsaid DEF Desk!Cancel, Desk!Retry, Desk!Silent, DeskInv, PlacesTyped
<1>2. RowsMove
  <2>1. CASE Desk!Cancel(o)
    BY <2>1, RequestMoves DEF Desk!Cancel, DeskInv
  <2>2. CASE Desk!Retry(o)
    BY <2>2 DEF Desk!Retry, Desk!Created, RowsMove, OneIsNew
  <2> QED BY <2>1, <2>2
<1>3. DeskMoves /\ LeaseStays /\ NoneBegins
  BY <1>1 DEF DeskMoves, LeaseStays, NoneBegins
<1> QED BY <1>1, <1>2, <1>3, Steady

LEMMA ResumeKeeps ==
    ASSUME DeskInv, NEW s \in Surfaces, NEW o \in Desk!Numbers, Desk!Resume(s, o)
    PROVE  DeskInv'
<1>0. RowsTyped /\ PlacesTyped /\ Desk!Numbers \subseteq Nat
  BY DEF DeskInv, RowsTyped, Desk!Numbers
<1>1. /\ UNCHANGED <<service, parent, cancelled, lease, whole>> /\ Desk!AnswersDurable'
      /\ whole' \in BOOLEAN /\ LeaseStays
  BY Unsaid DEF Desk!Resume, Desk!Silent, LeaseStays, DeskInv, PlacesTyped
<1>2. RowsMove
  <2>1. CASE state[o] = "PAUSED"
    <3>1. Desk!CanTransition(state[o], "PREPARING") /\ "PREPARING" \in Desk!OperationState
      BY <2>1 DEF Desk!CanTransition, Desk!Terminal, Desk!Transitions, Desk!OperationState
    <3> QED BY <1>1, <2>1, <3>1 DEF Desk!Resume, RowsMove, OneMoves
  <2>2. CASE state[o] # "PAUSED"
    BY <1>1, <2>2 DEF Desk!Resume, RowsMove, Desk!Rows
  <2> QED BY <2>1, <2>2
<1>3. Desk!Numbers \subseteq Desk!Numbers'
  BY <1>0, <1>2, RowsStay
<1> DEFINE d == [Desk!Idle EXCEPT !.pc = "claim", !.cmd = "operator", !.op = o]
<1>4. d \in Place /\ Placed(d, Desk!Numbers') /\ d.pc # "run"
  BY <1>0, <1>3 DEF Desk!Idle, Place, Placed
<1>5. desk' = [desk EXCEPT ![s] = d]
  BY DEF Desk!Resume, Desk!Drive
<1> HIDE DEF d
<1>6. DeskMoves /\ NoneBegins
  BY <1>0, <1>4, <1>5, Sends
<1> QED BY <1>1, <1>2, <1>6, Steady

LEMMA TimeKeeps ==
    ASSUME DeskInv, Desk!Expire \/ Desk!Reconcile \/ Desk!ManualRepair
    PROVE  DeskInv'
<1>1. /\ UNCHANGED <<service, Desk!Rows, desk>> /\ Desk!AnswersDurable' /\ RowsMove /\ DeskMoves
      /\ NoneBegins
  BY Unsaid DEF Desk!Expire, Desk!Reconcile, Desk!ManualRepair, Desk!Silent, RowsMove,
     DeskMoves, NoneBegins
<1>2. CASE Desk!Expire
  BY <1>1, <1>2, Steady DEF Desk!Expire, LeaseStays, DeskInv, PlacesTyped
<1>3. CASE Desk!Reconcile
  BY <1>1, <1>3, SteadyWhole DEF Desk!Reconcile, Desk!Restorable, DeskInv, PlacesTyped
<1>4. CASE Desk!ManualRepair
  <2>1. lease' = lease /\ whole' /\ whole' \in BOOLEAN
    BY <1>4 DEF Desk!ManualRepair
  <2> QED BY <1>1, <2>1, Steady DEF LeaseStays
<1> QED BY <1>2, <1>3, <1>4

LEMMA DeskInit == Desk!Init => DeskInv
<1> SUFFICES ASSUME Desk!Init
             PROVE  DeskInv
  OBVIOUS
<1>1. Desk!Numbers = {}
  BY DEF Desk!Init, Desk!Numbers
<1>2. Desk!Idle \in Place /\ Placed(Desk!Idle, Desk!Numbers)
  BY DEF Desk!Idle, Place, Placed
<1>3. RowsTyped /\ LeaseTyped /\ PlacesTyped
  BY <1>2 DEF Desk!Init, RowsTyped, LeaseTyped, PlacesTyped
<1> QED BY <1>1, <1>3 DEF Desk!Init, DeskInv, Desk!AnswersDurable, Desk!WholeBeforeNext,
      Desk!CancelKept, Desk!Lineage

LEMMA DeskStutters ==
    ASSUME DeskInv, UNCHANGED Desk!deskVars
    PROVE  DeskInv'
<1>1. RowsMove /\ DeskMoves /\ LeaseStays /\ NoneBegins /\ Desk!AnswersDurable'
  BY DEF Desk!deskVars, RowsMove, Desk!Rows, DeskMoves, LeaseStays, NoneBegins, DeskInv,
     Desk!AnswersDurable
<1> QED BY <1>1, Steady DEF Desk!deskVars, DeskInv, PlacesTyped

LEMMA DeskSteps == DeskInv /\ [Desk!Next]_(Desk!deskVars) => DeskInv'
<1> SUFFICES ASSUME DeskInv, [Desk!Next]_(Desk!deskVars)
             PROVE  DeskInv'
  OBVIOUS
<1>1. ASSUME NEW s \in Surfaces,
             \/ Desk!StartBarred(s) \/ Desk!StartBusy(s) \/ Desk!StartResumes(s)
                 \/ Desk!StartNew(s)
             \/ Desk!Enqueue(s) \/ Desk!Claim(s) \/ Desk!Advance(s) \/ Desk!End(s)
                 \/ Desk!Pause(s) \/ Desk!Lost(s) \/ Desk!Map(s)
             \/ Desk!CtrlC(s) \/ Desk!Dies(s) \/ Desk!Adopt(s)
      PROVE  DeskInv'
  BY <1>1, AnswersKeep, StartsKeep, EnqueueKeeps, ClaimKeeps, RunKeeps, LeavesKeep, CtrlCKeeps
<1>2. ASSUME NEW s \in Surfaces, NEW o \in Desk!Numbers,
             Desk!Resume(s, o) \/ Desk!Recover(s, o) \/ Desk!Detach(s, o) \/ Desk!Wait(s, o)
      PROVE  DeskInv'
  BY <1>2, ResumeKeeps, StartsKeep, AnswersKeep
<1>3. ASSUME NEW o \in Desk!Numbers, Desk!Cancel(o) \/ Desk!Retry(o)
      PROVE  DeskInv'
  BY <1>3, SteersKeep
<1>4. CASE Desk!Expire \/ Desk!Reconcile \/ Desk!ManualRepair
  BY <1>4, TimeKeeps
<1> QED BY <1>1, <1>2, <1>3, <1>4, DeskStutters DEF Desk!Next

\* What the view of a row offers, the command accepts.
LEMMA OffersAreHeld ==
    ASSUME RowsTyped
    PROVE  Desk!OffersHold
<1>1. ASSUME NEW o \in Desk!Numbers
      PROVE  /\ Desk!Flags(o).cancellable => Desk!MayCancel(o)
             /\ Desk!Flags(o).resumable => Desk!MayResume(o)
             /\ Desk!Flags(o).recoverable /\ state[o] # "RECOVERY_REQUIRED" => Desk!MayRecover(o)
  <2>1. state[o] \in Desk!OperationState
    BY DEF RowsTyped, Desk!Numbers
  <2>2. Desk!Flags(o).cancellable => Desk!MayCancel(o)
    <3>1. ASSUME Desk!Flags(o).cancellable
          PROVE  /\ state[o] \notin Desk!Terminal
                 /\ "CANCEL_REQUESTED" \in Desk!Transitions[state[o]]
      <4>1. "CANCEL_REQUESTED" \in IF state[o] \in Desk!Terminal THEN {}
              ELSE Desk!Transitions[state[o]]
        BY <3>1 DEF Desk!Flags
      <4> QED BY <4>1
    <3>2. ASSUME state[o] \in {"CANCEL_REQUESTED", "COMMITTING", "ROLLING_BACK"}
          PROVE  "CANCEL_REQUESTED" \notin Desk!Transitions[state[o]]
      BY <3>2 DEF Desk!Transitions
    <3> QED BY <3>1, <3>2 DEF Desk!MayCancel
  <2>3. Desk!Flags(o).resumable => Desk!MayResume(o)
    BY DEF Desk!Flags, Desk!MayResume
  <2>4. Desk!Flags(o).recoverable /\ state[o] # "RECOVERY_REQUIRED" => Desk!MayRecover(o)
    BY DEF Desk!Flags, Desk!MayRecover, Desk!Terminal
  <2> QED BY <2>2, <2>3, <2>4
<1> QED BY <1>1 DEF Desk!OffersHold

LEMMA DeskInvKeepsWord == DeskInv => Desk!DeskKeepsWord
  BY OffersAreHeld DEF DeskInv, Desk!DeskKeepsWord

\* An end that a surface reports is the operation's own, a runtime that is not whole stays
\* behind its barrier, and an accepted cancellation never succeeds.
THEOREM DeskAlwaysKeepsWord == Desk!DeskSpec => []Desk!DeskKeepsWord
<1>1. Desk!Init => DeskInv
  BY DeskInit
<1>2. DeskInv /\ [Desk!Next]_(Desk!deskVars) => DeskInv'
  BY DeskSteps
<1>3. DeskInv => Desk!DeskKeepsWord
  BY DeskInvKeepsWord
<1> QED BY <1>1, <1>2, <1>3, PTL DEF Desk!DeskSpec

-----------------------------------------------------------------------------
(* The database of a profile                                               *)
ProcPcs == {"idle", "open", "migrate", "serve"} \cup Database!Importing
Process == [pc : ProcPcs, top : Nat, seen : SUBSET Nat]

\* The processes, the files and the database have their fields.
DatabaseTyped ==
    /\ db \in Database!Databases \cup {None} /\ staging \in Database!Databases \cup {None}
    /\ lock \in BOOLEAN /\ legacy \in {"default", "given", "none"}
    /\ proc \in [DatabaseProcs -> Process]
    /\ \A p \in DatabaseProcs : proc[p].top <= Database!SchemaVersion

\* The lock file admits one import, which stages what it publishes where there is
\* nothing yet.
OneImport ==
    /\ \A p \in DatabaseProcs : proc[p].pc \in {"stage", "publish", "receipt"} => lock
    /\ \A p, q \in DatabaseProcs :
          /\ proc[p].pc \in {"stage", "publish", "receipt"}
          /\ proc[q].pc \in {"stage", "publish", "receipt"}
          => p = q
    /\ \A p \in DatabaseProcs : proc[p].pc = "publish" => staging = Database!Staged /\ db = None

\* Nobody opens a database beside an import that will publish one.
NobodyBeside ==
    /\ db = None /\ legacy = "default" => \A p \in DatabaseProcs :
        proc[p].pc \in {"idle", "lock", "stage", "publish"}
    /\ legacy = "given" /\ db = None =>
         \A p, q \in DatabaseProcs : proc[p].pc \in Database!Importing =>
             p = q \/ proc[q].pc = "idle"
    /\ legacy = "none" => \A p \in DatabaseProcs : proc[p].pc \notin Database!Importing

\* A process remembers a beginning of the versions that are there.
RemembersVersions ==
    \A p \in DatabaseProcs :
        /\ proc[p].pc = "receipt" => db # None
        /\ proc[p].pc \in {"migrate", "serve"} => db # None
        /\ proc[p].pc = "migrate" => \E k \in Nat :
            proc[p].seen = 1 .. k /\ proc[p].seen \subseteq db.applied

DatabaseInv ==
    /\ DatabaseTyped /\ OneImport /\ NobodyBeside /\ RemembersVersions
    /\ Database!AtAVersion /\ Database!ServesItsSchema

-----------------------------------------------------------------------------

LEMMA VersionsAreFourteen == Database!SchemaVersion = 14
  BY DEF Database!SchemaVersion, Database!Migrations

LEMMA TablesOfOneMore ==
    ASSUME NEW n \in Nat
    PROVE  Database!Tables(1 .. (n + 1)) = Database!Tables(1 .. n) \cup
        Database!Migrations[n + 1].new
<1>1. 1 .. (n + 1) = (1 .. n) \cup {n + 1}
  OBVIOUS
<1> QED BY <1>1 DEF Database!Tables

LEMMA TablesGrow ==
    ASSUME NEW S, NEW T, S \subseteq T
    PROVE  Database!Tables(S) \subseteq Database!Tables(T)
  BY DEF Database!Tables

\* A version that is there is a database.
LEMMA WholeIsADatabase ==
    ASSUME NEW v \in 0 .. Database!SchemaVersion, NEW kinds \in SUBSET Database!RowKinds
    PROVE  Database!Whole(v, kinds) \in Database!Databases
<1>1. 1 .. v \subseteq 1 .. Database!SchemaVersion
  BY VersionsAreFourteen
<1>2. Database!Tables(1 .. v) \subseteq Database!Tables(1 .. Database!SchemaVersion)
  BY <1>1, TablesGrow
<1> QED BY <1>1, <1>2 DEF Database!Whole, Database!Databases

LEMMA StagedIsADatabase == Database!Staged \in Database!Databases
<1>1. Database!SchemaVersion \in 0 .. Database!SchemaVersion
  BY VersionsAreFourteen
<1>2. Database!LegacyRows \subseteq Database!RowKinds
  BY DEF Database!RowKinds
<1> QED BY <1>1, <1>2, WholeIsADatabase DEF Database!Staged

LEMMA DatabaseStarts == Database!Init => DatabaseInv
<1> SUFFICES ASSUME Database!Init PROVE DatabaseInv
  OBVIOUS
<1>1. db \in Database!Databases \cup {None} /\ Database!AtAVersion
  <2>1. PICK kinds \in SUBSET {"model_installations", "notifications_enabled"},
          v \in DatabaseVersions :
           db \in {None, Database!Whole(v, {"settings"} \cup kinds)}
    BY DEF Database!Init
  <2>2. v \in 0 .. Database!SchemaVersion
    BY DatabaseAssumption
  <2>3. {"settings"} \cup kinds \subseteq Database!RowKinds
    BY DEF Database!RowKinds, Database!LegacyRows
  <2>4. Database!Whole(v, {"settings"} \cup kinds) \in Database!Databases
    BY <2>2, <2>3, WholeIsADatabase
  <2>5. CASE db = None
    BY <2>5 DEF Database!AtAVersion
  <2>6. CASE db = Database!Whole(v, {"settings"} \cup kinds)
    BY <2>6, <2>2, <2>4 DEF Database!AtAVersion, Database!Whole
  <2> QED BY <2>1, <2>5, <2>6
<1>2. \A p \in DatabaseProcs : proc[p] = Database!Idle
  BY DEF Database!Init
<1>3. DatabaseTyped
  <2>1. Database!Idle \in Process /\ Database!Idle.top <= Database!SchemaVersion
    BY VersionsAreFourteen DEF Database!Idle, Process, ProcPcs
  <2>2. proc \in [DatabaseProcs -> Process]
    BY <2>1 DEF Database!Init
  <2>3. legacy \in {"default", "given", "none"} /\ staging = None /\ lock = FALSE
    BY DEF Database!Init
  <2> QED BY <1>1, <1>2, <2>1, <2>2, <2>3 DEF DatabaseTyped
<1>4. OneImport /\ NobodyBeside /\ RemembersVersions /\ Database!ServesItsSchema
  BY <1>2 DEF Database!Idle, OneImport, NobodyBeside, RemembersVersions,
     Database!ServesItsSchema, Database!Importing
<1> QED BY <1>1, <1>3, <1>4 DEF DatabaseInv

-----------------------------------------------------------------------------

\* The next version is the one after those that are remembered.
LEMMA NextIsNext ==
    ASSUME NEW p \in DatabaseProcs, NEW k \in Nat, proc[p].seen = 1 .. k, proc[p].top \in Nat,
           Database!Missing(p) # {}
    PROVE  Database!NextVersion(p) = k + 1 /\ k + 1 <= proc[p].top
<1>1. Database!Missing(p) = (k + 1) .. proc[p].top
  BY DEF Database!Missing
<1>2. k + 1 \in Database!Missing(p) /\ \A w \in Database!Missing(p) : k + 1 <= w
  BY <1>1
<1>3. \A v \in Database!Missing(p) : (\A w \in Database!Missing(p) : v <= w) => v = k + 1
  BY <1>1, <1>2
<1>4. Database!NextVersion(p) \in Database!Missing(p) /\ \A w \in Database!Missing(p) :
        Database!NextVersion(p) <= w
  BY <1>2 DEF Database!NextVersion
<1> QED BY <1>1, <1>2, <1>3, <1>4

\* A migration that executes is the next version of the database.
LEMMA MigratedIsNext ==
    ASSUME DatabaseInv, NEW p \in DatabaseProcs, proc[p].pc = "migrate", Database!Missing(p) # {},
           Database!Executes(db, Database!NextVersion(p))
    PROVE  /\ Database!Migrated(db, Database!NextVersion(p)) \in Database!Databases
           /\ \E n \in 1 .. Database!SchemaVersion :
                /\ Database!NextVersion(p) = n
                /\ Database!Migrated(db, Database!NextVersion(p)).applied = 1 .. n
                /\ Database!Migrated(db, Database!NextVersion(p)).tables = Database!Tables(1 .. n)
                /\ proc[p].seen \cup {n} = 1 .. n /\ db.applied = 1 .. (n - 1)
           /\ db.rows \subseteq Database!Migrated(db, Database!NextVersion(p)).rows
<1>1. /\ db # None /\ db \in Database!Databases /\ proc[p].top \in Nat
      /\ proc[p].top <= Database!SchemaVersion
  BY DEF DatabaseInv, DatabaseTyped, RemembersVersions, Process
<1>2. PICK k \in Nat : proc[p].seen = 1 .. k /\ 1 .. k \subseteq db.applied
  BY DEF DatabaseInv, RemembersVersions
<1>3. PICK m \in 0 .. Database!SchemaVersion :
        db.applied = 1 .. m /\ db.tables = Database!Tables(1 .. m)
  BY <1>1 DEF DatabaseInv, Database!AtAVersion
<1>4. Database!NextVersion(p) = k + 1 /\ k + 1 <= proc[p].top
  BY <1>1, <1>2, NextIsNext
<1>5. k + 1 \notin 1 .. m
  BY <1>3, <1>4 DEF Database!Executes
<1>6. m = k
  <2>1. CASE k = 0
    BY <2>1, <1>3, <1>5
  <2>2. CASE k # 0
    <3>1. k \in 1 .. m
      BY <2>2, <1>2, <1>3
    <3> QED BY <3>1, <1>3, <1>5, VersionsAreFourteen
  <2> QED BY <2>1, <2>2
<1> DEFINE new == Database!Migrated(db, k + 1)
<1>7. /\ new.applied = 1 .. (k + 1) /\ new.tables = Database!Tables(1 .. (k + 1))
      /\ new.rows = db.rows \cup Database!Copied(db, k + 1)
      /\ new = [applied |-> new.applied, tables |-> new.tables, rows |-> new.rows]
  <2>1. (1 .. k) \cup {k + 1} = 1 .. (k + 1)
    OBVIOUS
  <2> QED BY <2>1, <1>3, <1>6, TablesOfOneMore DEF Database!Migrated
<1>8. k + 1 \in 1 .. Database!SchemaVersion
  BY <1>1, <1>4, VersionsAreFourteen
<1>9. Database!Copied(db, k + 1) \subseteq Database!RowKinds
  BY <1>8 DEF Database!Copied, Database!RowKinds
<1>10. new \in Database!Databases
  <2> HIDE DEF new
  <2>1. 1 .. (k + 1) \subseteq 1 .. Database!SchemaVersion
    BY <1>8, VersionsAreFourteen
  <2>2. Database!Tables(1 .. (k + 1)) \subseteq Database!Tables(1 .. Database!SchemaVersion)
    BY <2>1, TablesGrow
  <2>3. db.rows \subseteq Database!RowKinds
    BY <1>1 DEF Database!Databases
  <2> QED BY <1>7, <1>9, <2>1, <2>2, <2>3 DEF Database!Databases
<1>11. proc[p].seen \cup {k + 1} = 1 .. (k + 1)
  BY <1>2
<1>12. db.applied = 1 .. ((k + 1) - 1)
  BY <1>3, <1>6
<1> HIDE DEF new
<1>13. new = Database!Migrated(db, Database!NextVersion(p))
  BY <1>4 DEF new
<1> QED BY <1>4, <1>7, <1>8, <1>10, <1>11, <1>12, <1>13

-----------------------------------------------------------------------------
(* The steps                                                               *)

\* What one process does is said of it alone.
LEMMA OneProcessMoves ==
    ASSUME DatabaseTyped, NEW p \in DatabaseProcs, NEW r \in Process,
        r.top <= Database!SchemaVersion,
           proc' = [proc EXCEPT ![p] = r]
    PROVE  /\ proc' \in [DatabaseProcs -> Process] /\ proc'[p] = r
           /\ \A q \in DatabaseProcs \ {p} : proc'[q] = proc[q]
           /\ \A q \in DatabaseProcs : proc'[q].top <= Database!SchemaVersion
  BY DEF DatabaseTyped

\* Where nothing is published, the versions stay what they are.
LEMMA DatabaseStays ==
    ASSUME DatabaseInv, db' = db
    PROVE  Database!AtAVersion' /\ Database!ImportedFirst /\ Database!NothingLost
  BY DEF DatabaseInv, Database!AtAVersion, Database!ImportedFirst, Database!NothingLost

DatabaseStepKeeps == DatabaseInv' /\ Database!ImportedFirst /\ Database!NothingLost

LEMMA StartKeeps ==
    ASSUME DatabaseInv, NEW p \in DatabaseProcs,
        NEW top \in {Database!SchemaVersion - 1, Database!SchemaVersion},
           Database!Start(p, top)
    PROVE  DatabaseStepKeeps
<1> DEFINE r == [pc |-> IF db = None /\ legacy = "default" THEN "lock" ELSE "open",
                 top |-> top, seen |-> {}]
<1>1. /\ proc' = [proc EXCEPT ![p] = r] /\ proc[p].pc = "idle"
      /\ db' = db /\ staging' = staging /\ lock' = lock /\ legacy' = legacy
  BY DEF Database!Start
<1>2. r \in Process /\ r.top <= Database!SchemaVersion
  BY VersionsAreFourteen DEF Process, ProcPcs, Database!Importing
<1>3. r.pc \in {"lock", "open"} /\ (r.pc = "lock" <=> db = None /\ legacy = "default")
  OBVIOUS
<1> HIDE DEF r
<1>4. /\ proc' \in [DatabaseProcs -> Process] /\ proc'[p] = r
      /\ \A q \in DatabaseProcs \ {p} : proc'[q] = proc[q]
      /\ \A q \in DatabaseProcs : proc'[q].top <= Database!SchemaVersion
  BY <1>1, <1>2, OneProcessMoves DEF DatabaseInv
<1>5. DatabaseTyped'
  BY <1>1, <1>4 DEF DatabaseInv, DatabaseTyped
<1>6. OneImport'
  BY <1>1, <1>3, <1>4 DEF DatabaseInv, OneImport
<1>7. NobodyBeside'
  <2>1. legacy = "given" /\ db = None => \A q \in DatabaseProcs :
          proc[q].pc \notin Database!Importing
    BY DatabaseAssumption DEF Database!Start
  <2> QED BY <1>1, <1>3, <1>4, <2>1 DEF DatabaseInv, NobodyBeside, Database!Importing
<1>8. RemembersVersions' /\ Database!ServesItsSchema'
  BY <1>1, <1>3, <1>4 DEF DatabaseInv, RemembersVersions, Database!ServesItsSchema
<1> QED BY <1>1, <1>5, <1>6, <1>7, <1>8, DatabaseStays DEF DatabaseInv, DatabaseStepKeeps

LEMMA ImportStateKeeps ==
    ASSUME DatabaseInv, NEW p \in DatabaseProcs, Database!ImportState(p)
    PROVE  DatabaseStepKeeps
<1> DEFINE r == [pc |-> "lock", top |-> Database!SchemaVersion, seen |-> {}]
<1>1. /\ proc' = [proc EXCEPT ![p] = r] /\ \A q \in DatabaseProcs : proc[q].pc = "idle"
      /\ db' = db /\ staging' = staging /\ lock' = lock /\ legacy' = legacy
      /\ db = None /\ legacy = "given"
  BY DatabaseAssumption DEF Database!ImportState
<1>2. r \in Process /\ r.top <= Database!SchemaVersion
  BY VersionsAreFourteen DEF Process, ProcPcs, Database!Importing
<1>3. r.pc = "lock"
  OBVIOUS
<1> HIDE DEF r
<1>4. /\ proc' \in [DatabaseProcs -> Process] /\ proc'[p] = r
      /\ \A q \in DatabaseProcs \ {p} : proc'[q] = proc[q]
      /\ \A q \in DatabaseProcs : proc'[q].top <= Database!SchemaVersion
  BY <1>1, <1>2, OneProcessMoves DEF DatabaseInv
<1>5. DatabaseTyped'
  BY <1>1, <1>4 DEF DatabaseInv, DatabaseTyped
<1>6. OneImport' /\ RemembersVersions' /\ Database!ServesItsSchema'
  BY <1>1, <1>3, <1>4 DEF DatabaseInv, OneImport, RemembersVersions, Database!ServesItsSchema
<1>7. NobodyBeside'
  BY <1>1, <1>3, <1>4 DEF DatabaseInv, NobodyBeside, Database!Importing
<1> QED BY <1>1, <1>5, <1>6, <1>7, DatabaseStays DEF DatabaseInv, DatabaseStepKeeps

\* The process p goes to pc, or ends.
LEMMA ProcessMoved ==
    ASSUME DatabaseInv, NEW p \in DatabaseProcs, NEW pc \in ProcPcs,
           Database!Becomes(p, pc) \/ Database!Stops(p)
    PROVE  /\ proc' \in [DatabaseProcs -> Process]
           /\ \A q \in DatabaseProcs \ {p} : proc'[q] = proc[q]
           /\ \A q \in DatabaseProcs : proc'[q].top <= Database!SchemaVersion
           /\ Database!Becomes(p, pc) =>
                proc'[p].pc = pc /\ proc'[p].top = proc[p].top /\ proc'[p].seen = proc[p].seen
           /\ Database!Stops(p) => proc'[p].pc = "idle"
<1> DEFINE r == [proc[p] EXCEPT !.pc = pc]
<1>1. CASE Database!Becomes(p, pc)
  <2>1. proc[p] \in Process /\ proc[p].top <= Database!SchemaVersion
    BY DEF DatabaseInv, DatabaseTyped
  <2>2. r \in Process /\ r.top <= Database!SchemaVersion
    BY <2>1 DEF Process
  <2>3. r.pc = pc /\ r.top = proc[p].top /\ r.seen = proc[p].seen
    BY <2>1 DEF Process
  <2>4. proc' = [proc EXCEPT ![p] = r]
    BY <1>1 DEF Database!Becomes
  <2> HIDE DEF r
  <2>5. /\ proc' \in [DatabaseProcs -> Process] /\ proc'[p] = r
        /\ \A q \in DatabaseProcs \ {p} : proc'[q] = proc[q]
        /\ \A q \in DatabaseProcs : proc'[q].top <= Database!SchemaVersion
    BY <2>2, <2>4, OneProcessMoves DEF DatabaseInv
  <2>6. Database!Stops(p) => proc'[p] = Database!Idle
    BY <2>1 DEF Database!Stops, DatabaseInv, DatabaseTyped
  <2> QED BY <2>3, <2>5, <2>6 DEF Database!Idle
<1>2. CASE Database!Stops(p) /\ ~ Database!Becomes(p, pc)
  <2>1. /\ Database!Idle \in Process /\ Database!Idle.top <= Database!SchemaVersion
        /\ Database!Idle.pc = "idle"
    BY VersionsAreFourteen DEF Database!Idle, Process, ProcPcs
  <2> QED BY <1>2, <2>1, OneProcessMoves DEF DatabaseInv, Database!Stops
<1> QED BY <1>1, <1>2

LEMMA TakeLockKeeps == ASSUME DatabaseInv, NEW p \in DatabaseProcs, Database!TakeLock(p)
                       PROVE DatabaseStepKeeps
<1>1. /\ proc[p].pc = "lock"
      /\ db' = db /\ staging' = staging /\ legacy' = legacy
      /\ \/ lock /\ Database!Stops(p) /\ lock' = lock
         \/ ~ lock /\ Database!Becomes(p, "stage") /\ lock' = TRUE
  BY DEF Database!TakeLock
<1>2. "stage" \in ProcPcs
  BY DEF ProcPcs, Database!Importing
<1>3. /\ proc' \in [DatabaseProcs -> Process]
      /\ \A q \in DatabaseProcs \ {p} : proc'[q] = proc[q]
      /\ \A q \in DatabaseProcs : proc'[q].top <= Database!SchemaVersion
      /\ \/ lock /\ lock' /\ proc'[p].pc = "idle"
         \/ ~ lock /\ lock' /\ proc'[p].pc = "stage"
  BY <1>1, <1>2, ProcessMoved DEF DatabaseInv, DatabaseTyped
<1>4. DatabaseTyped'
  BY <1>1, <1>3 DEF DatabaseInv, DatabaseTyped
<1>5. OneImport'
  BY <1>1, <1>3 DEF DatabaseInv, OneImport
<1>6. NobodyBeside' /\ RemembersVersions' /\ Database!ServesItsSchema'
  BY <1>1, <1>3 DEF DatabaseInv, NobodyBeside, RemembersVersions, Database!ServesItsSchema,
     Database!Importing
<1> QED BY <1>1, <1>4, <1>5, <1>6, DatabaseStays DEF DatabaseInv, DatabaseStepKeeps

LEMMA StageKeeps == ASSUME DatabaseInv, NEW p \in DatabaseProcs, Database!Stage(p)
                    PROVE DatabaseStepKeeps
<1>1. /\ proc[p].pc = "stage" /\ db' = db /\ legacy' = legacy
      /\ \/ Database!Stops(p) /\ lock' = FALSE /\ staging' = staging
         \/ /\ db = None /\ Database!Becomes(p, "publish")
            /\ staging' = Database!Staged /\ lock' = lock
  BY DEF Database!Stage
<1>2. "publish" \in ProcPcs
  BY DEF ProcPcs, Database!Importing
<1>3. /\ proc' \in [DatabaseProcs -> Process]
      /\ \A q \in DatabaseProcs \ {p} : proc'[q] = proc[q]
      /\ \A q \in DatabaseProcs : proc'[q].top <= Database!SchemaVersion
      /\ \/ proc'[p].pc = "idle" /\ lock' = FALSE /\ staging' = staging
         \/ proc'[p].pc = "publish" /\ db = None /\ staging' = Database!Staged /\ lock' = lock
  BY <1>1, <1>2, ProcessMoved
<1>4. DatabaseTyped'
  BY <1>1, <1>3, StagedIsADatabase DEF DatabaseInv, DatabaseTyped
<1>5. OneImport'
  BY <1>1, <1>3 DEF DatabaseInv, OneImport
<1>6. NobodyBeside' /\ RemembersVersions' /\ Database!ServesItsSchema'
  BY <1>1, <1>3 DEF DatabaseInv, NobodyBeside, RemembersVersions, Database!ServesItsSchema,
     Database!Importing
<1> QED BY <1>1, <1>4, <1>5, <1>6, DatabaseStays DEF DatabaseInv, DatabaseStepKeeps

LEMMA ImportFailsKeeps == ASSUME DatabaseInv, NEW p \in DatabaseProcs, Database!ImportFails(p)
                          PROVE DatabaseStepKeeps
<1>1. /\ proc[p].pc \in {"stage", "publish"} /\ db' = db /\ legacy' = legacy
      /\ Database!Stops(p) /\ staging' = None /\ lock' = FALSE
  BY DEF Database!ImportFails
<1>2. "idle" \in ProcPcs
  BY DEF ProcPcs
<1>3. /\ proc' \in [DatabaseProcs -> Process]
      /\ \A q \in DatabaseProcs \ {p} : proc'[q] = proc[q]
      /\ \A q \in DatabaseProcs : proc'[q].top <= Database!SchemaVersion
      /\ proc'[p].pc = "idle"
  BY <1>1, <1>2, ProcessMoved
<1>4. DatabaseTyped'
  BY <1>1, <1>3 DEF DatabaseInv, DatabaseTyped
<1>5. OneImport'
  BY <1>1, <1>3 DEF DatabaseInv, OneImport
<1>6. NobodyBeside' /\ RemembersVersions' /\ Database!ServesItsSchema'
  BY <1>1, <1>3 DEF DatabaseInv, NobodyBeside, RemembersVersions, Database!ServesItsSchema,
     Database!Importing
<1> QED BY <1>1, <1>4, <1>5, <1>6, DatabaseStays DEF DatabaseInv, DatabaseStepKeeps

\* What an import publishes is whole, and there was nothing before.
LEMMA PublishKeepsDatabase == ASSUME DatabaseInv, NEW p \in DatabaseProcs, Database!Publish(p)
                              PROVE DatabaseStepKeeps
<1>1. /\ proc[p].pc = "publish" /\ db' = staging /\ staging' = None
      /\ Database!Becomes(p, "receipt")
      /\ lock' = lock /\ legacy' = legacy
  BY DEF Database!Publish
<1>2. "receipt" \in ProcPcs
  BY DEF ProcPcs, Database!Importing
<1>3. /\ proc' \in [DatabaseProcs -> Process]
      /\ \A q \in DatabaseProcs \ {p} : proc'[q] = proc[q]
      /\ \A q \in DatabaseProcs : proc'[q].top <= Database!SchemaVersion
      /\ proc'[p].pc = "receipt"
  BY <1>1, <1>2, ProcessMoved
<1>4. db = None /\ db' = Database!Staged
  BY <1>1 DEF DatabaseInv, OneImport
<1>5. db' \in Database!Databases /\ db' # None
  BY <1>4, StagedIsADatabase, DatabaseAssumption
<1>6. DatabaseTyped'
  BY <1>1, <1>3, <1>5 DEF DatabaseInv, DatabaseTyped
<1>7. OneImport'
  BY <1>1, <1>3 DEF DatabaseInv, OneImport
<1>8. NobodyBeside'
  BY <1>1, <1>3, <1>5 DEF DatabaseInv, NobodyBeside, Database!Importing
<1>9. RemembersVersions' /\ Database!ServesItsSchema'
  <2>1. \A q \in DatabaseProcs : proc[q].pc \notin {"migrate", "serve"}
    BY <1>4 DEF DatabaseInv, RemembersVersions
  <2> QED BY <1>3, <1>5, <2>1 DEF DatabaseInv, RemembersVersions, Database!ServesItsSchema
<1>10. Database!AtAVersion'
  BY <1>4, VersionsAreFourteen DEF Database!AtAVersion, Database!Staged, Database!Whole
<1>11. Database!ImportedFirst /\ Database!NothingLost
  BY <1>4 DEF Database!ImportedFirst, Database!NothingLost, Database!Staged, Database!Whole
<1> QED BY <1>6, <1>7, <1>8, <1>9, <1>10, <1>11 DEF DatabaseInv, DatabaseStepKeeps

LEMMA ReceiptKeeps == ASSUME DatabaseInv, NEW p \in DatabaseProcs, Database!Receipt(p)
                      PROVE DatabaseStepKeeps
<1>1. /\ proc[p].pc = "receipt" /\ (Database!Becomes(p, "open") \/ Database!Stops(p))
      /\ db' = db /\ legacy' = legacy /\ staging' = staging /\ lock' = FALSE
  BY DEF Database!Receipt
<1>2. "open" \in ProcPcs
  BY DEF ProcPcs
<1>3. /\ proc' \in [DatabaseProcs -> Process]
      /\ \A q \in DatabaseProcs \ {p} : proc'[q] = proc[q]
      /\ \A q \in DatabaseProcs : proc'[q].top <= Database!SchemaVersion
      /\ proc'[p].pc \in {"idle", "open"}
  BY <1>1, <1>2, ProcessMoved
<1>4. DatabaseTyped'
  BY <1>1, <1>3 DEF DatabaseInv, DatabaseTyped
<1>5. OneImport'
  BY <1>1, <1>3 DEF DatabaseInv, OneImport
<1>6. db # None
  BY <1>1 DEF DatabaseInv, RemembersVersions
<1>7. NobodyBeside' /\ RemembersVersions' /\ Database!ServesItsSchema'
  BY <1>1, <1>3, <1>6 DEF DatabaseInv, NobodyBeside, RemembersVersions,
     Database!ServesItsSchema, Database!Importing
<1> QED BY <1>1, <1>4, <1>5, <1>7, DatabaseStays DEF DatabaseInv, DatabaseStepKeeps

LEMMA RemoveLockKeeps == ASSUME DatabaseInv, Database!RemoveLock PROVE DatabaseStepKeeps
<1>1. /\ \A p \in DatabaseProcs : proc[p].pc \notin Database!Importing
      /\ lock' = FALSE /\ db' = db /\ legacy' = legacy /\ staging' = staging /\ proc' = proc
  BY DEF Database!RemoveLock
<1>2. DatabaseTyped' /\ OneImport'
  BY <1>1 DEF DatabaseInv, DatabaseTyped, OneImport, Database!Importing
<1>3. NobodyBeside' /\ RemembersVersions' /\ Database!ServesItsSchema'
  BY <1>1 DEF DatabaseInv, NobodyBeside, RemembersVersions, Database!ServesItsSchema
<1> QED BY <1>1, <1>2, <1>3, DatabaseStays DEF DatabaseInv, DatabaseStepKeeps

\* A process that dies leaves the database as it is: its transaction rolls back.
LEMMA DiesKeeps == ASSUME DatabaseInv, NEW p \in DatabaseProcs, Database!Dies(p)
                   PROVE DatabaseStepKeeps
<1>1. Database!Stops(p) /\ db' = db /\ legacy' = legacy /\ staging' = staging /\ lock' = lock
  BY DEF Database!Dies, Database!Interrupted
<1>2. "idle" \in ProcPcs
  BY DEF ProcPcs
<1>3. /\ proc' \in [DatabaseProcs -> Process]
      /\ \A q \in DatabaseProcs \ {p} : proc'[q] = proc[q]
      /\ \A q \in DatabaseProcs : proc'[q].top <= Database!SchemaVersion
      /\ proc'[p].pc = "idle"
  BY <1>1, <1>2, ProcessMoved
<1>4. DatabaseTyped'
  BY <1>1, <1>3 DEF DatabaseInv, DatabaseTyped
<1>5. OneImport'
  BY <1>1, <1>3 DEF DatabaseInv, OneImport
<1>6. NobodyBeside' /\ RemembersVersions' /\ Database!ServesItsSchema'
  BY <1>1, <1>3 DEF DatabaseInv, NobodyBeside, RemembersVersions, Database!ServesItsSchema,
     Database!Importing
<1> QED BY <1>1, <1>4, <1>5, <1>6, DatabaseStays DEF DatabaseInv, DatabaseStepKeeps

LEMMA ServesKeeps == ASSUME DatabaseInv, NEW p \in DatabaseProcs, Database!Serves(p)
                     PROVE DatabaseStepKeeps
<1> DEFINE r == [proc[p] EXCEPT !.pc = "serve", !.seen = {}]
<1>1. /\ proc[p].pc = "migrate" /\ Database!Missing(p) = {} /\ proc' = [proc EXCEPT ![p] = r]
      /\ db' = db /\ legacy' = legacy /\ staging' = staging /\ lock' = lock
  BY DEF Database!Serves
<1>2. proc[p] \in Process /\ proc[p].top <= Database!SchemaVersion
  BY DEF DatabaseInv, DatabaseTyped
<1>3. r \in Process /\ r.pc = "serve" /\ r.top = proc[p].top
  BY <1>2 DEF Process, ProcPcs
<1> HIDE DEF r
<1>4. /\ proc' \in [DatabaseProcs -> Process] /\ proc'[p] = r
      /\ \A q \in DatabaseProcs \ {p} : proc'[q] = proc[q]
      /\ \A q \in DatabaseProcs : proc'[q].top <= Database!SchemaVersion
  BY <1>1, <1>2, <1>3, OneProcessMoves DEF DatabaseInv
<1>5. DatabaseTyped' /\ OneImport'
  BY <1>1, <1>3, <1>4 DEF DatabaseInv, DatabaseTyped, OneImport
<1>6. db # None /\ 1 .. proc[p].top \subseteq db.applied
  BY <1>1 DEF DatabaseInv, RemembersVersions, Database!Missing
<1>7. NobodyBeside'
  BY <1>1, <1>3, <1>4, <1>6 DEF DatabaseInv, NobodyBeside, Database!Importing
<1>8. RemembersVersions' /\ Database!ServesItsSchema'
  BY <1>1, <1>3, <1>4, <1>6 DEF DatabaseInv, RemembersVersions, Database!ServesItsSchema
<1> QED BY <1>1, <1>5, <1>7, <1>8, DatabaseStays DEF DatabaseInv, DatabaseStepKeeps

\* A unit of work of a service only adds to what is there.
LEMMA WritesKeeps == ASSUME DatabaseInv, NEW p \in DatabaseProcs, Database!Writes(p)
                     PROVE DatabaseStepKeeps
<1> DEFINE d == [db EXCEPT !.rows = @ \cup {"written"}]
<1>1. /\ proc[p].pc = "serve" /\ db' = d /\ proc' = proc
      /\ legacy' = legacy /\ staging' = staging /\ lock' = lock
  BY DEF Database!Writes
<1>2. db # None /\ db \in Database!Databases
  BY <1>1 DEF DatabaseInv, RemembersVersions, DatabaseTyped
<1>3. /\ d \in Database!Databases /\ d.applied = db.applied /\ d.tables = db.tables
      /\ d.rows = db.rows \cup {"written"}
  BY <1>2 DEF Database!Databases, Database!RowKinds
<1> HIDE DEF d
<1>4. d # None
  BY <1>3, DatabaseAssumption
<1>5. DatabaseTyped'
  BY <1>1, <1>3 DEF DatabaseInv, DatabaseTyped
<1>6. OneImport'
  BY <1>1, <1>2 DEF DatabaseInv, OneImport
<1>7. NobodyBeside'
  BY <1>1, <1>2, <1>4 DEF DatabaseInv, NobodyBeside
<1>8. RemembersVersions' /\ Database!ServesItsSchema'
  BY <1>1, <1>3, <1>4 DEF DatabaseInv, RemembersVersions, Database!ServesItsSchema
<1>9. Database!AtAVersion'
  BY <1>1, <1>2, <1>3 DEF DatabaseInv, Database!AtAVersion
<1>10. Database!ImportedFirst /\ Database!NothingLost
  BY <1>1, <1>2, <1>3, <1>4 DEF Database!ImportedFirst, Database!NothingLost
<1> QED BY <1>5, <1>6, <1>7, <1>8, <1>9, <1>10 DEF DatabaseInv, DatabaseStepKeeps

\* Whoever finds no database creates one, unless there is something to be imported.
LEMMA OpenKeeps == ASSUME DatabaseInv, NEW p \in DatabaseProcs, Database!Open(p)
                   PROVE DatabaseStepKeeps
<1> DEFINE d == IF db = None THEN Database!Empty ELSE db
           r == [proc[p] EXCEPT !.pc = "migrate", !.seen = d.applied]
<1>1. /\ proc[p].pc = "open" /\ db' = d
      /\ \/ proc' = [proc EXCEPT ![p] = r]
         \/ Database!Stops(p)
      /\ legacy' = legacy /\ staging' = staging /\ lock' = lock
  BY DEF Database!Open
<1>2. PICK n \in 0 .. Database!SchemaVersion :
        d.applied = 1 .. n /\ d.tables = Database!Tables(1 .. n)
  <2>1. CASE db = None
    <3>1. 1 .. 0 = {} /\ Database!Tables(1 .. 0) = {} /\ 0 \in 0 .. Database!SchemaVersion
      BY VersionsAreFourteen DEF Database!Tables
    <3> QED BY <2>1, <3>1 DEF Database!Empty
  <2>2. CASE db # None
    BY <2>2 DEF DatabaseInv, Database!AtAVersion
  <2> QED BY <2>1, <2>2
<1>3. d \in Database!Databases /\ d # None
  <2>1. Database!Empty \in Database!Databases
    BY DEF Database!Empty, Database!Databases
  <2> QED BY <2>1, DatabaseAssumption DEF DatabaseInv, DatabaseTyped
<1>4. db # None => d = db
  OBVIOUS
<1> HIDE DEF d
<1>5. proc[p] \in Process /\ proc[p].top <= Database!SchemaVersion
  BY DEF DatabaseInv, DatabaseTyped
<1>6. r \in Process /\ r.pc = "migrate" /\ r.top = proc[p].top /\ r.seen = d.applied
  <2>1. d.applied \subseteq Nat
    BY <1>2, VersionsAreFourteen
  <2> QED BY <1>5, <2>1 DEF Process, ProcPcs
<1> HIDE DEF r
<1>7. "idle" \in ProcPcs
  BY DEF ProcPcs
<1>8. /\ proc' \in [DatabaseProcs -> Process]
      /\ \A q \in DatabaseProcs \ {p} : proc'[q] = proc[q]
      /\ \A q \in DatabaseProcs : proc'[q].top <= Database!SchemaVersion
      /\ \/ proc'[p].pc = "idle"
         \/ proc'[p].pc = "migrate" /\ proc'[p].seen = d.applied
  <2>1. CASE Database!Stops(p)
    BY <1>7, <2>1, ProcessMoved
  <2>2. CASE proc' = [proc EXCEPT ![p] = r]
    BY <1>5, <1>6, <2>2, OneProcessMoves DEF DatabaseInv
  <2> QED BY <1>1, <2>1, <2>2
<1>9. DatabaseTyped'
  BY <1>1, <1>3, <1>8 DEF DatabaseInv, DatabaseTyped
<1>10. db = None => legacy # "default" /\ \A q \in DatabaseProcs :
         proc[q].pc \notin Database!Importing
  BY <1>1 DEF DatabaseInv, NobodyBeside, DatabaseTyped, Database!Importing
<1>11. OneImport'
  BY <1>1, <1>4, <1>8, <1>10 DEF DatabaseInv, OneImport, Database!Importing
<1>12. NobodyBeside'
  BY <1>1, <1>3, <1>8 DEF DatabaseInv, NobodyBeside, Database!Importing
<1>13. RemembersVersions'
  BY <1>1, <1>2, <1>3, <1>4, <1>8 DEF DatabaseInv, RemembersVersions
<1>14. Database!ServesItsSchema'
  BY <1>1, <1>4, <1>8 DEF DatabaseInv, Database!ServesItsSchema, RemembersVersions
<1>15. Database!AtAVersion' /\ Database!ImportedFirst /\ Database!NothingLost
  BY <1>1, <1>2, <1>3, <1>4, <1>10 DEF Database!AtAVersion, Database!ImportedFirst,
     Database!NothingLost
<1> QED BY <1>9, <1>11, <1>12, <1>13, <1>14, <1>15 DEF DatabaseInv, DatabaseStepKeeps

\* One migration, in one transaction, or nothing.
LEMMA MigrateKeeps == ASSUME DatabaseInv, NEW p \in DatabaseProcs, Database!Migrate(p)
                      PROVE DatabaseStepKeeps
<1>1. /\ proc[p].pc = "migrate" /\ Database!Missing(p) # {}
      /\ legacy' = legacy /\ staging' = staging /\ lock' = lock
  BY DEF Database!Migrate
<1>2. CASE Database!Executes(db, Database!NextVersion(p))
  <2> DEFINE d == Database!Migrated(db, Database!NextVersion(p))
             r == [proc[p] EXCEPT !.seen = @ \cup {Database!NextVersion(p)}]
  <2>1. db' = d /\ proc' = [proc EXCEPT ![p] = r]
    BY <1>2 DEF Database!Migrate
  <2>2. /\ d \in Database!Databases
        /\ \E n \in 1 .. Database!SchemaVersion :
              /\ Database!NextVersion(p) = n /\ d.applied = 1 .. n
              /\ d.tables = Database!Tables(1 .. n)
              /\ proc[p].seen \cup {n} = 1 .. n /\ db.applied = 1 .. (n - 1)
        /\ db.rows \subseteq d.rows
    BY <1>1, <1>2, MigratedIsNext
  <2> HIDE DEF d
  <2>3. PICK n \in 1 .. Database!SchemaVersion :
              /\ Database!NextVersion(p) = n /\ d.applied = 1 .. n
              /\ d.tables = Database!Tables(1 .. n)
              /\ proc[p].seen \cup {n} = 1 .. n /\ db.applied = 1 .. (n - 1)
    BY <2>2
  <2>4. d # None /\ db.applied \subseteq d.applied
    BY <2>2, <2>3, DatabaseAssumption, VersionsAreFourteen
  <2>5. proc[p] \in Process /\ proc[p].top <= Database!SchemaVersion /\ n \in Nat
    BY VersionsAreFourteen DEF DatabaseInv, DatabaseTyped
  <2>6. r \in Process /\ r.pc = "migrate" /\ r.top = proc[p].top /\ r.seen = 1 .. n
    BY <1>1, <2>3, <2>5 DEF Process
  <2> HIDE DEF r
  <2>7. /\ proc' \in [DatabaseProcs -> Process]
        /\ \A q \in DatabaseProcs \ {p} : proc'[q] = proc[q]
        /\ \A q \in DatabaseProcs : proc'[q].top <= Database!SchemaVersion
        /\ proc'[p] = r
    BY <2>1, <2>5, <2>6, OneProcessMoves DEF DatabaseInv
  <2>8. db # None
    BY <1>1 DEF DatabaseInv, RemembersVersions
  <2>9. DatabaseTyped'
    BY <1>1, <2>1, <2>2, <2>7 DEF DatabaseInv, DatabaseTyped
  <2>10. OneImport'
    BY <1>1, <2>6, <2>7, <2>8 DEF DatabaseInv, OneImport
  <2>11. NobodyBeside'
    BY <1>1, <2>1, <2>4, <2>6, <2>7 DEF DatabaseInv, NobodyBeside, Database!Importing
  <2>12. RemembersVersions'
    <3>1. ASSUME NEW q \in DatabaseProcs, proc'[q].pc = "migrate"
          PROVE  \E k \in Nat : proc'[q].seen = 1 .. k /\ proc'[q].seen \subseteq db'.applied
      <4>1. CASE q = p
        BY <2>1, <2>3, <2>5, <2>6, <2>7, <4>1
      <4>2. CASE q # p
        BY <2>1, <2>4, <2>7, <3>1, <4>2 DEF DatabaseInv, RemembersVersions
      <4> QED BY <4>1, <4>2
    <3>2. \A q \in DatabaseProcs : proc'[q].pc = "receipt" => db' # None
      BY <2>1, <2>4
    <3> QED BY <2>1, <2>4, <3>1, <3>2 DEF RemembersVersions
  <2>13. Database!ServesItsSchema'
    BY <2>1, <2>4, <2>6, <2>7 DEF DatabaseInv, Database!ServesItsSchema
  <2>14. Database!AtAVersion' /\ Database!ImportedFirst /\ Database!NothingLost
    <3>1. n \in 0 .. Database!SchemaVersion
      BY VersionsAreFourteen
    <3> QED BY <2>1, <2>2, <2>3, <2>4, <2>8, <3>1 DEF Database!AtAVersion,
          Database!ImportedFirst, Database!NothingLost
  <2> QED BY <2>9, <2>10, <2>11, <2>12, <2>13, <2>14 DEF DatabaseInv, DatabaseStepKeeps
<1>3. CASE ~ Database!Executes(db, Database!NextVersion(p))
  <2>1. Database!Stops(p) /\ db' = db
    BY <1>3 DEF Database!Migrate
  <2>2. "idle" \in ProcPcs
    BY DEF ProcPcs
  <2>3. /\ proc' \in [DatabaseProcs -> Process]
        /\ \A q \in DatabaseProcs \ {p} : proc'[q] = proc[q]
        /\ \A q \in DatabaseProcs : proc'[q].top <= Database!SchemaVersion
        /\ proc'[p].pc = "idle"
    BY <2>1, <2>2, ProcessMoved
  <2>4. DatabaseTyped' /\ OneImport'
    BY <1>1, <2>1, <2>3 DEF DatabaseInv, DatabaseTyped, OneImport
  <2>5. NobodyBeside' /\ RemembersVersions' /\ Database!ServesItsSchema'
    BY <1>1, <2>1, <2>3
    DEF DatabaseInv, NobodyBeside, RemembersVersions, Database!ServesItsSchema, Database!Importing
  <2> QED BY <2>1, <2>4, <2>5, DatabaseStays DEF DatabaseInv, DatabaseStepKeeps
<1> QED BY <1>2, <1>3

-----------------------------------------------------------------------------

LEMMA DatabaseSteps == ASSUME DatabaseInv, [Database!Next]_(Database!databaseVars)
                       PROVE DatabaseStepKeeps
<1>1. ASSUME NEW p \in DatabaseProcs,
        NEW top \in {Database!SchemaVersion - 1, Database!SchemaVersion}, Database!Start(p, top)
      PROVE  DatabaseStepKeeps
  BY <1>1, StartKeeps
<1>2. ASSUME NEW p \in DatabaseProcs,
             \/ Database!ImportState(p) \/ Database!TakeLock(p) \/ Database!Stage(p)
             \/ Database!ImportFails(p) \/ Database!Publish(p) \/ Database!Receipt(p)
      PROVE  DatabaseStepKeeps
  BY <1>2, ImportStateKeeps, TakeLockKeeps, StageKeeps, ImportFailsKeeps,
     PublishKeepsDatabase, ReceiptKeeps
<1>3. ASSUME NEW p \in DatabaseProcs,
             \/ Database!Open(p) \/ Database!Migrate(p) \/ Database!Serves(p)
             \/ Database!Writes(p) \/ Database!Dies(p)
      PROVE  DatabaseStepKeeps
  BY <1>3, OpenKeeps, MigrateKeeps, ServesKeeps, WritesKeeps, DiesKeeps
<1>4. CASE UNCHANGED Database!databaseVars
  <2>1. DatabaseInv'
    BY <1>4 DEF Database!databaseVars, DatabaseInv, DatabaseTyped, OneImport, NobodyBeside,
       RemembersVersions, Database!AtAVersion, Database!ServesItsSchema
  <2> QED BY <1>4, <2>1, DatabaseStays DEF Database!databaseVars, DatabaseStepKeeps
<1> QED BY <1>1, <1>2, <1>3, <1>4, RemoveLockKeeps DEF Database!Next

-----------------------------------------------------------------------------
(* The first-run setup                                                     *)
WindowPcs == {"closed", "idle", "checking", "recording_check", "working", "finished", "failed",
              "recording"}
TerminalPcs == {"off", "asking", "reading", "validating", "installing", "staging"}
Things == {"hardware", "tkinter", "package", "llm_mode", "runtime", "optionals"}
ModelNames == SetupModels \cup {None}

\* What may be left to be recorded.
Pending ==
    {<<>>, <<"LLM_MODE_CONFIGURED">>, <<"RUNTIME_READY">>, <<"MODEL_SELECTED">>,
     <<"MODEL_PREPARED">>, <<"PROFILE_APPLIED", "SERVICE_INSTALLED">>, <<"SERVICE_INSTALLED">>,
     <<"OPTIONALS_CONFIGURED", "VERIFIED", "COMPLETE">>, <<"VERIFIED", "COMPLETE">>,
     <<"COMPLETE">>}

SettingsType ==
    [stage : Setup!Stages, ack : BOOLEAN, complete : BOOLEAN, staged : BOOLEAN,
     selected : ModelNames, alias : ModelNames]
MachineType == [done : SUBSET Things, stored : SUBSET ModelNames, serving : ModelNames]
WindowType ==
    [pc : WindowPcs, step : 0 .. 10, button : BOOLEAN, ack : BOOLEAN,
     selected : ModelNames, alias : ModelNames, saw : Setup!Stages \cup {None}, records : Pending,
     opened : Nat]
TerminalType == [pc : TerminalPcs, saw : Setup!Stages \cup {None}]

\* The settings, the machine, the window and the terminals have their fields.
SetupTyped ==
    /\ settings \in SettingsType /\ machine \in MachineType /\ window \in WindowType
    /\ terminal \in [SetupTerminals -> TerminalType]

\* How far the recorded setup is.
StageNow == Setup!Index(settings.stage)

\* What the stages up to the recorded one say of the machine is so.
ClaimsHold ==
    /\ StageNow >= 2 => settings.ack
    /\ StageNow >= 3 => "hardware" \in machine.done
    /\ StageNow >= 4 => machine.done \cap {"tkinter", "package"} # {}
    /\ StageNow >= 5 => "llm_mode" \in machine.done
    /\ StageNow >= 6 => "runtime" \in machine.done
    /\ StageNow >= 7 => settings.selected \in SetupModels
    /\ StageNow >= 8 => settings.alias \in machine.stored
    /\ StageNow >= 9 => machine.serving \in machine.stored
    /\ StageNow >= 11 => "optionals" \in machine.done
    /\ settings.complete <=> StageNow = 13
    /\ machine.done \ {"hardware", "tkinter"} # {} \/ machine.stored # {} => settings.ack

\* The window is on no screen whose success it could not record.
ScreenFits ==
    window.pc # "closed" =>
        /\ window.step >= 2 => StageNow >= 4
        /\ window.step >= 3 => StageNow >= 5
        /\ window.step >= 4 => StageNow >= 6
        /\ window.step >= 5 => StageNow >= 7
        /\ window.step >= 8 => StageNow >= 8
        /\ window.step >= 9 => StageNow >= 10
        /\ window.step >= 10 => StageNow >= 12

\* What the window remembers is what is recorded; only on the screen of the model may it
\* know of one that is stored and not recorded.
WindowKnows ==
    window.pc # "closed" =>
        /\ "tkinter" \in machine.done
        /\ window.ack => settings.ack
        /\ window.selected = settings.selected
        /\ window.alias \in {settings.alias} \cup machine.stored
        /\ window.step >= 7 => window.alias = settings.alias

\* Where the window is when it works.
WindowAtWork ==
    /\ window.pc = "checking" => StageNow >= 2 /\ window.step = 1
    /\ window.pc = "recording_check" =>
          /\ window.step = 1
          /\ window.saw = "SAFETY_ACKNOWLEDGED"
              \/ (window.saw = "HARDWARE_VALIDATED" /\ StageNow >= 3)
    /\ window.pc \in {"working", "finished", "failed"} => window.step \in Setup!Lane
    /\ window.pc = "recording" => window.step \in {4} \cup Setup!Lane

\* The work of a step, as it will be recorded, is done.
StepDone ==
    window.pc \in {"finished", "recording"} =>
        /\ window.step = 2 => "llm_mode" \in machine.done
        /\ window.step = 3 => "runtime" \in machine.done
        /\ window.step = 4 => settings.selected \in SetupModels
        /\ window.step = 6 => window.alias = settings.alias
        /\ window.step = 7 => settings.alias \in machine.stored
        /\ window.step = 8 => machine.serving \in machine.stored
        /\ window.step = 9 => "optionals" \in machine.done

\* What is not left to be recorded is recorded.
LeftToRecord ==
    window.pc = "recording" =>
        /\ window.step = 2 =>
              window.records = <<"LLM_MODE_CONFIGURED">>
                  \/ (window.records = <<>> /\ StageNow >= 5)
        /\ window.step = 3 =>
              window.records = <<"RUNTIME_READY">> \/ (window.records = <<>> /\ StageNow >= 6)
        /\ window.step = 4 =>
              window.records = <<"MODEL_SELECTED">> \/ (window.records = <<>> /\ StageNow >= 7)
        /\ window.step \in {5, 6} => window.records = <<>>
        /\ window.step = 7 =>
              window.records = <<"MODEL_PREPARED">> \/ (window.records = <<>> /\ StageNow >= 8)
        /\ window.step = 8 =>
              \/ window.records = <<"PROFILE_APPLIED", "SERVICE_INSTALLED">>
              \/ window.records = <<"SERVICE_INSTALLED">>
              \/ window.records = <<>> /\ StageNow >= 10
        /\ window.step = 9 =>
              \/ window.records = <<"OPTIONALS_CONFIGURED", "VERIFIED", "COMPLETE">>
              \/ window.records = <<"VERIFIED", "COMPLETE">>
              \/ window.records = <<"COMPLETE">>
              \/ window.records = <<>> /\ StageNow >= 12

\* A terminal that reads on has the acknowledgement; one that records has installed.
TerminalSound ==
    \A t \in SetupTerminals :
        /\ terminal[t].pc \in {"reading", "validating", "installing", "staging"} => settings.ack
        /\ terminal[t].pc = "staging" => machine.done \cap {"tkinter", "package"} # {}

WindowInv == ScreenFits /\ WindowKnows /\ WindowAtWork /\ StepDone /\ LeftToRecord

StagesInv == SetupTyped /\ ClaimsHold /\ WindowInv /\ TerminalSound

StagesStepKeeps == StagesInv' /\ Setup!OneStageAtATime

-----------------------------------------------------------------------------

\* Each of the thirteen stages has its place.
LEMMA StageAt == \A k \in 1 .. 13 :
    Setup!SETUP_STAGES[k] \in Setup!Stages /\ Setup!Index(Setup!SETUP_STAGES[k]) = k
<1>1. DOMAIN Setup!SETUP_STAGES = 1 .. 13
  BY DEF Setup!SETUP_STAGES
<1>2. ASSUME NEW k \in 1 .. 13
      PROVE  Setup!SETUP_STAGES[k] \in Setup!Stages /\ Setup!Index(Setup!SETUP_STAGES[k]) = k
  <2>1. \A i \in 1 .. 13 : Setup!SETUP_STAGES[i] = Setup!SETUP_STAGES[k] => i = k
    BY DEF Setup!SETUP_STAGES
  <2> QED BY <1>1, <2>1 DEF Setup!Index, Setup!Stages
<1> QED BY <1>2

LEMMA StagePlaces ==
    /\ Setup!Index("WELCOME") = 1 /\ Setup!Index("SAFETY_ACKNOWLEDGED") = 2
    /\ Setup!Index("HARDWARE_VALIDATED") = 3 /\ Setup!Index("TKINTER_READY") = 4
    /\ Setup!Index("LLM_MODE_CONFIGURED") = 5 /\ Setup!Index("RUNTIME_READY") = 6
    /\ Setup!Index("MODEL_SELECTED") = 7 /\ Setup!Index("MODEL_PREPARED") = 8
    /\ Setup!Index("PROFILE_APPLIED") = 9 /\ Setup!Index("SERVICE_INSTALLED") = 10
    /\ Setup!Index("OPTIONALS_CONFIGURED") = 11 /\ Setup!Index("VERIFIED") = 12
    /\ Setup!Index("COMPLETE") = 13
<1>1. /\ Setup!SETUP_STAGES[1] = "WELCOME" /\ Setup!SETUP_STAGES[2] = "SAFETY_ACKNOWLEDGED"
      /\ Setup!SETUP_STAGES[3] = "HARDWARE_VALIDATED" /\ Setup!SETUP_STAGES[4] = "TKINTER_READY"
      /\ Setup!SETUP_STAGES[5] = "LLM_MODE_CONFIGURED" /\ Setup!SETUP_STAGES[6] = "RUNTIME_READY"
      /\ Setup!SETUP_STAGES[7] = "MODEL_SELECTED" /\ Setup!SETUP_STAGES[8] = "MODEL_PREPARED"
      /\ Setup!SETUP_STAGES[9] = "PROFILE_APPLIED" /\ Setup!SETUP_STAGES[10] = "SERVICE_INSTALLED"
      /\ Setup!SETUP_STAGES[11] = "OPTIONALS_CONFIGURED" /\ Setup!SETUP_STAGES[12] = "VERIFIED"
      /\ Setup!SETUP_STAGES[13] = "COMPLETE"
  BY DEF Setup!SETUP_STAGES
<1> QED BY <1>1, StageAt

LEMMA StagesListed ==
    Setup!Stages = {"WELCOME", "SAFETY_ACKNOWLEDGED", "HARDWARE_VALIDATED", "TKINTER_READY",
              "LLM_MODE_CONFIGURED", "RUNTIME_READY", "MODEL_SELECTED", "MODEL_PREPARED",
              "PROFILE_APPLIED", "SERVICE_INSTALLED", "OPTIONALS_CONFIGURED", "VERIFIED",
                  "COMPLETE"}
<1>1. DOMAIN Setup!SETUP_STAGES = 1 .. 13
  BY DEF Setup!SETUP_STAGES
<1>2. Setup!Stages = {Setup!SETUP_STAGES[i] : i \in {1, 2, 3, 4, 5, 6, 7, 8, 9, 10, 11, 12, 13}}
  <2>1. 1 .. 13 = {1, 2, 3, 4, 5, 6, 7, 8, 9, 10, 11, 12, 13}
    OBVIOUS
  <2> QED BY <1>1, <2>1 DEF Setup!Stages
<1> QED BY <1>2 DEF Setup!SETUP_STAGES

LEMMA PlaceIsBetween ==
    ASSUME SetupTyped
    PROVE  /\ StageNow \in 1 .. 13
           /\ StageNow = 13 => settings.stage = "COMPLETE"
  BY StagePlaces, StagesListed DEF SetupTyped, SettingsType, StageNow

\* Every stage is recognized by its place.
LEMMA PlaceTells ==
    ASSUME SetupTyped
    PROVE  /\ settings.stage = "WELCOME" <=> StageNow = 1
           /\ settings.stage = "SAFETY_ACKNOWLEDGED" <=> StageNow = 2
           /\ settings.stage = "HARDWARE_VALIDATED" <=> StageNow = 3
           /\ settings.stage = "TKINTER_READY" <=> StageNow = 4
           /\ settings.stage = "LLM_MODE_CONFIGURED" <=> StageNow = 5
           /\ settings.stage = "RUNTIME_READY" <=> StageNow = 6
           /\ settings.stage = "MODEL_SELECTED" <=> StageNow = 7
           /\ settings.stage = "MODEL_PREPARED" <=> StageNow = 8
           /\ settings.stage = "PROFILE_APPLIED" <=> StageNow = 9
           /\ settings.stage = "SERVICE_INSTALLED" <=> StageNow = 10
           /\ settings.stage = "OPTIONALS_CONFIGURED" <=> StageNow = 11
           /\ settings.stage = "VERIFIED" <=> StageNow = 12
           /\ settings.stage = "COMPLETE" <=> StageNow = 13
  BY StagePlaces, StagesListed DEF SetupTyped, SettingsType, StageNow

\* One first record and one rest, by two names.
LEMMA SetupSequences ==
    \A s : Setup!Head(s) = Head(s) /\ Setup!Tail(s) = Tail(s)
BY DEF Setup!Head, Head, Setup!Tail, Tail

\* What is left of the records when the first is taken.
LEMMA RecordsShift ==
    /\ \A a : Setup!Head(<<a>>) = a /\ Setup!Tail(<<a>>) = <<>> /\ <<a>> # <<>>
    /\ \A a, b : Setup!Head(<<a, b>>) = a /\ Setup!Tail(<<a, b>>) = <<b>> /\ <<a, b>> # <<>>
    /\ \A a, b, c :
        Setup!Head(<<a, b, c>>) = a /\ Setup!Tail(<<a, b, c>>) = <<b, c>> /\ <<a, b, c>> # <<>>
  BY SetupSequences

-----------------------------------------------------------------------------
(* What only moves the window                                              *)

\* Where only the window moves, what is said of the rest stays true.
LEMMA OnlyWindow ==
    ASSUME StagesInv, UNCHANGED <<settings, machine, terminal>>,
           window' \in WindowType, WindowInv'
    PROVE  StagesStepKeeps
  BY DEF StagesInv, StagesStepKeeps, SetupTyped, ClaimsHold, TerminalSound,
     Setup!OneStageAtATime, StageNow

\* Where only the window moves, to a screen that is open to it, nothing else is asked.
LEMMA OnlyScreen ==
    ASSUME StagesInv, UNCHANGED <<settings, machine, terminal>>,
           window' \in WindowType, window.pc # "closed", window'.pc = "idle",
           window'.ack = window.ack, window'.selected = window.selected,
           window'.alias = window.alias, ScreenFits',
           window'.step >= 7 => window.alias = settings.alias
    PROVE  StagesStepKeeps
<1>1. WindowKnows'
  BY DEF StagesInv, WindowInv, WindowKnows
<1>2. WindowAtWork' /\ StepDone' /\ LeftToRecord'
  BY DEF WindowAtWork, StepDone, LeftToRecord
<1> QED BY <1>1, <1>2, OnlyWindow DEF WindowInv

\* What may be left to be recorded, or known, is nothing.
LEMMA NothingYet == <<>> \in Pending /\ None \in ModelNames /\ None \in Setup!Stages \cup {None}
  BY DEF Pending, ModelNames

LEMMA ShownIs ==
    ASSUME StagesInv, NEW s \in 0 .. 10, NEW q, q = Setup!Shown(s)
    PROVE  /\ q \in WindowType /\ q.pc = "idle" /\ q.step = s
           /\ q.ack = window.ack /\ q.selected = window.selected /\ q.alias = window.alias
  BY DEF Setup!Shown, StagesInv, SetupTyped, WindowType, WindowPcs

LEMMA ResumeFits ==
    ASSUME SetupTyped
    PROVE  /\ Setup!ResumeStep(settings.stage) \in 0 .. 10
           /\ Setup!ResumeStep(settings.stage) >= 2 => StageNow >= 4
           /\ Setup!ResumeStep(settings.stage) >= 3 => StageNow >= 5
           /\ Setup!ResumeStep(settings.stage) >= 4 => StageNow >= 6
           /\ Setup!ResumeStep(settings.stage) >= 5 => StageNow >= 7
           /\ Setup!ResumeStep(settings.stage) >= 8 => StageNow >= 8
           /\ Setup!ResumeStep(settings.stage) >= 9 => StageNow >= 10
           /\ Setup!ResumeStep(settings.stage) >= 10 => StageNow >= 12
<1>1. /\ StageNow \in {1, 2} => Setup!ResumeStep(settings.stage) = 0
      /\ StageNow = 3 => Setup!ResumeStep(settings.stage) = 1
      /\ StageNow = 4 => Setup!ResumeStep(settings.stage) = 2
      /\ StageNow = 5 => Setup!ResumeStep(settings.stage) = 3
      /\ StageNow = 6 => Setup!ResumeStep(settings.stage) = 4
      /\ StageNow = 7 => Setup!ResumeStep(settings.stage) = 5
      /\ StageNow \in {8, 9} => Setup!ResumeStep(settings.stage) = 8
      /\ StageNow \in {10, 11} => Setup!ResumeStep(settings.stage) = 9
      /\ StageNow \in {12, 13} => Setup!ResumeStep(settings.stage) = 10
  BY PlaceTells DEF Setup!ResumeStep
<1>2. StageNow \in 1 .. 13
  BY PlaceIsBetween
<1> QED BY <1>1, <1>2

LEMMA LaunchKeeps == ASSUME StagesInv, Setup!Launch PROVE StagesStepKeeps
<1>1. /\ window' = [Setup!Closed(window.opened + 1) EXCEPT
                      !.pc = "idle", !.button = TRUE, !.step = Setup!ResumeStep(settings.stage),
                      !.ack = settings.ack, !.selected = settings.selected,
                      !.alias = settings.alias]
      /\ UNCHANGED <<settings, machine, terminal>> /\ "tkinter" \in machine.done
  BY DEF Setup!Launch
<1>2. /\ window' \in WindowType /\ window'.pc = "idle" /\ window'.ack = settings.ack
      /\ window'.step = Setup!ResumeStep(settings.stage)
      /\ window'.selected = settings.selected /\ window'.alias = settings.alias
  <2>1. Setup!ResumeStep(settings.stage) \in 0 .. 10
    BY ResumeFits DEF StagesInv
  <2>2. window.opened + 1 \in Nat
    BY DEF StagesInv, SetupTyped, WindowType
  <2>3. /\ settings.ack \in BOOLEAN /\ settings.selected \in ModelNames
        /\ settings.alias \in ModelNames
    BY DEF StagesInv, SetupTyped, SettingsType
  <2> QED BY <1>1, <2>1, <2>2, <2>3, NothingYet DEF Setup!Closed, WindowType, WindowPcs
<1>3. WindowInv'
  BY <1>1, <1>2, ResumeFits DEF StagesInv, WindowInv, ScreenFits, WindowKnows, WindowAtWork,
     StepDone, LeftToRecord, StageNow
<1> QED BY <1>1, <1>2, <1>3, OnlyWindow

LEMMA WindowDiesKeeps == ASSUME StagesInv, Setup!WindowDies PROVE StagesStepKeeps
<1>1. window' = Setup!Closed(window.opened) /\ UNCHANGED <<settings, machine, terminal>>
  BY DEF Setup!WindowDies
<1>2. window' \in WindowType /\ window'.pc = "closed"
  <2>1. window.opened \in Nat
    BY DEF StagesInv, SetupTyped, WindowType
  <2> QED BY <1>1, <2>1, NothingYet DEF Setup!Closed, WindowType, WindowPcs
<1>3. WindowInv'
  BY <1>2 DEF WindowInv, ScreenFits, WindowKnows, WindowAtWork, StepDone, LeftToRecord
<1> QED BY <1>1, <1>2, <1>3, OnlyWindow

LEMMA BackKeeps == ASSUME StagesInv, Setup!Back PROVE StagesStepKeeps
<1>1. /\ window.pc = "idle" /\ window.step \in 1 .. 9 /\ window' = Setup!Shown(window.step - 1)
      /\ UNCHANGED <<settings, machine, terminal>>
  BY DEF Setup!Back
<1>2. window.step - 1 \in 0 .. 10
  BY <1>1
<1>3. ScreenFits'
  BY <1>1, <1>2, ShownIs DEF StagesInv, WindowInv, ScreenFits, StageNow
<1>4. window.step - 1 >= 7 => window.alias = settings.alias
  BY <1>1 DEF StagesInv, WindowInv, WindowKnows
<1> QED BY <1>1, <1>2, <1>3, <1>4, ShownIs, OnlyScreen

LEMMA MachineLooksRightKeeps == ASSUME StagesInv, Setup!MachineLooksRight PROVE StagesStepKeeps
<1>1. /\ window.pc = "idle" /\ window.step = 0 /\ window' = Setup!Shown(1)
      /\ UNCHANGED <<settings, machine, terminal>>
  BY DEF Setup!MachineLooksRight, Setup!Pressed
<1>2. ScreenFits'
  BY <1>1, ShownIs DEF ScreenFits
<1> QED BY <1>1, <1>2, ShownIs, OnlyScreen

\* The check that is recorded next is the one after the stage that was read.
LEMMA ReadStageKeeps == ASSUME StagesInv, Setup!ReadStage PROVE StagesStepKeeps
<1>1. /\ window.pc = "checking" /\ UNCHANGED <<settings, machine, terminal>>
      /\ \/ /\ settings.stage \in {"SAFETY_ACKNOWLEDGED", "HARDWARE_VALIDATED"}
            /\ window' = [window EXCEPT !.pc = "recording_check", !.saw = settings.stage]
         \/ /\ settings.stage \notin {"SAFETY_ACKNOWLEDGED", "HARDWARE_VALIDATED"}
            /\ window' = Setup!Shown(2)
  BY DEF Setup!ReadStage
<1>2. window.step = 1 /\ StageNow >= 2 /\ StageNow \in 1 .. 13
  BY <1>1, PlaceIsBetween DEF StagesInv, WindowInv, WindowAtWork
<1>3. CASE settings.stage \in {"SAFETY_ACKNOWLEDGED", "HARDWARE_VALIDATED"}
  <2>1. /\ window' \in WindowType /\ window'.pc = "recording_check" /\ window'.step = 1
        /\ window'.ack = window.ack /\ window'.selected = window.selected
        /\ window'.alias = window.alias /\ window'.saw = settings.stage
    BY <1>1, <1>2, <1>3 DEF StagesInv, SetupTyped, WindowType, WindowPcs, SettingsType
  <2>2. settings.stage = "HARDWARE_VALIDATED" => StageNow >= 3
    BY PlaceTells DEF StagesInv
  <2>3. WindowAtWork'
    BY <1>1, <1>3, <2>1, <2>2 DEF WindowAtWork, StageNow
  <2>4. ScreenFits' /\ WindowKnows'
    <3>1. ScreenFits'
      <4>1. window'.step = 1
        BY <2>1
      <4> QED BY <4>1 DEF ScreenFits
    <3>2. WindowKnows'
      <4>1. window.pc # "closed" /\ window.step = 1
        BY <1>1, <1>2
      <4> QED BY <1>1, <2>1, <4>1 DEF StagesInv, WindowInv, WindowKnows
    <3> QED BY <3>1, <3>2
  <2>5. StepDone' /\ LeftToRecord'
    BY <2>1 DEF StepDone, LeftToRecord
  <2> QED BY <1>1, <2>1, <2>3, <2>4, <2>5, OnlyWindow DEF WindowInv
<1>4. CASE settings.stage \notin {"SAFETY_ACKNOWLEDGED", "HARDWARE_VALIDATED"}
  <2>1. StageNow >= 4
    BY <1>2, <1>4, PlaceTells DEF StagesInv
  <2>2. ScreenFits'
    BY <1>1, <1>4, <2>1, ShownIs DEF ScreenFits, StageNow
  <2> QED BY <1>1, <1>4, <2>2, ShownIs, OnlyScreen
<1> QED BY <1>3, <1>4

LEMMA StartWorkKeeps == ASSUME StagesInv, Setup!StartWork PROVE StagesStepKeeps
<1>1. /\ window.pc = "idle" /\ window.step \in Setup!Lane
      /\ window' = [window EXCEPT !.pc = "working", !.button = FALSE]
      /\ UNCHANGED <<settings, machine, terminal>>
  BY DEF Setup!StartWork
<1>2. /\ window' \in WindowType /\ window'.pc = "working" /\ window'.step = window.step
      /\ window'.ack = window.ack /\ window'.selected = window.selected
      /\ window'.alias = window.alias
  BY <1>1 DEF StagesInv, SetupTyped, WindowType, WindowPcs
<1>3. WindowInv'
  BY <1>1, <1>2 DEF StagesInv, WindowInv, ScreenFits, WindowKnows, WindowAtWork, StepDone,
     LeftToRecord, StageNow
<1> QED BY <1>1, <1>2, <1>3, OnlyWindow

LEMMA WorkFailsKeeps == ASSUME StagesInv, Setup!WorkFails PROVE StagesStepKeeps
<1>1. /\ window.pc = "working" /\ window' = [window EXCEPT !.pc = "failed"]
      /\ UNCHANGED <<settings, machine, terminal>>
  BY DEF Setup!WorkFails
<1>2. /\ window' \in WindowType /\ window'.pc = "failed" /\ window'.step = window.step
      /\ window'.ack = window.ack /\ window'.selected = window.selected
      /\ window'.alias = window.alias
  BY <1>1 DEF StagesInv, SetupTyped, WindowType, WindowPcs
<1>3. WindowInv'
  BY <1>1, <1>2 DEF StagesInv, WindowInv, ScreenFits, WindowKnows, WindowAtWork, StepDone,
     LeftToRecord, StageNow
<1> QED BY <1>1, <1>2, <1>3, OnlyWindow

\* What a step records when its work has succeeded; a failed one records nothing.
LEMMA ResultArrivesKeeps == ASSUME StagesInv, Setup!ResultArrives PROVE StagesStepKeeps
<1>1. /\ window.pc \in {"finished", "failed"} /\ UNCHANGED <<settings, machine, terminal>>
      /\ \/ /\ window.pc = "finished"
            /\ window' = [window EXCEPT !.pc = "recording",
                !.records = Setup!Recorded(window.step)]
         \/ window' = [window EXCEPT !.pc = "idle"]
  BY DEF Setup!ResultArrives, Setup!Succeeded
<1>2. window.step \in Setup!Lane
  BY <1>1 DEF StagesInv, WindowInv, WindowAtWork
<1>3. /\ window.step = 2 => Setup!Recorded(window.step) = <<"LLM_MODE_CONFIGURED">>
      /\ window.step = 3 => Setup!Recorded(window.step) = <<"RUNTIME_READY">>
      /\ window.step \in {5, 6} => Setup!Recorded(window.step) = <<>>
      /\ window.step = 7 => Setup!Recorded(window.step) = <<"MODEL_PREPARED">>
      /\ window.step = 8 =>
          Setup!Recorded(window.step) = <<"PROFILE_APPLIED", "SERVICE_INSTALLED">>
      /\ window.step = 9 =>
           Setup!Recorded(window.step) = <<"OPTIONALS_CONFIGURED", "VERIFIED", "COMPLETE">>
  BY DEF Setup!Recorded
<1>4. Setup!Recorded(window.step) \in Pending
  BY <1>2, <1>3 DEF Setup!Lane, Pending
<1>5. /\ window' \in WindowType /\ window'.step = window.step
      /\ window'.ack = window.ack /\ window'.selected = window.selected
      /\ window'.alias = window.alias
      /\ \/ /\ window.pc = "finished" /\ window'.pc = "recording"
            /\ window'.records = Setup!Recorded(window.step)
         \/ window'.pc = "idle"
  BY <1>1, <1>4 DEF StagesInv, SetupTyped, WindowType, WindowPcs
<1>6. ScreenFits' /\ WindowKnows' /\ WindowAtWork' /\ StepDone'
  <2>1. ScreenFits'
    BY <1>1, <1>5 DEF StagesInv, WindowInv, ScreenFits, StageNow
  <2>2. WindowKnows'
    BY <1>1, <1>5 DEF StagesInv, WindowInv, WindowKnows
  <2>3. WindowAtWork'
    BY <1>1, <1>2, <1>5 DEF WindowAtWork
  <2>4. StepDone'
    BY <1>1, <1>5 DEF StagesInv, WindowInv, StepDone
  <2> QED BY <2>1, <2>2, <2>3, <2>4
<1>7. LeftToRecord'
  BY <1>1, <1>2, <1>3, <1>5 DEF LeftToRecord, Setup!Lane
<1> QED BY <1>1, <1>5, <1>6, <1>7, OnlyWindow DEF WindowInv

LEMMA NextScreenKeeps == ASSUME StagesInv, Setup!NextScreen PROVE StagesStepKeeps
<1>1. /\ window.pc = "recording" /\ window.records = <<>>
      /\ window' = Setup!Shown(window.step + 1)
      /\ UNCHANGED <<settings, machine, terminal>>
  BY DEF Setup!NextScreen
<1>2. window.step \in {2, 3, 4, 5, 6, 7, 8, 9}
  BY <1>1 DEF StagesInv, WindowInv, WindowAtWork, Setup!Lane
<1>3. window.step + 1 \in 0 .. 10
  BY <1>2
<1>4. /\ window.step = 2 => StageNow >= 5
      /\ window.step = 3 => StageNow >= 6
      /\ window.step = 4 => StageNow >= 7
      /\ window.step = 7 => StageNow >= 8
      /\ window.step = 8 => StageNow >= 10
      /\ window.step = 9 => StageNow >= 12
  BY <1>1, RecordsShift DEF StagesInv, WindowInv, LeftToRecord
<1>5. ScreenFits'
  BY <1>1, <1>2, <1>3, <1>4, ShownIs DEF StagesInv, WindowInv, ScreenFits, StageNow
<1>6. window.step + 1 >= 7 => window.alias = settings.alias
  <2>1. window.step = 6 => window.alias = settings.alias
    BY <1>1 DEF StagesInv, WindowInv, StepDone
  <2>2. window.step >= 7 => window.alias = settings.alias
    BY <1>1 DEF StagesInv, WindowInv, WindowKnows
  <2> QED BY <1>2, <2>1, <2>2
<1> QED BY <1>1, <1>3, <1>5, <1>6, ShownIs, OnlyScreen

-----------------------------------------------------------------------------
(* The work of a step                                                      *)

\* Where the window finishes a step, what it did is done; the settings stay.
LEMMA OnlyWork ==
    ASSUME StagesInv, UNCHANGED <<settings, terminal>>, window.pc = "working", Setup!Finished,
           machine' \in MachineType, machine.done \subseteq machine'.done,
           machine.stored \subseteq machine'.stored,
           machine'.serving = machine.serving \/ machine'.serving \in machine'.stored,
           settings.ack \/ machine' = machine,
           window.step = 2 => "llm_mode" \in machine'.done,
           window.step = 3 => "runtime" \in machine'.done,
           window.step = 6 => window.alias = settings.alias,
           window.step = 7 => settings.alias \in machine'.stored,
           window.step = 8 => machine'.serving \in machine'.stored,
           window.step = 9 => "optionals" \in machine'.done
    PROVE  StagesStepKeeps
<1>1. /\ window' \in WindowType /\ window'.pc = "finished" /\ window'.step = window.step
      /\ window'.ack = window.ack /\ window'.selected = window.selected
      /\ window'.alias = window.alias
  BY DEF Setup!Finished, StagesInv, SetupTyped, WindowType, WindowPcs
<1>2. window.step \in Setup!Lane
  BY DEF StagesInv, WindowInv, WindowAtWork
<1>3. SetupTyped'
  BY <1>1 DEF StagesInv, SetupTyped
<1>4. ClaimsHold'
  <2>1. StageNow' = StageNow
    BY DEF StageNow
  <2> QED BY <2>1 DEF StagesInv, ClaimsHold
<1>5. ScreenFits'
  BY <1>1 DEF StagesInv, WindowInv, ScreenFits, StageNow
<1>6. WindowKnows'
  BY <1>1 DEF StagesInv, WindowInv, WindowKnows
<1>7. WindowAtWork'
  BY <1>1, <1>2 DEF WindowAtWork
<1>8. StepDone'
  <2>1. window.step # 4
    BY <1>2 DEF Setup!Lane
  <2> QED BY <1>1, <2>1 DEF StepDone
<1>9. LeftToRecord' /\ TerminalSound' /\ Setup!OneStageAtATime
  <2>1. TerminalSound'
    BY DEF StagesInv, TerminalSound
  <2> QED BY <1>1, <2>1 DEF LeftToRecord, Setup!OneStageAtATime
<1> QED BY <1>3, <1>4, <1>5, <1>6, <1>7, <1>8, <1>9 DEF StagesStepKeeps, StagesInv, WindowInv

\* On a screen of the work the machine was acknowledged.
LEMMA AtWorkAcknowledged ==
    ASSUME StagesInv, window.pc # "closed", window.step >= 2 PROVE settings.ack
<1>1. StageNow >= 4
  BY DEF StagesInv, WindowInv, ScreenFits
<1>2. StageNow \in 1 .. 13
  BY PlaceIsBetween DEF StagesInv
<1> QED BY <1>1, <1>2 DEF StagesInv, ClaimsHold

\* Work that adds a thing to the machine.
LEMMA ThingDone ==
    ASSUME StagesInv, NEW what \in Things, Setup!Did(what)
    PROVE  /\ machine' \in MachineType /\ machine'.done = machine.done \cup {what}
           /\ machine'.stored = machine.stored /\ machine'.serving = machine.serving
  BY DEF StagesInv, SetupTyped, MachineType, Setup!Did

LEMMA EnterLlmModeKeeps == ASSUME StagesInv, Setup!EnterLlmMode PROVE StagesStepKeeps
<1>1. /\ window.pc = "working" /\ window.step = 2 /\ Setup!Did("llm_mode") /\ Setup!Finished
      /\ UNCHANGED <<settings, terminal>>
  BY DEF Setup!EnterLlmMode, Setup!Working
<1>2. "llm_mode" \in Things
  BY DEF Things
<1>3. settings.ack
  BY <1>1, AtWorkAcknowledged
<1> QED BY <1>1, <1>2, <1>3, ThingDone, OnlyWork

LEMMA InstallRuntimeKeeps == ASSUME StagesInv, Setup!InstallRuntime PROVE StagesStepKeeps
<1>1. /\ window.pc = "working" /\ window.step = 3 /\ Setup!Did("runtime") /\ Setup!Finished
      /\ UNCHANGED <<settings, terminal>>
  BY DEF Setup!InstallRuntime, Setup!Working
<1>2. "runtime" \in Things
  BY DEF Things
<1>3. settings.ack
  BY <1>1, AtWorkAcknowledged
<1> QED BY <1>1, <1>2, <1>3, ThingDone, OnlyWork

LEMMA SetUpOptionalsKeeps == ASSUME StagesInv, Setup!SetUpOptionals PROVE StagesStepKeeps
<1>1. /\ window.pc = "working" /\ window.step = 9 /\ Setup!Did("optionals") /\ Setup!Finished
      /\ UNCHANGED <<settings, terminal>>
  BY DEF Setup!SetUpOptionals, Setup!Working
<1>2. "optionals" \in Things
  BY DEF Things
<1>3. settings.ack
  BY <1>1, AtWorkAcknowledged
<1> QED BY <1>1, <1>2, <1>3, ThingDone, OnlyWork

LEMMA OptimizeKeeps == ASSUME StagesInv, Setup!Optimize PROVE StagesStepKeeps
<1>1. /\ window.pc = "working" /\ window.step = 5 /\ machine' = machine /\ Setup!Finished
      /\ UNCHANGED <<settings, terminal>>
  BY DEF Setup!Optimize, Setup!Working
<1>2. machine \in MachineType
  BY DEF StagesInv, SetupTyped
<1> QED BY <1>1, <1>2, OnlyWork

LEMMA ValidateModelKeeps == ASSUME StagesInv, Setup!ValidateModel PROVE StagesStepKeeps
<1>1. /\ window.pc = "working" /\ window.step = 7 /\ machine' = machine /\ Setup!Finished
      /\ UNCHANGED <<settings, terminal>> /\ window.alias \in machine.stored
  BY DEF Setup!ValidateModel, Setup!Working
<1>2. machine \in MachineType
  BY DEF StagesInv, SetupTyped
<1>3. window.alias = settings.alias
  BY <1>1 DEF StagesInv, WindowInv, WindowKnows
<1> QED BY <1>1, <1>2, <1>3, OnlyWork

LEMMA ActivateModelKeeps == ASSUME StagesInv, Setup!ActivateModel PROVE StagesStepKeeps
<1>1. /\ window.pc = "working" /\ window.step = 8 /\ Setup!ToServe \in machine.stored
      /\ Setup!Finished
      /\ machine' = [machine EXCEPT !.serving = Setup!ToServe]
      /\ UNCHANGED <<settings, terminal>>
  BY DEF Setup!ActivateModel, Setup!Working
<1>2. settings.ack
  BY <1>1, AtWorkAcknowledged
<1>3. /\ machine' \in MachineType /\ machine'.done = machine.done
      /\ machine'.stored = machine.stored /\ machine'.serving = Setup!ToServe
  BY <1>1 DEF StagesInv, SetupTyped, MachineType
<1> QED BY <1>1, <1>2, <1>3, OnlyWork

\* The bytes are there before the name they go by is known to anyone.
LEMMA AcquireModelKeeps == ASSUME StagesInv, Setup!AcquireModel PROVE StagesStepKeeps
<1>1. /\ window.pc = "working" /\ window.step = 6
      /\ machine' = [machine EXCEPT !.stored = @ \cup {window.selected}]
      /\ window' = [window EXCEPT !.alias = window.selected]
      /\ UNCHANGED <<settings, terminal>>
  BY DEF Setup!AcquireModel, Setup!Working
<1>2. settings.ack
  BY <1>1, AtWorkAcknowledged
<1>3. /\ machine' \in MachineType /\ machine'.done = machine.done
      /\ machine'.stored = machine.stored \cup {window.selected}
      /\ machine'.serving = machine.serving
  BY <1>1 DEF StagesInv, SetupTyped, MachineType, WindowType
<1>4. /\ window' \in WindowType /\ window'.pc = "working" /\ window'.step = 6
      /\ window'.ack = window.ack /\ window'.selected = window.selected
      /\ window'.alias = window.selected
  BY <1>1 DEF StagesInv, SetupTyped, WindowType
<1>5. SetupTyped'
  BY <1>1, <1>3, <1>4 DEF StagesInv, SetupTyped
<1>6. ClaimsHold'
  <2>1. StageNow' = StageNow
    BY <1>1 DEF StageNow
  <2> QED BY <1>1, <1>2, <1>3, <2>1 DEF StagesInv, ClaimsHold
<1>7. ScreenFits'
  BY <1>1, <1>4 DEF StagesInv, WindowInv, ScreenFits, StageNow
<1>8. WindowKnows'
  BY <1>1, <1>3, <1>4 DEF StagesInv, WindowInv, WindowKnows
<1>9. WindowAtWork' /\ StepDone' /\ LeftToRecord'
  BY <1>4 DEF WindowAtWork, StepDone, LeftToRecord, Setup!Lane
<1>10. TerminalSound' /\ Setup!OneStageAtATime
  BY <1>1, <1>3 DEF StagesInv, TerminalSound, Setup!OneStageAtATime
<1> QED BY <1>5, <1>6, <1>7, <1>8, <1>9, <1>10 DEF StagesStepKeeps, StagesInv, WindowInv

-----------------------------------------------------------------------------
(* What moves the stage                                                    *)

\* A stage moves to the next one, from the one before it, and nothing else changes.
LEMMA MovedIs ==
    ASSUME SetupTyped, NEW from \in Setup!Stages, NEW to \in Setup!Stages
    PROVE  /\ Setup!Moved(from, to) \in SettingsType
           /\ Setup!Moved(from, to).ack = settings.ack
           /\ Setup!Moved(from, to).complete = settings.complete
           /\ Setup!Moved(from, to).selected = settings.selected
           /\ Setup!Moved(from, to).alias = settings.alias
           /\ \/ Setup!Moved(from, to) = settings /\ settings.stage # from
              \/ StageNow = Setup!Index(from) /\ Setup!Moved(from, to).stage = to
  BY DEF SetupTyped, SettingsType, Setup!Moved, StageNow

LEMMA AcknowledgedIs ==
    ASSUME SetupTyped, NEW s, s = Setup!Acknowledged
    PROVE  /\ s \in SettingsType /\ s.ack = TRUE /\ s.complete = settings.complete
           /\ s.selected = settings.selected /\ s.alias = settings.alias
           /\ \/ s.stage = settings.stage /\ StageNow # 1
              \/ StageNow = 1 /\ s.stage = "SAFETY_ACKNOWLEDGED"
<1>1. "SAFETY_ACKNOWLEDGED" \in Setup!Stages
  BY StagesListed
<1>2. settings.stage = "WELCOME" <=> StageNow = 1
  BY PlaceTells
<1> QED BY <1>1, <1>2 DEF SetupTyped, SettingsType, Setup!Acknowledged

\* What has come about for the settings and the machine is never taken back.
SetupOnwards ==
    /\ settings' \in SettingsType /\ machine' \in MachineType
    /\ StageNow' \in {StageNow, StageNow + 1} /\ Setup!OneStageAtATime
    /\ settings.ack => settings'.ack
    /\ machine.done \subseteq machine'.done /\ machine.stored = machine'.stored
    /\ machine.serving = machine'.serving

\* A window that stays knows what it knew.
LEMMA WindowStays ==
    ASSUME StagesInv, SetupOnwards, window' = window,
           settings'.selected = settings.selected, settings'.alias = settings.alias
    PROVE  WindowInv'
<1>1. StageNow \in 1 .. 13 /\ StageNow' >= StageNow /\ StageNow' \in Nat
  <2>1. StageNow \in 1 .. 13
    BY PlaceIsBetween DEF StagesInv
  <2> QED BY <2>1 DEF SetupOnwards
<1>2. ScreenFits'
  BY <1>1 DEF StagesInv, WindowInv, ScreenFits
<1>3. WindowKnows'
  BY DEF StagesInv, WindowInv, WindowKnows, SetupOnwards
<1>4. WindowAtWork'
  BY <1>1 DEF StagesInv, WindowInv, WindowAtWork
<1>5. StepDone'
  BY DEF StagesInv, WindowInv, StepDone, SetupOnwards
<1>6. LeftToRecord'
  BY <1>1 DEF StagesInv, WindowInv, LeftToRecord
<1> QED BY <1>2, <1>3, <1>4, <1>5, <1>6 DEF WindowInv

\* Terminals that stay are where they were.
LEMMA TerminalsStay ==
    ASSUME StagesInv, SetupOnwards, terminal' = terminal PROVE TerminalSound'
  BY DEF StagesInv, TerminalSound, SetupOnwards

\* The stage that is recorded next is true; what was true stays so.
LEMMA ClaimsMove ==
    ASSUME StagesInv, SetupOnwards,
           StageNow' = 2 => settings'.ack,
           StageNow' = 3 => "hardware" \in machine'.done,
           StageNow' = 4 => machine'.done \cap {"tkinter", "package"} # {},
           StageNow' = 5 => "llm_mode" \in machine'.done,
           StageNow' = 6 => "runtime" \in machine'.done,
           StageNow' >= 7 => settings'.selected \in SetupModels,
           StageNow' >= 8 => settings'.alias \in machine'.stored,
           StageNow' = 9 => machine'.serving \in machine'.stored,
           StageNow' = 11 => "optionals" \in machine'.done,
           settings'.complete <=> StageNow' = 13,
           machine'.done \ {"hardware", "tkinter"} # {} => settings'.ack
    PROVE  ClaimsHold'
<1>1. StageNow \in 1 .. 13
  BY PlaceIsBetween DEF StagesInv
<1>2. StageNow' \in {StageNow, StageNow + 1}
  BY DEF SetupOnwards
<1>3. /\ StageNow' >= 2 => settings'.ack
      /\ StageNow' >= 3 => "hardware" \in machine'.done
      /\ StageNow' >= 5 => "llm_mode" \in machine'.done
      /\ StageNow' >= 6 => "runtime" \in machine'.done
      /\ StageNow' >= 9 => machine'.serving \in machine'.stored
      /\ StageNow' >= 11 => "optionals" \in machine'.done
  BY <1>1, <1>2 DEF StagesInv, ClaimsHold, SetupOnwards
<1>4. StageNow' >= 4 => machine'.done \cap {"tkinter", "package"} # {}
  BY <1>1, <1>2 DEF StagesInv, ClaimsHold, SetupOnwards
<1>5. machine'.stored # {} => settings'.ack
  BY DEF StagesInv, ClaimsHold, SetupOnwards
<1> QED BY <1>3, <1>4, <1>5 DEF ClaimsHold

LEMMA AcknowledgeSafetyKeeps == ASSUME StagesInv, Setup!AcknowledgeSafety PROVE StagesStepKeeps
<1>1. /\ window.pc = "idle" /\ window.step = 1 /\ settings' = Setup!Acknowledged
      /\ window' = [window EXCEPT !.ack = TRUE, !.pc = "checking"]
      /\ machine' = machine /\ terminal' = terminal
  BY DEF Setup!AcknowledgeSafety, Setup!Pressed
<1>2. /\ settings' \in SettingsType /\ settings'.ack = TRUE
      /\ settings'.complete = settings.complete
      /\ settings'.selected = settings.selected /\ settings'.alias = settings.alias
      /\ \/ settings'.stage = settings.stage /\ StageNow # 1
         \/ StageNow = 1 /\ settings'.stage = "SAFETY_ACKNOWLEDGED"
  BY <1>1, AcknowledgedIs DEF StagesInv
<1>3. StageNow' = IF StageNow = 1 THEN 2 ELSE StageNow
  BY <1>2, StagePlaces DEF StageNow
<1>4. StageNow \in 1 .. 13
  BY PlaceIsBetween DEF StagesInv
<1>5. SetupOnwards
  BY <1>1, <1>2, <1>3, <1>4 DEF SetupOnwards, StagesInv, SetupTyped, Setup!OneStageAtATime,
     StageNow
<1>6. ClaimsHold'
  BY <1>1, <1>2, <1>3, <1>4, <1>5, ClaimsMove DEF StagesInv, ClaimsHold
<1>7. /\ window' \in WindowType /\ window'.pc = "checking" /\ window'.step = 1
      /\ window'.ack = TRUE /\ window'.selected = window.selected
      /\ window'.alias = window.alias
  BY <1>1 DEF StagesInv, SetupTyped, WindowType, WindowPcs
<1>8. ScreenFits' /\ StepDone' /\ LeftToRecord'
  BY <1>7 DEF ScreenFits, StepDone, LeftToRecord
<1>9. WindowKnows'
  BY <1>1, <1>2, <1>7 DEF StagesInv, WindowInv, WindowKnows
<1>10. WindowAtWork'
  BY <1>3, <1>4, <1>7 DEF WindowAtWork
<1>11. SetupTyped'
  BY <1>1, <1>2, <1>7 DEF StagesInv, SetupTyped
<1> QED BY <1>1, <1>5, <1>6, <1>8, <1>9, <1>10, <1>11, TerminalsStay
    DEF StagesStepKeeps, StagesInv, WindowInv, SetupOnwards

\* The check of the machine, and what it records; the stage may have moved since it was read.
LEMMA HardwareMoves ==
    ASSUME StagesInv, settings.ack, Setup!Did("hardware"),
           ~ Setup!Refused("SAFETY_ACKNOWLEDGED", "HARDWARE_VALIDATED"),
           NEW s, s = Setup!Moved("SAFETY_ACKNOWLEDGED", "HARDWARE_VALIDATED"), settings' = s
    PROVE  /\ SetupOnwards /\ ClaimsHold' /\ StageNow' = 3
           /\ settings'.selected = settings.selected /\ settings'.alias = settings.alias
<1>1. /\ "SAFETY_ACKNOWLEDGED" \in Setup!Stages /\ "HARDWARE_VALIDATED" \in Setup!Stages
      /\ "hardware" \in Things
  BY StagesListed DEF Things
<1>2. /\ s \in SettingsType /\ s.ack = settings.ack /\ s.complete = settings.complete
      /\ s.selected = settings.selected /\ s.alias = settings.alias
      /\ \/ s = settings /\ settings.stage # "SAFETY_ACKNOWLEDGED"
         \/ StageNow = 2 /\ s.stage = "HARDWARE_VALIDATED"
  BY <1>1, StagePlaces, MovedIs DEF StagesInv
<1>3. StageNow \in {2, 3} /\ (settings.stage = "SAFETY_ACKNOWLEDGED" <=> StageNow = 2)
  BY PlaceTells DEF StagesInv, Setup!Refused
<1>4. StageNow' = 3
  <2>1. CASE s = settings /\ settings.stage # "SAFETY_ACKNOWLEDGED"
    BY <1>3, <2>1 DEF StageNow
  <2>2. CASE s.stage = "HARDWARE_VALIDATED"
    BY <2>2, StagePlaces DEF StageNow
  <2> QED BY <1>2, <2>1, <2>2
<1>5. /\ machine' \in MachineType /\ machine'.done = machine.done \cup {"hardware"}
      /\ machine'.stored = machine.stored /\ machine'.serving = machine.serving
  BY <1>1, ThingDone
<1>6. Setup!OneStageAtATime
  BY <1>2, <1>3, <1>4 DEF Setup!OneStageAtATime, StageNow
<1>7. SetupOnwards
  <2>1. StageNow' \in {StageNow, StageNow + 1}
    BY <1>3, <1>4
  <2>2. machine.done \subseteq machine'.done
    BY <1>5
  <2> QED BY <1>2, <1>5, <1>6, <2>1, <2>2 DEF SetupOnwards
<1>8. ClaimsHold'
  <2>1. settings'.complete <=> StageNow' = 13
    BY <1>2, <1>3, <1>4 DEF StagesInv, ClaimsHold
  <2>2. "hardware" \in machine'.done
    BY <1>5
  <2>3. settings'.ack
    BY <1>2
  <2> QED BY <1>4, <1>7, <2>1, <2>2, <2>3, ClaimsMove
<1> QED BY <1>2, <1>4, <1>7, <1>8

LEMMA TkinterMoves ==
    ASSUME StagesInv, machine' = machine, machine.done \cap {"tkinter", "package"} # {},
           ~ Setup!Refused("HARDWARE_VALIDATED", "TKINTER_READY"),
           NEW s, s = Setup!Moved("HARDWARE_VALIDATED", "TKINTER_READY"),
           settings' \in SettingsType, settings'.stage = s.stage, settings'.ack = s.ack,
           settings'.complete = s.complete, settings'.selected = s.selected,
           settings'.alias = s.alias
    PROVE  /\ SetupOnwards /\ ClaimsHold' /\ StageNow' = 4
           /\ settings'.selected = settings.selected /\ settings'.alias = settings.alias
<1>1. "HARDWARE_VALIDATED" \in Setup!Stages /\ "TKINTER_READY" \in Setup!Stages
  BY StagesListed
<1>2. /\ s.ack = settings.ack /\ s.complete = settings.complete
      /\ s.selected = settings.selected /\ s.alias = settings.alias
      /\ \/ s = settings /\ settings.stage # "HARDWARE_VALIDATED"
         \/ StageNow = 3 /\ s.stage = "TKINTER_READY"
  BY <1>1, StagePlaces, MovedIs DEF StagesInv
<1>3. StageNow \in {3, 4} /\ (settings.stage = "HARDWARE_VALIDATED" <=> StageNow = 3)
  BY PlaceTells DEF StagesInv, Setup!Refused
<1>4. StageNow' = 4
  <2>1. CASE s = settings /\ settings.stage # "HARDWARE_VALIDATED"
    BY <1>3, <2>1 DEF StageNow
  <2>2. CASE s.stage = "TKINTER_READY"
    BY <2>2, StagePlaces DEF StageNow
  <2> QED BY <1>2, <2>1, <2>2
<1>5. Setup!OneStageAtATime
  BY <1>2, <1>3, <1>4 DEF Setup!OneStageAtATime, StageNow
<1>6. SetupOnwards
  BY <1>2, <1>3, <1>4, <1>5 DEF SetupOnwards, StagesInv, SetupTyped
<1>7. ClaimsHold'
  BY <1>2, <1>3, <1>4, <1>6, ClaimsMove DEF StagesInv, ClaimsHold
<1> QED BY <1>2, <1>4, <1>6, <1>7

LEMMA RaisedIs ==
    ASSUME StagesInv, window' = Setup!RaisedInCheck
    PROVE  /\ window' \in WindowType /\ window'.pc = "idle" /\ window'.step = window.step
           /\ window'.ack = window.ack /\ window'.selected = window.selected
           /\ window'.alias = window.alias
  BY NothingYet DEF Setup!RaisedInCheck, StagesInv, SetupTyped, WindowType, WindowPcs

LEMMA RecordHardwareKeeps == ASSUME StagesInv, Setup!RecordHardware PROVE StagesStepKeeps
<1>1. /\ window.pc = "recording_check" /\ terminal' = terminal
      /\ \/ settings' = settings /\ machine' = machine /\ window' = Setup!RaisedInCheck
         \/ Setup!Did("hardware") /\ window' = Setup!RaisedInCheck /\ settings' = settings
         \/ /\ Setup!Did("hardware")
            /\ ~ Setup!Refused("SAFETY_ACKNOWLEDGED", "HARDWARE_VALIDATED")
            /\ settings' = Setup!Moved("SAFETY_ACKNOWLEDGED", "HARDWARE_VALIDATED")
            /\ window' = [window EXCEPT !.saw = "HARDWARE_VALIDATED"]
  BY DEF Setup!RecordHardware
<1>2. window.step = 1
  BY <1>1 DEF StagesInv, WindowInv, WindowAtWork
<1>3. CASE settings' = settings /\ window' = Setup!RaisedInCheck
  <2>1. ScreenFits'
    BY <1>2, <1>3, RaisedIs DEF ScreenFits
  <2>2. WindowKnows'
    <3>1. "tkinter" \in machine'.done /\ machine.stored = machine'.stored
      BY <1>1 DEF StagesInv, WindowInv, WindowKnows, SetupTyped, MachineType, Setup!Did
    <3> QED BY <1>1, <1>2, <1>3, <3>1, RaisedIs DEF StagesInv, WindowInv, WindowKnows
  <2>3. WindowAtWork' /\ StepDone' /\ LeftToRecord'
    BY <1>3, RaisedIs DEF WindowAtWork, StepDone, LeftToRecord
  <2>4. /\ machine' \in MachineType /\ machine'.stored = machine.stored
        /\ machine'.serving = machine.serving
        /\ machine'.done \in {machine.done, machine.done \cup {"hardware"}}
    BY <1>1, ThingDone DEF Things, StagesInv, SetupTyped
  <2>5. SetupOnwards
    <3>1. StageNow' = StageNow /\ Setup!OneStageAtATime
      BY <1>3 DEF StageNow, Setup!OneStageAtATime
    <3> QED BY <1>3, <2>4, <3>1 DEF SetupOnwards, StagesInv, SetupTyped
  <2>6. ClaimsHold'
    <3>1. StageNow' = StageNow
      BY <1>3 DEF StageNow
    <3> QED BY <1>3, <2>4, <2>5, <3>1 DEF StagesInv, ClaimsHold
  <2>7. SetupTyped'
    BY <1>1, <1>3, <2>4, RaisedIs DEF StagesInv, SetupTyped
  <2> QED BY <1>1, <2>1, <2>2, <2>3, <2>5, <2>6, <2>7, TerminalsStay
      DEF StagesStepKeeps, StagesInv, WindowInv, SetupOnwards
<1>4. CASE /\ Setup!Did("hardware")
               /\ ~ Setup!Refused("SAFETY_ACKNOWLEDGED", "HARDWARE_VALIDATED")
           /\ settings' = Setup!Moved("SAFETY_ACKNOWLEDGED", "HARDWARE_VALIDATED")
           /\ window' = [window EXCEPT !.saw = "HARDWARE_VALIDATED"]
  <2>1. settings.ack
    <3>1. StageNow \in {2, 3}
      BY <1>4, PlaceTells DEF StagesInv, Setup!Refused
    <3> QED BY <3>1 DEF StagesInv, ClaimsHold
  <2>2. /\ SetupOnwards /\ ClaimsHold' /\ StageNow' = 3
        /\ settings'.selected = settings.selected /\ settings'.alias = settings.alias
    BY <1>4, <2>1, HardwareMoves
  <2>3. "HARDWARE_VALIDATED" \in Setup!Stages
    BY StagesListed
  <2>4. /\ window' \in WindowType /\ window'.pc = "recording_check" /\ window'.step = 1
        /\ window'.ack = window.ack /\ window'.selected = window.selected
        /\ window'.alias = window.alias /\ window'.saw = "HARDWARE_VALIDATED"
    BY <1>1, <1>2, <1>4, <2>3 DEF StagesInv, SetupTyped, WindowType
  <2>5. ScreenFits' /\ StepDone' /\ LeftToRecord'
    BY <2>4 DEF ScreenFits, StepDone, LeftToRecord
  <2>6. WindowAtWork'
    BY <2>2, <2>4 DEF WindowAtWork
  <2>7. WindowKnows'
    BY <1>1, <1>2, <2>2, <2>4 DEF StagesInv, WindowInv, WindowKnows, SetupOnwards
  <2>8. SetupTyped'
    BY <1>1, <2>2, <2>4 DEF StagesInv, SetupTyped, SetupOnwards
  <2> QED BY <1>1, <2>2, <2>5, <2>6, <2>7, <2>8, TerminalsStay
      DEF StagesStepKeeps, StagesInv, WindowInv, SetupOnwards
<1> QED BY <1>1, <1>3, <1>4

LEMMA RecordTkinterKeeps == ASSUME StagesInv, Setup!RecordTkinter PROVE StagesStepKeeps
<1>1. /\ window.pc = "recording_check" /\ machine' = machine /\ terminal' = terminal
      /\ \/ settings' = settings /\ window' = Setup!RaisedInCheck
         \/ /\ ~ Setup!Refused("HARDWARE_VALIDATED", "TKINTER_READY")
            /\ settings' = Setup!Moved("HARDWARE_VALIDATED", "TKINTER_READY")
            /\ window' = [Setup!Shown(2) EXCEPT !.saw = None]
  BY DEF Setup!RecordTkinter
<1>2. window.step = 1 /\ "tkinter" \in machine.done
  BY <1>1 DEF StagesInv, WindowInv, WindowAtWork, WindowKnows
<1>3. CASE settings' = settings /\ window' = Setup!RaisedInCheck
  <2>1. ScreenFits'
    BY <1>2, <1>3, RaisedIs DEF ScreenFits
  <2> QED BY <1>1, <1>2, <1>3, <2>1, RaisedIs, OnlyScreen
<1>4. CASE /\ ~ Setup!Refused("HARDWARE_VALIDATED", "TKINTER_READY")
           /\ settings' = Setup!Moved("HARDWARE_VALIDATED", "TKINTER_READY")
           /\ window' = [Setup!Shown(2) EXCEPT !.saw = None]
  <2>1. settings' \in SettingsType
    <3>1. "HARDWARE_VALIDATED" \in Setup!Stages /\ "TKINTER_READY" \in Setup!Stages
      BY StagesListed
    <3> QED BY <1>4, <3>1, StagePlaces, MovedIs DEF StagesInv
  <2>2. /\ SetupOnwards /\ ClaimsHold' /\ StageNow' = 4
        /\ settings'.selected = settings.selected /\ settings'.alias = settings.alias
    BY <1>1, <1>2, <1>4, <2>1, TkinterMoves
  <2>3. /\ window' \in WindowType /\ window'.pc = "idle" /\ window'.step = 2
        /\ window'.ack = window.ack /\ window'.selected = window.selected
        /\ window'.alias = window.alias
    <3> DEFINE q == Setup!Shown(2)
    <3>1. /\ q \in WindowType /\ q.pc = "idle" /\ q.step = 2 /\ q.ack = window.ack
          /\ q.selected = window.selected /\ q.alias = window.alias
      BY ShownIs
    <3> HIDE DEF q
    <3>2. window' = [q EXCEPT !.saw = None]
      BY <1>4 DEF q
    <3> QED BY <3>1, <3>2, NothingYet DEF WindowType
  <2>4. ScreenFits'
    BY <2>2, <2>3 DEF ScreenFits
  <2>5. WindowAtWork' /\ StepDone' /\ LeftToRecord'
    BY <2>3 DEF WindowAtWork, StepDone, LeftToRecord
  <2>6. WindowKnows'
    BY <1>1, <1>2, <2>2, <2>3 DEF StagesInv, WindowInv, WindowKnows, SetupOnwards
  <2>7. SetupTyped'
    BY <1>1, <2>2, <2>3 DEF StagesInv, SetupTyped, SetupOnwards
  <2> QED BY <1>1, <2>2, <2>4, <2>5, <2>6, <2>7, TerminalsStay
      DEF StagesStepKeeps, StagesInv, WindowInv, SetupOnwards
<1> QED BY <1>1, <1>3, <1>4

-----------------------------------------------------------------------------
(* What the window records                                                 *)

LEMMA SelectModelKeeps == ASSUME StagesInv, Setup!SelectModel PROVE StagesStepKeeps
<1>1. PICK m \in SetupModels :
         /\ settings' = [settings EXCEPT !.selected = m]
         /\ window' = [window EXCEPT !.selected = m, !.pc = "recording",
                                     !.records = <<"MODEL_SELECTED">>]
  BY DEF Setup!SelectModel
<1>2. /\ window.pc = "idle" /\ window.step = 4 /\ machine' = machine /\ terminal' = terminal
  BY DEF Setup!SelectModel, Setup!Pressed
<1>3. /\ settings' \in SettingsType /\ settings'.selected = m
      /\ settings'.stage = settings.stage /\ settings'.ack = settings.ack
      /\ settings'.complete = settings.complete /\ settings'.alias = settings.alias
  BY <1>1 DEF StagesInv, SetupTyped, SettingsType, ModelNames
<1>4. /\ window' \in WindowType /\ window'.pc = "recording" /\ window'.step = 4
      /\ window'.ack = window.ack /\ window'.selected = m /\ window'.alias = window.alias
      /\ window'.records = <<"MODEL_SELECTED">>
  BY <1>1, <1>2 DEF StagesInv, SetupTyped, WindowType, WindowPcs, Pending, ModelNames
<1>5. StageNow' = StageNow
  BY <1>3 DEF StageNow
<1>6. SetupOnwards
  BY <1>2, <1>3, <1>5 DEF SetupOnwards, Setup!OneStageAtATime, StagesInv, SetupTyped
<1>7. ClaimsHold'
  BY <1>2, <1>3, <1>5 DEF StagesInv, ClaimsHold
<1>8. ScreenFits'
  BY <1>2, <1>4, <1>5 DEF StagesInv, WindowInv, ScreenFits
<1>9. WindowKnows'
  BY <1>2, <1>3, <1>4 DEF StagesInv, WindowInv, WindowKnows
<1>10. WindowAtWork' /\ StepDone' /\ LeftToRecord'
  BY <1>3, <1>4 DEF WindowAtWork, StepDone, LeftToRecord
<1>11. SetupTyped'
  BY <1>2, <1>3, <1>4 DEF StagesInv, SetupTyped
<1> QED BY <1>2, <1>6, <1>7, <1>8, <1>9, <1>10, <1>11, TerminalsStay
    DEF StagesStepKeeps, StagesInv, WindowInv, SetupOnwards

LEMMA CommitAliasKeeps == ASSUME StagesInv, Setup!CommitAlias PROVE StagesStepKeeps
<1>1. /\ window.pc = "working" /\ window.step = 6 /\ machine' = machine /\ terminal' = terminal
      /\ settings' = [settings EXCEPT !.alias = window.alias]
      /\ window' = [window EXCEPT !.pc = "finished"]
  BY DEF Setup!CommitAlias, Setup!Working, Setup!Finished
<1>2. /\ settings' \in SettingsType /\ settings'.alias = window.alias
      /\ settings'.stage = settings.stage /\ settings'.ack = settings.ack
      /\ settings'.complete = settings.complete /\ settings'.selected = settings.selected
  BY <1>1 DEF StagesInv, SetupTyped, SettingsType, WindowType
<1>3. /\ window' \in WindowType /\ window'.pc = "finished" /\ window'.step = 6
      /\ window'.ack = window.ack /\ window'.selected = window.selected
      /\ window'.alias = window.alias
  BY <1>1 DEF StagesInv, SetupTyped, WindowType, WindowPcs
<1>4. StageNow' = StageNow
  BY <1>2 DEF StageNow
<1>5. SetupOnwards
  BY <1>1, <1>2, <1>4 DEF SetupOnwards, Setup!OneStageAtATime, StagesInv, SetupTyped
<1>6. ClaimsHold'
  <2>1. StageNow >= 8 => window.alias \in machine.stored
    BY <1>1 DEF StagesInv, ClaimsHold, WindowInv, WindowKnows
  <2> QED BY <1>1, <1>2, <1>4, <2>1 DEF StagesInv, ClaimsHold
<1>7. ScreenFits'
  BY <1>1, <1>3, <1>4 DEF StagesInv, WindowInv, ScreenFits
<1>8. WindowKnows'
  BY <1>1, <1>2, <1>3 DEF StagesInv, WindowInv, WindowKnows
<1>9. WindowAtWork' /\ StepDone' /\ LeftToRecord'
  BY <1>2, <1>3 DEF WindowAtWork, StepDone, LeftToRecord, Setup!Lane
<1>10. SetupTyped'
  BY <1>1, <1>2, <1>3 DEF StagesInv, SetupTyped
<1> QED BY <1>1, <1>5, <1>6, <1>7, <1>8, <1>9, <1>10, TerminalsStay
    DEF StagesStepKeeps, StagesInv, WindowInv, SetupOnwards

\* What is recorded next, of which step, and what is left then.
LEMMA RecordedNext ==
    ASSUME StagesInv, window.pc = "recording", window.records # <<>>,
           Setup!Head(window.records) # "COMPLETE"
    PROVE  \/ /\ window.step = 2 /\ Setup!Head(window.records) = "LLM_MODE_CONFIGURED"
              /\ Setup!Tail(window.records) = <<>>
           \/ /\ window.step = 3 /\ Setup!Head(window.records) = "RUNTIME_READY"
              /\ Setup!Tail(window.records) = <<>>
           \/ /\ window.step = 4 /\ Setup!Head(window.records) = "MODEL_SELECTED"
              /\ Setup!Tail(window.records) = <<>>
           \/ /\ window.step = 7 /\ Setup!Head(window.records) = "MODEL_PREPARED"
              /\ Setup!Tail(window.records) = <<>>
           \/ /\ window.step = 8 /\ Setup!Head(window.records) = "PROFILE_APPLIED"
              /\ Setup!Tail(window.records) = <<"SERVICE_INSTALLED">>
           \/ /\ window.step = 8 /\ Setup!Head(window.records) = "SERVICE_INSTALLED"
              /\ Setup!Tail(window.records) = <<>>
           \/ /\ window.step = 9 /\ Setup!Head(window.records) = "OPTIONALS_CONFIGURED"
              /\ Setup!Tail(window.records) = <<"VERIFIED", "COMPLETE">>
           \/ /\ window.step = 9 /\ Setup!Head(window.records) = "VERIFIED"
              /\ Setup!Tail(window.records) = <<"COMPLETE">>
<1>1. window.step \in {2, 3, 4, 5, 6, 7, 8, 9}
  BY DEF StagesInv, WindowInv, WindowAtWork, Setup!Lane
<1>2. LeftToRecord
  BY DEF StagesInv, WindowInv
<1>3. CASE window.step \in {2, 3, 4, 5, 6, 7}
  BY <1>2, <1>3, RecordsShift DEF LeftToRecord
<1>4. CASE window.step = 8
  <2>1. /\ Setup!Head(<<"PROFILE_APPLIED", "SERVICE_INSTALLED">>) = "PROFILE_APPLIED"
        /\ Setup!Tail(<<"PROFILE_APPLIED", "SERVICE_INSTALLED">>) = <<"SERVICE_INSTALLED">>
        /\ Setup!Head(<<"SERVICE_INSTALLED">>) = "SERVICE_INSTALLED"
        /\ Setup!Tail(<<"SERVICE_INSTALLED">>) = <<>>
    BY RecordsShift
  <2>2. window.records \in
           {<<"PROFILE_APPLIED", "SERVICE_INSTALLED">>, <<"SERVICE_INSTALLED">>}
    BY <1>2, <1>4 DEF LeftToRecord
  <2> QED BY <1>4, <2>1, <2>2
<1>5. CASE window.step = 9
  <2>1. /\ Setup!Head(<<"OPTIONALS_CONFIGURED", "VERIFIED", "COMPLETE">>) = "OPTIONALS_CONFIGURED"
        /\ Setup!Tail(<<"OPTIONALS_CONFIGURED", "VERIFIED", "COMPLETE">>) = <<"VERIFIED",
            "COMPLETE">>
        /\ Setup!Head(<<"VERIFIED", "COMPLETE">>) = "VERIFIED"
        /\ Setup!Tail(<<"VERIFIED", "COMPLETE">>) = <<"COMPLETE">>
        /\ Setup!Head(<<"COMPLETE">>) = "COMPLETE"
    BY RecordsShift
  <2>2. window.records \in
           {<<"OPTIONALS_CONFIGURED", "VERIFIED", "COMPLETE">>, <<"VERIFIED", "COMPLETE">>,
            <<"COMPLETE">>}
    BY <1>2, <1>5 DEF LeftToRecord
  <2>3. window.records # <<"COMPLETE">>
    BY <2>1
  <2> QED BY <1>5, <2>1, <2>2, <2>3
<1> QED BY <1>1, <1>3, <1>4, <1>5

LEMMA RecordMoves ==
    ASSUME StagesInv, Setup!RecordStage, NEW next \in Setup!Stages,
        next = Setup!Head(window.records),
           NEW k \in 5 .. 12, Setup!Index(next) = k
    PROVE  \/ /\ settings' = settings
              /\ window' = [window EXCEPT !.pc = "idle", !.records = <<>>]
           \/ /\ settings' \in SettingsType /\ settings'.ack = settings.ack
              /\ settings'.complete = settings.complete
              /\ settings'.selected = settings.selected /\ settings'.alias = settings.alias
              /\ window' = [window EXCEPT !.records = Setup!Tail(@)]
              /\ \/ settings' = settings /\ StageNow >= k
                 \/ StageNow = k - 1 /\ settings'.stage = next
<1> DEFINE expected == Setup!SETUP_STAGES[k - 1]
<1>1. expected \in Setup!Stages /\ Setup!Index(expected) = k - 1
  BY StageAt
<1>2. \/ /\ settings' = settings
         /\ window' = [window EXCEPT !.pc = "idle", !.records = <<>>]
      \/ /\ ~ (settings.stage # expected /\ ~ Setup!Reached(next))
         /\ settings' = Setup!Moved(expected, next)
         /\ window' = [window EXCEPT !.records = Setup!Tail(@)]
  BY DEF Setup!RecordStage
<1> HIDE DEF expected
<1>3. /\ Setup!Moved(expected, next) \in SettingsType
      /\ Setup!Moved(expected, next).ack = settings.ack
      /\ Setup!Moved(expected, next).complete = settings.complete
      /\ Setup!Moved(expected, next).selected = settings.selected
      /\ Setup!Moved(expected, next).alias = settings.alias
      /\ \/ Setup!Moved(expected, next) = settings /\ settings.stage # expected
         \/ StageNow = Setup!Index(expected) /\ Setup!Moved(expected, next).stage = next
  BY <1>1, MovedIs DEF StagesInv
<1>4. Setup!Reached(next) => StageNow >= k
  BY DEF Setup!Reached, StageNow
<1> QED BY <1>1, <1>2, <1>3, <1>4

\* What was recorded is true, for the step did it; what is not is left.
LEMMA RecordStageKeeps == ASSUME StagesInv, Setup!RecordStage PROVE StagesStepKeeps
<1> DEFINE next == Setup!Head(window.records)
           k == Setup!Index(next)
           left == Setup!Tail(window.records)
<1>1. /\ window.pc = "recording" /\ window.records # <<>> /\ next # "COMPLETE"
      /\ machine' = machine /\ terminal' = terminal
  BY DEF Setup!RecordStage
<1>2. \/ window.step = 2 /\ next = "LLM_MODE_CONFIGURED" /\ left = <<>>
      \/ window.step = 3 /\ next = "RUNTIME_READY" /\ left = <<>>
      \/ window.step = 4 /\ next = "MODEL_SELECTED" /\ left = <<>>
      \/ window.step = 7 /\ next = "MODEL_PREPARED" /\ left = <<>>
      \/ window.step = 8 /\ next = "PROFILE_APPLIED" /\ left = <<"SERVICE_INSTALLED">>
      \/ window.step = 8 /\ next = "SERVICE_INSTALLED" /\ left = <<>>
      \/ window.step = 9 /\ next = "OPTIONALS_CONFIGURED" /\ left = <<"VERIFIED", "COMPLETE">>
      \/ window.step = 9 /\ next = "VERIFIED" /\ left = <<"COMPLETE">>
  BY <1>1, RecordedNext
<1>3. /\ next \in Setup!Stages /\ left \in Pending
      /\ \/ window.step = 2 /\ k = 5 /\ left = <<>>
         \/ window.step = 3 /\ k = 6 /\ left = <<>>
         \/ window.step = 4 /\ k = 7 /\ left = <<>>
         \/ window.step = 7 /\ k = 8 /\ left = <<>>
         \/ window.step = 8 /\ k = 9 /\ left = <<"SERVICE_INSTALLED">>
         \/ window.step = 8 /\ k = 10 /\ left = <<>>
         \/ window.step = 9 /\ k = 11 /\ left = <<"VERIFIED", "COMPLETE">>
         \/ window.step = 9 /\ k = 12 /\ left = <<"COMPLETE">>
  <2> HIDE DEF next, left
  <2>1. next \in Setup!Stages
    BY <1>2, StagesListed
  <2>2. left \in Pending
    BY <1>2 DEF Pending
  <2> QED BY <1>2, <2>1, <2>2, StagePlaces
<1>4. k \in 5 .. 12
  BY <1>3
<1>5. \/ /\ settings' = settings
         /\ window' = [window EXCEPT !.pc = "idle", !.records = <<>>]
      \/ /\ settings' \in SettingsType /\ settings'.ack = settings.ack
         /\ settings'.complete = settings.complete
         /\ settings'.selected = settings.selected /\ settings'.alias = settings.alias
         /\ window' = [window EXCEPT !.records = left]
         /\ \/ settings' = settings /\ StageNow >= k
            \/ StageNow = k - 1 /\ settings'.stage = next
  BY <1>3, <1>4, RecordMoves
<1> HIDE DEF left
<1>6. CASE settings' = settings /\ window' = [window EXCEPT !.pc = "idle", !.records = <<>>]
  <2>1. /\ window' \in WindowType /\ window'.pc = "idle" /\ window'.step = window.step
        /\ window'.ack = window.ack /\ window'.selected = window.selected
        /\ window'.alias = window.alias
    BY <1>6, NothingYet DEF StagesInv, SetupTyped, WindowType, WindowPcs
  <2>2. ScreenFits'
    BY <1>1, <1>6, <2>1 DEF StagesInv, WindowInv, ScreenFits, StageNow
  <2>3. window.step >= 7 => window.alias = settings.alias
    BY <1>1 DEF StagesInv, WindowInv, WindowKnows
  <2> QED BY <1>1, <1>6, <2>1, <2>2, <2>3, OnlyScreen
<1>7. CASE /\ settings' \in SettingsType /\ settings'.ack = settings.ack
           /\ settings'.complete = settings.complete
           /\ settings'.selected = settings.selected /\ settings'.alias = settings.alias
           /\ window' = [window EXCEPT !.records = left]
           /\ \/ settings' = settings /\ StageNow >= k
              \/ StageNow = k - 1 /\ settings'.stage = next
  <2>1. /\ window' \in WindowType /\ window'.pc = "recording" /\ window'.step = window.step
        /\ window'.ack = window.ack /\ window'.selected = window.selected
        /\ window'.alias = window.alias /\ window'.records = left
    BY <1>1, <1>3, <1>7 DEF StagesInv, SetupTyped, WindowType
  <2>2. StageNow' >= k /\ (StageNow' = StageNow \/ (StageNow = k - 1 /\ StageNow' = k))
    <3>1. CASE settings' = settings /\ StageNow >= k
      BY <3>1 DEF StageNow
    <3>2. CASE StageNow = k - 1 /\ settings'.stage = next
      BY <1>4, <3>2 DEF StageNow
    <3> QED BY <1>7, <3>1, <3>2
  <2>11. Setup!OneStageAtATime
    <3>1. CASE settings' = settings
      BY <3>1 DEF Setup!OneStageAtATime
    <3>2. CASE StageNow = k - 1 /\ settings'.stage = next
      BY <1>4, <3>2 DEF Setup!OneStageAtATime, StageNow
    <3> QED BY <1>7, <3>1, <3>2
  <2> HIDE DEF k, next
  <2>3. StageNow \in 1 .. 13 /\ StageNow' >= StageNow /\ StageNow' \in Nat
    BY <1>4, <2>2, PlaceIsBetween DEF StagesInv
  <2>4. SetupOnwards
    <3>1. StageNow' \in {StageNow, StageNow + 1}
      BY <1>4, <2>2
    <3>2. Setup!OneStageAtATime
      BY <2>11
    <3> QED BY <1>1, <1>7, <3>1, <3>2 DEF SetupOnwards, StagesInv, SetupTyped
  <2>5. ClaimsHold'
    <3>1. StepDone /\ ClaimsHold
      BY DEF StagesInv, WindowInv
    <3>2. CASE StageNow' = StageNow
      BY <1>1, <1>7, <2>3, <3>1, <3>2 DEF ClaimsHold
    <3>3. CASE StageNow = k - 1 /\ StageNow' = k
      <4>1. /\ k = 5 => "llm_mode" \in machine.done
            /\ k = 6 => "runtime" \in machine.done
            /\ k = 7 => settings.selected \in SetupModels
            /\ k = 8 => settings.alias \in machine.stored
            /\ k = 9 => machine.serving \in machine.stored
            /\ k = 11 => "optionals" \in machine.done
        BY <1>1, <1>3, <3>1 DEF StepDone
      <4>2. /\ k >= 7 => settings.selected \in SetupModels
            /\ k >= 8 => settings.alias \in machine.stored
        BY <1>4, <3>1, <3>3, <4>1 DEF ClaimsHold
      <4>3. settings'.complete <=> StageNow' = 13
        BY <1>4, <1>7, <3>1, <3>3 DEF ClaimsHold
      <4>4. settings'.ack /\ k # 2 /\ k # 3 /\ k # 4
        BY <1>4, <1>7, <3>1, <3>3 DEF ClaimsHold
      <4> QED BY <1>1, <1>7, <2>4, <3>3, <4>1, <4>2, <4>3, <4>4, ClaimsMove
    <3> QED BY <2>2, <3>2, <3>3
  <2>6. ScreenFits'
    <3>1. window.pc # "closed"
      BY <1>1
    <3> QED BY <2>1, <2>3, <3>1 DEF StagesInv, WindowInv, ScreenFits
  <2>7. WindowKnows'
    BY <1>1, <1>7, <2>1 DEF StagesInv, WindowInv, WindowKnows
  <2>8. WindowAtWork'
    BY <1>1, <2>1 DEF StagesInv, WindowInv, WindowAtWork
  <2>9. StepDone'
    BY <1>1, <1>7, <2>1 DEF StagesInv, WindowInv, StepDone
  <2>10. LeftToRecord'
    BY <1>3, <2>1, <2>2 DEF LeftToRecord
  <2>12. SetupTyped'
    BY <1>1, <1>7, <2>1 DEF StagesInv, SetupTyped
  <2> QED BY <1>1, <2>4, <2>5, <2>6, <2>7, <2>8, <2>9, <2>10, <2>12, TerminalsStay
      DEF StagesStepKeeps, StagesInv, WindowInv, SetupOnwards
<1> QED BY <1>5, <1>6, <1>7

LEMMA FinishSetupKeeps == ASSUME StagesInv, Setup!FinishSetup PROVE StagesStepKeeps
<1>1. /\ window.pc = "recording" /\ window.records = <<"COMPLETE">>
      /\ machine' = machine /\ terminal' = terminal
      /\ \/ settings' = settings /\ window' = [window EXCEPT !.pc = "idle", !.records = <<>>]
         \/ /\ ~ Setup!Refused("VERIFIED", "COMPLETE") /\ settings' = Setup!Completed
            /\ window' = [window EXCEPT !.records = <<>>]
  BY DEF Setup!FinishSetup
<1>2. window.step = 9
  <2>1. /\ window.step \in {2, 3, 4, 5, 6, 7, 8, 9} /\ LeftToRecord
    BY <1>1 DEF StagesInv, WindowInv, WindowAtWork, Setup!Lane
  <2>2. /\ <<"COMPLETE">> # <<"LLM_MODE_CONFIGURED">> /\ <<"COMPLETE">> # <<"RUNTIME_READY">>
        /\ <<"COMPLETE">> # <<"MODEL_SELECTED">> /\ <<"COMPLETE">> # <<"MODEL_PREPARED">>
        /\ <<"COMPLETE">> # <<"PROFILE_APPLIED", "SERVICE_INSTALLED">>
        /\ <<"COMPLETE">> # <<"SERVICE_INSTALLED">> /\ <<"COMPLETE">> # <<>>
    OBVIOUS
  <2> QED BY <1>1, <2>1, <2>2 DEF LeftToRecord
<1>3. CASE settings' = settings /\ window' = [window EXCEPT !.pc = "idle", !.records = <<>>]
  <2>1. /\ window' \in WindowType /\ window'.pc = "idle" /\ window'.step = 9
        /\ window'.ack = window.ack /\ window'.selected = window.selected
        /\ window'.alias = window.alias
    BY <1>2, <1>3, NothingYet DEF StagesInv, SetupTyped, WindowType, WindowPcs
  <2>2. ScreenFits'
    BY <1>1, <1>2, <1>3, <2>1 DEF StagesInv, WindowInv, ScreenFits, StageNow
  <2>3. window.alias = settings.alias
    BY <1>1, <1>2 DEF StagesInv, WindowInv, WindowKnows
  <2> QED BY <1>1, <1>3, <2>1, <2>2, <2>3, OnlyScreen
<1>4. CASE /\ ~ Setup!Refused("VERIFIED", "COMPLETE") /\ settings' = Setup!Completed
           /\ window' = [window EXCEPT !.records = <<>>]
  <2>1. /\ window' \in WindowType /\ window'.pc = "recording" /\ window'.step = 9
        /\ window'.ack = window.ack /\ window'.selected = window.selected
        /\ window'.alias = window.alias /\ window'.records = <<>>
    BY <1>1, <1>2, <1>4, NothingYet DEF StagesInv, SetupTyped, WindowType
  <2> DEFINE q == Setup!Moved("VERIFIED", "COMPLETE")
  <2>2. /\ q \in SettingsType /\ q.ack = settings.ack
        /\ q.selected = settings.selected /\ q.alias = settings.alias
        /\ q.stage = "COMPLETE" /\ StageNow \in {12, 13}
    <3>1. "VERIFIED" \in Setup!Stages /\ "COMPLETE" \in Setup!Stages
      BY StagesListed
    <3>2. StageNow \in {12, 13} /\ settings.stage \in {"VERIFIED", "COMPLETE"}
      BY <1>4, PlaceTells DEF StagesInv, Setup!Refused
    <3> QED BY <3>1, <3>2, MovedIs DEF StagesInv
  <2>3. settings' = [q EXCEPT !.complete = TRUE]
    BY <1>4 DEF Setup!Completed
  <2> HIDE DEF q
  <2>4. /\ settings' \in SettingsType /\ settings'.ack = settings.ack
        /\ settings'.selected = settings.selected /\ settings'.alias = settings.alias
        /\ settings'.stage = "COMPLETE" /\ settings'.complete = TRUE
    BY <2>2, <2>3 DEF SettingsType
  <2>5. StageNow' = 13
    BY <2>4, StagePlaces DEF StageNow
  <2>6. SetupOnwards
    <3>1. Setup!OneStageAtATime
      BY <2>2, <2>4, <2>5, PlaceTells DEF Setup!OneStageAtATime, StageNow, StagesInv
    <3> QED BY <1>1, <2>2, <2>4, <2>5, <3>1 DEF SetupOnwards, StagesInv, SetupTyped
  <2>7. ClaimsHold'
    BY <1>1, <2>2, <2>4, <2>5 DEF StagesInv, ClaimsHold
  <2>8. ScreenFits' /\ LeftToRecord'
    BY <2>1, <2>5 DEF ScreenFits, LeftToRecord
  <2>9. WindowKnows'
    BY <1>1, <1>2, <2>1, <2>4 DEF StagesInv, WindowInv, WindowKnows
  <2>10. WindowAtWork'
    BY <2>1 DEF WindowAtWork, Setup!Lane
  <2>11. StepDone'
    BY <1>1, <1>2, <2>1 DEF StagesInv, WindowInv, StepDone
  <2>12. SetupTyped'
    BY <1>1, <2>1, <2>4 DEF StagesInv, SetupTyped
  <2> QED BY <1>1, <2>6, <2>7, <2>8, <2>9, <2>10, <2>11, <2>12, TerminalsStay
      DEF StagesStepKeeps, StagesInv, WindowInv, SetupOnwards
<1> QED BY <1>1, <1>3, <1>4

-----------------------------------------------------------------------------
(* The terminals and the boot                                              *)

LEMMA RebootKeeps == ASSUME StagesInv, Setup!Reboot PROVE StagesStepKeeps
<1>1. /\ settings' = settings /\ window' = Setup!Closed(window.opened)
      /\ machine' = [machine EXCEPT !.done = (@ \ {"package"}) \cup {"tkinter"}]
      /\ terminal' = [t \in SetupTerminals |-> Setup!NoTerminal] /\ "package" \in machine.done
  BY DEF Setup!Reboot
<1>2. /\ machine' \in MachineType
      /\ machine'.done = (machine.done \ {"package"}) \cup {"tkinter"}
      /\ machine'.stored = machine.stored /\ machine'.serving = machine.serving
  BY <1>1 DEF StagesInv, SetupTyped, MachineType, Things
<1>3. window' \in WindowType /\ window'.pc = "closed"
  <2>1. window.opened \in Nat
    BY DEF StagesInv, SetupTyped, WindowType
  <2> QED BY <1>1, <2>1, NothingYet DEF Setup!Closed, WindowType, WindowPcs
<1>4. WindowInv'
  BY <1>3 DEF WindowInv, ScreenFits, WindowKnows, WindowAtWork, StepDone, LeftToRecord
<1>5. terminal' \in [SetupTerminals -> TerminalType] /\ TerminalSound'
  BY <1>1, NothingYet DEF Setup!NoTerminal, TerminalType, TerminalPcs, TerminalSound
<1>6. ClaimsHold'
  <2>1. StageNow' = StageNow
    BY <1>1 DEF StageNow
  <2>2. ClaimsHold
    BY DEF StagesInv
  <2>3. /\ "hardware" \in machine.done => "hardware" \in machine'.done
        /\ "llm_mode" \in machine.done => "llm_mode" \in machine'.done
        /\ "runtime" \in machine.done => "runtime" \in machine'.done
        /\ "optionals" \in machine.done => "optionals" \in machine'.done
        /\ machine'.done \cap {"tkinter", "package"} # {}
    BY <1>2
  <2>4. machine'.done \ {"hardware", "tkinter"} # {} => settings.ack
    BY <1>2, <2>2 DEF ClaimsHold
  <2> QED BY <1>1, <1>2, <2>1, <2>2, <2>3, <2>4 DEF ClaimsHold
<1>7. SetupTyped' /\ Setup!OneStageAtATime
  BY <1>1, <1>2, <1>3, <1>5 DEF StagesInv, SetupTyped, Setup!OneStageAtATime
<1> QED BY <1>4, <1>5, <1>6, <1>7 DEF StagesStepKeeps, StagesInv

\* A terminal goes on; the others stay where they are.
LEMMA TerminalIs ==
    ASSUME StagesInv, NEW t \in SetupTerminals, NEW r \in TerminalType, Setup!Goes(t, r)
    PROVE  /\ terminal' \in [SetupTerminals -> TerminalType] /\ terminal'[t] = r
           /\ \A u \in SetupTerminals : u # t => terminal'[u] = terminal[u]
  BY DEF StagesInv, SetupTyped, Setup!Goes

\* Where a terminal does something, what it may not take back stays, and it is let on.
LEMMA OnlyTerminal ==
    ASSUME StagesInv, SetupOnwards, ClaimsHold', window' = window,
           settings'.selected = settings.selected, settings'.alias = settings.alias,
           NEW t \in SetupTerminals, NEW r \in TerminalType, Setup!Goes(t, r),
           r.pc \in {"reading", "validating", "installing", "staging"} => settings'.ack,
           r.pc = "staging" => machine'.done \cap {"tkinter", "package"} # {}
    PROVE  StagesStepKeeps
<1>1. /\ terminal' \in [SetupTerminals -> TerminalType] /\ terminal'[t] = r
      /\ \A u \in SetupTerminals : u # t => terminal'[u] = terminal[u]
  BY TerminalIs
<1>2. TerminalSound'
  <2>1. ASSUME NEW u \in SetupTerminals
        PROVE  /\ terminal'[u].pc \in {"reading", "validating", "installing", "staging"}
                     => settings'.ack
               /\ terminal'[u].pc = "staging" => machine'.done \cap {"tkinter", "package"} # {}
    <3>1. CASE u = t
      BY <1>1, <3>1
    <3>2. CASE u # t
      <4>1. terminal'[u] = terminal[u]
        BY <1>1, <2>1, <3>2
      <4>2. settings.ack => settings'.ack
        BY DEF SetupOnwards
      <4>3. machine.done \subseteq machine'.done
        BY DEF SetupOnwards
      <4> QED BY <2>1, <4>1, <4>2, <4>3 DEF StagesInv, TerminalSound
    <3> QED BY <3>1, <3>2
  <2> QED BY <2>1 DEF TerminalSound
<1>3. WindowInv'
  BY WindowStays
<1>4. SetupTyped' /\ Setup!OneStageAtATime
  BY <1>1 DEF StagesInv, SetupTyped, SetupOnwards
<1> QED BY <1>2, <1>3, <1>4 DEF StagesStepKeeps, StagesInv

\* A step that moves neither the settings nor the machine.
LEMMA NothingMoves ==
    ASSUME StagesInv, settings' = settings, machine' = machine PROVE SetupOnwards /\ ClaimsHold'
<1>1. StageNow' = StageNow
  BY DEF StageNow
<1>2. SetupOnwards
  BY <1>1 DEF SetupOnwards, Setup!OneStageAtATime, StagesInv, SetupTyped
<1> QED BY <1>1, <1>2 DEF StagesInv, ClaimsHold

\* A step that acknowledges.
LEMMA AcknowledgementMoves ==
    ASSUME StagesInv, settings' = Setup!Acknowledged, machine' = machine
    PROVE  /\ SetupOnwards /\ ClaimsHold' /\ settings'.ack
           /\ settings'.selected = settings.selected /\ settings'.alias = settings.alias
<1>1. /\ settings' \in SettingsType /\ settings'.ack = TRUE
      /\ settings'.complete = settings.complete
      /\ settings'.selected = settings.selected /\ settings'.alias = settings.alias
      /\ \/ settings'.stage = settings.stage /\ StageNow # 1
         \/ StageNow = 1 /\ settings'.stage = "SAFETY_ACKNOWLEDGED"
  BY AcknowledgedIs DEF StagesInv
<1>2. StageNow' = IF StageNow = 1 THEN 2 ELSE StageNow
  BY <1>1, StagePlaces DEF StageNow
<1>3. StageNow \in 1 .. 13
  BY PlaceIsBetween DEF StagesInv
<1>4. SetupOnwards
  BY <1>1, <1>2, <1>3 DEF SetupOnwards, StagesInv, SetupTyped, Setup!OneStageAtATime, StageNow
<1>5. ClaimsHold'
  BY <1>1, <1>2, <1>3, <1>4, ClaimsMove DEF StagesInv, ClaimsHold
<1> QED BY <1>1, <1>4, <1>5

\* Every terminal is a record of its two fields.
LEMMA TerminalTyped ==
    ASSUME StagesInv, NEW t \in SetupTerminals
    PROVE  /\ terminal[t] \in TerminalType
           /\ Setup!NoTerminal \in TerminalType /\ Setup!NoTerminal.pc = "off"
  BY NothingYet DEF StagesInv, SetupTyped, Setup!NoTerminal, TerminalType, TerminalPcs

LEMMA TerminalStartsKeeps ==
    ASSUME StagesInv, NEW t \in SetupTerminals, Setup!TerminalStarts(t) PROVE StagesStepKeeps
<1> DEFINE r == [pc |-> IF settings.ack THEN "reading" ELSE "asking", saw |-> None]
<1>1. settings' = settings /\ machine' = machine /\ window' = window /\ Setup!Goes(t, r)
  BY DEF Setup!TerminalStarts
<1>2. r \in TerminalType /\ ((r.pc = "reading" /\ settings.ack) \/ r.pc = "asking")
  BY NothingYet DEF TerminalType, TerminalPcs
<1> HIDE DEF r
<1> QED BY <1>1, <1>2, NothingMoves, OnlyTerminal

LEMMA TerminalAcknowledgesKeeps ==
    ASSUME StagesInv, NEW t \in SetupTerminals, Setup!TerminalAcknowledges(t)
    PROVE StagesStepKeeps
<1> DEFINE r == [terminal[t] EXCEPT !.pc = "reading"]
<1>1. settings' = Setup!Acknowledged /\ machine' = machine /\ window' = window /\ Setup!Goes(t, r)
  BY DEF Setup!TerminalAcknowledges
<1>2. r \in TerminalType /\ r.pc = "reading"
  BY TerminalTyped DEF TerminalType, TerminalPcs
<1> HIDE DEF r
<1> QED BY <1>1, <1>2, AcknowledgementMoves, OnlyTerminal

LEMMA TerminalReadsKeeps ==
    ASSUME StagesInv, NEW t \in SetupTerminals, Setup!TerminalReads(t) PROVE StagesStepKeeps
<1> DEFINE seen == settings'.stage
           r == [terminal[t] EXCEPT !.pc = "validating", !.saw = seen]
<1>1. /\ settings' = settings \/ settings' = Setup!Acknowledged
      /\ machine' = machine /\ window' = window /\ Setup!Goes(t, r)
  BY DEF Setup!TerminalReads
<1>2. settings.ack
  <2>1. terminal[t].pc = "reading"
    BY DEF Setup!TerminalReads, Setup!At
  <2> QED BY <2>1 DEF StagesInv, TerminalSound
<1>3. /\ SetupOnwards /\ ClaimsHold' /\ settings'.ack
      /\ settings'.selected = settings.selected /\ settings'.alias = settings.alias
  BY <1>1, <1>2, NothingMoves, AcknowledgementMoves
<1>4. seen \in Setup!Stages
  BY <1>3 DEF SetupOnwards, SettingsType
<1> HIDE DEF seen
<1>5. r \in TerminalType /\ r.pc = "validating"
  BY <1>4, TerminalTyped DEF TerminalType, TerminalPcs
<1> HIDE DEF r
<1> QED BY <1>1, <1>3, <1>5, OnlyTerminal

LEMMA TerminalValidatesKeeps ==
    ASSUME StagesInv, NEW t \in SetupTerminals, Setup!TerminalValidates(t) PROVE StagesStepKeeps
<1> DEFINE r == [terminal[t] EXCEPT !.pc = "installing", !.saw = None]
<1>1. /\ window' = window /\ terminal[t].pc = "validating"
      /\ \/ /\ Setup!Goes(t, r) \/ Setup!Goes(t, Setup!NoTerminal)
            /\ settings' = settings /\ machine' = machine
         \/ /\ ~ Setup!Refused("SAFETY_ACKNOWLEDGED", "HARDWARE_VALIDATED")
            /\ settings' = Setup!Moved("SAFETY_ACKNOWLEDGED", "HARDWARE_VALIDATED")
            /\ Setup!Did("hardware") /\ Setup!Goes(t, r)
  BY DEF Setup!TerminalValidates, Setup!At
<1>2. r \in TerminalType /\ r.pc = "installing"
  BY TerminalTyped, NothingYet DEF TerminalType, TerminalPcs
<1>3. Setup!NoTerminal \in TerminalType /\ Setup!NoTerminal.pc = "off"
  BY TerminalTyped
<1> HIDE DEF r
<1>4. settings.ack
  BY <1>1 DEF StagesInv, TerminalSound
<1>5. CASE settings' = settings /\ machine' = machine
  BY <1>1, <1>2, <1>3, <1>4, <1>5, NothingMoves, OnlyTerminal
<1>6. CASE /\ ~ Setup!Refused("SAFETY_ACKNOWLEDGED", "HARDWARE_VALIDATED")
           /\ settings' = Setup!Moved("SAFETY_ACKNOWLEDGED", "HARDWARE_VALIDATED")
           /\ Setup!Did("hardware") /\ Setup!Goes(t, r)
  <2>1. /\ SetupOnwards /\ ClaimsHold' /\ StageNow' = 3
        /\ settings'.selected = settings.selected /\ settings'.alias = settings.alias
    BY <1>4, <1>6, HardwareMoves
  <2>2. settings'.ack
    BY <1>4, <2>1 DEF SetupOnwards
  <2> QED BY <1>1, <1>2, <1>6, <2>1, <2>2, OnlyTerminal
<1> QED BY <1>1, <1>5, <1>6

LEMMA TerminalInstallsKeeps ==
    ASSUME StagesInv, NEW t \in SetupTerminals, Setup!TerminalInstalls(t) PROVE StagesStepKeeps
<1> DEFINE r == [terminal[t] EXCEPT !.pc = "staging"]
<1>1. PICK package \in {"tkinter", "package"} : Setup!Did(package)
  BY DEF Setup!TerminalInstalls
<1>2. /\ settings' = settings /\ window' = window /\ Setup!Goes(t, r)
      /\ terminal[t].pc = "installing"
  BY DEF Setup!TerminalInstalls, Setup!At
<1>3. r \in TerminalType /\ r.pc = "staging"
  BY TerminalTyped DEF TerminalType, TerminalPcs
<1> HIDE DEF r
<1>4. settings.ack
  BY <1>2 DEF StagesInv, TerminalSound
<1>5. /\ machine' \in MachineType /\ machine'.done = machine.done \cup {package}
      /\ machine'.stored = machine.stored /\ machine'.serving = machine.serving
  BY <1>1, ThingDone DEF Things
<1>6. StageNow' = StageNow
  BY <1>2 DEF StageNow
<1>7. SetupOnwards
  BY <1>2, <1>5, <1>6 DEF SetupOnwards, Setup!OneStageAtATime, StagesInv, SetupTyped
<1>8. ClaimsHold'
  BY <1>2, <1>4, <1>5, <1>6 DEF StagesInv, ClaimsHold
<1>9. machine'.done \cap {"tkinter", "package"} # {}
  BY <1>1, <1>5
<1> QED BY <1>2, <1>3, <1>4, <1>7, <1>8, <1>9, OnlyTerminal

LEMMA TerminalRecordsKeeps ==
    ASSUME StagesInv, NEW t \in SetupTerminals, Setup!TerminalRecords(t) PROVE StagesStepKeeps
<1> DEFINE q == Setup!Moved("HARDWARE_VALIDATED", "TKINTER_READY")
<1>1. /\ terminal[t].pc = "staging" /\ Setup!Goes(t, Setup!NoTerminal)
      /\ machine' = machine /\ window' = window
      /\ \/ settings' = settings
         \/ /\ ~ Setup!Refused("HARDWARE_VALIDATED", "TKINTER_READY")
            /\ settings' = [q EXCEPT !.staged = @ \/ settings.stage = "HARDWARE_VALIDATED"]
  BY DEF Setup!TerminalRecords, Setup!At
<1>2. Setup!NoTerminal \in TerminalType /\ Setup!NoTerminal.pc = "off"
  BY TerminalTyped
<1>3. settings.ack /\ machine.done \cap {"tkinter", "package"} # {}
  BY <1>1 DEF StagesInv, TerminalSound
<1>4. CASE settings' = settings
  BY <1>1, <1>2, <1>4, NothingMoves, OnlyTerminal
<1>5. CASE /\ ~ Setup!Refused("HARDWARE_VALIDATED", "TKINTER_READY")
           /\ settings' = [q EXCEPT !.staged = @ \/ settings.stage = "HARDWARE_VALIDATED"]
  <2>1. q \in SettingsType
    <3>1. "HARDWARE_VALIDATED" \in Setup!Stages /\ "TKINTER_READY" \in Setup!Stages
      BY StagesListed
    <3> QED BY <3>1, MovedIs DEF StagesInv
  <2> HIDE DEF q
  <2>2. /\ settings' \in SettingsType /\ settings'.stage = q.stage
        /\ settings'.ack = q.ack /\ settings'.complete = q.complete
        /\ settings'.selected = q.selected /\ settings'.alias = q.alias
    BY <1>5, <2>1 DEF SettingsType
  <2>3. /\ SetupOnwards /\ ClaimsHold' /\ StageNow' = 4
        /\ settings'.selected = settings.selected /\ settings'.alias = settings.alias
    BY <1>1, <1>3, <1>5, <2>2, TkinterMoves DEF q
  <2> QED BY <1>1, <1>2, <2>3, OnlyTerminal
<1> QED BY <1>1, <1>4, <1>5

LEMMA TerminalDiesKeeps ==
    ASSUME StagesInv, NEW t \in SetupTerminals, Setup!TerminalDies(t) PROVE StagesStepKeeps
<1>1. /\ settings' = settings /\ machine' = machine /\ window' = window
      /\ Setup!Goes(t, Setup!NoTerminal)
  BY DEF Setup!TerminalDies
<1>2. Setup!NoTerminal \in TerminalType /\ Setup!NoTerminal.pc = "off"
  BY TerminalTyped
<1> QED BY <1>1, <1>2, NothingMoves, OnlyTerminal

-----------------------------------------------------------------------------
(* The setup                                                               *)

LEMMA StagesStart == Setup!Init => StagesInv
<1> SUFFICES ASSUME Setup!Init PROVE StagesInv
  OBVIOUS
<1>1. /\ settings \in SettingsType /\ settings.stage = "WELCOME" /\ settings.complete = FALSE
  BY StagesListed, NothingYet DEF Setup!Init, SettingsType
<1>2. /\ machine \in MachineType /\ machine.done \in {{}, {"tkinter"}} /\ machine.stored = {}
  BY NothingYet DEF Setup!Init, MachineType, Things
<1>3. window \in WindowType /\ window.pc = "closed"
  BY NothingYet DEF Setup!Init, Setup!Closed, WindowType, WindowPcs
<1>4. terminal \in [SetupTerminals -> TerminalType] /\ TerminalSound
  BY NothingYet DEF Setup!Init, Setup!NoTerminal, TerminalType, TerminalPcs, TerminalSound
<1>5. StageNow = 1
  BY <1>1, StagePlaces DEF StageNow
<1>6. ClaimsHold
  BY <1>1, <1>2, <1>5 DEF ClaimsHold
<1>7. WindowInv
  BY <1>3 DEF WindowInv, ScreenFits, WindowKnows, WindowAtWork, StepDone, LeftToRecord
<1> QED BY <1>1, <1>2, <1>3, <1>4, <1>6, <1>7 DEF StagesInv, SetupTyped

LEMMA StagesSteps == StagesInv /\ [Setup!Next]_(Setup!setupVars) => StagesStepKeeps
<1> SUFFICES ASSUME StagesInv, [Setup!Next]_(Setup!setupVars) PROVE StagesStepKeeps
  OBVIOUS
<1>1. CASE UNCHANGED Setup!setupVars
  <2>1. UNCHANGED <<settings, machine, terminal>> /\ window' = window
    BY <1>1 DEF Setup!setupVars
  <2>2. SetupOnwards /\ ClaimsHold'
    BY <2>1, NothingMoves
  <2>3. WindowInv'
    BY <2>1, <2>2, WindowStays
  <2>4. window' \in WindowType
    BY <2>1 DEF StagesInv, SetupTyped
  <2> QED BY <2>1, <2>3, <2>4, OnlyWindow
<1>2. CASE \E t \in SetupTerminals :
              \/ Setup!TerminalStarts(t) \/ Setup!TerminalAcknowledges(t)
                  \/ Setup!TerminalReads(t)
              \/ Setup!TerminalValidates(t) \/ Setup!TerminalInstalls(t)
                  \/ Setup!TerminalRecords(t)
              \/ Setup!TerminalDies(t)
  BY <1>2, TerminalStartsKeeps, TerminalAcknowledgesKeeps, TerminalReadsKeeps,
     TerminalValidatesKeeps, TerminalInstallsKeeps, TerminalRecordsKeeps, TerminalDiesKeeps
<1>3. CASE Setup!Launch \/ Setup!WindowDies \/ Setup!Back \/ Setup!MachineLooksRight
        \/ Setup!AcknowledgeSafety \/ Setup!ReadStage
  BY <1>3, LaunchKeeps, WindowDiesKeeps, BackKeeps, MachineLooksRightKeeps,
     AcknowledgeSafetyKeeps, ReadStageKeeps
<1>4. CASE Setup!RecordHardware \/ Setup!RecordTkinter \/ Setup!StartWork \/ Setup!WorkFails
        \/ Setup!EnterLlmMode
  BY <1>4, RecordHardwareKeeps, RecordTkinterKeeps, StartWorkKeeps, WorkFailsKeeps,
     EnterLlmModeKeeps
<1>5. CASE Setup!InstallRuntime \/ Setup!Optimize \/ Setup!AcquireModel \/ Setup!CommitAlias
        \/ Setup!ValidateModel
  BY <1>5, InstallRuntimeKeeps, OptimizeKeeps, AcquireModelKeeps, CommitAliasKeeps,
     ValidateModelKeeps
<1>6. CASE Setup!ActivateModel \/ Setup!SetUpOptionals \/ Setup!SelectModel
        \/ Setup!ResultArrives \/ Setup!RecordStage
  BY <1>6, ActivateModelKeeps, SetUpOptionalsKeeps, SelectModelKeeps, ResultArrivesKeeps,
     RecordStageKeeps
<1>7. CASE Setup!FinishSetup \/ Setup!NextScreen \/ Setup!Reboot
  BY <1>7, FinishSetupKeeps, NextScreenKeeps, RebootKeeps
<1> QED BY <1>1, <1>2, <1>3, <1>4, <1>5, <1>6, <1>7 DEF Setup!Next

\* The recorded stage is true of the machine, and so are all before it.
LEMMA SetupIsTruthful == StagesInv => Setup!Truthful
<1> SUFFICES ASSUME StagesInv PROVE Setup!Truthful
  OBVIOUS
<1>1. StageNow \in 1 .. 13 /\ ClaimsHold
  BY PlaceIsBetween DEF StagesInv
<1>2. ASSUME NEW stage \in Setup!Stages, Setup!Reached(stage) PROVE Setup!Claim[stage]
  <2>1. StageNow >= Setup!Index(stage)
    BY <1>2 DEF Setup!Reached, StageNow
  <2>2. CASE stage \in {"WELCOME", "SAFETY_ACKNOWLEDGED", "HARDWARE_VALIDATED",
                        "TKINTER_READY"}
    <3>1. stage = "SAFETY_ACKNOWLEDGED" => StageNow >= 2
      BY <2>1, StagePlaces
    <3>2. stage = "HARDWARE_VALIDATED" => StageNow >= 3
      BY <2>1, StagePlaces
    <3>3. stage = "TKINTER_READY" => StageNow >= 4
      BY <2>1, StagePlaces
    <3> QED BY <1>1, <1>2, <2>2, <3>1, <3>2, <3>3 DEF Setup!Claim, ClaimsHold
  <2>3. CASE stage \in {"LLM_MODE_CONFIGURED", "RUNTIME_READY", "MODEL_SELECTED",
                        "MODEL_PREPARED"}
    <3>1. stage = "LLM_MODE_CONFIGURED" => StageNow >= 5
      BY <2>1, StagePlaces
    <3>2. stage = "RUNTIME_READY" => StageNow >= 6
      BY <2>1, StagePlaces
    <3>3. stage = "MODEL_SELECTED" => StageNow >= 7
      BY <2>1, StagePlaces
    <3>4. stage = "MODEL_PREPARED" => StageNow >= 8
      BY <2>1, StagePlaces
    <3> QED BY <1>1, <1>2, <2>3, <3>1, <3>2, <3>3, <3>4 DEF Setup!Claim, ClaimsHold
  <2>4. CASE stage \in {"PROFILE_APPLIED", "SERVICE_INSTALLED", "OPTIONALS_CONFIGURED",
                        "VERIFIED", "COMPLETE"}
    <3>1. stage \in {"PROFILE_APPLIED", "SERVICE_INSTALLED"} => StageNow >= 9
      BY <1>1, <2>1, StagePlaces
    <3>2. stage \in {"OPTIONALS_CONFIGURED", "VERIFIED"} => StageNow >= 11
      BY <1>1, <2>1, StagePlaces
    <3>3. stage = "COMPLETE" => StageNow = 13
      BY <1>1, <2>1, StagePlaces
    <3> QED BY <1>1, <1>2, <2>4, <3>1, <3>2, <3>3 DEF Setup!Claim, ClaimsHold
  <2> QED BY <1>2, <2>2, <2>3, <2>4, StagesListed
<1>3. settings.complete <=> settings.stage = "COMPLETE"
  BY <1>1, PlaceTells DEF StagesInv, ClaimsHold
<1>4. machine.done \ {"hardware", "tkinter"} # {} \/ machine.stored # {} => settings.ack
  BY <1>1 DEF ClaimsHold
<1>5. window.pc # "closed" /\ window.step > 0 => Setup!Reached(Setup!NeededOn[window.step])
  <2> SUFFICES ASSUME window.pc # "closed", window.step > 0
               PROVE  Setup!Reached(Setup!NeededOn[window.step])
    OBVIOUS
  <2>1. window.step \in {1, 2, 3, 4, 5, 6, 7, 8, 9, 10}
    BY DEF StagesInv, SetupTyped, WindowType
  <2>2. ScreenFits
    BY DEF StagesInv, WindowInv
  <2>3. /\ Setup!NeededOn[1] = "WELCOME" /\ Setup!NeededOn[2] = "TKINTER_READY"
        /\ Setup!NeededOn[3] = "LLM_MODE_CONFIGURED" /\ Setup!NeededOn[4] = "RUNTIME_READY"
        /\ Setup!NeededOn[5] = "MODEL_SELECTED" /\ Setup!NeededOn[6] = "MODEL_SELECTED"
        /\ Setup!NeededOn[7] = "MODEL_SELECTED" /\ Setup!NeededOn[8] = "MODEL_PREPARED"
        /\ Setup!NeededOn[9] = "SERVICE_INSTALLED" /\ Setup!NeededOn[10] = "VERIFIED"
    BY DEF Setup!NeededOn
  <2>4. StageNow >= Setup!Index(Setup!NeededOn[window.step])
    BY <1>1, <2>1, <2>2, <2>3, StagePlaces DEF ScreenFits
  <2> QED BY <2>4 DEF Setup!Reached, StageNow
<1> QED BY <1>2, <1>3, <1>4, <1>5 DEF Setup!Truthful

=============================================================================
