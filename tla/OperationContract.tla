-------------------------- MODULE OperationContract --------------------------
(***************************************************************************)
(* What the engine promises to everything above it, without steps, runs or *)
(* workers: an operation moves along the frozen table, only while somebody *)
(* holds keys for it; what it claims of the world when it ends is so; and  *)
(* the keys of a barrier stay.  ExecutionEngine implements it              *)
(* (KeepsContract); OperationDesk is built on it.                          *)
(***************************************************************************)
EXTENDS OperationModel

CONSTANTS Ops, Keys, Nobody,
          Claims   \* the sets of keys one transaction acquires or gives back

VARIABLES state,  \* operations.state
          world,  \* what is in place of an operation's reversible effects and of all its steps
          held    \* operation_leases: key -> its operation, and whether the row is unexpired

contractVars == <<state, world, held>>

World == {"untouched", "touched", "complete"}

KeysOf(o) == {k \in Keys : held[k] # Nobody /\ held[k].op = o}

\* A run that passes its fence holds a live key.
Held(o) == \E k \in KeysOf(o) : held[k].live

\* A key nobody holds, or an expired row of an operation that is no barrier.
Available(k) ==
    held[k] = Nobody \/ (~ held[k].live /\ state[held[k].op] # "RECOVERY_REQUIRED")

\* The states in which a worker touches the world, or finds out about it: a re-armed
\* operation verifies what its dead run checkpointed before it is RUNNING again.
Working == {"PREPARING", "RUNNING", "VERIFYING", "COMMITTING", "CANCEL_REQUESTED", "ROLLING_BACK"}

\* What a terminal state says about the world (ADR 002, section 3).
Truthful(target, real) ==
    CASE target = "SUCCEEDED" -> real = "complete"
      [] target \in {"CANCELLED", "FAILED_ROLLED_BACK"} -> real # "touched"
      [] target = "FAILED_SAFE" -> real # "touched"
      [] OTHER -> TRUE

\* One step of the table, or COMMITTING and out of it in one transaction (_complete).
Reaches(o, target) ==
    \/ CanTransition(state[o], target)
    \/ CanTransition(state[o], "COMMITTING") /\ CanTransition("COMMITTING", target)

Without(ks) == [k \in Keys |-> IF k \in ks THEN Nobody ELSE held[k]]

Rest == {"PAUSED"} \cup (Terminal \ {"RECOVERY_REQUIRED"})

-----------------------------------------------------------------------------

\* acquire_many: all of them or none.
Take(o) ==
    /\ state[o] \notin Terminal \cup {"PAUSED"}
    /\ \E ks \in Claims :
         /\ \A k \in ks : Available(k)
         /\ held' = [k \in Keys |-> IF k \in ks THEN [op |-> o, live |-> TRUE] ELSE held[k]]
    /\ UNCHANGED <<state, world>>

\* A fenced transaction that goes on with the operation.
Move(o) ==
    /\ Held(o)
    /\ \E target \in OperationState \ (Terminal \cup {"PAUSED", "CANCEL_REQUESTED"}) :
         CanTransition(state[o], target) /\ state' = [state EXCEPT ![o] = target]
    /\ UNCHANGED <<world, held>>

\* Effects and compensations.
Touch(o) ==
    /\ state[o] \in Working
    /\ \E real \in World : world' = [world EXCEPT ![o] = real]
    /\ UNCHANGED <<state, held>>

\* The transactions that end a run give back what it acquired; a row of an earlier
\* run that died is left to run out.
Settle(o) ==
    /\ Held(o)
    /\ \E target \in Rest :
         /\ Reaches(o, target) /\ Truthful(target, world[o])
         /\ state' = [state EXCEPT ![o] = target]
    /\ \E ks \in Claims : ks \subseteq KeysOf(o) /\ held' = Without(ks)
    /\ UNCHANGED world

\* No executor here for the durable version: it pauses without ever holding a key.
Shelve(o) ==
    /\ state[o] \in {"QUEUED", "PREPARING"}
    /\ state' = [state EXCEPT ![o] = "PAUSED"]
    /\ UNCHANGED <<world, held>>

\* RECOVERY_REQUIRED keeps them.
Barrier(o) ==
    /\ Held(o)
    /\ Reaches(o, "RECOVERY_REQUIRED")
    /\ state' = [state EXCEPT ![o] = "RECOVERY_REQUIRED"]
    /\ UNCHANGED <<world, held>>

\* A live row runs out: its owner died, or stalled.
Lapse(k) ==
    /\ held[k] # Nobody /\ held[k].live
    /\ held' = [held EXCEPT ![k].live = FALSE]
    /\ UNCHANGED <<state, world>>

\* request_cancel
Cancel(o) ==
    /\ state[o] # "CANCEL_REQUESTED" /\ CanTransition(state[o], "CANCEL_REQUESTED")
    /\ state' = [state EXCEPT ![o] = "CANCEL_REQUESTED"]
    /\ UNCHANGED <<world, held>>

\* OperationCommandService.resume
Rearm(o) ==
    /\ state[o] = "PAUSED"
    /\ state' = [state EXCEPT ![o] = "PREPARING"]
    /\ UNCHANGED <<world, held>>

-----------------------------------------------------------------------------

ContractInit ==
    /\ state = [o \in Ops |-> "QUEUED"]
    /\ world = [o \in Ops |-> "untouched"]
    /\ held = [k \in Keys |-> Nobody]

ContractNext ==
    \/ \E o \in Ops :
         \/ Take(o) \/ Move(o) \/ Touch(o) \/ Settle(o) \/ Shelve(o) \/ Barrier(o)
         \/ Cancel(o) \/ Rearm(o)
    \/ \E k \in Keys : Lapse(k)

ContractSpec == ContractInit /\ [][ContractNext]_contractVars

-----------------------------------------------------------------------------

ContractTypeOK ==
    /\ state \in [Ops -> OperationState]
    /\ world \in [Ops -> World]
    /\ held \in [Keys -> [op : Ops, live : BOOLEAN] \cup {Nobody}]

\* What a terminal state says of the world is so, and stays so (ADR 002: nothing
\* touches the world for an operation that has ended).
EndsTruthful == \A o \in Ops : state[o] \in Terminal => Truthful(state[o], world[o])

\* An operation that has ended never moves again, not even back from RECOVERY_REQUIRED.
EndsFinal == [][\A o \in Ops : state[o] \in Terminal => state'[o] = state[o]]_contractVars

\* The keys of a RECOVERY_REQUIRED operation are neither granted again nor given back
\* (acquire_many, _finish_rows).
BarrierStands ==
    [][\A k \in Keys :
         held[k] # Nobody /\ state[held[k].op] = "RECOVERY_REQUIRED"
         => held'[k].op = held[k].op]_contractVars

=============================================================================
