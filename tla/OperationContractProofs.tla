----------------------- MODULE OperationContractProofs -----------------------
(***************************************************************************)
(* What the promise of the engine implies, for any operations and keys: an *)
(* end is truthful and final and a barrier stands.  With the refinement    *)
(* KeepsContract (ExecutionEngine) these hold of the engine too.           *)
(***************************************************************************)
EXTENDS OperationContract, TLAPS

\* Every transition leads to a state of the closed vocabulary.
LEMMA Table ==
    ASSUME NEW current \in OperationState, NEW target, CanTransition(current, target)
    PROVE  target \in OperationState /\ current \notin Terminal
<1>1. current \notin Terminal
  BY DEF CanTransition
<1>2. target \in Transitions[current]
  BY DEF CanTransition
<1>3. Transitions[current] \subseteq OperationState
  BY <1>1 DEF Transitions, OperationState, Terminal
<1> QED BY <1>1, <1>2, <1>3

\* So does what a worker reaches in one transaction.
LEMMA Closed ==
    ASSUME ContractTypeOK, NEW o \in Ops, NEW target, Reaches(o, target)
    PROVE  target \in OperationState /\ state[o] \notin Terminal
<1>1. state[o] \in OperationState
  BY DEF ContractTypeOK
<1>2. "COMMITTING" \in OperationState
  BY DEF OperationState
<1> QED BY <1>1, <1>2, Table DEF Reaches

\* Typing: states, worlds and leases keep their types.
THEOREM ContractTyped == ContractSpec => []ContractTypeOK
<1>1. ContractInit => ContractTypeOK
  BY DEF ContractInit, ContractTypeOK, OperationState, World
<1>2. ContractTypeOK /\ [ContractNext]_contractVars => ContractTypeOK'
  <2> SUFFICES ASSUME ContractTypeOK, [ContractNext]_contractVars PROVE ContractTypeOK'
    OBVIOUS
  <2>1. ASSUME NEW o \in Ops, Take(o) PROVE ContractTypeOK'
    BY <2>1 DEF Take, ContractTypeOK
  <2>2. ASSUME NEW o \in Ops, Move(o) PROVE ContractTypeOK'
    BY <2>2 DEF Move, ContractTypeOK
  <2>3. ASSUME NEW o \in Ops, Touch(o) PROVE ContractTypeOK'
    BY <2>3 DEF Touch, ContractTypeOK
  <2>4. ASSUME NEW o \in Ops, Settle(o) PROVE ContractTypeOK'
    <3>1. state' \in [Ops -> OperationState]
      BY <2>4, Closed DEF Settle, ContractTypeOK
    <3>2. held' \in [Keys -> [op : Ops, live : BOOLEAN] \cup {Nobody}]
      BY <2>4 DEF Settle, ContractTypeOK, Without
    <3> QED BY <2>4, <3>1, <3>2 DEF Settle, ContractTypeOK
  <2>5. ASSUME NEW o \in Ops, Barrier(o) PROVE ContractTypeOK'
    BY <2>5, Closed DEF Barrier, ContractTypeOK
  <2>6. ASSUME NEW o \in Ops, Cancel(o) PROVE ContractTypeOK'
    BY <2>6 DEF Cancel, ContractTypeOK, OperationState
  <2>7. ASSUME NEW o \in Ops, Rearm(o) \/ Shelve(o) PROVE ContractTypeOK'
    BY <2>7 DEF Rearm, Shelve, ContractTypeOK, OperationState
  <2>8. ASSUME NEW k \in Keys, Lapse(k) PROVE ContractTypeOK'
    BY <2>8 DEF Lapse, ContractTypeOK
  <2>9. CASE UNCHANGED contractVars
    BY <2>9 DEF contractVars, ContractTypeOK
  <2> QED
    BY <2>1, <2>2, <2>3, <2>4, <2>5, <2>6, <2>7, <2>8, <2>9 DEF ContractNext
<1> QED BY <1>1, <1>2, PTL DEF ContractSpec

\* No step moves an operation out of a terminal state.
LEMMA FinalStep ==
    ASSUME ContractTypeOK, [ContractNext]_contractVars, NEW o \in Ops, state[o] \in Terminal
    PROVE  state'[o] = state[o]
<1>1. ASSUME NEW p \in Ops, Move(p) PROVE state'[o] = state[o]
  BY <1>1 DEF Move, CanTransition, ContractTypeOK
<1>2. ASSUME NEW p \in Ops, Settle(p) PROVE state'[o] = state[o]
  BY <1>2, Closed DEF Settle, ContractTypeOK
<1>3. ASSUME NEW p \in Ops, Barrier(p) PROVE state'[o] = state[o]
  BY <1>3, Closed DEF Barrier, ContractTypeOK
<1>4. ASSUME NEW p \in Ops, Cancel(p) PROVE state'[o] = state[o]
  BY <1>4 DEF Cancel, CanTransition, ContractTypeOK
<1>5. ASSUME NEW p \in Ops, Rearm(p) \/ Shelve(p) PROVE state'[o] = state[o]
  BY <1>5 DEF Rearm, Shelve, ContractTypeOK, Terminal
<1>6. ASSUME NEW p \in Ops, Take(p) \/ Touch(p) PROVE state'[o] = state[o]
  BY <1>6 DEF Take, Touch
<1>7. ASSUME NEW k \in Keys, Lapse(k) PROVE state'[o] = state[o]
  BY <1>7 DEF Lapse
<1>8. CASE UNCHANGED contractVars
  BY <1>8 DEF contractVars
<1> QED BY <1>1, <1>2, <1>3, <1>4, <1>5, <1>6, <1>7, <1>8 DEF ContractNext

\* An end is final: no table row, no cancellation, no resumption leads out of it.
THEOREM EndsAreFinal == ContractSpec => EndsFinal
<1>1. ContractTypeOK /\ [ContractNext]_contractVars
      => [\A o \in Ops : state[o] \in Terminal => state'[o] = state[o]]_contractVars
  BY FinalStep
<1> QED BY <1>1, ContractTyped, PTL DEF ContractSpec, EndsFinal

\* An end is truthful: the settling transaction checks the world, and nobody touches
\* it for an operation that has ended.
THEOREM EndsAreTruthful == ContractSpec => []EndsTruthful
<1>1. ContractInit => EndsTruthful
  BY DEF ContractInit, EndsTruthful, Terminal
<1>2. ContractTypeOK /\ EndsTruthful /\ [ContractNext]_contractVars => EndsTruthful'
  <2> SUFFICES ASSUME ContractTypeOK, EndsTruthful, [ContractNext]_contractVars,
                      NEW o \in Ops, state'[o] \in Terminal
               PROVE  Truthful(state'[o], world'[o])
    BY DEF EndsTruthful, Truthful
  <2>1. ASSUME NEW p \in Ops, Touch(p) PROVE Truthful(state'[o], world'[o])
    <3>1. p # o
      BY <2>1 DEF Touch, Working, Terminal
    <3> QED BY <2>1, <3>1 DEF Touch, EndsTruthful, ContractTypeOK
  <2>2. ASSUME NEW p \in Ops, Settle(p) PROVE Truthful(state'[o], world'[o])
    <3>1. CASE p = o
      BY <2>2, <3>1 DEF Settle, ContractTypeOK
    <3>2. CASE p # o
      BY <2>2, <3>2 DEF Settle, EndsTruthful, ContractTypeOK
    <3> QED BY <3>1, <3>2
  <2>3. ASSUME NEW p \in Ops, Barrier(p) PROVE Truthful(state'[o], world'[o])
    <3>1. CASE p = o
      BY <2>3, <3>1 DEF Barrier, ContractTypeOK, Truthful
    <3>2. CASE p # o
      BY <2>3, <3>2 DEF Barrier, EndsTruthful, ContractTypeOK
    <3> QED BY <3>1, <3>2
  <2>4. ASSUME NEW p \in Ops, Move(p) PROVE Truthful(state'[o], world'[o])
    <3>1. p # o
      BY <2>4 DEF Move, ContractTypeOK
    <3> QED BY <2>4, <3>1 DEF Move, EndsTruthful, ContractTypeOK
  <2>5. ASSUME NEW p \in Ops, Cancel(p) \/ Rearm(p) \/ Shelve(p)
      PROVE  Truthful(state'[o], world'[o])
    <3>1. p # o
      BY <2>5 DEF Cancel, Rearm, Shelve, ContractTypeOK, Terminal
    <3> QED BY <2>5, <3>1 DEF Cancel, Rearm, Shelve, EndsTruthful, ContractTypeOK
  <2>6. ASSUME NEW p \in Ops, Take(p) PROVE Truthful(state'[o], world'[o])
    BY <2>6 DEF Take, EndsTruthful
  <2>7. ASSUME NEW k \in Keys, Lapse(k) PROVE Truthful(state'[o], world'[o])
    BY <2>7 DEF Lapse, EndsTruthful
  <2>8. CASE UNCHANGED contractVars
    BY <2>8 DEF contractVars, EndsTruthful
  <2> QED
    BY <2>1, <2>2, <2>3, <2>4, <2>5, <2>6, <2>7, <2>8 DEF ContractNext
<1> QED BY <1>1, <1>2, ContractTyped, PTL DEF ContractSpec

\* A barrier stands: its keys are never available, and only an operation that still
\* moves gives its own back.
THEOREM BarriersStand == ContractSpec => BarrierStands
<1>1. ContractTypeOK /\ [ContractNext]_contractVars
      => [\A k \in Keys : held[k] # Nobody /\ state[held[k].op] = "RECOVERY_REQUIRED"
            => held'[k].op = held[k].op]_contractVars
  <2> SUFFICES ASSUME ContractTypeOK, [ContractNext]_contractVars, NEW k \in Keys,
                      held[k] # Nobody, state[held[k].op] = "RECOVERY_REQUIRED"
               PROVE  held'[k].op = held[k].op
    OBVIOUS
  <2>1. ASSUME NEW o \in Ops, Take(o) PROVE held'[k].op = held[k].op
    BY <2>1 DEF Take, Available
  <2>2. ASSUME NEW o \in Ops, Settle(o) PROVE held'[k].op = held[k].op
    <3>1. state[o] # "RECOVERY_REQUIRED"
      BY <2>2, Closed DEF Settle, Terminal
    <3>2. k \notin KeysOf(o)
      BY <3>1 DEF KeysOf
    <3> QED BY <2>2, <3>2 DEF Settle, Without
  <2>3. ASSUME NEW o \in Ops,
               Move(o) \/ Touch(o) \/ Shelve(o) \/ Barrier(o) \/ Cancel(o) \/ Rearm(o)
        PROVE  held'[k].op = held[k].op
    BY <2>3 DEF Move, Touch, Shelve, Barrier, Cancel, Rearm
  <2>4. ASSUME NEW j \in Keys, Lapse(j) PROVE held'[k].op = held[k].op
    BY <2>4 DEF Lapse, ContractTypeOK
  <2>5. CASE UNCHANGED contractVars
    BY <2>5 DEF contractVars
  <2> QED BY <2>1, <2>2, <2>3, <2>4, <2>5 DEF ContractNext
<1> QED BY <1>1, ContractTyped, PTL DEF ContractSpec, BarrierStands

=============================================================================
