------------------------------ MODULE MCEngine ------------------------------
EXTENDS ExecutionEngine, TLC

CONSTANTS Types   \* the operation types an instance is about

\* A cut-down definition for instances with several workers: a change of the
\* served model (MODEL_ACTIVATE's shape).
Short ==
    [SWITCH |-> WorkflowDefinition(
                   <<Mutation(Active, ServedOrDoubtful, ServedOrDoubtful)>>, {}, {})]

Definitions == [k \in DOMAIN Registry \cup DOMAIN Short |->
                  IF k \in DOMAIN Registry THEN Registry[k] ELSE Short[k]]

MCCatalog == [k \in Types |-> Definitions[k]]

\* A worker may stall for longer than a lease lasts: anywhere; anywhere but in
\* effects, which pulse, and compensations; nowhere.
Anywhere == Pcs
OutsideEffects == Pcs \ {"effect", "undo"}
Nowhere == {}

Symmetric == Permutations(Workers) \cup Permutations(Ops)

=============================================================================
