CONSTANTS
    w1 = w1
    w2 = w2
    o1 = o1
    o2 = o2
    Workers = {w1, w2}
    Ops = {o1, o2}
    Types = {"SWITCH"}
    Catalog <- MCCatalog
    Unavailable = {}
    NoOp = NoOp
    NoLease = NoLease
    Slow <- OutsideEffects
    MayCancel = FALSE
    MaxFaults = 1
SPECIFICATION Spec
INVARIANTS EffectsExclusive
SYMMETRY Symmetric
CHECK_DEADLOCK FALSE
