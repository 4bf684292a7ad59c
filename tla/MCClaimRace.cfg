CONSTANTS
    w1 = w1
    w2 = w2
    o1 = o1
    Workers = {w1, w2}
    Ops = {o1}
    Types = {"INTEGRATION_SETUP"}
    Catalog <- MCCatalog
    Unavailable = {}
    NoOp = NoOp
    NoLease = NoLease
    Slow <- Nowhere
    MayCancel = TRUE
    MaxFaults = 0
SPECIFICATION Spec
INVARIANTS TerminalsTruthful
CHECK_DEADLOCK FALSE
