CONSTANTS
    w1 = w1
    o1 = o1
    Workers = {w1}
    Ops = {o1}
    Types = {"MODEL_REMOVE"}
    Catalog <- MCCatalog
    Unavailable = {}
    NoOp = NoOp
    NoLease = NoLease
    Slow <- Nowhere
    MayCancel = TRUE
    MaxFaults = 0
SPECIFICATION FairSpec
PROPERTIES CancelHonored
CHECK_DEADLOCK FALSE
