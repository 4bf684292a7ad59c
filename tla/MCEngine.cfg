CONSTANTS
    w1 = w1
    o1 = o1
    Workers = {w1}
    Ops = {o1}
    Types = {"MODEL_ACTIVATE", "RUNTIME_UPDATE", "RUNTIME_ROLLBACK", "INTEGRATION_SETUP", "MODEL_ACQUIRE", "MODEL_REMOVE", "STORAGE_QUARANTINE", "STORAGE_RESTORE", "STORAGE_PURGE", "APPLICATION_UPDATE", "BACKUP_CREATE", "BACKUP_RESTORE"}
    Catalog <- MCCatalog
    Unavailable = {}
    NoOp = NoOp
    NoLease = NoLease
    Slow <- Anywhere
    MayCancel = TRUE
    MaxFaults = 2
SPECIFICATION Spec
INVARIANTS TerminalsTruthful SucceededIsVerified CriticalNotCancelled ReverseOrder BarrierCoversEffects HoldsWhatItTouches
PROPERTIES EffectNotRepeated KeepsContract
CHECK_DEADLOCK FALSE
