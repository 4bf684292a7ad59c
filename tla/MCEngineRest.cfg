CONSTANTS
    w1 = w1
    o1 = o1
    Workers = {w1}
    Ops = {o1}
    Types = {"MODEL_ACTIVATE", "RUNTIME_ROLLBACK", "INTEGRATION_SETUP", "MODEL_ACQUIRE", "MODEL_REMOVE", "STORAGE_QUARANTINE", "STORAGE_RESTORE", "STORAGE_PURGE", "APPLICATION_UPDATE", "BACKUP_CREATE", "BACKUP_RESTORE", "PROFILE_CALIBRATE"}
    Catalog <- MCCatalog
    Unavailable = {"BACKUP_CREATE"}
    NoOp = NoOp
    NoLease = NoLease
    Slow <- Nowhere
    MayCancel = FALSE
    MaxFaults = 1
SPECIFICATION FairSpec
PROPERTIES ComesToRest
CHECK_DEADLOCK FALSE
