SPECIFICATION RestoreSpec
CONSTANTS
    None = None
    MaxFaults = 1
INVARIANTS
    SucceededIsRestored
CHECK_DEADLOCK FALSE
