CONSTANTS
    None = None
    MaxFaults = 2
SPECIFICATION StoreSpec
INVARIANTS ImportedAsResolved
CHECK_DEADLOCK FALSE
