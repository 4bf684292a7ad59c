CONSTANTS
    None = None
    MaxFaults = 1
SPECIFICATION ActivationSpec
INVARIANTS RolledBackServesPrior
CHECK_DEADLOCK FALSE
