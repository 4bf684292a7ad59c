SPECIFICATION Spec
CONSTANTS
    v1 = v1
    v2 = v2
    v3 = v3
    u1 = u1
    u2 = u2
    None = None
    Releases = {v1, v2, v3}
    Ops = {u1, u2}
    Initial = v1
    Source <- MCSource
    Target <- MCTarget
    Readable <- MCReadable
    MayOvertake = TRUE
    MaxFaults = 2
PROPERTIES
    RecordedNeverUndone
CHECK_DEADLOCK FALSE
