SPECIFICATION LiveSpec
CONSTANTS
    v1 = v1
    v2 = v2
    v3 = v3
    u1 = u1
    u2 = u2
    None = None
    NoHost = NoHost
    h1 = h1
    h2 = h2
    Releases = {v1, v2, v3}
    Ops = {u1}
    Initial = v1
    Source <- MCSource
    Target <- MCTarget
    Readable <- MCReadable
    MayOvertake = FALSE
    MaxFaults = 2
PROPERTIES
    HostQuiesces HostTakesQueued UpdateEnds
CHECK_DEADLOCK FALSE
