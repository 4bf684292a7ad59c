SPECIFICATION WorldsSpec
CONSTANTS
    w1 = w1
    w2 = w2
    o1 = o1
    o2 = o2
    r1 = r1
    r2 = r2
    Workers = {w1, w2}
    Ops = {o1, o2}
    Resources = {r1, r2}
    FirstKeys <- MCFirstKeys
    NoOp = NoOp
    NoLease = NoLease
    TTL = 2
    MaxRevision = 2
    h1 = h1
    h2 = h2
    Hosts = {h1, h2}
    NoHost = NoHost
    Blocked = {}
    MaxFailures = 1
    Slow = {"new", "off", "loop", "heartbeat", "renew", "execute", "working", "idle"}
    MaxRaises = 1
    HostOps = {1, 2}
    None = None
    TreesUpdates = 3
    TreesFaults = 3
    RestoreFaults = 4
    ActivationFaults = 2
    Targets = {1, 2}
    CleanupFaults = 3
    Requests = {1, 2, 3}
    Clients = {"a", "b"}
    MaxConcurrent = 1
    MaxRate = 2
    Allowance = 1
    TableSize = 1
    Admission = 2
    RowIds = {1, 2, 3, 4, 5, 6, 7, 8, 9}
    MaxSecrets = 4
    MaxGeneration = 3
    RevisionBound = 5
    CredentialFaults = 2
    WebUIFaults = 2
    IntegrationFaults = 2
    s1 = s1
    s2 = s2
    Surfaces = {s1, s2}
    Twice = {"runtime"}
    DatabaseProcs = {1, 2}
    DatabaseVersions = {3, 8, 12, 14}
    SetupModels = {"a", "b"}
    SetupTerminals = {1}
    SetupLaunches = 3
    DeliveryFaults = 1
    DeliveryGenerations = 2
    DeliveryVersions = {"2"}
    RepairRevisions = 4
    RepairWindows = 2
    CalibrationFaults = 2
INVARIANTS
    FenceSound BarrierHeld HostsApart RunningIsFindable TreesSound RestoreSound
    ActivationSound CleanupSound SlotsExact CredentialsAgree OldSurvives SetupKeepsBaseline
    DeskKeepsWord  Repaired CalibrationSound
PROPERTIES
    BarrierFrozen StoreKept AnswersKept DatabaseKept SetupKept
CHECK_DEADLOCK FALSE
