SPECIFICATION MCSpec
CONSTANTS
    Confs <- MCConfs
    InitConf <- MCInitConf
    Rejected = {"bad"}
    Capacity = 2
    MaxTasks = 3
    Senders = {s1, s2}
    NoSender = NoSender
    MaxRequests = 3
    MaxExpiries = 2
    PubMessages = {m1, m2}
    NoMessage = NoMessage
    PubCap = 2
    MaxStarts = 2
    MaxPubFailures = 2
    StoreMaxBytes = 10
    MinDiskFree = 5
    DiskFree = {4, 8, 40}
    MaxServers = 3
    MaxCtlStops = 3
    MaxRetries = 1
    Requests = {r1, r2}
    NoRequest = NoRequest
    BasicKeys = {b, k}
    GwosKeys = {k}
    MaxConfigs = 2
    MaxChecks = 3
    AcceptedBy <- MCAcceptedBy
INVARIANTS
    TransportFollowsConfig
    ReconnectIsEnough
    PubKept
    NoServerOutOfReach
    AuthFollowsConfig
PROPERTIES
    QuitsStopped
    PubDelivers
    CallsReturn
CHECK_DEADLOCK FALSE
