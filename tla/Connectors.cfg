INIT MCInit
NEXT MCNext
CONSTANTS
    TpAgents <- MCTpAgents
    Sizes <- MCSizes
    MaxPuts = 2
    MaxTpConfigs = 2
    CfgEnvs <- MCCfgEnvs
    CfgDTOs <- MCCfgDTOs
    MaxLoads = 2
    MaxBoots = 3
    IntWidth = 10
    SampleBuilders <- MCBuilders
    MaxServices = 2
    MaxMetrics = 2
    SnmpConfigs <- MCSnmpConfigs
    NediReplies <- MCNediReplies
    NediConf <- MCNediConf
    Answered = {"ifInOctets"}
    Counters = {0, 2}
    SnRounds = {s1, s2}
    MaxSnStarts = 4
    MaxSeconds = 1
    ElRounds = {e1, e2}
    MaxElStarts = 4
    ElConfigs <- MCElConfigs
    StoredQueries <- MCStoredQueries
    PerPage = 1
    KibanaReplies = {"ok", "down"}
    HostPages <- MCHostPages
    HitPages <- MCHitPages
    GwHosts <- MCGwHosts
    NodeViews = {"cpu.total", "cpu.reserved", "cpu"}
    PodViews = {"cpu"}
    HostNames <- MCHostNames
    HostGroups <- MCHostGroups
    AuthTypes = {"BearerToken", "InvalidFile"}
    Nodes <- MCNodes
    PodSpecs <- MCPodSpecs
    MaxChurn = 1
    ChkLines <- MCChkLines
    MaxLines = 2
    ChkConfigs <- MCChkConfigs
    MaxRestarts = 2
    MaxConnections = 1
    CcConfigs <- MCCcConfigs
    CcKind = {"oracle", "azure"}
    CcItems <- MCCcItems
    CcResources <- MCCcResources
    CcNow = 4
    MaxCcConfigs = 3
    ApmConfigs <- MCApmConfigs
    ApmAnswers <- MCApmAnswers
    Unreadable = Unreadable
    ApmWorkers = {w1, w2}
    MaxApmConfigs = 2
    MaxApmStarts = 2
INVARIANTS
    WireIsReadable
    SamplesFaithful
    SnmpReports
    ReplicasGrouped
    ChecksReported
    ApmReports
PROPERTIES
    ConfigSurvives
    HitsReported
    NewestOfThisConfig
CHECK_DEADLOCK FALSE
