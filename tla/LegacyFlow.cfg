SPECIFICATION UpgradedSpec
CONSTANTS
    TpAgents <- MCTpAgents
    Sizes <- MCSizes
    MaxPuts = 1
    MaxTpConfigs = 1
INVARIANT
    LegacyIsUnwrapped
CHECK_DEADLOCK FALSE
