SPECIFICATION CtlSpec
CONSTANTS
    MaxServers = 2
    MaxCtlStops = 1
    MaxRetries = 0
INVARIANT ImmediateStartServes
CHECK_DEADLOCK FALSE
