INIT MCInit
NEXT MCNext
CONSTANTS
    Callers = {c1, c2}
    Subjects = {config, unknown}
    Handled = {config}
    Capacity = 2
    IdxMod = 3
    Alarm = TRUE
    Results = {"nil", "error"}
    MaxPushes = 3
    Connectors = {"k8s", "apm", "oracle", "elastic", "snmp", "events"}
    Configs = {1, 2}
    Handlers = {h1, h2}
    MaxLpPushes = 2
    MaxTicks = 1
SYMMETRY GoroutineSymmetry
INVARIANTS TypeOK Fifo AcceptedOnce SyncResult DebuggerSeesLastTasks
    IdxDiffersWithoutOverlap AlarmForItsTask LoopsFollowConfig ExitReachesLoops
CHECK_DEADLOCK FALSE
