SPECIFICATION Spec
CONSTANTS
    Confs <- MCConfs
    InitConf <- MCInitConf
    Rejected = {"bad"}
    Capacity = 2
    MaxTasks = 4
INVARIANTS ResumesAfterConfig
CHECK_DEADLOCK FALSE
