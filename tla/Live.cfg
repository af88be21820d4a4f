SPECIFICATION MCSpec
CONSTANTS
    Callers = {c1, c2}
    Subjects = {config, unknown}
    Handled = {config}
    Capacity = 2
    IdxMod = 3
    Alarm = FALSE
    Results = {"nil", "error"}
    MaxPushes = 3
    MaxMsgs = 2
    MaxGens = 1
    MaxForgets = 2
    Batch = 2
    RetryLimit = 2
PROPERTIES
    PushReturns
    SerialExecution
    EverythingSettled
CHECK_DEADLOCK FALSE
