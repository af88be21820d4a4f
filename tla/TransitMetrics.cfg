SPECIFICATION TSpec
CONSTANTS
    Callers = {a}
    Ticker = ticker
    Payloads = {x1, x2}
    Size <- MCSize
    Limits = {4}
    MaxCalls = 2
PROPERTIES StatesFollowMetrics
CHECK_DEADLOCK FALSE
