SPECIFICATION MCSpec
CONSTANTS
    Callers = {a, b}
    Ticker = ticker
    x1 = x1
    x2 = x2
    Payloads = {x1, x2}
    Size <- MCSize
    Limits = {1, 2}
    MaxCalls = 2
    short = short
    pair = pair
    none = none
    long = long
    longest = longest
    badEvents = badEvents
    badLong = badLong
    EvPayloads = {short, pair, none, long, longest, badEvents, badLong}
    EvMalformed = {badEvents, badLong}
    EvPayloadLen <- MCEvPayloadLen
    Events <- MCEvents
    EvBuffers <- MCEvBuffers
    EvLimits = {1, 2, 3}
    one = one
    two = two
    status = status
    xxlOne = xxlOne
    xxlTwo = xxlTwo
    xxlFew = xxlFew
    bad = bad
    NoPayload = NoPayload
    MtPayloads = {one, two, status, xxlOne, xxlTwo, xxlFew, bad}
    MtMalformed = {bad}
    LongTokens = {one, two, status, xxlOne, xxlTwo, xxlFew}
    MtPayloadLen <- MCPayloadLen
    Resources <- MCResources
    Groups <- MCGroups
    MtBuffers <- MCBuffers
    MtLimits = {2, 3}
INVARIANTS
    CarriedOnce
    LimitHeld
    InOrderWithoutOverlap
    EventsKept
    OnlySplitsOvertake
    MetricsKept
    StatusIsABarrier
PROPERTIES
    Flushes
CHECK_DEADLOCK FALSE
