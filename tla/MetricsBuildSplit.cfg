SPECIFICATION MtSpec
CONSTANTS
    one = one
    two = two
    status = status
    xxlOne = xxlOne
    xxlTwo = xxlTwo
    xxlFew = xxlFew
    bad = bad
    NoPayload = NoPayload
    MtPayloads = {one, two, status, xxlOne, xxlTwo, xxlFew, bad}
    MtMalformed = {bad}
    LongTokens = {one, two, status, xxlOne, xxlTwo, xxlFew}
    MtPayloadLen <- MCPayloadLen
    Resources <- MCResources
    Groups <- MCGroups
    MtBuffers <- MCBuffers
    MtLimits = {2, 3}
INVARIANTS SplitKeepsServices
CHECK_DEADLOCK FALSE
