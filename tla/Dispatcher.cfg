SPECIFICATION DspSpec
CONSTANTS
    MaxMsgs = 2
    MaxGens = 2
    MaxForgets = 1
    Batch = 2
    RetryLimit = 1
INVARIANTS AckedHasOutcome OrderLostOnlyAfterDisturbance
PROPERTIES GiveUpsPaid
CHECK_DEADLOCK FALSE
