SPECIFICATION FairSpec
CONSTANTS
    c1 = c1
    c2 = c2
    Callers = {c1, c2}
    QueueSize = 1
    MaxAttempts = 2
    MaxGen = 2
    MaxCalls = 1
INVARIANTS
    TypeOK
    NoAbandonedWrite
    ResultMatchesEffect
    StopDrains
    OneWriter
PROPERTIES
    NoSendAfterCancel
    CallsReturn
CHECK_DEADLOCK FALSE
