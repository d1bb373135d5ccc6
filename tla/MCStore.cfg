CONSTANTS
    m1 = m1
    m2 = m2
    m3 = m3
    f1 = f1
    f2 = f2
    Messages <- MCMessages
    Flushers <- MCFlushers
    MaxSendAttempts = 2
SPECIFICATION FairSpec
INVARIANTS
    OneFateAlone
    NothingLostAlone
    NoEarlyDeadLetter
PROPERTIES
    QueueOrderKept
    FlushTerminates
CHECK_DEADLOCK FALSE
