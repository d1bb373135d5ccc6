SPECIFICATION ExchangeFairSpec
CONSTANTS
    m1 = m1
    f1 = f1
    f2 = f2
    p1 = p1
    Messages = {m1}
    Flushers <- MCFlushers
    Peers = {p1}
    PeerOf <- MCPeerOf
    MaxSendAttempts = 2
    MaxRuns = 2
INVARIANTS
    HandledOncePerRun
    ReportedDeliveredOnce
    DeliveredReachesAgent
PROPERTIES
    ReturnIsAttempted
CHECK_DEADLOCK FALSE
