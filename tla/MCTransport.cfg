CONSTANTS
    n1 = n1
    n2 = n2
    n3 = n3
    e1 = e1
    e2 = e2
    c1 = c1
    c2 = c2
    c3 = c3
    s1 = s1
    s2 = s2
    NoCall = NoCall
    NoSocket = NoSocket
    Nodes <- TwoNodes
    Envelopes <- TwoEnvelopes
    Valid <- Accepted
    MaxBodyBytes = 2
    MaxAttachmentBytes = 2
    ExecutableExtensions <- Nobody
    Calls <- ThreeCalls
    From <- MixedFrom
    To <- MixedTo
    EnvOf <- MixedEnvOf
    AwaitedBy <- MixedAwaitedBy
    Sockets <- TwoSockets
    MaxRetries = 1
    Stoppable <- TwoNodes
SPECIFICATION FairSpec
INVARIANTS
    EmittedOnce
    DeliveredWasReceived
    FailsFast
    CacheIsLive
PROPERTIES
    CallSettles
    ImplementsLiveDelivery
CHECK_DEADLOCK FALSE
