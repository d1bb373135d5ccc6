CONSTANTS
    n1 = n1
    n2 = n2
    n3 = n3
    e1 = e1
    e2 = e2
    c1 = c1
    c2 = c2
    c3 = c3
    s1 = s1
    s2 = s2
    NoCall = NoCall
    NoSocket = NoSocket
    Nodes <- ThreeNodes
    Envelopes <- OneEnvelope
    Valid <- Accepted
    MaxBodyBytes = 2
    MaxAttachmentBytes = 2
    ExecutableExtensions <- Nobody
    Calls <- TwoCalls
    From <- BroadcastFrom
    To <- BroadcastTo
    EnvOf <- BroadcastEnvOf
    AwaitedBy <- BroadcastAwaitedBy
    Sockets <- TwoSockets
    MaxRetries = 1
    Stoppable <- Nobody
SPECIFICATION Spec
INVARIANTS
    DeliveredWasReceived
CHECK_DEADLOCK FALSE
