CONSTANTS
    broadcast = broadcast
    targeted = targeted
    naming = naming
    deep = deep
    s1 = s1
    Requests <- MCRequests
    Senders <- OneSender
    SenderOf <- OneSenderOf
    Broadcasts <- MCBroadcasts
    Deep <- MCDeep
    Targeted <- MCTargeted
    Naming <- MCNaming
    MaxArrivals = 2
    MaxRebuilds = 1
SPECIFICATION Spec
INVARIANTS
    OneFate
    AutoReplyAllowed
    TimedOutIsHuman
PROPERTIES
    ImplementsPolicy
CHECK_DEADLOCK FALSE
