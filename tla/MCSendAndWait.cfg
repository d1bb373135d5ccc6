CONSTANTS
    q1 = q1
    q2 = q2
    r1 = r1
    r2 = r2
    r3 = r3
    NoReply = NoReply
    Requests <- MCRequests
    Replies <- MCReplies
    InReplyTo <- MCInReplyTo
    Initiated <- MCInitiated
    MaxRebuilds = 1
SPECIFICATION FairSpec
INVARIANTS
    WaitsAccounted
    EveryReplySurfacesOnce
PROPERTIES
    PendingIsDelivered
