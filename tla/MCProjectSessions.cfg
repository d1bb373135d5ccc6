SPECIFICATION FairSpec
CONSTANTS
    t1 = t1
    t2 = t2
    t3 = t3
    amy = amy
    bob = bob
    Tasks = {t1, t2, t3}
    Pairs = {amy, bob}
    PairOf <- MCPairOf
    Sessions = {s1, s2}
    MaxPosts = 1
    Human = Human
    NoTask = NoTask
    NoSession = NoSession
    NoPair = NoPair
INVARIANTS
    PairIsSerial
    AnswersOwnRequest
PROPERTIES
    TaskSettles
    UnloadDisposesStored
CHECK_DEADLOCK FALSE
