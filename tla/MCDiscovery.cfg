SPECIFICATION DirectoryFairSpec
CONSTANTS
    bob = bob
    me = me
    b1 = b1
    b2 = b2
    here = here
    there = there
    Names = {bob, me}
    Runs = {b1, b2}
    Addrs = {here, there}
    NoAddr = NoAddr
    Manual = Manual
    Known = Known
    NameOf <- MCNameOf
    ManualLists <- MCManualLists
    KnownLists <- MCKnownLists
INVARIANTS
    KnownPeersKept
PROPERTIES
    GoneIsDropped
    AnnouncedAddressHolds
CHECK_DEADLOCK FALSE
