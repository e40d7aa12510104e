SPECIFICATION FairSpec
CONSTANTS
    r1 = r1
    r2 = r2
    l1 = l1
    k1 = k1
    k2 = k2
    Relays = {r1, r2, l1}
    LogRelays = {l1}
    Contents = {k1, k2}
    NoContent = NoContent
    MaxEvent = 2
    MaxFaults = 2
CHECK_DEADLOCK FALSE
INVARIANTS
    TypeOK
    DuplicatesAccounted
PROPERTIES
    
    EventuallyPublished
