SPECIFICATION Spec
SYMMETRY Symmetry
CONSTANTS
    PrivateReqs = {p1, p2, x1}
    GroupReqs = {g1}
    InvalidReqs = {x1}
    TTL = 1
    MaxEntries = 2
    MaxTime = 2
    MaxServerIds = 3
    MaxFaults = 1
INVARIANTS
    TypeOK
    AtMostOncePerCacheLife
    OrderTracksCache
    NoStaleReplay
    AckNamesDelivery
    InFlightAccounted
    
CHECK_DEADLOCK FALSE
