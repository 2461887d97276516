SPECIFICATION FairSpec
CONSTANTS
    p1 = p1
    Peers <- OnePeer
    MaxEngines = 2
    MaxQueue = 1
INVARIANTS
    ShownIsKnown
PROPERTIES
    GoneIsForgotten
    HeardIsShown
