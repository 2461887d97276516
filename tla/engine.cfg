SPECIFICATION FairSpec
CONSTANTS
    a = a
    b = b
    a1 = a1
    a2 = a2
    a3 = a3
    b1 = b1
    Peers <- TwoPeers
    Calls <- FourCalls
    At <- CallsAt
    To <- CallsTo
INVARIANTS
    OneEngine
    PendingIsServed
    NobodyStuck
PROPERTIES
    SwitchesEngine
    CommandsReturn
