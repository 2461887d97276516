SPECIFICATION FairSpec
CONSTANTS
    a = a
    b = b
    c1 = c1
    c2 = c2
    Peers <- TwoPeers
    Conns <- TwoConns
    Dialer <- DialerA
    Acceptor <- AcceptorB
    None = None
    Senders = {a}
    Discovery = TRUE
    BadRequests = FALSE
    LossPossible = FALSE
INVARIANT
    DialledStays
PROPERTIES
    ClosedIsForgotten
    DialerIsServed
    UnlistedEnds
CHECK_DEADLOCK FALSE
