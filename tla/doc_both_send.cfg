SPECIFICATION FairSpec
CONSTANTS
    a = a
    b = b
    c1 = c1
    c2 = c2
    Peers <- TwoPeers
    Conns <- OneConn
    Dialer <- DialerA
    Acceptor <- AcceptorB
    None = None
    Senders = {a, b}
    Discovery = FALSE
    BadRequests = FALSE
    LossPossible = FALSE
PROPERTY
    EitherIsServed
CHECK_DEADLOCK FALSE
