SPECIFICATION Spec
CONSTANTS
    a = a
    b = b
    c1 = c1
    c2 = c2
    Peers <- TwoPeers
    Conns <- TwoConns
    Dialer <- DialerAB
    Acceptor <- AcceptorBA
    None = None
    Senders = {}
    Discovery = FALSE
    BadRequests = FALSE
    LossPossible = FALSE
INVARIANT
    DiallingConnects
CHECK_DEADLOCK FALSE
