SPECIFICATION Spec
CONSTANTS
    a = a
    b = b
    c1 = c1
    c2 = c2
    Peers <- TwoPeers
    Conns <- TwoConns
    Dialer <- DialerAB
    Acceptor <- AcceptorBA
    None = None
    Senders = {a}
    Discovery = TRUE
    BadRequests = TRUE
    LossPossible = TRUE
INVARIANTS
    ConnectedIsBacked
    LiveIsListed
CHECK_DEADLOCK FALSE
