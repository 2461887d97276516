SPECIFICATION FairSpec
CONSTANTS
    s1 = s1
    s2 = s2
    p1 = p1
    p2 = p2
    Sessions <- TwoSessions
    Connection <- OneConnection
    TotalChunks <- TwoAndOne
    Paths <- TwoPaths
    PathChoices <- OwnPath
    NoPath = NoPath
    Hole = Hole
    OldChunks = 3
    MaxRetries = 1
    MaxDamage = 1
    SenderCommands = {"cancel"}
    ReceiverCommands = {"reject"}
    LossPossible = FALSE
    DiskMayFail = TRUE
PROPERTIES
    DeliversFile
    AcceptedIsDelivered
CHECK_DEADLOCK FALSE
