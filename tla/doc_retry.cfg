SPECIFICATION FairSpec
CONSTANTS
    s1 = s1
    s2 = s2
    p1 = p1
    p2 = p2
    Sessions <- OneSession
    Connection <- OneConnection
    TotalChunks <- TwoChunks
    Paths <- OnePath
    PathChoices <- AnyPath
    NoPath = NoPath
    Hole = Hole
    OldChunks = 0
    MaxRetries = 3
    MaxDamage = 1
    SenderCommands = {}
    ReceiverCommands = {}
    LossPossible = FALSE
    DiskMayFail = FALSE
PROPERTY
    DamagedIsRetried
CHECK_DEADLOCK FALSE
