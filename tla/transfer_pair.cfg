SPECIFICATION Spec
CONSTANTS
    s1 = s1
    s2 = s2
    p1 = p1
    p2 = p2
    Sessions <- TwoSessions
    Connection <- OneConnection
    TotalChunks <- TwoChunks
    Paths <- TwoPaths
    PathChoices <- AnyPath
    NoPath = NoPath
    Hole = Hole
    OldChunks = 3
    MaxRetries = 0
    MaxDamage = 1
    SenderCommands = {"cancel"}
    ReceiverCommands = {"cancel"}
    LossPossible = FALSE
    DiskMayFail = FALSE
INVARIANTS
    OneWriterWins
CHECK_DEADLOCK FALSE
