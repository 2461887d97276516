SPECIFICATION FairSpec
CONSTANTS
    s1 = s1
    s2 = s2
    p1 = p1
    p2 = p2
    Sessions <- OneSession
    Connection <- OneConnection
    TotalChunks <- ThreeChunks
    Paths <- OnePath
    PathChoices <- AnyPath
    NoPath = NoPath
    Hole = Hole
    OldChunks = 4
    MaxRetries = 1
    MaxDamage = 2
    SenderCommands = {"pause", "resume", "cancel"}
    ReceiverCommands = {"reject", "pause", "resume", "cancel"}
    LossPossible = TRUE
    DiskMayFail = TRUE
INVARIANTS
    TypeOK
    CountedIsStored
    SentIsStored
    ReceivedFileIsExact
    LedgersAgree
    NoDataWithoutConsent
    OneMessageInFlight
    DamagedIsNotCounted
    NobodyWaitsInVain
PROPERTIES
    OutcomeIsFinal
    SendReturns
    ReceiveReturns
CHECK_DEADLOCK FALSE
