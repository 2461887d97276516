SPECIFICATION Spec
CONSTANTS
    s1 = s1
    s2 = s2
    c1 = c1
    c2 = c2
    f1 = f1
    Sessions <- TwoSessions
    Callers = {c1, c2}
    Files <- OneFile
    FileOf <- SameFile
    FileSize <- ThreeBytes
    Roles <- UploadAndDownload
    ChunkSize = 2
    SizeLimit = 5
    SessionLimit = 2
    GlobalLimit = 2
    SessionRefill = 2
    GlobalRefill = 2
    HighWater = 1
    LowWater = 1
    Retried = {0}
    MaxRetries = 1
    MaxWrites = 1
    Bounds <- FourCalls
INVARIANTS
    LayoutTiles
    CountedIsStored
    ReportedIsWhole
    TrustedIsRight
    QueueCoversGranted
    RetriesBounded
PROPERTIES
    SpentIsQueued
SYMMETRY Interchangeable
CHECK_DEADLOCK FALSE
