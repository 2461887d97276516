SPECIFICATION FairSpec
CONSTANTS
    default = default
    long = long
    bad = bad
    t1 = t1
    t2 = t2
    Settings <- SomeSettings
    Valid <- GoodSettings
    Default = default
    Length <- Lengths
    Torn = Torn
    None = None
    Savers <- TwoSavers
    MaxKeys = 4
    MaxFaults = 3
INVARIANTS
    EngineSettingsAreValid
    SavedIsKept
    IdentityIsStable
PROPERTIES
    StartsUnlessTorn
