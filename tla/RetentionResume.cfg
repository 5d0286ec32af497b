CONSTANTS
    Docs = {1, 2}
    IdRank <- IdsByTime
    Processes = {p1}
    Archives = {1, 2, 3}
    NoArchive = NoArchive
    NoRun = NoRun
    Modes = {TRUE}
    High = 1
    Target = 0
    MaxDocuments = 2
    BatchSize = 1
    PilotMax = 2
    MaxWrites = 0
    MaxCrashes = 1
    MaxDamages = 0
SPECIFICATION FairSpec
PROPERTY FrozenIsPurged
CHECK_DEADLOCK FALSE
