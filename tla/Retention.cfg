CONSTANTS
    Docs = {1, 2, 3, 4}
    IdRank <- LastIdFirst
    Processes = {p1, p2}
    Archives = {a1, a2, a3}
    NoArchive = NoArchive
    NoRun = NoRun
    Modes = {TRUE}
    High = 1
    Target = 0
    MaxDocuments = 3
    BatchSize = 1
    PilotMax = 2
    MaxWrites = 1
    MaxCrashes = 1
    MaxDamages = 1
SYMMETRY Symmetry
SPECIFICATION Spec
CONSTRAINT TwoOrCalm
INVARIANT RetentionTypeOK
INVARIANT PurgedIsRestorable
INVARIANT OneProcessPerRun
INVARIANT CatalogIsTrue
INVARIANT OnlyUnfitRunsAreStuck
PROPERTY DeletedAsArchived
CHECK_DEADLOCK FALSE
