CONSTANTS
    Lines = 3
    Rejected = {2}
    MaxFiles = 2
    BatchSize = 2
    MaxSpool = 3
    MaxQuarantine = 1
    MaxThreads = 2
    Faults = {"torn_append", "early_seal"}
SPECIFICATION Spec
INVARIANT TypeOK
INVARIANT NothingIsLost
PROPERTY StoredInOrder
PROPERTY CheckpointAdvances
