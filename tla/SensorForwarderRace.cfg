CONSTANTS
    Lines = 2
    Rejected = {}
    MaxFiles = 2
    BatchSize = 1
    MaxSpool = 4
    MaxQuarantine = 1
    MaxThreads = 1
    Faults = {"rotation_while_opening"}
SPECIFICATION Spec
INVARIANT NothingIsLost
