CONSTANTS
    Lines = 3
    Rejected = {}
    MaxFiles = 1
    BatchSize = 2
    MaxSpool = 2
    MaxQuarantine = 1
    MaxThreads = 1
    Faults = {}
SPECIFICATION FairSpec
PROPERTY EveryLineArrives
