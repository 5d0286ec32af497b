CONSTANTS
    Lines = 3
    Rejected = {1, 2}
    MaxFiles = 2
    BatchSize = 1
    MaxSpool = 3
    MaxQuarantine = 1
    MaxThreads = 1
    Faults = {}
SPECIFICATION FairSpec
PROPERTY EveryLineArrivesUnlessFull
