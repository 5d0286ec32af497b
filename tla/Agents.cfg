CONSTANTS
    RawEvents = {1}
    Budget = 1
    StreamMax = 1
    MaxJobs = 2
    Controls = {"c1", "c2"}
    Operators = {}
    NoRunner = NoRunner
    MaxDate = 2
    MaxDocs = 2
    MaxAsked = 0
    MaxFaults = 2
SPECIFICATION AgentsSpec
CHECK_DEADLOCK FALSE
INVARIANT TiTypeOK
INVARIANT BackupTypeOK
INVARIANT QuotaIsKept
INVARIANT AckedIsDone
INVARIANT SuccessIsInTheBucket
PROPERTY SucceededRunStays
