SPECIFICATION WorkerSpec
CONSTANTS
    Events = {1, 2}
    Places = {1, 2}
    Sessions = {"s1"}
    SessionOf <- OneSession
    Corrupt = {}
    Workers = {w1, w2}
    NoWorker = NoWorker
    LeaseSeconds = 2
    LeaderSeconds = 2
    RetryDelays = {0}
    MaxAttempts = 2
    MaxLag = 0
    MaxTime = 3
    Closing = {2}
    MayStall = FALSE
SYMMETRY WorkerSymmetry
CHECK_DEADLOCK FALSE
INVARIANTS WorkerTypeOK OneWorkerHoldsTheLiveClaims AppliedOnceInOrder SucceededIsKept ClosedIsAnnounced MemoryIsCurrent
PROPERTY ImplementsSessionLog
