CONSTANTS
    Events <- MCEvents
    Places = {1, 2, 3}
    Sessions <- MCSessions
    SessionOf <- TwoSessions
    Corrupt = {3}
    Workers = {w1, w2}
    NoWorker = NoWorker
    LeaseSeconds = 1
    LeaderSeconds = 2
    RetryDelays = {1}
    MaxAttempts = 2
    MaxLag = 1
    MaxTime = 4
    MaxCalls = 2
    MaxStores = 2
SYMMETRY WorkerSymmetry
SPECIFICATION StoreSpec
INVARIANT SessionsAreServedInOrder
INVARIANT MirrorAgrees
PROPERTY SettledOnce
PROPERTY ImplementsSessionQueue
CHECK_DEADLOCK FALSE
