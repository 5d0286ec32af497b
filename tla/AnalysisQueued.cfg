SPECIFICATION Spec
CONSTANTS
    Sessions = {"s1"}
    NoSession = NoSession
    Workers = {"w1"}
    MaxAttempts = 1
    MaxCloses = 0
    MaxManual = 0
INVARIANT NotQueuedAfterReport
