CONSTANTS
    Sessions = {"s1"}
    NoSession = NoSession
    Workers = {"w1", "w2"}
    MaxAttempts = 2
    MaxCloses = 1
    MaxManual = 1
    Alerts = {1, 2}
    Wanted = {1}
    Dispatchers = {"d1", "d2"}
    NoAlert = NoAlert
    HookAttempts = 2
    Controls = {"c1"}
    Operators = {"o1"}
    NoRunner = NoRunner
    MaxDate = 1
    MaxDocs = 2
    MaxAsked = 1
    MaxFaults = 1
SPECIFICATION ServicesSpec
CHECK_DEADLOCK FALSE
INVARIANT JobTypeOK
INVARIANT OneReport
INVARIANT SummaryIsNotAhead
INVARIANT PostsStayInBudget
INVARIANT CopiesAreExplained
PROPERTY EveryJobSettles
PROPERTY ImplementsLedger
PROPERTY ImplementsOutbox
PROPERTY ImplementsBackupBook
PROPERTY EveryAlertSettles
PROPERTY EveryDayIsArchived
PROPERTY EveryRequestSettles
