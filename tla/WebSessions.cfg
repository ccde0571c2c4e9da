\* Two sessions of one task: the first one's driver thread clears the Config
\* object behind the handler of the second.
SPECIFICATION SessionsSpec
CONSTANTS
    NTasks = 1
    MaxReports = 0
    QCap = 1
    Faults = {}
    MaxSessions = 2
INVARIANTS
    FreedAtEnd
\* The last session ends.
CHECK_DEADLOCK FALSE
