\* A session of the web server whose queues hold all messages of a task.
SPECIFICATION WebSpec
CONSTANTS
    NTasks = 2
    MaxReports = 3
    QCap = 4
    Faults = {"shmat"}
INVARIANTS
    SavedWhenDone
PROPERTIES
    SessionFreed
