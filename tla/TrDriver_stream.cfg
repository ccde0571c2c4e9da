\* Safety of the driver under every failure it survives, and the driver
\* against its abstract specification.
SPECIFICATION Spec
CONSTANTS
    NTasks = 3
    MaxReports = 2
    QCap = 1
    Faults = {"sched", "fork", "sem", "mq", "shmat", "exec", "reenter"}
INVARIANTS
    TypeOK
    StartBarrier
    TotalComplete
    StreamInOrder
    FreeComplete
PROPERTIES
    IpcOutlivesChild
    ImplementsStream
\* A client may wait for a child that has died, and an abort ends the parent.
CHECK_DEADLOCK FALSE
