\* Calls that must return, whatever failed before.
SPECIFICATION FairSpec
CONSTANTS
    NTasks = 2
    MaxReports = 2
    QCap = 1
    Faults = {"sched", "fork", "cgroup", "sem", "shm", "mq", "exec"}
PROPERTIES
    RunReleasesAll
    FreeTerminates
    TotalReadable
\* A client may wait for a child that has died, and an abort ends the parent.
CHECK_DEADLOCK FALSE
