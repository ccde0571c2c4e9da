\* The docker driver under every failure its set-up and its start can meet.
SPECIFICATION DockerFairSpec
CONSTANTS
    NTasks = 2
    MaxReports = 2
    QCap = 1
    Faults = {"image", "sched", "create", "sem", "mq", "start", "cgroup",
              "shmat", "exec"}
INVARIANTS
    RunsWhenSetUp
    NothingOrphaned
PROPERTIES
    ObjectsOutliveRun
    ImplementsStream
    FreeEnds
\* A client may wait for a container that has died, and a crash or an abort
\* ends the parent.
CHECK_DEADLOCK FALSE
