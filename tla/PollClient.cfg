\* The test program under the failures of the set-up, with the smallest queue.
SPECIFICATION PollSpec
CONSTANTS
    NTasks = 2
    MaxReports = 2
    QCap = 1
    Faults = {"sched", "fork", "cgroup", "sem", "shm", "mq", "shmat"}
INVARIANTS
    AllCollected
    NeverAborts
PROPERTIES
    TestEnds
