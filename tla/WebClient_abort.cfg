\* runner_run fails half-way and the server asks for results all the same.
SPECIFICATION WebSpec
CONSTANTS
    NTasks = 2
    MaxReports = 1
    QCap = 2
    Faults = {"fork"}
INVARIANTS
    NeverAborts
\* An abort ends the server.
CHECK_DEADLOCK FALSE
