\* docker_free after a container that could not be created.
SPECIFICATION DockerFairSpec
CONSTANTS
    NTasks = 2
    MaxReports = 0
    QCap = 1
    Faults = {"create"}
PROPERTIES
    FreeAlwaysEnds
CHECK_DEADLOCK FALSE
