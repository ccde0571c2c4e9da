\* Two worker threads, SIGINT and failing submissions on four workloads.
SPECIFICATION Spec
CONSTANTS
    w1 = w1
    w2 = w2
    Threads = {w1, w2}
    QDepth = 2
    Load <- MCLoad
    Beyond = {0, 2}
    MaxClock = 2
    Signal = TRUE
    SubmitFails = TRUE
INVARIANTS
    QueueBounded
    OnlyRequests
    OverrunBounded
    TimedWraps
    FinalIsQuiet
PROPERTIES
    WholePass
    ReplayEnds
