\* Trace files of up to four lines over a few sectors, synthetic workloads of
\* every size, and six of them replayed by two threads with two reports.
SPECIFICATION Spec
CONSTANTS
    Jobs <- MCJobs
    Replayed <- MCReplayed
    WrongText = WrongText
    Spp = 2
    PageKB = 2
    MegaKB = 4
    Percent = 2
    IntKB = 16
    MaxKB = 8
    BufSize = 1
    Window = 2
    TotalPages = 10
    NThread = 2
    QDepth = 1
    Epoch = 10
    MaxClock = 2
    MaxReports = 2
INVARIANTS
    SectorsKept
    SynthInWorkingSet
    InPartition
    TotalsOfTrace
    ToldOnce
    TotalsMakeSense
PROPERTIES
    AppendedDisjoint
    RemainingFalls
