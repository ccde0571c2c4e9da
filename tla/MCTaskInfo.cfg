\* Two tasks, both drivers, and settings that set, override, repeat and miss
\* options, one session after another.
SPECIFICATION Spec
CONSTANTS
    Clients <- MCClients
    Files <- MCFiles
INVARIANTS
    OneTaskPerGroup
    RunsAsConfigured
    WeightInForce
    SchedulerInForce
    ReportOfItsTask
