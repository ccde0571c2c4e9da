\* The repeats a client sets never reach the program.
SPECIFICATION Spec
CONSTANTS
    Clients <- MCClients
    Files <- MCFiles
INVARIANTS
    RepeatsAsSet
