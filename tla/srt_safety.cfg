SPECIFICATION Spec
CONSTANTS
    c1 = c1
    c2 = c2
    c3 = c3
    Consoles = {c1, c2, c3}
    Program <- MixedPrograms
    Size <- MixedSizes
    Estimates = {1, 2}
    InitialEstimate = 2
    NoPcb = NoPcb
    Freed = Freed
    MultiprogrammingLevel = 2
    Algorithm = "SRT"
    OverlapConsoles = FALSE
    FramesInMemory = 4
    FramesPerProcess = 2
    PageSize = 10
    EntriesPerTable = 2
    SlowMemory = FALSE
INVARIANTS SemaphoresMatchQueues InterruptsConserved
PROPERTIES ShortestFirst
CHECK_DEADLOCK FALSE
