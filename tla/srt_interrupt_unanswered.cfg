SPECIFICATION FairSpec
CONSTANTS
    c1 = c1
    c2 = c2
    c3 = c3
    Consoles = {c1, c2}
    Program <- TwoPrograms
    Size <- SmallSizes
    Estimates = {1}
    InitialEstimate = 1
    NoPcb = NoPcb
    Freed = Freed
    MultiprogrammingLevel = 2
    Algorithm = "SRT"
    OverlapConsoles = FALSE
    FramesInMemory = 4
    FramesPerProcess = 2
    PageSize = 10
    EntriesPerTable = 2
    SlowMemory = TRUE
PROPERTY InterruptedCpuReturns
CHECK_DEADLOCK FALSE
