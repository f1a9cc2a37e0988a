SPECIFICATION TimesSpec
CONSTANTS
    Processes = {p1, p2}
    NoProcess = NoProcess
    Algorithm = "FIFO"
    Multiprogramming = 2
    MaxRun = 3
    Ios = {0, 3, 6}
    MaxIos = 2
    MaxBlockedTime = 4
    InitialEstimate = 3
    Alpha = 5
    MemoryDelay = 2
    ClockStarts = {62, 126}
    Word = 128
    Micros = 8
    Second = 10
INVARIANT LogsWhatWasExecuted
CHECK_DEADLOCK FALSE
