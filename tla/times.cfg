SPECIFICATION TimesSpec
CONSTANTS
    Processes = {p1, p2}
    NoProcess = NoProcess
    Algorithm = "SRT"
    Multiprogramming = 2
    MaxRun = 2
    Ios = {0, 3, 6}
    MaxIos = 1
    MaxBlockedTime = 4
    InitialEstimate = 3
    Alpha = 5
    MemoryDelay = 2
    ClockStarts = {62, 126}
    Word = 128
    Micros = 8
    Second = 10
INVARIANTS WakesInTime BurstMeasured
PROPERTIES IoTakesWhatWasAsked EveryIoEnds
