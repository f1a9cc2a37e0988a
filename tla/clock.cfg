SPECIFICATION ClockSpec
CONSTANTS
    FramesPerProcess = 4
    MemorySizes = {4, 6}
INVARIANTS VictimIsBest FindsVictim
