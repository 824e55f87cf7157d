SPECIFICATION FairSpec
CONSTANTS
    AI_PINS = 2
    SAMPLESIZE = 2
    WORD = 16
    Conversions = {0, 2, 15}
    Limits = {1, 3}
INVARIANTS
    TypeOK
    LevelInRange
    LoopReadsSampled
    ModbusReadsSampled
PROPERTIES
    Recovers
