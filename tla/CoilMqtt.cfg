SPECIFICATION Spec
CONSTANTS
    DO_PINS = 3
    DI_PINS = 2
    CoilBaseAddr = 2
    DiscreteBaseAddr = 3
    Addresses = {1, 2, 3, 4, 5}
    Counts = {0, 1, 2, 3}
    ByteCounts = {0, 1, 2}
PROPERTIES
    WriteCoilsStaysInRange
