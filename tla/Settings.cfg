SPECIFICATION Spec
CONSTANTS
    AIPins = 2
    EepromSize = 1024
    FrameLength = 420
    Texts = {15, 460, 470}
    DefaultTexts = 15
    Limits = {50, 72}
    DefaultLimits = 50
    Ports = {502, 40000}
    DefaultPort = 502
    Selections = {"WiFiMode", "ModemMode"}
INVARIANTS
    TypeOK
    AcknowledgedIsKept
    RestartChangesNothing
PROPERTIES
    StoreSpec
