SPECIFICATION FairSpec
CONSTANTS
    Clients = {c1}
    Selections = {"NotConnected", "WiFiMode", "EthernetMode"}
    Submittable = {"WiFiMode", "EthernetMode"}
    MaxEvents = 1
INVARIANTS
    TypeOK
    OnLineStartsMqtt
    SettledApReleased
PROPERTIES
    ApClientHoldsAp
    FallsBack
    FalseOnLineEnds
    DeadApEnds
