SPECIFICATION FairSpec
CONSTANTS
    MaxEvents = 3
INVARIANTS
    TypeOK
    CallbackFollowsMode
    CommandModeIsReal
    FreedOnlyInRace
    NetifOutlivesPpp
    ApReleasesModem
PROPERTIES
    GoodModemIsStarted
    AcquiresNetwork
    TasksReturn
