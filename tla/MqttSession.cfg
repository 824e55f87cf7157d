SPECIFICATION FairSpec
CONSTANTS
    MaxClients = 2
INVARIANTS
    TypeOK
    OnlineMeansSession
    DiscoveryReachesBroker
    FirstSessionStaysAvailable
PROPERTIES
    SessionReturns
    FirstSessionIsAnnounced
