SPECIFICATION FairSpec
CONSTANTS
    Clients = {}
    Selections = {"EthernetMode"}
    Submittable = {}
    MaxEvents = 1
PROPERTIES
    OffLineTriesAgain
