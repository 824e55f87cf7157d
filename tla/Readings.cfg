SPECIFICATION FairSpec
CONSTANTS
    Messages = {m1, m2}
    Pages = {p1, p2}
    QueueLength = 1
    None = None
INVARIANTS
    TypeOK
    PagesWereSent
    LastWasHanded
PROPERTIES
    PageShowsReadings
