SPECIFICATION Spec
CONSTANTS
    Messages = {m1}
    Pages = {p1, p2, p3}
    QueueLength = 1
    None = None
INVARIANTS
    AtMostTwoPages
