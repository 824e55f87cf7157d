SPECIFICATION Spec
CONSTANTS
    Clients = {c1, c2}
    Selections = {"WiFiMode"}
    Submittable = {}
    MaxEvents = 2
PROPERTIES
    ApClientHoldsAp
