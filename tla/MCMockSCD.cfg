SPECIFICATION Spec
CONSTANTS
    a = a
    b = b
    x = x
    f1 = f1
    o1 = o1
    o2 = o2
    o3 = o3
    r1 = r1
    r2 = r2
    MockUSSs = {a, b}
    OtherUSSs = {x}
    FlightIDs = {f1}
    OpIDs = {o1, o2}
    Intents <- MCIntents
    Areas <- MCAreas
    Requests = {r1, r2}
    MaxRequests = 2
    MaxVersion = 2
    MaxFailures = 1
    None = None
SYMMETRY Symmetry
INVARIANTS
    PlannedRetrievable
    Accounted
    CacheFaithful
PROPERTIES
    ImplementsAirspace
