SPECIFICATION Spec
CONSTANTS
    u1 = u1
    u2 = u2
    o1 = o1
    o2 = o2
    c1 = c1
    s1 = s1
    s2 = s2
    a = a
    b = b
    c = c
    d = d
    p = p
    Managers = {u1, u2}
    OpIDs = {o1, o2}
    ConstraintIDs = {}
    SubIDs = {s1, s2}
    Cells = {a, b}
    Parents <- NoParents
    Children <- NoChildren
    Extents <- MCExtents
    SubExtents <- MCSubExtents
    RequestStates <- PlannedOrOff
    Triggers <- OpsOnly
    None = None
    MaxResultLimit = 10
    MaxClockSkew = 1
    MaxSubscriptionDuration = 4
    MaxStartGap = 1
    MaxTime = 2
    MaxVersion = 2
    MaxIndex = 2
SYMMETRY Symmetry
INVARIANTS
    TypeOK
    DependentsCovered
    SubscribersInformed
    Deconflicted
PROPERTIES
    EveryOverlapNotified
    NotificationIndexNeverDecreases
    NoCascadingDelete
