SPECIFICATION FairSpec
CONSTANTS
    u1 = u1
    w1 = w1
    w2 = w2
    i1 = i1
    s1 = s1
    s2 = s2
    a = a
    b = b
    c = c
    p = p
    Owners = {u1}
    Writers = {w1, w2}
    EmptyWriter = w1
    ISAIDs = {i1}
    SubIDs = {s1, s2}
    Cells = {a, b, c}
    Parents = {p}
    Children <- Siblings
    ISAExtents <- MCISAExtents
    SubExtents <- MCSubExtents
    None = None
    MaxResultLimit = 10
    MaxSubscriptionsPerArea = 1
    MaxClockSkew = 1
    MaxSubscriptionDuration = 3
    ExpiredDuration = 1
    MaxTime = 3
    MaxWrites = 3
    MaxFailures = 1
INVARIANTS
    TypeOK
    SubscribersInformed
    SubscriptionLimit
PROPERTIES
    OnlyExpiredCollected
    ExpiredRowsRemoved
