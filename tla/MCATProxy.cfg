SPECIFICATION ATProxySpec
CONSTANTS
    c1 = c1
    c2 = c2
    h1 = h1
    h2 = h2
    good = good
    bad = bad
    Calls = {c1, c2}
    Handlers = {h1, h2}
    Results = {good, bad}
    Capacity = 3
    QueryTimeout = 2
    ListTimeout = 1
    MaxPuts = 1
    Nothing = Nothing
INVARIANTS
    QueueIsWaiting
    AnswersBelong
PROPERTIES
    EveryCallAnswered
    ResultForwarded
