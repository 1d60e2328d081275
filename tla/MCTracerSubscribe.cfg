SPECIFICATION Spec
CONSTANTS
    Kinds <- MCKinds
    Workers = {w1, w2, w3}
    MaxRuns = 3
    MaxFailures = 2
    MaxChanges = 1
INVARIANTS RunningSubscribed StartSucceeds StopRemoves
