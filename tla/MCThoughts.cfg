SPECIFICATION FairSpec
CONSTANTS
    t1 = t1
    p1 = p1
    p2 = p2
    NoId = NoId
    NoPid = NoPid
    Ids <- OneThought
    Pids <- TwoPids
    MaxSteps = 2
    MaxThoughts = 1
    MaxAttempts = 2
    MaxActs = 1
    MaxRestarts = 1
INVARIANTS
    StartingIsSpokenFor
    DoneIsTold
PROPERTIES
    NoTakeover
    EveryThoughtSettles
