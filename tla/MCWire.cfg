SPECIFICATION FairSpec
CONSTANTS
    turn1 = turn1
    window = window
    Callers = {turn1}
    Watchers = {window}
    OutDepth = 2
    SubDepth = 2
    MaxDoes = 3
    MaxDeltas = 2
    MaxTwists = 1
INVARIANTS
    AsTheyHappened
    PartsThenAnswer
PROPERTIES
    EveryCallEnds
CHECK_DEADLOCK FALSE
