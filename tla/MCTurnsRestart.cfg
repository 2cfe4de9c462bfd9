SPECIFICATION FairSpec
CONSTANTS
    h1 = h1
    h2 = h2
    n1 = n1
    a1 = a1
    i1 = i1
    NoTurn = NoTurn
    Human <- OnePerson
    Notes <- NobodyElse
    Alarms <- NobodyElse
    Nudges <- NobodyElse
    Saturation = 2
    MaxAttempts = 2
    NapMax = 1
    MaxRounds = 1
    MaxTurns = 3
    MaxRestarts = 1
INVARIANTS
    NothingLost
    WrittenDown
PROPERTIES
    KeepsThePromise
    NoLateLines
    EveryoneIsAnswered
