SPECIFICATION Spec
CONSTANTS
    h1 = h1
    h2 = h2
    n1 = n1
    a1 = a1
    i1 = i1
    NoTurn = NoTurn
    Human <- TwoMessages
    Notes <- NobodyElse
    Alarms <- OneAlarm
    Nudges <- OneNudge
    Saturation = 2
    MaxAttempts = 2
    NapMax = 1
    MaxRounds = 0
    MaxTurns = 2
    MaxRestarts = 0
INVARIANTS
    TypeOK
    OneThread
    StemFollowsTheBody
    HeldIsActive
    NothingTwice
    InOrder
PROPERTIES
    OutcomeIsFinal
