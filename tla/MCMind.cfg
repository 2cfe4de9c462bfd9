SPECIFICATION Spec
CONSTANTS
    Signals <- Arrivals
    Sayable <- PiecesSaid
    MaxLines = 3
    DaySeconds = 1
    NoFile = NoFile
    Window = 2
    MaxAttempts = 2
    MaxRounds = 2
    TraceKeep = 1
    MaxTurns = 3
    Deep = 4
    MaxPieces = 2
    MaxTwists = 1
INVARIANTS
    ExchangesAreWhole
    AskedOnce
    OfTurnIsWhole
    NothingInside
    CutOffRunsNoOther
CHECK_DEADLOCK FALSE
