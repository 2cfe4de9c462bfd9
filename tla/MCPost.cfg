SPECIFICATION BoundedSpec
CONSTANTS
    m1 = m1
    a1 = a1
    a2 = a2
    s1 = s1
    NoFile = NoFile
    AlarmIds <- TwoAlarms
    Day = 2
    People <- OneMessage
    Strays <- OneStray
    Words <- WordsOfInterest
    Prefixes <- EachOrBoth
    MaxAttempts = 2
    MaxClock = 3
    MaxFires = 2
    MaxRestarts = 1
    MaxCopies = 2
INVARIANTS
    NeverLost
    PatienceSurvives
    NothingStranded
    AlarmsArrive
PROPERTIES
    BacklogIsSkipped
