SPECIFICATION Spec
CONSTANTS
    c1 = c1
    c2 = c2
    NoCore = NoCore
    Cores = {c1, c2}
    Skills <- OneSkill
    Pages <- NoPages
    Files <- JustSettings
    Settings = "groow.json"
    MaxStarts = 3
    MaxActs = 1
SYMMETRY Alike
INVARIANTS
    AwakeAndWhole
PROPERTIES
    StartsRewriteNothing
CHECK_DEADLOCK FALSE
