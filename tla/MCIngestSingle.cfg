SPECIFICATION RebuildSpec
CONSTANTS
    a = a
    b = b
    c = c
    Crawlers = {c1}
    Urls = {u1, u2}
    Texts = {a, b, c}
    Near <- NearAB
    ItemIds = {i1, i2}
    RawIds = {r1, r2, r3, r4}
    NoRow = NoRow
SYMMETRY IdSymmetry
CHECK_DEADLOCK FALSE
INVARIANTS
    HistoryComplete
    VariantsAreOthers
PROPERTIES
    VariantsNeverLost
    NoDuplicateBirth
