SPECIFICATION PlatformSpec
CONSTANTS
    a = a
    b = b
    Crawlers = {c1, c2}
    Urls = {u1, u2}
    Texts = {a, b}
    Near <- NoNear
    ItemIds = {i1, i2}
    RawIds = {r1, r2, r3}
    NoRow = NoRow
    MaxEvent = 3
    MaxPrinted = 1
SYMMETRY FullSymmetry
CHECK_DEADLOCK FALSE
INVARIANTS
    TypeOK
    EveryVersionAnnounced
    HistoryComplete
    CurrentIsLatest
    LineageSound
PROPERTIES
    HashChangeBumpsVersion
    HistoryKept
    RowsKept
    
