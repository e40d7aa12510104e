SPECIFICATION Spec
CONSTANTS
    a = a
    b = b
    c = c
    Crawlers = {c1, c2}
    Urls = {u1, u2, u3}
    Texts = {a}
    Near <- NoNear
    ItemIds = {i1}
    RawIds = {r1, r2, r3}
    NoRow = NoRow
SYMMETRY FullSymmetry
CHECK_DEADLOCK FALSE
PROPERTIES
    VariantsNeverLost
