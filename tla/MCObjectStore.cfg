SPECIFICATION Spec
CONSTANTS
    w1 = w1
    w2 = w2
    k1 = k1
    k2 = k2
    Writers = {w1, w2}
    Keys = {k1, k2}
    Items = {i1}
    Readers = {r1}
    Kinds = {"file", "s3"}
    MaxFaults = 2
    NoKey = NoKey
SYMMETRY Symmetry
INVARIANTS
    TypeOK
    RefsAccounted
PROPERTY AnswerConsistent
