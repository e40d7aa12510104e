SPECIFICATION Spec
CONSTANTS
    Readers = {r1}
    MaxItem = 5
    Classes = {k1, k2}
    Limits = {1, 2, 3}
    None = None
SYMMETRY Symmetry
INVARIANTS
    TypeOK
    WalkComplete
    NoneTwice
