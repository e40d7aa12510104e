SPECIFICATION Spec
CONSTANTS
    Readers = {r1}
    MaxItem = 3
    Classes = {k1}
    Limits = {1, 2}
    None = None
PROPERTY NothingLeftOut
