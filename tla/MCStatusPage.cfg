SPECIFICATION Spec
CONSTANTS
    j1 = j1
    j2 = j2
    j3 = j3
    Jobs = {j1, j2, j3}
    Started <- MCStarted
    Limit = 1
    MaxEvent = 1
    MaxRequest = 3
    None = None
SYMMETRY Symmetry
CHECK_DEADLOCK FALSE
INVARIANTS
    TypeOK
    PublishedNotOverstated
    JobsShown
    ViewSettled
