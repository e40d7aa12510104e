SPECIFICATION Spec
CONSTANTS
    Urls = {u1, u2}
    MaxEntries = 2
    MaxCrawls = 2
    None = None
CHECK_DEADLOCK FALSE
SYMMETRY Symmetry
INVARIANTS
    TypeOK
    StatsMatchRows
    EntriesAccounted
    ItemsRestOnSuccess
