SPECIFICATION FairSpec
CONSTANTS
    f1 = f1
    f2 = f2
    Sessions = {s1, s2}
    Feeds = {f1, f2}
    Files <- MCFiles
    MaxSource = 4
    NoFeed = NoFeed
    None = None
INVARIANTS
    TypeOK
    FeedsUnique
    SourcesHaveHealth
    ImportComplete
PROPERTY SessionsEnd
