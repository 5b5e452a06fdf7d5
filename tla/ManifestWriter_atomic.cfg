SPECIFICATION FairSpec
CONSTANTS
    Entity = {e1, e2}
    Task = {t1, t2}
    None = None
    Kinds = {"state", "reload", "reloadState", "behaviour", "error", "insert", "remove", "reject", "acl"}
    Failures = {"get", "put", "pin"}
    Cutoffs = TRUE
CHECK_DEADLOCK FALSE
INVARIANTS
    TypeOK
    CacheCoherent
    OutcomeTruthful
    StatsCurrent
    RootPinned
PROPERTIES
    Atomicity
    EveryTaskEnds
