SPECIFICATION Spec
CONSTANTS
    Entity = {e1}
    Task = {t1, t2}
    None = None
    Kinds = {"state", "reload", "reloadState", "behaviour", "error", "insert", "remove", "reject", "acl"}
    Failures = {}
    Cutoffs = FALSE
CHECK_DEADLOCK FALSE
INVARIANT StateSurvives
