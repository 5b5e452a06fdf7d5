SPECIFICATION Spec
CONSTANTS
    Definition = {d1, d2, d3}
    None = None
    Kinds = {"repeat", "oneshot", "random"}
    AddMayFail = FALSE
    RemoveMayFail = FALSE
    Overtaking = TRUE
    Signals = FALSE
CHECK_DEADLOCK FALSE
INVARIANT StrictLatestWins
