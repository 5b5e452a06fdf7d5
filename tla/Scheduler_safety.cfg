SPECIFICATION FairSpec
CONSTANTS
    Definition = {d1, d2}
    None = None
    Kinds = {"repeat", "oneshot", "random"}
    AddMayFail = TRUE
    RemoveMayFail = TRUE
    Overtaking = TRUE
    Signals = TRUE
CHECK_DEADLOCK FALSE
INVARIANTS
    TypeOK
    LastBegunWinsUntilReset
    NoZombieEntry
PROPERTY SupersededStops
