SPECIFICATION FairSpec
CONSTANTS
    State = {s0, s1}
    EmptyState = s0
    Call = {c1, c2}
    None = None
    Daemon = Daemon
    MailboxCapacity = 5
    Failures = {"add", "put"}
    Faults = {}
    Revert = TRUE
    PromptCallers = FALSE
    Republishing = FALSE
    MaxSignals = 1
CHECK_DEADLOCK FALSE
PROPERTIES
    Drained
    FlagReleased
    ShutdownEnds
