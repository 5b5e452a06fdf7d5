SPECIFICATION Spec
CONSTANTS
    State = {s0, s1}
    EmptyState = s0
    Call = {c1}
    None = None
    Daemon = Daemon
    MailboxCapacity = 3
    Failures = {"put"}
    Faults = {}
    Revert = FALSE
    PromptCallers = TRUE
    Republishing = TRUE
    MaxSignals = 2
CHECK_DEADLOCK FALSE
INVARIANT ShutdownKeepsState
