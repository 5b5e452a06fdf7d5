SPECIFICATION Spec
CONSTANTS
    State = {s0, s1, s2, s3}
    EmptyState = s0
    Call = {c1, c2, c3}
    None = None
    Daemon = Daemon
    MailboxCapacity = 2
    Failures = {"add", "put", "get", "publish", "config"}
    Faults = {"timeout", "trap", "crash"}
    Revert = FALSE
    PromptCallers = TRUE
    Republishing = TRUE
    MaxSignals = 0
SYMMETRY Symmetry
INVARIANTS
    NothingPendingMeansDurable
    DurableInv
