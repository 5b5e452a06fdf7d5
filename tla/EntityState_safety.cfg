SPECIFICATION Spec
CONSTANTS
    State = {s0, s1}
    EmptyState = s0
    Call = {c1, c2}
    None = None
    Daemon = Daemon
    MailboxCapacity = 2
    Failures = {"add", "put", "get", "cat", "publish", "config"}
    Faults = {"timeout", "trap", "crash"}
    Revert = TRUE
    PromptCallers = FALSE
    Republishing = TRUE
    MaxSignals = 1
SYMMETRY Symmetry
INVARIANTS
    TypeOK
    CtxConsistent
    RequestsMatch
    OneLoop
    NoStranded
