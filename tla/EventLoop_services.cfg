SPECIFICATION FairSpec
CONSTANTS
    None = None
    in = in
    d1 = d1
    Service = {"inbox", "crud"}
    Delivery = {in, d1}
    Inline = in
    Limit = {1, 3}
    ATTEMPTS = 2
    MaxVersion = 2
    Message <- Messages
    Envelope <- Envelopes
    Workload <- Workloads
    BUDGET = 1
    Capacity = 1
    LocalLimit = 1
    RemoteLimit = 1
CHECK_DEADLOCK FALSE
INVARIANTS
    TypeOK
    NoResolutionUndoesPublication
    BackoffCounts
PROPERTIES
    CrudServed
    SignalHandled
    DeliveryEnds
