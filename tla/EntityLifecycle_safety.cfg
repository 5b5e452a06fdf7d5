SPECIFICATION Spec
CONSTANTS
    Fragment = {room, thing}
    Task = {t1, t2}
    None = None
    Actor = room
    Target = {thing}
    Ops = {"create", "local", "delete", "crudDelete", "upsert", "acl", "kind", "behaviour"}
    Failures = {"writer", "kubo", "load", "init", "signal", "cat"}
    Cutoffs = TRUE
    MaxTries = 2
    MaxChanges = 2
INVARIANTS
    TypeOK
    RegistryFresh
PROPERTIES
    ReloadKeepsState
CHECK_DEADLOCK FALSE
SYMMETRY Symmetry
