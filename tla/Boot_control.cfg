SPECIFICATION Spec
CONSTANTS
    alice = alice
    bob = bob
    base = base
    mid = mid
    leaf = leaf
    b1 = b1
    b2 = b2
    Did = {alice, bob}
    Group = {"owners", "crew"}
    AclName = {"open"}
    Protocol = {base, mid, leaf}
    Behaviour = {b1, b2}
    None = None
    BadCid = BadCid
    MAX_DEPTH = 2
    Request <- AllRequest
    Claim = {c1}
    Cli <- AllCli
    Disk <- FirstDisk
    Failures = {"mutate", "load", "save", "publish", "resolve", "timeout", "crash", "key"}
    MaxChanges = 2
    MaxBoots = 2
    MaxFaults = 1
CHECK_DEADLOCK FALSE
INVARIANTS
    TypeOK
    CachesCurrent
    KindsCurrent
    OwnersAgree
    Bootable
