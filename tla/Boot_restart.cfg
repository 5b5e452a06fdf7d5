SPECIFICATION Spec
CONSTANTS
    alice = alice
    bob = bob
    base = base
    mid = mid
    leaf = leaf
    b1 = b1
    b2 = b2
    Did = {alice, bob}
    Group = {"owners", "crew"}
    AclName = {"open"}
    Protocol = {base, mid, leaf}
    Behaviour = {b1, b2}
    None = None
    BadCid = BadCid
    MAX_DEPTH = 2
    Request <- SettingRequest
    Claim = {c1}
    Cli <- PlainCli
    Disk <- FirstDisk
    Failures = {"crash", "publish", "key"}
    MaxChanges = 2
    MaxBoots = 2
    MaxFaults = 1
CHECK_DEADLOCK FALSE
INVARIANTS
    RestartRestores
