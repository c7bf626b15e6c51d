SPECIFICATION Spec
CONSTANTS
    s1 = s1
    s2 = s2
    s3 = s3
    i1 = i1
    e1 = e1
    e2 = e2
    n1 = n1
    n2 = n2
    c1 = c1
    c2 = c2
    u1 = u1
    u2 = u2
    None = None
    Sub = {s1}
    Existing <- OnePullOnly
    Instance = {i1}
    Event = {e1, e2}
    Filters <- MatchSome
    Creator = {}
    Notifier = {n1}
    Owner = {"o1"}
    Puller = {}
    Patches <- HookPatches
    Cursors <- NoCursors
    MaxPerInstance = 2
    MaxAttempts = 2
    SuspendAfter = 2
    Batch = 2
    PageLimit = 1
    MaxSeq = 3
    MaxPatches = 1
    MaxPulls = 0
    MaxFaults = 0
INVARIANTS
    EveryPostSigned
CHECK_DEADLOCK FALSE
