SPECIFICATION Spec
CONSTANTS
    s1 = s1
    s2 = s2
    s3 = s3
    i1 = i1
    e1 = e1
    e2 = e2
    n1 = n1
    n2 = n2
    c1 = c1
    c2 = c2
    u1 = u1
    u2 = u2
    None = None
    Sub = {s1, s2, s3}
    Existing <- NoSubs
    Instance = {i1}
    Event = {e1, e2}
    Filters <- MatchAll
    Creator = {c1, c2}
    Notifier = {n1}
    Owner = {}
    Puller = {u1, u2}
    Patches <- NoPatches
    Cursors <- OneCursor
    MaxPerInstance = 1
    MaxAttempts = 1
    SuspendAfter = 1
    Batch = 1
    PageLimit = 1
    MaxSeq = 3
    MaxPatches = 0
    MaxPulls = 2
    MaxFaults = 0
INVARIANTS
    PulledBeforeAcked
    RemainingTellsMore
    QuotaOverrunBounded
SYMMETRY PullSymmetry
CHECK_DEADLOCK FALSE
