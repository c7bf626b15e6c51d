SPECIFICATION FairSpec
CONSTANTS
    p = p
    q = q
    i1 = i1
    i2 = i2
    i3 = i3
    Base = {p}
    Iri = {i1, i2, i3}
    BaseOf <- OneBaseOf
    Also <- OneAlso
    Silent = {i2}
    Resolvable = {i1, i2}
    KnownPeers = {p}
    Cited = {i1, i2}
    Cached = {i3}
    Admin = {}
    Announcer = {}
    Reader = {r1}
    Worker = w
    Batch = 1
    MaxIds = 1
    MaxCount = 2
    MaxResolves = 1
    MaxFaults = 1
    MaxDisturbances = 1
    Unknown = unknown
    None = none
INVARIANTS
PROPERTIES
    StubsKept
    QueuedAttempted
CHECK_DEADLOCK FALSE
