SPECIFICATION Spec
CONSTANTS
    p = p
    q = q
    i1 = i1
    i2 = i2
    i3 = i3
    Base = {p, q}
    Iri = {i1}
    BaseOf <- LoneBaseOf
    Also <- LoneAlso
    Silent = {}
    Resolvable = {i1}
    KnownPeers = {p}
    Cited = {}
    Cached = {}
    Admin = {m1}
    Announcer = {n1}
    Reader = {}
    Worker = w
    Batch = 1
    MaxIds = 2
    MaxCount = 3
    MaxResolves = 1
    MaxFaults = 1
    MaxDisturbances = 2
    Unknown = unknown
    None = none
INVARIANTS
    RecordCountNotInflated
PROPERTIES
    PeerIdStable
CHECK_DEADLOCK FALSE
