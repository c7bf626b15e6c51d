SPECIFICATION FairSpec
CONSTANTS
    Request = {r1, r2}
    i1 = i1
    i2 = i2
    k1 = k1
    nk = nk
    d1 = d1
    d2 = d2
    local = local
    foreign = foreign
    cached = cached
    running = running
    success = success
    Instance = {i1, i2}
    RunKey = {k1}
    EmptyKey = EmptyKey
    ItemKey = {nk}
    Desc = {d1, d2}
    LocalIri = {local}
    ForeignIri = {foreign, cached}
    PeerKnown = {cached}
    Status = {running, success}
    DefaultStatus = success
    None = None
    Payload <- AllBodies
    MaxInFlight = 2
    MaxAborts = 1
PROPERTIES
    AckedLinksLand
CHECK_DEADLOCK FALSE
