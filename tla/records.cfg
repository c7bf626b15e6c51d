SPECIFICATION RecordsFairSpec
CONSTANTS
    r1 = r1
    r2 = r2
    t1 = t1
    t2 = t2
    e1 = e1
    e2 = e2
    Curator = {1, 2}
    Repo = {r1, r2}
    Version = {v1}
    Text = {t1, t2}
    Cleared = cleared
    SoftwareBody <- SoftwareBodies
    Setup <- EditsOrCalls
    MaxReleases = 2
    MaxEdits = 3
    Caller = {1, 2}
    Inst = {1, 2}
    Endpoint = {e1, e2}
    Cred = {c1, c2}
    Shared = {c2}
    Oidc = {c1, c2}
    InstKey = {k1}
    InstanceBody <- InstanceBodies
    AutoRegister = TRUE
    HealthBatch = 2
    MaxCalls = 3
INVARIANTS
    EditsStand
    NumbersAreOfTheRepo
    OneRecordPerDeployment
    StatementsStand
PROPERTIES
    PollerCatchesUp
    HealthCatchesUp
CHECK_DEADLOCK FALSE
