SPECIFICATION Spec
CONSTANTS
    b1 = b1
    b2 = b2
    minted = minted
    shipped = shipped
    v1 = v1
    v2 = v2
    l1 = l1
    l2 = l2
    Bundle = {b1, b2}
    Build = {1, 2}
    Content <- TheContent
    Base = {1, 2}
    Term = {minted, shipped}
    Series = {s1}
    Foreign = {shipped}
    Label = {l1, l2}
    External = TRUE
    Start <- Starts
    Nothing = nothing
    a1 = a1
    none = none
    root = root
    bad = bad
    own = own
    narrow = narrow
    person = person
    moved = moved
    guest = guest
    expired = expired
    alien = alien
    c1 = c1
    c2 = c2
    ui = ui
    i1 = i1
    k1 = k1
    k2 = k2
    k3 = k3
    home = home
    partner = partner
    elsewhere = elsewhere
    Task = {t1, t2}
    Address = {a1}
    Token = {own, narrow}
    Jwt = {person, moved, guest, expired, alien}
    Malformed = {bad}
    Root = root
    NoCredential = none
    Kid = {k1, k2, k3}
    Pinned = {k3}
    Issuer = {home, partner}
    Home = home
    UiClient = ui
    Claims <- TheClaims
    Binding <- TheBinding
    TokenRights <- TheRights
    Class = {"read", "write", "mcp", "federated"}
    Limit <- TheLimits
    Off = off
    AuthFail <- TheAuthFail
    Ttl = 2
    Patience = 1
    Setup <- Setups
    PublicRead = FALSE
    ReadOnly = FALSE
SYMMETRY Alike
INVARIANTS
    FailuresBounded
    CurrentKeyAccepted
    CredentialsExpire
    BurstRespected
    ToolsMirrorHandlers
    BundlesCurrent
    TermsSurvive
    TermsClassed
    AppliedOnce
CHECK_DEADLOCK FALSE
