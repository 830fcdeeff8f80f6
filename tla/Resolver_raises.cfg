SPECIFICATION Spec
CONSTANTS
    r = r
    g = g
    h = h
    p = p
    q = q
    u = u
    f = f
    m = m
    x = x
    y = y
    v1 = v1
    v2 = v2
    st = st
    w = w
    primary = primary
    neutral = neutral
    registry = registry
    e = e
    int1 = int1
    int2 = int2
    n1 = n1
    n2 = n2
    Dids = {r, g, h, p, q, u, f, m}
    WellFormed = {r, g, h, p, q, u, f}
    AgentIds = {x, y}
    CredIds = {v1, v2, st, w}
    Urls = {primary, neutral, registry}
    Endpoints = {e}
    InteractionIds = {int1, int2}
    ContestationIds = {n1, n2}
    MaxTime = 2
    None = None
    Unparsable = Unparsable
    NoZone = NoZone
    Untyped = Untyped
    ResolverDid = r
    TrustedIssuers = {p, q, m}
    RequiredIssuers = {q}
    Revoked = {w}
    Addrs <- MCAddrs
    RegistryAnswers <- MCRegistryAnswers
    Bundles <- MCBundles
    RevocationLists <- MCRevocationLists
    Unreachable = Unreachable
    Garbled = Garbled
    MaxWalks = 2
CHECK_DEADLOCK FALSE
INVARIANT CredentialFailuresAreRefusals
