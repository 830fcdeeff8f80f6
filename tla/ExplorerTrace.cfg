SPECIFICATION BesideSpec
CONSTANTS
    Dids = {r, g, p, q, u, f}
    WellFormed = {r, g, p, q, u, f}
    AgentIds = {x}
    CredIds = {v1, v2, w}
    Urls = {primary, neutral, evil}
    Endpoints = {e}
    InteractionIds = {int1}
    ContestationIds = {n1}
    MaxTime = 2
    None = None
    Unparsable = Unparsable
    NoZone = NoZone
    Untyped = Untyped
    ResolverDid = r
    TrustedIssuers = {p, q}
    RequiredIssuers = {p}
    Revoked = {}
    Addrs <- MCAddrs
    RegistryAnswers = {}
    Bundles <- MCBundles
    RevocationLists <- MCRevocationLists
    Unreachable = Unreachable
    Garbled = Garbled
    MaxWalks = 1
    Provider = p
    Audits = q
    Agent = g
    Rogue = u
    Party = f
    Handle = x
    PrimaryUrl = primary
    NeutralUrl = neutral
    EvilUrl = evil
    Invoke = e
    ProviderId = v1
    AuditorId = v2
    RogueId = w
    Interaction = int1
    Complaint = n1
    Expires = 1
INVARIANT PageAgreesWithClient
INVARIANT PageAsAnnounced
CHECK_DEADLOCK FALSE
