SPECIFICATION SystemSpec
CONSTANTS
    None = None
    Unparsable = Unparsable
    NoZone = NoZone
    Untyped = Untyped
    Unreachable = Unreachable
    Garbled = Garbled
    Nothing = Nothing
    Terminals = {"t1", "t2", "t3"}
    Plans <- MCPlans
    Names <- MCNames
    Dids <- MCDids
    WellFormed <- MCDids
    AgentIds <- Agents
    CredIds <- MCCredIds
    Urls <- MCUrls
    Endpoints = {"invoke"}
    InteractionIds = {"int1"}
    ContestationIds = {"n1"}
    MaxTime = 0
    MaxWalks = 20
    ResolverDid = "resolver"
    TrustedIssuers = {"provider", "auditor"}
    RequiredIssuers = {"provider"}
    Revoked = {}
    Addrs <- MCAddrs
    RegistryAnswers <- MCRegistryAnswers
    Bundles <- MCBundles
    RevocationLists <- MCRevocationLists
    ProviderIssuer = "provider"
    AuditorIssuer = "auditor"
    RogueIssuer = "rogueissuer"
    AffectedParty = "party"
    Translator = "tr"
    Summarizer = "su"
    InvokeUrl = "invoke"
    ComplaintId = "n1"
    InteractionId = "int1"
INVARIANT SystemTypeOK
INVARIANT ExitHolds
INVARIANT RevocationHolds
INVARIANT ComplaintSurfaces
INVARIANT RegisteredIsHosted
INVARIANT SuccessorReady
INVARIANT PrivateWalkUnseen
INVARIANT ScriptsFailOnlyForCause
