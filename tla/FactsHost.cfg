SPECIFICATION Spec
CONSTANTS
    a1 = a1
    a2 = a2
    i1 = i1
    i2 = i2
    c1 = c1
    c2 = c2
    s1 = s1
    s2 = s2
    k1 = k1
    k2 = k2
    Agents = {a1, a2}
    Ids = {i1, i2}
    NoId = NoId
    Claims = {c1, c2}
    Creds = {k1, k2}
    Sevs = {s1, s2}
    NoSeverance = NoSeverance
    NoBundle = NoBundle
    Bodies <- MCBodies
INVARIANT TypeOK
INVARIANT AcceptedStaysOnFile
INVARIANT AmplifiedOnlyByProvider
INVARIANT ServedWasSubmitted
PROPERTY LedgerSpec
PROPERTY LateDuplicatePutKeepsLedger
PROPERTY DisplacedOnlyByBody
