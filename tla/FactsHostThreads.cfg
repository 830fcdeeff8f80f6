SPECIFICATION Spec
CONSTANTS
    a1 = a1
    a2 = a2
    i1 = i1
    i2 = i2
    c1 = c1
    c2 = c2
    s1 = s1
    s2 = s2
    k1 = k1
    k2 = k2
    t1 = t1
    t2 = t2
    t3 = t3
    Agents = {a1, a2}
    Ids = {i1, i2}
    NoId = NoId
    Claims = {c1, c2}
    Creds = {k1, k2}
    Sevs = {s1, s2}
    NoSeverance = NoSeverance
    NoBundle = NoBundle
    Requests <- RacingRequests
    Threads = {t1, t2, t3}
    MaxRequests = 4
SYMMETRY Pool
INVARIANT TypeOK
INVARIANT ServedWasSubmitted
INVARIANT LossNeedsPutBeside
INVARIANT DoubledNeedsPostsBeside
INVARIANT SeveranceLossNeedsWriterBeside
PROPERTY SeveranceOverwrittenOnlyBeside
