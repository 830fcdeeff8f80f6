SPECIFICATION SharedSpec
CONSTANTS
    p1 = p1
    p2 = p2
    r1 = r1
    r2 = r2
    s1 = s1
    Processes = {p1, p2}
    Registrars = {r1, r2}
    Readers = {s1}
    Absent = Absent
    Empty = Empty
    NoKey = NoKey
    MaxKeys = 2
    MaxRuns = 3
SYMMETRY Interchangeable
INVARIANT IdentityIsStable
INVARIANT FailsOnlyForCause
INVARIANT SharedTypeOK
INVARIANT LoadedPairMatches
INVARIANT LoadFailsOnlyForCause
INVARIANT PolicySurvivesRestarts
