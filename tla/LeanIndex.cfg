SPECIFICATION Spec
CONSTANTS
    n1 = n1
    n2 = n2
    i1 = i1
    i2 = i2
    j1 = j1
    j2 = j2
    k1 = k1
    k2 = k2
    v1 = v1
    p = p
    u = u
    m = m
    t1 = t1
    t2 = t2
    t3 = t3
    Names = {n1, n2}
    AgentIds = {i1, i2}
    NewIds = {j1, j2}
    Pointers = {k1, k2}
    NoId = NoId
    NoAddr = NoAddr
    CredIds = {v1}
    Dids = {p, u, m}
    WellFormed = {p, u}
    Nobody = Nobody
    Unreadable = Unreadable
    NoRevocation = NoRevocation
    Requests <- MCRequests
    Threads = {t1, t2}
    MaxRequests = 5
SYMMETRY Pool
INVARIANT TypeOK
INVARIANT ListingIsWhole
INVARIANT TablesAgree
INVARIANT RevocationsAccountable
PROPERTY ImplementsService
