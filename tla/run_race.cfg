CONSTANTS
    Handlers = {h1, h2}
    Clients = {c1, c2}
    Ids = {s1, s2, s3}
    NoToken = NoToken
SYMMETRY EntrySymmetry
SPECIFICATION Spec
INVARIANTS SessionsNeedLaunch TokensResolve
