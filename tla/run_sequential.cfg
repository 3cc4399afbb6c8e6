CONSTANTS
    Handlers = {h1}
    Clients = {c1, c2}
    Ids = {s1, s2, s3}
    NoToken = NoToken
SYMMETRY EntrySymmetry
SPECIFICATION Spec
INVARIANT TypeOK
PROPERTIES OpenSessionKept LifecycleImplemented
