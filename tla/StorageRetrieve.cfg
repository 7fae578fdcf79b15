SPECIFICATION Spec
CONSTANTS
    Blobs = {b1}
    Calls = {c1, c2}
    Policies = {p1, p2}
    Physical = {p1, p2}
    None = None
INVARIANTS
    RetrieveFindsBlob
CHECK_DEADLOCK FALSE
