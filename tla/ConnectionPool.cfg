SPECIFICATION Spec
CONSTANTS
    BlobCalls = {m1, m2, m3}
    Emitters = {e1}
    MaxConns = 3
    Blobs = {b1, b2}
    None = None
INVARIANTS
    TypeOK
    NoConnectionLeaks
    ChainUnbroken
PROPERTIES
    EveryCallReturns
CHECK_DEADLOCK FALSE
