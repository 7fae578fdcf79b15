SPECIFICATION Spec
CONSTANTS
    Blobs = {b1, b2}
    BlobCalls = {m1, m2}
    Emitters = {e1, e2}
    MaxConns = 2
    None = None
PROPERTIES
    EveryCallReturns
CHECK_DEADLOCK FALSE
