SPECIFICATION Spec
CONSTANTS
    Identities = {i1, i2}
    Devices = {d1, d2}
    Nonces = {n1, n2}
    Issues = {s1, s2}
    Ops = {o1, o2}
    None = None
CONSTRAINT Paired
SYMMETRY Symmetry
INVARIANTS
    TypeOK
    DeviceRevocationComplete
    RemovedDeviceSignedOut
    NonceUsedOnce
    ReportedMeansAudited
PROPERTIES
    OnlyOwnerRevokes
    LedgerSpec
CHECK_DEADLOCK FALSE
