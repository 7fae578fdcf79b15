SPECIFICATION Spec
CONSTANTS
    Edits = {e1, e2, e3}
    Keys = {k1}
    Publishes = {p1, p2}
    Bundles = {b1, b2}
    Fetches = {f1, f2}
    BundleSize = 1
    First = First
    None = None
CONSTRAINT Load
SYMMETRY Symmetry
INVARIANTS
    TypeOK
    RecordIsSumOfEdits
    ProofBindsOnce
    PrekeyGivenOnce
    PrekeysAccountedFor
CHECK_DEADLOCK FALSE
