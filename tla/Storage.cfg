SPECIFICATION Spec
CONSTANTS
    Blobs = {b1}
    Calls = {c1, c2, c3}
    Policies = {p1, p2, p3}
    Physical = {p1, p2}
    None = None
SYMMETRY Symmetry
INVARIANTS
    TypeOK
    BytesSurvive
    SoleCopyWhereRecorded
    DeletedIsGone
    DeletedOnce
    RollbackLeavesNothing
PROPERTIES
    DeletionIsFinal
CHECK_DEADLOCK FALSE
