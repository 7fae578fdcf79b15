SPECIFICATION MCSpec
CONSTANTS
    a = a
    b = b
    t1 = t1
    t2 = t2
    None = None
    Participants <- MCParticipants
    Tasks <- MCTasks
    MaxTasks = 4
    MaxMessages = 3
    MaxHandshakes = 2
    MaxBundles = 2
    PageLimit = 1
    MaxPages = 3
    MaxFaults = 1
SYMMETRY Symmetry
INVARIANTS
    TypeOK
    NoKeyReuse
    PrekeysKept
    ReadableUnlessDisturbed
CHECK_DEADLOCK FALSE
