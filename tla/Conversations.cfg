SPECIFICATION Spec
CONSTANTS
    alice = alice
    bob = bob
    eve = eve
    c1 = c1
    c2 = c2
    w1 = w1
    w2 = w2
    None = None
    Subjects <- MCSubjects
    Actions <- MCActions
    Resources <- MCConversationIds
    Scopes <- MCScopes
    TypeOf <- MCTypeOf
    Workers <- MCWorkers
    Pairs <- MCPairs
    PageLimit = 1
    MaxMessages = 2
    DirectCalls <- MCDirectCalls
    MaxRequests = 4
    MaxFaults = 1
SYMMETRY Symmetry
INVARIANTS
    TypeOK
    ToldMeansUsable
    WalkLosesNothing
PROPERTIES
    AccessTracesToMember
    RevokedByRight
CHECK_DEADLOCK FALSE
