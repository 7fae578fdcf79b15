SPECIFICATION Spec
CONSTANTS
    ann = ann
    ben = ben
    f1 = f1
    w1 = w1
    w2 = w2
    None = None
    Subjects <- MCSubjects
    Actions <- MCActions
    Resources <- MCResources
    Scopes <- MCScopes
    TypeOf <- MCTypeOf
    Files <- MCFiles
    Blobs <- MCBlobs
    Workers <- MCWorkers
    Requests <- MCRequests
    MaxRequests = 4
    MaxFaults = 1
INVARIANTS
    TypeOK
    BlobAccessFollowsFileAccess
    BlobOwnerIsFileOwner
    DeletedMeansErased
PROPERTIES
    EveryCallReturns
CHECK_DEADLOCK FALSE
