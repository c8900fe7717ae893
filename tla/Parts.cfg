\* The container changes by three goroutines; two callbacks of a directory that
\* the cache fills, and a third that joins; three changes of three paths.  Two objects
\* of 1 and 2 chunks in a cache of 2, one of them uploaded, one retry, one restart.
CONSTANTS
    k1 = k1  k2 = k2  o1 = o1  o2 = o2  p1 = p1  p2 = p2  p3 = p3  w1 = w1  w2 = w2
    Object = {o1, o2}
    Initial = {o1}
    Proc = {p1, p2, p3}
    NoProc = NoProc
    Name = {1}
    Callback = {1, 2, 3}
    Transfer = {1, 2}
    MaxEdit = 1
    NoCallback = NoCallback  NoTransfer = NoTransfer
    DirObject = {1, 2, 3}
    PathOf <- Paths
    Hidden = {"t"}
    Worker = {w1, w2}
    MaxDirEdit = 3
    Toggler = {1, 2}
    MaxMount = 2
    Thread = {1, 2}
    MaxClient = 3
    MaxAttempt = 3
    LastObject = 2
    Sees <- SeesSome
    Searcher = {1, 2}
    MaxChange = 1
    Key = {k1, k2}
    Opener = {p1, p2}
    MaxBytes = 2
    Uploaded = {k2}
    MaxAttempts = 2
    MaxRestarts = 1
    NoKey = NoKey  Async = Async
SPECIFICATION PartsSpec
SYMMETRY PartsPerms
INVARIANTS SingleFlight FreshWhenQuiet OneFill FrontEndsAgree 
           DirsCurrent MountOwned FailuresHaveCause SearchFinds SingleFetcher
           OnlyWholeBlobs ExactAccounting
 
CHECK_DEADLOCK FALSE
