\* Three goroutines open one object of two chunks; three list a container of one object; two
\* callbacks of a directory; a file of five bytes in pages of two.
CONSTANTS
    k1 = k1  p1 = p1  p2 = p2  p3 = p3  o1 = o1  o2 = o2
    Key <- OneKey
    Proc = {p1, p2, p3}
    Size <- Two
    MaxBytes = 2
    Uploaded = {}
    MaxAttempts = 3
    MaxRestarts = 1
    MaxDrift = 0
    NoKey = NoKey  NoProc = NoProc  Async = Async
    Object = {o1}
    Initial = {o1}
    Lister = {p1, p2, p3}
    Name = {1}
    Callback = {1, 2}
    Transfer = {1, 2}
    MaxEdit = 1
    NoCallback = NoCallback  NoTransfer = NoTransfer
    MaxSize = 5
    Page = 2
    ChunkMax = 2
    ResultsCap = 2
SPECIFICATION WaitsFairSpec
INVARIANTS NoOrphanBlob HydrationCovers
PROPERTIES FetchesKept WaitersWake ListReturns TransfersAnswered HydrationEnds
           HedgeKeepsPromise HedgeGoroutinesEnd
CHECK_DEADLOCK FALSE
