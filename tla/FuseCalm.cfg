CONSTANTS
    Object = {1, 2, 3}
    Initial = {}
    p1 = p1
    p2 = p2
    f1 = f1
    f2 = f2
    f3 = f3
    Proc = {p1, p2}
    NoProc = NoProc
    Path = {f1, f2}
    NoPath = NoPath
SPECIFICATION CalmSpec
SYMMETRY Perms
INVARIANTS ListingCurrent UnlinkComplete
PROPERTY UploadReplaces
CHECK_DEADLOCK FALSE
