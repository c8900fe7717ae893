\* Two paths, two goroutines, two objects by FUSE or three by the provider, whose
\* user does three operations.
CONSTANTS
    f1 = f1  f2 = f2  p1 = p1  p2 = p2
    Path = {f1, f2}
    NoPath = NoPath
    Proc = {p1, p2}
    NoProc = NoProc
    Object = {1, 2}
    Initial = {}
    WinPath = {f1, f2}
    NoWinPath = NoPath
    Job = {p1, p2}
    NoJob = NoProc
    Size <- Sizes3
    MaxOp = 3
    MaxPut = 3
SPECIFICATION WritesSpec
SYMMETRY Perms
INVARIANTS ContentKept TrackerDrains Mirrors UploadsSerialized
PROPERTY SourceLast
CHECK_DEADLOCK FALSE
