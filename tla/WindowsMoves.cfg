CONSTANTS
    f1 = f1  f2 = f2  j1 = j1  j2 = j2  j3 = j3
    WinPath = {f1, f2}
    Size <- Sizes3
    MaxOp = 3
    MaxPut = 3
    Job = {j1, j2}
    NoJob = NoJob  NoWinPath = NoWinPath
SPECIFICATION WinSpec

INVARIANT RapidMovesMirror
CHECK_DEADLOCK FALSE
