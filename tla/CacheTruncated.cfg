\* What GetOrFetch returns (cache.go:70) in a cache under pressure.
CONSTANTS
    k1 = k1  k2 = k2  p1 = p1  p2 = p2  p3 = p3
    Key <- TwoKeys
    Proc = {p1, p2}
    Size <- OneTwo
    MaxBytes = 2
    Uploaded = {k2}
    MaxAttempts = 1
    MaxRestarts = 0
    MaxDrift = 0
    NoKey = NoKey  NoProc = NoProc  Async = Async
SPECIFICATION Spec
CHECK_DEADLOCK FALSE
INVARIANT OpensWhole
