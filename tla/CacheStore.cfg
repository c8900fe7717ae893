\* The comment of StoreFromPath, cache.go:220, when a reader was first.
CONSTANTS
    k1 = k1  k2 = k2  p1 = p1  p2 = p2  p3 = p3
    Key <- OneKey
    Proc = {p1, p2}
    Size <- Two
    MaxBytes = 2
    Uploaded = {k1}
    MaxAttempts = 1
    MaxRestarts = 0
    MaxDrift = 0
    NoKey = NoKey  NoProc = NoProc  Async = Async
SPECIFICATION Spec
PROPERTY StoreKeepsBlob
