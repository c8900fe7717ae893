\* Two objects of 1 and 2 chunks in a cache of 2: every completed fetch of the
\* larger one evicts the other, and an upload stores k2 while it may be fetched.
\* One retry, one restart.
CONSTANTS
    k1 = k1  k2 = k2  p1 = p1  p2 = p2  p3 = p3
    Key <- TwoKeys
    Proc = {p1, p2}
    Size <- OneTwo
    MaxBytes = 2
    Uploaded = {k2}
    MaxAttempts = 2
    MaxRestarts = 1
    MaxDrift = 0
    NoKey = NoKey  NoProc = NoProc  Async = Async
SPECIFICATION Spec
SYMMETRY Perms2
\* Callers may stop calling, and do once the bound MaxDrift is passed.
CHECK_DEADLOCK FALSE
INVARIANTS LruMatchesMap NeverUndercounts CapEnforced
