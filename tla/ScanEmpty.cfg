\* The comment on the error of a flight, client.go:192.
CONSTANTS
    o1 = o1  o2 = o2   p1 = p1  p2 = p2  p3 = p3
    NoProc = NoProc
    Object = {o1, o2}
    Initial = {o1}
    Proc = {p1, p2, p3}
SPECIFICATION QuietSpec
INVARIANT NoEntryMeansError
