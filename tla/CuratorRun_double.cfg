SPECIFICATION Spec
CONSTANTS
    Event = {1, 3}
    KeyOf <- MCKeyOf
    NoKey = NoKey
    ShaOf <- MCOneContent
    Addressable = {1}
    Proc = {p1, p2}
    Other = {}
    NoProc = NoProc
    p1 = p1
    p2 = p2
    k1 = k1
    a = a
    b = b
    Cap = 1
    MaxAttempts = 2
    MaxRuns = 2
    MaxCrashes = 0
    MaxForeign = 0
INVARIANT PublishedAtMostOnce
