SPECIFICATION FairSpec
CONSTANTS
    Event = {1, 3}
    KeyOf <- MCKeyOf
    NoKey = NoKey
    ShaOf <- MCTwoContents
    Addressable = {1, 3}
    Proc = {p1}
    Other = {}
    NoProc = NoProc
    p1 = p1
    p2 = p2
    k1 = k1
    a = a
    b = b
    Cap = 1
    MaxAttempts = 2
    MaxRuns = 6
    MaxCrashes = 1
    MaxForeign = 1
PROPERTIES
    PublishedIsFinalized
    CapturedIsSettled
