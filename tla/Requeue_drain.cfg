SPECIFICATION RSpec
CONSTANTS
    Event = {1, 2, 3}
    KeyOf <- MCKeyOf
    NoKey = NoKey
    ShaOf <- MCOneContent
    Addressable = {1, 2}
    Proc = {p1}
    Other = {Requeuer}
    NoProc = NoProc
    Requeuer = Requeuer
    p1 = p1
    p2 = p2
    k1 = k1
    a = a
    b = b
    Cap = 1
    MaxAttempts = 2
    MaxRuns = 3
    MaxCrashes = 1
    MaxForeign = 0
    MaxRequeues = 2
INVARIANTS
  BudgetKept
  ReleaseIsPromised
  PublishedOnce
