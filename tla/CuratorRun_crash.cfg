SPECIFICATION Spec
CONSTANTS
    Event = {1, 2, 3}
    KeyOf <- MCKeyOf
    NoKey = NoKey
    ShaOf <- MCOneContent
    Addressable = {1, 2}
    Proc = {p1}
    Other = {}
    NoProc = NoProc
    p1 = p1
    p2 = p2
    k1 = k1
    a = a
    b = b
    Cap = 1
    MaxAttempts = 2
    MaxRuns = 4
    MaxCrashes = 1
    MaxForeign = 1
INVARIANTS
  TypeOK
  NoEventDestroyed
  PublishedFirst
  RunsSettle
  BudgetKept
PROPERTIES
  ImplementsDelivery
