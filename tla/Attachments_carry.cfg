CHECK_DEADLOCK FALSE
SPECIFICATION Spec
CONSTANTS
    Event = {1, 2, 3}
    Blob = {b1, b2}
    Cites <- MCCites
    Writer = {w1, w2}
    WriterOf <- MCWriterOf
    b1 = b1
    b2 = b2
    w1 = w1
    w2 = w2
    MaxRuns = 3
    MaxRequeues = 1
    MaxCrashes = 1
INVARIANTS
  NoBytesLost
  BytesFollowEvents
