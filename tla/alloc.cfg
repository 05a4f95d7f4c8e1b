\* Safety of the numbering: two families, two service processes, one lock file.
SPECIFICATION Spec
CONSTANTS
  a1 = a1  a2 = a2  p1 = p1  p2 = p2  blank = blank  s1 = s1  s2 = s2  tmp1 = tmp1  tmp2 = tmp2
  NoInstance = NoInstance
  Assets = {a1, a2}
  Prefixes = {p1, p2, blank}
  BadPrefixes = {blank}
  PrefixOf <- OwnPrefixes
  Counters <- SecondUnset
  FirstListing <- InOrder
  Oversized = {}
  Instances = {s1, s2}
  LockFiles = {tmp1}
  LockOf <- OneLock
  Modes = {"live", "shadow", "dry"}
  BatchSize = 2
  MaxAssetsPerPoll = 2
  PageSize = 1
  WidestNumber = 12
  Faults = {"list", "refused", "ignored", "lost", "readback", "layout", "queue", "report", "crash"}
  EditsWhilePending = FALSE
  MaxQty = 3
  MaxRequests = 2
  MaxFaults = 2
  MaxMoves = 2
INVARIANTS TypeOK NoCollision ConsumedBeforeEnqueued RequestsConserved
PROPERTIES RehearsalsConsumeNothing GapsHaveACause ImplementsCableNumbers
CHECK_DEADLOCK FALSE
SYMMETRY Interchangeable
