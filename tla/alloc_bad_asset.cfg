\* One asset with a job name the schema refuses, in a batch of two.
SPECIFICATION Spec
CONSTANTS
  a1 = a1  a2 = a2  p1 = p1  p2 = p2  blank = blank  s1 = s1  s2 = s2  tmp1 = tmp1  tmp2 = tmp2
  NoInstance = NoInstance
  Assets = {a1, a2}
  Prefixes = {p1, p2, blank}
  BadPrefixes = {blank}
  PrefixOf <- OwnPrefixes
  Counters <- BothSet
  FirstListing <- InOrder
  Oversized = {a1}
  Instances = {s1}
  LockFiles = {tmp1}
  LockOf <- OneLock
  Modes = {"live"}
  BatchSize = 2
  MaxAssetsPerPoll = 2
  PageSize = 1
  WidestNumber = 100
  Faults = {}
  EditsWhilePending = FALSE
  MaxQty = 3
  MaxRequests = 2
  MaxFaults = 1
  MaxMoves = 1
PROPERTIES BadAssetStopsNothing
CHECK_DEADLOCK FALSE
