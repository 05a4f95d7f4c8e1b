\* The shipped settings and what one setting changes, single labels to two batches.
SPECIFICATION Spec
CONSTANTS
  Settings <- AllSettings
  Requests <- AllRequests
  BatchSize = 250
  MaxPixels = 178956970
INVARIANTS
  TypeOK
  SizeAsValidated
  TakenIsPrinted
  InkOnItsPage
  EndsAreIdentical
  EveryCableOnce
  StatusKeepsRange
CHECK_DEADLOCK FALSE
