\* A reprint whose strip is larger than MAX_IMAGE_PIXELS and not twice as large.
SPECIFICATION Spec
CONSTANTS
  Settings <- Shipped
  Requests <- LongReprint
  BatchSize = 250
  MaxPixels = 178956970
INVARIANT PastLimitIsRefused
CHECK_DEADLOCK FALSE
