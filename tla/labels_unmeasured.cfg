\* SHADOW_MODE lets the tools print with a geometry that was never measured.
SPECIFICATION Spec
CONSTANTS
  Settings <- AllSettings
  Requests <- AllRequests
  BatchSize = 250
  MaxPixels = 178956970
INVARIANT UnmeasuredReachesNoMedia
CHECK_DEADLOCK FALSE
