SPECIFICATION Spec
CONSTANTS
  Jobs <- OneJob
  NoJob = NoJob
  MaxAttempts = 2
  Faults <- OnlyIO
  MaxFaults = 2
INVARIANTS
  GivenUpLeavesNothing
CHECK_DEADLOCK FALSE
