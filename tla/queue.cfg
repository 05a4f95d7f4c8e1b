SPECIFICATION FairSpec
CONSTANTS
  Jobs <- OneJob
  NoJob = NoJob
  MaxAttempts = 2
  Faults <- AllFaults
  MaxFaults = 2
INVARIANTS
  TypeOK
  NothingIsHalf
  SidecarIsThere
  GivenUpNotQueued
  ReplaysAreMisled
  SweepSparesWrites
PROPERTIES
  IsQueue
  WrittenIsPrinted
  DebrisGoes
CHECK_DEADLOCK FALSE
