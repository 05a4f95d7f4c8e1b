SPECIFICATION FairSpec
CONSTANTS
  j1 = j1
  j2 = j2
  a1 = a1
  a2 = a2
  Jobs <- TwoJobs
  Assets <- TwoAssets
  AssetOf <- Records
  NoAsset = NoAsset
  NoJob = NoJob
  Reprints <- Again
  Foreign <- Again
  Unwritable <- Locked
  MaxAttempts = 2
  Faults <- FaultKinds
  MaxFaults = 1
INVARIANTS
  TypeOK
  LinesAreTrue
PROPERTIES
  OutcomeStands
  NotGivenUpEarly
  ResultsDrain
  ToldUnlessUnheard
