SPECIFICATION FairSpec
CONSTANTS
  j1 = j1
  j2 = j2
  a1 = a1
  a2 = a2
  Jobs <- TwoJobs
  Assets <- TwoAssets
  AssetOf <- Records
  NoAsset = NoAsset
  NoJob = NoJob
  Reprints <- Again
  Foreign <- NoneOf
  Unwritable <- NoneOf
  MaxAttempts = 2
  Faults <- Stall
  MaxFaults = 1
PROPERTIES
  EveryAssetIsTold
