SPECIFICATION FairSpec
CONSTANTS
  Jobs <- TwoJobs
  Main = Main
  Watcher = Watcher
  NoThread = NoThread
  NoJob = NoJob
  Contents <- GoodAndDamaged
  Faults <- AllFaults
  LateCopies = FALSE
  MaxArrivals <- Replayed
  MaxFaults = 2
INVARIANTS
  TypeOK
  PrintedAtMostOnce
  PrintedNotRejected
  ClaimsAreHeld
  OneFailureCrowdsOneJob
  SilenceIsPaidFor
PROPERTIES
  StartsClean
  InboxDrains
