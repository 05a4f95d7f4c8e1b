SPECIFICATION Spec
CONSTANTS
  Jobs <- OneJob
  Main = Main
  Watcher = Watcher
  NoThread = NoThread
  NoJob = NoJob
  Contents <- GoodCopies
  Faults <- OnlyCrash
  LateCopies = TRUE
  MaxArrivals <- Twice
  MaxFaults = 1
INVARIANTS
  PrintedAtMostOnce
