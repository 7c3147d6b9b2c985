\* What a kill costs a download with a single worker.
CONSTANTS
  Workers = {w1}
  Main = main
  SyncEvery = 1
  MaxVersion = 1
  Length <- MCLength3
SPECIFICATION Spec
INVARIANTS
  CrashLosesAtMostSyncEvery
