\* What the next run fetches of a finished download.
CONSTANTS
  Workers = {w1}
  Main = main
  SyncEvery = 1
  MaxVersion = 1
  Length <- MCLength3
SPECIFICATION Spec
INVARIANTS
  FinishedIsNotRefetched
