\* Liveness of the download and its bar: two workers, one object of three
\* chunks, the last half as long; a request may stay unanswered for ever.
CONSTANTS
  Workers = {w1, w2}
  Main = main
  SyncEvery = 2
  MaxVersion = 1
  Length <- MCLength3
  ChunkSize = 2
  TailSize = 1
SPECIFICATION FairSpecBar
INVARIANTS
  NeverFarAhead
  EndsAtTotal
PROPERTIES
  CancelReturns
  AnsweredReturns
