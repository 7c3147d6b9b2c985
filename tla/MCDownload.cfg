\* Safety of the download: two workers, a flush every second chunk, an object
\* of four chunks that is published again with two.
CONSTANTS
  Workers = {w1, w2}
  Main = main
  SyncEvery = 2
  MaxVersion = 2
  Length <- MCLength
SPECIFICATION Spec
SYMMETRY Symmetry
INVARIANTS
  TypeOK
  SidecarHonest
  OkIsComplete
  NoRefetch
  LossBound
PROPERTIES
  InterruptKeepsProgress
  ImplementsTransfer
