\* Any number of runs of one command, with and without -rpc and -keep-indexes.
CONSTANTS
  s1 = s1
  s2 = s2
  Slots <- MCSlots
SPECIFICATION FairSpec
INVARIANTS
  TypeOK
  DiscoveryIsWhole
  IndexesAreWhole
  NoOverlap
  OkIsComplete
PROPERTIES
  DoneStays
  InterruptReturns
  ReRunsComplete
