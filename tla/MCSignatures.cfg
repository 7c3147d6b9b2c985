\* Discovery over RPC: up to five transactions in and around an epoch of two
\* slots, pages of at most two, two slots to look for the marker in.
CONSTANTS
  First = 2
  Last = 3
  Slots <- MCSlots
  SeekAhead = 2
  PageSize = 2
  MaxChain = 5
SPECIFICATION FairSpec
INVARIANTS
  Complete
  NewestFirst
  CostIsEpochs
PROPERTIES
  Returns
CHECK_DEADLOCK FALSE
