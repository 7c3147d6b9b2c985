\* The block-reading phase: two workers, four slots, any number of runs.
CONSTANTS
  Workers = {w1, w2}
  Slots <- MCSlots
  Txs <- MCTxs
  TxOf <- MCTxOf
  Buildable <- MCBuildable
SPECIFICATION FairSpec
INVARIANTS
  TypeOK
  SlotsAreAtomic
  OneOwner
  Accounting
  OkIsComplete
PROPERTIES
  ImplementsLedger
  InterruptReturns
  ReRunsComplete
