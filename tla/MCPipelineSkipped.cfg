\* Transactions that do not build, and the counters.
CONSTANTS
  Workers = {w1}
  Slots <- MCSlots
  Txs <- MCTxs
  TxOf <- MCTxOf
  Buildable <- MCBuildable
SPECIFICATION Spec
INVARIANTS
  SkippedAreCounted
