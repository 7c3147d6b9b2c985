\* Reading a slot and building its rows: every slot of a file with gaps, and
\* blocks of one transaction of every shape.
CONSTANTS
  NULL = NULL
  TipAccounts <- MCTipAccounts
  BasePrograms <- MCBasePrograms
  WsolMint = "wsol"
  BaseFeeLamports = 5
  Wallet = "W"
  MaxSkipBack = 2
  MaxRegion = 13
  Cars <- MCCars
SPECIFICATION Spec
INVARIANTS
  TypeOK
  BlockIsExact
  LeaderIsOwn
  BlockIsMet
  FailsForAReason
  PositionIsTrue
  NetIsGain
  TipIsWhatWasPaid
  TipLegIsBare
