\* An entry that does not decode.
CONSTANTS
  NULL = NULL
  TipAccounts <- MCTipAccounts
  BasePrograms <- MCBasePrograms
  WsolMint = "wsol"
  BaseFeeLamports = 5
  Wallet = "W"
  MaxSkipBack = 2
  MaxRegion = 13
  Cars <- MCGaps
SPECIFICATION Spec
INVARIANTS
  CountIsKnown
