------------------------------ MODULE Landing ------------------------------
(***************************************************************************)
(* BuildLanding: the row of one archived transaction.                      *)
(*                                                                         *)
(* A transaction tx has: sig; frames (data frames), decodes, position (the *)
(* in-block index, or NULL); keys (static accounts), programs (an account  *)
(* index per top-level instruction), nsig; and meta, which is NULL when it *)
(* is absent, split or in the old encoding.  meta has: err, fee; loaded    *)
(* (the lookup-table addresses, writable first); pre and post, the         *)
(* lamports by account index, either of which may be short; tokensPre and  *)
(* tokensPost, functions from the account indexes with a token balance to  *)
(* mint, owner and amount; inner (an account index per inner instruction). *)
(***************************************************************************)
EXTENDS Integers, Sequences, FiniteSetsExt

CONSTANTS NULL,
          TipAccounts,           \* the lane of each tip account
          BasePrograms,          \* System and ComputeBudget
          WsolMint,
          BaseFeeLamports        \* per signature

ASSUME LandingNull == NULL \notin Int

-----------------------------------------------------------------------------

\* Variant: the lookup tables are left out.
resolveKeysStatic(tx) == tx.keys

\* Static keys, then those the lookup tables gave: the order of the balances.
resolveKeys(tx) == tx.keys \o tx.meta.loaded

\* Account indexes at which address a has a balance before and after.
BalanceAt(tx, a) ==
  {i \in DOMAIN resolveKeys(tx) : /\ resolveKeys(tx)[i] = a
                                  /\ i \in DOMAIN tx.meta.pre \cap DOMAIN tx.meta.post}

\* walletDelta: the lamports the wallet's own account gained.
walletDelta(tx, wallet) ==
  LET at == BalanceAt(tx, wallet)
  IN  IF at = {} THEN 0 ELSE LET i == Min(at) IN tx.meta.post[i] - tx.meta.pre[i]

\* The wallet's WSOL in a list of token balances, by account index.
WsolOf(tokens, wallet) ==
  [i \in {j \in DOMAIN tokens : tokens[j].mint = WsolMint /\ tokens[j].owner = wallet}
     |-> tokens[i].amount]

\* Variant: an account closed by the transaction is forgotten.
wsolProfitOpenOnly(tx, wallet) ==
  LET pre == WsolOf(tx.meta.tokensPre, wallet)
      post == WsolOf(tx.meta.tokensPost, wallet)
  IN  SumFunction([i \in DOMAIN post |-> post[i] - (IF i \in DOMAIN pre THEN pre[i] ELSE 0)])

\* wsolProfit: per account in post, what it gained; an account that is in pre
\* only was closed, and is subtracted.
wsolProfit(tx, wallet) ==
  LET pre == WsolOf(tx.meta.tokensPre, wallet)
      post == WsolOf(tx.meta.tokensPost, wallet)
  IN  SumFunction([i \in DOMAIN post |-> post[i] - (IF i \in DOMAIN pre THEN pre[i] ELSE 0)])
        - SumFunctionOnSet(pre, DOMAIN pre \ DOMAIN post)

\* The tip accounts that gained lamports, by account index.
Tipped(tx) ==
  {i \in DOMAIN resolveKeys(tx) : /\ resolveKeys(tx)[i] \in DOMAIN TipAccounts
                                  /\ i \in DOMAIN tx.meta.pre \cap DOMAIN tx.meta.post
                                  /\ tx.meta.post[i] > tx.meta.pre[i]}

\* tipPaid: how much they gained, and the lanes.
tipPaid(tx) == SumFunction([i \in Tipped(tx) |-> tx.meta.post[i] - tx.meta.pre[i]])
tipLanes(tx) == {TipAccounts[resolveKeys(tx)[i]] : i \in Tipped(tx)}

\* Variant: only the top-level instructions.
programSetTop(tx) ==
  {resolveKeys(tx)[i] : i \in tx.programs \cap DOMAIN resolveKeys(tx)}

\* programSet: the programs run, at top level or inside.
programSet(tx) ==
  {resolveKeys(tx)[i] : i \in (tx.programs \cup tx.meta.inner) \cap DOMAIN resolveKeys(tx)}

\* IsBareTipLeg: it moved a tip and ran no other program.
IsBareTipLeg(programs, tip) == tip > 0 /\ programs \subseteq BasePrograms

subFloor(a, b) == IF a < b THEN 0 ELSE a - b

\* Variant: a missing index is read as 0.
applyPositionMissing(tx, txCount) ==
  LET idx == IF tx.position = NULL THEN 0 ELSE tx.position
  IN  [BlockIndex |-> idx, BlockTxCount |-> txCount, PositionPct |-> (100 * idx) \div txCount]

\* applyPosition: both the index and the count must be known.  BlockIndex is a
\* plain integer and starts as 0.
applyPosition(tx, txCount) ==
  IF tx.position = NULL
  THEN [BlockIndex |-> 0, BlockTxCount |-> NULL, PositionPct |-> NULL]
  ELSE IF txCount = 0
  THEN [BlockIndex |-> tx.position, BlockTxCount |-> NULL, PositionPct |-> NULL]
  ELSE [BlockIndex |-> tx.position, BlockTxCount |-> txCount,
        PositionPct |-> (100 * tx.position) \div txCount]

\* BuildLanding returns a row, not an error: whole and decodable data, a
\* signature, metadata, and the wallet among the accounts.
Builds(tx, wallet) ==
  /\ tx.frames <= 1 /\ tx.decodes
  /\ tx.sig # NULL
  /\ tx.meta # NULL
  /\ \E i \in DOMAIN resolveKeys(tx) : resolveKeys(tx)[i] = wallet

BuildLanding(tx, wallet, leader, slot, txCount) ==
  [Sig |-> tx.sig, Slot |-> slot, Leader |-> leader,
   Landed |-> ~tx.meta.err,
   PriorityFeeLamports |-> subFloor(tx.meta.fee, BaseFeeLamports * tx.nsig),
   SolDeltaLamports |-> walletDelta(tx, wallet),
   WsolDeltaLamports |-> wsolProfit(tx, wallet),
   TipLamports |-> tipPaid(tx), TipLane |-> tipLanes(tx),
   IsTipLeg |-> IsBareTipLeg(programSet(tx), tipPaid(tx)),
   Programs |-> programSet(tx),
   Position |-> applyPosition(tx, txCount)]

=============================================================================
