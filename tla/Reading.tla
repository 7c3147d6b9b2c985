------------------------------ MODULE Reading ------------------------------
(***************************************************************************)
(* A worker of process on one slot: ReadBlock (module Archive), and collect *)
(* over the block it returns (module Landing).                             *)
(*                                                                         *)
(* A transaction node carries what BuildLanding reads of it and, for the   *)
(* properties, what really happened: the transfers it executed, CPI and    *)
(* all, and its true place in the block.                                   *)
(***************************************************************************)
EXTENDS Archive, Landing

CONSTANT Wallet

-----------------------------------------------------------------------------
(* What the runtime of the chain makes sure of, and records.  None of it is *)
(* code of this repository: the properties rest on it.                     *)

\* The transactions with metadata in the files.
Recorded ==
  {tx \in UNION {{c[t].tx : t \in {i \in DOMAIN c : c[i].kind = "tx"}} : c \in Cars} :
     tx.meta # NULL}

\* The accounts of a transaction, in the order of its balances.
Accounts(tx) == tx.keys \o tx.meta.loaded

\* Where the balances of account a are given.
Balances(tx, a) ==
  {i \in DOMAIN tx.meta.pre \cap DOMAIN tx.meta.post :
     i \in DOMAIN Accounts(tx) /\ Accounts(tx)[i] = a}

\* No account is listed twice; a balance is a number of lamports or tokens.
ASSUME ReadingAccounts ==
  \A tx \in Recorded :
    /\ tx.keys \in Seq(STRING) /\ tx.meta.loaded \in Seq(STRING)
    /\ \A i, j \in DOMAIN Accounts(tx) : Accounts(tx)[i] = Accounts(tx)[j] => i = j
    /\ tx.meta.pre \in Seq(Nat) /\ tx.meta.post \in Seq(Nat)
    /\ \A tokens \in {tx.meta.tokensPre, tx.meta.tokensPost} :
         IsFiniteSet(DOMAIN tokens) /\ \A i \in DOMAIN tokens : tokens[i].amount \in Nat

\* Every program that ran is named by an instruction, at top level or inside.
ASSUME ReadingPrograms ==
  \A tx \in Recorded :
    /\ tx.programs \cup tx.meta.inner \subseteq DOMAIN Accounts(tx)
    /\ tx.ran = {Accounts(tx)[i] : i \in tx.programs \cup tx.meta.inner}

\* A tip account that is paid has its balances recorded, and gains what it is
\* paid: nothing is taken from one in a transaction of a searcher.
ASSUME ReadingTips ==
  \A tx \in Recorded :
    /\ IsFiniteSet(tx.transfers) /\ \A x \in tx.transfers : x.lamports \in Nat \ {0}
    /\ \A a \in DOMAIN TipAccounts :
         LET paid == {x \in tx.transfers : x.to = a}
         IN  /\ paid # {} => Balances(tx, a) # {}
             /\ \A i \in Balances(tx, a) :
                  tx.meta.post[i] = tx.meta.pre[i] + SumFunction([x \in paid |-> x.lamports])

\* An index in the block, when there is one, is the transaction's place.
ASSUME ReadingPositions ==
  \A c \in Cars : \A i \in DOMAIN c : c[i].kind = "block" =>
    LET executed == Executed(c, i)
    IN  \A n \in DOMAIN executed : c[executed[n]].tx.position \in {NULL, n - 1}

-----------------------------------------------------------------------------

\* collect: the transactions of the block BuildLanding returns a row for.
collected == Only(out.Txs, {t \in ToSet(out.Txs) : Builds(car[t].tx, Wallet)})

landings ==
  [i \in 1..Len(collected) |->
     BuildLanding(car[collected[i]].tx, Wallet, out.Leader, slot, out.TxCount)]

-----------------------------------------------------------------------------
(* Properties.                                                             *)

\* Every row of the slot, with the transaction it was built from.
Rows(P(_, _)) ==
  pc = "parsed" => \A i \in 1..Len(collected) : P(landings[i], collected[i])

\* The percentage is NULL if and only if the transaction has no index ("a
\* stored 0 is indistinguishable from a genuine first-in-block transaction and
\* would quietly bias every AVG(position_pct)", README).  If it is not, the
\* index is the transaction's place in its block and the count no more than
\* the block's, whatever the region held besides it and whatever failed to
\* decode.  If all entries decoded, the count is the block's and the percentage
\* below 100; when one did not, it need be neither (CountIsKnown).
PositionIsTrue ==
  Rows(LAMBDA r, t :
    LET executed == Executed(car, own)
    IN  /\ r.Position.PositionPct = NULL <=> car[t].tx.position = NULL
        /\ r.Position.PositionPct # NULL =>
             /\ executed[r.Position.BlockIndex + 1] = t
             /\ r.Position.BlockTxCount \in 1..Len(executed)
             /\ "entry" \notin faults =>
                  /\ r.Position.BlockTxCount = Len(executed)
                  /\ r.Position.PositionPct \in 0..99)

\* Landing: "BlockTxCount is the block's executed transaction count.  NULL when
\* it could not be established".
CountIsKnown ==
  Rows(LAMBDA r, t :
    r.Position.BlockTxCount # NULL => r.Position.BlockTxCount = Len(Executed(car, own)))

\* The wallet's lamports, wrapped or not, by the balances given.
Wealth(lamports, tokens) ==
  lamports + SumFunction([i \in {j \in DOMAIN tokens : /\ tokens[j].mint = WsolMint
                                                       /\ tokens[j].owner = Wallet}
                            |-> tokens[i].amount])

\* "NET PROFIT is WsolDeltaLamports + SolDeltaLamports": what the row says the
\* wallet gained is what it gained, whichever WSOL accounts the transaction
\* opened, closed, or moved to another owner.
NetIsGain ==
  Rows(LAMBDA r, t :
    LET meta == car[t].tx.meta
    IN  \A i \in BalanceAt(car[t].tx, Wallet) :
          r.SolDeltaLamports + r.WsolDeltaLamports
            = Wealth(meta.post[i], meta.tokensPost) - Wealth(meta.pre[i], meta.tokensPre))

\* Transfers the transaction executed to tip accounts.
Tips(tx) == {x \in tx.transfers : x.to \in DOMAIN TipAccounts}

\* "Reading balance DELTAS is what makes this ALT- and CPI-proof": the tip is
\* what was transferred to tip accounts and the lanes are theirs, whoever paid,
\* at whatever depth, and however the account was addressed.
TipIsWhatWasPaid ==
  Rows(LAMBDA r, t :
    /\ r.TipLamports = SumFunction([x \in Tips(car[t].tx) |-> x.lamports])
    /\ r.TipLane = {TipAccounts[x.to] : x \in Tips(car[t].tx)})

\* "True only for a BARE tip transaction": a tip leg tips, and no program did
\* anything else in it, at top level or inside; and every such transaction is
\* one ("a tip carried inside real work is NOT a tip leg").
TipLegIsBare ==
  Rows(LAMBDA r, t :
    r.IsTipLeg <=> Tips(car[t].tx) # {} /\ car[t].tx.ran \subseteq BasePrograms)

=============================================================================
