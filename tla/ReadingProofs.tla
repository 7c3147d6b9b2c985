--------------------------- MODULE ReadingProofs ---------------------------
(***************************************************************************)
(* The rows collect builds of a block, against what really happened in it: *)
(* for any files in the format of the archive, any wallet, and any         *)
(* transactions the runtime records as module Reading assumes.             *)
(***************************************************************************)
EXTENDS Reading, ArchiveProofs

-----------------------------------------------------------------------------
(* BuildLanding on one transaction.                                        *)

LEMMA AccountList ==
  ASSUME NEW tx \in Recorded
  PROVE  /\ resolveKeys(tx) = Accounts(tx)
         /\ DOMAIN Accounts(tx) \subseteq Nat /\ IsFiniteSet(DOMAIN Accounts(tx))
         /\ \A a : BalanceAt(tx, a) = Balances(tx, a)
<1>1. Accounts(tx) \in Seq(STRING)
  BY ReadingAccounts, ConcatProperties DEF Accounts
<1>2. DOMAIN Accounts(tx) = 1..Len(Accounts(tx)) /\ Len(Accounts(tx)) \in Nat
  BY <1>1, LenProperties
<1>3. IsFiniteSet(1..Len(Accounts(tx)))
  BY <1>2, FS_Interval
<1>4. resolveKeys(tx) = Accounts(tx)
  BY DEF resolveKeys, Accounts
<1>5. \A a : BalanceAt(tx, a) = Balances(tx, a)
  BY <1>4 DEF BalanceAt, Balances
<1> QED
  BY <1>2, <1>3, <1>4, <1>5

\* A balance is a number.
LEMMA BalanceNat ==
  ASSUME NEW tx \in Recorded, NEW i \in DOMAIN tx.meta.pre \cap DOMAIN tx.meta.post
  PROVE  tx.meta.pre[i] \in Nat /\ tx.meta.post[i] \in Nat
<1>1. tx.meta.pre \in Seq(Nat) /\ tx.meta.post \in Seq(Nat)
  BY ReadingAccounts
<1> QED
  BY <1>1, ElementOfSeq, LenProperties

\* An account has one index: walletDelta reads its balances.
LEMMA DeltaOfWallet ==
  ASSUME NEW tx \in Recorded, NEW a, NEW i \in BalanceAt(tx, a)
  PROVE  walletDelta(tx, a) = tx.meta.post[i] - tx.meta.pre[i]
<1>1. BalanceAt(tx, a) = {i} /\ i \in Nat
  <2>1. /\ BalanceAt(tx, a) = Balances(tx, a) /\ DOMAIN Accounts(tx) \subseteq Nat
        /\ \A j, k \in DOMAIN Accounts(tx) : Accounts(tx)[j] = Accounts(tx)[k] => j = k
    BY AccountList, ReadingAccounts
  <2> QED
    BY <2>1 DEF Balances
<1>2. Min({i}) = i
  BY <1>1 DEF Min
<1> QED
  BY <1>1, <1>2 DEF walletDelta

\* The wallet's WSOL in one list.
LEMMA WsolSum ==
  ASSUME NEW tx \in Recorded, NEW tokens \in {tx.meta.tokensPre, tx.meta.tokensPost}, NEW wallet
  PROVE  /\ IsFiniteSet(DOMAIN WsolOf(tokens, wallet))
         /\ \A i \in DOMAIN WsolOf(tokens, wallet) : WsolOf(tokens, wallet)[i] \in Int
         /\ SumFunctionOnSet(WsolOf(tokens, wallet), DOMAIN WsolOf(tokens, wallet)) \in Int
<1> DEFINE D == {j \in DOMAIN tokens : tokens[j].mint = WsolMint /\ tokens[j].owner = wallet}
           f == [i \in D |-> tokens[i].amount]
<1>1. IsFiniteSet(DOMAIN tokens) /\ \A i \in DOMAIN tokens : tokens[i].amount \in Nat
  BY ReadingAccounts
<1>2. IsFiniteSet(D)
  BY <1>1, FS_Subset
<1>3. \A i \in D : f[i] \in Int
  BY <1>1
<1>4. WsolOf(tokens, wallet) = f /\ DOMAIN f = D
  BY DEF WsolOf
<1> HIDE DEF D, f
<1> QED
  BY <1>2, <1>3, <1>4, SumInt

\* wsolProfit takes each account it finds once, after the accounts it lists
\* and before the others: it is the difference of the two sums.
LEMMA WsolGain ==
  ASSUME NEW tx \in Recorded, NEW wallet
  PROVE  wsolProfit(tx, wallet) = SumFunction(WsolOf(tx.meta.tokensPost, wallet))
                                    - SumFunction(WsolOf(tx.meta.tokensPre, wallet))
<1> DEFINE pre == WsolOf(tx.meta.tokensPre, wallet)
           post == WsolOf(tx.meta.tokensPost, wallet)
           A == DOMAIN pre
           B == DOMAIN post
           before == [i \in B |-> IF i \in DOMAIN pre THEN pre[i] ELSE 0]
           gained == [i \in B |-> post[i] - (IF i \in DOMAIN pre THEN pre[i] ELSE 0)]
<1>1. /\ IsFiniteSet(A) /\ IsFiniteSet(B)
      /\ \A i \in A : pre[i] \in Int
      /\ \A i \in B : post[i] \in Int
      /\ SumFunctionOnSet(pre, A) \in Int /\ SumFunctionOnSet(post, B) \in Int
  BY WsolSum
<1>2. /\ wsolProfit(tx, wallet) = SumFunctionOnSet(gained, B) - SumFunctionOnSet(pre, A \ B)
      /\ SumFunction(post) = SumFunctionOnSet(post, B)
      /\ SumFunction(pre) = SumFunctionOnSet(pre, A)
  <2>1. DOMAIN gained = B
    OBVIOUS
  <2>2. wsolProfit(tx, wallet) = SumFunction(gained) - SumFunctionOnSet(pre, A \ B)
    BY DEF wsolProfit
  <2> HIDE DEF gained, pre, post
  <2> QED
    BY <2>1, <2>2 DEF SumFunction
<1> HIDE DEF pre, post
<1>3. /\ \A i \in B : post[i] = gained[i] + before[i] /\ gained[i] \in Int /\ before[i] \in Int
      /\ \A i \in A \cap B : before[i] = pre[i] /\ pre[i] \in Int
      /\ \A i \in B \ A : before[i] = 0
  BY <1>1
<1> HIDE DEF before, gained
<1>4. SumFunctionOnSet(post, B) = SumFunctionOnSet(gained, B) + SumFunctionOnSet(before, B)
  BY <1>1, <1>3, SumTerms
<1>5. SumFunctionOnSet(before, B) = SumFunctionOnSet(pre, A \cap B)
  <2>1. /\ IsFiniteSet(A \cap B) /\ IsFiniteSet(B \ A)
        /\ (A \cap B) \cup (B \ A) = B /\ (A \cap B) \cap (B \ A) = {}
    BY <1>1, FS_Subset
  <2>2. \A i \in (A \cap B) \cup (B \ A) : before[i] \in Int
    BY <1>3
  <2>3. SumFunctionOnSet(before, (A \cap B) \cup (B \ A))
          = SumFunctionOnSet(before, A \cap B) + SumFunctionOnSet(before, B \ A)
    <3> HIDE DEF A, B
    <3> QED
      BY <2>1, <2>2, SumUnion
  <2>4. SumFunctionOnSet(before, B \ A) = 0
    <3> HIDE DEF A, B
    <3> QED
      BY <1>3, <2>1, SumZero
  <2>5. SumFunctionOnSet(before, A \cap B) = SumFunctionOnSet(pre, A \cap B)
    <3> HIDE DEF A, B
    <3> QED
      BY <1>3, <2>1, SumEqual
  <2>6. SumFunctionOnSet(before, A \cap B) \in Int
    <3> HIDE DEF A, B
    <3> QED
      BY <2>1, <2>2, SumInt
  <2> QED
    BY <2>1, <2>3, <2>4, <2>5, <2>6
<1>6. SumFunctionOnSet(pre, A) = SumFunctionOnSet(pre, A \cap B) + SumFunctionOnSet(pre, A \ B)
  <2>1. /\ IsFiniteSet(A \cap B) /\ IsFiniteSet(A \ B)
        /\ (A \cap B) \cup (A \ B) = A /\ (A \cap B) \cap (A \ B) = {}
    BY <1>1, FS_Subset
  <2>2. \A i \in (A \cap B) \cup (A \ B) : pre[i] \in Int
    BY <1>1
  <2>3. SumFunctionOnSet(pre, (A \cap B) \cup (A \ B))
          = SumFunctionOnSet(pre, A \cap B) + SumFunctionOnSet(pre, A \ B)
    <3> HIDE DEF A, B
    <3> QED
      BY <2>1, <2>2, SumUnion
  <2> QED
    BY <2>1, <2>3
<1>7. /\ SumFunctionOnSet(gained, B) \in Int
      /\ SumFunctionOnSet(pre, A \cap B) \in Int /\ SumFunctionOnSet(pre, A \ B) \in Int
  <2>1. IsFiniteSet(A \cap B) /\ IsFiniteSet(A \ B)
    BY <1>1, FS_Subset
  <2> HIDE DEF A, B
  <2> QED
    BY <1>1, <1>3, <2>1, SumInt
<1>8. SumFunctionOnSet(gained, B) - SumFunctionOnSet(pre, A \ B)
        = SumFunctionOnSet(post, B) - SumFunctionOnSet(pre, A)
  BY <1>4, <1>5, <1>6, <1>7
<1>9. wsolProfit(tx, wallet) = SumFunction(post) - SumFunction(pre)
  BY <1>2, <1>8
<1> QED
  BY <1>9 DEF pre, post

\* What is paid to one tip account is what it gained.
LEMMA TipOfAccount ==
  ASSUME NEW tx \in Recorded, NEW a \in DOMAIN TipAccounts, NEW i \in Balances(tx, a)
  PROVE  LET paid == {x \in tx.transfers : x.to = a}
             f == [x \in Tips(tx) |-> x.lamports]
         IN  /\ paid \subseteq Tips(tx)
             /\ tx.meta.post[i] - tx.meta.pre[i] = SumFunctionOnSet(f, paid)
             /\ tx.meta.post[i] > tx.meta.pre[i] <=> paid # {}
<1> DEFINE paid == {x \in tx.transfers : x.to = a}
           f == [x \in Tips(tx) |-> x.lamports]
           g == [x \in paid |-> x.lamports]
<1>1. /\ IsFiniteSet(tx.transfers) /\ \A x \in tx.transfers : x.lamports \in Nat \ {0}
      /\ tx.meta.post[i] = tx.meta.pre[i] + SumFunction(g)
  BY ReadingTips
<1>2. paid \subseteq Tips(tx)
  BY DEF Tips
<1>3. IsFiniteSet(paid) /\ \A x \in paid : g[x] \in Nat \ {0} /\ f[x] = g[x]
  BY <1>1, <1>2, FS_Subset
<1>4. SumFunction(g) = SumFunctionOnSet(g, paid)
  <2>1. DOMAIN g = paid
    OBVIOUS
  <2> HIDE DEF g, paid
  <2> QED
    BY <2>1 DEF SumFunction
<1>5. tx.meta.pre[i] \in Nat /\ tx.meta.post[i] \in Nat
  BY BalanceNat DEF Balances
<1> DEFINE gain == SumFunctionOnSet(g, paid)
<1>6. tx.meta.post[i] = tx.meta.pre[i] + gain
  BY <1>1, <1>4
<1> HIDE DEF f, g
<1>7. gain = SumFunctionOnSet(f, paid)
  <2> HIDE DEF paid
  <2> QED
    BY <1>3, SumEqual
<1>8. gain \in Nat /\ (gain > 0 <=> paid # {})
  <2> HIDE DEF paid
  <2> QED
    BY <1>3, SumPositive
<1> HIDE DEF gain
<1>9. /\ tx.meta.post[i] - tx.meta.pre[i] = gain
      /\ tx.meta.post[i] > tx.meta.pre[i] <=> gain > 0
  BY <1>5, <1>6, <1>8
<1>10. /\ paid \subseteq Tips(tx)
       /\ tx.meta.post[i] - tx.meta.pre[i] = SumFunctionOnSet(f, paid)
       /\ tx.meta.post[i] > tx.meta.pre[i] <=> paid # {}
  BY <1>2, <1>7, <1>8, <1>9
<1> QED
  BY <1>10 DEF f

\* tipPaid adds up, account by account, what was paid to any.
LEMMA TipSum ==
  ASSUME NEW tx \in Recorded
  PROVE  /\ tipPaid(tx) = SumFunction([x \in Tips(tx) |-> x.lamports])
         /\ tipLanes(tx) = {TipAccounts[x.to] : x \in Tips(tx)}
         /\ tipPaid(tx) > 0 <=> Tips(tx) # {}
<1> DEFINE I == Tipped(tx)
           T == Tips(tx)
           f == [x \in T |-> x.lamports]
           h == [i \in I |-> tx.meta.post[i] - tx.meta.pre[i]]
           part == [i \in I |-> {x \in tx.transfers : x.to = Accounts(tx)[i]}]
<1>1. /\ IsFiniteSet(tx.transfers) /\ \A x \in tx.transfers : x.lamports \in Nat \ {0}
      /\ \A a \in DOMAIN TipAccounts :
           {x \in tx.transfers : x.to = a} # {} => Balances(tx, a) # {}
  BY ReadingTips
<1>2. I = {i \in DOMAIN Accounts(tx) : /\ Accounts(tx)[i] \in DOMAIN TipAccounts
                                      /\ i \in Balances(tx, Accounts(tx)[i])
                                      /\ tx.meta.post[i] > tx.meta.pre[i]}
  BY AccountList DEF Tipped, Balances
<1>3. IsFiniteSet(I) /\ IsFiniteSet(T) /\ \A x \in T : f[x] \in Nat \ {0}
  <2>1. T \subseteq tx.transfers /\ I \subseteq DOMAIN Accounts(tx)
    BY <1>2 DEF Tips
  <2>2. IsFiniteSet(DOMAIN Accounts(tx))
    BY AccountList
  <2> QED
    BY <1>1, <2>1, <2>2, FS_Subset
<1>4. ASSUME NEW i \in I
      PROVE  part[i] \subseteq T /\ h[i] = SumFunctionOnSet(f, part[i]) /\ part[i] # {}
  <2>1. /\ Accounts(tx)[i] \in DOMAIN TipAccounts /\ i \in Balances(tx, Accounts(tx)[i])
        /\ tx.meta.post[i] > tx.meta.pre[i]
    BY <1>2
  <2> QED
    BY <2>1, TipOfAccount
<1>5. \A i, j \in I : i # j => part[i] \cap part[j] = {}
  BY <1>2, ReadingAccounts
<1>6. ASSUME NEW x \in T PROVE \E i \in I : x \in part[i] /\ Accounts(tx)[i] = x.to
  <2>1. x \in tx.transfers /\ x.to \in DOMAIN TipAccounts
    BY DEF Tips
  <2>2. PICK i : i \in Balances(tx, x.to)
    BY <1>1, <2>1
  <2>3. tx.meta.post[i] > tx.meta.pre[i]
    BY <2>1, <2>2, TipOfAccount
  <2>4. i \in DOMAIN Accounts(tx) /\ Accounts(tx)[i] = x.to
    BY <2>2 DEF Balances
  <2>5. i \in I
    BY <1>2, <2>1, <2>2, <2>3, <2>4
  <2> QED
    BY <2>1, <2>4, <2>5
<1>7. UNION {part[i] : i \in I} = T
  <2>1. \A i \in I : part[i] \subseteq T
    BY <1>4
  <2>2. \A x \in T : \E i \in I : x \in part[i]
    BY <1>6
  <2> HIDE DEF I, T, part
  <2> QED
    BY <2>1, <2>2
<1>8. tipPaid(tx) = SumFunctionOnSet(h, I) /\ SumFunction(f) = SumFunctionOnSet(f, T)
  <2>1. DOMAIN h = I /\ DOMAIN f = T
    OBVIOUS
  <2>2. tipPaid(tx) = SumFunction(h)
    BY DEF tipPaid
  <2> HIDE DEF h, f
  <2> QED
    BY <2>1, <2>2 DEF SumFunction
<1>9. tipLanes(tx) = {TipAccounts[x.to] : x \in T}
  <2>1. tipLanes(tx) = {TipAccounts[Accounts(tx)[i]] : i \in I}
    BY AccountList DEF tipLanes
  <2>2. \A i \in I : \E x \in T : x.to = Accounts(tx)[i]
    BY <1>4
  <2> HIDE DEF I, T, part
  <2> QED
    BY <1>6, <2>1, <2>2
<1> HIDE DEF I, T, f, h, part
<1>10. SumFunctionOnSet(h, I) = SumFunctionOnSet(f, T)
  <2>1. \A x \in T : f[x] \in Int
    BY <1>3
  <2>2. SumFunctionOnSet(h, I) = SumFunctionOnSet(f, UNION {part[i] : i \in I})
    BY <1>3, <1>4, <1>5, <2>1, SumParts
  <2> QED
    BY <1>7, <2>2
<1>11. SumFunctionOnSet(f, T) > 0 <=> T # {}
  BY <1>3, SumPositive
<1>12. tipPaid(tx) = SumFunction(f) /\ (tipPaid(tx) > 0 <=> T # {})
  BY <1>8, <1>10, <1>11
<1> QED
  BY <1>9, <1>12 DEF f, T

\* programSet finds every program through the lookup tables.
LEMMA ProgramsRun ==
  ASSUME NEW tx \in Recorded
  PROVE  programSet(tx) = tx.ran
<1>1. /\ tx.programs \cup tx.meta.inner \subseteq DOMAIN Accounts(tx)
      /\ tx.ran = {Accounts(tx)[i] : i \in tx.programs \cup tx.meta.inner}
      /\ resolveKeys(tx) = Accounts(tx)
  BY ReadingPrograms, AccountList
<1> QED
  BY <1>1 DEF programSet

-----------------------------------------------------------------------------
(* The rows of a block.                                                    *)

\* The facts of the reader the rows rest on.
Parsed == car \in Cars /\ own \in Blocks /\ OutTypes /\ BlockIsExact

LEMMA ParsedInvariance == Spec => [](pc = "parsed" => Parsed)
<1>1. IInv /\ Exact => (pc = "parsed" => Parsed)
  BY BlockOfSlot DEF IInv, Exact, WalkTypes, Places, Parsed
<1> QED
  BY <1>1, Invariance, ExactInvariance, PTL

\* What a block executed is a list of places.
LEMMA ExecutedSeq ==
  ASSUME car \in Cars, NEW i \in Blocks
  PROVE  Executed(car, i) \in Seq(Nat)
<1>1. i \in Nat
  BY BlockPlace
<1>2. [j \in 1..i |-> j] \in Seq(Nat)
  <2>1. [j \in 1..i |-> j] \in [1..i -> Nat]
    BY <1>1
  <2> QED
    BY <1>1, <2>1, SeqDef
<1> QED
  BY <1>2, OnlyValue DEF Executed

\* A row is built of a transaction the block executed, which has metadata.
LEMMA RowOf ==
  ASSUME Parsed, pc = "parsed", NEW i \in 1..Len(collected)
  PROVE  /\ collected[i] \in ToSet(Executed(car, own)) /\ collected[i] \in ToSet(out.Txs)
         /\ car[collected[i]].tx \in Recorded
         /\ landings[i] = BuildLanding(car[collected[i]].tx, Wallet, out.Leader, slot, out.TxCount)
<1> DEFINE S == {t \in ToSet(out.Txs) : Builds(car[t].tx, Wallet)}
           t == collected[i]
<1>1. out.Txs \in Seq(DOMAIN car)
  BY DEF Parsed, OutTypes
<1>2. collected = Only(out.Txs, S)
  BY DEF collected
<1> HIDE DEF S
<1>3. collected \in Seq(DOMAIN car) /\ ToSet(collected) = ToSet(out.Txs) \cap S
  BY <1>1, <1>2, OnlyValue
<1>4. t \in ToSet(collected)
  BY <1>3, LenProperties DEF ToSet
<1>5. t \in ToSet(out.Txs) /\ t \in S
  BY <1>3, <1>4
<1>6. t \in ToSet(Executed(car, own))
  BY <1>5 DEF Parsed, BlockIsExact
<1>7. t \in DOMAIN car /\ car[t].kind = "tx"
  <2>1. own \in Blocks /\ car \in Cars
    BY DEF Parsed
  <2>2. ToSet(Executed(car, own))
          = {j \in DOMAIN car : Before(car, own) < j /\ j <= own /\ car[j].kind = "tx"}
    BY <2>1, BlockLinks
  <2> QED
    BY <1>6, <2>2
<1>8. car[t].tx.meta # NULL
  BY <1>5 DEF S, Builds
<1>9. car[t].tx \in Recorded
  BY <1>7, <1>8 DEF Parsed, Recorded
<1>10. landings[i] = BuildLanding(car[t].tx, Wallet, out.Leader, slot, out.TxCount)
  BY DEF landings
<1> QED
  BY <1>5, <1>6, <1>9, <1>10

\* "NET PROFIT is WsolDeltaLamports + SolDeltaLamports" (landing.go): the two
\* columns of a row add up to what the wallet has gained, whichever accounts
\* the transaction opened, closed or gave away.
THEOREM NetProfitIsGain == Spec => []NetIsGain
<1>1. ASSUME pc = "parsed" => Parsed PROVE NetIsGain
  <2> SUFFICES ASSUME pc = "parsed", NEW n \in 1..Len(collected),
                      NEW i \in BalanceAt(car[collected[n]].tx, Wallet)
               PROVE  LET meta == car[collected[n]].tx.meta
                      IN  landings[n].SolDeltaLamports + landings[n].WsolDeltaLamports
                            = Wealth(meta.post[i], meta.tokensPost)
                                - Wealth(meta.pre[i], meta.tokensPre)
    BY DEF NetIsGain, Rows
  <2> DEFINE tx == car[collected[n]].tx
             pre == SumFunction(WsolOf(tx.meta.tokensPre, Wallet))
             post == SumFunction(WsolOf(tx.meta.tokensPost, Wallet))
  <2>1. /\ tx \in Recorded
        /\ landings[n] = BuildLanding(tx, Wallet, out.Leader, slot, out.TxCount)
    BY <1>1, RowOf
  <2>2. /\ landings[n].SolDeltaLamports = walletDelta(tx, Wallet)
        /\ landings[n].WsolDeltaLamports = wsolProfit(tx, Wallet)
    BY <2>1 DEF BuildLanding
  <2> HIDE DEF tx
  <2>3. walletDelta(tx, Wallet) = tx.meta.post[i] - tx.meta.pre[i]
    BY <2>1, DeltaOfWallet DEF tx
  <2>4. wsolProfit(tx, Wallet) = post - pre /\ post \in Int /\ pre \in Int
    BY <2>1, WsolGain, WsolSum DEF SumFunction
  <2>5. /\ Wealth(tx.meta.post[i], tx.meta.tokensPost) = tx.meta.post[i] + post
        /\ Wealth(tx.meta.pre[i], tx.meta.tokensPre) = tx.meta.pre[i] + pre
    BY DEF Wealth, WsolOf
  <2> DEFINE a == tx.meta.pre[i]
             b == tx.meta.post[i]
  <2>6. a \in Nat /\ b \in Nat
    BY <2>1, BalanceNat DEF BalanceAt, tx
  <2>7. walletDelta(tx, Wallet) + wsolProfit(tx, Wallet)
          = Wealth(tx.meta.post[i], tx.meta.tokensPost) - Wealth(tx.meta.pre[i], tx.meta.tokensPre)
    <3>1. (b - a) + (post - pre) = (b + post) - (a + pre)
      <4> HIDE DEF a, b, pre, post
      <4> QED
        BY <2>4, <2>6
    <3> QED
      BY <2>3, <2>4, <2>5, <3>1
  <2> QED
    BY <2>2, <2>7 DEF tx
<1> QED
  BY <1>1, ParsedInvariance, PTL

\* "Reading balance DELTAS is what makes this ALT- and CPI-proof" (tipPaid): the
\* tip of a row is what the transaction paid to tip accounts, and the lanes are
\* those of the accounts it paid.
THEOREM TipIsPaid == Spec => []TipIsWhatWasPaid
<1>1. ASSUME pc = "parsed" => Parsed PROVE TipIsWhatWasPaid
  <2> SUFFICES ASSUME pc = "parsed", NEW n \in 1..Len(collected)
               PROVE  LET tx == car[collected[n]].tx
                      IN  /\ landings[n].TipLamports = SumFunction([x \in Tips(tx) |-> x.lamports])
                          /\ landings[n].TipLane = {TipAccounts[x.to] : x \in Tips(tx)}
    BY DEF TipIsWhatWasPaid, Rows
  <2>1. /\ car[collected[n]].tx \in Recorded
        /\ landings[n] = BuildLanding(car[collected[n]].tx, Wallet, out.Leader, slot, out.TxCount)
    BY <1>1, RowOf
  <2>2. /\ landings[n].TipLamports = tipPaid(car[collected[n]].tx)
        /\ landings[n].TipLane = tipLanes(car[collected[n]].tx)
    BY <2>1 DEF BuildLanding
  <2> QED
    BY <2>1, <2>2, TipSum
<1> QED
  BY <1>1, ParsedInvariance, PTL

\* IsBareTipLeg: a row is a tip leg if and only if its transaction paid a tip
\* and ran nothing but the base programs, at top level or inside.
THEOREM TipLegsAreBare == Spec => []TipLegIsBare
<1>1. ASSUME pc = "parsed" => Parsed PROVE TipLegIsBare
  <2> SUFFICES ASSUME pc = "parsed", NEW n \in 1..Len(collected)
               PROVE  LET tx == car[collected[n]].tx
                      IN  landings[n].IsTipLeg <=> Tips(tx) # {} /\ tx.ran \subseteq BasePrograms
    BY DEF TipLegIsBare, Rows
  <2>1. /\ car[collected[n]].tx \in Recorded
        /\ landings[n] = BuildLanding(car[collected[n]].tx, Wallet, out.Leader, slot, out.TxCount)
    BY <1>1, RowOf
  <2>2. landings[n].IsTipLeg = IsBareTipLeg(programSet(car[collected[n]].tx),
                                            tipPaid(car[collected[n]].tx))
    BY <2>1 DEF BuildLanding
  <2> QED
    BY <2>1, <2>2, TipSum, ProgramsRun DEF IsBareTipLeg
<1> QED
  BY <1>1, ParsedInvariance, PTL

\* applyPosition: the percentage is NULL just for a transaction without an index;
\* an index stored with a percentage is the transaction's place in its block,
\* and the count at most the size of that block.  If all entries decoded it is
\* that size, and the percentage is below 100.
THEOREM PositionsAreTrue == Spec => []PositionIsTrue
<1>1. ASSUME pc = "parsed" => Parsed PROVE PositionIsTrue
  <2> SUFFICES ASSUME pc = "parsed", NEW i \in 1..Len(collected)
               PROVE  LET position == landings[i].Position
                          executed == Executed(car, own)
                      IN  /\ position.PositionPct = NULL <=> car[collected[i]].tx.position = NULL
                          /\ position.PositionPct # NULL =>
                               /\ executed[position.BlockIndex + 1] = collected[i]
                               /\ position.BlockTxCount \in 1..Len(executed)
                               /\ "entry" \notin faults =>
                                    /\ position.BlockTxCount = Len(executed)
                                    /\ position.PositionPct \in 0..99
    BY DEF PositionIsTrue, Rows
  <2> DEFINE t == collected[i]
             tx == car[t].tx
             all == Executed(car, own)
  <2>0. /\ t \in ToSet(all) /\ tx \in Recorded
        /\ landings[i] = BuildLanding(tx, Wallet, out.Leader, slot, out.TxCount)
    BY <1>1, RowOf
  <2>1. t \in ToSet(all) /\ landings[i].Position = applyPosition(tx, out.TxCount)
    BY <2>0 DEF BuildLanding
  <2>2. /\ out.TxCount \in Nat \ {0} /\ out.TxCount <= Len(all)
        /\ "entry" \notin faults => out.TxCount = Len(all)
        /\ car \in Cars /\ own \in DOMAIN car /\ car[own].kind = "block"
    <3>1. /\ out.TxCount \in Nat /\ out.TxCount <= Len(all)
          /\ "entry" \notin faults => out.TxCount = Len(all)
          /\ car \in Cars /\ own \in DOMAIN car /\ car[own].kind = "block"
          /\ out.Txs \in Seq(DOMAIN car) /\ Len(out.Txs) <= out.TxCount
      BY <1>1 DEF Parsed, BlockIsExact, OutTypes, Blocks
    <3>2. t \in ToSet(out.Txs)
      BY <1>1, RowOf
    <3>3. Len(out.Txs) \in Nat \ {0}
      BY <3>1, <3>2, LenProperties DEF ToSet
    <3> QED
      BY <3>1, <3>3
  <2>3. Len(all) \in Nat /\ DOMAIN all = 1..Len(all)
    BY <1>1, ExecutedSeq, LenProperties DEF Parsed
  <2>4. PICK n \in DOMAIN all : all[n] = t
    BY <2>1 DEF ToSet
  <2>5. tx.position \in {NULL, n - 1}
    BY <2>2, <2>4, ReadingPositions
  <2> HIDE DEF all, tx, t
  <2>6. CASE tx.position = NULL
    <3>1. landings[i].Position.PositionPct = NULL
      BY <2>1, <2>6 DEF applyPosition
    <3> QED
      BY <2>6, <3>1 DEF tx, t
  <2>7. CASE tx.position # NULL
    <3>1. /\ tx.position = n - 1 /\ n - 1 \in Nat /\ n - 1 < Len(all) /\ (n - 1) + 1 = n
      BY <2>3, <2>5, <2>7
    <3>2. /\ landings[i].Position.BlockIndex = n - 1
          /\ landings[i].Position.BlockTxCount = out.TxCount
          /\ landings[i].Position.PositionPct = (100 * (n - 1)) \div out.TxCount
      BY <2>1, <2>2, <2>7, <3>1 DEF applyPosition
    <3>3. out.TxCount \in 1..Len(all)
      BY <2>2, <2>3
    <3>4. (100 * (n - 1)) \div out.TxCount # NULL
      <4>1. (100 * (n - 1)) \div out.TxCount \in Int
        BY <3>1, <3>3
      <4> QED
        BY <4>1, LandingNull
    <3>5. "entry" \notin faults =>
            out.TxCount = Len(all) /\ (100 * (n - 1)) \div out.TxCount \in 0..99
      BY <2>2, <2>3, <3>1, PercentBelow
    <3> QED
      BY <2>4, <2>7, <3>1, <3>2, <3>3, <3>4, <3>5 DEF all, tx, t
  <2> QED
    BY <2>6, <2>7
<1> QED
  BY <1>1, ParsedInvariance, PTL

=============================================================================
