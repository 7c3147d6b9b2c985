----------------------------- MODULE MCReading -----------------------------
(* Instances of Reading for TLC.                                           *)
EXTENDS Reading, TLC

MCTipAccounts == "J" :> "jito" @@ "N" :> "nozomi"
MCBasePrograms == {"S", "C"}

Header == <<[kind |-> "header"]>>
Other == [kind |-> "other"]
Tx(t) == [kind |-> "tx", tx |-> t]
Entry(ts) == [kind |-> "entry", txs |-> ts]
Paid(list) == [kind |-> "rewards", list |-> list]
Block(s, who, es, r) ==
  [kind |-> "block", slot |-> s, producer |-> who, entries |-> es, rewards |-> r]
Reward(type, who) == [type |-> type, pubkey |-> who]

-----------------------------------------------------------------------------
(* Transactions.  The accounts are the wallet W, another X, the tip         *)
(* accounts J and N, the programs S and C (System, ComputeBudget) and P.   *)

NoTokens == [i \in {} |-> 0]

Moved(transfers, a) ==
  MapThenSumSet(LAMBDA x : x.lamports, {x \in transfers : x.to = a})
    - MapThenSumSet(LAMBDA x : x.lamports, {x \in transfers : x.from = a})

\* Executed with all accounts at 10 lamports, the wallet paying the fee of 1.
Ran(keys, loaded, programs, inner, transfers) ==
  LET all == keys \o loaded
  IN  [sig |-> "s", frames |-> 1, decodes |-> TRUE, position |-> 0,
       keys |-> keys, programs |-> programs, nsig |-> 1,
       transfers |-> transfers,
       ran |-> {all[i] : i \in (programs \cup inner)},
       meta |-> [err |-> FALSE, fee |-> 1, loaded |-> loaded, inner |-> inner,
                 pre |-> [i \in 1..Len(all) |-> 10],
                 post |-> [i \in 1..Len(all) |->
                             10 + Moved(transfers, all[i]) - (IF all[i] = "W" THEN 1 ELSE 0)],
                 tokensPre |-> NoTokens, tokensPost |-> NoTokens]]

Transfer(a, b, n) == [from |-> a, to |-> b, lamports |-> n]
Transfers == SUBSET {Transfer("W", "J", 2), Transfer("X", "J", 1), Transfer("W", "N", 3),
                     Transfer("X", "W", 4)}

\* Tips: static or loaded accounts; System alone, with P inside, P alone.
TipCases ==
  {Ran(keys, loaded, programs, inner, transfers) :
     <<keys, loaded>> \in {<<<<"W", "S", "P", "N">>, <<"X", "J">>>>,
                           <<<<"X", "S", "P">>, <<"J", "W", "N">>>>},
     programs \in {{2}, {3}}, inner \in {{}, {3}}, transfers \in Transfers}

Plain == Ran(<<"W", "S">>, <<>>, {2}, {}, {})

\* Token balances: account 1 and 2, none, WSOL of the wallet, others.
Held(f) == [i \in {j \in DOMAIN f : f[j].amount > 0} |-> f[i]]
Token(mint, owner, n) == [mint |-> mint, owner |-> owner, amount |-> n]
NoToken == Token("wsol", "W", 0)
TokenLists ==
  {Held(<<a, b>>) : a \in {NoToken, Token("wsol", "W", 1), Token("wsol", "W", 3),
                           Token("wsol", "X", 2), Token("usdc", "W", 2)},
                    b \in {NoToken, Token("wsol", "W", 2), Token("wsol", "X", 1)}}
TokenCases ==
  {[Plain EXCEPT !.meta.tokensPre = a, !.meta.tokensPost = b] : a, b \in TokenLists}

\* What BuildLanding refuses, and balances that are short.
ShapeCases ==
  {[Plain EXCEPT !.sig = s, !.frames = n, !.decodes = d] :
     s \in {"s", NULL}, n \in {1, 2}, d \in BOOLEAN}
    \cup {[Plain EXCEPT !.meta = NULL], [Plain EXCEPT !.keys = <<"X", "S">>],
          [Plain EXCEPT !.position = NULL], [Plain EXCEPT !.meta.err = TRUE],
          [Plain EXCEPT !.meta.pre = <<>>], [Plain EXCEPT !.meta.fee = 7]}

\* A block of one transaction, after another block.
OneTx(t) ==
  Header \o <<Block(0, "v0", <<>>, 0), Tx(t), Entry(<<3>>), Paid(<<Reward("Fee", "v1")>>),
             Block(1, "v1", <<4>>, 5)>>

-----------------------------------------------------------------------------
(* Files of several blocks.                                                *)

Nth(sig, n) == Tx([Plain EXCEPT !.sig = sig, !.position = n])

\* Slots 1 and 3 (2 skipped), 4 (empty, without rewards), 5 (a lone reward in
\* the old encoding), 6 (empty, no fee, a lone reward of rent), 9 after two
\* skipped slots, 10 with more nodes than are read.
Gaps ==
  Header
    \o <<Nth("a", 0), Entry(<<2>>), Paid(<<Reward("Fee", "v1")>>), Block(1, "v1", <<3>>, 4)>>
    \o <<Nth("b", 0), Entry(<<6>>), Nth("c", 1), Nth("d", NULL), Entry(<<8, 9>>), Other,
         Paid(<<Reward("Voting", "v0"), Reward("Fee", "v3")>>), Block(3, "v3", <<7, 10>>, 12)>>
    \o <<Entry(<<>>), Block(4, "v4", <<14>>, 0)>>
    \o <<Nth("e", 0), Entry(<<16>>), Paid(<<Reward("Unset", "v5")>>), Block(5, "v5", <<17>>, 18)>>
    \o <<Paid(<<Reward("Rent", "v0")>>), Block(6, "v6", <<>>, 20)>>
    \o <<Nth("f", 0), Entry(<<22>>), Paid(<<Reward("Unset", "v9"), Reward("Unset", "v0")>>),
         Block(9, "v9", <<23>>, 24)>>
    \o [i \in 1..13 |-> Other] \o <<Block(10, "v10", <<>>, 0)>>

MCCars == {OneTx(t) : t \in TipCases \cup TokenCases \cup ShapeCases} \cup {Gaps}

\* One file, for a single question.
MCGaps == {Gaps}

=============================================================================
