------------------------------ MODULE Archive ------------------------------
(***************************************************************************)
(* BlockReader: one slot of the remote CAR read as a single range and      *)
(* walked forward.  The CAR is a header and then nodes, children first, a  *)
(* block's rewards and its Block node last; a node is one unit long and    *)
(* its CID is its place in the file, so offsets, links and CIDs are        *)
(* positions.  The two indexes answer for every block of the epoch; for a  *)
(* skipped slot the lookup fails, or (the index stores hashes, not keys)   *)
(* gives some block of the epoch; and any lookup may fail.                 *)
(***************************************************************************)
EXTENDS Integers, Sequences, SequencesExt, Lists

CONSTANTS Cars,         \* the files to read: sequences of nodes
          MaxSkipBack,  \* maxSkipBack, 200 in the code
          MaxRegion     \* maxRegionBytes, 128 MiB in the code

ASSUME ArchiveBounds == MaxSkipBack \in Nat /\ MaxRegion \in Nat
\* A header and nothing like it elsewhere; blocks in the order of their slots.
ASSUME ArchiveCars ==
  \A c \in Cars :
    /\ DOMAIN c = 1..Len(c) /\ Len(c) \in Nat \ {0}
    /\ \A i \in DOMAIN c : c[i].kind = "header" <=> i = 1
    /\ \A i \in DOMAIN c : c[i].kind = "block" => c[i].slot \in Nat
    /\ \A i, j \in DOMAIN c :
         c[i].kind = "block" /\ c[j].kind = "block" /\ i < j => c[i].slot < c[j].slot

-----------------------------------------------------------------------------

\* Where the nodes of the block at i begin: after the Block node before it.
Before(c, i) == LET earlier == {j \in DOMAIN c : j < i /\ c[j].kind = "block"}
                IN  IF earlier = {} THEN 1 ELSE Max(earlier)

\* "Everything for slot N lives between block node N-1 and block node N"
\* (BlockReader): its transactions, in the order of the file.
Executed(c, i) ==
  Only([j \in 1..i |-> j], {j \in DOMAIN c : Before(c, i) < j /\ c[j].kind = "tx"})

\* A block links to its entries, the entries to the transactions: together to
\* all between the Block node before it and its own, in order.
ASSUME ArchiveLinks ==
  \A c \in Cars :
    /\ \A i \in DOMAIN c : c[i].kind = "entry" => c[i].txs \in Seq(DOMAIN c)
    /\ \A i \in DOMAIN c : c[i].kind = "block" =>
         LET es == c[i].entries
         IN  /\ es \in Seq({j \in DOMAIN c : /\ Before(c, i) < j /\ j < i
                                             /\ c[j].kind = "entry"})
             /\ Joined(es, ToSet(es), [e \in ToSet(es) |-> c[e].txs]) = Executed(c, i)

\* "the block producer: the reward whose type is Fee"; a lone reward of the old
\* encoding, which leaves the type unset, is the producer's as well.  A reward
\* of another type (rent, voting, staking) goes to any validator.
ASSUME ArchiveRewards ==
  \A c \in Cars : \A i \in DOMAIN c :
    c[i].kind = "block" /\ c[i].rewards \in DOMAIN c /\ c[c[i].rewards].kind = "rewards" =>
      LET list == c[c[i].rewards].list
      IN  /\ list \in Seq([type : STRING, pubkey : STRING])
          /\ \A k \in DOMAIN list :
               list[k].type = "Fee" \/ (Len(list) = 1 /\ list[k].type = "Unset")
                 => list[k].pubkey = c[i].producer

-----------------------------------------------------------------------------

VARIABLES
  car,       \* the file on the server
  pc,        \* what the worker is about to do
  slot,      \* the slot asked for
  own,       \* its Block node
  back,      \* how far anchor has walked back
  start,     \* where the region begins: after this node
  pos,       \* the last node visited of what the server sent,
  last,      \* and the last node it sent
  block,     \* whether parseRegion has met the Block node
  entries,   \* its maps: the entries,
  txs,       \* the transactions,
  rewards,   \* and the rewards it has met
  out,       \* the ParsedBlock
  faults     \* what has gone wrong in this call, by kind

region == <<slot, own, back, start>>
seen == <<pos, block, entries, txs, rewards>>
vars == <<car, pc, region, seen, last, out, faults>>

-----------------------------------------------------------------------------

NoNode == 0

NoBlock == [Leader |-> "", TxCount |-> 0, Txs |-> <<>>]

Blocks == {i \in DOMAIN car : car[i].kind = "block"}

\* The slots with a block.
Produced == {car[i].slot : i \in Blocks}

BlockOf(s) == CHOOSE i \in Blocks : car[i].slot = s

\* SlotToCid, then CidToOffset: the Block nodes a lookup of s may give.
Resolves(s) == IF s \in Produced THEN {BlockOf(s)} ELSE Blocks

Init ==
  /\ car \in Cars
  /\ pc = "idle"
  /\ slot = 0 /\ own = NoNode /\ back = 0 /\ start = 0
  /\ pos = 0 /\ last = 0
  /\ block = FALSE /\ entries = {} /\ txs = {} /\ rewards = {}
  /\ out = NoBlock
  /\ faults = {}

Fail == pc' = "failed" /\ UNCHANGED <<car, region, seen, last, out>>

Fault(f) == faults' = faults \cup {f}

-----------------------------------------------------------------------------
(* ReadBlock, up to the answer of the server.                              *)

\* A call for s, and its first two lookups.
ReadBlock(s) ==
  /\ pc \in {"idle", "parsed", "failed"}
  /\ slot' = s /\ back' = 1 /\ start' = 0
  /\ pos' = 0 /\ last' = 0
  /\ block' = FALSE /\ entries' = {} /\ txs' = {} /\ rewards' = {}
  /\ out' = NoBlock
  /\ \/ own' = BlockOf(s) /\ pc' = "anchor" /\ faults' = {}
     \/ own' = NoNode /\ pc' = "failed" /\ faults' = {"lookup"}
  /\ UNCHANGED car

\* anchor: the indexes give a block for slot - back; the region begins at its
\* end.
anchorFound ==
  /\ pc = "anchor"
  /\ back <= MaxSkipBack /\ back <= slot
  /\ \E i \in Resolves(slot - back) : start' = i
  /\ faults' = IF slot - back \in Produced THEN faults ELSE faults \cup {"lookup"}
  /\ pc' = "range"
  /\ UNCHANGED <<car, slot, own, back, seen, last, out>>

\* Any error of the lookup is taken for a skipped slot.
anchorSkips ==
  /\ pc = "anchor"
  /\ back <= MaxSkipBack /\ back <= slot
  /\ back' = back + 1
  /\ faults' = IF slot - back \in Produced THEN faults \cup {"lookup"} ELSE faults
  /\ UNCHANGED <<car, pc, slot, own, start, seen, last, out>>

\* Variant: gives up one slot early.
errNoAnchorEarly ==
  /\ pc = "anchor"
  /\ back >= MaxSkipBack \/ back > slot
  /\ Fail /\ UNCHANGED faults

errNoAnchor ==
  /\ pc = "anchor"
  /\ back > MaxSkipBack \/ back > slot
  /\ Fail /\ UNCHANGED faults

\* "empty region", or one over the cap.
BadRegion ==
  /\ pc = "range"
  /\ own <= start \/ own - start > MaxRegion
  /\ Fail /\ UNCHANGED faults

\* ReadRange of the region: what was asked for, or (200 OK is accepted) as
\* many bytes from the beginning of the file.
ReadRange ==
  /\ pc = "range"
  /\ own > start /\ own - start <= MaxRegion
  /\ \/ pos' = start /\ last' = own /\ UNCHANGED faults
     \/ pos' = 0 /\ last' = own - start /\ Fault("whole")
  /\ pc' = "walk"
  /\ UNCHANGED <<car, region, block, entries, txs, rewards, out>>

ReadRangeFails ==
  /\ pc = "range"
  /\ own > start /\ own - start <= MaxRegion
  /\ Fail /\ Fault("read")

-----------------------------------------------------------------------------
(* parseRegion.                                                            *)

\* Variant: no comparison with the end of the region.
VisitsPastEnd(i, kinds) ==
  /\ pc = "walk"
  /\ i = pos + 1
  /\ i \in DOMAIN car /\ car[i].kind \in kinds

\* walkSections comes to node i of one of the kinds.
Visits(i, kinds) ==
  /\ pc = "walk"
  /\ pos < last
  /\ i = pos + 1
  /\ car[i].kind \in kinds

\* Variant: a section without a CID is passed over.
BadSectionIgnored ==
  /\ Visits(pos + 1, {"header"})
  /\ pos' = pos + 1
  /\ UNCHANGED <<car, pc, region, block, entries, txs, rewards, last, out, faults>>

\* The header is no section: "bad cid".
BadSection ==
  /\ Visits(pos + 1, {"header"})
  /\ Fail /\ UNCHANGED faults

\* A transaction or an entry that decodes is recorded under its CID.
VisitTransaction ==
  /\ Visits(pos + 1, {"tx"})
  /\ pos' = pos + 1
  /\ \/ txs' = txs \cup {pos'} /\ UNCHANGED faults
     \/ UNCHANGED txs /\ Fault("tx")
  /\ UNCHANGED <<car, pc, region, block, entries, rewards, last, out>>

VisitEntry ==
  /\ Visits(pos + 1, {"entry"})
  /\ pos' = pos + 1
  /\ \/ entries' = entries \cup {pos'} /\ UNCHANGED faults
     \/ UNCHANGED entries /\ Fault("entry")
  /\ UNCHANGED <<car, pc, region, block, txs, rewards, last, out>>

VisitRewards ==
  /\ Visits(pos + 1, {"rewards"})
  /\ pos' = pos + 1
  /\ rewards' = rewards \cup {pos'}
  /\ UNCHANGED <<car, pc, region, block, entries, txs, last, out, faults>>

\* Another block, caught in a longer region, and kinds of no interest.
VisitOther ==
  /\ Visits(pos + 1, {"block", "other"})
  /\ pos + 1 # own
  /\ pos' = pos + 1
  /\ UNCHANGED <<car, pc, region, block, entries, txs, rewards, last, out, faults>>

VisitBlock ==
  /\ Visits(pos + 1, {"block"})
  /\ pos + 1 = own
  /\ \/ block' = TRUE /\ pos' = pos + 1 /\ UNCHANGED <<pc, faults>>
     \/ pc' = "failed" /\ Fault("block") /\ UNCHANGED <<block, pos>>
  /\ UNCHANGED <<car, region, entries, txs, rewards, last, out>>

\* Variant: the first reward is the fee reward.
leaderFromRewardsFirst(list) == IF list = <<>> THEN "" ELSE list[1].pubkey

\* leaderFromRewards: the Fee reward, or a lone one, whatever its type.
leaderFromRewards(list) ==
  LET fees == {k \in DOMAIN list : list[k].type = "Fee"}
  IN  IF fees # {} THEN list[Min(fees)].pubkey
      ELSE IF Len(list) = 1 THEN list[1].pubkey ELSE ""

\* Variant: every entry in the region is counted.
LinksOfRegion == Joined([i \in 1..pos |-> i], entries, [e \in entries |-> car[e].txs])

\* The transactions the block's entries link to, of those entries it has met.
Links == Joined(car[own].entries, entries, [e \in entries |-> car[e].txs])

\* The end of the region: the block is put together along its own links, and
\* what they do not find is left out.  The rewards may not be readable.
\* ("Block node not found in region" cannot happen here: see BlockIsMet.)
Assemble ==
  /\ pc = "walk"
  /\ pos = last
  /\ block
  /\ \E leader \in {""} \cup (IF car[own].rewards \in rewards
                              THEN {leaderFromRewards(car[car[own].rewards].list)}
                              ELSE {}) :
       out' = [Leader |-> leader, TxCount |-> Len(Links), Txs |-> Only(Links, txs)]
  /\ pc' = "parsed"
  /\ UNCHANGED <<car, region, seen, last, faults>>

Visit == VisitTransaction \/ VisitEntry \/ VisitRewards \/ VisitBlock \/ VisitOther \/ BadSection

Next ==
  \/ \E s \in Produced : ReadBlock(s)
  \/ anchorFound \/ anchorSkips \/ errNoAnchor
  \/ BadRegion \/ ReadRange \/ ReadRangeFails
  \/ Visit \/ Assemble

Spec == Init /\ [][Next]_vars

-----------------------------------------------------------------------------
(* Properties.                                                             *)

\* Every variable holds a value of its kind; the walk stays in the region, and
\* the maps hold what it has met there.
TypeOK ==
  /\ car \in Cars
  /\ pc \in {"idle", "anchor", "range", "walk", "parsed", "failed"}
  /\ slot \in Nat /\ back \in Nat
  /\ own \in 0..Len(car) /\ start \in 0..Len(car)
  /\ last \in 0..Len(car) /\ pos \in 0..last
  /\ block \in BOOLEAN
  /\ entries \subseteq 1..pos /\ txs \subseteq 1..pos /\ rewards \subseteq 1..pos
  /\ out.Leader \in {""} \cup STRING
  /\ out.TxCount \in Nat /\ out.Txs \in Seq(DOMAIN car)
  /\ faults \subseteq {"lookup", "read", "whole", "tx", "entry", "block"}

\* However far the region reaches (slots skipped, lookups that failed or gave
\* another block), a block read never has or counts a transaction of a
\* neighbour.  If all entries decoded, the count is that of its slot, and its
\* transactions are those of its slot, in order, that decoded: all, if no
\* transaction failed to.  An entry that does not decode lowers the count; what
\* that does to a row is in CountIsKnown (module Reading).
BlockIsExact ==
  pc = "parsed" =>
    LET executed == Executed(car, own)
    IN  /\ ToSet(out.Txs) \subseteq ToSet(executed)
        /\ Len(out.Txs) <= out.TxCount /\ out.TxCount <= Len(executed)
        /\ "entry" \notin faults =>
             /\ out.TxCount = Len(executed)
             /\ out.Txs = Only(executed, txs)
             /\ "tx" \notin faults => out.Txs = executed

\* Who gets a lone reward that has a type, and not Fee.
LoneOther(list) ==
  {list[k].pubkey : k \in {j \in DOMAIN list : /\ Len(list) = 1
                                               /\ list[j].type \notin {"Fee", "Unset"}}}

\* The leader is the validator that built this very block, or unknown: never
\* one of a neighbour in the region, and of several rewards only that of the
\* fee.  The exception is in the code, which takes a lone reward for the fee
\* whatever its type: the leader may be the validator that gets it.
LeaderIsOwn ==
  pc = "parsed" =>
    \/ out.Leader \in {"", car[own].producer}
    \/ car[own].rewards \in rewards /\ out.Leader \in LoneOther(car[car[own].rewards].list)

\* walkSections "relies on buf starting exactly on a section boundary": whatever
\* region was asked for and whatever the server sent of the file, the walk stops
\* at an error or comes to the end with the Block node met; what a server sends
\* that ignores the range (ReadRange accepts 200 OK) never passes for a region.
BlockIsMet == pc = "walk" /\ pos = last => block

\* When every lookup, read and decoding succeeds, ReadBlock gives up on a slot
\* only if there is no block at most MaxSkipBack slots before it, or if the
\* file holds more than MaxRegion from that block to this one.
FailsForAReason ==
  pc = "failed" /\ faults = {} =>
    LET near == {s \in Produced : s < slot /\ slot - s <= MaxSkipBack}
    IN  near = {} \/ own - BlockOf(Max(near)) > MaxRegion

=============================================================================
