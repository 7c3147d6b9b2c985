---------------------------- MODULE ArchiveProofs ----------------------------
(***************************************************************************)
(* Theorems about Archive: wherever the anchor was found, the walk meets   *)
(* the Block node asked for; ReadBlock gives up for a reason; and what it  *)
(* returns is the block, however much more the region held.                *)
(***************************************************************************)
EXTENDS Archive, DataProofs

\* What the anchor and the walk keep true of their positions.
Places ==
  /\ car \in Cars
  /\ pc \in {"idle", "anchor", "range", "walk", "parsed", "failed"}
  /\ pc \in {"anchor", "range", "walk", "parsed"} =>
       /\ slot \in Produced /\ own = BlockOf(slot)
       /\ back \in Nat \ {0}
  /\ pc \in {"range", "walk"} => start \in Blocks
  /\ pc = "range" => ~block

\* The walk: from the header, which it does not get past, or from the end of a
\* Block node before the one asked for up to that one.
WalkInv ==
  pc = "walk" =>
    \/ pos = 0 /\ last \in Nat \ {0} /\ ~block /\ "whole" \in faults
    \/ pos \in 1..own /\ last = own /\ (pos = own => block)

\* Without a fault, all slots walked back over have no block, and the anchor is
\* the block of the slot it stopped at.
AnchorInv ==
  faults = {} =>
    /\ pc = "anchor" => \A s \in Produced : s < slot => back <= slot - s
    /\ pc = "range" =>
         /\ back <= MaxSkipBack
         /\ slot - back \in Produced /\ start = BlockOf(slot - back)
         /\ \A s \in Produced : s < slot => back <= slot - s

IInv == Places /\ WalkInv /\ (pc = "anchor" => ~block) /\ AnchorInv /\ FailsForAReason

USE ArchiveBounds, ArchiveCars

\* The block of a slot is a Block node of that slot, and there is only one.
LEMMA BlockOfSlot ==
  ASSUME car \in Cars, NEW s \in Produced
  PROVE  BlockOf(s) \in Blocks /\ car[BlockOf(s)].slot = s
  BY DEF BlockOf, Produced

LEMMA BlockOrder ==
  ASSUME car \in Cars, NEW s \in Produced, NEW t \in Produced, s < t
  PROVE  BlockOf(s) < BlockOf(t)
  <1>1. /\ BlockOf(s) \in Blocks /\ car[BlockOf(s)].slot = s
        /\ BlockOf(t) \in Blocks /\ car[BlockOf(t)].slot = t
    BY BlockOfSlot
  <1>2. /\ BlockOf(s) \in Nat /\ BlockOf(t) \in Nat /\ s \in Nat /\ t \in Nat
    BY <1>1 DEF Blocks
  <1>3. ~(BlockOf(t) <= BlockOf(s))
    BY <1>1, <1>2 DEF Blocks
  <1> QED
    BY <1>2, <1>3

LEMMA BlockPlace ==
  ASSUME car \in Cars, NEW i \in Blocks
  PROVE  /\ i \in DOMAIN car /\ i \in Nat /\ i > 1
         /\ car[i].kind = "block" /\ car[i].slot \in Nat /\ car[i].slot \in Produced
  BY DEF Blocks, Produced

LEMMA InitIInv == Init => IInv
  BY DEF Init, IInv, Places, WalkInv, AnchorInv, FailsForAReason

-----------------------------------------------------------------------------
(* One lemma per phase of the call.                                        *)

LEMMA ReadBlockIInv ==
  ASSUME IInv, NEW s \in Produced, ReadBlock(s)
  PROVE  IInv'
  <1>1. car' = car /\ slot' = s /\ back' = 1 /\ block' = FALSE /\ car \in Cars
    BY DEF ReadBlock, IInv, Places
  <1>2. Blocks' = Blocks /\ Produced' = Produced
    BY <1>1 DEF Blocks, Produced
  <1>3. s \in Nat /\ \A t \in Produced : t \in Nat
    BY <1>1 DEF Produced, Blocks
  <1>4. CASE own' = BlockOf(s) /\ pc' = "anchor" /\ faults' = {}
    <2>1. BlockOf(slot)' = BlockOf(s)
      BY <1>1, <1>2 DEF BlockOf
    <2>2. Places'
      BY <1>1, <1>2, <1>4, <2>1 DEF Places
    <2>3. ASSUME NEW t \in Produced, t < s
          PROVE  1 <= s - t
      BY <1>3, <2>3
    <2>4. AnchorInv'
      BY <1>1, <1>2, <1>4, <2>3 DEF AnchorInv
    <2> QED
      BY <1>1, <1>4, <2>2, <2>4 DEF IInv, WalkInv, FailsForAReason
  <1>5. CASE own' = NoNode /\ pc' = "failed" /\ faults' = {"lookup"}
    BY <1>1, <1>5 DEF IInv, Places, WalkInv, AnchorInv, FailsForAReason
  <1> QED
    BY <1>4, <1>5 DEF ReadBlock

LEMMA anchorFoundIInv ==
  ASSUME IInv, anchorFound
  PROVE  IInv'
  <1>1. /\ car' = car /\ slot' = slot /\ own' = own /\ back' = back /\ block' = block
        /\ pc = "anchor" /\ pc' = "range" /\ back <= MaxSkipBack /\ back <= slot
    BY DEF anchorFound, seen
  <1>2. /\ car \in Cars /\ slot \in Produced /\ own = BlockOf(slot)
        /\ back \in Nat \ {0} /\ ~block
    BY <1>1 DEF IInv, Places
  <1>3. Blocks' = Blocks /\ Produced' = Produced
    BY <1>1 DEF Blocks, Produced
  <1>4. BlockOf(slot)' = BlockOf(slot) /\ BlockOf(slot - back)' = BlockOf(slot - back)
    BY <1>1, <1>3 DEF BlockOf
  <1>5. start' \in Resolves(slot - back)
    BY DEF anchorFound
  <1>6. start' \in Blocks
    BY <1>2, <1>5, BlockOfSlot DEF Resolves
  <1>7. Places'
    BY <1>1, <1>2, <1>3, <1>4, <1>6 DEF Places
  <1>8. ASSUME faults' = {}
        PROVE  /\ slot - back \in Produced /\ start' = BlockOf(slot - back)
               /\ \A s \in Produced : s < slot => back <= slot - s
    <2>1. faults = {} /\ slot - back \in Produced
      BY <1>8 DEF anchorFound
    <2> QED
      BY <1>1, <1>5, <2>1 DEF Resolves, IInv, AnchorInv
  <1>9. AnchorInv'
    BY <1>1, <1>3, <1>4, <1>8 DEF AnchorInv
  <1> QED
    BY <1>1, <1>7, <1>9 DEF IInv, WalkInv, FailsForAReason

LEMMA anchorSkipsIInv ==
  ASSUME IInv, anchorSkips
  PROVE  IInv'
  <1>1. /\ car' = car /\ slot' = slot /\ own' = own /\ back' = back + 1 /\ block' = block
        /\ pc = "anchor" /\ pc' = "anchor"
    BY DEF anchorSkips, seen
  <1>2. /\ car \in Cars /\ slot \in Produced /\ own = BlockOf(slot)
        /\ back \in Nat \ {0} /\ ~block
    BY <1>1 DEF IInv, Places
  <1>3. Blocks' = Blocks /\ Produced' = Produced
    BY <1>1 DEF Blocks, Produced
  <1>4. BlockOf(slot)' = BlockOf(slot)
    BY <1>1, <1>3 DEF BlockOf
  <1>5. Places'
    BY <1>1, <1>2, <1>3, <1>4 DEF Places
  <1>6. ASSUME faults' = {}, NEW s \in Produced, s < slot
        PROVE  back + 1 <= slot - s
    <2>1. faults = {} /\ slot - back \notin Produced
      BY <1>6 DEF anchorSkips
    <2>2. back <= slot - s
      BY <1>1, <1>6, <2>1 DEF IInv, AnchorInv
    <2>3. s \in Nat /\ slot \in Nat
      BY <1>2 DEF Produced, Blocks
    <2>4. back # slot - s
      BY <1>2, <2>1, <2>3
    <2> QED
      BY <1>2, <2>2, <2>3, <2>4
  <1>7. AnchorInv'
    BY <1>1, <1>3, <1>6 DEF AnchorInv
  <1> QED
    BY <1>1, <1>2, <1>5, <1>7 DEF IInv, WalkInv, FailsForAReason

\* A step that fails keeps the invariant if it had a reason.
LEMMA FailIInv ==
  ASSUME IInv, Fail,
         faults' = {} =>
           LET near == {s \in Produced : s < slot /\ slot - s <= MaxSkipBack}
           IN  near = {} \/ own - BlockOf(Max(near)) > MaxRegion
  PROVE  IInv'
  <1>1. car' = car /\ slot' = slot /\ own' = own /\ pc' = "failed"
    BY DEF Fail, region
  <1>2. Blocks' = Blocks /\ Produced' = Produced
    BY <1>1 DEF Blocks, Produced
  <1>3. Places' /\ WalkInv' /\ AnchorInv' /\ (pc = "anchor" => ~block)'
    BY <1>1 DEF IInv, Places, WalkInv, AnchorInv
  <1>4. FailsForAReason'
    <2> DEFINE near == {s \in Produced : s < slot /\ slot - s <= MaxSkipBack}
    <2>1. near' = near
      BY <1>1, <1>2
    <2>2. BlockOf(Max(near))' = BlockOf(Max(near))
      BY <1>1, <1>2, <2>1 DEF BlockOf
    <2> QED
      BY <1>1, <2>1, <2>2 DEF FailsForAReason
  <1> QED
    BY <1>3, <1>4 DEF IInv

LEMMA errNoAnchorIInv ==
  ASSUME IInv, errNoAnchor
  PROVE  IInv'
  <1>1. /\ pc = "anchor" /\ Fail /\ faults' = faults
        /\ back > MaxSkipBack \/ back > slot
    BY DEF errNoAnchor
  <1>2. car \in Cars /\ slot \in Produced /\ back \in Nat
    BY <1>1 DEF IInv, Places
  <1>3. slot \in Nat /\ \A s \in Produced : s \in Nat
    BY <1>2 DEF Produced, Blocks
  <1>4. ASSUME faults = {}, NEW s \in Produced, s < slot, slot - s <= MaxSkipBack
        PROVE  FALSE
    <2>1. back <= slot - s
      BY <1>1, <1>4 DEF IInv, AnchorInv
    <2> QED
      BY <1>1, <1>2, <1>3, <1>4, <2>1, ArchiveBounds
  <1> QED
    BY <1>1, <1>4, FailIInv

LEMMA BadRegionIInv ==
  ASSUME IInv, BadRegion
  PROVE  IInv'
  <1>1. /\ pc = "range" /\ Fail /\ faults' = faults
        /\ own <= start \/ own - start > MaxRegion
    BY DEF BadRegion
  <1>2. car \in Cars /\ slot \in Produced /\ back \in Nat \ {0} /\ own = BlockOf(slot)
    BY <1>1 DEF IInv, Places
  <1>3. slot \in Nat /\ \A s \in Produced : s \in Nat
    BY <1>2 DEF Produced, Blocks
  <1> DEFINE near == {s \in Produced : s < slot /\ slot - s <= MaxSkipBack}
  <1>4. ASSUME faults = {}
        PROVE  own - BlockOf(Max(near)) > MaxRegion
    <2>1. /\ back <= MaxSkipBack
          /\ slot - back \in Produced /\ start = BlockOf(slot - back)
          /\ \A s \in Produced : s < slot => back <= slot - s
      BY <1>1, <1>4 DEF IInv, AnchorInv
    <2>2. slot - back \in near
      BY <1>2, <1>3, <2>1, ArchiveBounds
    <2>3. ASSUME NEW s \in near
          PROVE  slot - back >= s
      <3>1. s \in Nat /\ back <= slot - s
        BY <1>3, <2>1
      <3> QED
        BY <1>2, <1>3, <3>1
    <2>4. \A x \in near : (\A y \in near : x >= y) => x = slot - back
      BY <1>2, <1>3, <2>2, <2>3
    <2>5. Max(near) = slot - back
      BY <2>2, <2>3, <2>4 DEF Max
    <2>6. BlockOf(slot - back) < BlockOf(slot)
      BY <1>2, <1>3, <2>1, BlockOrder
    <2>7. BlockOf(slot) \in Nat /\ BlockOf(slot - back) \in Nat
      BY <1>2, <2>1, BlockOfSlot, BlockPlace
    <2> QED
      BY <1>1, <1>2, <2>1, <2>5, <2>6, <2>7
  <1> QED
    BY <1>1, <1>4, FailIInv

LEMMA ReadRangeIInv ==
  ASSUME IInv, ReadRange
  PROVE  IInv'
  <1>1. /\ car' = car /\ slot' = slot /\ own' = own /\ back' = back /\ start' = start
        /\ block' = block /\ pc = "range" /\ pc' = "walk" /\ own > start
    BY DEF ReadRange, region
  <1>2. /\ car \in Cars /\ slot \in Produced /\ own = BlockOf(slot)
        /\ back \in Nat \ {0} /\ start \in Blocks /\ ~block
    BY <1>1 DEF IInv, Places
  <1>3. Blocks' = Blocks /\ Produced' = Produced
    BY <1>1 DEF Blocks, Produced
  <1>4. BlockOf(slot)' = BlockOf(slot)
    BY <1>1, <1>3 DEF BlockOf
  <1>5. own \in Nat /\ start \in Nat /\ start > 1
    BY <1>2, BlockOfSlot, BlockPlace
  <1>6. WalkInv'
    <2>1. CASE pos' = start /\ last' = own
      BY <1>1, <1>5, <2>1 DEF WalkInv
    <2>2. CASE pos' = 0 /\ last' = own - start /\ Fault("whole")
      BY <1>1, <1>2, <1>5, <2>2 DEF WalkInv, Fault
    <2> QED
      BY <2>1, <2>2 DEF ReadRange
  <1> QED
    BY <1>1, <1>2, <1>3, <1>4, <1>6 DEF IInv, Places, AnchorInv, FailsForAReason

\* One node of the walk.  The header is met by BadSection only, and the Block
\* node asked for by VisitBlock.
LEMMA VisitIInv ==
  ASSUME IInv, Visit
  PROVE  IInv'
  <1>1. pc = "walk" /\ pos < last /\ car' = car /\ slot' = slot /\ own' = own
    BY DEF Visit, VisitTransaction, VisitEntry, VisitRewards, VisitBlock, VisitOther,
           BadSection, Visits, Fail, region
  <1>2. /\ car \in Cars /\ slot \in Produced /\ own = BlockOf(slot)
        /\ back \in Nat \ {0} /\ start \in Blocks
    BY <1>1 DEF IInv, Places
  <1>3. Blocks' = Blocks /\ Produced' = Produced
    BY <1>1 DEF Blocks, Produced
  <1>4. BlockOf(slot)' = BlockOf(slot)
    BY <1>1, <1>3 DEF BlockOf
  <1>5. own \in Blocks /\ own \in DOMAIN car /\ own \in Nat /\ own > 1
        /\ car[own].kind = "block"
    BY <1>2, BlockOfSlot, BlockPlace
  <1>6. car[1].kind = "header" /\ 1 \in DOMAIN car /\ Len(car) \in Nat
        /\ DOMAIN car = 1..Len(car)
    BY <1>2
  <1>7. CASE BadSection
    <2>1. Fail /\ faults' = faults /\ car[pos + 1].kind = "header"
      BY <1>7 DEF BadSection, Visits
    <2>2. CASE "whole" \in faults
      BY <2>1, <2>2, FailIInv
    <2>3. CASE pos \in 1..own /\ last = own
      <3>1. pos + 1 \in DOMAIN car /\ pos + 1 # 1
        BY <1>1, <1>5, <1>6, <2>3
      <3> QED
        BY <1>2, <2>1, <3>1
    <2> QED
      BY <1>1, <2>2, <2>3 DEF IInv, WalkInv
  <1>8. CASE VisitTransaction \/ VisitEntry \/ VisitRewards \/ VisitOther
    <2>1. /\ pc' = pc /\ pos' = pos + 1 /\ last' = last /\ block' = block /\ back' = back
          /\ start' = start /\ faults \subseteq faults'
          /\ car[pos + 1].kind # "header"
          /\ ~(pos + 1 = own)
      BY <1>5, <1>8 DEF VisitTransaction, VisitEntry, VisitRewards, VisitOther, Visits,
                        region, Fault
    <2>2. pos # 0
      BY <1>6, <2>1
    <2>3. pos \in 1..own /\ last = own
      BY <1>1, <2>2 DEF IInv, WalkInv
    <2>4. WalkInv'
      BY <1>1, <1>5, <2>1, <2>3 DEF WalkInv
    <2> QED
      BY <1>1, <1>2, <1>3, <1>4, <2>1, <2>4 DEF IInv, Places, AnchorInv, FailsForAReason
  <1>9. CASE VisitBlock
    <2>1. /\ last' = last /\ back' = back /\ start' = start /\ pos + 1 = own
          /\ car[pos + 1].kind # "header"
      BY <1>9 DEF VisitBlock, Visits, region
    <2>2. CASE block' = TRUE /\ pos' = pos + 1 /\ UNCHANGED <<pc, faults>>
      <3>1. pos # 0
        BY <1>6, <2>1
      <3>2. pos \in 1..own /\ last = own
        BY <1>1, <3>1 DEF IInv, WalkInv
      <3>3. WalkInv'
        BY <1>1, <1>5, <2>1, <2>2, <3>2 DEF WalkInv
      <3> QED
        BY <1>1, <1>2, <1>3, <1>4, <2>1, <2>2, <3>3 DEF IInv, Places, AnchorInv, FailsForAReason
    <2>3. CASE pc' = "failed" /\ Fault("block")
      BY <1>1, <1>2, <2>3 DEF Fault, IInv, Places, WalkInv, AnchorInv, FailsForAReason
    <2> QED
      BY <1>9, <2>2, <2>3 DEF VisitBlock
  <1> QED
    BY <1>7, <1>8, <1>9 DEF Visit

-----------------------------------------------------------------------------
(* Theorems.                                                               *)

LEMMA Invariance == Spec => []IInv
  <1>1. ASSUME IInv, [Next]_vars
        PROVE  IInv'
    <2>1. CASE \E s \in Produced : ReadBlock(s)
      BY <1>1, <2>1, ReadBlockIInv
    <2>2. CASE anchorFound \/ anchorSkips \/ errNoAnchor
      BY <1>1, <2>2, anchorFoundIInv, anchorSkipsIInv, errNoAnchorIInv
    <2>3. CASE BadRegion
      BY <1>1, <2>3, BadRegionIInv
    <2>4. CASE ReadRange
      BY <1>1, <2>4, ReadRangeIInv
    <2>5. CASE ReadRangeFails
      BY <1>1, <2>5, FailIInv DEF ReadRangeFails, Fault
    <2>6. CASE Visit
      BY <1>1, <2>6, VisitIInv
    <2>7. CASE Assemble
      <3>1. /\ pc = "walk" /\ pc' = "parsed" /\ UNCHANGED <<car, slot, own, back>>
        BY <2>7 DEF Assemble, region
      <3>2. Blocks' = Blocks /\ Produced' = Produced
        BY <3>1 DEF Blocks, Produced
      <3>3. BlockOf(slot)' = BlockOf(slot)
        BY <3>1, <3>2 DEF BlockOf
      <3>4. Places'
        BY <1>1, <3>1, <3>2, <3>3 DEF IInv, Places
      <3> QED
        BY <3>1, <3>4 DEF IInv, WalkInv, AnchorInv, FailsForAReason
    <2>8. CASE UNCHANGED vars
      <3>1. /\ car' = car /\ pc' = pc /\ slot' = slot /\ own' = own /\ back' = back
            /\ start' = start /\ pos' = pos /\ last' = last /\ block' = block /\ faults' = faults
        BY <2>8 DEF vars, region, seen
      <3>2. Blocks' = Blocks /\ Produced' = Produced
        BY <3>1 DEF Blocks, Produced
      <3>3. ASSUME NEW s PROVE BlockOf(s)' = BlockOf(s)
        BY <3>1, <3>2 DEF BlockOf
      <3>4. FailsForAReason'
        <4> DEFINE near == {s \in Produced : s < slot /\ slot - s <= MaxSkipBack}
        <4>1. near' = near
          BY <3>1, <3>2
        <4>2. BlockOf(Max(near))' = BlockOf(Max(near))
          BY <3>1, <3>2, <4>1 DEF BlockOf
        <4>3. FailsForAReason
          BY <1>1 DEF IInv
        <4> QED
          BY <3>1, <4>1, <4>2, <4>3 DEF FailsForAReason
      <3>5. BlockOf(slot)' = BlockOf(slot) /\ BlockOf(slot - back)' = BlockOf(slot - back)
        BY <3>1, <3>2 DEF BlockOf
      <3> QED
        BY <1>1, <3>1, <3>2, <3>4, <3>5 DEF IInv, Places, WalkInv, AnchorInv
    <2> QED
      BY <1>1, <2>1, <2>2, <2>3, <2>4, <2>5, <2>6, <2>7, <2>8 DEF Next
  <1> QED
    BY <1>1, InitIInv, PTL DEF Spec

\* "walkSections relies on buf starting exactly on a section boundary"
\* (block.go): in every CAR, from whatever anchor the lookups gave, the walk
\* that comes to the end of its region has met the Block node asked for.
THEOREM WalkMeetsBlock == Spec => []BlockIsMet
  <1>1. IInv => BlockIsMet
    BY BlockOfSlot, BlockPlace DEF IInv, WalkInv, Places, BlockIsMet
  <1> QED
    BY <1>1, Invariance, PTL

\* ReadBlock (block.go) without a failed lookup or read gives up only for lack
\* of a block within MaxSkipBack slots, or over the cap on the region.
THEOREM GivesUpForAReason == Spec => []FailsForAReason
  <1>1. IInv => FailsForAReason
    BY DEF IInv
  <1> QED
    BY <1>1, Invariance, PTL

-----------------------------------------------------------------------------
(* What the walk has met, and what is made of it.                          *)

HIDE ArchiveCars

LEMMA CarShape ==
  ASSUME NEW c \in Cars
  PROVE  DOMAIN c = 1..Len(c) /\ Len(c) \in Nat \ {0}
  BY ArchiveCars

\* The maps hold nodes of their kind.  A walk that got past the header began
\* behind a Block node before the one asked for, and has all it passed unless
\* some did not decode.
Met ==
  /\ pc \in {"anchor", "range"} => pos = 0
  /\ \A i \in entries : car[i].kind = "entry"
  /\ \A i \in txs : car[i].kind = "tx"
  /\ \A i \in rewards : car[i].kind = "rewards"
  /\ pc = "walk" /\ pos # 0 =>
       /\ start < own
       /\ \A i \in DOMAIN car : start < i /\ i <= pos =>
            /\ car[i].kind = "entry" /\ "entry" \notin faults => i \in entries
            /\ car[i].kind = "tx" /\ "tx" \notin faults => i \in txs

\* What TypeOK says of the walk, and what it says of the result.
WalkTypes ==
  /\ car \in Cars
  /\ pc \in {"idle", "anchor", "range", "walk", "parsed", "failed"}
  /\ slot \in Nat /\ back \in Nat
  /\ own \in 0..Len(car) /\ start \in 0..Len(car)
  /\ last \in 0..Len(car) /\ pos \in 0..last
  /\ block \in BOOLEAN
  /\ entries \subseteq 1..pos /\ txs \subseteq 1..pos /\ rewards \subseteq 1..pos
  /\ faults \subseteq {"lookup", "read", "whole", "tx", "entry", "block"}

OutTypes ==
  /\ out.Leader \in {""} \cup STRING
  /\ out.TxCount \in Nat /\ out.Txs \in Seq(DOMAIN car)

LEMMA TypesSplit == TypeOK <=> WalkTypes /\ OutTypes
  BY DEF TypeOK, WalkTypes, OutTypes

Exact == WalkTypes /\ OutTypes /\ Met /\ BlockIsExact /\ LeaderIsOwn

LEMMA BeforeBlock ==
  ASSUME car \in Cars, NEW i \in DOMAIN car, NEW b \in Blocks, b < i
  PROVE  b <= Before(car, i) /\ Before(car, i) \in Nat
  <1> DEFINE earlier == {j \in DOMAIN car : j < i /\ car[j].kind = "block"}
  <1>1. DOMAIN car = 1..Len(car) /\ Len(car) \in Nat
    BY CarShape
  <1>2. b \in earlier /\ earlier \subseteq Nat /\ i \in Nat /\ \A j \in earlier : j <= i
    BY <1>1 DEF Blocks
  <1>3. b <= Max(earlier) /\ Max(earlier) \in Nat
    <2> HIDE DEF earlier
    <2> QED
      BY <1>2, MaxNat
  <1> QED
    BY <1>2, <1>3 DEF Before

\* All the links of a block, and where they lead.
LEMMA BlockLinks ==
  ASSUME car \in Cars, NEW i \in Blocks
  PROVE  LET es == car[i].entries
             all == Joined(es, ToSet(es), [e \in ToSet(es) |-> car[e].txs])
         IN  /\ es \in Seq(DOMAIN car)
             /\ \A e \in ToSet(es) : /\ e \in DOMAIN car /\ Before(car, i) < e /\ e < i
                                      /\ car[e].kind = "entry"
                                      /\ car[e].txs \in Seq(DOMAIN car)
             /\ all = Executed(car, i)
             /\ ToSet(all) = {j \in DOMAIN car : Before(car, i) < j /\ j <= i /\ car[j].kind = "tx"}
  <1> DEFINE es == car[i].entries
             all == Joined(es, ToSet(es), [e \in ToSet(es) |-> car[e].txs])
             E == {j \in DOMAIN car : Before(car, i) < j /\ j < i /\ car[j].kind = "entry"}
             nodes == [j \in 1..i |-> j]
             T == {j \in DOMAIN car : Before(car, i) < j /\ car[j].kind = "tx"}
  <1>1. i \in DOMAIN car /\ car[i].kind = "block" /\ DOMAIN car = 1..Len(car) /\ Len(car) \in Nat
    BY CarShape DEF Blocks
  <1>2. es \in Seq(E) /\ all = Executed(car, i)
        /\ \A e \in DOMAIN car : car[e].kind = "entry" => car[e].txs \in Seq(DOMAIN car)
    BY <1>1, ArchiveLinks
  <1>3. E \subseteq DOMAIN car
    OBVIOUS
  <1>4. es \in Seq(DOMAIN car)
    <2> HIDE DEF E, es
    <2> QED
      BY <1>2, <1>3, SeqMonotonic
  <1>5. ASSUME NEW e \in ToSet(es)
        PROVE  e \in E
    <2> HIDE DEF E, es
    <2> QED
      BY <1>2, <1>5, ElementOfSeq, LenProperties DEF ToSet
  <1>6. nodes \in Seq(Nat) /\ ToSet(nodes) = 1..i
    <2>1. nodes \in [1..i -> Nat] /\ i \in Nat
      BY <1>1
    <2> QED
      BY <2>1, SeqDef DEF ToSet
  <1>7. ToSet(Only(nodes, T)) = (1..i) \cap T
    <2> HIDE DEF nodes, T
    <2>1. ToSet(Only(nodes, T)) = ToSet(nodes) \cap T
      BY <1>6, OnlyValue
    <2> QED
      BY <1>6, <2>1
  <1>8. ToSet(all) = {j \in DOMAIN car : Before(car, i) < j /\ j <= i /\ car[j].kind = "tx"}
    <2>1. ToSet(all) = (1..i) \cap T
      <3> HIDE DEF all
      <3> QED
        BY <1>2, <1>7 DEF Executed
    <2> HIDE DEF all
    <2> QED
      BY <1>1, <2>1
  <1> HIDE DEF all
  <1> QED
    BY <1>2, <1>4, <1>5, <1>8 DEF all

LEMMA LinksExact ==
  ASSUME IInv, Exact, pc = "walk", pos = last
  PROVE  /\ Links \in Seq(DOMAIN car) /\ Len(Links) \in Nat
         /\ ToSet(Links) \subseteq ToSet(Executed(car, own))
         /\ Len(Links) <= Len(Executed(car, own))
         /\ "entry" \notin faults => Links = Executed(car, own)
         /\ "tx" \notin faults => ToSet(Executed(car, own)) \subseteq txs
  <1> DEFINE es == car[own].entries
             f == [e \in ToSet(es) |-> car[e].txs]
             h == [e \in entries |-> car[e].txs]
             all == Joined(es, ToSet(es), f)
  <1>1. /\ car \in Cars /\ own = BlockOf(slot) /\ slot \in Produced /\ start \in Blocks
        /\ DOMAIN car = 1..Len(car) /\ Len(car) \in Nat
    BY CarShape DEF IInv, Places
  <1>2. own \in Blocks /\ own \in DOMAIN car /\ own \in Nat
    BY <1>1, BlockOfSlot, BlockPlace
  <1>3. pos # 0 /\ pos = own
    BY <1>2 DEF IInv, WalkInv
  <1>4. /\ es \in Seq(DOMAIN car)
        /\ \A e \in ToSet(es) : /\ e \in DOMAIN car /\ Before(car, own) < e /\ e < own
                                 /\ car[e].kind = "entry" /\ car[e].txs \in Seq(DOMAIN car)
        /\ all = Executed(car, own)
        /\ ToSet(all) = {j \in DOMAIN car : /\ Before(car, own) < j /\ j <= own
                                             /\ car[j].kind = "tx"}
    BY <1>1, <1>2, BlockLinks
  <1>5. \A n \in DOMAIN es : es[n] \in ToSet(es)
    BY DEF ToSet
  <1>6. \A n \in DOMAIN es : es[n] \in ToSet(es) => f[es[n]] \in Seq(DOMAIN car)
    BY <1>4
  <1>7. \A n \in DOMAIN es : es[n] \in entries => es[n] \in ToSet(es) /\ h[es[n]] = f[es[n]]
    BY <1>5
  <1>8. \A n \in DOMAIN es : es[n] \in entries => h[es[n]] \in Seq(DOMAIN car)
    BY <1>4, <1>5
  <1>9. Links = Joined(es, entries, h)
    BY DEF Links
  <1>10. /\ "entry" \notin faults => ToSet(es) \subseteq entries
         /\ "tx" \notin faults => ToSet(all) \subseteq txs
    <2>1. start < own /\ start \in Nat
      BY <1>1, <1>2, <1>3, BlockPlace DEF Exact, Met
    <2>2. start <= Before(car, own) /\ Before(car, own) \in Nat
      BY <1>1, <1>2, <2>1, BeforeBlock
    <2>3. ASSUME NEW j \in DOMAIN car, Before(car, own) < j, j <= own
          PROVE  start < j /\ j <= pos
      BY <1>1, <1>3, <2>1, <2>2, <2>3
    <2>4. \A i \in DOMAIN car : start < i /\ i <= pos =>
            /\ car[i].kind = "entry" /\ "entry" \notin faults => i \in entries
            /\ car[i].kind = "tx" /\ "tx" \notin faults => i \in txs
      BY <1>3 DEF Exact, Met
    <2>5. \A e \in ToSet(es) : e <= own
      BY <1>1, <1>2, <1>4
    <2> HIDE DEF all, es
    <2> QED
      BY <1>4, <2>3, <2>4, <2>5
  <1> HIDE DEF f, h, all, es
  <1>11. /\ Links \in Seq(DOMAIN car)
         /\ ToSet(Links) = UNION {ToSet(h[es[n]]) : n \in {m \in DOMAIN es : es[m] \in entries}}
    BY <1>4, <1>8, <1>9, JoinedValue
  <1>12. ToSet(all) = UNION {ToSet(f[es[n]]) : n \in {m \in DOMAIN es : es[m] \in ToSet(es)}}
    BY <1>4, <1>6, JoinedValue DEF all
  <1>13. ToSet(Links) \subseteq ToSet(all)
    BY <1>7, <1>11, <1>12
  <1>14. Len(Links) <= Len(all)
    BY <1>4, <1>6, <1>7, <1>9, JoinedLess DEF all
  <1>15. ToSet(es) \subseteq entries => Links = all
    BY <1>4, <1>5, <1>7, <1>9, JoinedSame DEF all
  <1> QED
    BY <1>4, <1>10, <1>11, <1>13, <1>14, <1>15, LenProperties

\* The leader is taken from the rewards of the block itself.
LEMMA LeaderExact ==
  ASSUME car \in Cars, NEW i \in Blocks, car[i].rewards \in DOMAIN car,
         car[car[i].rewards].kind = "rewards"
  PROVE  LET leader == leaderFromRewards(car[car[i].rewards].list)
         IN  /\ leader \in {""} \cup STRING
             /\ \/ leader \in {"", car[i].producer}
                \/ leader \in LoneOther(car[car[i].rewards].list)
  <1> DEFINE list == car[car[i].rewards].list
             fees == {k \in DOMAIN list : list[k].type = "Fee"}
  <1>1. /\ list \in Seq([type : STRING, pubkey : STRING])
        /\ \A k \in DOMAIN list :
             list[k].type = "Fee" \/ (Len(list) = 1 /\ list[k].type = "Unset")
               => list[k].pubkey = car[i].producer
    BY ArchiveRewards DEF Blocks
  <1>2. /\ DOMAIN list = 1..Len(list) /\ Len(list) \in Nat
        /\ \A k \in DOMAIN list : list[k].pubkey \in STRING
    <2> HIDE DEF list
    <2>1. DOMAIN list = 1..Len(list) /\ Len(list) \in Nat
      BY <1>1, LenProperties
    <2>2. ASSUME NEW k \in DOMAIN list
          PROVE  list[k] \in [type : STRING, pubkey : STRING]
      BY <1>1, <2>1, ElementOfSeq
    <2> QED
      BY <2>1, <2>2
  <1> HIDE DEF list
  <1>3. CASE fees # {}
    <2>1. fees \subseteq Nat
      BY <1>2
    <2> DEFINE k == Min(fees)
    <2>2. k \in fees
      <3> HIDE DEF fees
      <3> QED
        BY <1>3, <2>1, MinNat
    <2>3. leaderFromRewards(list) = list[k].pubkey
      BY <1>3 DEF leaderFromRewards
    <2> HIDE DEF k
    <2>4. k \in DOMAIN list /\ list[k].type = "Fee"
      BY <2>2
    <2>5. list[k].pubkey = car[i].producer /\ list[k].pubkey \in STRING
      BY <1>1, <1>2, <2>4
    <2> QED
      BY <2>3, <2>5 DEF list
  <1>4. CASE fees = {} /\ Len(list) = 1
    <2>1. leaderFromRewards(list) = list[1].pubkey
      BY <1>4 DEF leaderFromRewards
    <2>2. 1 \in DOMAIN list /\ list[1].pubkey \in STRING
      BY <1>2, <1>4
    <2>3. list[1].type # "Fee"
      BY <1>4, <2>2
    <2>4. CASE list[1].type = "Unset"
      <3>1. list[1].pubkey = car[i].producer
        BY <1>1, <1>4, <2>2, <2>4
      <3> QED
        BY <2>1, <2>2, <3>1 DEF list
    <2>5. CASE list[1].type # "Unset"
      <3>1. list[1].pubkey \in LoneOther(list)
        BY <1>4, <2>2, <2>3, <2>5 DEF LoneOther
      <3> QED
        BY <2>1, <2>2, <3>1 DEF list
    <2> QED
      BY <2>4, <2>5
  <1>5. CASE fees = {} /\ Len(list) # 1
    <2>1. leaderFromRewards(list) = ""
      BY <1>5 DEF leaderFromRewards
    <2> QED
      BY <2>1 DEF list
  <1> QED
    BY <1>3, <1>4, <1>5

LEMMA AssembleExact ==
  ASSUME IInv, Exact, Assemble
  PROVE  Exact'
  <1>1. /\ car' = car /\ slot' = slot /\ own' = own /\ back' = back /\ start' = start
        /\ pos' = pos /\ last' = last /\ block' = block /\ entries' = entries
        /\ txs' = txs /\ rewards' = rewards /\ faults' = faults
        /\ pc = "walk" /\ pos = last /\ pc' = "parsed"
    BY DEF Assemble, region, seen
  <1>2. PICK leader :
          /\ \/ leader = ""
             \/ /\ car[own].rewards \in rewards
                /\ leader = leaderFromRewards(car[car[own].rewards].list)
          /\ out' = [Leader |-> leader, TxCount |-> Len(Links), Txs |-> Only(Links, txs)]
    BY DEF Assemble
  <1>3. /\ Links \in Seq(DOMAIN car) /\ Len(Links) \in Nat
        /\ ToSet(Links) \subseteq ToSet(Executed(car, own))
        /\ Len(Links) <= Len(Executed(car, own))
        /\ "entry" \notin faults => Links = Executed(car, own)
        /\ "tx" \notin faults => ToSet(Executed(car, own)) \subseteq txs
    BY <1>1, LinksExact
  <1>4. /\ car \in Cars /\ own \in Blocks /\ DOMAIN car = 1..Len(car) /\ Len(car) \in Nat
    BY <1>1, BlockOfSlot, CarShape DEF IInv, Places
  <1>5. /\ leader \in {""} \cup STRING
        /\ \/ leader \in {"", car[own].producer}
           \/ car[own].rewards \in rewards /\ leader \in LoneOther(car[car[own].rewards].list)
    <2>1. CASE leader = ""
      BY <2>1
    <2>2. CASE car[own].rewards \in rewards /\ leader = leaderFromRewards(car[car[own].rewards].list)
      <3>1. pos \in 0..last /\ last \in 0..Len(car) /\ rewards \subseteq 1..pos
        BY DEF Exact, WalkTypes
      <3>2. car[own].rewards \in DOMAIN car
        <4>1. car[own].rewards \in 1..pos
          BY <2>2, <3>1
        <4>2. pos <= Len(car) /\ pos \in Int
          BY <1>4, <3>1
        <4> QED
          BY <1>4, <4>1, <4>2
      <3>3. car[car[own].rewards].kind = "rewards"
        BY <2>2 DEF Exact, Met
      <3> QED
        BY <1>4, <2>2, <3>2, <3>3, LeaderExact
    <2> QED
      BY <1>2, <2>1, <2>2
  <1>6. /\ Only(Links, txs) \in Seq(DOMAIN car)
        /\ ToSet(Only(Links, txs)) = ToSet(Links) \cap txs
        /\ Len(Only(Links, txs)) <= Len(Links)
    BY <1>3, OnlyValue, OnlyLess
  <1>7. "entry" \notin faults =>
          /\ Len(Links) = Len(Executed(car, own))
          /\ Only(Links, txs) = Only(Executed(car, own), txs)
          /\ "tx" \notin faults => Only(Links, txs) = Executed(car, own)
    BY <1>3, OnlyAll
  <1>8. WalkTypes' /\ OutTypes'
    BY <1>1, <1>2, <1>3, <1>5, <1>6 DEF Exact, WalkTypes, OutTypes
  <1>9. Met'
    BY <1>1 DEF Exact, Met
  <1>10. BlockIsExact'
    BY <1>1, <1>2, <1>3, <1>6, <1>7 DEF BlockIsExact
  <1>11. LeaderIsOwn'
    BY <1>1, <1>2, <1>5 DEF LeaderIsOwn
  <1> QED
    BY <1>8, <1>9, <1>10, <1>11 DEF Exact

LEMMA InitExact == Init => Exact
  <1> SUFFICES ASSUME Init PROVE Exact
    OBVIOUS
  <1>1. car \in Cars /\ Len(car) \in Nat
    BY CarShape DEF Init
  <1>2. NoBlock.Txs \in Seq(DOMAIN car) /\ NoBlock.TxCount = 0 /\ NoBlock.Leader = ""
    BY EmptySeq DEF NoBlock
  <1>3. WalkTypes
    <2>1. 0 \in 0..Len(car) /\ 0 \in 0..0
      BY <1>1
    <2>2. /\ pc = "idle" /\ slot = 0 /\ own = 0 /\ back = 0 /\ start = 0 /\ pos = 0 /\ last = 0
          /\ block = FALSE /\ entries = {} /\ txs = {} /\ rewards = {} /\ faults = {}
      BY DEF Init, NoNode
    <2> QED
      BY <1>1, <2>1, <2>2 DEF WalkTypes
  <1>4. OutTypes
    <2>1. out = NoBlock
      BY DEF Init
    <2> QED
      BY <1>2, <2>1 DEF OutTypes, NoBlock
  <1> QED
    BY <1>3, <1>4 DEF Init, Exact, Met, BlockIsExact, LeaderIsOwn

\* A step that fails.
LEMMA FailExact ==
  ASSUME Exact, Fail, faults' \subseteq faults \cup {"read", "block"}
  PROVE  Exact'
  <1>1. /\ car' = car /\ slot' = slot /\ own' = own /\ back' = back /\ start' = start
        /\ pos' = pos /\ last' = last /\ block' = block /\ entries' = entries
        /\ txs' = txs /\ rewards' = rewards /\ out' = out /\ pc' = "failed"
    BY DEF Fail, region, seen
  <1> QED
    BY <1>1 DEF Exact, WalkTypes, OutTypes, Met, BlockIsExact, LeaderIsOwn, Blocks

\* The steps before the walk.
LEMMA RegionExact ==
  ASSUME IInv, Exact,
         (\E s \in Produced : ReadBlock(s)) \/ anchorFound \/ anchorSkips \/ ReadRange
  PROVE  Exact'
  <1>1. car \in Cars /\ DOMAIN car = 1..Len(car) /\ Len(car) \in Nat
    BY CarShape DEF Exact, WalkTypes
  <1>2. \A i \in Blocks : i \in 0..Len(car) /\ i \in Nat
    BY <1>1 DEF Blocks
  <1>3. ASSUME NEW s \in Produced, ReadBlock(s)
        PROVE  Exact'
    <2>1. /\ car' = car /\ slot' = s /\ back' = 1 /\ start' = 0 /\ pos' = 0 /\ last' = 0
          /\ block' = FALSE /\ entries' = {} /\ txs' = {} /\ rewards' = {} /\ out' = NoBlock
          /\ pc' \in {"anchor", "failed"} /\ faults' \subseteq {"lookup"}
          /\ own' \in 0..Len(car)
      BY <1>1, <1>2, <1>3, BlockOfSlot DEF ReadBlock, NoNode
    <2>2. s \in Nat
      BY <1>1, ArchiveCars DEF Produced, Blocks
    <2>3. NoBlock.Txs \in Seq(DOMAIN car) /\ NoBlock.TxCount = 0 /\ NoBlock.Leader = ""
      BY EmptySeq DEF NoBlock
    <2>4. WalkTypes'
      <3>1. 0 \in 0..Len(car) /\ 0 \in 0..0
        BY <1>1
      <3> QED
        BY <1>1, <2>1, <2>2, <3>1 DEF Exact, WalkTypes
    <2>5. OutTypes'
      BY <2>1, <2>3 DEF OutTypes, NoBlock
    <2> QED
      BY <2>1, <2>4, <2>5 DEF Exact, Met, BlockIsExact, LeaderIsOwn
  <1>4. CASE anchorFound
    <2>1. /\ car' = car /\ slot' = slot /\ own' = own /\ back' = back
          /\ pos' = pos /\ last' = last /\ block' = block /\ entries' = entries
          /\ txs' = txs /\ rewards' = rewards /\ out' = out
          /\ pc = "anchor" /\ pc' = "range" /\ faults' \subseteq faults \cup {"lookup"}
          /\ start' \in Resolves(slot - back)
      BY <1>4 DEF anchorFound, seen
    <2>2. start' \in 0..Len(car)
      BY <1>1, <1>2, <2>1, BlockOfSlot DEF Resolves
    <2> QED
      BY <1>1, <2>1, <2>2 DEF Exact, WalkTypes, OutTypes, Met, BlockIsExact, LeaderIsOwn, Blocks
  <1>5. CASE anchorSkips
    <2>1. /\ car' = car /\ slot' = slot /\ own' = own /\ back' = back + 1 /\ start' = start
          /\ pos' = pos /\ last' = last /\ block' = block /\ entries' = entries
          /\ txs' = txs /\ rewards' = rewards /\ out' = out
          /\ pc = "anchor" /\ pc' = "anchor" /\ faults' \subseteq faults \cup {"lookup"}
      BY <1>5 DEF anchorSkips, seen
    <2>2. back + 1 \in Nat
      BY DEF Exact, WalkTypes
    <2> QED
      BY <1>1, <2>1, <2>2 DEF Exact, WalkTypes, OutTypes, Met, BlockIsExact, LeaderIsOwn, Blocks
  <1>6. CASE ReadRange
    <2>1. /\ car' = car /\ slot' = slot /\ own' = own /\ back' = back /\ start' = start
          /\ block' = block /\ entries' = entries /\ txs' = txs /\ rewards' = rewards
          /\ out' = out /\ pc = "range" /\ pc' = "walk" /\ own > start
          /\ \/ pos' = start /\ last' = own /\ faults' = faults
             \/ pos' = 0 /\ last' = own - start /\ faults' = faults \cup {"whole"}
      BY <1>6 DEF ReadRange, region, Fault
    <2>2. /\ own \in 0..Len(car) /\ start \in 0..Len(car)
          /\ entries = {} /\ txs = {} /\ rewards = {}
      <3>1. pos = 0
        BY <2>1 DEF Exact, Met
      <3> QED
        BY <3>1 DEF Exact, WalkTypes
    <2>3. last' \in 0..Len(car) /\ pos' \in 0..last' /\ faults' \subseteq faults \cup {"whole"}
      BY <1>1, <2>1, <2>2
    <2>4. WalkTypes'
      BY <1>1, <2>1, <2>2, <2>3 DEF Exact, WalkTypes
    <2>5. pos' # 0 => start < own /\ pos' = start
      BY <2>1
    <2>6. Met'
      BY <1>1, <2>1, <2>2, <2>5 DEF Met
    <2>7. OutTypes'
      BY <2>1 DEF Exact, OutTypes, Blocks
    <2> QED
      BY <2>1, <2>4, <2>6, <2>7 DEF Exact, BlockIsExact, LeaderIsOwn
  <1> QED
    BY <1>3, <1>4, <1>5, <1>6

\* One node of the walk.
LEMMA VisitExact ==
  ASSUME IInv, Exact, Visit
  PROVE  Exact'
  <1>1. /\ car' = car /\ slot' = slot /\ own' = own /\ back' = back /\ start' = start
        /\ last' = last /\ out' = out /\ pc = "walk" /\ pos < last
        /\ faults' \subseteq faults \cup {"tx", "entry", "block"}
        /\ faults \subseteq faults'
    BY DEF Visit, VisitTransaction, VisitEntry, VisitRewards, VisitBlock, VisitOther,
           BadSection, Visits, Fail, region, Fault
  <1>2. /\ car \in Cars /\ own \in Blocks /\ start \in Blocks
        /\ DOMAIN car = 1..Len(car) /\ Len(car) \in Nat
    BY <1>1, BlockOfSlot, CarShape DEF IInv, Places
  <1>3. own \in Nat /\ start \in Nat /\ own # 1 /\ car[own].kind = "block"
    BY <1>2, BlockPlace
  <1>4. last \in 0..Len(car) /\ pos \in 0..last /\ pos + 1 \in DOMAIN car /\ pos + 1 \in 1..last
    BY <1>1, <1>2 DEF Exact, WalkTypes
  <1>5. CASE BadSection
    BY <1>5, FailExact DEF BadSection
  <1>6. CASE VisitBlock /\ pc' = "failed"
    <2>1. /\ block' = block /\ pos' = pos /\ entries' = entries /\ txs' = txs
          /\ rewards' = rewards
      BY <1>1, <1>6 DEF VisitBlock
    <2> QED
      BY <1>1, <1>6, <2>1 DEF Exact, WalkTypes, OutTypes, Met, BlockIsExact, LeaderIsOwn, Blocks
  <1>7. CASE \/ VisitTransaction \/ VisitEntry \/ VisitRewards \/ VisitOther
             \/ VisitBlock /\ pc' = pc
    <2>1. /\ pc' = "walk" /\ pos' = pos + 1 /\ block' \in BOOLEAN
          /\ car[pos + 1].kind # "header"
      BY <1>1, <1>7 DEF VisitTransaction, VisitEntry, VisitRewards, VisitBlock, VisitOther,
                        Visits, Exact, WalkTypes
    <2>2. /\ entries' # entries => car[pos + 1].kind = "entry" /\ entries' = entries \cup {pos + 1}
          /\ txs' # txs => car[pos + 1].kind = "tx" /\ txs' = txs \cup {pos + 1}
          /\ rewards' # rewards => car[pos + 1].kind = "rewards" /\ rewards' = rewards \cup {pos + 1}
      <3>1. CASE VisitTransaction
        BY <2>1, <3>1 DEF VisitTransaction, Visits
      <3>2. CASE VisitEntry
        BY <2>1, <3>2 DEF VisitEntry, Visits
      <3>3. CASE VisitRewards
        BY <2>1, <3>3 DEF VisitRewards, Visits
      <3>4. CASE VisitOther \/ VisitBlock
        BY <3>4 DEF VisitOther, VisitBlock
      <3> QED
        BY <1>7, <3>1, <3>2, <3>3, <3>4
    <2>3. /\ car[pos + 1].kind = "entry" /\ "entry" \notin faults' => pos + 1 \in entries'
          /\ car[pos + 1].kind = "tx" /\ "tx" \notin faults' => pos + 1 \in txs'
      <3>1. CASE VisitTransaction
        BY <2>1, <3>1 DEF VisitTransaction, Visits, Fault
      <3>2. CASE VisitEntry
        BY <2>1, <3>2 DEF VisitEntry, Visits, Fault
      <3>3. CASE VisitRewards \/ VisitOther \/ VisitBlock
        <4>1. car[pos + 1].kind \in {"rewards", "block", "other"}
          BY <3>3 DEF VisitRewards, VisitOther, VisitBlock, Visits
        <4> QED
          BY <4>1
      <3> QED
        BY <1>7, <3>1, <3>2, <3>3
    <2>4. pos' \in 0..last'
      BY <1>1, <1>4, <2>1
    <2>5. entries' \subseteq 1..pos' /\ txs' \subseteq 1..pos' /\ rewards' \subseteq 1..pos'
      <3>1. 1..pos \subseteq 1..pos' /\ pos + 1 \in 1..pos'
        BY <1>4, <2>1
      <3>2. entries \subseteq 1..pos /\ txs \subseteq 1..pos /\ rewards \subseteq 1..pos
        BY DEF Exact, WalkTypes
      <3> QED
        BY <2>2, <3>1, <3>2
    <2>6. WalkTypes'
      BY <1>1, <1>2, <2>1, <2>4, <2>5 DEF Exact, WalkTypes
    <2>7. pos # 0
      BY <1>2, <2>1, ArchiveCars
    <2>8. start < own
      BY <1>1, <2>7 DEF Exact, Met
    <2>9. ASSUME NEW i \in DOMAIN car, start < i, i <= pos + 1
          PROVE  /\ car[i].kind = "entry" /\ "entry" \notin faults' => i \in entries'
                 /\ car[i].kind = "tx" /\ "tx" \notin faults' => i \in txs'
      <3>1. CASE i = pos + 1
        BY <2>3, <2>9, <3>1
      <3>2. CASE i # pos + 1
        <4>1. i <= pos
          BY <1>1, <1>2, <1>4, <2>9, <3>2
        <4> QED
          BY <1>1, <2>2, <2>7, <2>9, <4>1 DEF Exact, Met
      <3> QED
        BY <3>1, <3>2
    <2>10. Met'
      BY <1>1, <2>1, <2>2, <2>8, <2>9 DEF Exact, Met
    <2>11. OutTypes'
      BY <1>1 DEF Exact, OutTypes, Blocks
    <2> QED
      BY <2>1, <2>6, <2>10, <2>11 DEF Exact, BlockIsExact, LeaderIsOwn
  <1> QED
    BY <1>1, <1>5, <1>6, <1>7 DEF Visit, VisitBlock

LEMMA ExactInvariance == Spec => []Exact
  <1>1. ASSUME IInv, Exact, [Next]_vars
        PROVE  Exact'
    <2>1. CASE (\E s \in Produced : ReadBlock(s)) \/ anchorFound \/ anchorSkips \/ ReadRange
      BY <1>1, <2>1, RegionExact
    <2>2. CASE errNoAnchor \/ BadRegion
      BY <1>1, <2>2, FailExact DEF errNoAnchor, BadRegion
    <2>3. CASE ReadRangeFails
      BY <1>1, <2>3, FailExact DEF ReadRangeFails, Fault
    <2>4. CASE Visit
      BY <1>1, <2>4, VisitExact
    <2>5. CASE Assemble
      BY <1>1, <2>5, AssembleExact
    <2>6. CASE UNCHANGED vars
      <3>1. /\ car' = car /\ slot' = slot /\ own' = own /\ back' = back /\ start' = start
            /\ pos' = pos /\ last' = last /\ block' = block /\ entries' = entries
            /\ txs' = txs /\ rewards' = rewards /\ out' = out /\ pc' = pc /\ faults' = faults
        BY <2>6 DEF vars, region, seen
      <3> QED
        BY <1>1, <3>1 DEF Exact, WalkTypes, OutTypes, Met, BlockIsExact, LeaderIsOwn, Blocks
    <2> QED
      BY <1>1, <2>1, <2>2, <2>3, <2>4, <2>5, <2>6 DEF Next
  <1> QED
    BY <1>1, InitExact, Invariance, PTL DEF Spec

\* The walk of parseRegion (block.go) stays in the region and its maps hold what
\* it has met, for every file in the format of the archive.
THEOREM TypeCorrect == Spec => []TypeOK
  <1>1. Exact => TypeOK
    BY TypesSplit DEF Exact
  <1> QED
    BY <1>1, ExactInvariance, PTL

\* "Membership is resolved through the Block node's own entry links" (parseRegion,
\* block.go): whatever files the archive holds in its format, and whatever
\* lookups and decodings went wrong, a block read has and counts none but its
\* own transactions; their number is right if all entries decoded, and it lacks
\* some then only when they did not decode themselves.
THEOREM BlocksAreExact == Spec => []BlockIsExact
  <1>1. Exact => BlockIsExact
    BY DEF Exact
  <1> QED
    BY <1>1, ExactInvariance, PTL

\* "The block producer: the reward whose type is Fee" (leaderFromRewards,
\* block.go): the producer, or who gets the block's lone reward of another type;
\* never the leader of another block in the region, nor one of several rewards.
THEOREM LeadersAreOwn == Spec => []LeaderIsOwn
  <1>1. Exact => LeaderIsOwn
    BY DEF Exact
  <1> QED
    BY <1>1, ExactInvariance, PTL

=============================================================================
