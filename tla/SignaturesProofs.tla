-------------------------- MODULE SignaturesProofs --------------------------
(***************************************************************************)
(* Theorems about Signatures.  The list is complete, ordered and cheap     *)
(* because the chain is sorted by slot and the cursor only moves back: what *)
(* is behind the cursor has been listed, what is before it is older than   *)
(* the marker, and what lands meanwhile lands after both.                  *)
(***************************************************************************)
EXTENDS Signatures, SequenceTheorems, FiniteSetTheorems, TLAPS

\* Transactions are in the order of their slots.
Sorted == \A i, j \in DOMAIN chain : i <= j => chain[i] <= chain[j]

\* Before the first page there is no marker and nothing is listed; after it, a
\* marker is newer than all before the cursor.
CursorInv ==
  /\ pc = "seek" => marker = NoMarker /\ found = <<>>
  /\ pc # "seek" /\ marker # NoMarker =>
       \A i \in DOMAIN chain : i <= before => chain[i] < marker

\* What is behind the cursor is listed.
Covered ==
  pc \in {"page", "found"} =>
    \A i \in DOMAIN chain :
      before < i /\ InEpoch(chain[i]) /\ (marker # NoMarker \/ i <= tip) =>
        \E k \in DOMAIN found : i \in found[k]

\* Paging ends where nothing retained, or nothing of the epoch, is left.
Ended ==
  pc = "found" => before <= floor \/ \A i \in DOMAIN chain : i <= before => chain[i] < First

\* Nothing listed is before the cursor.
Behind == \A k \in DOMAIN found : \A i \in found[k] : before < i

\* Every page but the last has moved the cursor over some of the traffic.
Passed == {i \in Traffic : before < i}
Cost ==
  marker # NoMarker =>
    /\ pc = "page" => Len(found) <= Cardinality(Passed)
    /\ pc \in {"found", "failed"} => Len(found) <= Cardinality(Passed) + 1

IInv == TypeOK /\ Sorted /\ CursorInv /\ Covered /\ Ended /\ Behind /\ NewestFirst /\ Cost

-----------------------------------------------------------------------------

USE EpochAssumption, SlotsAssumption, SeekAssumption, PageAssumption, ChainAssumption

\* The slots in the chain are natural numbers.
LEMMA ChainTypes ==
  TypeOK => /\ Len(chain) \in Nat /\ DOMAIN chain = 1..Len(chain)
            /\ \A i \in DOMAIN chain : chain[i] \in Slots /\ chain[i] \in Nat
  <1> SUFFICES ASSUME TypeOK
               PROVE  /\ Len(chain) \in Nat /\ DOMAIN chain = 1..Len(chain)
                      /\ \A i \in DOMAIN chain : chain[i] \in Slots /\ chain[i] \in Nat
    OBVIOUS
  <1>1. chain \in Seq(Slots)
    BY DEF TypeOK
  <1>2. \A i \in DOMAIN chain : chain[i] \in Slots
    BY <1>1, ElementOfSeq
  <1> QED
    BY <1>1, <1>2, LenProperties

\* The traffic can be counted.
LEMMA TrafficIsFinite == TypeOK => IsFiniteSet(Traffic) /\ IsFiniteSet(Passed)
  <1>1. TypeOK => Traffic \subseteq 1..Len(chain) /\ Passed \subseteq 1..Len(chain)
    BY ChainTypes DEF Traffic, Passed
  <1>2. TypeOK => IsFiniteSet(1..Len(chain))
    BY ChainTypes, FS_Interval
  <1> QED
    BY <1>1, <1>2, FS_Subset

LEMMA InitInv == Init => IInv
  <1> SUFFICES ASSUME Init PROVE IInv
    OBVIOUS
  <1>1. chain \in Seq(Slots)
    BY DEF Init
  <1>2. found = <<>> /\ marker = NoMarker /\ pc = "seek"
    BY DEF Init
  <1>3. TypeOK
    BY <1>1, EmptySeq DEF Init, TypeOK, NoMarker
  <1>4. Sorted
    BY DEF Init, Sorted
  <1> QED
    BY <1>2, <1>3, <1>4 DEF IInv, CursorInv, Covered, Ended, Behind, NewestFirst, Cost

\* The cursor is set: at a marker, or at the tip.
LEMMA SeekInv == IInv /\ (Marker \/ NextProbe \/ PageFromTip) => IInv'
  <1> SUFFICES ASSUME IInv, Marker \/ NextProbe \/ PageFromTip PROVE IInv'
    OBVIOUS
  <1> USE DEF IInv, NoMarker
  <1>1. chain' = chain /\ floor' = floor /\ found' = found /\ found = <<>> /\ marker = 0
    BY DEF Marker, NextProbe, PageFromTip, CursorInv, provider
  <1>2. TypeOK'
    BY <1>1 DEF TypeOK, Marker, NextProbe, PageFromTip, provider
  <1>3. Sorted'
    BY <1>1 DEF Sorted
  <1>4. CursorInv'
    BY <1>1 DEF CursorInv, Marker, NextProbe, PageFromTip, TypeOK, IsCursor
  <1>5. Covered'
    <2>1. CASE Marker
      <3> SUFFICES ASSUME NEW i \in DOMAIN chain, before' < i, InEpoch(chain[i])
                   PROVE  FALSE
        BY <1>1, <2>1 DEF Covered, InEpoch
      <3>1. chain[i] \in Nat /\ probe \in Nat /\ Last < probe
        BY ChainTypes DEF TypeOK
      <3>2. ~(chain[i] < probe)
        BY <2>1, <1>1, <3>1 DEF Marker, IsCursor, TypeOK
      <3> QED
        BY <3>1, <3>2 DEF InEpoch
    <2>2. CASE NextProbe
      BY <1>1, <2>2 DEF NextProbe, Covered
    <2>3. CASE PageFromTip
      BY <1>1, <2>3 DEF PageFromTip, Covered, TypeOK
    <2> QED
      BY <2>1, <2>2, <2>3
  <1>6. Ended' /\ Behind' /\ NewestFirst'
    BY <1>1 DEF Ended, Behind, NewestFirst, Marker, NextProbe, PageFromTip
  <1>7. Cost'
    <2>1. Len(found') = 0 /\ IsFiniteSet(Passed')
      <3>1. Passed' \subseteq 1..Len(chain)
        BY <1>1 DEF Passed, Traffic, TypeOK
      <3>2. IsFiniteSet(1..Len(chain))
        BY FS_Interval DEF TypeOK
      <3> QED
        BY <1>1, <3>1, <3>2, FS_Subset
    <2>2. Cardinality(Passed') \in Nat
      BY <2>1, FS_CardinalityType
    <2> QED
      BY <2>1, <2>2 DEF Cost
  <1> QED
    BY <1>2, <1>3, <1>4, <1>5, <1>6, <1>7

\* A page: the cursor moves back over it.
LEMMA PageInv == IInv /\ Page => IInv'
  <1> SUFFICES ASSUME IInv, Page PROVE IInv'
    OBVIOUS
  <1> USE DEF IInv, NoMarker
  <1>1. PICK n \in 1..PageSize :
          /\ n <= before - floor
          /\ found' = Append(found, Kept(n))
          /\ before' = before - n
          /\ pc' = IF ReachedBefore(n) THEN "found" ELSE "page"
    BY DEF Page
  <1>2. pc = "page" /\ UNCHANGED <<chain, floor, probe, marker, tip>>
    BY DEF Page, provider
  <1>3. /\ chain \in Seq(Slots) /\ Len(chain) \in Nat /\ DOMAIN chain = 1..Len(chain)
        /\ before \in Nat /\ before <= Len(chain) /\ n \in Nat /\ n >= 1
        /\ floor \in Nat /\ before' \in Nat /\ before' < before
        /\ \A i \in DOMAIN chain : chain[i] \in Nat
    BY <1>1, ChainTypes DEF TypeOK
  <1>4. Kept(n) \subseteq Places(n) /\ Places(n) \subseteq 1..Len(chain)
    BY <1>1, <1>3 DEF Kept, Places
  <1>5. /\ DOMAIN found' = 1..(Len(found) + 1) /\ Len(found') = Len(found) + 1
        /\ DOMAIN found = 1..Len(found) /\ Len(found) \in Nat
        /\ found'[Len(found) + 1] = Kept(n)
        /\ \A k \in DOMAIN found : found'[k] = found[k]
        /\ found' \in Seq(SUBSET (1..Len(chain)))
    BY <1>1, <1>4, AppendProperties, LenProperties DEF TypeOK
  <1>6. TypeOK'
    BY <1>1, <1>2, <1>3, <1>5 DEF TypeOK
  <1>7. Sorted'
    BY <1>2 DEF Sorted
  <1>8. CursorInv'
    BY <1>1, <1>2, <1>3 DEF CursorInv
  <1>9. Covered'
    <2> SUFFICES ASSUME NEW i \in DOMAIN chain, before' < i, InEpoch(chain[i]),
                        marker # NoMarker \/ i <= tip
                 PROVE  \E k \in DOMAIN found' : i \in found'[k]
      BY <1>2 DEF Covered, InEpoch
    <2>1. CASE before < i
      BY <1>2, <1>5, <2>1 DEF Covered
    <2>2. CASE i <= before
      <3>1. i \in Kept(n)
        BY <1>1, <1>3, <2>2 DEF Kept, Places
      <3> QED
        BY <1>5, <3>1
    <2> QED
      BY <1>3, <2>1, <2>2
  <1>10. Ended'
    <2> SUFFICES ASSUME ReachedBefore(n), NEW i \in DOMAIN chain, i <= before'
                 PROVE  chain[i] < First
      BY <1>1, <1>2 DEF Ended
    <2>1. PICK j \in Places(n) : chain[j] < First
      BY DEF ReachedBefore
    <2>2. j \in DOMAIN chain /\ i <= j
      BY <1>1, <1>3, <1>4 DEF Places
    <2> QED
      BY <1>3, <2>1, <2>2 DEF Sorted
  <1>11. Behind'
    <2> SUFFICES ASSUME NEW k \in DOMAIN found', NEW i \in found'[k] PROVE before' < i
      BY DEF Behind
    <2>1. CASE k \in DOMAIN found
      BY <1>3, <1>5, <2>1 DEF Behind, TypeOK
    <2>2. CASE k = Len(found) + 1
      BY <1>1, <1>3, <1>5, <2>2 DEF Kept, Places
    <2> QED
      BY <1>5, <2>1, <2>2
  <1>12. NewestFirst'
    <2> SUFFICES ASSUME NEW k \in DOMAIN found', NEW i \in found'[k]
                 PROVE  /\ InEpoch(chain[i])
                        /\ \A j \in DOMAIN found' : j < k => \A h \in found'[j] : h > i
      BY <1>2 DEF NewestFirst, InEpoch
    <2>1. CASE k \in DOMAIN found
      BY <1>5, <2>1 DEF NewestFirst
    <2>2. CASE k = Len(found) + 1
      <3>1. i \in Kept(n) /\ InEpoch(chain[i]) /\ i <= before /\ i \in Nat
        BY <1>3, <1>4, <1>5, <2>2 DEF Kept, Places
      <3>2. ASSUME NEW j \in DOMAIN found', j < k, NEW h \in found'[j] PROVE h > i
        <4>1. j \in DOMAIN found /\ found'[j] = found[j]
          BY <1>5, <2>2, <3>2
        <4>2. before < h /\ h \in Nat
          BY <3>2, <4>1 DEF Behind, TypeOK
        <4> QED
          BY <1>3, <3>1, <4>2
      <3> QED
        BY <3>1, <3>2
    <2> QED
      BY <1>5, <2>1, <2>2
  <1>13. Cost'
    <2> SUFFICES ASSUME marker # NoMarker PROVE Cost'
      BY <1>2 DEF Cost
    <2>1. Len(found) <= Cardinality(Passed)
      BY <1>2 DEF Cost
    <2>2. IsFiniteSet(Passed') /\ Passed \subseteq Passed'
      <3>1. Passed' \subseteq 1..Len(chain)
        BY <1>2 DEF Passed, Traffic, TypeOK
      <3>2. IsFiniteSet(1..Len(chain))
        BY <1>3, FS_Interval
      <3>3. Passed \subseteq Passed'
        BY <1>2, <1>3 DEF Passed, Traffic
      <3> QED
        BY <3>1, <3>2, <3>3, FS_Subset
    <2>3. Cardinality(Passed) \in Nat /\ Cardinality(Passed') \in Nat
          /\ Cardinality(Passed) <= Cardinality(Passed')
      BY <2>2, FS_Subset, FS_CardinalityType
    <2>4. CASE ReachedBefore(n)
      BY <1>1, <1>5, <2>1, <2>3, <2>4 DEF Cost
    <2>5. CASE ~ReachedBefore(n)
      <3>1. before \in Places(n) /\ before \in DOMAIN chain
        BY <1>1, <1>3, <1>4 DEF Places
      <3>2. before \in Traffic /\ before \notin Passed /\ before' < before
        BY <1>2, <1>3, <2>5, <3>1 DEF ReachedBefore, Traffic, CursorInv, Passed
      <3>3. Passed \cup {before} \subseteq Passed'
        BY <1>2, <1>3, <2>2, <3>2 DEF Passed, Traffic
      <3>4. IsFiniteSet(Passed)
        BY <2>2, FS_Subset
      <3>5. /\ IsFiniteSet(Passed \cup {before})
            /\ Cardinality(Passed \cup {before}) = Cardinality(Passed) + 1
        BY <3>2, <3>4, FS_AddElement
      <3>6. Cardinality(Passed \cup {before}) <= Cardinality(Passed')
        BY <2>2, <3>3, FS_Subset
      <3> QED
        BY <1>1, <1>5, <2>1, <2>3, <2>5, <3>5, <3>6 DEF Cost
    <2> QED
      BY <2>4, <2>5
  <1> QED
    BY <1>6, <1>7, <1>8, <1>9, <1>10, <1>11, <1>12, <1>13

\* The paging ends.
LEMMA EndInv == IInv /\ (EmptyPage \/ PageFails) => IInv'
  <1> SUFFICES ASSUME IInv, EmptyPage \/ PageFails PROVE IInv'
    OBVIOUS
  <1>1. UNCHANGED <<chain, floor, probe, marker, before, tip, found>> /\ pc = "page"
    BY DEF EmptyPage, PageFails, provider
  <1>2. pc' \in {"found", "failed"} /\ (pc' = "found" => before <= floor)
    BY DEF EmptyPage, PageFails
  <1>3. TypeOK'
    BY <1>1, <1>2 DEF IInv, TypeOK
  <1>4. Sorted' /\ CursorInv' /\ Covered' /\ Ended' /\ Behind' /\ NewestFirst'
    BY <1>1, <1>2 DEF IInv, Sorted, CursorInv, Covered, Ended, Behind, NewestFirst, InEpoch
  <1>5. Cost'
    <2>1. Len(found) \in Nat /\ IsFiniteSet(Passed)
      BY TrafficIsFinite, LenProperties DEF IInv, TypeOK
    <2>2. Cardinality(Passed) \in Nat
      BY <2>1, FS_CardinalityType
    <2>3. Passed' = Passed
      BY <1>1 DEF Passed, Traffic
    <2> QED
      BY <1>1, <1>2, <2>1, <2>2, <2>3 DEF IInv, Cost
  <1> QED
    BY <1>3, <1>4, <1>5 DEF IInv

\* A transaction lands after all others, and after the marker.
LEMMA LandInv == IInv /\ Land => IInv'
  <1> SUFFICES ASSUME IInv, Land PROVE IInv'
    OBVIOUS
  <1> USE DEF IInv, NoMarker
  <1>1. PICK s \in Slots :
          /\ marker < s
          /\ chain # <<>> => chain[Len(chain)] <= s
          /\ chain' = Append(chain, s)
    BY DEF Land
  <1>2. UNCHANGED <<floor, pc, probe, marker, before, tip, found>> /\ pc \in {"seek", "page"}
    BY DEF Land
  <1>3. /\ Len(chain) \in Nat /\ DOMAIN chain = 1..Len(chain)
        /\ DOMAIN chain' = 1..(Len(chain) + 1) /\ Len(chain') = Len(chain) + 1
        /\ \A i \in 1..Len(chain) : chain'[i] = chain[i]
        /\ chain'[Len(chain) + 1] = s
        /\ chain' \in Seq(Slots)
        /\ s \in Nat /\ \A i \in DOMAIN chain : chain[i] \in Nat
        /\ floor \in Nat /\ before \in Nat /\ tip \in Nat /\ marker \in Nat
        /\ before <= Len(chain) /\ tip <= Len(chain) /\ floor <= Len(chain)
    <2>1. chain \in Seq(Slots) /\ s \in Slots /\ s \in Nat
      BY DEF TypeOK
    <2>2. /\ chain' \in Seq(Slots) /\ Len(chain') = Len(chain) + 1
          /\ \A i \in 1..Len(chain) : chain'[i] = chain[i]
          /\ chain'[Len(chain) + 1] = s
      BY <1>1, <2>1, AppendProperties
    <2>3. DOMAIN chain' = 1..(Len(chain) + 1)
      BY <2>2, LenProperties
    <2>4. /\ floor \in Nat /\ before \in Nat /\ tip \in Nat /\ marker \in Nat
          /\ before <= Len(chain) /\ tip <= Len(chain) /\ floor <= Len(chain)
      BY ChainTypes DEF TypeOK
    <2> QED
      BY <2>1, <2>2, <2>3, <2>4, ChainTypes
  <1>4. TypeOK'
    <2>1. found \in Seq(SUBSET (1..Len(chain')))
      <3>1. SUBSET (1..Len(chain)) \subseteq SUBSET (1..Len(chain'))
        BY <1>3
      <3> QED
        BY <3>1, SeqMonotonic DEF TypeOK
    <2> QED
      BY <1>2, <1>3, <2>1 DEF TypeOK
  <1>5. Sorted'
    <2> SUFFICES ASSUME NEW i \in DOMAIN chain', NEW j \in DOMAIN chain', i <= j
                 PROVE  chain'[i] <= chain'[j]
      BY DEF Sorted
    <2>1. CASE j \in DOMAIN chain
      BY <1>3, <2>1 DEF Sorted
    <2>2. CASE j = Len(chain) + 1 /\ i \in DOMAIN chain
      <3>1. chain # <<>> /\ Len(chain) \in DOMAIN chain /\ i <= Len(chain)
        BY <1>3, <2>2
      <3>2. chain[i] <= chain[Len(chain)] /\ chain[Len(chain)] <= s
        BY <1>1, <2>2, <3>1 DEF Sorted
      <3> QED
        BY <1>3, <2>2, <3>1, <3>2
    <2>3. CASE i = Len(chain) + 1
      BY <1>3, <2>3
    <2> QED
      BY <1>3, <2>1, <2>2, <2>3
  <1>6. CursorInv'
    BY <1>2, <1>3 DEF CursorInv
  <1>7. Covered'
    <2> SUFFICES ASSUME pc = "page", NEW i \in DOMAIN chain', before < i, InEpoch(chain'[i]),
                        marker # NoMarker \/ i <= tip
                 PROVE  \E k \in DOMAIN found : i \in found[k]
      BY <1>2 DEF Covered, InEpoch
    <2>1. CASE i \in DOMAIN chain
      BY <1>3, <2>1 DEF Covered, InEpoch
    <2>2. CASE i = Len(chain) + 1
      <3>1. marker # NoMarker /\ Last < marker
        BY <1>3, <2>2 DEF TypeOK
      <3> QED
        BY <1>1, <1>3, <2>2, <3>1 DEF InEpoch
    <2> QED
      BY <1>3, <2>1, <2>2
  <1>8. Ended' /\ Behind'
    BY <1>2 DEF Ended, Behind
  <1>9. NewestFirst'
    BY <1>2, <1>3 DEF NewestFirst, InEpoch, TypeOK
  <1>10. Cost'
    <2>1. ASSUME marker # NoMarker PROVE Traffic' = Traffic
      BY <1>1, <1>2, <1>3, <2>1 DEF Traffic
    <2>2. ASSUME marker # NoMarker PROVE Passed' = Passed
      BY <1>2, <2>1, <2>2 DEF Passed
    <2> QED
      BY <1>2, <2>2 DEF Cost
  <1> QED
    BY <1>4, <1>5, <1>6, <1>7, <1>8, <1>9, <1>10

LEMMA PruneInv == IInv /\ Prune => IInv'
  <1> SUFFICES ASSUME IInv, Prune PROVE IInv'
    OBVIOUS
  <1>1. /\ UNCHANGED <<chain, pc, probe, marker, before, tip, found>>
        /\ pc \in {"seek", "page"} /\ floor < Len(chain) /\ floor' = floor + 1
    BY DEF Prune
  <1>2. TypeOK'
    BY <1>1 DEF IInv, TypeOK
  <1> QED
    BY <1>1, <1>2 DEF IInv, Sorted, CursorInv, Covered, Ended, Behind, NewestFirst, Cost,
                      Passed, Traffic, InEpoch

\* IInv is an invariant: of the call, of the chain that grows and of the
\* provider that forgets.
LEMMA Invariance == Spec => []IInv
  <1>1. IInv /\ [Next]_vars => IInv'
    <2>1. IInv /\ UNCHANGED vars => IInv'
      BY DEF vars, provider, IInv, TypeOK, Sorted, CursorInv, Covered, Ended, Behind,
             NewestFirst, Cost, Passed, Traffic, InEpoch
    <2> QED
      BY <2>1, SeekInv, PageInv, EndInv, LandInv, PruneInv DEF Next, Call
  <1> QED
    BY <1>1, InitInv, PTL DEF Spec

-----------------------------------------------------------------------------

\* Every variable holds a value of its kind, however long the chain, for every
\* page size and however far the marker is looked for.
THEOREM TypeCorrect == Spec => []TypeOK
  BY Invariance, PTL DEF IInv

\* DiscoverSignatures lists all of the epoch that is retained at the end.
THEOREM ListIsComplete == Spec => []Complete
  <1>1. IInv => Complete
    <2> SUFFICES ASSUME IInv, pc = "found",
                        NEW i \in DOMAIN chain, i > floor, InEpoch(chain[i]),
                        marker # NoMarker \/ i <= tip
                 PROVE  \E k \in DOMAIN found : i \in found[k]
      BY DEF Complete
    <2>1. CASE before < i
      BY <2>1 DEF IInv, Covered
    <2>2. CASE i <= before
      <3>1. chain[i] < First
        BY <2>2 DEF IInv, Ended, TypeOK
      <3>2. chain[i] \in Nat
        BY ChainTypes DEF IInv
      <3> QED
        BY <3>1, <3>2 DEF InEpoch
    <2>3. before \in Nat /\ i \in Nat
      BY DEF IInv, TypeOK
    <2> QED
      BY <2>1, <2>2, <2>3
  <1> QED
    BY <1>1, Invariance, PTL

\* It lists nothing else, nothing twice, and newest first.
THEOREM ListIsOrdered == Spec => []NewestFirst
  BY Invariance, PTL DEF IInv

\* With a marker, the pages read are bounded by the epoch's own traffic.
THEOREM CostIsBounded == Spec => []CostIsEpochs
  <1>1. IInv => CostIsEpochs
    <2> SUFFICES ASSUME IInv, marker # NoMarker PROVE Len(found) <= Cardinality(Traffic) + 1
      BY DEF CostIsEpochs
    <2>1. Traffic \subseteq 1..Len(chain) /\ Len(chain) \in Nat /\ Len(found) \in Nat
      BY DEF IInv, Traffic, TypeOK
    <2>2. IsFiniteSet(Traffic)
      BY TrafficIsFinite DEF IInv
    <2>3. Passed \subseteq Traffic
      BY DEF Passed
    <2>4. /\ Cardinality(Passed) \in Nat /\ Cardinality(Traffic) \in Nat
          /\ Cardinality(Passed) <= Cardinality(Traffic)
      BY <2>2, <2>3, FS_Subset, FS_CardinalityType
    <2>5. pc \in {"page", "found", "failed"}
      BY DEF IInv, CursorInv, TypeOK
    <2> QED
      BY <2>1, <2>4, <2>5 DEF IInv, Cost
  <1> QED
    BY <1>1, Invariance, PTL

=============================================================================
