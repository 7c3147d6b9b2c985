--------------------------- MODULE BackfillProofs ---------------------------
(***************************************************************************)
(* Safety of Backfill for any set of slots and any number of runs.         *)
(***************************************************************************)
EXTENDS Backfill, TLAPS

-----------------------------------------------------------------------------
(* The inductive invariant.                                                *)

Gsfa == {"tarball", "unpack", "extract", "mark", "untar", "reader", "lookup", "cleanup"}
Reading == {"pending", "root", "fetch", "open", "process", "remove"}

\* What the phases of discovery have established; with -rpc there is no GSFA
\* index.
DiscoverInv ==
  /\ failing => phase = "cleanup"
  /\ phase = "cleanup" => failing \/ slots = Slots
  /\ phase = "seed" => slots = Slots
  /\ phase = "meta" => seeded = Slots
  /\ phase \in Reading => discovered
  /\ rpc => phase \notin Gsfa /\ dir = "none"
  /\ phase = "rpc" => rpc

\* The indexes this run has fetched are whole until it removes them, and none
\* is there before the first discovery is recorded.
IndexInv ==
  /\ phase \in {"idle", "discover", "rpc", "seed", "meta", "pending", "root"} \cup Gsfa =>
       fetched = 0
  /\ phase = "fetch" => fetched \in {0, 1} /\ \A n \in Names : n <= fetched => index[n] = "full"
  /\ phase \in {"open", "process"} => fetched = 2 /\ \A n \in Names : index[n] = "full"
  /\ ~discovered => \A n \in Names : index[n] = "none"

\* Unless a removal failed or the mark was misread, a directory extracted by
\* this or an earlier run is gone when the slots are recorded, and after that
\* there is none.
DirInv ==
  ~keep /\ ~warned /\ ~misread =>
    /\ discovered => dir = "none" /\ phase \notin Gsfa
    /\ phase \in {"seed", "meta"} => dir = "none"

\* "ok" stands for a complete database from the end of the blocks on.
OutcomeInv ==
  outcome = "ok" => phase \in {"remove", "idle"} /\ done = Slots

IInv == TypeOK /\ DiscoveryIsWhole /\ DiscoverInv /\ IndexInv /\ DirInv /\ OutcomeInv

-----------------------------------------------------------------------------
(* The proof: each part of the invariant is preserved by every action.     *)

\* Next and stuttering, one disjunct per action.
LEMMA NextCases ==
  ASSUME [Next]_vars
  PROVE  \/ Start \/ Fails \/ Interrupt \/ Kill \/ UNCHANGED vars
         \/ Discover \/ DownloadSome \/ Download \/ ExtractSome \/ Extract
         \/ WriteMarker \/ RemoveTarball \/ OpenReader \/ Lookup
         \/ RemoveSome \/ CleanedUp \/ AskRPC \/ SeedSlots \/ SetMeta
         \/ NothingToDo \/ SomethingToDo \/ RootCID \/ FetchSome \/ Fetch
         \/ OpenIndexes \/ WriteSlot \/ ProcessEnds \/ RemoveIndex
         \/ Return
<1>1. CASE Step
  BY <1>1 DEF Step
<1>2. CASE ~Step
  BY <1>2 DEF Next
<1> QED
  BY <1>1, <1>2

\* The type invariant.
LEMMA TypeOKStep ==
  ASSUME TypeOK, IndexInv, [Next]_vars
  PROVE  TypeOK'
<1> USE DEF command, db, gsfa, locals, history, Leave, Goto, TypeOK, Phases
<1>1. CASE Start
  BY <1>1 DEF Start
<1>2. CASE Fails
  <2>1. phase' \in Phases /\ outcome' \in {"none", "ok", "failures", "err", "canceled"}
    BY <1>2 DEF Fails, Failures
  <2>2. /\ keep' \in BOOLEAN /\ rpc' \in BOOLEAN /\ discovered' \in BOOLEAN
        /\ marker' \in BOOLEAN /\ failing' \in BOOLEAN /\ interrupted' \in BOOLEAN
        /\ warned' \in BOOLEAN /\ misread' \in BOOLEAN
    BY <1>2 DEF Fails
  <2>3. seeded' \subseteq Slots /\ done' \subseteq Slots /\ slots' \subseteq Slots
    BY <1>2 DEF Fails
  <2>4. fetched' \in 0..2
    BY <1>2 DEF Fails
  <2>5. tarball' \in Files /\ dir' \in Files /\ index' \in [Names -> Files]
    BY <1>2 DEF Fails
  <2> QED
    BY <2>1, <2>2, <2>3, <2>4, <2>5
<1>3. CASE Discover
  BY <1>3 DEF Discover
<1>4. CASE DownloadSome
  BY <1>4 DEF DownloadSome, Files, Begun
<1>5. CASE Download
  BY <1>5 DEF Download, Files
<1>6. CASE ExtractSome
  BY <1>6 DEF ExtractSome, Files
<1>7. CASE Extract
  BY <1>7 DEF Extract, Files
<1>8. CASE WriteMarker
  BY <1>8 DEF WriteMarker
<1>9. CASE RemoveTarball
  <2>1. phase' \in Phases /\ outcome' \in {"none", "ok", "failures", "err", "canceled"}
    BY <1>9 DEF RemoveTarball
  <2>2. /\ keep' \in BOOLEAN /\ rpc' \in BOOLEAN /\ discovered' \in BOOLEAN
        /\ marker' \in BOOLEAN /\ failing' \in BOOLEAN /\ interrupted' \in BOOLEAN
        /\ warned' \in BOOLEAN /\ misread' \in BOOLEAN
    BY <1>9 DEF RemoveTarball
  <2>3. seeded' \subseteq Slots /\ done' \subseteq Slots /\ slots' \subseteq Slots
    BY <1>9 DEF RemoveTarball
  <2>4. fetched' \in 0..2
    BY <1>9 DEF RemoveTarball
  <2>5. tarball' \in Files /\ dir' \in Files /\ index' \in [Names -> Files]
    BY <1>9 DEF RemoveTarball, Files
  <2> QED
    BY <2>1, <2>2, <2>3, <2>4, <2>5
<1>10. CASE OpenReader
  BY <1>10 DEF OpenReader
<1>11. CASE Lookup
  <2>1. /\ UNCHANGED <<keep, rpc, discovered, seeded, done, tarball, dir, marker, index,
                       fetched, interrupted, warned, misread, outcome>>
        /\ phase' = "cleanup"
    BY <1>11 DEF Lookup
  <2>2. slots' \subseteq Slots /\ failing' \in BOOLEAN
    BY <1>11 DEF Lookup
  <2> QED
    BY <2>1, <2>2
<1>12. CASE RemoveSome
  <2>1. phase' \in Phases /\ outcome' \in {"none", "ok", "failures", "err", "canceled"}
    BY <1>12 DEF RemoveSome
  <2>2. /\ keep' \in BOOLEAN /\ rpc' \in BOOLEAN /\ discovered' \in BOOLEAN
        /\ marker' \in BOOLEAN /\ failing' \in BOOLEAN /\ interrupted' \in BOOLEAN
        /\ warned' \in BOOLEAN /\ misread' \in BOOLEAN
    BY <1>12 DEF RemoveSome
  <2>3. seeded' \subseteq Slots /\ done' \subseteq Slots /\ slots' \subseteq Slots
    BY <1>12 DEF RemoveSome
  <2>4. fetched' \in 0..2
    BY <1>12 DEF RemoveSome
  <2>5. tarball' \in Files /\ dir' \in Files /\ index' \in [Names -> Files]
    BY <1>12 DEF RemoveSome, Files
  <2> QED
    BY <2>1, <2>2, <2>3, <2>4, <2>5
<1>13. CASE CleanedUp
  <2>1. phase' \in Phases /\ outcome' \in {"none", "ok", "failures", "err", "canceled"}
    BY <1>13 DEF CleanedUp, Failures
  <2>2. /\ keep' \in BOOLEAN /\ rpc' \in BOOLEAN /\ discovered' \in BOOLEAN
        /\ marker' \in BOOLEAN /\ failing' \in BOOLEAN /\ interrupted' \in BOOLEAN
        /\ warned' \in BOOLEAN /\ misread' \in BOOLEAN
    BY <1>13 DEF CleanedUp
  <2>3. seeded' \subseteq Slots /\ done' \subseteq Slots /\ slots' \subseteq Slots
    BY <1>13 DEF CleanedUp
  <2>4. fetched' \in 0..2
    BY <1>13 DEF CleanedUp
  <2>5. tarball' \in Files /\ dir' \in Files /\ index' \in [Names -> Files]
    BY <1>13 DEF CleanedUp
  <2> QED
    BY <2>1, <2>2, <2>3, <2>4, <2>5
<1>14. CASE AskRPC
  BY <1>14 DEF AskRPC
<1>15. CASE SeedSlots
  BY <1>15 DEF SeedSlots
<1>16. CASE SetMeta
  BY <1>16 DEF SetMeta
<1>17. CASE NothingToDo
  <2>1. phase' \in Phases /\ outcome' \in {"none", "ok", "failures", "err", "canceled"}
    BY <1>17 DEF NothingToDo
  <2>2. /\ keep' \in BOOLEAN /\ rpc' \in BOOLEAN /\ discovered' \in BOOLEAN
        /\ marker' \in BOOLEAN /\ failing' \in BOOLEAN /\ interrupted' \in BOOLEAN
        /\ warned' \in BOOLEAN /\ misread' \in BOOLEAN
    BY <1>17 DEF NothingToDo
  <2>3. seeded' \subseteq Slots /\ done' \subseteq Slots /\ slots' \subseteq Slots
    BY <1>17 DEF NothingToDo
  <2>4. fetched' \in 0..2
    BY <1>17 DEF NothingToDo
  <2>5. tarball' \in Files /\ dir' \in Files /\ index' \in [Names -> Files]
    BY <1>17 DEF NothingToDo
  <2> QED
    BY <2>1, <2>2, <2>3, <2>4, <2>5
<1>18. CASE SomethingToDo
  BY <1>18 DEF SomethingToDo
<1>19. CASE RootCID
  BY <1>19 DEF RootCID
<1>20. CASE FetchSome
  <2>1. phase' \in Phases /\ outcome' \in {"none", "ok", "failures", "err", "canceled"}
    BY <1>20 DEF FetchSome
  <2>2. /\ keep' \in BOOLEAN /\ rpc' \in BOOLEAN /\ discovered' \in BOOLEAN
        /\ marker' \in BOOLEAN /\ failing' \in BOOLEAN /\ interrupted' \in BOOLEAN
        /\ warned' \in BOOLEAN /\ misread' \in BOOLEAN
    BY <1>20 DEF FetchSome
  <2>3. seeded' \subseteq Slots /\ done' \subseteq Slots /\ slots' \subseteq Slots
    BY <1>20 DEF FetchSome
  <2>4. fetched' \in 0..2
    BY <1>20 DEF FetchSome
  <2>5. tarball' \in Files /\ dir' \in Files /\ index' \in [Names -> Files]
    BY <1>20 DEF FetchSome, Files, Begun
  <2> QED
    BY <2>1, <2>2, <2>3, <2>4, <2>5
<1>21. CASE Fetch
  <2>1. phase' \in Phases /\ outcome' \in {"none", "ok", "failures", "err", "canceled"}
    BY <1>21 DEF Fetch
  <2>2. /\ keep' \in BOOLEAN /\ rpc' \in BOOLEAN /\ discovered' \in BOOLEAN
        /\ marker' \in BOOLEAN /\ failing' \in BOOLEAN /\ interrupted' \in BOOLEAN
        /\ warned' \in BOOLEAN /\ misread' \in BOOLEAN
    BY <1>21 DEF Fetch
  <2>3. seeded' \subseteq Slots /\ done' \subseteq Slots /\ slots' \subseteq Slots
    BY <1>21 DEF Fetch
  <2>4. fetched' \in 0..2
    BY <1>21 DEF Fetch, IndexInv
  <2>5. tarball' \in Files /\ dir' \in Files /\ index' \in [Names -> Files]
    BY <1>21 DEF Fetch, Files
  <2> QED
    BY <2>1, <2>2, <2>3, <2>4, <2>5
<1>22. CASE OpenIndexes
  BY <1>22 DEF OpenIndexes
<1>23. CASE WriteSlot
  BY <1>23 DEF WriteSlot
<1>24. CASE ProcessEnds
  BY <1>24 DEF ProcessEnds
<1>25. CASE RemoveIndex
  <2>1. phase' \in Phases /\ outcome' \in {"none", "ok", "failures", "err", "canceled"}
    BY <1>25 DEF RemoveIndex
  <2>2. /\ keep' \in BOOLEAN /\ rpc' \in BOOLEAN /\ discovered' \in BOOLEAN
        /\ marker' \in BOOLEAN /\ failing' \in BOOLEAN /\ interrupted' \in BOOLEAN
        /\ warned' \in BOOLEAN /\ misread' \in BOOLEAN
    BY <1>25 DEF RemoveIndex
  <2>3. seeded' \subseteq Slots /\ done' \subseteq Slots /\ slots' \subseteq Slots
    BY <1>25 DEF RemoveIndex
  <2>4. fetched' \in 0..2
    BY <1>25 DEF RemoveIndex, IndexInv
  <2>5. tarball' \in Files /\ dir' \in Files /\ index' \in [Names -> Files]
    BY <1>25 DEF RemoveIndex, Files
  <2> QED
    BY <2>1, <2>2, <2>3, <2>4, <2>5
<1>26. CASE Return
  <2>1. phase' \in Phases /\ outcome' \in {"none", "ok", "failures", "err", "canceled"}
    BY <1>26 DEF Return
  <2>2. /\ keep' \in BOOLEAN /\ rpc' \in BOOLEAN /\ discovered' \in BOOLEAN
        /\ marker' \in BOOLEAN /\ failing' \in BOOLEAN /\ interrupted' \in BOOLEAN
        /\ warned' \in BOOLEAN /\ misread' \in BOOLEAN
    BY <1>26 DEF Return
  <2>3. seeded' \subseteq Slots /\ done' \subseteq Slots /\ slots' \subseteq Slots
    BY <1>26 DEF Return
  <2>4. fetched' \in 0..2
    BY <1>26 DEF Return
  <2>5. tarball' \in Files /\ dir' \in Files /\ index' \in [Names -> Files]
    BY <1>26 DEF Return
  <2> QED
    BY <2>1, <2>2, <2>3, <2>4, <2>5
<1>27. CASE Interrupt
  BY <1>27 DEF Interrupt
<1>28. CASE Kill
  <2>1. phase' \in Phases /\ outcome' \in {"none", "ok", "failures", "err", "canceled"}
    BY <1>28 DEF Kill
  <2>2. /\ keep' \in BOOLEAN /\ rpc' \in BOOLEAN /\ discovered' \in BOOLEAN
        /\ marker' \in BOOLEAN /\ failing' \in BOOLEAN /\ interrupted' \in BOOLEAN
        /\ warned' \in BOOLEAN /\ misread' \in BOOLEAN
    BY <1>28 DEF Kill
  <2>3. seeded' \subseteq Slots /\ done' \subseteq Slots /\ slots' \subseteq Slots
    BY <1>28 DEF Kill
  <2>4. fetched' \in 0..2
    BY <1>28 DEF Kill
  <2>5. tarball' \in Files /\ dir' \in Files /\ index' \in [Names -> Files]
    BY <1>28 DEF Kill
  <2> QED
    BY <2>1, <2>2, <2>3, <2>4, <2>5
<1>29. CASE UNCHANGED vars
  BY <1>29 DEF vars
<1> QED
  BY NextCases, <1>1, <1>2, <1>3, <1>4, <1>5, <1>6, <1>7, <1>8, <1>9, <1>10, <1>11, <1>12,
       <1>13, <1>14, <1>15,
     <1>16, <1>17, <1>18, <1>19, <1>20, <1>21, <1>22, <1>23, <1>24, <1>25, <1>26, <1>27, <1>28, <1>29

\* The recorded discovery.
LEMMA DiscoveryIsWholeStep ==
  ASSUME TypeOK, DiscoveryIsWhole, DiscoverInv, [Next]_vars
  PROVE  DiscoveryIsWhole'
<1> USE DEF command, db, gsfa, locals, history, Leave, Goto, TypeOK, DiscoveryIsWhole,
     DiscoverInv, Reading
<1>1. CASE Start
  BY <1>1 DEF Start
<1>2. CASE Fails
  BY <1>2 DEF Fails
<1>3. CASE Discover
  BY <1>3 DEF Discover
<1>4. CASE DownloadSome
  BY <1>4 DEF DownloadSome
<1>5. CASE Download
  BY <1>5 DEF Download
<1>6. CASE ExtractSome
  BY <1>6 DEF ExtractSome
<1>7. CASE Extract
  BY <1>7 DEF Extract
<1>8. CASE WriteMarker
  BY <1>8 DEF WriteMarker
<1>9. CASE RemoveTarball
  BY <1>9 DEF RemoveTarball
<1>10. CASE OpenReader
  BY <1>10 DEF OpenReader
<1>11. CASE Lookup
  BY <1>11 DEF Lookup
<1>12. CASE RemoveSome
  BY <1>12 DEF RemoveSome
<1>13. CASE CleanedUp
  BY <1>13 DEF CleanedUp
<1>14. CASE AskRPC
  BY <1>14 DEF AskRPC
<1>15. CASE SeedSlots
  BY <1>15 DEF SeedSlots
<1>16. CASE SetMeta
  BY <1>16 DEF SetMeta
<1>17. CASE NothingToDo
  BY <1>17 DEF NothingToDo
<1>18. CASE SomethingToDo
  BY <1>18 DEF SomethingToDo
<1>19. CASE RootCID
  BY <1>19 DEF RootCID
<1>20. CASE FetchSome
  BY <1>20 DEF FetchSome
<1>21. CASE Fetch
  BY <1>21 DEF Fetch
<1>22. CASE OpenIndexes
  BY <1>22 DEF OpenIndexes
<1>23. CASE WriteSlot
  BY <1>23 DEF WriteSlot
<1>24. CASE ProcessEnds
  BY <1>24 DEF ProcessEnds
<1>25. CASE RemoveIndex
  BY <1>25 DEF RemoveIndex
<1>26. CASE Return
  BY <1>26 DEF Return
<1>27. CASE Interrupt
  BY <1>27 DEF Interrupt
<1>28. CASE Kill
  BY <1>28 DEF Kill
<1>29. CASE UNCHANGED vars
  BY <1>29 DEF vars
<1> QED
  BY NextCases, <1>1, <1>2, <1>3, <1>4, <1>5, <1>6, <1>7, <1>8, <1>9, <1>10, <1>11, <1>12,
       <1>13, <1>14, <1>15,
     <1>16, <1>17, <1>18, <1>19, <1>20, <1>21, <1>22, <1>23, <1>24, <1>25, <1>26, <1>27, <1>28, <1>29

\* The phases of discovery.
LEMMA DiscoverInvStep ==
  ASSUME TypeOK, DiscoveryIsWhole, DiscoverInv, [Next]_vars
  PROVE  DiscoverInv'
<1> USE DEF command, db, gsfa, locals, history, Leave, Goto, TypeOK, DiscoveryIsWhole,
     DiscoverInv, Gsfa, Reading, findIndexDir
<1>1. CASE Start
  BY <1>1 DEF Start
<1>2. CASE Fails
  BY <1>2 DEF Fails
<1>3. CASE Discover
  BY <1>3 DEF Discover
<1>4. CASE DownloadSome
  BY <1>4 DEF DownloadSome
<1>5. CASE Download
  BY <1>5 DEF Download
<1>6. CASE ExtractSome
  BY <1>6 DEF ExtractSome
<1>7. CASE Extract
  BY <1>7 DEF Extract
<1>8. CASE WriteMarker
  BY <1>8 DEF WriteMarker
<1>9. CASE RemoveTarball
  BY <1>9 DEF RemoveTarball
<1>10. CASE OpenReader
  BY <1>10 DEF OpenReader
<1>11. CASE Lookup
  BY <1>11 DEF Lookup
<1>12. CASE RemoveSome
  BY <1>12 DEF RemoveSome
<1>13. CASE CleanedUp
  BY <1>13 DEF CleanedUp
<1>14. CASE AskRPC
  BY <1>14 DEF AskRPC
<1>15. CASE SeedSlots
  BY <1>15 DEF SeedSlots
<1>16. CASE SetMeta
  BY <1>16 DEF SetMeta
<1>17. CASE NothingToDo
  BY <1>17 DEF NothingToDo
<1>18. CASE SomethingToDo
  BY <1>18 DEF SomethingToDo
<1>19. CASE RootCID
  BY <1>19 DEF RootCID
<1>20. CASE FetchSome
  BY <1>20 DEF FetchSome
<1>21. CASE Fetch
  BY <1>21 DEF Fetch
<1>22. CASE OpenIndexes
  BY <1>22 DEF OpenIndexes
<1>23. CASE WriteSlot
  BY <1>23 DEF WriteSlot
<1>24. CASE ProcessEnds
  BY <1>24 DEF ProcessEnds
<1>25. CASE RemoveIndex
  BY <1>25 DEF RemoveIndex
<1>26. CASE Return
  BY <1>26 DEF Return
<1>27. CASE Interrupt
  BY <1>27 DEF Interrupt
<1>28. CASE Kill
  BY <1>28 DEF Kill
<1>29. CASE UNCHANGED vars
  BY <1>29 DEF vars
<1> QED
  BY NextCases, <1>1, <1>2, <1>3, <1>4, <1>5, <1>6, <1>7, <1>8, <1>9, <1>10, <1>11, <1>12,
       <1>13, <1>14, <1>15,
     <1>16, <1>17, <1>18, <1>19, <1>20, <1>21, <1>22, <1>23, <1>24, <1>25, <1>26, <1>27, <1>28, <1>29

\* The block indexes.
LEMMA IndexInvStep ==
  ASSUME TypeOK, DiscoverInv, IndexInv, [Next]_vars
  PROVE  IndexInv'
<1> USE DEF command, db, gsfa, locals, history, Leave, Goto, TypeOK, DiscoverInv,
     IndexInv, Gsfa, Reading, Names, Files
<1>1. CASE Start
  BY <1>1 DEF Start
<1>2. CASE Fails
  BY <1>2 DEF Fails
<1>3. CASE Discover
  BY <1>3 DEF Discover
<1>4. CASE DownloadSome
  BY <1>4 DEF DownloadSome
<1>5. CASE Download
  BY <1>5 DEF Download
<1>6. CASE ExtractSome
  BY <1>6 DEF ExtractSome
<1>7. CASE Extract
  BY <1>7 DEF Extract
<1>8. CASE WriteMarker
  BY <1>8 DEF WriteMarker
<1>9. CASE RemoveTarball
  BY <1>9 DEF RemoveTarball
<1>10. CASE OpenReader
  BY <1>10 DEF OpenReader
<1>11. CASE Lookup
  BY <1>11 DEF Lookup
<1>12. CASE RemoveSome
  BY <1>12 DEF RemoveSome
<1>13. CASE CleanedUp
  BY <1>13 DEF CleanedUp
<1>14. CASE AskRPC
  BY <1>14 DEF AskRPC
<1>15. CASE SeedSlots
  BY <1>15 DEF SeedSlots
<1>16. CASE SetMeta
  BY <1>16 DEF SetMeta
<1>17. CASE NothingToDo
  BY <1>17 DEF NothingToDo
<1>18. CASE SomethingToDo
  BY <1>18 DEF SomethingToDo
<1>19. CASE RootCID
  BY <1>19 DEF RootCID
<1>20. CASE FetchSome
  BY <1>20 DEF FetchSome
<1>21. CASE Fetch
  BY <1>21 DEF Fetch
<1>22. CASE OpenIndexes
  BY <1>22 DEF OpenIndexes
<1>23. CASE WriteSlot
  BY <1>23 DEF WriteSlot
<1>24. CASE ProcessEnds
  BY <1>24 DEF ProcessEnds
<1>25. CASE RemoveIndex
  BY <1>25 DEF RemoveIndex
<1>26. CASE Return
  BY <1>26 DEF Return
<1>27. CASE Interrupt
  BY <1>27 DEF Interrupt
<1>28. CASE Kill
  BY <1>28 DEF Kill
<1>29. CASE UNCHANGED vars
  BY <1>29 DEF vars
<1> QED
  BY NextCases, <1>1, <1>2, <1>3, <1>4, <1>5, <1>6, <1>7, <1>8, <1>9, <1>10, <1>11, <1>12,
       <1>13, <1>14, <1>15,
     <1>16, <1>17, <1>18, <1>19, <1>20, <1>21, <1>22, <1>23, <1>24, <1>25, <1>26, <1>27, <1>28, <1>29

\* The extracted directory.
LEMMA DirInvStep ==
  ASSUME TypeOK, DiscoverInv, DirInv, [Next]_vars
  PROVE  DirInv'
<1> USE DEF command, db, gsfa, locals, history, Leave, Goto, TypeOK, DiscoverInv, DirInv,
     Gsfa, Reading, findIndexDir
<1>1. CASE Start
  BY <1>1 DEF Start
<1>2. CASE Fails
  BY <1>2 DEF Fails
<1>3. CASE Discover
  BY <1>3 DEF Discover
<1>4. CASE DownloadSome
  BY <1>4 DEF DownloadSome
<1>5. CASE Download
  BY <1>5 DEF Download
<1>6. CASE ExtractSome
  BY <1>6 DEF ExtractSome
<1>7. CASE Extract
  BY <1>7 DEF Extract
<1>8. CASE WriteMarker
  BY <1>8 DEF WriteMarker
<1>9. CASE RemoveTarball
  BY <1>9 DEF RemoveTarball
<1>10. CASE OpenReader
  BY <1>10 DEF OpenReader
<1>11. CASE Lookup
  BY <1>11 DEF Lookup
<1>12. CASE RemoveSome
  BY <1>12 DEF RemoveSome
<1>13. CASE CleanedUp
  BY <1>13 DEF CleanedUp
<1>14. CASE AskRPC
  BY <1>14 DEF AskRPC
<1>15. CASE SeedSlots
  BY <1>15 DEF SeedSlots
<1>16. CASE SetMeta
  BY <1>16 DEF SetMeta
<1>17. CASE NothingToDo
  BY <1>17 DEF NothingToDo
<1>18. CASE SomethingToDo
  BY <1>18 DEF SomethingToDo
<1>19. CASE RootCID
  BY <1>19 DEF RootCID
<1>20. CASE FetchSome
  BY <1>20 DEF FetchSome
<1>21. CASE Fetch
  BY <1>21 DEF Fetch
<1>22. CASE OpenIndexes
  BY <1>22 DEF OpenIndexes
<1>23. CASE WriteSlot
  BY <1>23 DEF WriteSlot
<1>24. CASE ProcessEnds
  BY <1>24 DEF ProcessEnds
<1>25. CASE RemoveIndex
  BY <1>25 DEF RemoveIndex
<1>26. CASE Return
  BY <1>26 DEF Return
<1>27. CASE Interrupt
  BY <1>27 DEF Interrupt
<1>28. CASE Kill
  BY <1>28 DEF Kill
<1>29. CASE UNCHANGED vars
  BY <1>29 DEF vars
<1> QED
  BY NextCases, <1>1, <1>2, <1>3, <1>4, <1>5, <1>6, <1>7, <1>8, <1>9, <1>10, <1>11, <1>12,
       <1>13, <1>14, <1>15,
     <1>16, <1>17, <1>18, <1>19, <1>20, <1>21, <1>22, <1>23, <1>24, <1>25, <1>26, <1>27, <1>28, <1>29

\* The outcome.
LEMMA OutcomeInvStep ==
  ASSUME TypeOK, DiscoveryIsWhole, DiscoverInv, OutcomeInv, [Next]_vars
  PROVE  OutcomeInv'
<1> USE DEF command, db, gsfa, locals, history, Leave, Goto, TypeOK, DiscoveryIsWhole,
     DiscoverInv, OutcomeInv, Failures, Reading
<1>1. CASE Start
  BY <1>1 DEF Start
<1>2. CASE Fails
  BY <1>2 DEF Fails
<1>3. CASE Discover
  BY <1>3 DEF Discover
<1>4. CASE DownloadSome
  BY <1>4 DEF DownloadSome
<1>5. CASE Download
  BY <1>5 DEF Download
<1>6. CASE ExtractSome
  BY <1>6 DEF ExtractSome
<1>7. CASE Extract
  BY <1>7 DEF Extract
<1>8. CASE WriteMarker
  BY <1>8 DEF WriteMarker
<1>9. CASE RemoveTarball
  BY <1>9 DEF RemoveTarball
<1>10. CASE OpenReader
  BY <1>10 DEF OpenReader
<1>11. CASE Lookup
  BY <1>11 DEF Lookup
<1>12. CASE RemoveSome
  BY <1>12 DEF RemoveSome
<1>13. CASE CleanedUp
  BY <1>13 DEF CleanedUp
<1>14. CASE AskRPC
  BY <1>14 DEF AskRPC
<1>15. CASE SeedSlots
  BY <1>15 DEF SeedSlots
<1>16. CASE SetMeta
  BY <1>16 DEF SetMeta
<1>17. CASE NothingToDo
  BY <1>17 DEF NothingToDo
<1>18. CASE SomethingToDo
  BY <1>18 DEF SomethingToDo
<1>19. CASE RootCID
  BY <1>19 DEF RootCID
<1>20. CASE FetchSome
  BY <1>20 DEF FetchSome
<1>21. CASE Fetch
  BY <1>21 DEF Fetch
<1>22. CASE OpenIndexes
  BY <1>22 DEF OpenIndexes
<1>23. CASE WriteSlot
  BY <1>23 DEF WriteSlot
<1>24. CASE ProcessEnds
  BY <1>24 DEF ProcessEnds
<1>25. CASE RemoveIndex
  BY <1>25 DEF RemoveIndex
<1>26. CASE Return
  BY <1>26 DEF Return
<1>27. CASE Interrupt
  BY <1>27 DEF Interrupt
<1>28. CASE Kill
  BY <1>28 DEF Kill
<1>29. CASE UNCHANGED vars
  BY <1>29 DEF vars
<1> QED
  BY NextCases, <1>1, <1>2, <1>3, <1>4, <1>5, <1>6, <1>7, <1>8, <1>9, <1>10, <1>11, <1>12,
       <1>13, <1>14, <1>15,
     <1>16, <1>17, <1>18, <1>19, <1>20, <1>21, <1>22, <1>23, <1>24, <1>25, <1>26, <1>27, <1>28, <1>29

-----------------------------------------------------------------------------
(* Theorems.                                                               *)

\* Before the first run.
LEMMA InitIInv == Init => IInv
<1> SUFFICES ASSUME Init PROVE IInv
  OBVIOUS
<1>1. TypeOK
  <2>1. index \in [Names -> Files] /\ fetched \in 0..2
    BY DEF Init, Files
  <2> QED
    BY <2>1 DEF Init, TypeOK, Files, Phases
<1>2. DiscoveryIsWhole /\ DiscoverInv
  BY DEF Init, DiscoveryIsWhole, DiscoverInv, Gsfa, Reading
<1>3. IndexInv
  BY DEF Init, IndexInv, Names, Gsfa
<1>4. DirInv /\ OutcomeInv
  BY DEF Init, DirInv, OutcomeInv
<1> QED
  BY <1>1, <1>2, <1>3, <1>4 DEF IInv

\* The invariant holds initially and is preserved.
THEOREM Invariance == Spec => []IInv
<1>1. Init => IInv
  BY InitIInv
<1>2. IInv /\ [Next]_vars => IInv'
  BY TypeOKStep, DiscoveryIsWholeStep, DiscoverInvStep, IndexInvStep, DirInvStep,
     OutcomeInvStep DEF IInv
<1> QED
  BY <1>1, <1>2, PTL DEF Spec

\* Type correctness of a command run any number of times (Run).
THEOREM TypeCorrect == Spec => []TypeOK
<1>1. IInv => TypeOK
  BY DEF IInv
<1> QED
  BY <1>1, Invariance, PTL

\* The mark of discover stands for the whole work list, wherever runs are cut.
THEOREM DiscoveryComplete == Spec => []DiscoveryIsWhole
<1>1. IInv => DiscoveryIsWhole
  BY DEF IInv
<1> QED
  BY <1>1, Invariance, PTL

\* OpenIndexes leaves both indexes complete, whatever was on disk before.
THEOREM IndexesComplete == Spec => []IndexesAreWhole
<1>1. IInv => IndexesAreWhole
  BY DEF IInv, IndexInv, IndexesAreWhole
<1> QED
  BY <1>1, Invariance, PTL

\* The extracted GSFA index and the block indexes are never on disk together
\* (the Cleanup deferred in discoverSlots).
THEOREM DirectoriesDisjoint == Spec => []NoOverlap
<1>1. IInv => NoOverlap
  BY DEF IInv, IndexInv, DirInv, NoOverlap
<1> QED
  BY <1>1, Invariance, PTL

\* Run returns nil without failures only when every slot is done.
THEOREM OkMeansComplete == Spec => []OkIsComplete
<1>1. IInv => OkIsComplete
  BY DEF IInv, OutcomeInv, OkIsComplete
<1> QED
  BY <1>1, Invariance, PTL

\* The slots marked done change with WriteSlot only.
LEMMA OnlyWriteSlot ==
  ASSUME [Next]_vars, ~WriteSlot
  PROVE  UNCHANGED done
  BY NextCases
     DEF Start, Fails, Discover, DownloadSome, Download, ExtractSome, Extract, WriteMarker,
         RemoveTarball, OpenReader, Lookup, RemoveSome, CleanedUp, AskRPC, SeedSlots, SetMeta,
         NothingToDo, SomethingToDo, RootCID, FetchSome, Fetch, OpenIndexes, ProcessEnds,
         RemoveIndex, Return, Interrupt, Kill, db, vars

\* No run ever takes a slot back (SeedSlots, WriteSlot).
THEOREM NothingIsUndone == Spec => DoneStays
<1>1. [Next]_vars => [done \subseteq done']_vars
  <2> SUFFICES ASSUME [Next]_vars PROVE done \subseteq done'
    OBVIOUS
  <2>1. CASE WriteSlot
    BY <2>1 DEF WriteSlot
  <2>2. CASE ~WriteSlot
    BY <2>2, OnlyWriteSlot
  <2> QED
    BY <2>1, <2>2
<1> QED
  BY <1>1, PTL DEF Spec, DoneStays

-----------------------------------------------------------------------------
(* What the downloads and the block reading are to a run.                  *)

\* The tarball, which a run has until it has unpacked it.
TarballFile == INSTANCE Stored WITH file <- tarball, delivered <- (phase = "unpack")

\* The block indexes, each of which a run has from its fetch to the removal.
Has(n) == phase # "remove" /\ n <= fetched
SlotToCid == INSTANCE Stored WITH file <- index[1], delivered <- Has(1)
CidToOffset == INSTANCE Stored WITH file <- index[2], delivered <- Has(2)

\* The database, by the slots marked done.
recorded(s) == {s}
SlotLedger == INSTANCE Ledger WITH collect <- recorded, rows <- done

\* No step but those of a download touches the tarball, up to its removal.
LEMMA TarballStep ==
  ASSUME IInv, [Next]_vars
  PROVE  [TarballFile!Next]_(TarballFile!vars)
<1> USE DEF command, db, gsfa, locals, history, Leave, Goto,
        TarballFile!Next, TarballFile!vars
<1>1. CASE DownloadSome
  BY <1>1 DEF DownloadSome, Begun, TarballFile!Grow
<1>2. CASE Download
  BY <1>2 DEF Download, TarballFile!Deliver
<1>3. CASE ExtractSome
  BY <1>3 DEF ExtractSome, TarballFile!Forget
<1>4. CASE RemoveTarball
  BY <1>4 DEF RemoveTarball, TarballFile!Remove
<1>5. CASE UNCHANGED tarball /\ phase' # "unpack"
  BY <1>5 DEF TarballFile!Forget
<1>6. CASE UNCHANGED <<tarball, phase>>
  BY <1>6
<1>7. CASE Start \/ Fails \/ Kill \/ Discover \/ Extract \/ WriteMarker \/ OpenReader
  BY <1>5, <1>7 DEF Start, Fails, Kill, Discover, Extract, WriteMarker, OpenReader
<1>8. CASE Lookup \/ CleanedUp \/ AskRPC \/ SeedSlots \/ SetMeta \/ NothingToDo
             \/ SomethingToDo \/ RootCID
  BY <1>5, <1>8 DEF Lookup, CleanedUp, AskRPC, SeedSlots, SetMeta, NothingToDo,
       SomethingToDo, RootCID
<1>9. CASE Fetch \/ OpenIndexes \/ ProcessEnds \/ Return
  BY <1>5, <1>9 DEF Fetch, OpenIndexes, ProcessEnds, Return
<1>10. CASE RemoveSome \/ FetchSome \/ WriteSlot \/ RemoveIndex \/ Interrupt \/ UNCHANGED vars
  BY <1>6, <1>10 DEF RemoveSome, FetchSome, WriteSlot, RemoveIndex, Interrupt, vars
<1> QED
  BY <1>1, <1>2, <1>3, <1>4, <1>7, <1>8, <1>9, <1>10, NextCases

\* What a step does to one of the two indexes.
LEMMA IndexFileStep ==
  ASSUME IInv, [Next]_vars, NEW n \in Names
  PROVE  \/ index'[n] = index[n] /\ (Has(n)' <=> Has(n))
         \/ index'[n] = index[n] /\ ~Has(n)'
         \/ index[n] = "none" /\ index'[n] = "part" /\ (Has(n)' <=> Has(n))
         \/ index'[n] = "full" /\ Has(n)'
         \/ index'[n] = "none" /\ ~Has(n)'
<1> USE DEF command, db, gsfa, locals, history, Leave, Goto, Has
<1>0. fetched \in 0..2 /\ n \in 1..2 /\ index \in [Names -> Files]
  BY DEF IInv, TypeOK, Names
<1>1. CASE FetchSome
  <2>1. index' = [index EXCEPT ![fetched + 1] = Begun(@)] /\ index[fetched + 1] = "none"
    BY <1>1 DEF FetchSome
  <2>2. UNCHANGED <<phase, fetched>>
    BY <1>1 DEF FetchSome
  <2> QED
    BY <1>0, <2>1, <2>2 DEF Begun
<1>2. CASE Fetch
  <2>1. /\ index' = [index EXCEPT ![fetched + 1] = "full"] /\ fetched' = fetched + 1
        /\ phase = "fetch" /\ phase' # "remove"
    BY <1>2 DEF Fetch
  <2>2. CASE n = fetched + 1
    BY <1>0, <2>1, <2>2
  <2>3. CASE n # fetched + 1
    <3>1. index'[n] = index[n]
      BY <1>0, <2>1, <2>3
    <3>2. n <= fetched' <=> n <= fetched
      BY <1>0, <2>1, <2>3
    <3> QED
      BY <2>1, <3>1, <3>2
  <2> QED
    BY <2>2, <2>3
<1>3. CASE RemoveIndex
  <2>1. /\ phase' = "remove"
        /\ index' = index \/ index' = [index EXCEPT ![3 - fetched] = "none"]
    BY <1>3 DEF RemoveIndex
  <2> QED
    BY <1>0, <2>1
<1>4. CASE UNCHANGED <<index, phase, fetched>>
  BY <1>4
<1>5. CASE UNCHANGED index /\ (phase' = "remove" \/ fetched' = 0)
  BY <1>0, <1>5
<1>6. CASE UNCHANGED <<index, fetched>> /\ phase # "remove" /\ phase' # "remove"
  BY <1>6
<1>7. CASE Fails \/ Kill \/ NothingToDo \/ Return \/ ProcessEnds
  BY <1>5, <1>7 DEF Fails, Kill, NothingToDo, Return, ProcessEnds
<1>8. CASE CleanedUp
  <2>1. CASE failing
    BY <1>5, <1>8, <2>1 DEF CleanedUp
  <2>2. CASE ~failing
    BY <1>6, <1>8, <2>2 DEF CleanedUp
  <2> QED
    BY <2>1, <2>2
<1>9. CASE Start \/ Discover \/ Download \/ ExtractSome \/ Extract \/ WriteMarker
             \/ RemoveTarball \/ OpenReader
  BY <1>6, <1>9 DEF Start, Discover, Download, ExtractSome, Extract, WriteMarker,
       RemoveTarball, OpenReader
<1>10. CASE Lookup \/ AskRPC \/ SeedSlots \/ SetMeta \/ SomethingToDo \/ RootCID \/ OpenIndexes
  BY <1>6, <1>10 DEF Lookup, AskRPC, SeedSlots, SetMeta, SomethingToDo, RootCID, OpenIndexes
<1>11. CASE DownloadSome \/ RemoveSome \/ WriteSlot \/ Interrupt \/ UNCHANGED vars
  BY <1>4, <1>11 DEF DownloadSome, RemoveSome, WriteSlot, Interrupt, vars
<1> QED
  BY <1>1, <1>2, <1>3, <1>7, <1>8, <1>9, <1>10, <1>11, NextCases

\* DownloadResumable of the tarball and os.Remove (ensureExtracted), in any
\* number of runs: module Stored.
THEOREM TarballIsStored == Spec => TarballFile!Spec
<1>1. Init => TarballFile!Init
  BY DEF Init, TarballFile!Init
<1>2. IInv /\ [Next]_vars => [TarballFile!Next]_(TarballFile!vars)
  BY TarballStep
<1> QED
  BY <1>1, <1>2, Invariance, PTL DEF Spec, TarballFile!Spec

\* Indexes.fetch and Indexes.Cleanup: what a run does to each of the two files
\* is what module Stored allows, although the removal counts backwards.
THEOREM IndexesAreStored == Spec => SlotToCid!Spec /\ CidToOffset!Spec
<1>1. Init => SlotToCid!Init /\ CidToOffset!Init
  BY DEF Init, Names, Has, SlotToCid!Init, CidToOffset!Init
<1>2. ASSUME IInv, [Next]_vars PROVE [SlotToCid!Next]_(SlotToCid!vars)
  <2>1. 1 \in Names
    BY DEF Names
  <2> QED
    BY <1>2, <2>1, IndexFileStep
       DEF Has, SlotToCid!Next, SlotToCid!vars, SlotToCid!Grow, SlotToCid!Deliver,
           SlotToCid!Forget, SlotToCid!Remove
<1>3. ASSUME IInv, [Next]_vars PROVE [CidToOffset!Next]_(CidToOffset!vars)
  <2>1. 2 \in Names
    BY DEF Names
  <2> QED
    BY <1>3, <2>1, IndexFileStep
       DEF Has, CidToOffset!Next, CidToOffset!vars, CidToOffset!Grow, CidToOffset!Deliver,
           CidToOffset!Forget, CidToOffset!Remove
<1> QED
  BY <1>1, <1>2, <1>3, Invariance, PTL DEF Spec, SlotToCid!Spec, CidToOffset!Spec

\* process (WriteSlot) and SeedSlots: seen by the slots marked done, all runs
\* together do what module Ledger allows, one slot at a time.
THEOREM SlotsAreLedger == Spec => SlotLedger!Spec
<1>1. Init => SlotLedger!Init
  BY DEF Init, SlotLedger!Init
<1>2. ASSUME IInv, [Next]_vars PROVE [SlotLedger!Next]_(SlotLedger!vars)
  <2>1. CASE WriteSlot
    <3>1. PICK s \in seeded \ done : done' = done \cup {s}
      BY <2>1 DEF WriteSlot
    <3>2. s \in Slots
      BY <1>2, <3>1 DEF IInv, TypeOK
    <3>3. SlotLedger!Record(s)
      BY <3>1 DEF SlotLedger!Record, recorded
    <3> QED
      BY <3>2, <3>3 DEF SlotLedger!Next
  <2>2. CASE ~WriteSlot
    <3>1. UNCHANGED done
      BY <1>2, <2>2, OnlyWriteSlot
    <3> QED
      BY <3>1 DEF SlotLedger!vars
  <2> QED
    BY <2>1, <2>2
<1> QED
  BY <1>1, <1>2, Invariance, PTL DEF Spec, SlotLedger!Spec

-----------------------------------------------------------------------------
(* What holds of the two statements that the code does not keep.           *)

\* A directory that carries the marker without being whole (Trapped, or the
\* marker left alone).
Stale == marker /\ dir # "full"

\* GsfaIndex.Cleanup over, by an error or a kill, when it has taken a part of
\* the directory away and not the marker.
CutShort == phase = "cleanup" /\ phase' # "cleanup" /\ Stale

SpecUncut == Init /\ [][Next /\ ~CutShort]_vars

\* The marker stands for a whole directory but while it is being removed.
MarkerInv ==
  /\ Stale => phase = "cleanup"
  /\ phase \in {"tarball", "unpack", "extract"} => ~findIndexDir
  /\ phase \in {"mark", "untar", "reader", "lookup"} => dir = "full"

\* An extraction starts without a marker: findIndexDir has not found one, and
\* one without a directory would be stale.
LEMMA MarkerInvStep ==
  ASSUME TypeOK, MarkerInv, [Next /\ ~CutShort]_vars
  PROVE  MarkerInv'
<1> USE DEF command, db, gsfa, locals, history, Leave, Goto, MarkerInv, Stale, findIndexDir
<1>0. [Next]_vars /\ dir \in {"none", "part", "full"}
  BY DEF TypeOK, Files
<1>1. CASE Start \/ Interrupt \/ DownloadSome \/ RemoveTarball \/ OpenReader \/ UNCHANGED vars
  BY <1>1 DEF Start, Interrupt, DownloadSome, RemoveTarball, OpenReader, vars
<1>2. CASE Fails
  BY <1>2 DEF Fails
<1>3. CASE Kill
  <2>1. ~CutShort
    BY <1>3 DEF Kill, vars
  <2> QED
    BY <1>3, <2>1 DEF Kill, CutShort
<1>4. CASE Discover
  BY <1>4 DEF Discover
<1>5. CASE Download
  BY <1>5 DEF Download
<1>6. CASE ExtractSome
  BY <1>0, <1>6 DEF ExtractSome
<1>7. CASE Extract
  BY <1>7 DEF Extract
<1>8. CASE WriteMarker
  BY <1>8 DEF WriteMarker
<1>9. CASE Lookup
  BY <1>9 DEF Lookup
<1>10. CASE RemoveSome
  BY <1>10 DEF RemoveSome
<1>11. CASE CleanedUp
  <2>1. phase = "cleanup" /\ phase' \in {"idle", "seed"}
    BY <1>11 DEF CleanedUp
  <2>2. ~CutShort
    BY <2>1 DEF vars
  <2>3. UNCHANGED <<dir, marker>>
    BY <1>11 DEF CleanedUp
  <2> QED
    BY <2>1, <2>2, <2>3 DEF CutShort
<1>12. CASE AskRPC \/ SeedSlots \/ SetMeta \/ NothingToDo \/ SomethingToDo \/ RootCID
  BY <1>12 DEF AskRPC, SeedSlots, SetMeta, NothingToDo, SomethingToDo, RootCID
<1>13. CASE FetchSome \/ Fetch \/ OpenIndexes \/ WriteSlot
  BY <1>13 DEF FetchSome, Fetch, OpenIndexes, WriteSlot
<1>14. CASE ProcessEnds \/ RemoveIndex \/ Return
  BY <1>14 DEF ProcessEnds, RemoveIndex, Return
<1> QED
  BY <1>0, <1>1, <1>2, <1>3, <1>4, <1>5, <1>6, <1>7, <1>8, <1>9, <1>10, <1>11, <1>12,
     <1>13, <1>14, NextCases

\* ensureExtracted and findIndexDir: an incomplete GSFA index is opened only
\* after a removal that was cut short; a download, an extraction or a
\* discovery that was is of no harm.
THEOREM OnlyCutRemovalsTrap == SpecUncut => []OpensWholeGsfa
<1>1. Init => TypeOK /\ IndexInv /\ DiscoverInv /\ MarkerInv
  <2> SUFFICES ASSUME Init PROVE TypeOK /\ IndexInv /\ DiscoverInv /\ MarkerInv
    OBVIOUS
  <2>1. IInv
    BY InitIInv
  <2>2. MarkerInv
    BY DEF Init, MarkerInv, Stale, findIndexDir
  <2> QED
    BY <2>1, <2>2 DEF IInv
<1>2. TypeOK /\ IndexInv /\ MarkerInv /\ [Next /\ ~CutShort]_vars => TypeOK' /\ MarkerInv'
  <2> SUFFICES ASSUME TypeOK, IndexInv, MarkerInv, [Next /\ ~CutShort]_vars
               PROVE  TypeOK' /\ MarkerInv'
    OBVIOUS
  <2>1. [Next]_vars
    OBVIOUS
  <2> QED
    BY <2>1, TypeOKStep, MarkerInvStep
<1>3. MarkerInv => OpensWholeGsfa
  BY DEF MarkerInv, OpensWholeGsfa
<1>4. [Next /\ ~CutShort]_vars => [Next]_vars
  OBVIOUS
<1>5. SpecUncut => Spec
  BY <1>4, PTL DEF SpecUncut, Spec
<1>6. IInv => IndexInv
  BY DEF IInv
<1> QED
  BY <1>1, <1>2, <1>3, <1>5, <1>6, Invariance, PTL DEF SpecUncut

\* A run that removes its indexes early is one that returns failures or the
\* interrupt.
RemovalInv ==
  phase = "remove" => seeded \subseteq done \/ outcome \in {"canceled", "failures"}

LEMMA RemovalInvStep ==
  ASSUME RemovalInv, [Next]_vars
  PROVE  RemovalInv'
<1> USE DEF command, db, gsfa, locals, history, Leave, Goto, RemovalInv
<1>1. CASE phase' # "remove"
  BY <1>1
<1>2. CASE ProcessEnds
  BY <1>2 DEF ProcessEnds
<1>3. CASE UNCHANGED <<phase, seeded, done, outcome>>
  BY <1>3
<1>4. CASE Start \/ Fails \/ Kill \/ Discover \/ Download \/ ExtractSome \/ Extract
             \/ WriteMarker \/ RemoveTarball \/ OpenReader
  BY <1>1, <1>4 DEF Start, Fails, Kill, Discover, Download, ExtractSome, Extract,
       WriteMarker, RemoveTarball, OpenReader
<1>5. CASE Lookup \/ CleanedUp \/ AskRPC \/ SeedSlots \/ SetMeta \/ NothingToDo
             \/ SomethingToDo \/ RootCID \/ Fetch \/ OpenIndexes \/ Return \/ WriteSlot
  BY <1>1, <1>5 DEF Lookup, CleanedUp, AskRPC, SeedSlots, SetMeta, NothingToDo,
       SomethingToDo, RootCID, Fetch, OpenIndexes, Return, WriteSlot
<1>6. CASE DownloadSome \/ RemoveSome \/ FetchSome \/ RemoveIndex \/ Interrupt \/ UNCHANGED vars
  BY <1>3, <1>6 DEF DownloadSome, RemoveSome, FetchSome, RemoveIndex, Interrupt, vars
<1> QED
  BY <1>2, <1>4, <1>5, <1>6, NextCases

\* Only Cleanup takes an index away.
LEMMA OnlyCleanupRemoves ==
  ASSUME TypeOK, IndexInv, [Next]_vars, ~RemoveIndex,
         NEW n \in Names, index[n] # "none"
  PROVE  index'[n] # "none"
<1>0. index \in [Names -> Files] /\ fetched \in 0..2
  BY DEF TypeOK
<1>1. CASE FetchSome
  <2>1. index' = [index EXCEPT ![fetched + 1] = Begun(@)]
    BY <1>1 DEF FetchSome
  <2> QED
    BY <1>0, <2>1 DEF Begun
<1>2. CASE Fetch
  <2>1. index' = [index EXCEPT ![fetched + 1] = "full"]
    BY <1>2 DEF Fetch
  <2> QED
    BY <1>0, <2>1
<1>3. CASE ~FetchSome /\ ~Fetch
  <2>1. UNCHANGED index
    BY <1>3, NextCases
       DEF Start, Fails, Discover, DownloadSome, Download, ExtractSome, Extract, WriteMarker,
           RemoveTarball, OpenReader, Lookup, RemoveSome, CleanedUp, AskRPC, SeedSlots, SetMeta,
           NothingToDo, SomethingToDo, RootCID, OpenIndexes, WriteSlot, ProcessEnds,
           Return, Interrupt, Kill, vars
  <2> QED
    BY <2>1
<1> QED
  BY <1>1, <1>2, <1>3

\* Indexes.Cleanup: no run that returns nil without failures, fails otherwise
\* or is killed removes an index while slots are still to be read; what does
\* is a run that returns the interrupt or has logged failures.
THEOREM RemovedEarlyOnlyThen ==
  Spec => [][\A n \in Names : index[n] # "none" /\ index'[n] = "none" =>
               seeded \subseteq done \/ outcome \in {"canceled", "failures"}]_vars
<1>1. Init => RemovalInv
  BY DEF Init, RemovalInv
<1>2. RemovalInv /\ [Next]_vars => RemovalInv'
  BY RemovalInvStep
<1>3. IInv /\ RemovalInv /\ [Next]_vars =>
        [\A n \in Names : index[n] # "none" /\ index'[n] = "none" =>
           seeded \subseteq done \/ outcome \in {"canceled", "failures"}]_vars
  <2> SUFFICES ASSUME IInv, RemovalInv, [Next]_vars,
                      NEW n \in Names, index[n] # "none", index'[n] = "none"
               PROVE  seeded \subseteq done \/ outcome \in {"canceled", "failures"}
    OBVIOUS
  <2>1. RemoveIndex
    BY OnlyCleanupRemoves DEF IInv
  <2> QED
    BY <2>1 DEF RemoveIndex, RemovalInv
<1> QED
  BY <1>1, <1>2, <1>3, Invariance, PTL DEF Spec

=============================================================================
