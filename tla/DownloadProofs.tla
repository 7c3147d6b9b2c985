--------------------------- MODULE DownloadProofs ---------------------------
(***************************************************************************)
(* Safety of Download for any number of workers, any threshold and any     *)
(* sequence of publications of pairwise different lengths.                 *)
(***************************************************************************)
EXTENDS Download, FiniteSetTheorems, TLAPS

\* What the length check of openParts relies on: no publication has as many
\* chunks as an earlier one.
DistinctLengths == \A u, v \in 1..MaxVersion : Length[u] = Length[v] => u = v

-----------------------------------------------------------------------------
(* The inductive invariant.                                                *)

OnChunk == {"fetch", "write", "mark"}

\* Each goroutine is in a phase of its own code; a worker has a chunk exactly
\* while it fetches, writes or marks it, and marks it once it is in the file.
WorkerInv ==
  /\ pc[Main] \in {"idle", "open", "file", "feed", "join", "close"} \cup Flushing
  /\ \A w \in Workers :
       /\ pc[w] \in {"idle", "recv", "fetch", "write", "mark", "maybe", "fail", "exit"}
                      \cup Flushing
       /\ job[w] # NoJob <=> pc[w] \in OnChunk
       /\ pc[w] = "mark" => job[w] \in good

\* The mutex, and the start and the end of the workers.
PhaseInv ==
  /\ \A p, q \in Procs : pc[p] \in Flushing /\ pc[q] \in Flushing => p = q
  /\ pc[Main] \in {"idle", "open", "file"} =>
       (\A w \in Workers : pc[w] = "idle") /\ todo = {} /\ errs = 0
  /\ pc[Main] \in {"idle", "open"} => state = {}
  /\ pc[Main] \in Flushing \cup {"close"} =>
       \A w \in Workers : pc[w] \in {"idle", "exit"}

\* What is recorded is in the file; when it is about to be written to the
\* sidecar, and when it was read from there, it is on stable storage.
RecordInv ==
  /\ state \subseteq good
  /\ \A p \in Procs : pc[p] \in {"trunc", "put"} => state \subseteq stable
  /\ pc[Main] = "file" => state \subseteq stable

\* No chunk is forgotten unless an error is on its way.
CoverInv ==
  /\ pc[Main] \in {"feed", "join"} \cup Flushing =>
       \/ cancelled
       \/ \E w \in Workers : pc[w] = "fail"
       \/ Chunks \subseteq state \cup todo \cup {job[w] : w \in Workers}
  /\ pc[Main] \in {"join"} \cup Flushing => cancelled \/ todo = {}
  /\ result = "ok" => Chunks \subseteq stable /\ pc[Main] \in {"idle", "close"}

\* Recorded, waiting and in flight are disjoint.
DisjointInv ==
  /\ todo \cap state = {}
  /\ pc[Main] \notin {"idle", "open"} => Claims(sidecar) \subseteq state
  /\ \A w \in Workers : job[w] # NoJob => job[w] \notin state \cup todo
  /\ \A v, w \in Workers : job[v] # NoJob /\ job[v] = job[w] => v = w

\* A call about to return the interrupt has written down what it recorded.
CloseInv ==
  pc[Main] = "close" /\ result = "canceled" => sidecar = Current(state)

\* Workers that may have marked a chunk since dirty was last below SyncEvery.
past == {w \in Workers : pc[w] \in {"maybe", "fail", "exit"} \cup Flushing}

\* The chunks a kill would cost are counted in dirty, and dirty exceeds the
\* threshold by no more than the workers that have not come back.
LossInv ==
  /\ pc[Main] \in {"idle", "open", "file"} => dirty = 0
  /\ sidecar # Torn => /\ IsFiniteSet(state \ Claims(sidecar))
                       /\ Cardinality(state \ Claims(sidecar)) <= dirty
  /\ dirty <= SyncEvery - 1 + Cardinality(past)

IInv == TypeOK /\ SidecarHonest /\ WorkerInv /\ PhaseInv /\ RecordInv /\ CoverInv /\ DisjointInv
          /\ CloseInv

-----------------------------------------------------------------------------
(* The proof: each part of the invariant is preserved by every action.     *)

\* Next, one disjunct per action; the flush is the same code for a worker and
\* for Main.
LEMMA NextCases ==
  ASSUME Next
  PROVE  \/ Start \/ SizeFails \/ OpenPartsFails \/ OpenParts \/ OpenFileFails
         \/ NothingPending \/ StartWorkers \/ StopFeeding \/ Join \/ Close
         \/ \E w \in Workers :
              \/ Feed(w) \/ NoMoreJobs(w) \/ Fetch(w) \/ ChunkFails(w)
              \/ Write(w) \/ Mark(w) \/ MaybeFlush(w) \/ Report(w)
         \/ \E p \in Procs : Sync(p) \/ Truncate(p) \/ Put(p) \/ FlushFails(p)
         \/ Interrupt \/ Kill \/ PowerLoss \/ Writeback \/ Republish
<1>1. CASE MainLocal
  BY <1>1 DEF MainLocal, Procs
<1>2. CASE \E w \in Workers : WorkerLocal(w)
  BY <1>2 DEF WorkerLocal, Procs
<1> QED
  BY <1>1, <1>2 DEF Next, Environment

\* The type invariant.
LEMMA TypeOKStep ==
  ASSUME TypeOK, SidecarHonest, WorkerInv, PhaseInv, Next
  PROVE  TypeOK'
<1> USE WorkersAssumption, LengthAssumption DEF disk, memory, Goto, Leave, Procs, NoJob,
     TypeOK, Chunks, Phases, Results, Flushing, Sidecars
<1>1. CASE Start
  BY <1>1 DEF Start
<1>2. CASE SizeFails
  BY <1>2 DEF SizeFails
<1>3. CASE OpenPartsFails
  BY <1>3 DEF OpenPartsFails
<1>4. CASE OpenParts
  BY <1>4 DEF OpenParts, SidecarHonest, Claims, Absent
<1>5. CASE OpenFileFails
  BY <1>5 DEF OpenFileFails
<1>6. CASE NothingPending
  BY <1>6 DEF NothingPending
<1>7. CASE StartWorkers
  BY <1>7 DEF StartWorkers, pending
<1>8. ASSUME NEW w \in Workers, Feed(w) PROVE TypeOK'
  <2>1. PICK c \in todo : /\ todo' = todo \ {c} /\ job' = [job EXCEPT ![w] = c]
                         /\ \E p \in {"join", "feed"} :
                              pc' = [pc EXCEPT ![w] = "fetch", ![Main] = p]
    BY <1>8 DEF Feed
  <2>2. UNCHANGED <<version, good, stable, sidecar, saved, state, dirty, errs, interrupted, result>>
    BY <1>8 DEF Feed
  <2>3. todo' \subseteq Chunks /\ job' \in [Workers -> Chunks \cup {NoJob}]
    BY <2>1
  <2>4. pc' \in [Procs -> Phases]
    BY <2>1
  <2> QED
    BY <2>2, <2>3, <2>4
<1>9. CASE StopFeeding
  BY <1>9 DEF StopFeeding
<1>10. ASSUME NEW w \in Workers, NoMoreJobs(w) PROVE TypeOK'
  BY <1>10 DEF NoMoreJobs
<1>11. ASSUME NEW w \in Workers, Fetch(w) PROVE TypeOK'
  BY <1>11 DEF Fetch
<1>12. ASSUME NEW w \in Workers, ChunkFails(w) PROVE TypeOK'
  BY <1>12 DEF ChunkFails
<1>13. ASSUME NEW w \in Workers, Write(w) PROVE TypeOK'
  <2>1. job[w] \in Chunks
    BY <1>13 DEF Write, WorkerInv, OnChunk
  <2>2. /\ good' = good \cup {job[w]} /\ pc' = [pc EXCEPT ![w] = "mark"]
        /\ UNCHANGED <<version, stable, sidecar, saved, memory, interrupted, result>>
    BY <1>13 DEF Write
  <2>3. good' \subseteq Chunks /\ stable' \subseteq good'
    BY <2>1, <2>2
  <2>4. pc' \in [Procs -> Phases]
    BY <2>2
  <2> QED
    BY <2>2, <2>3, <2>4
<1>14. ASSUME NEW w \in Workers, Mark(w) PROVE TypeOK'
  <2>1. job[w] \in Chunks
    BY <1>14 DEF Mark, WorkerInv, OnChunk
  <2>2. job' \in [Workers -> Chunks \cup {NoJob}] /\ pc' \in [Procs -> Phases]
    BY <1>14 DEF Mark
  <2>3. state' \subseteq Chunks /\ dirty' \in Nat
    <3>1. state' = state \cup {job[w]} /\ dirty' = dirty + 1
      BY <1>14 DEF Mark
    <3>2. state \subseteq Chunks /\ dirty \in Nat
      OBVIOUS
    <3> HIDE DEF TypeOK, Chunks, Sidecars
    <3> QED
      BY <3>1, <3>2, <2>1
  <2>4. UNCHANGED <<version, good, stable, sidecar, saved, todo, errs, interrupted, result>>
    BY <1>14 DEF Mark
  <2> QED
    BY <2>2, <2>3, <2>4
<1>15. ASSUME NEW w \in Workers, MaybeFlush(w) PROVE TypeOK'
  BY <1>15 DEF MaybeFlush
<1>16. ASSUME NEW w \in Workers, Report(w) PROVE TypeOK'
  <2>1. /\ errs' = errs + 1 /\ pc' = [pc EXCEPT ![w] = "exit"]
        /\ UNCHANGED <<version, disk, job, state, dirty, todo, interrupted, result>>
    BY <1>16 DEF Report
  <2>2. errs' \in Nat /\ pc' \in [Procs -> Phases]
    BY <2>1
  <2> QED
    BY <2>1, <2>2
<1>17. CASE Join
  BY <1>17 DEF Join
<1>18. ASSUME NEW p \in Procs, Sync(p) PROVE TypeOK'
  BY <1>18 DEF Sync
<1>19. ASSUME NEW p \in Procs, Truncate(p) PROVE TypeOK'
  BY <1>19 DEF Truncate, Torn
<1>20. ASSUME NEW p \in Procs, Put(p) PROVE TypeOK'
  <2>1. sidecar' \in Sidecars
    BY <1>20 DEF Put, Current
  <2>2. pc' \in [Procs -> Phases] /\ result' \in Results
    BY <1>20 DEF Put, Outcome
  <2> QED
    BY <2>1, <2>2, <1>20 DEF Put
<1>21. ASSUME NEW p \in Procs, FlushFails(p) PROVE TypeOK'
  BY <1>21 DEF FlushFails
<1>22. CASE Close
  <2>1. sidecar' \in Sidecars
    BY <1>22 DEF Close, Absent
  <2> QED
    BY <2>1, <1>22 DEF Close
<1>23. CASE Interrupt
  BY <1>23 DEF Interrupt
<1>24. CASE Kill
  BY <1>24 DEF Kill
<1>25. CASE PowerLoss
  BY <1>25 DEF PowerLoss
<1>26. CASE Writeback
  BY <1>26 DEF Writeback
<1>27. CASE Republish
  <2>1. version' \in 1..MaxVersion /\ 1..version \subseteq 1..version'
    BY <1>27 DEF Republish
  <2>2. sidecar' \in Sidecars' /\ saved' \in Sidecars'
    BY <2>1, <1>27 DEF Republish
  <2>3. state = {} /\ todo = {} /\ \A w \in Workers : job[w] = NoJob
    BY <1>27 DEF Republish, WorkerInv, PhaseInv, OnChunk
  <2> QED
    BY <2>1, <2>2, <2>3, <1>27 DEF Republish
<1> QED
  BY <1>1, <1>2, <1>3, <1>4, <1>5, <1>6, <1>7, <1>8, <1>9, <1>10, <1>11, <1>12, <1>13,
       <1>14,
     <1>15, <1>16, <1>17, <1>18, <1>19, <1>20, <1>21, <1>22, <1>23, <1>24, <1>25, <1>26, <1>27, NextCases

\* The sidecars claim only what is stable.
LEMMA SidecarHonestStep ==
  ASSUME DistinctLengths \/ version' = version, TypeOK, SidecarHonest, RecordInv, Next
  PROVE  SidecarHonest'
<1> USE WorkersAssumption, LengthAssumption DEF disk, memory, Goto, Leave, Procs, NoJob,
     TypeOK, SidecarHonest, Claims, Chunks, Sidecars
<1>1. CASE Start
  BY <1>1 DEF Start
<1>2. CASE SizeFails
  BY <1>2 DEF SizeFails
<1>3. CASE OpenPartsFails
  BY <1>3 DEF OpenPartsFails
<1>4. CASE OpenParts
  BY <1>4 DEF OpenParts, Absent
<1>5. CASE OpenFileFails
  BY <1>5 DEF OpenFileFails
<1>6. CASE NothingPending
  BY <1>6 DEF NothingPending
<1>7. CASE StartWorkers
  BY <1>7 DEF StartWorkers
<1>8. ASSUME NEW w \in Workers, Feed(w) PROVE SidecarHonest'
  BY <1>8 DEF Feed
<1>9. CASE StopFeeding
  BY <1>9 DEF StopFeeding
<1>10. ASSUME NEW w \in Workers, NoMoreJobs(w) PROVE SidecarHonest'
  BY <1>10 DEF NoMoreJobs
<1>11. ASSUME NEW w \in Workers, Fetch(w) PROVE SidecarHonest'
  BY <1>11 DEF Fetch
<1>12. ASSUME NEW w \in Workers, ChunkFails(w) PROVE SidecarHonest'
  BY <1>12 DEF ChunkFails
<1>13. ASSUME NEW w \in Workers, Write(w) PROVE SidecarHonest'
  BY <1>13 DEF Write
<1>14. ASSUME NEW w \in Workers, Mark(w) PROVE SidecarHonest'
  BY <1>14 DEF Mark
<1>15. ASSUME NEW w \in Workers, MaybeFlush(w) PROVE SidecarHonest'
  BY <1>15 DEF MaybeFlush
<1>16. ASSUME NEW w \in Workers, Report(w) PROVE SidecarHonest'
  BY <1>16 DEF Report
<1>17. CASE Join
  BY <1>17 DEF Join
<1>18. ASSUME NEW p \in Procs, Sync(p) PROVE SidecarHonest'
  BY <1>18 DEF Sync
<1>19. ASSUME NEW p \in Procs, Truncate(p) PROVE SidecarHonest'
  BY <1>19 DEF Truncate, Torn
<1>20. ASSUME NEW p \in Procs, Put(p) PROVE SidecarHonest'
  BY <1>20 DEF Put, RecordInv, Current
<1>21. ASSUME NEW p \in Procs, FlushFails(p) PROVE SidecarHonest'
  BY <1>21 DEF FlushFails
<1>22. CASE Close
  BY <1>22 DEF Close, Absent
<1>23. CASE Interrupt
  BY <1>23 DEF Interrupt
<1>24. CASE Kill
  BY <1>24 DEF Kill
<1>25. CASE PowerLoss
  BY <1>25 DEF PowerLoss
<1>26. CASE Writeback
  BY <1>26 DEF Writeback
<1>27. CASE Republish
  BY <1>27 DEF Republish, DistinctLengths
<1> QED
  BY <1>1, <1>2, <1>3, <1>4, <1>5, <1>6, <1>7, <1>8, <1>9, <1>10, <1>11, <1>12, <1>13,
       <1>14,
     <1>15, <1>16, <1>17, <1>18, <1>19, <1>20, <1>21, <1>22, <1>23, <1>24, <1>25, <1>26, <1>27, NextCases

\* Each goroutine stays in its own code.
LEMMA WorkerInvStep ==
  ASSUME TypeOK, WorkerInv, PhaseInv, Next
  PROVE  WorkerInv'
<1> USE WorkersAssumption, LengthAssumption DEF disk, memory, Goto, Leave, Procs, NoJob,
     TypeOK, WorkerInv, OnChunk, Flushing
<1>1. CASE Start
  BY <1>1 DEF Start
<1>2. CASE SizeFails
  BY <1>2 DEF SizeFails
<1>3. CASE OpenPartsFails
  BY <1>3 DEF OpenPartsFails
<1>4. CASE OpenParts
  BY <1>4 DEF OpenParts
<1>5. CASE OpenFileFails
  BY <1>5 DEF OpenFileFails
<1>6. CASE NothingPending
  BY <1>6 DEF NothingPending
<1>7. CASE StartWorkers
  BY <1>7 DEF StartWorkers, PhaseInv
<1>8. ASSUME NEW w \in Workers, Feed(w) PROVE WorkerInv'
  BY <1>8 DEF Feed, Chunks
<1>9. CASE StopFeeding
  BY <1>9 DEF StopFeeding
<1>10. ASSUME NEW w \in Workers, NoMoreJobs(w) PROVE WorkerInv'
  BY <1>10 DEF NoMoreJobs
<1>11. ASSUME NEW w \in Workers, Fetch(w) PROVE WorkerInv'
  BY <1>11 DEF Fetch
<1>12. ASSUME NEW w \in Workers, ChunkFails(w) PROVE WorkerInv'
  BY <1>12 DEF ChunkFails
<1>13. ASSUME NEW w \in Workers, Write(w) PROVE WorkerInv'
  BY <1>13 DEF Write
<1>14. ASSUME NEW w \in Workers, Mark(w) PROVE WorkerInv'
  BY <1>14 DEF Mark
<1>15. ASSUME NEW w \in Workers, MaybeFlush(w) PROVE WorkerInv'
  BY <1>15 DEF MaybeFlush
<1>16. ASSUME NEW w \in Workers, Report(w) PROVE WorkerInv'
  BY <1>16 DEF Report
<1>17. CASE Join
  BY <1>17 DEF Join
<1>18. ASSUME NEW p \in Procs, Sync(p) PROVE WorkerInv'
  BY <1>18 DEF Sync
<1>19. ASSUME NEW p \in Procs, Truncate(p) PROVE WorkerInv'
  BY <1>19 DEF Truncate
<1>20. ASSUME NEW p \in Procs, Put(p) PROVE WorkerInv'
  BY <1>20 DEF Put
<1>21. ASSUME NEW p \in Procs, FlushFails(p) PROVE WorkerInv'
  BY <1>21 DEF FlushFails
<1>22. CASE Close
  BY <1>22 DEF Close
<1>23. CASE Interrupt
  BY <1>23 DEF Interrupt
<1>24. CASE Kill
  BY <1>24 DEF Kill
<1>25. CASE PowerLoss
  BY <1>25 DEF PowerLoss
<1>26. CASE Writeback
  BY <1>26 DEF Writeback
<1>27. CASE Republish
  BY <1>27 DEF Republish, PhaseInv
<1> QED
  BY <1>1, <1>2, <1>3, <1>4, <1>5, <1>6, <1>7, <1>8, <1>9, <1>10, <1>11, <1>12, <1>13,
       <1>14,
     <1>15, <1>16, <1>17, <1>18, <1>19, <1>20, <1>21, <1>22, <1>23, <1>24, <1>25, <1>26, <1>27, NextCases

\* The mutex is exclusive and the workers start and end with runChunks.
LEMMA PhaseInvStep ==
  ASSUME TypeOK, WorkerInv, PhaseInv, Next
  PROVE  PhaseInv'
<1> USE WorkersAssumption DEF disk, memory, Goto, Leave, Procs, NoJob, TypeOK, WorkerInv,
     PhaseInv, Flushing
<1>1. CASE Start
  BY <1>1 DEF Start
<1>2. CASE SizeFails
  BY <1>2 DEF SizeFails
<1>3. CASE OpenPartsFails
  BY <1>3 DEF OpenPartsFails
<1>4. CASE OpenParts
  BY <1>4 DEF OpenParts
<1>5. CASE OpenFileFails
  BY <1>5 DEF OpenFileFails
<1>6. CASE NothingPending
  BY <1>6 DEF NothingPending
<1>7. CASE StartWorkers
  BY <1>7 DEF StartWorkers
<1>8. ASSUME NEW w \in Workers, Feed(w) PROVE PhaseInv'
  BY <1>8 DEF Feed
<1>9. CASE StopFeeding
  BY <1>9 DEF StopFeeding
<1>10. ASSUME NEW w \in Workers, NoMoreJobs(w) PROVE PhaseInv'
  BY <1>10 DEF NoMoreJobs
<1>11. ASSUME NEW w \in Workers, Fetch(w) PROVE PhaseInv'
  BY <1>11 DEF Fetch
<1>12. ASSUME NEW w \in Workers, ChunkFails(w) PROVE PhaseInv'
  BY <1>12 DEF ChunkFails
<1>13. ASSUME NEW w \in Workers, Write(w) PROVE PhaseInv'
  BY <1>13 DEF Write
<1>14. ASSUME NEW w \in Workers, Mark(w) PROVE PhaseInv'
  BY <1>14 DEF Mark
<1>15. ASSUME NEW w \in Workers, MaybeFlush(w) PROVE PhaseInv'
  BY <1>15 DEF MaybeFlush, Unlocked
<1>16. ASSUME NEW w \in Workers, Report(w) PROVE PhaseInv'
  BY <1>16 DEF Report
<1>17. CASE Join
  BY <1>17 DEF Join, Unlocked
<1>18. ASSUME NEW p \in Procs, Sync(p) PROVE PhaseInv'
  BY <1>18 DEF Sync
<1>19. ASSUME NEW p \in Procs, Truncate(p) PROVE PhaseInv'
  BY <1>19 DEF Truncate
<1>20. ASSUME NEW p \in Procs, Put(p) PROVE PhaseInv'
  BY <1>20 DEF Put
<1>21. ASSUME NEW p \in Procs, FlushFails(p) PROVE PhaseInv'
  BY <1>21 DEF FlushFails
<1>22. CASE Close
  BY <1>22 DEF Close
<1>23. CASE Interrupt
  BY <1>23 DEF Interrupt
<1>24. CASE Kill
  BY <1>24 DEF Kill
<1>25. CASE PowerLoss
  BY <1>25 DEF PowerLoss
<1>26. CASE Writeback
  BY <1>26 DEF Writeback
<1>27. CASE Republish
  BY <1>27 DEF Republish
<1> QED
  BY <1>1, <1>2, <1>3, <1>4, <1>5, <1>6, <1>7, <1>8, <1>9, <1>10, <1>11, <1>12, <1>13,
       <1>14,
     <1>15, <1>16, <1>17, <1>18, <1>19, <1>20, <1>21, <1>22, <1>23, <1>24, <1>25, <1>26, <1>27, NextCases

\* Recorded chunks are in the file, and stable when they must be.
LEMMA RecordInvStep ==
  ASSUME TypeOK, SidecarHonest, WorkerInv, PhaseInv, RecordInv, Next
  PROVE  RecordInv'
<1> USE WorkersAssumption DEF disk, memory, Goto, Leave, Procs, NoJob, TypeOK, WorkerInv,
     PhaseInv, RecordInv, Flushing, OnChunk
<1>1. CASE Start
  BY <1>1 DEF Start
<1>2. CASE SizeFails
  BY <1>2 DEF SizeFails
<1>3. CASE OpenPartsFails
  BY <1>3 DEF OpenPartsFails
<1>4. CASE OpenParts
  BY <1>4 DEF OpenParts, SidecarHonest, Claims
<1>5. CASE OpenFileFails
  BY <1>5 DEF OpenFileFails
<1>6. CASE NothingPending
  BY <1>6 DEF NothingPending
<1>7. CASE StartWorkers
  BY <1>7 DEF StartWorkers
<1>8. ASSUME NEW w \in Workers, Feed(w) PROVE RecordInv'
  BY <1>8 DEF Feed
<1>9. CASE StopFeeding
  BY <1>9 DEF StopFeeding
<1>10. ASSUME NEW w \in Workers, NoMoreJobs(w) PROVE RecordInv'
  BY <1>10 DEF NoMoreJobs
<1>11. ASSUME NEW w \in Workers, Fetch(w) PROVE RecordInv'
  BY <1>11 DEF Fetch
<1>12. ASSUME NEW w \in Workers, ChunkFails(w) PROVE RecordInv'
  BY <1>12 DEF ChunkFails
<1>13. ASSUME NEW w \in Workers, Write(w) PROVE RecordInv'
  BY <1>13 DEF Write
<1>14. ASSUME NEW w \in Workers, Mark(w) PROVE RecordInv'
  BY <1>14 DEF Mark, Unlocked
<1>15. ASSUME NEW w \in Workers, MaybeFlush(w) PROVE RecordInv'
  BY <1>15 DEF MaybeFlush
<1>16. ASSUME NEW w \in Workers, Report(w) PROVE RecordInv'
  BY <1>16 DEF Report
<1>17. CASE Join
  BY <1>17 DEF Join
<1>18. ASSUME NEW p \in Procs, Sync(p) PROVE RecordInv'
  BY <1>18 DEF Sync
<1>19. ASSUME NEW p \in Procs, Truncate(p) PROVE RecordInv'
  BY <1>19 DEF Truncate
<1>20. ASSUME NEW p \in Procs, Put(p) PROVE RecordInv'
  BY <1>20 DEF Put
<1>21. ASSUME NEW p \in Procs, FlushFails(p) PROVE RecordInv'
  BY <1>21 DEF FlushFails
<1>22. CASE Close
  BY <1>22 DEF Close
<1>23. CASE Interrupt
  BY <1>23 DEF Interrupt
<1>24. CASE Kill
  BY <1>24 DEF Kill
<1>25. CASE PowerLoss
  BY <1>25 DEF PowerLoss
<1>26. CASE Writeback
  BY <1>26 DEF Writeback
<1>27. CASE Republish
  BY <1>27 DEF Republish
<1> QED
  BY <1>1, <1>2, <1>3, <1>4, <1>5, <1>6, <1>7, <1>8, <1>9, <1>10, <1>11, <1>12, <1>13,
       <1>14,
     <1>15, <1>16, <1>17, <1>18, <1>19, <1>20, <1>21, <1>22, <1>23, <1>24, <1>25, <1>26, <1>27, NextCases

\* No chunk is forgotten.
LEMMA CoverInvStep ==
  ASSUME TypeOK, SidecarHonest, WorkerInv, PhaseInv, RecordInv, CoverInv, Next
  PROVE  CoverInv'
<1> USE WorkersAssumption DEF disk, memory, Goto, Leave, Procs, NoJob, TypeOK, WorkerInv,
     PhaseInv, RecordInv, CoverInv, Flushing, OnChunk, cancelled, Chunks
<1>1. CASE Start
  BY <1>1 DEF Start
<1>2. CASE SizeFails
  BY <1>2 DEF SizeFails
<1>3. CASE OpenPartsFails
  BY <1>3 DEF OpenPartsFails
<1>4. CASE OpenParts
  BY <1>4 DEF OpenParts
<1>5. CASE OpenFileFails
  BY <1>5 DEF OpenFileFails
<1>6. CASE NothingPending
  BY <1>6 DEF NothingPending, pending
<1>7. CASE StartWorkers
  BY <1>7 DEF StartWorkers, pending
<1>8. ASSUME NEW w \in Workers, Feed(w) PROVE CoverInv'
  BY <1>8 DEF Feed
<1>9. CASE StopFeeding
  BY <1>9 DEF StopFeeding
<1>10. ASSUME NEW w \in Workers, NoMoreJobs(w) PROVE CoverInv'
  BY <1>10 DEF NoMoreJobs
<1>11. ASSUME NEW w \in Workers, Fetch(w) PROVE CoverInv'
  BY <1>11 DEF Fetch
<1>12. ASSUME NEW w \in Workers, ChunkFails(w) PROVE CoverInv'
  BY <1>12 DEF ChunkFails
<1>13. ASSUME NEW w \in Workers, Write(w) PROVE CoverInv'
  BY <1>13 DEF Write
<1>14. ASSUME NEW w \in Workers, Mark(w) PROVE CoverInv'
  BY <1>14 DEF Mark
<1>15. ASSUME NEW w \in Workers, MaybeFlush(w) PROVE CoverInv'
  BY <1>15 DEF MaybeFlush
<1>16. ASSUME NEW w \in Workers, Report(w) PROVE CoverInv'
  BY <1>16 DEF Report
<1>17. CASE Join
  BY <1>17 DEF Join
<1>18. ASSUME NEW p \in Procs, Sync(p) PROVE CoverInv'
  BY <1>18 DEF Sync
<1>19. ASSUME NEW p \in Procs, Truncate(p) PROVE CoverInv'
  BY <1>19 DEF Truncate
<1>20. ASSUME NEW p \in Procs, Put(p) PROVE CoverInv'
  BY <1>20 DEF Put, Outcome
<1>21. ASSUME NEW p \in Procs, FlushFails(p) PROVE CoverInv'
  BY <1>21 DEF FlushFails
<1>22. CASE Close
  BY <1>22 DEF Close
<1>23. CASE Interrupt
  BY <1>23 DEF Interrupt
<1>24. CASE Kill
  BY <1>24 DEF Kill
<1>25. CASE PowerLoss
  BY <1>25 DEF PowerLoss
<1>26. CASE Writeback
  BY <1>26 DEF Writeback
<1>27. CASE Republish
  BY <1>27 DEF Republish
<1> QED
  BY <1>1, <1>2, <1>3, <1>4, <1>5, <1>6, <1>7, <1>8, <1>9, <1>10, <1>11, <1>12, <1>13,
       <1>14,
     <1>15, <1>16, <1>17, <1>18, <1>19, <1>20, <1>21, <1>22, <1>23, <1>24, <1>25, <1>26, <1>27, NextCases

\* No chunk is in two places.
LEMMA DisjointInvStep ==
  ASSUME TypeOK, SidecarHonest, WorkerInv, PhaseInv, RecordInv, DisjointInv, Next
  PROVE  DisjointInv'
<1> USE WorkersAssumption DEF disk, memory, Goto, Leave, Procs, NoJob, TypeOK, WorkerInv,
     PhaseInv, RecordInv, DisjointInv, Flushing, OnChunk, Claims, Chunks
<1>1. CASE Start
  BY <1>1 DEF Start
<1>2. CASE SizeFails
  BY <1>2 DEF SizeFails
<1>3. CASE OpenPartsFails
  BY <1>3 DEF OpenPartsFails
<1>4. CASE OpenParts
  BY <1>4 DEF OpenParts, Absent
<1>5. CASE OpenFileFails
  BY <1>5 DEF OpenFileFails
<1>6. CASE NothingPending
  BY <1>6 DEF NothingPending
<1>7. CASE StartWorkers
  BY <1>7 DEF StartWorkers, pending
<1>8. ASSUME NEW w \in Workers, Feed(w) PROVE DisjointInv'
  BY <1>8 DEF Feed
<1>9. CASE StopFeeding
  BY <1>9 DEF StopFeeding
<1>10. ASSUME NEW w \in Workers, NoMoreJobs(w) PROVE DisjointInv'
  BY <1>10 DEF NoMoreJobs
<1>11. ASSUME NEW w \in Workers, Fetch(w) PROVE DisjointInv'
  BY <1>11 DEF Fetch
<1>12. ASSUME NEW w \in Workers, ChunkFails(w) PROVE DisjointInv'
  BY <1>12 DEF ChunkFails
<1>13. ASSUME NEW w \in Workers, Write(w) PROVE DisjointInv'
  BY <1>13 DEF Write
<1>14. ASSUME NEW w \in Workers, Mark(w) PROVE DisjointInv'
  <2>1. job[w] # NoJob /\ job' = [job EXCEPT ![w] = NoJob] /\ todo' = todo
    BY <1>14 DEF Mark
  <2>2. state' = state \cup {job[w]} /\ sidecar' = sidecar /\ version' = version
    BY <1>14 DEF Mark
  <2>3. pc[Main] \notin {"idle", "open"}
    BY <1>14 DEF Mark
  <2>4. todo' \cap state' = {}
    <3>1. job[w] \notin todo /\ todo \cap state = {}
      BY <2>1
    <3> HIDE DEF TypeOK, WorkerInv, PhaseInv, RecordInv, DisjointInv
    <3> QED
      BY <3>1, <2>1, <2>2
  <2>5. Claims(sidecar)' \subseteq state'
    BY <2>2, <2>3
  <2>6. \A v \in Workers : job'[v] # NoJob => v # w /\ job'[v] = job[v] /\ job[v] # job[w]
    BY <2>1
  <2> QED
    BY <2>1, <2>2, <2>4, <2>5, <2>6
<1>15. ASSUME NEW w \in Workers, MaybeFlush(w) PROVE DisjointInv'
  BY <1>15 DEF MaybeFlush
<1>16. ASSUME NEW w \in Workers, Report(w) PROVE DisjointInv'
  BY <1>16 DEF Report
<1>17. CASE Join
  BY <1>17 DEF Join
<1>18. ASSUME NEW p \in Procs, Sync(p) PROVE DisjointInv'
  BY <1>18 DEF Sync
<1>19. ASSUME NEW p \in Procs, Truncate(p) PROVE DisjointInv'
  BY <1>19 DEF Truncate, Torn
<1>20. ASSUME NEW p \in Procs, Put(p) PROVE DisjointInv'
  BY <1>20 DEF Put, Current
<1>21. ASSUME NEW p \in Procs, FlushFails(p) PROVE DisjointInv'
  BY <1>21 DEF FlushFails
<1>22. CASE Close
  BY <1>22 DEF Close
<1>23. CASE Interrupt
  BY <1>23 DEF Interrupt
<1>24. CASE Kill
  BY <1>24 DEF Kill
<1>25. CASE PowerLoss
  BY <1>25 DEF PowerLoss
<1>26. CASE Writeback
  BY <1>26 DEF Writeback
<1>27. CASE Republish
  BY <1>27 DEF Republish
<1> QED
  BY <1>1, <1>2, <1>3, <1>4, <1>5, <1>6, <1>7, <1>8, <1>9, <1>10, <1>11, <1>12, <1>13,
       <1>14,
     <1>15, <1>16, <1>17, <1>18, <1>19, <1>20, <1>21, <1>22, <1>23, <1>24, <1>25, <1>26, <1>27, NextCases

\* The sidecar is up to date when the interrupt is returned.
LEMMA CloseInvStep ==
  ASSUME TypeOK, WorkerInv, PhaseInv, CloseInv, Next
  PROVE  CloseInv'
<1> USE WorkersAssumption DEF disk, memory, Goto, Leave, Procs, NoJob, TypeOK, WorkerInv,
     PhaseInv, CloseInv, Flushing, OnChunk, Current
<1>1. CASE Start
  BY <1>1 DEF Start
<1>2. CASE SizeFails
  BY <1>2 DEF SizeFails
<1>3. CASE OpenPartsFails
  BY <1>3 DEF OpenPartsFails
<1>4. CASE OpenParts
  BY <1>4 DEF OpenParts
<1>5. CASE OpenFileFails
  BY <1>5 DEF OpenFileFails
<1>6. CASE NothingPending
  BY <1>6 DEF NothingPending
<1>7. CASE StartWorkers
  BY <1>7 DEF StartWorkers
<1>8. ASSUME NEW w \in Workers, Feed(w) PROVE CloseInv'
  BY <1>8 DEF Feed
<1>9. CASE StopFeeding
  BY <1>9 DEF StopFeeding
<1>10. ASSUME NEW w \in Workers, NoMoreJobs(w) PROVE CloseInv'
  BY <1>10 DEF NoMoreJobs
<1>11. ASSUME NEW w \in Workers, Fetch(w) PROVE CloseInv'
  BY <1>11 DEF Fetch
<1>12. ASSUME NEW w \in Workers, ChunkFails(w) PROVE CloseInv'
  BY <1>12 DEF ChunkFails
<1>13. ASSUME NEW w \in Workers, Write(w) PROVE CloseInv'
  BY <1>13 DEF Write
<1>14. ASSUME NEW w \in Workers, Mark(w) PROVE CloseInv'
  BY <1>14 DEF Mark
<1>15. ASSUME NEW w \in Workers, MaybeFlush(w) PROVE CloseInv'
  BY <1>15 DEF MaybeFlush
<1>16. ASSUME NEW w \in Workers, Report(w) PROVE CloseInv'
  BY <1>16 DEF Report
<1>17. CASE Join
  BY <1>17 DEF Join
<1>18. ASSUME NEW p \in Procs, Sync(p) PROVE CloseInv'
  BY <1>18 DEF Sync
<1>19. ASSUME NEW p \in Procs, Truncate(p) PROVE CloseInv'
  BY <1>19 DEF Truncate
<1>20. ASSUME NEW p \in Procs, Put(p) PROVE CloseInv'
  BY <1>20 DEF Put
<1>21. ASSUME NEW p \in Procs, FlushFails(p) PROVE CloseInv'
  BY <1>21 DEF FlushFails
<1>22. CASE Close
  BY <1>22 DEF Close
<1>23. CASE Interrupt
  BY <1>23 DEF Interrupt
<1>24. CASE Kill
  BY <1>24 DEF Kill
<1>25. CASE PowerLoss
  BY <1>25 DEF PowerLoss
<1>26. CASE Writeback
  BY <1>26 DEF Writeback
<1>27. CASE Republish
  BY <1>27 DEF Republish
<1> QED
  BY <1>1, <1>2, <1>3, <1>4, <1>5, <1>6, <1>7, <1>8, <1>9, <1>10, <1>11, <1>12, <1>13,
       <1>14,
     <1>15, <1>16, <1>17, <1>18, <1>19, <1>20, <1>21, <1>22, <1>23, <1>24, <1>25, <1>26, <1>27, NextCases

\* Sets of workers are finite, and counted as such.
LEMMA WorkerCardinality ==
  ASSUME NEW S \in SUBSET Workers, NEW R \in SUBSET Workers
  PROVE  /\ IsFiniteSet(S) /\ Cardinality(S) \in Nat
         /\ S \subseteq R => Cardinality(S) <= Cardinality(R)
  BY WorkersAssumption, FS_Subset, FS_CardinalityType

\* A step that touches neither the record nor the sidecar, and lets no worker
\* come back for a chunk, keeps the bound.
LEMMA LossQuiet ==
  ASSUME TypeOK, LossInv, UNCHANGED <<version, state, sidecar, dirty>>,
         past \subseteq past',
         pc'[Main] \in {"idle", "open", "file"} => pc[Main] \in {"idle", "open", "file"}
  PROVE  LossInv'
<1>1. past \in SUBSET Workers /\ past' \in SUBSET Workers
  BY DEF past
<1>2. Cardinality(past) <= Cardinality(past') /\ Cardinality(past) \in Nat /\ Cardinality(past') \in Nat
  BY <1>1, WorkerCardinality
<1>3. Claims(sidecar)' = Claims(sidecar)
  BY DEF Claims
<1> QED
  BY <1>2, <1>3, SyncEveryAssumption DEF LossInv, TypeOK, Torn

\* With nothing recorded in memory there is nothing to lose.
LEMMA LossNothing ==
  ASSUME (state \ Claims(sidecar))' = {}, dirty' = 0
  PROVE  LossInv'
<1>1. past' \in SUBSET Workers
  BY DEF past
<1>2. Cardinality(past') \in Nat
  BY <1>1, WorkerCardinality
<1>3. IsFiniteSet({}) /\ Cardinality({}) = 0
  BY FS_EmptySet
<1> QED
  BY <1>2, <1>3, SyncEveryAssumption DEF LossInv

\* What a kill would cost stays bounded.
LEMMA LossInvStep ==
  ASSUME TypeOK, WorkerInv, PhaseInv, LossInv, Next
  PROVE  LossInv'
<1> USE WorkersAssumption DEF disk, memory, Goto, Leave, Procs, NoJob, TypeOK, WorkerInv,
     Flushing, OnChunk
<1>1. ASSUME \/ Start \/ OpenFileFails \/ NothingPending \/ StopFeeding
             \/ Join \/ Interrupt \/ Writeback
      PROVE  LossInv'
  <2>1. UNCHANGED <<version, state, sidecar, dirty>>
    BY <1>1 DEF Start, OpenFileFails, NothingPending, StopFeeding, Join, Interrupt,
         Writeback
  <2>2. past \subseteq past'
    BY <1>1 DEF past, Start, OpenFileFails, NothingPending, StopFeeding, Join, Interrupt,
         Writeback
  <2>3. pc'[Main] \in {"idle", "open", "file"} => pc[Main] \in {"idle", "open", "file"}
    BY <1>1 DEF Start, OpenFileFails, NothingPending, StopFeeding, Join, Interrupt,
         Writeback
  <2> QED
    BY <2>1, <2>2, <2>3, LossQuiet
<1>2. ASSUME NEW w \in Workers,
             Feed(w) \/ NoMoreJobs(w) \/ Fetch(w) \/ ChunkFails(w) \/ Write(w) \/ Report(w)
      PROVE  LossInv'
  <2>1. UNCHANGED <<version, state, sidecar, dirty>>
    BY <1>2 DEF Feed, NoMoreJobs, Fetch, ChunkFails, Write, Report
  <2>2. past \subseteq past'
    BY <1>2 DEF past, Feed, NoMoreJobs, Fetch, ChunkFails, Write, Report
  <2>3. pc'[Main] \in {"idle", "open", "file"} => pc[Main] \in {"idle", "open", "file"}
    BY <1>2 DEF Feed, NoMoreJobs, Fetch, ChunkFails, Write, Report
  <2> QED
    BY <2>1, <2>2, <2>3, LossQuiet
<1>3. ASSUME NEW p \in Procs, Sync(p) \/ FlushFails(p)
      PROVE  LossInv'
  <2>1. UNCHANGED <<version, state, sidecar, dirty>>
    BY <1>3 DEF Sync, FlushFails
  <2>2. past \subseteq past'
    BY <1>3 DEF past, Sync, FlushFails
  <2>3. pc'[Main] \in {"idle", "open", "file"} => pc[Main] \in {"idle", "open", "file"}
    BY <1>3 DEF Sync, FlushFails
  <2> QED
    BY <2>1, <2>2, <2>3, LossQuiet
<1>4. CASE SizeFails \/ OpenPartsFails \/ Close \/ Kill \/ PowerLoss
  <2>1. (state \ Claims(sidecar))' = {} /\ dirty' = 0
    BY <1>4 DEF Claims, SizeFails, OpenPartsFails, Close, Kill, PowerLoss
  <2> QED
    BY <2>1, LossNothing
<1>5. CASE OpenParts
  <2>1. Claims(sidecar)' = Claims(sidecar)
    BY <1>5 DEF OpenParts, Claims, Absent
  <2>2. (state \ Claims(sidecar))' = {} /\ dirty' = 0
    BY <2>1, <1>5 DEF OpenParts, LossInv
  <2> QED
    BY <2>2, LossNothing
<1>6. CASE StartWorkers
  <2>1. UNCHANGED <<version, state, sidecar, dirty>>
    BY <1>6 DEF StartWorkers
  <2>2. past = {}
    BY <1>6 DEF StartWorkers, past, PhaseInv
  <2>3. pc'[Main] = "feed"
    BY <1>6 DEF StartWorkers
  <2> QED
    BY <2>1, <2>2, <2>3, LossQuiet
<1>7. ASSUME NEW w \in Workers, Mark(w) PROVE LossInv'
  <2>1. pc[Main] \notin {"idle", "open", "file"} /\ pc'[Main] = pc[Main]
    BY <1>7 DEF Mark, PhaseInv
  <2>2. /\ state' = state \cup {job[w]} /\ dirty' = dirty + 1
        /\ Claims(sidecar)' = Claims(sidecar) /\ sidecar' = sidecar
    BY <1>7 DEF Mark, Claims
  <2>3. past' = past \cup {w} /\ w \notin past
    BY <1>7 DEF Mark, past
  <2>4. past \in SUBSET Workers
    BY DEF past
  <2>5. Cardinality(past') = Cardinality(past) + 1 /\ Cardinality(past) \in Nat
    BY <2>3, <2>4, WorkerCardinality, FS_AddElement
  <2>6. ASSUME sidecar # Torn
        PROVE  /\ IsFiniteSet((state \ Claims(sidecar))')
               /\ Cardinality((state \ Claims(sidecar))') <= Cardinality(state \ Claims(sidecar)) + 1
               /\ Cardinality((state \ Claims(sidecar))') \in Nat
               /\ Cardinality(state \ Claims(sidecar)) \in Nat
    <3> DEFINE lost == state \ Claims(sidecar)
    <3>1. IsFiniteSet(lost)
      BY <2>6 DEF LossInv
    <3>2. /\ IsFiniteSet(lost \cup {job[w]})
          /\ Cardinality(lost \cup {job[w]}) <= Cardinality(lost) + 1
          /\ Cardinality(lost) \in Nat /\ Cardinality(lost \cup {job[w]}) \in Nat
      <4> HIDE DEF lost
      <4>1. /\ IsFiniteSet(lost \cup {job[w]})
            /\ Cardinality(lost \cup {job[w]}) =
                 IF job[w] \in lost THEN Cardinality(lost) ELSE Cardinality(lost) + 1
        BY <3>1, FS_AddElement
      <4>2. Cardinality(lost) \in Nat /\ Cardinality(lost \cup {job[w]}) \in Nat
        BY <3>1, <4>1, FS_CardinalityType
      <4> QED
        BY <4>1, <4>2
    <3>3. lost' \subseteq lost \cup {job[w]}
      BY <2>2
    <3>4. /\ IsFiniteSet(lost') /\ Cardinality(lost') \in Nat
          /\ Cardinality(lost') <= Cardinality(lost \cup {job[w]})
      BY <3>2, <3>3, FS_Subset, FS_CardinalityType
    <3> HIDE DEF lost
    <3>5. Cardinality(lost') <= Cardinality(lost) + 1
      BY <3>2, <3>4
    <3> QED
      BY <3>2, <3>4, <3>5 DEF lost
  <2> QED
    BY <2>1, <2>2, <2>5, <2>6, SyncEveryAssumption DEF LossInv, TypeOK, Torn
<1>8. ASSUME NEW w \in Workers, MaybeFlush(w) PROVE LossInv'
  <2>1. CASE dirty < SyncEvery
    <3>1. UNCHANGED <<version, state, sidecar, dirty>> /\ pc'[Main] = pc[Main]
      BY <1>8 DEF MaybeFlush
    <3>2. past' \in SUBSET Workers
      BY DEF past
    <3>3. Cardinality(past') \in Nat
      BY <3>2, WorkerCardinality
    <3> QED
      BY <3>1, <3>3, <2>1, SyncEveryAssumption DEF LossInv, TypeOK, Torn, Claims
  <2>2. CASE ~(dirty < SyncEvery)
    <3>1. UNCHANGED <<version, state, sidecar, dirty>> /\ pc'[Main] = pc[Main]
      BY <1>8 DEF MaybeFlush
    <3>2. past \subseteq past'
      BY <1>8, <2>2 DEF MaybeFlush, past
    <3> QED
      BY <3>1, <3>2, LossQuiet
  <2> QED
    BY <2>1, <2>2
<1>9. ASSUME NEW p \in Procs, Truncate(p) PROVE LossInv'
  <2>1. sidecar' = Torn /\ dirty' = dirty
    BY <1>9 DEF Truncate
  <2>2. past' = past /\ (pc'[Main] \in {"idle", "open", "file"} => pc[Main] \in {"idle", "open", "file"})
    BY <1>9 DEF Truncate, past
  <2> QED
    BY <2>1, <2>2 DEF LossInv, Torn
<1>10. ASSUME NEW p \in Procs, Put(p) PROVE LossInv'
  <2>1. (state \ Claims(sidecar))' = {} /\ dirty' = 0
    BY <1>10 DEF Put, Claims, Current
  <2> QED
    BY <2>1, LossNothing
<1>11. CASE Republish
  <2>1. (state \ Claims(sidecar))' = {} /\ dirty' = 0
    BY <1>11 DEF Republish, PhaseInv, LossInv
  <2> QED
    BY <2>1, LossNothing
<1> QED
  BY <1>1, <1>2, <1>3, <1>4, <1>5, <1>6, <1>7, <1>8, <1>9, <1>10, <1>11, NextCases

-----------------------------------------------------------------------------
(* The theorems.                                                           *)

\* The process that has just been started satisfies every part.
LEMMA InitInv == Init => IInv /\ LossInv
<1> SUFFICES ASSUME Init PROVE IInv /\ LossInv
  OBVIOUS
<1> USE WorkersAssumption, SyncEveryAssumption, LengthAssumption DEF Init, Procs, NoJob,
     Absent
<1>1. TypeOK
  <2>1. sidecar \in Sidecars /\ saved \in Sidecars
    BY DEF Sidecars
  <2>2. version \in 1..MaxVersion
    OBVIOUS
  <2>3. pc \in [Procs -> Phases] /\ job \in [Workers -> Chunks \cup {NoJob}] /\ result \in Results
    BY DEF Phases, Results
  <2> QED
    BY <2>1, <2>2, <2>3 DEF TypeOK
<1>2. SidecarHonest
  BY DEF SidecarHonest, Claims
<1>3. WorkerInv /\ PhaseInv /\ RecordInv /\ CoverInv /\ DisjointInv /\ CloseInv
  BY DEF WorkerInv, PhaseInv, RecordInv, CoverInv, DisjointInv, CloseInv, Flushing,
       OnChunk, Claims
<1>4. LossInv
  <2>1. past = {} /\ state \ Claims(sidecar) = {}
    BY DEF past, Claims, Flushing
  <2> QED
    BY <2>1, FS_EmptySet DEF LossInv
<1> QED
  BY <1>1, <1>2, <1>3, <1>4 DEF IInv

\* A step that changes no variable keeps every part.
LEMMA StutterInv == ASSUME IInv, LossInv, UNCHANGED vars PROVE IInv' /\ LossInv'
<1> USE DEF vars, disk, memory
<1>1. TypeOK' /\ SidecarHonest'
  BY DEF IInv, TypeOK, SidecarHonest, Sidecars, Claims, Chunks
<1>2. WorkerInv' /\ PhaseInv' /\ RecordInv' /\ DisjointInv' /\ CloseInv'
  BY DEF IInv, WorkerInv, PhaseInv, RecordInv, DisjointInv, CloseInv, Claims, Current
<1>3. CoverInv'
  BY DEF IInv, CoverInv, cancelled, Chunks
<1>4. LossInv'
  BY DEF LossInv, past, Claims
<1> QED
  BY <1>1, <1>2, <1>3, <1>4 DEF IInv

\* Every step preserves the invariant, unless another object of the same length
\* is published.
LEMMA InvStep ==
  ASSUME DistinctLengths \/ version' = version, IInv, LossInv, [Next]_vars
  PROVE  (IInv /\ LossInv)'
<1>1. CASE Next
  BY <1>1, TypeOKStep, SidecarHonestStep, WorkerInvStep, PhaseInvStep, RecordInvStep,
     CoverInvStep, DisjointInvStep, CloseInvStep, LossInvStep DEF IInv
<1>2. CASE UNCHANGED vars
  BY <1>2, StutterInv
<1> QED
  BY <1>1, <1>2

\* The invariant is inductive.
THEOREM Invariance ==
  ASSUME DistinctLengths
  PROVE  Spec => [](IInv /\ LossInv)
<1>1. IInv /\ LossInv /\ [Next]_vars => (IInv /\ LossInv)'
  BY InvStep
<1> QED
  BY <1>1, InitInv, PTL DEF Spec

\* Every variable keeps its type, whatever the environment does to the disk,
\* the process and the archive (Download, all actions).
THEOREM TypeCorrect ==
  ASSUME DistinctLengths
  PROVE  Spec => []TypeOK
<1>1. IInv => TypeOK
  BY DEF IInv
<1> QED
  BY <1>1, Invariance, PTL

\* flush: the sidecar, and what a power failure would leave of it, never claims
\* a chunk of the current object that is not on stable storage.
THEOREM SidecarIsHonest ==
  ASSUME DistinctLengths
  PROVE  Spec => []SidecarHonest
<1>1. IInv => SidecarHonest
  BY DEF IInv
<1> QED
  BY <1>1, Invariance, PTL

\* DownloadResumable: nil means that the whole object is on stable storage.
THEOREM OkMeansComplete ==
  ASSUME DistinctLengths
  PROVE  Spec => []OkIsComplete
<1>1. IInv => OkIsComplete
  BY DEF IInv, CoverInv, OkIsComplete
<1> QED
  BY <1>1, Invariance, PTL

\* runChunks: no chunk is fetched twice in a run, nor one an earlier run
\* recorded.
THEOREM NothingIsRefetched ==
  ASSUME DistinctLengths
  PROVE  Spec => []NoRefetch
<1>1. IInv => NoRefetch
  <2> SUFFICES ASSUME IInv, NEW w \in Workers, job[w] # NoJob
               PROVE  /\ job[w] \notin state \cup todo \cup Claims(sidecar)
                      /\ \A v \in Workers \ {w} : job[v] # job[w]
    BY DEF NoRefetch
  <2>1. pc[w] # "idle"
    BY DEF IInv, WorkerInv, OnChunk
  <2>2. pc[Main] \notin {"idle", "open"}
    BY <2>1 DEF IInv, PhaseInv
  <2> QED
    BY <2>2 DEF IInv, DisjointInv
<1> QED
  BY <1>1, Invariance, PTL

\* maybeFlush: a kill that does not hit the rewriting of the sidecar costs at
\* most SyncEvery - 1 chunks and one per worker.
THEOREM LossIsBounded ==
  ASSUME DistinctLengths
  PROVE  Spec => []LossBound
<1>1. IInv /\ LossInv => LossBound
  <2> SUFFICES ASSUME IInv, LossInv, sidecar # Torn
               PROVE  Cardinality(state \ Claims(sidecar)) <= SyncEvery - 1 + Cardinality(Workers)
    BY DEF LossBound
  <2>1. past \in SUBSET Workers /\ Workers \in SUBSET Workers
    BY DEF past
  <2>2. Cardinality(past) <= Cardinality(Workers) /\ Cardinality(past) \in Nat
        /\ Cardinality(Workers) \in Nat
    BY <2>1, WorkerCardinality
  <2>3. Cardinality(state \ Claims(sidecar)) \in Nat
    BY FS_CardinalityType DEF LossInv
  <2> QED
    BY <2>2, <2>3, SyncEveryAssumption DEF LossInv, IInv, TypeOK
<1> QED
  BY <1>1, Invariance, PTL

\* The last flush of runChunks: a call that returns the interrupt leaves a
\* sidecar with every chunk it recorded, or a complete file.
THEOREM InterruptLosesNothing ==
  ASSUME DistinctLengths
  PROVE  Spec => InterruptKeepsProgress
<1>1. ASSUME IInv, [Next]_vars
      PROVE  [pc[Main] = "close" /\ result' = "canceled" =>
                state \subseteq Claims(sidecar') \/ Chunks \subseteq stable]_vars
  <2> SUFFICES ASSUME Next, pc[Main] = "close", result' = "canceled"
               PROVE  state \subseteq Claims(sidecar') \/ Chunks \subseteq stable
    BY <1>1
  <2> USE DEF IInv, disk, memory, Goto, Leave
  <2>1. \A w \in Workers : pc[w] \in {"idle", "exit"}
    BY <1>1 DEF PhaseInv, Flushing
  <2>2. result = "canceled" => sidecar = Current(state) /\ state \subseteq stable
    BY <1>1 DEF CloseInv, SidecarHonest, Current, Claims
  <2>3. CASE Close
    BY <2>2, <2>3 DEF Close, Claims, Current
  <2>4. CASE Interrupt \/ Writeback
    BY <2>2, <2>4 DEF Interrupt, Writeback, Claims, Current
  <2>5. CASE Kill \/ PowerLoss
    BY <2>5 DEF Kill, PowerLoss
  <2>6. ~(\E w \in Workers : Feed(w) \/ NoMoreJobs(w) \/ Fetch(w) \/ ChunkFails(w)
                               \/ Write(w) \/ Mark(w) \/ MaybeFlush(w) \/ Report(w))
    BY <2>1 DEF Feed, NoMoreJobs, Fetch, ChunkFails, Write, Mark, MaybeFlush, Report
  <2>7. ~(\E p \in Procs : Sync(p) \/ Truncate(p) \/ Put(p) \/ FlushFails(p))
    BY <2>1 DEF Procs, Sync, Truncate, Put, FlushFails, Flushing
  <2> QED
    BY <2>3, <2>4, <2>5, <2>6, <2>7, NextCases
       DEF Start, SizeFails, OpenPartsFails, OpenParts, OpenFileFails, NothingPending,
           StartWorkers, StopFeeding, Join, Republish
<1> QED
  BY <1>1, Invariance, PTL DEF Spec, InterruptKeepsProgress

-----------------------------------------------------------------------------
(* Download implements Transfer.                                           *)

\* Every step is a step of the transfer or leaves it alone.
LEMMA TransferStep == ASSUME IInv, [Next]_vars PROVE [T!Next]_(T!vars)
<1> USE WorkersAssumption, LengthAssumption
    DEF disk, memory, Goto, Leave, Procs, T!vars, T!Next, T!Object, Chunks
<1> USE DEF IInv, WorkerInv
<1>1. CASE UNCHANGED vars
  BY <1>1 DEF vars
<1>2. CASE Start
  BY <1>2 DEF Start, T!Begin, TypeOK
<1>3. CASE SizeFails \/ OpenPartsFails
  BY <1>3 DEF SizeFails, OpenPartsFails, T!GiveUp
<1>4. CASE OpenParts \/ OpenFileFails \/ NothingPending \/ StartWorkers \/ StopFeeding \/ Join
  BY <1>4 DEF OpenParts, OpenFileFails, NothingPending, StartWorkers, StopFeeding, Join,
       TypeOK
<1>5. CASE Close
  <2>1. CASE result = "ok"
    BY <1>5, <2>1 DEF Close, T!Succeed, CoverInv
  <2>2. CASE result # "ok"
    BY <1>5, <2>2 DEF Close, T!GiveUp, TypeOK, Results
  <2> QED
    BY <2>1, <2>2
<1>6. ASSUME NEW w \in Workers,
             Feed(w) \/ NoMoreJobs(w) \/ Fetch(w) \/ ChunkFails(w)
               \/ Mark(w) \/ MaybeFlush(w) \/ Report(w)
      PROVE  UNCHANGED T!vars
  BY <1>6 DEF Feed, NoMoreJobs, Fetch, ChunkFails, Mark, MaybeFlush, Report, TypeOK,
       Flushing
<1>7. ASSUME NEW w \in Workers, Write(w) PROVE T!Next
  <2>1. job[w] \in Chunks
    BY <1>7 DEF Write, OnChunk, TypeOK
  <2>2. pc[Main] # "idle"
    BY <1>7 DEF Write, PhaseInv
  <2>3. T!Receive(job[w])
    BY <1>7, <2>2 DEF Write, T!Receive, TypeOK
  <2> QED
    BY <2>1, <2>3
<1>8. ASSUME NEW p \in Procs, Sync(p) PROVE T!Next
  <2>1. pc[Main] # "idle"
    BY <1>8 DEF Sync, PhaseInv
  <2> QED
    BY <1>8, <2>1 DEF Sync, T!Secure, TypeOK
<1>9. ASSUME NEW p \in Procs, Truncate(p) \/ Put(p) \/ FlushFails(p) PROVE UNCHANGED T!vars
  <2>1. pc[Main] # "idle"
    BY <1>9 DEF Truncate, Put, FlushFails, PhaseInv, Flushing
  <2> QED
    BY <1>9, <2>1 DEF Truncate, Put, FlushFails, TypeOK
<1>10. CASE Interrupt \/ Writeback
  BY <1>10 DEF Interrupt, Writeback
<1>11. CASE Kill
  BY <1>11 DEF Kill, T!GiveUp
<1>12. CASE PowerLoss
  BY <1>12 DEF PowerLoss, T!Crash, TypeOK
<1>13. CASE Republish
  BY <1>13 DEF Republish, T!Republish
<1> QED
  BY <1>1, <1>2, <1>3, <1>4, <1>5, <1>6, <1>7, <1>8, <1>9, <1>10, <1>11, <1>12, <1>13,
       NextCases

\* DownloadResumable keeps the promises of a transfer: module Transfer.
THEOREM Implementation ==
  ASSUME DistinctLengths
  PROVE  Spec => ImplementsTransfer
<1>1. Init => T!Init
  BY DEF Init, T!Init, Procs
<1> QED
  BY <1>1, TransferStep, Invariance, PTL DEF Spec, ImplementsTransfer, T!Spec

-----------------------------------------------------------------------------
(* What a run of the command sees of it: module Stored.                    *)

onDisk == IF Chunks \subseteq stable THEN "full" ELSE IF good = {} THEN "none" ELSE "part"

got == pc[Main] = "idle" /\ result = "ok"

F == INSTANCE Stored WITH file <- onDisk, delivered <- got

\* What a transfer does to the file is what the caller may rely on.
LEMMA StoredStep == ASSUME IInv, [Next]_vars PROVE [F!Next]_(F!vars)
<1> USE DEF onDisk, got, T!Object, Chunks, F!Next, F!vars
<1>0. /\ stable \subseteq good /\ good \subseteq Chunks
      /\ got => Chunks \subseteq stable
      /\ version \in 1..MaxVersion
  BY DEF IInv, TypeOK, CoverInv
<1>1. [T!Next]_(T!vars)
  BY TransferStep
<1>2. CASE UNCHANGED T!vars
  BY <1>2 DEF T!vars
<1>3. CASE T!Begin
  BY <1>3 DEF T!Begin, F!Forget
<1>4. ASSUME NEW c \in Chunks, T!Receive(c) PROVE [F!Next]_(F!vars)
  <2>1. good' # {} /\ UNCHANGED <<version, stable, got>>
    BY <1>4 DEF T!Receive
  <2>2. UNCHANGED Chunks
    BY <2>1
  <2>3. CASE good = {}
    BY <2>1, <2>2, <2>3 DEF F!Grow
  <2>4. CASE good # {}
    BY <2>1, <2>2, <2>4
  <2> QED
    BY <2>3, <2>4
<1>5. CASE T!Secure
  <2>1. stable' = good /\ UNCHANGED <<version, good, got>>
    BY <1>5 DEF T!Secure
  <2>2. CASE Chunks \subseteq good
    BY <2>1, <2>2 DEF F!Fill
  <2>3. CASE ~(Chunks \subseteq good)
    BY <1>0, <2>1, <2>3
  <2> QED
    BY <2>2, <2>3
<1>6. CASE T!Succeed
  BY <1>6 DEF T!Succeed, F!Deliver
<1>7. CASE T!GiveUp
  <2>1. UNCHANGED onDisk
    BY <1>7 DEF T!GiveUp
  <2>2. ~got'
    BY <1>7 DEF T!GiveUp
  <2> QED
    BY <2>1, <2>2 DEF F!Forget
<1>8. CASE T!Crash
  <2>1. /\ stable \subseteq good' /\ good' \subseteq good /\ stable' = good'
        /\ UNCHANGED version /\ (got' => got)
    BY <1>8 DEF T!Crash
  <2>2. UNCHANGED Chunks
    BY <2>1
  <2>3. CASE Chunks \subseteq stable
    <3>1. onDisk = "full" /\ onDisk' = "full"
      BY <2>1, <2>2, <2>3
    <3>2. CASE got'
      BY <2>1, <3>1, <3>2
    <3>3. CASE ~got'
      BY <3>1, <3>3 DEF F!Forget
    <3> QED
      BY <3>2, <3>3
  <2>4. CASE ~(Chunks \subseteq stable)
    <3>1. ~got /\ ~got'
      BY <1>0, <2>1, <2>4
    <3>2. CASE Chunks \subseteq good'
      BY <2>1, <2>2, <3>1, <3>2 DEF F!Fill
    <3>3. CASE ~(Chunks \subseteq good') /\ good' = {}
      BY <2>1, <2>2, <3>1, <3>3 DEF F!Remove
    <3>4. CASE ~(Chunks \subseteq good') /\ good' # {}
      BY <2>1, <2>2, <2>4, <3>1, <3>4 DEF F!Forget
    <3> QED
      BY <3>2, <3>3, <3>4
  <2> QED
    BY <2>3, <2>4
<1>9. CASE T!Republish
  <2>1. version' \in 1..MaxVersion /\ good' = {} /\ stable' = {}
    BY <1>0, <1>9, LengthAssumption DEF T!Republish
  <2>2. Length[version'] \in Nat \ {0}
    BY <2>1, LengthAssumption
  <2>3. 0 \in Chunks'
    BY <2>2
  <2>4. onDisk' = "none"
    BY <2>1, <2>3
  <2>5. ~got'
    BY <1>9 DEF T!Republish
  <2> QED
    BY <2>4, <2>5 DEF F!Remove
<1> QED
  BY <1>1, <1>2, <1>3, <1>4, <1>5, <1>6, <1>7, <1>8, <1>9 DEF T!Next

\* DownloadResumable leaves behind what module Backfill takes a download to
\* be: a full file once it has returned nil, whatever a run, a kill or a power
\* failure did before, and a full file loses nothing.
THEOREM DownloadIsStored ==
  ASSUME DistinctLengths
  PROVE  Spec => F!Spec
<1>1. Init => F!Init
  <2> SUFFICES ASSUME Init PROVE F!Init
    OBVIOUS
  <2>1. version = 1 /\ good = {} /\ stable = {} /\ result = "none"
    BY DEF Init
  <2>2. Length[1] \in Nat \ {0}
    BY LengthAssumption
  <2>3. 0 \in Chunks
    BY <2>1, <2>2 DEF Chunks
  <2>4. onDisk = "none" /\ got = FALSE
    BY <2>1, <2>3 DEF onDisk, got
  <2> QED
    BY <2>4 DEF F!Init
<1>2. IInv /\ [Next]_vars => [F!Next]_(F!vars)
  BY StoredStep
<1> QED
  BY <1>1, <1>2, Invariance, PTL DEF Spec, F!Spec

-----------------------------------------------------------------------------
(* What holds of "a crash loses at most" SyncEvery chunks.                 *)

\* maybeFlush: with one worker it is so of every kill but one that hits the
\* rewriting of the sidecar.
THEOREM OneWorkerLosesSyncEvery ==
  ASSUME DistinctLengths, Cardinality(Workers) = 1
  PROVE  Spec => [](sidecar # Torn => CrashLosesAtMostSyncEvery)
<1>1. LossBound => (sidecar # Torn => CrashLosesAtMostSyncEvery)
  BY SyncEveryAssumption DEF LossBound, CrashLosesAtMostSyncEvery
<1> QED
  BY <1>1, LossIsBounded, PTL

=============================================================================
