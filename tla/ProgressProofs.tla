--------------------------- MODULE ProgressProofs ---------------------------
(***************************************************************************)
(* Safety of Progress for any number of workers, any object and any sizes  *)
(* of its chunks: the bar and the counter behind it against what the       *)
(* download has recorded.                                                  *)
(***************************************************************************)
EXTENDS Progress, DownloadProofs

-----------------------------------------------------------------------------
(* The inductive invariant.                                                *)

\* A worker in the callback waits for its next chunk; one that has a chunk to
\* count is flushing, or about to.
BarTypes ==
  /\ counter \in Nat /\ line \in Nat /\ bars \in Nat /\ finished \in BOOLEAN
  /\ at \in [Workers -> {"work", "count", "call", "make"}]
  /\ val \in [Workers -> Nat]
  /\ \A w \in Workers :
       /\ at[w] = "count" => pc[w] \in {"maybe", "recv"} \cup Flushing
       /\ at[w] \in {"call", "make"} => pc[w] = "recv"

\* Workers that have recorded a chunk and not counted it.
uncounted == {w \in Workers : at[w] = "count"}

\* The bytes of the recorded chunks, were each a full one.
recorded == Cardinality(state) * ChunkSize

\* While the workers run, the counter and the chunks still to be counted are
\* covered by what is recorded.
CounterInv ==
  (\E w \in Workers : pc[w] # "idle") =>
    counter + Cardinality(uncounted) * ChunkSize <= recorded

\* So is what a worker is about to show, and what is shown.
ShownInv ==
  /\ \A w \in Workers : at[w] \in {"call", "make"} => val[w] <= recorded
  /\ pc[Main] # "idle" => line <= recorded

FinishInv == finished => pc[Main] = "idle" /\ line = total

BarInv == BarTypes /\ CounterInv /\ ShownInv /\ FinishInv

-----------------------------------------------------------------------------
(* A download with a bar is a download.                                    *)

\* NextBar, one disjunct per action.
LEMMA BarCases ==
  ASSUME NextBar
  PROVE  \/ Fetching \/ Counting \/ Complete \/ Finish \/ Killed
         \/ (SizeFails \/ OpenPartsFails \/ OpenParts \/ Close) /\ UNCHANGED progress
         \/ (OpenFileFails \/ StopFeeding \/ Join \/ FlushFails(Main) \/ Interrupt)
              /\ UNCHANGED progress
         \/ \E w \in Workers :
              \/ Recorded(w) \/ FlushGivesUp(w) \/ IsFed(w) \/ Works(w)
              \/ (MaybeFlush(w) \/ Fetch(w) \/ ChunkFails(w)) /\ UNCHANGED progress
              \/ Count(w) \/ SeesNoBar(w) \/ MakesBar(w) \/ Set(w)
         \/ \E p \in Procs : (Sync(p) \/ Truncate(p) \/ Put(p)) /\ UNCHANGED progress
<1>1. CASE MainStep
  BY <1>1 DEF MainStep, Procs
<1>2. CASE \E w \in Workers : WorkerStep(w)
  BY <1>2 DEF WorkerStep, Flushes, Procs
<1> QED
  BY <1>1, <1>2 DEF NextBar

\* Every step of the bar is a step of Download or leaves its variables alone,
\* and none publishes another object.
LEMMA BarStep == ASSUME [NextBar]_allVars PROVE [Next]_vars /\ version' = version
<1> DEFINE Keeps == [Next]_vars /\ version' = version
<1> USE DEF vars, disk, memory
<1>1. CASE UNCHANGED allVars
  BY <1>1 DEF allVars
<1>2. CASE Fetching \/ Counting \/ Complete \/ Finish \/ Killed
  <2>1. [Next]_vars
    BY <1>2 DEF Fetching, Counting, Complete, Finish, Killed, Next, MainLocal, Environment
  <2>2. version' = version
    BY <1>2 DEF Fetching, Counting, Complete, Finish, Killed, Start, StartWorkers,
         NothingPending, Kill
  <2> QED
    BY <2>1, <2>2
<1>3. CASE SizeFails \/ OpenPartsFails \/ OpenParts \/ Close
  <2>1. Next
    BY <1>3 DEF Next, MainLocal
  <2>2. version' = version
    BY <1>3 DEF SizeFails, OpenPartsFails, OpenParts, Close
  <2> QED
    BY <2>1, <2>2
<1>4. CASE OpenFileFails \/ StopFeeding \/ Join \/ FlushFails(Main) \/ Interrupt
  <2>1. Next
    BY <1>4 DEF Next, MainLocal, Environment
  <2>2. version' = version
    BY <1>4 DEF OpenFileFails, StopFeeding, Join, FlushFails, Interrupt
  <2> QED
    BY <2>1, <2>2
<1>5. ASSUME NEW w \in Workers, Recorded(w) \/ FlushGivesUp(w) \/ IsFed(w) \/ Works(w)
      PROVE  Keeps
  <2>1. Next
    BY <1>5 DEF Recorded, FlushGivesUp, IsFed, Works, Next, MainLocal, WorkerLocal
  <2>2. version' = version
    BY <1>5 DEF Recorded, FlushGivesUp, IsFed, Works, Mark, FlushFails, Feed, NoMoreJobs,
         Write, Report
  <2> QED
    BY <2>1, <2>2
<1>6. ASSUME NEW w \in Workers, MaybeFlush(w) \/ Fetch(w) \/ ChunkFails(w)
      PROVE  Keeps
  <2>1. Next
    BY <1>6 DEF Next, WorkerLocal
  <2>2. version' = version
    BY <1>6 DEF MaybeFlush, Fetch, ChunkFails
  <2> QED
    BY <2>1, <2>2
<1>7. ASSUME NEW w \in Workers, Count(w) \/ SeesNoBar(w) \/ MakesBar(w) \/ Set(w)
      PROVE  Keeps
  BY <1>7 DEF Count, SeesNoBar, MakesBar, Set
<1>8. ASSUME NEW p \in Procs, Sync(p) \/ Truncate(p) \/ Put(p)
      PROVE  Keeps
  <2>1. Next
    BY <1>8 DEF Next, MainLocal, WorkerLocal, Procs
  <2>2. version' = version
    BY <1>8 DEF Sync, Truncate, Put
  <2> QED
    BY <2>1, <2>2
<1> QED
  BY <1>1, <1>2, <1>3, <1>4, <1>5, <1>6, <1>7, <1>8, BarCases

\* The behaviours of the bar, seen without it, are behaviours of Download: what
\* is proved of the download holds of one with a bar, kills included.
THEOREM BarIsADownload == SpecBar => Spec
<1>1. InitBar => Init
  BY DEF InitBar
<1>2. [NextBar]_allVars => [Next]_vars
  BY BarStep
<1> QED
  BY <1>1, <1>2, PTL DEF SpecBar, Spec

-----------------------------------------------------------------------------
(* Arithmetic of the chunks.                                               *)

LEMMA TimesSize ==
  ASSUME NEW k \in Nat
  PROVE  k * ChunkSize \in Nat /\ (k + 1) * ChunkSize = k * ChunkSize + ChunkSize
  BY ProgressSizes

LEMMA TimesMore ==
  ASSUME NEW k \in Nat, NEW m \in Nat, k <= m
  PROVE  k * ChunkSize <= m * ChunkSize
<1>1. PICK d \in Nat : m = k + d
  <2>1. m - k \in Nat /\ m = k + (m - k)
    OBVIOUS
  <2> QED
    BY <2>1
<1>2. m * ChunkSize = k * ChunkSize + d * ChunkSize
  BY <1>1, ProgressSizes
<1>3. d * ChunkSize \in Nat /\ k * ChunkSize \in Nat
  BY TimesSize
<1> QED
  BY <1>2, <1>3

\* The recorded chunks are finitely many, of the Length[version] there are.
LEMMA StateSize ==
  ASSUME TypeOK
  PROVE  /\ IsFiniteSet(state) /\ Cardinality(state) \in Nat /\ recorded \in Nat
         /\ IsFiniteSet(Chunks) /\ Cardinality(Chunks) = Length[version]
         /\ Length[version] \in Nat \ {0} /\ Length[version] - 1 \in Chunks
<1>1. Length[version] \in Nat \ {0}
  BY LengthAssumption DEF TypeOK
<1>2. IsFiniteSet(Chunks) /\ Cardinality(Chunks) = Length[version]
  <2> DEFINE b == Length[version] - 1
  <2>1. b \in Int /\ 0 <= b /\ Length[version] = b + 1 /\ 0 \in Int
    BY <1>1
  <2>2. Chunks = 0..b
    BY DEF Chunks
  <2> HIDE DEF b
  <2>3. IsFiniteSet(0..b) /\ Cardinality(0..b) = IF 0 > b THEN 0 ELSE b - 0 + 1
    BY <2>1, FS_Interval
  <2> QED
    BY <2>1, <2>2, <2>3
<1>3. IsFiniteSet(state) /\ Cardinality(state) \in Nat
  BY <1>2, FS_Subset, FS_CardinalityType DEF TypeOK
<1>4. recorded \in Nat
  BY <1>3, TimesSize DEF recorded
<1>5. Length[version] - 1 \in Chunks
  BY <1>1 DEF Chunks
<1> QED
  BY <1>1, <1>2, <1>3, <1>4, <1>5

\* The object is no larger than its chunks, were each a full one.
LEMMA TotalSize ==
  ASSUME TypeOK
  PROVE  total \in Nat /\ total <= Length[version] * ChunkSize
<1> DEFINE n == Length[version] - 1
<1>1. n \in Nat /\ Length[version] = n + 1
  BY StateSize
<1>2. n * ChunkSize \in Nat /\ (n + 1) * ChunkSize = n * ChunkSize + ChunkSize
  BY <1>1, TimesSize
<1>3. total = n * ChunkSize + TailSize
  BY DEF total
<1> HIDE DEF n
<1>4. n * ChunkSize + TailSize <= (n + 1) * ChunkSize /\ n * ChunkSize + TailSize \in Nat
  BY <1>2, ProgressSizes
<1> QED
  BY <1>1, <1>3, <1>4

-----------------------------------------------------------------------------
(* The proof: the invariant of the bar is preserved by every action.       *)

\* A step that records nothing, starts no worker and neither begins nor ends a
\* call leaves the bar as good as it was.
LEMMA BarQuiet ==
  ASSUME TypeOK, BarInv, UNCHANGED <<progress, version, state>>,
         \A w \in Workers :
           /\ pc'[w] # "idle" => pc[w] # "idle"
           /\ at[w] = "count" => pc'[w] \in {"maybe", "recv"} \cup Flushing
           /\ at[w] \in {"call", "make"} => pc'[w] = "recv",
         pc'[Main] = "idle" <=> pc[Main] = "idle"
  PROVE  BarInv'
<1>1. /\ counter' = counter /\ at' = at /\ val' = val /\ bars' = bars /\ line' = line
      /\ finished' = finished /\ state' = state
      /\ uncounted' = uncounted /\ recorded' = recorded /\ total' = total
  BY DEF progress, uncounted, recorded, total
<1>2. BarTypes'
  BY <1>1 DEF BarInv, BarTypes
<1>3. CounterInv'
  BY <1>1 DEF BarInv, CounterInv
<1>4. ShownInv'
  BY <1>1 DEF BarInv, ShownInv
<1>5. FinishInv'
  BY <1>1 DEF BarInv, FinishInv
<1> QED
  BY <1>2, <1>3, <1>4, <1>5 DEF BarInv

\* While no worker runs only the line has to be looked at.
LEMMA BarAlone ==
  ASSUME TypeOK', counter' \in Nat, line' \in Nat, bars' \in Nat, finished' \in BOOLEAN,
         at' = [w \in Workers |-> "work"], val' \in [Workers -> Nat],
         \A w \in Workers : pc'[w] = "idle",
         pc'[Main] # "idle" => line' <= recorded',
         FinishInv'
  PROVE  BarInv'
<1>1. BarTypes'
  BY DEF BarTypes
<1>2. CounterInv'
  BY DEF CounterInv
<1>3. ShownInv'
  BY DEF ShownInv
<1> QED
  BY <1>1, <1>2, <1>3 DEF BarInv

\* While no worker runs, none is in the callback.
LEMMA AtRest ==
  ASSUME BarTypes, \A w \in Workers : pc[w] \in {"idle", "exit"}
  PROVE  at = [w \in Workers |-> "work"]
  BY DEF BarTypes, Flushing

\* The callback of a download: what is counted and shown is recorded.
LEMMA BarInvStep ==
  ASSUME IInv, IInv', BarInv, NextBar
  PROVE  BarInv'
<1> USE DEF Goto, Procs, Flushing
<1>0. TypeOK /\ TypeOK' /\ WorkerInv /\ PhaseInv /\ DisjointInv /\ BarTypes
  BY DEF IInv, BarInv
<1>a. recorded \in Nat /\ recorded' \in Nat
  <2>1. Length[version'] - 1 \in Int /\ state' \in SUBSET (0..(Length[version'] - 1))
    BY <1>0, LengthAssumption DEF TypeOK, Chunks
  <2>2. IsFiniteSet(0..(Length[version'] - 1))
    BY <2>1, FS_Interval
  <2>3. Cardinality(state') \in Nat
    BY <2>1, <2>2, FS_Subset, FS_CardinalityType
  <2> QED
    BY <1>0, <2>3, StateSize, TimesSize DEF recorded
<1>1. CASE Fetching
  <2>1. /\ pc[Main] = "idle" /\ line' = 0 /\ bars' = 0 /\ finished' = FALSE
        /\ UNCHANGED <<counter, at, val>>
        /\ pc' = [pc EXCEPT ![Main] = "open"]
    BY <1>1 DEF Fetching, Start
  <2>2. \A w \in Workers : pc[w] = "idle" /\ pc'[w] = "idle"
    BY <1>0, <2>1, WorkersAssumption DEF PhaseInv, TypeOK
  <2>3. FinishInv' /\ line' \in Nat /\ bars' \in Nat /\ line' <= recorded'
    BY <1>a, <2>1 DEF FinishInv
  <2>4. at = [w \in Workers |-> "work"]
    BY <1>0, <2>2, AtRest
  <2>5. counter' \in Nat /\ finished' \in BOOLEAN /\ val' \in [Workers -> Nat]
    BY <1>0, <2>1 DEF BarTypes
  <2> QED
    BY <1>0, <2>1, <2>2, <2>3, <2>4, <2>5, BarAlone
<1>2. CASE Counting
  <2>1. /\ pc[Main] = "file" /\ counter' = AlreadyDone
        /\ UNCHANGED <<at, val, bars, line, finished, version, state>>
    BY <1>2 DEF Counting, StartWorkers
  <2>2. \A w \in Workers : pc[w] = "idle"
    BY <1>0, <2>1 DEF PhaseInv
  <2>3. at = [w \in Workers |-> "work"]
    BY <1>0, <2>2, AtRest
  <2>4. Length[version] - Cardinality(pending) = Cardinality(state)
    <3>1. IsFiniteSet(pending) /\ state \cap pending = {} /\ state \cup pending = Chunks
      BY <1>0, StateSize, FS_Subset DEF pending, TypeOK
    <3>2. Cardinality(Chunks)
            = Cardinality(state) + Cardinality(pending) - Cardinality(state \cap pending)
      BY <1>0, <3>1, StateSize, FS_Union
    <3>3. Cardinality(pending) \in Nat /\ Cardinality(state) \in Nat /\ Length[version] \in Nat
      BY <1>0, <3>1, StateSize, FS_CardinalityType
    <3>4. Cardinality(Chunks) = Length[version] /\ Cardinality(state \cap pending) = 0
      BY <1>0, <3>1, StateSize, FS_EmptySet
    <3> QED
      BY <3>2, <3>3, <3>4
  <2>5. counter' \in Nat /\ counter' <= recorded
    BY <1>0, <1>a, <2>1, <2>4, TotalSize DEF AlreadyDone, Least, recorded
  <2>6. uncounted' = {} /\ recorded' = recorded /\ total' = total
    BY <2>1, <2>3 DEF uncounted, recorded, total
  <2>7. BarTypes'
    BY <1>0, <2>1, <2>3, <2>5 DEF BarTypes
  <2>8. CounterInv'
    <3>1. Cardinality(uncounted') * ChunkSize = 0
      BY <2>6, FS_EmptySet, ProgressSizes
    <3> QED
      BY <3>1, <2>5, <2>6 DEF CounterInv
  <2>9. ShownInv'
    BY <2>1, <2>3, <2>6 DEF BarInv, ShownInv
  <2>10. FinishInv'
    BY <2>1 DEF BarInv, FinishInv
  <2> QED
    BY <2>7, <2>8, <2>9, <2>10 DEF BarInv
<1>3. CASE Complete
  <2>1. /\ pc[Main] = "file" /\ pending = {} /\ line' = total /\ bars' = 1
        /\ UNCHANGED <<counter, at, val, finished, version, state>>
        /\ pc' = [pc EXCEPT ![Main] = "close"]
    BY <1>3 DEF Complete, NothingPending, memory
  <2>2. \A w \in Workers : pc[w] = "idle" /\ pc'[w] = "idle"
    BY <1>0, <2>1, WorkersAssumption DEF PhaseInv, TypeOK
  <2>3. state = Chunks
    BY <1>0, <2>1 DEF pending, TypeOK
  <2>4. line' \in Nat /\ line' <= recorded'
    BY <1>0, <2>1, <2>3, TotalSize, StateSize DEF recorded
  <2>5. ~finished'
    BY <2>1 DEF BarInv, FinishInv
  <2> QED
    BY <1>0, <2>1, <2>2, <2>4, <2>5, AtRest, BarAlone DEF BarTypes, FinishInv
<1>4. CASE Finish
  <2>1. /\ pc[Main] = "idle" /\ line' = total /\ finished' = TRUE
        /\ UNCHANGED <<version, pc, state, counter, at, val, bars>>
    BY <1>4 DEF Finish, ToFinish, vars, memory
  <2>2. \A w \in Workers : pc[w] = "idle" /\ pc'[w] = "idle"
    BY <1>0, <2>1 DEF PhaseInv
  <2>3. FinishInv'
    BY <2>1 DEF FinishInv, total
  <2>4. line' \in Nat
    BY <1>0, <2>1, TotalSize
  <2> QED
    BY <1>0, <2>1, <2>2, <2>3, <2>4, AtRest, BarAlone DEF BarTypes
<1>5. CASE Killed
  <2>1. /\ pc[Main] # "idle" /\ counter' = 0 /\ bars' = 0 /\ line' = 0
        /\ at' = [w \in Workers |-> "work"] /\ val' = [w \in Workers |-> 0]
        /\ finished' = finished /\ pc' = [p \in Procs |-> "idle"]
    BY <1>5 DEF Killed, Kill, Leave
  <2>2. ~finished
    BY <2>1 DEF BarInv, FinishInv
  <2>3. /\ FinishInv' /\ finished' \in BOOLEAN
        /\ counter' \in Nat /\ bars' \in Nat /\ line' \in Nat /\ val' \in [Workers -> Nat]
    BY <1>0, <2>1, <2>2 DEF FinishInv, BarTypes
  <2>4. pc'[Main] = "idle" /\ \A w \in Workers : pc'[w] = "idle"
    BY <2>1
  <2> QED
    BY <1>0, <2>1, <2>3, <2>4, BarAlone
<1>6. CASE (SizeFails \/ OpenPartsFails \/ OpenParts \/ Close) /\ UNCHANGED progress
  <2>1. UNCHANGED <<counter, at, val, bars, line, finished, version>>
    BY <1>6 DEF progress, SizeFails, OpenPartsFails, OpenParts, Close
  <2>2. pc[Main] \in {"open", "close"}
    BY <1>6 DEF SizeFails, OpenPartsFails, OpenParts, Close
  <2>3. /\ \A w \in Workers : pc[w] \in {"idle", "exit"}
        /\ ~finished
    BY <1>0, <2>2 DEF PhaseInv, BarInv, FinishInv
  <2>4. CASE OpenParts
    <3>1. pc[Main] = "open" /\ pc' = [pc EXCEPT ![Main] = "file"]
      BY <2>4 DEF OpenParts
    <3>2. \A w \in Workers : pc'[w] = "idle"
      BY <1>0, <3>1, WorkersAssumption DEF PhaseInv, TypeOK
    <3>3. state = {}
      BY <1>0, <3>1 DEF PhaseInv
    <3>4. recorded = 0
      BY <3>3, FS_EmptySet, ProgressSizes DEF recorded
    <3>5. line' <= recorded'
      BY <1>0, <1>a, <2>1, <3>1, <3>4 DEF BarInv, ShownInv, BarTypes
    <3> QED
      BY <1>0, <2>1, <2>3, <3>2, <3>5, AtRest, BarAlone DEF BarTypes, FinishInv
  <2>5. CASE SizeFails \/ OpenPartsFails \/ Close
    <3>1. pc' = [p \in Procs |-> "idle"]
      BY <2>5 DEF SizeFails, OpenPartsFails, Close, Leave
    <3> QED
      BY <1>0, <2>1, <2>3, <3>1, AtRest, BarAlone DEF BarTypes, FinishInv
  <2> QED
    BY <1>6, <2>4, <2>5
<1>7. CASE (OpenFileFails \/ StopFeeding \/ Join \/ FlushFails(Main) \/ Interrupt)
             /\ UNCHANGED progress
  <2>1. UNCHANGED <<progress, version, state>>
    BY <1>7 DEF OpenFileFails, StopFeeding, Join, FlushFails, Interrupt, memory
  <2>2. /\ \A w \in Workers : pc'[w] = pc[w]
        /\ pc[Main] # "idle" /\ pc'[Main] # "idle"
    BY <1>0, <1>7, WorkersAssumption
      DEF OpenFileFails, StopFeeding, Join, FlushFails, Interrupt, TypeOK
  <2> QED
    BY <1>0, <2>1, <2>2, BarQuiet DEF BarTypes
<1>8. ASSUME NEW w \in Workers, Recorded(w) PROVE BarInv'
  <2>1. /\ pc[w] = "mark" /\ state' = state \cup {job[w]}
        /\ pc' = [pc EXCEPT ![w] = "maybe"] /\ job[w] \in Nat
        /\ at' = [at EXCEPT ![w] = "count"] /\ val' = [val EXCEPT ![w] = job[w]]
        /\ UNCHANGED <<counter, bars, line, finished, version>>
    <3>1. job[w] \in Nat
      BY <1>0, <1>8 DEF Recorded, Mark, WorkerInv, OnChunk, TypeOK, Chunks
    <3> QED
      BY <1>8, <3>1 DEF Recorded, Mark
  <2>2. at[w] = "work"
    BY <1>0, <2>1 DEF BarTypes
  <2>3. job[w] \notin state
    BY <1>0, <2>1 DEF DisjointInv, WorkerInv, OnChunk
  <2>4. Cardinality(state') = Cardinality(state) + 1
    BY <1>0, <2>1, <2>3, StateSize, FS_AddElement
  <2>5. recorded' = recorded + ChunkSize
    BY <1>0, <2>4, StateSize, TimesSize DEF recorded
  <2>6. uncounted' = uncounted \cup {w} /\ w \notin uncounted
    BY <1>0, <2>1, <2>2 DEF uncounted, BarTypes
  <2>7. /\ Cardinality(uncounted) \in Nat
        /\ Cardinality(uncounted') = Cardinality(uncounted) + 1
    <3>1. IsFiniteSet(uncounted)
      BY WorkersAssumption, FS_Subset DEF uncounted
    <3> QED
      BY <2>6, <3>1, FS_CardinalityType, FS_AddElement
  <2>8. BarTypes'
    BY <1>0, <2>1 DEF BarTypes, TypeOK
  <2>9. CounterInv'
    <3>1. counter + Cardinality(uncounted) * ChunkSize <= recorded
      BY <2>1 DEF BarInv, CounterInv
    <3>2. /\ Cardinality(uncounted') * ChunkSize = Cardinality(uncounted) * ChunkSize + ChunkSize
          /\ Cardinality(uncounted) * ChunkSize \in Nat
      BY <2>7, TimesSize
    <3>3. counter' + Cardinality(uncounted') * ChunkSize <= recorded'
      BY <1>0, <1>a, <2>1, <2>5, <3>1, <3>2, ProgressSizes DEF BarTypes
    <3> QED
      BY <3>3 DEF CounterInv
  <2>10. ShownInv'
    <3>1. pc[Main] # "idle"
      BY <1>0, <2>1 DEF PhaseInv
    <3>2. line' <= recorded'
      BY <1>0, <1>a, <2>1, <2>5, <3>1, ProgressSizes DEF BarInv, ShownInv, BarTypes
    <3>3. ASSUME NEW v \in Workers, at'[v] \in {"call", "make"} PROVE val'[v] <= recorded'
      <4>1. v # w /\ at[v] \in {"call", "make"} /\ val'[v] = val[v] /\ val[v] \in Nat
        BY <1>0, <2>1, <3>3 DEF BarTypes
      <4>2. val[v] <= recorded
        BY <4>1 DEF BarInv, ShownInv
      <4> QED
        BY <1>a, <2>5, <4>1, <4>2, ProgressSizes
    <3> QED
      BY <3>2, <3>3 DEF ShownInv
  <2>11. FinishInv'
    <3>1. pc[Main] # "idle"
      BY <1>0, <2>1 DEF PhaseInv
    <3> QED
      BY <2>1, <3>1 DEF BarInv, FinishInv
  <2> QED
    BY <2>8, <2>9, <2>10, <2>11 DEF BarInv
<1>9. ASSUME NEW w \in Workers, FlushGivesUp(w) PROVE BarInv'
  <2>1. /\ pc[w] \in Flushing
        /\ pc' = [pc EXCEPT ![w] = "fail"]
        /\ at' = [at EXCEPT ![w] = "work"] /\ val' = [val EXCEPT ![w] = 0]
        /\ UNCHANGED <<counter, bars, line, finished, version, state>>
    BY <1>9, WorkersAssumption DEF FlushGivesUp, FlushFails, memory
  <2>2. recorded' = recorded /\ total' = total /\ uncounted' \subseteq uncounted
    BY <1>0, <2>1 DEF recorded, total, uncounted, BarTypes
  <2>3. pc'[Main] = pc[Main] /\ pc[Main] # "idle"
    BY <1>0, <2>1, WorkersAssumption DEF PhaseInv, TypeOK
  <2>4. BarTypes'
    BY <1>0, <2>1 DEF BarTypes, TypeOK
  <2>5. CounterInv'
    <3>1. IsFiniteSet(uncounted)
      BY WorkersAssumption, FS_Subset DEF uncounted
    <3>2. /\ Cardinality(uncounted) \in Nat /\ Cardinality(uncounted') \in Nat
          /\ Cardinality(uncounted') <= Cardinality(uncounted)
      BY <2>2, <3>1, FS_Subset, FS_CardinalityType
    <3>3. /\ Cardinality(uncounted') * ChunkSize <= Cardinality(uncounted) * ChunkSize
          /\ Cardinality(uncounted) * ChunkSize \in Nat /\ Cardinality(uncounted') * ChunkSize \in Nat
      BY <3>2, TimesSize, TimesMore
    <3>4. counter + Cardinality(uncounted) * ChunkSize <= recorded
      BY <2>1 DEF BarInv, CounterInv
    <3>5. counter' + Cardinality(uncounted') * ChunkSize <= recorded'
      BY <1>0, <1>a, <2>1, <2>2, <3>3, <3>4 DEF BarTypes
    <3> QED
      BY <3>5 DEF CounterInv
  <2>6. ShownInv'
    BY <1>0, <2>1, <2>2, <2>3 DEF BarInv, ShownInv, BarTypes
  <2>7. FinishInv'
    BY <2>1, <2>3 DEF BarInv, FinishInv
  <2> QED
    BY <2>4, <2>5, <2>6, <2>7 DEF BarInv
<1>10. ASSUME NEW w \in Workers, IsFed(w) PROVE BarInv'
  <2>1. /\ at[w] = "work" /\ pc[w] = "recv" /\ pc[Main] = "feed"
        /\ UNCHANGED <<progress, version, state>>
    BY <1>10 DEF IsFed, Feed
  <2>2. PICK m \in {"join", "feed"} : pc' = [pc EXCEPT ![w] = "fetch", ![Main] = m]
    BY <1>10 DEF IsFed, Feed
  <2>3. /\ \A v \in Workers \ {w} : pc'[v] = pc[v]
        /\ pc'[w] = "fetch" /\ pc'[Main] # "idle"
    BY <1>0, <2>2, WorkersAssumption DEF TypeOK
  <2> QED
    BY <1>0, <2>1, <2>3, BarQuiet DEF BarTypes
<1>11. ASSUME NEW w \in Workers, Works(w) PROVE BarInv'
  <2>1. /\ at[w] = "work" /\ UNCHANGED <<progress, version, state>>
    BY <1>11 DEF Works, NoMoreJobs, Write, Report, memory
  <2>2. /\ pc[w] # "idle" /\ \A v \in Workers \ {w} : pc'[v] = pc[v]
        /\ pc'[Main] = pc[Main]
    BY <1>0, <1>11, WorkersAssumption DEF Works, NoMoreJobs, Write, Report, TypeOK
  <2> QED
    BY <1>0, <2>1, <2>2, BarQuiet DEF BarTypes
<1>12. ASSUME NEW w \in Workers, MaybeFlush(w) \/ Fetch(w) \/ ChunkFails(w), UNCHANGED progress
       PROVE  BarInv'
  <2>1. UNCHANGED <<progress, version, state>>
    BY <1>12 DEF MaybeFlush, Fetch, ChunkFails, memory
  <2>2. /\ pc[w] \in {"maybe", "fetch", "write"} /\ \A v \in Workers \ {w} : pc'[v] = pc[v]
        /\ pc'[Main] = pc[Main]
        /\ pc[w] = "maybe" => pc'[w] \in {"recv"} \cup Flushing
    BY <1>0, <1>12, WorkersAssumption DEF MaybeFlush, Fetch, ChunkFails, TypeOK
  <2> QED
    BY <1>0, <2>1, <2>2, BarQuiet DEF BarTypes
<1>13. ASSUME NEW w \in Workers, Count(w) PROVE BarInv'
  <2>1. /\ pc[w] = "recv" /\ at[w] = "count"
        /\ counter' = counter + Size(val[w])
        /\ val' = [val EXCEPT ![w] = Least(counter', total)]
        /\ at' = [at EXCEPT ![w] = "call"]
        /\ UNCHANGED <<version, pc, state, bars, line, finished>>
    BY <1>13 DEF Count, vars, memory
  <2>2. Size(val[w]) \in Nat /\ Size(val[w]) <= ChunkSize
    BY ProgressSizes DEF Size
  <2>3. uncounted' = uncounted \ {w} /\ w \in uncounted
    BY <1>0, <2>1 DEF uncounted, BarTypes
  <2>4. /\ Cardinality(uncounted') \in Nat
        /\ Cardinality(uncounted) = Cardinality(uncounted') + 1
    <3>1. IsFiniteSet(uncounted)
      BY WorkersAssumption, FS_Subset DEF uncounted
    <3>2. IsFiniteSet(uncounted') /\ Cardinality(uncounted') = Cardinality(uncounted) - 1
      BY <2>3, <3>1, FS_RemoveElement
    <3>3. Cardinality(uncounted) \in Nat /\ Cardinality(uncounted') \in Nat
      BY <3>1, <3>2, FS_CardinalityType
    <3> QED
      BY <3>2, <3>3
  <2>5. recorded' = recorded /\ total' = total
    BY <2>1 DEF recorded, total
  <2>6. /\ counter' \in Nat
        /\ counter' + Cardinality(uncounted') * ChunkSize <= recorded'
        /\ counter' <= recorded'
    <3>1. counter + Cardinality(uncounted) * ChunkSize <= recorded
      BY <2>1 DEF BarInv, CounterInv
    <3>2. /\ Cardinality(uncounted) * ChunkSize = Cardinality(uncounted') * ChunkSize + ChunkSize
          /\ Cardinality(uncounted') * ChunkSize \in Nat
      BY <2>4, TimesSize
    <3> QED
      BY <1>0, <1>a, <2>1, <2>2, <2>5, <3>1, <3>2, ProgressSizes DEF BarTypes
  <2>7. val'[w] \in Nat /\ val'[w] <= recorded'
    <3>1. val'[w] = Least(counter', total)
      BY <1>0, <2>1 DEF BarTypes
    <3> QED
      BY <1>0, <1>a, <2>6, <3>1, TotalSize DEF Least
  <2>8. /\ val' = [val EXCEPT ![w] = val'[w]]
        /\ pc[Main] # "idle"
    BY <1>0, <2>1 DEF BarTypes, PhaseInv
  <2>9. BarTypes'
    BY <1>0, <2>1, <2>6, <2>7, <2>8 DEF BarTypes
  <2>10. CounterInv'
    BY <2>6 DEF CounterInv
  <2>11. ShownInv'
    <3>1. ASSUME NEW v \in Workers, at'[v] \in {"call", "make"} PROVE val'[v] <= recorded'
      <4>1. CASE v = w
        BY <4>1, <2>7
      <4>2. CASE v # w
        <5>1. at[v] \in {"call", "make"} /\ val'[v] = val[v]
          BY <1>0, <2>1, <2>8, <3>1, <4>2 DEF BarTypes
        <5> QED
          BY <5>1, <2>5 DEF BarInv, ShownInv
      <4> QED
        BY <4>1, <4>2
    <3>2. line' <= recorded'
      BY <2>1, <2>5, <2>8 DEF BarInv, ShownInv
    <3> QED
      BY <3>1, <3>2 DEF ShownInv
  <2>12. FinishInv'
    BY <2>1, <2>5 DEF BarInv, FinishInv
  <2> QED
    BY <2>9, <2>10, <2>11, <2>12 DEF BarInv
<1>14. ASSUME NEW w \in Workers, SeesNoBar(w) \/ MakesBar(w) PROVE BarInv'
  <2>1. /\ at[w] \in {"call", "make"} /\ bars' \in Nat
        /\ \E a \in {"call", "make"} : at' = [at EXCEPT ![w] = a]
        /\ UNCHANGED <<version, pc, state, counter, val, line, finished>>
    BY <1>0, <1>14 DEF SeesNoBar, MakesBar, vars, memory, BarTypes
  <2>2. recorded' = recorded /\ total' = total /\ uncounted' = uncounted
    BY <1>0, <2>1 DEF recorded, total, uncounted, BarTypes
  <2>3. BarTypes'
    BY <1>0, <2>1 DEF BarTypes
  <2>4. CounterInv'
    BY <2>1, <2>2 DEF BarInv, CounterInv
  <2>5. ShownInv'
    BY <1>0, <2>1, <2>2 DEF BarInv, ShownInv, BarTypes
  <2>6. FinishInv'
    BY <2>1, <2>2 DEF BarInv, FinishInv
  <2> QED
    BY <2>3, <2>4, <2>5, <2>6 DEF BarInv
<1>15. ASSUME NEW w \in Workers, Set(w) PROVE BarInv'
  <2>1. /\ at[w] = "call" /\ (line' = val[w] \/ line' = line)
        /\ at' = [at EXCEPT ![w] = "work"] /\ val' = [val EXCEPT ![w] = 0]
        /\ UNCHANGED <<version, pc, state, counter, bars, finished>>
    BY <1>15 DEF Set, vars, memory
  <2>2. recorded' = recorded /\ total' = total /\ uncounted' = uncounted
    BY <1>0, <2>1 DEF recorded, total, uncounted, BarTypes
  <2>3. pc[w] = "recv" /\ pc[Main] # "idle"
    BY <1>0, <2>1 DEF BarTypes, PhaseInv
  <2>4. BarTypes'
    BY <1>0, <2>1 DEF BarTypes
  <2>5. CounterInv'
    BY <2>1, <2>2 DEF BarInv, CounterInv
  <2>6. ShownInv'
    BY <1>0, <2>1, <2>2, <2>3 DEF BarInv, ShownInv, BarTypes
  <2>7. FinishInv'
    BY <2>1, <2>2, <2>3 DEF BarInv, FinishInv
  <2> QED
    BY <2>4, <2>5, <2>6, <2>7 DEF BarInv
<1>16. ASSUME NEW p \in Procs, Sync(p) \/ Truncate(p) \/ Put(p), UNCHANGED progress
       PROVE  BarInv'
  <2>1. UNCHANGED <<progress, version, state>>
    BY <1>16 DEF Sync, Truncate, Put, memory
  <2>2. /\ pc[p] \in Flushing /\ \A q \in Procs \ {p} : pc'[q] = pc[q]
        /\ p = Main => pc'[p] # "idle"
        /\ p # Main => pc'[p] \in {"recv"} \cup Flushing
    BY <1>0, <1>16, WorkersAssumption DEF Sync, Truncate, Put, TypeOK
  <2>3. pc[p] # "recv"
    BY <2>2
  <2> QED
    BY <1>0, <2>1, <2>2, <2>3, BarQuiet, WorkersAssumption DEF BarTypes
<1> QED
  BY <1>1, <1>2, <1>3, <1>4, <1>5, <1>6, <1>7, <1>8, <1>9, <1>10, <1>11, <1>12, <1>13,
     <1>14, <1>15, <1>16, BarCases

LEMMA BarInit == ASSUME InitBar PROVE BarInv
<1>1. /\ counter = 0 /\ bars = 0 /\ line = 0 /\ finished = FALSE
      /\ at = [w \in Workers |-> "work"] /\ val = [w \in Workers |-> 0]
      /\ pc = [p \in Procs |-> "idle"]
  BY DEF InitBar, Init
<1>2. BarTypes
  BY <1>1 DEF BarTypes
<1>3. CounterInv /\ ShownInv /\ FinishInv
  BY <1>1 DEF CounterInv, ShownInv, FinishInv, Procs
<1> QED
  BY <1>2, <1>3 DEF BarInv

LEMMA BarStutter == ASSUME BarInv, UNCHANGED allVars PROVE BarInv'
<1>1. UNCHANGED <<version, pc, state, counter, at, val, bars, line, finished>>
  BY DEF allVars, vars, memory, progress
<1>2. uncounted' = uncounted /\ recorded' = recorded /\ total' = total
  BY <1>1 DEF uncounted, recorded, total
<1>3. BarTypes' /\ CounterInv' /\ ShownInv' /\ FinishInv'
  BY <1>1, <1>2 DEF BarInv, BarTypes, CounterInv, ShownInv, FinishInv
<1> QED
  BY <1>3 DEF BarInv

-----------------------------------------------------------------------------
(* The theorems.                                                           *)

\* The invariant: the counter, with the chunks the workers have recorded and
\* not counted, and the bar are covered by what partsFile has recorded.
THEOREM BarInvariance == SpecBar => [](IInv /\ BarInv)
<1>1. InitBar => IInv /\ LossInv
  BY InitInv DEF InitBar
<1>2. IInv /\ LossInv /\ [NextBar]_allVars => (IInv /\ LossInv)'
  BY InvStep, BarStep
<1>3. InitBar => BarInv
  BY BarInit
<1>4. IInv /\ IInv' /\ BarInv /\ [NextBar]_allVars => BarInv'
  BY BarInvStep, BarStutter
<1> QED
  BY <1>1, <1>2, <1>3, <1>4, PTL DEF SpecBar

\* The callback of Indexes.fetch: while a download runs, the bar is never ahead
\* of what is recorded by more than the bytes the last chunk is short of a full
\* one, however the workers' callbacks overtake each other.
THEOREM BarNeverFarAhead == SpecBar => []NeverFarAhead
<1>1. ASSUME IInv, BarInv PROVE NeverFarAhead
  <2> DEFINE tail == Length[version] - 1
             rest == state \ {tail}
  <2>1. /\ IsFiniteSet(state) /\ Cardinality(state) \in Nat
        /\ recorded \in Nat
    BY <1>1, StateSize DEF IInv
  <2>2. SUFFICES ASSUME pc[Main] # "idle"
                 PROVE  line <= RecordedBytes + (ChunkSize - TailSize)
    BY DEF NeverFarAhead
  <2>3. line <= recorded /\ line \in Nat
    BY <1>1, <2>2 DEF BarInv, ShownInv, BarTypes
  <2>4. RecordedBytes = Cardinality(rest) * ChunkSize + (IF tail \in state THEN TailSize ELSE 0)
    BY DEF RecordedBytes
  <2>5. IsFiniteSet(rest) /\ Cardinality(rest) \in Nat
    BY <2>1, FS_RemoveElement, FS_CardinalityType
  <2>6. Cardinality(rest) = IF tail \in state THEN Cardinality(state) - 1 ELSE Cardinality(state)
    BY <2>1, FS_RemoveElement
  <2> HIDE DEF tail, rest
  <2>7. CASE tail \in state
    <3>1. Cardinality(state) = Cardinality(rest) + 1
      BY <2>1, <2>5, <2>6, <2>7
    <3>2. recorded = Cardinality(rest) * ChunkSize + ChunkSize /\ Cardinality(rest) * ChunkSize \in Nat
      BY <2>5, <3>1, TimesSize DEF recorded
    <3> QED
      BY <2>3, <2>4, <2>7, <3>2, ProgressSizes
  <2>8. CASE tail \notin state
    <3>1. RecordedBytes = recorded
      BY <2>1, <2>4, <2>6, <2>8 DEF recorded
    <3> QED
      BY <2>1, <2>3, <3>1, ProgressSizes
  <2> QED
    BY <2>7, <2>8
<1> QED
  BY <1>1, BarInvariance, PTL

\* Bar.Finish: a download that returned nil leaves the line at 100%, whatever
\* older count the last callback carried.
THEOREM BarEndsAtTotal == SpecBar => []EndsAtTotal
<1>1. BarInv => EndsAtTotal
  BY DEF BarInv, FinishInv, EndsAtTotal
<1> QED
  BY <1>1, BarInvariance, PTL

=============================================================================
