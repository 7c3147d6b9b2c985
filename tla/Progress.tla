------------------------------ MODULE Progress ------------------------------
(***************************************************************************)
(* A download and its progress bar: the workers of module Download count   *)
(* the bytes of the chunks they have recorded, and pass the sum to a       *)
(* callback of Indexes.fetch (or ensureExtracted), which makes the bar at  *)
(* its first call and sets it.  The counter is atomic and the bar has a    *)
(* mutex, but nothing orders the callbacks of two workers, nor guards the  *)
(* variable the bar is kept in.                                            *)
(*                                                                         *)
(* Between two steps of the disk and of the network the worker is in the   *)
(* callback.  What Download says of power failures and of an object that   *)
(* is published again is left out: neither is seen by a running bar.  The  *)
(* bar is on a terminal; to a pipe Bar prints lines instead.               *)
(***************************************************************************)
EXTENDS Download

CONSTANTS ChunkSize,  \* downloadChunk
          TailSize    \* the size of the last chunk

ASSUME ProgressSizes == ChunkSize \in Nat \ {0} /\ TailSize \in 1..ChunkSize

VARIABLES
  counter,  \* done in DownloadResumable, an atomic.Int64
  at,       \* where each worker is between two chunks
  val,      \* the chunk it has to count, or the bytes it passes on
  bars,     \* how often fetch has made a bar: none, or bar is not nil
  line,     \* the bytes done the terminal shows
  finished  \* bar.Finish has run

progress == <<counter, at, val, bars, line, finished>>
allVars == <<vars, progress>>

-----------------------------------------------------------------------------

total == (Length[version] - 1) * ChunkSize + TailSize

Size(c) == IF c = Length[version] - 1 THEN TailSize ELSE ChunkSize

Least(a, b) == IF a < b THEN a ELSE b

\* Variant: the chunks to fetch are counted, not the others.
AlreadyDoneSwapped == Least(Cardinality(pending) * ChunkSize, total)

\* What the counter starts with: the chunks done already, each as a full one.
AlreadyDone == Least((Length[version] - Cardinality(pending)) * ChunkSize, total)

InitBar ==
  /\ Init
  /\ counter = 0
  /\ at = [w \in Workers |-> "work"] /\ val = [w \in Workers |-> 0]
  /\ bars = 0 /\ line = 0 /\ finished = FALSE

-----------------------------------------------------------------------------
(* Steps of the download, and what they are to the bar.                    *)

\* DownloadResumable has returned nil, and fetch has the bar to finish.
ToFinish == pc[Main] = "idle" /\ result = "ok" /\ bars > 0 /\ ~finished

\* A call of fetch: bar is nil.
Fetching ==
  /\ ~ToFinish
  /\ Start
  /\ bars' = 0 /\ line' = 0 /\ finished' = FALSE
  /\ UNCHANGED <<counter, at, val>>

Counting == StartWorkers /\ counter' = AlreadyDone /\ UNCHANGED <<at, val, bars, line, finished>>

\* Nothing to fetch: onProgress(total, total).
Complete == NothingPending /\ bars' = 1 /\ line' = total /\ UNCHANGED <<counter, at, val, finished>>

\* A chunk that is recorded is counted once maybeFlush returns; a worker that
\* has one to count takes no other.
Recorded(w) ==
  /\ Mark(w)
  /\ at' = [at EXCEPT ![w] = "count"] /\ val' = [val EXCEPT ![w] = job[w]]
  /\ UNCHANGED <<counter, bars, line, finished>>

Flushes(w) == (MaybeFlush(w) \/ Sync(w) \/ Truncate(w) \/ Put(w)) /\ UNCHANGED progress

FlushGivesUp(w) ==
  /\ FlushFails(w)
  /\ at' = [at EXCEPT ![w] = "work"] /\ val' = [val EXCEPT ![w] = 0]
  /\ UNCHANGED <<counter, bars, line, finished>>

Works(w) ==
  at[w] = "work" /\ (NoMoreJobs(w) \/ Write(w) \/ Report(w)) /\ UNCHANGED progress

IsFed(w) == at[w] = "work" /\ Feed(w) /\ UNCHANGED progress

\* The process is gone, and its counter and its bar with it.
Killed ==
  /\ Kill
  /\ counter' = 0 /\ bars' = 0 /\ line' = 0
  /\ at' = [w \in Workers |-> "work"] /\ val' = [w \in Workers |-> 0]
  /\ UNCHANGED finished

-----------------------------------------------------------------------------
(* The callback.                                                           *)

\* onProgress(min(done.Add(n), total), total)
Count(w) ==
  /\ pc[w] = "recv" /\ at[w] = "count"
  /\ counter' = counter + Size(val[w])
  /\ val' = [val EXCEPT ![w] = Least(counter', total)]
  /\ at' = [at EXCEPT ![w] = "call"]
  /\ UNCHANGED <<vars, bars, line, finished>>

\* "bar == nil", then the bar is made; another worker may come in between.
SeesNoBar(w) ==
  /\ at[w] = "call" /\ bars = 0
  /\ at' = [at EXCEPT ![w] = "make"]
  /\ UNCHANGED <<vars, counter, val, bars, line, finished>>

MakesBar(w) ==
  /\ at[w] = "make"
  /\ bars' = bars + 1
  /\ at' = [at EXCEPT ![w] = "call"]
  /\ UNCHANGED <<vars, counter, val, line, finished>>

\* Bar.Set: paints what it is given, later or earlier than what it shows;
\* short of the total it does not when it has just painted.
Set(w) ==
  /\ at[w] = "call" /\ bars > 0
  /\ line' \in {val[w]} \cup (IF val[w] < total THEN {line} ELSE {})
  /\ at' = [at EXCEPT ![w] = "work"] /\ val' = [val EXCEPT ![w] = 0]
  /\ UNCHANGED <<vars, counter, bars, finished>>

\* Variant: only the line is ended.
FinishUnpainted ==
  /\ ToFinish
  /\ finished' = TRUE
  /\ UNCHANGED <<vars, counter, at, val, bars, line>>

\* DownloadResumable has returned nil: Bar.Finish paints the whole.
Finish ==
  /\ ToFinish
  /\ finished' = TRUE
  /\ line' = total
  /\ UNCHANGED <<vars, counter, at, val, bars>>

-----------------------------------------------------------------------------

MainStep ==
  \/ Counting \/ Complete \/ Finish
  \/ \E w \in Workers : IsFed(w)
  \/ /\ \/ OpenFileFails \/ StopFeeding \/ Join
        \/ Sync(Main) \/ Truncate(Main) \/ Put(Main) \/ FlushFails(Main) \/ Close
     /\ UNCHANGED progress

WorkerStep(w) ==
  \/ Recorded(w) \/ Flushes(w) \/ FlushGivesUp(w) \/ Works(w)
  \/ Count(w) \/ SeesNoBar(w) \/ MakesBar(w) \/ Set(w)

NextBar ==
  \/ Fetching \/ MainStep \/ Killed
  \/ \E w \in Workers : WorkerStep(w)
  \/ /\ \/ SizeFails \/ OpenPartsFails \/ OpenParts \/ Interrupt
        \/ \E w \in Workers : Fetch(w) \/ ChunkFails(w)
     /\ UNCHANGED progress

SpecBar == InitBar /\ [][NextBar]_allVars

\* As in Download; the callbacks wait for nothing but the mutex of the bar.
FairSpecBar ==
  /\ SpecBar
  /\ WF_allVars(MainStep)
  /\ WF_allVars(interrupted /\ SizeFails /\ UNCHANGED progress)
  /\ \A w \in Workers : /\ WF_allVars(WorkerStep(w))
                        /\ WF_allVars(cancelled /\ ChunkFails(w) /\ UNCHANGED progress)

-----------------------------------------------------------------------------
(* Properties.                                                             *)

\* The bytes recorded.
RecordedBytes == Cardinality(state \ {Length[version] - 1}) * ChunkSize
                   + (IF Length[version] - 1 \in state THEN TailSize ELSE 0)

\* The bar is never ahead of the download by more than the bytes the last
\* chunk is short of a full one (a resumed run counts it as full): at 100% less
\* than one chunk is missing, however the callbacks are ordered and whatever
\* run recorded the chunks.
NeverFarAhead ==
  pc[Main] # "idle" /\ line > 0 => line <= RecordedBytes + (ChunkSize - TailSize)

\* "Finish paints the completed bar": although the last callback to come may
\* carry an older count, a download that returned nil leaves the line at 100%.
EndsAtTotal == finished => line = total

=============================================================================
