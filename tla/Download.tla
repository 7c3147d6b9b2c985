------------------------------ MODULE Download ------------------------------
(***************************************************************************)
(* Client.DownloadResumable: one object of the archive is fetched in       *)
(* chunks by parallel ranged requests and written out of order into a      *)
(* file that has its full size from the start.  A sidecar file, one byte   *)
(* per chunk, says which chunks are real; it is what the next run resumes  *)
(* from.                                                                   *)
(*                                                                         *)
(* Time is cut wherever another goroutine, a signal, a kill or a power     *)
(* failure can come in between: the mutex of partsFile is held from the    *)
(* test in maybeFlush to the end of the flush, and a flush is three steps  *)
(* on disk (fsync of the data, truncation of the sidecar, its content).    *)
(*                                                                         *)
(* A chunk is its index.  Its content is "the bytes of the published       *)
(* object" (chunk \in good) or anything else.                              *)
(***************************************************************************)
EXTENDS Integers, FiniteSets

CONSTANTS Workers,     \* goroutines runChunks may start (DownloadConcurrency)
          Main,        \* the goroutine that called DownloadResumable
          SyncEvery,   \* syncEvery
          MaxVersion,  \* how many times the object may be published
          Length       \* Length[v]: number of chunks of the v-th publication

ASSUME WorkersAssumption == IsFiniteSet(Workers) /\ Workers # {} /\ Main \notin Workers
ASSUME SyncEveryAssumption == SyncEvery \in Nat \ {0}
ASSUME LengthAssumption == MaxVersion \in Nat \ {0} /\ Length \in [1..MaxVersion -> Nat \ {0}]

Procs == Workers \cup {Main}

VARIABLES
  \* The archive.
  version,      \* the publication the server holds
  \* The disk.
  good,         \* chunks of the data file that hold the object's bytes
  stable,       \* those of them that an fsync has put on stable storage
  sidecar,      \* the .parts file as the operating system shows it
  saved,        \* the .parts file as a power failure would leave it
  \* The process.
  pc,           \* what each goroutine is about to do
  job,          \* the chunk each worker is on
  state,        \* partsFile.state, as the set of chunks marked done
  dirty,        \* partsFile.dirty
  todo,         \* chunks the feeding loop has still to hand out
  errs,         \* errors in the buffered channel errs
  interrupted,  \* the caller's context is cancelled (Ctrl-C)
  result        \* what the last call returned

disk == <<good, stable, sidecar, saved>>
memory == <<job, state, dirty, todo, errs>>
vars == <<version, disk, pc, memory, interrupted, result>>

-----------------------------------------------------------------------------

NoJob == -1

Chunks == 0..(Length[version] - 1)

\* A sidecar is its length in bytes and the chunks whose byte is 1.  The
\* length is -1 when there is no file, 0 when os.WriteFile has truncated it
\* and not yet written.
Absent == [len |-> -1, done |-> {}]
Torn == [len |-> 0, done |-> {}]
Current(s) == [len |-> Length[version], done |-> s]

\* What a run started now would believe of sidecar s.
Claims(s) == IF s.len = Length[version] THEN s.done ELSE {}

Flushing == {"sync", "trunc", "put"}
Phases == {"idle", "open", "file", "feed", "join", "close",
           "recv", "fetch", "write", "mark", "maybe", "fail", "exit"} \cup Flushing
Results == {"none", "ok", "err", "canceled"}

\* The context the requests carry: the caller's, or cancelled by an error.
cancelled == interrupted \/ errs > 0

\* partsFile.mu is free.
Unlocked == \A p \in Procs : pc[p] \notin Flushing

Goto(p, phase) == pc' = [pc EXCEPT ![p] = phase]

\* The call is over (or the process is): its local variables are gone.
Leave(r) ==
  /\ pc' = [p \in Procs |-> "idle"]
  /\ job' = [w \in Workers |-> NoJob]
  /\ state' = {}
  /\ dirty' = 0
  /\ todo' = {}
  /\ errs' = 0
  /\ interrupted' = FALSE
  /\ result' = r

Init ==
  /\ version = 1
  /\ good = {}
  /\ stable = {}
  /\ sidecar = Absent
  /\ saved = Absent
  /\ pc = [p \in Procs |-> "idle"]
  /\ job = [w \in Workers |-> NoJob]
  /\ state = {}
  /\ dirty = 0
  /\ todo = {}
  /\ errs = 0
  /\ interrupted = FALSE
  /\ result = "none"

-----------------------------------------------------------------------------
(* DownloadResumable, up to the start of the workers.                      *)

Start ==
  /\ pc[Main] = "idle"
  /\ Goto(Main, "open")
  /\ result' = "none"
  /\ UNCHANGED <<version, disk, memory, interrupted>>

\* Client.Size: the HEAD request fails, as it must once the context is done.
SizeFails ==
  /\ pc[Main] = "open"
  /\ Leave(IF interrupted THEN "canceled" ELSE "err")
  /\ UNCHANGED <<version, disk>>

\* MkdirAll fails, or openParts cannot read the sidecar or remove a stale one.
OpenPartsFails ==
  /\ pc[Main] = "open"
  /\ ~interrupted
  /\ Leave("err")
  /\ UNCHANGED <<version, disk>>

\* Variant: the length of the sidecar is not looked at.
OpenPartsAnyLength ==
  /\ pc[Main] = "open"
  /\ ~interrupted
  /\ state' = sidecar.done
  /\ Goto(Main, "file")
  /\ UNCHANGED <<version, disk, job, dirty, todo, errs, interrupted, result>>

\* openParts: a sidecar of the right length is believed, any other removed.
OpenParts ==
  /\ pc[Main] = "open"
  /\ ~interrupted
  /\ state' = Claims(sidecar)
  /\ sidecar' = IF sidecar.len = Length[version] THEN sidecar ELSE Absent
  /\ Goto(Main, "file")
  /\ UNCHANGED <<version, good, stable, saved, job, dirty, todo, errs, interrupted, result>>

\* Variant: what is already done is asked for again.
pendingAll == Chunks

\* partsFile.pending
pending == Chunks \ state

\* The data file cannot be opened or sized; the deferred parts.Close still runs.
OpenFileFails ==
  /\ pc[Main] = "file"
  /\ Goto(Main, "close")
  /\ result' = "err"
  /\ UNCHANGED <<version, disk, memory, interrupted>>

NothingPending ==
  /\ pc[Main] = "file"
  /\ pending = {}
  /\ Goto(Main, "close")
  /\ result' = "ok"
  /\ UNCHANGED <<version, disk, memory, interrupted>>

\* runChunks starts as many workers as there is work for.
StartWorkers ==
  /\ pc[Main] = "file"
  /\ pending # {}
  /\ todo' = pending
  /\ \E started \in SUBSET Workers :
       /\ IF Cardinality(pending) < Cardinality(Workers)
          THEN Cardinality(started) = Cardinality(pending)
          ELSE started = Workers
       /\ pc' = [p \in Procs |-> IF p = Main THEN "feed"
                                 ELSE IF p \in started THEN "recv" ELSE "idle"]
  /\ UNCHANGED <<version, disk, job, state, dirty, errs, interrupted, result>>

-----------------------------------------------------------------------------
(* The loop of runChunks that hands out the chunks in order.               *)

\* "jobs <- idx" meets a worker in "range jobs".  When both arms of the
\* select are ready either may be taken; the loop then ends all the same.
Feed(w) ==
  /\ pc[Main] = "feed"
  /\ pc[w] = "recv"
  /\ \E c \in todo :
       /\ \A d \in todo : c <= d
       /\ todo' = todo \ {c}
       /\ job' = [job EXCEPT ![w] = c]
       /\ pc' = [pc EXCEPT ![w] = "fetch",
                           ![Main] = IF cancelled \/ todo = {c} THEN "join" ELSE "feed"]
  /\ UNCHANGED <<version, disk, state, dirty, errs, interrupted, result>>

\* Variant: a plain send, without the ctx.Done arm.
StopFeedingNever == FALSE

\* "<-ctx.Done()"
StopFeeding ==
  /\ pc[Main] = "feed"
  /\ cancelled
  /\ Goto(Main, "join")
  /\ UNCHANGED <<version, disk, memory, interrupted, result>>

-----------------------------------------------------------------------------
(* A worker of runChunks.                                                  *)

\* jobs is closed: the range loop ends.
NoMoreJobs(w) ==
  /\ pc[w] = "recv"
  /\ pc[Main] # "feed"
  /\ Goto(w, "exit")
  /\ UNCHANGED <<version, disk, memory, interrupted, result>>

\* ReadRange delivers the whole chunk.
Fetch(w) ==
  /\ pc[w] = "fetch"
  /\ Goto(w, "write")
  /\ UNCHANGED <<version, disk, memory, interrupted, result>>

\* ReadRange or WriteAt returns an error; nothing is recorded.
ChunkFails(w) ==
  /\ pc[w] \in {"fetch", "write"}
  /\ Goto(w, "fail")
  /\ job' = [job EXCEPT ![w] = NoJob]
  /\ UNCHANGED <<version, disk, state, dirty, todo, errs, interrupted, result>>

\* f.WriteAt
Write(w) ==
  /\ pc[w] = "write"
  /\ good' = good \cup {job[w]}
  /\ Goto(w, "mark")
  /\ UNCHANGED <<version, stable, sidecar, saved, memory, interrupted, result>>

\* parts.markDone
Mark(w) ==
  /\ pc[w] = "mark"
  /\ Unlocked
  /\ state' = state \cup {job[w]}
  /\ dirty' = dirty + 1
  /\ job' = [job EXCEPT ![w] = NoJob]
  /\ Goto(w, "maybe")
  /\ UNCHANGED <<version, disk, todo, errs, interrupted, result>>

\* Variant: the sidecar is rewritten without an fsync of the data.
MaybeFlushNoSync(w) ==
  /\ pc[w] = "maybe"
  /\ Unlocked
  /\ Goto(w, IF dirty < SyncEvery THEN "recv" ELSE "trunc")
  /\ UNCHANGED <<version, disk, memory, interrupted, result>>

\* Variant: the threshold is off by one.
MaybeFlushLate(w) ==
  /\ pc[w] = "maybe"
  /\ Unlocked
  /\ Goto(w, IF dirty <= SyncEvery THEN "recv" ELSE "sync")
  /\ UNCHANGED <<version, disk, memory, interrupted, result>>

\* parts.maybeFlush: too few chunks since the last flush, or take the lock.
MaybeFlush(w) ==
  /\ pc[w] = "maybe"
  /\ Unlocked
  /\ Goto(w, IF dirty < SyncEvery THEN "recv" ELSE "sync")
  /\ UNCHANGED <<version, disk, memory, interrupted, result>>

\* Variant: errs is unbuffered, and read only after wg.Wait.
ReportUnbuffered(w) ==
  /\ pc[w] = "fail"
  /\ pc[Main] \in Flushing
  /\ errs' = errs + 1
  /\ Goto(w, "exit")
  /\ UNCHANGED <<version, disk, job, state, dirty, todo, interrupted, result>>

\* "errs <- err; cancel()".  The channel holds one error per started worker.
Report(w) ==
  /\ pc[w] = "fail"
  /\ errs < Cardinality({v \in Workers : pc[v] # "idle"})
  /\ errs' = errs + 1
  /\ Goto(w, "exit")
  /\ UNCHANGED <<version, disk, job, state, dirty, todo, interrupted, result>>

-----------------------------------------------------------------------------
(* flushLocked, run by a worker or, at the end, by Main.                   *)

\* Variant: errors of the workers are not returned.
OutcomeNoErrors == IF interrupted THEN "canceled" ELSE "ok"

\* What runChunks returns once its last flush is done: the interrupt first,
\* else the first error, else nil.
Outcome == IF interrupted THEN "canceled" ELSE IF errs > 0 THEN "err" ELSE "ok"

\* Variant: no last flush.
JoinNoFlush ==
  /\ pc[Main] = "join"
  /\ \A w \in Workers : pc[w] \in {"idle", "exit"}
  /\ Goto(Main, "close")
  /\ result' = Outcome
  /\ UNCHANGED <<version, disk, memory, interrupted>>

\* Variant: the last flush does not fsync.
JoinNoSync ==
  /\ pc[Main] = "join"
  /\ \A w \in Workers : pc[w] \in {"idle", "exit"}
  /\ Goto(Main, "trunc")
  /\ UNCHANGED <<version, disk, memory, interrupted, result>>

\* wg.Wait returns once every worker has; the last flush takes the lock.
Join ==
  /\ pc[Main] = "join"
  /\ \A w \in Workers : pc[w] \in {"idle", "exit"}
  /\ Goto(Main, "sync")
  /\ UNCHANGED <<version, disk, memory, interrupted, result>>

\* data.Sync
Sync(p) ==
  /\ pc[p] = "sync"
  /\ stable' = good
  /\ Goto(p, "trunc")
  /\ UNCHANGED <<version, good, sidecar, saved, memory, interrupted, result>>

\* os.WriteFile opens the sidecar with O_TRUNC ...
Truncate(p) ==
  /\ pc[p] = "trunc"
  /\ sidecar' = Torn
  /\ Goto(p, "put")
  /\ UNCHANGED <<version, good, stable, saved, memory, interrupted, result>>

\* ... and then writes it.  Main goes on to return.
Put(p) ==
  /\ pc[p] = "put"
  /\ sidecar' = Current(state)
  /\ dirty' = 0
  /\ IF p = Main
     THEN Goto(Main, "close") /\ result' = Outcome
     ELSE Goto(p, "recv") /\ UNCHANGED result
  /\ UNCHANGED <<version, good, stable, saved, job, state, todo, errs, interrupted>>

\* The fsync, the open or the write of the sidecar fails.
FlushFails(p) ==
  /\ pc[p] \in Flushing
  /\ IF p = Main THEN Goto(Main, "close") /\ result' = "err"
                 ELSE Goto(p, "fail") /\ UNCHANGED result
  /\ UNCHANGED <<version, disk, memory, interrupted>>

\* partsFile.Close drops the sidecar of a complete download and no other.
\* Its error is ignored: the removal may fail.
Close ==
  /\ pc[Main] = "close"
  /\ sidecar' \in (IF Chunks \subseteq state THEN {Absent, sidecar} ELSE {sidecar})
  /\ Leave(result)
  /\ UNCHANGED <<version, good, stable, saved>>

-----------------------------------------------------------------------------
(* The environment.                                                        *)

\* The first Ctrl-C cancels the caller's context.
Interrupt ==
  /\ pc[Main] # "idle"
  /\ ~interrupted
  /\ interrupted' = TRUE
  /\ UNCHANGED <<version, disk, pc, memory, result>>

\* The process dies (a second Ctrl-C, a SIGKILL, the OOM killer): what it
\* gave to the operating system stays.
Kill ==
  /\ pc[Main] # "idle"
  /\ Leave("none")
  /\ UNCHANGED <<version, disk>>

\* The machine dies: of the chunks not fsynced any may be lost, and the
\* sidecar is the one last written back.
PowerLoss ==
  /\ \E lost \in SUBSET (good \ stable) : good' = good \ lost
  /\ stable' = good'
  /\ sidecar' = saved
  /\ Leave(IF pc[Main] = "idle" THEN result ELSE "none")
  /\ UNCHANGED <<version, saved>>

\* The operating system writes the sidecar back, whatever it holds by then.
Writeback ==
  /\ saved # sidecar
  /\ saved' = sidecar
  /\ UNCHANGED <<version, good, stable, sidecar, pc, memory, interrupted, result>>

\* Between two runs the archive publishes another object under the epoch.
Republish ==
  /\ pc[Main] = "idle"
  /\ version < MaxVersion
  /\ version' = version + 1
  /\ good' = {}
  /\ stable' = {}
  /\ result' = "none"
  /\ UNCHANGED <<sidecar, saved, pc, memory, interrupted>>

-----------------------------------------------------------------------------

\* Steps Main takes without waiting for the network.
MainLocal ==
  \/ OpenFileFails \/ NothingPending \/ StartWorkers
  \/ StopFeeding \/ \E w \in Workers : Feed(w)
  \/ Join \/ Sync(Main) \/ Truncate(Main) \/ Put(Main) \/ FlushFails(Main)
  \/ Close

\* Steps a worker takes without waiting for the network.
WorkerLocal(w) ==
  \/ NoMoreJobs(w) \/ Write(w) \/ Mark(w) \/ MaybeFlush(w) \/ Report(w)
  \/ Sync(w) \/ Truncate(w) \/ Put(w) \/ FlushFails(w)

Environment == Interrupt \/ Kill \/ PowerLoss \/ Writeback \/ Republish

Next ==
  \/ Start \/ SizeFails \/ OpenPartsFails \/ OpenParts \/ MainLocal
  \/ \E w \in Workers : WorkerLocal(w) \/ Fetch(w) \/ ChunkFails(w)
  \/ Environment

Spec == Init /\ [][Next]_vars

\* Every goroutine keeps running.  A request may stay unanswered for ever,
\* except that one whose context is cancelled returns with an error.
Fairness ==
  /\ WF_vars(MainLocal)
  /\ WF_vars(interrupted /\ SizeFails)
  /\ \A w \in Workers : WF_vars(WorkerLocal(w)) /\ WF_vars(cancelled /\ ChunkFails(w))

FairSpec == Spec /\ Fairness

-----------------------------------------------------------------------------
(* Properties.                                                             *)

Sidecars == [len : {-1, 0} \cup {Length[v] : v \in 1..version}, done : SUBSET Nat]

\* Every variable holds a value of its kind; in particular a sidecar on disk
\* is absent, truncated, or was written for this or an earlier object.
TypeOK ==
  /\ version \in 1..MaxVersion
  /\ good \subseteq Chunks
  /\ stable \subseteq good
  /\ sidecar \in Sidecars
  /\ saved \in Sidecars
  /\ pc \in [Procs -> Phases]
  /\ job \in [Workers -> Chunks \cup {NoJob}]
  /\ state \subseteq Chunks
  /\ dirty \in Nat
  /\ todo \subseteq Chunks
  /\ errs \in Nat
  /\ interrupted \in BOOLEAN
  /\ result \in Results

\* "The sidecar must never claim a chunk the data file has not durably stored,
\* or a resumed download would skip a hole" (flush): neither the sidecar a
\* killed process leaves nor the one a power failure leaves.
SidecarHonest == Claims(sidecar) \subseteq stable /\ Claims(saved) \subseteq stable

\* DownloadResumable returns nil only when every chunk of the object the
\* server holds is in the file for good; a crash after the return takes none.
OkIsComplete == result = "ok" => Chunks \subseteq stable

\* The chunks in flight are pairwise different and none is one that this run
\* has recorded or that the sidecar it started from records: runChunks never
\* fetches a chunk twice.
NoRefetch ==
  \A w \in Workers : job[w] # NoJob =>
    /\ job[w] \notin state \cup todo \cup Claims(sidecar)
    /\ \A v \in Workers \ {w} : job[v] # job[w]

\* What a kill costs while the sidecar is not being rewritten: at most
\* SyncEvery - 1 chunks below the threshold of maybeFlush and one for each
\* worker that marked its chunk and has not come back for another.
LossBound ==
  sidecar # Torn =>
    Cardinality(state \ Claims(sidecar)) <= SyncEvery - 1 + Cardinality(Workers)

\* "A crash loses at most this much progress" (syncEvery): whenever the process
\* is killed, the next run finds all but SyncEvery of the recorded chunks.
\* With one worker nothing overshoots the threshold; still os.WriteFile
\* truncates before it writes, and a kill in between costs every chunk.
CrashLosesAtMostSyncEvery == Cardinality(state \ Claims(sidecar)) <= SyncEvery

\* Close of Indexes "leaves the files on disk, so an interrupted run can resume
\* without re-downloading ~11 GB": a file whose download returned nil has
\* nothing left to fetch when the next run opens it.
FinishedIsNotRefetched == pc[Main] = "idle" /\ result = "ok" => Claims(sidecar) = Chunks

\* "Flush the sidecar so an interrupted download resumes rather than
\* restarts" (runChunks): a call that returns the interrupt leaves a sidecar
\* with every chunk it had recorded, or a complete file.
InterruptKeepsProgress ==
  [][pc[Main] = "close" /\ result' = "canceled" =>
       state \subseteq Claims(sidecar') \/ Chunks \subseteq stable]_vars

\* The goroutines implement a transfer: see module Transfer.
T == INSTANCE Transfer WITH
       have <- good, safe <- stable,
       running <- (pc[Main] # "idle"),
       outcome <- (IF pc[Main] = "idle" THEN result ELSE "none")

ImplementsTransfer == T!Spec

\* "Ctrl-C aborts a multi-GB transfer" and "the first error wins and cancels
\* the rest" (runChunks): once the context is cancelled the call returns,
\* although the other requests may have been stalled for ever.
CancelReturns == cancelled ~> pc[Main] = "idle"

\* If the server answers every request, each with the data or an error, a call
\* returns: no worker, nor the feeding loop, waits for another for ever.
Answered ==
  /\ WF_vars(OpenParts \/ SizeFails)
  /\ \A w \in Workers : WF_vars(Fetch(w) \/ ChunkFails(w))
AnsweredReturns == Answered => (pc[Main] # "idle" ~> pc[Main] = "idle")

=============================================================================
