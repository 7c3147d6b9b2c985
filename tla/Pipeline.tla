------------------------------ MODULE Pipeline ------------------------------
(***************************************************************************)
(* The block-reading phase, process: a feeder hands the pending slots to   *)
(* Workers over the unbuffered channel work, each worker reads a block and *)
(* sends what it collected over the buffered channel results, and the      *)
(* goroutine that called process writes one slot after the other to the    *)
(* database, each in a transaction of its own (WriteSlot).  An interrupted *)
(* or killed run is started again on the slots not yet marked done.        *)
(*                                                                         *)
(* A block is the set of the wallet's transactions in it, a landing is the *)
(* transaction it was built from.  The database is SQLite: what a          *)
(* transaction wrote is seen by a later run only if it committed.          *)
(***************************************************************************)
EXTENDS Integers, Sequences, FiniteSets

CONSTANTS Workers,    \* the goroutines of process (cfg.Concurrency)
          Slots,      \* the slots discovery put in backfill_slot
          Txs,        \* the wallet's transactions
          TxOf,       \* TxOf[s]: those in the block of slot s
          Buildable   \* those BuildLanding returns a row for

ASSUME PipelineWorkers == IsFiniteSet(Workers) /\ Workers # {}
ASSUME PipelineSlots == IsFiniteSet(Slots) /\ Slots \subseteq Nat
ASSUME PipelineTxs == TxOf \in [Slots -> SUBSET Txs] /\ Buildable \subseteq Txs

VARIABLES
  \* The database.
  done,         \* backfill_slot rows with done = 1
  rows,         \* the landing table
  txn,          \* what the open transaction has inserted, not committed
  \* The process.
  writer,       \* what the goroutine of process is about to do
  current,      \* the slot it is writing
  feeder,       \* the feeding goroutine: "off", "on", or has closed work
  pending,      \* slots it has still to send
  pc,           \* what each worker is about to do
  job,          \* the slot each worker is on
  results,      \* the channel results
  total,        \* len(pending) when process was called
  slotsDone,    \* counters of process
  failures,
  interrupted,  \* the context is cancelled
  outcome       \* what the last run returned

db == <<done, rows, txn>>
counters == <<total, slotsDone, failures>>
vars == <<db, writer, current, feeder, pending, pc, job, results, counters,
          interrupted, outcome>>

-----------------------------------------------------------------------------

NoSlot == -1

\* collect: whatever BuildLanding refuses is left out.
collect(s) == TxOf[s] \cap Buildable

Init ==
  /\ done = {} /\ rows = {} /\ txn = {}
  /\ writer = "idle" /\ current = NoSlot
  /\ feeder = "off" /\ pending = {}
  /\ pc = [w \in Workers |-> "idle"]
  /\ job = [w \in Workers |-> NoSlot]
  /\ results = <<>>
  /\ total = 0 /\ slotsDone = 0 /\ failures = 0
  /\ interrupted = FALSE
  /\ outcome = "none"

-----------------------------------------------------------------------------
(* The run.                                                                *)

\* Variant: the slots done are not left out.
StartAll ==
  /\ writer = "idle"
  /\ done # Slots
  /\ pending' = Slots
  /\ total' = Cardinality(Slots)
  /\ slotsDone' = 0 /\ failures' = 0
  /\ writer' = "take"
  /\ feeder' = "on"
  /\ pc' = [w \in Workers |-> "recv"]
  /\ outcome' = "none"
  /\ UNCHANGED <<db, current, job, results, interrupted>>

\* PendingSlots, then process starts its goroutines.
Start ==
  /\ writer = "idle"
  /\ done # Slots
  /\ pending' = Slots \ done
  /\ total' = Cardinality(Slots \ done)
  /\ slotsDone' = 0 /\ failures' = 0
  /\ writer' = "take"
  /\ feeder' = "on"
  /\ pc' = [w \in Workers |-> "recv"]
  /\ outcome' = "none"
  /\ UNCHANGED <<db, current, job, results, interrupted>>

\* With no slot pending the run ends before process: "nothing to do".
NothingToDo ==
  /\ writer = "idle"
  /\ done = Slots
  /\ total' = 0 /\ slotsDone' = 0 /\ failures' = 0
  /\ outcome' = "ok"
  /\ UNCHANGED <<db, writer, current, feeder, pending, pc, job, results, interrupted>>

\* The process is gone: its memory, and the transaction it had not committed.
Gone ==
  /\ txn' = {}
  /\ writer' = "idle" /\ current' = NoSlot
  /\ feeder' = "off" /\ pending' = {}
  /\ pc' = [w \in Workers |-> "idle"]
  /\ job' = [w \in Workers |-> NoSlot]
  /\ results' = <<>>
  /\ interrupted' = FALSE
  /\ UNCHANGED <<done, rows>>

\* Variant: results is closed without waiting for the workers.
ReturnEarly ==
  /\ writer = "take"
  /\ results = <<>>
  /\ feeder = "closed"
  /\ Gone
  /\ outcome' = IF interrupted THEN "canceled" ELSE "ok"
  /\ UNCHANGED counters

\* "range results" ends once every worker has returned and the channel is
\* empty.  Failures are logged, not returned.
Return ==
  /\ writer = "take"
  /\ results = <<>>
  /\ \A w \in Workers : pc[w] = "exit"
  /\ Gone
  /\ outcome' = IF interrupted THEN "canceled" ELSE "ok"
  /\ UNCHANGED counters

-----------------------------------------------------------------------------
(* The feeding goroutine and the workers.                                  *)

\* "work <- s" meets a worker in "range work"; slots go out oldest first.
Feed(w) ==
  /\ feeder = "on"
  /\ pc[w] = "recv"
  /\ \E s \in pending :
       /\ \A t \in pending : s <= t
       /\ pending' = pending \ {s}
       /\ job' = [job EXCEPT ![w] = s]
  /\ pc' = [pc EXCEPT ![w] = "read"]
  /\ UNCHANGED <<db, writer, current, feeder, results, counters, interrupted, outcome>>

\* Variant: close(work) is not deferred, and skipped on "<-ctx.Done()".
CloseWorkNotDeferred ==
  /\ feeder = "on"
  /\ pending = {} \/ interrupted
  /\ feeder' = IF pending = {} THEN "closed" ELSE "off"
  /\ UNCHANGED <<db, writer, current, pending, pc, job, results, counters, interrupted, outcome>>

\* The loop is over, or "<-ctx.Done()": the deferred close(work).
CloseWork ==
  /\ feeder = "on"
  /\ pending = {} \/ interrupted
  /\ feeder' = "closed"
  /\ UNCHANGED <<db, writer, current, pending, pc, job, results, counters, interrupted, outcome>>

NoMoreWork(w) ==
  /\ pc[w] = "recv"
  /\ feeder = "closed"
  /\ pc' = [pc EXCEPT ![w] = "exit"]
  /\ UNCHANGED <<db, writer, current, feeder, pending, job, results, counters, interrupted, outcome>>

\* ReadBlock returns a block: the worker evaluates collect and comes to its
\* select.
ReadBlock(w) ==
  /\ pc[w] = "read"
  /\ pc' = [pc EXCEPT ![w] = "send"]
  /\ UNCHANGED <<db, writer, current, feeder, pending, job, results, counters, interrupted, outcome>>

\* Variant: the error is logged and not counted.
ReadFailsUncounted(w) ==
  /\ pc[w] = "read"
  /\ pc' = [pc EXCEPT ![w] = "recv"]
  /\ job' = [job EXCEPT ![w] = NoSlot]
  /\ UNCHANGED <<db, writer, current, feeder, pending, results, counters, interrupted, outcome>>

\* ReadBlock returns an error: count it and go on with the next slot.
ReadFails(w) ==
  /\ pc[w] = "read"
  /\ failures' = failures + 1
  /\ pc' = [pc EXCEPT ![w] = "recv"]
  /\ job' = [job EXCEPT ![w] = NoSlot]
  /\ UNCHANGED <<db, writer, current, feeder, pending, results, total, slotsDone, interrupted, outcome>>

\* Variant: the channel has no bound.
SendUnbounded(w) ==
  /\ pc[w] = "send"
  /\ results' = Append(results, job[w])
  /\ pc' = [pc EXCEPT ![w] = "recv"]
  /\ job' = [job EXCEPT ![w] = NoSlot]
  /\ UNCHANGED <<db, writer, current, feeder, pending, counters, interrupted, outcome>>

\* "results <- slotResult{...}", room in the buffer permitting.
Send(w) ==
  /\ pc[w] = "send"
  /\ Len(results) < Cardinality(Workers)
  /\ results' = Append(results, job[w])
  /\ pc' = [pc EXCEPT ![w] = "recv"]
  /\ job' = [job EXCEPT ![w] = NoSlot]
  /\ UNCHANGED <<db, writer, current, feeder, pending, counters, interrupted, outcome>>

\* "<-ctx.Done()": the block is dropped and the worker returns.
Drop(w) ==
  /\ pc[w] = "send"
  /\ interrupted
  /\ pc' = [pc EXCEPT ![w] = "exit"]
  /\ job' = [job EXCEPT ![w] = NoSlot]
  /\ UNCHANGED <<db, writer, current, feeder, pending, results, counters, interrupted, outcome>>

-----------------------------------------------------------------------------
(* The writing goroutine: EpochDB.WriteSlot.                               *)

\* The next result, and Begin.
Take ==
  /\ writer = "take"
  /\ results # <<>>
  /\ current' = Head(results)
  /\ results' = Tail(results)
  /\ writer' = "insert"
  /\ UNCHANGED <<db, feeder, pending, pc, job, counters, interrupted, outcome>>

\* Variant: the rows are inserted outside the transaction.
InsertAutocommit ==
  /\ writer = "insert"
  /\ \E t \in collect(current) \ txn :
       txn' = txn \cup {t} /\ rows' = rows \cup {t}
  /\ UNCHANGED <<done, writer, current, feeder, pending, pc, job, results,
                 counters, interrupted, outcome>>

\* One InsertSQL: ON CONFLICT(sig) DO NOTHING.
Insert ==
  /\ writer = "insert"
  /\ \E t \in collect(current) \ txn : txn' = txn \cup {t}
  /\ UNCHANGED <<done, rows, writer, current, feeder, pending, pc, job, results,
                 counters, interrupted, outcome>>

\* Variant: an insert that fails is passed over.
MarkDoneAnyway ==
  /\ writer = "insert"
  /\ writer' = "commit"
  /\ UNCHANGED <<db, current, feeder, pending, pc, job, results, counters, interrupted, outcome>>

\* UPDATE backfill_slot SET done = 1, once every row is in.
MarkDone ==
  /\ writer = "insert"
  /\ collect(current) \subseteq txn
  /\ writer' = "commit"
  /\ UNCHANGED <<db, current, feeder, pending, pc, job, results, counters, interrupted, outcome>>

\* Variant: the slot is not marked.
CommitUnmarked ==
  /\ writer = "commit"
  /\ rows' = rows \cup txn
  /\ txn' = {}
  /\ slotsDone' = slotsDone + 1
  /\ writer' = "take"
  /\ current' = NoSlot
  /\ UNCHANGED <<done, feeder, pending, pc, job, results, total, failures, interrupted, outcome>>

\* tx.Commit
Commit ==
  /\ writer = "commit"
  /\ done' = done \cup {current}
  /\ rows' = rows \cup txn
  /\ txn' = {}
  /\ slotsDone' = slotsDone + 1
  /\ writer' = "take"
  /\ current' = NoSlot
  /\ UNCHANGED <<feeder, pending, pc, job, results, total, failures, interrupted, outcome>>

\* Begin, a statement or Commit returns an error; the deferred Rollback runs.
WriteFails ==
  /\ writer \in {"insert", "commit"}
  /\ txn' = {}
  /\ failures' = failures + 1
  /\ writer' = "take"
  /\ current' = NoSlot
  /\ UNCHANGED <<done, rows, feeder, pending, pc, job, results, total, slotsDone,
                 interrupted, outcome>>

-----------------------------------------------------------------------------
(* The environment.                                                        *)

Interrupt ==
  /\ writer # "idle"
  /\ ~interrupted
  /\ interrupted' = TRUE
  /\ UNCHANGED <<db, writer, current, feeder, pending, pc, job, results, counters, outcome>>

\* A second Ctrl-C, a SIGKILL, a power failure.
Kill ==
  /\ writer # "idle"
  /\ Gone
  /\ total' = 0 /\ slotsDone' = 0 /\ failures' = 0
  /\ outcome' = "none"

-----------------------------------------------------------------------------

WriterStep == Take \/ Insert \/ MarkDone \/ Commit \/ WriteFails \/ Return

\* Steps of a worker that do not wait for the archive.
WorkerLocal(w) == NoMoreWork(w) \/ Send(w) \/ Drop(w)

Next ==
  \/ Start \/ NothingToDo \/ CloseWork \/ WriterStep
  \/ \E w \in Workers : Feed(w) \/ WorkerLocal(w) \/ ReadBlock(w) \/ ReadFails(w)
  \/ Interrupt \/ Kill

Spec == Init /\ [][Next]_vars

\* Every goroutine keeps running.  A ranged read may take for ever, but not
\* once the context is cancelled.
Fairness ==
  /\ WF_vars(WriterStep)
  /\ WF_vars(CloseWork \/ \E w \in Workers : Feed(w))
  /\ \A w \in Workers : WF_vars(WorkerLocal(w)) /\ WF_vars(interrupted /\ ReadFails(w))

FairSpec == Spec /\ Fairness

-----------------------------------------------------------------------------
(* Properties.                                                             *)

\* Every variable holds a value of its kind; the buffer never overflows.
TypeOK ==
  /\ done \subseteq Slots /\ rows \subseteq Txs /\ txn \subseteq Txs
  /\ writer \in {"idle", "take", "insert", "commit"}
  /\ current \in Slots \cup {NoSlot}
  /\ feeder \in {"off", "on", "closed"}
  /\ pending \subseteq Slots
  /\ pc \in [Workers -> {"idle", "recv", "read", "send", "exit"}]
  /\ job \in [Workers -> Slots \cup {NoSlot}]
  /\ results \in Seq(Slots) /\ Len(results) <= Cardinality(Workers)
  /\ total \in Nat /\ slotsDone \in Nat /\ failures \in Nat
  /\ interrupted \in BOOLEAN
  /\ outcome \in {"none", "ok", "canceled"}

\* "The slot is only marked done if its rows committed, so a crash mid-write is
\* retried rather than silently skipped" (WriteSlot): at every moment, whatever
\* a kill or a failed statement cut short, the table holds the landings of the
\* slots marked done and no others.
SlotsAreAtomic == rows = UNION {collect(s) : s \in done}

\* The slots with a worker, and those in the channel.
held == {job[w] : w \in Workers} \ {NoSlot}
sent == {results[i] : i \in 1..Len(results)}

\* A slot of the run is in one place: waiting, with one worker, in the channel
\* once, or being written; and none of them is done already.
OneOwner ==
  /\ \A v, w \in Workers : job[v] # NoSlot /\ job[v] = job[w] => v = w
  /\ \A i, j \in 1..Len(results) : results[i] = results[j] => i = j
  /\ pending \cap held = {} /\ sent \cap (pending \cup held) = {}
  /\ current \notin pending \cup held \cup sent
  /\ done \cap (pending \cup held \cup sent \cup {current}) = {}

\* Slots of the run that are neither written nor counted as failed.
underway ==
  Cardinality(pending) + Cardinality({w \in Workers : job[w] # NoSlot})
    + Len(results) + (IF current = NoSlot THEN 0 ELSE 1)

\* The counters of process account for every slot it was given, until an
\* interrupt lets workers drop blocks; and so a run that ends without one has
\* written or counted as a failure each slot.
Accounting ==
  /\ slotsDone + failures + underway <= total \/ outcome = "canceled"
  /\ ~interrupted /\ outcome # "canceled" => slotsDone + failures + underway = total

\* A run that returns nil and logs no failure has done every slot.
OkIsComplete == outcome = "ok" /\ failures = 0 => done = Slots

\* BuildLanding refuses a transaction without metadata: "Skip it and let the
\* caller count it rather than store a lie".  If the caller did, a first run
\* without failures would leave a row for every transaction.
SkippedAreCounted ==
  outcome = "ok" /\ total = Cardinality(Slots) /\ failures = 0 =>
    \A s \in done : TxOf[s] \subseteq rows

\* The goroutines and the restarts implement the ledger: see module Ledger.
L == INSTANCE Ledger

ImplementsLedger == L!Spec

\* After Ctrl-C the run returns, although reads may have been stalled.
InterruptReturns == interrupted ~> writer = "idle"

\* Interrupted and killed runs started again end up doing every slot, if from
\* some time on there are no more faults, reads are answered and the user
\* starts the command again.
Faults ==
  \/ Interrupt \/ Kill \/ WriteFails
  \/ \E w \in Workers : ReadFails(w)
ReRuns ==
  /\ <>[][~Faults]_vars
  /\ WF_vars(Start)
  /\ \A w \in Workers : WF_vars(ReadBlock(w))
ReRunsComplete == ReRuns => <>(done = Slots)

=============================================================================
