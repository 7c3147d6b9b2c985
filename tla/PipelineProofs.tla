--------------------------- MODULE PipelineProofs ---------------------------
(***************************************************************************)
(* Safety of Pipeline for any number of workers, slots and transactions,   *)
(* and its refinement of Ledger.                                           *)
(***************************************************************************)
EXTENDS Pipeline, FiniteSetTheorems, TLAPS

-----------------------------------------------------------------------------
(* The inductive invariant.                                                *)

\* A worker has a slot exactly while it reads it or waits to send it.
WorkerInv == \A w \in Workers : job[w] # NoSlot <=> pc[w] \in {"read", "send"}

\* The open transaction holds landings of the slot being written, and all of
\* them once the slot is marked; without a slot there is none.
WriterInv ==
  /\ writer \in {"idle", "take"} => current = NoSlot /\ txn = {}
  /\ writer \in {"insert", "commit"} => current \in Slots /\ txn \subseteq collect(current)
  /\ writer = "commit" => txn = collect(current)

\* Between runs nothing is under way.
IdleInv ==
  writer = "idle" => /\ pending = {} /\ results = <<>>
                     /\ \A w \in Workers : job[w] = NoSlot

\* An outcome is of a run that is over.  Without an interrupt work is closed
\* when the last slot has been sent, and no worker leaves before that.
RunInv ==
  /\ writer = "idle" => /\ ~interrupted /\ feeder = "off"
                        /\ \A w \in Workers : pc[w] = "idle"
  /\ writer # "idle" => outcome = "none"
  /\ ~interrupted => /\ feeder = "closed" => pending = {}
                     /\ \A w \in Workers : pc[w] = "exit" => feeder = "closed"

\* Until an interrupt or a failure every slot that is not done has an owner.
CoverInv ==
  writer # "idle" /\ ~interrupted /\ failures = 0 =>
    Slots \subseteq done \cup pending \cup held \cup sent \cup {current}

IInv == /\ TypeOK /\ WorkerInv /\ WriterInv /\ IdleInv /\ SlotsAreAtomic /\ OneOwner
        /\ RunInv /\ CoverInv /\ Accounting /\ OkIsComplete

-----------------------------------------------------------------------------
(* The proof: each part of the invariant is preserved by every action.     *)

\* There are finitely many workers, and finitely many slots are pending.
LEMMA Finite ==
  /\ Cardinality(Workers) \in Nat
  /\ \A S \in SUBSET Slots : IsFiniteSet(S) /\ Cardinality(S) \in Nat
  BY PipelineWorkers, PipelineSlots, FS_Subset, FS_CardinalityType

\* The type invariant.
LEMMA TypeOKStep ==
  ASSUME TypeOK, WorkerInv, WriterInv, IdleInv, Next
  PROVE  TypeOK'
<1> USE Finite, PipelineSlots, PipelineTxs DEF db, counters, Gone, NoSlot, TypeOK
<1>1. CASE Start
  BY <1>1 DEF Start
<1>2. CASE NothingToDo
  BY <1>2 DEF NothingToDo
<1>3. CASE Return
  BY <1>3 DEF Return
<1>4. ASSUME NEW w \in Workers, Feed(w) PROVE TypeOK'
  BY <1>4 DEF Feed
<1>5. CASE CloseWork
  BY <1>5 DEF CloseWork
<1>6. ASSUME NEW w \in Workers, NoMoreWork(w) PROVE TypeOK'
  BY <1>6 DEF NoMoreWork
<1>7. ASSUME NEW w \in Workers, ReadBlock(w) PROVE TypeOK'
  BY <1>7 DEF ReadBlock
<1>8. ASSUME NEW w \in Workers, ReadFails(w) PROVE TypeOK'
  BY <1>8 DEF ReadFails
<1>9. ASSUME NEW w \in Workers, Send(w) PROVE TypeOK'
  <2>1. job[w] \in Slots
    BY <1>9 DEF Send, WorkerInv
  <2>2. Append(results, job[w]) \in Seq(Slots) /\ Len(Append(results, job[w])) = Len(results) + 1
    BY <2>1
  <2> QED
    BY <2>2, <1>9 DEF Send
<1>10. ASSUME NEW w \in Workers, Drop(w) PROVE TypeOK'
  BY <1>10 DEF Drop
<1>11. CASE Take
  <2>1. Head(results) \in Slots /\ Tail(results) \in Seq(Slots) /\ Len(Tail(results)) = Len(results) - 1
    BY <1>11 DEF Take
  <2> QED
    BY <2>1, <1>11 DEF Take
<1>12. CASE Insert
  <2>1. collect(current) \subseteq Txs
    BY <1>12 DEF Insert, WriterInv, collect
  <2> QED
    BY <2>1, <1>12 DEF Insert
<1>13. CASE MarkDone
  BY <1>13 DEF MarkDone
<1>14. CASE Commit
  BY <1>14 DEF Commit, WriterInv
<1>15. CASE WriteFails
  BY <1>15 DEF WriteFails
<1>16. CASE Interrupt
  BY <1>16 DEF Interrupt
<1>17. CASE Kill
  <2>1. <<>> \in Seq(Slots) /\ Len(<<>>) = 0
    OBVIOUS
  <2>2. results' \in Seq(Slots) /\ Len(results') <= Cardinality(Workers)
    BY <2>1, <1>17 DEF Kill
  <2>3. pc' \in [Workers -> {"idle", "recv", "read", "send", "exit"}]
        /\ job' \in [Workers -> Slots \cup {NoSlot}]
    BY <1>17 DEF Kill
  <2> QED
    BY <2>2, <2>3, <1>17 DEF Kill
<1> QED
  BY <1>1, <1>2, <1>3, <1>4, <1>5, <1>6, <1>7, <1>8, <1>9, <1>10, <1>11, <1>12, <1>13,
       <1>14, <1>15, <1>16, <1>17
     DEF Next, WriterStep, WorkerLocal

\* Workers and their slots.
LEMMA WorkerInvStep ==
  ASSUME TypeOK, WorkerInv, IdleInv, Next
  PROVE  WorkerInv'
<1> USE PipelineSlots DEF db, counters, Gone, NoSlot, TypeOK, WorkerInv
<1>1. CASE Start
  BY <1>1 DEF Start, IdleInv
<1>2. CASE NothingToDo
  BY <1>2 DEF NothingToDo
<1>3. CASE Return
  BY <1>3 DEF Return
<1>4. ASSUME NEW w \in Workers, Feed(w) PROVE WorkerInv'
  BY <1>4 DEF Feed
<1>5. CASE CloseWork
  BY <1>5 DEF CloseWork
<1>6. ASSUME NEW w \in Workers, NoMoreWork(w) PROVE WorkerInv'
  BY <1>6 DEF NoMoreWork
<1>7. ASSUME NEW w \in Workers, ReadBlock(w) PROVE WorkerInv'
  BY <1>7 DEF ReadBlock
<1>8. ASSUME NEW w \in Workers, ReadFails(w) PROVE WorkerInv'
  BY <1>8 DEF ReadFails
<1>9. ASSUME NEW w \in Workers, Send(w) PROVE WorkerInv'
  BY <1>9 DEF Send
<1>10. ASSUME NEW w \in Workers, Drop(w) PROVE WorkerInv'
  BY <1>10 DEF Drop
<1>11. CASE Take
  BY <1>11 DEF Take
<1>12. CASE Insert
  BY <1>12 DEF Insert
<1>13. CASE MarkDone
  BY <1>13 DEF MarkDone
<1>14. CASE Commit
  BY <1>14 DEF Commit
<1>15. CASE WriteFails
  BY <1>15 DEF WriteFails
<1>16. CASE Interrupt
  BY <1>16 DEF Interrupt
<1>17. CASE Kill
  BY <1>17 DEF Kill
<1> QED
  BY <1>1, <1>2, <1>3, <1>4, <1>5, <1>6, <1>7, <1>8, <1>9, <1>10, <1>11, <1>12, <1>13,
       <1>14, <1>15, <1>16, <1>17
     DEF Next, WriterStep, WorkerLocal

\* The transaction and its slot.
LEMMA WriterInvStep ==
  ASSUME TypeOK, WriterInv, Next
  PROVE  WriterInv'
<1> USE PipelineSlots DEF db, counters, Gone, NoSlot, TypeOK, WriterInv, collect
<1>1. CASE Start
  BY <1>1 DEF Start
<1>2. CASE NothingToDo
  BY <1>2 DEF NothingToDo
<1>3. CASE Return
  BY <1>3 DEF Return
<1>4. ASSUME NEW w \in Workers, Feed(w) PROVE WriterInv'
  BY <1>4 DEF Feed
<1>5. CASE CloseWork
  BY <1>5 DEF CloseWork
<1>6. ASSUME NEW w \in Workers, NoMoreWork(w) PROVE WriterInv'
  BY <1>6 DEF NoMoreWork
<1>7. ASSUME NEW w \in Workers, ReadBlock(w) PROVE WriterInv'
  BY <1>7 DEF ReadBlock
<1>8. ASSUME NEW w \in Workers, ReadFails(w) PROVE WriterInv'
  BY <1>8 DEF ReadFails
<1>9. ASSUME NEW w \in Workers, Send(w) PROVE WriterInv'
  BY <1>9 DEF Send
<1>10. ASSUME NEW w \in Workers, Drop(w) PROVE WriterInv'
  BY <1>10 DEF Drop
<1>11. CASE Take
  BY <1>11 DEF Take
<1>12. CASE Insert
  BY <1>12 DEF Insert
<1>13. CASE MarkDone
  BY <1>13 DEF MarkDone
<1>14. CASE Commit
  BY <1>14 DEF Commit
<1>15. CASE WriteFails
  BY <1>15 DEF WriteFails
<1>16. CASE Interrupt
  BY <1>16 DEF Interrupt
<1>17. CASE Kill
  BY <1>17 DEF Kill
<1> QED
  BY <1>1, <1>2, <1>3, <1>4, <1>5, <1>6, <1>7, <1>8, <1>9, <1>10, <1>11, <1>12, <1>13,
       <1>14, <1>15, <1>16, <1>17
     DEF Next, WriterStep, WorkerLocal

\* Nothing under way between runs.
LEMMA IdleInvStep ==
  ASSUME TypeOK, WorkerInv, IdleInv, Next
  PROVE  IdleInv'
<1> USE DEF db, counters, Gone, NoSlot, TypeOK, IdleInv
<1>1. CASE Start
  BY <1>1 DEF Start
<1>2. CASE NothingToDo
  BY <1>2 DEF NothingToDo
<1>3. CASE Return
  BY <1>3 DEF Return
<1>4. ASSUME NEW w \in Workers, Feed(w) PROVE IdleInv'
  BY <1>4 DEF Feed
<1>5. CASE CloseWork
  BY <1>5 DEF CloseWork
<1>6. ASSUME NEW w \in Workers, NoMoreWork(w) PROVE IdleInv'
  BY <1>6 DEF NoMoreWork
<1>7. ASSUME NEW w \in Workers, ReadBlock(w) PROVE IdleInv'
  BY <1>7 DEF ReadBlock
<1>8. ASSUME NEW w \in Workers, ReadFails(w) PROVE IdleInv'
  BY <1>8 DEF ReadFails
<1>9. ASSUME NEW w \in Workers, Send(w) PROVE IdleInv'
  BY <1>9 DEF Send, WorkerInv
<1>10. ASSUME NEW w \in Workers, Drop(w) PROVE IdleInv'
  BY <1>10 DEF Drop
<1>11. CASE Take
  BY <1>11 DEF Take
<1>12. CASE Insert
  BY <1>12 DEF Insert
<1>13. CASE MarkDone
  BY <1>13 DEF MarkDone
<1>14. CASE Commit
  BY <1>14 DEF Commit
<1>15. CASE WriteFails
  BY <1>15 DEF WriteFails
<1>16. CASE Interrupt
  BY <1>16 DEF Interrupt
<1>17. CASE Kill
  BY <1>17 DEF Kill
<1> QED
  BY <1>1, <1>2, <1>3, <1>4, <1>5, <1>6, <1>7, <1>8, <1>9, <1>10, <1>11, <1>12, <1>13,
       <1>14, <1>15, <1>16, <1>17
     DEF Next, WriterStep, WorkerLocal

\* Rows and marks are committed together.
LEMMA SlotsAreAtomicStep ==
  ASSUME TypeOK, WriterInv, SlotsAreAtomic, Next
  PROVE  SlotsAreAtomic'
<1> USE DEF db, counters, Gone, NoSlot, TypeOK, WriterInv, SlotsAreAtomic, collect
<1>1. CASE Start
  BY <1>1 DEF Start
<1>2. CASE NothingToDo
  BY <1>2 DEF NothingToDo
<1>3. CASE Return
  BY <1>3 DEF Return
<1>4. ASSUME NEW w \in Workers, Feed(w) PROVE SlotsAreAtomic'
  BY <1>4 DEF Feed
<1>5. CASE CloseWork
  BY <1>5 DEF CloseWork
<1>6. ASSUME NEW w \in Workers, NoMoreWork(w) PROVE SlotsAreAtomic'
  BY <1>6 DEF NoMoreWork
<1>7. ASSUME NEW w \in Workers, ReadBlock(w) PROVE SlotsAreAtomic'
  BY <1>7 DEF ReadBlock
<1>8. ASSUME NEW w \in Workers, ReadFails(w) PROVE SlotsAreAtomic'
  BY <1>8 DEF ReadFails
<1>9. ASSUME NEW w \in Workers, Send(w) PROVE SlotsAreAtomic'
  BY <1>9 DEF Send
<1>10. ASSUME NEW w \in Workers, Drop(w) PROVE SlotsAreAtomic'
  BY <1>10 DEF Drop
<1>11. CASE Take
  BY <1>11 DEF Take
<1>12. CASE Insert
  BY <1>12 DEF Insert
<1>13. CASE MarkDone
  BY <1>13 DEF MarkDone
<1>14. CASE Commit
  BY <1>14 DEF Commit
<1>15. CASE WriteFails
  BY <1>15 DEF WriteFails
<1>16. CASE Interrupt
  BY <1>16 DEF Interrupt
<1>17. CASE Kill
  BY <1>17 DEF Kill
<1> QED
  BY <1>1, <1>2, <1>3, <1>4, <1>5, <1>6, <1>7, <1>8, <1>9, <1>10, <1>11, <1>12, <1>13,
       <1>14, <1>15, <1>16, <1>17
     DEF Next, WriterStep, WorkerLocal

\* A step that moves no slot.
LEMMA OwnerSame ==
  ASSUME OneOwner, UNCHANGED <<done, pending, job, results, current>>
  PROVE  OneOwner'
  BY DEF OneOwner, held, sent

\* A slot moves from one owner to the next.
LEMMA OneOwnerStep ==
  ASSUME TypeOK, WorkerInv, WriterInv, IdleInv, OneOwner, Next
  PROVE  OneOwner'
<1> USE PipelineSlots DEF db, counters, Gone, NoSlot, TypeOK, WorkerInv, WriterInv,
     IdleInv, OneOwner, held, sent
<1>1. CASE Start
  BY <1>1 DEF Start
<1>2. CASE NothingToDo
  <2>1. UNCHANGED <<done, pending, job, results, current>>
    BY <1>2 DEF NothingToDo
  <2> QED
    BY <2>1, OwnerSame
<1>3. CASE Return
  BY <1>3 DEF Return
<1>4. ASSUME NEW w \in Workers, Feed(w) PROVE OneOwner'
  <2>1. PICK s \in pending : pending' = pending \ {s} /\ job' = [job EXCEPT ![w] = s]
    BY <1>4 DEF Feed
  <2>2. UNCHANGED <<done, results, current>> /\ sent' = sent /\ s # NoSlot
    BY <1>4 DEF Feed
  <2>3. job[w] = NoSlot
    BY <1>4 DEF Feed
  <2>4. held' = held \cup {s}
    BY <2>1, <2>2, <2>3
  <2>5. \A u, v \in Workers : job'[u] # NoSlot /\ job'[u] = job'[v] => u = v
    BY <2>1, <2>3
  <2> HIDE DEF held, sent, TypeOK, WorkerInv, WriterInv, IdleInv
  <2> QED
    BY <2>1, <2>2, <2>4, <2>5
<1>5. CASE CloseWork
  <2>1. UNCHANGED <<done, pending, job, results, current>>
    BY <1>5 DEF CloseWork
  <2> QED
    BY <2>1, OwnerSame
<1>6. ASSUME NEW w \in Workers, NoMoreWork(w) PROVE OneOwner'
  <2>1. UNCHANGED <<done, pending, job, results, current>>
    BY <1>6 DEF NoMoreWork
  <2> QED
    BY <2>1, OwnerSame
<1>7. ASSUME NEW w \in Workers, ReadBlock(w) PROVE OneOwner'
  <2>1. UNCHANGED <<done, pending, job, results, current>>
    BY <1>7 DEF ReadBlock
  <2> QED
    BY <2>1, OwnerSame
<1>8. ASSUME NEW w \in Workers, ReadFails(w) PROVE OneOwner'
  BY <1>8 DEF ReadFails
<1>9. ASSUME NEW w \in Workers, Send(w) PROVE OneOwner'
  <2> DEFINE s == job[w]
  <2>1. s \in held /\ s # NoSlot
    BY <1>9 DEF Send, WorkerInv
  <2>2. UNCHANGED <<done, pending, current>>
    BY <1>9 DEF Send
  <2>3. \A v \in Workers : job'[v] = IF v = w THEN NoSlot ELSE job[v]
    BY <1>9 DEF Send
  <2>4. held' = held \ {s}
    BY <2>1, <2>3
  <2>5. /\ Len(results') = Len(results) + 1
        /\ \A i \in 1..Len(results') :
             results'[i] = IF i = Len(results) + 1 THEN s ELSE results[i]
    BY <1>9 DEF Send
  <2>6. sent' = sent \cup {s}
    BY <2>5
  <2>7. s \notin sent
    BY <2>1
  <2>8. \A i, j \in 1..Len(results') : results'[i] = results'[j] => i = j
    BY <2>5, <2>7
  <2>9. \A u, v \in Workers : job'[u] # NoSlot /\ job'[u] = job'[v] => u = v
    BY <2>3
  <2> HIDE DEF held, sent, TypeOK, WorkerInv, WriterInv, IdleInv
  <2> QED
    BY <2>1, <2>2, <2>4, <2>6, <2>7, <2>8, <2>9
<1>10. ASSUME NEW w \in Workers, Drop(w) PROVE OneOwner'
  <2>1. UNCHANGED <<done, pending, results, current>>
    BY <1>10 DEF Drop
  <2>2. \A v \in Workers : job'[v] = IF v = w THEN NoSlot ELSE job[v]
    BY <1>10 DEF Drop
  <2>3. held' \subseteq held /\ sent' = sent
    BY <2>1, <2>2
  <2>4. \A u, v \in Workers : job'[u] # NoSlot /\ job'[u] = job'[v] => u = v
    BY <2>2
  <2> HIDE DEF held, sent, TypeOK, WorkerInv, WriterInv, IdleInv
  <2> QED
    BY <2>1, <2>3, <2>4
<1>11. CASE Take
  <2> DEFINE s == Head(results)
  <2>1. Len(results) \in Nat \ {0} /\ s = results[1] /\ s \in Slots
    BY <1>11 DEF Take
  <2>2. UNCHANGED <<done, pending, job>> /\ current' = s
    BY <1>11 DEF Take
  <2>3. /\ Len(results') = Len(results) - 1
        /\ \A i \in 1..Len(results') : results'[i] = results[i + 1]
    BY <1>11, <2>1 DEF Take
  <2>4. s \in sent
    BY <2>1
  <2>5. sent' = sent \ {s}
    <3>1. sent' \subseteq sent \ {s}
      BY <2>1, <2>3
    <3>2. ASSUME NEW x \in sent \ {s} PROVE x \in sent'
      <4>1. PICK i \in 1..Len(results) : x = results[i]
        OBVIOUS
      <4>2. i # 1 /\ i - 1 \in 1..Len(results') /\ results'[i - 1] = x
        BY <4>1, <2>1, <2>3
      <4> QED
        BY <4>2
    <3> QED
      BY <3>1, <3>2
  <2>6. held' = held
    BY <2>2
  <2>7. \A i, j \in 1..Len(results') : results'[i] = results'[j] => i = j
    <3>1. \A i, j \in 1..Len(results) : results[i] = results[j] => i = j
      OBVIOUS
    <3> HIDE DEF held, sent, TypeOK, WorkerInv, WriterInv, IdleInv, OneOwner
    <3>2. \A i \in 1..Len(results') : i \in Int /\ i + 1 \in 1..Len(results)
      BY <2>1, <2>3
    <3> QED
      BY <2>3, <3>1, <3>2
  <2>8. current = NoSlot /\ s # NoSlot
    BY <1>11, <2>1 DEF Take
  <2> HIDE DEF held, sent, TypeOK, WorkerInv, WriterInv, IdleInv
  <2> QED
    BY <2>2, <2>4, <2>5, <2>6, <2>7, <2>8
<1>12. CASE Insert
  <2>1. UNCHANGED <<done, pending, job, results, current>>
    BY <1>12 DEF Insert
  <2> QED
    BY <2>1, OwnerSame
<1>13. CASE MarkDone
  <2>1. UNCHANGED <<done, pending, job, results, current>>
    BY <1>13 DEF MarkDone
  <2> QED
    BY <2>1, OwnerSame
<1>14. CASE Commit
  BY <1>14 DEF Commit
<1>15. CASE WriteFails
  <2>1. UNCHANGED <<done, pending, job, results>> /\ current' = NoSlot
    BY <1>15 DEF WriteFails
  <2>2. held' = held /\ sent' = sent
    BY <2>1
  <2>3. NoSlot \notin pending \cup held \cup sent /\ NoSlot \notin done
    OBVIOUS
  <2> HIDE DEF held, sent, TypeOK, WorkerInv, WriterInv, IdleInv
  <2> QED
    BY <2>1, <2>2, <2>3
<1>16. CASE Interrupt
  <2>1. UNCHANGED <<done, pending, job, results, current>>
    BY <1>16 DEF Interrupt
  <2> QED
    BY <2>1, OwnerSame
<1>17. CASE Kill
  BY <1>17 DEF Kill
<1> QED
  BY <1>1, <1>2, <1>3, <1>4, <1>5, <1>6, <1>7, <1>8, <1>9, <1>10, <1>11, <1>12, <1>13,
       <1>14, <1>15, <1>16, <1>17
     DEF Next, WriterStep, WorkerLocal

\* Outcomes, interrupts and the closing of work.
LEMMA RunInvStep ==
  ASSUME TypeOK, WorkerInv, IdleInv, RunInv, Next
  PROVE  RunInv'
<1> USE DEF db, counters, Gone, NoSlot, TypeOK, RunInv
<1>1. CASE Start
  BY <1>1 DEF Start
<1>2. CASE NothingToDo
  BY <1>2 DEF NothingToDo
<1>3. CASE Return
  BY <1>3 DEF Return
<1>4. ASSUME NEW w \in Workers, Feed(w) PROVE RunInv'
  BY <1>4 DEF Feed
<1>5. CASE CloseWork
  BY <1>5 DEF CloseWork
<1>6. ASSUME NEW w \in Workers, NoMoreWork(w) PROVE RunInv'
  BY <1>6 DEF NoMoreWork
<1>7. ASSUME NEW w \in Workers, ReadBlock(w) PROVE RunInv'
  BY <1>7 DEF ReadBlock
<1>8. ASSUME NEW w \in Workers, ReadFails(w) PROVE RunInv'
  BY <1>8 DEF ReadFails
<1>9. ASSUME NEW w \in Workers, Send(w) PROVE RunInv'
  BY <1>9 DEF Send
<1>10. ASSUME NEW w \in Workers, Drop(w) PROVE RunInv'
  BY <1>10 DEF Drop
<1>11. CASE Take
  BY <1>11 DEF Take
<1>12. CASE Insert
  BY <1>12 DEF Insert
<1>13. CASE MarkDone
  BY <1>13 DEF MarkDone
<1>14. CASE Commit
  BY <1>14 DEF Commit
<1>15. CASE WriteFails
  BY <1>15 DEF WriteFails
<1>16. CASE Interrupt
  BY <1>16 DEF Interrupt
<1>17. CASE Kill
  BY <1>17 DEF Kill
<1> QED
  BY <1>1, <1>2, <1>3, <1>4, <1>5, <1>6, <1>7, <1>8, <1>9, <1>10, <1>11, <1>12, <1>13,
       <1>14, <1>15, <1>16, <1>17
     DEF Next, WriterStep, WorkerLocal

-----------------------------------------------------------------------------
(* The counters.                                                           *)

\* The workers with a slot.
busy == {w \in Workers : job[w] # NoSlot}

LEMMA Underway ==
  ASSUME TypeOK
  PROVE  /\ IsFiniteSet(busy) /\ Cardinality(busy) \in Nat
         /\ IsFiniteSet(pending) /\ Cardinality(pending) \in Nat
         /\ Len(results) \in Nat /\ underway \in Nat
<1>1. busy \subseteq Workers /\ pending \subseteq Slots /\ Len(results) \in Nat
  BY DEF busy, TypeOK
<1>2. IsFiniteSet(busy) /\ Cardinality(busy) \in Nat
  BY <1>1, PipelineWorkers, FS_Subset, FS_CardinalityType
<1> QED
  BY <1>1, <1>2, Finite DEF underway, busy

\* The sum, before and after a step.
LEMMA UnderwaySum ==
  /\ underway = Cardinality(pending) + Cardinality(busy) + Len(results)
                  + (IF current = NoSlot THEN 0 ELSE 1)
  /\ underway' = Cardinality(pending') + Cardinality(busy') + Len(results')
                   + (IF current' = NoSlot THEN 0 ELSE 1)
  /\ UNCHANGED job => busy' = busy
  BY DEF underway, busy

LEMMA UnderwaySame ==
  ASSUME UNCHANGED <<pending, job, results, current>>
  PROVE  underway' = underway
  BY DEF underway

\* A worker is given a slot, or lets it go.
LEMMA BusyMore ==
  ASSUME TypeOK, NEW w \in Workers, job[w] = NoSlot,
         NEW s \in Slots, job' = [job EXCEPT ![w] = s]
  PROVE  Cardinality(busy') = Cardinality(busy) + 1
<1>1. busy' = busy \cup {w} /\ w \notin busy
  BY PipelineSlots DEF busy, TypeOK, NoSlot
<1> QED
  BY <1>1, Underway, FS_AddElement

LEMMA BusyLess ==
  ASSUME TypeOK, NEW w \in Workers, job[w] # NoSlot,
         job' = [job EXCEPT ![w] = NoSlot]
  PROVE  Cardinality(busy') = Cardinality(busy) - 1
<1>1. busy' = busy \ {w} /\ w \in busy
  BY DEF busy, TypeOK, NoSlot
<1> QED
  BY <1>1, Underway, FS_RemoveElement

\* Nothing is under way between runs, nor in a process that is gone.
LEMMA UnderwayIdle ==
  ASSUME pending = {}, results = <<>>, current = NoSlot, \A w \in Workers : job[w] = NoSlot
  PROVE  underway = 0
<1>1. busy = {} /\ Len(results) = 0
  BY DEF busy
<1> QED
  BY <1>1, FS_EmptySet DEF underway, busy

LEMMA UnderwayGone ==
  ASSUME Gone
  PROVE  underway' = 0
<1>1. pending' = {} /\ Len(results') = 0 /\ current' = NoSlot /\ busy' = {}
  BY DEF Gone, busy
<1> QED
  BY <1>1, FS_EmptySet DEF underway, busy

\* A step that moves a slot from one count to another.
LEMMA AccountMoved ==
  ASSUME Accounting, UNCHANGED <<total, interrupted, outcome>>,
         slotsDone' + failures' + underway' = slotsDone + failures + underway
  PROVE  Accounting'
  BY DEF Accounting

\* Every slot given to process stays in one of the counts, unless an interrupt
\* lets a worker drop it.
LEMMA AccountingStep ==
  ASSUME TypeOK, WorkerInv, WriterInv, IdleInv, RunInv, Accounting, Next
  PROVE  Accounting'
<1> USE DEF db, counters
<1>1. CASE Start
  <2>1. /\ pending' = Slots \ done /\ total' = Cardinality(Slots \ done)
        /\ slotsDone' = 0 /\ failures' = 0
        /\ current' = NoSlot /\ Len(results') = 0 /\ busy' = {}
    BY <1>1 DEF Start, IdleInv, WriterInv, busy
  <2>2. Cardinality(busy') = 0 /\ Cardinality(Slots \ done) \in Nat
    BY <2>1, Finite, FS_EmptySet
  <2>3. underway' = Cardinality(Slots \ done)
    BY <2>1, <2>2 DEF underway, busy
  <2> QED
    BY <2>1, <2>2, <2>3 DEF Accounting
<1>2. CASE NothingToDo
  <2>1. underway = 0
    BY <1>2, UnderwayIdle DEF NothingToDo, IdleInv, WriterInv
  <2>2. underway' = underway
    BY <1>2, UnderwaySame DEF NothingToDo
  <2> QED
    BY <1>2, <2>1, <2>2 DEF NothingToDo, Accounting
<1>3. CASE Return
  <2>1. underway' = 0 /\ UNCHANGED <<total, slotsDone, failures>>
    BY <1>3, UnderwayGone DEF Return
  <2>2. CASE interrupted
    BY <1>3, <2>2 DEF Return, Accounting
  <2>3. CASE ~interrupted
    <3>1. pending = {} /\ \A w \in Workers : job[w] = NoSlot
      BY <1>3, <2>3, PipelineWorkers DEF Return, RunInv, WorkerInv
    <3>2. underway = 0
      BY <1>3, <3>1, UnderwayIdle DEF Return, WriterInv
    <3>3. slotsDone + failures + 0 = total
      BY <1>3, <2>3, <3>2 DEF Return, RunInv, Accounting
    <3>4. total \in Nat
      BY DEF TypeOK
    <3> QED
      BY <2>1, <3>3, <3>4 DEF Accounting
  <2> QED
    BY <2>2, <2>3
<1>4. ASSUME NEW w \in Workers, Feed(w) PROVE Accounting'
  <2>1. PICK s \in pending : pending' = pending \ {s} /\ job' = [job EXCEPT ![w] = s]
    BY <1>4 DEF Feed
  <2>2. s \in Slots /\ job[w] = NoSlot
    BY <1>4, <2>1 DEF Feed, WorkerInv, TypeOK
  <2>3. Cardinality(pending') = Cardinality(pending) - 1
    BY <2>1, Underway, FS_RemoveElement
  <2>4. Cardinality(busy') = Cardinality(busy) + 1
    BY <2>1, <2>2, BusyMore
  <2>5. UNCHANGED <<results, current, total, slotsDone, failures, interrupted, outcome>>
    BY <1>4 DEF Feed
  <2>6. underway' = underway
    BY <2>3, <2>4, <2>5, Underway, UnderwaySum
  <2> QED
    BY <2>5, <2>6, AccountMoved
<1>5. CASE CloseWork
  <2>1. underway' = underway
    BY <1>5, UnderwaySame DEF CloseWork
  <2> QED
    BY <1>5, <2>1, AccountMoved DEF CloseWork
<1>6. ASSUME NEW w \in Workers, NoMoreWork(w) PROVE Accounting'
  <2>1. underway' = underway
    BY <1>6, UnderwaySame DEF NoMoreWork
  <2> QED
    BY <1>6, <2>1, AccountMoved DEF NoMoreWork
<1>7. ASSUME NEW w \in Workers, ReadBlock(w) PROVE Accounting'
  <2>1. underway' = underway
    BY <1>7, UnderwaySame DEF ReadBlock
  <2> QED
    BY <1>7, <2>1, AccountMoved DEF ReadBlock
<1>8. ASSUME NEW w \in Workers, ReadFails(w) PROVE Accounting'
  <2>1. Cardinality(busy') = Cardinality(busy) - 1
    BY <1>8, BusyLess DEF ReadFails, WorkerInv
  <2>2. /\ UNCHANGED <<pending, results, current, total, slotsDone, interrupted, outcome>>
        /\ failures' = failures + 1
    BY <1>8 DEF ReadFails
  <2>3. underway' = underway - 1
    BY <2>1, <2>2, Underway, UnderwaySum
  <2>4. slotsDone' + failures' + underway' = slotsDone + failures + underway
    BY <2>2, <2>3, Underway DEF TypeOK
  <2> QED
    BY <2>2, <2>4, AccountMoved
<1>9. ASSUME NEW w \in Workers, Send(w) PROVE Accounting'
  <2>1. Cardinality(busy') = Cardinality(busy) - 1
    BY <1>9, BusyLess DEF Send, WorkerInv
  <2>2. /\ UNCHANGED <<pending, current, total, slotsDone, failures, interrupted, outcome>>
        /\ Len(results') = Len(results) + 1
    BY <1>9 DEF Send, TypeOK, WorkerInv
  <2>3. underway' = underway
    BY <2>1, <2>2, Underway, UnderwaySum
  <2> QED
    BY <2>2, <2>3, AccountMoved
<1>10. ASSUME NEW w \in Workers, Drop(w) PROVE Accounting'
  <2>1. Cardinality(busy') = Cardinality(busy) - 1
    BY <1>10, BusyLess DEF Drop, WorkerInv
  <2>2. UNCHANGED <<pending, results, current, total, slotsDone, failures, interrupted, outcome>>
    BY <1>10 DEF Drop
  <2>3. underway' = underway - 1 /\ underway' \in Int
    BY <2>1, <2>2, Underway, UnderwaySum
  <2>4. interrupted
    BY <1>10 DEF Drop
  <2> QED
    BY <2>2, <2>3, <2>4, Underway DEF Accounting, TypeOK
<1>11. CASE Take
  <2>1. /\ UNCHANGED <<pending, job, total, slotsDone, failures, interrupted, outcome>>
        /\ Len(results') = Len(results) - 1
        /\ current = NoSlot /\ current' # NoSlot
    BY <1>11, PipelineSlots DEF Take, TypeOK, WriterInv, NoSlot
  <2>2. underway' = underway
    BY <2>1, Underway, UnderwaySum
  <2> QED
    BY <2>1, <2>2, AccountMoved
<1>12. CASE Insert
  <2>1. underway' = underway
    BY <1>12, UnderwaySame DEF Insert
  <2> QED
    BY <1>12, <2>1, AccountMoved DEF Insert
<1>13. CASE MarkDone
  <2>1. underway' = underway
    BY <1>13, UnderwaySame DEF MarkDone
  <2> QED
    BY <1>13, <2>1, AccountMoved DEF MarkDone
<1>14. CASE Commit
  <2>1. /\ UNCHANGED <<pending, job, results, total, failures, interrupted, outcome>>
        /\ slotsDone' = slotsDone + 1 /\ current # NoSlot /\ current' = NoSlot
    BY <1>14, PipelineSlots DEF Commit, WriterInv, NoSlot
  <2>2. underway' = underway - 1
    BY <2>1, Underway, UnderwaySum
  <2>3. slotsDone' + failures' + underway' = slotsDone + failures + underway
    BY <2>1, <2>2, Underway DEF TypeOK
  <2> QED
    BY <2>1, <2>3, AccountMoved
<1>15. CASE WriteFails
  <2>1. /\ UNCHANGED <<pending, job, results, total, slotsDone, interrupted, outcome>>
        /\ failures' = failures + 1 /\ current # NoSlot /\ current' = NoSlot
    BY <1>15, PipelineSlots DEF WriteFails, WriterInv, NoSlot
  <2>2. underway' = underway - 1
    BY <2>1, Underway, UnderwaySum
  <2>3. slotsDone' + failures' + underway' = slotsDone + failures + underway
    BY <2>1, <2>2, Underway DEF TypeOK
  <2> QED
    BY <2>1, <2>3, AccountMoved
<1>16. CASE Interrupt
  <2>1. underway' = underway
    BY <1>16, UnderwaySame DEF Interrupt
  <2> QED
    BY <1>16, <2>1 DEF Interrupt, Accounting
<1>17. CASE Kill
  <2>1. underway' = 0 /\ total' = 0 /\ slotsDone' = 0 /\ failures' = 0
    BY <1>17, UnderwayGone DEF Kill
  <2> QED
    BY <2>1 DEF Accounting
<1> QED
  BY <1>1, <1>2, <1>3, <1>4, <1>5, <1>6, <1>7, <1>8, <1>9, <1>10, <1>11, <1>12, <1>13,
       <1>14, <1>15, <1>16, <1>17
     DEF Next, WriterStep, WorkerLocal

\* A slot that is not done keeps an owner, until an interrupt or a failure.
LEMMA CoverSame ==
  ASSUME CoverInv, UNCHANGED <<done, pending, job, results, current>>,
         writer' # "idle" /\ ~interrupted' /\ failures' = 0 =>
           writer # "idle" /\ ~interrupted /\ failures = 0
  PROVE  CoverInv'
  BY DEF CoverInv, held, sent

LEMMA CoverInvStep ==
  ASSUME TypeOK, WorkerInv, WriterInv, IdleInv, CoverInv, Next
  PROVE  CoverInv'
<1> USE DEF db, counters
<1>1. CASE Start
  BY <1>1 DEF Start, CoverInv
<1>2. CASE NothingToDo
  BY <1>2, CoverSame DEF NothingToDo
<1>3. CASE Return
  BY <1>3 DEF Return, Gone, CoverInv
<1>4. ASSUME NEW w \in Workers, Feed(w) PROVE CoverInv'
  <2>1. PICK s \in pending : pending' = pending \ {s} /\ job' = [job EXCEPT ![w] = s]
    BY <1>4 DEF Feed
  <2>2. s \in Slots /\ job[w] = NoSlot /\ s # NoSlot
    BY <1>4, <2>1, PipelineSlots DEF Feed, WorkerInv, TypeOK, NoSlot
  <2>3. \A v \in Workers : job'[v] = IF v = w THEN s ELSE job[v]
    BY <2>1 DEF TypeOK
  <2>4. held \cup {s} \subseteq held'
    BY <2>2, <2>3 DEF held
  <2>5. UNCHANGED <<done, results, current, writer, interrupted, failures>>
    BY <1>4 DEF Feed
  <2>6. sent' = sent
    BY <2>5 DEF sent
  <2> QED
    BY <2>1, <2>4, <2>5, <2>6 DEF CoverInv
<1>5. CASE CloseWork
  BY <1>5, CoverSame DEF CloseWork
<1>6. ASSUME NEW w \in Workers, NoMoreWork(w) PROVE CoverInv'
  BY <1>6, CoverSame DEF NoMoreWork
<1>7. ASSUME NEW w \in Workers, ReadBlock(w) PROVE CoverInv'
  BY <1>7, CoverSame DEF ReadBlock
<1>8. ASSUME NEW w \in Workers, ReadFails(w) PROVE CoverInv'
  BY <1>8 DEF ReadFails, CoverInv, TypeOK
<1>9. ASSUME NEW w \in Workers, Send(w) PROVE CoverInv'
  <2>1. job[w] \in Slots /\ \A v \in Workers : job'[v] = IF v = w THEN NoSlot ELSE job[v]
    BY <1>9 DEF Send, TypeOK, WorkerInv
  <2>2. UNCHANGED <<done, pending, current, writer, interrupted, failures>>
    BY <1>9 DEF Send
  <2>3. /\ Len(results) \in Nat /\ Len(results') = Len(results) + 1
        /\ \A i \in 1..Len(results') :
             results'[i] = IF i = Len(results) + 1 THEN job[w] ELSE results[i]
    BY <1>9, <2>1 DEF Send, TypeOK
  <2>4. sent \cup {job[w]} \subseteq sent'
    BY <2>3 DEF sent
  <2>5. held \subseteq held' \cup {job[w]}
    BY <2>1 DEF held
  <2> QED
    BY <2>2, <2>4, <2>5 DEF CoverInv
<1>10. ASSUME NEW w \in Workers, Drop(w) PROVE CoverInv'
  BY <1>10 DEF Drop, CoverInv
<1>11. CASE Take
  <2>1. UNCHANGED <<done, pending, job, interrupted, failures>> /\ writer = "take"
    BY <1>11 DEF Take
  <2>2. current = NoSlot /\ current' = results[1]
    BY <1>11 DEF Take, WriterInv, TypeOK
  <2>3. /\ Len(results) \in Nat \ {0} /\ Len(results') = Len(results) - 1
        /\ \A i \in 1..Len(results') : results'[i] = results[i + 1]
    BY <1>11 DEF Take, TypeOK
  <2>4. sent \subseteq sent' \cup {current'}
    <3>1. ASSUME NEW x \in sent, x # current' PROVE x \in sent'
      <4>1. PICK i \in 1..Len(results) : x = results[i]
        BY DEF sent
      <4>2. i # 1 /\ i - 1 \in 1..Len(results') /\ results'[i - 1] = x
        BY <2>2, <2>3, <3>1, <4>1
      <4> QED
        BY <4>2 DEF sent
    <3> QED
      BY <3>1
  <2>5. held' = held /\ NoSlot \notin Slots
    BY <2>1, PipelineSlots DEF held, NoSlot
  <2> QED
    BY <2>1, <2>2, <2>4, <2>5 DEF CoverInv
<1>12. CASE Insert
  BY <1>12, CoverSame DEF Insert
<1>13. CASE MarkDone
  BY <1>13, CoverSame DEF MarkDone
<1>14. CASE Commit
  <2>1. /\ UNCHANGED <<pending, job, results, interrupted, failures>>
        /\ done' = done \cup {current} /\ writer = "commit"
    BY <1>14 DEF Commit
  <2>2. held' = held /\ sent' = sent
    BY <2>1 DEF held, sent
  <2> QED
    BY <2>1, <2>2 DEF CoverInv
<1>15. CASE WriteFails
  BY <1>15 DEF WriteFails, CoverInv, TypeOK
<1>16. CASE Interrupt
  BY <1>16, CoverSame DEF Interrupt
<1>17. CASE Kill
  BY <1>17 DEF Kill, Gone, CoverInv
<1> QED
  BY <1>1, <1>2, <1>3, <1>4, <1>5, <1>6, <1>7, <1>8, <1>9, <1>10, <1>11, <1>12, <1>13,
       <1>14, <1>15, <1>16, <1>17
     DEF Next, WriterStep, WorkerLocal

\* A run that ends without an interrupt has no slot left, so that each is done.
LEMMA OkIsCompleteStep ==
  ASSUME TypeOK, WorkerInv, WriterInv, RunInv, CoverInv, OkIsComplete, Next
  PROVE  OkIsComplete'
<1> USE DEF db, counters
<1>1. CASE Start
  BY <1>1 DEF Start, OkIsComplete
<1>2. CASE NothingToDo
  BY <1>2 DEF NothingToDo, OkIsComplete
<1>3. CASE Return
  <2>1. ASSUME ~interrupted, failures = 0 PROVE done = Slots
    <3>1. pending = {} /\ \A w \in Workers : job[w] = NoSlot
      BY <1>3, <2>1, PipelineWorkers DEF Return, RunInv, WorkerInv
    <3>2. held = {} /\ sent = {} /\ current = NoSlot
      BY <1>3, <3>1 DEF held, sent, Return, WriterInv
    <3>3. NoSlot \notin Slots /\ done \subseteq Slots
      BY PipelineSlots DEF NoSlot, TypeOK
    <3> QED
      BY <1>3, <2>1, <3>1, <3>2, <3>3 DEF Return, CoverInv
  <2> QED
    BY <1>3, <2>1 DEF Return, Gone, OkIsComplete
<1>4. ASSUME NEW w \in Workers, Feed(w) PROVE OkIsComplete'
  <2>1. outcome' = "none"
    BY <1>4 DEF Feed, RunInv
  <2> QED
    BY <2>1 DEF OkIsComplete
<1>5. CASE CloseWork
  <2>1. outcome' = "none"
    BY <1>5 DEF CloseWork, RunInv
  <2> QED
    BY <2>1 DEF OkIsComplete
<1>6. ASSUME NEW w \in Workers, NoMoreWork(w) PROVE OkIsComplete'
  <2>1. outcome' = "none"
    BY <1>6 DEF NoMoreWork, RunInv
  <2> QED
    BY <2>1 DEF OkIsComplete
<1>7. ASSUME NEW w \in Workers, ReadBlock(w) PROVE OkIsComplete'
  <2>1. outcome' = "none"
    BY <1>7 DEF ReadBlock, RunInv
  <2> QED
    BY <2>1 DEF OkIsComplete
<1>8. ASSUME NEW w \in Workers, ReadFails(w) PROVE OkIsComplete'
  <2>1. outcome' = "none"
    BY <1>8 DEF ReadFails, RunInv
  <2> QED
    BY <2>1 DEF OkIsComplete
<1>9. ASSUME NEW w \in Workers, Send(w) PROVE OkIsComplete'
  <2>1. outcome' = "none"
    BY <1>9 DEF Send, RunInv
  <2> QED
    BY <2>1 DEF OkIsComplete
<1>10. ASSUME NEW w \in Workers, Drop(w) PROVE OkIsComplete'
  <2>1. outcome' = "none"
    BY <1>10 DEF Drop, RunInv
  <2> QED
    BY <2>1 DEF OkIsComplete
<1>11. CASE Take
  <2>1. outcome' = "none"
    BY <1>11 DEF Take, RunInv
  <2> QED
    BY <2>1 DEF OkIsComplete
<1>12. CASE Insert
  <2>1. outcome' = "none"
    BY <1>12 DEF Insert, RunInv
  <2> QED
    BY <2>1 DEF OkIsComplete
<1>13. CASE MarkDone
  <2>1. outcome' = "none"
    BY <1>13 DEF MarkDone, RunInv
  <2> QED
    BY <2>1 DEF OkIsComplete
<1>14. CASE Commit
  <2>1. outcome' = "none"
    BY <1>14 DEF Commit, RunInv
  <2> QED
    BY <2>1 DEF OkIsComplete
<1>15. CASE WriteFails
  <2>1. outcome' = "none"
    BY <1>15 DEF WriteFails, RunInv
  <2> QED
    BY <2>1 DEF OkIsComplete
<1>16. CASE Interrupt
  BY <1>16 DEF Interrupt, OkIsComplete, RunInv
<1>17. CASE Kill
  BY <1>17 DEF Kill, Gone, OkIsComplete
<1> QED
  BY <1>1, <1>2, <1>3, <1>4, <1>5, <1>6, <1>7, <1>8, <1>9, <1>10, <1>11, <1>12, <1>13,
       <1>14, <1>15, <1>16, <1>17
     DEF Next, WriterStep, WorkerLocal

-----------------------------------------------------------------------------
(* The theorems.                                                           *)

\* A new database and no run.
LEMMA InitInv == Init => IInv
<1> SUFFICES ASSUME Init PROVE IInv
  OBVIOUS
<1> USE Finite, PipelineSlots DEF Init, NoSlot
<1>1. TypeOK
  <2>1. <<>> \in Seq(Slots) /\ Len(<<>>) = 0
    OBVIOUS
  <2>2. results \in Seq(Slots) /\ Len(results) <= Cardinality(Workers)
    BY <2>1
  <2>3. pc \in [Workers -> {"idle", "recv", "read", "send", "exit"}]
        /\ job \in [Workers -> Slots \cup {NoSlot}]
    OBVIOUS
  <2> QED
    BY <2>2, <2>3 DEF TypeOK
<1>2. WorkerInv /\ WriterInv /\ IdleInv /\ SlotsAreAtomic
  BY DEF WorkerInv, WriterInv, IdleInv, SlotsAreAtomic
<1>3. OneOwner
  BY DEF OneOwner, held, sent
<1>4. RunInv /\ CoverInv /\ OkIsComplete
  BY DEF RunInv, CoverInv, OkIsComplete
<1>5. Accounting
  BY UnderwayIdle DEF Accounting
<1> QED
  BY <1>1, <1>2, <1>3, <1>4, <1>5 DEF IInv

\* The invariant is inductive.
THEOREM Invariance == Spec => []IInv
<1>1. ASSUME IInv, [Next]_vars PROVE IInv'
  <2>1. CASE Next
    BY <1>1, <2>1, TypeOKStep, WorkerInvStep, WriterInvStep, IdleInvStep,
       SlotsAreAtomicStep, OneOwnerStep, RunInvStep, AccountingStep, CoverInvStep,
       OkIsCompleteStep DEF IInv
  <2>2. CASE UNCHANGED vars
    <3>1. OneOwner'
      BY <1>1, <2>2, OwnerSame DEF IInv, vars, db
    <3>2. (TypeOK /\ WorkerInv /\ WriterInv /\ IdleInv /\ SlotsAreAtomic)'
      BY <1>1, <2>2 DEF IInv, TypeOK, WorkerInv, WriterInv, IdleInv, SlotsAreAtomic,
                        vars, db, counters
    <3>3. Accounting'
      BY <1>1, <2>2, UnderwaySame, AccountMoved DEF IInv, vars, counters
    <3>4. (RunInv /\ CoverInv /\ OkIsComplete)'
      BY <1>1, <2>2, CoverSame DEF IInv, RunInv, OkIsComplete, vars, db, counters
    <3> QED
      BY <3>1, <3>2, <3>3, <3>4 DEF IInv
  <2> QED
    BY <1>1, <2>1, <2>2
<1> QED
  BY <1>1, InitInv, PTL DEF Spec

\* Every variable of process keeps its type; results never holds more than
\* one slot per worker.
THEOREM TypeCorrect == Spec => []TypeOK
<1>1. IInv => TypeOK
  BY DEF IInv
<1> QED
  BY <1>1, Invariance, PTL

\* WriteSlot: across interrupts, kills and failed statements the table holds
\* the landings of the slots marked done and no others.
THEOREM Atomicity == Spec => []SlotsAreAtomic
<1>1. IInv => SlotsAreAtomic
  BY DEF IInv
<1> QED
  BY <1>1, Invariance, PTL

\* process: no slot is in two hands, and none that is done is read again.
THEOREM Ownership == Spec => []OneOwner
<1>1. IInv => OneOwner
  BY DEF IInv
<1> QED
  BY <1>1, Invariance, PTL

\* process: its counters account for every slot it was given; without an
\* interrupt none is lost between the feeder, the workers and the writer.
THEOREM NothingLost == Spec => []Accounting
<1>1. IInv => Accounting
  BY DEF IInv
<1> QED
  BY <1>1, Invariance, PTL

\* A run that returns nil and logs no failure has done every slot, whatever
\* the runs before it left.
THEOREM OkMeansComplete == Spec => []OkIsComplete
<1>1. IInv => OkIsComplete
  BY DEF IInv
<1> QED
  BY <1>1, Invariance, PTL

\* Every step records one slot with all its landings, or leaves the database
\* as it is.
LEMMA LedgerStep == ASSUME IInv, [Next]_vars PROVE [L!Next]_(L!vars)
<1> USE DEF L!vars, db, Gone
<1>1. CASE UNCHANGED vars
  BY <1>1 DEF vars
<1>2. CASE Commit
  <2>1. current \in Slots /\ txn = collect(current) /\ current \notin done
    BY <1>2 DEF Commit, IInv, WriterInv, OneOwner
  <2>2. L!Record(current)
    BY <1>2, <2>1 DEF Commit, L!Record
  <2> QED
    BY <2>1, <2>2 DEF L!Next
<1>3. ASSUME NEW w \in Workers,
             Feed(w) \/ WorkerLocal(w) \/ ReadBlock(w) \/ ReadFails(w)
      PROVE  UNCHANGED L!vars
  BY <1>3 DEF Feed, WorkerLocal, NoMoreWork, Send, Drop, ReadBlock, ReadFails
<1>4. CASE \/ Start \/ NothingToDo \/ CloseWork \/ Take \/ Insert \/ MarkDone
           \/ WriteFails \/ Return \/ Interrupt \/ Kill
  BY <1>4 DEF Start, NothingToDo, CloseWork, Take, Insert, MarkDone, WriteFails,
              Return, Interrupt, Kill
<1> QED
  BY <1>1, <1>2, <1>3, <1>4 DEF Next, WriterStep

\* The runs, however interrupted, implement the ledger: a slot is recorded at
\* once with all its landings, and nothing recorded is taken back.
THEOREM Implementation == Spec => ImplementsLedger
<1>1. Init => L!Init
  BY DEF Init, L!Init
<1> QED
  BY <1>1, LedgerStep, Invariance, PTL DEF Spec, ImplementsLedger, L!Spec

-----------------------------------------------------------------------------
(* What the table lacks.                                                   *)

\* process, WriteSlot and collect: of the transactions of a slot marked done,
\* only those BuildLanding refused can be missing from the table, whatever was
\* interrupted, killed or rolled back on the way.
THEOREM MissingIsRefused == Spec => [](\A s \in done : TxOf[s] \ rows \subseteq Txs \ Buildable)
<1>1. ASSUME TypeOK, SlotsAreAtomic, NEW s \in done
      PROVE  TxOf[s] \ rows \subseteq Txs \ Buildable
  <2>1. s \in Slots
    BY <1>1 DEF TypeOK
  <2>2. TxOf[s] \subseteq Txs
    BY <2>1, PipelineTxs
  <2>3. TxOf[s] \cap Buildable \subseteq rows
    BY <1>1 DEF SlotsAreAtomic, collect
  <2> QED
    BY <2>2, <2>3
<1>2. TypeOK /\ SlotsAreAtomic => \A s \in done : TxOf[s] \ rows \subseteq Txs \ Buildable
  BY <1>1
<1> QED
  BY <1>2, TypeCorrect, Atomicity, PTL

\* BuildLanding: what SkippedAreCounted asks for is so when it refuses no
\* transaction; its errors, which collect leaves uncounted, are all that
\* stands against it.
THEOREM WithoutRefusalsAllIsThere ==
  ASSUME \A s \in Slots : TxOf[s] \subseteq Buildable
  PROVE  Spec => []SkippedAreCounted
<1>1. TypeOK /\ (\A s \in done : TxOf[s] \ rows \subseteq Txs \ Buildable) => SkippedAreCounted
  BY DEF TypeOK, SkippedAreCounted
<1> QED
  BY <1>1, TypeCorrect, MissingIsRefused, PTL

\* A run that returns nil and logs no failure leaves the landings of the whole
\* wallet in the table and nothing else, whatever the runs before it left.
THEOREM OkTableIsWhole ==
  Spec => [](outcome = "ok" /\ failures = 0 => rows = UNION {collect(s) : s \in Slots})
<1>1. SlotsAreAtomic /\ OkIsComplete =>
        (outcome = "ok" /\ failures = 0 => rows = UNION {collect(s) : s \in Slots})
  BY DEF SlotsAreAtomic, OkIsComplete
<1> QED
  BY <1>1, Atomicity, OkMeansComplete, PTL

=============================================================================
