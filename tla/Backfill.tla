------------------------------ MODULE Backfill ------------------------------
(***************************************************************************)
(* Run: one command from the start to the end, and started again after an  *)
(* interrupt, an error or a kill.  The wallet's slots are discovered once  *)
(* (from the GSFA index: a tarball is downloaded, extracted and marked     *)
(* extracted; or over RPC), the two block indexes are downloaded, the      *)
(* blocks are read, and what was downloaded is removed on the way.         *)
(*                                                                         *)
(* A download is what module Transfer says of it, seen through the file it *)
(* leaves: none, part of the object or the full object; the block-reading  *)
(* phase is what module Ledger says of it.                                 *)
(***************************************************************************)
EXTENDS Naturals

CONSTANT Slots   \* the slots of the epoch with a transaction of the wallet

VARIABLES
  \* The command line, the same in every run.
  keep,         \* cfg.KeepIndexes
  rpc,          \* cfg.UseRPC
  \* The database.
  discovered,   \* backfill_meta has discovered = "1"
  seeded,       \* slots in backfill_slot
  done,         \* those with done = 1
  \* The index directory.
  tarball,      \* gsfa-<epoch>.tar.zstd
  dir,          \* gsfa-<epoch>/*.indexdir
  marker,       \* gsfa-<epoch>/.extracted
  index,        \* the files of the two block indexes
  \* The process.
  phase,        \* what Run is about to do
  failing,      \* discoverSlots is unwinding with an error
  slots,        \* what discoverSlots found
  fetched,      \* indexes fetched by this run, in order
  interrupted,  \* the context is cancelled
  warned,       \* some run has logged that it could not remove something
  misread,      \* some run has read the discovery mark as missing, on an error
  outcome       \* what the last run returned

command == <<keep, rpc>>
db == <<discovered, seeded, done>>
gsfa == <<tarball, dir, marker>>
locals == <<failing, slots, fetched, interrupted>>
history == <<warned, misread>>
vars == <<command, db, gsfa, index, phase, locals, history, outcome>>

-----------------------------------------------------------------------------

Names == 1..2    \* slot-to-cid, then cid-to-offset-and-size
Files == {"none", "part", "full"}
Phases == {"idle", "discover", "tarball", "unpack", "extract", "mark", "untar", "reader",
           "lookup", "cleanup", "rpc", "seed", "meta", "pending", "root", "fetch",
           "open", "process", "remove"}

\* A download that has begun.
Begun(file) == IF file = "full" THEN "full" ELSE "part"

\* Variant: the directory is enough.
findIndexDirAny == dir # "none"

\* findIndexDir: the marker says that the directory was extracted to the end.
findIndexDir == marker /\ dir # "none"

\* Run is over, or the process is: its local variables are gone.
Leave(r) ==
  /\ phase' = "idle"
  /\ failing' = FALSE
  /\ slots' = {}
  /\ fetched' = 0
  /\ interrupted' = FALSE
  /\ outcome' = r

Failures == IF interrupted THEN {"canceled", "err"} ELSE {"err"}

Goto(p) == phase' = p

Init ==
  /\ keep \in BOOLEAN /\ rpc \in BOOLEAN
  /\ discovered = FALSE /\ seeded = {} /\ done = {}
  /\ tarball = "none" /\ dir = "none" /\ marker = FALSE
  /\ index = [n \in Names |-> "none"]
  /\ phase = "idle" /\ failing = FALSE /\ slots = {} /\ fetched = 0
  /\ interrupted = FALSE
  /\ warned = FALSE /\ misread = FALSE
  /\ outcome = "none"

-----------------------------------------------------------------------------
(* Any phase that can fail without having changed anything: the database,  *)
(* the network, the file system, an index that does not open.  An error    *)
(* returned here passes no Cleanup.                                        *)

\* Variant: the requests do not carry the context.
FailsDeaf ==
  /\ phase \in {"discover", "unpack", "extract", "mark", "reader", "seed", "meta",
                "pending", "open"}
  /\ \E r \in Failures : Leave(r)
  /\ UNCHANGED <<command, db, gsfa, index, history>>

Fails ==
  /\ phase \in {"discover", "tarball", "unpack", "extract", "mark", "reader", "rpc",
                "seed", "meta", "pending", "root", "fetch", "open"}
  /\ \E r \in Failures : Leave(r)
  /\ UNCHANGED <<command, db, gsfa, index, history>>

-----------------------------------------------------------------------------
(* discover                                                                *)

Start ==
  /\ phase = "idle"
  /\ Goto("discover")
  /\ outcome' = "none"
  /\ UNCHANGED <<command, db, gsfa, index, locals, history>>

\* A previous run has discovered the slots; else ask RPC, or look for an
\* extracted index, or get one.  Meta returns "" for an error too.
Discover ==
  /\ phase = "discover"
  /\ \/ discovered /\ Goto("pending") /\ UNCHANGED misread
     \/ /\ misread' = (misread \/ discovered)
        /\ Goto(IF rpc THEN "rpc" ELSE IF findIndexDir THEN "reader" ELSE "tarball")
  /\ UNCHANGED <<command, db, gsfa, index, locals, warned, outcome>>

\* DownloadResumable of the tarball, under way and to its end.
DownloadSome ==
  /\ phase = "tarball"
  /\ tarball = "none"
  /\ tarball' = Begun(tarball)
  /\ UNCHANGED <<command, db, dir, marker, index, phase, locals, history, outcome>>

Download ==
  /\ phase = "tarball"
  /\ ~interrupted
  /\ tarball' = "full"
  /\ Goto("unpack")
  /\ UNCHANGED <<command, db, dir, marker, index, locals, history, outcome>>

\* extractTarZstd creates (or truncates) the files; it takes no context.
ExtractSome ==
  /\ phase = "unpack"
  /\ dir' = "part"
  /\ Goto("extract")
  /\ UNCHANGED <<command, db, tarball, marker, index, locals, history, outcome>>

Extract ==
  /\ phase = "extract"
  /\ dir' = "full"
  /\ Goto("mark")
  /\ UNCHANGED <<command, db, tarball, marker, index, locals, history, outcome>>

WriteMarker ==
  /\ phase = "mark"
  /\ marker' = TRUE
  /\ Goto("untar")
  /\ UNCHANGED <<command, db, tarball, dir, index, locals, history, outcome>>

\* The tarball is removed; an error is only logged.
RemoveTarball ==
  /\ phase = "untar"
  /\ \/ tarball' = "none" /\ UNCHANGED warned
     \/ warned' = TRUE /\ UNCHANGED tarball
  /\ Goto("reader")
  /\ UNCHANGED <<command, db, dir, marker, index, locals, misread, outcome>>

\* gsfa.NewGsfaReader, which may open an incomplete index too.
OpenReader ==
  /\ phase = "reader"
  /\ Goto("lookup")
  /\ UNCHANGED <<command, db, gsfa, index, locals, history, outcome>>

\* Variant: an error of the lookup is taken for an empty list.
LookupNoError ==
  /\ phase = "lookup"
  /\ \/ slots' = Slots
     \/ slots' = {}
  /\ Goto(IF keep THEN "seed" ELSE "cleanup")
  /\ UNCHANGED <<command, db, gsfa, index, failing, fetched, interrupted, history, outcome>>

\* Variant: the extracted index is left to the end of the run.
LookupNoCleanup ==
  /\ phase = "lookup"
  /\ slots' = Slots
  /\ Goto("seed")
  /\ UNCHANGED <<command, db, gsfa, index, failing, fetched, interrupted, history, outcome>>

\* GsfaIndex.Slots, and the deferred Close or Cleanup, which runs on an error
\* just the same.  A lookup in an incomplete index is taken to fail.
Lookup ==
  /\ phase = "lookup"
  /\ \/ dir = "full" /\ slots' = Slots /\ UNCHANGED failing
     \/ failing' = TRUE /\ UNCHANGED slots
  /\ Goto("cleanup")
  /\ UNCHANGED <<command, db, gsfa, index, fetched, interrupted, history, outcome>>

\* os.RemoveAll takes the files away one after the other, in any order.
RemoveSome ==
  /\ phase = "cleanup"
  /\ ~keep
  /\ \/ dir = "full" /\ dir' = "part" /\ UNCHANGED marker
     \/ dir = "part" /\ dir' = "none" /\ UNCHANGED marker
     \/ marker /\ marker' = FALSE /\ UNCHANGED dir
  /\ UNCHANGED <<command, db, tarball, index, phase, locals, history, outcome>>

\* RemoveAll is through, or gives up with an error that is only logged; then
\* discoverSlots returns.
CleanedUp ==
  /\ phase = "cleanup"
  /\ \/ keep /\ UNCHANGED warned
     \/ dir = "none" /\ ~marker /\ UNCHANGED warned
     \/ ~keep /\ warned' = TRUE
  /\ IF failing THEN \E r \in Failures : Leave(r)
     ELSE Goto("seed") /\ UNCHANGED <<locals, outcome>>
  /\ UNCHANGED <<command, db, gsfa, index, misread>>

\* DiscoverSignatures and distinctSlots.
AskRPC ==
  /\ phase = "rpc"
  /\ ~interrupted
  /\ slots' = Slots
  /\ Goto("seed")
  /\ UNCHANGED <<command, db, gsfa, index, failing, fetched, interrupted, history, outcome>>

\* Variant: only the first batch is inserted.
SeedSlotsFirstBatch ==
  /\ phase = "seed"
  /\ \E s \in slots : seeded' = seeded \cup {s}
  /\ Goto("meta")
  /\ UNCHANGED <<command, discovered, done, gsfa, index, locals, history, outcome>>

\* Variant: a slot that is there is replaced.
SeedSlotsReplace ==
  /\ phase = "seed"
  /\ seeded' = seeded \cup slots
  /\ done' = done \ slots
  /\ Goto("meta")
  /\ UNCHANGED <<command, discovered, gsfa, index, locals, history, outcome>>

\* SeedSlots inserts the slots in one transaction, those there already stay.
SeedSlots ==
  /\ phase = "seed"
  /\ seeded' = seeded \cup slots
  /\ Goto("meta")
  /\ UNCHANGED <<command, discovered, done, gsfa, index, locals, history, outcome>>

SetMeta ==
  /\ phase = "meta"
  /\ discovered' = TRUE
  /\ Goto("pending")
  /\ UNCHANGED <<command, seeded, done, gsfa, index, locals, history, outcome>>

-----------------------------------------------------------------------------
(* Run, after discovery.                                                   *)

\* PendingSlots: "nothing to do", or go on.
NothingToDo ==
  /\ phase = "pending"
  /\ seeded \subseteq done
  /\ Leave("ok")
  /\ UNCHANGED <<command, db, gsfa, index, history>>

SomethingToDo ==
  /\ phase = "pending"
  /\ ~(seeded \subseteq done)
  /\ Goto("root")
  /\ UNCHANGED <<command, db, gsfa, index, locals, history, outcome>>

RootCID ==
  /\ phase = "root"
  /\ ~interrupted
  /\ Goto("fetch")
  /\ UNCHANGED <<command, db, gsfa, index, locals, history, outcome>>

\* Indexes.fetch: the next index, under way and to its end.
FetchSome ==
  /\ phase = "fetch"
  /\ index[fetched + 1] = "none"
  /\ index' = [index EXCEPT ![fetched + 1] = Begun(@)]
  /\ UNCHANGED <<command, db, gsfa, phase, locals, history, outcome>>

\* Variant: an index that was there before is not fetched again.
FetchIfMissing ==
  /\ phase = "fetch"
  /\ \/ ~interrupted /\ index' = [index EXCEPT ![fetched + 1] = "full"]
     \/ index[fetched + 1] # "none" /\ UNCHANGED index
  /\ fetched' = fetched + 1
  /\ Goto(IF fetched + 1 = 2 THEN "open" ELSE "fetch")
  /\ UNCHANGED <<command, db, gsfa, failing, slots, interrupted, history, outcome>>

Fetch ==
  /\ phase = "fetch"
  /\ ~interrupted
  /\ index' = [index EXCEPT ![fetched + 1] = "full"]
  /\ fetched' = fetched + 1
  /\ Goto(IF fetched + 1 = 2 THEN "open" ELSE "fetch")
  /\ UNCHANGED <<command, db, gsfa, failing, slots, interrupted, history, outcome>>

OpenIndexes ==
  /\ phase = "open"
  /\ Goto("process")
  /\ UNCHANGED <<command, db, gsfa, index, locals, history, outcome>>

\* process writes one of the pending slots.
WriteSlot ==
  /\ phase = "process"
  /\ \E s \in seeded \ done : done' = done \cup {s}
  /\ UNCHANGED <<command, discovered, seeded, gsfa, index, phase, locals, history, outcome>>

\* process returns nil although slots have failed, or the interrupt; then the
\* deferred Close or Cleanup.
ProcessEnds ==
  /\ phase = "process"
  /\ outcome' = IF interrupted THEN "canceled"
                ELSE IF seeded \subseteq done THEN "ok" ELSE "failures"
  /\ Goto("remove")
  /\ UNCHANGED <<command, db, gsfa, index, locals, history>>

\* Variant: one more than there are.
RemoveIndexOneMore ==
  /\ phase = "remove"
  /\ ~keep
  /\ index' = [n \in Names |-> IF n = 3 - fetched THEN "none" ELSE index[n]]
  /\ fetched' = fetched - 1
  /\ UNCHANGED <<command, db, gsfa, phase, failing, slots, interrupted, history, outcome>>

\* Cleanup removes one file, or logs that it could not.
RemoveIndex ==
  /\ phase = "remove"
  /\ ~keep
  /\ fetched > 0
  /\ \/ index' = [index EXCEPT ![3 - fetched] = "none"] /\ UNCHANGED warned
     \/ warned' = TRUE /\ UNCHANGED index
  /\ fetched' = fetched - 1
  /\ UNCHANGED <<command, db, gsfa, phase, failing, slots, interrupted, misread, outcome>>

Return ==
  /\ phase = "remove"
  /\ keep \/ fetched = 0
  /\ Leave(outcome)
  /\ UNCHANGED <<command, db, gsfa, index, history>>

-----------------------------------------------------------------------------
(* The environment.                                                        *)

Interrupt ==
  /\ phase # "idle"
  /\ ~interrupted
  /\ interrupted' = TRUE
  /\ UNCHANGED <<command, db, gsfa, index, phase, failing, slots, fetched, history, outcome>>

\* A second Ctrl-C, or any other sudden end.
Kill ==
  /\ phase # "idle"
  /\ Leave("none")
  /\ UNCHANGED <<command, db, gsfa, index, history>>

-----------------------------------------------------------------------------

\* What Run does by itself.
Step ==
  \/ Discover \/ DownloadSome \/ Download \/ ExtractSome \/ Extract \/ WriteMarker
  \/ RemoveTarball \/ OpenReader \/ Lookup \/ RemoveSome \/ CleanedUp \/ AskRPC
  \/ SeedSlots \/ SetMeta \/ NothingToDo \/ SomethingToDo \/ RootCID \/ FetchSome
  \/ Fetch \/ OpenIndexes \/ WriteSlot \/ ProcessEnds \/ RemoveIndex \/ Return

Next == Start \/ Fails \/ Step \/ Interrupt \/ Kill

Spec == Init /\ [][Next]_vars

\* Run goes on; what waits for the network ends with an error once the
\* context is cancelled.
Fairness == WF_vars(Step \/ (interrupted /\ Fails))

FairSpec == Spec /\ Fairness

-----------------------------------------------------------------------------
(* Properties.                                                             *)

\* Every variable holds a value of its kind.
TypeOK ==
  /\ keep \in BOOLEAN /\ rpc \in BOOLEAN
  /\ discovered \in BOOLEAN /\ seeded \subseteq Slots /\ done \subseteq Slots
  /\ tarball \in Files /\ dir \in Files /\ marker \in BOOLEAN
  /\ index \in [Names -> Files]
  /\ phase \in Phases /\ failing \in BOOLEAN /\ slots \subseteq Slots
  /\ fetched \in 0..2
  /\ interrupted \in BOOLEAN /\ warned \in BOOLEAN /\ misread \in BOOLEAN
  /\ outcome \in {"none", "ok", "failures", "err", "canceled"}

\* "A resumed run skips straight to block reading" (metaDiscovered): whatever
\* run set the mark, and wherever the runs before it were cut short, the work
\* list it stands for is the whole list; and no slot is done before.
DiscoveryIsWhole == (discovered => seeded = Slots) /\ (done # {} => discovered)

\* Blocks are read with both indexes of the epoch complete on disk, whatever
\* earlier runs left there (OpenIndexes, "resuming if partial").
IndexesAreWhole == phase = "process" => \A n \in Names : index[n] = "full"

\* "Freed as soon as discovery finishes, before the node-location index is
\* fetched, so the two never overlap on disk" (the extracted GSFA index), over
\* any number of interrupted runs, unless the user keeps the indexes, a
\* removal has failed with a warning, or the mark could not be read.
NoOverlap ==
  ~keep /\ ~warned /\ ~misread /\ (\E n \in Names : index[n] # "none") => dir = "none"

\* "Re-seeding never resets a slot already marked done, so discovery can be
\* re-run safely" (SeedSlots): as it is when the mark could not be read.
DoneStays == [][done \subseteq done']_vars

\* A run that returns nil and has logged no failure has done every slot of the
\* wallet, on whichever path it came to its end.
OkIsComplete == phase = "idle" /\ outcome = "ok" => done = Slots

\* "Downloading and unpacking first if it is not already present and complete"
\* (ensureExtracted): the directory that is opened is complete.
OpensWholeGsfa == phase = "reader" => dir = "full"

\* "Called only on a fully successful run -- the whole point of keeping them
\* otherwise is resumability" (Indexes.Cleanup): no run removes an index while
\* slots are still to be read.
KeptUnlessDone ==
  [][\A n \in Names : index[n] # "none" /\ index'[n] = "none" => seeded \subseteq done]_vars

\* After Ctrl-C the run returns, whatever it was waiting for.
InterruptReturns == interrupted ~> phase = "idle"

\* An incomplete GSFA index that carries the marker: every run tries to open it.
Trapped == marker /\ dir = "part"

\* Interrupted, failed and killed runs started again end up with every slot
\* done, if from some time on nothing fails and the user starts the command
\* again.  Opening a trapped directory, or looking up slots in it, is all that
\* may go on failing, and if it does the directory stays as it is for good.
Faults ==
  \/ Interrupt \/ Kill
  \/ Fails /\ ~(phase = "reader" /\ Trapped)
  \/ Discover /\ discovered /\ phase' # "pending"
  \/ dir = "full" /\ Lookup /\ failing'
  \/ ProcessEnds /\ ~(seeded \subseteq done)
ReRuns == <>[][~Faults]_vars /\ WF_vars(Start)
ReRunsComplete == ReRuns => <>(done = Slots) \/ <>[]Trapped

=============================================================================
