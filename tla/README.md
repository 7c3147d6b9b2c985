# epochfill in TLA+

epochfill collects one Solana wallet's transactions of one epoch from a public
archive into a SQLite file. A run takes hours, moves tens of gigabytes, is cut
short by Ctrl-C, errors and kills, and is resumed by typing the same command
again. Everything hard in the program is about that: what is on disk when a run
stops, what the next run believes of it, and whether the goroutines of one run
all get out and lose nothing on the way. This directory models those parts,
checks them with TLC and proves the main safety properties with TLAPS.

## Inventory

| Component | Source | State | Operations | Interacts with | Correct when |
|---|---|---|---|---|---|
| Resumable download | `backfill/oldfaithful.go`, `parts.go` | data file, `.parts` sidecar, chunk states, `dirty` | `DownloadResumable`, `runChunks`, `openParts`, `pending`, `markDone`, `maybeFlush`, `flush`, `Close` | called by the indexes and GSFA; HTTP; file system | the sidecar never claims what is not on disk; nil means complete; progress survives; every goroutine gets out |
| Block-reading pipeline | `backfill/run.go` (`process`, `collect`) | channels `work` and `results`, counters | feed, read, send, drop, write, return | block reader, landing builder, database | no slot lost, doubled or silently skipped; Ctrl-C returns |
| Epoch database | `backfill/store.go` | `landing`, `backfill_slot`, `backfill_meta` | `SeedSlots`, `PendingSlots`, `WriteSlot`, `Meta`, `SetMeta` | pipeline, run lifecycle | a slot is marked done with all its rows or not at all |
| Run lifecycle | `backfill/run.go`, `main.go` | the phase of a run, `discovered` | `Run`, `discover`, `discoverSlots` | everything | a resumed run starts from what is true; what was downloaded is freed or kept as promised |
| GSFA index | `backfill/gsfa.go` | tarball, extracted directory, marker | `OpenGsfa`, extraction, `Slots`, `Cleanup` | download, run lifecycle | an incomplete directory is never used |
| Block indexes | `backfill/index.go` | two files | `OpenIndexes`, lookups, `Close`, `Cleanup` | download, block reader | complete before use, freed only when done |
| Block reader | `backfill/block.go` | the maps of a walk | `ReadBlock`, `anchor`, `walkSections`, `parseRegion` | indexes, HTTP | the transactions, the count and the leader of exactly one block |
| Landing builder | `backfill/extract.go` | none | `BuildLanding`, `wsolProfit`, `tipPaid`, ... | pipeline, schema | NULL where unknown, value-conserving sums |
| Landing schema, tips | `landing/` | table `landing` | `OpenDB`, insert, `IsBareTipLeg` | database | an insert repeated changes nothing |
| RPC discovery | `backfill/sigs.go` | page cursor | `DiscoverSignatures`, `seekMarker` | run lifecycle, RPC provider | every transaction of the epoch that is retained, none outside, at the cost of the epoch |
| Progress bar | `backfill/progress.go` | bytes, EWMA rate | `Set`, `Finish` | workers of the download, extraction | never far ahead of the data, at 100% in the end |
| Unpack timing | `backfill/unpack.go` | counters | read and write wrappers | extraction | display only |

The hard behaviours: parallel chunk writes out of order with a shared record and
a mutex held over three disk operations; kill and power failure between any two
of those; the first error or a Ctrl-C while the feeder and other workers are
blocked on channels; a transaction cut in the middle; and, over a series of runs,
markers and files left by one run and trusted by the next. To these come a region of
the archive that reaches over several blocks when slots are skipped or lookups
fail, and a list that is paged while the chain grows and the provider prunes.
`PROJECT.json` lists
each hazard at its line with the properties that watch it.

## Modules

| Module | What it is |
|---|---|
| `Transfer` | abstract: what a resumable download promises |
| `Download` | `DownloadResumable` and the sidecar, goroutine by goroutine |
| `DownloadProofs` | theorems about `Download` |
| `Stored` | abstract: what a run relies on of a file that is downloaded |
| `Ledger` | abstract: what the output database promises |
| `Pipeline` | `process` and `WriteSlot`, goroutine by goroutine |
| `PipelineProofs` | theorems about `Pipeline` |
| `Backfill` | `Run`: one command, run any number of times |
| `BackfillProofs` | theorems about `Backfill` |
| `Archive` | `BlockReader`: one slot of the archive, node by node |
| `ArchiveProofs` | theorems about `Archive` |
| `Lists` | the loops that follow a list through a map |
| `Landing` | `BuildLanding` and its helpers, as operators |
| `Reading` | composes `Archive` and `Landing`: `collect` over a block that was read |
| `ReadingProofs` | theorems about `Reading` |
| `Signatures` | `DiscoverSignatures` against a growing chain |
| `SignaturesProofs` | theorems about `Signatures` |
| `Progress` | extends `Download`: the counter, the callback of `fetch` and the bar |
| `ProgressProofs` | theorems about `Progress` |
| `DataProofs` | lemmas the proofs about blocks and rows share: induction, lists, sums, percentages |
| `MCDownload`, `MCProgress`, `MCPipeline`, `MCBackfill`, `MCReading`, `MCSignatures` | instances for TLC |

An operator whose comment begins with "Variant" is a plausible wrong version of
the one that follows it; no action uses it. Substituting it makes TLC find the
property that guards against it violated, which shows that the property depends
on the code.

### Download

One object, fetched in chunks. A chunk is its index, and what matters about the
data file is which chunks hold the object's bytes (`good`) and which of those an
fsync has covered (`stable`). A sidecar is a length and the set of chunks whose
byte is 1; length 0 is the file `os.WriteFile` has truncated and not yet
written. `sidecar` is what the operating system shows, `saved` what a power
failure would leave: the system may write the sidecar back at any time and with
any content it has had (the sidecar itself is never fsynced by the code).

`pc` gives each goroutine its place: `Main` goes open (`Size`, `openParts`), file
(`OpenFile`, `Truncate`), feed, join (`wg.Wait`), sync, trunc, put (the flush),
close; a worker goes recv, fetch, write, mark, maybe, then the flush or back to
recv, or fail and exit. The mutex of `partsFile` is `Unlocked`: it is held by
whoever is in the flush. `cancelled` is the derived context: Ctrl-C or an error
in `errs`. The environment interrupts, kills, cuts the power, writes back, and
republishes the object with another length between two runs.

`Download` is shown to implement `Transfer` with `have <- good`, `safe <- stable`,
`running <- pc[Main] # "idle"`, and the result hidden while a call is under way.

### Pipeline

`done` and `rows` are the committed database, `txn` the rows of the open
transaction. `WriteSlot` is Take (receive, Begin), Insert once per row, MarkDone,
Commit, with WriteFails for an error anywhere (the deferred Rollback). The feeder
and the workers meet on the unbuffered channel `work` (Feed); `results` is a
sequence bounded by the number of workers; the `select` of a worker is Send or
Drop. Return is the end of `range results`, possible once every worker has left.
A killed process loses everything but `done` and `rows`. `Pipeline` implements
`Ledger`: only Commit is a step of it.

### Backfill

The sequence of `Run`, one action per step that something can come between: discovery
(RPC, or find the extracted index, or tarball, extraction, marker, removal of the
tarball), lookup, `Cleanup` file by file, `SeedSlots`, `SetMeta`, `PendingSlots`, root
CID, the two index downloads, block reading, and the deferred `Cleanup`. Files are none,
part or full. A download is here what `Transfer` makes of it, and block reading what
`Ledger` makes of it. The models meet in their abstractions, and that is proved:
`Download` and each file of `Backfill` keep to `Stored`, `Pipeline` and `Backfill` to
`Ledger` (see Theorems). `outcome` is what the run returned, with "failures" for a nil
return after some slots failed. `warned` records that some removal failed and was
logged, `misread` that the database could not say that discovery was done and it was
done again (`Meta` returns "" for an error); only `NoOverlap` looks at these two. A
lookup in an incomplete GSFA index is taken to fail (the reader is a library).

### Archive

The CAR is a sequence of nodes after a header, one unit long each, and a node's CID and
offset are its place in the sequence. Links (a block's entries and rewards, an entry's
transactions) are places too. `pc` goes anchor (`anchor`, one slot back per step), range
(the tests on the region, `ReadRange`), walk (`walkSections` with the `visit` of
`parseRegion`, one node per step), parsed or failed. `Assemble` is what follows the
walk: the transactions and the count along the block's own links, and the leader from
its rewards. What may go wrong is recorded in `faults`, by kind, so that a property can
say what holds with and without: a lookup that fails, or that answers for a skipped slot
with another block (the compact index stores hashes of keys, not keys), a range that is
not read, a server that answers 200 OK with the file from its beginning, and a
transaction, an entry or the Block node that does not decode (the last ends the call;
the other two are passed over, and are kept apart because an entry takes its
transactions out of the count while a transaction does not). The format of the archive
is three assumptions on the files, which TLC evaluates on those it is given: one header,
and blocks in the order of their slots (`ArchiveCars`); the links of a block lead, in
order, to all transactions between the Block node before it and its own
(`ArchiveLinks`); a reward of type Fee, or a lone one of the old encoding, which sets no
type, is the producer's (`ArchiveRewards`). Of other rewards nothing is assumed: the
code takes a lone one of any type for the fee, so a block whose one reward is of rent,
voting or staking gets a leader that need not have built it, and `LeaderIsOwn` states
that as an exception. Where the code resolves a list of CIDs in its maps, the model has
`Joined` and `Only` of `Lists`.

### Landing and Reading

`Landing` has one operator per function of `extract.go`, over a transaction as a
record (the comment at its head lists the fields). Absent data is `NULL`; balance lists may
be shorter than the account list. The joined and sorted strings (`Programs`,
`TipLane`) are sets. `Reading` runs `collect` over the block `Archive` returns. In it a
transaction also carries what it really did (the transfers it executed, the programs
that ran), which no operator of `Landing` looks at, so that the columns computed from
balances can be compared with what happened. What the runtime of the chain makes sure of
stands as assumptions on the transactions of the files: no account is listed twice and
balances are natural numbers (`ReadingAccounts`), every program that ran is named by an
instruction (`ReadingPrograms`), a tip account gains what it is paid and loses nothing
(`ReadingTips`), an index in the block is the place there (`ReadingPositions`). `NULL` is no number
(`LandingNull`).

### Signatures

`chain` is the sequence of the slots of the wallet's transactions, and a signature is
a place in it. `seekMarker` asks for one slot per step and may miss any of them;
`Marker` gives the cursor: as many of the wallet's transactions are before it as are in
earlier slots. A page has at least one and at most `PageSize` entries as long as any
are retained before the cursor; the provider may cut it shorter than asked. Between
any two steps a transaction lands (`Land`, in no slot up to that of the marker, whose
block is final) or the provider drops its oldest (`Prune`).

### Progress

Each action of `Download` that the bar does not see is taken as it is. A worker that
has recorded a chunk and flushed is in its callback: it adds to `counter` (atomic),
may find no bar, makes one, and sets it; `val` is what it carries, so an older count
may arrive after a newer one. `Set` paints or, short of the total and just after
a painting, does not. `Finish` runs once the call has returned nil. The unguarded
variable `bar` is a data race in Go; its outcomes here are those of reads and writes
of one word in some order. Power failures and republished objects are left out of
`NextBar`: the bar dies with the process.

## Runs

| Run | Instance | What it shows |
|---|---|---|
| `download` | 2 workers, flush every 2 chunks, 4 chunks then republished with 2; workers symmetric | type invariant; the sidecar is honest to kills and power failures; nil means complete; no chunk fetched twice; bounded loss; an interrupt keeps progress; implements `Transfer` |
| `download_progress` | 2 workers, 3 chunks, the last half as long, no symmetry | the line is never ahead of the recorded bytes by more than the last chunk is short; a finished bar is at 100%; a cancelled call returns; an answered call returns |
| `pipeline` | 2 workers, 4 slots with 2, 1, 1 and 2 transactions, 2 of which do not build | type invariant with the channel bound; slots are atomic; one owner per slot; the counters account for every slot; a clean nil means every slot; implements `Ledger`; an interrupt returns; runs repeated finish |
| `backfill` | 2 slots, all four combinations of `-rpc` and `-keep-indexes` | discovery recorded is whole; indexes are whole when blocks are read; the GSFA directory and the block indexes never overlap; a clean nil means every slot; seeding again takes no slot back; an interrupt returns; runs repeated finish |
| `reading` | one file of 39 nodes with gaps, and a file per transaction shape (tips, token accounts, refused and short data); `MaxSkipBack` 2, `MaxRegion` 13 | type invariant with the walk inside the region; a parsed block has the transactions and the count of its slot, whatever the region reaches over, if its entries decode, and never more; its leader is its producer, unknown, or who gets its lone reward; a walk that ends has met its block; failure without a fault has one of two reasons; positions, WSOL and lamports, tips, lanes and tip legs agree with what happened |
| `signatures` | epoch of two slots, slots before and after, up to 5 transactions, pages of at most 2, marker sought in 2 slots | every retained transaction of the epoch is listed; each once, newest first; the number of pages is bounded by the traffic of the epoch; paging ends |

Six runs each check one statement the repository makes about itself, which the
code does not keep:

| Run | Statement | What the code does |
|---|---|---|
| `download_torn` | `parts.go:12` "A crash loses at most this much progress" | the sidecar is truncated in place before it is written; a kill in between loses all of it |
| `download_again` | `index.go:98` "so an interrupted run can resume without re-downloading ~11 GB" | a finished download drops its sidecar, and without one the next call fetches everything |
| `pipeline_skipped` | `extract.go:58` "let the caller count it" | `collect` drops the transaction uncounted and the slot is done |
| `backfill_deleted` | `index.go:105` "Called only on a fully successful run", `README.md:109` "kept on failure" | the indexes are removed after an interrupt and after a run with failures |
| `reading_count` | `landing/landing.go:29` "BlockTxCount is the block's executed transaction count. NULL when it could not be established" | an entry that does not decode is left out without an error; the count of the other entries is stored, and the percentage is computed from it |
| `backfill_marker` | `gsfa.go:59` "if it is not already present and complete" | a kill in `RemoveAll` can leave the marker over an incomplete index, which is opened from then on |

Two of these touch the data the program stores: `pipeline_skipped` leaves a transaction out
of the output for good, and `reading_count` stores a count that is too small, with a
percentage that is too large (100 and more for a transaction whose index is not below the
count), and leaves out the entry's own transactions.

One more statement the code does not keep has no run. `README.md:82` says "A missing index or
an unknown transaction count stores NULL, never 0": `block_index` is a plain integer and is 0
when the index is missing (`applyPosition`). `PositionIsTrue` says that such a row can be told
by its percentage, which is NULL.

### Bounds

- `download`: four chunks with a flush every second one give a flush by a worker, one by
  the other, a last one by `Main`, and chunks left over; two workers give every race on
  the mutex and on `errs`; the second, shorter publication is the stale sidecar. The
  number of runs, kills and power failures is not bounded.
- `pipeline`: a channel of two with four slots fills up while the writer is in a
  transaction; one slot has two rows (a transaction can be cut between them), one has
  none that can be stored.
- `backfill`: with two slots a run can end with one done. Everything else is finite by
  itself, and the number of runs unbounded. `Slots` is what discovery can find: with
  `-rpc`, what a provider no longer retains is not in it (`Signatures` has the
  retention).

- `download_progress`: with a half-size last chunk of three the counter passes the
  total, and a resumed run may begin with it done; with two workers one overtakes the
  other in its callback.
- `reading`: one skipped slot, which `MaxSkipBack` 2 gets over, and two, which it does
  not (a failed lookup makes further gaps), a region over the cap, an empty block,
  rewards absent, of the old encoding (one and several), of other kinds next to the fee,
  a lone reward of rent, an entry of two transactions, a transaction without an index.
  The transaction shapes are every combination of four transfers, static and loaded
  keys, top-level and inner programs, and every pair of token lists over two accounts.
- `signatures`: three pages and a transaction before and after the epoch fit in 5
  transactions; two slots to probe give a marker at once, later and never.

`Length`, `MaxVersion` and `MaxChain` are the only caps on counters.

### Fairness

- Go's scheduler: each goroutine that can step without the network eventually
  does (weak fairness of its local steps).
- The network: a request may stay unanswered for ever (a body that stalls has no
  timeout), so the answers get no fairness, except that a request whose context
  is cancelled returns with an error (`net/http`).
- `AnsweredReturns` and `ReRunsComplete` add their own assumptions as premises:
  requests are answered; from some time on no faults happen and the user starts
  the command again. In `backfill` the second has an exception: with the marker over an
  incomplete directory (`Trapped`) opening the index or the lookup in it may go on failing,
  which is then no fault. The runs complete, or the directory is trapped for good (`<>[]Trapped`): that
  it passes through that state, as in any removal that takes a file before the marker,
  is no excuse.
- `Signatures`: the next probe or page is answered (weak fairness of `Marker`, `NextProbe`,
  `PageFromTip`, `Page` and `EmptyPage` together): a probe has a timeout of 20 seconds; a
  page has none but the context's, and without an answer the call would wait for it.
- `Progress` (`FairSpecBar`) has the fairness of `Download`; a callback waits only for
  the mutex of the bar.
- The user never has to do anything in the other properties.

Deadlock is checked in every run in which there is always a next run or a next slot;
`MCSignatures` switches it off, since the call of `DiscoverSignatures` ends.

## Theorems

All for every number of workers, chunks, slots, transactions and runs, and for every
file and chain.

`DownloadProofs` assumes, beyond the `ASSUME`s of `Download`, `DistinctLengths`: no
two publications have the same number of chunks. It is what the length test of
`openParts` relies on, and without it a sidecar of the wrong object would be
believed. The inductive invariant `IInv` adds to `TypeOK` and `SidecarHonest`
which phases go together (`WorkerInv`, `PhaseInv`: one holder of the lock, workers
gone when `Main` is past the join), that what is recorded is in the file and what
is about to be written to the sidecar is on stable storage (`RecordInv`: this
carries the ordering of `flush`), that no chunk is forgotten unless an error is on
its way (`CoverInv`: this carries "nil means complete"), that recorded, waiting and
flying chunks are disjoint (`DisjointInv`), and the state of the sidecar at an
interrupted close (`CloseInv`). `LossInv` is a second, numeric invariant on top of
it. From these: `TypeCorrect`, `SidecarIsHonest`, `OkMeansComplete`,
`NothingIsRefetched`, `LossIsBounded`, `InterruptLosesNothing`, and `Implementation`
(every step of `Download` is a step of `Transfer` or a stutter).

`PipelineProofs` has `IInv`: a worker has a slot exactly while it reads or sends
(`WorkerInv`), the open transaction belongs to the slot being written and is whole
before the commit (`WriterInv`), nothing is under way between runs (`IdleInv`), plus
`TypeOK`, `SlotsAreAtomic` and `OneOwner` themselves, and for the counting: what an
idle, a running and an uninterrupted run look like (`RunInv`), and that until an
interrupt or a failure each slot is done or has an owner (`CoverInv`). `Accounting` is
then preserved step by step with the cardinality theorems: a step moves one slot from
one summand to another. From it: `TypeCorrect`, `Atomicity`, `Ownership`, `NothingLost`,
`OkMeansComplete` and `Implementation` (of `Ledger`). `OkTableIsWhole` joins two of
them: after a clean nil the table is the landings of all slots.

`BackfillProofs` has `IInv`: what each phase of discovery has established
(`DiscoverInv`: this carries "the mark stands for the whole list"), which indexes
are whole in which phase and that none is there before the discovery is recorded
(`IndexInv`), that the extracted directory is gone once the slots are recorded
(`DirInv`), and what an outcome of "ok" stands for (`OutcomeInv`). From it:
`TypeCorrect`, `DiscoveryComplete`, `IndexesComplete`, `DirectoriesDisjoint`,
`OkMeansComplete`, and the action property `NothingIsUndone`. No assumption beyond
the model: `Slots` is any set.

The levels are joined by two contracts. `Stored` is a file that is none, part or full,
and a call that has delivered it or has not: it is delivered only in full, and a full
file is removed or replaced whole, never in part. `DownloadIsStored` proves it of
`Download`, with "full" for "every chunk of the published object is on stable storage"
and "delivered" for "the last call returned nil"; it goes through `Transfer`, action by
action, and the one step that needs more is a crash after the return, which takes
nothing because of `OkIsComplete`. `TarballIsStored` proves it of the tarball in
`Backfill` (delivered while it is about to be unpacked), `IndexesAreStored` of the two
block indexes (delivered from the fetch to the removal, in which `fetched` counts back
while the files go from the first on). `Ledger` is the same for the database:
`Implementation` of `PipelineProofs` has it with rows, `SlotsAreLedger` of
`BackfillProofs` with a slot standing for its rows, through re-seeding and any number
of runs. What this does not say is that `Backfill` allows everything `Download` does:
the file lost in a power failure and the object republished between two runs are in
`Download` only.

Next to each statement that the code does not keep stands, where there is something to
say, what does hold:

| Statement | Theorem | What holds |
|---|---|---|
| `backfill_marker` | `OnlyCutRemovalsTrap` | with `CutShort` excluded (a removal that stops with the marker over less than the directory), `OpensWholeGsfa` holds; `MarkerInv` is the inductive invariant: a marker over an incomplete directory exists during `Cleanup` only, and an extraction starts with no marker |
| `backfill_deleted` | `RemovedEarlyOnlyThen` | only a run that returns the interrupt or has logged failures removes an index early |
| `download_torn` | `OneWorkerLosesSyncEvery`, `LossIsBounded` | outside the rewriting of the sidecar the loss is bounded, and with one worker by `SyncEvery` as stated |
| `reading_count` | `BlocksAreExact`, `PositionsAreTrue` | an entry that does not decode adds nothing to a block and moves no transaction from its place; a transaction that does not decode leaves the count as it is |
| `pipeline_skipped` | `MissingIsRefused`, `WithoutRefusalsAllIsThere` | what a done slot lacks is what `BuildLanding` refused, and nothing else |

`SignaturesProofs` has `IInv`: the chain is in the order of its slots (`Sorted`), a
marker is newer than everything before the cursor (`CursorInv`), what is behind the
cursor is listed (`Covered`), paging that ended left nothing retained, or nothing of the
epoch, before the cursor (`Ended`), nothing listed is before the cursor (`Behind`), and
each page but the last moved the cursor over some of the epoch's traffic (`Cost`). From
it: `TypeCorrect`, `ListIsComplete`, `ListIsOrdered`, `CostIsBounded`.

`ArchiveProofs` has `IInv`: what each phase has established of its positions (`Places`),
that the walk is at the header of the file, which it cannot pass, or between a Block
node before the slot's and the slot's own (`WalkInv`: this carries "a walk that ends has
met its block"), and that without a fault every slot walked back over has no block and
the anchor is the block of the slot it stopped at (`AnchorInv`). From it:
`WalkMeetsBlock` and `GivesUpForAReason`. On top of it `Exact` says what the walk holds:
the types of its positions and maps (`WalkTypes`, `OutTypes`); that its maps hold nodes
of their kind, and all nodes it has passed behind the Block node it began at: all
entries unless one did not decode, all transactions unless one did not (`Met`: this
carries "the transactions of exactly one block"). The step that matters is `Assemble`:
what is resolved of the block's links are transactions of the block in their order, the
count is at most theirs and equal if all entries decoded, and the leader is taken from
the block's own rewards. From it: `TypeCorrect`, `BlocksAreExact`, `LeadersAreOwn`. They
use the three assumptions on the format.

`ReadingProofs` takes that over (`Parsed`: each row belongs to a transaction of the block
that was asked for) and proves of every row: `PositionsAreTrue` (a percentage is NULL just
without an index; an index stored with one is the true place, whatever did not decode; the
count is at most the block's, and if all entries decoded it is the block's and the percentage
below 100), `NetProfitIsGain` (the sum over the union of the wallet's
token accounts before and after splits into the two sums of its wealth), `TipIsPaid` (the
balance deltas of the tip accounts, each the sum of the transfers to it, add up to the sum
of all transfers to tip accounts; only positive deltas give a lane), `TipLegsAreBare`. They rest
on the assumptions about the runtime above.

`ProgressProofs` has first `BarIsADownload`: `SpecBar` implies `Spec` of `Download`, kills
included. `BarInv` then adds to `IInv`: where a worker in its callback can be (`BarTypes`), that
the counter and the chunks recorded but not counted yet are together covered by the
recorded chunks (`CounterInv`), that so is what a worker carries and what is shown (`ShownInv`:
nothing is said of their order, only that each was covered when it was read), and that a
finished bar stands at the total (`FinishInv`). From it: `BarNeverFarAhead` and
`BarEndsAtTotal`. `DistinctLengths` is not needed, since nothing is published
under a running bar.

`DataProofs` has what these need about lists and sums of any length. The induction theorems
of the library take a predicate; here induction is stated of a set (`S` contains 0 and with
each number its successor), from which the lemmas about `Joined` and `Only` follow with `S`
the set of lengths a fact holds for, and those about `SumFunctionOnSet` by induction over
the size of a finite set: a term added or removed, equal terms, a union of disjoint parts,
a sum by parts.

Every safety invariant and action property that a passing run checks is stated by a theorem.
Model-checked only, since fairness and ENABLED are beyond the prover: the liveness
properties `CancelReturns`, `AnsweredReturns`, `InterruptReturns`, `ReRunsComplete` and
`Returns`.

`TypeOK` of `Signatures` is proved and not listed in a run.

## Not modelled, and why

- HTTP status codes, short bodies, connection pool: a request answers or fails. A
  server that ignores `Range` is in `Archive`; in a download it would go unnoticed by
  the code, as would an object that changes within a run, and `Download` takes neither
  to happen.
- The bytes of a section: lengths, CIDs, CBOR, zstd and protobuf are libraries, and a
  node decodes or does not. A section length above 2^63, which `int(secLen)` would
  make negative, is below that grain.
- Power failure in `Backfill` (the extraction is not fsynced) and in the SQLite
  library (its transactions are taken to be atomic and durable).
- Files that are only leaked: the tarball after a kill between the marker and its
  removal, the block indexes of a run killed after its last slot. Nothing the program
  does later depends on them.
- The tar walk, `safeJoin` and the copy loops: one step with a half-way state.
- Columns `BuildLanding` copies as they are, the table's columns and migrations, the
  address table: data.
- Flags, logging, rates, ETA and layout of the bar, its log lines when it is not on a
  terminal, the timing wrappers of `unpack.go`: display.

## Plan

Done: every component above that keeps state, with its runs, and proofs of every safety
property the passing runs check. What would come next:

1. `Backfill` with the files it leaks, and a power failure over an extraction.
2. The converse of `DownloadIsStored` for `Backfill`: a republished object and a lost
   file among the steps of its downloads.
