----------------------------- MODULE Signatures -----------------------------
(***************************************************************************)
(* DiscoverSignatures: the wallet's transactions of one epoch, listed over *)
(* RPC in pages that run newest first from a cursor just past the epoch.   *)
(*                                                                         *)
(* The chain is the sequence of the wallet's transactions, oldest first,   *)
(* each standing for its slot; its place in the chain is its signature.    *)
(* While the pages are read new transactions land at the tip, and the      *)
(* provider retains only what lies after floor.  A page has from one to    *)
(* sigPageSize entries as long as there are any before the cursor.         *)
(***************************************************************************)
EXTENDS Integers, Sequences, FiniteSets

CONSTANTS First, Last,   \* EpochBounds
          Slots,         \* the slots there are, before, in and after the epoch
          SeekAhead,     \* 64 in the code
          PageSize,      \* sigPageSize, 1000 in the code
          MaxChain       \* bound on the transactions that land

ASSUME EpochAssumption == First \in Nat /\ Last \in Nat /\ First <= Last
ASSUME SlotsAssumption == Slots \subseteq Nat
ASSUME SeekAssumption == SeekAhead \in Nat
ASSUME PageAssumption == PageSize \in Nat \ {0}
ASSUME ChainAssumption == MaxChain \in Nat

VARIABLES
  chain,   \* the wallet's transactions: their slots
  floor,   \* how many of them the provider no longer retains
  pc,      \* what the call is about to do
  probe,   \* the slot seekMarker asks for
  marker,  \* the slot whose block gave the cursor, or NoMarker
  before,  \* the cursor: a transaction is before it if its place is at most this
  tip,     \* length of the chain when the first page was asked for
  found    \* out, page by page: the places of the transactions listed

provider == <<chain, floor>>
vars == <<provider, pc, probe, marker, before, tip, found>>

-----------------------------------------------------------------------------

NoMarker == 0

InEpoch(s) == First <= s /\ s <= Last

\* The first signature of the block of slot s as a cursor: n transactions of
\* the wallet are before it.
IsCursor(n, s) == \A i \in DOMAIN chain : i <= n <=> chain[i] < s

Init ==
  /\ chain \in UNION {[1..n -> Slots] : n \in 0..MaxChain}
  /\ \A i, j \in DOMAIN chain : i <= j => chain[i] <= chain[j]
  /\ floor \in 0..Len(chain)
  /\ pc = "seek"
  /\ probe = Last + 1
  /\ marker = NoMarker
  /\ before = 0 /\ tip = 0
  /\ found = <<>>

-----------------------------------------------------------------------------
(* seekMarker.                                                             *)

\* The block of the slot has a signature, of whatever wallet: the cursor.
Marker ==
  /\ pc = "seek"
  /\ probe <= Last + SeekAhead
  /\ marker' = probe
  /\ \E n \in 0..Len(chain) : IsCursor(n, probe) /\ before' = n
  /\ tip' = Len(chain)
  /\ pc' = "page"
  /\ UNCHANGED <<provider, probe, found>>

\* An error, a timeout, no block (yet), or one without signatures.
NextProbe ==
  /\ pc = "seek"
  /\ probe <= Last + SeekAhead
  /\ probe' = probe + 1
  /\ UNCHANGED <<provider, pc, marker, before, tip, found>>

\* No marker: the zero signature, and paging begins at the tip of the chain.
PageFromTip ==
  /\ pc = "seek"
  /\ probe > Last + SeekAhead
  /\ before' = Len(chain)
  /\ tip' = Len(chain)
  /\ pc' = "page"
  /\ UNCHANGED <<provider, probe, marker, found>>

-----------------------------------------------------------------------------
(* The pages.                                                              *)

\* The n places before the cursor: a page.  Its transactions in the epoch, and
\* whether it has one from before it.
Places(n) == (before - n + 1)..before
Kept(n) == {i \in Places(n) : InEpoch(chain[i])}
ReachedBefore(n) == \E i \in Places(n) : chain[i] < First

\* Variant: a page that is not full is the last.
PageUntilShort ==
  /\ pc = "page"
  /\ \E n \in 1..PageSize :
       /\ n <= before - floor
       /\ found' = Append(found, Kept(n))
       /\ before' = before - n
       /\ pc' = IF n < PageSize \/ ReachedBefore(n) THEN "found" ELSE "page"
  /\ UNCHANGED <<provider, probe, marker, tip>>

\* Variant: no transaction before the epoch ends the paging.
PageToFloor ==
  /\ pc = "page"
  /\ \E n \in 1..PageSize :
       /\ n <= before - floor
       /\ found' = Append(found, Kept(n))
       /\ before' = before - n
  /\ UNCHANGED <<provider, pc, probe, marker, tip>>

\* Variant: the cursor is the newest of the page, not the oldest.
PageFromNewest ==
  /\ pc = "page"
  /\ \E n \in 1..PageSize :
       /\ n <= before - floor
       /\ found' = Append(found, Kept(n))
       /\ before' = before - 1
       /\ pc' = IF ReachedBefore(n) THEN "found" ELSE "page"
  /\ UNCHANGED <<provider, probe, marker, tip>>

\* Variant: the cursor is not moved.
PageAgain ==
  /\ pc = "page"
  /\ \E n \in 1..PageSize :
       /\ n <= before - floor
       /\ pc' = IF ReachedBefore(n) THEN "found" ELSE "page"
  /\ UNCHANGED <<provider, probe, marker, before, tip, found>>

\* One page: what is in the epoch is kept, the oldest is the next cursor, and
\* one before the epoch ends the paging.
Page ==
  /\ pc = "page"
  /\ \E n \in 1..PageSize :
       /\ n <= before - floor
       /\ found' = Append(found, Kept(n))
       /\ before' = before - n
       /\ pc' = IF ReachedBefore(n) THEN "found" ELSE "page"
  /\ UNCHANGED <<provider, probe, marker, tip>>

\* An empty page: nothing more is retained.
EmptyPage ==
  /\ pc = "page"
  /\ before <= floor
  /\ pc' = "found"
  /\ UNCHANGED <<provider, probe, marker, before, tip, found>>

\* A request fails: the list is dropped.
PageFails ==
  /\ pc = "page"
  /\ pc' = "failed"
  /\ UNCHANGED <<provider, probe, marker, before, tip, found>>

-----------------------------------------------------------------------------
(* The chain and the provider.                                             *)

\* A transaction lands, in the newest slot or later; a slot that had a block
\* to give the marker is not added to.
Land ==
  /\ pc \in {"seek", "page"}
  /\ Len(chain) < MaxChain
  /\ \E s \in Slots :
       /\ marker < s
       /\ chain # <<>> => chain[Len(chain)] <= s
       /\ chain' = Append(chain, s)
  /\ UNCHANGED <<floor, pc, probe, marker, before, tip, found>>

\* The provider drops its oldest transaction.
Prune ==
  /\ pc \in {"seek", "page"}
  /\ floor < Len(chain)
  /\ floor' = floor + 1
  /\ UNCHANGED <<chain, pc, probe, marker, before, tip, found>>

\* distinctSlots: the slots to be read, each once.
distinctSlots == {chain[i] : i \in UNION {found[k] : k \in DOMAIN found}}

Call == Marker \/ NextProbe \/ PageFromTip \/ Page \/ EmptyPage \/ PageFails

Next == Call \/ Land \/ Prune

Spec == Init /\ [][Next]_vars

\* A probe times out after 20 seconds; a page, which has no timeout of its own,
\* is taken to be answered, or to fail.
Fairness == WF_vars(Marker \/ NextProbe \/ PageFromTip \/ Page \/ EmptyPage)

FairSpec == Spec /\ Fairness

-----------------------------------------------------------------------------
(* Properties.                                                             *)

\* Every variable holds a value of its kind; seeking stays within SeekAhead.
TypeOK ==
  /\ chain \in Seq(Slots) /\ floor \in 0..Len(chain)
  /\ pc \in {"seek", "page", "found", "failed"}
  /\ probe \in (Last + 1)..(Last + SeekAhead + 1)
  /\ marker \in {NoMarker} \cup (Last + 1)..(Last + SeekAhead)
  /\ before \in 0..Len(chain) /\ tip \in 0..Len(chain)
  /\ found \in Seq(SUBSET (1..Len(chain)))

\* "DiscoverSignatures lists every transaction of wallet within the epoch":
\* all that are still retained at the end, whatever landed and was pruned
\* meanwhile and however the provider cut the pages.  Without a marker the
\* epoch may still run, and only what was there at the first page is promised.
Complete ==
  pc = "found" =>
    \A i \in DOMAIN chain :
      i > floor /\ InEpoch(chain[i]) /\ (marker # NoMarker \/ i <= tip) =>
        \E k \in DOMAIN found : i \in found[k]

\* And nothing else, none twice, newest first: a transaction that lands between
\* two pages does not shift the next one.
NewestFirst ==
  \A k \in DOMAIN found : \A i \in found[k] :
    /\ InEpoch(chain[i])
    /\ \A j \in DOMAIN found : j < k => \A h \in found[j] : h > i

\* Transactions from the start of the epoch up to the marker.
Traffic == {i \in DOMAIN chain : First <= chain[i] /\ chain[i] < marker}

\* "Cost is proportional to the epoch's own traffic and not to how long ago the
\* epoch was": with a marker there is at most one page more than transactions
\* between the start of the epoch and the marker, whatever is before and after.
CostIsEpochs == marker # NoMarker => Len(found) <= Cardinality(Traffic) + 1

\* The call returns: paging backwards ends although the chain grows.
Returns == (pc \in {"seek", "page"}) ~> (pc \in {"found", "failed"})

=============================================================================
