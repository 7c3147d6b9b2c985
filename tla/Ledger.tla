------------------------------- MODULE Ledger -------------------------------
(***************************************************************************)
(* What the output database promises: a slot is recorded at once with all  *)
(* the landings collected in it, and nothing recorded is ever taken back.  *)
(***************************************************************************)
CONSTANTS Slots,       \* the slots to be read
          collect(_)   \* the landings of a slot

VARIABLES done, rows

vars == <<done, rows>>

Init == done = {} /\ rows = {}

Record(s) ==
  /\ s \notin done
  /\ done' = done \cup {s}
  /\ rows' = rows \cup collect(s)

Next == \E s \in Slots : Record(s)

Spec == Init /\ [][Next]_vars

=============================================================================
