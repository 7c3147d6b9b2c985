----------------------------- MODULE MCBackfill -----------------------------
(* Instances of Backfill for TLC.                                          *)
EXTENDS Backfill, TLC

CONSTANTS s1, s2

\* Two slots, so that a run can end with one done and one to do.
MCSlots == {s1, s2}

=============================================================================
