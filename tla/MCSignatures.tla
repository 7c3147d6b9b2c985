---------------------------- MODULE MCSignatures ----------------------------
(* Instances of Signatures for TLC.                                        *)
EXTENDS Signatures

\* An epoch of slots 2 and 3 with one slot before and two after.
MCSlots == 1..5

=============================================================================
