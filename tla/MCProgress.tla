----------------------------- MODULE MCProgress -----------------------------
(* Instances of Progress for TLC.                                          *)
EXTENDS Progress

\* An object of three chunks.
MCLength3 == <<3>>

=============================================================================
