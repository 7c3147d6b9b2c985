----------------------------- MODULE MCDownload -----------------------------
(* Instances of Download for TLC.                                          *)
EXTENDS Download, TLC

\* An object of four chunks, published again with two.
MCLength == <<4, 2>>

\* One object of three chunks.
MCLength3 == <<3>>

Symmetry == Permutations(Workers)

=============================================================================
