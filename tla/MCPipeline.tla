----------------------------- MODULE MCPipeline -----------------------------
(* Instances of Pipeline for TLC.                                          *)
EXTENDS Pipeline, TLC

\* Four slots: two landings, one, one transaction that cannot be built, two of
\* which one cannot be built.
MCSlots == 1..4
MCTxs == {"a", "b", "c", "d", "e", "f"}
MCTxOf == <<{"a", "b"}, {"c"}, {"d"}, {"e", "f"}>>
MCBuildable == MCTxs \ {"d", "f"}

=============================================================================
