------------------------------ MODULE MCBarter ------------------------------
(* Small instances of Barter for TLC. *)
EXTENDS Barter, TLC

Symmetry == Permutations(Workers)

\* The whole stake is forfeit, so that every forfeit is exact.
PassedAmounts == {4}
PassedCounts == {1}
=============================================================================
