------------------------- MODULE HistoricalRuntimeMC -------------------------
(* Two processes reconstruct the same case: neither differs from the other.  *)
EXTENDS HistoricalRuntime, TLC

ProcSymmetry == Permutations(Procs)
=============================================================================
