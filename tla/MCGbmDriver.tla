----------------------------- MODULE MCGbmDriver -----------------------------
(* GbmDriver on a small instance, for TLC.                                  *)
EXTENDS GbmDriver, TLC

Symmetry == Permutations(Block)
=============================================================================
