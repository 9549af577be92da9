-------------------------------- MODULE MCBio -------------------------------
(* Bio for TLC.                                                            *)
EXTENDS Bio, TLC

Symmetry == Permutations(Procs) \union Permutations(Bufs) \union Permutations(Blocks)
=============================================================================
