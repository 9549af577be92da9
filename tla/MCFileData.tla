----------------------------- MODULE MCFileData -----------------------------
(* FileData for TLC.                                                       *)
EXTENDS FileData, TLC

Symmetry == Permutations(Procs) \union Permutations(Bytes)
=============================================================================
