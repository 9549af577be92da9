------------------------------- MODULE MCPipe -------------------------------
(* Pipe for TLC.                                                           *)
EXTENDS Pipe, TLC

Symmetry == Permutations(Procs \ {Creator}) \union Permutations(Bytes)
=============================================================================
