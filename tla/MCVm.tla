------------------------------- MODULE MCVm ---------------------------------
(***************************************************************************)
(* Instances of Vm for TLC.  No process can map all of its user memory, as *)
(* on the machine (2 Gbyte of addresses, 224 Mbyte of memory): there are   *)
(* two pages more than frames.                                             *)
(***************************************************************************)
EXTENDS Vm

\* Sizes that end inside a page and on its boundary (two units to a page), and
\* one beyond user memory.
MCSbrkArgs == {-3, -2, -1, 1, 2, 3, 32}
=============================================================================
