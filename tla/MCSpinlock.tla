----------------------------- MODULE MCSpinlock -----------------------------
(* Spinlock for TLC. *)
EXTENDS Spinlock
=============================================================================
