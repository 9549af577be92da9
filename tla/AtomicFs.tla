------------------------------ MODULE AtomicFs ------------------------------
(***************************************************************************)
(* What log.c promises to the file system: the updates of a system call    *)
(* between begin_op() and end_op() reach the disk all together or not at   *)
(* all, and never while another system call is half done.                  *)
(***************************************************************************)
CONSTANTS Procs, Blocks, Vals

VARIABLES
  vol,     \* what bread() returns: the contents of the blocks
  dur,     \* what a restart would find
  active   \* the processes inside a system call

vars == <<vol, dur, active>>

Init ==
  /\ dur \in [Blocks -> Vals]
  /\ vol = dur
  /\ active = {}

Begin(p) ==
  /\ p \notin active
  /\ active' = active \union {p}
  /\ UNCHANGED <<vol, dur>>

Write(p, b, v) ==
  /\ p \in active
  /\ vol' = [vol EXCEPT ![b] = v]
  /\ UNCHANGED <<dur, active>>

End(p) ==
  /\ p \in active
  /\ active' = active \ {p}
  /\ UNCHANGED <<vol, dur>>

\* Every update so far becomes durable, in one step.
Commit ==
  /\ active = {}
  /\ dur' = vol
  /\ UNCHANGED <<vol, active>>

\* Power failure or panic, and restart.
Crash ==
  /\ vol' = dur
  /\ active' = {}
  /\ UNCHANGED dur

Next ==
  \/ \E p \in Procs : Begin(p) \/ End(p)
  \/ \E p \in Procs, b \in Blocks, v \in Vals : Write(p, b, v)
  \/ Commit
  \/ Crash

Spec == Init /\ [][Next]_vars
=============================================================================
