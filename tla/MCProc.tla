------------------------------- MODULE MCProc -------------------------------
(* Instances of Proc for TLC.                                              *)
EXTENDS Proc

\* init forks and waits, and exits when fork fails (init.c).  Slot 1 is a parent
\* that also sleeps, and slot 2 its child, which kills it or others or faults: a
\* process is killed in user space, in wait(), in sleep() and between them.
SafetyCalls == [p \in Slots |-> CASE p = initproc -> {"fork", "wait", "exit"}
                                  [] p = 1 -> {"fork", "wait", "sleep", "exit"}
                                  [] OTHER -> {"kill", "fault"}]

\* The same, with an init that does not give up.
LivenessCalls == [p \in Slots |-> CASE p = initproc -> {"fork", "wait"}
                                    [] p = 1 -> {"fork", "wait", "sleep", "exit"}
                                    [] OTHER -> {"kill", "exit"}]
=============================================================================
