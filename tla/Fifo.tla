------------------------------- MODULE Fifo ---------------------------------
(***************************************************************************)
(* What a pipe promises: the bytes that are taken out are those that were  *)
(* put in, in that order, and at most PIPESIZE of them wait.               *)
(***************************************************************************)
EXTENDS Naturals, Sequences

CONSTANTS PIPESIZE, Bytes

VARIABLE queue

Init == queue = <<>>

Put == Len(queue) < PIPESIZE /\ \E b \in Bytes : queue' = Append(queue, b)

Take == queue # <<>> /\ queue' = Tail(queue)

\* The pipe is gone, and what it held with it.
Drop == queue' = <<>>

Next == Put \/ Take \/ Drop

Spec == Init /\ [][Next]_queue
=============================================================================
