------------------------------- MODULE Pipe ---------------------------------
(***************************************************************************)
(* A pipe: pipe.c, with the references that filedup() and fileclose() of   *)
(* file.c count, and the sleep(), wakeup() and kill() that it relies on.   *)
(*                                                                         *)
(* A process holds the read end, the write end or both.  Every byte copied *)
(* is a step, and so is every point where another process or kill() can    *)
(* come between: taking p->lock, the test of killed, going to sleep.       *)
(***************************************************************************)
EXTENDS Naturals, Sequences, FiniteSets

CONSTANTS
  Procs,
  Creator,    \* the process that calls pipe()
  PIPESIZE,
  WORD,       \* nread and nwrite count modulo this (2^32 in the code)
  Bytes,
  MaxN,       \* bound: bytes in one read() or write()
  MaxKills,   \* bound: calls of kill()
  None

ASSUME ConstantsAssumption ==
  /\ Creator \in Procs /\ None \notin Procs
  /\ {PIPESIZE, WORD, MaxN} \subseteq Nat \ {0} /\ MaxKills \in Nat
  /\ WORD % PIPESIZE = 0 /\ PIPESIZE < WORD

Ends == {"r", "w"}

VARIABLES
  data, nread, nwrite,   \* struct pipe
  open,                  \* readopen and writeopen: the set of ends that are 1
  lock,                  \* the process that holds p->lock
  freed,                 \* kfree() has been called
  holds,                 \* holds[p]: the ends that p has a file descriptor for
  killed,
  pc, n, i               \* what p does, and the counters of its loop

pipevars == <<data, nread, nwrite, open>>
vars == <<data, nread, nwrite, open, lock, freed, holds, killed, pc, n, i>>

\* A process that has no end of the pipe is outside the model.
Idle(p) == pc[p] = "user" /\ holds[p] # {} /\ ~killed[p]

\* pipealloc(), by Creator.
Init ==
  /\ data \in [0 .. PIPESIZE - 1 -> Bytes]
  /\ nread = 0 /\ nwrite = 0 /\ open = Ends
  /\ lock = None /\ freed = FALSE
  /\ holds = [p \in Procs |-> IF p = Creator THEN Ends ELSE {}]
  /\ killed = [p \in Procs |-> FALSE]
  /\ pc = [p \in Procs |-> "user"]
  /\ n = [p \in Procs |-> 0]
  /\ i = [p \in Procs |-> 0]

Incr(x) == (x + 1) % WORD

\* (mutant) one byte too many.
BugFull == nwrite = (nread + PIPESIZE + 1) % WORD

Full == nwrite = (nread + PIPESIZE) % WORD
Empty == nread = nwrite

\* wakeup(chan): the sleepers on chan, which p's own step leaves out, have to take
\* the lock again.
Wake(p, to, chan) ==
  [q \in Procs |-> CASE q = p -> to
                     [] q # p /\ pc[q] = chan -> IF chan = "r_asleep" THEN "r_lock" ELSE "w_lock"
                     [] OTHER -> pc[q]]

Goto(p, to) == pc' = [pc EXCEPT ![p] = to]

-----------------------------------------------------------------------------
(* acquire(&p->lock), first or after a sleep                               *)

Lock(p) ==
  /\ lock = None
  /\ lock' = p
  /\ \/ pc[p] = "r_lock" /\ Goto(p, "r_test")
     \/ pc[p] = "w_lock" /\ Goto(p, "w_loop")
     \/ pc[p] = "r_close" /\ Goto(p, "r_closing")
     \/ pc[p] = "w_close" /\ Goto(p, "w_closing")
  /\ UNCHANGED <<pipevars, freed, holds, killed, n, i>>

-----------------------------------------------------------------------------
(* piperead()                                                              *)

Read(p) ==
  /\ Idle(p) /\ "r" \in holds[p]
  /\ Goto(p, "r_lock")
  /\ n' \in {[n EXCEPT ![p] = k] : k \in 1 .. MaxN}
  /\ i' = [i EXCEPT ![p] = 0]
  /\ UNCHANGED <<pipevars, lock, freed, holds, killed>>

ReadWaits == Empty /\ "w" \in open

ReadTest(p) ==
  /\ pc[p] = "r_test"
  /\ \/ /\ ~ReadWaits
        /\ Goto(p, "r_copy") /\ UNCHANGED <<lock, n>>
     \/ /\ ReadWaits /\ killed[p]
        /\ Goto(p, "user") /\ lock' = None /\ n' = [n EXCEPT ![p] = 0]
     \/ /\ ReadWaits /\ ~killed[p]
        /\ Goto(p, "r_sleep") /\ UNCHANGED <<lock, n>>
  /\ UNCHANGED <<pipevars, freed, holds, killed, i>>

\* sleep(&p->nread, &p->lock): SLEEPING before the lock is free.
ReadSleep(p) ==
  /\ pc[p] = "r_sleep"
  /\ Goto(p, "r_asleep") /\ lock' = None
  /\ UNCHANGED <<pipevars, freed, holds, killed, n, i>>

ReadByte(p) ==
  /\ pc[p] = "r_copy" /\ i[p] < n[p] /\ ~Empty
  /\ nread' = Incr(nread)
  /\ i' = [i EXCEPT ![p] = @ + 1]
  /\ UNCHANGED <<data, nwrite, open, lock, freed, holds, killed, pc, n>>

ReadDone(p) ==
  /\ pc[p] = "r_copy" /\ (i[p] = n[p] \/ Empty)
  /\ pc' = Wake(p, "user", "w_asleep") /\ lock' = None
  /\ n' = [n EXCEPT ![p] = 0] /\ i' = [i EXCEPT ![p] = 0]
  /\ UNCHANGED <<pipevars, freed, holds, killed>>

-----------------------------------------------------------------------------
(* pipewrite()                                                             *)

Write(p) ==
  /\ Idle(p) /\ "w" \in holds[p]
  /\ Goto(p, "w_lock")
  /\ n' \in {[n EXCEPT ![p] = k] : k \in 1 .. MaxN}
  /\ i' = [i EXCEPT ![p] = 0]
  /\ UNCHANGED <<pipevars, lock, freed, holds, killed>>

WriteByte(p, b) ==
  /\ pc[p] = "w_loop" /\ i[p] < n[p] /\ ~Full
  /\ data' = [data EXCEPT ![nwrite % PIPESIZE] = b]
  /\ nwrite' = Incr(nwrite)
  /\ i' = [i EXCEPT ![p] = @ + 1]
  /\ UNCHANGED <<nread, open, lock, freed, holds, killed, pc, n>>

\* The pipe is full: give up, or wake the readers and sleep.
WriteFull(p) ==
  /\ pc[p] = "w_loop" /\ i[p] < n[p] /\ Full
  /\ \/ /\ "r" \notin open \/ killed[p]
        /\ Goto(p, "user") /\ lock' = None
        /\ n' = [n EXCEPT ![p] = 0] /\ i' = [i EXCEPT ![p] = 0]
     \/ /\ "r" \in open /\ ~killed[p]
        /\ pc' = Wake(p, "w_sleep", "r_asleep") /\ UNCHANGED <<lock, n, i>>
  /\ UNCHANGED <<pipevars, freed, holds, killed>>

\* sleep(&p->nwrite, &p->lock)
WriteSleep(p) ==
  /\ pc[p] = "w_sleep"
  /\ Goto(p, "w_asleep") /\ lock' = None
  /\ UNCHANGED <<pipevars, freed, holds, killed, n, i>>

WriteDone(p) ==
  /\ pc[p] = "w_loop" /\ i[p] = n[p]
  /\ pc' = Wake(p, "user", "r_asleep") /\ lock' = None
  /\ n' = [n EXCEPT ![p] = 0] /\ i' = [i EXCEPT ![p] = 0]
  /\ UNCHANGED <<pipevars, freed, holds, killed>>

-----------------------------------------------------------------------------
(* fileclose() and pipeclose()                                             *)

\* (mutant) the first close of an end closes it for everyone.
BugLastRef(p, e) == TRUE

\* --f->ref is 0.
LastRef(p, e) == \A q \in Procs \ {p} : e \notin holds[q]

\* close(), or exit() closing what is left.
Close(p, e) ==
  /\ pc[p] = "user" /\ e \in holds[p]
  /\ holds' = [holds EXCEPT ![p] = @ \ {e}]
  /\ Goto(p, IF ~LastRef(p, e) THEN "user" ELSE IF e = "r" THEN "r_close" ELSE "w_close")
  /\ UNCHANGED <<pipevars, lock, freed, killed, n, i>>

\* (mutant) the sleepers at the other end are not woken.
BugCloseWake(p, e, to) == [pc EXCEPT ![p] = to]

CloseWake(p, e, to) == Wake(p, to, IF e = "w" THEN "r_asleep" ELSE "w_asleep")

\* (mutant) freed when either end is closed.
BugLastEnd(e) == TRUE

\* Both ends are closed once e is.
LastEnd(e) == open \subseteq {e}

pipeclose(p, e) ==
  /\ pc[p] = (IF e = "r" THEN "r_closing" ELSE "w_closing")
  /\ open' = open \ {e}
  /\ pc' = CloseWake(p, e, IF LastEnd(e) THEN "kfree" ELSE "user")
  /\ lock' = None
  /\ UNCHANGED <<data, nread, nwrite, freed, holds, killed, n, i>>

\* The page goes back to the allocator; data, nread and nwrite mean no more.
Kfree(p) ==
  /\ pc[p] = "kfree"
  /\ freed' = TRUE
  /\ nread' = 0 /\ nwrite' = 0
  /\ Goto(p, "user")
  /\ UNCHANGED <<data, open, lock, holds, killed, n, i>>

-----------------------------------------------------------------------------
(* Other processes                                                         *)

\* fork(): the child has the parent's ends.
Fork(p, q) ==
  /\ Idle(p) /\ pc[q] = "user" /\ holds[q] = {} /\ ~killed[q]
  /\ holds' = [holds EXCEPT ![q] = holds[p]]
  /\ UNCHANGED <<pipevars, lock, freed, killed, pc, n, i>>

\* kill(): without p->lock.
Kill(p) ==
  /\ holds[p] # {} /\ ~killed[p]
  /\ Cardinality({q \in Procs : killed[q]}) < MaxKills
  /\ killed' = [killed EXCEPT ![p] = TRUE]
  /\ Goto(p, CASE pc[p] = "r_asleep" -> "r_lock"
               [] pc[p] = "w_asleep" -> "w_lock"
               [] OTHER -> pc[p])
  /\ UNCHANGED <<pipevars, lock, freed, holds, n, i>>

\* The steps of a system call that has begun.
Continue(p) ==
  \/ Lock(p)
  \/ ReadTest(p) \/ ReadSleep(p) \/ ReadByte(p) \/ ReadDone(p)
  \/ (\E b \in Bytes : WriteByte(p, b)) \/ WriteFull(p) \/ WriteSleep(p) \/ WriteDone(p)
  \/ (\E e \in Ends : pipeclose(p, e)) \/ Kfree(p)

Next ==
  \E p \in Procs :
    \/ Continue(p)
    \/ Read(p) \/ Write(p)
    \/ \E e \in Ends : Close(p, e)
    \/ \E q \in Procs : Fork(p, q)
    \/ Kill(p)

Spec == Init /\ [][Next]_vars

-----------------------------------------------------------------------------
(* Properties                                                              *)

PCs == {"user", "r_lock", "r_test", "r_sleep", "r_asleep", "r_copy", "w_lock", "w_loop",
        "w_sleep", "w_asleep", "r_close", "r_closing", "w_close", "w_closing", "kfree"}
LockPCs == {"r_test", "r_sleep", "r_copy", "w_loop", "w_sleep", "r_closing", "w_closing"}

\* The bytes between nread and nwrite, oldest first.
Queue == [k \in 1 .. ((nwrite + WORD - nread) % WORD) |->
            data[((nread + k - 1) % WORD) % PIPESIZE]]

Abs == INSTANCE Fifo WITH queue <- Queue

\* The circular buffer and its two wrapping counters are a bounded queue: the
\* readers get the bytes of the writers, each once and in order.
ImplementsFifo == Abs!Spec

\* Whenever p->lock is free, a writer sleeps only on a full pipe that can still
\* be read and, as long as no process was killed, a reader only on an empty one
\* that can still be written: no order of writes, reads, closes and sleeps loses
\* a wakeup.
SleepersNeeded ==
  lock = None => \A p \in Procs :
    /\ pc[p] = "w_asleep" => Full /\ "r" \in open
    /\ pc[p] = "r_asleep" => "w" \in open /\ (Empty \/ \E q \in Procs : killed[q])

\* read() returns no bytes only when every process has closed the write end
\* and everything written has been read.
EofMeansDone ==
  [][\A p \in Procs : pc[p] = "r_copy" /\ pc'[p] = "user" /\ i[p] = 0
       => Empty /\ \A q \in Procs : "w" \notin holds[q]]_vars

\* The pipe is freed at most once, and nobody holds an end, waits for its lock
\* or sleeps in it then or later.
NoUseAfterFree ==
  /\ freed => \A p \in Procs : pc[p] = "user" /\ holds[p] = {}
  /\ Cardinality({p \in Procs : pc[p] = "kfree"}) <= 1
=============================================================================
