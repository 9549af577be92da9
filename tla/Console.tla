------------------------------ MODULE Console -------------------------------
(***************************************************************************)
(* The console: console.c, which the keyboard and serial interrupts feed   *)
(* and which processes read and write through an inode that they share.    *)
(*                                                                         *)
(* cons.lock guards the input ring and the screen (which is left out).  A  *)
(* character of a read is a step, and so is going to sleep after the test  *)
(* of killed; what an interrupt does with one character is atomic, since   *)
(* cons.lock is held.                                                      *)
(***************************************************************************)
EXTENDS Naturals, Sequences

CONSTANTS
  Procs, None,
  Plain,       \* characters that mean themselves
  INPUT_BUF,
  WORD,        \* r, w and e count modulo this (2^32 in the code)
  MaxN,        \* bound: characters in one read() or write()
  MaxKeys,     \* bound: characters typed
  MaxCalls     \* bound: calls made

ASSUME ConstantsAssumption ==
  /\ None \notin Procs
  /\ {INPUT_BUF, WORD, MaxN} \subseteq Nat \ {0}
  /\ {MaxKeys, MaxCalls} \subseteq Nat
  /\ WORD % INPUT_BUF = 0 /\ INPUT_BUF < WORD

VARIABLES
  buf, r, w, e,          \* input
  lock,                  \* the process that holds cons.lock
  ilock,                 \* the process that holds the lock of the inode
  pc, n, got, killed,    \* n: characters that the call has yet to move
  keys, calls

input == <<buf, r, w, e>>
vars == <<buf, r, w, e, lock, ilock, pc, n, got, killed, keys, calls>>

Chars == Plain \union {"nl", "eof"}
Keys == Chars \union {"erase", "kill"}

Init ==
  /\ buf = [k \in 0 .. INPUT_BUF - 1 |-> "nl"]
  /\ r = 0 /\ w = 0 /\ e = 0 /\ lock = None /\ ilock = None
  /\ pc = [p \in Procs |-> "user"]
  /\ n = [p \in Procs |-> 0]
  /\ got = [p \in Procs |-> << >>]
  /\ killed = [p \in Procs |-> FALSE]
  /\ keys = MaxKeys /\ calls = MaxCalls

Add(x, k) == (x + k) % WORD

-----------------------------------------------------------------------------
(* consoleintr(), for one character.                                       *)

Wake(q) == IF pc[q] = "sleep" THEN "wake" ELSE pc[q]

\* (mutant) the ring is not full until it is overrun.
BugRoom == Add(e, WORD - r) <= INPUT_BUF

Room == Add(e, WORD - r) < INPUT_BUF

\* (mutant) only a newline wakes the readers.
BugTyped(c) ==
  /\ Room
  /\ buf' = [buf EXCEPT ![e % INPUT_BUF] = c]
  /\ e' = Add(e, 1)
  /\ w' = IF c \in {"nl", "eof"} \/ e' = Add(r, INPUT_BUF) THEN e' ELSE w
  /\ pc' = IF c = "nl" THEN [q \in Procs |-> Wake(q)] ELSE pc
  /\ UNCHANGED r

Typed(c) ==
  /\ Room
  /\ buf' = [buf EXCEPT ![e % INPUT_BUF] = c]
  /\ e' = Add(e, 1)
  /\ IF c \in {"nl", "eof"} \/ e' = Add(r, INPUT_BUF)
     THEN /\ w' = e'
          /\ pc' = [q \in Procs |-> Wake(q)]
     ELSE UNCHANGED <<w, pc>>
  /\ UNCHANGED r

\* Backspace.
Erased ==
  /\ e # w
  /\ e' = Add(e, WORD - 1)
  /\ UNCHANGED <<buf, r, w, pc>>

\* ^U takes back the characters from e down to w or to a newline.
Line == {k \in 1 .. Add(e, WORD - w) :
           \A j \in 1 .. k : buf[Add(e, WORD - j) % INPUT_BUF] # "nl"}

Killed ==
  LET k == IF Line = {} THEN 0 ELSE CHOOSE x \in Line : \A y \in Line : y <= x
  IN  /\ e' = Add(e, WORD - k)
      /\ UNCHANGED <<buf, r, w, pc>>

\* Characters that there is no room for, or none to erase, change nothing.
consoleintr(c) ==
  /\ lock = None /\ keys > 0
  /\ keys' = keys - 1
  /\ CASE c = "erase" -> Erased [] c = "kill" -> Killed [] OTHER -> Typed(c)
  /\ UNCHANGED <<lock, ilock, n, got, killed, calls>>

-----------------------------------------------------------------------------
(* consoleread() and consolewrite(), called with the inode locked.         *)

Goto(p, l) == pc' = [pc EXCEPT ![p] = l]

\* ilock(ip) in fileread() or filewrite(): the call has the inode.
Call(p, l, k) ==
  /\ pc[p] = "user" /\ ~killed[p] /\ calls > 0 /\ ilock = None
  /\ calls' = calls - 1
  /\ ilock' = p
  /\ Goto(p, l)
  /\ n' = [n EXCEPT ![p] = k]
  /\ UNCHANGED <<input, lock, got, killed, keys>>

\* iunlock(ip), then acquire(&cons.lock) as a step of its own.
Unlock(p, l, m) ==
  /\ pc[p] = l /\ ilock' = None /\ Goto(p, m)
  /\ UNCHANGED <<input, lock, n, got, killed, keys, calls>>

\* (mutant) the inode stays locked.
BugReadUnlock(p) ==
  /\ pc[p] = "read" /\ Goto(p, "wake")
  /\ UNCHANGED <<input, lock, ilock, n, got, killed, keys, calls>>

ReadUnlock(p) == Unlock(p, "read", "wake")
WriteUnlock(p) == Unlock(p, "write", "out")

\* Both at first and when sleep() returns.
ReadAcquire(p) ==
  /\ pc[p] = "wake" /\ lock = None
  /\ lock' = p /\ Goto(p, "loop")
  /\ UNCHANGED <<input, ilock, n, got, killed, keys, calls>>

Done(p) == lock' = None /\ Goto(p, "relock")

\* The inner loop: a killed process gives up, another goes to sleep.
ReadEmpty(p) ==
  /\ pc[p] = "loop" /\ n[p] > 0 /\ r = w
  /\ IF killed[p] THEN Done(p) ELSE Goto(p, "tosleep") /\ UNCHANGED lock
  /\ UNCHANGED <<input, ilock, n, got, killed, keys, calls>>

\* sleep(&input.r, &cons.lock).
ReadSleep(p) ==
  /\ pc[p] = "tosleep"
  /\ lock' = None /\ Goto(p, "sleep")
  /\ UNCHANGED <<input, ilock, n, got, killed, keys, calls>>

ReadChar(p) ==
  /\ pc[p] = "loop" /\ n[p] > 0 /\ r # w
  /\ LET c == buf[r % INPUT_BUF] IN
     IF c = "eof"
     THEN /\ r' = IF got[p] # << >> THEN r ELSE Add(r, 1)
          /\ Done(p)
          /\ UNCHANGED <<n, got>>
     ELSE /\ r' = Add(r, 1)
          /\ got' = [got EXCEPT ![p] = Append(@, c)]
          /\ n' = [n EXCEPT ![p] = @ - 1]
          /\ IF c = "nl" THEN Done(p) ELSE UNCHANGED <<lock, pc>>
  /\ UNCHANGED <<buf, w, e, ilock, killed, keys, calls>>

ReadFull(p) ==
  /\ pc[p] = "loop" /\ n[p] = 0 /\ Done(p)
  /\ UNCHANGED <<input, ilock, n, got, killed, keys, calls>>

\* The characters of a write reach the screen together.
WriteOut(p) ==
  /\ pc[p] = "out" /\ lock = None
  /\ Goto(p, "relock")
  /\ UNCHANGED <<input, lock, ilock, n, got, killed, keys, calls>>

\* ilock(ip) on the way out; the caller unlocks it.
Relock(p) ==
  /\ pc[p] = "relock" /\ ilock = None
  /\ ilock' = p /\ Goto(p, "return")
  /\ UNCHANGED <<input, lock, n, got, killed, keys, calls>>

Return(p) ==
  /\ pc[p] = "return" /\ ilock' = None /\ Goto(p, "user")
  /\ n' = [n EXCEPT ![p] = 0]
  /\ got' = [got EXCEPT ![p] = << >>]
  /\ UNCHANGED <<input, lock, killed, keys, calls>>

\* kill(), which wakes a process that sleeps.
Kill(p) ==
  /\ ~killed[p] /\ pc[p] # "user"
  /\ killed' = [killed EXCEPT ![p] = TRUE]
  /\ Goto(p, Wake(p))
  /\ UNCHANGED <<input, lock, ilock, n, got, keys, calls>>

Step(p) ==
  \/ ReadUnlock(p) \/ ReadAcquire(p) \/ ReadEmpty(p) \/ ReadSleep(p)
  \/ ReadChar(p) \/ ReadFull(p) \/ WriteUnlock(p) \/ WriteOut(p)
  \/ Relock(p) \/ Return(p)

Next ==
  \/ \E c \in Keys : consoleintr(c)
  \/ \E p \in Procs :
       \/ \E k \in 1 .. MaxN : Call(p, "read", k)
       \/ Call(p, "write", MaxN)
       \/ Step(p) \/ Kill(p)

\* A process inside the kernel goes on.
Fairness == \A p \in Procs : WF_vars(Step(p))

Spec == Init /\ [][Next]_vars /\ Fairness

-----------------------------------------------------------------------------
\* A reader sleeps only while there is nothing to read: no interrupt's wakeup
\* is lost, whichever reader takes the characters (consoleread, sleep).
ReadersNeeded == \A p \in Procs : pc[p] = "sleep" => r = w

\* A call that does not wait for input ends, even while another process waits
\* for input on the same inode: consoleread() gives the lock up.
WritesFinish ==
  \A p \in Procs : (pc[p] \in {"write", "out", "relock"}) ~> (pc[p] = "user")

Cells(x, k) == [j \in 1 .. k |-> buf[Add(x, j - 1) % INPUT_BUF]]

Abs == INSTANCE Tty WITH
  Size <- INPUT_BUF,
  ready <- Cells(r, Add(w, WORD - r)),
  line <- Cells(w, Add(e, WORD - w))

\* The ring of consoleintr() and consoleread() is the line discipline of Tty:
\* no character is lost, repeated or reordered, editing reaches no line that
\* has ended, and an end of file is given back by a read that has characters.
ImplementsTty == Abs!Spec
=============================================================================
