------------------------------ MODULE Spinlock ------------------------------
(***************************************************************************)
(* The spin locks of xv6 (spinlock.c) on several CPUs, with the interrupts *)
(* that pushcli() and popcli() keep out of critical sections.              *)
(*                                                                         *)
(* Each CPU runs a thread, and an interrupt handler on top of it when      *)
(* interrupts are enabled.  Both take and release locks with acquire() and *)
(* release(), split into the steps that another CPU or an interrupt can    *)
(* fall between.  What a CPU does to its own struct cpu with interrupts    *)
(* off is one step.                                                        *)
(*                                                                         *)
(* The callers keep a lock order: whoever holds a lock takes only locks    *)
(* that come after it, and they release only what they hold.               *)
(***************************************************************************)
EXTENDS Integers, FiniteSets

CONSTANTS
  NCPU,    \* number of CPUs
  NLOCK    \* number of locks, numbered in the lock order

ASSUME ConstantsAssumption == NCPU \in Nat \ {0} /\ NLOCK \in Nat \ {0}

CPUs  == 0 .. NCPU - 1
Locks == 1 .. NLOCK
None  == -1
Ctxs  == CPUs \X {"thread", "intr"}

VARIABLES
  \* struct spinlock
  locked,
  owner,     \* lk->cpu
  \* CPU
  fl_if,     \* the interrupt flag of eflags
  ncli, intena,
  mode,      \* the context that runs: "thread" or "intr"
  \* contexts
  pc,
  lk,        \* the argument of acquire() or release()
  eflags,    \* pushcli()'s local: was FL_IF set?
  held       \* the locks the context is using

lockvars == <<locked, owner>>
cpuvars  == <<fl_if, ncli, intena, mode>>
ctxvars  == <<pc, lk, eflags, held>>
vars == <<lockvars, cpuvars, ctxvars>>

Init ==
  /\ locked = [l \in Locks |-> FALSE]
  /\ owner = [l \in Locks |-> None]
  /\ fl_if = [c \in CPUs |-> TRUE]
  /\ ncli = [c \in CPUs |-> 0]
  /\ intena = [c \in CPUs |-> FALSE]
  /\ mode = [c \in CPUs |-> "thread"]
  /\ pc = [k \in Ctxs |-> "run"]
  /\ lk = [k \in Ctxs |-> 1]
  /\ eflags = [k \in Ctxs |-> FALSE]
  /\ held = [k \in Ctxs |-> {}]

\* Context k runs on its CPU and is at the label.
At(k, label) == mode[k[1]] = k[2] /\ pc[k] = label

Goto(k, label) == pc' = [pc EXCEPT ![k] = label]

holding(l, c) == locked[l] /\ owner[l] = c

-----------------------------------------------------------------------------
(* acquire(l)                                                              *)

\* The call, and readeflags() of pushcli().
acquire(k, l) ==
  /\ At(k, "run")
  /\ \A h \in held[k] : h < l
  /\ lk' = [lk EXCEPT ![k] = l]
  /\ eflags' = [eflags EXCEPT ![k] = fl_if[k[1]]]
  /\ Goto(k, "cli")
  /\ UNCHANGED <<lockvars, cpuvars, held>>

\* (mutant) a nested pushcli() overwrites what the first one saved.
BugIntena(c, ef) == ef

\* if(mycpu()->ncli == 0) mycpu()->intena = eflags & FL_IF
SaveIntena(c, ef) == IF ncli[c] = 0 THEN ef ELSE intena[c]

\* (mutant) acquire() does not disable interrupts.
BugCli(c) == fl_if

cli(c) == [fl_if EXCEPT ![c] = FALSE]

Nested(n) == n + 1

\* cli() and the rest of pushcli().
pushcli(k) ==
  LET c == k[1] IN
  /\ At(k, "cli")
  /\ fl_if' = cli(c)
  /\ intena' = [intena EXCEPT ![c] = SaveIntena(c, eflags[k])]
  /\ ncli' = [ncli EXCEPT ![c] = Nested(@)]
  /\ Goto(k, "hold")
  /\ UNCHANGED <<lockvars, mode, lk, eflags, held>>

\* if(holding(lk)) panic("acquire")
AcquireHolding(k) ==
  /\ At(k, "hold")
  /\ Goto(k, IF holding(lk[k], k[1]) THEN "panic" ELSE "xchg")
  /\ UNCHANGED <<lockvars, cpuvars, lk, eflags, held>>

\* (mutant) the test and the assignment are not one instruction, and another
\* CPU sets the lock in between.
BugXchg(l) == TRUE

\* xchg(&lk->locked, 1) returned 0.
xchg(l) == ~locked[l]

\* The loop ends; until then the context spins.
Xchg(k) ==
  /\ At(k, "xchg") /\ xchg(lk[k])
  /\ locked' = [locked EXCEPT ![lk[k]] = TRUE]
  /\ Goto(k, "setcpu")
  /\ UNCHANGED <<owner, cpuvars, lk, eflags, held>>

\* lk->cpu = mycpu(); acquire() returns.
SetCpu(k) ==
  /\ At(k, "setcpu")
  /\ owner' = [owner EXCEPT ![lk[k]] = k[1]]
  /\ held' = [held EXCEPT ![k] = @ \union {lk[k]}]
  /\ Goto(k, "run")
  /\ UNCHANGED <<locked, cpuvars, lk, eflags>>

-----------------------------------------------------------------------------
(* release(l)                                                              *)

\* The call and its test: if(!holding(lk)) panic("release").
release(k, l) ==
  /\ At(k, "run") /\ l \in held[k]
  /\ lk' = [lk EXCEPT ![k] = l]
  /\ held' = [held EXCEPT ![k] = @ \ {l}]
  /\ Goto(k, IF holding(l, k[1]) THEN "clearcpu" ELSE "panic")
  /\ UNCHANGED <<lockvars, cpuvars, eflags>>

\* lk->cpu = 0
clearCpu(l) == [owner EXCEPT ![l] = None]

ClearCpu(k) ==
  /\ At(k, "clearcpu")
  /\ owner' = clearCpu(lk[k])
  /\ Goto(k, "unlock")
  /\ UNCHANGED <<locked, cpuvars, lk, eflags, held>>

\* movl $0, lk->locked
Unlock(k) ==
  /\ At(k, "unlock")
  /\ locked' = [locked EXCEPT ![lk[k]] = FALSE]
  /\ Goto(k, "popcli")
  /\ UNCHANGED <<owner, cpuvars, lk, eflags, held>>

\* popcli(), with its two panics; release() returns.
popcli(k) ==
  LET c == k[1] IN
  /\ At(k, "popcli")
  /\ ncli' = [ncli EXCEPT ![c] = @ - 1]
  /\ fl_if' = [fl_if EXCEPT ![c] = @ \/ (ncli[c] = 1 /\ intena[c])]
  /\ Goto(k, IF fl_if[c] \/ ncli[c] < 1 THEN "panic" ELSE "run")
  /\ UNCHANGED <<lockvars, intena, mode, lk, eflags, held>>

-----------------------------------------------------------------------------
(* Interrupts: the gates of tvinit() clear FL_IF, iret restores it.        *)

\* The handler is about to start its work.
Interrupt(c) ==
  /\ mode[c] = "thread" /\ fl_if[c] /\ pc[<<c, "thread">>] # "panic"
  /\ mode' = [mode EXCEPT ![c] = "intr"]
  /\ fl_if' = [fl_if EXCEPT ![c] = FALSE]
  /\ UNCHANGED <<lockvars, ncli, intena, ctxvars>>

iret(c) ==
  /\ At(<<c, "intr">>, "run") /\ held[<<c, "intr">>] = {}
  /\ mode' = [mode EXCEPT ![c] = "thread"]
  /\ fl_if' = [fl_if EXCEPT ![c] = TRUE]
  /\ UNCHANGED <<lockvars, ncli, intena, ctxvars>>

-----------------------------------------------------------------------------
\* The steps inside acquire() and release(), and the end of a critical section.
Step(k) ==
  \/ pushcli(k) \/ AcquireHolding(k) \/ Xchg(k) \/ SetCpu(k)
  \/ ClearCpu(k) \/ Unlock(k) \/ popcli(k)

Release(k) == \E l \in Locks : release(k, l)

Next ==
  \/ \E k \in Ctxs : Step(k) \/ Release(k) \/ \E l \in Locks : acquire(k, l)
  \/ \E c \in CPUs : Interrupt(c) \/ iret(c)

Spec == Init /\ [][Next]_vars

(***************************************************************************)
(* Fairness: every CPU goes on executing instructions, and a critical      *)
(* section ends.  A CPU that spins may find the lock taken every time: the *)
(* code makes no promise to it, and none is assumed.                       *)
(***************************************************************************)
Fairness == \A k \in Ctxs : WF_vars(Step(k)) /\ WF_vars(Release(k))

FairSpec == Spec /\ Fairness

-----------------------------------------------------------------------------
Labels == {"run", "cli", "hold", "xchg", "setcpu", "clearcpu", "unlock",
           "popcli", "panic"}

TypeOK ==
  /\ locked \in [Locks -> BOOLEAN]
  /\ owner \in [Locks -> CPUs \union {None}]
  /\ fl_if \in [CPUs -> BOOLEAN]
  /\ ncli \in [CPUs -> Nat]
  /\ intena \in [CPUs -> BOOLEAN]
  /\ mode \in [CPUs -> {"thread", "intr"}]
  /\ pc \in [Ctxs -> Labels]
  /\ lk \in [Ctxs -> Locks]
  /\ eflags \in [Ctxs -> BOOLEAN]
  /\ held \in [Ctxs -> SUBSET Locks]

\* Mutual exclusion: no two threads or interrupt handlers, on the same or on
\* different CPUs, are between acquire() and release() of one lock.
MutualExclusion ==
  \A j, k \in Ctxs : j # k => held[j] \intersect held[k] = {}

\* "disable interrupts to avoid deadlock": no interrupt is taken on a CPU between
\* acquire() and release(), in particular not while another CPU has the lock and
\* this one spins, and popcli() of an inner lock does not enable them.
InterruptsOff ==
  \A c \in CPUs :
    \/ held[<<c, "thread">>] \union held[<<c, "intr">>] # {}
    \/ \E x \in {"thread", "intr"} : pc[<<c, x>>] \notin {"run", "cli", "panic"}
    => ~fl_if[c]

\* "if interrupts are off, then pushcli, popcli leaves them off", and if they are
\* on they are on again, although an interrupt that comes between readeflags()
\* and cli() uses intena too: without a lock a thread runs with interrupts
\* enabled and a handler with interrupts disabled.
InterruptsRestored ==
  \A c \in CPUs :
    LET k == <<c, mode[c]>> IN
    pc[k] \in {"run", "cli"} /\ held[k] = {} => fl_if[c] = (mode[c] = "thread")

\* Callers that keep the lock order never meet a panic of acquire(), release() or
\* popcli(); holding() is never wrong although it reads lk->locked and lk->cpu
\* while other CPUs change them.
NoPanic == \A k \in Ctxs : pc[k] # "panic"

\* No deadlock: whenever some lock is taken, some context gets through a release()
\* later; a handler never spins for a lock that its own CPU's thread holds.
LocksProgress == (\E l \in Locks : locked[l]) ~> (\E k \in Ctxs : pc[k] = "popcli")
=============================================================================
