-------------------------------- MODULE Proc --------------------------------
(***************************************************************************)
(* The process table of xv6 (proc.c), with the two callers that drive it:  *)
(* the timer interrupt (trap.c) and sys_sleep (sysproc.c).                 *)
(*                                                                         *)
(* A process is a slot of ptable.proc; its kernel thread is at pc[p] and   *)
(* runs when some CPU c has cpu[c] = p.  ptable.lock is explicit because   *)
(* it is acquired by one thread and released by another: a process enters  *)
(* sched() holding it, the scheduler thread of the same CPU goes on        *)
(* holding it, and the next process to run releases it.  The other code    *)
(* between an acquire and a release is one step.  Accesses that the code   *)
(* makes without the lock (fork() filling in the new slot, reads of        *)
(* p->killed) are steps of their own.                                      *)
(*                                                                         *)
(* ticks - ticks0 < n in sys_sleep is kept as the number of ticks left, so *)
(* that the counter needs no bound.                                        *)
(***************************************************************************)
EXTENDS Integers

CONSTANTS
  NPROC,     \* size of the process table (param.h)
  NCPU,      \* number of CPUs
  MaxPid,    \* bound: the largest pid allocproc hands out
  MaxSleep,  \* bound: the longest sleep a program asks for, in ticks
  KillPids,  \* the arguments that programs pass to kill()
  Calls      \* Calls[p]: what the program in slot p may do: make these system
             \* calls, and "fault"

Slots == 0 .. NPROC - 1
CPUs  == 0 .. NCPU - 1
None  == -1                 \* a null pointer, or a free lock
initproc == 0               \* userinit() takes the first slot
TICKS == NPROC              \* the sleep channel &ticks; wait() sleeps on the
                            \* address of the caller's own slot

Syscalls == {"fork", "wait", "kill", "sleep", "exit"}
States == {"UNUSED", "EMBRYO", "SLEEPING", "RUNNABLE", "RUNNING", "ZOMBIE"}
Labels == Syscalls \union
          {"none", "user", "sysret", "forkKstack", "forkCopy", "forkRun",
           "forkret", "yieldret", "waitret", "sleepTest", "sleepLock",
           "sleepret", "relock", "trapexit", "zombie", "panic"}

ASSUME ConstantsAssumption ==
  /\ NPROC \in Nat \ {0}
  /\ NCPU \in Nat \ {0}
  /\ MaxPid \in Nat
  /\ MaxSleep \in Nat
  /\ KillPids \subseteq Nat
  /\ Calls \in [Slots -> SUBSET (Syscalls \union {"fault"})]

VARIABLES
  \* struct proc
  state, pid, parent, chan, killed,
  mem,       \* which of p->kstack and p->pgdir point to allocated memory
  nextpid,
  \* locks: the CPU that holds ptable.lock, tickslock
  lock, tlock,
  \* struct cpu
  cpu,       \* c->proc
  scan,      \* the slot the scheduler loop of c looks at next
  irq,       \* where c is in the timer interrupt handler
  \* kernel threads
  pc,
  saved,     \* the label that a timer interrupt of p returns to
  np,        \* fork()'s local np
  left       \* sys_sleep's n - (ticks - ticks0), or 0 when it has elapsed

table == <<state, pid, parent, chan, killed, mem, nextpid>>
local == <<saved, np, left>>
vars == <<table, lock, tlock, cpu, scan, irq, pc, local>>

\* main() has run userinit(): the first process is ready to run.
Init ==
  /\ state = [p \in Slots |-> IF p = initproc THEN "RUNNABLE" ELSE "UNUSED"]
  /\ pid = [p \in Slots |-> IF p = initproc THEN 1 ELSE 0]
  /\ parent = [p \in Slots |-> None]
  /\ chan = [p \in Slots |-> None]
  /\ killed = [p \in Slots |-> FALSE]
  /\ mem = [p \in Slots |-> IF p = initproc THEN {"kstack", "pgdir"} ELSE {}]
  /\ nextpid = 2
  /\ lock = None
  /\ tlock = None
  /\ cpu = [c \in CPUs |-> None]
  /\ scan = [c \in CPUs |-> 0]
  /\ irq = [c \in CPUs |-> "none"]
  /\ pc = [p \in Slots |-> IF p = initproc THEN "forkret" ELSE "none"]
  /\ saved = [p \in Slots |-> "none"]
  /\ np = [p \in Slots |-> None]
  /\ left = [p \in Slots |-> 0]

\* Process p executes kernel or user code on CPU c, outside an interrupt.
Running(p, c) == cpu[c] = p /\ state[p] = "RUNNING" /\ irq[c] = "none"

Goto(p, label) == pc' = [pc EXCEPT ![p] = label]

\* First slot at or after index i that satisfies the state: the order of the
\* loops over ptable.proc.
First(p, i, st) ==
  /\ p >= i
  /\ state[p] = st
  /\ \A q \in Slots : q >= i /\ q < p => state[q] # st

\* wakeup1(ch) applied to the states s.
wakeup1(s, ch) ==
  [p \in Slots |-> IF s[p] = "SLEEPING" /\ chan[p] = ch
                   THEN "RUNNABLE" ELSE s[p]]

-----------------------------------------------------------------------------
(* scheduler() of CPU c.  It runs with c->proc = 0.                        *)

\* sti(), then acquire(&ptable.lock) at the top of the loop.
SchedAcquire(c) ==
  /\ cpu[c] = None /\ irq[c] = "none"
  /\ lock = None
  /\ lock' = c
  /\ scan' = [scan EXCEPT ![c] = 0]
  /\ UNCHANGED <<table, tlock, cpu, irq, pc, local>>

\* (mutant) the scan starts over after every process.
BugScanNext(p) == 0

\* Where the loop goes on after it ran p.
ScanNext(p) == p + 1

\* Switch to the next RUNNABLE process; it resumes at its saved context.
SchedRun(c) ==
  /\ cpu[c] = None /\ lock = c
  /\ \E p \in Slots :
       /\ First(p, scan[c], "RUNNABLE")
       /\ cpu' = [cpu EXCEPT ![c] = p]
       /\ state' = [state EXCEPT ![p] = "RUNNING"]
       /\ scan' = [scan EXCEPT ![c] = ScanNext(p)]
  /\ UNCHANGED <<pid, parent, chan, killed, mem, nextpid, lock, tlock, irq,
                 pc, local>>

\* The loop has passed the last slot.
SchedRelease(c) ==
  /\ cpu[c] = None /\ lock = c
  /\ \A p \in Slots : p >= scan[c] => state[p] # "RUNNABLE"
  /\ lock' = None
  /\ UNCHANGED <<table, tlock, cpu, scan, irq, pc, local>>

\* sched(): the process on c has changed its state and holds ptable.lock; swtch
\* to the scheduler thread, which clears c->proc and continues its loop.
Sched(c) ==
  /\ cpu[c] # None
  /\ lock = c
  /\ state[cpu[c]] # "RUNNING"
  /\ cpu' = [cpu EXCEPT ![c] = None]
  /\ UNCHANGED <<table, lock, tlock, scan, irq, pc, local>>

-----------------------------------------------------------------------------
(* trap(): system calls and their return.                                  *)

Syscall(p, c, s) ==
  /\ Running(p, c) /\ pc[p] = "user"
  /\ s \in Calls[p] \ {"fault"}
  /\ Goto(p, IF killed[p] THEN "exit" ELSE s)
  /\ UNCHANGED <<table, lock, tlock, cpu, scan, irq, local>>

SyscallReturn(p, c) ==
  /\ Running(p, c) /\ pc[p] = "sysret"
  /\ Goto(p, IF killed[p] THEN "exit" ELSE "user")
  /\ UNCHANGED <<table, lock, tlock, cpu, scan, irq, local>>

\* A trap from user space that no case handles: p is killed and exits, with
\* interrupts off ("trapexit") because the trap gate disabled them.
UserFault(p, c) ==
  /\ Running(p, c) /\ pc[p] = "user"
  /\ "fault" \in Calls[p]
  /\ killed' = [killed EXCEPT ![p] = TRUE]
  /\ Goto(p, "trapexit")
  /\ UNCHANGED <<state, pid, parent, chan, mem, nextpid, lock, tlock, cpu,
                 scan, irq, local>>

-----------------------------------------------------------------------------
(* fork() and allocproc().                                                 *)

\* nextpid++
NextPid(n) == n + 1

\* allocproc()'s critical section finds a slot ...
ForkAlloc(p, c) ==
  /\ Running(p, c) /\ pc[p] = "fork"
  /\ lock = None
  /\ nextpid <= MaxPid
  /\ \E q \in Slots :
       /\ First(q, 0, "UNUSED")
       /\ state' = [state EXCEPT ![q] = "EMBRYO"]
       /\ pid' = [pid EXCEPT ![q] = nextpid]
       /\ np' = [np EXCEPT ![p] = q]
  /\ nextpid' = NextPid(nextpid)
  /\ Goto(p, "forkKstack")
  /\ UNCHANGED <<parent, chan, killed, mem, lock, tlock, cpu, scan, irq,
                 saved, left>>

\* ... or returns 0 because there is none.  The bound MaxPid acts as one more
\* such failure.
ForkFull(p, c) ==
  /\ Running(p, c) /\ pc[p] = "fork"
  /\ lock = None
  /\ nextpid > MaxPid \/ \A q \in Slots : state[q] # "UNUSED"
  /\ Goto(p, "sysret")
  /\ UNCHANGED <<table, lock, tlock, cpu, scan, irq, local>>

\* The kernel stack, allocated without the lock; the context starts at forkret.
ForkKstack(p, c) ==
  /\ Running(p, c) /\ pc[p] = "forkKstack"
  /\ mem' = [mem EXCEPT ![np[p]] = {"kstack"}]
  /\ pc' = [pc EXCEPT ![p] = "forkCopy", ![np[p]] = "forkret"]
  /\ UNCHANGED <<state, pid, parent, chan, killed, nextpid, lock, tlock, cpu,
                 scan, irq, local>>

\* (mutant) the kernel stack is not freed when copyuvm() fails.
BugForkFail(p, c) ==
  /\ Running(p, c) /\ pc[p] \in {"forkKstack", "forkCopy"}
  /\ state' = [state EXCEPT ![np[p]] = "UNUSED"]
  /\ np' = [np EXCEPT ![p] = None]
  /\ pc' = [pc EXCEPT ![p] = "sysret", ![np[p]] = "none"]
  /\ UNCHANGED <<pid, parent, chan, killed, mem, nextpid, lock, tlock, cpu,
                 scan, irq, saved, left>>

\* kalloc() failed, or copyuvm() did: give the slot back, without the lock.
ForkFail(p, c) ==
  /\ Running(p, c) /\ pc[p] \in {"forkKstack", "forkCopy"}
  /\ mem' = [mem EXCEPT ![np[p]] = {}]
  /\ state' = [state EXCEPT ![np[p]] = "UNUSED"]
  /\ np' = [np EXCEPT ![p] = None]
  /\ pc' = [pc EXCEPT ![p] = "sysret", ![np[p]] = "none"]
  /\ UNCHANGED <<pid, parent, chan, killed, nextpid, lock, tlock, cpu, scan,
                 irq, saved, left>>

\* copyuvm() succeeded; fill in the child, still without the lock.
ForkCopy(p, c) ==
  /\ Running(p, c) /\ pc[p] = "forkCopy"
  /\ mem' = [mem EXCEPT ![np[p]] = @ \union {"pgdir"}]
  /\ parent' = [parent EXCEPT ![np[p]] = p]
  /\ Goto(p, "forkRun")
  /\ UNCHANGED <<state, pid, chan, killed, nextpid, lock, tlock, cpu, scan,
                 irq, local>>

ForkRun(p, c) ==
  /\ Running(p, c) /\ pc[p] = "forkRun"
  /\ lock = None
  /\ state' = [state EXCEPT ![np[p]] = "RUNNABLE"]
  /\ np' = [np EXCEPT ![p] = None]
  /\ Goto(p, "sysret")
  /\ UNCHANGED <<pid, parent, chan, killed, mem, nextpid, lock, tlock, cpu,
                 scan, irq, saved, left>>

\* The child's first instructions release the lock taken by the scheduler.
Forkret(p, c) ==
  /\ Running(p, c) /\ pc[p] = "forkret"
  /\ lock = c
  /\ lock' = None
  /\ Goto(p, "user")
  /\ UNCHANGED <<table, tlock, cpu, scan, irq, local>>

-----------------------------------------------------------------------------
(* exit() and wait().                                                      *)

\* (mutant) wakeup1(curproc->parent) is missing.
BugExitWakes(p) ==
  IF \E q \in Slots : parent[q] = p /\ state[q] = "ZOMBIE"
  THEN wakeup1(state, initproc) ELSE state

\* The states after exit() of p woke whoever waits for it: its parent, and
\* init when it inherits a zombie.
ExitWakes(p) ==
  LET woken == wakeup1(state, parent[p])
  IN  IF \E q \in Slots : parent[q] = p /\ state[q] = "ZOMBIE"
      THEN wakeup1(woken, initproc) ELSE woken

\* Its children are passed to init.
ExitParents(p) ==
  [q \in Slots |-> IF parent[q] = p THEN initproc ELSE parent[q]]

\* Files and cwd have been closed; the critical section of exit().
Exit(p, c) ==
  /\ Running(p, c) /\ pc[p] \in {"exit", "trapexit"}
  /\ p # initproc
  /\ lock = None
  /\ lock' = c
  /\ state' = [ExitWakes(p) EXCEPT ![p] = "ZOMBIE"]
  /\ parent' = ExitParents(p)
  /\ Goto(p, "zombie")
  /\ UNCHANGED <<pid, chan, killed, mem, nextpid, tlock, cpu, scan, irq, local>>

\* panic("init exiting"): the CPU stops with interrupts off.
ExitInit(p, c) ==
  /\ Running(p, c) /\ pc[p] \in {"exit", "trapexit"}
  /\ p = initproc
  /\ Goto(p, "panic")
  /\ UNCHANGED <<table, lock, tlock, cpu, scan, irq, local>>

\* wait() has ptable.lock: it takes it on entry, and has it back when its
\* sleep returns.
InWait(p, c) ==
  /\ Running(p, c)
  /\ \/ pc[p] = "wait" /\ lock = None
     \/ pc[p] = "waitret" /\ lock = c

\* The first zombie child in table order is freed.
WaitReap(p, c) ==
  /\ InWait(p, c)
  /\ \E q \in Slots :
       /\ parent[q] = p /\ state[q] = "ZOMBIE"
       /\ \A r \in Slots : r < q => ~(parent[r] = p /\ state[r] = "ZOMBIE")
       /\ mem' = [mem EXCEPT ![q] = {}]
       /\ pid' = [pid EXCEPT ![q] = 0]
       /\ parent' = [parent EXCEPT ![q] = None]
       /\ killed' = [killed EXCEPT ![q] = FALSE]
       /\ state' = [state EXCEPT ![q] = "UNUSED"]
       /\ pc' = [pc EXCEPT ![p] = "sysret", ![q] = "none"]
  /\ chan' = [chan EXCEPT ![p] = None]
  /\ lock' = None
  /\ UNCHANGED <<nextpid, tlock, cpu, scan, irq, local>>

NoZombieChild(p) == \A q \in Slots : parent[q] = p => state[q] # "ZOMBIE"
HasChildren(p) == \E q \in Slots : parent[q] = p

\* (mutant) wait() ignores killed.
BugWaitPointless(p) == ~HasChildren(p)

\* "No point waiting if we don't have any children", or when killed.
WaitPointless(p) == ~HasChildren(p) \/ killed[p]

\* Return -1.
WaitFail(p, c) ==
  /\ InWait(p, c)
  /\ NoZombieChild(p)
  /\ WaitPointless(p)
  /\ chan' = [chan EXCEPT ![p] = None]
  /\ lock' = None
  /\ Goto(p, "sysret")
  /\ UNCHANGED <<state, pid, parent, killed, mem, nextpid, tlock, cpu, scan,
                 irq, local>>

\* sleep(curproc, &ptable.lock): the lock stays held up to sched().
WaitSleep(p, c) ==
  /\ InWait(p, c)
  /\ NoZombieChild(p)
  /\ ~WaitPointless(p)
  /\ chan' = [chan EXCEPT ![p] = p]
  /\ state' = [state EXCEPT ![p] = "SLEEPING"]
  /\ lock' = c
  /\ Goto(p, "waitret")
  /\ UNCHANGED <<pid, parent, killed, mem, nextpid, tlock, cpu, scan, irq,
                 local>>

-----------------------------------------------------------------------------
(* kill().                                                                 *)

KillPick(q, n) == pid[q] = n /\ \A r \in Slots : r < q => pid[r] # n

\* The first slot with this pid, whatever its state.
Kill(p, c) ==
  /\ Running(p, c) /\ pc[p] = "kill"
  /\ lock = None
  /\ \E n \in KillPids, q \in Slots :
       /\ KillPick(q, n)
       /\ killed' = [killed EXCEPT ![q] = TRUE]
       /\ state' = [state EXCEPT ![q] = IF @ = "SLEEPING" THEN "RUNNABLE"
                                        ELSE @]
  /\ Goto(p, "sysret")
  /\ UNCHANGED <<pid, parent, chan, mem, nextpid, lock, tlock, cpu, scan, irq,
                 local>>

KillMiss(p, c) ==
  /\ Running(p, c) /\ pc[p] = "kill"
  /\ lock = None
  /\ \E n \in KillPids : \A q \in Slots : pid[q] # n
  /\ Goto(p, "sysret")
  /\ UNCHANGED <<table, lock, tlock, cpu, scan, irq, local>>

-----------------------------------------------------------------------------
(* sys_sleep(): sleep() with a condition lock other than ptable.lock.      *)

SleepEnter(p, c) ==
  /\ Running(p, c) /\ pc[p] = "sleep"
  /\ tlock = None
  /\ tlock' = c
  /\ \E n \in 0 .. MaxSleep : left' = [left EXCEPT ![p] = n]
  /\ Goto(p, "sleepTest")
  /\ UNCHANGED <<table, lock, cpu, scan, irq, saved, np>>

\* (mutant) sleep() releases lk before it acquires ptable.lock.
BugSleepTest(p, c) ==
  /\ Running(p, c) /\ pc[p] = "sleepTest"
  /\ tlock' = None
  /\ IF left[p] = 0 \/ killed[p]
     THEN left' = [left EXCEPT ![p] = 0] /\ Goto(p, "sysret")
     ELSE UNCHANGED left /\ Goto(p, "sleepLock")
  /\ UNCHANGED <<table, lock, cpu, scan, irq, saved, np>>

\* The loop condition, and the check of killed, which ptable.lock does not
\* protect.
SleepTest(p, c) ==
  /\ Running(p, c) /\ pc[p] = "sleepTest"
  /\ IF left[p] = 0 \/ killed[p]
     THEN tlock' = None /\ left' = [left EXCEPT ![p] = 0] /\ Goto(p, "sysret")
     ELSE UNCHANGED <<tlock, left>> /\ Goto(p, "sleepLock")
  /\ UNCHANGED <<table, lock, cpu, scan, irq, saved, np>>

\* sleep(&ticks, &tickslock): ptable.lock is acquired before lk is released.
SleepLock(p, c) ==
  /\ Running(p, c) /\ pc[p] = "sleepLock"
  /\ lock = None
  /\ lock' = c
  /\ tlock' = None
  /\ chan' = [chan EXCEPT ![p] = TICKS]
  /\ state' = [state EXCEPT ![p] = "SLEEPING"]
  /\ Goto(p, "sleepret")
  /\ UNCHANGED <<pid, parent, killed, mem, nextpid, cpu, scan, irq, local>>

\* Back from sched(): tidy up, release ptable.lock ...
SleepReturn(p, c) ==
  /\ Running(p, c) /\ pc[p] = "sleepret"
  /\ lock = c
  /\ lock' = None
  /\ chan' = [chan EXCEPT ![p] = None]
  /\ Goto(p, "relock")
  /\ UNCHANGED <<state, pid, parent, killed, mem, nextpid, tlock, cpu, scan,
                 irq, local>>

\* ... and reacquire lk.
SleepRelock(p, c) ==
  /\ Running(p, c) /\ pc[p] = "relock"
  /\ tlock = None
  /\ tlock' = c
  /\ Goto(p, "sleepTest")
  /\ UNCHANGED <<table, lock, cpu, scan, irq, local>>

-----------------------------------------------------------------------------
(* The timer interrupt, taken when interrupts are enabled: not while the   *)
(* CPU holds a spin lock, is in a handler, or has stopped in panic().      *)

Interruptible(c) ==
  /\ irq[c] = "none" /\ lock # c /\ tlock # c
  /\ cpu[c] # None => pc[cpu[c]] \notin {"trapexit", "panic"}

\* Only CPU 0 counts ticks.
TimerIntr(c) ==
  /\ Interruptible(c)
  /\ irq' = [irq EXCEPT ![c] = IF c = 0 THEN "tick" ELSE "check"]
  /\ UNCHANGED <<table, lock, tlock, cpu, scan, pc, local>>

\* What one tick leaves of a sleep.
Tick(n) == IF n > 0 THEN n - 1 ELSE 0

\* acquire(&tickslock); ticks++
TimerTick(c) ==
  /\ irq[c] = "tick"
  /\ tlock = None
  /\ tlock' = c
  /\ left' = [p \in Slots |-> Tick(left[p])]
  /\ irq' = [irq EXCEPT ![c] = "wake"]
  /\ UNCHANGED <<table, lock, cpu, scan, pc, saved, np>>

\* (mutant) the tick is counted and nobody is told.
BugTimerWake(c) ==
  /\ irq[c] = "wake"
  /\ tlock' = None
  /\ irq' = [irq EXCEPT ![c] = "check"]
  /\ UNCHANGED <<table, lock, cpu, scan, pc, local>>

\* wakeup(&ticks); release(&tickslock)
TimerWake(c) ==
  /\ irq[c] = "wake"
  /\ lock = None
  /\ state' = wakeup1(state, TICKS)
  /\ tlock' = None
  /\ irq' = [irq EXCEPT ![c] = "check"]
  /\ UNCHANGED <<pid, parent, chan, killed, mem, nextpid, lock, cpu, scan, pc,
                 local>>

\* Before yield(): no process to preempt, or one that was interrupted in user
\* space and has been killed, or one that must yield.
TimerCheck(c) ==
  /\ irq[c] = "check"
  /\ \/ /\ cpu[c] = None
        /\ irq' = [irq EXCEPT ![c] = "none"]
        /\ UNCHANGED pc
     \/ /\ cpu[c] # None
        /\ killed[cpu[c]] /\ pc[cpu[c]] = "user"
        /\ irq' = [irq EXCEPT ![c] = "none"]
        /\ Goto(cpu[c], "trapexit")
     \/ /\ cpu[c] # None
        /\ ~(killed[cpu[c]] /\ pc[cpu[c]] = "user")
        /\ irq' = [irq EXCEPT ![c] = "yield"]
        /\ UNCHANGED pc
  /\ UNCHANGED <<table, lock, tlock, cpu, scan, local>>

\* (mutant) the state changes before ptable.lock is acquired.
BugYield(c) ==
  /\ irq[c] = "yield"
  /\ state' = [state EXCEPT ![cpu[c]] = "RUNNABLE"]
  /\ saved' = [saved EXCEPT ![cpu[c]] = pc[cpu[c]]]
  /\ Goto(cpu[c], "yieldret")
  /\ irq' = [irq EXCEPT ![c] = "none"]
  /\ UNCHANGED <<pid, parent, chan, killed, mem, nextpid, lock, tlock, cpu,
                 scan, np, left>>

\* yield(): acquire(&ptable.lock), state = RUNNABLE, sched().
Yield(c) ==
  /\ irq[c] = "yield"
  /\ lock = None
  /\ lock' = c
  /\ state' = [state EXCEPT ![cpu[c]] = "RUNNABLE"]
  /\ saved' = [saved EXCEPT ![cpu[c]] = pc[cpu[c]]]
  /\ Goto(cpu[c], "yieldret")
  /\ irq' = [irq EXCEPT ![c] = "none"]
  /\ UNCHANGED <<pid, parent, chan, killed, mem, nextpid, tlock, cpu, scan,
                 np, left>>

\* yield() returns: release the lock, check killed once more, return from the
\* interrupt.
YieldReturn(p, c) ==
  /\ Running(p, c) /\ pc[p] = "yieldret"
  /\ lock = c
  /\ lock' = None
  /\ Goto(p, IF killed[p] /\ saved[p] = "user" THEN "trapexit" ELSE saved[p])
  /\ saved' = [saved EXCEPT ![p] = "none"]
  /\ UNCHANGED <<table, tlock, cpu, scan, irq, np, left>>

-----------------------------------------------------------------------------
Scheduler(c) ==
  \/ SchedAcquire(c) \/ SchedRun(c) \/ SchedRelease(c) \/ Sched(c)

Handler(c) ==
  \/ TimerTick(c) \/ TimerWake(c) \/ TimerCheck(c) \/ Yield(c)

ForkCall(p, c) ==
  \/ ForkAlloc(p, c) \/ ForkFull(p, c) \/ ForkKstack(p, c)
  \/ ForkFail(p, c) \/ ForkCopy(p, c) \/ ForkRun(p, c)

ExitWait(p, c) ==
  \/ Exit(p, c) \/ ExitInit(p, c)
  \/ WaitReap(p, c) \/ WaitFail(p, c) \/ WaitSleep(p, c)

KillSleep(p, c) ==
  \/ Kill(p, c) \/ KillMiss(p, c)
  \/ SleepEnter(p, c) \/ SleepTest(p, c) \/ SleepLock(p, c)
  \/ SleepReturn(p, c) \/ SleepRelock(p, c)

\* Steps that a process takes on its own once it is in the kernel.
Kernel(p, c) ==
  \/ SyscallReturn(p, c) \/ Forkret(p, c)
  \/ ForkCall(p, c) \/ ExitWait(p, c) \/ KillSleep(p, c)

User(p, c) == UserFault(p, c) \/ \E s \in Syscalls : Syscall(p, c, s)

Next ==
  \E c \in CPUs :
    \/ Scheduler(c)
    \/ TimerIntr(c)
    \/ Handler(c)
    \/ \E p \in Slots : User(p, c) \/ Kernel(p, c) \/ YieldReturn(p, c)

Spec == Init /\ [][Next]_vars

(***************************************************************************)
(* Fairness, for one CPU, where no thread ever spins on a lock that others *)
(* keep taking (the Makefile runs the kernel with CPUS := 1).  A handler   *)
(* in progress finishes.  Handlers are shorter than the timer period and a *)
(* time slice is longer than a step, so a thread that is given the CPU     *)
(* again and again gets its step done.  The local APIC keeps a timer       *)
(* interrupt pending until interrupts are enabled, so the handler runs if  *)
(* they are enabled again and again.  The main loop of init.c calls wait() *)
(* over and over.                                                          *)
(***************************************************************************)
Fairness ==
  /\ \A c \in CPUs :
       /\ SF_vars(Scheduler(c))
       /\ WF_vars(Handler(c))
       /\ SF_vars(TimerIntr(c))
       /\ \A p \in Slots : SF_vars(Kernel(p, c)) /\ WF_vars(YieldReturn(p, c))
  /\ SF_vars(\E c \in CPUs : Syscall(initproc, c, "wait"))

FairSpec == Spec /\ Fairness

-----------------------------------------------------------------------------
TypeOK ==
  /\ state \in [Slots -> States]
  /\ pid \in [Slots -> Nat]
  /\ parent \in [Slots -> Slots \union {None}]
  /\ chan \in [Slots -> Slots \union {None, TICKS}]
  /\ killed \in [Slots -> BOOLEAN]
  /\ mem \in [Slots -> SUBSET {"kstack", "pgdir"}]
  /\ nextpid \in Nat
  /\ lock \in CPUs \union {None}
  /\ tlock \in CPUs \union {None}
  /\ cpu \in [CPUs -> Slots \union {None}]
  /\ scan \in [CPUs -> 0 .. NPROC]
  /\ irq \in [CPUs -> {"none", "tick", "wake", "check", "yield"}]
  /\ pc \in [Slots -> Labels]
  /\ saved \in [Slots -> Labels]
  /\ np \in [Slots -> Slots \union {None}]
  /\ left \in [Slots -> 0 .. MaxSleep]

\* No process runs on two CPUs, and what a CPU runs is RUNNING except between
\* the change of its state and swtch, when that CPU holds ptable.lock: the
\* checks "sched ptable.lock" and "sched running" of sched() never fire, and no
\* other scheduler can pick a process whose stack is still in use.
OneCpuPerProc ==
  /\ \A c, d \in CPUs : cpu[c] # None /\ cpu[c] = cpu[d] => c = d
  /\ \A c \in CPUs : cpu[c] # None /\ state[cpu[c]] # "RUNNING" => lock = c
  /\ \A p \in Slots : state[p] = "RUNNING" => \E c \in CPUs : cpu[c] = p

\* Memory of a process: whatever can run or may still be on a CPU has its
\* kernel stack and page table (wait() frees those of a zombie that has left
\* its stack), and a free slot owns nothing (no path of fork() leaks).
ProcMemory ==
  /\ \A p \in Slots : state[p] = "UNUSED" => mem[p] = {}
  /\ \A p \in Slots : state[p] \notin {"UNUSED", "EMBRYO"}
                        => mem[p] = {"kstack", "pgdir"}
  /\ \A c \in CPUs : cpu[c] # None => mem[cpu[c]] = {"kstack", "pgdir"}

\* No lost wakeup between exit() and wait(): a process asleep in wait() has a
\* child, none of its children is a zombie, and it has not been killed.
NoMissedExit ==
  \A p \in Slots : state[p] = "SLEEPING" /\ pc[p] = "waitret" =>
    /\ chan[p] = p
    /\ HasChildren(p) /\ NoZombieChild(p)
    /\ ~killed[p]

\* Every process that fork() completed can be reaped: its parent is a process
\* that has not exited, because exit() hands children over to init.
ParentAlive ==
  \A p \in Slots :
    /\ parent[p] # None => state[parent[p]] \notin {"UNUSED", "EMBRYO", "ZOMBIE"}
    /\ state[p] \notin {"UNUSED", "EMBRYO"} /\ p # initproc => parent[p] # None

\* No lost wakeup between the timer and sys_sleep(): whoever is asleep on
\* &ticks although its time has passed is about to be woken by the handler that
\* counted the tick.
NoOversleep ==
  \A p \in Slots : state[p] = "SLEEPING" /\ chan[p] = TICKS /\ left[p] = 0
    => \E c \in CPUs : irq[c] = "wake"

\* kill(pid) cannot hit the wrong process: two slots in use never share a pid.
UniquePids ==
  \A p, q \in Slots : p # q /\ state[p] # "UNUSED" /\ state[q] # "UNUSED"
    => pid[p] # pid[q]

\* The scheduler starves nobody: a process that is RUNNABLE is run.
RunnableRuns == \A p \in Slots : state[p] = "RUNNABLE" ~> state[p] = "RUNNING"

\* An orphan does not stay a zombie: init's wait() loop reaps it.
OrphansReaped ==
  \A p \in Slots : state[p] = "ZOMBIE" /\ parent[p] = initproc
                      ~> state[p] = "UNUSED"

\* A killed process exits, wherever kill() found it: in user space, in a system
\* call or asleep.
KilledExits ==
  \A p \in Slots \ {initproc} :
    killed[p] /\ state[p] # "UNUSED" ~> state[p] \in {"ZOMBIE", "UNUSED"}

\* sleep(n) returns.
SleepEnds == \A p \in Slots : pc[p] = "sleepTest" ~> pc[p] \in {"sysret", "none"}
=============================================================================
