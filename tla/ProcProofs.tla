----------------------------- MODULE ProcProofs -----------------------------
(***************************************************************************)
(* The safety properties of Proc hold for every number of slots, CPUs and  *)
(* programs.  They are not inductive alone: they rest on where a thread    *)
(* may be (CtxInv), on who may touch the slot that fork() fills in without *)
(* ptable.lock (ForkInv) and on the two locks.  One lemma for each part of *)
(* the invariant shows that every step keeps it: most steps leave alone    *)
(* what the part reads, and the others are taken one by one.               *)
(***************************************************************************)
EXTENDS Proc, TLAPS

\* Labels at which a thread is given the CPU by swtch, with ptable.lock held.
Resume == {"forkret", "yieldret", "waitret", "sleepret"}

\* Labels at which a timer interrupt can find a thread.
Preemptible == Syscalls \union
  {"user", "sysret", "forkKstack", "forkCopy", "forkRun", "relock"}

Forking == {"forkKstack", "forkCopy", "forkRun"}

\* What p does next, seen through a timer interrupt in progress.
At(p) == IF pc[p] = "yieldret" THEN saved[p] ELSE pc[p]

\* The control state of a slot fits its state, and init lives for ever.
CtxInv ==
  /\ \A p \in Slots :
       /\ state[p] = "UNUSED" => pc[p] = "none"
       /\ state[p] = "EMBRYO" => pc[p] \in {"none", "forkret"}
       /\ state[p] = "ZOMBIE" => pc[p] = "zombie"
       /\ state[p] = "RUNNABLE" => pc[p] \in Resume
       /\ state[p] = "SLEEPING" => \/ pc[p] = "waitret" /\ chan[p] = p
                                   \/ pc[p] = "sleepret" /\ chan[p] = TICKS
       /\ state[p] = "RUNNING" => pc[p] \notin {"none", "zombie"}
       /\ pc[p] = "yieldret" => saved[p] \in Preemptible
  /\ state[initproc] \in {"RUNNABLE", "RUNNING", "SLEEPING"}

\* A CPU holds ptable.lock exactly at the resume points of what it runs; an
\* interrupt handler runs with it free, over a preemptible thread.
LockInv ==
  \A c \in CPUs :
    /\ cpu[c] # None /\ state[cpu[c]] = "RUNNING"
         => (lock = c <=> pc[cpu[c]] \in Resume)
    /\ irq[c] # "none" => lock # c
    /\ irq[c] # "none" /\ cpu[c] # None => pc[cpu[c]] \in Preemptible
    /\ irq[c] = "yield" => cpu[c] # None

\* tickslock is held from the test of the deadline to sleep(), and by the
\* handler from ticks++ to the end of wakeup(&ticks).
TicksInv ==
  /\ \A c \in CPUs :
       /\ irq[c] = "wake" => tlock = c
       /\ cpu[c] # None /\ pc[cpu[c]] \in {"sleepTest", "sleepLock"} => tlock = c
  /\ \A p \in Slots : pc[p] = "sleepLock" => left[p] # 0

\* The slot that a fork() of p fills in, and how far it is.
FillInv(p) ==
  /\ At(p) \in Forking <=> np[p] # None
  /\ np[p] # None => state[np[p]] = "EMBRYO"
  /\ At(p) = "forkKstack" => mem[np[p]] = {} /\ parent[np[p]] = None
  /\ At(p) = "forkCopy" => /\ mem[np[p]] = {"kstack"}
                           /\ parent[np[p]] = None
                           /\ pc[np[p]] = "forkret"
  /\ At(p) = "forkRun" => /\ mem[np[p]] = {"kstack", "pgdir"}
                          /\ parent[np[p]] = p
                          /\ pc[np[p]] = "forkret"

\* Each fork() has a slot of its own until the slot is RUNNABLE.
ForkInv ==
  /\ \A p, q \in Slots : np[p] # None /\ np[p] = np[q] => p = q
  /\ \A p \in Slots : FillInv(p)

\* A free slot has no parent, init has none, nobody is its own.
TreeInv ==
  /\ \A p \in Slots : state[p] = "UNUSED" => parent[p] = None
  /\ \A p \in Slots : parent[p] # p
  /\ parent[initproc] = None

\* Pids are handed out in order.
PidInv == \A p \in Slots : pid[p] < nextpid

IInv ==
  /\ TypeOK /\ CtxInv /\ LockInv /\ TicksInv /\ ForkInv /\ TreeInv /\ PidInv
  /\ OneCpuPerProc /\ ProcMemory /\ ParentAlive /\ NoMissedExit
  /\ NoOversleep /\ UniquePids

-----------------------------------------------------------------------------
\* Null is no slot and no CPU, &ticks is no slot, init is one.
LEMMA Basics ==
  /\ initproc \in Slots /\ None \notin Slots /\ None \notin CPUs
  /\ TICKS \notin Slots /\ TICKS # None
BY ConstantsAssumption DEF initproc, Slots, CPUs, None, TICKS

\* What a thread inside fork() knows of the slot that it fills in.
LEMMA NewSlot ==
  ASSUME IInv, NEW p \in Slots, pc[p] \in Forking
  PROVE  /\ np[p] \in Slots /\ state[np[p]] = "EMBRYO"
         /\ pc[p] = "forkKstack" => mem[np[p]] = {} /\ parent[np[p]] = None
         /\ pc[p] = "forkCopy" => /\ mem[np[p]] = {"kstack"}
                                  /\ parent[np[p]] = None
                                  /\ pc[np[p]] = "forkret"
         /\ pc[p] = "forkRun" => /\ mem[np[p]] = {"kstack", "pgdir"}
                                 /\ parent[np[p]] = p
                                 /\ pc[np[p]] = "forkret"
<1>1. At(p) = pc[p]
  BY DEF At, Forking
<1>2. np[p] \in Slots \union {None} /\ FillInv(p)
  BY Zenon DEF IInv, TypeOK, ForkInv
<1>3. np[p] # None
  BY Zenon, <1>1, <1>2 DEF FillInv
<1>4. QED
  BY Zenon, <1>1, <1>2, <1>3 DEF FillInv

\* The type invariant is inductive.
LEMMA TypeOKStep == TypeOK /\ [Next]_vars => TypeOK'
<1> SUFFICES ASSUME TypeOK, [Next]_vars PROVE TypeOK'
  OBVIOUS
<1>1. CASE UNCHANGED vars
  BY Zenon, <1>1, ConstantsAssumption DEF vars, TypeOK, table, local, Running,
      Goto
<1>2. ASSUME NEW c \in CPUs, Scheduler(c)
      PROVE  TypeOK'
  <2>1. CASE SchedRun(c)
    <3>1. PICK p \in Slots :
            /\ First(p, scan[c], "RUNNABLE")
            /\ cpu' = [cpu EXCEPT ![c] = p]
            /\ state' = [state EXCEPT ![p] = "RUNNING"]
            /\ scan' = [scan EXCEPT ![c] = ScanNext(p)]
      BY Zenon, <2>1 DEF SchedRun
    <3>2. ScanNext(p) \in 0 .. NPROC
      BY ConstantsAssumption DEF ScanNext, Slots
    <3>3. QED
      BY Zenon, <2>1, <3>1, <3>2 DEF SchedRun, States, TypeOK, table, local
  <2>2. CASE SchedAcquire(c)
    BY <2>2, ConstantsAssumption DEF SchedAcquire, TypeOK, table,
        local, Running, Goto
  <2>3. CASE SchedRelease(c)
    BY Zenon, <2>3, ConstantsAssumption DEF SchedRelease, TypeOK, table,
        local, Running, Goto
  <2>4. CASE Sched(c)
    BY Zenon, <2>4, ConstantsAssumption DEF Sched, TypeOK, table, local,
        Running, Goto
  <2>5. QED
    BY Zenon, <1>2, <2>1, <2>2, <2>3, <2>4 DEF Scheduler
<1>3. ASSUME NEW c \in CPUs, TimerIntr(c) \/ Handler(c)
      PROVE  TypeOK'
  <2>1. CASE TimerTick(c)
    BY <2>1, ConstantsAssumption DEF TimerTick, Tick, TypeOK, table,
        local, Running, Goto
  <2>2. CASE TimerIntr(c)
    BY Zenon, <2>2, ConstantsAssumption DEF TimerIntr, Interruptible, TypeOK,
        table, local, Running, Goto
  <2>3. CASE TimerWake(c)
    BY Zenon, <2>3, ConstantsAssumption DEF TimerWake, wakeup1, States,
        TypeOK, table, local, Running, Goto
  <2>4. CASE TimerCheck(c)
    BY ZenonT(60), <2>4, ConstantsAssumption DEF TimerCheck, Labels, TypeOK,
        table, local, Running, Goto
  <2>5. CASE Yield(c)
    BY Zenon, <2>5, ConstantsAssumption DEF Yield, States, Labels, TypeOK,
        table, local, Running, Goto
  <2>6. QED
    BY Zenon, <1>3, <2>1, <2>2, <2>3, <2>4, <2>5 DEF Handler
<1>4. ASSUME NEW c \in CPUs, NEW p \in Slots, User(p, c)
      PROVE  TypeOK'
  <2>1. CASE \E s \in Syscalls : Syscall(p, c, s)
    BY <2>1, ConstantsAssumption DEF Syscall, Labels, Syscalls,
        TypeOK, table, local, Running, Goto
  <2>2. CASE UserFault(p, c)
    BY Zenon, <2>2, ConstantsAssumption DEF UserFault, Labels, TypeOK, table,
        local, Running, Goto
  <2>3. QED
    BY Zenon, <1>4, <2>1, <2>2 DEF User
<1>5. ASSUME NEW c \in CPUs, NEW p \in Slots,
             SyscallReturn(p, c) \/ Forkret(p, c) \/ YieldReturn(p, c)
      PROVE  TypeOK'
  <2>1. CASE SyscallReturn(p, c)
    BY Zenon, <2>1, ConstantsAssumption DEF SyscallReturn, Labels, Syscalls,
        TypeOK, table, local, Running, Goto
  <2>2. CASE Forkret(p, c)
    BY Zenon, <2>2, ConstantsAssumption DEF Forkret, Labels, TypeOK, table,
        local, Running, Goto
  <2>3. CASE YieldReturn(p, c)
    BY Zenon, <2>3, ConstantsAssumption DEF YieldReturn, Labels, TypeOK,
        table, local, Running, Goto
  <2>4. QED
    BY Zenon, <1>5, <2>1, <2>2, <2>3
<1>6. ASSUME NEW c \in CPUs, NEW p \in Slots, ForkCall(p, c)
      PROVE  TypeOK'
  <2>1. CASE ForkAlloc(p, c)
    BY <2>1, ConstantsAssumption DEF ForkAlloc, NextPid, First,
        Labels, States, TypeOK, table, local, Running, Goto
  <2>2. CASE ForkFull(p, c)
    BY Zenon, <2>2, ConstantsAssumption DEF ForkFull, Labels, TypeOK, table,
        local, Running, Goto
  <2>3. CASE ForkKstack(p, c)
    BY Zenon, <2>3, ConstantsAssumption DEF ForkKstack, Labels, TypeOK, table,
        local, Running, Goto
  <2>4. CASE ForkFail(p, c)
    BY Zenon, <2>4, ConstantsAssumption DEF ForkFail, Labels, States, TypeOK,
        table, local, Running, Goto
  <2>5. CASE ForkCopy(p, c)
    BY Zenon, <2>5, ConstantsAssumption DEF ForkCopy, Labels, TypeOK, table,
        local, Running, Goto
  <2>6. CASE ForkRun(p, c)
    BY Zenon, <2>6, ConstantsAssumption DEF ForkRun, Labels, States, TypeOK,
        table, local, Running, Goto
  <2>7. QED
    BY Zenon, <1>6, <2>1, <2>2, <2>3, <2>4, <2>5, <2>6 DEF ForkCall
<1>7. ASSUME NEW c \in CPUs, NEW p \in Slots, ExitWait(p, c)
      PROVE  TypeOK'
  <2>1. CASE WaitReap(p, c)
    BY <2>1, ConstantsAssumption DEF WaitReap, InWait, Labels,
        States, TypeOK, table, local, Running, Goto
  <2>2. CASE Exit(p, c)
    BY Zenon, <2>2, ConstantsAssumption, Basics DEF Exit, ExitWakes, wakeup1,
        ExitParents, Labels, States, TypeOK, table, local, Running, Goto
  <2>3. CASE ExitInit(p, c)
    BY Zenon, <2>3, ConstantsAssumption DEF ExitInit, Labels, TypeOK, table,
        local, Running, Goto
  <2>4. CASE WaitFail(p, c)
    BY Zenon, <2>4, ConstantsAssumption DEF WaitFail, InWait, Labels, TypeOK,
        table, local, Running, Goto
  <2>5. CASE WaitSleep(p, c)
    BY Zenon, <2>5, ConstantsAssumption DEF WaitSleep, InWait, Labels, States,
        TypeOK, table, local, Running, Goto
  <2>6. QED
    BY Zenon, <1>7, <2>1, <2>2, <2>3, <2>4, <2>5 DEF ExitWait
<1>8. ASSUME NEW c \in CPUs, NEW p \in Slots, KillSleep(p, c)
      PROVE  TypeOK'
  <2>1. CASE Kill(p, c)
    BY <2>1, ConstantsAssumption DEF Kill, KillPick, Labels, States,
        TypeOK, table, local, Running, Goto
  <2>2. CASE \/ SleepEnter(p, c) \/ SleepTest(p, c)
    BY <2>2, ConstantsAssumption DEF SleepEnter, Labels, SleepTest,
        TypeOK, table, local, Running, Goto
  <2>3. CASE \/ KillMiss(p, c) \/ SleepLock(p, c) \/ SleepReturn(p, c)
             \/ SleepRelock(p, c)
    BY ZenonT(60), <2>3, ConstantsAssumption DEF KillMiss, Labels, SleepLock,
        States, SleepReturn, SleepRelock, TypeOK, table, local, Running, Goto
  <2>4. QED
    BY Zenon, <1>8, <2>1, <2>2, <2>3 DEF KillSleep
<1>9. QED
  BY Zenon, <1>1, <1>2, <1>3, <1>4, <1>5, <1>6, <1>7, <1>8 DEF Next, Kernel

\* A process enters and leaves a CPU under ptable.lock.
LEMMA OneCpuStep == IInv /\ [Next]_vars => OneCpuPerProc'
<1> SUFFICES ASSUME IInv, [Next]_vars PROVE OneCpuPerProc'
  OBVIOUS
<1>1. /\ state \in [Slots -> States]
      /\ cpu \in [CPUs -> Slots \union {None}]
      /\ np \in [Slots -> Slots \union {None}]
  BY Zenon DEF IInv, TypeOK
<1>2. OneCpuPerProc /\ LockInv /\ ForkInv
  BY Zenon DEF IInv
<1>3. ASSUME UNCHANGED <<cpu, state, lock>>
      PROVE  OneCpuPerProc'
  BY Zenon, <1>2, <1>3 DEF OneCpuPerProc
<1>4. CASE UNCHANGED vars
  BY Zenon, <1>3, <1>4 DEF vars, table
<1>5. ASSUME NEW c \in CPUs, Scheduler(c)
      PROVE  OneCpuPerProc'
  <2>1. CASE SchedAcquire(c) \/ SchedRelease(c)
    BY <2>1, Basics, <1>1, <1>2 DEF SchedAcquire, SchedRelease, OneCpuPerProc,
        table
  <2>2. CASE SchedRun(c)
    BY <2>2, Basics, <1>1, <1>2 DEF SchedRun, First, OneCpuPerProc
  <2>3. CASE Sched(c)
    BY Zenon, <2>3, Basics, <1>1, <1>2 DEF Sched, OneCpuPerProc, table
  <2>4. QED
    BY Zenon, <1>5, <2>1, <2>2, <2>3 DEF Scheduler
<1>6. ASSUME NEW c \in CPUs, TimerIntr(c) \/ Handler(c)
      PROVE  OneCpuPerProc'
  <2>1. CASE TimerWake(c)
    BY Zenon, <2>1, Basics, <1>1, <1>2 DEF TimerWake, wakeup1, OneCpuPerProc
  <2>2. CASE Yield(c)
    BY <2>2, Basics, <1>1, <1>2 DEF Yield, OneCpuPerProc, LockInv
  <2>3. QED
    BY Zenon, <1>3, <1>6, <2>1, <2>2 DEF Handler, TimerIntr, TimerTick,
        TimerCheck, table
<1>7. ASSUME NEW c \in CPUs, NEW p \in Slots,
             User(p, c) \/ SyscallReturn(p, c)
      PROVE  OneCpuPerProc'
  BY Zenon, <1>3, <1>7 DEF User, Syscall, UserFault, SyscallReturn, table
<1>8. ASSUME NEW c \in CPUs, NEW p \in Slots,
             Forkret(p, c) \/ YieldReturn(p, c)
      PROVE  OneCpuPerProc'
  BY <1>8, Basics, <1>1, <1>2 DEF Forkret, YieldReturn, Running,
      OneCpuPerProc, table
<1>9. ASSUME NEW c \in CPUs, NEW p \in Slots, ForkCall(p, c)
      PROVE  OneCpuPerProc'
  <2>1. CASE ForkAlloc(p, c)
    BY <2>1, Basics, <1>1, <1>2 DEF ForkAlloc, First, OneCpuPerProc
  <2>2. ASSUME ForkFail(p, c) \/ ForkRun(p, c)
        PROVE  np[p] \in Slots /\ state[np[p]] = "EMBRYO"
    BY Zenon, <2>2, NewSlot DEF ForkFail, ForkRun, Forking
  <2>3. CASE ForkFail(p, c)
    BY Zenon, <2>2, <2>3, Basics, <1>1, <1>2 DEF ForkFail, OneCpuPerProc
  <2>4. CASE ForkRun(p, c)
    BY Zenon, <2>2, <2>4, Basics, <1>1, <1>2 DEF ForkRun, OneCpuPerProc
  <2>5. QED
    BY Zenon, <1>3, <1>9, <2>1, <2>3, <2>4 DEF ForkCall, ForkFull, ForkKstack,
        ForkCopy, table
<1>10. ASSUME NEW c \in CPUs, NEW p \in Slots, ExitWait(p, c)
       PROVE  OneCpuPerProc'
  <2>1. CASE Exit(p, c)
    BY <2>1, Basics, <1>1, <1>2 DEF Exit, ExitWakes, wakeup1, Running,
        OneCpuPerProc
  <2>2. CASE WaitReap(p, c)
    BY <2>2, Basics, <1>1, <1>2 DEF WaitReap, InWait, Running, OneCpuPerProc
  <2>3. CASE WaitFail(p, c) \/ WaitSleep(p, c)
    BY <2>3, Basics, <1>1, <1>2 DEF WaitFail, WaitSleep, InWait, Running,
        OneCpuPerProc
  <2>4. QED
    BY Zenon, <1>3, <1>10, <2>1, <2>2, <2>3 DEF ExitWait, ExitInit, table
<1>11. ASSUME NEW c \in CPUs, NEW p \in Slots, KillSleep(p, c)
       PROVE  OneCpuPerProc'
  <2>1. CASE Kill(p, c)
    BY <2>1, Basics, <1>1, <1>2 DEF Kill, OneCpuPerProc
  <2>2. CASE SleepLock(p, c) \/ SleepReturn(p, c)
    BY <2>2, Basics, <1>1, <1>2 DEF SleepLock, SleepReturn, Running,
        OneCpuPerProc
  <2>3. QED
    BY Zenon, <1>3, <1>11, <2>1, <2>2 DEF KillSleep, KillMiss, SleepEnter,
        SleepTest, SleepRelock, table
<1>12. QED
  BY Zenon, <1>4, <1>5, <1>6, <1>7, <1>8, <1>9, <1>10, <1>11 DEF Next, Kernel

\* ptable.lock is held where the code expects it.
LEMMA LockStep == IInv /\ [Next]_vars => LockInv'
<1> SUFFICES ASSUME IInv, [Next]_vars PROVE LockInv'
  OBVIOUS
<1>1. /\ state \in [Slots -> States]
      /\ cpu \in [CPUs -> Slots \union {None}]
      /\ irq \in [CPUs -> {"none", "tick", "wake", "check", "yield"}]
      /\ pc \in [Slots -> Labels]
      /\ saved \in [Slots -> Labels]
      /\ np \in [Slots -> Slots \union {None}]
  BY Zenon DEF IInv, TypeOK
<1>2. OneCpuPerProc /\ LockInv /\ ForkInv /\ CtxInv
  BY Zenon DEF IInv
<1>3. /\ {"user", "exit", "trapexit", "panic", "forkRun", "sysret", "zombie",
          "sleepTest", "sleepLock", "relock"} \intersect Resume = {}
      /\ Syscalls \intersect Resume = {} /\ Preemptible \intersect Resume = {}
  BY DEF Resume, Preemptible, Syscalls
<1>4. ASSUME NEW c \in CPUs, NEW p \in Slots, NEW l, Running(p, c),
             UNCHANGED <<cpu, state, lock, irq>>, Goto(p, l),
             pc[p] \notin Resume, l \notin Resume
      PROVE  LockInv'
  BY <1>4, Basics, <1>1, <1>2 DEF LockInv, Running, Goto, OneCpuPerProc
<1>5. ASSUME NEW c \in CPUs, NEW p \in Slots, NEW l, Running(p, c),
             UNCHANGED <<cpu, state, irq>>, Goto(p, l),
             lock = c, lock' = None, l \notin Resume
      PROVE  LockInv'
  BY <1>5, Basics, <1>1, <1>2 DEF LockInv, Running, Goto, OneCpuPerProc
<1>6. CASE UNCHANGED vars
  BY Zenon, <1>2, <1>6 DEF LockInv, vars, table
<1>7. ASSUME NEW c \in CPUs, Scheduler(c)
      PROVE  LockInv'
  <2>1. CASE SchedAcquire(c) \/ SchedRelease(c)
    BY Zenon, <2>1, Basics, <1>1, <1>2 DEF SchedAcquire, SchedRelease, LockInv,
        table
  <2>2. CASE SchedRun(c)
    BY <2>2, Basics, <1>1, <1>2 DEF SchedRun, First, LockInv, OneCpuPerProc,
        CtxInv
  <2>3. CASE Sched(c)
    BY Zenon, <2>3, Basics, <1>1, <1>2 DEF Sched, LockInv, table
  <2>4. QED
    BY Zenon, <1>7, <2>1, <2>2, <2>3 DEF Scheduler
<1>8. ASSUME NEW c \in CPUs, TimerIntr(c) \/ Handler(c)
      PROVE  LockInv'
  <2>1. CASE TimerIntr(c)
    <3>1. cpu[c] # None
            => pc[cpu[c]] \in Preemptible
      BY <2>1, Basics, <1>1, <1>2 DEF TimerIntr, Interruptible, LockInv,
          OneCpuPerProc, CtxInv, TicksInv, IInv, Labels, Preemptible, Resume
    <3>2. QED
      BY Zenon, <2>1, <3>1, Basics, <1>1, <1>2 DEF TimerIntr, Interruptible,
          LockInv,
          table
  <2>2. CASE TimerTick(c)
    BY Zenon, <2>2, Basics, <1>1, <1>2 DEF TimerTick, LockInv, table
  <2>3. CASE TimerWake(c)
    BY Zenon, <2>3, Basics, <1>1, <1>2 DEF TimerWake, wakeup1, LockInv,
        OneCpuPerProc
  <2>4. CASE TimerCheck(c)
    BY <2>4, <1>3, Basics, <1>1, <1>2 DEF TimerCheck, LockInv, OneCpuPerProc,
        Goto, table
  <2>5. CASE Yield(c)
    BY <2>5, Basics, <1>1, <1>2 DEF Yield, LockInv, OneCpuPerProc, Goto
  <2>6. QED
    BY Zenon, <1>8, <2>1, <2>2, <2>3, <2>4, <2>5 DEF Handler
<1>9. ASSUME NEW c \in CPUs, NEW p \in Slots,
             User(p, c) \/ SyscallReturn(p, c)
      PROVE  LockInv'
  <2>1. \E l : l \notin Resume /\ Goto(p, l)
    BY Zenon, <1>3, <1>9 DEF User, Syscall, UserFault, SyscallReturn
  <2>2. Running(p, c) /\ pc[p] \notin Resume /\ UNCHANGED <<cpu, state, lock, irq>>
    BY Zenon, <1>3, <1>9 DEF User, Syscall, UserFault, SyscallReturn, table
  <2>3. QED
    BY Zenon, <1>4, <2>1, <2>2
<1>10. ASSUME NEW c \in CPUs, NEW p \in Slots,
              Forkret(p, c) \/ YieldReturn(p, c)
       PROVE  LockInv'
  <2>1. \E l : l \notin Resume /\ Goto(p, l)
    <3>1. CASE Forkret(p, c)
      BY Zenon, <1>3, <3>1 DEF Forkret
    <3>2. CASE YieldReturn(p, c)
      <4>1. saved[p] \notin Resume
        BY Zenon, <1>2, <1>3, <3>2 DEF YieldReturn, CtxInv
      <4>2. QED
        BY Zenon, <1>3, <3>2, <4>1 DEF YieldReturn
    <3>3. QED
      BY Zenon, <1>10, <3>1, <3>2
  <2>2. /\ Running(p, c) /\ UNCHANGED <<cpu, state, irq>>
        /\ lock = c /\ lock' = None
    BY Zenon, <1>10 DEF Forkret, YieldReturn, table
  <2>3. QED
    BY Zenon, <1>5, <2>1, <2>2
<1>11. ASSUME NEW c \in CPUs, NEW p \in Slots, ForkCall(p, c)
       PROVE  LockInv'
  <2>1. CASE ForkFull(p, c) \/ ForkCopy(p, c)
    BY Zenon, <1>4, <2>1 DEF ForkFull, ForkCopy, Resume, table
  <2>2. CASE ForkAlloc(p, c)
    BY <2>2, Basics, <1>1, <1>2 DEF ForkAlloc, First, Running, Goto, LockInv,
        OneCpuPerProc, Resume, Preemptible
  <2>3. ASSUME ForkKstack(p, c) \/ ForkFail(p, c) \/ ForkRun(p, c)
        PROVE  np[p] \in Slots /\ state[np[p]] = "EMBRYO"
    BY Zenon, <2>3, NewSlot DEF ForkKstack, ForkFail, ForkRun, Forking
  <2>4. CASE ForkKstack(p, c)
    BY <2>3, <2>4, Basics, <1>1, <1>2 DEF ForkKstack, Running, LockInv,
        OneCpuPerProc, Resume
  <2>5. CASE ForkFail(p, c)
    BY <2>3, <2>5, Basics, <1>1, <1>2 DEF ForkFail, Running, LockInv,
        OneCpuPerProc, Resume
  <2>6. CASE ForkRun(p, c)
    BY <2>3, <2>6, Basics, <1>1, <1>2 DEF ForkRun, Running, Goto, LockInv,
        OneCpuPerProc, Resume
  <2>7. QED
    BY Zenon, <1>11, <2>1, <2>2, <2>4, <2>5, <2>6 DEF ForkCall
<1>12. ASSUME NEW c \in CPUs, NEW p \in Slots, ExitWait(p, c)
       PROVE  LockInv'
  <2>1. CASE Exit(p, c)
    BY <2>1, Basics, <1>1, <1>2 DEF Exit, ExitWakes, wakeup1, Running, Goto,
        LockInv, OneCpuPerProc
  <2>2. CASE ExitInit(p, c)
    BY Zenon, <1>4, <2>2 DEF ExitInit, Resume, table
  <2>3. CASE WaitReap(p, c)
    BY <2>3, Basics, <1>1, <1>2 DEF WaitReap, InWait, Running, LockInv,
        OneCpuPerProc, Resume
  <2>4. CASE WaitFail(p, c)
    BY <2>4, Basics, <1>1, <1>2 DEF WaitFail, InWait, Running, Goto, LockInv,
        OneCpuPerProc, Resume
  <2>5. CASE WaitSleep(p, c)
    BY <2>5, Basics, <1>1, <1>2 DEF WaitSleep, InWait, Running, Goto, LockInv,
        OneCpuPerProc, Resume
  <2>6. QED
    BY Zenon, <1>12, <2>1, <2>2, <2>3, <2>4, <2>5 DEF ExitWait
<1>13. ASSUME NEW c \in CPUs, NEW p \in Slots, KillSleep(p, c)
       PROVE  LockInv'
  <2>1. CASE Kill(p, c)
    BY <2>1, Basics, <1>1, <1>2 DEF Kill, Running, Goto, LockInv,
        OneCpuPerProc, Resume
  <2>2. CASE KillMiss(p, c) \/ SleepEnter(p, c) \/ SleepRelock(p, c)
    BY Zenon, <1>4, <2>2 DEF KillMiss, SleepEnter, SleepRelock, Resume, table
  <2>3. CASE SleepTest(p, c)
    BY Zenon, <1>4, <2>3 DEF SleepTest, Resume, table
  <2>4. CASE SleepLock(p, c)
    BY <2>4, Basics, <1>1, <1>2 DEF SleepLock, Running, Goto, LockInv,
        OneCpuPerProc
  <2>5. CASE SleepReturn(p, c)
    BY Zenon, <1>3, <1>5, <2>5 DEF SleepReturn, Resume, local
  <2>6. QED
    BY Zenon, <1>13, <2>1, <2>2, <2>3, <2>4, <2>5 DEF KillSleep
<1>14. QED
  BY Zenon, <1>6, <1>7, <1>8, <1>9, <1>10, <1>11, <1>12, <1>13
      DEF Next, Kernel

\* tickslock is held where the code expects it.
LEMMA TicksStep == IInv /\ [Next]_vars => TicksInv'
<1> SUFFICES ASSUME IInv, [Next]_vars PROVE TicksInv'
  OBVIOUS
<1>1. /\ state \in [Slots -> States]
      /\ cpu \in [CPUs -> Slots \union {None}]
      /\ irq \in [CPUs -> {"none", "tick", "wake", "check", "yield"}]
      /\ tlock \in CPUs \union {None}
      /\ pc \in [Slots -> Labels]
      /\ np \in [Slots -> Slots \union {None}]
      /\ left \in [Slots -> 0 .. MaxSleep]
  BY Zenon DEF IInv, TypeOK
<1>2. OneCpuPerProc /\ TicksInv /\ CtxInv /\ LockInv
  BY Zenon DEF IInv
<1> DEFINE Testing == {"sleepTest", "sleepLock"}
<1>3. ASSUME UNCHANGED <<cpu, irq, tlock, left>>,
             \A q \in Slots : pc'[q] \in Testing => pc'[q] = pc[q]
      PROVE  TicksInv'
  BY Zenon, <1>3, Basics, <1>1, <1>2 DEF TicksInv
<1>4. CASE UNCHANGED vars
  BY Zenon, <1>3, <1>4 DEF vars, local
<1>5. ASSUME NEW c \in CPUs, Scheduler(c)
      PROVE  TicksInv'
  <2>1. CASE SchedRun(c)
    BY <2>1, Basics, <1>1, <1>2 DEF SchedRun, First, TicksInv, CtxInv, Resume,
        local
  <2>2. CASE Sched(c)
    BY Zenon, <2>2, Basics, <1>1, <1>2 DEF Sched, TicksInv, local
  <2>3. QED
    BY Zenon, <1>3, <1>5, <2>1, <2>2 DEF Scheduler, SchedAcquire,
        SchedRelease, local
<1>6. ASSUME NEW c \in CPUs, TimerIntr(c) \/ Handler(c)
      PROVE  TicksInv'
  <2>1. CASE TimerIntr(c)
    BY Zenon, <2>1, <1>1, <1>2 DEF TimerIntr, TicksInv, local
  <2>2. CASE TimerTick(c)
    <3>1. \A q \in Slots : pc[q] # "sleepLock"
      BY <2>2, Basics, <1>1, <1>2 DEF TimerTick, TicksInv, CtxInv,
          OneCpuPerProc, States, Resume
    <3>2. QED
      BY Zenon, <2>2, <3>1, Basics, <1>1, <1>2 DEF TimerTick, TicksInv
  <2>3. CASE TimerWake(c)
    BY <2>3, Basics, <1>1, <1>2 DEF TimerWake, TicksInv, LockInv, Preemptible,
        Syscalls, local
  <2>4. CASE TimerCheck(c)
    BY Zenon, <2>4, Basics, <1>1, <1>2 DEF TimerCheck, Goto, TicksInv, local
  <2>5. CASE Yield(c)
    BY Zenon, <2>5, Basics, <1>1, <1>2 DEF Yield, Goto, TicksInv
  <2>6. QED
    BY Zenon, <1>6, <2>1, <2>2, <2>3, <2>4, <2>5 DEF Handler
<1>7. ASSUME NEW c \in CPUs, NEW p \in Slots,
             User(p, c) \/ SyscallReturn(p, c) \/ Forkret(p, c)
      PROVE  TicksInv'
  BY Zenon, <1>1, <1>3, <1>7 DEF User, Syscall, Syscalls, UserFault,
      SyscallReturn, Forkret, Goto, local
<1>8. ASSUME NEW c \in CPUs, NEW p \in Slots, YieldReturn(p, c)
      PROVE  TicksInv'
  BY Zenon, <1>1, <1>2, <1>3, <1>8 DEF YieldReturn, Goto, CtxInv, Preemptible,
      Syscalls
<1>9. ASSUME NEW c \in CPUs, NEW p \in Slots, ForkCall(p, c)
      PROVE  TicksInv'
  <2>1. CASE ForkKstack(p, c) \/ ForkFail(p, c)
    BY Zenon, <1>1, <1>3, <2>1 DEF ForkKstack, ForkFail, local
  <2>2. QED
    BY Zenon, <1>1, <1>3, <1>9, <2>1 DEF ForkCall, ForkAlloc, ForkFull,
        ForkCopy, ForkRun, Goto, local
<1>10. ASSUME NEW c \in CPUs, NEW p \in Slots, ExitWait(p, c)
       PROVE  TicksInv'
  <2>1. CASE WaitReap(p, c)
    BY Zenon, <1>1, <1>3, <2>1 DEF WaitReap, local
  <2>2. QED
    BY Zenon, <1>1, <1>3, <1>10, <2>1 DEF ExitWait, Exit, ExitInit, WaitFail,
        WaitSleep, Goto, local
<1>11. ASSUME NEW c \in CPUs, NEW p \in Slots, KillSleep(p, c)
       PROVE  TicksInv'
  <2>1. CASE SleepEnter(p, c) \/ SleepRelock(p, c)
    BY <2>1, Basics, <1>1, <1>2 DEF SleepEnter, SleepRelock, Running, Goto,
        TicksInv, OneCpuPerProc, local
  <2>2. CASE SleepTest(p, c)
    BY <2>2, Basics, <1>1, <1>2 DEF SleepTest, Running, Goto, TicksInv,
        OneCpuPerProc
  <2>3. CASE SleepLock(p, c)
    BY <2>3, Basics, <1>1, <1>2 DEF SleepLock, Running, Goto, TicksInv,
        OneCpuPerProc, local
  <2>4. QED
    BY Zenon, <1>1, <1>3, <1>11, <2>1, <2>2, <2>3 DEF KillSleep, Kill, KillMiss,
        SleepReturn, Goto, local
<1>12. QED
  BY Zenon, <1>4, <1>5, <1>6, <1>7, <1>8, <1>9, <1>10, <1>11 DEF Next, Kernel

\* Control state and process state change together.
LEMMA CtxStep == IInv /\ [Next]_vars => CtxInv'
<1> SUFFICES ASSUME IInv, [Next]_vars PROVE CtxInv'
  OBVIOUS
<1>1. /\ state \in [Slots -> States]
      /\ cpu \in [CPUs -> Slots \union {None}]
      /\ pc \in [Slots -> Labels]
      /\ np \in [Slots -> Slots \union {None}]
      /\ chan \in [Slots -> Slots \union {None, TICKS}]
      /\ saved \in [Slots -> Labels]
  BY Zenon DEF IInv, TypeOK
<1>2. OneCpuPerProc /\ LockInv /\ ForkInv /\ CtxInv /\ TreeInv
  BY Zenon DEF IInv
<1>3. ASSUME UNCHANGED <<state, pc, chan, saved>>
      PROVE  CtxInv'
  BY Zenon, <1>2, <1>3 DEF CtxInv
<1>4. ASSUME NEW c \in CPUs, NEW p \in Slots, NEW l, Running(p, c),
             UNCHANGED <<state, chan, saved>>, Goto(p, l),
             l \notin {"none", "zombie", "yieldret"}
      PROVE  CtxInv'
  BY Zenon, <1>4, Basics, <1>1, <1>2 DEF CtxInv, Running, Goto
<1>5. CASE UNCHANGED vars
  BY Zenon, <1>3, <1>5 DEF vars, table, local
<1>6. ASSUME NEW c \in CPUs, Scheduler(c)
      PROVE  CtxInv'
  <2>1. CASE SchedRun(c)
    BY Zenon, <2>1, Basics, <1>1, <1>2 DEF SchedRun, First, CtxInv, Resume,
        local
  <2>2. QED
    BY Zenon, <1>3, <1>6, <2>1 DEF Scheduler, SchedAcquire, SchedRelease,
        Sched, table, local
<1>7. ASSUME NEW c \in CPUs, TimerIntr(c) \/ Handler(c)
      PROVE  CtxInv'
  <2>1. CASE TimerWake(c)
    BY Zenon, <2>1, Basics, <1>1, <1>2 DEF TimerWake, wakeup1, CtxInv, Resume,
        local
  <2>2. ASSUME cpu[c] # None, irq[c] \in {"check", "yield"}
        PROVE  /\ cpu[c] \in Slots
               /\ state[cpu[c]] = "RUNNING"
               /\ pc[cpu[c]] \in Preemptible
    BY <2>2, <1>1, <1>2 DEF LockInv, OneCpuPerProc
  <2>3. CASE TimerCheck(c)
    BY <2>2, <2>3, Basics, <1>1, <1>2 DEF TimerCheck, Goto, CtxInv, table, local
  <2>4. CASE Yield(c)
    BY Zenon, <2>2, <2>4, Basics, <1>1, <1>2 DEF Yield, LockInv, Goto, CtxInv,
        Resume
  <2>5. QED
    BY Zenon, <1>3, <1>7, <2>1, <2>3, <2>4 DEF Handler, TimerIntr, TimerTick,
        table, local
<1>8. ASSUME NEW c \in CPUs, NEW p \in Slots,
             User(p, c) \/ SyscallReturn(p, c) \/ Forkret(p, c)
      PROVE  CtxInv'
  BY Zenon, <1>4, <1>8 DEF User, Syscall, Syscalls, UserFault, SyscallReturn,
      Forkret, table, local
<1>9. ASSUME NEW c \in CPUs, NEW p \in Slots, YieldReturn(p, c)
      PROVE  CtxInv'
  BY Zenon, <1>9, Basics, <1>1, <1>2 DEF YieldReturn, Running, Goto, CtxInv,
      Preemptible, Syscalls, table
<1>10. ASSUME NEW c \in CPUs, NEW p \in Slots, ForkCall(p, c)
       PROVE  CtxInv'
  <2>1. CASE ForkAlloc(p, c)
    BY <2>1, Basics, <1>1, <1>2 DEF ForkAlloc, First, Running, Goto, CtxInv
  <2>2. CASE ForkFull(p, c) \/ ForkCopy(p, c)
    BY Zenon, <1>4, <2>2 DEF ForkFull, ForkCopy, table, local
  <2>3. ASSUME ForkKstack(p, c) \/ ForkFail(p, c) \/ ForkRun(p, c)
        PROVE  np[p] \in Slots /\ state[np[p]] = "EMBRYO"
    BY Zenon, <2>3, NewSlot DEF ForkKstack, ForkFail, ForkRun, Forking
  <2>4. CASE ForkKstack(p, c)
    BY Zenon, <2>3, <2>4, Basics, <1>1, <1>2 DEF ForkKstack, Running, CtxInv,
        local
  <2>5. CASE ForkFail(p, c)
    BY Zenon, <2>3, <2>5, Basics, <1>1, <1>2 DEF ForkFail, Running, CtxInv
  <2>6. CASE ForkRun(p, c)
    <3>1. pc[np[p]] = "forkret"
      BY Zenon, <2>6, NewSlot DEF ForkRun, Forking
    <3>2. QED
      BY Zenon, <2>3, <2>6, <3>1, Basics, <1>1, <1>2 DEF ForkRun, Running, Goto,
          CtxInv, Resume
  <2>7. QED
    BY Zenon, <1>10, <2>1, <2>2, <2>4, <2>5, <2>6 DEF ForkCall
<1>11. ASSUME NEW c \in CPUs, NEW p \in Slots, ExitWait(p, c)
       PROVE  CtxInv'
  <2>1. CASE Exit(p, c)
    BY Zenon, <2>1, Basics, <1>1, <1>2 DEF Exit, ExitWakes, wakeup1, Running,
        Goto, CtxInv, Resume, local
  <2>2. CASE ExitInit(p, c)
    BY Zenon, <1>4, <2>2 DEF ExitInit, table, local
  <2>3. CASE WaitReap(p, c)
    BY <2>3, Basics, <1>1, <1>2 DEF WaitReap, InWait, Running, CtxInv, local
  <2>4. CASE WaitFail(p, c)
    BY Zenon, <2>4, Basics, <1>1, <1>2 DEF WaitFail, InWait, Running, Goto,
        CtxInv, local
  <2>5. CASE WaitSleep(p, c)
    BY Zenon, <2>5, Basics, <1>1, <1>2 DEF WaitSleep, InWait, Running, Goto,
        CtxInv, local
  <2>6. QED
    BY Zenon, <1>11, <2>1, <2>2, <2>3, <2>4, <2>5 DEF ExitWait
<1>12. ASSUME NEW c \in CPUs, NEW p \in Slots, KillSleep(p, c)
       PROVE  CtxInv'
  <2>1. CASE Kill(p, c)
    BY <2>1, Basics, <1>1, <1>2 DEF Kill, Running, Goto, CtxInv, Resume, local
  <2>2. CASE KillMiss(p, c) \/ SleepEnter(p, c) \/ SleepRelock(p, c)
    BY Zenon, <1>4, <2>2 DEF KillMiss, SleepEnter, SleepRelock, table, local
  <2>3. CASE SleepTest(p, c)
    BY Zenon, <1>4, <2>3 DEF SleepTest, table
  <2>4. CASE SleepLock(p, c)
    BY Zenon, <2>4, Basics, <1>1, <1>2 DEF SleepLock, Running, Goto, CtxInv,
        local
  <2>5. CASE SleepReturn(p, c)
    BY Zenon, <2>5, Basics, <1>1, <1>2 DEF SleepReturn, Running, Goto, CtxInv,
        local
  <2>6. QED
    BY Zenon, <1>12, <2>1, <2>2, <2>3, <2>4, <2>5 DEF KillSleep
<1>13. QED
  BY Zenon, <1>5, <1>6, <1>7, <1>8, <1>9, <1>10, <1>11, <1>12 DEF Next, Kernel

\* Nothing but the fork() in progress touches the slot that it fills in.
LEMMA ForkStep == IInv /\ [Next]_vars => ForkInv'
<1> SUFFICES ASSUME IInv, [Next]_vars PROVE ForkInv'
  OBVIOUS
<1>1. /\ state \in [Slots -> States]
      /\ pc \in [Slots -> Labels]
      /\ saved \in [Slots -> Labels]
      /\ np \in [Slots -> Slots \union {None}]
      /\ parent \in [Slots -> Slots \union {None}]
      /\ mem \in [Slots -> SUBSET {"kstack", "pgdir"}]
      /\ cpu \in [CPUs -> Slots \union {None}]
  BY Zenon DEF IInv, TypeOK
<1>2. /\ OneCpuPerProc /\ LockInv /\ ForkInv /\ CtxInv /\ TreeInv
      /\ ProcMemory
  BY Zenon DEF IInv
<1> DEFINE Same(q) == At(q) \in Forking \/ At(q)' \in Forking => At(q)' = At(q)
           Kept(q) == np[q] # None =>
                        /\ state'[np[q]] = "EMBRYO"
                        /\ pc'[np[q]] = pc[np[q]]
                        /\ mem'[np[q]] = mem[np[q]]
                        /\ parent'[np[q]] = parent[np[q]]
<1>3. ASSUME NEW q \in Slots, np'[q] = np[q], Same(q), Kept(q)
      PROVE  FillInv(q)'
  <2>1. FillInv(q)
    BY Zenon, <1>2 DEF ForkInv
  <2>2. CASE At(q) \in Forking
    <3>1. At(q)' = At(q) /\ np[q] # None /\ Kept(q)
      BY Zenon, <1>3, <2>1, <2>2 DEF FillInv
    <3>2. QED
      BY Zenon, <1>3, <2>1, <3>1 DEF FillInv
  <2>3. CASE At(q) \notin Forking
    <3>1. At(q)' \notin Forking /\ np[q] = None
      BY Zenon, <1>3, <2>1, <2>3 DEF FillInv
    <3>2. QED
      BY Zenon, <1>3, <3>1 DEF FillInv, Forking
  <2>4. QED
    BY Zenon, <2>2, <2>3
<1>4. ASSUME UNCHANGED np, \A q \in Slots : Same(q) /\ Kept(q)
      PROVE  ForkInv'
  BY Zenon, <1>4, <1>2, <1>3 DEF ForkInv
<1>5. \A q \in Slots : np[q] # None => np[q] \in Slots /\ state[np[q]] = "EMBRYO"
  BY <1>1, <1>2 DEF ForkInv, FillInv
<1>6. ASSUME UNCHANGED <<np, state, pc, mem, parent, saved>>
      PROVE  ForkInv'
  BY Zenon, <1>4, <1>5, <1>6 DEF At
<1>7. ASSUME NEW c \in CPUs, NEW p \in Slots, NEW l, Running(p, c),
             UNCHANGED <<np, mem, parent, saved>>, Goto(p, l),
             pc[p] \notin Forking \union {"yieldret"},
             l \notin Forking \union {"yieldret"},
             \A q \in Slots : state[q] = "EMBRYO" => state'[q] = "EMBRYO"
      PROVE  ForkInv'
  <2>1. \A q \in Slots : Same(q)
    BY Zenon, <1>1, <1>7 DEF At, Goto
  <2>2. \A q \in Slots : Kept(q)
    BY Zenon, <1>1, <1>5, <1>7 DEF Running, Goto
  <2>3. QED
    BY Zenon, <1>4, <1>7, <2>1, <2>2
<1>8. CASE UNCHANGED vars
  BY Zenon, <1>6, <1>8 DEF vars, table, local
<1>9. ASSUME NEW c \in CPUs, Scheduler(c)
      PROVE  ForkInv'
  <2>1. CASE SchedRun(c)
    BY Zenon, <2>1, <1>1, <1>4, <1>5 DEF SchedRun, First, At, local
  <2>2. QED
    BY Zenon, <1>6, <1>9, <2>1 DEF Scheduler, SchedAcquire, SchedRelease,
        Sched, table, local
<1>10. ASSUME NEW c \in CPUs, TimerIntr(c) \/ Handler(c)
      PROVE  ForkInv'
  <2>1. CASE TimerWake(c)
    BY Zenon, <2>1, <1>1, <1>4, <1>5 DEF TimerWake, wakeup1, At, local
  <2>2. ASSUME cpu[c] # None, irq[c] \in {"check", "yield"}
        PROVE  /\ cpu[c] \in Slots
               /\ state[cpu[c]] = "RUNNING"
               /\ pc[cpu[c]] \in Preemptible
    BY Zenon, <2>2, <1>1, <1>2 DEF LockInv, OneCpuPerProc
  <2>3. CASE TimerCheck(c)
    BY Zenon, <2>2, <2>3, <1>1, <1>4, <1>5 DEF TimerCheck, Goto, At, Forking,
        table, local
  <2>4. CASE Yield(c)
    BY <2>2, <2>4, <1>1, <1>2, <1>4, <1>5 DEF Yield, LockInv, Goto, At,
        Preemptible, Syscalls
  <2>5. QED
    BY Zenon, <1>6, <1>10, <2>1, <2>3, <2>4 DEF Handler, TimerIntr, TimerTick,
        table, local
<1>11. ASSUME NEW c \in CPUs, NEW p \in Slots,
              User(p, c) \/ SyscallReturn(p, c) \/ Forkret(p, c)
       PROVE  ForkInv'
  BY Zenon, <1>7, <1>11 DEF User, Syscall, Syscalls, UserFault, SyscallReturn,
      Forkret, Forking, table, local
<1>12. ASSUME NEW c \in CPUs, NEW p \in Slots, YieldReturn(p, c)
       PROVE  ForkInv'
  <2>1. saved[p] # "yieldret"
    BY Zenon, <1>12, <1>2 DEF YieldReturn, CtxInv, Preemptible, Syscalls
  <2>2. QED
    BY Zenon, <2>1, <1>1, <1>4, <1>5, <1>12 DEF YieldReturn, Running, Goto, At,
        Forking, table
<1>13. ASSUME NEW c \in CPUs, NEW p \in Slots, ForkCall(p, c)
       PROVE  ForkInv'
  <2>1. CASE ForkFull(p, c)
    BY Zenon, <1>7, <2>1 DEF ForkFull, Forking, table, local
  <2>2. CASE ForkAlloc(p, c)
    <3>1. PICK n \in Slots : /\ state[n] = "UNUSED"
                             /\ state' = [state EXCEPT ![n] = "EMBRYO"]
                             /\ np' = [np EXCEPT ![p] = n]
      BY Zenon, <2>2 DEF ForkAlloc, First
    <3>2. /\ mem[n] = {} /\ parent[n] = None /\ p # n
          /\ \A q \in Slots : np[q] # n
      BY <2>2, <3>1, Basics, <1>2, <1>5 DEF ForkAlloc, Running, ProcMemory,
          TreeInv
    <3>3. ASSUME NEW q \in Slots, q # p
          PROVE  FillInv(q)'
      BY Zenon, <2>2, <3>1, <3>2, <3>3, <1>1, <1>3, <1>5 DEF ForkAlloc, Goto,
          Running, At
    <3>4. FillInv(p)'
      BY Zenon, <2>2, <3>1, <3>2, Basics, <1>1 DEF ForkAlloc, Goto, FillInv, At,
          Forking
    <3>5. QED
      BY Zenon, <3>1, <3>2, <3>3, <3>4, <1>1, <1>2 DEF ForkInv
  <2>3. ASSUME pc[p] \in Forking, state[p] = "RUNNING"
        PROVE  /\ np[p] \in Slots /\ np[p] # p /\ state[np[p]] = "EMBRYO"
               /\ \A q \in Slots : q # p => np[q] # np[p]
               /\ np[np[p]] = None /\ At(np[p]) \notin Forking
    <3>1. np[p] \in Slots /\ state[np[p]] = "EMBRYO"
      BY Zenon, <2>3, NewSlot
    <3>2. At(np[p]) \notin Forking
      BY Zenon, <3>1, <1>2 DEF CtxInv, At, Forking
    <3>3. QED
      BY <2>3, <3>1, <3>2, Basics, <1>2 DEF ForkInv, FillInv
  <2>4. CASE ForkKstack(p, c)
    <3>1. pc[p] \in Forking /\ state[p] = "RUNNING"
      BY Zenon, <2>4 DEF ForkKstack, Running, Forking
    <3>2. ASSUME NEW q \in Slots, q # p
          PROVE  FillInv(q)'
      BY Zenon, <2>3, <2>4, <3>1, <3>2, <1>1, <1>3, <1>5 DEF ForkKstack, At,
          Forking,
          local
    <3>3. FillInv(p)'
      BY Zenon, <2>3, <2>4, <3>1, NewSlot, Basics, <1>1 DEF ForkKstack,
          FillInv, At, Forking, local
    <3>4. QED
      BY Zenon, <2>4, <3>2, <3>3, <1>2 DEF ForkKstack, ForkInv, local
  <2>5. CASE ForkFail(p, c)
    <3>1. pc[p] \in Forking /\ state[p] = "RUNNING"
      BY Zenon, <2>5 DEF ForkFail, Running, Forking
    <3>2. ASSUME NEW q \in Slots, q # p
          PROVE  FillInv(q)'
      BY Zenon, <2>3, <2>5, <3>1, <3>2, <1>1, <1>3, <1>5 DEF ForkFail, At,
          Forking
    <3>3. FillInv(p)'
      BY Zenon, <2>3, <2>5, <3>1, Basics, <1>1 DEF ForkFail, FillInv, At,
          Forking
    <3>4. QED
      BY Zenon, <2>5, <3>2, <3>3, <1>1, <1>2 DEF ForkFail, ForkInv
  <2>6. CASE ForkCopy(p, c)
    <3>1. pc[p] \in Forking /\ state[p] = "RUNNING"
      BY Zenon, <2>6 DEF ForkCopy, Running, Forking
    <3>2. ASSUME NEW q \in Slots, q # p
          PROVE  FillInv(q)'
      BY Zenon, <2>3, <2>6, <3>1, <3>2, <1>1, <1>3, <1>5 DEF ForkCopy, Goto, At,
          local
    <3>3. FillInv(p)'
      BY Zenon, <2>3, <2>6, <3>1, NewSlot, Basics, <1>1 DEF ForkCopy, Goto,
          FillInv, At, Forking, local
    <3>4. QED
      BY Zenon, <2>6, <3>2, <3>3, <1>2 DEF ForkCopy, ForkInv, local
  <2>7. CASE ForkRun(p, c)
    <3>1. pc[p] \in Forking /\ state[p] = "RUNNING"
      BY Zenon, <2>7 DEF ForkRun, Running, Forking
    <3>2. ASSUME NEW q \in Slots, q # p
          PROVE  FillInv(q)'
      BY Zenon, <2>3, <2>7, <3>1, <3>2, <1>1, <1>3, <1>5 DEF ForkRun, Goto, At
    <3>3. FillInv(p)'
      BY Zenon, <2>3, <2>7, <3>1, Basics, <1>1 DEF ForkRun, Goto, FillInv, At,
          Forking
    <3>4. QED
      BY Zenon, <2>7, <3>2, <3>3, <1>1, <1>2 DEF ForkRun, ForkInv
  <2>8. QED
    BY Zenon, <1>13, <2>1, <2>2, <2>4, <2>5, <2>6, <2>7 DEF ForkCall
<1>14. ASSUME NEW c \in CPUs, NEW p \in Slots, ExitWait(p, c)
       PROVE  ForkInv'
  <2>1. CASE Exit(p, c)
    <3>1. \A q \in Slots : Same(q)
      BY Zenon, <2>1, <1>1 DEF Exit, Goto, At, Forking, local
    <3>2. \A q \in Slots : np[q] # None => parent[np[q]] # p
      BY <2>1, Basics, <1>1, <1>2 DEF Exit, ForkInv, FillInv, At, Forking
    <3>3. \A q \in Slots : Kept(q)
      BY Zenon, <2>1, <3>2, <1>1, <1>5 DEF Exit, ExitWakes, wakeup1,
          ExitParents, Running, Goto, local
    <3>4. QED
      BY Zenon, <1>4, <2>1, <3>1, <3>3 DEF Exit, local
  <2>2. CASE WaitReap(p, c)
    <3>1. \A q \in Slots : Same(q)
      BY <2>2, <1>1, <1>2 DEF WaitReap, InWait, CtxInv, At, Forking, local
    <3>2. \A q \in Slots : Kept(q)
      BY <2>2, <1>1, <1>5 DEF WaitReap, InWait, Running, local
    <3>3. QED
      BY Zenon, <1>4, <2>2, <3>1, <3>2 DEF WaitReap, local
  <2>3. CASE ExitInit(p, c) \/ WaitFail(p, c) \/ WaitSleep(p, c)
    BY Zenon, <1>1, <1>7, <2>3 DEF ExitInit, WaitFail, WaitSleep, InWait,
        Running, Forking, table, local
  <2>4. QED
    BY Zenon, <1>14, <2>1, <2>2, <2>3 DEF ExitWait
<1>15. ASSUME NEW c \in CPUs, NEW p \in Slots, KillSleep(p, c)
       PROVE  ForkInv'
  <2>1. CASE Kill(p, c)
    BY Zenon, <1>1, <1>7, <2>1 DEF Kill, Forking, local
  <2>2. CASE SleepLock(p, c) \/ SleepReturn(p, c)
    BY Zenon, <1>1, <1>7, <2>2 DEF SleepLock, SleepReturn, Running, Forking,
        local
  <2>3. CASE SleepTest(p, c)
    BY Zenon, <1>7, <2>3 DEF SleepTest, Forking, table
  <2>4. QED
    BY Zenon, <1>7, <1>15, <2>1, <2>2, <2>3 DEF KillSleep, KillMiss, SleepEnter,
        SleepRelock, Forking, table, local
<1>16. QED
  BY Zenon, <1>8, <1>9, <1>10, <1>11, <1>12, <1>13, <1>14, <1>15
      DEF Next, Kernel

\* Memory is freed off the CPU, and by the path that allocated it.
LEMMA MemoryStep == IInv /\ [Next]_vars => ProcMemory'
<1> SUFFICES ASSUME IInv, [Next]_vars PROVE ProcMemory'
  OBVIOUS
<1>1. /\ state \in [Slots -> States]
      /\ cpu \in [CPUs -> Slots \union {None}]
      /\ np \in [Slots -> Slots \union {None}]
      /\ mem \in [Slots -> SUBSET {"kstack", "pgdir"}]
  BY Zenon DEF IInv, TypeOK
<1>2. OneCpuPerProc /\ ProcMemory /\ ForkInv /\ LockInv
  BY Zenon DEF IInv
<1>3. ASSUME UNCHANGED <<state, mem, cpu>>
      PROVE  ProcMemory'
  BY Zenon, <1>2, <1>3 DEF ProcMemory
<1>4. ASSUME UNCHANGED <<mem, cpu>>,
             \A q \in Slots : state'[q] # state[q]
               => {state[q], state'[q]} \intersect {"UNUSED", "EMBRYO"} = {}
      PROVE  ProcMemory'
  BY Zenon, <1>1, <1>2, <1>4 DEF ProcMemory
<1>5. CASE UNCHANGED vars
  BY Zenon, <1>3, <1>5 DEF vars, table
<1>6. ASSUME NEW c \in CPUs, Scheduler(c)
      PROVE  ProcMemory'
  <2>1. CASE SchedRun(c)
    BY <2>1, Basics, <1>1, <1>2 DEF SchedRun, First, ProcMemory
  <2>2. CASE Sched(c)
    BY Zenon, <2>2, Basics, <1>1, <1>2 DEF Sched, ProcMemory, table
  <2>3. QED
    BY Zenon, <1>3, <1>6, <2>1, <2>2 DEF Scheduler, SchedAcquire,
        SchedRelease, table
<1>7. ASSUME NEW c \in CPUs, TimerIntr(c) \/ Handler(c)
      PROVE  ProcMemory'
  <2>1. CASE TimerWake(c)
    BY Zenon, <2>1, <1>1, <1>4 DEF TimerWake, wakeup1
  <2>2. CASE Yield(c)
    BY <2>2, <1>1, <1>2, <1>4 DEF Yield, LockInv, OneCpuPerProc
  <2>3. QED
    BY Zenon, <1>3, <1>7, <2>1, <2>2 DEF Handler, TimerIntr, TimerTick,
        TimerCheck, table
<1>8. ASSUME NEW c \in CPUs, NEW p \in Slots,
             \/ User(p, c) \/ SyscallReturn(p, c) \/ Forkret(p, c)
             \/ YieldReturn(p, c)
      PROVE  ProcMemory'
  BY Zenon, <1>3, <1>8 DEF User, Syscall, UserFault, SyscallReturn, Forkret,
      YieldReturn, table
<1>9. ASSUME NEW c \in CPUs, NEW p \in Slots, ForkCall(p, c)
      PROVE  ProcMemory'
  <2>1. CASE ForkAlloc(p, c)
    BY Zenon, <2>1, <1>1, <1>2 DEF ForkAlloc, First, ProcMemory
  <2>2. ASSUME \/ ForkKstack(p, c) \/ ForkFail(p, c) \/ ForkCopy(p, c)
        PROVE  /\ np[p] \in Slots /\ state[np[p]] = "EMBRYO"
               /\ mem[np[p]] \in {{}, {"kstack"}}
               /\ pc[p] = "forkCopy" => mem[np[p]] = {"kstack"}
    BY Zenon, <2>2, NewSlot DEF ForkKstack, ForkFail, ForkCopy, Forking
  <2>3. CASE ForkKstack(p, c) \/ ForkFail(p, c)
    <3>1. \A d \in CPUs : cpu[d] # np[p]
      BY <2>2, <2>3, Basics, <1>1, <1>2 DEF ProcMemory
    <3>2. QED
      BY <2>2, <2>3, <3>1, <1>1, <1>2 DEF ForkKstack, ForkFail, ProcMemory
  <2>4. CASE ForkCopy(p, c)
    BY Zenon, <2>2, <2>4, <1>1, <1>2 DEF ForkCopy, ProcMemory
  <2>5. CASE ForkRun(p, c)
    <3>1. /\ np[p] \in Slots /\ state[np[p]] = "EMBRYO"
          /\ mem[np[p]] = {"kstack", "pgdir"}
      BY Zenon, <2>5, NewSlot DEF ForkRun, Forking
    <3>2. QED
      BY Zenon, <2>5, <3>1, <1>1, <1>2 DEF ForkRun, ProcMemory
  <2>6. QED
    BY Zenon, <1>3, <1>9, <2>1, <2>3, <2>4, <2>5 DEF ForkCall, ForkFull, table
<1>10. ASSUME NEW c \in CPUs, NEW p \in Slots, ExitWait(p, c)
       PROVE  ProcMemory'
  <2>1. CASE Exit(p, c)
    BY Zenon, <2>1, <1>1, <1>4 DEF Exit, ExitWakes, wakeup1, Running
  <2>2. CASE WaitReap(p, c)
    BY <2>2, Basics, <1>1, <1>2 DEF WaitReap, InWait, Running, OneCpuPerProc,
        ProcMemory
  <2>3. CASE WaitSleep(p, c)
    BY Zenon, <2>3, <1>1, <1>4 DEF WaitSleep, InWait, Running
  <2>4. QED
    BY Zenon, <1>3, <1>10, <2>1, <2>2, <2>3 DEF ExitWait, ExitInit, WaitFail,
        table
<1>11. ASSUME NEW c \in CPUs, NEW p \in Slots, KillSleep(p, c)
       PROVE  ProcMemory'
  <2>1. CASE Kill(p, c) \/ SleepLock(p, c)
    BY Zenon, <2>1, <1>1, <1>4 DEF Kill, SleepLock, Running
  <2>2. QED
    BY Zenon, <1>3, <1>11, <2>1 DEF KillSleep, KillMiss, SleepEnter,
        SleepTest, SleepReturn, SleepRelock, table
<1>12. QED
  BY Zenon, <1>5, <1>6, <1>7, <1>8, <1>9, <1>10, <1>11 DEF Next, Kernel

\* A parent outlives its children, or hands them to init.
LEMMA ParentStep == IInv /\ [Next]_vars => (ParentAlive /\ TreeInv)'
<1> SUFFICES ASSUME IInv, [Next]_vars PROVE (ParentAlive /\ TreeInv)'
  OBVIOUS
<1>1. /\ state \in [Slots -> States]
      /\ cpu \in [CPUs -> Slots \union {None}]
      /\ np \in [Slots -> Slots \union {None}]
      /\ parent \in [Slots -> Slots \union {None}]
  BY Zenon DEF IInv, TypeOK
<1>2. /\ ParentAlive /\ TreeInv /\ ForkInv /\ OneCpuPerProc /\ LockInv
      /\ state[initproc] \in {"RUNNABLE", "RUNNING", "SLEEPING"}
  BY Zenon DEF IInv, CtxInv
<1>3. ASSUME UNCHANGED <<state, parent>>
      PROVE  (ParentAlive /\ TreeInv)'
  BY Zenon, <1>2, <1>3 DEF ParentAlive, TreeInv
<1>4. ASSUME UNCHANGED parent,
             \A q \in Slots : state'[q] # state[q]
               => {state[q], state'[q]} \intersect {"UNUSED", "EMBRYO", "ZOMBIE"}
                    = {}
      PROVE  (ParentAlive /\ TreeInv)'
  BY Zenon, <1>1, <1>2, <1>4 DEF ParentAlive, TreeInv
<1>5. CASE UNCHANGED vars
  BY Zenon, <1>3, <1>5 DEF vars, table
<1>6. ASSUME NEW c \in CPUs, Scheduler(c)
      PROVE  (ParentAlive /\ TreeInv)'
  <2>1. CASE SchedRun(c)
    BY Zenon, <2>1, <1>1, <1>4 DEF SchedRun, First
  <2>2. QED
    BY Zenon, <1>3, <1>6, <2>1 DEF Scheduler, SchedAcquire, SchedRelease,
        Sched, table
<1>7. ASSUME NEW c \in CPUs, TimerIntr(c) \/ Handler(c)
      PROVE  (ParentAlive /\ TreeInv)'
  <2>1. CASE TimerWake(c)
    BY Zenon, <2>1, <1>1, <1>4 DEF TimerWake, wakeup1
  <2>2. CASE Yield(c)
    BY <2>2, <1>1, <1>2, <1>4 DEF Yield, LockInv, OneCpuPerProc
  <2>3. QED
    BY Zenon, <1>3, <1>7, <2>1, <2>2 DEF Handler, TimerIntr, TimerTick,
        TimerCheck, table
<1>8. ASSUME NEW c \in CPUs, NEW p \in Slots,
             \/ User(p, c) \/ SyscallReturn(p, c) \/ Forkret(p, c)
             \/ YieldReturn(p, c)
      PROVE  (ParentAlive /\ TreeInv)'
  BY Zenon, <1>3, <1>8 DEF User, Syscall, UserFault, SyscallReturn, Forkret,
      YieldReturn, table
<1>9. ASSUME NEW c \in CPUs, NEW p \in Slots, ForkCall(p, c)
      PROVE  (ParentAlive /\ TreeInv)'
  <2>1. CASE ForkAlloc(p, c)
    BY <2>1, Basics, <1>1, <1>2 DEF ForkAlloc, First, ParentAlive, TreeInv
  <2>2. ASSUME \/ ForkFail(p, c) \/ ForkCopy(p, c) \/ ForkRun(p, c)
        PROVE  /\ np[p] \in Slots /\ state[np[p]] = "EMBRYO"
               /\ state[p] = "RUNNING"
               /\ pc[p] # "forkRun" => parent[np[p]] = None
               /\ pc[p] = "forkRun" => parent[np[p]] = p
    BY Zenon, <2>2, NewSlot DEF ForkFail, ForkCopy, ForkRun, Forking, Running
  <2>3. CASE ForkFail(p, c)
    BY Zenon, <2>2, <2>3, Basics, <1>1, <1>2 DEF ForkFail, ParentAlive, TreeInv
  <2>4. CASE ForkCopy(p, c)
    BY Zenon, <2>2, <2>4, Basics, <1>1, <1>2 DEF ForkCopy, ParentAlive, TreeInv
  <2>5. CASE ForkRun(p, c)
    BY Zenon, <2>2, <2>5, Basics, <1>1, <1>2 DEF ForkRun, ParentAlive, TreeInv
  <2>6. QED
    BY Zenon, <1>3, <1>9, <2>1, <2>3, <2>4, <2>5 DEF ForkCall, ForkFull,
        ForkKstack, table
<1>10. ASSUME NEW c \in CPUs, NEW p \in Slots, ExitWait(p, c)
       PROVE  (ParentAlive /\ TreeInv)'
  <2>1. CASE Exit(p, c)
    BY Zenon, <2>1, Basics, <1>1, <1>2 DEF Exit, ExitWakes, wakeup1,
        ExitParents, Running, ParentAlive, TreeInv
  <2>2. CASE WaitReap(p, c)
    BY <2>2, Basics, <1>1, <1>2 DEF WaitReap, ParentAlive, TreeInv
  <2>3. CASE WaitSleep(p, c)
    BY Zenon, <2>3, <1>1, <1>4 DEF WaitSleep, InWait, Running
  <2>4. QED
    BY Zenon, <1>3, <1>10, <2>1, <2>2, <2>3 DEF ExitWait, ExitInit, WaitFail,
        table
<1>11. ASSUME NEW c \in CPUs, NEW p \in Slots, KillSleep(p, c)
       PROVE  (ParentAlive /\ TreeInv)'
  <2>1. CASE Kill(p, c) \/ SleepLock(p, c)
    BY Zenon, <2>1, <1>1, <1>4 DEF Kill, SleepLock, Running
  <2>2. QED
    BY Zenon, <1>3, <1>11, <2>1 DEF KillSleep, KillMiss, SleepEnter,
        SleepTest, SleepReturn, SleepRelock, table
<1>12. QED
  BY Zenon, <1>5, <1>6, <1>7, <1>8, <1>9, <1>10, <1>11 DEF Next, Kernel

\* A sleeping parent is woken by the step that makes its child a zombie.
LEMMA MissedExitStep == IInv /\ [Next]_vars => NoMissedExit'
<1> SUFFICES ASSUME IInv, [Next]_vars PROVE NoMissedExit'
  OBVIOUS
<1>1. /\ state \in [Slots -> States]
      /\ pc \in [Slots -> Labels]
      /\ np \in [Slots -> Slots \union {None}]
      /\ parent \in [Slots -> Slots \union {None}]
      /\ chan \in [Slots -> Slots \union {None, TICKS}]
      /\ killed \in [Slots -> BOOLEAN]
      /\ cpu \in [CPUs -> Slots \union {None}]
  BY Zenon DEF IInv, TypeOK
<1>2. /\ NoMissedExit /\ ForkInv /\ TreeInv /\ ParentAlive /\ LockInv
      /\ OneCpuPerProc
  BY Zenon DEF IInv
<1> DEFINE Still(w) == state'[w] = "SLEEPING" /\ pc'[w] = "waitret" =>
                         /\ state[w] = "SLEEPING" /\ pc[w] = "waitret"
                         /\ chan'[w] = chan[w] /\ killed'[w] = killed[w]
<1>3. ASSUME UNCHANGED <<state, pc, chan, killed, parent>>
      PROVE  NoMissedExit'
  BY Zenon, <1>2, <1>3 DEF NoMissedExit, HasChildren, NoZombieChild
<1>4. ASSUME UNCHANGED parent, \A w \in Slots : Still(w),
             \A q \in Slots : state'[q] = "ZOMBIE" => state[q] = "ZOMBIE"
      PROVE  NoMissedExit'
  BY Zenon, <1>2, <1>4 DEF NoMissedExit, HasChildren, NoZombieChild
<1>5. CASE UNCHANGED vars
  BY Zenon, <1>3, <1>5 DEF vars, table
<1>6. ASSUME NEW c \in CPUs, Scheduler(c)
      PROVE  NoMissedExit'
  <2>1. CASE SchedRun(c)
    BY Zenon, <2>1, <1>1, <1>4 DEF SchedRun
  <2>2. QED
    BY Zenon, <1>3, <1>6, <2>1 DEF Scheduler, SchedAcquire, SchedRelease,
        Sched, table
<1>7. ASSUME NEW c \in CPUs, TimerIntr(c) \/ Handler(c)
      PROVE  NoMissedExit'
  <2>1. CASE TimerWake(c)
    BY Zenon, <2>1, <1>1, <1>4 DEF TimerWake, wakeup1
  <2>2. CASE TimerCheck(c)
    BY Zenon, <2>2, <1>1, <1>4 DEF TimerCheck, Goto, table
  <2>3. CASE Yield(c)
    BY Zenon, <2>3, <1>1, <1>2, <1>4 DEF Yield, LockInv, Goto
  <2>4. QED
    BY Zenon, <1>3, <1>7, <2>1, <2>2, <2>3 DEF Handler, TimerIntr, TimerTick,
        table
<1>8. ASSUME NEW c \in CPUs, NEW p \in Slots,
             \/ User(p, c) \/ SyscallReturn(p, c) \/ Forkret(p, c)
             \/ YieldReturn(p, c)
      PROVE  NoMissedExit'
  BY Zenon, <1>1, <1>4, <1>8 DEF User, Syscall, UserFault, SyscallReturn,
      Forkret, YieldReturn, Running, Goto, table
<1>9. ASSUME NEW c \in CPUs, NEW p \in Slots, ForkCall(p, c)
      PROVE  NoMissedExit'
  <2>1. CASE ForkKstack(p, c) \/ ForkFail(p, c)
    BY Zenon, <2>1, <1>1, <1>4 DEF ForkKstack, ForkFail, Running
  <2>2. CASE ForkCopy(p, c)
    <3>1. np[p] \in Slots /\ state[np[p]] = "EMBRYO" /\ parent[np[p]] = None
      BY Zenon, <2>2, NewSlot DEF ForkCopy, Forking
    <3>2. QED
      BY <2>2, <3>1, Basics, <1>1, <1>2 DEF ForkCopy, Running, Goto,
          NoMissedExit, HasChildren, NoZombieChild
  <2>3. QED
    BY Zenon, <1>1, <1>4, <1>9, <2>1, <2>2 DEF ForkCall, ForkAlloc, ForkFull,
        ForkRun, Running, Goto, table
<1>10. ASSUME NEW c \in CPUs, NEW p \in Slots, ExitWait(p, c)
       PROVE  NoMissedExit'
  <2>1. CASE Exit(p, c)
    <3> SUFFICES ASSUME NEW w \in Slots, state'[w] = "SLEEPING", pc'[w] = "waitret"
                 PROVE  /\ chan'[w] = w /\ ~killed'[w]
                        /\ HasChildren(w)' /\ NoZombieChild(w)'
      BY Zenon DEF NoMissedExit
    <3>1. w # p /\ state[w] = "SLEEPING" /\ pc[w] = "waitret"
      BY Zenon, <2>1, <1>1 DEF Exit, ExitWakes, wakeup1, Goto
    <3>2. /\ chan[w] = w /\ ~killed[w]
          /\ \E q \in Slots : parent[q] = w
          /\ \A q \in Slots : parent[q] = w => state[q] # "ZOMBIE"
      BY Zenon, <1>2, <3>1 DEF NoMissedExit, HasChildren, NoZombieChild
    <3>3. w # parent[p]
      BY Zenon, <2>1, <1>1, <3>1, <3>2 DEF Exit, ExitWakes, wakeup1
    <3>4. \A q \in Slots : state'[q] = "ZOMBIE" => q = p \/ state[q] = "ZOMBIE"
      BY Zenon, <2>1, <1>1 DEF Exit, ExitWakes, wakeup1
    <3>5. \A q \in Slots : parent'[q] = w =>
            \/ parent[q] = w
            \/ parent[q] = p /\ w = initproc
      BY Zenon, <2>1, <1>1 DEF Exit, ExitParents
    <3>6. w = initproc => \A q \in Slots : parent[q] = p => state[q] # "ZOMBIE"
      BY Zenon, <2>1, <1>1, <3>1, <3>2 DEF Exit, ExitWakes, wakeup1
    <3>7. NoZombieChild(w)'
      BY Zenon, <1>2, <3>2, <3>3, <3>4, <3>5, <3>6 DEF NoZombieChild, TreeInv
    <3>8. HasChildren(w)'
      BY Zenon, <2>1, <1>1, <3>1, <3>2 DEF Exit, ExitParents, HasChildren
    <3>9. QED
      BY Zenon, <2>1, <3>2, <3>7, <3>8 DEF Exit
  <2>2. CASE WaitReap(p, c)
    BY <2>2, Basics, <1>1, <1>2 DEF WaitReap, InWait, Running, ParentAlive,
        NoMissedExit, HasChildren, NoZombieChild
  <2>3. CASE WaitSleep(p, c)
    BY <2>3, <1>1, <1>2 DEF WaitSleep, InWait, WaitPointless, Running, Goto,
        NoMissedExit, HasChildren, NoZombieChild
  <2>4. CASE WaitFail(p, c) \/ ExitInit(p, c)
    BY Zenon, <2>4, <1>1, <1>4 DEF WaitFail, InWait, ExitInit, Running, Goto,
        table
  <2>5. QED
    BY Zenon, <1>10, <2>1, <2>2, <2>3, <2>4 DEF ExitWait
<1>11. ASSUME NEW c \in CPUs, NEW p \in Slots, KillSleep(p, c)
       PROVE  NoMissedExit'
  <2>1. CASE Kill(p, c)
    BY Zenon, <2>1, <1>1, <1>4 DEF Kill, Running, Goto
  <2>2. CASE SleepTest(p, c)
    BY Zenon, <2>2, <1>1, <1>4 DEF SleepTest, Running, Goto, table
  <2>3. QED
    BY Zenon, <1>1, <1>4, <1>11, <2>1, <2>2 DEF KillSleep, KillMiss, SleepEnter,
        SleepLock, SleepReturn, SleepRelock, Running, Goto, table
<1>12. QED
  BY Zenon, <1>5, <1>6, <1>7, <1>8, <1>9, <1>10, <1>11 DEF Next, Kernel

\* A sleeper whose time passes is woken before tickslock is released.
LEMMA OversleepStep == IInv /\ [Next]_vars => NoOversleep'
<1> SUFFICES ASSUME IInv, [Next]_vars PROVE NoOversleep'
  OBVIOUS
<1>1. /\ state \in [Slots -> States]
      /\ pc \in [Slots -> Labels]
      /\ np \in [Slots -> Slots \union {None}]
      /\ chan \in [Slots -> Slots \union {None, TICKS}]
      /\ left \in [Slots -> 0 .. MaxSleep]
      /\ irq \in [CPUs -> {"none", "tick", "wake", "check", "yield"}]
      /\ cpu \in [CPUs -> Slots \union {None}]
      /\ tlock \in CPUs \union {None}
  BY Zenon DEF IInv, TypeOK
<1>2. CtxInv /\ TicksInv /\ NoOversleep /\ ForkInv /\ LockInv
  BY Zenon DEF IInv
<1>3. ASSUME UNCHANGED <<state, chan, left, irq>>
      PROVE  NoOversleep'
  BY Zenon, <1>2, <1>3 DEF NoOversleep
<1>4. ASSUME UNCHANGED <<left, irq>>,
             \A q \in Slots : state'[q] = "SLEEPING" /\ chan'[q] = TICKS
               => state[q] = "SLEEPING" /\ chan[q] = TICKS
      PROVE  NoOversleep'
  BY Zenon, <1>2, <1>4 DEF NoOversleep
<1>5. CASE UNCHANGED vars
  BY Zenon, <1>3, <1>5 DEF vars, table, local
<1>6. ASSUME NEW c \in CPUs, Scheduler(c)
      PROVE  NoOversleep'
  <2>1. CASE SchedRun(c)
    BY Zenon, <2>1, <1>1, <1>4 DEF SchedRun, local
  <2>2. QED
    BY Zenon, <1>3, <1>6, <2>1 DEF Scheduler, SchedAcquire, SchedRelease,
        Sched, table, local
<1>7. ASSUME NEW c \in CPUs, TimerIntr(c) \/ Handler(c)
      PROVE  NoOversleep'
  <2>1. CASE Yield(c)
    BY Zenon, <2>1, Basics, <1>1, <1>2 DEF Yield, LockInv, NoOversleep
  <2>2. CASE TimerIntr(c) \/ TimerCheck(c)
    BY Zenon, <2>2, <1>1, <1>2 DEF TimerIntr, Interruptible, TimerCheck,
        NoOversleep,
        table, local
  <2>3. CASE TimerTick(c)
    BY Zenon, <2>3, <1>1 DEF TimerTick, NoOversleep
  <2>4. CASE TimerWake(c)
    BY Zenon, <2>4, <1>1 DEF TimerWake, wakeup1, NoOversleep
  <2>5. QED
    BY Zenon, <1>7, <2>1, <2>2, <2>3, <2>4 DEF Handler
<1>8. ASSUME NEW c \in CPUs, NEW p \in Slots,
             \/ User(p, c) \/ SyscallReturn(p, c) \/ Forkret(p, c)
             \/ YieldReturn(p, c)
      PROVE  NoOversleep'
  BY Zenon, <1>3, <1>8 DEF User, Syscall, UserFault, SyscallReturn, Forkret,
      YieldReturn, table, local
<1>9. ASSUME NEW c \in CPUs, NEW p \in Slots, ForkCall(p, c)
      PROVE  NoOversleep'
  <2>1. CASE ForkAlloc(p, c) \/ ForkFail(p, c) \/ ForkRun(p, c)
    BY Zenon, <2>1, <1>1, <1>4 DEF ForkAlloc, ForkFail, ForkRun
  <2>2. QED
    BY Zenon, <1>3, <1>9, <2>1 DEF ForkCall, ForkFull, ForkKstack, ForkCopy,
        table, local
<1>10. ASSUME NEW c \in CPUs, NEW p \in Slots, ExitWait(p, c)
       PROVE  NoOversleep'
  <2>1. CASE WaitReap(p, c) \/ WaitFail(p, c)
    BY Zenon, <2>1, Basics, <1>1, <1>4 DEF WaitReap, WaitFail, local
  <2>2. CASE Exit(p, c)
    BY Zenon, <2>2, <1>1, <1>4 DEF Exit, ExitWakes, wakeup1, local
  <2>3. CASE WaitSleep(p, c)
    BY Zenon, <2>3, Basics, <1>1, <1>4 DEF WaitSleep, local
  <2>4. QED
    BY Zenon, <1>3, <1>10, <2>1, <2>2, <2>3 DEF ExitWait, ExitInit, table, local
<1>11. ASSUME NEW c \in CPUs, NEW p \in Slots, KillSleep(p, c)
       PROVE  NoOversleep'
  <2>1. CASE SleepEnter(p, c) \/ SleepTest(p, c)
    BY Zenon, <2>1, <1>1, <1>2 DEF SleepEnter, SleepTest, Running, NoOversleep,
        table
  <2>2. CASE Kill(p, c) \/ SleepReturn(p, c)
    BY Zenon, <2>2, Basics, <1>1, <1>4 DEF Kill, SleepReturn, local
  <2>3. CASE SleepLock(p, c)
    BY Zenon, <2>3, <1>1, <1>2 DEF SleepLock, TicksInv, NoOversleep, local
  <2>4. QED
    BY Zenon, <1>3, <1>11, <2>1, <2>2, <2>3 DEF KillSleep, KillMiss,
        SleepRelock, table, local
<1>12. QED
  BY Zenon, <1>5, <1>6, <1>7, <1>8, <1>9, <1>10, <1>11 DEF Next, Kernel

\* nextpid stays ahead of every pid, so allocproc() hands out a new one.
LEMMA PidStep == IInv /\ [Next]_vars => (PidInv /\ UniquePids)'
<1> SUFFICES ASSUME IInv, [Next]_vars PROVE (PidInv /\ UniquePids)'
  OBVIOUS
<1>1. /\ state \in [Slots -> States]
      /\ pid \in [Slots -> Nat]
      /\ nextpid \in Nat
      /\ np \in [Slots -> Slots \union {None}]
  BY Zenon DEF IInv, TypeOK
<1>2. PidInv /\ UniquePids /\ ForkInv /\ OneCpuPerProc /\ LockInv
  BY Zenon DEF IInv
<1>3. ASSUME UNCHANGED <<pid, nextpid>>,
             \A q \in Slots : state'[q] # "UNUSED" => state[q] # "UNUSED"
      PROVE  (PidInv /\ UniquePids)'
  BY Zenon, <1>2, <1>3 DEF PidInv, UniquePids
<1>4. CASE UNCHANGED vars
  BY Zenon, <1>3, <1>4 DEF vars, table
<1>5. ASSUME NEW c \in CPUs, Scheduler(c)
      PROVE  (PidInv /\ UniquePids)'
  <2>1. CASE SchedRun(c)
    BY Zenon, <2>1, <1>1, <1>3 DEF SchedRun, First
  <2>2. QED
    BY Zenon, <1>3, <1>5, <2>1 DEF Scheduler, SchedAcquire, SchedRelease,
        Sched, table
<1>6. ASSUME NEW c \in CPUs, TimerIntr(c) \/ Handler(c)
      PROVE  (PidInv /\ UniquePids)'
  <2>1. CASE TimerWake(c)
    BY Zenon, <2>1, <1>1, <1>3 DEF TimerWake, wakeup1
  <2>2. CASE Yield(c)
    BY Zenon, <2>2, <1>1, <1>2, <1>3 DEF Yield, LockInv, OneCpuPerProc
  <2>3. QED
    BY Zenon, <1>3, <1>6, <2>1, <2>2 DEF Handler, TimerIntr, TimerTick,
        TimerCheck, table
<1>7. ASSUME NEW c \in CPUs, NEW p \in Slots,
             \/ User(p, c) \/ SyscallReturn(p, c) \/ Forkret(p, c)
             \/ YieldReturn(p, c)
      PROVE  (PidInv /\ UniquePids)'
  BY Zenon, <1>3, <1>7 DEF User, Syscall, UserFault, SyscallReturn, Forkret,
      YieldReturn, table
<1>8. ASSUME NEW c \in CPUs, NEW p \in Slots, ForkCall(p, c)
      PROVE  (PidInv /\ UniquePids)'
  <2>1. CASE ForkAlloc(p, c)
    BY <2>1, <1>1, <1>2 DEF ForkAlloc, NextPid, First, PidInv, UniquePids
  <2>2. CASE ForkFail(p, c) \/ ForkRun(p, c)
    <3>1. np[p] \in Slots /\ state[np[p]] = "EMBRYO"
      BY Zenon, <2>2, NewSlot DEF ForkFail, ForkRun, Forking
    <3>2. QED
      BY Zenon, <2>2, <3>1, <1>1, <1>3 DEF ForkFail, ForkRun
  <2>3. QED
    BY Zenon, <1>3, <1>8, <2>1, <2>2 DEF ForkCall, ForkFull, ForkKstack,
        ForkCopy, table
<1>9. ASSUME NEW c \in CPUs, NEW p \in Slots, ExitWait(p, c)
      PROVE  (PidInv /\ UniquePids)'
  <2>1. CASE Exit(p, c)
    BY Zenon, <2>1, <1>1, <1>3 DEF Exit, ExitWakes, wakeup1, Running
  <2>2. CASE WaitReap(p, c)
    BY <2>2, <1>1, <1>2 DEF WaitReap, PidInv, UniquePids
  <2>3. CASE WaitSleep(p, c)
    BY Zenon, <2>3, <1>1, <1>3 DEF WaitSleep, InWait, Running
  <2>4. QED
    BY Zenon, <1>3, <1>9, <2>1, <2>2, <2>3 DEF ExitWait, ExitInit, WaitFail,
        table
<1>10. ASSUME NEW c \in CPUs, NEW p \in Slots, KillSleep(p, c)
       PROVE  (PidInv /\ UniquePids)'
  <2>1. CASE Kill(p, c) \/ SleepLock(p, c)
    BY Zenon, <2>1, <1>1, <1>3 DEF Kill, SleepLock, Running
  <2>2. QED
    BY Zenon, <1>3, <1>10, <2>1 DEF KillSleep, KillMiss, SleepEnter,
        SleepTest, SleepReturn, SleepRelock, table
<1>11. QED
  BY Zenon, <1>4, <1>5, <1>6, <1>7, <1>8, <1>9, <1>10 DEF Next, Kernel

\* The state after userinit() satisfies the invariant.
LEMMA IInvInit == Init => IInv
<1> SUFFICES ASSUME Init PROVE IInv
  OBVIOUS
<1> USE ConstantsAssumption, Basics DEF Init
<1>1. TypeOK
  BY DEF TypeOK, States, Labels
<1>2. CtxInv /\ LockInv /\ TicksInv
  BY DEF CtxInv, LockInv, TicksInv, Resume
<1>3. ForkInv /\ TreeInv /\ PidInv
  BY DEF ForkInv, FillInv, At, Forking, TreeInv, PidInv
<1>4. OneCpuPerProc /\ ProcMemory /\ ParentAlive
  BY DEF OneCpuPerProc, ProcMemory, ParentAlive
<1>5. NoMissedExit /\ NoOversleep /\ UniquePids
  BY DEF NoMissedExit, NoOversleep, UniquePids
<1>6. QED
  BY Zenon, <1>1, <1>2, <1>3, <1>4, <1>5 DEF IInv

-----------------------------------------------------------------------------
\* The type invariant holds for any number of slots, CPUs and programs.
THEOREM TypeCorrect == Spec => []TypeOK
<1>1. Init => TypeOK
  BY IInvInit DEF IInv
<1>2. QED
  BY <1>1, TypeOKStep, PTL DEF Spec

\* The inductive invariant holds in every state of proc.c.
THEOREM Invariance == Spec => []IInv
<1>1. IInv /\ [Next]_vars => IInv'
  BY TypeOKStep, OneCpuStep, LockStep, CtxStep, TicksStep, ForkStep,
     MemoryStep, ParentStep, MissedExitStep, OversleepStep, PidStep DEF IInv
<1>2. QED
  BY IInvInit, <1>1, PTL DEF Spec

\* A process is on at most one CPU, and its state says so whenever that CPU does
\* not hold ptable.lock: what sched() panics about cannot happen.
THEOREM OneCpuPerProcThm == Spec => []OneCpuPerProc
BY Invariance, PTL DEF IInv

\* No process loses its kernel stack or page table while it can still run, and
\* no path of fork() leaks them.
THEOREM ProcMemoryThm == Spec => []ProcMemory
BY Invariance, PTL DEF IInv

\* exit() and kill() never slip past a wait() that is about to sleep.
THEOREM NoMissedExitThm == Spec => []NoMissedExit
BY Invariance, PTL DEF IInv

\* Every process that fork() completed has a parent that can still reap it.
THEOREM ParentAliveThm == Spec => []ParentAlive
BY Invariance, PTL DEF IInv

\* sleep() and wakeup() lose no tick: sleep() takes ptable.lock before it
\* releases tickslock.
THEOREM NoOversleepThm == Spec => []NoOversleep
BY Invariance, PTL DEF IInv

\* As long as nextpid does not overflow, slots in use have different pids.
THEOREM UniquePidsThm == Spec => []UniquePids
BY Invariance, PTL DEF IInv
=============================================================================
