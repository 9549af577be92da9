# A TLA+ verification of xv6

This directory models the kernel of `src/xv6-lab2`, an xv6 whose user stacks
grow down from the top of user memory, with its shell, allocator and `grep`. It
has TLA+ modules translated from the C code, TLC instances that check them, and
TLAPS proofs for the process table, spin locks, the log, the buffer cache, pipes, the
console, address spaces and the contents of files. `PROJECT.json` maps every definition to the lines it stands for.

## The system

A process enters the kernel by a system call or a trap (`trap.c`, `syscall.c`).
It then runs kernel code on its own kernel stack until it returns, sleeps or is
preempted. Three kinds of concurrency meet there: several CPUs, processes that
sleep and are switched in the middle of a system call, and interrupt handlers.

| Part | Source | Model | Status |
|---|---|---|---|
| processes, scheduler, sleep and wakeup | `proc.c`, timer of `trap.c`, `sys_sleep` | `Proc` | partly: file references are in `Fs` |
| spin locks | `spinlock.c` | `Spinlock` | modelled |
| write-ahead log | `log.c` | `Log`, `AtomicFs` | modelled |
| buffer cache, sleep locks, disk | `bio.c`, `sleeplock.c`, `ide.c` | `Bio` | modelled; of `ide.c` the request queue |
| inodes, directories, paths | `fs.c` | `Fs` | modelled |
| file system calls, file table | `sysfile.c`, `file.c` | `Fs`, `FileData`, `Pipe` | partly: no `sys_exec`, `sys_pipe` |
| block allocator, contents of files | `fs.c`, `file.c` | `FileData`, `ByteFiles` | modelled |
| pipes | `pipe.c` | `Pipe`, `Fifo` | modelled |
| console | `console.c` | `Console`, `Tty` | partly: no screen, no keyboard tables |
| address spaces, growing stacks | `vm.c`, `exec.c`, `growproc`, page faults | `Vm` | partly: no segments, no ELF loading |
| physical pages | `kalloc.c` | a count in `Vm` | partly |
| traps, system call entry | `trap.c`, `syscall.c` | in `Proc`, `Vm`, `Spinlock` | partly |
| shell, init | `sh.c`, `init.c` | `Parse`, `Shell` | modelled |
| `malloc`, `free` | `umalloc.c` | `Heap` | modelled |
| `grep` | `grep.c` | `Grep` | modelled |
| boot, device set-up, `mkfs`, other programs | `main.c`, `mp.c`, `lapic.c`, ... | | not modelled |

The parts stack up. Spin locks protect all of the rest. `sleep` and `wakeup` of
the process table are used by the log, the disk, sleep locks and pipes. The file
system writes through the log, the log through the buffer cache, and the cache
through the disk driver. Each model takes the layer below it at its interface:

- In every model but `Spinlock`, code between `acquire` and `release` is one
  step, which is what `MutualExclusion` of `Spinlock` allows. `Proc` keeps
  `ptable.lock` and `tickslock` explicit, because `ptable.lock` is taken by one
  thread and released by another. `Pipe` keeps `p->lock`, because both functions
  decide and sleep under it.
- Outside `Proc`, `sleep` gives up the lock and sleeps in one step. `NoOversleep`
  and `NoMissedExit` of `Proc` are the properties behind that.
- `Log` uses a block cache that may drop a block that is clean and unlocked.
  `Bio` models that cache in detail. No run composes the two.
- `Fs` and `FileData` see the disk through the log: what a system call writes is
  there for the next one. `LinkCounts` holds at every step, hence also in the state
  that `AtomicFs` makes durable.
- `Shell` uses processes, pipes and descriptors as `Proc`, `Pipe` and `Fs` have
  them: a full process table, the lowest free descriptor, end of file when the
  last write end is closed.

## The modules

### Proc

A process is a slot of `ptable.proc`. `state`, `pid`, `parent`, `chan` and
`killed` are the fields of `struct proc`; `mem` says which of `kstack` and
`pgdir` are allocated. `pc[p]` is the point its kernel thread has reached, and
`cpu`, `scan` and `irq` describe each CPU: what it runs, where its scheduler loop
is, and where its timer handler is. The actions follow the functions: `fork` in
four steps (it fills in the new slot without `ptable.lock`), `exit`, `wait`,
`kill`, `sys_sleep`, `yield`, `sched`, the scheduler loop and the timer handler.
`ticks - ticks0 < n` is kept as the number of ticks left. What a program may do
is a constant, `Calls`.

### Spinlock

Each CPU has a thread and an interrupt handler above it. `acquire` and `release`
are cut where another CPU or an interrupt can come in between, also between
`readeflags` and `cli` in `pushcli`. The callers keep a lock order and release
only what they hold. Memory is sequentially consistent: `xchg` and
`__sync_synchronize` are taken to do what their comments say.

### Log and AtomicFs

`home`, `hdr` and `logd` are the disk, `cache` and `dirty` the buffer cache, `lh`,
`outstanding` and `committing` are `struct log`. Each disk write is a step, a
crash may come between any two steps, and recovery may crash too. A block write
is atomic. `AtomicFs` is what the log promises: the volatile contents become
durable in one step, `Commit`, and only when no system call is active. The
refinement mapping takes the durable contents to be what recovery would produce
from the disk (`Recovered`).

### Bio

`bget`, `bwrite`, `brelse`, `acquiresleep`, `releasesleep`, `iderw` and `ideintr`
over the LRU list, the request queue and a disk that executes one command at a
time. `log_write` stands for a caller that leaves a buffer dirty. A process holds
one buffer at a time. A read error does what `ideintr` does: the buffer keeps its
old data and becomes valid.

### Pipe and Fifo

`piperead` and `pipewrite` byte by byte, `pipeclose`, `fork` of the ends, and
`kill`, which does not take `p->lock`. `nread` and `nwrite` count modulo `WORD`,
which is 2^32 in the code. `Fifo` is a bounded queue; the mapping reads the queue
off the ring and the two counters.

### Vm

`pt[p]` maps the pages of a process to contents, `tables[p]` is its set of page
tables, `free` the length of the free list. `sbrk`, page faults, `fork`, `exec`
and `wait`'s `freevm` are actions, each with its out-of-memory paths. A call that
allocates several pages is one step: other processes reach it only through the
free list. `lost` counts frames that no list and no address space has any more;
only a failed `fork` adds to it.

### Fs

`dinode` is the disk, `icache`, `ftable`, `ofile` and `cwd` are the kernel's
tables. A step begins where a sleep lock is taken (`LockReg` says which one, for
each label). A step that takes a lock and gives it back is atomic. `create`,
`sys_unlink` and `dirlink` hold a lock across other steps. `iput` is three steps,
because it looks at `ref` and drops its reference at different times; `put[p]` is
the queue of references that `p` gives to it. A directory is a sequence of
entries, a path a sequence of elements. History variables: `raced` (inodes of
which two `iput` overlapped) and `lost` (inodes named in a directory that was
removed already); `reg[p].dead` says that the walk of `p` left a removed directory.
The cache is as large as the disk (`NINODE` at least the number of inodes), and
`ialloc` and its `iget` are one step.

### FileData and ByteFiles

The functions of `fs.c` on blocks are operators on a record of what they change,
with the blocks that `log_write` records. Their loops are recursive functions of the
number of turns, one block per turn (`WriteLoop`, `ReadLoop`, `FreeLoop`). A chunk of `filewrite` is a transaction
with the inode locked, so it is one step; chunks of different processes
interleave. `ByteFiles` is what files promise: sequences of bytes, with offsets
that processes share. Its `Write` may write any number of bytes per chunk.

### Console and Tty

`consoleintr` handles one character per step. `consoleread` is cut at each lock,
at each character, and between the test of `killed` and the sleep. `cons.lock` and
the lock of the console's inode are explicit. `Tty` is the line discipline.
Characters are `a`, newline, `^D`, backspace and `^U`; `r`, `w` and `e` wrap.

### Parse, Shell, Heap and Grep

`Parse` has one operator per function of the parser. They call one another through
one recursive function of name and position (`Parser`). `Shell` runs what was
parsed: a process is a slot with its descriptors, and `pc` says where it is in
`main` or `runcmd`. A program reads its input to the end and exits. `Heap` keeps
the headers of `umalloc.c` in an array of units; the program may also call `sbrk`
itself. `Grep` is the loop over what `read` returns, and the matcher. The
references they are checked against are a grammar (`IsLine`), a partition of the
units, and the language of a pattern as a set of texts (`Language`).

## The runs

Times are for two workers on a small machine, with coverage statistics.

| Run | Instance | States | Time |
|---|---|---|---|
| `proc_safety` | 3 slots, 2 CPUs, 3 pids, sleeps of 1 tick | 752,635 | 136 s |
| `proc_liveness` | 3 slots, 1 CPU | 28,081 | 124 s |
| `log` | 2 processes, 2 blocks, 2 values, 3 calls, 2 crashes | 154,084 | 110 s |
| `spinlock` | 2 CPUs, 2 locks | 66,128 | 22 s |
| `vm` | 2 processes, 16 pages, 14 frames | 197,058 | 113 s |
| `pipe` | 3 processes, 2-byte pipe, counters modulo 4, 1 kill | 1,333,638 | 94 s |
| `bio` | 2 processes, 3 buffers, 4 blocks, 1 read error | 129,011 | 42 s |
| `fs` | 2 processes and a child, 4 inodes, 3 files, four scenarios | 289,000 | 122 s |
| `fs_leak` | as `fs`; must find a violation (Findings) | | 7 s |
| `file` | 2 processes, 2 inodes, 6 blocks of 2 bytes, 1 direct and 2 indirect blocks | 140,667 | 88 s |
| `console` | 2 processes, 2-character ring, indices modulo 4, 4 keys, 3 calls | 319,802 | 99 s |
| `user` | shell: 6 slots, 2 lines; heap: 6 units; grep: inputs of 4 characters | 118,929 | 161 s |

What the passing runs show:

- `proc_safety`: a process runs on at most one CPU, and a process whose state has
  changed stays on its CPU only under `ptable.lock` (`OneCpuPerProc`); stacks and
  page tables are neither freed in use nor leaked (`ProcMemory`); `exit`, `wait`,
  the timer and `sys_sleep` lose no wakeup (`NoMissedExit`, `NoOversleep`). Three
  slots are init, a parent and its child, so an orphan can be handed over; two
  CPUs are needed for a zombie that is still on its stack. The programs are fixed
  (`MCProc`): the parent forks, waits, sleeps and exits, its child kills pid 2 or
  faults, and init exits when it gives up. Programs that do everything, and
  families of more than three, are left to the proofs, which hold for every
  `Calls` and every number of slots.
- `proc_liveness`: runnable processes run, orphans are reaped, killed processes
  exit, sleeps end. It is about one CPU only.
- `log`: `Log` implements `AtomicFs`; a call that reaches `begin_op` gets in and
  finishes (`OpsFinish`). Two crashes let recovery itself crash. Two processes with
  two blocks each make group commits of blocks that are absorbed. `NoPanic` says
  that no call ends during a commit, and that the log always has room for what the
  calls in progress may still write: with a third call, a process comes back while
  the other is still in the transaction and its own blocks are in the log. A call of
  the instance writes at most two of the four blocks reserved for it, and the log
  has eight. So it keeps to the hypothesis under which the panic of `log_write` is
  proved to be out of reach (`Slack`, see The proofs and Known divergences).
- `spinlock`: mutual exclusion, interrupts restored by the last `release`, no
  deadlock between a thread and a handler. Two locks make `ncli` nest.
- `vm`: every frame is free, in one address space, or counted as leaked by a failed
  `fork` (`MemoryConserved`), a child is a copy (`ForkCopies`), and a failed call
  leaves memory and sizes alone (`FailedCallKeeps`). Three limits of the instance
  matter: a stack grows one page at a time (`MaxJump = 1`), no program shrinks to
  size 0, and no `sbrk` that memory cannot satisfy reaches into the stack. They are
  the hypotheses `PageByPage`, `NeverEmpty` and `BelowStack` of the proofs.
- `pipe`: `Pipe` implements `Fifo` across the wrap of the counters; end of file
  means that all writers are gone (`EofMeansDone`); the page is freed once and not
  used again. `SleepersNeeded` makes an exception for readers once a process was
  killed.
- `bio`: no process sees a stale block, whatever is recycled and however misses on
  one block overlap (`ReadsFresh`, as long as there was no read error), and no
  interrupt or wakeup is lost (`SleepersQueued`). Four blocks and three buffers
  force recycling, and one buffer may stay dirty.
- `fs`: link counts are never below the number of names and equal to it when all is
  quiet (`LinkCounts`), reference counts are the number of pointers on every way out
  of every call (`RefsCounted`), no inode is freed in use (`HeldInodesAllocated`),
  the panics that remain are explained (`PanicsExplained`), and an inode without
  names or references is free unless two `iput` overlapped (`OnlyRacesLeak`).
  `LocksOrdered` says that locking alone never deadlocks; every circle of waits goes
  through an `iput`. The scenarios (`MCFs`) set calls against each other that meet in
  the same directories: names made and removed, descriptors shared by `fork`, working
  directories removed with their parents, and calls that fail.
- `file`: the blocks implement files of bytes (`ImplementsByteFiles`), no block is
  leaked, shared or freed twice (`BlocksOwnedOnce`), and a chunk fits the log
  (`ChunkFitsLog`). Six blocks let the disk fill up, and files of three blocks need
  the indirect block. Writes of four bytes take two chunks.
- `console`: `Console` implements `Tty` across the wrap of the indices; readers are
  woken (`ReadersNeeded`); a writer ends although a reader waits (`WritesFinish`).
- `user`: three programs that share no state, one per behaviour (`part` in `MCUser`).
  The parser accepts the grammar and keeps every word (`ParserAgrees`, all lines of up
  to three characters and some longer ones). When the prompt is back only background
  processes run, unless a fork failed (`PromptMeansDone`). Every command line ends
  (`PromptReturns`). Six slots are few enough for forks to fail. The heap is
  partitioned into blocks with no two free neighbours (`HeapPartitioned`). `grep`
  prints the lines in the language of the pattern, for all patterns of up to two
  characters and some longer ones (`GrepPrints`).

Deadlock is checked in `proc_*`, `spinlock` and `bio`. In `log`, `pipe`, `vm`,
`file`, `console` and `user` it is not: their bounded programs end, and so does a
kernel that panicked. In `fs` it is not, because the code can deadlock (Known
divergences). Symmetry is used in `pipe`, `bio` and `file`, which have no liveness
property.

### Fairness

- `Proc`: strong fairness for the scheduler, the timer and a kernel thread, because
  on one CPU each of them is interrupted and given the CPU again and again; weak
  fairness for a handler in progress. init calls `wait` again and again, as
  `init.c` does. User programs owe nothing.
- `Log`: processes that are ready run and the disk answers (weak). Strong fairness
  of `end_op` says that a system call makes finitely many writes.
- `Spinlock`: CPUs go on executing and critical sections end (weak). Nothing is
  assumed for a CPU that spins: `xchg` may fail for ever, so there is no claim that
  each `acquire` returns.

- `Console`: a process in the kernel goes on (weak). Nothing is assumed of typing.
- `Shell`: every process goes on, and a program ends once its input does (weak). The
  user owes no input.

## Findings

- `fs_leak`: `iput` (`fs.c:338`) reads `ref`, lets go of `icache.lock`, and drops its
  reference later. Two processes that drop the last two references to a removed file
  at the same time each see the other's, and neither frees the inode. Its comment
  promises the opposite (`fs.c:328`). `OnlyRacesLeak` shows that this is the only way.

## Known divergences

Met while modelling; no run asserts the contrary.

- `kill` (`proc.c:488`) does not look at `p->state`, so it can mark a free slot, and
  `allocproc` does not clear `killed`.
- `log_write` (`log.c:218`) leaves room for `LOGSIZE - 1` blocks, since `mkfs` counts
  the header in `sb.nlog`, and tests before it looks for the block in the log;
  `begin_op` admits calls for `LOGSIZE`. Calls that use all of their `MAXOPBLOCKS` can
  reach the panic. A chunk of `filewrite` (`file.c:133`) fits the log but may log more
  than `MAXOPBLOCKS`.
- The page fault case (`trap.c:94`) adds one to `stackSize` whatever the number of
  pages it maps. After a frame of two pages the next growth panics with "remap".
- A writer that is killed on a full pipe (`pipe.c:86`) returns before it wakes the
  readers of the bytes it wrote.
- `create` and `sys_unlink` put the directory while they hold the inode
  (`sysfile.c:281`, `sysfile.c:225`), and `iput` takes the directory's lock: a process
  that has the directory and wants the inode waits for ever. `dirlink` of `.` waits
  for itself.
- A name can be made in a directory that was removed after the lookup, and `..` of a
  removed directory can lead to a freed inode and the panic "ilock: no type".
- `grep` (`grep.c:29`) forgets the beginning of a line when the buffer holds no newline
  after a `read`; `GrepPrints` excepts such runs (`dropped`).
- A failed `copyuvm` does not free the page it could not map (`vm.c:337`); a failed
  `sbrk` that reaches into the stack unmaps stack pages (`vm.c:238`); a read error
  still sets `B_VALID` (`ide.c:118`); a killed reader of the console returns -1 after
  it took characters (`console.c:249`); `a & b` is a syntax error in `sh.c`.

## The proofs

The theorems hold for every value of the constants allowed by the named
assumption of the module, `ConstantsAssumption`. It says that sizes are naturals, that
there is at least one slot, CPU and lock, that sets that are counted are finite, and
that a missing value is none of the others. Some say more:

- `Pipe` and `Console`: the counters are unsigned words, and the number of their values is
  a proper multiple of the size of the ring (2^32, and 512 and 128 in the code).
- `Log`: a system call writes at most `OpBlocks <= MAXOPBLOCKS` blocks (see below).
- `FileData`: the log has at least 6 blocks. With fewer, `max` of `filewrite` is 0 and its
  loop would go on for ever (the code has 30).
- `Vm`: there are frames for the page directory, the page and the page table of the first
  process, and a program's text is smaller than the user's part of the address space.

**Proc** (`ProcProofs`): `Spec => []P` for `TypeOK`,
`OneCpuPerProc`, `ProcMemory`, `NoMissedExit`, `ParentAlive`, `NoOversleep` and
`UniquePids` (no run repeats `TypeOK`, `ParentAlive` and `UniquePids`). None but the
type invariant is inductive alone. `IInv` adds:

- `CtxInv`: where a thread can be for each state of its slot, and that init lives.
- `LockInv`: a CPU holds `ptable.lock` exactly when what it runs is at a resume
  point. This makes the hand-over through `swtch` work.
- `TicksInv`: who holds `tickslock` between the test of a deadline and the sleep.
- `ForkInv`: the slot that `fork` fills in without the lock is nobody else's.
- `TreeInv`, `PidInv`: free slots have no parent; pids are below `nextpid`.

There is one lemma per conjunct, with one step per action. `MaxPid` bounds
`nextpid`, so `UniquePids` says nothing of an `int` that wraps.

**Spinlock** (`SpinlockProofs`): `Spec => []P` for `MutualExclusion`,
`InterruptsOff`, `InterruptsRestored` and `NoPanic`, for any number of CPUs and
locks. The invariant says who owns a taken lock at each point of `acquire` and
`release` (`OwnInv`, `OwnerInv`), that a context that does not run holds nothing
(`ModeInv`), that `ncli` is the number of locks held plus one inside a call
(`NcliInv`), and what `intena` will restore (`FlagInv`).

**Console** (`ConsoleProofs`): `Spec => []ReadersNeeded` for any number of processes,
and any sizes of ring and words as above. The invariant adds that the
process that tests the ring holds `cons.lock`, and that the ring is still empty when
it goes to sleep. An interrupt that moves `w` wakes every sleeper, and holds the lock
while it does; a reader that moves `r` has found characters, so nobody sleeps.
`Spec => ImplementsTty`: the lines of `Tty` are the segments of the ring from `r` to `w`
and from `w` to `e`. `RingInv` says that the three indices are in that order and at most
`INPUT_BUF` apart modulo `WORD`, so that a character typed overwrites none that is still
to be read, and that the line being edited has no newline, so that `^U` takes back all
of it. `GotInv` says that a read that has met a newline takes no more.

**Pipe** (`PipeProofs`): `Spec => ImplementsFifo`, `Spec => EofMeansDone`,
`Spec => []SleepersNeeded` and `Spec => []NoUseAfterFree`, for any number of processes,
any `PIPESIZE` and counters of any width that `PIPESIZE` divides and is less than (512
and 2^32 in the code). The bytes in the pipe are `Contents` of the array from `nread`
to `nwrite`, at their distance modulo `WORD`. `QueueInv` bounds that distance by
`PIPESIZE`; a byte written then falls on a place that is free, and since `PIPESIZE`
divides `WORD` the place stays the same when a counter wraps. `EndsInv` says that who
is inside a read or write has a reference, so `pipeclose` comes after the last use, and
`FreeInv` that one process frees the page. `SleepInv` covers the time between a change
of the pipe and the wakeup that follows it under `p->lock`, and `EofInv` the time
between the test for end of file and the return.

**Bio** (`BioProofs`): `Spec => []ReadsFresh` and `Spec => []SleepersQueued`, for any
number of processes, buffers and blocks. The invariant has six parts.

- `TypeInv` and `ListInv`: the LRU list has every buffer, so that a miss looks at all.
- `RefInv`: `refcnt` is the number of processes that `bget` gave the buffer, the buffer
  keeps the block they asked for, and no block has two buffers.
- `LockInv`: who reads or writes a buffer has its sleep lock, and the buffer is valid
  once `bread` is over.
- `QueueInv`: a request is in the queue, once, exactly while its process sleeps in
  `iderw`, and the disk executes the first.
- `FreshInv`: while no read failed, a valid buffer has the newest contents of its block,
  and the disk has them unless a dirty buffer does.

**Log** (`LogProofs`): `Spec => ImplementsAtomicFs`, for any number of processes,
blocks, values, system calls and crashes and any size of the log; and
`Slack` implies `Spec => []NoPanic`. Each step of `Log` is shown to be a step of
`AtomicFs` or to change nothing of it: `write_head` is `Commit`, `Modify` is `Write`,
and no step of `write_log`, `install_trans` or recovery is seen from outside. The
invariant has these parts.

- `CallInv`: `outstanding` is the number of calls in progress, and a block that is being
  changed is locked by one of them.
- `CommitInv`, `BootInv`: one process commits, while no call is in progress; nothing
  runs before recovery is over.
- `CacheInv`: a cached block that is neither dirty nor locked is the one on the disk.
- `DiskInv`: what is on the disk at each point of a commit and of recovery. The header
  is empty except while blocks are installed; then it is the transaction, the blocks
  up to `tail` are in their homes, and the log still has the contents of the rest. No
  block is in a header twice.
- `RoomInv`: the blocks in the log, plus `MAXOPBLOCKS` for each call in progress, exceed
  `LOGSIZE` by no more than the blocks that those calls have in the log already. With
  at most `MAXOPBLOCKS` blocks per call the transaction then fits `LOGSIZE`.

Both theorems assume that no call writes more than `MAXOPBLOCKS` blocks, as `param.h`
says of it. Without that the log can overrun, because `log_write` tests the length
before it takes the lock. `Slack` is what `NoPanic` needs beyond it: a call leaves some
of its reservation unused, and two blocks of it when `sb.nlog` is `LOGSIZE`, as `mkfs`
makes it. For the values of the code that is at most 8 blocks per call. The pieces of
`filewrite` may log more (Known divergences), and nothing is proved of those.

**Vm** (`VmProofs`): `Spec => []MemoryConserved` for any number of processes, pages and
frames. A frame in use is a triple of process, kind and number (`InUse`), so that what
an address space takes and gives back is a disjoint union; every action is shown to move
as many frames as `free` and `lost` change by, its failing paths included. The other two
theorems have hypotheses, because the code needs them (Known divergences):

- `PageByPage` implies `Spec => ForkCopies`. `copyuvm` walks `0` to `sz` and `stackSize`
  pages below the top; `CoverInv` says that nothing is mapped elsewhere. A stack that
  jumps over a page would break it, because the page fault case adds one to `stackSize`
  for any number of pages.
- `PageByPage`, `NeverEmpty` and `BelowStack` imply `Spec => FailedCallKeeps`. What
  `allocuvm` undoes is what it mapped, because the pages it was asked for were not mapped
  before: `FullInv` says that text, heap and stack are mapped without holes and do not
  meet. A process has no more pages than there are frames, hence `BelowStack`.

**FileData** (`FileDataProofs`): `Spec => []BlocksOwnedOnce`, `Spec => []ChunkFitsLog` and
`Spec => ImplementsByteFiles`, for any number of processes, inodes and open files and any
sizes of block, disk, direct part and log. First the functions of `fs.c` are shown to do
what they promise, each for a record of which the blocks of other files (`Others`) are in
use and apart from its own:

- `BmapFills`: `bmap` allocates the block asked for, and the indirect one, in places that
  were empty, and moves nothing else; or the disk is full.
- `WriteiDone` (`WriteDone`): the cells from `off` on are those of `src`, all other cells
  of the file and all blocks of other files are as before, there is no hole below the
  size, and the log has at most `Turns + 3` blocks.
- `ReadiDone` (`ReadDone`): `out` has the cells from `off` on, up to the size, and nothing
  is allocated. `ItruncDone` (`TruncDone`): exactly the blocks of the file are freed.

A loop is followed turn by turn: `Turnwise` is the induction over the turns, from the
least counterexample. The invariant is `TypeInv`; `OwnInv`, that each block in use is in
one place of one inode; `FileInv`, that files have no holes (`Whole`), that offsets are
within the size, and that a write in progress has its file open; and `LogInv`. A step is
then a transaction on one inode (`Transaction`) that leaves the others alone
(`AfterTransaction`). Each step maps to a step of `ByteFiles` or changes none of its
variables: a chunk is `Write` or `GiveUp`, a panic is not seen.

Only model-checked:

- every liveness property (those of `proc_liveness`, `LocksProgress`, `OpsFinish`,
  `WritesFinish`, `PromptReturns`): liveness under fairness and `ENABLED` are out of the
  prover's reach;
- the parser, the matcher and the heap (`ParserAgrees`, `GrepPrints`, `HeapPartitioned`):
  what a recursive definition computes for every input takes induction over data, and
  their modules use recursive operators;
- the shell (`PromptMeansDone`) and the invariants of `Fs`: their inductive invariants
  would describe every label of every call with the pointers it holds, a project of the
  size of all proofs above.

## Not modelled

- Boot, device registers, assembly and `mkfs` run before or below the concurrency
  that the models are about.
- The screen, the serial port and the keyboard tables are device access and layout.
- The other user programs are straight-line clients without state of their own, and
  `usertests.c` is a test suite. `shm_open` and `shm_close` are empty stubs, so
  nothing is shared for `uacquire` and `urelease` to guard.
- Weak memory ordering, the wrap of `ticks` and `nextpid`, and torn block writes.
- System call arguments (`argptr`, `fetchstr`) only compare addresses with `sz`.
- `Log` is not composed with `Bio`, nor `Fs` with `FileData`: each has too many steps
  between two points of the other for TLC. What passes between them is stated above.
