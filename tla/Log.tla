-------------------------------- MODULE Log ---------------------------------
(***************************************************************************)
(* The write-ahead log of xv6 (log.c) over the buffer cache (bio.c) and a  *)
(* disk that writes one block at a time, with a crash between any two      *)
(* steps and recovery at the next boot.                                    *)
(*                                                                         *)
(* A block's content is one value.  The code between acquire(&log.lock)    *)
(* and release(&log.lock) is one step, and so is each synchronous disk     *)
(* write; the test at the top of log_write() reads log.lh.n without the    *)
(* lock and is a step of its own.  The cached copies of the log and header *)
(* blocks equal the disk, because they are only changed by bwrite(), and   *)
(* are left out.                                                           *)
(***************************************************************************)
EXTENDS Integers, Sequences, FiniteSets

CONSTANTS
  Procs,        \* processes that make file system calls
  Blocks,       \* block numbers outside the log
  Vals,         \* contents of a block
  MAXOPBLOCKS,  \* param.h
  LOGSIZE,      \* param.h
  LogBlocks,    \* sb.nlog, the length of the on-disk log with its header
  OpBlocks,     \* the most blocks that one system call really writes
  MaxOps,       \* bound: system calls of all processes
  MaxCrash,     \* bound: crashes
  NoBuf,        \* cache entry of a block that is not cached
  NoBlock       \* the process holds no buffer

ASSUME ConstantsAssumption ==
  /\ IsFiniteSet(Procs) /\ IsFiniteSet(Blocks)
  /\ MAXOPBLOCKS \in Nat /\ LOGSIZE \in Nat \ {0} /\ LogBlocks \in Nat
  /\ OpBlocks \in 0 .. MAXOPBLOCKS   \* "max # of blocks any FS op writes"
  /\ MaxOps \in Nat /\ MaxCrash \in Nat
  /\ NoBuf \notin Vals /\ NoBlock \notin Blocks

VARIABLES
  \* disk
  home,         \* the blocks in their own places
  hdr,          \* the header block: the first n block numbers
  logd,         \* the data blocks of the log
  \* buffer cache: contents, and B_DIRTY
  cache, dirty,
  \* struct log
  lh, outstanding, committing,
  \* processes
  pc,
  buf,          \* the block whose buffer the process holds locked
  wrote,        \* the blocks its system call has written
  ops,          \* system calls still to be made
  tail,         \* of write_log() and install_trans()
  boot,         \* where initlog() is, or "up", or "panic"
  crashes

disk == <<home, hdr, logd>>
vars == <<disk, cache, dirty, lh, outstanding, committing, pc, buf, wrote,
          ops, tail, boot, crashes>>

\* mkfs made the file system; the machine is about to boot.
Init ==
  /\ hdr = <<>>
  /\ \E v \in Vals : /\ home = [b \in Blocks |-> v]
                     /\ logd = [i \in 1 .. LOGSIZE |-> v]
  /\ cache = [b \in Blocks |-> NoBuf]
  /\ dirty = {}
  /\ lh = <<>> /\ outstanding = 0 /\ committing = FALSE
  /\ pc = [p \in Procs |-> "idle"]
  /\ buf = [p \in Procs |-> NoBlock]
  /\ wrote = [p \in Procs |-> {}]
  /\ ops = MaxOps
  /\ tail = 0
  /\ boot = "readhead"
  /\ crashes = 0

Goto(p, label) == pc' = [pc EXCEPT ![p] = label]

\* wakeup(&log), and p goes on at the label.
WakeGoto(p, label) ==
  pc' = [q \in Procs |-> IF q = p THEN label
                         ELSE IF pc[q] = "asleep" THEN "begin" ELSE pc[q]]

Locked(b) == \E q \in Procs : buf[q] = b

-----------------------------------------------------------------------------
(* Buffer cache: other code reads any block at any time, and bget()        *)
(* recycles buffers.                                                       *)

Load(b) ==
  /\ boot = "up" /\ cache[b] = NoBuf
  /\ cache' = [cache EXCEPT ![b] = home[b]]
  /\ UNCHANGED <<disk, dirty, lh, outstanding, committing, pc, buf, wrote, ops,
                 tail, boot, crashes>>

\* "Even if refcnt==0, B_DIRTY indicates a buffer is in use".
Recyclable(b) == ~Locked(b) /\ b \notin dirty

Evict(b) ==
  /\ boot = "up" /\ cache[b] # NoBuf /\ Recyclable(b)
  /\ cache' = [cache EXCEPT ![b] = NoBuf]
  /\ UNCHANGED <<disk, dirty, lh, outstanding, committing, pc, buf, wrote, ops,
                 tail, boot, crashes>>

-----------------------------------------------------------------------------
(* A system call: begin_op(), writes, end_op().                            *)

Syscall(p) ==
  /\ boot = "up" /\ pc[p] = "idle" /\ ops > 0
  /\ ops' = ops - 1
  /\ Goto(p, "begin")
  /\ UNCHANGED <<disk, cache, dirty, lh, outstanding, committing, buf, wrote,
                 tail, boot, crashes>>

\* (mutant) the calls in progress are not counted, only the new one.
BugMustWait == committing \/ Len(lh) + MAXOPBLOCKS > LOGSIZE

MustWait ==
  \/ committing
  \/ Len(lh) + (outstanding + 1) * MAXOPBLOCKS > LOGSIZE

begin_op(p) ==
  /\ boot = "up" /\ pc[p] = "begin" /\ ~MustWait
  /\ outstanding' = outstanding + 1
  /\ Goto(p, "op")
  /\ UNCHANGED <<disk, cache, dirty, lh, committing, buf, wrote, ops, tail,
                 boot, crashes>>

begin_op_sleep(p) ==
  /\ boot = "up" /\ pc[p] = "begin" /\ MustWait
  /\ Goto(p, "asleep")
  /\ UNCHANGED <<disk, cache, dirty, lh, outstanding, committing, buf, wrote,
                 ops, tail, boot, crashes>>

\* bp = bread(b); modify bp->data.  The call keeps to its OpBlocks blocks.
Modify(p, b, v) ==
  /\ boot = "up" /\ pc[p] = "op"
  /\ ~Locked(b)
  /\ b \in wrote[p] \/ Cardinality(wrote[p]) < OpBlocks
  /\ cache' = [cache EXCEPT ![b] = v]
  /\ buf' = [buf EXCEPT ![p] = b]
  /\ wrote' = [wrote EXCEPT ![p] = @ \union {b}]
  /\ Goto(p, "check")
  /\ UNCHANGED <<disk, dirty, lh, outstanding, committing, ops, tail, boot,
                 crashes>>

TooBig == Len(lh) >= LOGSIZE \/ Len(lh) >= LogBlocks - 1

\* log_write(), before it takes log.lock.
log_write_check(p) ==
  /\ boot = "up" /\ pc[p] = "check"
  /\ IF TooBig \/ outstanding < 1
     THEN boot' = "panic" /\ UNCHANGED pc
     ELSE Goto(p, "append") /\ UNCHANGED boot
  /\ UNCHANGED <<disk, cache, dirty, lh, outstanding, committing, buf, wrote,
                 ops, tail, crashes>>

\* The numbers in a header.
Logged(s) == {s[i] : i \in DOMAIN s}

Absorb(b) == IF b \in Logged(lh) THEN lh ELSE Append(lh, b)

\* The rest of log_write(), and brelse(bp).
log_write(p) ==
  /\ boot = "up" /\ pc[p] = "append"
  /\ lh' = Absorb(buf[p])
  /\ dirty' = dirty \union {buf[p]}
  /\ buf' = [buf EXCEPT ![p] = NoBlock]
  /\ Goto(p, "op")
  /\ UNCHANGED <<disk, cache, outstanding, committing, wrote, ops, tail, boot,
                 crashes>>

\* The last system call to end commits the transaction of all.
end_op_commit(p) ==
  /\ boot = "up" /\ pc[p] = "op" /\ ~committing
  /\ outstanding = 1
  /\ outstanding' = 0
  /\ committing' = TRUE
  /\ wrote' = [wrote EXCEPT ![p] = {}]
  /\ Goto(p, IF lh = <<>> THEN "finish" ELSE "wlog")
  /\ UNCHANGED <<disk, cache, dirty, lh, buf, ops, tail, boot, crashes>>

end_op(p) ==
  /\ boot = "up" /\ pc[p] = "op"
  /\ outstanding # 1 \/ committing
  /\ outstanding' = outstanding - 1
  /\ wrote' = [wrote EXCEPT ![p] = {}]
  /\ IF committing
     THEN boot' = "panic" /\ UNCHANGED pc
     ELSE WakeGoto(p, "idle") /\ UNCHANGED boot
  /\ UNCHANGED <<disk, cache, dirty, lh, committing, buf, ops, tail, crashes>>

-----------------------------------------------------------------------------
(* commit(), by the process that ended last.                               *)

write_log(p) ==
  /\ boot = "up" /\ pc[p] = "wlog" /\ tail < Len(lh)
  /\ ~Locked(lh[tail + 1])
  /\ logd' = [logd EXCEPT ![tail + 1] = cache[lh[tail + 1]]]
  /\ tail' = tail + 1
  /\ UNCHANGED <<home, hdr, cache, dirty, lh, outstanding, committing, pc, buf,
                 wrote, ops, boot, crashes>>

\* (mutant) the header goes to disk before the last block of the log.
BugLogWritten == tail + 1 >= Len(lh)

LogWritten == tail = Len(lh)

\* "the real commit"
write_head(p) ==
  /\ boot = "up" /\ pc[p] = "wlog" /\ LogWritten
  /\ hdr' = lh
  /\ tail' = 0
  /\ Goto(p, "install")
  /\ UNCHANGED <<home, logd, cache, dirty, lh, outstanding, committing, buf,
                 wrote, ops, boot, crashes>>

\* One round of the loop of install_trans(): bwrite() of the home block, after
\* which the driver clears B_DIRTY.
InstallOne ==
  LET b == lh[tail + 1] IN
  /\ tail < Len(lh)
  /\ ~Locked(b)
  /\ home' = [home EXCEPT ![b] = logd[tail + 1]]
  /\ cache' = [cache EXCEPT ![b] = logd[tail + 1]]
  /\ dirty' = dirty \ {b}
  /\ tail' = tail + 1
  /\ UNCHANGED <<hdr, logd, lh, outstanding, committing, pc, buf, wrote, ops,
                 boot, crashes>>

install_trans(p) == boot = "up" /\ pc[p] = "install" /\ InstallOne

Installed == tail = Len(lh)

\* log.lh.n = 0; write_head()
clear_head(p) ==
  /\ boot = "up" /\ pc[p] = "install" /\ Installed
  /\ lh' = <<>> /\ hdr' = <<>> /\ tail' = 0
  /\ Goto(p, "finish")
  /\ UNCHANGED <<home, logd, cache, dirty, outstanding, committing, buf, wrote,
                 ops, boot, crashes>>

\* (mutant) commit() ends without a wakeup.
BugCommitWake(p) == Goto(p, "idle")

CommitWake(p) == WakeGoto(p, "idle")

commit_done(p) ==
  /\ boot = "up" /\ pc[p] = "finish"
  /\ committing' = FALSE
  /\ CommitWake(p)
  /\ UNCHANGED <<disk, cache, dirty, lh, outstanding, buf, wrote, ops, tail,
                 boot, crashes>>

-----------------------------------------------------------------------------
(* Crash and recovery.                                                     *)

\* Memory is lost; forkret() of the first process calls initlog().
Crash ==
  /\ crashes < MaxCrash
  /\ crashes' = crashes + 1
  /\ cache' = [b \in Blocks |-> NoBuf]
  /\ dirty' = {}
  /\ lh' = <<>> /\ outstanding' = 0 /\ committing' = FALSE
  /\ pc' = [p \in Procs |-> "idle"]
  /\ buf' = [p \in Procs |-> NoBlock]
  /\ wrote' = [p \in Procs |-> {}]
  /\ tail' = 0
  /\ boot' = "readhead"
  /\ UNCHANGED <<disk, ops>>

read_head ==
  /\ boot = "readhead"
  /\ lh' = hdr
  /\ boot' = "install"
  /\ UNCHANGED <<disk, cache, dirty, outstanding, committing, pc, buf, wrote,
                 ops, tail, crashes>>

recover_install == boot = "install" /\ InstallOne

recover_clear ==
  /\ boot = "install" /\ Installed
  /\ lh' = <<>> /\ hdr' = <<>> /\ tail' = 0
  /\ boot' = "up"
  /\ UNCHANGED <<home, logd, cache, dirty, outstanding, committing, pc, buf,
                 wrote, ops, crashes>>

recover_from_log == read_head \/ recover_install \/ recover_clear

-----------------------------------------------------------------------------
EndOp(p) == end_op_commit(p) \/ end_op(p)

Op(p) ==
  \/ begin_op(p) \/ begin_op_sleep(p)
  \/ log_write_check(p) \/ log_write(p)

commit(p) ==
  \/ write_log(p) \/ write_head(p)
  \/ install_trans(p) \/ clear_head(p) \/ commit_done(p)

Next ==
  \/ \E p \in Procs : Syscall(p) \/ Op(p) \/ EndOp(p) \/ commit(p)
  \/ \E p \in Procs, b \in Blocks, v \in Vals : Modify(p, b, v)
  \/ \E b \in Blocks : Load(b) \/ Evict(b)
  \/ Crash
  \/ recover_from_log

Spec == Init /\ [][Next]_vars

(***************************************************************************)
(* Fairness: the scheduler runs every process that is ready, the disk      *)
(* answers, and a system call makes finitely many writes before end_op().  *)
(***************************************************************************)
Fairness ==
  /\ \A p \in Procs : WF_vars(Op(p)) /\ SF_vars(EndOp(p)) /\ WF_vars(commit(p))
  /\ WF_vars(recover_from_log)

FairSpec == Spec /\ Fairness

-----------------------------------------------------------------------------
InOp == {"op", "check", "append"}

\* The block that recovery would leave in b's home: the copy in the log if the
\* header names b.
Recovered(b) ==
  IF b \in Logged(hdr)
  THEN logd[CHOOSE i \in DOMAIN hdr : hdr[i] = b]
  ELSE home[b]

\* What a system call that reads b sees; nobody reads before recovery is over.
Current(b) ==
  IF boot \in {"readhead", "install"} THEN Recovered(b)
  ELSE IF cache[b] = NoBuf THEN home[b] ELSE cache[b]

Abs == INSTANCE AtomicFs WITH
         vol <- [b \in Blocks |-> Current(b)],
         dur <- [b \in Blocks |-> Recovered(b)],
         active <- {p \in Procs : pc[p] \in InOp}

\* log.c implements atomic file system updates: whatever crashes, however often,
\* and however begin_op(), log_write(), end_op(), commits and the recycling of
\* buffers interleave, a restart finds all or nothing of the updates of the
\* system calls that committed together, and no read ever sees an old block.
ImplementsAtomicFs == Abs!Spec

\* What the calls in progress have used up of the blocks reserved for them.
Used ==
  {x \in Procs \X Blocks :
     pc[x[1]] \in InOp /\ x[2] \in wrote[x[1]] \intersect Logged(lh)}

\* log.c neither panics nor promises the same log block twice.  No system call
\* is let in to end under a commit ("log.committing"), and at every moment the
\* log has room for all that the calls begin_op() let in may still write, also
\* when others ended and left their blocks in the log, and when log_write()
\* absorbed a block.
NoPanic ==
  /\ boot # "panic"
  /\ boot = "up" =>
       Len(lh) + outstanding * MAXOPBLOCKS <= LOGSIZE + Cardinality(Used)

\* Every system call gets into the log and out of it, or the machine crashes: no
\* wakeup of begin_op() is lost, and nobody waits for space that never comes.
OpsFinish == \A p \in Procs : pc[p] = "begin" ~> pc[p] = "idle"
=============================================================================
