-------------------------------- MODULE Bio ---------------------------------
(***************************************************************************)
(* The buffer cache (bio.c) with its sleep locks (sleeplock.c) over the    *)
(* IDE driver (ide.c) and a disk.                                          *)
(*                                                                         *)
(* A process reads a block with bread(), uses the buffer, perhaps changes  *)
(* it with bwrite() or with log_write(), which leaves it dirty for a later *)
(* bwrite(), and gives it back with brelse().  What a function does while  *)
(* it holds bcache.lock, idelock or the lock inside a sleep lock is one    *)
(* step.  bcache.head's list is a sequence, most recently used first.      *)
(***************************************************************************)
EXTENDS Naturals, Sequences, FiniteSets, Functions

CONSTANTS
  Procs, Bufs, Blocks, Vals,
  Init0,       \* what the disk holds at first
  None,        \* no block, no buffer, no process
  MaxDirty,    \* bound: blocks the log may keep dirty (LOGSIZE)
  MaxErrors    \* bound: reads that the disk reports as failed

ASSUME ConstantsAssumption ==
  /\ IsFiniteSet(Procs) /\ IsFiniteSet(Bufs)
  /\ Init0 \in Vals
  /\ None \notin Procs \union Bufs \union Blocks \union Vals
  /\ None \notin Blocks \X (Vals \union {None})
  /\ {MaxDirty, MaxErrors} \subseteq Nat

VARIABLES
  disk,        \* the blocks on disk
  blk, valid, dirty, refcnt, data,   \* struct buf
  list,        \* bcache.head.next ...
  slock,       \* slock[b]: the process that has locked b->lock
  idequeue,
  active,      \* the command the disk executes: <<block, value or None>>
  pc, want, bp,
  cur,         \* cur[k]: what was last put into block k, for the properties
  errors

bufvars == <<blk, valid, dirty, refcnt, data, list>>
idevars == <<disk, idequeue, active>>
vars == <<disk, blk, valid, dirty, refcnt, data, list, slock, idequeue, active,
          pc, want, bp, cur, errors>>

Init ==
  /\ disk = [k \in Blocks |-> Init0]
  /\ blk = [b \in Bufs |-> None]
  /\ valid = [b \in Bufs |-> FALSE] /\ dirty = [b \in Bufs |-> FALSE]
  /\ refcnt = [b \in Bufs |-> 0]
  /\ data = [b \in Bufs |-> Init0]
  /\ list \in [1 .. Cardinality(Bufs) -> Bufs] /\ Range(list) = Bufs
  /\ slock = [b \in Bufs |-> None]
  /\ idequeue = <<>> /\ active = None
  /\ pc = [p \in Procs |-> "idle"]
  /\ want = [p \in Procs |-> None] /\ bp = [p \in Procs |-> None]
  /\ cur = disk
  /\ errors = 0

Goto(p, to) == pc' = [pc EXCEPT ![p] = to]

\* wakeup(): the processes in from, which wait for buffer b, go on in to.
Wake(b, from, to) ==
  [q \in Procs |-> IF pc[q] = from /\ bp[q] = b THEN to ELSE pc[q]]

-----------------------------------------------------------------------------
(* bget(), under bcache.lock                                               *)

Cached(k) == \E b \in Bufs : blk[b] = k

bget_hit(p, k) ==
  LET b == CHOOSE c \in Bufs : blk[c] = k IN
  /\ pc[p] = "idle" /\ Cached(k)
  /\ refcnt' = [refcnt EXCEPT ![b] = @ + 1]
  /\ want' = [want EXCEPT ![p] = k] /\ bp' = [bp EXCEPT ![p] = b]
  /\ Goto(p, "slock")
  /\ UNCHANGED <<blk, valid, dirty, data, list, slock, idevars, cur, errors>>

Unused(b) == refcnt[b] = 0 /\ ~dirty[b]

\* (mutant) B_VALID survives the recycling.
BugFlags(b) == valid

\* b->flags = 0
Flags(b) == [valid EXCEPT ![b] = FALSE]

bget_recycle(p, k) ==
  /\ pc[p] = "idle" /\ ~Cached(k)
  /\ IF \E b \in Bufs : Unused(b)
       THEN LET b == list[CHOOSE j \in DOMAIN list :
                            /\ Unused(list[j])
                            /\ \A h \in j + 1 .. Len(list) : ~Unused(list[h])]
            IN
            /\ blk' = [blk EXCEPT ![b] = k]
            /\ valid' = Flags(b) /\ dirty' = [dirty EXCEPT ![b] = FALSE]
            /\ refcnt' = [refcnt EXCEPT ![b] = 1]
            /\ bp' = [bp EXCEPT ![p] = b]
            /\ Goto(p, "slock")
       ELSE Goto(p, "panic") /\ UNCHANGED <<blk, valid, dirty, refcnt, bp>>
  /\ want' = [want EXCEPT ![p] = k]
  /\ UNCHANGED <<data, list, slock, idevars, cur, errors>>

-----------------------------------------------------------------------------
(* acquiresleep(&b->lock)                                                  *)

SlockFree(b) == slock[b] = None

MustRead(b) == ~valid[b]

\* bread() then reads the block unless B_VALID is set.
acquiresleep(p) ==
  LET b == bp[p] IN
  /\ pc[p] = "slock"
  /\ \/ /\ SlockFree(b)
        /\ slock' = [slock EXCEPT ![b] = p]
        /\ Goto(p, IF MustRead(b) THEN "iderw" ELSE "use")
     \/ /\ ~SlockFree(b)
        /\ Goto(p, "slock_asleep")
        /\ UNCHANGED slock
  /\ UNCHANGED <<bufvars, idevars, want, bp, cur, errors>>

-----------------------------------------------------------------------------
(* iderw(), under idelock, and ideintr()                                   *)

\* The command that idestart(b) gives the disk.
idestart(b) == <<blk[b], IF dirty[b] THEN data[b] ELSE None>>

\* Its assertions; then b is queued, the disk started if it was idle, and the
\* process sleeps until the flags are B_VALID and not B_DIRTY.
iderw(p) ==
  LET b == bp[p] IN
  /\ pc[p] = "iderw"
  /\ IF slock[b] = None \/ (valid[b] /\ ~dirty[b])
       THEN Goto(p, "panic") /\ UNCHANGED <<idequeue, active>>
       ELSE /\ idequeue' = Append(idequeue, b)
            /\ active' = IF idequeue = <<>> THEN idestart(b) ELSE active
            /\ Goto(p, "io_asleep")
  /\ UNCHANGED <<disk, bufvars, slock, want, bp, cur, errors>>

iderw_woken(p) ==
  LET b == bp[p] IN
  /\ pc[p] = "io_woken"
  /\ Goto(p, IF valid[b] /\ ~dirty[b] THEN "use" ELSE "io_asleep")
  /\ UNCHANGED <<bufvars, idevars, slock, want, bp, cur, errors>>

\* (mutant) the next request in the queue is not started.
BugStartNext == None

\* if(idequeue != 0) idestart(idequeue), once the first request is removed.
StartNext == IF Len(idequeue) > 1 THEN idestart(idequeue[2]) ELSE None

\* The disk has done what it was told, and interrupts.  When it reports an
\* error the handler leaves out the data of a read, and nothing else.
ideintr ==
  LET b == idequeue[1] IN
  /\ active # None
  /\ disk' = IF active[2] # None THEN [disk EXCEPT ![active[1]] = active[2]] ELSE disk
  /\ \/ data' = (IF dirty[b] THEN data ELSE [data EXCEPT ![b] = disk[active[1]]])
        /\ UNCHANGED errors
     \/ ~dirty[b] /\ errors < MaxErrors
        /\ errors' = errors + 1 /\ UNCHANGED data
  /\ valid' = [valid EXCEPT ![b] = TRUE]
  /\ dirty' = [dirty EXCEPT ![b] = FALSE]
  /\ idequeue' = Tail(idequeue)
  /\ active' = StartNext
  /\ pc' = Wake(b, "io_asleep", "io_woken")
  /\ UNCHANGED <<blk, refcnt, list, slock, want, bp, cur>>

-----------------------------------------------------------------------------
(* The process uses the buffer.                                            *)

\* Change the data and bwrite().
bwrite(p, v) ==
  LET b == bp[p] IN
  /\ pc[p] = "use"
  /\ data' = [data EXCEPT ![b] = v]
  /\ cur' = [cur EXCEPT ![want[p]] = v]
  /\ dirty' = [dirty EXCEPT ![b] = TRUE]
  /\ Goto(p, IF slock[b] = None THEN "panic" ELSE "iderw")
  /\ UNCHANGED <<blk, valid, refcnt, list, slock, idevars, want, bp, errors>>

\* Change the data and log_write(): B_DIRTY keeps the buffer until the log's
\* commit bwrite()s it.
log_write(p, v) ==
  LET b == bp[p] IN
  /\ pc[p] = "use"
  /\ Cardinality({c \in Bufs : dirty[c]} \union {b}) <= MaxDirty
  /\ data' = [data EXCEPT ![b] = v]
  /\ cur' = [cur EXCEPT ![want[p]] = v]
  /\ dirty' = [dirty EXCEPT ![b] = TRUE]
  /\ UNCHANGED <<blk, valid, refcnt, list, slock, idevars, pc, want, bp, errors>>

\* brelse(): its assertion, and releasesleep(&b->lock)
releasesleep(p) ==
  LET b == bp[p] IN
  /\ pc[p] = "use"
  /\ slock' = [slock EXCEPT ![b] = None]
  /\ pc' = [Wake(b, "slock_asleep", "slock") EXCEPT
              ![p] = IF slock[b] = None THEN "panic" ELSE "brelse"]
  /\ UNCHANGED <<bufvars, idevars, want, bp, cur, errors>>

\* The head of the list, most recently used.
MoveToFront(b) ==
  LET j == CHOOSE h \in DOMAIN list : list[h] = b
  IN  <<b>> \o (SubSeq(list, 1, j - 1) \o SubSeq(list, j + 1, Len(list)))

\* The rest of brelse(), under bcache.lock.
brelse(p) ==
  LET b == bp[p] IN
  /\ pc[p] = "brelse"
  /\ refcnt' = [refcnt EXCEPT ![b] = @ - 1]
  /\ list' = IF refcnt'[b] = 0 THEN MoveToFront(b) ELSE list
  /\ want' = [want EXCEPT ![p] = None] /\ bp' = [bp EXCEPT ![p] = None]
  /\ Goto(p, "idle")
  /\ UNCHANGED <<blk, valid, dirty, data, slock, idevars, cur, errors>>

-----------------------------------------------------------------------------
Start(p) == \E k \in Blocks : bget_hit(p, k) \/ bget_recycle(p, k)

Write(p) == \E v \in Vals : bwrite(p, v) \/ log_write(p, v)

Continue(p) == iderw(p) \/ iderw_woken(p) \/ brelse(p)

Next ==
  \/ \E p \in Procs : Start(p) \/ acquiresleep(p) \/ Write(p) \/ releasesleep(p) \/ Continue(p)
  \/ ideintr

Spec == Init /\ [][Next]_vars

-----------------------------------------------------------------------------
(* Properties                                                              *)

\* A process that uses a buffer has the block it asked for, with the contents
\* last given to it: a buffer is never recycled under a process that waits for
\* it, and none that still has to reach the disk is recycled at all.  Read
\* errors, which the driver does not report, are the exception.
ReadsFresh ==
  \A p \in Procs : pc[p] = "use" =>
    /\ blk[bp[p]] = want[p] /\ valid[bp[p]]
    /\ errors = 0 => data[bp[p]] = cur[want[p]]

\* The disk always executes the request at the head of the queue, and whoever
\* sleeps in iderw() has its buffer in the queue: no interrupt is lost.  Whoever
\* sleeps in acquiresleep() waits for a process that has the lock.
SleepersQueued ==
  /\ (active = None) <=> (idequeue = <<>>)
  /\ active # None => active = idestart(idequeue[1])
  /\ \A p \in Procs : pc[p] = "io_asleep" => bp[p] \in Range(idequeue)
  /\ \A p \in Procs : pc[p] = "slock_asleep" => slock[bp[p]] # None
=============================================================================
