-------------------------------- MODULE Vm ----------------------------------
(***************************************************************************)
(* The address spaces of user processes: vm.c, growproc() and fork() of    *)
(* proc.c, exec.c, the page fault case of trap() and the free list of      *)
(* kalloc.c.                                                               *)
(*                                                                         *)
(* User memory is the pages 0 .. KERNBASE - 1.  Text and heap grow up from *)
(* page 0 to sz; the stack grows down from the last page when the program  *)
(* touches the page below it.  Sizes and addresses are counted in units of *)
(* which a page has PGSIZE; STACK_TOP is inside the last page, so a stack  *)
(* of s pages is the last s pages.  The content of a page is one value.    *)
(*                                                                         *)
(* A call that allocates several pages is one step: other processes reach  *)
(* it only through the free list, and what they take from it in between    *)
(* they may as well have taken before.                                     *)
(***************************************************************************)
EXTENDS Integers, FiniteSets, Functions

CONSTANTS
  Procs,       \* slots of the process table
  First,       \* the process that userinit() makes
  KERNBASE,    \* pages of user memory
  PGSIZE,      \* units in a page
  NPTENTRIES,  \* pages that one page table maps
  NFRAMES,     \* physical pages, without the ones the kernel starts with
  Vals,        \* contents of a page that a program writes
  Zero,        \* the content of a fresh page
  SbrkArgs,    \* arguments of sbrk(), in units
  MaxText,     \* bound: pages of a program's text and data
  MinSize,     \* bound: a program does not shrink itself below this size
  MaxJump      \* bound: a stack frame reaches at most this many pages down

ASSUME ConstantsAssumption ==
  /\ First \in Procs
  /\ {KERNBASE, PGSIZE, NPTENTRIES, NFRAMES, MaxText, MaxJump} \subseteq Nat \ {0}
  /\ MinSize \in Nat
  /\ NFRAMES >= 3
  /\ MaxText < KERNBASE
  /\ SbrkArgs \subseteq Int
  /\ Zero \notin Vals

Pages == 0 .. KERNBASE - 1

VARIABLES
  live,       \* processes with an address space
  pt,         \* pt[p]: the pages p has mapped, with their contents
  tables,     \* tables[p]: which of p's page tables are allocated
  sz, stackSize,
  free,       \* length of kmem.freelist
  lost,       \* frames that are neither free nor in an address space
  failed,     \* did the last call return an error?
  panic

vars == <<live, pt, tables, sz, stackSize, free, lost, failed, panic>>

\* The page of a size rounded up, and the page table of a page.
PGROUNDUP(s) == (s + PGSIZE - 1) \div PGSIZE
PDX(i) == i \div NPTENTRIES

NoPages == [i \in {} |-> Zero]
Fresh(S) == [i \in S |-> Zero]
Mapped(p) == DOMAIN pt[p]
With(p, S) == [i \in Mapped(p) \union S |-> IF i \in S THEN Zero ELSE pt[p][i]]
Without(p, S) == Restrict(pt[p], Mapped(p) \ S)

\* Frames that mapping the pages S takes when the page tables T exist.
Need(S, T) == Cardinality(S) + Cardinality({PDX(i) : i \in S} \ T)

\* Frames that freevm() puts back: pages, page tables and the page directory.
Frames(p) == Cardinality(Mapped(p)) + Cardinality(tables[p]) + 1

\* The same frames as a set, named by their owner and what they hold.
FramesOf(p) ==
  ({p} \X {"page"} \X Mapped(p)) \union ({p} \X {"table"} \X tables[p])
    \union {<<p, "pgdir", 0>>}

\* The frames in use.
InUse == UNION {FramesOf(p) : p \in live}

\* userinit(): one page of initcode, and no stack of its own.
Init ==
  /\ live = {First}
  /\ pt = [p \in Procs |-> IF p = First THEN Fresh({0}) ELSE NoPages]
  /\ tables = [p \in Procs |-> IF p = First THEN {0} ELSE {}]
  /\ sz = [p \in Procs |-> IF p = First THEN PGSIZE ELSE 0]
  /\ stackSize = [p \in Procs |-> 0]
  /\ free = NFRAMES - 3
  /\ lost = 0
  /\ failed = FALSE
  /\ panic = "none"

-----------------------------------------------------------------------------
(* allocuvm() and deallocuvm() on the pages lo .. hi - 1 of p              *)

\* The loop of allocuvm() has mapped lo .. i - 1.
AllocReaches(p, lo, i) ==
  /\ (lo .. i - 1) \intersect Mapped(p) = {}
  /\ Need(lo .. i - 1, tables[p]) <= free

\* The page at which the loop stops; hi when it maps them all.
AllocStop(p, lo, hi) ==
  CHOOSE i \in lo .. hi :
    /\ AllocReaches(p, lo, i)
    /\ i = hi \/ ~AllocReaches(p, lo, i + 1)

\* mappages() finds the next page present: panic("remap").
Remap(p, lo, hi) ==
  LET i == AllocStop(p, lo, hi) IN
  /\ i < hi /\ i \in Mapped(p)
  /\ Need(lo .. i - 1, tables[p]) < free

\* (mutant) the pages that were mapped before the failure stay mapped.
BugUndone(p, lo, hi) == {}

\* The pages that deallocuvm(pgdir, newsz, oldsz) removes when allocuvm() fails:
\* every page of the range that is present by then.
Undone(p, lo, hi) ==
  (lo .. hi - 1) \intersect (Mapped(p) \union lo .. AllocStop(p, lo, hi) - 1)

\* (mutant) the page that could not be mapped is not freed.
BugAllocLost(p, lo, hi) == free - Need(lo .. AllocStop(p, lo, hi) - 1, tables[p])

\* When mappages() fails for want of a page table, allocuvm() frees the page.
AllocLost(p, lo, hi) == 0

\* All pages of the range are mapped.
allocuvm(p, lo, hi) ==
  /\ AllocStop(p, lo, hi) = hi
  /\ pt' = [pt EXCEPT ![p] = With(p, lo .. hi - 1)]
  /\ tables' = [tables EXCEPT ![p] = @ \union {PDX(i) : i \in lo .. hi - 1}]
  /\ free' = free - Need(lo .. hi - 1, tables[p])
  /\ UNCHANGED lost

\* Memory runs out; the page tables allocated on the way stay.
allocuvm_fail(p, lo, hi) ==
  LET stop == AllocStop(p, lo, hi)
      new == lo .. stop - 1
      gone == Undone(p, lo, hi)
  IN
  /\ stop < hi
  /\ pt' = [pt EXCEPT ![p] = Restrict(With(p, new), (Mapped(p) \union new) \ gone)]
  /\ tables' = [tables EXCEPT ![p] = @ \union {PDX(i) : i \in new}]
  /\ free' = free - Need(new, tables[p]) + Cardinality(gone) - AllocLost(p, lo, hi)
  /\ UNCHANGED lost

\* A panic stops the machine; what it leaves behind is of no interest.
Panic(why) == panic' = why /\ UNCHANGED <<pt, tables, sz, stackSize, free, lost>>

-----------------------------------------------------------------------------
(* growproc(n), called by sys_sbrk()                                       *)

\* A size from KERNBASE on is refused.
sbrk_refused(p, n) ==
  /\ n > 0 /\ sz[p] + n >= KERNBASE * PGSIZE
  /\ failed' = TRUE
  /\ UNCHANGED <<live, pt, tables, sz, stackSize, free, lost, panic>>

sbrk_grow(p, n) ==
  LET lo == PGROUNDUP(sz[p])
      hi == PGROUNDUP(sz[p] + n)
  IN
  /\ n > 0 /\ sz[p] + n < KERNBASE * PGSIZE
  /\ \/ /\ allocuvm(p, lo, hi)
        /\ sz' = [sz EXCEPT ![p] = @ + n]
        /\ failed' = FALSE /\ UNCHANGED <<stackSize, panic>>
     \/ /\ failed' = TRUE
        /\ IF Remap(p, lo, hi)
             THEN Panic("remap")
             ELSE allocuvm_fail(p, lo, hi) /\ UNCHANGED <<sz, stackSize, panic>>
  /\ UNCHANGED live

\* The first page that deallocuvm() frees.
ShrinkFrom(s) == PGROUNDUP(s)

\* deallocuvm(pgdir, sz, sz + n).  It returns the new size, and growproc() takes
\* 0 for an error.
sbrk_shrink(p, n) ==
  LET new == sz[p] + n
      gone == (ShrinkFrom(new) .. PGROUNDUP(sz[p]) - 1) \intersect Mapped(p)
  IN
  /\ n < 0 /\ new >= MinSize
  /\ pt' = [pt EXCEPT ![p] = Without(p, gone)]
  /\ free' = free + Cardinality(gone)
  /\ failed' = (new = 0)
  /\ sz' = [sz EXCEPT ![p] = IF new = 0 THEN @ ELSE new]
  /\ UNCHANGED <<live, tables, stackSize, lost, panic>>

-----------------------------------------------------------------------------
(* The program reads and writes its memory.                                *)

Write(p, i, v) ==
  /\ i \in Mapped(p)
  /\ pt' = [pt EXCEPT ![p][i] = v]
  /\ failed' = FALSE
  /\ UNCHANGED <<live, tables, sz, stackSize, free, lost, panic>>

\* The lowest page of the stack, by its recorded size.
StackBottom(p) == KERNBASE - stackSize[p]

\* T_PGFLT in trap(): page i, below the stack, is not present.  The pages from
\* i up to the stack are mapped, and the stack counts as one page larger.
pgfault(p, i) ==
  LET hi == StackBottom(p) IN
  /\ i \notin Mapped(p) /\ i < hi /\ i >= hi - MaxJump
  /\ \/ /\ allocuvm(p, i, hi)
        /\ stackSize' = [stackSize EXCEPT ![p] = @ + 1]
        /\ UNCHANGED <<sz, panic>>
     \/ /\ AllocStop(p, i, hi) < hi
        /\ Panic(IF Remap(p, i, hi) THEN "remap" ELSE "Messed Up")
  /\ failed' = FALSE
  /\ UNCHANGED live

-----------------------------------------------------------------------------
(* fork(), exec() and the end of a process                                 *)

\* (mutant) the page at the bottom of the stack is not copied.
BugStackPages(p) == stackSize[p] - 1

\* Pages of the stack that copyuvm() walks, from the top down.
StackPages(p) == stackSize[p]

TextPages(p) == PGROUNDUP(sz[p])
CopyLen(p) == TextPages(p) + StackPages(p)

\* The first k pages of the walk: text and heap upwards, then the stack.
CopyPages(p, k) ==
  {i \in Pages : i < TextPages(p) /\ i < k}
    \union {i \in Pages : i >= KERNBASE - (k - TextPages(p))}

\* Frames for the first k pages, with the page directory.
CopyNeed(p, k) == Need(CopyPages(p, k), {}) + 1

CopyReaches(p, k) == CopyPages(p, k) \subseteq Mapped(p) /\ CopyNeed(p, k) <= free

\* How many pages the walk copies.
CopyStop(p) ==
  CHOOSE k \in 0 .. CopyLen(p) :
    /\ CopyReaches(p, k)
    /\ k = CopyLen(p) \/ ~CopyReaches(p, k + 1)

fork(p, q) ==
  LET all == CopyPages(p, CopyLen(p)) IN
  /\ q \notin live
  /\ free > 0 /\ CopyStop(p) = CopyLen(p)
  /\ live' = live \union {q}
  /\ pt' = [pt EXCEPT ![q] = Restrict(pt[p], all)]
  /\ tables' = [tables EXCEPT ![q] = {PDX(i) : i \in all}]
  /\ sz' = [sz EXCEPT ![q] = sz[p]]
  /\ stackSize' = [stackSize EXCEPT ![q] = stackSize[p]]
  /\ free' = free - CopyNeed(p, CopyLen(p))
  /\ failed' = FALSE
  /\ UNCHANGED <<lost, panic>>

\* copyuvm() meets a page that is not present, or memory runs out: freevm(d)
\* frees the copy, but not the page for which mappages() had no page table.
fork_fail(p, q) ==
  LET k == CopyStop(p) IN
  /\ q \notin live
  /\ free > 0 => k < CopyLen(p)
  /\ IF free > 0 /\ ~(CopyPages(p, k + 1) \subseteq Mapped(p))
       THEN Panic("copyuvm")
       ELSE LET leak == IF free = 0 THEN 0 ELSE free - CopyNeed(p, k) IN
            /\ free' = free - leak
            /\ lost' = lost + leak
            /\ UNCHANGED <<pt, tables, sz, stackSize, panic>>
  /\ failed' = TRUE
  /\ UNCHANGED live

\* A new image: n pages of text and data, and a stack of one page.
ImagePages(n) == (0 .. n - 1) \union {KERNBASE - 1}
ImageNeed(n) == Need(ImagePages(n), {}) + 1

\* The new address space is complete before the old one is freed.
exec(p, n) ==
  /\ ImageNeed(n) <= free
  /\ pt' = [pt EXCEPT ![p] = Fresh(ImagePages(n))]
  /\ tables' = [tables EXCEPT ![p] = {PDX(i) : i \in ImagePages(n)}]
  /\ sz' = [sz EXCEPT ![p] = n * PGSIZE]
  /\ stackSize' = [stackSize EXCEPT ![p] = 1]
  /\ free' = free - ImageNeed(n) + Frames(p)
  /\ failed' = FALSE
  /\ UNCHANGED <<live, lost, panic>>

\* No such file, not a program, or no memory: freevm() frees what was built.
exec_fail(p) ==
  /\ failed' = TRUE
  /\ UNCHANGED <<live, pt, tables, sz, stackSize, free, lost, panic>>

\* freevm(), when wait() reaps p.
freevm(p) ==
  /\ p # First
  /\ live' = live \ {p}
  /\ pt' = [pt EXCEPT ![p] = NoPages]
  /\ tables' = [tables EXCEPT ![p] = {}]
  /\ sz' = [sz EXCEPT ![p] = 0]
  /\ stackSize' = [stackSize EXCEPT ![p] = 0]
  /\ free' = free + Frames(p)
  /\ failed' = FALSE
  /\ UNCHANGED <<lost, panic>>

-----------------------------------------------------------------------------
\* The program in p runs.  initcode, which has no stack yet, only calls exec().
Run(p) ==
  \/ \E n \in 1 .. MaxText : exec(p, n)
  \/ exec_fail(p)
  \/ /\ stackSize[p] > 0
     /\ \/ \E n \in SbrkArgs : sbrk_grow(p, n) \/ sbrk_shrink(p, n) \/ sbrk_refused(p, n)
        \/ \E i \in Pages : pgfault(p, i) \/ \E v \in Vals : Write(p, i, v)
        \/ \E q \in Procs : fork(p, q) \/ fork_fail(p, q)
        \/ freevm(p)

Next == panic = "none" /\ \E p \in live : Run(p)

Spec == Init /\ [][Next]_vars

-----------------------------------------------------------------------------
(* Properties                                                              *)

\* Every physical page is on the free list, in one address space, or one of
\* those that a failed fork() dropped: growing, shrinking, faulting, executing
\* and exiting, with or without enough memory, lose and duplicate none.
MemoryConserved == free + lost + Cardinality(InUse) = NFRAMES

\* A child starts with the memory of a process that forked: the same pages,
\* with the same contents, below sz and in the stack.
ForkCopies ==
  [][\A q \in live' \ live : \E p \in live :
       pt'[q] = pt[p] /\ sz'[q] = sz[p] /\ stackSize'[q] = stackSize[p]]_vars

\* A call that returns an error has changed no process's memory, nor its size.
FailedCallKeeps ==
  [][failed' => UNCHANGED <<live, pt, sz, stackSize>>]_vars
=============================================================================
