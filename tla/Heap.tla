-------------------------------- MODULE Heap --------------------------------
(***************************************************************************)
(* malloc() and free() of umalloc.c.  Memory is counted in units of the    *)
(* size of a header: a block is its header and the units after it, and its *)
(* address is that of its header.  base is below the memory of sbrk().     *)
(***************************************************************************)
EXTENDS Naturals, FiniteSets

CONSTANTS
  Top,       \* units that the process can have: sbrk() fails beyond
  MinCore,   \* the least that morecore() asks for (4096)
  Requests   \* the sizes asked of malloc(), header included

ASSUME HeapAssumption ==
  {Top, MinCore} \subseteq Nat \ {0} /\ Requests \subseteq Nat \ {0}

VARIABLES
  hdr,     \* hdr[a]: the header at address a
  freep,
  brk,     \* the end of the process's memory
  used,    \* the blocks that the program has (history)
  gaps     \* units that the program got from sbrk() itself (history)

heapVars == <<hdr, freep, brk, used, gaps>>

Base == 0
NULL == Top + 1

heapMem == [hdr |-> hdr, freep |-> freep]

HeapInit ==
  /\ hdr = [a \in 0 .. Top |-> [ptr |-> 0, size |-> 0]]
  /\ freep = NULL /\ brk = 1 /\ used = {} /\ gaps = {}

-----------------------------------------------------------------------------
\* The free block after which bp belongs: the walk of free() from freep.
After(m, bp) ==
  LET next(p) == m.hdr[p].ptr
      walk[p \in 0 .. Top] ==
        IF bp > p /\ bp < next(p) THEN p
        ELSE IF p >= next(p) /\ (bp > p \/ bp < next(p)) THEN p
        ELSE walk[next(p)]
  IN  walk[m.freep]

Join(m, p, bp) == p + m.hdr[p].size = bp

\* bp is linked in, joined to the blocks on both sides.
free(m, bp) ==
  LET p == After(m, bp)
      n == m.hdr[p].ptr
      b == IF bp + m.hdr[bp].size = n
           THEN [ptr |-> m.hdr[n].ptr, size |-> m.hdr[bp].size + m.hdr[n].size]
           ELSE [ptr |-> n, size |-> m.hdr[bp].size]
      q == IF Join(m, p, bp)
           THEN [ptr |-> b.ptr, size |-> m.hdr[p].size + b.size]
           ELSE [ptr |-> bp, size |-> m.hdr[p].size]
  IN  [hdr |-> [m.hdr EXCEPT ![bp] = b, ![p] = q], freep |-> p]

\* sbrk() and free() of what it returned.
Units(nu) == IF nu < MinCore THEN MinCore ELSE nu
CanGrow(nu) == brk + Units(nu) <= Top + 1
morecore(m, nu) ==
  free([m EXCEPT !.hdr[brk].size = Units(nu)], brk)

\* (mutant) a block of just the right size stays on the list.
BugCut(m, prevp, p, nu) ==
  LET rest == m.hdr[p].size - nu IN
  [mem |-> [hdr |-> [m.hdr EXCEPT ![p].size = rest, ![p + rest].size = nu],
            freep |-> prevp],
   block |-> p + rest]

\* The end of malloc(): nu units are taken from the end of block p.
Cut(m, prevp, p, nu) ==
  LET rest == m.hdr[p].size - nu IN
  IF rest = 0
  THEN [mem |-> [hdr |-> [m.hdr EXCEPT ![prevp].ptr = m.hdr[p].ptr],
                 freep |-> prevp],
        block |-> p]
  ELSE [mem |-> [hdr |-> [m.hdr EXCEPT ![p].size = rest, ![p + rest].size = nu],
                 freep |-> prevp],
        block |-> p + rest]

\* The block before the first one that has nu units, from prevp around the
\* list; NULL if there is none.
Search(m, nu) ==
  LET walk[prevp \in 0 .. Top] ==
        LET p == m.hdr[prevp].ptr IN
        IF m.hdr[p].size >= nu THEN prevp
        ELSE IF p = m.freep THEN NULL ELSE walk[p]
  IN  walk[m.freep]

\* The first call makes base the only block.
Started ==
  IF freep # NULL THEN heapMem
  ELSE [hdr |-> [hdr EXCEPT ![Base] = [ptr |-> Base, size |-> 0]],
        freep |-> Base]

Took(m, nu, more) ==
  LET prevp == Search(m, nu)
      c == Cut(m, prevp, m.hdr[prevp].ptr, nu)
  IN  /\ prevp # NULL
      /\ hdr' = c.mem.hdr /\ freep' = c.mem.freep
      /\ used' = used \union {c.block}
      /\ brk' = brk + more
      /\ UNCHANGED gaps

malloc(nu) == Took(Started, nu, 0)

\* No block fits: more memory is added to the list and the search goes on.
mallocMore(nu) ==
  /\ Search(Started, nu) = NULL /\ CanGrow(nu)
  /\ Took(morecore(Started, nu), nu, Units(nu))

\* malloc() returns 0.
mallocFails(nu) ==
  /\ Search(Started, nu) = NULL /\ ~CanGrow(nu)
  /\ hdr' = Started.hdr /\ freep' = Started.freep
  /\ UNCHANGED <<brk, used, gaps>>

freeBlock(a) ==
  /\ a \in used
  /\ LET m == free(heapMem, a) IN hdr' = m.hdr /\ freep' = m.freep
  /\ used' = used \ {a}
  /\ UNCHANGED <<brk, gaps>>

\* The program calls sbrk() itself, between calls of malloc().
Sbrk ==
  /\ brk <= Top
  /\ gaps' = gaps \union {brk} /\ brk' = brk + 1
  /\ UNCHANGED <<hdr, freep, used>>

HeapNext ==
  \/ \E nu \in Requests : malloc(nu) \/ mallocMore(nu) \/ mallocFails(nu)
  \/ \E a \in used : freeBlock(a)
  \/ Sbrk

-----------------------------------------------------------------------------
\* The blocks on the free list other than base: those a walk meets.
FreeList ==
  LET from[p \in 0 .. Top, seen \in SUBSET (0 .. Top)] ==
        IF p \in seen THEN seen ELSE from[hdr[p].ptr, seen \union {p}]
  IN  IF freep = NULL THEN {} ELSE from[freep, {}] \ {Base}

Extent(a) == a .. a + hdr[a].size - 1

\* Every unit of the heap is in one block, which is the program's or free: no
\* block is lost, overlaps another or is given out twice.  No two free blocks
\* are neighbours, so that what was freed can serve a larger request.
HeapPartitioned ==
  LET blocks == used \union FreeList IN
  /\ used \intersect FreeList = {}
  /\ \A u \in (1 .. brk - 1) \ gaps : Cardinality({a \in blocks : u \in Extent(a)}) = 1
  /\ \A a \in blocks : Extent(a) \subseteq (1 .. brk - 1) \ gaps
  /\ \A a \in FreeList : a + hdr[a].size \notin FreeList
=============================================================================
