------------------------------ MODULE VmProofs -------------------------------
(***************************************************************************)
(* Proofs about the address spaces, for any number of processes and any    *)
(* sizes of memory, pages and page tables: that no frame is lost or used   *)
(* twice, that a child is a copy and that a failed call changes nothing.   *)
(***************************************************************************)
EXTENDS Vm, FiniteSetTheorems, NaturalsInduction, WellFoundedInduction, TLAPS

-----------------------------------------------------------------------------
(* The invariant                                                           *)

Contents == Vals \union {Zero}
AddressSpaces == UNION {[S -> Contents] : S \in SUBSET Pages}

TypeInv ==
  /\ live \subseteq Procs
  /\ pt \in [Procs -> AddressSpaces]
  /\ tables \in [Procs -> SUBSET Nat]
  /\ \A p \in Procs : IsFiniteSet(tables[p])
  /\ sz \in [Procs -> Nat]
  /\ stackSize \in [Procs -> Nat]
  /\ free \in Nat /\ lost \in Nat

\* The frames are accounted for, and they are finitely many.
MemInv == IsFiniteSet(InUse) /\ MemoryConserved

Inv == TypeInv /\ MemInv

-----------------------------------------------------------------------------
(* Numbers and sets                                                        *)

\* What the assumption says of the sizes.
LEMMA Sizes ==
  /\ KERNBASE \in Nat \ {0} /\ PGSIZE \in Nat \ {0} /\ NPTENTRIES \in Nat \ {0}
  /\ NFRAMES \in Nat \ {0} /\ MaxText \in Nat \ {0} /\ MaxJump \in Nat \ {0}
  /\ MinSize \in Nat /\ NFRAMES >= 3 /\ MaxText < KERNBASE
  /\ SbrkArgs \subseteq Int /\ First \in Procs
BY ConstantsAssumption, Zenon

\* A nonempty set of numbers has a least element.
LEMMA NatMin ==
  ASSUME NEW T \in SUBSET Nat, T # {} PROVE \E m \in T : \A k \in T : m <= k
<1>1. IsWellFoundedOn(OpToRel(<, Nat), Nat)
  BY NatLessThanWellFounded, Zenon
<1>2. PICK m \in T : \A k \in T : ~(<<k, m>> \in OpToRel(<, Nat))
  BY <1>1, WFMin, Zenon
<1>3. \A k \in T : ~(k < m)
  BY <1>2, Zenon DEF OpToRel
<1> QED BY <1>3

\* A loop that can take step 0, and stops where it cannot go on or at n, stops.
LEMMA LastReached ==
  ASSUME NEW n \in Nat, NEW R, 0 \in R
  PROVE  \E k \in 0 .. n : k \in R /\ (k = n \/ k + 1 \notin R)
<1> DEFINE T == {k \in 0 .. n : k = n \/ k + 1 \notin R}
<1>1. T \in SUBSET Nat /\ n \in T
  OBVIOUS
<1>2. PICK m \in T : \A k \in T : m <= k
  BY <1>1, NatMin, Zenon
<1>3. CASE m = 0
  BY <1>2, <1>3, Zenon
<1>4. CASE m # 0
  <2>1. m - 1 \in 0 .. n /\ m - 1 # n /\ m - 1 \notin T
    BY <1>2, <1>4
  <2> QED BY <1>2, <2>1
<1> QED BY <1>3, <1>4, Zenon

\* The rounded size is a number, and it grows with the size.
LEMMA RoundUp ==
  ASSUME NEW a \in Nat, NEW b \in Nat, a <= b
  PROVE  PGROUNDUP(a) \in Nat /\ PGROUNDUP(b) \in Nat /\ PGROUNDUP(a) <= PGROUNDUP(b)
  BY Sizes DEF PGROUNDUP

\* The page tables of finitely many pages are finitely many numbers.
LEMMA TablesOf ==
  ASSUME NEW S, S \subseteq Pages
  PROVE  /\ IsFiniteSet(S)
         /\ {PDX(i) : i \in S} \subseteq Nat /\ IsFiniteSet({PDX(i) : i \in S})
<1> DEFINE T == {PDX(i) : i \in S}
           f == [i \in S |-> PDX(i)]
<1>1. IsFiniteSet(Pages) /\ S \in SUBSET Pages
  BY FS_Interval, Sizes DEF Pages
<1>2. IsFiniteSet(S)
  BY <1>1, FS_Subset, Zenon
<1>3. T \subseteq Nat
  BY Sizes DEF PDX, Pages
<1>4. f \in Surjection(S, T)
  BY Zenon DEF Surjection
<1>5. IsFiniteSet(T)
  BY <1>2, <1>4, FS_Surjection, Zenon
<1> QED BY <1>2, <1>3, <1>5, Zenon

\* Two disjoint sets.
LEMMA Disjoint ==
  ASSUME NEW S, IsFiniteSet(S), NEW T, IsFiniteSet(T), S \intersect T = {}
  PROVE  /\ IsFiniteSet(S \union T)
         /\ Cardinality(S) \in Nat /\ Cardinality(T) \in Nat
         /\ Cardinality(S \union T) = Cardinality(S) + Cardinality(T)
<1>1. /\ IsFiniteSet(S \union T)
      /\ Cardinality(S \union T) = Cardinality(S) + Cardinality(T) - Cardinality({})
  BY FS_Union
<1>2. Cardinality({}) = 0 /\ Cardinality(S) \in Nat /\ Cardinality(T) \in Nat
  BY FS_EmptySet, FS_CardinalityType, Zenon
<1> QED BY <1>1, <1>2

\* Mapping no page takes no frame; mapping some takes a number of them, and the
\* page tables grow by as many as Need() counts.
LEMMA NeedPages ==
  ASSUME NEW S, S \subseteq Pages, NEW T, T \subseteq Nat, IsFiniteSet(T)
  PROVE  LET U == T \union {PDX(i) : i \in S} IN
         /\ Need(S, T) \in Nat /\ (S = {} => Need(S, T) = 0)
         /\ U \subseteq Nat /\ IsFiniteSet(U)
         /\ Cardinality(S) \in Nat /\ Cardinality(T) \in Nat
         /\ Cardinality(U) = Cardinality(T) + Need(S, T) - Cardinality(S)
<1> DEFINE P == {PDX(i) : i \in S}
<1>1. IsFiniteSet(S) /\ P \subseteq Nat /\ IsFiniteSet(P)
  BY TablesOf, Zenon
<1> Need(S, T) = Cardinality(S) + Cardinality(P \ T)
  BY Zenon DEF Need
<1>2. S = {} => P \ T = {}
  OBVIOUS
<1> HIDE DEF P
<1>3. /\ IsFiniteSet(P \ T) /\ Cardinality(P \ T) \in Nat
      /\ Cardinality(S) \in Nat /\ Cardinality(T) \in Nat
  BY <1>1, FS_Difference, FS_CardinalityType, Zenon
<1>4. T \intersect (P \ T) = {} /\ T \union (P \ T) = T \union P
  OBVIOUS
<1>5. /\ IsFiniteSet(T \union P)
      /\ Cardinality(T \union P) = Cardinality(T) + Cardinality(P \ T)
  BY <1>3, <1>4, Disjoint
<1>6. Cardinality({}) = 0
  BY FS_EmptySet, Zenon
<1>7. S = {} => Cardinality(S) = 0 /\ Cardinality(P \ T) = 0
  BY <1>2, <1>6, Zenon
<1>8. T \union P \subseteq Nat
  BY <1>1, Zenon
<1> QED BY <1>3, <1>5, <1>6, <1>7, <1>8 DEF P

\* A set without some of its elements.
LEMMA Removed ==
  ASSUME NEW S, IsFiniteSet(S), NEW T, T \subseteq S
  PROVE  /\ IsFiniteSet(T) /\ IsFiniteSet(S \ T)
         /\ Cardinality(S) \in Nat /\ Cardinality(T) \in Nat
         /\ Cardinality(T) <= Cardinality(S)
         /\ Cardinality(S \ T) = Cardinality(S) - Cardinality(T)
<1>1. T \in SUBSET S /\ S \intersect T = T
  OBVIOUS
<1>2. IsFiniteSet(T) /\ Cardinality(T) <= Cardinality(S)
  BY <1>1, FS_Subset, Zenon
<1>3. /\ IsFiniteSet(S \ T)
      /\ Cardinality(S \ T) = Cardinality(S) - Cardinality(S \intersect T)
  BY FS_Difference, Zenon
<1>4. Cardinality(S) \in Nat /\ Cardinality(T) \in Nat
  BY <1>2, FS_CardinalityType, Zenon
<1> QED BY <1>1, <1>2, <1>3, <1>4, Zenon

\* Naming the elements of a set by their owner and use.
LEMMA Tagged ==
  ASSUME NEW p, NEW use, NEW S, IsFiniteSet(S)
  PROVE  /\ IsFiniteSet({p} \X {use} \X S)
         /\ Cardinality({p} \X {use} \X S) = Cardinality(S)
<1> DEFINE T == {p} \X {use} \X S
           f == [x \in S |-> <<p, use, x>>]
<1>1. f \in [S -> T]
  OBVIOUS
<1>2. IsInjective(f)
  BY Zenon DEF IsInjective
<1>3. \A t \in T : \E x \in S : f[x] = t
  OBVIOUS
<1>4. f \in Bijection(S, T)
  BY <1>1, <1>2, <1>3, Zenon DEF Bijection, Injection, Surjection
<1> QED BY <1>4, FS_Bijection, Zenon DEF ExistsBijection

\* The frames of a process p with the pages S and the page tables T.
FrameSet(p, S, T) ==
  ({p} \X {"page"} \X S) \union ({p} \X {"table"} \X T) \union {<<p, "pgdir", 0>>}

\* They are as many as freevm() counts.
LEMMA FramesCount ==
  ASSUME NEW p, NEW S, IsFiniteSet(S), NEW T, IsFiniteSet(T)
  PROVE  /\ IsFiniteSet(FrameSet(p, S, T))
         /\ Cardinality(S) \in Nat /\ Cardinality(T) \in Nat
         /\ Cardinality(FrameSet(p, S, T)) = Cardinality(S) + Cardinality(T) + 1
<1> DEFINE A == {p} \X {"page"} \X S
           B == {p} \X {"table"} \X T
           C == {<<p, "pgdir", 0>>}
<1>1. IsFiniteSet(A) /\ Cardinality(A) = Cardinality(S)
  BY Tagged, Zenon
<1>2. IsFiniteSet(B) /\ Cardinality(B) = Cardinality(T)
  BY Tagged, Zenon
<1>3. IsFiniteSet(C) /\ Cardinality(C) = 1
  BY FS_Singleton, Zenon
<1>4. /\ IsFiniteSet(A) /\ Cardinality(A) = Cardinality(S)
      /\ IsFiniteSet(B) /\ Cardinality(B) = Cardinality(T)
      /\ IsFiniteSet(C) /\ Cardinality(C) = 1
  BY <1>1, <1>2, <1>3, Zenon
<1>5. A \intersect B = {} /\ (A \union B) \intersect C = {}
  OBVIOUS
<1> HIDE DEF A, B, C
<1>6. /\ IsFiniteSet(A \union B) /\ Cardinality(A) \in Nat /\ Cardinality(B) \in Nat
      /\ Cardinality(A \union B) = Cardinality(A) + Cardinality(B)
  BY <1>4, <1>5, Disjoint, Zenon
<1>7. /\ IsFiniteSet((A \union B) \union C)
      /\ Cardinality((A \union B) \union C) = Cardinality(A \union B) + Cardinality(C)
  BY <1>4, <1>5, <1>6, Disjoint, Zenon
<1>8. FrameSet(p, S, T) = (A \union B) \union C
  BY Zenon DEF FrameSet, A, B, C
<1> QED BY <1>4, <1>6, <1>7, <1>8, Zenon

-----------------------------------------------------------------------------
(* What the steps do to the address spaces                                 *)

\* The address spaces are the functions from pages to contents.
LEMMA Spaces ==
  ASSUME NEW f
  PROVE  f \in AddressSpaces <=> (DOMAIN f \subseteq Pages /\ f \in [DOMAIN f -> Contents])
BY Zenon DEF AddressSpaces

\* The address space of one process.
LEMMA Shape ==
  ASSUME TypeInv, NEW p \in Procs
  PROVE  /\ pt[p] \in AddressSpaces
         /\ Mapped(p) \subseteq Pages /\ pt[p] \in [Mapped(p) -> Contents]
         /\ IsFiniteSet(Mapped(p)) /\ Cardinality(Mapped(p)) \in Nat
         /\ tables[p] \subseteq Nat /\ IsFiniteSet(tables[p])
         /\ Cardinality(tables[p]) \in Nat
         /\ sz[p] \in Nat /\ stackSize[p] \in Nat
<1>1. /\ pt[p] \in AddressSpaces /\ tables[p] \subseteq Nat /\ IsFiniteSet(tables[p])
      /\ sz[p] \in Nat /\ stackSize[p] \in Nat
  BY Zenon DEF TypeInv
<1>2. Mapped(p) \subseteq Pages /\ pt[p] \in [Mapped(p) -> Contents]
  BY <1>1, Spaces, Zenon DEF Mapped
<1>3. IsFiniteSet(Mapped(p))
  BY <1>2, TablesOf, Zenon
<1> QED BY <1>1, <1>2, <1>3, FS_CardinalityType, Zenon

\* The frames of p, if it lives.
Held(p) == IF p \in live THEN FrameSet(p, Mapped(p), tables[p]) ELSE {}

\* The frames of the other processes.
Rest(p) == UNION {FrameSet(q, Mapped(q), tables[q]) : q \in live \ {p}}

\* A frame names its owner, so the frames of p are no other process's.
LEMMA Owner ==
  ASSUME NEW p, NEW q, p # q, NEW S, NEW T, NEW S2, NEW T2
  PROVE  FrameSet(p, S, T) \intersect FrameSet(q, S2, T2) = {}
<1>1. ASSUME NEW r, NEW A, NEW B, NEW x \in FrameSet(r, A, B) PROVE x[1] = r
  BY <1>1 DEF FrameSet
<1> QED BY <1>1, Zenon

\* The frames in use are those of p and those of the others.
LEMMA Split ==
  ASSUME NEW p
  PROVE  InUse = Rest(p) \union Held(p) /\ Rest(p) \intersect Held(p) = {}
<1>1. \A q : FramesOf(q) = FrameSet(q, Mapped(q), tables[q])
  BY Zenon DEF FramesOf, FrameSet
<1>2. InUse = UNION {FrameSet(q, Mapped(q), tables[q]) : q \in live}
  BY <1>1, Zenon DEF InUse
<1>3. InUse = Rest(p) \union Held(p)
  BY <1>2, Zenon DEF Rest, Held
<1>4. Rest(p) \intersect Held(p) = {}
  BY Owner DEF Rest, Held
<1> QED BY <1>3, <1>4, Zenon

\* The same of the next state.
LEMMA SplitNext ==
  ASSUME NEW p
  PROVE  InUse' = Rest(p)' \union Held(p)' /\ Rest(p)' \intersect Held(p)' = {}
<1>1. \A q : FramesOf(q)' = FrameSet(q, Mapped(q)', tables'[q])
  BY Zenon DEF FramesOf, FrameSet
<1>2. InUse' = UNION {FrameSet(q, Mapped(q)', tables'[q]) : q \in live'}
  BY <1>1, Zenon DEF InUse
<1>3. InUse' = Rest(p)' \union Held(p)'
  BY <1>2, Zenon DEF Rest, Held
<1>4. Rest(p)' \intersect Held(p)' = {}
  BY Owner DEF Rest, Held
<1> QED BY <1>3, <1>4, Zenon

\* A step in which only p's address space changes, is made or is freed.
Alone(p) ==
  /\ p \in Procs /\ live' \subseteq Procs
  /\ live' \ {p} = live \ {p}
  /\ \A q \in Procs \ {p} : pt'[q] = pt[q] /\ tables'[q] = tables[q]

\* Such a step keeps the account of the frames if it balances p's.
LEMMA AloneMem ==
  ASSUME MemInv, free \in Nat, lost \in Nat, live \subseteq Procs, NEW p, Alone(p),
         IsFiniteSet(Held(p)), IsFiniteSet(Held(p)'),
         free' \in Nat, lost' \in Nat,
         free' + lost' + Cardinality(Held(p)') = free + lost + Cardinality(Held(p))
  PROVE  MemInv'
<1>1. Rest(p)' = Rest(p)
  <2>1. \A q \in live \ {p} :
          FrameSet(q, Mapped(q)', tables'[q]) = FrameSet(q, Mapped(q), tables[q])
    BY Zenon DEF Alone, Mapped
  <2>2. Rest(p)' = UNION {FrameSet(q, Mapped(q)', tables'[q]) : q \in live \ {p}}
    BY Zenon DEF Alone, Rest
  <2> QED BY <2>1, <2>2, Zenon DEF Rest
<1>2. /\ InUse = Rest(p) \union Held(p) /\ Rest(p) \intersect Held(p) = {}
      /\ InUse' = Rest(p) \union Held(p)' /\ Rest(p) \intersect Held(p)' = {}
  BY <1>1, Split, SplitNext, Zenon
<1>3. IsFiniteSet(InUse) /\ free + lost + Cardinality(InUse) = NFRAMES
  BY Zenon DEF MemInv, MemoryConserved
<1>4. IsFiniteSet(Rest(p))
  <2>1. Rest(p) \subseteq InUse
    BY <1>2, Zenon
  <2> QED BY <2>1, <1>3, Removed, Zenon
<1>5. /\ Cardinality(Rest(p)) \in Nat /\ Cardinality(Held(p)) \in Nat
      /\ Cardinality(InUse) = Cardinality(Rest(p)) + Cardinality(Held(p))
  BY <1>2, <1>4, Disjoint, Zenon
<1>6. /\ IsFiniteSet(InUse') /\ Cardinality(Held(p)') \in Nat
      /\ Cardinality(InUse') = Cardinality(Rest(p)) + Cardinality(Held(p)')
  BY <1>2, <1>4, Disjoint, Zenon
<1>7. free' + lost' + Cardinality(InUse') = NFRAMES
  BY <1>3, <1>5, <1>6
<1> QED BY <1>6, <1>7, Zenon DEF MemInv, MemoryConserved

\* A step in which p's address space becomes f, with the page tables T.
Becomes(p, f, T) ==
  /\ p \in Procs
  /\ f \in AddressSpaces /\ T \subseteq Nat /\ IsFiniteSet(T)
  /\ pt' = [pt EXCEPT ![p] = f] /\ tables' = [tables EXCEPT ![p] = T]
  /\ sz' \in [Procs -> Nat] /\ stackSize' \in [Procs -> Nat]
  /\ free' \in Nat /\ lost' \in Nat

\* It keeps the types.
LEMMA BecomesType ==
  ASSUME TypeInv, NEW p, NEW f, NEW T, Becomes(p, f, T), live' \subseteq Procs
  PROVE  /\ TypeInv' /\ pt'[p] = f /\ tables'[p] = T
         /\ \A q \in Procs \ {p} : pt'[q] = pt[q] /\ tables'[q] = tables[q]
BY Zenon DEF TypeInv, Becomes

\* The count of p's frames before and after it.
LEMMA BecomesHeld ==
  ASSUME TypeInv, NEW p, NEW f, NEW T, Becomes(p, f, T), live' \subseteq Procs
  PROVE  /\ IsFiniteSet(Held(p)) /\ IsFiniteSet(Held(p)')
         /\ Cardinality(Held(p)) = IF p \in live THEN Frames(p) ELSE 0
         /\ Cardinality(Held(p)')
              = IF p \in live' THEN Cardinality(DOMAIN f) + Cardinality(T) + 1 ELSE 0
         /\ Frames(p) \in Nat /\ Cardinality(DOMAIN f) \in Nat /\ Cardinality(T) \in Nat
<1>1. /\ p \in Procs /\ IsFiniteSet(T) /\ DOMAIN f \subseteq Pages
      /\ pt'[p] = f /\ tables'[p] = T
  BY BecomesType, Spaces, Zenon DEF Becomes
<1>2. IsFiniteSet(DOMAIN f)
  BY <1>1, TablesOf, Zenon
<1>3. /\ IsFiniteSet(Mapped(p)) /\ IsFiniteSet(tables[p])
      /\ Cardinality(Mapped(p)) \in Nat /\ Cardinality(tables[p]) \in Nat
  BY <1>1, Shape, Zenon
<1>4. /\ IsFiniteSet(FrameSet(p, Mapped(p), tables[p]))
      /\ Cardinality(FrameSet(p, Mapped(p), tables[p])) = Frames(p)
  BY <1>3, FramesCount DEF Frames
<1>5. /\ IsFiniteSet(FrameSet(p, DOMAIN f, T))
      /\ Cardinality(DOMAIN f) \in Nat /\ Cardinality(T) \in Nat
      /\ Cardinality(FrameSet(p, DOMAIN f, T)) = Cardinality(DOMAIN f) + Cardinality(T) + 1
  BY <1>1, <1>2, FramesCount
<1>6. IsFiniteSet({}) /\ Cardinality({}) = 0
  BY FS_EmptySet, Zenon
<1>7. Held(p)' = IF p \in live' THEN FrameSet(p, DOMAIN f, T) ELSE {}
  BY <1>1, Zenon DEF Held, Mapped
<1>8. Frames(p) \in Nat
  BY <1>3 DEF Frames
<1> QED BY <1>4, <1>5, <1>6, <1>7, <1>8, Zenon DEF Held

\* It keeps the invariant if the frames that p gains are taken from the free
\* list and those it loses are put there.
LEMMA BecomesInv ==
  ASSUME Inv, NEW p, NEW f, NEW T, Becomes(p, f, T),
         live' \subseteq Procs, live' \ {p} = live \ {p},
         free' + lost' + (IF p \in live' THEN Cardinality(DOMAIN f) + Cardinality(T) + 1 ELSE 0)
           = free + lost + (IF p \in live THEN Frames(p) ELSE 0)
  PROVE  Inv'
<1>1. /\ TypeInv /\ MemInv /\ free \in Nat /\ lost \in Nat /\ live \subseteq Procs
      /\ p \in Procs /\ free' \in Nat /\ lost' \in Nat
  BY Zenon DEF Inv, TypeInv, Becomes
<1>2. TypeInv' /\ Alone(p)
  BY <1>1, BecomesType, Zenon DEF Alone
<1>3. /\ IsFiniteSet(Held(p)) /\ IsFiniteSet(Held(p)')
      /\ free' + lost' + Cardinality(Held(p)') = free + lost + Cardinality(Held(p))
  BY <1>1, BecomesHeld, Zenon
<1>4. MemInv'
  BY <1>1, <1>2, <1>3, AloneMem, Zenon
<1> QED BY <1>2, <1>4, Zenon DEF Inv

-----------------------------------------------------------------------------
(* The loops of allocuvm() and copyuvm()                                   *)

\* Where the loop of allocuvm() stops: the pages before are new and fit.
LEMMA AllocStops ==
  ASSUME TypeInv, NEW p \in Procs, NEW lo \in Nat, NEW hi \in Nat, lo <= hi
  PROVE  LET stop == AllocStop(p, lo, hi) IN
         /\ stop \in lo .. hi /\ AllocReaches(p, lo, stop)
         /\ stop = hi \/ ~AllocReaches(p, lo, stop + 1)
<1> DEFINE R == {k \in Nat : AllocReaches(p, lo, lo + k)}
<1>1. 0 \in R
  <2>1. lo .. lo + 0 - 1 = {} /\ 0 \in Nat
    OBVIOUS
  <2>2. Need({}, tables[p]) = 0
    <3>1. tables[p] \subseteq Nat /\ IsFiniteSet(tables[p]) /\ {} \subseteq Pages
      BY Shape, Zenon
    <3> QED BY <3>1, NeedPages, Zenon
  <2> QED BY <2>1, <2>2 DEF AllocReaches, TypeInv
<1>2. PICK k \in 0 .. hi - lo : k \in R /\ (k = hi - lo \/ k + 1 \notin R)
  <2>1. hi - lo \in Nat
    OBVIOUS
  <2> HIDE DEF R
  <2> QED BY <1>1, <2>1, LastReached, Zenon
<1>3. lo + k \in lo .. hi /\ AllocReaches(p, lo, lo + k)
  BY <1>2
<1>4. lo + k = hi \/ ~AllocReaches(p, lo, (lo + k) + 1)
  <2>1. lo + (k + 1) = (lo + k) + 1 /\ k + 1 \in Nat /\ (k = hi - lo => lo + k = hi)
    BY <1>2
  <2> QED BY <1>2, <2>1, Zenon
<1> QED BY <1>3, <1>4, Zenon DEF AllocStop

\* Where the loop of copyuvm() stops, once it has a page directory.
LEMMA CopyStops ==
  ASSUME TypeInv, NEW p \in Procs, free > 0
  PROVE  /\ CopyLen(p) \in Nat /\ CopyStop(p) \in 0 .. CopyLen(p)
         /\ CopyReaches(p, CopyStop(p))
         /\ CopyStop(p) = CopyLen(p) \/ ~CopyReaches(p, CopyStop(p) + 1)
<1> DEFINE R == {k \in Nat : CopyReaches(p, k)}
<1>1. TextPages(p) \in Nat /\ CopyLen(p) \in Nat
  <2>1. sz[p] \in Nat /\ stackSize[p] \in Nat
    BY Shape, Zenon
  <2> QED BY <2>1, RoundUp DEF TextPages, CopyLen, StackPages
<1>2. 0 \in R
  <2>1. CopyPages(p, 0) = {}
    BY <1>1, Sizes DEF CopyPages, Pages
  <2>2. Need({}, {}) = 0
    BY NeedPages, FS_EmptySet, Zenon
  <2> QED BY <2>1, <2>2 DEF CopyReaches, CopyNeed, TypeInv
<1>3. PICK k \in 0 .. CopyLen(p) : k \in R /\ (k = CopyLen(p) \/ k + 1 \notin R)
  <2> HIDE DEF R
  <2> QED BY <1>1, <1>2, LastReached, Zenon
<1>4. CopyReaches(p, k) /\ (k = CopyLen(p) \/ ~CopyReaches(p, k + 1))
  BY <1>3
<1> QED BY <1>1, <1>3, <1>4, Zenon DEF CopyStop

-----------------------------------------------------------------------------
(* Every step keeps the invariant.                                         *)

\* What Inv says of a living process.
LEMMA LiveShape ==
  ASSUME Inv, NEW p \in live
  PROVE  TypeInv /\ p \in Procs /\ live \subseteq Procs /\ free \in Nat /\ lost \in Nat
BY Zenon DEF Inv, TypeInv

\* allocuvm() maps all the pages.
LEMMA AllocInv ==
  ASSUME Inv, NEW p \in live, NEW lo \in Nat, NEW hi \in Nat, lo <= hi, hi <= KERNBASE,
         allocuvm(p, lo, hi), live' = live,
         sz' \in [Procs -> Nat], stackSize' \in [Procs -> Nat]
  PROVE  Inv'
<1> DEFINE new == lo .. hi - 1
           f == With(p, new)
           T == tables[p] \union {PDX(i) : i \in new}
<1>1. TypeInv /\ p \in Procs /\ live \subseteq Procs /\ free \in Nat /\ lost \in Nat
  BY LiveShape, Zenon
<1>2. /\ Mapped(p) \subseteq Pages /\ pt[p] \in [Mapped(p) -> Contents]
      /\ IsFiniteSet(Mapped(p)) /\ tables[p] \subseteq Nat /\ IsFiniteSet(tables[p])
  BY <1>1, Shape, Zenon
<1>3. /\ AllocStop(p, lo, hi) = hi
      /\ pt' = [pt EXCEPT ![p] = f] /\ tables' = [tables EXCEPT ![p] = T]
      /\ free' = free - Need(new, tables[p]) /\ lost' = lost
  BY <1>1, Zenon DEF allocuvm, TypeInv
<1>4. new \intersect Mapped(p) = {} /\ Need(new, tables[p]) <= free
  BY <1>1, <1>3, AllocStops, Zenon DEF AllocReaches
<1>5. new \subseteq Pages
  BY Sizes DEF Pages
<1>6. /\ Need(new, tables[p]) \in Nat /\ T \subseteq Nat /\ IsFiniteSet(T)
      /\ Cardinality(new) \in Nat /\ Cardinality(tables[p]) \in Nat
      /\ Cardinality(T) = Cardinality(tables[p]) + Need(new, tables[p]) - Cardinality(new)
  BY <1>2, <1>5, NeedPages, Zenon
<1>7. DOMAIN f = Mapped(p) \union new /\ f \in AddressSpaces
  <2>1. f \in [Mapped(p) \union new -> Contents]
    BY <1>2, Zenon DEF With, Contents
  <2> QED BY <2>1, <1>2, <1>5, Spaces, Zenon
<1>8. /\ Cardinality(DOMAIN f) = Cardinality(Mapped(p)) + Cardinality(new)
      /\ Cardinality(Mapped(p)) \in Nat
  <2>1. IsFiniteSet(new) /\ Mapped(p) \intersect new = {}
    BY <1>4, <1>5, TablesOf, Zenon
  <2> HIDE DEF new, f
  <2> QED BY <2>1, <1>2, <1>7, Disjoint, Zenon
<1> HIDE DEF new, f, T
<1>9. free' \in Nat /\ lost' \in Nat
  BY <1>1, <1>3, <1>4, <1>6
<1>10. Becomes(p, f, T)
  BY <1>1, <1>3, <1>6, <1>7, <1>9, Zenon DEF Becomes
<1>11. free' + lost' + (Cardinality(DOMAIN f) + Cardinality(T) + 1) = free + lost + Frames(p)
  BY <1>1, <1>3, <1>6, <1>8 DEF Frames
<1> QED BY <1>1, <1>10, <1>11, BecomesInv, Zenon

\* allocuvm() runs out of memory and removes what it mapped.
LEMMA AllocFailInv ==
  ASSUME Inv, NEW p \in live, NEW lo \in Nat, NEW hi \in Nat, lo <= hi, hi <= KERNBASE,
         allocuvm_fail(p, lo, hi), live' = live,
         sz' \in [Procs -> Nat], stackSize' \in [Procs -> Nat]
  PROVE  Inv'
<1> DEFINE stop == AllocStop(p, lo, hi)
           new == lo .. stop - 1
           gone == Undone(p, lo, hi)
           kept == (Mapped(p) \union new) \ gone
           f == Restrict(With(p, new), kept)
           T == tables[p] \union {PDX(i) : i \in new}
<1>1. TypeInv /\ p \in Procs /\ live \subseteq Procs /\ free \in Nat /\ lost \in Nat
  BY LiveShape, Zenon
<1>2. /\ Mapped(p) \subseteq Pages /\ pt[p] \in [Mapped(p) -> Contents]
      /\ IsFiniteSet(Mapped(p)) /\ tables[p] \subseteq Nat /\ IsFiniteSet(tables[p])
  BY <1>1, Shape, Zenon
<1>3. /\ pt' = [pt EXCEPT ![p] = f] /\ tables' = [tables EXCEPT ![p] = T]
      /\ free' = free - Need(new, tables[p]) + Cardinality(gone) - 0 /\ lost' = lost
  BY <1>1, Zenon DEF allocuvm_fail, AllocLost, TypeInv
<1>4. /\ stop \in lo .. hi
      /\ new \intersect Mapped(p) = {} /\ Need(new, tables[p]) <= free
  BY <1>1, AllocStops, Zenon DEF AllocReaches
<1>5. new \subseteq Pages
  BY <1>4, Sizes DEF Pages
<1>6. /\ Need(new, tables[p]) \in Nat /\ T \subseteq Nat /\ IsFiniteSet(T)
      /\ Cardinality(new) \in Nat /\ Cardinality(tables[p]) \in Nat
      /\ Cardinality(T) = Cardinality(tables[p]) + Need(new, tables[p]) - Cardinality(new)
  BY <1>2, <1>5, NeedPages, Zenon
<1>7. gone \subseteq Mapped(p) \union new
  BY Zenon DEF Undone
<1>8. DOMAIN f = kept /\ f \in AddressSpaces
  <2>1. With(p, new) \in [Mapped(p) \union new -> Contents]
    BY <1>2, Zenon DEF With, Contents
  <2>2. kept \subseteq Mapped(p) \union new /\ kept \subseteq Pages
    BY <1>2, <1>5, Zenon
  <2> HIDE DEF new, gone, kept
  <2>3. f \in [kept -> Contents]
    BY <2>1, <2>2, Zenon DEF Restrict
  <2> QED BY <2>2, <2>3, Spaces, Zenon
<1>9. IsFiniteSet(new) /\ Mapped(p) \intersect new = {}
  BY <1>4, <1>5, TablesOf, Zenon
<1> HIDE DEF stop, new, gone
<1>10. /\ IsFiniteSet(Mapped(p) \union new) /\ Cardinality(Mapped(p)) \in Nat
       /\ Cardinality(Mapped(p) \union new) = Cardinality(Mapped(p)) + Cardinality(new)
  BY <1>2, <1>9, Disjoint, Zenon
<1>11. /\ Cardinality(gone) \in Nat
       /\ Cardinality(kept) = Cardinality(Mapped(p) \union new) - Cardinality(gone)
  BY <1>7, <1>10, Removed, Zenon
<1> HIDE DEF kept, f, T
<1>12. free' \in Nat /\ lost' \in Nat
  BY <1>1, <1>3, <1>4, <1>6, <1>11
<1>13. Becomes(p, f, T)
  BY <1>1, <1>3, <1>6, <1>8, <1>12, Zenon DEF Becomes
<1>14. free' + lost' + (Cardinality(DOMAIN f) + Cardinality(T) + 1) = free + lost + Frames(p)
  BY <1>1, <1>3, <1>6, <1>8, <1>10, <1>11 DEF Frames
<1> QED BY <1>1, <1>13, <1>14, BecomesInv, Zenon

\* A size inside user memory ends in or before its last page.
LEMMA InUserMemory ==
  ASSUME NEW s \in Nat, s < KERNBASE * PGSIZE PROVE PGROUNDUP(s) <= KERNBASE
<1> DEFINE q == PGROUNDUP(s)
<1>1. q \in Nat /\ q * PGSIZE <= s + PGSIZE - 1
  BY Sizes DEF PGROUNDUP
<1>2. SUFFICES ASSUME q >= KERNBASE + 1 PROVE FALSE
  BY <1>1, Sizes
<1>3. q * PGSIZE >= (KERNBASE + 1) * PGSIZE
  BY <1>1, <1>2, Sizes
<1>4. (KERNBASE + 1) * PGSIZE = KERNBASE * PGSIZE + PGSIZE
  BY Sizes
<1> HIDE DEF q
<1> QED BY <1>1, <1>3, <1>4, Sizes

\* A step that leaves the address spaces and the account of frames alone.
LEMMA QuietInv ==
  ASSUME Inv, UNCHANGED <<live, pt, tables, free, lost>>,
         sz' \in [Procs -> Nat], stackSize' \in [Procs -> Nat]
  PROVE  Inv'
<1>1. TypeInv'
  BY Zenon DEF Inv, TypeInv
<1>2. InUse' = InUse
  BY Zenon DEF InUse, FramesOf, Mapped
<1> QED BY <1>1, <1>2, Zenon DEF Inv, MemInv, MemoryConserved

\* sbrk() with a positive argument.
LEMMA GrowInv ==
  ASSUME Inv, NEW p \in live, NEW n \in SbrkArgs, sbrk_grow(p, n) PROVE Inv'
<1> DEFINE lo == PGROUNDUP(sz[p])
           hi == PGROUNDUP(sz[p] + n)
<1>1. TypeInv /\ p \in Procs
  BY LiveShape, Zenon
<1>2. sz[p] \in Nat /\ sz \in [Procs -> Nat] /\ stackSize \in [Procs -> Nat]
  BY <1>1, Zenon DEF TypeInv
<1>3. n \in Nat /\ n > 0 /\ sz[p] + n < KERNBASE * PGSIZE /\ live' = live
  BY Sizes DEF sbrk_grow
<1>4. /\ sz[p] + n \in Nat /\ sz[p] <= sz[p] + n
      /\ [sz EXCEPT ![p] = @ + n] \in [Procs -> Nat]
  BY <1>1, <1>2, <1>3
<1>5. lo \in Nat /\ hi \in Nat /\ lo <= hi /\ hi <= KERNBASE
  BY <1>2, <1>3, <1>4, RoundUp, InUserMemory, Zenon
<1> HIDE DEF lo, hi
<1>6. \/ allocuvm(p, lo, hi) /\ sz' = [sz EXCEPT ![p] = @ + n] /\ stackSize' = stackSize
      \/ UNCHANGED <<pt, tables, sz, stackSize, free, lost>>
      \/ allocuvm_fail(p, lo, hi) /\ UNCHANGED <<sz, stackSize>>
  BY Zenon DEF sbrk_grow, Panic, lo, hi
<1>7. CASE allocuvm(p, lo, hi) /\ sz' = [sz EXCEPT ![p] = @ + n] /\ stackSize' = stackSize
  BY <1>2, <1>3, <1>4, <1>5, <1>7, AllocInv, Zenon
<1>8. CASE UNCHANGED <<pt, tables, sz, stackSize, free, lost>>
  BY <1>2, <1>3, <1>8, QuietInv, Zenon
<1>9. CASE allocuvm_fail(p, lo, hi) /\ UNCHANGED <<sz, stackSize>>
  BY <1>2, <1>3, <1>5, <1>9, AllocFailInv, Zenon
<1> QED BY <1>6, <1>7, <1>8, <1>9, Zenon

\* sbrk() with a negative argument.
LEMMA ShrinkInv ==
  ASSUME Inv, NEW p \in live, NEW n \in SbrkArgs, sbrk_shrink(p, n) PROVE Inv'
<1> DEFINE new == sz[p] + n
           gone == (ShrinkFrom(new) .. PGROUNDUP(sz[p]) - 1) \intersect Mapped(p)
           f == Without(p, gone)
           T == tables[p]
<1>1. TypeInv /\ p \in Procs /\ live \subseteq Procs /\ free \in Nat /\ lost \in Nat
  BY LiveShape, Zenon
<1>2. /\ Mapped(p) \subseteq Pages /\ pt[p] \in [Mapped(p) -> Contents]
      /\ IsFiniteSet(Mapped(p)) /\ T \subseteq Nat /\ IsFiniteSet(T)
      /\ Cardinality(T) \in Nat
  BY <1>1, Shape, Zenon
<1>3. /\ pt' = [pt EXCEPT ![p] = f] /\ tables' = [tables EXCEPT ![p] = T]
      /\ free' = free + Cardinality(gone) /\ lost' = lost /\ live' = live
      /\ sz' = [sz EXCEPT ![p] = IF new = 0 THEN @ ELSE new]
      /\ stackSize' = stackSize /\ new >= MinSize
  BY <1>1, Zenon DEF sbrk_shrink, TypeInv
<1>4. sz' \in [Procs -> Nat] /\ stackSize' \in [Procs -> Nat]
  BY <1>1, <1>3, Sizes DEF TypeInv
<1>5. gone \subseteq Mapped(p)
  OBVIOUS
<1> HIDE DEF gone, new
<1>6. DOMAIN f = Mapped(p) \ gone /\ f \in AddressSpaces
  <2>1. f \in [Mapped(p) \ gone -> Contents]
    BY <1>2, Zenon DEF Without, Restrict
  <2> QED BY <2>1, <1>2, Spaces, Zenon
<1>7. /\ Cardinality(gone) \in Nat /\ Cardinality(Mapped(p)) \in Nat
      /\ Cardinality(Mapped(p) \ gone) = Cardinality(Mapped(p)) - Cardinality(gone)
  BY <1>2, <1>5, Removed, Zenon
<1> HIDE DEF f
<1>8. free' \in Nat /\ lost' \in Nat
  BY <1>1, <1>3, <1>7
<1>9. Becomes(p, f, T)
  BY <1>1, <1>2, <1>3, <1>4, <1>6, <1>8, Zenon DEF Becomes
<1>10. free' + lost' + (Cardinality(DOMAIN f) + Cardinality(T) + 1) = free + lost + Frames(p)
  BY <1>1, <1>2, <1>3, <1>6, <1>7 DEF Frames
<1> QED BY <1>1, <1>3, <1>9, <1>10, BecomesInv, Zenon

\* A write to a page changes its content only.
LEMMA WriteInv ==
  ASSUME Inv, NEW p \in live, NEW i \in Pages, NEW v \in Vals, Write(p, i, v) PROVE Inv'
<1> DEFINE f == [pt[p] EXCEPT ![i] = v]
<1>1. TypeInv /\ p \in Procs /\ live \subseteq Procs /\ free \in Nat /\ lost \in Nat
  BY LiveShape, Zenon
<1>2. /\ Mapped(p) \subseteq Pages /\ pt[p] \in [Mapped(p) -> Contents]
      /\ tables[p] \subseteq Nat /\ IsFiniteSet(tables[p])
      /\ Cardinality(tables[p]) \in Nat /\ Cardinality(Mapped(p)) \in Nat
  BY <1>1, Shape, Zenon
<1>3. /\ pt' = [pt EXCEPT ![p] = f] /\ tables' = [tables EXCEPT ![p] = tables[p]]
      /\ free' = free /\ lost' = lost /\ live' = live
      /\ sz' \in [Procs -> Nat] /\ stackSize' \in [Procs -> Nat]
  BY <1>1, Zenon DEF Write, TypeInv
<1>4. DOMAIN f = Mapped(p) /\ f \in AddressSpaces
  <2>1. f \in [Mapped(p) -> Contents]
    BY <1>2, Zenon DEF Contents
  <2> QED BY <2>1, <1>2, Spaces, Zenon
<1> HIDE DEF f
<1>5. Becomes(p, f, tables[p])
  BY <1>1, <1>2, <1>3, <1>4, Zenon DEF Becomes
<1>6. free' + lost' + (Cardinality(DOMAIN f) + Cardinality(tables[p]) + 1)
        = free + lost + Frames(p)
  BY <1>1, <1>2, <1>3, <1>4, Zenon DEF Frames
<1> QED BY <1>1, <1>3, <1>5, <1>6, BecomesInv, Zenon

\* A page fault maps the page below the stack, or stops the machine.
LEMMA FaultInv ==
  ASSUME Inv, NEW p \in live, NEW i \in Pages, pgfault(p, i) PROVE Inv'
<1> DEFINE hi == StackBottom(p)
<1>1. TypeInv /\ p \in Procs
  BY LiveShape, Zenon
<1>2. stackSize[p] \in Nat /\ sz \in [Procs -> Nat] /\ stackSize \in [Procs -> Nat]
  BY <1>1, Zenon DEF TypeInv
<1>3. i < hi /\ live' = live
  BY Zenon DEF pgfault
<1>4. i \in Nat /\ hi \in Nat /\ i <= hi /\ hi <= KERNBASE
  BY <1>2, <1>3, Sizes DEF StackBottom, Pages
<1> HIDE DEF hi
<1>5. \/ allocuvm(p, i, hi) /\ stackSize' = [stackSize EXCEPT ![p] = @ + 1] /\ sz' = sz
      \/ UNCHANGED <<pt, tables, sz, stackSize, free, lost>>
  BY Zenon DEF pgfault, Panic, hi
<1>6. CASE allocuvm(p, i, hi) /\ stackSize' = [stackSize EXCEPT ![p] = @ + 1] /\ sz' = sz
  <2>1. stackSize' \in [Procs -> Nat] /\ sz' \in [Procs -> Nat]
    BY <1>1, <1>2, <1>6
  <2> QED BY <2>1, <1>3, <1>4, <1>6, AllocInv, Zenon
<1>7. CASE UNCHANGED <<pt, tables, sz, stackSize, free, lost>>
  BY <1>2, <1>3, <1>7, QuietInv, Zenon
<1> QED BY <1>5, <1>6, <1>7, Zenon

\* fork() makes a child of what copyuvm() copied.
LEMMA ForkInv ==
  ASSUME Inv, NEW p \in live, NEW q \in Procs, fork(p, q) PROVE Inv'
<1> DEFINE all == CopyPages(p, CopyLen(p))
           f == Restrict(pt[p], all)
           T == {PDX(i) : i \in all}
<1>1. TypeInv /\ p \in Procs /\ live \subseteq Procs /\ free \in Nat /\ lost \in Nat
  BY LiveShape, Zenon
<1>2. Mapped(p) \subseteq Pages /\ pt[p] \in [Mapped(p) -> Contents]
  BY <1>1, Shape, Zenon
<1>3. /\ q \notin live /\ live' = live \union {q}
      /\ free > 0 /\ CopyStop(p) = CopyLen(p)
      /\ pt' = [pt EXCEPT ![q] = f] /\ tables' = [tables EXCEPT ![q] = T]
      /\ free' = free - CopyNeed(p, CopyLen(p)) /\ lost' = lost
      /\ sz' = [sz EXCEPT ![q] = sz[p]] /\ stackSize' = [stackSize EXCEPT ![q] = stackSize[p]]
  BY Zenon DEF fork
<1>4. sz' \in [Procs -> Nat] /\ stackSize' \in [Procs -> Nat]
  BY <1>1, <1>3, Zenon DEF TypeInv
<1>5. all \subseteq Mapped(p) /\ CopyNeed(p, CopyLen(p)) <= free
  BY <1>1, <1>3, CopyStops, Zenon DEF CopyReaches
<1> HIDE DEF all
<1>6. DOMAIN f = all /\ f \in AddressSpaces /\ all \subseteq Pages
  <2>1. f \in [all -> Contents]
    BY <1>2, <1>5, Zenon DEF Restrict
  <2> QED BY <2>1, <1>2, <1>5, Spaces, Zenon
<1>7. /\ T \subseteq Nat /\ IsFiniteSet(T) /\ Cardinality(all) \in Nat /\ Cardinality(T) \in Nat
      /\ Need(all, {}) = Cardinality(all) + Cardinality(T)
  <2>1. IsFiniteSet(all) /\ T \subseteq Nat /\ IsFiniteSet(T)
    BY <1>6, TablesOf, Zenon
  <2>2. Cardinality(all) \in Nat /\ Cardinality(T) \in Nat
    BY <2>1, FS_CardinalityType, Zenon
  <2>3. T \ {} = T
    OBVIOUS
  <2>4. Need(all, {}) = Cardinality(all) + Cardinality(T)
    BY <2>3, Zenon DEF Need
  <2> QED BY <2>1, <2>2, <2>4, Zenon
<1>8. CopyNeed(p, CopyLen(p)) = Cardinality(all) + Cardinality(T) + 1
  BY <1>7, Zenon DEF CopyNeed, all
<1> HIDE DEF f, T
<1>9. free' \in Nat /\ lost' \in Nat
  BY <1>1, <1>3, <1>5, <1>7, <1>8
<1>10. Becomes(q, f, T)
  BY <1>3, <1>4, <1>6, <1>7, <1>9, Zenon DEF Becomes
<1>11. free' + lost' + (Cardinality(DOMAIN f) + Cardinality(T) + 1) = free + lost + 0
  BY <1>1, <1>3, <1>6, <1>7, <1>8
<1>12. live' \subseteq Procs /\ live' \ {q} = live \ {q} /\ q \in live' /\ q \notin live
  BY <1>1, <1>3, Zenon
<1> QED BY <1>10, <1>11, <1>12, BecomesInv, Zenon

\* A fork() that fails drops at most the page it has in hand.
LEMMA ForkFailInv ==
  ASSUME Inv, NEW p \in live, NEW q \in Procs, fork_fail(p, q) PROVE Inv'
<1> DEFINE leak == IF free = 0 THEN 0 ELSE free - CopyNeed(p, CopyStop(p))
<1>1. TypeInv /\ p \in Procs /\ live \subseteq Procs /\ free \in Nat /\ lost \in Nat
  BY LiveShape, Zenon
<1>2. sz \in [Procs -> Nat] /\ stackSize \in [Procs -> Nat]
  BY <1>1, Zenon DEF TypeInv
<1>3. /\ UNCHANGED <<live, pt, tables, sz, stackSize>>
      /\ \/ UNCHANGED <<free, lost>>
         \/ free' = free - leak /\ lost' = lost + leak
  BY Zenon DEF fork_fail, Panic
<1>4. CASE UNCHANGED <<free, lost>>
  BY <1>2, <1>3, <1>4, QuietInv, Zenon
<1>5. CASE free' = free - leak /\ lost' = lost + leak
  <2>1. leak \in Nat /\ leak <= free
    <3>1. CASE free = 0
      BY <3>1
    <3>2. CASE free # 0
      <4>1. CopyReaches(p, CopyStop(p)) /\ CopyStop(p) \in Nat
        BY <1>1, <3>2, CopyStops
      <4>2. Need(CopyPages(p, CopyStop(p)), {}) \in Nat
        <5>1. CopyPages(p, CopyStop(p)) \subseteq Pages
          BY Zenon DEF CopyPages
        <5> QED BY <5>1, NeedPages, FS_EmptySet, Zenon
      <4>3. CopyNeed(p, CopyStop(p)) \in Nat /\ CopyNeed(p, CopyStop(p)) <= free
        BY <4>1, <4>2 DEF CopyNeed, CopyReaches
      <4> QED BY <1>1, <3>2, <4>3
    <3> QED BY <3>1, <3>2, Zenon
  <2> HIDE DEF leak
  <2>2. free' \in Nat /\ lost' \in Nat /\ free' + lost' = free + lost
    BY <1>1, <1>5, <2>1
  <2>3. TypeInv'
    BY <1>1, <1>3, <2>2, Zenon DEF TypeInv
  <2>4. InUse' = InUse
    BY <1>3, Zenon DEF InUse, FramesOf, Mapped
  <2>5. IsFiniteSet(InUse) /\ free + lost + Cardinality(InUse) = NFRAMES
    BY Zenon DEF Inv, MemInv, MemoryConserved
  <2> QED BY <2>2, <2>3, <2>4, <2>5, Zenon DEF Inv, MemInv, MemoryConserved
<1> QED BY <1>3, <1>4, <1>5, Zenon

\* exec() puts a new address space in the place of the old one.
LEMMA ExecInv ==
  ASSUME Inv, NEW p \in live, NEW n \in 1 .. MaxText, exec(p, n) PROVE Inv'
<1> DEFINE S == ImagePages(n)
           f == Fresh(S)
           T == {PDX(i) : i \in S}
<1>1. TypeInv /\ p \in Procs /\ live \subseteq Procs /\ free \in Nat /\ lost \in Nat
  BY LiveShape, Zenon
<1>2. Cardinality(Mapped(p)) \in Nat /\ Cardinality(tables[p]) \in Nat
  BY <1>1, Shape, Zenon
<1>3. /\ ImageNeed(n) <= free /\ live' = live /\ lost' = lost
      /\ pt' = [pt EXCEPT ![p] = f] /\ tables' = [tables EXCEPT ![p] = T]
      /\ free' = free - ImageNeed(n) + Frames(p)
      /\ sz' = [sz EXCEPT ![p] = n * PGSIZE] /\ stackSize' = [stackSize EXCEPT ![p] = 1]
  BY Zenon DEF exec
<1>4. sz' \in [Procs -> Nat] /\ stackSize' \in [Procs -> Nat]
  BY <1>1, <1>3, Sizes DEF TypeInv
<1>5. S \subseteq Pages
  BY Sizes DEF ImagePages, Pages
<1> HIDE DEF S
<1>6. DOMAIN f = S /\ f \in AddressSpaces
  <2>1. f \in [S -> Contents]
    BY Zenon DEF Fresh, Contents
  <2> QED BY <2>1, <1>5, Spaces, Zenon
<1>7. /\ T \subseteq Nat /\ IsFiniteSet(T) /\ Cardinality(S) \in Nat /\ Cardinality(T) \in Nat
      /\ Need(S, {}) = Cardinality(S) + Cardinality(T)
  <2>1. IsFiniteSet(S) /\ T \subseteq Nat /\ IsFiniteSet(T)
    BY <1>5, TablesOf, Zenon
  <2>2. Cardinality(S) \in Nat /\ Cardinality(T) \in Nat
    BY <2>1, FS_CardinalityType, Zenon
  <2>3. T \ {} = T
    OBVIOUS
  <2>4. Need(S, {}) = Cardinality(S) + Cardinality(T)
    BY <2>3, Zenon DEF Need
  <2> QED BY <2>1, <2>2, <2>4, Zenon
<1>8. ImageNeed(n) = Cardinality(S) + Cardinality(T) + 1
  BY <1>7, Zenon DEF ImageNeed, S
<1> HIDE DEF f, T
<1>9. free' \in Nat /\ lost' \in Nat
  BY <1>1, <1>2, <1>3, <1>7, <1>8 DEF Frames
<1>10. Becomes(p, f, T)
  BY <1>1, <1>3, <1>4, <1>6, <1>7, <1>9, Zenon DEF Becomes
<1>11. free' + lost' + (Cardinality(DOMAIN f) + Cardinality(T) + 1) = free + lost + Frames(p)
  BY <1>1, <1>2, <1>3, <1>6, <1>7, <1>8 DEF Frames
<1> QED BY <1>1, <1>3, <1>10, <1>11, BecomesInv, Zenon

\* freevm() puts back every frame of the process.
LEMMA FreeInv ==
  ASSUME Inv, NEW p \in live, freevm(p) PROVE Inv'
<1>1. TypeInv /\ p \in Procs /\ live \subseteq Procs /\ free \in Nat /\ lost \in Nat
  BY LiveShape, Zenon
<1>2. Cardinality(Mapped(p)) \in Nat /\ Cardinality(tables[p]) \in Nat
  BY <1>1, Shape, Zenon
<1>3. /\ live' = live \ {p} /\ lost' = lost /\ free' = free + Frames(p)
      /\ pt' = [pt EXCEPT ![p] = NoPages] /\ tables' = [tables EXCEPT ![p] = {}]
      /\ sz' = [sz EXCEPT ![p] = 0] /\ stackSize' = [stackSize EXCEPT ![p] = 0]
  BY Zenon DEF freevm
<1>4. sz' \in [Procs -> Nat] /\ stackSize' \in [Procs -> Nat]
  BY <1>1, <1>3, Zenon DEF TypeInv
<1>5. NoPages \in AddressSpaces
  <2>1. DOMAIN NoPages = {} /\ NoPages \in [{} -> Contents]
    BY Zenon DEF NoPages
  <2> QED BY <2>1, Spaces, Zenon
<1>6. Frames(p) \in Nat
  BY <1>2 DEF Frames
<1>7. free' \in Nat /\ lost' \in Nat
  BY <1>1, <1>3, <1>6
<1>8. Becomes(p, NoPages, {})
  <2>1. IsFiniteSet({}) /\ {} \subseteq Nat
    BY FS_EmptySet, Zenon
  <2> QED BY <2>1, <1>1, <1>3, <1>4, <1>5, <1>7, Zenon DEF Becomes
<1>9. free' + lost' + 0 = free + lost + Frames(p)
  BY <1>1, <1>3, <1>6
<1>10. live' \subseteq Procs /\ live' \ {p} = live \ {p} /\ p \notin live' /\ p \in live
  BY <1>1, <1>3, Zenon
<1> QED BY <1>8, <1>9, <1>10, BecomesInv, Zenon

\* The first process has a page, its page table and its page directory.
LEMMA InitInv == Init => Inv
<1> SUFFICES ASSUME Init PROVE Inv
  OBVIOUS
<1>1. Fresh({0}) \in AddressSpaces /\ NoPages \in AddressSpaces
  <2>1. DOMAIN Fresh({0}) = {0} /\ Fresh({0}) \in [{0} -> Contents] /\ {0} \subseteq Pages
    BY Sizes DEF Fresh, Contents, Pages
  <2>2. DOMAIN NoPages = {} /\ NoPages \in [{} -> Contents] /\ {} \subseteq Pages
    BY Zenon DEF NoPages
  <2> QED BY <2>1, <2>2, Spaces, Zenon
<1>2. IsFiniteSet({0}) /\ IsFiniteSet({}) /\ Cardinality({0}) = 1
  BY FS_Singleton, FS_EmptySet, Zenon
<1>3. TypeInv
  BY <1>1, <1>2, Sizes DEF Init, TypeInv
<1>4. InUse = FrameSet(First, {0}, {0})
  <2>1. Mapped(First) = {0} /\ tables[First] = {0} /\ live = {First}
    BY Sizes, Zenon DEF Init, Mapped, Fresh
  <2> QED BY <2>1, Zenon DEF InUse, FramesOf, FrameSet
<1>5. IsFiniteSet(InUse) /\ Cardinality(InUse) = 3
  BY <1>2, <1>4, FramesCount
<1>6. free + lost + 3 = NFRAMES
  BY Sizes DEF Init
<1> QED BY <1>3, <1>5, <1>6, Zenon DEF Inv, MemInv, MemoryConserved

\* Every step of the program and of the kernel keeps the invariant.
LEMMA RunInv == ASSUME Inv, NEW p \in live, Run(p) PROVE Inv'
<1>1. sz \in [Procs -> Nat] /\ stackSize \in [Procs -> Nat]
  BY Zenon DEF Inv, TypeInv
<1>2. ASSUME NEW n \in 1 .. MaxText, exec(p, n) PROVE Inv'
  BY <1>2, ExecInv, Zenon
<1>3. CASE exec_fail(p)
  BY <1>1, <1>3, QuietInv, Zenon DEF exec_fail
<1>4. ASSUME NEW n \in SbrkArgs, sbrk_grow(p, n) \/ sbrk_shrink(p, n) \/ sbrk_refused(p, n)
      PROVE  Inv'
  <2>1. CASE sbrk_refused(p, n)
    BY <1>1, <2>1, QuietInv, Zenon DEF sbrk_refused
  <2> QED BY <1>4, <2>1, GrowInv, ShrinkInv, Zenon
<1>5. ASSUME NEW i \in Pages, pgfault(p, i) \/ \E v \in Vals : Write(p, i, v) PROVE Inv'
  BY <1>5, FaultInv, WriteInv, Zenon
<1>6. ASSUME NEW q \in Procs, fork(p, q) \/ fork_fail(p, q) PROVE Inv'
  BY <1>6, ForkInv, ForkFailInv, Zenon
<1>7. CASE freevm(p)
  BY <1>7, FreeInv, Zenon
<1> QED BY <1>2, <1>3, <1>4, <1>5, <1>6, <1>7, Zenon DEF Run

\* The invariant is inductive.
LEMMA NextInv == Inv /\ [Next]_vars => Inv'
<1> SUFFICES ASSUME Inv, [Next]_vars PROVE Inv'
  OBVIOUS
<1>1. CASE UNCHANGED vars
  <2>1. /\ UNCHANGED <<live, pt, tables, free, lost>>
        /\ sz' \in [Procs -> Nat] /\ stackSize' \in [Procs -> Nat]
    BY <1>1, Zenon DEF vars, Inv, TypeInv
  <2> QED BY <2>1, QuietInv, Zenon
<1>2. CASE Next
  BY <1>2, RunInv, Zenon DEF Next
<1> QED BY <1>1, <1>2, Zenon

\* Every physical page is at all times on the free list, in the address space
\* of one living process, or among those that a failed copyuvm() dropped: the
\* paths of allocuvm(), deallocuvm(), copyuvm(), exec() and freevm(), those
\* that run out of memory among them, lose and duplicate no page.
THEOREM FramesAccounted == Spec => []MemoryConserved
<1>1. Inv => MemoryConserved
  BY Zenon DEF Inv, MemInv
<1> QED BY <1>1, InitInv, NextInv, PTL DEF Spec

-----------------------------------------------------------------------------
(* Where the pages of a process are                                        *)

\* A program touches its stack page by page.
PageByPage == MaxJump = 1

\* The pages D of a process of size s with a stack of k pages are in its text
\* and heap and in its stack.
Covered(D, s, k) == D \subseteq (0 .. PGROUNDUP(s) - 1) \union (KERNBASE - k .. KERNBASE - 1)

CoverInv == \A p \in live : Covered(Mapped(p), sz[p], stackSize[p])

\* A step after which p, if it lives, has the pages D, the size s and a stack of
\* k pages; no other process's change.
Shapes(p, D, s, k) ==
  /\ live' \subseteq live \union {p}
  /\ \A q \in live' \ {p} :
       Mapped(q)' = Mapped(q) /\ sz'[q] = sz[q] /\ stackSize'[q] = stackSize[q]
  /\ p \in live' => Mapped(p)' = D /\ sz'[p] = s /\ stackSize'[p] = k

\* The pages that a growing process asks for.
Asked(p, n) == PGROUNDUP(sz[p]) .. PGROUNDUP(sz[p] + n) - 1

\* What a step of p does to the shape of p, or of its child.
Effect(p) ==
  \/ Shapes(p, Mapped(p), sz[p], stackSize[p])
  \/ \E n \in 1 .. MaxText : Shapes(p, ImagePages(n), n * PGSIZE, 1)
  \/ \E n \in SbrkArgs :
       /\ n > 0 /\ sz[p] + n < KERNBASE * PGSIZE /\ stackSize[p] > 0
       /\ \/ /\ Asked(p, n) \intersect Mapped(p) = {}
             /\ Shapes(p, Mapped(p) \union Asked(p, n), sz[p] + n, stackSize[p])
          \/ Shapes(p, Mapped(p) \ Asked(p, n), sz[p], stackSize[p])
  \/ \E n \in SbrkArgs :
       /\ n < 0 /\ sz[p] + n >= MinSize
       /\ Shapes(p, Mapped(p) \ (PGROUNDUP(sz[p] + n) .. PGROUNDUP(sz[p]) - 1),
                 IF sz[p] + n = 0 THEN sz[p] ELSE sz[p] + n, stackSize[p])
  \/ \E i \in Pages :
       /\ i \notin Mapped(p) /\ i < StackBottom(p) /\ i >= StackBottom(p) - MaxJump
       /\ Shapes(p, Mapped(p) \union (i .. StackBottom(p) - 1), sz[p], stackSize[p] + 1)
  \/ \E q \in Procs \ live :
       /\ CopyPages(p, CopyLen(p)) \subseteq Mapped(p)
       /\ Shapes(q, CopyPages(p, CopyLen(p)), sz[p], stackSize[p])

\* A step that leaves the sizes and the mapped pages alone.
LEMMA QuietEffect ==
  ASSUME NEW p \in live, UNCHANGED <<live, pt, sz, stackSize>> PROVE Effect(p)
BY Zenon DEF Effect, Shapes, Mapped

\* A step that replaces the address space of p.
LEMMA OneShape ==
  ASSUME TypeInv, NEW p \in Procs, NEW f, NEW s, NEW k,
         live' \subseteq live \union {p}, pt' = [pt EXCEPT ![p] = f],
         sz' = [sz EXCEPT ![p] = s], stackSize' = [stackSize EXCEPT ![p] = k]
  PROVE  Shapes(p, DOMAIN f, s, k)
<1>1. pt'[p] = f /\ sz'[p] = s /\ stackSize'[p] = k
  BY Zenon DEF TypeInv
<1>2. \A q \in Procs \ {p} : pt'[q] = pt[q] /\ sz'[q] = sz[q] /\ stackSize'[q] = stackSize[q]
  BY Zenon DEF TypeInv
<1> QED BY <1>1, <1>2, Zenon DEF Shapes, Mapped, TypeInv

\* exec() starts with the new image and a stack of one page.
LEMMA ExecEffect ==
  ASSUME Inv, NEW p \in live, NEW n \in 1 .. MaxText, exec(p, n) PROVE Effect(p)
<1>1. TypeInv /\ p \in Procs
  BY LiveShape, Zenon
<1>2. DOMAIN Fresh(ImagePages(n)) = ImagePages(n)
  BY Zenon DEF Fresh
<1>3. Shapes(p, DOMAIN Fresh(ImagePages(n)), n * PGSIZE, 1)
  BY <1>1, OneShape, Zenon DEF exec
<1> QED BY <1>2, <1>3, Zenon DEF Effect

\* freevm() ends the process.
LEMMA FreeEffect ==
  ASSUME Inv, NEW p \in live, freevm(p) PROVE Effect(p)
<1>1. TypeInv /\ p \in Procs
  BY LiveShape, Zenon
<1>2. Shapes(p, DOMAIN NoPages, 0, 0) /\ p \notin live'
  BY <1>1, OneShape, Zenon DEF freevm
<1> QED BY <1>2, Zenon DEF Effect, Shapes

\* sbrk() with a positive argument.
LEMMA GrowEffect ==
  ASSUME Inv, NEW p \in live, NEW n \in SbrkArgs, sbrk_grow(p, n), stackSize[p] > 0
  PROVE  Effect(p)
<1> DEFINE lo == PGROUNDUP(sz[p])
           hi == PGROUNDUP(sz[p] + n)
           new == lo .. AllocStop(p, lo, hi) - 1
<1>1. TypeInv /\ p \in Procs
  BY LiveShape, Zenon
<1>2. sz[p] \in Nat /\ sz = [sz EXCEPT ![p] = @] /\ stackSize = [stackSize EXCEPT ![p] = @]
  BY <1>1, Zenon DEF TypeInv
<1>3. n \in Nat /\ n > 0 /\ sz[p] + n < KERNBASE * PGSIZE /\ live' = live
  BY Sizes DEF sbrk_grow
<1>4. lo \in Nat /\ hi \in Nat /\ lo <= hi
  BY <1>2, <1>3, RoundUp
<1>5. AllocStop(p, lo, hi) \in lo .. hi /\ AllocReaches(p, lo, AllocStop(p, lo, hi))
  BY <1>1, <1>4, AllocStops, Zenon
<1>6. CASE allocuvm(p, lo, hi) /\ sz' = [sz EXCEPT ![p] = @ + n] /\ stackSize' = stackSize
  <2>1. AllocStop(p, lo, hi) = hi /\ pt' = [pt EXCEPT ![p] = With(p, lo .. hi - 1)]
    BY <1>6, Zenon DEF allocuvm
  <2>2. (lo .. hi - 1) \intersect Mapped(p) = {}
    BY <1>5, <2>1, Zenon DEF AllocReaches
  <2>3. DOMAIN With(p, lo .. hi - 1) = Mapped(p) \union (lo .. hi - 1)
    BY Zenon DEF With
  <2> HIDE DEF lo, hi
  <2>4. Shapes(p, DOMAIN With(p, lo .. hi - 1), sz[p] + n, stackSize[p])
    BY <1>1, <1>2, <1>3, <1>6, <2>1, OneShape, Zenon
  <2> QED BY <1>3, <2>2, <2>3, <2>4, Zenon DEF Effect, Asked, lo, hi
<1>7. CASE UNCHANGED <<pt, tables, sz, stackSize, free, lost>>
  BY <1>3, <1>7, QuietEffect, Zenon
<1>8. CASE allocuvm_fail(p, lo, hi) /\ UNCHANGED <<sz, stackSize>>
  <2> DEFINE kept == (Mapped(p) \union new) \ Undone(p, lo, hi)
             f == Restrict(With(p, new), kept)
  <2>1. pt' = [pt EXCEPT ![p] = f]
    BY <1>8, Zenon DEF allocuvm_fail
  <2>2. DOMAIN f = kept
    BY Zenon DEF Restrict
  <2>3. kept = Mapped(p) \ (lo .. hi - 1)
    <3>1. new \subseteq lo .. hi - 1
      BY <1>4, <1>5
    <3>2. Undone(p, lo, hi) = (lo .. hi - 1) \intersect (Mapped(p) \union new)
      BY Zenon DEF Undone
    <3> HIDE DEF lo, hi, new
    <3> QED BY <3>1, <3>2, Zenon
  <2> HIDE DEF f, kept, lo, hi
  <2>4. Shapes(p, DOMAIN f, sz[p], stackSize[p])
    BY <1>1, <1>2, <1>3, <1>8, <2>1, OneShape, Zenon
  <2> QED BY <1>3, <2>2, <2>3, <2>4, Zenon DEF Effect, Asked, lo, hi
<1> HIDE DEF lo, hi
<1>9. \/ allocuvm(p, lo, hi) /\ sz' = [sz EXCEPT ![p] = @ + n] /\ stackSize' = stackSize
      \/ UNCHANGED <<pt, tables, sz, stackSize, free, lost>>
      \/ allocuvm_fail(p, lo, hi) /\ UNCHANGED <<sz, stackSize>>
  BY Zenon DEF sbrk_grow, Panic, lo, hi
<1> QED BY <1>6, <1>7, <1>8, <1>9, Zenon

\* sbrk() with a negative argument.
LEMMA ShrinkEffect ==
  ASSUME Inv, NEW p \in live, NEW n \in SbrkArgs, sbrk_shrink(p, n) PROVE Effect(p)
<1> DEFINE out == PGROUNDUP(sz[p] + n) .. PGROUNDUP(sz[p]) - 1
           s == IF sz[p] + n = 0 THEN sz[p] ELSE sz[p] + n
           f == Without(p, out \intersect Mapped(p))
<1>1. TypeInv /\ p \in Procs
  BY LiveShape, Zenon
<1>2. stackSize = [stackSize EXCEPT ![p] = @] /\ sz[p] \in Nat
  BY <1>1, Zenon DEF TypeInv
<1>3. /\ n < 0 /\ sz[p] + n >= MinSize /\ live' = live
      /\ pt' = [pt EXCEPT ![p] = f] /\ sz' = [sz EXCEPT ![p] = s] /\ stackSize' = stackSize
  BY Zenon DEF sbrk_shrink, ShrinkFrom
<1>4. DOMAIN f = Mapped(p) \ out
  BY Zenon DEF Without, Restrict
<1> HIDE DEF f
<1>5. Shapes(p, DOMAIN f, s, stackSize[p])
  BY <1>1, <1>2, <1>3, OneShape, Zenon
<1> QED BY <1>3, <1>4, <1>5, Zenon DEF Effect

\* A write maps no page.
LEMMA WriteEffect ==
  ASSUME Inv, NEW p \in live, NEW i \in Pages, NEW v \in Vals, Write(p, i, v)
  PROVE  Effect(p)
<1> DEFINE f == [pt[p] EXCEPT ![i] = v]
<1>1. TypeInv /\ p \in Procs
  BY LiveShape, Zenon
<1>2. sz = [sz EXCEPT ![p] = @] /\ stackSize = [stackSize EXCEPT ![p] = @]
  BY <1>1, Zenon DEF TypeInv
<1>3. pt' = [pt EXCEPT ![p] = f] /\ UNCHANGED <<live, sz, stackSize>>
  BY Zenon DEF Write
<1>4. DOMAIN f = Mapped(p)
  BY Zenon DEF Mapped
<1> HIDE DEF f
<1>5. Shapes(p, DOMAIN f, sz[p], stackSize[p])
  BY <1>1, <1>2, <1>3, OneShape, Zenon
<1> QED BY <1>4, <1>5, Zenon DEF Effect

\* A page fault.
LEMMA FaultEffect ==
  ASSUME Inv, NEW p \in live, NEW i \in Pages, pgfault(p, i) PROVE Effect(p)
<1> DEFINE hi == StackBottom(p)
           f == With(p, i .. hi - 1)
<1>1. TypeInv /\ p \in Procs
  BY LiveShape, Zenon
<1>2. sz = [sz EXCEPT ![p] = @]
  BY <1>1, Zenon DEF TypeInv
<1>3. live' = live /\ i \notin Mapped(p) /\ i < hi /\ i >= hi - MaxJump
  BY Zenon DEF pgfault
<1>4. CASE allocuvm(p, i, hi) /\ stackSize' = [stackSize EXCEPT ![p] = @ + 1] /\ sz' = sz
  <2>1. pt' = [pt EXCEPT ![p] = f]
    BY <1>4, Zenon DEF allocuvm
  <2>2. DOMAIN f = Mapped(p) \union (i .. hi - 1)
    BY Zenon DEF With
  <2> HIDE DEF f, hi
  <2>3. Shapes(p, DOMAIN f, sz[p], stackSize[p] + 1)
    BY <1>1, <1>2, <1>3, <1>4, <2>1, OneShape, Zenon
  <2> QED BY <1>3, <2>2, <2>3, Zenon DEF Effect, hi
<1>5. CASE UNCHANGED <<pt, tables, sz, stackSize, free, lost>>
  BY <1>3, <1>5, QuietEffect, Zenon
<1> HIDE DEF hi
<1>6. \/ allocuvm(p, i, hi) /\ stackSize' = [stackSize EXCEPT ![p] = @ + 1] /\ sz' = sz
      \/ UNCHANGED <<pt, tables, sz, stackSize, free, lost>>
  BY Zenon DEF pgfault, Panic, hi
<1> QED BY <1>4, <1>5, <1>6, Zenon

\* fork() gives the child the pages that copyuvm() walked.
LEMMA ForkEffect ==
  ASSUME Inv, NEW p \in live, NEW q \in Procs, fork(p, q)
  PROVE  /\ q \notin live /\ CopyPages(p, CopyLen(p)) \subseteq Mapped(p)
         /\ Shapes(q, CopyPages(p, CopyLen(p)), sz[p], stackSize[p])
         /\ Effect(p)
<1> DEFINE all == CopyPages(p, CopyLen(p))
           f == Restrict(pt[p], all)
<1>1. TypeInv /\ p \in Procs
  BY LiveShape, Zenon
<1>2. /\ q \notin live /\ live' = live \union {q}
      /\ free > 0 /\ CopyStop(p) = CopyLen(p) /\ pt' = [pt EXCEPT ![q] = f]
      /\ sz' = [sz EXCEPT ![q] = sz[p]] /\ stackSize' = [stackSize EXCEPT ![q] = stackSize[p]]
  BY Zenon DEF fork
<1>3. all \subseteq Mapped(p)
  BY <1>1, <1>2, CopyStops, Zenon DEF CopyReaches
<1>4. DOMAIN f = all
  BY Zenon DEF Restrict
<1> HIDE DEF f, all
<1>5. Shapes(q, DOMAIN f, sz[p], stackSize[p])
  BY <1>1, <1>2, OneShape, Zenon
<1> QED BY <1>2, <1>3, <1>4, <1>5, Zenon DEF Effect, all

\* Every step has one of these effects.
LEMMA RunEffect == ASSUME Inv, NEW p \in live, Run(p) PROVE Effect(p)
<1>1. ASSUME NEW n \in 1 .. MaxText, exec(p, n) PROVE Effect(p)
  BY <1>1, ExecEffect, Zenon
<1>2. CASE exec_fail(p)
  BY <1>2, QuietEffect, Zenon DEF exec_fail
<1>3. ASSUME NEW n \in SbrkArgs, stackSize[p] > 0,
             sbrk_grow(p, n) \/ sbrk_shrink(p, n) \/ sbrk_refused(p, n)
      PROVE  Effect(p)
  <2>1. CASE sbrk_refused(p, n)
    BY <2>1, QuietEffect, Zenon DEF sbrk_refused
  <2> QED BY <1>3, <2>1, GrowEffect, ShrinkEffect, Zenon
<1>4. ASSUME NEW i \in Pages, pgfault(p, i) \/ \E v \in Vals : Write(p, i, v) PROVE Effect(p)
  BY <1>4, FaultEffect, WriteEffect, Zenon
<1>5. ASSUME NEW q \in Procs, fork(p, q) \/ fork_fail(p, q) PROVE Effect(p)
  <2>1. CASE fork_fail(p, q)
    <3>1. UNCHANGED <<live, pt, sz, stackSize>>
      BY <2>1, Zenon DEF fork_fail, Panic
    <3> QED BY <3>1, QuietEffect, Zenon
  <2> QED BY <1>5, <2>1, ForkEffect, Zenon
<1>6. CASE freevm(p)
  BY <1>6, FreeEffect, Zenon
<1> QED BY <1>1, <1>2, <1>3, <1>4, <1>5, <1>6, Zenon DEF Run

\* A step that gives p a covered shape keeps the pages covered.
LEMMA ShapesCover ==
  ASSUME CoverInv, NEW p, NEW D, NEW s, NEW k, Shapes(p, D, s, k), Covered(D, s, k)
  PROVE  CoverInv'
<1>1. ASSUME NEW q \in live' PROVE Covered(Mapped(q)', sz'[q], stackSize'[q])
  <2>1. CASE q = p
    <3>1. Mapped(q)' = D /\ sz'[q] = s /\ stackSize'[q] = k
      BY <1>1, <2>1, Zenon DEF Shapes
    <3> QED BY <3>1, Zenon
  <2>2. CASE q # p
    <3>1. q \in live /\ Mapped(q)' = Mapped(q) /\ sz'[q] = sz[q] /\ stackSize'[q] = stackSize[q]
      BY <1>1, <2>2, Zenon DEF Shapes
    <3>2. Covered(Mapped(q), sz[q], stackSize[q])
      BY <3>1, Zenon DEF CoverInv
    <3> QED BY <3>1, <3>2, Zenon
  <2> QED BY <2>1, <2>2, Zenon
<1> QED BY <1>1, Zenon DEF CoverInv, Covered

\* The pages that copyuvm() walks are the text and the stack.
LEMMA WalkAll ==
  ASSUME Inv, NEW p \in live
  PROVE  CopyPages(p, CopyLen(p))
           = ((0 .. TextPages(p) - 1) \union (StackBottom(p) .. KERNBASE - 1)) \intersect Pages
<1>1. TypeInv /\ p \in Procs
  BY LiveShape, Zenon
<1>2. sz[p] \in Nat /\ stackSize[p] \in Nat
  BY <1>1, Shape, Zenon
<1>3. TextPages(p) \in Nat
  BY <1>2, RoundUp DEF TextPages
<1>4. CopyLen(p) - TextPages(p) = stackSize[p]
  BY <1>2, <1>3 DEF CopyLen, StackPages
<1>5. ASSUME NEW i \in Pages
      PROVE  i \in CopyPages(p, CopyLen(p))
               <=> (i \in 0 .. TextPages(p) - 1 \/ i \in StackBottom(p) .. KERNBASE - 1)
  <2>1. i \in Nat /\ i < KERNBASE
    BY Sizes DEF Pages
  <2>2. CopyLen(p) = TextPages(p) + stackSize[p]
    BY Zenon DEF CopyLen, StackPages
  <2> HIDE DEF CopyLen
  <2> QED BY <1>2, <1>3, <1>4, <2>1, <2>2, Sizes DEF CopyPages, StackBottom
<1>6. CopyPages(p, CopyLen(p)) \subseteq Pages
  BY Zenon DEF CopyPages
<1> QED BY <1>5, <1>6, Zenon

\* The size of a program of n whole pages.
LEMMA RoundExact ==
  ASSUME NEW n \in Nat PROVE n * PGSIZE \in Nat /\ PGROUNDUP(n * PGSIZE) = n
<1> DEFINE a == n * PGSIZE + PGSIZE - 1
           q == a \div PGSIZE
<1>1. n * PGSIZE \in Nat /\ a \in Nat
  BY Sizes
<1>2. q \in Nat /\ q * PGSIZE <= a /\ a < q * PGSIZE + PGSIZE
  <2> HIDE DEF a
  <2> QED BY <1>1, Sizes
<1> HIDE DEF q
<1>3. (q >= n + 1 => q * PGSIZE >= (n + 1) * PGSIZE)
  BY <1>2, Sizes
<1>4. (q <= n - 1 => q * PGSIZE <= (n - 1) * PGSIZE)
  BY <1>2, Sizes
<1>5. (n + 1) * PGSIZE = n * PGSIZE + PGSIZE /\ (n - 1) * PGSIZE = n * PGSIZE - PGSIZE
  BY Sizes
<1>6. q = n
  BY <1>1, <1>2, <1>3, <1>4, <1>5, Sizes
<1> QED BY <1>1, <1>6, Zenon DEF PGROUNDUP, q

\* Every effect keeps the pages covered.
LEMMA CoverStep ==
  ASSUME PageByPage, Inv, CoverInv, NEW p \in live, Effect(p) PROVE CoverInv'
<1>1. TypeInv /\ p \in Procs
  BY LiveShape, Zenon
<1>2. /\ sz[p] \in Nat /\ stackSize[p] \in Nat /\ Mapped(p) \subseteq Pages
      /\ Covered(Mapped(p), sz[p], stackSize[p])
  BY <1>1, Shape, Zenon DEF CoverInv
<1>3. CASE Shapes(p, Mapped(p), sz[p], stackSize[p])
  BY <1>2, <1>3, ShapesCover, Zenon
<1>4. ASSUME NEW n \in 1 .. MaxText, Shapes(p, ImagePages(n), n * PGSIZE, 1) PROVE CoverInv'
  <2>1. PGROUNDUP(n * PGSIZE) = n
    BY RoundExact
  <2>2. Covered(ImagePages(n), n * PGSIZE, 1)
    BY <2>1, Sizes DEF Covered, ImagePages
  <2> QED BY <1>4, <2>2, ShapesCover, Zenon
<1>5. ASSUME NEW n \in SbrkArgs, n > 0,
             Shapes(p, Mapped(p) \union Asked(p, n), sz[p] + n, stackSize[p])
      PROVE  CoverInv'
  <2>1. /\ PGROUNDUP(sz[p]) \in Nat /\ PGROUNDUP(sz[p] + n) \in Nat
        /\ PGROUNDUP(sz[p]) <= PGROUNDUP(sz[p] + n)
    BY <1>2, <1>5, Sizes, RoundUp
  <2>2. Covered(Mapped(p) \union Asked(p, n), sz[p] + n, stackSize[p])
    BY <1>2, <2>1 DEF Covered, Asked
  <2> QED BY <1>5, <2>2, ShapesCover, Zenon
<1>6. ASSUME NEW n \in SbrkArgs, Shapes(p, Mapped(p) \ Asked(p, n), sz[p], stackSize[p])
      PROVE  CoverInv'
  <2>1. Covered(Mapped(p) \ Asked(p, n), sz[p], stackSize[p])
    BY <1>2, Zenon DEF Covered
  <2> QED BY <1>6, <2>1, ShapesCover, Zenon
<1>7. ASSUME NEW n \in SbrkArgs, sz[p] + n >= MinSize,
             Shapes(p, Mapped(p) \ (PGROUNDUP(sz[p] + n) .. PGROUNDUP(sz[p]) - 1),
                    IF sz[p] + n = 0 THEN sz[p] ELSE sz[p] + n, stackSize[p])
      PROVE  CoverInv'
  <2> DEFINE a == PGROUNDUP(sz[p] + n)
             b == PGROUNDUP(sz[p])
  <2>1. a \in Nat /\ b \in Nat
    <3>1. sz[p] + n \in Nat
      BY <1>2, <1>7, Sizes
    <3> QED BY <1>2, <3>1, RoundUp
  <2>2. Covered(Mapped(p) \ (a .. b - 1), sz[p], stackSize[p])
    BY <1>2, Zenon DEF Covered
  <2>3. Covered(Mapped(p) \ (a .. b - 1), sz[p] + n, stackSize[p])
    <3> HIDE DEF a, b
    <3>1. Mapped(p) \subseteq (0 .. b - 1) \union (KERNBASE - stackSize[p] .. KERNBASE - 1)
      BY <1>2, Zenon DEF Covered, b
    <3>2. Mapped(p) \ (a .. b - 1)
            \subseteq (0 .. a - 1) \union (KERNBASE - stackSize[p] .. KERNBASE - 1)
      BY <2>1, <3>1
    <3> QED BY <3>2, Zenon DEF Covered, a
  <2> HIDE DEF a, b
  <2>4. Covered(Mapped(p) \ (a .. b - 1), IF sz[p] + n = 0 THEN sz[p] ELSE sz[p] + n, stackSize[p])
    BY <2>2, <2>3, Zenon
  <2> QED BY <1>7, <2>4, ShapesCover, Zenon DEF a, b
<1>8. ASSUME NEW i \in Pages, i < StackBottom(p), i >= StackBottom(p) - MaxJump,
             Shapes(p, Mapped(p) \union (i .. StackBottom(p) - 1), sz[p], stackSize[p] + 1)
      PROVE  CoverInv'
  <2>1. i .. StackBottom(p) - 1 = {StackBottom(p) - 1}
    BY <1>2, <1>8, Sizes DEF PageByPage, Pages, StackBottom
  <2>2. Covered(Mapped(p) \union {StackBottom(p) - 1}, sz[p], stackSize[p] + 1)
    BY <1>2, Sizes DEF Covered, StackBottom
  <2> QED BY <1>8, <2>1, <2>2, ShapesCover, Zenon
<1>9. ASSUME NEW q \in Procs, Shapes(q, CopyPages(p, CopyLen(p)), sz[p], stackSize[p])
      PROVE  CoverInv'
  <2>1. Covered(CopyPages(p, CopyLen(p)), sz[p], stackSize[p])
    BY WalkAll, Zenon DEF Covered, TextPages, StackBottom
  <2> QED BY <1>9, <2>1, ShapesCover, Zenon
<1> QED BY <1>3, <1>4, <1>5, <1>6, <1>7, <1>8, <1>9, Zenon DEF Effect

\* The pages of every process stay covered.
LEMMA CoverNext ==
  ASSUME PageByPage, Inv, CoverInv, [Next]_vars PROVE CoverInv'
<1>1. CASE UNCHANGED vars
  BY <1>1, Zenon DEF vars, CoverInv, Mapped, Covered
<1>2. CASE Next
  BY <1>2, RunEffect, CoverStep, Zenon DEF Next
<1> QED BY <1>1, <1>2, Zenon

\* The first process has one page of text.
LEMMA CoverInit == ASSUME Init PROVE CoverInv
<1>1. live = {First} /\ Mapped(First) = {0} /\ sz[First] = PGSIZE /\ stackSize[First] = 0
  BY Sizes, Zenon DEF Init, Mapped, Fresh
<1>2. PGROUNDUP(1 * PGSIZE) = 1 /\ 1 * PGSIZE = PGSIZE
  BY RoundExact, Sizes
<1> QED BY <1>1, <1>2, Sizes DEF CoverInv, Covered

\* The child of a process whose pages are covered is a copy of it.
LEMMA ForkStep ==
  ASSUME Inv, CoverInv, NEW p \in live, NEW q \in Procs, fork(p, q)
  PROVE  pt'[q] = pt[p] /\ sz'[q] = sz[p] /\ stackSize'[q] = stackSize[p]
<1> DEFINE all == CopyPages(p, CopyLen(p))
<1>1. TypeInv /\ p \in Procs
  BY LiveShape, Zenon
<1>2. Mapped(p) \subseteq Pages /\ pt[p] \in [Mapped(p) -> Contents]
  BY <1>1, Shape, Zenon
<1>3. all \subseteq Mapped(p)
  BY ForkEffect, Zenon
<1>4. Mapped(p) \subseteq all
  <2>1. Covered(Mapped(p), sz[p], stackSize[p])
    BY Zenon DEF CoverInv
  <2> QED BY <1>2, <2>1, WalkAll, Zenon DEF Covered, TextPages, StackBottom
<1>5. all = Mapped(p)
  BY <1>3, <1>4, Zenon
<1> HIDE DEF all
<1>6. Restrict(pt[p], all) = pt[p]
  BY <1>2, <1>5, Zenon DEF Restrict
<1>7. /\ pt' = [pt EXCEPT ![q] = Restrict(pt[p], all)]
      /\ sz' = [sz EXCEPT ![q] = sz[p]] /\ stackSize' = [stackSize EXCEPT ![q] = stackSize[p]]
  BY Zenon DEF fork, all
<1> QED BY <1>1, <1>6, <1>7, Zenon DEF TypeInv

\* If programs touch their stacks page by page, a child starts with the pages of
\* the process that forked, their contents, its size and its stack: copyuvm()
\* walks all that is mapped, however text, heap and stack have grown and shrunk.
THEOREM ChildIsCopy == ASSUME PageByPage PROVE Spec => ForkCopies
<1> DEFINE Copies == \A q \in live' \ live : \E p \in live :
                        pt'[q] = pt[p] /\ sz'[q] = sz[p] /\ stackSize'[q] = stackSize[p]
<1>1. Inv /\ CoverInv /\ [Next]_vars => [Copies]_vars
  <2> SUFFICES ASSUME Inv, CoverInv, Next PROVE Copies
    OBVIOUS
  <2>1. PICK p \in live : Run(p)
    BY Zenon DEF Next
  <2>2. live \subseteq Procs
    BY Zenon DEF Inv, TypeInv
  <2>3. CASE live' \subseteq live
    BY <2>3, Zenon
  <2>4. ASSUME NEW q \in Procs, fork(p, q) PROVE Copies
    <3>1. live' = live \union {q}
      BY <2>4, Zenon DEF fork
    <3> QED BY <2>4, <3>1, ForkStep, Zenon
  <2>5. live' \subseteq live \/ \E q \in Procs : fork(p, q)
    BY <2>1, Zenon DEF Run, exec, exec_fail, sbrk_grow, sbrk_shrink, sbrk_refused, pgfault,
       Write, fork_fail, freevm
  <2> QED BY <2>3, <2>4, <2>5, Zenon
<1>2. Init => Inv /\ CoverInv
  BY InitInv, CoverInit, Zenon
<1>3. Inv /\ CoverInv /\ [Next]_vars => Inv' /\ CoverInv'
  BY NextInv, CoverNext, Zenon
<1> QED BY <1>1, <1>2, <1>3, PTL DEF Spec, ForkCopies

-----------------------------------------------------------------------------
(* Calls that fail                                                         *)

\* No program shrinks itself to nothing.
NeverEmpty == MinSize >= 1

\* A size that sbrk() is asked for is refused, or it fits between the text and
\* the stack of the largest process that memory holds.
BelowStack ==
  \A n \in SbrkArgs :
    n > 0 => n >= KERNBASE * PGSIZE \/ NFRAMES + PGROUNDUP(n) <= KERNBASE

\* Text, heap and stack are mapped, and they do not meet.
Full(D, s, k) ==
  /\ (0 .. PGROUNDUP(s) - 1) \subseteq D
  /\ (KERNBASE - k .. KERNBASE - 1) \subseteq D
  /\ PGROUNDUP(s) <= KERNBASE - k

FullInv == \A p \in live : Full(Mapped(p), sz[p], stackSize[p])

\* A process has no more pages than there are frames.
LEMMA MappedBound ==
  ASSUME Inv, NEW p \in live
  PROVE  Cardinality(Mapped(p)) \in Nat /\ Cardinality(Mapped(p)) <= NFRAMES
<1>1. TypeInv /\ p \in Procs /\ free \in Nat /\ lost \in Nat
  BY LiveShape, Zenon
<1>2. /\ IsFiniteSet(Mapped(p)) /\ IsFiniteSet(tables[p])
      /\ Cardinality(Mapped(p)) \in Nat /\ Cardinality(tables[p]) \in Nat
  BY <1>1, Shape, Zenon
<1>3. Cardinality(Held(p)) = Cardinality(Mapped(p)) + Cardinality(tables[p]) + 1
  BY <1>2, FramesCount DEF Held
<1>4. Held(p) \subseteq InUse
  BY Split, Zenon
<1>5. IsFiniteSet(InUse) /\ free + lost + Cardinality(InUse) = NFRAMES
  BY Zenon DEF Inv, MemInv, MemoryConserved
<1>6. Cardinality(Held(p)) <= Cardinality(InUse) /\ Cardinality(InUse) \in Nat
  BY <1>4, <1>5, Removed, Zenon
<1> QED BY <1>1, <1>2, <1>3, <1>5, <1>6

\* So text, heap and stack together take no more.
LEMMA Room ==
  ASSUME Inv, NEW p \in live, Full(Mapped(p), sz[p], stackSize[p])
  PROVE  TextPages(p) \in Nat /\ TextPages(p) + stackSize[p] <= NFRAMES
<1> DEFINE t == TextPages(p)
           b == KERNBASE - stackSize[p]
           A == 0 .. t - 1
           B == b .. KERNBASE - 1
<1>1. TypeInv /\ p \in Procs
  BY LiveShape, Zenon
<1>2. /\ IsFiniteSet(Mapped(p)) /\ Cardinality(Mapped(p)) \in Nat
      /\ Cardinality(Mapped(p)) <= NFRAMES
      /\ sz[p] \in Nat /\ stackSize[p] \in Nat
  BY <1>1, Shape, MappedBound, Zenon
<1>3. t \in Nat
  BY <1>2, RoundUp DEF TextPages
<1>4. A \union B \subseteq Mapped(p) /\ t <= b
  BY Zenon DEF Full, TextPages
<1> HIDE DEF t
<1>5. /\ IsFiniteSet(A) /\ Cardinality(A) = t
      /\ IsFiniteSet(B) /\ Cardinality(B) = stackSize[p]
  <2>1. IsFiniteSet(A) /\ Cardinality(A) = IF 0 > t - 1 THEN 0 ELSE t - 1 - 0 + 1
    BY <1>3, FS_Interval
  <2>2. b \in Int /\ KERNBASE - 1 \in Int
    BY <1>2, Sizes
  <2>3. /\ IsFiniteSet(B)
        /\ Cardinality(B) = IF b > KERNBASE - 1 THEN 0 ELSE KERNBASE - 1 - b + 1
    <3> HIDE DEF b
    <3> QED BY <2>2, FS_Interval, Zenon
  <2> QED BY <1>2, <1>3, <2>1, <2>3, Sizes
<1>6. A \intersect B = {}
  BY <1>2, <1>3, <1>4, Sizes
<1> HIDE DEF A, B
<1>7. Cardinality(A \union B) = t + stackSize[p]
  BY <1>5, <1>6, Disjoint, Zenon
<1>8. Cardinality(A \union B) <= Cardinality(Mapped(p))
  BY <1>2, <1>4, Removed, Zenon
<1> QED BY <1>2, <1>3, <1>7, <1>8, Sizes DEF t

\* Rounding a sum up gives no more than rounding its terms up.
LEMMA RoundSum ==
  ASSUME NEW a \in Nat, NEW b \in Nat
  PROVE  /\ PGROUNDUP(a) \in Nat /\ PGROUNDUP(b) \in Nat /\ PGROUNDUP(a + b) \in Nat
         /\ PGROUNDUP(a + b) <= PGROUNDUP(a) + PGROUNDUP(b)
<1> DEFINE x == PGROUNDUP(a)
           y == PGROUNDUP(b)
           z == PGROUNDUP(a + b)
<1>1. /\ x \in Nat /\ a <= x * PGSIZE
      /\ y \in Nat /\ b <= y * PGSIZE
  BY Sizes DEF PGROUNDUP
<1>2. z \in Nat /\ z * PGSIZE <= a + b + PGSIZE - 1
  BY Sizes DEF PGROUNDUP
<1> HIDE DEF x, y, z
<1>3. (x + y) * PGSIZE = x * PGSIZE + y * PGSIZE
  BY <1>1, Sizes
<1>4. z >= x + y + 1 => z * PGSIZE >= (x + y + 1) * PGSIZE
  BY <1>1, <1>2, Sizes
<1>5. (x + y + 1) * PGSIZE = (x + y) * PGSIZE + PGSIZE
  BY <1>1, Sizes
<1>6. z <= x + y
  BY <1>1, <1>2, <1>3, <1>4, <1>5, Sizes
<1> QED BY <1>1, <1>2, <1>6, Zenon DEF x, y, z

\* The pages that a growing process asks for end below its stack.
LEMMA AskedBelow ==
  ASSUME BelowStack, Inv, NEW p \in live, Full(Mapped(p), sz[p], stackSize[p]),
         NEW n \in SbrkArgs, n > 0, sz[p] + n < KERNBASE * PGSIZE
  PROVE  /\ PGROUNDUP(sz[p]) \in Nat /\ PGROUNDUP(sz[p] + n) \in Nat
         /\ PGROUNDUP(sz[p]) <= PGROUNDUP(sz[p] + n)
         /\ PGROUNDUP(sz[p] + n) <= StackBottom(p)
<1>1. TypeInv /\ p \in Procs
  BY LiveShape, Zenon
<1>2. sz[p] \in Nat /\ stackSize[p] \in Nat /\ n \in Nat /\ KERNBASE * PGSIZE \in Nat
  BY <1>1, Shape, Sizes
<1>3. NFRAMES + PGROUNDUP(n) <= KERNBASE
  BY <1>2 DEF BelowStack
<1>4. PGROUNDUP(sz[p]) + stackSize[p] <= NFRAMES
  BY Room, Zenon DEF TextPages
<1>5. /\ PGROUNDUP(sz[p]) \in Nat /\ PGROUNDUP(n) \in Nat /\ PGROUNDUP(sz[p] + n) \in Nat
      /\ PGROUNDUP(sz[p] + n) <= PGROUNDUP(sz[p]) + PGROUNDUP(n)
  BY <1>2, RoundSum, Zenon
<1>6. PGROUNDUP(sz[p]) <= PGROUNDUP(sz[p] + n)
  BY <1>2, RoundUp
<1> QED BY <1>2, <1>3, <1>4, <1>5, <1>6, Sizes DEF StackBottom

\* A step that gives p a full shape keeps the processes full.
LEMMA ShapesFull ==
  ASSUME FullInv, NEW p, NEW D, NEW s, NEW k, Shapes(p, D, s, k), Full(D, s, k)
  PROVE  FullInv'
<1>1. ASSUME NEW q \in live' PROVE Full(Mapped(q)', sz'[q], stackSize'[q])
  <2>1. CASE q = p
    <3>1. Mapped(q)' = D /\ sz'[q] = s /\ stackSize'[q] = k
      BY <1>1, <2>1, Zenon DEF Shapes
    <3> QED BY <3>1, Zenon
  <2>2. CASE q # p
    <3>1. q \in live /\ Mapped(q)' = Mapped(q) /\ sz'[q] = sz[q] /\ stackSize'[q] = stackSize[q]
      BY <1>1, <2>2, Zenon DEF Shapes
    <3>2. Full(Mapped(q), sz[q], stackSize[q])
      BY <3>1, Zenon DEF FullInv
    <3> QED BY <3>1, <3>2, Zenon
  <2> QED BY <2>1, <2>2, Zenon
<1> QED BY <1>1, Zenon DEF FullInv, Full

\* Every effect keeps the processes full.
LEMMA FullStep ==
  ASSUME PageByPage, NeverEmpty, BelowStack, Inv, FullInv, NEW p \in live, Effect(p)
  PROVE  FullInv'
<1>1. TypeInv /\ p \in Procs
  BY LiveShape, Zenon
<1>2. /\ sz[p] \in Nat /\ stackSize[p] \in Nat /\ Mapped(p) \subseteq Pages
      /\ Full(Mapped(p), sz[p], stackSize[p])
  BY <1>1, Shape, Zenon DEF FullInv
<1>3. CASE Shapes(p, Mapped(p), sz[p], stackSize[p])
  BY <1>2, <1>3, ShapesFull, Zenon
<1>4. ASSUME NEW n \in 1 .. MaxText, Shapes(p, ImagePages(n), n * PGSIZE, 1) PROVE FullInv'
  <2>1. PGROUNDUP(n * PGSIZE) = n
    BY RoundExact
  <2>2. Full(ImagePages(n), n * PGSIZE, 1)
    BY <2>1, Sizes DEF Full, ImagePages
  <2> QED BY <1>4, <2>2, ShapesFull, Zenon
<1>5. ASSUME NEW n \in SbrkArgs, n > 0, sz[p] + n < KERNBASE * PGSIZE
      PROVE  /\ Full(Mapped(p) \union Asked(p, n), sz[p] + n, stackSize[p])
             /\ Full(Mapped(p) \ Asked(p, n), sz[p], stackSize[p])
  <2> DEFINE lo == PGROUNDUP(sz[p])
             hi == PGROUNDUP(sz[p] + n)
             b == KERNBASE - stackSize[p]
  <2>1. lo \in Nat /\ hi \in Nat /\ lo <= hi /\ hi <= b /\ b \in Int
    BY <1>2, <1>5, AskedBelow, Sizes DEF StackBottom
  <2>2. /\ (0 .. lo - 1) \subseteq Mapped(p) /\ (b .. KERNBASE - 1) \subseteq Mapped(p)
        /\ lo <= b
    BY <1>2, Zenon DEF Full
  <2> HIDE DEF lo, hi, b
  <2>3. /\ (0 .. hi - 1) \subseteq Mapped(p) \union (lo .. hi - 1)
        /\ (b .. KERNBASE - 1) \subseteq Mapped(p) \union (lo .. hi - 1)
    BY <2>1, <2>2
  <2>4. /\ (0 .. lo - 1) \subseteq Mapped(p) \ (lo .. hi - 1)
        /\ (b .. KERNBASE - 1) \subseteq Mapped(p) \ (lo .. hi - 1)
    BY <2>1, <2>2, Sizes
  <2> QED BY <2>1, <2>2, <2>3, <2>4, Zenon DEF Full, Asked, lo, hi, b
<1>6. ASSUME NEW n \in SbrkArgs, sz[p] + n >= MinSize, n < 0,
             Shapes(p, Mapped(p) \ (PGROUNDUP(sz[p] + n) .. PGROUNDUP(sz[p]) - 1),
                    IF sz[p] + n = 0 THEN sz[p] ELSE sz[p] + n, stackSize[p])
      PROVE  FullInv'
  <2> DEFINE a == PGROUNDUP(sz[p] + n)
             c == PGROUNDUP(sz[p])
             b == KERNBASE - stackSize[p]
  <2>1. sz[p] + n \in Nat /\ sz[p] + n <= sz[p] /\ sz[p] + n # 0
    BY <1>2, <1>6, Sizes DEF NeverEmpty
  <2>2. a \in Nat /\ c \in Nat /\ a <= c /\ b \in Int
    BY <1>2, <2>1, RoundUp, Sizes
  <2>3. /\ (0 .. c - 1) \subseteq Mapped(p) /\ (b .. KERNBASE - 1) \subseteq Mapped(p) /\ c <= b
    BY <1>2, Zenon DEF Full
  <2> HIDE DEF a, b, c
  <2>4. /\ (0 .. a - 1) \subseteq Mapped(p) \ (a .. c - 1) /\ a <= b
        /\ (b .. KERNBASE - 1) \subseteq Mapped(p) \ (a .. c - 1)
    BY <2>2, <2>3, Sizes
  <2>5. Full(Mapped(p) \ (a .. c - 1), sz[p] + n, stackSize[p])
    BY <2>4, Zenon DEF Full, a, b
  <2> QED BY <1>6, <2>1, <2>5, ShapesFull, Zenon DEF a, c
<1>7. ASSUME NEW i \in Pages, i \notin Mapped(p), i < StackBottom(p),
             i >= StackBottom(p) - MaxJump,
             Shapes(p, Mapped(p) \union (i .. StackBottom(p) - 1), sz[p], stackSize[p] + 1)
      PROVE  FullInv'
  <2> DEFINE c == PGROUNDUP(sz[p])
             b == KERNBASE - stackSize[p]
  <2>1. i \in Nat /\ i = b - 1 /\ b \in Nat /\ i .. StackBottom(p) - 1 = {b - 1}
    BY <1>2, <1>7, Sizes DEF PageByPage, Pages, StackBottom
  <2>2. /\ (0 .. c - 1) \subseteq Mapped(p) /\ (b .. KERNBASE - 1) \subseteq Mapped(p) /\ c <= b
    BY <1>2, Zenon DEF Full
  <2>3. c \in Nat
    BY <1>2, RoundUp
  <2> HIDE DEF c
  <2>4. c <= b - 1
    BY <1>7, <2>1, <2>2, <2>3
  <2>5. KERNBASE - (stackSize[p] + 1) = b - 1
    BY <1>2, Sizes
  <2> HIDE DEF b
  <2>6. /\ (0 .. c - 1) \subseteq Mapped(p) \union {b - 1}
        /\ (b - 1 .. KERNBASE - 1) \subseteq Mapped(p) \union {b - 1}
    BY <2>1, <2>2, Sizes
  <2>7. Full(Mapped(p) \union {b - 1}, sz[p], stackSize[p] + 1)
    BY <2>4, <2>5, <2>6, Zenon DEF Full, c
  <2> QED BY <1>7, <2>1, <2>7, ShapesFull, Zenon
<1>8. ASSUME NEW q \in Procs, Shapes(q, CopyPages(p, CopyLen(p)), sz[p], stackSize[p])
      PROVE  FullInv'
  <2>1. Full(CopyPages(p, CopyLen(p)), sz[p], stackSize[p])
    BY <1>2, WalkAll, Zenon DEF Full, TextPages, StackBottom
  <2> QED BY <1>8, <2>1, ShapesFull, Zenon
<1>9. ASSUME NEW n \in SbrkArgs, n > 0, sz[p] + n < KERNBASE * PGSIZE,
             \/ Shapes(p, Mapped(p) \union Asked(p, n), sz[p] + n, stackSize[p])
             \/ Shapes(p, Mapped(p) \ Asked(p, n), sz[p], stackSize[p])
      PROVE  FullInv'
  BY <1>5, <1>9, ShapesFull, Zenon
<1> QED BY <1>3, <1>4, <1>6, <1>7, <1>8, <1>9, Zenon DEF Effect

\* The processes stay full.
LEMMA FullNext ==
  ASSUME PageByPage, NeverEmpty, BelowStack, Inv, FullInv, [Next]_vars PROVE FullInv'
<1>1. CASE UNCHANGED vars
  BY <1>1, Zenon DEF vars, FullInv, Mapped, Full
<1>2. CASE Next
  BY <1>2, RunEffect, FullStep, Zenon DEF Next
<1> QED BY <1>1, <1>2, Zenon

\* The first process starts full.
LEMMA FullInit == ASSUME Init PROVE FullInv
<1>1. live = {First} /\ Mapped(First) = {0} /\ sz[First] = PGSIZE /\ stackSize[First] = 0
  BY Sizes, Zenon DEF Init, Mapped, Fresh
<1>2. PGROUNDUP(1 * PGSIZE) = 1 /\ 1 * PGSIZE = PGSIZE
  BY RoundExact, Sizes
<1> QED BY <1>1, <1>2, Sizes DEF FullInv, Full

\* An allocuvm() that fails below the stack removes what it mapped and no more.
LEMMA GrowFails ==
  ASSUME BelowStack, Inv, CoverInv, FullInv, NEW p \in live, NEW n \in SbrkArgs,
         sbrk_grow(p, n), failed'
  PROVE  UNCHANGED <<live, pt, sz, stackSize>>
<1> DEFINE lo == PGROUNDUP(sz[p])
           hi == PGROUNDUP(sz[p] + n)
           new == lo .. AllocStop(p, lo, hi) - 1
           kept == (Mapped(p) \union new) \ Undone(p, lo, hi)
<1>1. TypeInv /\ p \in Procs
  BY LiveShape, Zenon
<1>2. /\ n > 0 /\ sz[p] + n < KERNBASE * PGSIZE /\ live' = live
      /\ \/ UNCHANGED <<pt, sz, stackSize>>
         \/ allocuvm_fail(p, lo, hi) /\ UNCHANGED <<sz, stackSize>>
  BY Zenon DEF sbrk_grow, Panic
<1>3. CASE UNCHANGED <<pt, sz, stackSize>>
  BY <1>2, <1>3, Zenon
<1>4. CASE allocuvm_fail(p, lo, hi) /\ UNCHANGED <<sz, stackSize>>
  <2>1. pt' = [pt EXCEPT ![p] = Restrict(With(p, new), kept)]
    BY <1>4, Zenon DEF allocuvm_fail
  <2>2. /\ lo \in Nat /\ hi \in Nat /\ lo <= hi /\ hi <= StackBottom(p)
        /\ Covered(Mapped(p), sz[p], stackSize[p])
    BY <1>2, AskedBelow, Zenon DEF FullInv, CoverInv
  <2>3. /\ Mapped(p) \subseteq Pages /\ pt[p] \in [Mapped(p) -> Contents]
        /\ stackSize[p] \in Nat
    BY <1>1, Shape, Zenon
  <2>4. Mapped(p) \intersect (lo .. hi - 1) = {}
    <3>1. Mapped(p) \subseteq (0 .. lo - 1) \union (StackBottom(p) .. KERNBASE - 1)
      BY <2>2, Zenon DEF Covered, StackBottom
    <3>2. StackBottom(p) \in Int
      BY <2>3, Sizes DEF StackBottom
    <3> HIDE DEF lo, hi
    <3> QED BY <2>2, <3>1, <3>2, Sizes
  <2>5. new \subseteq lo .. hi - 1
    <3>1. AllocStop(p, lo, hi) \in lo .. hi
      BY <1>1, <2>2, AllocStops, Zenon
    <3> QED BY <2>2, <3>1
  <2>6. Undone(p, lo, hi) = (lo .. hi - 1) \intersect (Mapped(p) \union new)
    BY Zenon DEF Undone
  <2> HIDE DEF lo, hi, new
  <2>7. kept = Mapped(p) /\ Mapped(p) \intersect new = {}
    BY <2>4, <2>5, <2>6, Zenon
  <2>8. Restrict(With(p, new), Mapped(p)) = pt[p]
    <3>1. \A i \in Mapped(p) : With(p, new)[i] = pt[p][i]
      BY <2>7, Zenon DEF With
    <3> QED BY <2>3, <3>1, Zenon DEF Restrict
  <2>9. pt' = pt
    BY <1>1, <2>1, <2>7, <2>8, Zenon DEF TypeInv
  <2> QED BY <1>2, <1>4, <2>9, Zenon
<1> QED BY <1>2, <1>3, <1>4, Zenon

\* If programs touch their stacks page by page, keep some memory and ask sbrk()
\* for no size that reaches into a stack, then a call that returns an error has
\* changed neither memory nor sizes: what allocuvm() mapped before it failed is
\* unmapped, and nothing else is.
THEOREM FailureKeeps ==
  ASSUME PageByPage, NeverEmpty, BelowStack PROVE Spec => FailedCallKeeps
<1> DEFINE Keeps == failed' => UNCHANGED <<live, pt, sz, stackSize>>
           All == Inv /\ CoverInv /\ FullInv
<1>1. All /\ [Next]_vars => [Keeps]_vars
  <2> SUFFICES ASSUME Inv, CoverInv, FullInv, Next, failed'
               PROVE  UNCHANGED <<live, pt, sz, stackSize>>
    OBVIOUS
  <2>1. PICK p \in live : Run(p)
    BY Zenon DEF Next
  <2>2. sz[p] \in Nat
    BY Zenon DEF Inv, TypeInv
  <2>3. ASSUME NEW n \in SbrkArgs, sbrk_shrink(p, n) PROVE FALSE
    <3>1. n \in Int /\ sz[p] + n >= MinSize /\ failed' = (sz[p] + n = 0)
      BY <2>3, Sizes, Zenon DEF sbrk_shrink
    <3>2. ~(sz[p] + n = 0)
      BY <2>2, <3>1, Sizes DEF NeverEmpty
    <3> QED BY <3>1, <3>2, Zenon
  <2>4. ASSUME NEW n \in SbrkArgs, sbrk_grow(p, n)
        PROVE  UNCHANGED <<live, pt, sz, stackSize>>
    BY <2>4, GrowFails, Zenon
  <2>5. \/ UNCHANGED <<live, pt, sz, stackSize>>
        \/ \E n \in SbrkArgs : sbrk_grow(p, n) \/ sbrk_shrink(p, n)
    BY <2>1, Zenon DEF Run, exec, exec_fail, sbrk_refused, pgfault, Write, fork, fork_fail,
       freevm, Panic
  <2> QED BY <2>3, <2>4, <2>5, Zenon
<1>2. Init => All
  BY InitInv, CoverInit, FullInit, Zenon
<1>3. All /\ [Next]_vars => All'
  BY NextInv, CoverNext, FullNext, Zenon
<1> QED BY <1>1, <1>2, <1>3, PTL DEF Spec, FailedCallKeeps
=============================================================================
