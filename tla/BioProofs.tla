------------------------------ MODULE BioProofs ------------------------------
(***************************************************************************)
(* Proofs about the buffer cache, for any number of processes, buffers and *)
(* blocks: that a process which uses a buffer has the block it asked for,  *)
(* with its newest contents, and that whoever sleeps is in a queue.        *)
(***************************************************************************)
EXTENDS Bio, Integers, FiniteSetTheorems, SequenceTheorems, WellFoundedInduction,
        TLAPS

-----------------------------------------------------------------------------
(* The invariant                                                           *)

Labels == {"idle", "slock", "slock_asleep", "iderw", "io_asleep", "io_woken", "use",
           "brelse", "panic"}

TypeInv ==
  /\ disk \in [Blocks -> Vals] /\ cur \in [Blocks -> Vals]
  /\ blk \in [Bufs -> Blocks \union {None}]
  /\ valid \in [Bufs -> BOOLEAN] /\ dirty \in [Bufs -> BOOLEAN]
  /\ refcnt \in [Bufs -> Nat]
  /\ data \in [Bufs -> Vals]
  /\ slock \in [Bufs -> Procs \union {None}]
  /\ idequeue \in Seq(Bufs)
  /\ pc \in [Procs -> Labels]
  /\ want \in [Procs -> Blocks \union {None}]
  /\ bp \in [Procs -> Bufs \union {None}]
  /\ errors \in Nat

\* The list of bcache.head has every buffer.
ListInv == list \in Seq(Bufs) /\ Range(list) = Bufs

\* The processes that bget() has given buffer b.
Users(b) == {p \in Procs : bp[p] = b}

\* b->refcnt counts them, and the buffer stays with the block they asked for.
\* No block has two buffers.
RefInv ==
  /\ \A b \in Bufs : refcnt[b] = Cardinality(Users(b))
  /\ \A p \in Procs : pc[p] = "idle" => bp[p] = None
  /\ \A p \in Procs : pc[p] \notin {"idle", "panic"} =>
       bp[p] \in Bufs /\ want[p] \in Blocks /\ blk[bp[p]] = want[p]
  /\ \A b, c \in Bufs : blk[b] = blk[c] /\ blk[b] # None => b = c

Owners == {"iderw", "io_asleep", "io_woken", "use"}

\* b->lock is held from bread() to brelse().
LockInv ==
  /\ \A p \in Procs : pc[p] \in Owners => slock[bp[p]] = p
  /\ \A p \in Procs : pc[p] = "slock_asleep" => slock[bp[p]] # None
  /\ \A p \in Procs : pc[p] \in {"io_woken", "use"} => valid[bp[p]]
  /\ \A p \in Procs : pc[p] = "io_woken" => ~dirty[bp[p]]

\* A request stays in the queue, once and unchanged, while the process that made
\* it sleeps, and the disk executes the first.
QueueInv ==
  /\ \A j \in 1 .. Len(idequeue) :
       \E p \in Procs : pc[p] = "io_asleep" /\ bp[p] = idequeue[j]
  /\ \A j, k \in 1 .. Len(idequeue) : idequeue[j] = idequeue[k] => j = k
  /\ \A p \in Procs : pc[p] = "io_asleep" =>
       \E j \in 1 .. Len(idequeue) : idequeue[j] = bp[p]
  /\ active = IF idequeue = <<>> THEN None ELSE idestart(idequeue[1])

\* As long as the disk reported no error: a buffer that is valid has the block's
\* newest contents, and the disk has them unless a dirty buffer does.
FreshInv ==
  /\ \A b \in Bufs : dirty[b] => valid[b] /\ blk[b] # None
  /\ errors = 0 =>
       \A b \in Bufs : valid[b] /\ blk[b] # None => data[b] = cur[blk[b]]
  /\ errors = 0 => \A k \in Blocks :
       disk[k] = cur[k] \/ \E b \in Bufs : blk[b] = k /\ dirty[b]

Inv == TypeInv /\ ListInv /\ RefInv /\ LockInv /\ QueueInv /\ FreshInv

-----------------------------------------------------------------------------
(* What the steps do                                                       *)

\* A nonempty set of numbers has a least element.
LEMMA NatMin ==
  ASSUME NEW T \in SUBSET Nat, T # {} PROVE \E m \in T : \A k \in T : m <= k
<1>1. IsWellFoundedOn(OpToRel(<, Nat), Nat)
  BY NatLessThanWellFounded, Zenon
<1>2. PICK m \in T : \A k \in T : ~(<<k, m>> \in OpToRel(<, Nat))
  BY <1>1, WFMin, Zenon
<1>3. \A k \in T : ~(k < m)
  BY <1>2, Zenon DEF OpToRel
<1> QED BY <1>3

\* bget() of block k finds it in b.
Hit(p, k, b) ==
  /\ pc[p] = "idle" /\ blk[b] = k
  /\ refcnt' = [refcnt EXCEPT ![b] = @ + 1]
  /\ want' = [want EXCEPT ![p] = k] /\ bp' = [bp EXCEPT ![p] = b]
  /\ pc' = [pc EXCEPT ![p] = "slock"]
  /\ UNCHANGED <<blk, valid, dirty, data, list, slock, idevars, cur, errors>>

\* bget() of block k, which no buffer has, takes b, which nobody uses.
Recycle(p, k, b) ==
  /\ pc[p] = "idle" /\ \A c \in Bufs : blk[c] # k
  /\ refcnt[b] = 0 /\ ~dirty[b]
  /\ blk' = [blk EXCEPT ![b] = k]
  /\ valid' = [valid EXCEPT ![b] = FALSE] /\ dirty' = [dirty EXCEPT ![b] = FALSE]
  /\ refcnt' = [refcnt EXCEPT ![b] = 1]
  /\ want' = [want EXCEPT ![p] = k] /\ bp' = [bp EXCEPT ![p] = b]
  /\ pc' = [pc EXCEPT ![p] = "slock"]
  /\ UNCHANGED <<data, list, slock, idevars, cur, errors>>

\* bget() finds every buffer in use.
NoBuffers(p, k) ==
  /\ pc[p] = "idle"
  /\ want' = [want EXCEPT ![p] = k]
  /\ pc' = [pc EXCEPT ![p] = "panic"]
  /\ UNCHANGED <<blk, valid, dirty, refcnt, bp, data, list, slock, idevars, cur,
        errors>>

\* The scan of the list from its end finds an unused buffer if there is one.
LEMMA LastUnused ==
  ASSUME ListInv, NEW c \in Bufs, Unused(c)
  PROVE  \E j \in DOMAIN list :
           Unused(list[j]) /\ \A h \in j + 1 .. Len(list) : ~Unused(list[h])
<1> DEFINE n == Len(list)
           T == {k \in Nat : k < n /\ Unused(list[n - k])}
<1>1. /\ n \in Nat
      /\ DOMAIN list = 1 .. n
  BY LenProperties DEF ListInv
<1>2. PICK j \in 1 .. n : list[j] = c
  BY <1>1 DEF ListInv, Range
<1> HIDE DEF n
<1>3. n - j \in Nat /\ n - (n - j) = j
  BY <1>1, <1>2
<1>4. n - j \in T
  BY <1>1, <1>2, <1>3
<1> HIDE DEF T
<1>5. T \in SUBSET Nat /\ T # {}
  BY <1>4 DEF T
<1>6. PICK m \in T : \A k \in T : m <= k
  BY <1>5, NatMin
<1>7. m \in Nat /\ m < n /\ Unused(list[n - m])
  BY <1>6 DEF T
<1>8. ASSUME NEW h \in (n - m) + 1 .. n PROVE ~Unused(list[h])
  <2>1. n - h \in Nat /\ n - h < m /\ n - h < n /\ n - (n - h) = h
    BY <1>1, <1>7, <1>8
  <2> QED BY <2>1, <1>6, <1>7 DEF T
<1>9. n - m \in 1 .. n
  BY <1>1, <1>7
<1> QED BY <1>1, <1>7, <1>8, <1>9 DEF n

\* bget() of a block that is cached is Hit.
LEMMA HitCase ==
  ASSUME NEW p \in Procs, NEW k \in Blocks, bget_hit(p, k)
  PROVE  \E b \in Bufs : Hit(p, k, b)
<1> DEFINE b == CHOOSE c \in Bufs : blk[c] = k
<1>1. b \in Bufs /\ blk[b] = k
  BY DEF bget_hit, Cached
<1> HIDE DEF b
<1>2. Hit(p, k, b)
  BY <1>1 DEF bget_hit, Hit, Goto, b
<1> QED BY <1>1, <1>2

\* bget() of a block that is not cached is Recycle or panics.
LEMMA RecycleCase ==
  ASSUME ListInv, NEW p \in Procs, NEW k \in Blocks, bget_recycle(p, k)
  PROVE  NoBuffers(p, k) \/ \E b \in Bufs : Recycle(p, k, b)
<1>1. CASE ~\E c \in Bufs : Unused(c)
  BY <1>1 DEF bget_recycle, NoBuffers, Goto
<1>2. ASSUME NEW c \in Bufs, Unused(c) PROVE \E b \in Bufs : Recycle(p, k, b)
  <2> DEFINE j == CHOOSE j \in DOMAIN list :
                    /\ Unused(list[j])
                    /\ \A h \in j + 1 .. Len(list) : ~Unused(list[h])
             b == list[j]
  <2>1. j \in DOMAIN list /\ Unused(list[j])
    BY <1>2, LastUnused
  <2>2. b \in Bufs
    BY <2>1 DEF ListInv, Range
  <2>3. bget_recycle(p, k) => 
          /\ pc[p] = "idle" /\ ~Cached(k)
          /\ blk' = [blk EXCEPT ![b] = k]
          /\ valid' = Flags(b) /\ dirty' = [dirty EXCEPT ![b] = FALSE]
          /\ refcnt' = [refcnt EXCEPT ![b] = 1]
          /\ bp' = [bp EXCEPT ![p] = b]
          /\ Goto(p, "slock")
          /\ want' = [want EXCEPT ![p] = k]
          /\ UNCHANGED <<data, list, slock, idevars, cur, errors>>
    BY <1>2, Zenon DEF bget_recycle
  <2> HIDE DEF j
  <2>4. Recycle(p, k, b)
    BY <2>1, <2>3 DEF Recycle, Goto, Flags, Unused, Cached
  <2> QED BY <2>2, <2>4
<1> QED BY <1>1, <1>2

\* The interrupt is for the first request of the queue, the owner of which
\* sleeps, and its command is the one of that buffer.
LEMMA Interrupt ==
  ASSUME TypeInv, QueueInv, RefInv, ideintr
  PROVE  /\ idequeue # <<>> /\ idequeue[1] \in Bufs
         /\ blk[idequeue[1]] \in Blocks
         /\ active = idestart(idequeue[1])
         /\ \E p \in Procs : pc[p] = "io_asleep" /\ bp[p] = idequeue[1]
         /\ Len(idequeue) \in Nat \ {0} /\ Len(idequeue') = Len(idequeue) - 1
         /\ idequeue' \in Seq(Bufs)
         /\ \A j \in 1 .. Len(idequeue') : idequeue'[j] = idequeue[j + 1]
         /\ \A j \in 1 .. Len(idequeue) : idequeue[j] \in Bufs
<1>1. idequeue # <<>> /\ idequeue' = Tail(idequeue)
  BY DEF ideintr, QueueInv
<1>2. idequeue \in Seq(Bufs)
  BY DEF TypeInv
<1>3. Len(idequeue) \in Nat \ {0}
  BY <1>1, <1>2, EmptySeq
<1>4. \A j \in 1 .. Len(idequeue) : idequeue[j] \in Bufs
  BY <1>2, ElementOfSeq
<1>5. active = idestart(idequeue[1])
  BY <1>1 DEF QueueInv
<1>6. /\ idequeue' \in Seq(Bufs) /\ Len(idequeue') = Len(idequeue) - 1
      /\ \A j \in 1 .. Len(idequeue') : idequeue'[j] = idequeue[j + 1]
  BY <1>1, <1>2, HeadTailProperties
<1>7. PICK p \in Procs : pc[p] = "io_asleep" /\ bp[p] = idequeue[1]
  BY <1>3 DEF QueueInv
<1>8. blk[idequeue[1]] \in Blocks
  BY <1>7 DEF RefInv
<1>9. idequeue[1] \in Bufs
  BY <1>3, <1>4
<1> QED BY <1>1, <1>3, <1>4, <1>5, <1>6, <1>7, <1>8, <1>9

\* What idestart() tells the disk: to write a dirty buffer, to read any other.
LEMMA Command ==
  ASSUME TypeInv, NEW b \in Bufs, blk[b] \in Blocks
  PROVE  /\ idestart(b) # None
         /\ idestart(b)[1] = blk[b]
         /\ (idestart(b)[2] # None) <=> dirty[b]
         /\ dirty[b] => idestart(b)[2] = data[b]
<1>1. data[b] \in Vals /\ None \notin Vals
  BY ConstantsAssumption DEF TypeInv
<1>2. idestart(b) \in Blocks \X (Vals \union {None})
  BY <1>1 DEF idestart
<1>3. idestart(b) # None
  BY <1>2, ConstantsAssumption
<1>4. /\ idestart(b)[1] = blk[b]
      /\ idestart(b)[2] = IF dirty[b] THEN data[b] ELSE None
  BY Zenon DEF idestart
<1> QED BY <1>1, <1>3, <1>4

-----------------------------------------------------------------------------
(* Every step keeps the invariant                                          *)

\* The types.
LEMMA TypeStep == Inv /\ [Next]_vars => TypeInv'
<1> SUFFICES ASSUME Inv, [Next]_vars PROVE TypeInv'
  OBVIOUS
<1>a. TypeInv /\ ListInv /\ RefInv /\ QueueInv
  BY DEF Inv
<1>b. \A p \in Procs : pc[p] \notin {"idle", "panic"} =>
        bp[p] \in Bufs /\ want[p] \in Blocks /\ blk[bp[p]] = want[p]
  BY <1>a DEF RefInv
<1>c. TypeInv
  BY <1>a
<1> USE DEF TypeInv, Labels, bufvars, idevars, Goto
<1>1. ASSUME NEW p \in Procs, NEW k \in Blocks, NEW b \in Bufs, Hit(p, k, b)
      PROVE  TypeInv'
  BY <1>c, <1>1 DEF Hit
<1>2. ASSUME NEW p \in Procs, NEW k \in Blocks, NEW b \in Bufs, Recycle(p, k, b)
      PROVE  TypeInv'
  BY <1>c, <1>2 DEF Recycle
<1>3. ASSUME NEW p \in Procs, NEW k \in Blocks, NoBuffers(p, k) PROVE TypeInv'
  BY <1>c, <1>3 DEF NoBuffers
<1>4. ASSUME NEW p \in Procs, acquiresleep(p) PROVE TypeInv'
  <2>1. bp[p] \in Bufs
    BY <1>b, <1>4 DEF acquiresleep
  <2>2. slock' \in [Bufs -> Procs \union {None}]
    BY <1>c, <1>4, <2>1, Zenon DEF acquiresleep
  <2>3. pc' \in [Procs -> Labels]
    BY <1>c, <1>4, Zenon DEF acquiresleep
  <2> QED BY <1>c, <1>4, <2>2, <2>3 DEF acquiresleep
<1>5. ASSUME NEW p \in Procs, NEW v \in Vals, bwrite(p, v) \/ log_write(p, v)
      PROVE  TypeInv'
  <2>1. bp[p] \in Bufs /\ want[p] \in Blocks
    BY <1>b, <1>5 DEF bwrite, log_write
  <2>2. data' \in [Bufs -> Vals]
    BY <1>c, <1>5, <2>1, Zenon DEF bwrite, log_write
  <2>3. cur' \in [Blocks -> Vals]
    BY <1>c, <1>5, <2>1, Zenon DEF bwrite, log_write
  <2>4. pc' \in [Procs -> Labels]
    BY <1>c, <1>5 DEF bwrite, log_write
  <2>5. dirty' \in [Bufs -> BOOLEAN]
    BY <1>c, <1>5, Zenon DEF bwrite, log_write
  <2> QED BY <1>c, <1>5, <2>2, <2>3, <2>4, <2>5 DEF bwrite, log_write
<1>6. ASSUME NEW p \in Procs, releasesleep(p) PROVE TypeInv'
  BY <1>b, <1>c, <1>6, Zenon DEF releasesleep, Wake
<1>7. ASSUME NEW p \in Procs, iderw(p) PROVE TypeInv'
  <2>1. bp[p] \in Bufs
    BY <1>b, <1>7 DEF iderw
  <2>2. idequeue' \in Seq(Bufs)
    <3>1. Append(idequeue, bp[p]) \in Seq(Bufs)
      BY <1>c, <2>1, AppendProperties
    <3> QED BY <1>c, <1>7, <3>1, Zenon DEF iderw
  <2> QED BY <1>c, <1>7, <2>2, Zenon DEF iderw
<1>8. ASSUME NEW p \in Procs, iderw_woken(p) PROVE TypeInv'
  BY <1>c, <1>8 DEF iderw_woken
<1>9. ASSUME NEW p \in Procs, brelse(p) PROVE TypeInv'
  <2>1. /\ bp[p] \in Bufs
        /\ p \in Users(bp[p])
    BY <1>b, <1>9 DEF brelse, Users
  <2>2. IsFiniteSet(Users(bp[p]))
    BY ConstantsAssumption, FS_Subset DEF Users
  <2>3. refcnt[bp[p]] # 0
    BY <1>a, <2>1, <2>2, FS_EmptySet DEF RefInv
  <2>4. refcnt' \in [Bufs -> Nat]
    BY <1>c, <1>9, <2>1, <2>3 DEF brelse
  <2> QED BY <1>c, <1>9, <2>4 DEF brelse
<1>10. CASE ideintr
  <2> DEFINE b == idequeue[1]
  <2>1. /\ b \in Bufs /\ blk[b] \in Blocks /\ idequeue' \in Seq(Bufs)
        /\ active = idestart(b)
    BY <1>a, <1>10, Interrupt
  <2>2. /\ active[1] = blk[b]
        /\ active[2] # None => active[2] = data[b]
    BY <1>a, <2>1, Command
  <2> HIDE DEF b
  <2>3. disk' \in [Blocks -> Vals]
    BY <1>c, <1>10, <2>1, <2>2 DEF ideintr, b
  <2>4. data' \in [Bufs -> Vals] /\ errors' \in Nat
    <3>1. disk[active[1]] \in Vals
      BY <1>c, <2>1, <2>2
    <3>2. [data EXCEPT ![b] = disk[active[1]]] \in [Bufs -> Vals]
      BY <1>c, <3>1, Zenon
    <3>3. /\ data' = data \/ data' = [data EXCEPT ![b] = disk[active[1]]]
          /\ errors' = errors \/ errors' = errors + 1
      BY <1>10 DEF ideintr, b
    <3>4. data' \in [Bufs -> Vals]
      BY <1>c, <3>2, <3>3, Zenon
    <3> QED BY <1>c, <3>3, <3>4
  <2>5. valid' \in [Bufs -> BOOLEAN] /\ dirty' \in [Bufs -> BOOLEAN]
    BY <1>c, <1>10, Zenon DEF ideintr, b
  <2>6. pc' \in [Procs -> Labels]
    BY <1>c, <1>10 DEF ideintr, Wake
  <2> QED BY <1>c, <1>10, <2>1, <2>3, <2>4, <2>5, <2>6 DEF ideintr
<1>11. CASE UNCHANGED vars
  BY <1>c, <1>11 DEF vars
<1> QED
  BY <1>a, <1>1, <1>2, <1>3, <1>4, <1>5, <1>6, <1>7, <1>8, <1>9, <1>10, <1>11,
     HitCase, RecycleCase, Zenon
  DEF Next, Start, Write, Continue

\* brelse() moves a buffer within the list.
LEMMA ListStep == Inv /\ [Next]_vars => ListInv'
<1> SUFFICES ASSUME Inv, [Next]_vars PROVE ListInv'
  OBVIOUS
<1>a. ListInv
  BY DEF Inv
<1>1. CASE UNCHANGED list
  BY <1>a, <1>1 DEF ListInv
<1>2. ASSUME NEW p \in Procs, brelse(p), list' = MoveToFront(bp[p]) PROVE ListInv'
  <2> DEFINE b == bp[p]
             j == CHOOSE h \in DOMAIN list : list[h] = b
             n == Len(list)
             s == SubSeq(list, 1, j - 1)
             t == SubSeq(list, j + 1, n)
             u == s \o t
             e == <<b>>
  <2>1. b \in Bufs
    BY <1>2 DEF Inv, RefInv, brelse
  <2>2. list \in Seq(Bufs) /\ n \in Nat /\ DOMAIN list = 1 .. n
    BY <1>a, LenProperties DEF ListInv
  <2>3. j \in 1 .. n /\ list[j] = b
    BY <1>a, <2>1, <2>2 DEF ListInv, Range
  <2>4. list' = e \o u
    BY <1>2 DEF MoveToFront
  <2> HIDE DEF b, j, n
  <2>5. \A h \in 1 .. n : list[h] \in Bufs
    BY <2>2, ElementOfSeq DEF n
  <2>6. /\ s \in Seq(Bufs) /\ Len(s) = j - 1
        /\ \A h \in 1 .. j - 1 : s[h] = list[h]
    BY <2>2, <2>3, <2>5, SubSeqProperties
  <2>7. /\ t \in Seq(Bufs) /\ Len(t) = n - j
        /\ \A h \in 1 .. n - j : t[h] = list[j + h]
    BY <2>2, <2>3, <2>5, SubSeqProperties
  <2> HIDE DEF s, t
  <2>8. /\ u \in Seq(Bufs)
        /\ Range(u) = Range(s) \union Range(t)
    BY <2>6, <2>7, ConcatProperties, RangeConcatenation
  <2> HIDE DEF u
  <2>9. e \in Seq(Bufs) /\ b \in Range(e)
    BY <2>1 DEF Range
  <2> HIDE DEF e
  <2>10. /\ list' \in Seq(Bufs)
        /\ Range(list') = Range(e) \union Range(u)
    <3>1. e \o u \in Seq(Bufs)
      BY <2>9, <2>8, ConcatProperties
    <3>2. Range(e \o u) = Range(e) \union Range(u)
      BY <2>9, <2>8, RangeConcatenation
    <3> QED BY <2>4, <3>1, <3>2
  <2>11. ASSUME NEW c \in Bufs PROVE c \in Range(list')
    <3>1. PICK h \in 1 .. n : list[h] = c
      BY <1>a, <2>2 DEF ListInv, Range
    <3>2. CASE h = j
      BY <2>3, <2>9, <2>10, <3>1, <3>2
    <3>3. CASE h < j
      <4>1. DOMAIN s = 1 .. j - 1 /\ h \in 1 .. j - 1
        BY <2>3, <2>6, <3>1, <3>3, LenProperties
      <4>2. c \in Range(s)
        BY <2>6, <3>1, <4>1 DEF Range
      <4> QED BY <2>8, <2>10, <4>2
    <3>4. CASE h > j
      <4>1. DOMAIN t = 1 .. n - j /\ h - j \in 1 .. n - j /\ j + (h - j) = h
        BY <2>2, <2>3, <2>7, <3>1, <3>4, LenProperties
      <4>2. c \in Range(t)
        BY <2>7, <3>1, <4>1 DEF Range
      <4> QED BY <2>8, <2>10, <4>2
    <3> QED BY <2>2, <2>3, <3>1, <3>2, <3>3, <3>4
  <2>12. Range(list') \subseteq Bufs
    BY <2>10, RangeOfSeq
  <2> QED BY <2>10, <2>11, <2>12 DEF ListInv
<1>3. CASE UNCHANGED vars
  BY <1>1, <1>3 DEF vars
<1>4. ASSUME NEW p \in Procs, Continue(p) PROVE ListInv'
  BY <1>1, <1>2, <1>4 DEF Continue, iderw, iderw_woken, brelse, bufvars
<1>5. ASSUME NEW p \in Procs,
             Start(p) \/ acquiresleep(p) \/ Write(p) \/ releasesleep(p)
      PROVE  ListInv'
  BY <1>1, <1>5, Zenon DEF Start, bget_hit, bget_recycle, acquiresleep, Write,
      bwrite,
     log_write, releasesleep, bufvars
<1>6. CASE ideintr
  BY <1>1, <1>6 DEF ideintr
<1> QED BY <1>3, <1>4, <1>5, <1>6 DEF Next

\* A buffer that some process has is counted.
LEMMA UsedCounted ==
  ASSUME TypeInv, RefInv, NEW p \in Procs, bp[p] \in Bufs
  PROVE  refcnt[bp[p]] # 0
<1>1. p \in Users(bp[p]) /\ IsFiniteSet(Users(bp[p]))
  BY ConstantsAssumption, FS_Subset DEF Users
<1> QED BY <1>1, FS_EmptySet DEF RefInv

\* bget() and brelse() count, and only a buffer that nobody has is recycled.
LEMMA RefStep == Inv /\ [Next]_vars => RefInv'
<1> SUFFICES ASSUME Inv, [Next]_vars PROVE RefInv'
  OBVIOUS
<1>a. TypeInv /\ ListInv /\ RefInv /\ QueueInv
  BY Zenon DEF Inv
<1>b. /\ pc \in [Procs -> Labels]
      /\ want \in [Procs -> Blocks \union {None}]
      /\ bp \in [Procs -> Bufs \union {None}]
      /\ blk \in [Bufs -> Blocks \union {None}] /\ refcnt \in [Bufs -> Nat]
      /\ None \notin Blocks /\ None \notin Bufs
  BY <1>a, ConstantsAssumption, Zenon DEF TypeInv
<1>c. \A b \in Bufs : IsFiniteSet(Users(b)) /\ Cardinality(Users(b)) \in Nat
  BY ConstantsAssumption, FS_Subset, FS_CardinalityType, Zenon DEF Users
<1>1. ASSUME NEW p \in Procs, NEW k \in Blocks, NEW b \in Bufs, Hit(p, k, b)
      PROVE  RefInv'
  <2>1. \A q \in Procs : bp'[q] = IF q = p THEN b ELSE bp[q]
    BY <1>1, <1>b, Zenon DEF Hit
  <2>2. p \notin Users(b)
    BY <1>1, <1>a, <1>b, Zenon DEF Hit, RefInv, Users
  <2>3. Users(b)' = Users(b) \union {p}
    BY <2>1, Zenon DEF Users
  <2>4. \A c \in Bufs \ {b} : Users(c)' = Users(c)
    BY <2>1, <1>1, <1>a, <1>b DEF Users, Hit, RefInv
  <2>5. Cardinality(Users(b)') = Cardinality(Users(b)) + 1
    BY <1>c, <2>2, <2>3, FS_AddElement, Zenon
  <2>6. \A c \in Bufs : refcnt'[c] = Cardinality(Users(c)')
    BY <1>1, <1>a, <1>b, <2>4, <2>5, Zenon DEF Hit, RefInv
  <2> QED BY <1>1, <1>a, <1>b, <2>6 DEF Hit, RefInv, Labels, idevars
<1>2. ASSUME NEW p \in Procs, NEW k \in Blocks, NEW b \in Bufs, Recycle(p, k, b)
      PROVE  RefInv'
  <2>1. \A q \in Procs : bp'[q] = IF q = p THEN b ELSE bp[q]
    BY <1>2, <1>b, Zenon DEF Recycle
  <2>2. Users(b) = {}
    BY <1>2, <1>a, <1>c, FS_EmptySet, Zenon DEF Recycle, RefInv
  <2>3. Users(b)' = {p}
    BY <2>1, <2>2, Zenon DEF Users
  <2>4. \A c \in Bufs \ {b} : Users(c)' = Users(c)
    BY <2>1, <1>2, <1>a, <1>b DEF Users, Recycle, RefInv
  <2>5. Cardinality(Users(b)') = 1
    BY <2>3, FS_Singleton, Zenon
  <2>6. \A c \in Bufs : refcnt'[c] = Cardinality(Users(c)')
    BY <1>2, <1>a, <1>b, <2>4, <2>5 DEF Recycle, RefInv
  <2>7. \A q \in Procs : bp[q] # b
    BY <2>2, Zenon DEF Users
  <2>8. \A q \in Procs : pc'[q] = "idle" => bp'[q] = None
    BY <1>2, <1>a, <1>b, Zenon DEF Recycle, RefInv
  <2>9. \A q \in Procs : pc'[q] \notin {"idle", "panic"} =>
          bp'[q] \in Bufs /\ want'[q] \in Blocks /\ blk'[bp'[q]] = want'[q]
    BY <1>2, <1>a, <1>b, <2>7, Zenon DEF Recycle, RefInv
  <2>10. \A c, d \in Bufs : blk'[c] = blk'[d] /\ blk'[c] # None => c = d
    BY <1>2, <1>a, <1>b, Zenon DEF Recycle, RefInv
  <2> QED BY <2>6, <2>8, <2>9, <2>10, Zenon DEF RefInv
<1>3. ASSUME NEW p \in Procs, NEW b \in Bufs, b = bp[p], brelse(p) PROVE RefInv'
  <2>1. \A q \in Procs : bp'[q] = IF q = p THEN None ELSE bp[q]
    BY <1>3, <1>b, Zenon DEF brelse
  <2>2. p \in Users(b) /\ Users(b)' = Users(b) \ {p}
    BY <1>3, <1>b, <2>1, Zenon DEF Users
  <2>3. \A c \in Bufs \ {b} : Users(c)' = Users(c)
    BY <1>3, <1>b, <2>1, Zenon DEF Users
  <2>4. Cardinality(Users(b)') = Cardinality(Users(b)) - 1
    BY <1>c, <2>2, FS_RemoveElement, Zenon
  <2>5. \A c \in Bufs : refcnt'[c] = Cardinality(Users(c)')
    BY <1>3, <1>a, <1>b, <2>3, <2>4 DEF brelse, RefInv
  <2> QED BY <1>3, <1>a, <1>b, <2>5, Zenon DEF brelse, RefInv, Goto
<1>4. ASSUME NEW p \in Procs, brelse(p) PROVE RefInv'
  BY <1>3, <1>4, <1>a, Zenon DEF brelse, RefInv
<1>5. ASSUME UNCHANGED <<blk, refcnt, bp>>,
             \A q \in Procs :
               \/ pc'[q] = "panic"
               \/ /\ want'[q] = want[q]
                  /\ pc'[q] # pc[q] => pc[q] \notin {"idle", "panic"} /\ pc'[q] # "idle"
      PROVE  RefInv'
  <2>1. \A c \in Bufs : Users(c)' = Users(c)
    BY <1>5, Zenon DEF Users
  <2> QED BY <1>5, <1>a, <2>1, Zenon DEF RefInv
<1> USE DEF bufvars, idevars, Goto
<1>6. ASSUME NEW p \in Procs, NEW k \in Blocks, NoBuffers(p, k) PROVE RefInv'
  BY <1>b, <1>5, <1>6, Zenon DEF NoBuffers
<1>7. ASSUME NEW p \in Procs, acquiresleep(p) PROVE RefInv'
  BY <1>b, <1>5, <1>7, Zenon DEF acquiresleep
<1>8. ASSUME NEW p \in Procs, NEW v \in Vals, bwrite(p, v) \/ log_write(p, v)
      PROVE  RefInv'
  BY <1>b, <1>5, <1>8, Zenon DEF bwrite, log_write
<1>9. ASSUME NEW p \in Procs, releasesleep(p) PROVE RefInv'
  BY <1>b, <1>5, <1>9, Zenon DEF releasesleep, Wake
<1>10. ASSUME NEW p \in Procs, iderw(p) \/ iderw_woken(p) PROVE RefInv'
  BY <1>b, <1>5, <1>10, Zenon DEF iderw, iderw_woken
<1>11. CASE ideintr
  BY <1>b, <1>5, <1>11, Zenon DEF ideintr, Wake
<1>12. CASE UNCHANGED vars
  BY <1>5, <1>12, Zenon DEF vars
<1> QED
  BY <1>a, <1>1, <1>2, <1>4, <1>6, <1>7, <1>8, <1>9, <1>10, <1>11, <1>12,
     HitCase, RecycleCase, Zenon
  DEF Next, Start, Write, Continue

\* The lock of a buffer changes hands through releasesleep() only, so its flags
\* are the owner's; the interrupt handler sets them for the owner that sleeps.
LEMMA LockStep == Inv /\ [Next]_vars => LockInv'
<1> SUFFICES ASSUME Inv, [Next]_vars PROVE LockInv'
  OBVIOUS
<1>a. TypeInv /\ ListInv /\ RefInv /\ LockInv /\ QueueInv /\ FreshInv
  BY Zenon DEF Inv
<1>b. /\ pc \in [Procs -> Labels] /\ bp \in [Procs -> Bufs \union {None}]
      /\ slock \in [Bufs -> Procs \union {None}]
      /\ valid \in [Bufs -> BOOLEAN] /\ dirty \in [Bufs -> BOOLEAN]
      /\ None \notin Procs /\ None \notin Bufs
  BY <1>a, ConstantsAssumption, Zenon DEF TypeInv
<1>c. \A p \in Procs : pc[p] \notin {"idle", "panic"} => bp[p] \in Bufs
  BY <1>a, Zenon DEF RefInv
<1> USE DEF LockInv, Owners, bufvars, idevars, Goto
<1>1. ASSUME NEW p \in Procs, NEW k \in Blocks, NEW b \in Bufs, Hit(p, k, b)
      PROVE  LockInv'
  BY <1>a, <1>b, <1>1, Zenon DEF Hit
<1>2. ASSUME NEW p \in Procs, NEW k \in Blocks, NEW b \in Bufs, Recycle(p, k, b)
      PROVE  LockInv'
  <2>1. \A q \in Procs : bp[q] # b
    BY <1>a, <1>2, UsedCounted, Zenon DEF Recycle
  <2> QED BY <1>a, <1>b, <1>c, <1>2, <2>1, Zenon DEF Recycle
<1>3. ASSUME NEW p \in Procs, NEW k \in Blocks, NoBuffers(p, k) PROVE LockInv'
  BY <1>a, <1>b, <1>3, Zenon DEF NoBuffers
<1>4. ASSUME NEW p \in Procs, acquiresleep(p) PROVE LockInv'
  <2>1. bp[p] \in Bufs
    BY <1>c, <1>4, Zenon DEF acquiresleep
  <2>2. CASE SlockFree(bp[p])
    BY <1>a, <1>b, <1>c, <1>4, <2>1, <2>2 DEF acquiresleep, SlockFree, MustRead
  <2>3. CASE ~SlockFree(bp[p])
    BY <1>a, <1>b, <1>c, <1>4, <2>1, <2>3, Zenon DEF acquiresleep, SlockFree
  <2> QED BY <2>2, <2>3, Zenon
<1>5. ASSUME NEW p \in Procs, NEW v \in Vals, bwrite(p, v) \/ log_write(p, v)
      PROVE  LockInv'
  BY <1>a, <1>b, <1>c, <1>5 DEF bwrite, log_write
<1>6. ASSUME NEW p \in Procs, releasesleep(p) PROVE LockInv'
  BY <1>a, <1>b, <1>c, <1>6 DEF releasesleep, Wake
<1>7. ASSUME NEW p \in Procs, iderw(p) PROVE LockInv'
  BY <1>a, <1>b, <1>7 DEF iderw
<1>8. ASSUME NEW p \in Procs, iderw_woken(p) PROVE LockInv'
  BY <1>a, <1>b, <1>8, Zenon DEF iderw_woken
<1>9. ASSUME NEW p \in Procs, brelse(p) PROVE LockInv'
  BY <1>a, <1>b, <1>9, Zenon DEF brelse
<1>10. CASE ideintr
  BY <1>a, <1>b, <1>c, <1>10, Interrupt, Zenon DEF ideintr, Wake
<1>11. CASE UNCHANGED vars
  BY <1>a, <1>11, Zenon DEF vars
<1> QED
  BY <1>a, <1>1, <1>2, <1>3, <1>4, <1>5, <1>6, <1>7, <1>8, <1>9, <1>10, <1>11,
     HitCase, RecycleCase, Zenon
  DEF Next, Start, Write, Continue

\* What does not touch the queue, its sleepers and the first request keeps
\* QueueInv.
LEMMA QueueKept ==
  ASSUME TypeInv, QueueInv, UNCHANGED <<idequeue, active>>,
         \A q \in Procs : pc[q] = "io_asleep" <=> pc'[q] = "io_asleep",
         \A q \in Procs : pc[q] = "io_asleep" =>
           /\ bp'[q] = bp[q]
           /\ blk'[bp[q]] = blk[bp[q]] /\ data'[bp[q]] = data[bp[q]]
           /\ dirty'[bp[q]] = dirty[bp[q]]
  PROVE  QueueInv'
<1>1. CASE idequeue = <<>>
  <2>1. active' = None /\ idequeue' = <<>> /\ Len(idequeue) = 0
    BY <1>1, EmptySeq, Zenon DEF QueueInv
  <2> QED BY <1>1, <2>1 DEF QueueInv
<1>2. CASE idequeue # <<>>
  <2>1. 1 \in 1 .. Len(idequeue)
    BY <1>2, EmptySeq DEF TypeInv
  <2>2. PICK q \in Procs : pc[q] = "io_asleep" /\ bp[q] = idequeue[1]
    BY <2>1, Zenon DEF QueueInv
  <2>3. idestart(idequeue[1])' = idestart(idequeue[1])
    BY <2>2 DEF idestart
  <2> QED BY <1>2, <2>3 DEF QueueInv
<1> QED BY <1>1, <1>2, Zenon

\* A buffer enters the queue when its owner goes to sleep in iderw() and leaves
\* it when the interrupt wakes the owner.
LEMMA QueueStep == Inv /\ [Next]_vars => QueueInv'
<1> SUFFICES ASSUME Inv, [Next]_vars PROVE QueueInv'
  OBVIOUS
<1>a. TypeInv /\ ListInv /\ RefInv /\ LockInv /\ QueueInv
  BY Zenon DEF Inv
<1>b. /\ pc \in [Procs -> Labels] /\ bp \in [Procs -> Bufs \union {None}]
      /\ slock \in [Bufs -> Procs \union {None}]
      /\ blk \in [Bufs -> Blocks \union {None}] /\ data \in [Bufs -> Vals]
      /\ valid \in [Bufs -> BOOLEAN] /\ dirty \in [Bufs -> BOOLEAN]
      /\ None \notin Procs /\ None \notin Bufs
  BY <1>a, ConstantsAssumption, Zenon DEF TypeInv
<1>c. \A p \in Procs : pc[p] \notin {"idle", "panic"} => bp[p] \in Bufs
  BY <1>a, Zenon DEF RefInv
<1>d. \A p \in Procs : pc[p] \in Owners => slock[bp[p]] = p
  BY <1>a, Zenon DEF LockInv
<1> USE DEF bufvars, idevars, Goto
<1>1. ASSUME NEW p \in Procs, NEW k \in Blocks, NEW b \in Bufs, Hit(p, k, b)
      PROVE  QueueInv'
  BY <1>a, <1>b, <1>1, QueueKept, Zenon DEF Hit
<1>2. ASSUME NEW p \in Procs, NEW k \in Blocks, NEW b \in Bufs, Recycle(p, k, b)
      PROVE  QueueInv'
  <2>1. \A q \in Procs : bp[q] # b
    BY <1>a, <1>2, UsedCounted, Zenon DEF Recycle
  <2> QED BY <1>a, <1>b, <1>c, <1>2, <2>1, QueueKept, Zenon DEF Recycle
<1>3. ASSUME NEW p \in Procs, NEW k \in Blocks, NoBuffers(p, k) PROVE QueueInv'
  BY <1>a, <1>b, <1>3, QueueKept, Zenon DEF NoBuffers
<1>4. ASSUME NEW p \in Procs, acquiresleep(p) PROVE QueueInv'
  BY <1>a, <1>b, <1>4, QueueKept, Zenon DEF acquiresleep
<1>5. ASSUME NEW p \in Procs, NEW v \in Vals, bwrite(p, v) \/ log_write(p, v)
      PROVE  QueueInv'
  <2>1. pc[p] = "use" /\ bp[p] \in Bufs
    BY <1>c, <1>5, Zenon DEF bwrite, log_write
  <2>2. \A q \in Procs : pc[q] = "io_asleep" => bp[q] \in Bufs /\ bp[q] # bp[p]
    BY <1>c, <1>d, <2>1, Zenon DEF Owners
  <2>3. /\ \A c \in Bufs \ {bp[p]} : data'[c] = data[c] /\ dirty'[c] = dirty[c]
        /\ \A q \in Procs : pc[q] = "io_asleep" <=> pc'[q] = "io_asleep"
        /\ UNCHANGED <<idequeue, active, bp, blk>>
    BY <1>b, <1>5, <2>1, Zenon DEF bwrite, log_write
  <2> QED BY <1>a, <2>2, <2>3, QueueKept, Zenon
<1>6. ASSUME NEW p \in Procs, releasesleep(p) PROVE QueueInv'
  BY <1>a, <1>b, <1>6, QueueKept, Zenon DEF releasesleep, Wake
<1>7. ASSUME NEW p \in Procs, iderw(p) PROVE QueueInv'
  <2>1. CASE slock[bp[p]] = None \/ (valid[bp[p]] /\ ~dirty[bp[p]])
    BY <1>a, <1>b, <1>7, <2>1, QueueKept DEF iderw
  <2>2. ASSUME NEW b \in Bufs, b = bp[p], idequeue' = Append(idequeue, b),
               active' = (IF idequeue = <<>> THEN idestart(b) ELSE active),
               pc' = [pc EXCEPT ![p] = "io_asleep"]
        PROVE  QueueInv'
    <3> DEFINE n == Len(idequeue)
    <3>1. /\ n \in Nat /\ Len(idequeue') = n + 1 /\ idequeue' # <<>>
          /\ \A j \in 1 .. n : idequeue'[j] = idequeue[j]
          /\ idequeue'[n + 1] = b
      <4>1. idequeue \in Seq(Bufs)
        BY <1>a, Zenon DEF TypeInv
      <4> HIDE DEF n
      <4>2. n \in Nat
        BY <4>1, LenProperties, Zenon DEF n
      <4> QED BY <2>2, <4>1, <4>2, AppendProperties DEF n
    <3>2. \A j \in 1 .. n : idequeue[j] # b
      BY <1>a, <1>b, <1>c, <1>d, <1>7, <2>2 DEF QueueInv, iderw, Owners
    <3>3. UNCHANGED <<blk, dirty, data, bp>> /\ pc[p] = "iderw"
      BY <1>7, Zenon DEF iderw
    <3>4. \A j \in 1 .. n + 1 :
            \E q \in Procs : pc'[q] = "io_asleep" /\ bp'[q] = idequeue'[j]
      <4>1. pc'[p] = "io_asleep" /\ bp'[p] = idequeue'[n + 1]
        BY <1>b, <2>2, <3>1, <3>3, Zenon
      <4>2. ASSUME NEW j \in 1 .. n
            PROVE  \E q \in Procs : pc'[q] = "io_asleep" /\ bp'[q] = idequeue'[j]
        BY <1>a, <1>b, <2>2, <3>1, <3>3 DEF QueueInv
      <4> QED BY <3>1, <4>1, <4>2
    <3>5. \A j, k \in 1 .. n + 1 : idequeue'[j] = idequeue'[k] => j = k
      BY <1>a, <3>1, <3>2 DEF QueueInv
    <3>6. \A q \in Procs : pc'[q] = "io_asleep" =>
            \E j \in 1 .. n + 1 : idequeue'[j] = bp'[q]
      <4>1. n + 1 \in 1 .. n + 1 /\ \A j \in 1 .. n : j \in 1 .. n + 1
        BY <3>1
      <4> QED BY <1>a, <1>b, <2>2, <3>1, <3>3, <4>1 DEF QueueInv
    <3>7. active' = idestart(idequeue[1])'
      <4>1. CASE idequeue = <<>>
        <5>1. n = 0
          BY <4>1, Zenon
        <5> QED BY <2>2, <3>1, <3>3, <4>1, <5>1 DEF idestart
      <4>2. CASE idequeue # <<>>
        <5>1. 1 \in 1 .. n
          BY <1>a, <4>2, EmptySeq DEF TypeInv
        <5> QED BY <1>a, <2>2, <3>1, <3>3, <4>2, <5>1, Zenon DEF idestart, QueueInv
      <4> QED BY <4>1, <4>2, Zenon
    <3> QED BY <3>1, <3>4, <3>5, <3>6, <3>7, Zenon DEF QueueInv
  <2> QED BY <1>c, <1>7, <2>1, <2>2, Zenon DEF iderw
<1>8. ASSUME NEW p \in Procs, iderw_woken(p) PROVE QueueInv'
  BY <1>a, <1>b, <1>8, QueueKept, Zenon DEF iderw_woken, LockInv
<1>9. ASSUME NEW p \in Procs, brelse(p) PROVE QueueInv'
  BY <1>a, <1>b, <1>9, QueueKept, Zenon DEF brelse
<1>10. ASSUME NEW b \in Bufs, b = idequeue[1], ideintr PROVE QueueInv'
  <2> DEFINE n == Len(idequeue)
  <2>1. /\ n \in Nat \ {0} /\ Len(idequeue') = n - 1
        /\ \A j \in 1 .. n - 1 : idequeue'[j] = idequeue[j + 1]
        /\ \A j \in 1 .. n : idequeue[j] \in Bufs
        /\ idequeue' \in Seq(Bufs)
    BY <1>a, <1>10, Interrupt, Zenon
  <2>2. /\ \A q \in Procs :
             pc'[q] = "io_asleep" <=> pc[q] = "io_asleep" /\ bp[q] # b
        /\ UNCHANGED <<bp, blk>>
        /\ \A c \in Bufs \ {b} : dirty'[c] = dirty[c] /\ data'[c] = data[c]
    BY <1>b, <1>10, Zenon DEF ideintr, Wake
  <2>3. \A j \in 1 .. n - 1 : j + 1 \in 1 .. n /\ idequeue[j + 1] # b
    BY <1>a, <1>10, <2>1 DEF QueueInv
  <2>4. \A j \in 1 .. n - 1 :
          \E q \in Procs : pc'[q] = "io_asleep" /\ bp'[q] = idequeue'[j]
    <3> SUFFICES ASSUME NEW j \in 1 .. n - 1
                 PROVE  \E q \in Procs :
                          pc'[q] = "io_asleep" /\ bp'[q] = idequeue'[j]
      OBVIOUS
    <3>1. PICK q \in Procs : pc[q] = "io_asleep" /\ bp[q] = idequeue[j + 1]
      BY <1>a, <2>3, Zenon DEF QueueInv
    <3> QED BY <2>1, <2>2, <2>3, <3>1, Zenon
  <2>5. \A j, k \in 1 .. n - 1 : idequeue'[j] = idequeue'[k] => j = k
    <3> SUFFICES ASSUME NEW j \in 1 .. n - 1, NEW k \in 1 .. n - 1,
                        idequeue'[j] = idequeue'[k]
                 PROVE  j = k
      OBVIOUS
    <3>1. idequeue[j + 1] = idequeue[k + 1]
      BY <2>1, Zenon
    <3>2. j + 1 = k + 1
      BY <1>a, <2>3, <3>1, Zenon DEF QueueInv
    <3> QED BY <2>1, <3>2
  <2>6. ASSUME NEW q \in Procs, pc'[q] = "io_asleep"
        PROVE  \E j \in 1 .. n - 1 : idequeue'[j] = bp'[q]
    <3>1. pc[q] = "io_asleep" /\ bp[q] # b
      BY <2>2, <2>6, Zenon
    <3>2. PICK j \in 1 .. n : idequeue[j] = bp[q]
      BY <1>a, <3>1, Zenon DEF QueueInv
    <3>3. j # 1
      BY <1>10, <3>1, <3>2, Zenon
    <3>4. j - 1 \in 1 .. n - 1 /\ (j - 1) + 1 = j
      BY <2>1, <3>2, <3>3
    <3> QED BY <2>1, <2>2, <3>2, <3>4, Zenon
  <2>7. active' = IF idequeue' = <<>> THEN None ELSE idestart(idequeue[1])'
    <3>1. CASE n > 1
      <4>1. 1 \in 1 .. n - 1 /\ 2 \in 1 .. n /\ 1 + 1 = 2
        BY <2>1, <3>1
      <4>2. idequeue'[1] = idequeue[2] /\ idequeue[2] \in Bufs \ {b}
        BY <2>1, <2>3, <4>1, Zenon
      <4>3. idestart(idequeue[1])' = idestart(idequeue[2])
        BY <2>2, <4>2, Zenon DEF idestart
      <4>4. idequeue' # <<>>
        BY <2>1, <3>1
      <4> QED BY <1>10, <3>1, <4>3, <4>4, Zenon DEF ideintr, StartNext
    <3>2. CASE n = 1
      <4>1. idequeue' = <<>>
        BY <2>1, <3>2, EmptySeq
      <4> QED BY <1>10, <3>2, <4>1 DEF ideintr, StartNext
    <3> QED BY <2>1, <3>1, <3>2
  <2> QED BY <2>1, <2>4, <2>5, <2>6, <2>7, Zenon DEF QueueInv
<1>11. CASE ideintr
  BY <1>a, <1>10, <1>11, Interrupt, Zenon
<1>12. CASE UNCHANGED vars
  BY <1>a, <1>12, QueueKept, Zenon DEF vars
<1> QED
  BY <1>a, <1>1, <1>2, <1>3, <1>4, <1>5, <1>6, <1>7, <1>8, <1>9, <1>11, <1>12,
     HitCase, RecycleCase, Zenon
  DEF Next, Start, Write, Continue

\* A block's newest contents are in its buffer while it is valid, and the disk
\* gets them before the buffer is given to another block.
LEMMA FreshStep == Inv /\ [Next]_vars => FreshInv'
<1> SUFFICES ASSUME Inv, [Next]_vars PROVE FreshInv'
  OBVIOUS
<1>a. TypeInv /\ ListInv /\ RefInv /\ LockInv /\ QueueInv /\ FreshInv
  BY Zenon DEF Inv
<1>b. /\ blk \in [Bufs -> Blocks \union {None}] /\ data \in [Bufs -> Vals]
      /\ valid \in [Bufs -> BOOLEAN] /\ dirty \in [Bufs -> BOOLEAN]
      /\ disk \in [Blocks -> Vals] /\ cur \in [Blocks -> Vals] /\ errors \in Nat
      /\ None \notin Blocks
  BY <1>a, ConstantsAssumption, Zenon DEF TypeInv
<1>c. \A p \in Procs : pc[p] \notin {"idle", "panic"} =>
        bp[p] \in Bufs /\ want[p] \in Blocks /\ blk[bp[p]] = want[p]
  BY <1>a, Zenon DEF RefInv
<1>d. \A b, c \in Bufs : blk[b] = blk[c] /\ blk[b] # None => b = c
  BY <1>a, Zenon DEF RefInv
<1> USE DEF bufvars, idevars, Goto
<1>1. CASE UNCHANGED <<blk, valid, dirty, data, disk, cur, errors>>
  BY <1>a, <1>1, Zenon DEF FreshInv
<1>2. ASSUME NEW p \in Procs, NEW k \in Blocks, NEW b \in Bufs, Recycle(p, k, b)
      PROVE  FreshInv'
  <2>1. \A c \in Bufs : dirty'[c] => valid'[c] /\ blk'[c] # None
    BY <1>a, <1>b, <1>2 DEF Recycle, FreshInv
  <2>2. errors' = 0 =>
          \A c \in Bufs : valid'[c] /\ blk'[c] # None => data'[c] = cur'[blk'[c]]
    BY <1>a, <1>b, <1>2 DEF Recycle, FreshInv
  <2>3. ASSUME errors' = 0, NEW m \in Blocks
        PROVE  disk'[m] = cur'[m] \/ \E c \in Bufs : blk'[c] = m /\ dirty'[c]
    BY <1>a, <1>b, <1>2, <2>3 DEF Recycle, FreshInv
  <2> QED BY <2>1, <2>2, <2>3, Zenon DEF FreshInv
<1>3. ASSUME NEW p \in Procs, NEW v \in Vals, bwrite(p, v) \/ log_write(p, v)
      PROVE  FreshInv'
  <2> DEFINE b == bp[p]
  <2>1. /\ b \in Bufs /\ want[p] \in Blocks /\ blk[b] = want[p] /\ valid[b]
    BY <1>a, <1>c, <1>3, Zenon DEF bwrite, log_write, LockInv
  <2>2. /\ data' = [data EXCEPT ![b] = v] /\ cur' = [cur EXCEPT ![want[p]] = v]
        /\ dirty' = [dirty EXCEPT ![b] = TRUE]
        /\ UNCHANGED <<blk, valid, disk, errors>>
    BY <1>3, Zenon DEF bwrite, log_write
  <2> HIDE DEF b
  <2>3. \A c \in Bufs : dirty'[c] => valid'[c] /\ blk'[c] # None
    BY <1>a, <1>b, <2>1, <2>2 DEF FreshInv
  <2>4. errors' = 0 =>
          \A c \in Bufs : valid'[c] /\ blk'[c] # None => data'[c] = cur'[blk'[c]]
    BY <1>a, <1>b, <1>d, <2>1, <2>2 DEF FreshInv
  <2>5. ASSUME errors' = 0, NEW m \in Blocks
        PROVE  disk'[m] = cur'[m] \/ \E c \in Bufs : blk'[c] = m /\ dirty'[c]
    BY <1>a, <1>b, <2>1, <2>2, <2>5 DEF FreshInv
  <2> QED BY <2>3, <2>4, <2>5, Zenon DEF FreshInv
<1>4. CASE ideintr
  <2> DEFINE b == idequeue[1]
  <2>1. b \in Bufs /\ blk[b] \in Blocks /\ active = idestart(b)
    BY <1>a, <1>4, Interrupt, Zenon
  <2>2. /\ active[1] = blk[b]
        /\ (active[2] # None) <=> dirty[b]
        /\ dirty[b] => active[2] = data[b]
    BY <1>a, <2>1, Command, Zenon
  <2>3. /\ disk' = IF dirty[b] THEN [disk EXCEPT ![blk[b]] = data[b]] ELSE disk
        /\ errors' = 0 => errors = 0
        /\ errors' = 0 =>
             data' = IF dirty[b] THEN data ELSE [data EXCEPT ![b] = disk[blk[b]]]
        /\ valid' = [valid EXCEPT ![b] = TRUE]
        /\ dirty' = [dirty EXCEPT ![b] = FALSE]
        /\ UNCHANGED <<blk, cur>>
    <3>1. disk' = IF dirty[b] THEN [disk EXCEPT ![blk[b]] = data[b]] ELSE disk
      BY <1>4, <2>2, Zenon DEF ideintr
    <3>2. \/ /\ errors' = errors
             /\ data' = IF dirty[b] THEN data
                        ELSE [data EXCEPT ![b] = disk[active[1]]]
          \/ errors' = errors + 1
      BY <1>4, Zenon DEF ideintr
    <3>3. errors + 1 # 0 /\ active[1] = blk[b]
      BY <1>b, <2>2
    <3>4. /\ /\ valid' = [valid EXCEPT ![b] = TRUE]
          /\ dirty' = [dirty EXCEPT ![b] = FALSE]
          /\ UNCHANGED <<blk, cur>>
      BY <1>4, Zenon DEF ideintr
    <3> HIDE DEF b
    <3> QED BY <3>1, <3>2, <3>3, <3>4, Zenon
  <2> HIDE DEF b
  <2>4. \A c \in Bufs : dirty'[c] => valid'[c] /\ blk'[c] # None
    BY <1>a, <1>b, <2>1, <2>3 DEF FreshInv
  <2>5. ASSUME errors' = 0, NEW c \in Bufs, valid'[c], blk'[c] # None
        PROVE  data'[c] = cur'[blk'[c]]
    <3>1. CASE c # b
      BY <1>a, <1>b, <2>1, <2>3, <2>5, <3>1 DEF FreshInv
    <3>2. CASE c = b /\ dirty[b]
      BY <1>a, <1>b, <2>1, <2>3, <2>5, <3>2, Zenon DEF FreshInv
    <3>3. CASE c = b /\ ~dirty[b]
      <4>1. disk[blk[b]] = cur[blk[b]]
        BY <1>a, <1>b, <1>d, <2>1, <2>3, <2>5, <3>3 DEF FreshInv
      <4> QED BY <1>b, <2>1, <2>3, <2>5, <3>3, <4>1, Zenon
    <3> QED BY <3>1, <3>2, <3>3, Zenon
  <2>6. ASSUME errors' = 0, NEW m \in Blocks
        PROVE  disk'[m] = cur'[m] \/ \E c \in Bufs : blk'[c] = m /\ dirty'[c]
    <3>1. CASE m = blk[b] /\ dirty[b]
      BY <1>a, <1>b, <2>1, <2>3, <2>6, <3>1 DEF FreshInv
    <3>2. CASE ~(m = blk[b] /\ dirty[b])
      <4>1. disk'[m] = disk[m]
        BY <1>b, <2>1, <2>3, <3>2, Zenon
      <4>2. CASE disk[m] = cur[m]
        BY <2>3, <4>1, <4>2, Zenon
      <4>3. ASSUME NEW c \in Bufs, blk[c] = m, dirty[c]
            PROVE  \E d \in Bufs : blk'[d] = m /\ dirty'[d]
        BY <1>b, <2>3, <3>2, <4>3, Zenon
      <4> QED BY <1>a, <2>3, <2>6, <4>2, <4>3, Zenon DEF FreshInv
    <3> QED BY <3>1, <3>2, Zenon
  <2> QED BY <2>4, <2>5, <2>6, Zenon DEF FreshInv
<1>5. ASSUME NEW p \in Procs, NEW k \in Blocks, NEW b \in Bufs, Hit(p, k, b)
      PROVE  FreshInv'
  BY <1>1, <1>5, Zenon DEF Hit
<1>6. ASSUME NEW p \in Procs, NEW k \in Blocks, NoBuffers(p, k) PROVE FreshInv'
  BY <1>1, <1>6, Zenon DEF NoBuffers
<1>7. ASSUME NEW p \in Procs, acquiresleep(p) \/ releasesleep(p) \/ Continue(p)
      PROVE  FreshInv'
  BY <1>1, <1>7, Zenon DEF acquiresleep, releasesleep, Continue, iderw, iderw_woken,
      brelse
<1>8. CASE UNCHANGED vars
  BY <1>1, <1>8, Zenon DEF vars
<1> QED
  BY <1>a, <1>2, <1>3, <1>4, <1>5, <1>6, <1>7, <1>8, HitCase, RecycleCase, Zenon
  DEF Next, Start, Write

\* It holds when the system boots: binit() and ideinit().
LEMMA InitInv == Init => Inv
<1> SUFFICES ASSUME Init PROVE Inv
  OBVIOUS
<1>a. None \notin Procs \union Bufs \union Blocks \union Vals /\ Init0 \in Vals
  BY ConstantsAssumption, Zenon
<1>1. ListInv
  <2>1. Cardinality(Bufs) \in Nat
    BY ConstantsAssumption, FS_CardinalityType, Zenon
  <2> QED BY <2>1, SeqDef DEF Init, ListInv
<1>2. TypeInv
  BY <1>a, EmptySeq, Zenon DEF Init, TypeInv, Labels
<1>3. RefInv
  <2>1. \A b \in Bufs : Users(b) = {}
    BY <1>a, Zenon DEF Init, Users
  <2> QED BY <2>1, FS_EmptySet, Zenon DEF Init, RefInv
<1>4. LockInv
  BY Zenon DEF Init, LockInv, Owners
<1>5. QueueInv
  BY DEF Init, QueueInv
<1>6. FreshInv
  BY Zenon DEF Init, FreshInv
<1> QED BY <1>1, <1>2, <1>3, <1>4, <1>5, <1>6, Zenon DEF Inv

\* The invariant holds in every state.
LEMMA Invariance == Spec => []Inv
<1>1. Inv /\ [Next]_vars => Inv'
  BY TypeStep, ListStep, RefStep, LockStep, QueueStep, FreshStep, Zenon DEF Inv
<1> QED BY InitInv, <1>1, PTL DEF Spec

-----------------------------------------------------------------------------
(* The theorems                                                            *)

\* For any number of processes, buffers and blocks: the buffer that bread()
\* returns has the block that was asked for, and its newest contents unless a
\* read has failed.
THEOREM ReadsAreFresh == Spec => []ReadsFresh
<1>1. Inv => ReadsFresh
  <2> SUFFICES ASSUME Inv, NEW p \in Procs, pc[p] = "use"
               PROVE  /\ blk[bp[p]] = want[p] /\ valid[bp[p]]
                      /\ errors = 0 => data[bp[p]] = cur[want[p]]
    BY Zenon DEF ReadsFresh
  <2>1. bp[p] \in Bufs /\ want[p] \in Blocks /\ blk[bp[p]] = want[p]
    BY Zenon DEF Inv, RefInv
  <2>2. valid[bp[p]]
    BY Zenon DEF Inv, LockInv
  <2>3. None \notin Blocks
    BY ConstantsAssumption, Zenon
  <2> QED BY <2>1, <2>2, <2>3, Zenon DEF Inv, FreshInv
<1> QED BY Invariance, <1>1, PTL

\* For any number of processes, buffers and blocks: the disk works on the first
\* request of idequeue, every sleeper of iderw() is in it, and every sleeper of
\* acquiresleep() waits for an owner.
THEOREM NoSleeperForgotten == Spec => []SleepersQueued
<1>1. Inv => SleepersQueued
  <2> SUFFICES ASSUME Inv PROVE SleepersQueued
    OBVIOUS
  <2>1. /\ TypeInv /\ QueueInv /\ RefInv /\ LockInv
    BY Zenon DEF Inv
  <2>2. /\ DOMAIN idequeue = 1 .. Len(idequeue)
        /\ idequeue # <<>> => 1 \in 1 .. Len(idequeue)
    BY <2>1, EmptySeq, LenProperties DEF TypeInv
  <2>3. ASSUME idequeue # <<>> PROVE active = idestart(idequeue[1]) /\ active # None
    <3>1. PICK p \in Procs : pc[p] = "io_asleep" /\ bp[p] = idequeue[1]
      BY <2>1, <2>2, <2>3, Zenon DEF QueueInv
    <3>2. bp[p] \in Bufs /\ blk[bp[p]] \in Blocks
      BY <2>1, <3>1, Zenon DEF RefInv
    <3> QED BY <2>1, <2>3, <3>1, <3>2, Command, Zenon DEF QueueInv
  <2>4. idequeue = <<>> => active = None
    BY <2>1, Zenon DEF QueueInv
  <2>5. \A p \in Procs : pc[p] = "io_asleep" => bp[p] \in Range(idequeue)
    BY <2>1, <2>2, Zenon DEF QueueInv, Range
  <2> QED BY <2>1, <2>3, <2>4, <2>5, Zenon DEF SleepersQueued, LockInv
<1> QED BY Invariance, <1>1, PTL
=============================================================================
