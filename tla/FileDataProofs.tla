--------------------------- MODULE FileDataProofs ---------------------------
(***************************************************************************)
(* Proofs about the blocks of files, for any number of processes, inodes   *)
(* and open files and any sizes of disk, block and log.                    *)
(***************************************************************************)
EXTENDS FileData, FiniteSetTheorems, TLAPS

-----------------------------------------------------------------------------
(* The record that the functions of fs.c transform                         *)

OutOfBlocks == "balloc: out of blocks"
Cells == Bytes \union Blocks \union {0}
Rows == [0 .. BSIZE - 1 -> Cells]
Addrs == [0 .. NDIRECT -> Blocks \union {0}]

WorkType ==
  [bitmap : SUBSET Blocks, data : [Blocks -> Rows], size : Nat, addrs : Addrs,
   log : SUBSET (Blocks \union {BitmapBlock, InodeBlock}),
   panic : {NoPanic, OutOfBlocks}, b : Blocks \union {0}, out : Seq(Cells)]

\* What the assumption says of the sizes.
LEMMA Sizes ==
  /\ NBLOCKS \in Nat \ {0} /\ BSIZE \in Nat \ {0} /\ LOGSIZE \in Nat /\ LOGSIZE >= 6
  /\ NDIRECT \in Nat /\ Lengths \subseteq Nat \ {0}
  /\ 0 \notin Inodes /\ 0 \notin OpenFiles
BY ConstantsAssumption, Zenon

\* A nonempty set of numbers has a least element.
LEMMA NatMin ==
  ASSUME NEW T \in SUBSET Nat, T # {} PROVE \E m \in T : \A k \in T : m <= k
<1>1. IsWellFoundedOn(OpToRel(<, Nat), Nat)
  BY NatLessThanWellFounded, Zenon
<1>2. PICK m \in T : \A k \in T : ~(<<k, m>> \in OpToRel(<, Nat))
  BY <1>1, WFMin, Zenon
<1>3. \A k \in T : ~(k < m)
  BY <1>2, Zenon DEF OpToRel
<1> QED BY <1>3

\* Induction over the turns of a loop: what holds of turn 0, and of each turn
\* after one of which it holds, holds of all.
LEMMA Turnwise ==
  ASSUME NEW n \in Nat, NEW R, 0 \in R, \A k \in 1 .. n : k - 1 \in R => k \in R
  PROVE  0 .. n \subseteq R
<1> SUFFICES ASSUME ~(0 .. n \subseteq R) PROVE FALSE
  OBVIOUS
<1> DEFINE T == (0 .. n) \ R
<1>1. T \in SUBSET Nat /\ T # {}
  OBVIOUS
<1>2. PICK m \in T : \A k \in T : m <= k
  BY <1>1, NatMin, Zenon
<1>3. m \in 1 .. n /\ m - 1 \in 0 .. n /\ m - 1 \notin T
  BY <1>2
<1> QED BY <1>2, <1>3, Zenon

\* A product grows with its factor.
LEMMA TimesMono ==
  ASSUME NEW m \in Nat, NEW n \in Nat, m <= n, NEW z \in Nat
  PROVE  m * z <= n * z
<1>1. PICK d \in Nat : n = m + d
  <2>1. n - m \in Nat /\ n = m + (n - m)
    OBVIOUS
  <2> QED BY <2>1, Zenon
<1>2. n * z = m * z + d * z
  BY <1>1
<1>3. d * z \in Nat /\ m * z \in Nat
  OBVIOUS
<1> QED BY <1>2, <1>3

\* Quotient and remainder.
LEMMA DivMod ==
  ASSUME NEW x \in Nat, NEW B \in Nat \ {0}
  PROVE  x \div B \in Nat /\ x % B \in 0 .. B - 1 /\ x = (x \div B) * B + (x % B)
<1> DEFINE q == x \div B
           r == x % B
<1>1. r \in 0 .. B - 1 /\ q \in Nat
  OBVIOUS
<1>2. r = x - B * q
  OBVIOUS
<1> HIDE DEF q, r
<1>3. x = q * B + r
  BY <1>1, <1>2
<1>4. x \div B \in Nat /\ x % B \in 0 .. B - 1
  BY <1>1, Zenon DEF q, r
<1>5. x = (x \div B) * B + (x % B)
  BY <1>3, Zenon DEF q, r
<1> QED BY <1>4, <1>5, Zenon

\* The quotient and the remainder are the only ones.
LEMMA DivOf ==
  ASSUME NEW x \in Nat, NEW B \in Nat \ {0}, NEW q \in Nat, NEW c \in 0 .. B - 1, x = q * B + c
  PROVE  x \div B = q /\ x % B = c
<1> DEFINE d == x \div B
           e == x % B
<1>1. d \in Nat /\ e \in 0 .. B - 1 /\ x = d * B + e
  BY DivMod, Zenon
<1> HIDE DEF d, e
<1>2. ~(q + 1 <= d)
  <2> SUFFICES ASSUME q + 1 <= d PROVE FALSE
    OBVIOUS
  <2>1. (q + 1) * B <= d * B
    BY <1>1, TimesMono
  <2>2. (q + 1) * B = q * B + B
    OBVIOUS
  <2> QED BY <2>1, <2>2, <1>1
<1>3. ~(d + 1 <= q)
  <2> SUFFICES ASSUME d + 1 <= q PROVE FALSE
    OBVIOUS
  <2>1. (d + 1) * B <= q * B
    BY <1>1, TimesMono
  <2>2. (d + 1) * B = d * B + B
    BY <1>1
  <2> QED BY <2>1, <2>2, <1>1
<1>4. d = q
  BY <1>1, <1>2, <1>3
<1> QED BY <1>1, <1>4 DEF d, e

\* The block of a cell below the end of block m - 1.
LEMMA DivLess ==
  ASSUME NEW x \in Nat, NEW B \in Nat \ {0}, NEW m \in Nat, x < m * B
  PROVE  x \div B < m
<1>1. x \div B \in Nat /\ x % B \in 0 .. B - 1 /\ x = (x \div B) * B + (x % B)
  BY DivMod, Zenon
<1> SUFFICES ASSUME m <= x \div B PROVE FALSE
  BY <1>1
<1>2. m * B <= (x \div B) * B
  BY <1>1, TimesMono, Zenon
<1> QED BY <1>1, <1>2

\* A later cell is in a later block, or in the same.
LEMMA DivMono ==
  ASSUME NEW x \in Nat, NEW y \in Nat, NEW B \in Nat \ {0}, x <= y
  PROVE  x \div B <= y \div B
<1> DEFINE q == y \div B
<1>1. q \in Nat /\ y < q * B + B
  BY DivMod
<1>2. (q + 1) * B = q * B + B
  BY <1>1
<1>3. x < (q + 1) * B
  BY <1>1, <1>2
<1> HIDE DEF q
<1>4. x \div B < q + 1
  BY <1>1, <1>3, DivLess
<1> QED BY <1>1, <1>4, DivMod DEF q

\* A block is a number other than 0 and the numbers of bitmap and inodes.
LEMMA BlockNumbers ==
  /\ Blocks \subseteq Nat \ {0} /\ 0 \notin Blocks
  /\ BitmapBlock \notin Blocks \union {0} /\ InodeBlock \notin Blocks \union {0}
BY Sizes DEF Blocks, BitmapBlock, InodeBlock

\* The row of zeros.
LEMMA ZeroRow == Zero \in Rows /\ \A c \in 0 .. BSIZE - 1 : Zero[c] = 0
BY Zenon DEF Zero, Rows, Cells

-----------------------------------------------------------------------------
(* Who owns a block                                                        *)

\* The places of an inode: the direct ones, the indirect one, and under it.
Idx == 0 .. NDIRECT + NINDIRECT
PlaceOf(A, D, k) ==
  IF k <= NDIRECT THEN A[k]
  ELSE IF A[NDIRECT] = 0 THEN 0 ELSE D[A[NDIRECT]][k - NDIRECT - 1]
PlaceMap(A, D) == [k \in Idx |-> PlaceOf(A, D, k)]

\* The blocks of the bitmap B that others do not own are those in f's places,
\* each in one.
Own(f, B, O) ==
  /\ f \in [Idx -> Blocks \union {0}] /\ O \subseteq B /\ B \subseteq Blocks
  /\ \A k \in Idx : f[k] # 0 => f[k] \in B \ O
  /\ \A k, l \in Idx : f[k] = f[l] /\ f[k] # 0 => k = l
  /\ \A b \in B \ O : \E k \in Idx : f[k] = b

\* The places of a work record.
Held(S) == PlaceMap(S.addrs, S.data)
OwnWork(S, O) == Own(Held(S), S.bitmap, O)

\* The place of block bn of a file.
Pos(bn) == IF bn < NDIRECT THEN bn ELSE bn + 1

\* What bmap() may do: it fills empty places with fresh blocks and keeps the
\* data of all blocks but the indirect one.
Grows(S, U, O) ==
  /\ U \in WorkType /\ OwnWork(U, O)
  /\ U.size = S.size /\ U.out = S.out
  /\ \A k \in Idx : Held(S)[k] # 0 => Held(U)[k] = Held(S)[k]
  /\ \A b \in O : U.data[b] = S.data[b]
  /\ \A k \in Idx \ {NDIRECT} : Held(S)[k] # 0 => U.data[Held(S)[k]] = S.data[Held(S)[k]]

\* The indices of places.
LEMMA Places ==
  /\ NDIRECT \in Idx /\ Idx \subseteq Nat
  /\ \A bn \in 0 .. MAXFILE - 1 : Pos(bn) \in Idx /\ Pos(bn) # NDIRECT
  /\ \A k \in 0 .. NDIRECT : k \in Idx
  /\ \A c \in 0 .. BSIZE - 1 : NDIRECT + 1 + c \in Idx
BY Sizes DEF Idx, Pos, MAXFILE, NINDIRECT

\* The rows and addresses of a work record.
LEMMA HeldPlaces ==
  ASSUME NEW S \in WorkType, NEW O, OwnWork(S, O)
  PROVE  /\ \A k \in 0 .. NDIRECT : Held(S)[k] = S.addrs[k]
         /\ S.addrs[NDIRECT] = 0 => \A k \in Idx : k > NDIRECT => Held(S)[k] = 0
         /\ S.addrs[NDIRECT] # 0 =>
              /\ S.addrs[NDIRECT] \in S.bitmap /\ S.addrs[NDIRECT] \in Blocks
              /\ S.addrs[NDIRECT] \notin O
              /\ \A c \in 0 .. BSIZE - 1 :
                   Held(S)[NDIRECT + 1 + c] = S.data[S.addrs[NDIRECT]][c]
<1>1. \A k \in Idx : Held(S)[k] = PlaceOf(S.addrs, S.data, k)
  BY Zenon DEF Held, PlaceMap
<1>2. \A k \in 0 .. NDIRECT : Held(S)[k] = S.addrs[k]
  BY <1>1, Places DEF PlaceOf
<1>3. S.addrs[NDIRECT] = 0 => \A k \in Idx : k > NDIRECT => Held(S)[k] = 0
  BY <1>1, Places, Sizes DEF PlaceOf
<1>4. ASSUME S.addrs[NDIRECT] # 0, NEW c \in 0 .. BSIZE - 1
      PROVE  Held(S)[NDIRECT + 1 + c] = S.data[S.addrs[NDIRECT]][c]
  <2>1. NDIRECT + 1 + c \in Idx
    BY Places, Zenon
  <2>2. ~(NDIRECT + 1 + c <= NDIRECT) /\ (NDIRECT + 1 + c) - NDIRECT - 1 = c
    BY Sizes
  <2> QED BY <1>1, <1>4, <2>1, <2>2, Zenon DEF PlaceOf
<1>5. S.addrs[NDIRECT] # 0 => S.addrs[NDIRECT] \in S.bitmap \ O /\ S.addrs[NDIRECT] \in Blocks
  <2>1. NDIRECT \in 0 .. NDIRECT /\ NDIRECT \in Idx
    BY Places, Sizes
  <2> QED BY <1>2, <2>1, Zenon DEF OwnWork, Own
<1> QED BY <1>2, <1>3, <1>4, <1>5, Zenon

\* What the functions that return a block do when they do not panic: k is the
\* place of the block.
Filled(S, U, O, k) ==
  /\ Grows(S, U, O) /\ U.panic = NoPanic /\ U.b = Held(U)[k] /\ U.b # 0
  /\ U.log \subseteq S.log \union {BitmapBlock, U.addrs[NDIRECT], U.b}
  /\ Held(S)[k] # 0 =>
       U.bitmap = S.bitmap /\ U.data = S.data /\ U.addrs = S.addrs /\ U.log = S.log

\* U is S with block b in the empty place k.
Fresh(S, U, k, b) ==
  /\ k \in Idx /\ b \in Blocks \ S.bitmap /\ Held(S)[k] = 0
  /\ Held(U) = [Held(S) EXCEPT ![k] = b] /\ U.bitmap = S.bitmap \union {b}
  /\ U.size = S.size /\ U.out = S.out
  /\ \A c \in S.bitmap : c # S.addrs[NDIRECT] => U.data[c] = S.data[c]

\* bmap() fills the place of its block, and the indirect one if it must.
LEMMA BmapFills ==
  \A S \in WorkType : \A O : \A bn \in 0 .. MAXFILE - 1 :
    OwnWork(S, O) /\ S.panic = NoPanic =>
      /\ bmap(S, bn) \in WorkType
      /\ bmap(S, bn).panic = OutOfBlocks \/ Filled(S, bmap(S, bn), O, Pos(bn))
\* balloc() takes a free block, or panics.
<1>1. ASSUME NEW S \in WorkType
      PROVE  \/ /\ Blocks \subseteq S.bitmap
                /\ balloc(S) \in WorkType /\ balloc(S).panic = OutOfBlocks
             \/ \E b \in Blocks \ S.bitmap :
                  /\ balloc(S) \in WorkType
                  /\ balloc(S) = [bitmap |-> S.bitmap \union {b}, data |-> [S.data EXCEPT ![b] = Zero],
                                  size |-> S.size, addrs |-> S.addrs,
                                  log |-> S.log \union {BitmapBlock, b},
                                  panic |-> S.panic, b |-> b, out |-> S.out]
  <2> USE <1>1
  <2>1. CASE Blocks \subseteq S.bitmap
    <3>1. balloc(S) = [S EXCEPT !.panic = OutOfBlocks]
      BY <2>1, Zenon DEF balloc, OutOfBlocks
    <3> QED BY <2>1, <3>1, Zenon DEF WorkType
  <2>2. CASE ~(Blocks \subseteq S.bitmap)
    <3> DEFINE b == Min(Blocks \ S.bitmap)
    <3>1. b \in Blocks \ S.bitmap
      <4>1. PICK m \in Blocks \ S.bitmap : \A k \in Blocks \ S.bitmap : m <= k
        BY <2>2, BlockNumbers, NatMin, Zenon
      <4> QED BY <4>1, Zenon DEF Min
    <3>2. balloc(S) = [S EXCEPT !.bitmap = @ \union {b}, !.data[b] = Zero,
                                !.log = @ \union {BitmapBlock, b}, !.b = b]
      BY <2>2, Zenon DEF balloc
    <3> HIDE DEF b
    <3>3. balloc(S) = [bitmap |-> S.bitmap \union {b}, data |-> [S.data EXCEPT ![b] = Zero],
                       size |-> S.size, addrs |-> S.addrs,
                       log |-> S.log \union {BitmapBlock, b},
                       panic |-> S.panic, b |-> b, out |-> S.out]
      BY <3>1, <3>2, Zenon DEF WorkType
    <3>4. balloc(S) \in WorkType
      BY <3>1, <3>3, ZeroRow DEF WorkType
    <3> QED BY <3>1, <3>3, <3>4, Zenon
  <2> QED BY <2>1, <2>2, Zenon
\* Giving a free block to an empty place.
<1>2. ASSUME NEW f, NEW B, NEW O, Own(f, B, O), NEW k \in Idx, f[k] = 0, NEW b \in Blocks \ B
      PROVE  Own([f EXCEPT ![k] = b], B \union {b}, O)
  <2> USE <1>2
  <2> DEFINE g == [f EXCEPT ![k] = b]
  <2>1. g \in [Idx -> Blocks \union {0}] /\ g[k] = b /\ \A l \in Idx \ {k} : g[l] = f[l]
    BY Zenon DEF Own
  <2>2. b # 0 /\ b \notin O /\ O \subseteq B \union {b} /\ B \union {b} \subseteq Blocks
    BY BlockNumbers, Zenon DEF Own
  <2> HIDE DEF g
  <2>3. \A l \in Idx : g[l] # 0 => g[l] \in (B \union {b}) \ O
    BY <2>1, <2>2, Zenon DEF Own
  <2>4. \A l, m \in Idx : g[l] = g[m] /\ g[l] # 0 => l = m
    BY <2>1, <2>2 DEF Own
  <2>5. \A c \in (B \union {b}) \ O : \E l \in Idx : g[l] = c
    BY <2>1, <2>2, BlockNumbers DEF Own
  <2>6. Own(g, B \union {b}, O)
    BY <2>1, <2>2, <2>3, <2>4, <2>5, Zenon DEF Own
  <2> QED BY <2>6, Zenon DEF g
\* Filling an empty place with a fresh block keeps what Grows keeps.
<1>3. ASSUME NEW S \in WorkType, NEW U \in WorkType, NEW O, NEW k, NEW b,
             OwnWork(S, O), Fresh(S, U, k, b)
      PROVE  Grows(S, U, O) /\ Held(U)[k] = b
  <2> USE <1>3
  <2> USE DEF Fresh
  <2>1. OwnWork(U, O)
    <3>1. Own(Held(S), S.bitmap, O)
      BY Zenon DEF OwnWork
    <3>2. Own([Held(S) EXCEPT ![k] = b], S.bitmap \union {b}, O)
      BY <3>1, <1>2, Zenon
    <3> QED BY <3>2, Zenon DEF OwnWork
  <2>2. Held(S) \in [Idx -> Blocks \union {0}]
    BY Zenon DEF OwnWork, Own
  <2>3. Held(U)[k] = b /\ \A l \in Idx : Held(S)[l] # 0 => Held(U)[l] = Held(S)[l]
    BY <2>2, Zenon
  <2> HIDE DEF Fresh
  <2>4. Held(S)[NDIRECT] = S.addrs[NDIRECT]
    <3>1. NDIRECT \in 0 .. NDIRECT
      BY Sizes
    <3> QED BY <3>1, HeldPlaces, Zenon
  <2>5. \A c \in O : c \in S.bitmap /\ c # S.addrs[NDIRECT]
    BY <2>4, HeldPlaces, Places, BlockNumbers DEF OwnWork, Own
  <2>6. \A l \in Idx \ {NDIRECT} : Held(S)[l] # 0 =>
          Held(S)[l] \in S.bitmap /\ Held(S)[l] # S.addrs[NDIRECT]
    BY <2>4, Places, Zenon DEF OwnWork, Own
  <2> QED BY <2>1, <2>3, <2>5, <2>6, Zenon DEF Grows, Fresh
\* An entry of addrs.
<1>4. ASSUME NEW S \in WorkType, NEW O, OwnWork(S, O), S.panic = NoPanic, NEW k \in 0 .. NDIRECT
      PROVE  /\ Addr(S, k) \in WorkType
             /\ Addr(S, k).panic = OutOfBlocks \/ Filled(S, Addr(S, k), O, k)
  <2> USE <1>4
  <2> DEFINE U == Addr(S, k)
  <2>0. k \in Idx /\ Held(S)[k] = S.addrs[k] /\ NDIRECT \in 0 .. NDIRECT
    BY HeldPlaces, Places, Sizes
  <2>1. CASE S.addrs[k] # 0
    <3>1. U = [S EXCEPT !.b = S.addrs[k]]
      BY <2>1, Zenon DEF Addr
    <3>2. U \in WorkType /\ U.b = S.addrs[k] /\ U.addrs = S.addrs /\ U.data = S.data
          /\ U.bitmap = S.bitmap /\ U.log = S.log /\ U.size = S.size /\ U.out = S.out
          /\ U.panic = NoPanic
      BY <3>1, Zenon DEF WorkType, Addrs
    <3> HIDE DEF U
    <3>3. Held(U) = Held(S) /\ OwnWork(U, O)
      BY <3>2, Zenon DEF Held, OwnWork
    <3>4. Grows(S, U, O)
      BY <3>2, <3>3, Zenon DEF Grows
    <3> QED BY <3>2, <3>3, <3>4, <2>0, <2>1, Zenon DEF Filled, U
  <2>2. CASE S.addrs[k] = 0
    <3> DEFINE T == balloc(S)
    <3>0. U = IF T.panic # NoPanic THEN T ELSE [T EXCEPT !.addrs[k] = T.b]
      BY <2>2, Zenon DEF Addr
    <3>1. CASE T.panic = OutOfBlocks
      <4>1. T \in WorkType
        BY <1>1, Zenon
      <4> QED BY <4>1, <3>0, <3>1, Zenon DEF OutOfBlocks, NoPanic
    <3>2. CASE ~(T.panic = OutOfBlocks)
      <4>1. PICK b \in Blocks \ S.bitmap :
              T = [bitmap |-> S.bitmap \union {b}, data |-> [S.data EXCEPT ![b] = Zero],
                   size |-> S.size, addrs |-> S.addrs, log |-> S.log \union {BitmapBlock, b},
                   panic |-> S.panic, b |-> b, out |-> S.out]
        BY <3>2, <1>1, Zenon
      <4> HIDE DEF T
      <4>2. U = [bitmap |-> S.bitmap \union {b}, data |-> [S.data EXCEPT ![b] = Zero],
                 size |-> S.size, addrs |-> [S.addrs EXCEPT ![k] = b],
                 log |-> S.log \union {BitmapBlock, b}, panic |-> S.panic, b |-> b, out |-> S.out]
        BY <3>0, <4>1, Zenon
      <4> HIDE DEF U
      <4>3. U \in WorkType
        BY <4>2, ZeroRow, Zenon DEF WorkType, Addrs
      <4>4. U.bitmap = S.bitmap \union {b} /\ U.size = S.size /\ U.out = S.out /\ U.b = b
            /\ U.data = [S.data EXCEPT ![b] = Zero] /\ U.addrs = [S.addrs EXCEPT ![k] = b]
            /\ U.log = S.log \union {BitmapBlock, b} /\ U.panic = NoPanic
        BY <4>2, Zenon
      <4>5. S.data \in [Blocks -> Rows] /\ S.addrs \in [0 .. NDIRECT -> Blocks \union {0}]
        BY Zenon DEF WorkType, Addrs
      <4>6. \A c \in S.bitmap : U.data[c] = S.data[c]
        BY <4>4, <4>5, Zenon DEF WorkType
      <4>7. Held(U) = [Held(S) EXCEPT ![k] = b]
        <5>1. \A j \in 0 .. NDIRECT : U.addrs[j] = IF j = k THEN b ELSE S.addrs[j]
          BY <4>4, <4>5, Zenon
        <5>2. ASSUME NEW j \in Idx PROVE PlaceOf(U.addrs, U.data, j) = IF j = k THEN b ELSE Held(S)[j]
          <6>1. CASE j \in 0 .. NDIRECT
            BY <6>1, <5>1, HeldPlaces DEF PlaceOf
          <6>2. CASE j \notin 0 .. NDIRECT
            <7>1. j \in Nat /\ j > NDIRECT /\ j - NDIRECT - 1 \in 0 .. BSIZE - 1
                  /\ NDIRECT + 1 + (j - NDIRECT - 1) = j /\ ~(j <= NDIRECT) /\ j # k
              BY <6>2, Sizes DEF Idx, NINDIRECT
            <7> DEFINE c == j - NDIRECT - 1
            <7> HIDE DEF c
            <7>2. PlaceOf(U.addrs, U.data, j) =
                    IF U.addrs[NDIRECT] = 0 THEN 0 ELSE U.data[U.addrs[NDIRECT]][c]
              BY <7>1, Zenon DEF PlaceOf, c
            <7>3. CASE k = NDIRECT
              <8>1. Held(S)[j] = 0
                BY <7>1, <7>3, <2>2, HeldPlaces, Zenon
              <8>2. U.addrs[NDIRECT] = b /\ b # 0 /\ U.data[b] = Zero
                BY <7>3, <5>1, <2>0, <4>4, <4>5, BlockNumbers, Zenon
              <8> QED BY <8>1, <8>2, <7>1, <7>2, ZeroRow, Zenon DEF c
            <7>4. CASE k # NDIRECT
              <8>1. U.addrs[NDIRECT] = S.addrs[NDIRECT]
                BY <7>4, <5>1, <2>0, Zenon
              <8>2. CASE S.addrs[NDIRECT] = 0
                BY <8>1, <8>2, <7>1, <7>2, HeldPlaces, Zenon
              <8>3. CASE S.addrs[NDIRECT] # 0
                <9>1. U.data[S.addrs[NDIRECT]] = S.data[S.addrs[NDIRECT]]
                  BY <8>3, <4>6, HeldPlaces, Zenon
                <9>2. Held(S)[NDIRECT + 1 + c] = S.data[S.addrs[NDIRECT]][c]
                  BY <8>3, <7>1, HeldPlaces, Zenon DEF c
                <9> QED BY <9>1, <9>2, <8>1, <8>3, <7>1, <7>2, Zenon DEF c
              <8> QED BY <8>2, <8>3, Zenon
            <7> QED BY <7>3, <7>4, Zenon
          <6> QED BY <6>1, <6>2, Zenon
        <5>3. Held(S) \in [Idx -> Blocks \union {0}]
          BY Zenon DEF OwnWork, Own
        <5> QED BY <5>2, <5>3, Zenon DEF Held, PlaceMap
      <4>8. Grows(S, U, O) /\ Held(U)[k] = b
        <5>1. Held(S)[k] = 0 /\ \A c \in S.bitmap : c # S.addrs[NDIRECT] => U.data[c] = S.data[c]
          BY <2>0, <2>2, <4>6, Zenon
        <5>2. U.bitmap = S.bitmap \union {b} /\ U.size = S.size /\ U.out = S.out /\ k \in Idx
          BY <2>0, <4>4, Zenon
        <5>3. Fresh(S, U, k, b)
          BY <4>7, <5>1, <5>2, Zenon DEF Fresh
        <5> QED BY <4>3, <5>3, <1>3, Zenon
      <4> QED BY <4>3, <4>4, <4>8, <2>0, <2>2, BlockNumbers, Zenon DEF Filled, U
    <3> QED BY <3>1, <3>2, Zenon
  <2> QED BY <2>1, <2>2, Zenon
\* Two calls in turn.
<1>5. ASSUME NEW S, NEW T, NEW U, NEW O, Grows(S, T, O), Grows(T, U, O)
      PROVE  Grows(S, U, O)
  BY <1>5 DEF Grows
\* A call that finds the block where it looks changes nothing.
<1>6. ASSUME NEW S, NEW T, NEW U \in WorkType, NEW O, Grows(S, T, O),
             U.bitmap = T.bitmap, U.data = T.data, U.addrs = T.addrs, U.size = T.size, U.out = T.out
      PROVE  Grows(S, U, O) /\ Held(U) = Held(T)
  <2> USE <1>6
  <2>1. Held(U) = Held(T)
    BY Zenon DEF Held
  <2>2. OwnWork(U, O)
    BY <2>1, Zenon DEF Grows, OwnWork
  <2> QED BY <2>1, <2>2, Zenon DEF Grows
<1>7. ASSUME NEW S \in WorkType, NEW O, OwnWork(S, O), S.panic = NoPanic, NEW bn \in 0 .. MAXFILE - 1
      PROVE  /\ bmap(S, bn) \in WorkType
             /\ bmap(S, bn).panic = OutOfBlocks \/ Filled(S, bmap(S, bn), O, Pos(bn))
  <2> USE <1>7
  <2>1. CASE bn < NDIRECT
    <3>1. bmap(S, bn) = Addr(S, bn) /\ Pos(bn) = bn /\ bn \in 0 .. NDIRECT
      BY <2>1, Sizes DEF bmap, Pos
    <3> QED BY <3>1, <1>4, Zenon
  <2>2. CASE ~(bn < NDIRECT)
    <3> DEFINE T == Addr(S, NDIRECT)
               a == T.b
               k == bn - NDIRECT
               U == balloc(T)
               V == [U EXCEPT !.data[a][k] = U.b, !.log = @ \union {a}]
    <3>0. bmap(S, bn) = IF T.panic # NoPanic THEN T
                        ELSE IF T.data[a][k] # 0 THEN [T EXCEPT !.b = T.data[a][k]]
                        ELSE IF U.panic # NoPanic THEN U ELSE V
      BY <2>2, Zenon DEF bmap
    <3>1. /\ NDIRECT \in 0 .. NDIRECT /\ k \in 0 .. BSIZE - 1 /\ Pos(bn) = NDIRECT + 1 + k
          /\ Pos(bn) \in Idx /\ NDIRECT \in Idx /\ Pos(bn) > NDIRECT
      BY <2>2, Sizes, Places DEF Pos, MAXFILE, NINDIRECT
    <3> HIDE DEF k
    <3>2. CASE T.panic = OutOfBlocks
      <4>1. T \in WorkType
        BY <3>1, <1>4, Zenon
      <4> QED BY <4>1, <3>0, <3>2, Zenon DEF OutOfBlocks, NoPanic
    <3>3. CASE ~(T.panic = OutOfBlocks)
      <4>1. T \in WorkType /\ Filled(S, T, O, NDIRECT)
        BY <3>3, <3>1, <1>4, Zenon
      <4> HIDE DEF T
      <4>2. OwnWork(T, O) /\ T.panic = NoPanic
        BY <4>1, Zenon DEF Filled, Grows
      <4>3. Held(T)[NDIRECT] = T.addrs[NDIRECT]
        BY <4>1, <4>2, <3>1, HeldPlaces, Zenon
      <4>4. a = T.addrs[NDIRECT] /\ a # 0
        BY <4>3, <4>1, Zenon DEF Filled
      <4> HIDE DEF a
      <4>5. a \in T.bitmap /\ a \in Blocks
            /\ \A c \in 0 .. BSIZE - 1 : Held(T)[NDIRECT + 1 + c] = T.data[a][c]
        BY <4>1, <4>2, <4>4, HeldPlaces, Zenon
      <4>6. Held(T)[Pos(bn)] = T.data[a][k]
        BY <4>5, <3>1, Zenon
      <4>7. Held(T) \in [Idx -> Blocks \union {0}]
        BY <4>2, Zenon DEF OwnWork, Own
      <4>8. CASE T.data[a][k] # 0
        <5> DEFINE W == [T EXCEPT !.b = T.data[a][k]]
        <5>1. bmap(S, bn) = W
          BY <3>0, <4>2, <4>8, Zenon
        <5>2. T.data[a][k] \in Blocks \union {0}
          BY <4>6, <4>7, <3>1, Zenon
        <5>3. /\ W \in WorkType /\ W.b = T.data[a][k] /\ W.panic = NoPanic
              /\ W.bitmap = T.bitmap /\ W.data = T.data /\ W.addrs = T.addrs /\ W.size = T.size
              /\ W.out = T.out /\ W.log = T.log
          BY <4>1, <4>2, <5>2, Zenon DEF WorkType
        <5> HIDE DEF W
        <5>4. Grows(S, W, O) /\ Held(W) = Held(T)
          <6>1. Grows(S, T, O)
            BY <4>1, Zenon DEF Filled
          <6> QED BY <5>3, <6>1, <1>6, Zenon
        <5>5. Held(S)[Pos(bn)] # 0 => Held(S)[NDIRECT] # 0
          BY <3>1, HeldPlaces, Zenon
        <5>6. W.log \subseteq S.log \union {BitmapBlock, W.addrs[NDIRECT], W.b}
          BY <5>3, <4>1, <4>4, Zenon DEF Filled, a
        <5>7. Held(S)[Pos(bn)] # 0 =>
                W.bitmap = S.bitmap /\ W.data = S.data /\ W.addrs = S.addrs /\ W.log = S.log
          BY <5>3, <5>5, <4>1, Zenon DEF Filled
        <5>8. Filled(S, W, O, Pos(bn))
          BY <5>3, <5>4, <5>6, <5>7, <4>6, <4>8, Zenon DEF Filled
        <5> QED BY <5>1, <5>3, <5>8, Zenon
      <4>9. CASE T.data[a][k] = 0
        <5>1. CASE U.panic = OutOfBlocks
          <6>1. U \in WorkType
            BY <4>1, <1>1, Zenon
          <6> QED BY <6>1, <3>0, <4>2, <4>9, <5>1, Zenon DEF OutOfBlocks, NoPanic
        <5>2. CASE ~(U.panic = OutOfBlocks)
          <6>1. PICK b \in Blocks \ T.bitmap :
              U = [bitmap |-> T.bitmap \union {b}, data |-> [T.data EXCEPT ![b] = Zero],
                   size |-> T.size, addrs |-> T.addrs, log |-> T.log \union {BitmapBlock, b},
                   panic |-> T.panic, b |-> b, out |-> T.out]
            BY <5>2, <4>1, <1>1, Zenon
          <6> HIDE DEF U
          <6>2. V = [bitmap |-> T.bitmap \union {b},
                     data |-> [[T.data EXCEPT ![b] = Zero] EXCEPT ![a][k] = b],
                     size |-> T.size, addrs |-> T.addrs,
                     log |-> (T.log \union {BitmapBlock, b}) \union {a},
                     panic |-> T.panic, b |-> b, out |-> T.out]
            <7> DEFINE E == [T.data EXCEPT ![b] = Zero]
                       F == [E EXCEPT ![a][k] = b]
            <7> HIDE DEF E
            <7>1. U = [bitmap |-> T.bitmap \union {b}, data |-> E, size |-> T.size,
                       addrs |-> T.addrs, log |-> T.log \union {BitmapBlock, b},
                       panic |-> T.panic, b |-> b, out |-> T.out]
              BY <6>1, Zenon DEF E
            <7>2. [U.data EXCEPT ![a][k] = U.b] = F
              BY <7>1, Zenon
            <7> HIDE DEF F
            <7>3. V = [U EXCEPT !.data = F, !.log = U.log \union {a}]
              BY <7>1, <7>2, Zenon
            <7> HIDE DEF V
            <7>4. V = [bitmap |-> T.bitmap \union {b}, data |-> F, size |-> T.size,
                       addrs |-> T.addrs, log |-> (T.log \union {BitmapBlock, b}) \union {a},
                       panic |-> T.panic, b |-> b, out |-> T.out]
              BY <7>1, <7>3, Zenon
            <7> QED BY <7>4, Zenon DEF E, F
          <6>3. bmap(S, bn) = V
            BY <3>0, <4>2, <4>9, <6>1, Zenon
          <6> HIDE DEF V
          <6>4. T.data \in [Blocks -> Rows] /\ a # b
            BY <4>1, <4>5, Zenon DEF WorkType
          <6> DEFINE D == [[T.data EXCEPT ![b] = Zero] EXCEPT ![a][k] = b]
          <6>5. D \in [Blocks -> Rows]
            BY <6>4, <4>5, <3>1, ZeroRow, Zenon DEF Rows, Cells
          <6>6. /\ \A c \in Blocks \ {a, b} : D[c] = T.data[c]
                /\ D[a] = [T.data[a] EXCEPT ![k] = b]
            BY <6>4, <4>5, Zenon
          <6>7. \A c \in 0 .. BSIZE - 1 : D[a][c] = IF c = k THEN b ELSE T.data[a][c]
            BY <6>4, <6>6, <4>5, Zenon DEF Rows
          <6> HIDE DEF D
          <6>8. V.bitmap = T.bitmap \union {b} /\ V.size = T.size /\ V.out = T.out /\ V.b = b
                /\ V.data = D /\ V.addrs = T.addrs /\ V.log = T.log \union {BitmapBlock, b, a}
                /\ V.panic = NoPanic
            BY <6>2, <4>2, Zenon DEF D
          <6>9. V \in WorkType
            BY <6>2, <6>5, <4>1, <4>5, Zenon DEF WorkType, D
          <6>10. Held(V) = [Held(T) EXCEPT ![Pos(bn)] = b]
            <7>1. ASSUME NEW j \in Idx
                  PROVE  PlaceOf(V.addrs, V.data, j) = IF j = Pos(bn) THEN b ELSE Held(T)[j]
              <8>1. CASE j \in 0 .. NDIRECT
                <9>1. PlaceOf(V.addrs, V.data, j) = V.addrs[j] /\ j # Pos(bn)
                  BY <8>1, <3>1, Sizes DEF PlaceOf
                <9>2. Held(T)[j] = T.addrs[j]
                  BY <8>1, <4>1, <4>2, HeldPlaces, Zenon
                <9> QED BY <9>1, <9>2, <6>8, Zenon
              <8>2. CASE j \notin 0 .. NDIRECT
                <9> DEFINE c == j - NDIRECT - 1
                <9>1. c \in 0 .. BSIZE - 1 /\ NDIRECT + 1 + c = j /\ ~(j <= NDIRECT)
                      /\ (j = Pos(bn) <=> c = k)
                  BY <8>2, <3>1, Sizes DEF Idx, NINDIRECT
                <9>2. PlaceOf(V.addrs, V.data, j) = D[a][c]
                  BY <9>1, <6>8, <4>4, Zenon DEF PlaceOf
                <9> HIDE DEF c
                <9> QED BY <9>1, <9>2, <6>7, <4>5, Zenon
              <8> QED BY <8>1, <8>2, Zenon
            <7> QED BY <7>1, <4>7, Zenon DEF Held, PlaceMap
          <6>11. \A c \in T.bitmap : c # T.addrs[NDIRECT] => V.data[c] = T.data[c]
            BY <6>6, <6>8, <4>1, <4>4, Zenon DEF WorkType
          <6>12. Held(T)[Pos(bn)] = 0
            BY <4>6, <4>9, Zenon
          <6>13. Grows(T, V, O) /\ Held(V)[Pos(bn)] = b
            <7>1. V.bitmap = T.bitmap \union {b} /\ V.size = T.size /\ V.out = T.out
              BY <6>8, Zenon
            <7>2. Fresh(T, V, Pos(bn), b)
              BY <7>1, <6>10, <6>11, <6>12, <3>1, Zenon DEF Fresh
            <7> QED BY <7>2, <6>9, <4>1, <4>2, <1>3, Zenon
          <6>14. Grows(S, V, O)
            BY <6>13, <4>1, <1>5, Zenon DEF Filled
          <6>15. Held(S)[Pos(bn)] = 0
            BY <6>12, <4>1, <3>1, Zenon DEF Filled, Grows
          <6>16. V.log \subseteq S.log \union {BitmapBlock, V.addrs[NDIRECT], V.b}
            BY <6>8, <4>1, <4>4, Zenon DEF Filled, a
          <6>17. b # 0
            BY BlockNumbers, Zenon
          <6>18. Filled(S, V, O, Pos(bn))
            BY <6>8, <6>13, <6>14, <6>15, <6>16, <6>17, Zenon DEF Filled
          <6> QED BY <6>3, <6>9, <6>18, Zenon
        <5> QED BY <5>1, <5>2, Zenon
      <4> QED BY <4>8, <4>9, Zenon
    <3> QED BY <3>2, <3>3, Zenon
  <2> QED BY <2>1, <2>2, Zenon
<1> QED BY <1>7, Zenon

-----------------------------------------------------------------------------
(* The loops                                                               *)

\* f is a run of the loop of writei().
Writes(f, S, src, off, n) ==
  f = [k \in 0 .. n |->
         IF k = 0 THEN S ELSE WriteBlock(f[k - 1], off \div BSIZE + k - 1, src, off)]

\* f is a run of the loop of readi().
Reads(f, S, off, m, n) ==
  f = [k \in 0 .. n |->
         IF k = 0 THEN [S EXCEPT !.out = [j \in 1 .. m |-> 0]]
         ELSE ReadBlock(f[k - 1], off \div BSIZE + k - 1, off, m)]

\* f is a run of the loops of itrunc().
Frees(f, S, n) ==
  f = [k \in 0 .. n |->
         IF k = 0 THEN S
         ELSE IF ToFree(S, k) = 0 THEN f[k - 1] ELSE bfree(f[k - 1], ToFree(S, k))]

\* The block of turn k.
Bn(off, k) == off \div BSIZE + k - 1

\* The turns stay within the file.
LEMMA TurnNumbers ==
  ASSUME NEW off \in Nat, NEW n \in Nat \ {0}, off + n <= MAXFILE * BSIZE
  PROVE  /\ Turns(off, n) \in Nat \ {0} /\ off \div BSIZE \in Nat
         /\ \A k \in 1 .. Turns(off, n) : Bn(off, k) \in 0 .. MAXFILE - 1
<1> DEFINE q == off \div BSIZE
           r == (off + n - 1) \div BSIZE
<1>1. off + n - 1 \in Nat /\ off <= off + n - 1 /\ BSIZE \in Nat \ {0} /\ MAXFILE \in Nat
  BY Sizes DEF MAXFILE, NINDIRECT
<1>2. MAXFILE * BSIZE \in Nat
  BY <1>1
<1>3. off + n - 1 < MAXFILE * BSIZE
  BY <1>2
<1>4. q \in Nat /\ r \in Nat
  BY <1>1, DivMod, Zenon
<1>5. q <= r
  BY <1>1, DivMono, Zenon
<1>6. r < MAXFILE
  BY <1>1, <1>3, DivLess, Zenon
<1> HIDE DEF q, r
<1>7. Turns(off, n) = r - q + 1 /\ \A k : Bn(off, k) = q + k - 1
  BY Zenon DEF Turns, Bn, q, r
<1>8. r - q + 1 \in Nat \ {0} /\ \A k \in 1 .. (r - q + 1) : q + k - 1 \in 0 .. MAXFILE - 1
  BY <1>1, <1>4, <1>5, <1>6
<1>9. off \div BSIZE \in Nat
  BY <1>4, Zenon DEF q
<1> QED BY <1>7, <1>8, <1>9, Zenon

\* Every cell of the range is in the block of some turn.
LEMMA InTurn ==
  ASSUME NEW off \in Nat, NEW n \in Nat \ {0}, NEW bn \in Nat, NEW c \in 0 .. BSIZE - 1,
         off <= bn * BSIZE + c, bn * BSIZE + c < off + n
  PROVE  \E k \in 1 .. Turns(off, n) : bn = Bn(off, k)
<1> DEFINE q == off \div BSIZE
           r == (off + n - 1) \div BSIZE
           x == bn * BSIZE + c
<1>1. off + n - 1 \in Nat /\ BSIZE \in Nat \ {0} /\ x \in Nat /\ x <= off + n - 1
  BY Sizes
<1>2. q \in Nat /\ r \in Nat
  BY <1>1, DivMod, Zenon
<1>3. x \div BSIZE = bn
  BY <1>1, DivOf, Zenon
<1>4. q <= x \div BSIZE
  <2> HIDE DEF x
  <2>1. off <= x
    BY Zenon DEF x
  <2> QED BY <1>1, <2>1, DivMono, Zenon DEF q
<1>5. x \div BSIZE <= r
  BY <1>1, DivMono, Zenon
<1> HIDE DEF q, r, x
<1>6. Turns(off, n) = r - q + 1 /\ \A k : Bn(off, k) = q + k - 1
  BY Zenon DEF Turns, Bn, q, r
<1>7. bn - q + 1 \in 1 .. (r - q + 1) /\ q + (bn - q + 1) - 1 = bn
  BY <1>2, <1>3, <1>4, <1>5
<1> QED BY <1>6, <1>7, Zenon

\* m blocks of bytes lie in m + 1 blocks at the most.
LEMMA TurnsBound ==
  ASSUME NEW off \in Nat, NEW n \in Nat \ {0}, NEW m \in Nat, n <= m * BSIZE
  PROVE  Turns(off, n) <= m + 1
<1> DEFINE q == off \div BSIZE
           r == (off + n - 1) \div BSIZE
<1>1. off + n - 1 \in Nat /\ BSIZE \in Nat \ {0} /\ m * BSIZE \in Nat
  BY Sizes
<1>2. q \in Nat /\ r \in Nat
  BY <1>1, DivMod, Zenon
<1>3. off < q * BSIZE + BSIZE
  BY <1>1, DivMod
<1> HIDE DEF q
<1>4. (q + m + 1) * BSIZE = q * BSIZE + m * BSIZE + BSIZE /\ q * BSIZE \in Nat
  BY <1>1, <1>2
<1>5. off + n - 1 < (q + m + 1) * BSIZE /\ q + m + 1 \in Nat
  BY <1>1, <1>2, <1>3, <1>4
<1>6. r < q + m + 1
  BY <1>1, <1>5, DivLess, Zenon
<1> HIDE DEF r
<1>7. Turns(off, n) = r - q + 1
  BY Zenon DEF Turns, q, r
<1> QED BY <1>2, <1>6, <1>7

-----------------------------------------------------------------------------
(* writei()                                                                *)

\* V is U with a row written to its block.
Puts(U, V, row) == V = [U EXCEPT !.log = @ \union {U.b}, !.data[U.b] = row]

\* Where in the buffer of a write cell c of block bn comes from.
At(off, bn, c) == bn * BSIZE + c - off + 1

\* T is S after k turns of the loop that writes src at off: the blocks of the
\* turns are there and hold src, cells outside the range and what others own are
\* kept, and the log has the blocks of the turns, the indirect one and the bitmap.
Wrote(S, T, O, src, off, k) ==
  /\ T \in WorkType /\ T.panic = NoPanic /\ OwnWork(T, O) /\ T.size = S.size
  /\ \A l \in Idx : Held(S)[l] # 0 => Held(T)[l] = Held(S)[l]
  /\ \A b \in O : T.data[b] = S.data[b]
  /\ \A j \in 1 .. k : Held(T)[Pos(Bn(off, j))] # 0
  /\ T.log \subseteq S.log \union {BitmapBlock, T.addrs[NDIRECT]}
                           \union {Held(T)[Pos(Bn(off, j))] : j \in 1 .. k}
  /\ \A j \in 1 .. k : \A c \in 0 .. BSIZE - 1 : At(off, Bn(off, j), c) \in 1 .. Len(src) =>
       T.data[Held(T)[Pos(Bn(off, j))]][c] = src[At(off, Bn(off, j), c)]
  /\ \A bn \in 0 .. MAXFILE - 1 : \A c \in 0 .. BSIZE - 1 :
       Held(S)[Pos(bn)] # 0 /\ At(off, bn, c) \notin 1 .. Len(src) =>
         T.data[Held(S)[Pos(bn)]][c] = S.data[Held(S)[Pos(bn)]][c]

\* The row that a turn writes.
NewRow(old, bn, src, off) ==
  [c \in 0 .. BSIZE - 1 |->
     IF At(off, bn, c) \in 1 .. Len(src) THEN src[At(off, bn, c)] ELSE old[c]]

\* Cell x of the file of a work record, and that all its blocks are there.
CellOf(S, x) == S.data[Held(S)[Pos(x \div BSIZE)]][x % BSIZE]
NoHoles(S) ==
  /\ S.size <= MAXFILE * BSIZE
  /\ \A bn \in 0 .. MAXFILE - 1 : bn * BSIZE < S.size => Held(S)[Pos(bn)] # 0

\* What writei() of src at off leaves.
WriteDone(S, V, O, src, off) ==
  /\ V \in WorkType /\ V.panic = NoPanic /\ OwnWork(V, O)
  /\ V.size = IF off + Len(src) > S.size THEN off + Len(src) ELSE S.size
  /\ \A b \in O : V.data[b] = S.data[b]
  /\ NoHoles(V)
  /\ \A x \in 0 .. V.size - 1 :
       CellOf(V, x) = IF x >= off /\ x < off + Len(src) THEN src[x - off + 1] ELSE CellOf(S, x)
  /\ IsFiniteSet(V.log) /\ Cardinality(V.log) <= Turns(off, Len(src)) + 3

LogOf(g, n, a, b, c, L) == L \subseteq ({g[j] : j \in 1 .. n} \union {a, b}) \union {c}

\* A cell of the file: its block, and its place in the range of a write.
LEMMA CellBlock ==
  ASSUME NEW x \in Nat, x < MAXFILE * BSIZE
  PROVE  /\ x \div BSIZE \in 0 .. MAXFILE - 1 /\ x % BSIZE \in 0 .. BSIZE - 1
         /\ (x \div BSIZE) * BSIZE <= x
         /\ x = (x \div BSIZE) * BSIZE + (x % BSIZE)
         /\ \A off \in Nat : At(off, x \div BSIZE, x % BSIZE) = x - off + 1
<1> DEFINE q == x \div BSIZE
           c == x % BSIZE
<1>1. BSIZE \in Nat \ {0} /\ MAXFILE \in Nat
  BY Sizes DEF MAXFILE, NINDIRECT
<1>2. q \in Nat /\ c \in 0 .. BSIZE - 1 /\ x = q * BSIZE + c
  BY <1>1, DivMod, Zenon
<1>3. q < MAXFILE
  BY <1>1, DivLess, Zenon
<1> HIDE DEF q, c
<1>4. q \in 0 .. MAXFILE - 1 /\ q * BSIZE <= x
  BY <1>1, <1>2, <1>3
<1>5. \A off \in Nat : At(off, q, c) = x - off + 1
  <2>1. q * BSIZE \in Nat
    BY <1>1, <1>2
  <2>2. \A off : At(off, q, c) = q * BSIZE + c - off + 1
    BY Zenon DEF At
  <2> QED BY <2>1, <2>2, <1>2
<1> QED BY <1>2, <1>4, <1>5, Zenon DEF q, c

\* The end of writei(): the inode is written.
SetsSize(T, V, z) == V = [T EXCEPT !.size = z, !.log = T.log \union {InodeBlock}]

\* What writei() does when the range is in the file or at its end.
LEMMA WriteiDone ==
  \A S \in WorkType : \A O : \A src \in Seq(Bytes) : \A off \in Nat :
    /\ OwnWork(S, O) /\ S.panic = NoPanic /\ S.log = {} /\ NoHoles(S)
    /\ Len(src) # 0 /\ Fits(S, off, Len(src))
    => \/ writei(S, src, off).panic = OutOfBlocks
       \/ WriteDone(S, writei(S, src, off), O, src, off)
\* The loop of writei() has a run, and ends with its last turn.
<1>1. ASSUME NEW S, NEW src, NEW off, Turns(off, Len(src)) \in Nat
      PROVE  \E f : /\ Writes(f, S, src, off, Turns(off, Len(src)))
                   /\ WriteLoop(S, src, off) = f[Turns(off, Len(src))]
  <2> USE <1>1
  <2> DEFINE Step(x, k) == WriteBlock(x, off \div BSIZE + k - 1, src, off)
             First == S
             Is(f, n) == f = [k \in 0 .. n |-> IF k = 0 THEN First ELSE Step(f[k - 1], k)]
             R == {n \in Nat : \E f : Is(f, n)}
  <2> HIDE DEF Step, First
  <2>1. 0 \in R
    <3> DEFINE g == [k \in 0 .. 0 |-> First]
    <3>1. \A k \in 0 .. 0 : g[k] = IF k = 0 THEN First ELSE Step(g[k - 1], k)
      OBVIOUS
    <3>2. Is(g, 0)
      BY <3>1, Zenon
    <3> QED BY <3>2, Zenon
  <2>2. ASSUME NEW n \in Nat, n \in R PROVE n + 1 \in R
    <3>1. PICK f : Is(f, n)
      BY <2>2, Zenon
    <3>2. \A k \in 0 .. n : f[k] = IF k = 0 THEN First ELSE Step(f[k - 1], k)
      BY <3>1, Zenon
    <3> DEFINE g == [k \in 0 .. n + 1 |-> IF k <= n THEN f[k] ELSE Step(f[n], n + 1)]
    <3>3. ASSUME NEW k \in 0 .. n + 1
          PROVE  g[k] = IF k = 0 THEN First ELSE Step(g[k - 1], k)
      <4>1. CASE k = 0
        <5>1. k \in 0 .. n /\ k <= n
          BY <4>1
        <5> QED BY <5>1, <4>1, <3>2, Zenon
      <4>2. CASE k \in 1 .. n
        <5>1. k \in 0 .. n /\ k - 1 \in 0 .. n + 1 /\ k - 1 <= n /\ k <= n /\ k # 0
          BY <4>2
        <5>2. g[k] = f[k] /\ g[k - 1] = f[k - 1]
          BY <5>1, Zenon
        <5> QED BY <5>1, <5>2, <3>2, Zenon
      <4>3. CASE k = n + 1
        <5>1. ~(k <= n) /\ k - 1 = n /\ n \in 0 .. n + 1 /\ k # 0 /\ n <= n
          BY <4>3
        <5>2. g[k] = Step(f[n], n + 1) /\ g[n] = f[n]
          BY <5>1, Zenon
        <5> QED BY <5>1, <5>2, <4>3, Zenon
      <4> QED BY <4>1, <4>2, <4>3
    <3>4. Is(g, n + 1)
      BY <3>3, Zenon
    <3>5. \E h : Is(h, n + 1)
      BY <3>4, Zenon
    <3> QED BY <3>5
  <2>3. \A n \in Nat : n \in R
    <3> SUFFICES ASSUME NEW n \in Nat PROVE n \in R
      BY Zenon
    <3> HIDE DEF R
    <3>1. \A k \in 1 .. n : k - 1 \in R => k \in R
      <4> SUFFICES ASSUME NEW k \in 1 .. n, k - 1 \in R PROVE k \in R
        OBVIOUS
      <4>1. k - 1 \in Nat /\ (k - 1) + 1 = k
        OBVIOUS
      <4> QED BY <4>1, <2>2, Zenon
    <3>2. n \in 0 .. n
      OBVIOUS
    <3> QED BY <2>1, <3>1, <3>2, Turnwise, Zenon
  <2>4. PICK f : Is(f, Turns(off, Len(src)))
    BY <2>3, Zenon
  <2>5. Writes(f, S, src, off, Turns(off, Len(src)))
    BY <2>4, Zenon DEF Writes, Step, First
  <2> QED BY <2>5, Zenon DEF Writes, WriteLoop
\* Writing a block other than the indirect one moves no block.
<1>2. ASSUME NEW U \in WorkType, NEW O, OwnWork(U, O), NEW l \in Idx \ {NDIRECT}, Held(U)[l] # 0,
             U.b = Held(U)[l], NEW row \in Rows, NEW V, Puts(U, V, row)
      PROVE  /\ V \in WorkType /\ Held(V) = Held(U) /\ OwnWork(V, O)
             /\ U.b \in Blocks /\ U.b \notin O
             /\ V.data[U.b] = row /\ \A b \in Blocks \ {U.b} : V.data[b] = U.data[b]
             /\ V.bitmap = U.bitmap /\ V.size = U.size /\ V.addrs = U.addrs /\ V.panic = U.panic
             /\ V.log = U.log \union {U.b}
  <2> USE <1>2
  <2>1. U.b \in Blocks /\ U.b \notin O /\ U.b \in U.bitmap
    BY Zenon DEF OwnWork, Own
  <2> DEFINE D == [U.data EXCEPT ![U.b] = row]
  <2>2. V = [U EXCEPT !.log = U.log \union {U.b}, !.data = D]
    BY Zenon DEF Puts
  <2>3. D \in [Blocks -> Rows] /\ D[U.b] = row /\ \A b \in Blocks \ {U.b} : D[b] = U.data[b]
    BY <2>1, Zenon DEF WorkType
  <2> HIDE DEF D
  <2>4. /\ V \in WorkType /\ V.data = D /\ V.bitmap = U.bitmap /\ V.size = U.size
        /\ V.addrs = U.addrs /\ V.panic = U.panic /\ V.log = U.log \union {U.b}
    BY <2>1, <2>2, <2>3, Zenon DEF WorkType
  <2>5. Held(U)[NDIRECT] = U.addrs[NDIRECT] /\ U.addrs[NDIRECT] # U.b
    <3>1. NDIRECT \in 0 .. NDIRECT /\ NDIRECT \in Idx
      BY Sizes, Places
    <3>2. Held(U)[NDIRECT] = U.addrs[NDIRECT]
      BY <3>1, HeldPlaces, Zenon
    <3> QED BY <3>1, <3>2, Zenon DEF OwnWork, Own
  <2>6. U.addrs[NDIRECT] # 0 => V.data[U.addrs[NDIRECT]] = U.data[U.addrs[NDIRECT]]
    BY <2>3, <2>4, <2>5, HeldPlaces, Zenon
  <2>7. \A j \in Idx : PlaceOf(V.addrs, V.data, j) = PlaceOf(U.addrs, U.data, j)
    BY <2>4, <2>6, Zenon DEF PlaceOf
  <2>8. Held(V) = Held(U)
    BY <2>7, Zenon DEF Held, PlaceMap
  <2>9. OwnWork(V, O)
    BY <2>4, <2>8, Zenon DEF OwnWork
  <2> QED BY <2>1, <2>3, <2>4, <2>8, <2>9, Zenon
\* Two blocks of a file have two places.
<1>3. ASSUME NEW m \in 0 .. MAXFILE - 1, NEW n \in 0 .. MAXFILE - 1, Pos(m) = Pos(n)
      PROVE  m = n
  BY <1>3, Sizes DEF Pos, MAXFILE, NINDIRECT
\* The row has bytes of the buffer and cells that were there.
<1>4. ASSUME NEW old \in Rows, NEW bn \in Nat, NEW src \in Seq(Bytes), NEW off \in Nat
      PROVE  /\ NewRow(old, bn, src, off) \in Rows
             /\ \A c \in 0 .. BSIZE - 1 :
                  NewRow(old, bn, src, off)[c] =
                    IF At(off, bn, c) \in 1 .. Len(src) THEN src[At(off, bn, c)] ELSE old[c]
  <2> USE <1>4
  <2>1. ASSUME NEW c \in 0 .. BSIZE - 1
        PROVE  (IF At(off, bn, c) \in 1 .. Len(src) THEN src[At(off, bn, c)] ELSE old[c]) \in Cells
    <3> DEFINE x == At(off, bn, c)
    <3> HIDE DEF x
    <3>1. x \in 1 .. Len(src) => src[x] \in Bytes
      OBVIOUS
    <3>2. old[c] \in Cells
      BY Zenon DEF Rows
    <3> QED BY <3>1, <3>2, Zenon DEF Cells, x
  <2> QED BY <2>1, Zenon DEF NewRow, Rows
\* A turn of writei() is a bmap() and the write of a row.
<1>5. ASSUME NEW S, S.panic = NoPanic, NEW bn, NEW src, NEW off
      PROVE  IF bmap(S, bn).panic # NoPanic
             THEN WriteBlock(S, bn, src, off) = bmap(S, bn)
             ELSE Puts(bmap(S, bn), WriteBlock(S, bn, src, off),
                       NewRow(bmap(S, bn).data[bmap(S, bn).b], bn, src, off))
  BY <1>5, Zenon DEF WriteBlock, NewRow, At, Puts
\* One turn.
<1>6. ASSUME NEW S \in WorkType, NEW O, OwnWork(S, O), NEW src \in Seq(Bytes), Len(src) # 0,
             NEW off \in Nat, off + Len(src) <= MAXFILE * BSIZE,
             NEW k \in 1 .. Turns(off, Len(src)), NEW T, Wrote(S, T, O, src, off, k - 1),
             NEW V, V = WriteBlock(T, Bn(off, k), src, off)
      PROVE  V \in WorkType /\ (V.panic = OutOfBlocks \/ Wrote(S, V, O, src, off, k))
  <2> USE <1>6
  <2> DEFINE bn == Bn(off, k)
             U == bmap(T, bn)
             row == NewRow(U.data[U.b], bn, src, off)
  <2>1. /\ bn \in 0 .. MAXFILE - 1 /\ k \in Nat /\ bn \in Nat
        /\ \A j \in 1 .. k - 1 : Bn(off, j) \in 0 .. MAXFILE - 1 /\ Bn(off, j) # bn
        /\ \A j \in 1 .. k : j = k \/ j \in 1 .. k - 1
    <3>1. Len(src) \in Nat \ {0}
      OBVIOUS
    <3>2. /\ Turns(off, Len(src)) \in Nat \ {0} /\ off \div BSIZE \in Nat
          /\ \A j \in 1 .. Turns(off, Len(src)) : Bn(off, j) \in 0 .. MAXFILE - 1
      BY <3>1, TurnNumbers, Zenon
    <3>3. \A j \in 1 .. k - 1 : j \in 1 .. Turns(off, Len(src))
      BY <3>2
    <3>4. \A j \in 1 .. k - 1 : Bn(off, j) # bn
      BY <3>2 DEF Bn
    <3>5. bn \in Nat /\ k \in Nat /\ \A j \in 1 .. k : j = k \/ j \in 1 .. k - 1
      BY <3>2
    <3> QED BY <3>2, <3>3, <3>4, <3>5, Zenon
  <2>2. T \in WorkType /\ T.panic = NoPanic /\ OwnWork(T, O)
    BY Zenon DEF Wrote
  <2>3. IF U.panic # NoPanic THEN V = U ELSE Puts(U, V, row)
    BY <2>2, <1>5, Zenon
  <2> HIDE DEF bn, U, row
  <2>4. CASE U.panic = OutOfBlocks
    <3>1. U \in WorkType
      BY <2>1, <2>2, BmapFills, Zenon DEF U
    <3> QED BY <3>1, <2>3, <2>4, Zenon DEF OutOfBlocks, NoPanic
  <2>5. CASE ~(U.panic = OutOfBlocks)
    <3>1. U \in WorkType /\ Filled(T, U, O, Pos(bn))
      BY <2>1, <2>2, <2>5, BmapFills, Zenon DEF U
    <3>2. /\ Grows(T, U, O) /\ OwnWork(U, O) /\ U.panic = NoPanic /\ U.b = Held(U)[Pos(bn)]
          /\ U.b # 0 /\ U.log \subseteq T.log \union {BitmapBlock, U.addrs[NDIRECT], U.b}
      BY <3>1, Zenon DEF Filled, Grows
    <3>3. Pos(bn) \in Idx \ {NDIRECT} /\ NDIRECT \in Idx /\ NDIRECT \in 0 .. NDIRECT
      BY <2>1, Places, Sizes
    <3>4. U.b \in Blocks /\ U.data[U.b] \in Rows
      BY <3>1, <3>2, <3>3, Zenon DEF OwnWork, Own, WorkType
    <3>5. /\ row \in Rows
          /\ \A c \in 0 .. BSIZE - 1 : row[c] =
               IF At(off, bn, c) \in 1 .. Len(src) THEN src[At(off, bn, c)] ELSE U.data[U.b][c]
      <4> DEFINE old == U.data[U.b]
      <4>1. old \in Rows /\ bn \in Nat /\ row = NewRow(old, bn, src, off)
        BY <3>4, <2>1, Zenon DEF row
      <4> HIDE DEF old
      <4>2. /\ NewRow(old, bn, src, off) \in Rows
            /\ \A c \in 0 .. BSIZE - 1 :
                NewRow(old, bn, src, off)[c] =
                  IF At(off, bn, c) \in 1 .. Len(src) THEN src[At(off, bn, c)] ELSE old[c]
        BY <4>1, <1>4, Zenon
      <4>3. /\ row \in Rows
            /\ \A c \in 0 .. BSIZE - 1 : row[c] =
                 IF At(off, bn, c) \in 1 .. Len(src) THEN src[At(off, bn, c)] ELSE old[c]
        BY <4>1, <4>2, Zenon
      <4> QED BY <4>3, Zenon DEF old
    <3>6. Puts(U, V, row)
      BY <2>3, <3>2, Zenon
    <3>7. /\ V \in WorkType /\ Held(V) = Held(U) /\ OwnWork(V, O)
          /\ U.b \in Blocks /\ U.b \notin O
          /\ V.data[U.b] = row /\ \A b \in Blocks \ {U.b} : V.data[b] = U.data[b]
          /\ V.bitmap = U.bitmap /\ V.size = U.size /\ V.addrs = U.addrs /\ V.panic = U.panic
          /\ V.log = U.log \union {U.b}
      <4>1. Held(U)[Pos(bn)] # 0
        BY <3>2, Zenon
      <4> QED BY <3>1, <3>2, <3>3, <3>5, <3>6, <4>1, <1>2
    \* What the turns before have put in place stays there.
    <3>8. /\ \A l \in Idx : Held(T)[l] # 0 => Held(V)[l] = Held(T)[l]
          /\ \A b \in O : V.data[b] = T.data[b]
          /\ \A l \in Idx \ {NDIRECT, Pos(bn)} :
               Held(T)[l] # 0 => V.data[Held(T)[l]] = T.data[Held(T)[l]]
          /\ Held(T)[Pos(bn)] # 0 => U.data[U.b] = T.data[Held(T)[Pos(bn)]]
      <4>1. \A l \in Idx : Held(T)[l] # 0 => Held(V)[l] = Held(T)[l]
        BY <3>2, <3>7, Zenon DEF Grows
      <4>2. \A b \in O : V.data[b] = T.data[b]
        <5>1. \A b \in O : b \in Blocks
          BY <3>2, Zenon DEF OwnWork, Own
        <5> QED BY <5>1, <3>2, <3>7, Zenon DEF Grows
      <4>3. ASSUME NEW l \in Idx \ {NDIRECT, Pos(bn)}, Held(T)[l] # 0
            PROVE  V.data[Held(T)[l]] = T.data[Held(T)[l]]
        <5>1. Held(U)[l] = Held(T)[l] /\ U.data[Held(T)[l]] = T.data[Held(T)[l]]
          BY <4>3, <3>2, Zenon DEF Grows
        <5>2. Held(U)[l] \in Blocks \ {U.b}
          BY <4>3, <5>1, <3>2, <3>3 DEF OwnWork, Own
        <5> QED BY <5>1, <5>2, <3>7, Zenon
      <4>4. Held(T)[Pos(bn)] # 0 => U.data[U.b] = T.data[Held(T)[Pos(bn)]]
        BY <3>2, <3>3, Zenon DEF Grows
      <4> QED BY <4>1, <4>2, <4>3, <4>4, Zenon
    <3>9. \A l \in Idx : Held(S)[l] # 0 => Held(V)[l] = Held(S)[l] /\ Held(T)[l] = Held(S)[l]
      BY <3>8, Zenon DEF Wrote
    <3>10. \A b \in O : V.data[b] = S.data[b]
      BY <3>8, Zenon DEF Wrote
    <3>11. /\ \A j \in 1 .. k - 1 :
                /\ Pos(Bn(off, j)) \in Idx \ {NDIRECT, Pos(bn)} /\ Held(T)[Pos(Bn(off, j))] # 0
                /\ Held(V)[Pos(Bn(off, j))] = Held(T)[Pos(Bn(off, j))]
      <4> SUFFICES ASSUME NEW j \in 1 .. k - 1
                   PROVE  /\ Pos(Bn(off, j)) \in Idx \ {NDIRECT, Pos(bn)}
                          /\ Held(T)[Pos(Bn(off, j))] # 0
                          /\ Held(V)[Pos(Bn(off, j))] = Held(T)[Pos(Bn(off, j))]
        BY Zenon
      <4>1. Pos(Bn(off, j)) \in Idx \ {NDIRECT}
        BY <2>1, Places, Zenon
      <4>2. Pos(Bn(off, j)) # Pos(bn)
        BY <2>1, <1>3, Zenon
      <4>3. Held(T)[Pos(Bn(off, j))] # 0
        BY Zenon DEF Wrote
      <4> QED BY <4>1, <4>2, <4>3, <3>8, Zenon
    <3>12. \A j \in 1 .. k : Held(V)[Pos(Bn(off, j))] # 0
      BY <3>11, <3>2, <3>7, <2>1, Zenon DEF bn
    <3>13. V.log \subseteq S.log \union {BitmapBlock, V.addrs[NDIRECT]}
                                \union {Held(V)[Pos(Bn(off, j))] : j \in 1 .. k}
      <4> SUFFICES ASSUME NEW b \in V.log, b \notin S.log, b # BitmapBlock, b # V.addrs[NDIRECT]
                   PROVE  \E j \in 1 .. k : b = Held(V)[Pos(Bn(off, j))]
        OBVIOUS
      <4>1. CASE b = U.b
        <5>1. k \in 1 .. k
          BY <2>1
        <5> QED BY <4>1, <5>1, <3>2, <3>7, Zenon DEF bn
      <4>2. CASE b # U.b
        <5>1. b \in T.log
          BY <4>2, <3>2, <3>7, Zenon
        <5>2. b # 0
          BY <5>1, <2>2, BlockNumbers, Zenon DEF WorkType, BitmapBlock, InodeBlock
        <5>3. Held(T)[NDIRECT] = T.addrs[NDIRECT] /\ Held(V)[NDIRECT] = V.addrs[NDIRECT]
          BY <2>2, <3>3, <3>7, HeldPlaces, Zenon
        <5>4. b # T.addrs[NDIRECT]
          BY <5>2, <5>3, <3>3, <3>8, Zenon
        <5>5. PICK j \in 1 .. k - 1 : b = Held(T)[Pos(Bn(off, j))]
          BY <5>1, <5>4, Zenon DEF Wrote
        <5>6. j \in 1 .. k
          BY <2>1
        <5> QED BY <5>5, <5>6, <3>11, Zenon
      <4> QED BY <4>1, <4>2, Zenon
    <3>14. ASSUME NEW j \in 1 .. k, NEW c \in 0 .. BSIZE - 1,
                  At(off, Bn(off, j), c) \in 1 .. Len(src)
           PROVE  V.data[Held(V)[Pos(Bn(off, j))]][c] = src[At(off, Bn(off, j), c)]
      <4>1. CASE j = k
        BY <4>1, <3>14, <3>5, <3>2, <3>7, Zenon DEF bn
      <4>2. CASE j \in 1 .. k - 1
        <5>1. V.data[Held(V)[Pos(Bn(off, j))]] = T.data[Held(T)[Pos(Bn(off, j))]]
          BY <4>2, <3>8, <3>11, Zenon
        <5> QED BY <5>1, <4>2, <3>14, Zenon DEF Wrote
      <4> QED BY <4>1, <4>2, <2>1, Zenon
    <3>15. ASSUME NEW n \in 0 .. MAXFILE - 1, NEW c \in 0 .. BSIZE - 1, Held(S)[Pos(n)] # 0,
                  At(off, n, c) \notin 1 .. Len(src)
           PROVE  V.data[Held(S)[Pos(n)]][c] = S.data[Held(S)[Pos(n)]][c]
      <4>1. T.data[Held(S)[Pos(n)]][c] = S.data[Held(S)[Pos(n)]][c]
        BY <3>15, Zenon DEF Wrote
      <4>2. Pos(n) \in Idx \ {NDIRECT}
        BY Places, Zenon
      <4>3. Held(T)[Pos(n)] = Held(S)[Pos(n)]
        BY <4>2, <3>9, <3>15, Zenon
      <4>4. CASE n = bn
        <5>1. V.data[Held(S)[Pos(n)]] = row
          BY <4>2, <4>4, <3>2, <3>7, <3>9, <3>15
        <5>2. row[c] = U.data[U.b][c]
          BY <3>5, <3>15, <4>4, Zenon
        <5>3. U.data[U.b] = T.data[Held(S)[Pos(n)]]
          BY <4>3, <4>4, <3>8, <3>15, Zenon
        <5> QED BY <5>1, <5>2, <5>3, <4>1, Zenon
      <4>5. CASE n # bn
        <5>1. Pos(n) # Pos(bn)
          BY <4>5, <2>1, <1>3, Zenon
        <5> QED BY <5>1, <4>1, <4>2, <4>3, <3>8, <3>15, Zenon
      <4> QED BY <4>4, <4>5, Zenon
    <3>16. V.size = S.size
      BY <3>2, <3>7, Zenon DEF Grows, Wrote
    <3>17. Wrote(S, V, O, src, off, k)
      BY <3>2, <3>7, <3>9, <3>10, <3>12, <3>13, <3>14, <3>15, <3>16, Zenon DEF Wrote
    <3> QED BY <3>7, <3>17, Zenon
  <2> QED BY <2>4, <2>5, Zenon
\* The whole loop.
<1>7. ASSUME NEW S \in WorkType, NEW O, OwnWork(S, O), S.panic = NoPanic,
             NEW src \in Seq(Bytes), Len(src) # 0,
             NEW off \in Nat, off + Len(src) <= MAXFILE * BSIZE
      PROVE  /\ WriteLoop(S, src, off) \in WorkType
             /\ \/ WriteLoop(S, src, off).panic = OutOfBlocks
                \/ Wrote(S, WriteLoop(S, src, off), O, src, off, Turns(off, Len(src)))
  <2> USE <1>7
  <2> DEFINE n == Turns(off, Len(src))
  <2>1. n \in Nat \ {0}
    <3>1. Len(src) \in Nat \ {0}
      OBVIOUS
    <3> QED BY <3>1, TurnNumbers, Zenon
  <2> HIDE DEF n
  <2>2. PICK f : Writes(f, S, src, off, n) /\ WriteLoop(S, src, off) = f[n]
    BY <2>1, <1>1, Zenon DEF n
  <2>3. \A k \in 0 .. n : f[k] = IF k = 0 THEN S ELSE WriteBlock(f[k - 1], Bn(off, k), src, off)
    BY <2>2, Zenon DEF Writes, Bn
  <2> DEFINE Good(k) == /\ f[k] \in WorkType
                        /\ f[k].panic = OutOfBlocks \/ Wrote(S, f[k], O, src, off, k)
             R == {k \in 0 .. n : Good(k)}
  <2>4. Good(0) /\ 0 \in 0 .. n
    <3>1. f[0] = S /\ 0 \in 0 .. n
      BY <2>1, <2>3
    <3>2. \A j \in 1 .. 0 : FALSE
      OBVIOUS
    <3>3. Wrote(S, S, O, src, off, 0)
      BY <3>2, Zenon DEF Wrote
    <3> QED BY <3>1, <3>3, Zenon
  <2>5. ASSUME NEW k \in 1 .. n, Good(k - 1) PROVE Good(k)
    <3>1. k \in 0 .. n /\ k # 0
      BY <2>1
    <3>2. f[k] = WriteBlock(f[k - 1], Bn(off, k), src, off)
      BY <2>3, <3>1, Zenon
    <3>3. CASE f[k - 1].panic = OutOfBlocks
      <4>1. f[k] = f[k - 1]
        BY <3>2, <3>3, Zenon DEF WriteBlock, OutOfBlocks, NoPanic
      <4> QED BY <4>1, <3>3, <2>5, Zenon
    <3>4. CASE Wrote(S, f[k - 1], O, src, off, k - 1)
      BY <3>2, <3>4, <1>6, Zenon DEF n
    <3> QED BY <3>3, <3>4, <2>5, Zenon
  <2> HIDE DEF Good
  <2>6. 0 .. n \subseteq R
    <3>1. 0 \in R
      BY <2>4, Zenon
    <3>2. \A k \in 1 .. n : k - 1 \in R => k \in R
      BY <2>1, <2>5
    <3>3. n \in Nat
      BY <2>1, Zenon
    <3> HIDE DEF R
    <3> QED BY <3>1, <3>2, <3>3, Turnwise, Zenon
  <2>7. Good(n)
    BY <2>1, <2>6
  <2> QED BY <2>2, <2>7, Zenon DEF Good, n
\* At most n blocks of a loop, and three more.
<1>8. ASSUME NEW n \in Nat, NEW g, NEW a, NEW b, NEW c, NEW L,
             LogOf(g, n, a, b, c, L)
      PROVE  IsFiniteSet(L) /\ Cardinality(L) <= n + 3 /\ Cardinality(L) \in Nat
  <2> USE <1>8
  <2> DEFINE T == {g[j] : j \in 1 .. n}
             h == [j \in 1 .. n |-> g[j]]
  <2>1. IsFiniteSet(1 .. n) /\ Cardinality(1 .. n) = n
    BY FS_Interval
  <2>2. h \in Surjection(1 .. n, T)
    BY Zenon DEF Surjection
  <2>3. IsFiniteSet(T) /\ Cardinality(T) <= n
    BY <2>1, <2>2, FS_Surjection
  <2> HIDE DEF T
  <2>4. Cardinality(T) \in Nat
    BY <2>3, FS_CardinalityType, Zenon
  <2>5. IsFiniteSet(T \union {a}) /\ Cardinality(T \union {a}) \in Nat
        /\ Cardinality(T \union {a}) <= n + 1
    BY <2>3, <2>4, FS_AddElement
  <2>6. IsFiniteSet((T \union {a}) \union {b}) /\ Cardinality((T \union {a}) \union {b}) \in Nat
        /\ Cardinality((T \union {a}) \union {b}) <= n + 2
    <3> DEFINE X == T \union {a}
    <3> HIDE DEF X
    <3>1. IsFiniteSet(X \union {b}) /\ Cardinality(X \union {b}) \in Nat
          /\ Cardinality(X \union {b}) <= n + 2
      BY <2>5, FS_AddElement DEF X
    <3> QED BY <3>1, Zenon DEF X
  <2> DEFINE Y == (T \union {a}) \union {b}
  <2>7. Y = T \union {a, b}
    OBVIOUS
  <2> HIDE DEF Y
  <2>8. IsFiniteSet(Y \union {c}) /\ Cardinality(Y \union {c}) <= n + 3
        /\ Cardinality(Y \union {c}) \in Nat
    <3>1. IsFiniteSet(Y) /\ Cardinality(Y) \in Nat /\ Cardinality(Y) <= n + 2
      BY <2>6, Zenon DEF Y
    <3> QED BY <3>1, FS_AddElement
  <2>9. L \in SUBSET (Y \union {c})
    BY <2>7, Zenon DEF T, LogOf
  <2>10. IsFiniteSet(L) /\ Cardinality(L) <= Cardinality(Y \union {c})
    BY <2>8, <2>9, FS_Subset, Zenon
  <2>11. Cardinality(L) \in Nat
    BY <2>10, FS_CardinalityType, Zenon
  <2> QED BY <2>8, <2>10, <2>11
\* It changes size and log alone.
<1>9. ASSUME NEW T \in WorkType, NEW z \in Nat, NEW V, SetsSize(T, V, z)
      PROVE  /\ V.panic = T.panic /\ V \in WorkType /\ V.data = T.data /\ V.addrs = T.addrs
             /\ V.bitmap = T.bitmap /\ V.log \subseteq T.log \union {InodeBlock} /\ V.size = z
  BY <1>9, Zenon DEF WorkType, SetsSize
<1>10. ASSUME NEW S \in WorkType, NEW O, OwnWork(S, O), S.panic = NoPanic, S.log = {}, NoHoles(S),
              NEW src \in Seq(Bytes), Len(src) # 0, NEW off \in Nat, Fits(S, off, Len(src)),
              NEW V, V = writei(S, src, off)
       PROVE  V.panic = OutOfBlocks \/ WriteDone(S, V, O, src, off)
  <2> USE <1>10
  <2> DEFINE T == WriteLoop(S, src, off)
             n == Turns(off, Len(src))
  <2>1. /\ Len(src) \in Nat \ {0} /\ off <= S.size /\ off + Len(src) <= MAXFILE * BSIZE
        /\ S.size \in Nat /\ off + Len(src) \in Nat
    BY DEF Fits, WorkType
  <2>2. V = IF off + Len(src) > S.size
            THEN [T EXCEPT !.size = off + Len(src), !.log = @ \union {InodeBlock}] ELSE T
    BY Zenon DEF writei, NewSize
  <2>3. T \in WorkType /\ (T.panic = OutOfBlocks \/ Wrote(S, T, O, src, off, n))
    BY <2>1, <1>7, Zenon
  <2>4. n \in Nat \ {0} /\ \A k \in 1 .. n : Bn(off, k) \in 0 .. MAXFILE - 1
    BY <2>1, TurnNumbers, Zenon
  <2> HIDE DEF T, n
  <2>5. /\ V.panic = T.panic /\ V \in WorkType /\ V.data = T.data /\ V.addrs = T.addrs
        /\ V.bitmap = T.bitmap /\ V.log \subseteq T.log \union {InodeBlock}
        /\ V.size = IF off + Len(src) > S.size THEN off + Len(src) ELSE T.size
    <3>1. CASE off + Len(src) > S.size
      <4>1. V = [T EXCEPT !.size = off + Len(src), !.log = T.log \union {InodeBlock}]
        BY <2>2, <3>1, Zenon
      <4> DEFINE z == off + Len(src)
      <4>2. z \in Nat /\ SetsSize(T, V, z)
        BY <2>1, <4>1, Zenon DEF SetsSize
      <4> HIDE DEF z
      <4>3. /\ V.panic = T.panic /\ V \in WorkType /\ V.data = T.data /\ V.addrs = T.addrs
            /\ V.bitmap = T.bitmap /\ V.log \subseteq T.log \union {InodeBlock} /\ V.size = z
        BY <2>3, <4>2, <1>9
      <4> QED BY <4>3, <3>1, Zenon DEF z
    <3>2. CASE ~(off + Len(src) > S.size)
      BY <2>2, <2>3, <3>2, Zenon
    <3> QED BY <3>1, <3>2, Zenon
  <2>6. CASE Wrote(S, T, O, src, off, n)
    <3>1. T \in WorkType /\ T.panic = NoPanic /\ OwnWork(T, O) /\ T.size = S.size
      BY <2>6, Zenon DEF Wrote
    <3>2. /\ V \in WorkType /\ V.panic = NoPanic /\ V.data = T.data /\ V.addrs = T.addrs
          /\ V.bitmap = T.bitmap /\ V.log \subseteq T.log \union {InodeBlock}
          /\ V.size = IF off + Len(src) > S.size THEN off + Len(src) ELSE S.size
      BY <2>5, <3>1, Zenon
    <3>3. Held(V) = Held(T) /\ OwnWork(V, O)
      BY <3>1, <3>2, Zenon DEF Held, OwnWork
    <3>4. \A b \in O : V.data[b] = S.data[b]
      BY <2>6, <3>2, Zenon DEF Wrote
    <3>5. /\ \A l \in Idx : Held(S)[l] # 0 => Held(V)[l] = Held(S)[l]
          /\ \A j \in 1 .. n : Held(V)[Pos(Bn(off, j))] # 0
      BY <2>6, <3>3, Zenon DEF Wrote
    \* The blocks below the new size.
    <3>6. V.size <= MAXFILE * BSIZE
      BY <2>1, <3>2, Zenon DEF NoHoles
    <3>7. ASSUME NEW bn \in 0 .. MAXFILE - 1, bn * BSIZE < V.size PROVE Held(V)[Pos(bn)] # 0
      <4>1. Pos(bn) \in Idx /\ bn * BSIZE \in Nat /\ 0 \in 0 .. BSIZE - 1
            /\ bn \in Nat /\ bn * BSIZE + 0 = bn * BSIZE
        BY Places, Sizes
      <4>2. CASE bn * BSIZE < S.size
        BY <4>1, <4>2, <3>5, Zenon DEF NoHoles
      <4>3. CASE ~(bn * BSIZE < S.size)
        <5>1. off <= bn * BSIZE + 0 /\ bn * BSIZE + 0 < off + Len(src)
          BY <4>1, <4>3, <3>2, <3>7, <2>1
        <5>2. \E k \in 1 .. n : bn = Bn(off, k)
          BY <4>1, <5>1, <2>1, InTurn, Zenon DEF n
        <5> QED BY <5>2, <3>5, Zenon
      <4> QED BY <4>2, <4>3, Zenon
    <3>8. ASSUME NEW x \in 0 .. V.size - 1
          PROVE  CellOf(V, x) = IF x >= off /\ x < off + Len(src) THEN src[x - off + 1]
                                ELSE CellOf(S, x)
      <4> DEFINE q == x \div BSIZE
                 c == x % BSIZE
      <4>1. x \in Nat /\ x < MAXFILE * BSIZE
        BY <3>2, <3>6, Sizes DEF WorkType, MAXFILE, NINDIRECT
      <4>2. /\ q \in 0 .. MAXFILE - 1 /\ c \in 0 .. BSIZE - 1 /\ q * BSIZE <= x
            /\ x = q * BSIZE + c /\ At(off, q, c) = x - off + 1
        BY <4>1, CellBlock, Zenon
      <4> HIDE DEF q, c
      <4>3. q \in Nat /\ Pos(q) \in Idx /\ q * BSIZE \in Nat
        BY <4>2, Places, Sizes
      <4>4. CellOf(V, x) = T.data[Held(V)[Pos(q)]][c] /\ CellOf(S, x) = S.data[Held(S)[Pos(q)]][c]
        BY <3>2, Zenon DEF CellOf, q, c
      <4>5. CASE x >= off /\ x < off + Len(src)
        <5>1. off <= q * BSIZE + c /\ q * BSIZE + c < off + Len(src)
          BY <4>2, <4>5, Zenon
        <5>2. PICK k \in 1 .. n : q = Bn(off, k)
          BY <4>2, <4>3, <5>1, <2>1, InTurn, Zenon DEF n
        <5>3. At(off, Bn(off, k), c) \in 1 .. Len(src)
          BY <4>1, <4>2, <4>5, <5>2, <2>1
        <5>4. T.data[Held(T)[Pos(Bn(off, k))]][c] = src[At(off, Bn(off, k), c)]
          BY <5>3, <4>2, <2>6, Zenon DEF Wrote
        <5> QED BY <5>2, <5>4, <4>2, <4>4, <4>5, <3>3, Zenon
      <4>6. CASE ~(x >= off /\ x < off + Len(src))
        <5>1. x < S.size
          BY <4>1, <4>6, <3>2, <2>1
        <5>2. Held(S)[Pos(q)] # 0
          BY <5>1, <4>1, <4>2, <4>3, <2>1 DEF NoHoles
        <5>3. At(off, q, c) \notin 1 .. Len(src)
          BY <4>1, <4>2, <4>6, <2>1
        <5>4. T.data[Held(S)[Pos(q)]][c] = S.data[Held(S)[Pos(q)]][c]
          BY <5>2, <5>3, <4>2, <2>6, Zenon DEF Wrote
        <5> QED BY <5>2, <5>4, <4>3, <4>4, <4>6, <3>5, Zenon
      <4> QED BY <4>5, <4>6, Zenon
    <3>9. IsFiniteSet(V.log) /\ Cardinality(V.log) <= n + 3
      <4> DEFINE g == [j \in 1 .. n |-> Held(T)[Pos(Bn(off, j))]]
      <4>1. T.log \subseteq S.log \union {BitmapBlock, T.addrs[NDIRECT]}
                             \union {Held(T)[Pos(Bn(off, j))] : j \in 1 .. n}
        BY <2>6, Zenon DEF Wrote
      <4>2. {Held(T)[Pos(Bn(off, j))] : j \in 1 .. n} = {g[j] : j \in 1 .. n}
        OBVIOUS
      <4> HIDE DEF g
      <4>3. LogOf(g, n, BitmapBlock, T.addrs[NDIRECT], InodeBlock, V.log)
        BY <4>1, <4>2, <3>2, Zenon DEF LogOf
      <4>4. n \in Nat
        BY <2>4, Zenon
      <4> QED BY <4>3, <4>4, <1>8, Zenon
    <3>10. NoHoles(V)
      BY <3>6, <3>7, Zenon DEF NoHoles
    <3> QED BY <3>2, <3>3, <3>4, <3>8, <3>9, <3>10, Zenon DEF WriteDone, n
  <2> QED BY <2>3, <2>5, <2>6, Zenon
<1> QED BY <1>10, Zenon

-----------------------------------------------------------------------------
(* readi()                                                                 *)

\* T is S with the cells of k blocks read.
HasRead(S, T, off, m, k) ==
  /\ T \in WorkType /\ T.panic = NoPanic /\ T.bitmap = S.bitmap /\ T.data = S.data
  /\ T.addrs = S.addrs /\ T.size = S.size /\ T.log = S.log /\ T.out \in [1 .. m -> Cells]
  /\ \A j \in 1 .. m : (\E i \in 1 .. k : (off + j - 1) \div BSIZE = Bn(off, i)) =>
       T.out[j] = CellOf(S, off + j - 1)

\* The buffer after a turn.
NewOut(out, row, bn, off, m) ==
  [j \in 1 .. m |-> IF off + j - 1 - bn * BSIZE \in 0 .. BSIZE - 1
                    THEN row[off + j - 1 - bn * BSIZE] ELSE out[j]]

\* The record after a turn.
Takes(T, V, b, o) == V = [T EXCEPT !.b = b, !.out = o]

\* What readi() of n cells at off returns: what is there.
ReadLen(S, off, n) == IF off + n > S.size THEN S.size - off ELSE n
ReadDone(S, V, off, n) ==
  /\ V \in WorkType /\ V.panic = NoPanic /\ V.bitmap = S.bitmap /\ V.data = S.data
  /\ V.addrs = S.addrs /\ V.size = S.size /\ V.log = S.log
  /\ ReadLen(S, off, n) \in Nat /\ off + ReadLen(S, off, n) <= S.size
  /\ V.out \in [1 .. ReadLen(S, off, n) -> Cells]
  /\ \A j \in 1 .. ReadLen(S, off, n) : V.out[j] = CellOf(S, off + j - 1)

\* readi() finds all blocks, allocates none, and copies the cells.
LEMMA ReadiDone ==
  \A S \in WorkType : \A O : \A off, n \in Nat :
    OwnWork(S, O) /\ S.panic = NoPanic /\ NoHoles(S) /\ S.out = << >> /\ off <= S.size
    => ReadDone(S, readi(S, off, n), off, n)
\* The loop of readi() has a run, and ends with its last turn.
<1>1. ASSUME NEW S, NEW off, NEW m, Turns(off, m) \in Nat
      PROVE  \E f : Reads(f, S, off, m, Turns(off, m)) /\ ReadLoop(S, off, m) = f[Turns(off, m)]
  <2> USE <1>1
  <2> DEFINE Step(x, k) == ReadBlock(x, off \div BSIZE + k - 1, off, m)
             First == [S EXCEPT !.out = [j \in 1 .. m |-> 0]]
             Is(f, n) == f = [k \in 0 .. n |-> IF k = 0 THEN First ELSE Step(f[k - 1], k)]
             R == {n \in Nat : \E f : Is(f, n)}
  <2> HIDE DEF Step, First
  <2>1. 0 \in R
    <3> DEFINE g == [k \in 0 .. 0 |-> First]
    <3>1. \A k \in 0 .. 0 : g[k] = IF k = 0 THEN First ELSE Step(g[k - 1], k)
      OBVIOUS
    <3>2. Is(g, 0)
      BY <3>1, Zenon
    <3> QED BY <3>2, Zenon
  <2>2. ASSUME NEW n \in Nat, n \in R PROVE n + 1 \in R
    <3>1. PICK f : Is(f, n)
      BY <2>2, Zenon
    <3>2. \A k \in 0 .. n : f[k] = IF k = 0 THEN First ELSE Step(f[k - 1], k)
      BY <3>1, Zenon
    <3> DEFINE g == [k \in 0 .. n + 1 |-> IF k <= n THEN f[k] ELSE Step(f[n], n + 1)]
    <3>3. ASSUME NEW k \in 0 .. n + 1
          PROVE  g[k] = IF k = 0 THEN First ELSE Step(g[k - 1], k)
      <4>1. CASE k = 0
        <5>1. k \in 0 .. n /\ k <= n
          BY <4>1
        <5> QED BY <5>1, <4>1, <3>2, Zenon
      <4>2. CASE k \in 1 .. n
        <5>1. k \in 0 .. n /\ k - 1 \in 0 .. n + 1 /\ k - 1 <= n /\ k <= n /\ k # 0
          BY <4>2
        <5>2. g[k] = f[k] /\ g[k - 1] = f[k - 1]
          BY <5>1, Zenon
        <5> QED BY <5>1, <5>2, <3>2, Zenon
      <4>3. CASE k = n + 1
        <5>1. ~(k <= n) /\ k - 1 = n /\ n \in 0 .. n + 1 /\ k # 0 /\ n <= n
          BY <4>3
        <5>2. g[k] = Step(f[n], n + 1) /\ g[n] = f[n]
          BY <5>1, Zenon
        <5> QED BY <5>1, <5>2, <4>3, Zenon
      <4> QED BY <4>1, <4>2, <4>3
    <3>4. Is(g, n + 1)
      BY <3>3, Zenon
    <3>5. \E h : Is(h, n + 1)
      BY <3>4, Zenon
    <3> QED BY <3>5
  <2>3. \A n \in Nat : n \in R
    <3> SUFFICES ASSUME NEW n \in Nat PROVE n \in R
      BY Zenon
    <3> HIDE DEF R
    <3>1. \A k \in 1 .. n : k - 1 \in R => k \in R
      <4> SUFFICES ASSUME NEW k \in 1 .. n, k - 1 \in R PROVE k \in R
        OBVIOUS
      <4>1. k - 1 \in Nat /\ (k - 1) + 1 = k
        OBVIOUS
      <4> QED BY <4>1, <2>2, Zenon
    <3>2. n \in 0 .. n
      OBVIOUS
    <3> QED BY <2>1, <3>1, <3>2, Turnwise, Zenon
  <2>4. PICK f : Is(f, Turns(off, m))
    BY <2>3, Zenon
  <2>5. Reads(f, S, off, m, Turns(off, m))
    BY <2>4, Zenon DEF Reads, Step, First
  <2> QED BY <2>5, Zenon DEF Reads, ReadLoop
\* bmap() of a block that is there finds it.
<1>2. ASSUME NEW S \in WorkType, NEW O, OwnWork(S, O), S.panic = NoPanic,
             NEW bn \in 0 .. MAXFILE - 1, Held(S)[Pos(bn)] # 0
      PROVE  bmap(S, bn) = [S EXCEPT !.b = Held(S)[Pos(bn)]] /\ Held(S)[Pos(bn)] \in Blocks
  <2> USE <1>2
  <2>0. Held(S)[Pos(bn)] \in Blocks /\ Pos(bn) \in Idx
    BY Places, Zenon DEF OwnWork, Own
  <2>1. CASE bn < NDIRECT
    <3>1. bmap(S, bn) = Addr(S, bn) /\ Pos(bn) = bn /\ bn \in 0 .. NDIRECT
      BY <2>1, Sizes DEF bmap, Pos
    <3>2. Held(S)[Pos(bn)] = S.addrs[bn]
      BY <3>1, HeldPlaces, Zenon
    <3> QED BY <3>1, <3>2, <2>0, Zenon DEF Addr
  <2>2. CASE ~(bn < NDIRECT)
    <3> DEFINE T == Addr(S, NDIRECT)
               a == S.addrs[NDIRECT]
               k == bn - NDIRECT
    <3>1. /\ NDIRECT \in 0 .. NDIRECT /\ k \in 0 .. BSIZE - 1 /\ Pos(bn) = NDIRECT + 1 + k
          /\ Pos(bn) \in Idx /\ Pos(bn) > NDIRECT
      BY <2>2, Sizes, Places DEF Pos, MAXFILE, NINDIRECT
    <3>2. a # 0
      BY <3>1, HeldPlaces, Zenon
    <3>3. S.data[a][k] = Held(S)[Pos(bn)]
      <4> HIDE DEF k
      <4> QED BY <3>1, <3>2, HeldPlaces
    <3>4. T = [S EXCEPT !.b = a]
      BY <3>2, Zenon DEF Addr
    <3>5. T.panic = NoPanic /\ T.b = a /\ T.data = S.data
      BY <3>4, Zenon DEF WorkType
    <3>6. bmap(S, bn) = IF T.panic # NoPanic THEN T
                        ELSE IF T.data[T.b][k] # 0 THEN [T EXCEPT !.b = T.data[T.b][k]]
                        ELSE IF balloc(T).panic # NoPanic THEN balloc(T)
                        ELSE [balloc(T) EXCEPT !.data[T.b][k] = balloc(T).b, !.log = @ \union {T.b}]
      BY <2>2, Zenon DEF bmap
    <3> HIDE DEF T, k, a
    <3>7. bmap(S, bn) = [T EXCEPT !.b = Held(S)[Pos(bn)]]
      BY <3>3, <3>5, <3>6, Zenon
    <3> QED BY <3>4, <3>7, <2>0, Zenon DEF WorkType
  <2> QED BY <2>1, <2>2, Zenon
\* A turn changes b and out alone.
<1>3. ASSUME NEW T \in WorkType, NEW V, NEW b \in Blocks, NEW m \in Nat, NEW o \in [1 .. m -> Cells],
             Takes(T, V, b, o)
      PROVE  /\ V \in WorkType /\ V.panic = T.panic /\ V.bitmap = T.bitmap /\ V.data = T.data
             /\ V.addrs = T.addrs /\ V.size = T.size /\ V.log = T.log /\ V.out = o
  <2> USE <1>3
  <2>1. o \in Seq(Cells)
    OBVIOUS
  <2> QED BY <2>1, Zenon DEF WorkType, Takes
\* One turn.
<1>4. ASSUME NEW S \in WorkType, NEW O, OwnWork(S, O), NoHoles(S),
             NEW off \in Nat, NEW m \in Nat \ {0}, off + m <= S.size,
             NEW k \in 1 .. Turns(off, m), NEW T, HasRead(S, T, off, m, k - 1),
             NEW V, V = ReadBlock(T, Bn(off, k), off, m)
      PROVE  HasRead(S, V, off, m, k)
  <2> USE <1>4
  <2> DEFINE bn == Bn(off, k)
             b == Held(T)[Pos(bn)]
             o == NewOut(T.out, T.data[b], bn, off, m)
  <2>1. S.size \in Nat /\ off + m <= MAXFILE * BSIZE /\ MAXFILE * BSIZE \in Nat
    BY Sizes DEF WorkType, NoHoles, MAXFILE, NINDIRECT
  <2>2. /\ Turns(off, m) \in Nat /\ bn \in 0 .. MAXFILE - 1 /\ off \div BSIZE \in Nat
        /\ \A j \in 1 .. k : j = k \/ j \in 1 .. k - 1
    BY <2>1, TurnNumbers
  <2>3. bn * BSIZE < S.size
    <3> DEFINE y == off + m - 1
               r == y \div BSIZE
    <3>1. BSIZE \in Nat \ {0} /\ y \in Nat /\ y < S.size
      BY <2>1, Sizes
    <3> HIDE DEF y
    <3>2. r \in Nat /\ r * BSIZE <= y
      <4> DEFINE c == y % BSIZE
      <4>1. r \in Nat /\ c \in 0 .. BSIZE - 1 /\ y = r * BSIZE + c
        BY <3>1, DivMod, Zenon
      <4> HIDE DEF r, c
      <4> QED BY <3>1, <4>1
    <3> DEFINE q == off \div BSIZE
    <3> HIDE DEF r, q
    <3>3. bn <= r /\ bn \in Nat
      <4>1. Turns(off, m) = r - q + 1 /\ bn = q + k - 1 /\ q \in Nat
        BY <2>2, Zenon DEF Bn, Turns, r, q, y
      <4> HIDE DEF bn
      <4> QED BY <4>1, <3>2
    <3> HIDE DEF bn
    <3>4. bn * BSIZE <= r * BSIZE
      BY <3>1, <3>2, <3>3, TimesMono, Zenon
    <3> QED BY <3>1, <3>2, <3>3, <3>4, <2>1
  <2>4. /\ T \in WorkType /\ T.panic = NoPanic /\ T.bitmap = S.bitmap /\ T.data = S.data
        /\ T.addrs = S.addrs /\ T.size = S.size /\ T.log = S.log /\ T.out \in [1 .. m -> Cells]
    BY Zenon DEF HasRead
  <2>5. Held(T) = Held(S) /\ OwnWork(T, O) /\ b # 0
    BY <2>2, <2>3, <2>4, Zenon DEF Held, OwnWork, NoHoles
  <2> HIDE DEF bn
  <2>6. bmap(T, bn) = [T EXCEPT !.b = b] /\ b \in Blocks
    BY <2>2, <2>4, <2>5, <1>2, Zenon
  <2> HIDE DEF b
  <2>7. Takes(T, V, b, o)
    <3> DEFINE U == bmap(T, bn)
    <3>1. V = [U EXCEPT !.out = NewOut(U.out, U.data[U.b], bn, off, m)]
      BY Zenon DEF ReadBlock, NewOut, bn
    <3>2. U.out = T.out /\ U.data = T.data /\ U.b = b
      BY <2>4, <2>6, Zenon DEF WorkType
    <3>3. V = [U EXCEPT !.out = o]
      BY <3>1, <3>2, Zenon
    <3> HIDE DEF o
    <3> QED BY <3>3, <2>4, <2>6, Zenon DEF WorkType, Takes
  <2>8. T.data[b] \in [0 .. BSIZE - 1 -> Cells]
    BY <2>4, <2>6, Zenon DEF WorkType, Rows
  <2>9. o \in [1 .. m -> Cells] /\ \A j \in 1 .. m :
          o[j] = IF off + j - 1 - bn * BSIZE \in 0 .. BSIZE - 1
                 THEN T.data[b][off + j - 1 - bn * BSIZE] ELSE T.out[j]
    BY <2>4, <2>8, Zenon DEF NewOut
  <2> HIDE DEF o
  <2>10. /\ V \in WorkType /\ V.panic = T.panic /\ V.bitmap = T.bitmap /\ V.data = T.data
         /\ V.addrs = T.addrs /\ V.size = T.size /\ V.log = T.log /\ V.out = o
    BY <2>4, <2>6, <2>7, <2>9, <1>3
  <2>11. ASSUME NEW j \in 1 .. m, NEW i \in 1 .. k, (off + j - 1) \div BSIZE = Bn(off, i)
         PROVE  o[j] = CellOf(S, off + j - 1)
    <3> DEFINE x == off + j - 1
               q == x \div BSIZE
               c == x % BSIZE
    <3>1. x \in Nat /\ BSIZE \in Nat \ {0}
      BY Sizes
    <3>2. q \in Nat /\ c \in 0 .. BSIZE - 1 /\ x = q * BSIZE + c
      BY <3>1, DivMod, Zenon
    <3>3. CellOf(S, x) = S.data[Held(S)[Pos(q)]][c]
      BY Zenon DEF CellOf
    <3>4. bn \in Nat /\ bn * BSIZE \in Nat
      BY <2>2, <3>1
    <3>5. /\ x - bn * BSIZE \in 0 .. BSIZE - 1 => o[j] = T.data[b][x - bn * BSIZE]
          /\ x - bn * BSIZE \notin 0 .. BSIZE - 1 => o[j] = T.out[j]
      <4>1. off + j - 1 - bn * BSIZE = x - bn * BSIZE
        BY <3>4
      <4> QED BY <4>1, <2>9, Zenon
    <3> HIDE DEF x, q, c
    <3>6. CASE q = bn
      <4>1. x - bn * BSIZE = c
        BY <3>1, <3>2, <3>4, <3>6
      <4> QED BY <4>1, <3>2, <3>3, <3>5, <3>6, <2>4, <2>5, Zenon DEF b, x
    <3>7. CASE q # bn
      <4>1. x - bn * BSIZE \notin 0 .. BSIZE - 1
        <5> SUFFICES ASSUME x - bn * BSIZE \in 0 .. BSIZE - 1 PROVE FALSE
          OBVIOUS
        <5>1. x = bn * BSIZE + (x - bn * BSIZE)
          BY <3>1, <3>4
        <5>2. x \div BSIZE = bn
          BY <5>1, <3>1, <3>4, DivOf, Zenon
        <5> QED BY <5>2, <3>7, Zenon DEF q
      <4>2. i \in 1 .. k - 1
        <5>1. i # k
          BY <2>11, <3>7, Zenon DEF q, x, bn
        <5> QED BY <5>1, <2>2, Zenon
      <4>3. T.out[j] = CellOf(S, off + j - 1)
        BY <4>2, <2>11, Zenon DEF HasRead
      <4> QED BY <4>1, <4>3, <3>5, Zenon
    <3> QED BY <3>6, <3>7, Zenon
  <2> QED BY <2>4, <2>9, <2>10, <2>11, Zenon DEF HasRead
\* The whole loop.
<1>5. ASSUME NEW S \in WorkType, NEW O, OwnWork(S, O), S.panic = NoPanic, NoHoles(S),
             NEW off \in Nat, NEW m \in Nat \ {0}, off + m <= S.size
      PROVE  HasRead(S, ReadLoop(S, off, m), off, m, Turns(off, m))
  <2> USE <1>5
  <2> DEFINE n == Turns(off, m)
  <2>1. n \in Nat \ {0}
    <3>1. S.size \in Nat /\ off + m <= MAXFILE * BSIZE
      BY Sizes DEF WorkType, NoHoles, MAXFILE, NINDIRECT
    <3> QED BY <3>1, TurnNumbers, Zenon
  <2> HIDE DEF n
  <2>2. PICK f : Reads(f, S, off, m, n) /\ ReadLoop(S, off, m) = f[n]
    BY <2>1, <1>1, Zenon DEF n
  <2> DEFINE First == [S EXCEPT !.out = [j \in 1 .. m |-> 0]]
  <2>3. \A k \in 0 .. n : f[k] = IF k = 0 THEN First ELSE ReadBlock(f[k - 1], Bn(off, k), off, m)
    BY <2>2, Zenon DEF Reads, Bn
  <2> DEFINE Good(k) == HasRead(S, f[k], off, m, k)
             R == {k \in 0 .. n : Good(k)}
  <2>4. Good(0) /\ 0 \in 0 .. n
    <3>1. f[0] = First /\ 0 \in 0 .. n
      BY <2>1, <2>3
    <3>2. \A j \in 1 .. 0 : FALSE
      OBVIOUS
    <3> DEFINE o == [j \in 1 .. m |-> 0]
    <3>3. o \in [1 .. m -> Cells] /\ o \in Seq(Cells)
      BY DEF Cells
    <3> HIDE DEF o
    <3>4. /\ First \in WorkType /\ First.panic = S.panic /\ First.bitmap = S.bitmap
          /\ First.data = S.data /\ First.addrs = S.addrs /\ First.size = S.size
          /\ First.log = S.log /\ First.out = o
      <4>1. First = [S EXCEPT !.out = o]
        BY Zenon DEF o
      <4> HIDE DEF First
      <4> QED BY <3>3, <4>1, Zenon DEF WorkType
    <3> HIDE DEF First
    <3>5. HasRead(S, First, off, m, 0)
      BY <3>2, <3>3, <3>4, Zenon DEF HasRead
    <3> QED BY <3>1, <3>5, Zenon
  <2>5. ASSUME NEW k \in 1 .. n, Good(k - 1) PROVE Good(k)
    <3>1. k \in 0 .. n /\ k # 0
      BY <2>1
    <3>2. f[k] = ReadBlock(f[k - 1], Bn(off, k), off, m)
      BY <2>3, <3>1, Zenon
    <3> QED BY <3>2, <2>5, <1>4, Zenon DEF n
  <2> HIDE DEF Good
  <2>6. 0 .. n \subseteq R
    <3>1. 0 \in R
      BY <2>4, Zenon
    <3>2. \A k \in 1 .. n : k - 1 \in R => k \in R
      BY <2>1, <2>5
    <3>3. n \in Nat
      BY <2>1, Zenon
    <3> HIDE DEF R
    <3> QED BY <3>1, <3>2, <3>3, Turnwise, Zenon
  <2>7. Good(n)
    BY <2>1, <2>6
  <2> QED BY <2>2, <2>7, Zenon DEF Good, n
<1>6. ASSUME NEW S \in WorkType, NEW O, OwnWork(S, O), S.panic = NoPanic, NoHoles(S),
             S.out = << >>, NEW off \in Nat, off <= S.size, NEW n \in Nat
      PROVE  ReadDone(S, readi(S, off, n), off, n)
  <2> USE <1>6
  <2> DEFINE m == ReadLen(S, off, n)
  <2>1. S.size \in Nat /\ m \in Nat /\ off + m <= S.size
    BY DEF WorkType, ReadLen
  <2>2. readi(S, off, n) = IF off > S.size \/ m = 0 THEN S ELSE ReadLoop(S, off, m)
    BY Zenon DEF readi, ReadLen
  <2> HIDE DEF m
  <2>3. CASE m = 0
    <3>1. readi(S, off, n) = S
      BY <2>2, <2>3, Zenon
    <3>2. S.out \in [1 .. m -> Cells] /\ \A j \in 1 .. m : FALSE
      BY <2>3
    <3> QED BY <3>1, <3>2, <2>1, Zenon DEF ReadDone, m
  <2>4. CASE m # 0
    <3>1. m \in Nat \ {0} /\ ~(off > S.size)
      BY <2>1, <2>4
    <3>2. readi(S, off, n) = ReadLoop(S, off, m)
      BY <2>2, <3>1, <2>4, Zenon
    <3> DEFINE V == ReadLoop(S, off, m)
    <3>3. HasRead(S, V, off, m, Turns(off, m))
      BY <3>1, <2>1, <1>5, Zenon
    <3> HIDE DEF V
    <3>4. ASSUME NEW j \in 1 .. m PROVE V.out[j] = CellOf(S, off + j - 1)
      <4> DEFINE x == off + j - 1
                 q == x \div BSIZE
                 c == x % BSIZE
      <4>1. x \in Nat /\ off <= x /\ x < off + m /\ BSIZE \in Nat \ {0}
        BY <2>1, Sizes
      <4>2. q \in Nat /\ c \in 0 .. BSIZE - 1 /\ x = q * BSIZE + c
        <5> HIDE DEF x
        <5> QED BY <4>1, DivMod, Zenon
      <4> HIDE DEF x, q, c
      <4>3. off <= q * BSIZE + c /\ q * BSIZE + c < off + m
        BY <4>1, <4>2, Zenon
      <4>4. \E i \in 1 .. Turns(off, m) : q = Bn(off, i)
        BY <4>2, <4>3, <3>1, InTurn, Zenon
      <4> QED BY <4>4, <3>3, Zenon DEF HasRead, q, x
    <3> QED BY <3>2, <3>3, <3>4, <2>1, Zenon DEF ReadDone, HasRead, m, V
  <2> QED BY <2>3, <2>4, Zenon
<1> QED BY <1>6, Zenon

-----------------------------------------------------------------------------
(* itrunc()                                                                *)

\* The place that turn k of itrunc() frees.
FreePlace(k) == IF k <= NDIRECT THEN k - 1 ELSE IF k = NDIRECT + BSIZE + 1 THEN NDIRECT ELSE k
Last == NDIRECT + BSIZE + 1

\* T is S with what k turns free given back.
Freed(S, T, k) ==
  /\ T \in WorkType /\ T.panic = NoPanic /\ T.data = S.data /\ T.log \subseteq {BitmapBlock}
  /\ T.bitmap = S.bitmap \ {Held(S)[FreePlace(j)] : j \in 1 .. k}

\* itrunc() gives back all that the inode has and nothing else.
TruncDone(S, V, O) ==
  /\ V \in WorkType /\ V.panic = NoPanic /\ V.bitmap = O /\ V.data = S.data /\ V.size = 0
  /\ V.addrs = [k \in 0 .. NDIRECT |-> 0] /\ V.log \subseteq {BitmapBlock, InodeBlock}

\* The loops never panic, and end with what others own.
LEMMA ItruncDone ==
  \A S \in WorkType : \A O :
    OwnWork(S, O) /\ S.panic = NoPanic /\ S.log = {} => TruncDone(S, itrunc(S), O)
\* The loops of itrunc() have a run, and end with its last turn.
<1>1. ASSUME NEW S
      PROVE  \E f : Frees(f, S, NDIRECT + NINDIRECT + 1) /\ FreeLoop(S) = f[NDIRECT + NINDIRECT + 1]
  <2> USE <1>1
  <2> DEFINE Step(x, k) == IF ToFree(S, k) = 0 THEN x ELSE bfree(x, ToFree(S, k))
             First == S
             Is(f, n) == f = [k \in 0 .. n |-> IF k = 0 THEN First ELSE Step(f[k - 1], k)]
             R == {n \in Nat : \E f : Is(f, n)}
  <2> HIDE DEF Step, First
  <2>1. 0 \in R
    <3> DEFINE g == [k \in 0 .. 0 |-> First]
    <3>1. \A k \in 0 .. 0 : g[k] = IF k = 0 THEN First ELSE Step(g[k - 1], k)
      OBVIOUS
    <3>2. Is(g, 0)
      BY <3>1, Zenon
    <3> QED BY <3>2, Zenon
  <2>2. ASSUME NEW n \in Nat, n \in R PROVE n + 1 \in R
    <3>1. PICK f : Is(f, n)
      BY <2>2, Zenon
    <3>2. \A k \in 0 .. n : f[k] = IF k = 0 THEN First ELSE Step(f[k - 1], k)
      BY <3>1, Zenon
    <3> DEFINE g == [k \in 0 .. n + 1 |-> IF k <= n THEN f[k] ELSE Step(f[n], n + 1)]
    <3>3. ASSUME NEW k \in 0 .. n + 1
          PROVE  g[k] = IF k = 0 THEN First ELSE Step(g[k - 1], k)
      <4>1. CASE k = 0
        <5>1. k \in 0 .. n /\ k <= n
          BY <4>1
        <5> QED BY <5>1, <4>1, <3>2, Zenon
      <4>2. CASE k \in 1 .. n
        <5>1. k \in 0 .. n /\ k - 1 \in 0 .. n + 1 /\ k - 1 <= n /\ k <= n /\ k # 0
          BY <4>2
        <5>2. g[k] = f[k] /\ g[k - 1] = f[k - 1]
          BY <5>1, Zenon
        <5> QED BY <5>1, <5>2, <3>2, Zenon
      <4>3. CASE k = n + 1
        <5>1. ~(k <= n) /\ k - 1 = n /\ n \in 0 .. n + 1 /\ k # 0 /\ n <= n
          BY <4>3
        <5>2. g[k] = Step(f[n], n + 1) /\ g[n] = f[n]
          BY <5>1, Zenon
        <5> QED BY <5>1, <5>2, <4>3, Zenon
      <4> QED BY <4>1, <4>2, <4>3
    <3>4. Is(g, n + 1)
      BY <3>3, Zenon
    <3>5. \E h : Is(h, n + 1)
      BY <3>4, Zenon
    <3> QED BY <3>5
  <2>3. \A n \in Nat : n \in R
    <3> SUFFICES ASSUME NEW n \in Nat PROVE n \in R
      BY Zenon
    <3> HIDE DEF R
    <3>1. \A k \in 1 .. n : k - 1 \in R => k \in R
      <4> SUFFICES ASSUME NEW k \in 1 .. n, k - 1 \in R PROVE k \in R
        OBVIOUS
      <4>1. k - 1 \in Nat /\ (k - 1) + 1 = k
        OBVIOUS
      <4> QED BY <4>1, <2>2, Zenon
    <3>2. n \in 0 .. n
      OBVIOUS
    <3> QED BY <2>1, <3>1, <3>2, Turnwise, Zenon
  <2>4. PICK f : Is(f, NDIRECT + NINDIRECT + 1)
    <3>1. NDIRECT + NINDIRECT + 1 \in Nat
      BY Sizes DEF NINDIRECT
    <3> QED BY <3>1, <2>3, Zenon
  <2>5. Frees(f, S, NDIRECT + NINDIRECT + 1)
    BY <2>4, Zenon DEF Frees, Step, First
  <2> QED BY <2>5, Zenon DEF Frees, FreeLoop
\* The turns visit every place, each once.
<1>2. /\ \A k \in 1 .. Last : FreePlace(k) \in Idx
      /\ \A k, l \in 1 .. Last : FreePlace(k) = FreePlace(l) => k = l
      /\ \A l \in Idx : \E k \in 1 .. Last : FreePlace(k) = l
  <2>1. \A k \in 1 .. Last : FreePlace(k) \in Idx
    BY Sizes DEF FreePlace, Last, Idx, NINDIRECT
  <2>2. \A k, l \in 1 .. Last : FreePlace(k) = FreePlace(l) => k = l
    BY Sizes DEF FreePlace, Last
  <2>3. ASSUME NEW l \in Idx PROVE \E k \in 1 .. Last : FreePlace(k) = l
    <3>1. CASE l < NDIRECT
      <4>1. l + 1 \in 1 .. Last /\ FreePlace(l + 1) = l
        BY <3>1, Sizes DEF FreePlace, Last, Idx, NINDIRECT
      <4> QED BY <4>1, Zenon
    <3>2. CASE l = NDIRECT
      <4>1. Last \in 1 .. Last /\ FreePlace(Last) = l
        BY <3>2, Sizes DEF FreePlace, Last, Idx, NINDIRECT
      <4> QED BY <4>1, Zenon
    <3>3. CASE l > NDIRECT
      <4>1. l \in 1 .. Last /\ FreePlace(l) = l
        BY <3>3, Sizes DEF FreePlace, Last, Idx, NINDIRECT
      <4> QED BY <4>1, Zenon
    <3> QED BY <3>1, <3>2, <3>3, Sizes DEF Idx, NINDIRECT
  <2> QED BY <2>1, <2>2, <2>3, Zenon
\* What turn k frees.
<1>3. ASSUME NEW S \in WorkType, NEW O, OwnWork(S, O), NEW k \in 1 .. Last
      PROVE  ToFree(S, k) = Held(S)[FreePlace(k)]
  <2> USE <1>3
  <2>0. Last \in Nat /\ NDIRECT \in Nat /\ NDIRECT \in 0 .. NDIRECT /\ k \in Nat
    BY Sizes DEF Last
  <2>1. CASE k <= NDIRECT
    <3>1. k - 1 \in 0 .. NDIRECT /\ FreePlace(k) = k - 1
      BY <2>0, <2>1 DEF FreePlace
    <3>2. ToFree(S, k) = S.addrs[k - 1]
      BY <2>1, Zenon DEF ToFree
    <3> QED BY <3>1, <3>2, HeldPlaces, Zenon
  <2>2. CASE k = Last
    <3>1. ~(k <= NDIRECT) /\ FreePlace(k) = NDIRECT /\ k = NDIRECT + NINDIRECT + 1
      BY <2>0, <2>2, Sizes DEF FreePlace, Last, NINDIRECT
    <3>2. ToFree(S, k) = S.addrs[NDIRECT]
      BY <3>1, Zenon DEF ToFree
    <3> QED BY <3>1, <3>2, <2>0, HeldPlaces, Zenon
  <2>3. CASE ~(k <= NDIRECT) /\ k # Last
    <3> DEFINE c == k - NDIRECT - 1
    <3>1. /\ FreePlace(k) = k /\ k # NDIRECT + NINDIRECT + 1 /\ k \in Idx /\ k > NDIRECT
          /\ c \in 0 .. BSIZE - 1 /\ NDIRECT + 1 + c = k
      BY <2>0, <2>3, Sizes DEF FreePlace, Last, NINDIRECT, Idx
    <3>2. ToFree(S, k) = IF S.addrs[NDIRECT] = 0 THEN 0 ELSE S.data[S.addrs[NDIRECT]][c]
      BY <2>3, <3>1, Zenon DEF ToFree
    <3> HIDE DEF c
    <3>3. CASE S.addrs[NDIRECT] = 0
      BY <3>1, <3>2, <3>3, HeldPlaces
    <3>4. CASE S.addrs[NDIRECT] # 0
      <4>1. Held(S)[NDIRECT + 1 + c] = S.data[S.addrs[NDIRECT]][c]
        BY <3>1, <3>4, HeldPlaces, Zenon
      <4> QED BY <4>1, <3>1, <3>2, <3>4, Zenon
    <3> QED BY <3>3, <3>4, Zenon
  <2> QED BY <2>1, <2>2, <2>3, Zenon
\* bfree() of a block in use.
<1>4. ASSUME NEW T \in WorkType, NEW b \in T.bitmap
      PROVE  /\ bfree(T, b) \in WorkType /\ bfree(T, b).panic = T.panic
             /\ bfree(T, b).data = T.data /\ bfree(T, b).log = T.log \union {BitmapBlock}
             /\ bfree(T, b).bitmap = T.bitmap \ {b}
  <2> USE <1>4
  <2>1. bfree(T, b) = [T EXCEPT !.bitmap = T.bitmap \ {b}, !.log = T.log \union {BitmapBlock}]
    BY Zenon DEF bfree
  <2> DEFINE B == T.bitmap \ {b}
             L == T.log \union {BitmapBlock}
  <2>2. B \in SUBSET Blocks /\ L \in SUBSET (Blocks \union {BitmapBlock, InodeBlock})
    BY Zenon DEF WorkType
  <2> HIDE DEF B, L
  <2>3. bfree(T, b) = [T EXCEPT !.bitmap = B, !.log = L]
    BY <2>1, Zenon DEF B, L
  <2>4. /\ bfree(T, b) \in WorkType /\ bfree(T, b).panic = T.panic
        /\ bfree(T, b).data = T.data /\ bfree(T, b).log = L /\ bfree(T, b).bitmap = B
    BY <2>2, <2>3, Zenon DEF WorkType
  <2> QED BY <2>4, Zenon DEF B, L
\* One turn: the block is in use, so bfree() does not panic.
<1>5. ASSUME NEW S \in WorkType, NEW O, OwnWork(S, O), NEW k \in 1 .. Last, NEW T,
             Freed(S, T, k - 1), NEW V, V = IF ToFree(S, k) = 0 THEN T ELSE bfree(T, ToFree(S, k))
      PROVE  Freed(S, V, k)
  <2> USE <1>5
  <2> DEFINE b == Held(S)[FreePlace(k)]
             Before == {Held(S)[FreePlace(j)] : j \in 1 .. k - 1}
             After == {Held(S)[FreePlace(j)] : j \in 1 .. k}
  <2>1. V = IF b = 0 THEN T ELSE bfree(T, b)
    BY <1>3, Zenon
  <2>2. /\ T \in WorkType /\ T.panic = NoPanic /\ T.data = S.data /\ T.log \subseteq {BitmapBlock}
        /\ T.bitmap = S.bitmap \ Before
    BY Zenon DEF Freed
  <2>3. Last \in Nat /\ k \in Nat
    BY Sizes DEF Last
  <2>4. After = Before \union {b}
    <3>1. \A j \in 1 .. k : j = k \/ j \in 1 .. k - 1
      BY <2>3
    <3>2. k \in 1 .. k /\ \A j \in 1 .. k - 1 : j \in 1 .. k
      BY <2>3
    <3> QED BY <3>1, <3>2, Zenon
  <2>5. b # 0 => b \in S.bitmap /\ b \notin Before
    <3>1. /\ FreePlace(k) \in Idx
          /\ \A j \in 1 .. k - 1 : FreePlace(j) \in Idx /\ FreePlace(j) # FreePlace(k)
      <4>1. \A j \in 1 .. k - 1 : j \in 1 .. Last /\ j # k
        BY <2>3
      <4> QED BY <4>1, <1>2, Zenon
    <3> QED BY <3>1, Zenon DEF OwnWork, Own
  <2>6. 0 \notin S.bitmap
    BY BlockNumbers, Zenon DEF WorkType
  <2> HIDE DEF b, Before
  <2>7. V \in WorkType /\ V.panic = NoPanic /\ V.data = S.data /\ V.log \subseteq {BitmapBlock}
        /\ V.bitmap = S.bitmap \ (Before \union {b})
    <3>1. CASE b = 0
      BY <2>1, <2>2, <2>6, <3>1, Zenon
    <3>2. CASE b # 0
      <4>1. b \in T.bitmap
        BY <2>2, <2>5, <3>2, Zenon
      <4>2. /\ V \in WorkType /\ V.panic = T.panic /\ V.data = T.data
            /\ V.log = T.log \union {BitmapBlock} /\ V.bitmap = T.bitmap \ {b}
        <5>1. V = bfree(T, b)
          BY <2>1, <3>2, Zenon
        <5> QED BY <5>1, <2>2, <4>1, <1>4
      <4> QED BY <2>2, <4>2, Zenon
    <3> QED BY <3>1, <3>2, Zenon
  <2> QED BY <2>4, <2>7, Zenon DEF Freed
<1>6. ASSUME NEW S \in WorkType, NEW O, OwnWork(S, O), S.panic = NoPanic, S.log = {}
      PROVE  TruncDone(S, itrunc(S), O)
  <2> USE <1>6
  <2>0. NDIRECT + NINDIRECT + 1 = Last /\ Last \in Nat \ {0}
    BY Sizes DEF Last, NINDIRECT
  <2>1. PICK f : Frees(f, S, Last) /\ FreeLoop(S) = f[Last]
    BY <2>0, <1>1, Zenon
  <2>2. \A k \in 0 .. Last : f[k] = IF k = 0 THEN S ELSE
          (IF ToFree(S, k) = 0 THEN f[k - 1] ELSE bfree(f[k - 1], ToFree(S, k)))
    BY <2>1, Zenon DEF Frees
  <2> DEFINE Good(k) == Freed(S, f[k], k)
             R == {k \in 0 .. Last : Good(k)}
  <2>3. Good(0) /\ 0 \in 0 .. Last
    <3>1. f[0] = S /\ 0 \in 0 .. Last
      BY <2>0, <2>2
    <3>2. {Held(S)[FreePlace(j)] : j \in 1 .. 0} = {}
      OBVIOUS
    <3>3. Freed(S, S, 0)
      BY <3>2, Zenon DEF Freed
    <3> QED BY <3>1, <3>3, Zenon
  <2>4. ASSUME NEW k \in 1 .. Last, Good(k - 1) PROVE Good(k)
    <3>1. k \in 0 .. Last /\ k # 0
      BY <2>0
    <3>2. f[k] = IF ToFree(S, k) = 0 THEN f[k - 1] ELSE bfree(f[k - 1], ToFree(S, k))
      BY <2>2, <3>1, Zenon
    <3> QED BY <3>2, <2>4, <1>5, Zenon
  <2> HIDE DEF Good
  <2>5. 0 .. Last \subseteq R
    <3>1. 0 \in R
      BY <2>3, Zenon
    <3>2. \A k \in 1 .. Last : k - 1 \in R => k \in R
      BY <2>0, <2>4
    <3>3. Last \in Nat
      BY <2>0, Zenon
    <3> HIDE DEF R
    <3> QED BY <3>1, <3>2, <3>3, Turnwise, Zenon
  <2> DEFINE T == FreeLoop(S)
  <2>6. Freed(S, T, Last)
    <3>1. Good(Last)
      BY <2>0, <2>5
    <3> QED BY <3>1, <2>1, Zenon DEF Good
  <2>7. T.bitmap = O
    <3>1. T.bitmap = S.bitmap \ {Held(S)[FreePlace(j)] : j \in 1 .. Last}
      BY <2>6, Zenon DEF Freed
    <3>2. \A b \in O : b \in S.bitmap /\ b \notin {Held(S)[FreePlace(j)] : j \in 1 .. Last}
      BY <1>2, BlockNumbers DEF OwnWork, Own
    <3>3. \A b \in S.bitmap \ O : \E j \in 1 .. Last : b = Held(S)[FreePlace(j)]
      BY <1>2, Zenon DEF OwnWork, Own
    <3> HIDE DEF T
    <3> QED BY <3>1, <3>2, <3>3
  <2> DEFINE Z == [k \in 0 .. NDIRECT |-> 0]
  <2>8. itrunc(S) = [T EXCEPT !.addrs = Z, !.size = 0, !.log = T.log \union {InodeBlock}]
    BY Zenon DEF itrunc, NewInode
  <2>9. T \in WorkType /\ T.panic = NoPanic /\ T.data = S.data /\ T.log \subseteq {BitmapBlock}
    BY <2>6, Zenon DEF Freed
  <2>10. Z \in Addrs
    BY Zenon DEF Addrs
  <2> HIDE DEF T, Z
  <2>11. TruncDone(S, itrunc(S), O)
    <3> DEFINE V == itrunc(S)
               L == T.log \union {InodeBlock}
    <3>1. V = [T EXCEPT !.addrs = Z, !.size = 0, !.log = L] /\ 0 \in Nat
      BY <2>8, Zenon
    <3>2. L \in SUBSET (Blocks \union {BitmapBlock, InodeBlock})
          /\ L \subseteq {BitmapBlock, InodeBlock}
      BY <2>9, Zenon DEF WorkType
    <3> HIDE DEF V, L
    <3>3. V \in WorkType /\ V.panic = T.panic /\ V.bitmap = T.bitmap /\ V.data = T.data
          /\ V.size = 0 /\ V.addrs = Z /\ V.log = L
      <4>1. T \in WorkType
        BY <2>9, Zenon
      <4> QED BY <3>1, <3>2, <4>1, <2>10, Zenon DEF WorkType
    <3> QED BY <3>2, <3>3, <2>7, <2>9, Zenon DEF TruncDone, V, Z
  <2> QED BY <2>11, Zenon
<1> QED BY <1>6, Zenon

-----------------------------------------------------------------------------
(* The invariant                                                           *)

Pending == [f : OpenFiles, src : Seq(Bytes) \ {<< >>}]

TypeInv ==
  /\ bitmap \subseteq Blocks /\ data \in [Blocks -> Rows]
  /\ inode \in [Inodes -> [size : Nat, addrs : Addrs]]
  /\ file \in [OpenFiles -> [ip : Inodes \union {0}, off : Nat]]
  /\ todo \in [Procs -> Pending \union {Nothing}]
  /\ got \in [Procs -> Seq(Cells)] /\ calls \in Nat /\ panic \in {NoPanic, OutOfBlocks}

\* A block in use is in one place of one inode.
OwnInv ==
  /\ \A i \in Inodes : Owned(i) \in [Idx -> Blocks \union {0}]
  /\ \A i \in Inodes : \A k \in Idx : Owned(i)[k] # 0 => Owned(i)[k] \in bitmap
  /\ \A i, j \in Inodes : \A k, l \in Idx :
       Owned(i)[k] = Owned(j)[l] /\ Owned(i)[k] # 0 => i = j /\ k = l
  /\ \A b \in bitmap : \E i \in Inodes : \E k \in Idx : Owned(i)[k] = b

\* A file has all blocks below its size, and is not too long.
Whole(i) ==
  /\ inode[i].size <= MAXFILE * BSIZE
  /\ \A bn \in 0 .. MAXFILE - 1 : bn * BSIZE < inode[i].size => Owned(i)[Pos(bn)] # 0

\* An open file is within its inode, and a write in progress is of an open file.
FileInv ==
  /\ \A i \in Inodes : Whole(i)
  /\ \A f \in OpenFiles : file[f].ip # 0 => file[f].off <= inode[file[f].ip].size
  /\ \A p \in Procs : todo[p] # Nothing => file[todo[p].f].ip # 0

LogInv == IsFiniteSet(logged) /\ Cardinality(logged) <= LOGSIZE - 1

Inv == TypeInv /\ OwnInv /\ FileInv /\ LogInv

Others(i) == bitmap \ {Owned(i)[k] : k \in Idx}

\* The record that the functions start from.
LEMMA WorkIs ==
  ASSUME TypeInv, NEW i \in Inodes
  PROVE  /\ Work(i) \in WorkType /\ Held(Work(i)) = Owned(i)
         /\ Work(i).bitmap = bitmap /\ Work(i).data = data /\ Work(i).size = inode[i].size
         /\ Work(i).addrs = inode[i].addrs /\ Work(i).log = {} /\ Work(i).panic = NoPanic
         /\ Work(i).out = << >>
<1>1. inode[i].size \in Nat /\ inode[i].addrs \in Addrs
  BY Zenon DEF TypeInv
<1>2. /\ Work(i).bitmap = bitmap /\ Work(i).data = data /\ Work(i).size = inode[i].size
      /\ Work(i).addrs = inode[i].addrs /\ Work(i).log = {} /\ Work(i).panic = NoPanic
      /\ Work(i).out = << >>
  BY Zenon DEF Work
<1>3. << >> \in Seq(Cells) /\ {} \in SUBSET (Blocks \union {BitmapBlock, InodeBlock})
  OBVIOUS
<1>4. Work(i) \in WorkType
  BY <1>1, <1>3, Zenon DEF Work, WorkType, TypeInv
<1>5. Held(Work(i)) = Owned(i)
  BY <1>2, Zenon DEF Held, PlaceMap, PlaceOf, Owned, Idx
<1> QED BY <1>2, <1>4, <1>5, Zenon

\* What the inode has, and what the others have.
LEMMA WorkOwn ==
  ASSUME TypeInv, OwnInv, NEW i \in Inodes
  PROVE  OwnWork(Work(i), Others(i))
<1>1. Held(Work(i)) = Owned(i) /\ Work(i).bitmap = bitmap
  BY WorkIs, Zenon
<1>2. Own(Owned(i), bitmap, Others(i))
  BY BlockNumbers DEF Own, Others, OwnInv, TypeInv
<1> QED BY <1>1, <1>2, Zenon DEF OwnWork

\* The blocks of another inode are among those of the others.
LEMMA OthersOwn ==
  ASSUME OwnInv, NEW i \in Inodes, NEW j \in Inodes \ {i}, NEW k \in Idx, Owned(j)[k] # 0
  PROVE  Owned(j)[k] \in Others(i)
BY DEF OwnInv, Others

\* A transaction on inode i: other inodes keep their blocks and what is in them.
Transaction(i, V) ==
  /\ V \in WorkType /\ OwnWork(V, Others(i)) /\ \A b \in Others(i) : V.data[b] = data[b]
  /\ bitmap' = V.bitmap /\ data' = V.data
  /\ inode' = [inode EXCEPT ![i] = [size |-> V.size, addrs |-> V.addrs]]

\* The inodes and their blocks after it.
LEMMA AfterTransaction ==
  ASSUME TypeInv, OwnInv, NEW i \in Inodes, NEW V, Transaction(i, V)
  PROVE  /\ bitmap' \subseteq Blocks /\ data' \in [Blocks -> Rows]
         /\ inode' \in [Inodes -> [size : Nat, addrs : Addrs]]
         /\ inode'[i].size = V.size /\ Owned(i)' = Held(V)
         /\ \A j \in Inodes \ {i} : inode'[j] = inode[j] /\ Owned(j)' = Owned(j)
         /\ \A j \in Inodes \ {i} : \A k \in Idx :
              Owned(j)[k] # 0 => data'[Owned(j)[k]] = data[Owned(j)[k]]
<1>1. /\ bitmap' \subseteq Blocks /\ data' \in [Blocks -> Rows] /\ V.size \in Nat
      /\ V.addrs \in Addrs
  BY Zenon DEF Transaction, WorkType
<1>2. /\ inode' \in [Inodes -> [size : Nat, addrs : Addrs]]
      /\ inode'[i] = [size |-> V.size, addrs |-> V.addrs]
      /\ \A j \in Inodes \ {i} : inode'[j] = inode[j]
  BY <1>1, Zenon DEF Transaction, TypeInv
<1>3. inode'[i].size = V.size /\ inode'[i].addrs = V.addrs
  BY <1>2
<1>4. \A j : Owned(j)' = PlaceMap(inode'[j].addrs, data')
  BY Zenon DEF Owned, PlaceMap, PlaceOf, Idx
<1>5. Owned(i)' = Held(V)
  BY <1>3, <1>4, Zenon DEF Transaction, Held
<1>6. ASSUME NEW j \in Inodes \ {i}, NEW k \in Idx, Owned(j)[k] # 0
      PROVE  data'[Owned(j)[k]] = data[Owned(j)[k]]
  BY <1>6, OthersOwn, Zenon DEF Transaction
<1>7. ASSUME NEW j \in Inodes \ {i} PROVE Owned(j)' = Owned(j)
  <2> DEFINE A == inode[j].addrs
  <2>1. NDIRECT \in Idx /\ NDIRECT <= NDIRECT
    BY Places, Sizes
  <2>2. Owned(j) = PlaceMap(A, data) /\ Owned(j)' = PlaceMap(A, data')
    BY <1>2, <1>4, Zenon DEF Owned, PlaceMap, PlaceOf, Idx
  <2>3. Owned(j)[NDIRECT] = A[NDIRECT]
    BY <2>1, <2>2, Zenon DEF PlaceMap, PlaceOf
  <2>4. A[NDIRECT] # 0 => data'[A[NDIRECT]] = data[A[NDIRECT]]
    BY <2>1, <2>3, <1>6, Zenon
  <2> HIDE DEF A
  <2>5. \A k \in Idx : PlaceOf(A, data', k) = PlaceOf(A, data, k)
    BY <2>4, Zenon DEF PlaceOf
  <2> QED BY <2>2, <2>5, Zenon DEF PlaceMap
<1> QED BY <1>1, <1>2, <1>3, <1>5, <1>6, <1>7, Zenon

\* It keeps the places of all.
LEMMA OwnAfter ==
  ASSUME TypeInv, OwnInv, NEW i \in Inodes, NEW V, Transaction(i, V)
  PROVE  OwnInv'
<1>1. /\ Owned(i)' = Held(V) /\ \A j \in Inodes \ {i} : Owned(j)' = Owned(j)
  BY AfterTransaction, Zenon
<1>2. Own(Held(V), V.bitmap, Others(i)) /\ bitmap' = V.bitmap
  BY Zenon DEF Transaction, OwnWork
<1> DEFINE h == Held(V)
           N(j) == Owned(j)'
<1> HIDE DEF h, N
<1>3. /\ N(i) = h /\ \A j \in Inodes \ {i} : N(j) = Owned(j)
  BY <1>1, Zenon DEF N, h
<1>4. /\ h \in [Idx -> Blocks \union {0}] /\ Others(i) \subseteq bitmap' /\ bitmap' \subseteq Blocks
      /\ \A k \in Idx : h[k] # 0 => h[k] \in bitmap' /\ h[k] \notin Others(i)
      /\ \A k, l \in Idx : h[k] = h[l] /\ h[k] # 0 => k = l
      /\ \A b \in bitmap' : b \notin Others(i) => \E k \in Idx : h[k] = b
  BY <1>2, Zenon DEF Own, h
<1>5. \A j \in Inodes \ {i} : \A k \in Idx : Owned(j)[k] # 0 => Owned(j)[k] \in Others(i)
  BY OthersOwn, Zenon
<1>6. \A j \in Inodes : N(j) \in [Idx -> Blocks \union {0}]
  BY <1>3, <1>4 DEF OwnInv
<1>7. \A j \in Inodes : \A k \in Idx : N(j)[k] # 0 => N(j)[k] \in bitmap'
  BY <1>3, <1>4, <1>5
<1>8. ASSUME NEW j \in Inodes, NEW m \in Inodes, NEW k \in Idx, NEW l \in Idx,
             N(j)[k] = N(m)[l], N(j)[k] # 0
      PROVE  j = m /\ k = l
  <2>1. CASE j = i /\ m = i
    BY <2>1, <1>3, <1>4, <1>8, Zenon
  <2>2. CASE j = i /\ m # i
    BY <2>2, <1>3, <1>4, <1>5, <1>8
  <2>3. CASE j # i /\ m = i
    BY <2>3, <1>3, <1>4, <1>5, <1>8
  <2>4. CASE j # i /\ m # i
    <3>1. Owned(j)[k] = Owned(m)[l] /\ Owned(j)[k] # 0
      BY <2>4, <1>3, <1>8
    <3> QED BY <3>1 DEF OwnInv
  <2> QED BY <2>1, <2>2, <2>3, <2>4, Zenon
<1>9. ASSUME NEW b \in bitmap' PROVE \E j \in Inodes : \E k \in Idx : N(j)[k] = b
  <2>1. CASE b \notin Others(i)
    BY <2>1, <1>3, <1>4, Zenon
  <2>2. CASE b \in Others(i)
    <3>1. b \in bitmap /\ \A k \in Idx : Owned(i)[k] # b
      BY <2>2, Zenon DEF Others
    <3>2. PICK j \in Inodes : \E k \in Idx : Owned(j)[k] = b
      BY <3>1, Zenon DEF OwnInv
    <3>3. j # i
      BY <3>1, <3>2, Zenon
    <3> QED BY <3>2, <3>3, <1>3, Zenon
  <2> QED BY <2>1, <2>2, Zenon
<1> QED BY <1>6, <1>7, <1>8, <1>9 DEF OwnInv, N

\* All files stay whole.
LEMMA WholeAfter ==
  ASSUME TypeInv, OwnInv, FileInv, NEW i \in Inodes, NEW V, Transaction(i, V), NoHoles(V),
         NEW j \in Inodes
  PROVE  Whole(j)'
<1>1. /\ inode'[i].size = V.size /\ Owned(i)' = Held(V)
      /\ j # i => inode'[j] = inode[j] /\ Owned(j)' = Owned(j)
  BY AfterTransaction, Zenon
<1>2. Whole(j)
  BY Zenon DEF FileInv
<1>3. CASE j = i
  BY <1>1, <1>3, Zenon DEF Whole, NoHoles
<1>4. CASE j # i
  BY <1>1, <1>2, <1>4, Zenon DEF Whole
<1> QED BY <1>3, <1>4, Zenon

\* A step that changes no block and no inode.
LEMMA Untouched ==
  ASSUME OwnInv, LogInv, \A i \in Inodes : Whole(i), UNCHANGED <<bitmap, data, inode, logged>>
  PROVE  OwnInv' /\ LogInv' /\ \A i \in Inodes : Whole(i)'
<1>1. \A i : Owned(i)' = Owned(i)
  BY Zenon DEF Owned
<1>2. OwnInv'
  BY <1>1 DEF OwnInv
<1>3. LogInv'
  BY Zenon DEF LogInv
<1>4. \A i \in Inodes : Whole(i)'
  BY <1>1, Zenon DEF Whole
<1> QED BY <1>2, <1>3, <1>4, Zenon

\* A transaction that does not panic is committed.
LEMMA CommitDone ==
  ASSUME NEW i \in Inodes, NEW V \in WorkType, V.panic = NoPanic, Commit(i, V),
         OwnWork(V, Others(i)), \A b \in Others(i) : V.data[b] = data[b]
  PROVE  Transaction(i, V) /\ logged' = V.log /\ panic' = NoPanic
BY Zenon DEF Commit, Transaction

\* The empty disk.
LEMMA InvInit == Init => Inv
<1> SUFFICES ASSUME Init PROVE Inv
  OBVIOUS
<1>1. \A i \in Inodes : inode[i].size = 0 /\ inode[i].addrs = [k \in 0 .. NDIRECT |-> 0]
  BY Zenon DEF Init, NewInode
<1>2. ASSUME NEW i \in Inodes PROVE Owned(i) = [k \in Idx |-> 0]
  <2>1. NDIRECT \in 0 .. NDIRECT
    BY Sizes
  <2>2. \A k \in 0 .. NDIRECT : inode[i].addrs[k] = 0
    BY <1>1, Zenon
  <2>3. \A k \in Idx : k <= NDIRECT => k \in 0 .. NDIRECT
    BY Sizes DEF Idx, NINDIRECT
  <2> QED BY <2>1, <2>2, <2>3, Zenon DEF Owned, Idx
<1>3. TypeInv
  <2>1. data \in [Blocks -> Rows] /\ bitmap \subseteq Blocks
    BY ZeroRow, Zenon DEF Init
  <2>2. NewInode \in [size : Nat, addrs : Addrs]
    BY Zenon DEF NewInode, Addrs
  <2>3. inode \in [Inodes -> [size : Nat, addrs : Addrs]]
    BY <2>2, Zenon DEF Init
  <2>4. file \in [OpenFiles -> [ip : Inodes \union {0}, off : Nat]]
    BY Zenon DEF Init
  <2>5. todo \in [Procs -> Pending \union {Nothing}]
    BY Zenon DEF Init
  <2>6. got \in [Procs -> Seq(Cells)] /\ calls \in Nat /\ panic \in {NoPanic, OutOfBlocks}
    BY ConstantsAssumption DEF Init
  <2> QED BY <2>1, <2>3, <2>4, <2>5, <2>6, Zenon DEF TypeInv
<1>4. OwnInv
  <2>1. \A i \in Inodes : \A k \in Idx : Owned(i)[k] = 0
    BY <1>2, Zenon
  <2>2. \A i \in Inodes : Owned(i) \in [Idx -> Blocks \union {0}]
    BY <1>2, Zenon
  <2>3. bitmap = {}
    BY Zenon DEF Init
  <2> QED BY <2>1, <2>2, <2>3, Zenon DEF OwnInv
<1>5. FileInv
  <2>1. ASSUME NEW i \in Inodes PROVE Whole(i)
    <3>1. \A bn \in 0 .. MAXFILE - 1 : bn * BSIZE \in Nat /\ ~(bn * BSIZE < 0)
      BY Sizes
    <3>2. 0 <= MAXFILE * BSIZE
      BY Sizes DEF MAXFILE, NINDIRECT
    <3> QED BY <3>1, <3>2, <1>1, Zenon DEF Whole
  <2>2. \A f \in OpenFiles : file[f].ip = 0
    BY Zenon DEF Init
  <2>3. \A p \in Procs : todo[p] = Nothing
    BY Zenon DEF Init
  <2> QED BY <2>1, <2>2, <2>3, Zenon DEF FileInv
<1>6. LogInv
  BY Sizes, FS_EmptySet DEF Init, LogInv
<1> QED BY <1>3, <1>4, <1>5, <1>6, Zenon DEF Inv

\* An open file has an inode, and a position in it.
LEMMA OpenFile ==
  ASSUME TypeInv, FileInv, NEW f \in OpenFiles, file[f].ip # 0
  PROVE  /\ file[f].ip \in Inodes /\ file[f].off \in Nat
         /\ file[f].off <= inode[file[f].ip].size /\ inode[file[f].ip].size \in Nat
<1>1. file[f].ip \in Inodes /\ file[f].off \in Nat
  BY Zenon DEF TypeInv
<1> QED BY <1>1, Zenon DEF FileInv, TypeInv

\* The buffer of a write.
LEMMA SourceType ==
  ASSUME NEW src \in Sources
  PROVE  src \in Seq(Bytes) \ {<< >>} /\ \E n \in Lengths : src \in [1 .. n -> Bytes]
<1>1. PICK n \in Lengths, x \in Bytes, y \in Bytes :
        src = [k \in 1 .. n |-> IF k % 2 = 1 THEN x ELSE y]
  BY DEF Sources
<1>2. n \in Nat /\ n # 0
  BY Sizes, Zenon
<1>3. src \in [1 .. n -> Bytes]
  BY <1>1, Zenon
<1>4. src \in Seq(Bytes) /\ Len(src) = n
  BY <1>2, <1>3
<1>5. src # << >>
  BY <1>2, <1>4
<1> QED BY <1>3, <1>4, <1>5, Zenon

\* What the last iput() of a file does.
LEMMA DiscardEffect ==
  ASSUME Inv, NEW i \in Inodes, Discard(i), NEW V, V = itrunc(Work(i))
  PROVE  /\ Transaction(i, V) /\ NoHoles(V) /\ V.size = 0
         /\ logged' = V.log /\ V.log \subseteq {BitmapBlock, InodeBlock} /\ panic' = NoPanic
<1> DEFINE O == Others(i)
<1>1. OwnWork(Work(i), O) /\ Work(i) \in WorkType /\ Work(i).panic = NoPanic /\ Work(i).log = {}
      /\ Work(i).data = data /\ Work(i).bitmap = bitmap
  BY WorkIs, WorkOwn, Zenon DEF Inv
<1>2. TruncDone(Work(i), V, O)
  BY <1>1, ItruncDone, Zenon
<1>3. /\ V \in WorkType /\ V.panic = NoPanic /\ V.bitmap = O /\ V.data = data /\ V.size = 0
      /\ V.addrs = [k \in 0 .. NDIRECT |-> 0] /\ V.log \subseteq {BitmapBlock, InodeBlock}
  BY <1>1, <1>2, Zenon DEF TruncDone
<1>4. \A k \in Idx : PlaceOf(V.addrs, V.data, k) = 0
  <2>1. NDIRECT \in 0 .. NDIRECT /\ \A k \in Idx : k <= NDIRECT => k \in 0 .. NDIRECT
    BY Sizes DEF Idx, NINDIRECT
  <2>2. \A k \in 0 .. NDIRECT : V.addrs[k] = 0
    BY <1>3, Zenon
  <2> QED BY <2>1, <2>2, Zenon DEF PlaceOf
<1>5. Held(V) = [k \in Idx |-> 0]
  BY <1>4, Zenon DEF Held, PlaceMap
<1>6. OwnWork(V, O)
  <2>1. O \subseteq Blocks
    BY Zenon DEF Others, Inv, TypeInv
  <2> HIDE DEF O
  <2> QED BY <2>1, <1>3, <1>5, Zenon DEF OwnWork, Own
<1>7. Commit(i, V)
  BY Zenon DEF Discard
<1>8. Transaction(i, V) /\ logged' = V.log /\ panic' = NoPanic
  BY <1>3, <1>6, <1>7, CommitDone, Zenon
<1>9. NoHoles(V)
  <2>1. \A bn \in 0 .. MAXFILE - 1 : bn * BSIZE \in Nat /\ ~(bn * BSIZE < 0)
    BY Sizes
  <2>2. 0 <= MAXFILE * BSIZE
    BY Sizes DEF MAXFILE, NINDIRECT
  <2> QED BY <2>1, <2>2, <1>3, Zenon DEF NoHoles
<1> QED BY <1>3, <1>8, <1>9, Zenon

\* The results of a read.
Returns(p, f, V) ==
  got' = [got EXCEPT ![p] = V.out] /\ file' = [file EXCEPT ![f].off = @ + Len(V.out)]

\* What a read does.
LEMMA ReadEffect ==
  ASSUME Inv, NEW p \in Procs, NEW f \in OpenFiles, NEW n \in Lengths, fileread(p, f, n),
         NEW i, i = file[f].ip, NEW V, V = readi(Work(i), file[f].off, n)
  PROVE  /\ i \in Inodes /\ ReadDone(Work(i), V, file[f].off, n)
         /\ UNCHANGED <<bitmap, data, inode, todo>> /\ logged' = {} /\ panic' = NoPanic
         /\ Returns(p, f, V)
<1>1. i \in Inodes /\ file[f].off \in Nat /\ file[f].off <= inode[i].size
  BY OpenFile, Zenon DEF fileread, Inv
<1> DEFINE S == Work(i)
<1>2. /\ S \in WorkType /\ Held(S) = Owned(i)
      /\ S.bitmap = bitmap /\ S.data = data /\ S.size = inode[i].size
      /\ S.addrs = inode[i].addrs /\ S.log = {} /\ S.panic = NoPanic /\ S.out = << >>
      /\ OwnWork(S, Others(i))
  BY <1>1, WorkIs, WorkOwn, Zenon DEF Inv
<1> HIDE DEF S
<1>3. NoHoles(S)
  BY <1>1, <1>2, Zenon DEF Inv, FileInv, Whole, NoHoles
<1>4. n \in Nat /\ file[f].off <= S.size
  BY <1>1, <1>2, Sizes, Zenon
<1>5. ReadDone(S, V, file[f].off, n)
  BY <1>1, <1>2, <1>3, <1>4, ReadiDone, Zenon DEF S
<1>6. /\ V \in WorkType /\ V.panic = NoPanic /\ V.bitmap = bitmap /\ V.data = data
      /\ V.addrs = inode[i].addrs /\ V.size = inode[i].size /\ V.log = {}
  BY <1>2, <1>5, Zenon DEF ReadDone
<1>7. Commit(i, V)
  BY Zenon DEF fileread
<1>8. inode' = [inode EXCEPT ![i] = [size |-> V.size, addrs |-> V.addrs]]
      /\ bitmap' = bitmap /\ data' = data /\ logged' = {} /\ panic' = NoPanic
  BY <1>6, <1>7, Zenon DEF Commit
<1>9. inode' = inode
  <2>1. /\ inode[i] = [size |-> V.size, addrs |-> V.addrs]
        /\ inode \in [Inodes -> [size : Nat, addrs : Addrs]]
    BY <1>1, <1>6, Zenon DEF Inv, TypeInv
  <2> QED BY <2>1, <1>1, <1>8, Zenon
<1>10. todo' = todo /\ Returns(p, f, V)
  BY Zenon DEF fileread, Returns
<1> QED BY <1>1, <1>5, <1>8, <1>9, <1>10, Zenon DEF S

\* The smaller of two numbers.
LEMMA MinOfTwo ==
  ASSUME NEW a \in Nat, NEW b \in Nat
  PROVE  Min({a, b}) \in {a, b} /\ Min({a, b}) <= a /\ Min({a, b}) <= b
<1>1. \E x \in {a, b} : \A y \in {a, b} : x <= y
  OBVIOUS
<1>2. Min({a, b}) \in {a, b} /\ \A y \in {a, b} : Min({a, b}) <= y
  BY <1>1, Zenon DEF Min
<1> QED BY <1>2, Zenon

\* A chunk is of some blocks, and they leave room in the log for the others.
LogShare == (LOGSIZE - 1 - 1 - 2) \div 2
\* max of filewrite() leaves room for the blocks that are not data.
LEMMA ChunkSize ==
  /\ LogShare \in Nat /\ LogShare + 4 <= LOGSIZE - 1
  /\ maxChunk = LogShare * BSIZE /\ maxChunk \in Nat \ {0}
<1>1. LogShare \in Nat /\ LogShare >= 1 /\ LogShare + 4 <= LOGSIZE - 1
  BY Sizes DEF LogShare
<1>2. maxChunk = LogShare * BSIZE
  BY Zenon DEF maxChunk, LogShare
<1>3. LogShare * BSIZE \in Nat \ {0}
  <2> DEFINE h == LogShare
  <2> HIDE DEF h
  <2>1. h \in Nat /\ 1 <= h
    BY <1>1, Zenon DEF h
  <2>2. 1 * BSIZE <= h * BSIZE /\ h * BSIZE \in Nat
    BY <2>1, Sizes, TimesMono
  <2>3. h * BSIZE \in Nat \ {0}
    BY <2>1, <2>2, Sizes
  <2> QED BY <2>3, Zenon DEF h
<1> QED BY <1>1, <1>2, <1>3, Zenon

\* The chunk of a write, and what is left.
ChunkLen(p) == Min({Len(todo[p].src), maxChunk})
Chunk(p) == SubSeq(todo[p].src, 1, ChunkLen(p))
Rest(p) == SubSeq(todo[p].src, ChunkLen(p) + 1, Len(todo[p].src))

\* Their sizes.
LEMMA ChunkIs ==
  ASSUME Inv, NEW p \in Procs, todo[p] # Nothing
  PROVE  /\ todo[p] \in Pending /\ todo[p].f \in OpenFiles /\ todo[p].src \in Seq(Bytes)
         /\ ChunkLen(p) \in 1 .. Len(todo[p].src) /\ ChunkLen(p) <= maxChunk
         /\ Chunk(p) \in Seq(Bytes) /\ Len(Chunk(p)) = ChunkLen(p) /\ Rest(p) \in Seq(Bytes)
<1>1. todo[p] \in Pending
  BY Zenon DEF Inv, TypeInv
<1> DEFINE s == todo[p].src
           n == ChunkLen(p)
<1>2. todo[p].f \in OpenFiles /\ s \in Seq(Bytes) /\ s # << >>
  BY <1>1, Zenon DEF Pending
<1>3. Len(s) \in Nat \ {0}
  BY <1>2
<1>4. n \in {Len(s), maxChunk} /\ n <= Len(s) /\ n <= maxChunk
  BY <1>3, ChunkSize, MinOfTwo, Zenon DEF ChunkLen
<1>5. n \in 1 .. Len(s)
  BY <1>3, <1>4, ChunkSize
<1> HIDE DEF s, n
<1>6. /\ SubSeq(s, 1, n) \in Seq(Bytes) /\ Len(SubSeq(s, 1, n)) = n
      /\ SubSeq(s, n + 1, Len(s)) \in Seq(Bytes)
  BY <1>2, <1>5
<1> QED BY <1>1, <1>2, <1>4, <1>5, <1>6, Zenon DEF s, n, Chunk, Rest

\* The chunk is written, and the offset moved.
Moves(p, f, off) ==
  /\ file' = [file EXCEPT ![f].off = off]
  /\ todo' = [todo EXCEPT ![p] = IF Rest(p) = << >> THEN Nothing ELSE [@ EXCEPT !.src = Rest(p)]]

\* What a turn of filewrite() does: it gives up, or the machine panics, or the
\* chunk is written.
LEMMA ChunkEffect ==
  ASSUME Inv, NEW p \in Procs, WriteChunk(p),
         NEW f, f = todo[p].f, NEW i, i = file[f].ip, NEW off, off = file[f].off,
         NEW V, V = writei(Work(i), Chunk(p), off)
  PROVE  /\ panic = NoPanic /\ todo[p] # Nothing /\ UNCHANGED <<got, calls>>
         /\ f \in OpenFiles /\ i \in Inodes /\ off \in Nat /\ off <= inode[i].size
         /\ \/ /\ off + ChunkLen(p) > MAXFILE * BSIZE
               /\ todo' = [todo EXCEPT ![p] = Nothing]
               /\ UNCHANGED <<bitmap, data, inode, file, logged, panic>>
            \/ /\ panic' = OutOfBlocks
               /\ UNCHANGED <<bitmap, data, inode, file, todo, logged>>
            \/ /\ off + ChunkLen(p) <= MAXFILE * BSIZE
               /\ WriteDone(Work(i), V, Others(i), Chunk(p), off) /\ Transaction(i, V)
               /\ logged' = V.log /\ panic' = NoPanic /\ Moves(p, f, off + ChunkLen(p))
<1>1. panic = NoPanic /\ todo[p] # Nothing /\ UNCHANGED <<got, calls>>
  BY Zenon DEF WriteChunk
<1>2. /\ todo[p].f \in OpenFiles /\ ChunkLen(p) \in 1 .. Len(todo[p].src)
      /\ todo[p].src \in Seq(Bytes)
      /\ Chunk(p) \in Seq(Bytes) /\ Len(Chunk(p)) = ChunkLen(p)
  BY <1>1, ChunkIs, Zenon
<1>3. file[f].ip # 0 /\ f \in OpenFiles
  BY <1>1, <1>2, Zenon DEF Inv, FileInv
<1>4. i \in Inodes /\ off \in Nat /\ off <= inode[i].size
  BY <1>3, OpenFile, Zenon DEF Inv
<1>5. ChunkLen(p) \in Nat /\ Len(Chunk(p)) # 0
  BY <1>2
<1> DEFINE S == Work(i)
<1>6. /\ S \in WorkType /\ Held(S) = Owned(i)
      /\ S.bitmap = bitmap /\ S.data = data /\ S.size = inode[i].size
      /\ S.log = {} /\ S.panic = NoPanic /\ OwnWork(S, Others(i))
  BY <1>4, WorkIs, WorkOwn, Zenon DEF Inv
<1>7. IF ~Fits(S, off, ChunkLen(p))
      THEN /\ todo' = [todo EXCEPT ![p] = Nothing]
           /\ UNCHANGED <<bitmap, data, inode, file, logged, panic>>
      ELSE /\ Commit(i, V)
           /\ IF V.panic # NoPanic THEN UNCHANGED <<file, todo>>
              ELSE Moves(p, f, off + ChunkLen(p))
  BY Zenon DEF WriteChunk, ChunkLen, Chunk, Rest, Moves
<1> HIDE DEF S
<1>8. NoHoles(S)
  BY <1>4, <1>6, Zenon DEF Inv, FileInv, Whole, NoHoles
<1>9. CASE ~Fits(S, off, ChunkLen(p))
  <2>1. ~(off + ChunkLen(p) <= MAXFILE * BSIZE)
    BY <1>4, <1>6, <1>9, Zenon DEF Fits
  <2>2. MAXFILE * BSIZE \in Nat
    BY Sizes DEF MAXFILE, NINDIRECT
  <2>3. off + ChunkLen(p) > MAXFILE * BSIZE
    BY <2>1, <2>2, <1>4, <1>5
  <2> QED BY <2>3, <1>1, <1>3, <1>4, <1>7, <1>9, Zenon
<1>10. CASE Fits(S, off, ChunkLen(p))
  <2>1. V.panic = OutOfBlocks \/ WriteDone(S, V, Others(i), Chunk(p), off)
    BY <1>2, <1>4, <1>5, <1>6, <1>8, <1>10, WriteiDone, Zenon DEF S
  <2>2. CASE V.panic = OutOfBlocks
    <3>1. V.panic # NoPanic
      BY <2>2, Zenon DEF OutOfBlocks, NoPanic
    <3>2. panic' = OutOfBlocks /\ UNCHANGED <<bitmap, data, inode, file, todo, logged>>
      BY <3>1, <2>2, <1>7, <1>10, Zenon DEF Commit
    <3> QED BY <3>2, <1>1, <1>3, <1>4, Zenon
  <2>3. CASE WriteDone(S, V, Others(i), Chunk(p), off)
    <3>1. V \in WorkType /\ V.panic = NoPanic /\ OwnWork(V, Others(i))
          /\ \A b \in Others(i) : V.data[b] = data[b]
      BY <2>3, <1>6, Zenon DEF WriteDone
    <3>2. Commit(i, V) /\ Moves(p, f, off + ChunkLen(p))
      BY <3>1, <1>7, <1>10, Zenon
    <3>3. Transaction(i, V) /\ logged' = V.log /\ panic' = NoPanic
      BY <3>1, <3>2, <1>4, CommitDone, Zenon
    <3>4. off + ChunkLen(p) <= MAXFILE * BSIZE
      BY <1>10, Zenon DEF Fits
    <3> QED BY <3>2, <3>3, <3>4, <2>3, <1>1, <1>3, <1>4, Zenon DEF S
  <2> QED BY <2>1, <2>2, <2>3, Zenon
<1> QED BY <1>9, <1>10, Zenon

\* Every step keeps the invariant.
LEMMA InvNext == Inv /\ [Next]_vars => Inv'
\* Opening a file.
<1>1. ASSUME Inv, NEW f \in OpenFiles, NEW i \in Inodes, Open(f, i) PROVE Inv'
  <2> USE <1>1
  <2>1. OwnInv' /\ LogInv' /\ \A j \in Inodes : Whole(j)'
    BY Untouched, Zenon DEF Inv, FileInv, Open
  <2>2. i # 0 /\ [ip |-> i, off |-> 0] \in [ip : Inodes \union {0}, off : Nat]
    BY Sizes, Zenon
  <2>3. file' \in [OpenFiles -> [ip : Inodes \union {0}, off : Nat]]
        /\ file'[f] = [ip |-> i, off |-> 0] /\ \A g \in OpenFiles \ {f} : file'[g] = file[g]
    BY <2>2, Zenon DEF Open, Inv, TypeInv
  <2>4. TypeInv'
    <3>1. calls' \in Nat
      BY DEF Open, Call, Inv, TypeInv
    <3> QED BY <3>1, <2>3, Zenon DEF Open, Inv, TypeInv
  <2>5. \A g \in OpenFiles : file'[g].ip # 0 => file'[g].off <= inode'[file'[g].ip].size
    <3>1. file'[f].ip = i /\ file'[f].off = 0 /\ inode' = inode /\ inode[i].size \in Nat
      BY <2>3, Zenon DEF Open, Inv, TypeInv
    <3> QED BY <3>1, <2>3 DEF Inv, FileInv
  <2>6. \A p \in Procs : todo'[p] # Nothing => file'[todo'[p].f].ip # 0
    <3> SUFFICES ASSUME NEW p \in Procs, todo[p] # Nothing PROVE file'[todo[p].f].ip # 0
      BY Zenon DEF Open
    <3>1. todo[p].f \in OpenFiles
      BY Zenon DEF Inv, TypeInv, Pending
    <3>2. file[todo[p].f].ip # 0
      BY Zenon DEF Inv, FileInv
    <3> QED BY <3>1, <3>2, <2>2, <2>3
  <2> QED BY <2>1, <2>4, <2>5, <2>6, Zenon DEF Inv, FileInv
\* Closing one that no write is using.
<1>2. ASSUME Inv, NEW f \in OpenFiles, Close(f) PROVE Inv'
  <2> USE <1>2
  <2>1. OwnInv' /\ LogInv' /\ \A j \in Inodes : Whole(j)'
    BY Untouched, Zenon DEF Inv, FileInv, Close
  <2>2. file' \in [OpenFiles -> [ip : Inodes \union {0}, off : Nat]]
        /\ file'[f].ip = 0 /\ \A g \in OpenFiles \ {f} : file'[g] = file[g]
    BY Zenon DEF Close, Inv, TypeInv
  <2>3. TypeInv'
    BY <2>2, Zenon DEF Close, Inv, TypeInv
  <2>4. \A g \in OpenFiles : file'[g].ip # 0 => file'[g].off <= inode'[file'[g].ip].size
    BY <2>2, Zenon DEF Close, Inv, FileInv
  <2>5. \A p \in Procs : todo'[p] # Nothing => file'[todo'[p].f].ip # 0
    <3> SUFFICES ASSUME NEW p \in Procs, todo[p] # Nothing PROVE file'[todo[p].f].ip # 0
      BY Zenon DEF Close
    <3>1. todo[p].f \in OpenFiles
      BY Zenon DEF Inv, TypeInv, Pending
    <3>2. file[todo[p].f].ip # 0 /\ todo[p].f # f
      BY Zenon DEF Inv, FileInv, Close, Using
    <3> QED BY <3>1, <3>2, <2>2, Zenon
  <2> QED BY <2>1, <2>3, <2>4, <2>5, Zenon DEF Inv, FileInv
\* A write begins.
<1>3. ASSUME Inv, NEW p \in Procs, NEW f \in OpenFiles, NEW src \in Sources, filewrite(p, f, src)
      PROVE  Inv'
  <2> USE <1>3
  <2>1. OwnInv' /\ LogInv' /\ \A j \in Inodes : Whole(j)'
    BY Untouched, Zenon DEF Inv, FileInv, filewrite
  <2>2. [f |-> f, src |-> src] \in Pending
    BY SourceType, Zenon DEF Pending
  <2>3. todo' \in [Procs -> Pending \union {Nothing}] /\ todo'[p].f = f
        /\ \A q \in Procs \ {p} : todo'[q] = todo[q]
    BY <2>2, Zenon DEF filewrite, Inv, TypeInv
  <2>4. TypeInv'
    <3>1. calls' \in Nat
      BY DEF filewrite, Call, Inv, TypeInv
    <3> QED BY <3>1, <2>3, Zenon DEF filewrite, Inv, TypeInv
  <2>5. \A q \in Procs : todo'[q] # Nothing => file'[todo'[q].f].ip # 0
    <3>1. file' = file /\ file[f].ip # 0
      BY Zenon DEF filewrite
    <3> QED BY <3>1, <2>3, Zenon DEF Inv, FileInv
  <2>6. \A g \in OpenFiles : file'[g].ip # 0 => file'[g].off <= inode'[file'[g].ip].size
    BY Zenon DEF filewrite, Inv, FileInv
  <2> QED BY <2>1, <2>4, <2>5, <2>6, Zenon DEF Inv, FileInv
\* It keeps the invariant.
<1>4. ASSUME Inv, NEW i \in Inodes, Discard(i) PROVE Inv'
  <2> USE <1>4
  <2> DEFINE V == itrunc(Work(i))
  <2>1. /\ Transaction(i, V) /\ NoHoles(V) /\ V.size = 0
        /\ logged' = V.log /\ V.log \subseteq {BitmapBlock, InodeBlock} /\ panic' = NoPanic
    BY DiscardEffect, Zenon
  <2> HIDE DEF V
  <2>2. OwnInv' /\ \A j \in Inodes : Whole(j)'
    BY <2>1, OwnAfter, WholeAfter, Zenon DEF Inv
  <2>3. /\ bitmap' \subseteq Blocks /\ data' \in [Blocks -> Rows]
        /\ inode' \in [Inodes -> [size : Nat, addrs : Addrs]]
        /\ \A j \in Inodes \ {i} : inode'[j] = inode[j]
    BY <2>1, AfterTransaction, Zenon DEF Inv
  <2>4. TypeInv'
    BY <2>1, <2>3, Zenon DEF Discard, Inv, TypeInv
  <2>5. \A f \in OpenFiles : file'[f].ip # 0 => file'[f].off <= inode'[file'[f].ip].size
    <3> SUFFICES ASSUME NEW f \in OpenFiles, file[f].ip # 0
                 PROVE  file[f].off <= inode'[file[f].ip].size
      BY Zenon DEF Discard
    <3>1. file[f].ip # i
      BY Zenon DEF Discard
    <3>2. file[f].ip \in Inodes /\ file[f].off <= inode[file[f].ip].size
      BY OpenFile, Zenon DEF Inv
    <3> QED BY <3>1, <3>2, <2>3, Zenon
  <2>6. \A p \in Procs : todo'[p] # Nothing => file'[todo'[p].f].ip # 0
    BY Zenon DEF Discard, Inv, FileInv
  <2>7. LogInv'
    <3>1. IsFiniteSet({BitmapBlock, InodeBlock}) /\ Cardinality({BitmapBlock, InodeBlock}) <= 2
          /\ Cardinality({BitmapBlock, InodeBlock}) \in Nat
      <4>1. IsFiniteSet({BitmapBlock}) /\ Cardinality({BitmapBlock}) = 1
        BY FS_Singleton, Zenon
      <4>2. {BitmapBlock, InodeBlock} = {BitmapBlock} \union {InodeBlock}
        OBVIOUS
      <4>3. IsFiniteSet({BitmapBlock} \union {InodeBlock})
            /\ Cardinality({BitmapBlock} \union {InodeBlock}) \in {1, 2}
        BY <4>1, FS_AddElement
      <4> QED BY <4>2, <4>3
    <3>2. logged' \in SUBSET {BitmapBlock, InodeBlock}
      BY <2>1, Zenon
    <3>3. IsFiniteSet(logged') /\ Cardinality(logged') <= Cardinality({BitmapBlock, InodeBlock})
      BY <3>1, <3>2, FS_Subset, Zenon
    <3>4. Cardinality(logged') \in Nat
      BY <3>3, FS_CardinalityType, Zenon
    <3> QED BY <3>1, <3>3, <3>4, Sizes DEF LogInv
  <2> QED BY <2>2, <2>4, <2>5, <2>6, <2>7, Zenon DEF Inv, FileInv
\* It keeps the invariant.
<1>5. ASSUME Inv, NEW p \in Procs, NEW f \in OpenFiles, NEW n \in Lengths, fileread(p, f, n)
      PROVE  Inv'
  <2> USE <1>5
  <2> DEFINE i == file[f].ip
             off == file[f].off
             V == readi(Work(i), off, n)
             m == ReadLen(Work(i), off, n)
  <2>1. /\ i \in Inodes /\ ReadDone(Work(i), V, off, n)
        /\ UNCHANGED <<bitmap, data, inode, todo>> /\ logged' = {} /\ panic' = NoPanic
        /\ Returns(p, f, V)
    BY ReadEffect, Zenon
  <2>2. Work(i).size = inode[i].size /\ off \in Nat
    BY <2>1, WorkIs, Zenon DEF Inv, TypeInv
  <2>3. m \in Nat /\ V.out \in [1 .. m -> Cells] /\ off + m <= inode[i].size
    BY <2>1, <2>2, Zenon DEF ReadDone
  <2> HIDE DEF V, m
  <2>4. Len(V.out) = m /\ V.out \in Seq(Cells)
    BY <2>3
  <2>5. /\ file' \in [OpenFiles -> [ip : Inodes \union {0}, off : Nat]]
        /\ file'[f].ip = i /\ file'[f].off = off + m /\ \A g \in OpenFiles \ {f} : file'[g] = file[g]
    <3>1. off + m \in Nat /\ file' = [file EXCEPT ![f].off = off + m]
      BY <2>1, <2>2, <2>3, <2>4 DEF Returns
    <3> HIDE DEF off
    <3> QED BY <3>1, <2>1, Zenon DEF Inv, TypeInv
  <2>6. OwnInv' /\ \A j \in Inodes : Whole(j)'
    <3>1. \A j : Owned(j)' = Owned(j)
      BY <2>1, Zenon DEF Owned
    <3>2. OwnInv'
      BY <3>1, <2>1 DEF OwnInv, Inv
    <3> QED BY <3>1, <3>2, <2>1, Zenon DEF Whole, Inv, FileInv
  <2>7. TypeInv'
    <3>1. calls' \in Nat
      BY DEF fileread, Call, Inv, TypeInv
    <3>2. got' \in [Procs -> Seq(Cells)]
      BY <2>1, <2>4, Zenon DEF Inv, TypeInv, Returns
    <3> QED BY <3>1, <3>2, <2>1, <2>5, Zenon DEF Inv, TypeInv
  <2>8. \A g \in OpenFiles : file'[g].ip # 0 => file'[g].off <= inode'[file'[g].ip].size
    BY <2>1, <2>3, <2>5, Zenon DEF Inv, FileInv
  <2>9. \A q \in Procs : todo'[q] # Nothing => file'[todo'[q].f].ip # 0
    <3> SUFFICES ASSUME NEW q \in Procs, todo[q] # Nothing PROVE file'[todo[q].f].ip # 0
      BY <2>1, Zenon
    <3>1. todo[q].f \in OpenFiles
      BY Zenon DEF Inv, TypeInv, Pending
    <3>2. file[todo[q].f].ip # 0
      BY Zenon DEF Inv, FileInv
    <3> QED BY <3>1, <3>2, <2>5, Zenon
  <2>10. LogInv'
    BY <2>1, Sizes, FS_EmptySet DEF LogInv
  <2> QED BY <2>6, <2>7, <2>8, <2>9, <2>10, Zenon DEF Inv, FileInv
\* The todo of a process after a chunk.
<1>6. ASSUME Inv, NEW p \in Procs, todo[p] # Nothing, NEW f \in OpenFiles, NEW off \in Nat,
             Moves(p, f, off), file[f].ip # 0
      PROVE  /\ file' \in [OpenFiles -> [ip : Inodes \union {0}, off : Nat]]
             /\ file'[f].off = off /\ \A g \in OpenFiles : file'[g].ip = file[g].ip
             /\ \A g \in OpenFiles \ {f} : file'[g] = file[g]
             /\ todo' \in [Procs -> Pending \union {Nothing}]
             /\ \A q \in Procs : todo'[q] # Nothing => todo[q] # Nothing /\ todo'[q].f = todo[q].f
  <2> USE <1>6
  <2>1. /\ file' \in [OpenFiles -> [ip : Inodes \union {0}, off : Nat]]
        /\ file'[f].off = off /\ \A g \in OpenFiles : file'[g].ip = file[g].ip
        /\ \A g \in OpenFiles \ {f} : file'[g] = file[g]
    BY Zenon DEF Moves, Inv, TypeInv
  <2> DEFINE new == IF Rest(p) = << >> THEN Nothing ELSE [todo[p] EXCEPT !.src = Rest(p)]
  <2>2. todo[p] \in Pending /\ Rest(p) \in Seq(Bytes)
    BY ChunkIs, Zenon
  <2>3. Rest(p) # << >> => new \in Pending /\ new.f = todo[p].f
    BY <2>2, Zenon DEF Pending
  <2>4. new \in Pending \union {Nothing} /\ (new # Nothing => new.f = todo[p].f)
    BY <2>3, Zenon
  <2>5. todo' = [todo EXCEPT ![p] = new]
    BY Zenon DEF Moves
  <2> HIDE DEF new
  <2>6. /\ todo' \in [Procs -> Pending \union {Nothing}] /\ todo'[p] = new
        /\ \A q \in Procs \ {p} : todo'[q] = todo[q]
    BY <2>4, <2>5, Zenon DEF Inv, TypeInv
  <2> QED BY <2>1, <2>4, <2>6, Zenon
\* A chunk keeps the invariant.
<1>7. ASSUME Inv, NEW p \in Procs, WriteChunk(p) PROVE Inv'
  <2> USE <1>7
  <2> DEFINE f == todo[p].f
             i == file[f].ip
             off == file[f].off
             n == ChunkLen(p)
             V == writei(Work(i), Chunk(p), off)
  <2>1. /\ panic = NoPanic /\ todo[p] # Nothing /\ UNCHANGED <<got, calls>>
        /\ f \in OpenFiles /\ i \in Inodes /\ off \in Nat /\ off <= inode[i].size
        /\ \/ /\ off + n > MAXFILE * BSIZE
              /\ todo' = [todo EXCEPT ![p] = Nothing]
              /\ UNCHANGED <<bitmap, data, inode, file, logged, panic>>
           \/ /\ panic' = OutOfBlocks
              /\ UNCHANGED <<bitmap, data, inode, file, todo, logged>>
           \/ /\ off + n <= MAXFILE * BSIZE
              /\ WriteDone(Work(i), V, Others(i), Chunk(p), off) /\ Transaction(i, V)
              /\ logged' = V.log /\ panic' = NoPanic /\ Moves(p, f, off + n)
    BY ChunkEffect, Zenon
  <2> HIDE DEF f, i, off, n, V
  <2>2. CASE /\ todo' = [todo EXCEPT ![p] = Nothing]
             /\ UNCHANGED <<bitmap, data, inode, file, logged, panic>>
    <3>1. OwnInv' /\ LogInv' /\ \A j \in Inodes : Whole(j)'
      BY <2>2, Untouched, Zenon DEF Inv, FileInv
    <3>2. todo' \in [Procs -> Pending \union {Nothing}] /\ todo'[p] = Nothing
          /\ \A q \in Procs \ {p} : todo'[q] = todo[q]
      BY <2>2, Zenon DEF Inv, TypeInv
    <3>3. TypeInv'
      BY <3>2, <2>1, <2>2, Zenon DEF Inv, TypeInv
    <3>4. \A q \in Procs : todo'[q] # Nothing => file'[todo'[q].f].ip # 0
      BY <3>2, <2>2, Zenon DEF Inv, FileInv
    <3>5. \A g \in OpenFiles : file'[g].ip # 0 => file'[g].off <= inode'[file'[g].ip].size
      BY <2>2, Zenon DEF Inv, FileInv
    <3> QED BY <3>1, <3>3, <3>4, <3>5, Zenon DEF Inv, FileInv
  <2>3. CASE panic' = OutOfBlocks /\ UNCHANGED <<bitmap, data, inode, file, todo, logged>>
    <3>1. OwnInv' /\ LogInv' /\ \A j \in Inodes : Whole(j)'
      BY <2>3, Untouched, Zenon DEF Inv, FileInv
    <3>2. TypeInv'
      BY <2>1, <2>3, Zenon DEF Inv, TypeInv
    <3> QED BY <3>1, <3>2, <2>3, Zenon DEF Inv, FileInv
  <2>4. CASE /\ off + n <= MAXFILE * BSIZE
             /\ WriteDone(Work(i), V, Others(i), Chunk(p), off) /\ Transaction(i, V)
             /\ logged' = V.log /\ panic' = NoPanic /\ Moves(p, f, off + n)
    <3>1. /\ V \in WorkType /\ NoHoles(V)
          /\ V.size = IF off + n > inode[i].size THEN off + n ELSE inode[i].size
          /\ IsFiniteSet(V.log) /\ Cardinality(V.log) <= Turns(off, n) + 3
      <4>1. Work(i).size = inode[i].size /\ Len(Chunk(p)) = n
        BY <2>1, WorkIs, ChunkIs, Zenon DEF Inv, n
      <4> QED BY <4>1, <2>4, Zenon DEF WriteDone
    <3>2. n \in Nat \ {0} /\ n <= maxChunk /\ inode[i].size \in Nat /\ V.size \in Nat
      <4>1. n \in 1 .. Len(todo[p].src) /\ n <= maxChunk /\ todo[p].src \in Seq(Bytes)
        BY <2>1, ChunkIs, Zenon DEF n
      <4> QED BY <4>1, <3>1, <2>1 DEF Inv, TypeInv, WorkType
    <3>3. off + n \in Nat /\ off + n <= V.size /\ inode[i].size <= V.size
      <4>1. off \in Nat /\ V.size = IF off + n > inode[i].size THEN off + n ELSE inode[i].size
        BY <3>1, <2>1, Zenon
      <4> QED BY <4>1, <3>2
    <3>4. OwnInv' /\ \A j \in Inodes : Whole(j)'
      BY <3>1, <2>1, <2>4, OwnAfter, WholeAfter, Zenon DEF Inv
    <3>5. /\ bitmap' \subseteq Blocks /\ data' \in [Blocks -> Rows]
          /\ inode' \in [Inodes -> [size : Nat, addrs : Addrs]] /\ inode'[i].size = V.size
          /\ \A j \in Inodes \ {i} : inode'[j] = inode[j]
      BY <2>1, <2>4, AfterTransaction, Zenon DEF Inv
    <3>6. file[f].ip # 0
      BY <2>1, Zenon DEF Inv, FileInv, f
    <3>7. /\ file' \in [OpenFiles -> [ip : Inodes \union {0}, off : Nat]]
          /\ file'[f].off = off + n /\ \A g \in OpenFiles : file'[g].ip = file[g].ip
          /\ \A g \in OpenFiles \ {f} : file'[g] = file[g]
          /\ todo' \in [Procs -> Pending \union {Nothing}]
          /\ \A q \in Procs : todo'[q] # Nothing => todo[q] # Nothing /\ todo'[q].f = todo[q].f
      BY <3>3, <3>6, <2>1, <2>4, <1>6, Zenon
    <3>8. TypeInv'
      BY <3>5, <3>7, <2>1, <2>4, Zenon DEF Inv, TypeInv
    <3>9. ASSUME NEW g \in OpenFiles, file'[g].ip # 0
          PROVE  file'[g].off <= inode'[file'[g].ip].size
      <4>1. file'[g].ip = file[g].ip /\ file[g].ip # 0
        BY <3>7, <3>9, Zenon
      <4>2. CASE g = f
        <5>1. file[g].ip = i
          BY <4>2, Zenon DEF i
        <5> QED BY <5>1, <4>1, <4>2, <3>3, <3>5, <3>7, Zenon
      <4>3. CASE g # f
        <5>1. /\ file[g].ip \in Inodes /\ file[g].off <= inode[file[g].ip].size
              /\ file[g].off \in Nat /\ inode[file[g].ip].size \in Nat
          BY <4>1, OpenFile, Zenon DEF Inv
        <5>2. file'[g].off = file[g].off
          BY <4>3, <3>7, Zenon
        <5>3. CASE file[g].ip = i
          BY <5>1, <5>2, <5>3, <4>1, <3>2, <3>3, <3>5
        <5>4. CASE file[g].ip # i
          BY <5>1, <5>2, <5>4, <4>1, <3>5, Zenon
        <5> QED BY <5>3, <5>4, Zenon
      <4> QED BY <4>2, <4>3, Zenon
    <3>10. ASSUME NEW q \in Procs, todo'[q] # Nothing PROVE file'[todo'[q].f].ip # 0
      <4>1. todo[q] # Nothing /\ todo'[q].f = todo[q].f
        BY <3>7, <3>10, Zenon
      <4>2. todo[q].f \in OpenFiles /\ file[todo[q].f].ip # 0
        BY <4>1, ChunkIs, Zenon DEF Inv, FileInv
      <4> QED BY <4>1, <4>2, <3>7, Zenon
    <3>11. LogInv'
      <4>1. Turns(off, n) <= LogShare + 1
        BY <3>2, <2>1, ChunkSize, TurnsBound, Zenon
      <4>2. Cardinality(V.log) \in Nat
        BY <3>1, FS_CardinalityType, Zenon
      <4>3. Turns(off, n) \in Nat
        BY <3>2, <2>1, <2>4, TurnNumbers, Zenon
      <4>4. Cardinality(V.log) <= LOGSIZE - 1
        BY <4>1, <4>2, <4>3, <3>1, ChunkSize, Sizes
      <4> QED BY <4>4, <3>1, <2>4, Zenon DEF LogInv
    <3> QED BY <3>4, <3>8, <3>9, <3>10, <3>11, Zenon DEF Inv, FileInv
  <2> QED BY <2>1, <2>2, <2>3, <2>4, Zenon
<1> SUFFICES ASSUME Inv, [Next]_vars PROVE Inv'
  OBVIOUS
<1>8. CASE UNCHANGED vars
  <2>1. UNCHANGED <<bitmap, data, inode, file, todo, got, logged, calls, panic>>
    BY <1>8, Zenon DEF vars
  <2>2. OwnInv' /\ LogInv' /\ \A j \in Inodes : Whole(j)'
    BY <2>1, Untouched, Zenon DEF Inv, FileInv
  <2> QED BY <2>1, <2>2, Zenon DEF Inv, FileInv, TypeInv
<1>9. CASE Next
  <2>1. CASE \E f \in OpenFiles : Close(f) \/ \E i \in Inodes : Open(f, i)
    BY <2>1, <1>1, <1>2, Zenon
  <2>2. CASE \E i \in Inodes : Discard(i)
    BY <2>2, <1>4, Zenon
  <2>3. CASE \E p \in Procs : WriteChunk(p)
    BY <2>3, <1>7, Zenon
  <2>4. CASE \E p \in Procs : \E f \in OpenFiles :
               \/ \E src \in Sources : filewrite(p, f, src)
               \/ \E n \in Lengths : fileread(p, f, n)
    BY <2>4, <1>3, <1>5, Zenon
  <2> QED BY <1>9, <2>1, <2>2, <2>3, <2>4, Zenon DEF Next
<1> QED BY <1>8, <1>9, Zenon

\* The invariant gives BlocksOwnedOnce: the places that hold a block and the
\* blocks in use are as many.
LEMMA OwnedOnce == Inv => BlocksOwnedOnce
<1> SUFFICES ASSUME Inv PROVE BlocksOwnedOnce
  OBVIOUS
<1> DEFINE P == {x \in Inodes \X Idx : Owned(x[1])[x[2]] # 0}
           h == [x \in P |-> Owned(x[1])[x[2]]]
<1>1. \A x \in P : x[1] \in Inodes /\ x[2] \in Idx /\ x = <<x[1], x[2]>> /\ Owned(x[1])[x[2]] # 0
  OBVIOUS
<1>2. \A i \in Inodes : \A k \in Idx : Owned(i)[k] # 0 => <<i, k>> \in P
  OBVIOUS
<1>3. {Owned(x[1])[x[2]] : x \in P} = bitmap
  <2>1. \A x \in P : Owned(x[1])[x[2]] \in bitmap
    BY <1>1, Zenon DEF Inv, OwnInv
  <2>2. ASSUME NEW b \in bitmap PROVE \E x \in P : Owned(x[1])[x[2]] = b
    <3>1. PICK i \in Inodes, k \in Idx : Owned(i)[k] = b
      BY Zenon DEF Inv, OwnInv
    <3>2. b # 0
      BY BlockNumbers, Zenon DEF Inv, TypeInv
    <3>3. <<i, k>> \in P
      BY <3>1, <3>2, <1>2, Zenon
    <3>4. <<i, k>>[1] = i /\ <<i, k>>[2] = k
      OBVIOUS
    <3> HIDE DEF P
    <3>5. Owned(<<i, k>>[1])[<<i, k>>[2]] = b
      BY <3>1, <3>4, Zenon
    <3> QED BY <3>3, <3>5, Zenon
  <2> HIDE DEF P
  <2> QED BY <2>1, <2>2, Zenon
<1>4. \A x, y \in P : Owned(x[1])[x[2]] = Owned(y[1])[y[2]] => x = y
  <2> SUFFICES ASSUME NEW x \in P, NEW y \in P, Owned(x[1])[x[2]] = Owned(y[1])[y[2]]
               PROVE  x = y
    BY Zenon
  <2>1. /\ x[1] \in Inodes /\ x[2] \in Idx /\ x = <<x[1], x[2]>> /\ Owned(x[1])[x[2]] # 0
        /\ y[1] \in Inodes /\ y[2] \in Idx /\ y = <<y[1], y[2]>>
    BY <1>1, Zenon
  <2>2. x[1] = y[1] /\ x[2] = y[2]
    BY <2>1 DEF Inv, OwnInv
  <2> QED BY <2>1, <2>2, Zenon
<1> HIDE DEF P
<1>5. h \in [P -> bitmap] /\ \A x \in P : h[x] = Owned(x[1])[x[2]]
  BY <1>3, Zenon
<1> HIDE DEF h
<1>6. h \in Injection(P, bitmap)
  BY <1>4, <1>5 DEF Injection, IsInjective
<1>7. h \in Surjection(P, bitmap)
  BY <1>3, <1>5 DEF Surjection
<1>8. IsFiniteSet(bitmap)
  <2>1. IsFiniteSet(Blocks)
    BY Sizes, FS_Interval DEF Blocks
  <2>2. bitmap \in SUBSET Blocks
    BY Zenon DEF Inv, TypeInv
  <2> QED BY <2>1, <2>2, FS_Subset, Zenon
<1>9. Cardinality(bitmap) = Cardinality(P)
  BY <1>6, <1>7, <1>8, FS_Injection, Zenon
<1>10. panic \in {NoPanic, "balloc: out of blocks"}
  BY Zenon DEF Inv, TypeInv, OutOfBlocks
<1> QED BY <1>3, <1>9, <1>10, Zenon DEF BlocksOwnedOnce, P, Idx

\* The allocator, bmap() and itrunc() neither lose a block nor give it twice,
\* on a disk of any size and for files of any shape.
THEOREM OwnedByOne == Spec => []BlocksOwnedOnce
<1>1. Init => Inv
  BY InvInit, Zenon
<1>2. Inv /\ [Next]_vars => Inv'
  BY InvNext, Zenon
<1>3. Inv => BlocksOwnedOnce
  BY OwnedOnce, Zenon
<1> QED BY <1>1, <1>2, <1>3, PTL DEF Spec

\* A chunk never overflows the log, wherever in its file it starts and
\* whatever blocks it allocates, for any log of 6 blocks or more.
THEOREM TransactionFits == Spec => []ChunkFitsLog
<1>1. Init => Inv
  BY InvInit, Zenon
<1>2. Inv /\ [Next]_vars => Inv'
  BY InvNext, Zenon
<1>3. Inv => ChunkFitsLog
  BY Zenon DEF Inv, LogInv, ChunkFitsLog
<1> QED BY <1>1, <1>2, <1>3, PTL DEF Spec

-----------------------------------------------------------------------------
(* The blocks implement files that are sequences of bytes.                 *)

\* The content of a file is what its cells hold.
LEMMA ContentIs ==
  ASSUME TypeInv, NEW i \in Inodes
  PROVE  /\ Content[i] = [k \in 1 .. inode[i].size |-> CellOf(Work(i), k - 1)]
         /\ inode[i].size \in Nat
<1>1. \A x \in Nat : Cell(i, x) = data[Owned(i)[Pos(x \div BSIZE)]][x % BSIZE]
  BY Zenon DEF Cell, Pos
<1>2. Held(Work(i)) = Owned(i) /\ Work(i).data = data
  BY WorkIs, Zenon
<1>3. \A x \in Nat : Cell(i, x) = CellOf(Work(i), x)
  BY <1>1, <1>2, Zenon DEF CellOf
<1>4. inode[i].size \in Nat
  BY Zenon DEF TypeInv
<1>5. Content[i] = [k \in 1 .. inode[i].size |-> Cell(i, k - 1)]
  BY Zenon DEF Content
<1>6. \A k \in 1 .. inode[i].size : Cell(i, k - 1) = CellOf(Work(i), k - 1)
  BY <1>3, <1>4
<1> QED BY <1>4, <1>5, <1>6, Zenon

\* A sequence of cells of some length.
LEMMA ContentSeq ==
  ASSUME TypeInv, NEW i \in Inodes
  PROVE  /\ Len(Content[i]) = inode[i].size
         /\ \E T : Bytes \subseteq T /\ Content[i] \in Seq(T)
<1> DEFINE n == inode[i].size
           g(k) == CellOf(Work(i), k - 1)
           T == {g(k) : k \in 1 .. n} \union Bytes
<1>1. Content[i] = [k \in 1 .. n |-> g(k)] /\ n \in Nat
  BY ContentIs, Zenon
<1> HIDE DEF g, n
<1>2. Content[i] \in [1 .. n -> T] /\ Bytes \subseteq T
  BY <1>1, Zenon
<1> HIDE DEF T
<1>3. Content[i] \in Seq(T) /\ Len(Content[i]) = n
  BY <1>1, <1>2
<1> QED BY <1>2, <1>3, Zenon DEF n

\* What a transaction does to the contents.
LEMMA ContentAfter ==
  ASSUME Inv, NEW i \in Inodes, NEW V, Transaction(i, V)
  PROVE  Content' = [Content EXCEPT ![i] = [k \in 1 .. V.size |-> CellOf(V, k - 1)]]
<1>1. /\ inode'[i].size = V.size /\ Owned(i)' = Held(V) /\ data' = V.data /\ V \in WorkType
      /\ \A j \in Inodes \ {i} : inode'[j] = inode[j] /\ Owned(j)' = Owned(j)
      /\ \A j \in Inodes \ {i} : \A k \in Idx :
           Owned(j)[k] # 0 => data'[Owned(j)[k]] = data[Owned(j)[k]]
  <2>1. TypeInv /\ OwnInv
    BY Zenon DEF Inv
  <2>2. data' = V.data /\ V \in WorkType
    BY Zenon DEF Transaction
  <2> QED BY <2>1, <2>2, AfterTransaction, Zenon
<1>2. /\ Content = [j \in Inodes |-> [k \in 1 .. inode[j].size |-> Cell(j, k - 1)]]
      /\ Content' = [j \in Inodes |-> [k \in 1 .. inode'[j].size |-> Cell(j, k - 1)']]
  BY Zenon DEF Content
<1>3. \A j \in Inodes : \A x \in Nat :
        /\ Cell(j, x) = data[Owned(j)[Pos(x \div BSIZE)]][x % BSIZE]
        /\ Cell(j, x)' = data'[Owned(j)'[Pos(x \div BSIZE)]][x % BSIZE]
  BY Zenon DEF Cell, Pos
<1>4. Content'[i] = [k \in 1 .. V.size |-> CellOf(V, k - 1)]
  <2>1. \A x \in Nat : Cell(i, x)' = CellOf(V, x)
    BY <1>1, <1>3, Zenon DEF CellOf
  <2>2. V.size \in Nat
    BY <1>1, Zenon DEF WorkType
  <2>3. \A k \in 1 .. V.size : Cell(i, k - 1)' = CellOf(V, k - 1)
    BY <2>1, <2>2
  <2> QED BY <1>1, <1>2, <2>3, Zenon
<1>5. ASSUME NEW j \in Inodes \ {i} PROVE Content'[j] = Content[j]
  <2>1. inode[j].size \in Nat /\ inode[j].size <= MAXFILE * BSIZE
    BY Zenon DEF Inv, TypeInv, FileInv, Whole
  <2>2. ASSUME NEW k \in 1 .. inode[j].size PROVE Cell(j, k - 1)' = Cell(j, k - 1)
    <3> DEFINE x == k - 1
               bn == x \div BSIZE
    <3>0. MAXFILE * BSIZE \in Nat
      BY Sizes DEF MAXFILE, NINDIRECT
    <3>1. x \in Nat /\ x < inode[j].size /\ x < MAXFILE * BSIZE
      BY <2>1, <3>0
    <3> HIDE DEF x
    <3>2. bn \in 0 .. MAXFILE - 1 /\ bn * BSIZE <= x
      BY <3>1, CellBlock, Zenon
    <3> HIDE DEF bn
    <3>3. bn * BSIZE < inode[j].size
      BY <3>1, <3>2, <2>1, BlockNumbers, Sizes
    <3>4. Owned(j)[Pos(bn)] # 0
      BY <3>2, <3>3, Zenon DEF Inv, FileInv, Whole
    <3>5. Pos(bn) \in Idx
      BY <3>2, Sizes DEF Pos, Idx, MAXFILE, NINDIRECT
    <3>6. data'[Owned(j)[Pos(bn)]] = data[Owned(j)[Pos(bn)]] /\ Owned(j)' = Owned(j)
      BY <1>1, <3>4, <3>5, Zenon
    <3>7. /\ Cell(j, x) = data[Owned(j)[Pos(bn)]][x % BSIZE]
          /\ Cell(j, x)' = data'[Owned(j)'[Pos(bn)]][x % BSIZE]
      BY <1>3, <3>1, Zenon DEF bn
    <3>8. Cell(j, x)' = Cell(j, x)
      BY <3>6, <3>7, Zenon
    <3> QED BY <3>8, Zenon DEF x
  <2>3. inode'[j] = inode[j]
    BY <1>1, Zenon
  <2> QED BY <1>2, <2>2, <2>3, Zenon
<1> DEFINE new == [k \in 1 .. V.size |-> CellOf(V, k - 1)]
<1>6. Content'[i] = new /\ \A j \in Inodes \ {i} : Content'[j] = Content[j]
  BY <1>4, <1>5, Zenon
<1> HIDE DEF new
<1>7. DOMAIN Content = Inodes /\ DOMAIN Content' = Inodes
      /\ Content = [j \in Inodes |-> Content[j]] /\ Content' = [j \in Inodes |-> Content'[j]]
  BY <1>2, Zenon
<1> HIDE DEF Content
<1>8. Content' = [Content EXCEPT ![i] = new]
  BY <1>6, <1>7, Zenon
<1> QED BY <1>8, Zenon DEF new

\* Content depends on the inodes and the blocks alone.
LEMMA ContentSame ==
  ASSUME UNCHANGED <<data, inode>> PROVE Content' = Content
<1>1. \A j \in Inodes : \A x : Cell(j, x)' = Cell(j, x)
  BY Zenon DEF Cell, Owned
<1> QED BY <1>1, Zenon DEF Content

\* What is taken away and added again.
LEMMA AddBack ==
  ASSUME NEW m \in Nat, NEW o \in Nat, NEW n \in Nat PROVE (o + n) + (m - (o + n)) = m
OBVIOUS

\* The bytes of Overwrite, one by one.
LEMMA OverwriteIs ==
  ASSUME NEW T, NEW s \in Seq(T), NEW b \in Seq(T), NEW o \in 0 .. Len(s),
         NEW m, m = IF o + Len(b) > Len(s) THEN o + Len(b) ELSE Len(s)
  PROVE  Abs!Overwrite(s, b, o) =
           [k \in 1 .. m |-> IF k > o /\ k <= o + Len(b) THEN b[k - o] ELSE s[k]]
<1> DEFINE n == Len(b)
           u == SubSeq(s, 1, o)
           v == SubSeq(s, o + n + 1, Len(s))
           ub == u \o b
           w == ub \o v
<1>1. Len(s) \in Nat /\ n \in Nat /\ o \in Nat /\ o <= Len(s) /\ m \in Nat /\ m >= o + n
  OBVIOUS
<1>2. u \in Seq(T) /\ Len(u) = o /\ \A k \in 1 .. o : u[k] = s[k]
  BY <1>1
<1>3. /\ v \in Seq(T) /\ Len(v) = m - (o + n)
      /\ \A k \in 1 .. m - (o + n) : v[k] = s[(o + n) + k]
  BY <1>1
<1>4. Abs!Overwrite(s, b, o) = w
  BY Zenon DEF Abs!Overwrite
<1> HIDE DEF u, v
<1>5. /\ ub \in Seq(T) /\ Len(ub) = o + n
      /\ \A k \in 1 .. o : ub[k] = s[k]
      /\ \A k \in o + 1 .. o + n : ub[k] = b[k - o]
  <2>1. ub \in Seq(T)
    BY <1>2
  <2>2. Len(ub) = o + n
    BY <1>2
  <2>3. \A k \in 1 .. o : ub[k] = s[k]
    BY <1>1, <1>2
  <2>4. \A k \in o + 1 .. o + n : ub[k] = b[k - o]
    BY <1>1, <1>2
  <2> QED BY <2>1, <2>2, <2>3, <2>4, Zenon
<1> HIDE DEF ub, n
<1>6. w \in Seq(T) /\ Len(w) = m
  <2>1. ub \in Seq(T) /\ v \in Seq(T)
    BY <1>3, <1>5, Zenon
  <2>2. w \in Seq(T)
    BY <2>1
  <2>3. Len(w) = Len(ub) + Len(v)
    BY <2>1
  <2>4. Len(ub) = o + n /\ Len(v) = m - (o + n)
    BY <1>3, <1>5, Zenon
  <2>5. m \in Nat /\ o \in Nat /\ n \in Nat
    BY <1>1, Zenon
  <2> HIDE DEF w
  <2>6. Len(w) = (o + n) + (m - (o + n))
    BY <2>3, <2>4, Zenon
  <2>7. (o + n) + (m - (o + n)) = m
    BY <2>5, AddBack, Zenon
  <2> QED BY <2>2, <2>6, <2>7, Zenon
<1>7. \A k \in 1 .. o + n : w[k] = ub[k]
  BY <1>1, <1>3, <1>5
<1>8. \A k \in o + n + 1 .. m : w[k] = v[k - (o + n)]
  BY <1>1, <1>3, <1>5
<1> HIDE DEF w
<1>9. ASSUME NEW k \in 1 .. m
      PROVE  w[k] = IF k > o /\ k <= o + n THEN b[k - o] ELSE s[k]
  <2>1. CASE k <= o
    <3>1. w[k] = ub[k] /\ ub[k] = s[k]
      BY <2>1, <1>1, <1>5, <1>7
    <3> QED BY <3>1, <2>1, <1>1
  <2>2. CASE k > o /\ k <= o + n
    <3>1. w[k] = ub[k] /\ ub[k] = b[k - o]
      BY <2>2, <1>1, <1>5, <1>7
    <3> QED BY <3>1, <2>2, Zenon
  <2>3. CASE k > o + n
    <3>1. k - (o + n) \in 1 .. m - (o + n) /\ w[k] = v[k - (o + n)]
      BY <2>3, <1>1, <1>8
    <3> QED BY <3>1, <2>3, <1>1, <1>3
  <2> QED BY <2>1, <2>2, <2>3, <1>1
<1>10. w = [k \in 1 .. m |-> w[k]]
  BY <1>1, <1>6
<1> QED BY <1>4, <1>9, <1>10, Zenon DEF n

\* Files are empty at first.
LEMMA RefInit == Init => Abs!Init
<1> SUFFICES ASSUME Init PROVE Abs!Init
  OBVIOUS
<1>1. \A i \in Inodes : inode[i].size = 0
  BY Zenon DEF Init, NewInode
<1>2. \A i \in Inodes : [k \in 1 .. inode[i].size |-> Cell(i, k - 1)] = << >>
  <2> SUFFICES ASSUME NEW i \in Inodes
               PROVE  [k \in 1 .. inode[i].size |-> Cell(i, k - 1)] = << >>
    BY Zenon
  <2> DEFINE g(k) == Cell(i, k - 1)
  <2> HIDE DEF g
  <2>1. [k \in 1 .. 0 |-> g(k)] = << >>
    OBVIOUS
  <2> QED BY <2>1, <1>1, Zenon DEF g
<1>3. Content = [i \in Inodes |-> << >>]
  BY <1>2, Zenon DEF Content
<1> QED BY <1>3, Zenon DEF Init, Abs!Init, Nothing, Abs!Nothing

\* A chunk is a Write of its bytes, or a GiveUp; a panic shows nowhere.
LEMMA RefChunk ==
  ASSUME Inv, NEW p \in Procs, WriteChunk(p)
  PROVE  \/ \E k \in 1 .. MAXFILE * BSIZE : Abs!Write(p, k)
         \/ Abs!GiveUp(p) \/ UNCHANGED Abs!vars
<1> DEFINE f == todo[p].f
           i == file[f].ip
           off == file[f].off
           n == ChunkLen(p)
           V == writei(Work(i), Chunk(p), off)
<1>1. /\ todo[p] # Nothing /\ UNCHANGED got
      /\ f \in OpenFiles /\ i \in Inodes /\ off \in Nat /\ off <= inode[i].size
      /\ \/ /\ off + n > MAXFILE * BSIZE
            /\ todo' = [todo EXCEPT ![p] = Nothing]
            /\ UNCHANGED <<data, inode, file>>
         \/ UNCHANGED <<data, inode, file, todo>>
         \/ /\ off + n <= MAXFILE * BSIZE
            /\ WriteDone(Work(i), V, Others(i), Chunk(p), off) /\ Transaction(i, V)
            /\ Moves(p, f, off + n)
  BY ChunkEffect, Zenon
<1>2. /\ todo[p] \in Pending /\ todo[p].src \in Seq(Bytes) /\ n \in 1 .. Len(todo[p].src)
      /\ Chunk(p) \in Seq(Bytes) /\ Len(Chunk(p)) = n
  BY <1>1, ChunkIs, Zenon
<1>3. n \in Nat \ {0} /\ n <= Len(todo[p].src) /\ Len(todo[p].src) \in Nat
      /\ MAXFILE * BSIZE \in Nat
  BY <1>2, Sizes DEF MAXFILE, NINDIRECT
<1> HIDE DEF n, V
<1> DEFINE full == MAXFILE * BSIZE
           l == Len(todo[p].src)
<1>7. /\ off + n > full => off + l > full
      /\ off + n <= full => n \in 1 .. full
  <2>1. off \in Nat /\ n \in Nat \ {0} /\ l \in Nat /\ full \in Nat /\ n <= l
    BY <1>1, <1>3, Zenon
  <2> HIDE DEF full, l, off
  <2> QED BY <2>1
<1>4. CASE /\ off + n > MAXFILE * BSIZE
           /\ todo' = [todo EXCEPT ![p] = Nothing]
           /\ UNCHANGED <<data, inode, file>>
  <2>1. off + Len(todo[p].src) > MAXFILE * BSIZE
    BY <1>4, <1>7, Zenon
  <2>2. Content' = Content
    BY <1>4, ContentSame, Zenon
  <2> QED BY <2>1, <2>2, <1>1, <1>4, Zenon DEF Abs!GiveUp, Nothing, Abs!Nothing
<1>5. CASE UNCHANGED <<data, inode, file, todo>>
  <2>1. Content' = Content
    BY <1>5, ContentSame, Zenon
  <2> QED BY <2>1, <1>1, <1>5, Zenon DEF Abs!vars
<1>6. CASE /\ off + n <= MAXFILE * BSIZE
           /\ WriteDone(Work(i), V, Others(i), Chunk(p), off) /\ Transaction(i, V)
           /\ Moves(p, f, off + n)
  <2> DEFINE s == Content[i]
             b == Chunk(p)
  <2>1. /\ V.size = IF off + n > inode[i].size THEN off + n ELSE inode[i].size
        /\ \A x \in 0 .. V.size - 1 :
             CellOf(V, x) = IF x >= off /\ x < off + n THEN b[x - off + 1]
                            ELSE CellOf(Work(i), x)
    <3>1. Work(i).size = inode[i].size
      BY <1>1, WorkIs, Zenon DEF Inv
    <3> QED BY <3>1, <1>2, <1>6, Zenon DEF WriteDone
  <2>2. /\ Len(s) = inode[i].size /\ inode[i].size \in Nat
        /\ s = [k \in 1 .. inode[i].size |-> CellOf(Work(i), k - 1)]
    BY <1>1, ContentIs, ContentSeq, Zenon DEF Inv
  <2>3. PICK T : Bytes \subseteq T /\ s \in Seq(T)
    BY <1>1, ContentSeq, Zenon DEF Inv
  <2> HIDE DEF f, i, off, s, b
  <2>4. b \in Seq(T) /\ off \in 0 .. Len(s)
    <3>1. b \in Seq(Bytes)
      BY <1>2, Zenon DEF b
    <3>2. b \in Seq(T)
      BY <3>1, <2>3
    <3>3. off \in 0 .. Len(s)
      BY <2>2, <1>1
    <3> QED BY <3>2, <3>3, Zenon
  <2>5. Content' = [Content EXCEPT ![i] = [k \in 1 .. V.size |-> CellOf(V, k - 1)]]
    BY <1>1, <1>6, ContentAfter, Zenon
  <2>6. Abs!Overwrite(s, b, off) =
          [k \in 1 .. V.size |-> IF k > off /\ k <= off + n THEN b[k - off] ELSE s[k]]
    <3>1. Len(b) = n
      BY <1>2, Zenon DEF b
    <3>2. V.size = IF off + Len(b) > Len(s) THEN off + Len(b) ELSE Len(s)
      BY <3>1, <2>1, <2>2, Zenon
    <3>3. Abs!Overwrite(s, b, off) =
            [k \in 1 .. V.size |-> IF k > off /\ k <= off + Len(b) THEN b[k - off] ELSE s[k]]
      <4>1. s \in Seq(T) /\ b \in Seq(T) /\ off \in 0 .. Len(s)
        BY <2>3, <2>4, Zenon
      <4> QED BY <4>1, <3>2, OverwriteIs
    <3> QED BY <3>1, <3>3, Zenon
  <2>7. ASSUME NEW k \in 1 .. V.size
        PROVE  CellOf(V, k - 1) = IF k > off /\ k <= off + n THEN b[k - off] ELSE s[k]
    <3>0. V.size \in Nat /\ off \in Nat /\ n \in Nat
      BY <2>1, <2>2, <1>1, <1>3
    <3>1. /\ V.size \in Nat /\ k - 1 \in 0 .. V.size - 1 /\ (k - 1) - off + 1 = k - off
          /\ (k - 1 >= off <=> k > off) /\ (k - 1 < off + n <=> k <= off + n)
      BY <3>0
    <3>2. CellOf(V, k - 1) = IF k - 1 >= off /\ k - 1 < off + n THEN b[(k - 1) - off + 1]
                             ELSE CellOf(Work(i), k - 1)
      BY <2>1, <3>1, Zenon
    <3>3. CASE k > off /\ k <= off + n
      BY <3>1, <3>2, <3>3, Zenon
    <3>4. CASE ~(k > off /\ k <= off + n)
      <4>1. CellOf(V, k - 1) = CellOf(Work(i), k - 1)
        BY <3>1, <3>2, <3>4, Zenon
      <4>2. k \in 1 .. inode[i].size
        <5>1. V.size = IF off + n > inode[i].size THEN off + n ELSE inode[i].size
          BY <2>1, Zenon
        <5>2. off <= inode[i].size /\ inode[i].size \in Nat
          BY <1>1, <2>2, Zenon
        <5> QED BY <5>1, <5>2, <3>0, <3>4
      <4>3. s[k] = CellOf(Work(i), k - 1)
        BY <4>2, <2>2, Zenon
      <4> QED BY <4>1, <4>3, <3>4, Zenon
    <3> QED BY <3>3, <3>4, Zenon
  <2>8. Content' = [Content EXCEPT ![i] = Abs!Overwrite(@, b, off)]
    <3>1. [k \in 1 .. V.size |-> CellOf(V, k - 1)] = Abs!Overwrite(s, b, off)
      BY <2>6, <2>7, Zenon
    <3> QED BY <3>1, <2>5, Zenon DEF s
  <2>9. todo' = [todo EXCEPT ![p] = IF Rest(p) = << >> THEN Abs!Nothing
                                    ELSE [f |-> f, src |-> Rest(p)]]
    <3>1. \A r : [todo[p] EXCEPT !.src = r] = [f |-> f, src |-> r]
      BY <1>2 DEF Pending, f
    <3>2. todo' = [todo EXCEPT ![p] = IF Rest(p) = << >> THEN Nothing
                                      ELSE [todo[p] EXCEPT !.src = Rest(p)]]
      BY <1>6, Zenon DEF Moves
    <3> QED BY <3>1, <3>2, Zenon DEF Nothing, Abs!Nothing
  <2>10. n \in 1 .. MAXFILE * BSIZE
    BY <1>6, <1>7, Zenon
  <2>11. Abs!Write(p, n)
    BY <2>8, <2>9, <1>1, <1>3, <1>6, Zenon DEF Abs!Write, Moves, Rest, Chunk, b, n, f, i, off
  <2> QED BY <2>10, <2>11, Zenon
<1> QED BY <1>1, <1>4, <1>5, <1>6, Zenon

\* A read returns the bytes at the offset.
LEMMA RefRead ==
  ASSUME Inv, NEW p \in Procs, NEW f \in OpenFiles, NEW n \in Lengths, fileread(p, f, n)
  PROVE  Abs!Read(p, f, n)
<1> DEFINE i == file[f].ip
           o == file[f].off
           V == readi(Work(i), o, n)
           s == Content[i]
           m == ReadLen(Work(i), o, n)
           e == IF o + n > Len(s) THEN Len(s) ELSE o + n
           b == SubSeq(s, o + 1, e)
<1>1. /\ i \in Inodes /\ ReadDone(Work(i), V, o, n) /\ UNCHANGED <<data, inode, todo>>
      /\ Returns(p, f, V)
  BY ReadEffect, Zenon
<1>2. todo[p] = Nothing /\ i # 0
  BY Zenon DEF fileread
<1> HIDE DEF V
<1>3. /\ m \in Nat /\ o + m <= inode[i].size /\ V.out \in [1 .. m -> Cells]
      /\ \A j \in 1 .. m : V.out[j] = CellOf(Work(i), o + j - 1)
      /\ m = IF o + n > inode[i].size THEN inode[i].size - o ELSE n
  <2>1. Work(i).size = inode[i].size
    BY <1>1, WorkIs, Zenon DEF Inv
  <2> QED BY <2>1, <1>1, Zenon DEF ReadDone, ReadLen
<1>4. /\ Len(s) = inode[i].size /\ inode[i].size \in Nat
      /\ s = [k \in 1 .. inode[i].size |-> CellOf(Work(i), k - 1)]
  BY <1>1, ContentIs, ContentSeq, Zenon DEF Inv
<1>5. PICK T : s \in Seq(T)
  BY <1>1, ContentSeq, Zenon DEF Inv
<1>6. o \in Nat /\ n \in Nat \ {0}
  BY <1>2, OpenFile, Sizes, Zenon DEF Inv
<1> HIDE DEF m, s, i, o
<1>7. e = o + m /\ o + m \in 0 .. Len(s)
  BY <1>3, <1>4, <1>6
<1> HIDE DEF e
<1>8. b \in Seq(T) /\ Len(b) = m /\ \A j \in 1 .. m : b[j] = s[o + j]
  <2>1. m \in Nat
    BY <1>3, Zenon
  <2> QED BY <2>1, <1>5, <1>6, <1>7
<1> HIDE DEF b
<1>9. ASSUME NEW j \in 1 .. m PROVE V.out[j] = b[j]
  <2>1. o + j \in 1 .. inode[i].size /\ (o + j) - 1 = o + j - 1
    <3>1. m \in Nat /\ o + m <= inode[i].size /\ inode[i].size \in Nat
      BY <1>3, <1>4, Zenon
    <3> QED BY <3>1, <1>6
  <2>2. s[o + j] = CellOf(Work(i), (o + j) - 1)
    BY <1>4, <2>1, Zenon
  <2>3. V.out[j] = CellOf(Work(i), o + j - 1) /\ b[j] = s[o + j]
    BY <1>3, <1>8, Zenon
  <2> QED BY <2>1, <2>2, <2>3, Zenon
<1>10. V.out = b
  <2>1. V.out = [j \in 1 .. m |-> V.out[j]]
    BY <1>3, Zenon
  <2>2. b = [j \in 1 .. m |-> b[j]]
    BY <1>3, <1>8
  <2> QED BY <2>1, <2>2, <1>9, Zenon
<1>11. Content' = Content
  BY <1>1, ContentSame, Zenon
<1>12. got' = [got EXCEPT ![p] = b] /\ file' = [file EXCEPT ![f].off = o + Len(b)]
  BY <1>1, <1>10, Zenon DEF Returns, o
<1> QED BY <1>1, <1>2, <1>11, <1>12, Zenon DEF Abs!Read, Nothing, Abs!Nothing, b, e, s, i, o

\* Every step is a step of the files of bytes, or changes none of them.
LEMMA RefNext == Inv /\ [Next]_vars => [Abs!Next]_Abs!vars
<1> SUFFICES ASSUME Inv, [Next]_vars PROVE Abs!Next \/ UNCHANGED Abs!vars
  BY Zenon
<1>1. CASE UNCHANGED vars
  <2>1. UNCHANGED <<data, inode, file, todo, got>>
    BY <1>1, Zenon DEF vars
  <2>2. Content' = Content
    BY <2>1, ContentSame, Zenon
  <2> QED BY <2>1, <2>2, Zenon DEF Abs!vars
<1>2. ASSUME NEW f \in OpenFiles, Close(f) PROVE Abs!Next
  <2>1. Content' = Content
    BY <1>2, ContentSame, Zenon DEF Close
  <2>2. Abs!Close(f)
    BY <1>2, <2>1, Zenon DEF Close, Abs!Close
  <2> QED BY <2>2, Zenon DEF Abs!Next
<1>3. ASSUME NEW f \in OpenFiles, NEW i \in Inodes, Open(f, i) PROVE Abs!Next
  <2>1. Content' = Content
    BY <1>3, ContentSame, Zenon DEF Open
  <2>2. Abs!Open(f, i)
    BY <1>3, <2>1, Zenon DEF Open, Abs!Open
  <2> QED BY <2>2, Zenon DEF Abs!Next
<1>4. ASSUME NEW i \in Inodes, Discard(i) PROVE Abs!Next
  <2> DEFINE V == itrunc(Work(i))
  <2>1. Transaction(i, V) /\ V.size = 0
    BY <1>4, DiscardEffect, Zenon
  <2>2. Content' = [Content EXCEPT ![i] = [k \in 1 .. V.size |-> CellOf(V, k - 1)]]
    BY <2>1, ContentAfter, Zenon
  <2> HIDE DEF V
  <2>3. [k \in 1 .. V.size |-> CellOf(V, k - 1)] = << >>
    <3> DEFINE g(k) == CellOf(V, k - 1)
    <3> HIDE DEF g
    <3>1. [k \in 1 .. 0 |-> g(k)] = << >>
      OBVIOUS
    <3> QED BY <3>1, <2>1, Zenon DEF g
  <2>4. Abs!Remove(i)
    BY <1>4, <2>2, <2>3, Zenon DEF Discard, Abs!Remove
  <2> QED BY <2>4, Zenon DEF Abs!Next
<1>5. ASSUME NEW p \in Procs, WriteChunk(p) PROVE Abs!Next \/ UNCHANGED Abs!vars
  BY <1>5, RefChunk, Zenon DEF Abs!Next
<1>6. ASSUME NEW p \in Procs, NEW f \in OpenFiles, NEW src \in Sources, filewrite(p, f, src)
      PROVE  Abs!Next
  <2>1. Content' = Content
    BY <1>6, ContentSame, Zenon DEF filewrite
  <2>2. Abs!Begin(p, f, src)
    BY <1>6, <2>1, Zenon DEF filewrite, Abs!Begin, Nothing, Abs!Nothing
  <2> QED BY <2>2, SourceType, Zenon DEF Abs!Next
<1>7. ASSUME NEW p \in Procs, NEW f \in OpenFiles, NEW n \in Lengths, fileread(p, f, n)
      PROVE  Abs!Next
  BY <1>7, RefRead, Zenon DEF Abs!Next
<1> QED BY <1>1, <1>2, <1>3, <1>4, <1>5, <1>6, <1>7, Zenon DEF Next

\* The blocks implement files that are sequences of bytes, for any number of
\* processes, files and open files, on a disk of any size and with blocks of
\* any size: a read returns the bytes that are where its offset is, a chunk
\* of a write replaces those, and nothing else changes the content of a file.
THEOREM FilesOfBytes == Spec => ImplementsByteFiles
<1>1. Init => Inv /\ Abs!Init
  BY InvInit, RefInit, Zenon
<1>2. Inv /\ [Next]_vars => Inv' /\ [Abs!Next]_Abs!vars
  BY InvNext, RefNext, Zenon
<1> QED BY <1>1, <1>2, PTL DEF Spec, ImplementsByteFiles, Abs!Spec
=============================================================================
