------------------------------ MODULE FileData ------------------------------
(***************************************************************************)
(* The content of files: the block allocator, bmap(), itrunc(), readi()    *)
(* and writei() of fs.c under fileread() and filewrite() of file.c.        *)
(*                                                                         *)
(* A block is BSIZE cells; a cell is a byte of a file, or a block number   *)
(* when the block is an indirect one.  The functions of fs.c transform a   *)
(* record of what they change: the bitmap, the blocks, one inode, the      *)
(* blocks that log_write() has recorded, and the panic.  Each chunk of a   *)
(* write is one transaction with the inode locked, hence one step.         *)
(***************************************************************************)
EXTENDS Integers, Sequences, FiniteSets, FiniteSetsExt

CONSTANTS
  Procs,
  Inodes,
  OpenFiles,       \* the struct files
  Bytes,
  NBLOCKS,         \* data blocks on the disk
  BSIZE, NDIRECT,
  LOGSIZE,
  Lengths,         \* bound: the sizes of reads and writes
  MaxCalls         \* bound: calls in all

ASSUME ConstantsAssumption ==
  /\ {NBLOCKS, BSIZE, LOGSIZE} \subseteq Nat \ {0}
  /\ {NDIRECT, MaxCalls} \subseteq Nat /\ Lengths \subseteq Nat \ {0}
  /\ LOGSIZE >= 6
  /\ 0 \notin Inodes \union OpenFiles

Blocks == 1 .. NBLOCKS
NINDIRECT == BSIZE
MAXFILE == NDIRECT + NINDIRECT
BitmapBlock == -1   \* the blocks of the disk that hold bitmap and inodes
InodeBlock == -2
NoPanic == ""

VARIABLES
  bitmap,    \* the blocks in use
  data,      \* data[b]: the cells of block b
  inode,     \* inode[i]: size and addrs
  file,      \* file[f]: the inode that f is open on, and off
  todo,      \* todo[p]: what filewrite() has yet to write
  got,       \* got[p]: what the last read() of p returned
  logged,    \* the blocks in the log of the last transaction
  calls, panic

vars == <<bitmap, data, inode, file, todo, got, logged, calls, panic>>

Zero == [c \in 0 .. BSIZE - 1 |-> 0]
NewInode == [size |-> 0, addrs |-> [k \in 0 .. NDIRECT |-> 0]]
Nothing == [f |-> 0, src |-> << >>]

-----------------------------------------------------------------------------
(* S is what a function of fs.c changes; S.b is the block it returns.      *)

Work(i) ==
  [bitmap |-> bitmap, data |-> data, size |-> inode[i].size,
   addrs |-> inode[i].addrs, log |-> {}, panic |-> NoPanic, b |-> 0, out |-> << >>]

\* The first free block, zeroed.
balloc(S) ==
  IF Blocks \subseteq S.bitmap
  THEN [S EXCEPT !.panic = "balloc: out of blocks"]
  ELSE LET b == Min(Blocks \ S.bitmap) IN
       [S EXCEPT !.bitmap = @ \union {b}, !.data[b] = Zero,
                 !.log = @ \union {BitmapBlock, b}, !.b = b]

bfree(S, b) ==
  IF b \notin S.bitmap
  THEN [S EXCEPT !.panic = "freeing free block"]
  ELSE [S EXCEPT !.bitmap = @ \ {b}, !.log = @ \union {BitmapBlock}]

\* Entry k of addrs, allocated if necessary.
Addr(S, k) ==
  IF S.addrs[k] # 0
  THEN [S EXCEPT !.b = S.addrs[k]]
  ELSE LET T == balloc(S) IN
       IF T.panic # NoPanic THEN T ELSE [T EXCEPT !.addrs[k] = T.b]

bmap(S, bn) ==
  IF bn < NDIRECT THEN Addr(S, bn)
  ELSE LET T == Addr(S, NDIRECT)
           a == T.b
           k == bn - NDIRECT
       IN  IF T.panic # NoPanic THEN T
           ELSE IF T.data[a][k] # 0 THEN [T EXCEPT !.b = T.data[a][k]]
           ELSE LET U == balloc(T) IN
                IF U.panic # NoPanic THEN U
                ELSE [U EXCEPT !.data[a][k] = U.b, !.log = @ \union {a}]

\* The turns of the loops of readi() and writei() over n cells from off on: the
\* blocks that they lie in.
Turns(off, n) == (off + n - 1) \div BSIZE - off \div BSIZE + 1

\* A turn of readi(): the part of block bn that is in the m cells from off on is
\* copied to its place in S.out.
ReadBlock(S, bn, off, m) ==
  LET U == bmap(S, bn)
      cell(k) == off + k - 1 - bn * BSIZE
  IN  [U EXCEPT !.out = [k \in 1 .. m |->
         IF cell(k) \in 0 .. BSIZE - 1 THEN U.data[U.b][cell(k)] ELSE @[k]]]

ReadLoop(S, off, m) ==
  LET turn[k \in 0 .. Turns(off, m)] ==
        IF k = 0 THEN [S EXCEPT !.out = [j \in 1 .. m |-> 0]]
        ELSE ReadBlock(turn[k - 1], off \div BSIZE + k - 1, off, m)
  IN  turn[Turns(off, m)]

readi(S, off, n) ==
  LET m == IF off + n > S.size THEN S.size - off ELSE n IN
  IF off > S.size \/ m = 0 THEN S ELSE ReadLoop(S, off, m)

\* A turn of writei(): the cells of src that belong into block bn.
WriteBlock(S, bn, src, off) ==
  LET U == IF S.panic = NoPanic THEN bmap(S, bn) ELSE S
      place(c) == bn * BSIZE + c - off + 1
  IN  IF U.panic # NoPanic THEN U
      ELSE [U EXCEPT !.log = @ \union {U.b},
                     !.data[U.b] = [c \in 0 .. BSIZE - 1 |->
                       IF place(c) \in 1 .. Len(src) THEN src[place(c)] ELSE @[c]]]

WriteLoop(S, src, off) ==
  LET turn[k \in 0 .. Turns(off, Len(src))] ==
        IF k = 0 THEN S
        ELSE WriteBlock(turn[k - 1], off \div BSIZE + k - 1, src, off)
  IN  turn[Turns(off, Len(src))]

\* (mutant) the size is set to what was written.
BugNewSize(off, n) == n

NewSize(off, n) == off + n

Fits(S, off, n) == off <= S.size /\ off + n <= MAXFILE * BSIZE

\* writei() of src when it Fits.
writei(S, src, off) ==
  LET T == WriteLoop(S, src, off) IN
  IF off + Len(src) > S.size
  THEN [T EXCEPT !.size = NewSize(off, Len(src)), !.log = @ \union {InodeBlock}] ELSE T

\* (mutant) the indirect block itself is kept.
BugToFree(S, k) ==
  LET ind == S.addrs[NDIRECT] IN
  IF k <= NDIRECT THEN S.addrs[k - 1]
  ELSE IF ind = 0 \/ k = NDIRECT + NINDIRECT + 1 THEN 0 ELSE S.data[ind][k - NDIRECT - 1]

\* The k-th block that itrunc() looks at: the direct ones, those under the
\* indirect one, and the indirect one itself.
ToFree(S, k) ==
  LET ind == S.addrs[NDIRECT] IN
  IF k <= NDIRECT THEN S.addrs[k - 1]
  ELSE IF ind = 0 \/ k = NDIRECT + NINDIRECT + 1 THEN ind ELSE S.data[ind][k - NDIRECT - 1]

FreeLoop(S) ==
  LET turn[k \in 0 .. NDIRECT + NINDIRECT + 1] ==
        IF k = 0 THEN S
        ELSE IF ToFree(S, k) = 0 THEN turn[k - 1] ELSE bfree(turn[k - 1], ToFree(S, k))
  IN  turn[NDIRECT + NINDIRECT + 1]

itrunc(S) ==
  [FreeLoop(S) EXCEPT !.addrs = NewInode.addrs, !.size = 0, !.log = @ \union {InodeBlock}]

-----------------------------------------------------------------------------
Init ==
  /\ bitmap = {}
  /\ data = [b \in Blocks |-> Zero]
  /\ inode = [i \in Inodes |-> NewInode]
  /\ file = [f \in OpenFiles |-> [ip |-> 0, off |-> 0]]
  /\ todo = [p \in Procs |-> Nothing]
  /\ got = [p \in Procs |-> << >>]
  /\ logged = {} /\ calls = MaxCalls /\ panic = NoPanic

\* A transaction of inode i that ends in S.  A panic stops the machine before
\* the transaction is committed.
Commit(i, S) ==
  /\ panic' = S.panic
  /\ IF S.panic # NoPanic
     THEN UNCHANGED <<bitmap, data, inode, logged>>
     ELSE /\ bitmap' = S.bitmap /\ data' = S.data /\ logged' = S.log
          /\ inode' = [inode EXCEPT ![i] = [size |-> S.size, addrs |-> S.addrs]]

Call == panic = NoPanic /\ calls > 0 /\ calls' = calls - 1

Using(f) == \E p \in Procs : todo[p].f = f

Open(f, i) ==
  /\ Call /\ file[f].ip = 0
  /\ file' = [file EXCEPT ![f] = [ip |-> i, off |-> 0]]
  /\ UNCHANGED <<bitmap, data, inode, todo, got, logged, panic>>

\* The last descriptor of f is closed.
Close(f) ==
  /\ panic = NoPanic /\ file[f].ip # 0 /\ ~Using(f)
  /\ file' = [file EXCEPT ![f].ip = 0]
  /\ UNCHANGED <<bitmap, data, inode, todo, got, logged, calls, panic>>

\* The last iput() of a file that has no name left, on which none is open.
Discard(i) ==
  /\ panic = NoPanic /\ \A f \in OpenFiles : file[f].ip # i
  /\ inode[i] # NewInode
  /\ Commit(i, itrunc(Work(i)))
  /\ UNCHANGED <<file, todo, got, calls>>

filewrite(p, f, src) ==
  /\ Call /\ todo[p] = Nothing /\ file[f].ip # 0
  /\ todo' = [todo EXCEPT ![p] = [f |-> f, src |-> src]]
  /\ UNCHANGED <<bitmap, data, inode, file, got, logged, panic>>

\* (mutant) the log is taken to be free for data alone.
BugmaxChunk == (LOGSIZE \div 2) * BSIZE

\* max: the cells that one transaction may write.
maxChunk == ((LOGSIZE - 1 - 1 - 2) \div 2) * BSIZE

\* One turn of the loop; the write ends with the last chunk or with one that
\* writei() refuses.
WriteChunk(p) ==
  /\ panic = NoPanic /\ todo[p] # Nothing
  /\ LET f == todo[p].f
         i == file[f].ip
         off == file[f].off
         n1 == Min({Len(todo[p].src), maxChunk})
         rest == SubSeq(todo[p].src, n1 + 1, Len(todo[p].src))
         S == writei(Work(i), SubSeq(todo[p].src, 1, n1), off)
     IN  IF ~Fits(Work(i), off, n1)
         THEN /\ todo' = [todo EXCEPT ![p] = Nothing]
              /\ UNCHANGED <<bitmap, data, inode, file, logged, panic>>
         ELSE /\ Commit(i, S)
              /\ IF S.panic # NoPanic THEN UNCHANGED <<file, todo>>
                 ELSE /\ file' = [file EXCEPT ![f].off = off + n1]
                      /\ todo' = [todo EXCEPT ![p] =
                           IF rest = << >> THEN Nothing ELSE [@ EXCEPT !.src = rest]]
  /\ UNCHANGED <<got, calls>>

fileread(p, f, n) ==
  /\ Call /\ todo[p] = Nothing /\ file[f].ip # 0
  /\ LET S == readi(Work(file[f].ip), file[f].off, n) IN
     /\ Commit(file[f].ip, S)
     /\ got' = [got EXCEPT ![p] = S.out]
     /\ file' = [file EXCEPT ![f].off = @ + Len(S.out)]
  /\ UNCHANGED todo

\* The bytes of a write: they alternate, and so differ from place to place.
Sources ==
  {[k \in 1 .. n |-> IF k % 2 = 1 THEN x ELSE y] : n \in Lengths, x \in Bytes, y \in Bytes}

Next ==
  \/ \E f \in OpenFiles : Close(f) \/ \E i \in Inodes : Open(f, i)
  \/ \E i \in Inodes : Discard(i)
  \/ \E p \in Procs :
       \/ WriteChunk(p)
       \/ \E f \in OpenFiles :
            \/ \E src \in Sources : filewrite(p, f, src)
            \/ \E n \in Lengths : fileread(p, f, n)

Spec == Init /\ [][Next]_vars

-----------------------------------------------------------------------------
\* The blocks of an inode: the direct ones, the indirect one, and under it.
Owned(i) ==
  LET ind == inode[i].addrs[NDIRECT] IN
  [k \in 0 .. NDIRECT + NINDIRECT |->
     IF k <= NDIRECT THEN inode[i].addrs[k]
     ELSE IF ind = 0 THEN 0 ELSE data[ind][k - NDIRECT - 1]]

\* A block in use belongs to one place of one inode, and a block that belongs
\* to an inode is in use: balloc(), bfree(), bmap() and itrunc() neither leak a
\* block nor give it to two files, and itrunc() never frees a free block.
BlocksOwnedOnce ==
  LET Places == {x \in Inodes \X (0 .. NDIRECT + NINDIRECT) : Owned(x[1])[x[2]] # 0}
  IN  /\ {Owned(x[1])[x[2]] : x \in Places} = bitmap
      /\ Cardinality(bitmap) = Cardinality(Places)
      /\ panic \in {NoPanic, "balloc: out of blocks"}

\* A chunk of filewrite(), with the indirect block, the inode and the bitmap,
\* has room in a log of LOGSIZE blocks ("to avoid exceeding the maximum log
\* transaction size"), wherever it starts.
ChunkFitsLog == Cardinality(logged) <= LOGSIZE - 1

\* Cell n of an inode, and with it the file as a sequence of bytes.
Cell(i, n) == data[Owned(i)[IF n \div BSIZE < NDIRECT THEN n \div BSIZE
                            ELSE n \div BSIZE + 1]][n % BSIZE]

Content == [i \in Inodes |-> [k \in 1 .. inode[i].size |-> Cell(i, k - 1)]]

Abs == INSTANCE ByteFiles WITH MaxBytes <- MAXFILE * BSIZE, content <- Content

\* The blocks implement files that are sequences of bytes: reads return what
\* was written where it was written, whatever blocks are freed and used again,
\* and chunks through a shared open file do not overwrite each other.
ImplementsByteFiles == Abs!Spec
=============================================================================
