----------------------------- MODULE PipeProofs ------------------------------
(***************************************************************************)
(* Proofs about pipes, for any number of processes, any size of the buffer *)
(* and any width of its counters: that the pipe is a queue, that it is     *)
(* freed once, that no sleeper is forgotten, and what end of file means.   *)
(***************************************************************************)
EXTENDS Pipe, Integers, FiniteSetTheorems, SequenceTheorems, TLAPS

-----------------------------------------------------------------------------
(* The counters                                                            *)

\* The values of nread and nwrite.
Word == 0 .. WORD - 1

\* How far the counter w is ahead of r, as the unsigned subtraction w - r.
Distance(r, w) == IF r <= w THEN w - r ELSE w + WORD - r

\* The counter k places after r.
At(r, k) == (r + k) % WORD

\* The bytes of the array d between the counters r and w, oldest first.
Contents(d, r, w) == [k \in 1 .. Distance(r, w) |-> d[At(r, k - 1) % PIPESIZE]]

-----------------------------------------------------------------------------
(* The invariant                                                           *)

\* The types.
TypeInv ==
  /\ data \in [0 .. PIPESIZE - 1 -> Bytes]
  /\ nread \in 0 .. WORD - 1 /\ nwrite \in 0 .. WORD - 1
  /\ open \subseteq Ends
  /\ lock \in Procs \union {None}
  /\ freed \in BOOLEAN
  /\ holds \in [Procs -> SUBSET Ends]
  /\ killed \in [Procs -> BOOLEAN]
  /\ pc \in [Procs -> PCs]
  /\ n \in [Procs -> Nat] /\ i \in [Procs -> Nat]

\* p->lock is held where the code of pipe.c holds it.
LockInv == \A p \in Procs : pc[p] \in LockPCs => lock = p

\* A process inside piperead(), or pipewrite().
ReadPCs == {"r_lock", "r_test", "r_sleep", "r_asleep", "r_copy"}
WritePCs == {"w_lock", "w_loop", "w_sleep", "w_asleep"}

\* p has put the last reference to end e, and pipeclose() is not over.
Closing(p, e) ==
  pc[p] \in IF e = "r" THEN {"r_close", "r_closing"} ELSE {"w_close", "w_closing"}

\* Whoever is inside a read or a write has a reference to that end, so the end
\* is open; and an end is closed by one process, when nobody has a reference.
EndsInv ==
  /\ \A p \in Procs : pc[p] \in ReadPCs => "r" \in holds[p]
  /\ \A p \in Procs : pc[p] \in WritePCs => "w" \in holds[p]
  /\ \A p \in Procs : holds[p] \subseteq open
  /\ \A p \in Procs, e \in Ends : Closing(p, e) =>
       /\ e \in open
       /\ \A q \in Procs : e \notin holds[q]
       /\ \A q \in Procs : Closing(q, e) => q = p

\* The page is freed by one process, once both ends are closed.
FreeInv ==
  /\ \A p \in Procs : pc[p] = "kfree" =>
       open = {} /\ ~freed /\ \A q \in Procs : pc[q] = "kfree" => q = p
  /\ freed => open = {}

\* A writer sleeps in a pipe that is full, or that a reader is emptying and will
\* wake it for; a reader sleeps in a pipe that is empty, or that a writer is
\* filling, unless a process was killed.  No other process can close the end they
\* wait for without waking them.
SleepInv ==
  \A p \in Procs :
    /\ pc[p] \in {"w_sleep", "w_asleep"} =>
         "r" \in open /\ (Full \/ \E q \in Procs : pc[q] = "r_copy")
    /\ pc[p] \in {"r_sleep", "r_asleep"} =>
         "w" \in open /\ (Empty \/ \E q \in Procs : killed[q] \/ pc[q] = "w_loop")

\* A read that found something, or no writer left, keeps to it until it has
\* copied a byte.
EofInv ==
  \A p \in Procs :
    /\ pc[p] \in ReadPCs => n[p] > 0
    /\ pc[p] = "r_copy" /\ i[p] = 0 => ~ReadWaits

\* No more bytes than the array holds.
QueueInv == Distance(nread, nwrite) <= PIPESIZE

\* The inductive invariant.
Inv == TypeInv /\ LockInv /\ EndsInv /\ FreeInv /\ SleepInv /\ EofInv /\ QueueInv

-----------------------------------------------------------------------------
(* Arithmetic                                                              *)

\* What the arithmetic needs of the constants.
LEMMA Sizes == /\ PIPESIZE \in Nat \ {0} /\ WORD \in Nat \ {0} /\ PIPESIZE < WORD
BY ConstantsAssumption

\* Remainders: division with remainder is unique, ...
LEMMA ModUnique ==
  ASSUME NEW m \in Nat \ {0}, NEW q \in Int, NEW r \in 0 .. m - 1
  PROVE  (q * m + r) % m = r
OBVIOUS

\* ... exists, ...
LEMMA ModDef ==
  ASSUME NEW m \in Nat \ {0}, NEW x \in Nat
  PROVE  \E q \in Int, r \in 0 .. m-1 : x = q * m + r /\ x % m = r
<1>1. x = (x \div m) * m + (x % m) /\ x % m \in 0 .. m - 1 /\ x \div m \in Int
  OBVIOUS
<1> QED BY <1>1

\* ... two numbers less than m apart have different remainders, ...
LEMMA ModApart ==
  ASSUME NEW m \in Nat \ {0}, NEW x \in Nat, NEW d \in 1 .. m - 1
  PROVE  (x + d) % m # x % m
<1>1. PICK q \in Int, r \in 0 .. m-1 : x = q * m + r /\ x % m = r
  BY ModDef
<1>2. CASE r + d < m
  <2>1. x + d = q * m + (r + d)
    BY <1>1
  <2> QED BY <1>1, <1>2, <2>1, ModUnique
<1>3. CASE r + d >= m
  <2>1. x + d = (q + 1) * m + (r + d - m)
    BY <1>1
  <2> QED BY <1>1, <1>3, <2>1, ModUnique
<1> QED BY <1>2, <1>3

\* ... multiples of m do not matter, ...
LEMMA ModPlus ==
  ASSUME NEW m \in Nat \ {0}, NEW x \in Nat, NEW w \in Nat, w % m = 0
  PROVE  (x + w) % m = x % m
<1>1. PICK q \in Int, r \in 0 .. m-1 : x = q * m + r /\ x % m = r
  BY ModDef
<1>2. PICK k \in Int, s \in 0 .. m-1 : w = k * m + s /\ w % m = s
  BY ModDef
<1>3. x + w = (q + k) * m + r
  BY <1>1, <1>2
<1> QED BY <1>1, <1>3, ModUnique

\* ... a number below m is its own remainder, ...
LEMMA ModSmall == ASSUME NEW m \in Nat \ {0}, NEW x \in 0 .. m - 1 PROVE x % m = x
OBVIOUS

\* ... and from m up to twice m the remainder is a subtraction.
LEMMA ModWrap ==
  ASSUME NEW m \in Nat \ {0}, NEW x \in m .. m + m - 1
  PROVE  x % m = x - m
OBVIOUS

\* The same for a sum of two counters.
LEMMA ModWord ==
  ASSUME NEW a \in Nat, NEW b \in Nat, WORD <= a + b, a + b < WORD + WORD
  PROVE  (a + b) % WORD = a + b - WORD
<1>1. a + b - WORD \in 0 .. WORD - 1 /\ a + b = 1 * WORD + (a + b - WORD)
  BY Sizes
<1> QED BY <1>1, Sizes, ModUnique

-----------------------------------------------------------------------------
(* The circular buffer                                                     *)

\* The subtraction of the counters in pipe.c, which wraps.
LEMMA DistanceMod ==
  ASSUME NEW r \in Word, NEW w \in Word
  PROVE  (w + WORD - r) % WORD = Distance(r, w)
<1>1. CASE r <= w
  BY <1>1, Sizes, ModWrap DEF Word, Distance
<1>2. CASE r > w
  BY <1>2, Sizes, ModSmall DEF Word, Distance
<1> QED BY <1>1, <1>2 DEF Word

\* p->nread++ and p->nwrite++ wrap.
LEMMA IncrWraps ==
  ASSUME NEW x \in Word PROVE Incr(x) = IF x = WORD - 1 THEN 0 ELSE x + 1
<1>1. CASE x = WORD - 1
  BY <1>1, Sizes, ModWrap DEF Word, Incr
<1>2. CASE x # WORD - 1
  BY <1>2, Sizes, ModSmall DEF Word, Incr
<1> QED BY <1>1, <1>2

\* Counting from r to w passes over every counter in between and ends at w.
LEMMA AtDistance ==
  ASSUME NEW r \in Word, NEW w \in Word, NEW k \in 0 .. Distance(r, w)
  PROVE  /\ At(r, k) \in Word
         /\ At(r, k) = IF r + k < WORD THEN r + k ELSE r + k - WORD
         /\ At(r, Distance(r, w)) = w
         /\ \/ w = At(r, k) + (Distance(r, w) - k)
            \/ w + WORD = At(r, k) + (Distance(r, w) - k)
<1> DEFINE d == Distance(r, w)
<1>1. d \in 0 .. WORD - 1 /\ k \in 0 .. WORD - 1
  BY Sizes DEF Word, Distance
<1>2. ASSUME NEW j \in 0 .. WORD - 1
      PROVE  At(r, j) = IF r + j < WORD THEN r + j ELSE r + j - WORD
  <2>1. CASE r + j < WORD
    BY <2>1, Sizes, ModSmall DEF At, Word
  <2>2. CASE r + j >= WORD
    BY <2>2, Sizes, ModWord DEF At, Word
  <2> QED BY <2>1, <2>2, Sizes DEF Word
<1>3. At(r, k) = IF r + k < WORD THEN r + k ELSE r + k - WORD
  BY <1>1, <1>2
<1>4. At(r, d) = w
  BY <1>1, <1>2, Sizes DEF Distance, Word
<1> QED BY <1>1, <1>3, <1>4, Sizes DEF Distance, Word

\* A byte that has not been read is not in the slot of the array that the next
\* byte goes to, although the counters wrap at WORD and the slots at PIPESIZE.
LEMMA SlotFree ==
  ASSUME NEW r \in Word, NEW w \in Word, Distance(r, w) < PIPESIZE,
         NEW k \in 1 .. Distance(r, w)
  PROVE  At(r, k - 1) % PIPESIZE # w % PIPESIZE
<1> DEFINE d == Distance(r, w) - (k - 1)
           a == At(r, k - 1)
<1>1. Distance(r, w) \in Nat
  BY Sizes DEF Word, Distance
<1>2. d \in 1 .. PIPESIZE - 1 /\ a \in Nat /\ (w = a + d \/ w + WORD = a + d)
  BY <1>1, AtDistance, Sizes DEF Word
<1>3. (a + d) % PIPESIZE # a % PIPESIZE
  BY <1>2, Sizes, ModApart
<1>4. (w + WORD) % PIPESIZE = w % PIPESIZE
  <2>1. w \in Nat /\ WORD % PIPESIZE = 0
    BY ConstantsAssumption DEF Word
  <2> QED BY <2>1, Sizes, ModPlus
<1> QED BY <1>2, <1>3, <1>4

\* A function on an initial segment of the naturals is a sequence.
LEMMA FunctionSeq ==
  ASSUME NEW S, NEW l \in Nat, NEW f \in [1 .. l -> S]
  PROVE  f \in Seq(S) /\ Len(f) = l
OBVIOUS

\* Queue in terms of Distance and At.
LEMMA QueueContents ==
  ASSUME NEW d, NEW r \in Word, NEW w \in Word
  PROVE  [k \in 1 .. ((w + WORD - r) % WORD) |-> d[((r + k - 1) % WORD) % PIPESIZE]]
           = Contents(d, r, w)
<1>1. (w + WORD - r) % WORD = Distance(r, w)
  BY DistanceMod
<1>2. \A k \in 1 .. Distance(r, w) : r + k - 1 = r + (k - 1)
  BY DEF Word
<1> QED BY <1>1, <1>2 DEF Contents, At

\* The tests of pipewrite() and piperead() for a full and an empty pipe.
LEMMA FullEmpty ==
  ASSUME TypeInv
  PROVE  /\ Distance(nread, nwrite) \in Nat
         /\ Empty <=> Distance(nread, nwrite) = 0
         /\ Full <=> Distance(nread, nwrite) = PIPESIZE
<1> USE DEF Word
<1>1. nread \in Word /\ nwrite \in Word
  BY DEF TypeInv
<1>2. Distance(nread, nwrite) \in Nat /\ (Empty <=> Distance(nread, nwrite) = 0)
  BY <1>1, Sizes DEF Distance, Empty
<1>3. CASE nread + PIPESIZE < WORD
  <2>1. (nread + PIPESIZE) % WORD = nread + PIPESIZE
    BY <1>1, <1>3, Sizes, ModSmall
  <2> QED BY <1>1, <1>2, <1>3, <2>1, Sizes DEF Full, Distance
<1>4. CASE nread + PIPESIZE >= WORD
  <2>1. (nread + PIPESIZE) % WORD = nread + PIPESIZE - WORD
    BY <1>1, <1>4, Sizes, ModWord
  <2> QED BY <1>1, <1>2, <1>4, <2>1, Sizes DEF Full, Distance
<1> QED BY <1>1, <1>3, <1>4, Sizes

\* One more byte in the array, and nwrite++: it is last in the queue.
LEMMA PutContents ==
  ASSUME NEW d \in [0 .. PIPESIZE - 1 -> Bytes], NEW r \in Word, NEW w \in Word,
         NEW b \in Bytes, Distance(r, w) < PIPESIZE
  PROVE  /\ Contents(d, r, w) \in Seq(Bytes) /\ Len(Contents(d, r, w)) < PIPESIZE
         /\ Distance(r, Incr(w)) = Distance(r, w) + 1
         /\ Contents([d EXCEPT ![w % PIPESIZE] = b], r, Incr(w))
              = Append(Contents(d, r, w), b)
<1> USE DEF Word
<1> DEFINE l == Distance(r, w)
           e == [d EXCEPT ![w % PIPESIZE] = b]
<1>1. l \in Nat /\ l < PIPESIZE
  BY Sizes DEF Distance
<1>2. Distance(r, Incr(w)) = l + 1
  <2>1. Incr(w) = IF w = WORD - 1 THEN 0 ELSE w + 1
    BY IncrWraps
  <2> QED BY <1>1, <2>1, Sizes DEF Distance
<1>3. \A a \in Nat : a % PIPESIZE \in 0 .. PIPESIZE - 1
  BY Sizes
<1>4. \A k \in 1 .. l : /\ At(r, k - 1) \in Nat
                        /\ At(r, k - 1) % PIPESIZE # w % PIPESIZE
  BY <1>1, AtDistance, SlotFree
<1>5. At(r, l) = w
  BY <1>1, AtDistance
<1>6. Contents(d, r, w) \in Seq(Bytes) /\ Len(Contents(d, r, w)) = l
  <2>1. \A k \in 1 .. l : d[At(r, k - 1) % PIPESIZE] \in Bytes
    BY <1>3, <1>4
  <2>2. Contents(d, r, w) \in [1 .. l -> Bytes]
    BY <2>1 DEF Contents
  <2> QED BY <1>1, <2>2, FunctionSeq
<1>7. Contents(e, r, Incr(w)) = [k \in 1 .. l + 1 |-> e[At(r, k - 1) % PIPESIZE]]
  BY <1>2 DEF Contents
<1>8. ASSUME NEW k \in 1 .. l
      PROVE  e[At(r, k - 1) % PIPESIZE] = Contents(d, r, w)[k]
  BY <1>3, <1>4 DEF Contents
<1>9. e[At(r, (l + 1) - 1) % PIPESIZE] = b
  <2>1. (l + 1) - 1 = l
    BY <1>1
  <2> QED BY <1>3, <1>5, <2>1
<1>10. Contents(e, r, Incr(w)) = Append(Contents(d, r, w), b)
  <2> DEFINE f == Contents(e, r, Incr(w))
             g == Append(Contents(d, r, w), b)
  <2>1. f \in [1 .. l + 1 -> Bytes]
    <3>1. ASSUME NEW k \in 1 .. l + 1 PROVE e[At(r, k - 1) % PIPESIZE] \in Bytes
      <4>1. CASE k \in 1 .. l
        BY <1>6, <1>8, <4>1
      <4>2. CASE k = l + 1
        BY <1>9, <4>2
      <4> QED BY <1>1, <4>1, <4>2
    <3> QED BY <1>7, <3>1
  <2>2. f \in Seq(Bytes) /\ Len(f) = l + 1
    <3>1. l + 1 \in Nat
      BY <1>1
    <3> HIDE DEF f
    <3> QED BY <2>1, <3>1, FunctionSeq
  <2>3. g \in Seq(Bytes) /\ Len(g) = l + 1
    BY <1>6, AppendProperties
  <2>4. \A k \in 1 .. l + 1 : f[k] = g[k]
    BY <1>1, <1>6, <1>7, <1>8, <1>9, AppendProperties
  <2> QED BY <2>2, <2>3, <2>4, SeqEqual
<1> QED BY <1>1, <1>2, <1>6, <1>10

\* nread++: the first byte is gone from the queue.
LEMMA TakeContents ==
  ASSUME NEW d \in [0 .. PIPESIZE - 1 -> Bytes], NEW r \in Word, NEW w \in Word,
         Distance(r, w) > 0
  PROVE  /\ Contents(d, r, w) # <<>>
         /\ Distance(Incr(r), w) = Distance(r, w) - 1
         /\ Contents(d, Incr(r), w) = Tail(Contents(d, r, w))
<1> USE DEF Word
<1> DEFINE l == Distance(r, w)
<1>1. l \in Nat /\ l > 0
  BY Sizes DEF Distance
<1>2. Distance(Incr(r), w) = l - 1
  BY <1>1, IncrWraps, Sizes DEF Distance
<1>3. Incr(r) \in Word
  BY IncrWraps, Sizes
<1>4. ASSUME NEW k \in 1 .. l - 1 PROVE At(Incr(r), k - 1) = At(r, k)
  <2>1. At(r, k) = IF r + k < WORD THEN r + k ELSE r + k - WORD
    BY <1>1, AtDistance
  <2>2. At(Incr(r), k - 1) = IF Incr(r) + (k - 1) < WORD
                             THEN Incr(r) + (k - 1) ELSE Incr(r) + (k - 1) - WORD
    BY <1>1, <1>2, <1>3, AtDistance
  <2>3. Incr(r) = IF r = WORD - 1 THEN 0 ELSE r + 1
    BY IncrWraps
  <2>4. r \in Int /\ k \in 1 .. WORD /\ WORD \in Int
    BY <1>1, Sizes DEF Distance
  <2>5. CASE r = WORD - 1
    BY <2>1, <2>2, <2>3, <2>4, <2>5
  <2>6. CASE r # WORD - 1
    BY <2>1, <2>2, <2>3, <2>4, <2>6
  <2> QED BY <2>5, <2>6
<1>5. \A a \in Nat : a % PIPESIZE \in 0 .. PIPESIZE - 1
  BY Sizes
<1>6. \A k \in 1 .. l : At(r, k - 1) \in Nat
  BY <1>1, AtDistance
<1>7. Contents(d, r, w) \in Seq(Bytes) /\ Len(Contents(d, r, w)) = l
  <2>1. \A k \in 1 .. l : d[At(r, k - 1) % PIPESIZE] \in Bytes
    BY <1>5, <1>6
  <2>2. Contents(d, r, w) \in [1 .. l -> Bytes]
    BY <2>1 DEF Contents
  <2> QED BY <1>1, <2>2, FunctionSeq
<1>8. Contents(d, r, w) # <<>>
  BY <1>1, <1>7
<1>9. ASSUME NEW k \in 1 .. l - 1
      PROVE  Contents(d, r, w)[k + 1] = d[At(r, k) % PIPESIZE]
  <2>1. k + 1 \in 1 .. l /\ (k + 1) - 1 = k
    BY <1>1
  <2> QED BY <2>1 DEF Contents
<1>10. Contents(d, Incr(r), w) = Tail(Contents(d, r, w))
  <2> DEFINE f == Contents(d, Incr(r), w)
             g == Tail(Contents(d, r, w))
  <2>1. f = [k \in 1 .. l - 1 |-> Contents(d, r, w)[k + 1]]
    BY <1>2, <1>4, <1>9 DEF Contents
  <2>2. f \in [1 .. l - 1 -> Bytes]
    BY <1>1, <1>7, <2>1
  <2>3. f \in Seq(Bytes) /\ Len(f) = l - 1
    BY <1>1, <2>2, FunctionSeq
  <2>4. /\ g \in Seq(Bytes) /\ Len(g) = l - 1
        /\ \A k \in 1 .. Len(g) : g[k] = Contents(d, r, w)[k + 1]
    BY <1>7, <1>8, HeadTailProperties
  <2>5. \A k \in 1 .. l - 1 : f[k] = g[k]
    BY <2>1, <2>4
  <2> QED BY <2>3, <2>4, <2>5, SeqEqual
<1> QED BY <1>2, <1>8, <1>10

-----------------------------------------------------------------------------
(* Steps                                                                   *)

\* Every step keeps the types.
LEMMA TypeStep == TypeInv /\ [Next]_vars => TypeInv'
<1> SUFFICES ASSUME TypeInv, [Next]_vars PROVE TypeInv'
  OBVIOUS
<1> USE DEF TypeInv, pipevars, Goto
<1>1. ASSUME NEW x \in 0 .. WORD - 1 PROVE Incr(x) \in 0 .. WORD - 1
  BY <1>1, ConstantsAssumption DEF Incr
<1>2. ASSUME NEW p \in Procs, NEW to \in PCs, NEW chan \in PCs
      PROVE  Wake(p, to, chan) \in [Procs -> PCs]
  BY <1>2 DEF Wake, PCs
<1>3. ASSUME NEW p \in Procs, Lock(p) PROVE TypeInv'
  BY <1>3 DEF Lock, PCs
<1>4. ASSUME NEW p \in Procs, ReadTest(p) PROVE TypeInv'
  <2>1. pc' \in [Procs -> PCs] /\ lock' \in Procs \union {None}
    BY <1>4 DEF ReadTest, PCs
  <2>2. n' = n \/ n' = [n EXCEPT ![p] = 0]
    BY <1>4 DEF ReadTest
  <2>3. n' \in [Procs -> Nat]
    BY <2>2
  <2> QED BY <1>4, <2>1, <2>3 DEF ReadTest
<1>5. ASSUME NEW p \in Procs, ReadSleep(p) PROVE TypeInv'
  BY <1>5 DEF ReadSleep, PCs
<1>6. ASSUME NEW p \in Procs, ReadByte(p) PROVE TypeInv'
  <2>1. i' \in [Procs -> Nat]
    BY <1>6 DEF ReadByte
  <2> QED BY <1>1, <1>6, <2>1 DEF ReadByte
<1>7. ASSUME NEW p \in Procs, ReadDone(p) PROVE TypeInv'
  BY <1>2, <1>7 DEF ReadDone, PCs
<1>8. ASSUME NEW p \in Procs, NEW b \in Bytes, WriteByte(p, b) PROVE TypeInv'
  <2>1. i' \in [Procs -> Nat]
    BY <1>8 DEF WriteByte
  <2>2. data' \in [0 .. PIPESIZE - 1 -> Bytes]
    BY <1>8 DEF WriteByte
  <2> QED BY <1>1, <1>8, <2>1, <2>2 DEF WriteByte
<1>9. ASSUME NEW p \in Procs, WriteFull(p) PROVE TypeInv'
  <2>1. pc' \in [Procs -> PCs] /\ lock' \in Procs \union {None}
    <3>1. Goto(p, "user") \/ pc' = Wake(p, "w_sleep", "r_asleep")
      BY <1>9 DEF WriteFull
    <3>2. lock' \in {lock, None}
      BY <1>9 DEF WriteFull
    <3>3. Wake(p, "w_sleep", "r_asleep") \in [Procs -> PCs]
      BY <1>2 DEF PCs
    <3>4. pc' \in [Procs -> PCs]
      BY <3>1, <3>3 DEF PCs
    <3> QED BY <3>2, <3>4
  <2>2. n' \in [Procs -> Nat] /\ i' \in [Procs -> Nat]
    BY <1>9 DEF WriteFull
  <2> QED BY <1>9, <2>1, <2>2 DEF WriteFull
<1>10. ASSUME NEW p \in Procs, WriteSleep(p) PROVE TypeInv'
  BY <1>10 DEF WriteSleep, PCs
<1>11. ASSUME NEW p \in Procs, WriteDone(p) PROVE TypeInv'
  BY <1>2, <1>11 DEF WriteDone, PCs
<1>12. ASSUME NEW p \in Procs, NEW e \in Ends, pipeclose(p, e) PROVE TypeInv'
  BY <1>2, <1>12 DEF pipeclose, CloseWake, PCs
<1>13. ASSUME NEW p \in Procs, Kfree(p) PROVE TypeInv'
  BY <1>13, ConstantsAssumption DEF Kfree, PCs
<1>14. ASSUME NEW p \in Procs, Read(p) \/ Write(p) PROVE TypeInv'
  <2>1. pc' \in [Procs -> PCs]
    BY <1>14 DEF Read, Write, PCs
  <2>2. PICK k \in 1 .. MaxN : n' = [n EXCEPT ![p] = k]
    BY <1>14 DEF Read, Write
  <2>3. n' \in [Procs -> Nat] /\ i' = [i EXCEPT ![p] = 0]
    BY <1>14, <2>2 DEF Read, Write
  <2> QED BY <1>14, <2>1, <2>3 DEF Read, Write
<1>15. ASSUME NEW p \in Procs, NEW e \in Ends, Close(p, e) PROVE TypeInv'
  BY <1>15 DEF Close, PCs
<1>16. ASSUME NEW p \in Procs, NEW q \in Procs, Fork(p, q) PROVE TypeInv'
  BY <1>16 DEF Fork, PCs
<1>17. ASSUME NEW p \in Procs, Kill(p) PROVE TypeInv'
  BY <1>17 DEF Kill, PCs
<1>18. CASE UNCHANGED vars
  BY <1>18 DEF vars
<1> QED
  BY <1>3, <1>4, <1>5, <1>6, <1>7, <1>8, <1>9, <1>10, <1>11, <1>12, <1>13, <1>14,
      <1>15, <1>16, <1>17, <1>18
  DEF Next, Continue

\* Every step keeps the lock with the process that is in the critical section.
LEMMA LockStep == TypeInv /\ LockInv /\ [Next]_vars => LockInv'
<1> SUFFICES ASSUME TypeInv, LockInv, [Next]_vars PROVE LockInv'
  OBVIOUS
<1>a. pc \in [Procs -> PCs] /\ None \notin Procs
  BY ConstantsAssumption DEF TypeInv
<1> USE <1>a DEF LockInv, LockPCs, pipevars, Goto
<1>1. ASSUME NEW p \in Procs, Continue(p) PROVE LockInv'
  <2>1. CASE Lock(p)
    BY <2>1 DEF Lock
  <2>2. CASE ReadTest(p)
    BY <2>2 DEF ReadTest
  <2>3. CASE ReadSleep(p)
    BY <2>3 DEF ReadSleep
  <2>4. CASE ReadByte(p)
    BY <2>4 DEF ReadByte
  <2>5. CASE ReadDone(p)
    BY <2>5 DEF ReadDone, Wake
  <2>6. ASSUME NEW b \in Bytes, WriteByte(p, b) PROVE LockInv'
    BY <2>6 DEF WriteByte
  <2>7. CASE WriteFull(p)
    BY <2>7 DEF WriteFull, Wake
  <2>8. CASE WriteSleep(p)
    BY <2>8 DEF WriteSleep
  <2>9. CASE WriteDone(p)
    BY <2>9 DEF WriteDone, Wake
  <2>10. ASSUME NEW e \in Ends, pipeclose(p, e) PROVE LockInv'
    BY <2>10 DEF pipeclose, CloseWake, Wake, Ends
  <2>11. CASE Kfree(p)
    BY <2>11 DEF Kfree
  <2> QED BY <1>1, <2>1, <2>2, <2>3, <2>4, <2>5, <2>6, <2>7, <2>8, <2>9, <2>10,
      <2>11 DEF Continue
<1>2. ASSUME NEW p \in Procs, Read(p) \/ Write(p) PROVE LockInv'
  BY <1>2 DEF Read, Write
<1>3. ASSUME NEW p \in Procs, NEW e \in Ends, Close(p, e) PROVE LockInv'
  BY <1>3 DEF Close
<1>4. ASSUME NEW p \in Procs, NEW q \in Procs, Fork(p, q) PROVE LockInv'
  BY <1>4 DEF Fork
<1>5. ASSUME NEW p \in Procs, Kill(p) PROVE LockInv'
  BY <1>5 DEF Kill
<1>6. CASE UNCHANGED vars
  BY <1>6 DEF vars
<1> QED BY <1>1, <1>2, <1>3, <1>4, <1>5, <1>6 DEF Next

\* fileclose() calls pipeclose() for the last reference only, and fork() copies
\* references to ends that are open.
LEMMA EndsStep == TypeInv /\ EndsInv /\ [Next]_vars => EndsInv'
<1> SUFFICES ASSUME TypeInv, EndsInv, [Next]_vars PROVE EndsInv'
  OBVIOUS
<1>a. /\ pc \in [Procs -> PCs]
      /\ holds \in [Procs -> SUBSET Ends]
      /\ open \subseteq Ends
  BY DEF TypeInv
<1> USE <1>a DEF EndsInv, Closing, ReadPCs, WritePCs, Ends, pipevars, Goto
<1>1. ASSUME NEW p \in Procs, Continue(p) PROVE EndsInv'
  <2>1. CASE Lock(p)
    BY <2>1 DEF Lock
  <2>2. CASE ReadTest(p)
    BY <2>2 DEF ReadTest
  <2>3. CASE ReadSleep(p)
    BY <2>3 DEF ReadSleep
  <2>4. CASE ReadByte(p)
    BY <2>4 DEF ReadByte
  <2>5. CASE ReadDone(p)
    BY <2>5 DEF ReadDone, Wake
  <2>6. ASSUME NEW b \in Bytes, WriteByte(p, b) PROVE EndsInv'
    BY <2>6 DEF WriteByte
  <2>7. CASE WriteFull(p)
    BY <2>7 DEF WriteFull, Wake
  <2>8. CASE WriteSleep(p)
    BY <2>8 DEF WriteSleep
  <2>9. CASE WriteDone(p)
    BY <2>9 DEF WriteDone, Wake
  <2>10. ASSUME NEW e \in Ends, pipeclose(p, e) PROVE EndsInv'
    BY <2>10 DEF pipeclose, CloseWake, Wake, Ends
  <2>11. CASE Kfree(p)
    BY <2>11 DEF Kfree
  <2> QED BY <1>1, <2>1, <2>2, <2>3, <2>4, <2>5, <2>6, <2>7, <2>8, <2>9, <2>10,
      <2>11 DEF Continue
<1>2. ASSUME NEW p \in Procs, Read(p) \/ Write(p) PROVE EndsInv'
  BY <1>2 DEF Read, Write
<1>3. ASSUME NEW p \in Procs, NEW e \in Ends, Close(p, e) PROVE EndsInv'
  BY <1>3 DEF Close, LastRef
<1>4. ASSUME NEW p \in Procs, NEW q \in Procs, Fork(p, q) PROVE EndsInv'
  BY <1>4 DEF Fork
<1>5. ASSUME NEW p \in Procs, Kill(p) PROVE EndsInv'
  BY <1>5 DEF Kill
<1>6. CASE UNCHANGED vars
  BY <1>6 DEF vars
<1> QED BY <1>1, <1>2, <1>3, <1>4, <1>5, <1>6 DEF Next

\* Only the close of the second end goes on to kfree().
LEMMA FreeStep == TypeInv /\ EndsInv /\ FreeInv /\ [Next]_vars => FreeInv'
<1> SUFFICES ASSUME TypeInv, EndsInv, FreeInv, [Next]_vars PROVE FreeInv'
  OBVIOUS
<1>a. pc \in [Procs -> PCs] /\ open \subseteq Ends /\ freed \in BOOLEAN
  BY DEF TypeInv
<1> USE <1>a DEF FreeInv, Ends, pipevars, Goto
<1>1. ASSUME NEW p \in Procs, Continue(p) PROVE FreeInv'
  <2>1. CASE Lock(p)
    BY <2>1 DEF Lock
  <2>2. CASE ReadTest(p)
    BY <2>2 DEF ReadTest
  <2>3. CASE ReadSleep(p)
    BY <2>3 DEF ReadSleep
  <2>4. CASE ReadByte(p)
    BY <2>4 DEF ReadByte
  <2>5. CASE ReadDone(p)
    BY <2>5 DEF ReadDone, Wake
  <2>6. ASSUME NEW b \in Bytes, WriteByte(p, b) PROVE FreeInv'
    BY <2>6 DEF WriteByte
  <2>7. CASE WriteFull(p)
    BY <2>7 DEF WriteFull, Wake
  <2>8. CASE WriteSleep(p)
    BY <2>8 DEF WriteSleep
  <2>9. CASE WriteDone(p)
    BY <2>9 DEF WriteDone, Wake
  <2>10. ASSUME NEW e \in Ends, pipeclose(p, e) PROVE FreeInv'
    BY <2>10 DEF pipeclose, CloseWake, LastEnd, Wake, EndsInv, Closing
  <2>11. CASE Kfree(p)
    BY <2>11 DEF Kfree
  <2> QED BY <1>1, <2>1, <2>2, <2>3, <2>4, <2>5, <2>6, <2>7, <2>8, <2>9, <2>10,
      <2>11
    DEF Continue
<1>2. ASSUME NEW p \in Procs, Read(p) \/ Write(p) PROVE FreeInv'
  BY <1>2 DEF Read, Write
<1>3. ASSUME NEW p \in Procs, NEW e \in Ends, Close(p, e) PROVE FreeInv'
  BY <1>3 DEF Close
<1>4. ASSUME NEW p \in Procs, NEW q \in Procs, Fork(p, q) PROVE FreeInv'
  BY <1>4 DEF Fork
<1>5. ASSUME NEW p \in Procs, Kill(p) PROVE FreeInv'
  BY <1>5 DEF Kill
<1>6. CASE UNCHANGED vars
  BY <1>6 DEF vars
<1> QED BY <1>1, <1>2, <1>3, <1>4, <1>5, <1>6 DEF Next

\* Wakeups: what makes a sleeper's condition false is followed, in the same
\* critical section, by its wakeup.
LEMMA SleepStep ==
  TypeInv /\ LockInv /\ EndsInv /\ FreeInv /\ SleepInv /\ [Next]_vars => SleepInv'
<1> SUFFICES ASSUME TypeInv, LockInv, EndsInv, FreeInv, SleepInv, [Next]_vars
             PROVE  SleepInv'
  OBVIOUS
<1>a. /\ pc \in [Procs -> PCs]
      /\ open \subseteq Ends
      /\ None \notin Procs
      /\ killed \in [Procs -> BOOLEAN]
  BY ConstantsAssumption DEF TypeInv
<1>b. \A p, q \in Procs : pc[p] \in LockPCs /\ pc[q] \in LockPCs => p = q
  BY DEF LockInv
<1>c. UNCHANGED <<nread, nwrite>> => (Full' <=> Full) /\ (Empty' <=> Empty)
  BY DEF Full, Empty
<1> USE <1>a, <1>b, <1>c DEF SleepInv, LockPCs, Ends, pipevars, Goto
<1>1. ASSUME NEW p \in Procs, Continue(p) PROVE SleepInv'
  <2>1. CASE Lock(p)
    BY <2>1 DEF Lock
  <2>2. CASE ReadTest(p)
    BY <2>2 DEF ReadTest, ReadWaits
  <2>3. CASE ReadSleep(p)
    BY <2>3 DEF ReadSleep
  <2>4. CASE ReadByte(p)
    BY <2>4 DEF ReadByte
  <2>5. CASE ReadDone(p)
    BY <2>5 DEF ReadDone, Wake
  <2>6. ASSUME NEW b \in Bytes, WriteByte(p, b) PROVE SleepInv'
    BY <2>6 DEF WriteByte
  <2>7. CASE WriteFull(p)
    BY <2>7 DEF WriteFull, Wake, EndsInv, ReadPCs
  <2>8. CASE WriteSleep(p)
    BY <2>8 DEF WriteSleep
  <2>9. CASE WriteDone(p)
    BY <2>9 DEF WriteDone, Wake
  <2>10. ASSUME NEW e \in Ends, pipeclose(p, e) PROVE SleepInv'
    BY <2>10 DEF pipeclose, CloseWake, LastEnd, Wake
  <2>11. CASE Kfree(p)
    BY <2>11 DEF Kfree, FreeInv
  <2> QED BY <1>1, <2>1, <2>2, <2>3, <2>4, <2>5, <2>6, <2>7, <2>8, <2>9, <2>10,
      <2>11
    DEF Continue
<1>2. ASSUME NEW p \in Procs, Read(p) \/ Write(p) PROVE SleepInv'
  <2>1. pc[p] = "user" /\ UNCHANGED <<nread, nwrite, open, killed>>
    BY <1>2 DEF Read, Write, Idle
  <2>2. PICK l \in {"r_lock", "w_lock"} : Goto(p, l)
    BY <1>2 DEF Read, Write
  <2> QED BY <2>1, <2>2
<1>3. ASSUME NEW p \in Procs, NEW e \in Ends, Close(p, e) PROVE SleepInv'
  BY <1>3 DEF Close
<1>4. ASSUME NEW p \in Procs, NEW q \in Procs, Fork(p, q) PROVE SleepInv'
  BY <1>4 DEF Fork
<1>5. ASSUME NEW p \in Procs, Kill(p) PROVE SleepInv'
  BY <1>5 DEF Kill
<1>6. CASE UNCHANGED vars
  BY <1>6 DEF vars
<1> QED BY <1>1, <1>2, <1>3, <1>4, <1>5, <1>6 DEF Next

\* The lock keeps writers away between the test of piperead() and its first byte.
LEMMA EofStep ==
  TypeInv /\ LockInv /\ FreeInv /\ EofInv /\ [Next]_vars => EofInv'
<1> SUFFICES ASSUME TypeInv, LockInv, FreeInv, EofInv, [Next]_vars PROVE EofInv'
  OBVIOUS
<1>a. /\ pc \in [Procs -> PCs]
      /\ open \subseteq Ends
      /\ None \notin Procs
      /\ n \in [Procs -> Nat]
      /\ i \in [Procs -> Nat]
  BY ConstantsAssumption DEF TypeInv
<1>b. \A p, q \in Procs : pc[p] \in LockPCs /\ pc[q] \in LockPCs => p = q
  BY DEF LockInv
<1> USE <1>a, <1>b
    DEF EofInv, ReadWaits, Empty, LockPCs, ReadPCs, Ends, pipevars, Goto
<1>1. ASSUME NEW p \in Procs, Continue(p) PROVE EofInv'
  <2>1. CASE Lock(p)
    BY <2>1 DEF Lock
  <2>2. CASE ReadTest(p)
    BY <2>2 DEF ReadTest
  <2>3. CASE ReadSleep(p)
    BY <2>3 DEF ReadSleep
  <2>4. CASE ReadByte(p)
    BY <2>4 DEF ReadByte
  <2>5. CASE ReadDone(p)
    BY <2>5 DEF ReadDone, Wake
  <2>6. ASSUME NEW b \in Bytes, WriteByte(p, b) PROVE EofInv'
    BY <2>6 DEF WriteByte
  <2>7. CASE WriteFull(p)
    BY <2>7 DEF WriteFull, Wake
  <2>8. CASE WriteSleep(p)
    BY <2>8 DEF WriteSleep
  <2>9. CASE WriteDone(p)
    BY <2>9 DEF WriteDone, Wake
  <2>10. ASSUME NEW e \in Ends, pipeclose(p, e) PROVE EofInv'
    BY <2>10 DEF pipeclose, CloseWake, LastEnd, Wake
  <2>11. CASE Kfree(p)
    BY <2>11 DEF Kfree, FreeInv
  <2> QED BY <1>1, <2>1, <2>2, <2>3, <2>4, <2>5, <2>6, <2>7, <2>8, <2>9, <2>10,
      <2>11
    DEF Continue
<1>2. ASSUME NEW p \in Procs, Read(p) \/ Write(p) PROVE EofInv'
  BY <1>2 DEF Read, Write
<1>3. ASSUME NEW p \in Procs, NEW e \in Ends, Close(p, e) PROVE EofInv'
  BY <1>3 DEF Close
<1>4. ASSUME NEW p \in Procs, NEW q \in Procs, Fork(p, q) PROVE EofInv'
  BY <1>4 DEF Fork
<1>5. ASSUME NEW p \in Procs, Kill(p) PROVE EofInv'
  BY <1>5 DEF Kill
<1>6. CASE UNCHANGED vars
  BY <1>6 DEF vars
<1> QED BY <1>1, <1>2, <1>3, <1>4, <1>5, <1>6 DEF Next

\* What a step does to the bytes in the pipe: one of the three steps of Fifo, or
\* nothing.
LEMMA QueueStep ==
  ASSUME TypeInv, QueueInv, [Next]_vars
  PROVE  QueueInv' /\ [Abs!Next]_Queue
<1> USE DEF Word
<1>1. nread \in Word /\ nwrite \in Word /\ data \in [0 .. PIPESIZE - 1 -> Bytes]
  BY DEF TypeInv
<1>2. Queue = Contents(data, nread, nwrite)
  BY <1>1, QueueContents DEF Queue
<1>3. ASSUME nread' \in Word, nwrite' \in Word
      PROVE  Queue' = Contents(data', nread', nwrite')
  BY <1>3, QueueContents DEF Queue
<1>4. ASSUME UNCHANGED <<data, nread, nwrite>> PROVE QueueInv' /\ [Abs!Next]_Queue
  BY <1>4 DEF QueueInv, Queue
<1>5. ASSUME NEW p \in Procs, NEW b \in Bytes, WriteByte(p, b)
      PROVE  QueueInv' /\ [Abs!Next]_Queue
  <2>1. Distance(nread, nwrite) < PIPESIZE
    BY <1>5, FullEmpty, Sizes DEF WriteByte, QueueInv
  <2>2. /\ nread' = nread
        /\ nwrite' = Incr(nwrite)
        /\ data' = [data EXCEPT ![nwrite % PIPESIZE] = b]
    BY <1>5 DEF WriteByte
  <2>3. Incr(nwrite) \in Word
    BY <1>1, IncrWraps, Sizes
  <2>4. Queue' = Append(Queue, b) /\ Len(Queue) < PIPESIZE
    BY <1>1, <1>2, <1>3, <2>1, <2>2, <2>3, PutContents
  <2>5. QueueInv'
    <3>1. Distance(nread, Incr(nwrite)) = Distance(nread, nwrite) + 1
      BY <1>1, <2>1, PutContents
    <3> QED BY <2>1, <2>2, <3>1, FullEmpty, Sizes DEF QueueInv
  <2> QED BY <2>4, <2>5 DEF Abs!Next, Abs!Put
<1>6. ASSUME NEW p \in Procs, ReadByte(p) PROVE QueueInv' /\ [Abs!Next]_Queue
  <2>1. Distance(nread, nwrite) > 0
    BY <1>6, FullEmpty DEF ReadByte
  <2>2. nread' = Incr(nread) /\ nwrite' = nwrite /\ data' = data
    BY <1>6 DEF ReadByte
  <2>3. Incr(nread) \in Word
    BY <1>1, IncrWraps, Sizes
  <2>4. Queue' = Tail(Queue) /\ Queue # <<>>
    BY <1>1, <1>2, <1>3, <2>1, <2>2, <2>3, TakeContents
  <2>5. QueueInv'
    BY <1>1, <2>1, <2>2, TakeContents, FullEmpty, Sizes DEF QueueInv
  <2> QED BY <2>4, <2>5 DEF Abs!Next, Abs!Take
<1>7. ASSUME NEW p \in Procs, Kfree(p) PROVE QueueInv' /\ [Abs!Next]_Queue
  <2>1. nread' = 0 /\ nwrite' = 0 /\ 0 \in Word
    BY <1>7, Sizes DEF Kfree
  <2>2. Distance(0, 0) = 0
    BY DEF Distance
  <2>3. Queue' = <<>>
    BY <1>3, <2>1, <2>2 DEF Contents
  <2> QED BY <2>1, <2>2, <2>3, Sizes DEF QueueInv, Abs!Next, Abs!Drop
<1>8. ASSUME NEW p \in Procs, Continue(p),
             \A b \in Bytes : ~WriteByte(p, b), ~ReadByte(p), ~Kfree(p)
      PROVE  UNCHANGED <<data, nread, nwrite>>
  BY <1>8 DEF Continue, Lock, ReadTest, ReadSleep, ReadDone, WriteFull, WriteSleep,
      WriteDone,
              pipeclose, pipevars
<1>9. ASSUME NEW p \in Procs, Continue(p) PROVE QueueInv' /\ [Abs!Next]_Queue
  BY <1>4, <1>5, <1>6, <1>7, <1>8, <1>9
<1>10. ASSUME NEW p \in Procs,
              Read(p) \/ Write(p) \/ (\E e \in Ends : Close(p, e))
                \/ (\E q \in Procs : Fork(p, q)) \/ Kill(p)
       PROVE  UNCHANGED <<data, nread, nwrite>>
  BY <1>10 DEF Read, Write, Close, Fork, Kill, pipevars
<1>11. CASE UNCHANGED vars
  BY <1>4, <1>11 DEF vars
<1> QED BY <1>4, <1>9, <1>10, <1>11 DEF Next

-----------------------------------------------------------------------------
(* Theorems                                                                *)

\* pipealloc() establishes the invariant.
LEMMA InitInv == Init => Inv
<1> SUFFICES ASSUME Init PROVE Inv
  OBVIOUS
<1>1. TypeInv
  <2>1. nread \in 0 .. WORD - 1 /\ nwrite \in 0 .. WORD - 1
    BY Sizes DEF Init
  <2>2. holds \in [Procs -> SUBSET Ends]
    BY DEF Init, Ends
  <2> QED BY <2>1, <2>2 DEF Init, TypeInv, PCs, Ends
<1>2. LockInv /\ EndsInv /\ FreeInv /\ SleepInv /\ EofInv
  BY DEF Init, LockInv, LockPCs, EndsInv, Closing, ReadPCs, WritePCs, FreeInv,
      SleepInv, EofInv, Ends
<1>3. QueueInv
  BY Sizes DEF Init, QueueInv, Distance
<1> QED BY <1>1, <1>2, <1>3 DEF Inv

\* Every reachable state satisfies it.
LEMMA Invariance == Spec => []Inv
<1>1. Inv /\ [Next]_vars => Inv'
  BY TypeStep, LockStep, EndsStep, FreeStep, SleepStep, EofStep, QueueStep DEF Inv
<1> QED BY InitInv, <1>1, PTL DEF Spec

\* For any number of processes, and any order of forks, closes, reads, writes and
\* kills: the page of the pipe is freed at most once (pipeclose), and nobody is
\* inside pipe.c or has an end of the pipe then or later.
THEOREM FreedOnce == Spec => []NoUseAfterFree
<1>1. Inv => NoUseAfterFree
  <2> SUFFICES ASSUME Inv PROVE NoUseAfterFree
    OBVIOUS
  <2>1. ASSUME freed, NEW p \in Procs PROVE pc[p] = "user" /\ holds[p] = {}
    <3>1. open = {} /\ pc[p] # "kfree"
      BY <2>1 DEF Inv, FreeInv
    <3>2. holds[p] = {} /\ \A e \in Ends : ~Closing(p, e)
      BY <3>1 DEF Inv, EndsInv
    <3>3. pc[p] \notin ReadPCs \union WritePCs
      BY <3>2 DEF Inv, EndsInv
    <3>4. pc[p] \in PCs
      BY DEF Inv, TypeInv
    <3> QED BY <3>1, <3>2, <3>3, <3>4 DEF PCs, ReadPCs, WritePCs, Closing, Ends
  <2>2. Cardinality({p \in Procs : pc[p] = "kfree"}) <= 1
    <3> DEFINE K == {p \in Procs : pc[p] = "kfree"}
    <3>1. CASE K = {}
      BY <3>1, FS_EmptySet
    <3>2. ASSUME NEW p \in K PROVE Cardinality(K) <= 1
      <4>1. K = {p}
        BY DEF Inv, FreeInv
      <4> QED BY <4>1, FS_Singleton
    <3> QED BY <3>1, <3>2
  <2> QED BY <2>1, <2>2 DEF NoUseAfterFree
<1> QED BY Invariance, <1>1, PTL

\* For any number of processes, PIPESIZE and width of the counters: no sleeper
\* of piperead() or pipewrite() misses its wakeup.
THEOREM NoLostWakeup == Spec => []SleepersNeeded
<1>1. Inv => SleepersNeeded
  <2> SUFFICES ASSUME Inv, lock = None, NEW p \in Procs
               PROVE  /\ pc[p] = "w_asleep" => Full /\ "r" \in open
                      /\ pc[p] = "r_asleep" =>
                           "w" \in open /\ (Empty \/ \E q \in Procs : killed[q])
    BY DEF SleepersNeeded
  <2>1. \A q \in Procs : pc[q] \notin {"r_copy", "w_loop"}
    BY ConstantsAssumption DEF Inv, LockInv, LockPCs
  <2> QED BY <2>1 DEF Inv, SleepInv
<1> QED BY Invariance, <1>1, PTL

\* For any number of processes: a read() that returns 0 means that the write end
\* is closed for good and everything written has been read (piperead).
THEOREM EofIsFinal == Spec => EofMeansDone
<1>1. ASSUME Inv, [Next]_vars, NEW p \in Procs,
             pc[p] = "r_copy", pc'[p] = "user", i[p] = 0
      PROVE  Empty /\ \A q \in Procs : "w" \notin holds[q]
  <2>1. ReadDone(p)
    <3> USE DEF Inv, TypeInv, Goto, Wake
    <3>1. ASSUME NEW q \in Procs, Continue(q) PROVE ReadDone(p)
      BY <1>1, <3>1 DEF Continue, Lock, ReadTest, ReadSleep, ReadByte, ReadDone,
          WriteByte, WriteFull, WriteSleep, WriteDone, pipeclose, CloseWake, Kfree
    <3>2. ASSUME NEW q \in Procs, Read(q) \/ Write(q) PROVE FALSE
      BY <1>1, <3>2 DEF Read, Write, Idle
    <3>3. ASSUME NEW q \in Procs, NEW e \in Ends, Close(q, e) PROVE FALSE
      BY <1>1, <3>3 DEF Close
    <3>4. ASSUME NEW q \in Procs, NEW c \in Procs, Fork(q, c) PROVE FALSE
      BY <1>1, <3>4 DEF Fork
    <3>5. ASSUME NEW q \in Procs, Kill(q) PROVE FALSE
      BY <1>1, <3>5 DEF Kill
    <3> QED BY <1>1, <3>1, <3>2, <3>3, <3>4, <3>5 DEF Next, vars
  <2>2. Empty
    BY <1>1, <2>1 DEF ReadDone, Inv, EofInv, ReadPCs, TypeInv
  <2>3. "w" \notin open
    BY <1>1, <2>2 DEF Inv, EofInv, ReadWaits
  <2> QED BY <1>1, <2>2, <2>3 DEF Inv, EndsInv
<1>2. Inv /\ [Next]_vars =>
        [\A p \in Procs : pc[p] = "r_copy" /\ pc'[p] = "user" /\ i[p] = 0
           => Empty /\ \A q \in Procs : "w" \notin holds[q]]_vars
  BY <1>1
<1> QED BY Invariance, <1>2, PTL DEF Spec, EofMeansDone

\* For any number of processes, any PIPESIZE and any width of the counters that
\* it divides: the circular buffer of pipe.c, with counters that wrap, is a
\* bounded first-in first-out queue.
THEOREM PipeIsFifo == Spec => ImplementsFifo
<1>1. Init => Abs!Init
  <2> SUFFICES ASSUME Init PROVE Queue = <<>>
    BY DEF Abs!Init
  <2>1. nread = 0 /\ nwrite = 0 /\ 0 \in Word
    BY Sizes DEF Init, Word
  <2>2. Queue = Contents(data, 0, 0)
    BY <2>1, QueueContents DEF Queue
  <2> QED BY <2>2 DEF Contents, Distance
<1>2. Inv /\ [Next]_vars => [Abs!Next]_Queue
  BY QueueStep DEF Inv
<1> QED BY Invariance, <1>1, <1>2, PTL DEF Spec, ImplementsFifo, Abs!Spec
=============================================================================
