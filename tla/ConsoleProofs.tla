--------------------------- MODULE ConsoleProofs ----------------------------
(***************************************************************************)
(* Proofs about the console, for any number of processes, any size of the  *)
(* ring and any width of its indices: that no reader misses its wakeup,    *)
(* and that the ring is the line discipline of Tty.                        *)
(***************************************************************************)
EXTENDS Console, Integers, TLAPS

\* Where a process can be.
Labels ==
  {"user", "read", "write", "out", "wake", "loop", "tosleep", "sleep",
   "relock", "return"}

\* The lock is held by the process that tests the ring, and what it found
\* still holds when it goes to sleep: the inductive form of ReadersNeeded.
Inv ==
  /\ pc \in [Procs -> Labels]
  /\ \A p \in Procs : pc[p] \in {"loop", "tosleep"} => lock = p
  /\ \A p \in Procs : pc[p] \in {"tosleep", "sleep"} => r = w

\* At boot no process is in the console.
LEMMA InitInv == Init => Inv
BY DEF Init, Inv, Labels

\* Characters: a step that moves w wakes every sleeper, and cons.lock, which
\* the interrupt holds, keeps others from going to sleep meanwhile.
LEMMA InterruptInv ==
  ASSUME NEW c \in Keys, Inv, consoleintr(c)
  PROVE  Inv'
<1>1. \A p \in Procs : pc[p] \notin {"loop", "tosleep"}
  BY ConstantsAssumption DEF Inv, consoleintr
<1>2. ASSUME UNCHANGED <<r, w, pc>> PROVE Inv'
  BY <1>1, <1>2 DEF Inv
<1>3. ASSUME pc' = [q \in Procs |-> Wake(q)] PROVE Inv'
  <2>1. \A p \in Procs : pc'[p] \in Labels /\ pc'[p] \notin {"loop", "tosleep", "sleep"}
    BY <1>1, <1>3 DEF Inv, Wake, Labels
  <2>2. pc' \in [Procs -> Labels]
    BY <1>3, <2>1
  <2> QED BY <2>1, <2>2 DEF Inv
<1>4. CASE c = "erase"
  BY <1>2, <1>4 DEF consoleintr, Erased
<1>5. CASE c = "kill"
  BY <1>2, <1>5 DEF consoleintr, Killed
<1>6. CASE c \notin {"erase", "kill"}
  <2>1. Typed(c)
    BY <1>6 DEF consoleintr
  <2> QED BY <1>2, <1>3, <2>1 DEF Typed
<1> QED BY <1>4, <1>5, <1>6

\* The steps that leave the ring alone and take p to a label l: what has to
\* be shown is that p holds the lock where it must, and found nothing to read
\* before it goes to sleep.
LEMMA MoveInv ==
  ASSUME NEW p \in Procs, NEW l \in Labels, Inv, Goto(p, l), UNCHANGED <<r, w>>,
         l \in {"loop", "tosleep"} => lock' = p,
         l \in {"tosleep", "sleep"} => r = w,
         \A q \in Procs \ {p} : lock = q => lock' = q
  PROVE  Inv'
<1>1. pc' \in [Procs -> Labels] /\ pc'[p] = l
  BY DEF Inv, Goto
<1>2. \A q \in Procs \ {p} : pc'[q] = pc[q]
  BY DEF Inv, Goto
<1>3. ASSUME NEW q \in Procs, pc'[q] \in {"loop", "tosleep"} PROVE lock' = q
  <2>1. CASE q = p
    BY <1>1, <1>3, <2>1
  <2>2. CASE q # p
    <3>1. lock = q
      BY <1>2, <1>3, <2>2 DEF Inv
    <3> QED BY <3>1, <2>2
  <2> QED BY <2>1, <2>2
<1>4. ASSUME NEW q \in Procs, pc'[q] \in {"tosleep", "sleep"} PROVE r' = w'
  BY <1>1, <1>2, <1>4 DEF Inv
<1> QED BY <1>1, <1>3, <1>4 DEF Inv

\* In particular the steps that have nothing to do with cons.lock.
LEMMA QuietInv ==
  ASSUME NEW p \in Procs, NEW l \in Labels \ {"loop", "tosleep", "sleep"}, Inv,
         Goto(p, l), UNCHANGED <<r, w, lock>>
  PROVE  Inv'
<1>1. l \in Labels /\ l \notin {"loop", "tosleep", "sleep"}
  OBVIOUS
<1>2. UNCHANGED <<r, w>> /\ lock' = lock
  OBVIOUS
<1> QED BY <1>1, <1>2, MoveInv

\* One case per step of consoleread() and consolewrite().
LEMMA StepInv ==
  ASSUME NEW p \in Procs, Inv, Step(p)
  PROVE  Inv'
<1> USE DEF input, Labels
<1>1. CASE ReadUnlock(p)
  <2>1. Goto(p, "wake") /\ UNCHANGED <<r, w, lock>>
    BY <1>1 DEF ReadUnlock, Unlock
  <2> QED BY <2>1, QuietInv
<1>2. CASE WriteUnlock(p)
  <2>1. Goto(p, "out") /\ UNCHANGED <<r, w, lock>>
    BY <1>2 DEF WriteUnlock, Unlock
  <2> QED BY <2>1, QuietInv
<1>3. CASE ReadAcquire(p)
  BY <1>3, MoveInv, ConstantsAssumption DEF ReadAcquire
<1>4. CASE ReadEmpty(p)
  <2>1. lock = p
    BY <1>4 DEF ReadEmpty, Inv
  <2>2. CASE killed[p]
    BY <1>4, <2>1, <2>2, MoveInv DEF ReadEmpty, Done
  <2>3. CASE ~killed[p]
    BY <1>4, <2>1, <2>3, MoveInv DEF ReadEmpty
  <2> QED BY <2>2, <2>3
<1>5. CASE ReadSleep(p)
  <2>1. lock = p /\ r = w
    BY <1>5 DEF ReadSleep, Inv
  <2> QED BY <1>5, <2>1, MoveInv DEF ReadSleep
<1>6. CASE ReadChar(p)
  \* Nobody sleeps, since there is something to read, and p has the lock.
  <2>1. \A q \in Procs : pc[q] \notin {"tosleep", "sleep"}
    BY <1>6 DEF ReadChar, Inv
  <2>2. lock = p
    BY <1>6 DEF ReadChar, Inv
  <2>3. UNCHANGED <<lock, pc>> \/ Goto(p, "relock")
    BY <1>6 DEF ReadChar, Done
  <2>4. CASE UNCHANGED <<lock, pc>>
    BY <2>1, <2>4 DEF Inv
  <2>5. CASE Goto(p, "relock")
    <3>1. \A q \in Procs : pc'[q] \notin {"loop", "tosleep", "sleep"}
      BY <2>1, <2>2, <2>5 DEF Goto, Inv
    <3>2. pc' \in [Procs -> Labels]
      BY <2>5 DEF Goto, Inv
    <3> QED BY <3>1, <3>2 DEF Inv
  <2> QED BY <2>3, <2>4, <2>5
<1>7. CASE ReadFull(p)
  <2>1. lock = p
    BY <1>7 DEF ReadFull, Inv
  <2> QED BY <1>7, <2>1, MoveInv DEF ReadFull, Done
<1>8. CASE WriteOut(p)
  <2>1. Goto(p, "relock") /\ UNCHANGED <<r, w, lock>>
    BY <1>8 DEF WriteOut
  <2> QED BY <2>1, QuietInv
<1>9. CASE Relock(p)
  <2>1. Goto(p, "return") /\ UNCHANGED <<r, w, lock>>
    BY <1>9 DEF Relock
  <2> QED BY <2>1, QuietInv
<1>10. CASE Return(p)
  <2>1. Goto(p, "user") /\ UNCHANGED <<r, w, lock>>
    BY <1>10 DEF Return
  <2> QED BY <2>1, QuietInv
<1> QED BY <1>1, <1>2, <1>3, <1>4, <1>5, <1>6, <1>7, <1>8, <1>9, <1>10 DEF Step

\* The steps together.
LEMMA NextInv == Inv /\ [Next]_vars => Inv'
<1> SUFFICES ASSUME Inv, [Next]_vars PROVE Inv'
  OBVIOUS
<1> USE DEF input, Labels
<1>1. ASSUME NEW c \in Keys, consoleintr(c) PROVE Inv'
  BY <1>1, InterruptInv
<1>2. ASSUME NEW p \in Procs, NEW l \in {"read", "write"}, NEW k \in Nat, Call(p, l, k)
      PROVE Inv'
  <2>1. Goto(p, l) /\ UNCHANGED <<r, w, lock>>
    BY <1>2 DEF Call
  <2> QED BY <2>1, QuietInv
<1>3. ASSUME NEW p \in Procs, Step(p) PROVE Inv'
  BY <1>3, StepInv
<1>4. ASSUME NEW p \in Procs, Kill(p) PROVE Inv'
  <2>1. Wake(p) \in Labels /\ Wake(p) # "sleep"
    BY DEF Wake, Inv, Labels
  <2>2. Wake(p) \in {"loop", "tosleep"} => Wake(p) = pc[p]
    BY DEF Wake
  <2>3. Wake(p) = "tosleep" => r = w
    BY <2>2 DEF Inv
  <2>4. Wake(p) \in {"loop", "tosleep"} => lock = p
    BY <2>2 DEF Inv
  <2>5. Goto(p, Wake(p)) /\ UNCHANGED <<r, w, lock>>
    BY <1>4 DEF Kill
  <2>6. UNCHANGED <<r, w>> /\ lock' = lock
    BY <2>5
  <2>7. Wake(p) \in {"loop", "tosleep"} => lock' = p
    BY <2>4, <2>6
  <2>8. Wake(p) \in {"tosleep", "sleep"} => r = w
    BY <2>1, <2>3
  <2> QED BY <2>1, <2>5, <2>6, <2>7, <2>8, MoveInv
<1>5. CASE UNCHANGED vars
  BY <1>5 DEF vars, Inv
<1>6. CASE Next
  BY <1>1, <1>2, <1>3, <1>4, <1>6, ConstantsAssumption DEF Next
<1> QED BY <1>5, <1>6

\* Whatever the number of processes, the size of the ring and the width of
\* its indices, a reader of the console sleeps only while there is nothing to
\* read (consoleread, consoleintr).
THEOREM ReadersWoken == Spec => []ReadersNeeded
<1>1. Inv => ReadersNeeded
  BY DEF Inv, ReadersNeeded
<1> QED BY InitInv, NextInv, <1>1, PTL DEF Spec

-----------------------------------------------------------------------------
(* The ring.                                                               *)

\* The values of r, w and e.
Word == 0 .. WORD - 1

\* How far the index y is ahead of x, as the unsigned subtraction y - x.
Distance(x, y) == IF x <= y THEN y - x ELSE y + WORD - x

\* The characters of the array b from index x up to y, oldest first.
Segment(b, x, y) == [j \in 1 .. Distance(x, y) |-> b[Add(x, j - 1) % INPUT_BUF]]

\* The read of p may take one more character: it has not met a newline.
GoesOn(p) == got[p] = << >> \/ got[p][Len(got[p])] # "nl"

\* The ring from r by w to e is never longer than the array, and the line being
\* edited holds no newline, so that ^U takes back all of it and no more.
RingInv ==
  /\ buf \in [0 .. INPUT_BUF - 1 -> Chars]
  /\ r \in Word /\ w \in Word /\ e \in Word
  /\ Distance(r, w) <= Distance(r, e) /\ Distance(r, e) <= INPUT_BUF
  /\ \A j \in 1 .. Distance(w, e) : Segment(buf, w, e)[j] # "nl"

\* A read that has met a newline is on its way out.
GotInv ==
  /\ got \in [Procs -> Seq(Chars)]
  /\ \A p \in Procs : pc[p] \notin {"relock", "return"} => GoesOn(p)

\* What the arithmetic needs of the constants.
LEMMA Sizes == INPUT_BUF \in Nat \ {0} /\ WORD \in Nat \ {0} /\ INPUT_BUF < WORD
BY ConstantsAssumption

\* Division with remainder is unique.
LEMMA ModUnique ==
  ASSUME NEW m \in Nat \ {0}, NEW q \in Int, NEW x \in 0 .. m - 1
  PROVE  (q * m + x) % m = x
OBVIOUS

\* It exists, ...
LEMMA ModDef ==
  ASSUME NEW m \in Nat \ {0}, NEW x \in Nat
  PROVE  \E q \in Int, s \in 0 .. m - 1 : x = q * m + s /\ x % m = s
<1>1. x = (x \div m) * m + (x % m) /\ x % m \in 0 .. m - 1 /\ x \div m \in Int
  OBVIOUS
<1> QED BY <1>1

\* ... two numbers less than m apart have different remainders, ...
LEMMA ModApart ==
  ASSUME NEW m \in Nat \ {0}, NEW x \in Nat, NEW d \in 1 .. m - 1
  PROVE  (x + d) % m # x % m
<1>1. PICK q \in Int, s \in 0 .. m - 1 : x = q * m + s /\ x % m = s
  BY ModDef
<1>2. CASE s + d < m
  <2>1. x + d = q * m + (s + d)
    BY <1>1
  <2> QED BY <1>1, <1>2, <2>1, ModUnique
<1>3. CASE s + d >= m
  <2>1. x + d = (q + 1) * m + (s + d - m)
    BY <1>1
  <2> QED BY <1>1, <1>3, <2>1, ModUnique
<1> QED BY <1>2, <1>3

\* ... and a multiple of m does not change the remainder.
LEMMA ModPlus ==
  ASSUME NEW m \in Nat \ {0}, NEW x \in Nat, NEW y \in Nat, y % m = 0
  PROVE  (x + y) % m = x % m
<1>1. PICK q \in Int, s \in 0 .. m - 1 : x = q * m + s /\ x % m = s
  BY ModDef
<1>2. PICK k \in Int, t \in 0 .. m - 1 : y = k * m + t /\ y % m = t
  BY ModDef
<1>3. x + y = (q + k) * m + s
  BY <1>1, <1>2
<1> QED BY <1>1, <1>3, ModUnique

\* input.r + k and the like wrap once at most.
LEMMA AddWraps ==
  ASSUME NEW x \in Word, NEW k \in 0 .. WORD
  PROVE  Add(x, k) = (IF x + k < WORD THEN x + k ELSE x + k - WORD) /\ Add(x, k) \in Word
<1>1. CASE x + k < WORD
  BY <1>1, Sizes DEF Add, Word
<1>2. CASE x + k >= WORD
  <2>1. x + k = 1 * WORD + (x + k - WORD) /\ x + k - WORD \in 0 .. WORD - 1
    BY <1>2, Sizes DEF Word
  <2>2. (x + k) % WORD = x + k - WORD
    BY <2>1, Sizes, ModUnique
  <2>3. Add(x, k) = x + k - WORD
    BY <2>2 DEF Add
  <2> QED BY <1>2, <2>1, <2>3, Sizes DEF Word
<1> QED BY <1>1, <1>2, Sizes DEF Word

\* The subtractions of console.c.
LEMMA Subtract ==
  ASSUME NEW x \in Word, NEW y \in Word
  PROVE  Add(y, WORD - x) = Distance(x, y) /\ Distance(x, y) \in Word
<1>1. WORD - x \in 0 .. WORD
  BY Sizes DEF Word
<1> QED BY <1>1, AddWraps, Sizes DEF Word, Distance

\* A character that has not been read is not in the slot that the next one
\* goes to, although the indices wrap at WORD and the slots at INPUT_BUF.
LEMMA SlotFree ==
  ASSUME NEW x \in Word, NEW y \in Word, Distance(x, y) < INPUT_BUF,
         NEW k \in 0 .. Distance(x, y) - 1
  PROVE  Add(x, k) % INPUT_BUF # y % INPUT_BUF
<1> DEFINE d == Distance(x, y) - k
           a == Add(x, k)
<1>1. Distance(x, y) \in Word
  BY Subtract
<1>2. k \in 0 .. WORD
  BY <1>1, Sizes DEF Word
<1>3. d \in 1 .. INPUT_BUF - 1 /\ a \in Nat /\ (y = a + d \/ y + WORD = a + d)
  <2>1. a \in Word /\ a = IF x + k < WORD THEN x + k ELSE x + k - WORD
    BY <1>2, AddWraps
  <2> HIDE DEF a
  <2> QED BY <1>1, <2>1, Sizes DEF Word, Distance
<1>4. (a + d) % INPUT_BUF # a % INPUT_BUF
  BY <1>3, Sizes, ModApart
<1>5. (y + WORD) % INPUT_BUF = y % INPUT_BUF
  <2>1. y \in Nat /\ WORD % INPUT_BUF = 0
    BY ConstantsAssumption DEF Word
  <2> QED BY <2>1, Sizes, ModPlus
<1> QED BY <1>3, <1>4, <1>5

\* A segment is a sequence of characters.
LEMMA SegmentSeq ==
  ASSUME NEW b \in [0 .. INPUT_BUF - 1 -> Chars], NEW x \in Word, NEW y \in Word
  PROVE  /\ Segment(b, x, y) \in Seq(Chars)
         /\ Len(Segment(b, x, y)) = Distance(x, y)
         /\ \A j \in 1 .. Distance(x, y) :
              Segment(b, x, y)[j] = b[Add(x, j - 1) % INPUT_BUF]
<1>1. Distance(x, y) \in Nat /\ Distance(x, y) < WORD
  <2>1. Distance(x, y) \in Word
    BY Subtract
  <2> QED BY <2>1, Sizes DEF Word
<1>2. ASSUME NEW j \in 1 .. Distance(x, y)
      PROVE  b[Add(x, j - 1) % INPUT_BUF] \in Chars
  <2>1. Add(x, j - 1) \in Nat
    <3>1. j - 1 \in 0 .. WORD
      BY <1>1, Sizes
    <3>2. Add(x, j - 1) \in Word
      BY <3>1, AddWraps
    <3> QED BY <3>2 DEF Word
  <2>2. Add(x, j - 1) % INPUT_BUF \in 0 .. INPUT_BUF - 1
    BY <2>1, Sizes
  <2> QED BY <2>2
<1>3. Segment(b, x, y) \in [1 .. Distance(x, y) -> Chars]
  BY <1>2 DEF Segment
<1>4. Segment(b, x, y) \in Seq(Chars) /\ Len(Segment(b, x, y)) = Distance(x, y)
  BY <1>1, <1>3
<1> QED BY <1>4 DEF Segment

\* Sequences are equal element by element.
LEMMA SeqEqual ==
  ASSUME NEW S, NEW s \in Seq(S), NEW t \in Seq(S), Len(s) = Len(t),
         \A j \in 1 .. Len(s) : s[j] = t[j]
  PROVE  s = t
OBVIOUS

\* From x by y to z.
LEMMA Between ==
  ASSUME NEW x \in Word, NEW y \in Word, NEW z \in Word, Distance(x, y) <= Distance(x, z)
  PROVE  /\ Distance(x, z) = Distance(x, y) + Distance(y, z)
         /\ \A k \in 0 .. Distance(y, z) : Add(y, k) = Add(x, Distance(x, y) + k)
<1>1. Distance(x, z) = Distance(x, y) + Distance(y, z)
  BY Sizes DEF Word, Distance
<1>2. ASSUME NEW k \in 0 .. Distance(y, z)
      PROVE  Add(y, k) = Add(x, Distance(x, y) + k)
  <2>1. /\ Distance(x, y) \in Word /\ Distance(x, z) \in Word
        /\ Distance(y, z) \in Word
    BY Subtract
  <2>2. k \in 0 .. WORD /\ Distance(x, y) + k \in 0 .. WORD
    BY <1>1, <2>1, Sizes DEF Word
  <2>3. Add(y, k) = IF y + k < WORD THEN y + k ELSE y + k - WORD
    BY <2>2, AddWraps
  <2>4. Add(x, Distance(x, y) + k) = IF x + (Distance(x, y) + k) < WORD
          THEN x + (Distance(x, y) + k) ELSE x + (Distance(x, y) + k) - WORD
    BY <2>2, AddWraps
  <2> QED BY <1>1, <2>1, <2>2, <2>3, <2>4, Sizes DEF Word, Distance
<1> QED BY <1>1, <1>2

\* The ended lines and the line being typed are together the characters from r
\* up to e.
LEMMA SegmentCat ==
  ASSUME NEW b \in [0 .. INPUT_BUF - 1 -> Chars], NEW x \in Word, NEW y \in Word,
         NEW z \in Word, Distance(x, y) <= Distance(x, z)
  PROVE  Segment(b, x, z) = Segment(b, x, y) \o Segment(b, y, z)
<1> DEFINE s == Segment(b, x, z)
           t == Segment(b, x, y)
           u == Segment(b, y, z)
<1>1. /\ s \in Seq(Chars) /\ Len(s) = Distance(x, z)
      /\ t \in Seq(Chars) /\ Len(t) = Distance(x, y)
      /\ u \in Seq(Chars) /\ Len(u) = Distance(y, z)
  BY SegmentSeq
<1>2. Distance(x, z) = Distance(x, y) + Distance(y, z)
  BY Between
<1>3. Distance(x, y) \in Nat /\ Distance(y, z) \in Nat
  BY Subtract DEF Word
<1>4. ASSUME NEW j \in 1 .. Distance(x, z) PROVE s[j] = (t \o u)[j]
  <2>1. s[j] = b[Add(x, j - 1) % INPUT_BUF]
    BY SegmentSeq
  <2>2. CASE j <= Distance(x, y)
    <3>1. t[j] = b[Add(x, j - 1) % INPUT_BUF]
      <4>1. j \in 1 .. Distance(x, y)
        BY <1>2, <1>3, <2>2
      <4> QED BY <4>1, SegmentSeq
    <3> HIDE DEF s, t, u
    <3> QED BY <1>1, <1>3, <2>1, <2>2, <3>1
  <2>3. CASE j > Distance(x, y)
    <3> DEFINE k == j - Distance(x, y)
    <3>1. k \in 1 .. Distance(y, z) /\ k - 1 \in 0 .. Distance(y, z)
      BY <1>2, <1>3, <2>3
    <3>2. u[k] = b[Add(y, k - 1) % INPUT_BUF]
      BY <3>1, SegmentSeq
    <3>3. Add(y, k - 1) = Add(x, Distance(x, y) + (k - 1))
      BY <3>1, Between
    <3>4. Distance(x, y) + (k - 1) = j - 1
      BY <1>3
    <3>5. s[j] = u[k]
      BY <2>1, <3>2, <3>3, <3>4
    <3> HIDE DEF s, t, u
    <3> QED BY <1>1, <1>2, <1>3, <2>3, <3>5
  <2>4. j <= Distance(x, y) \/ j > Distance(x, y)
    BY <1>2, <1>3
  <2> QED BY <2>2, <2>3, <2>4
<1>5. t \o u \in Seq(Chars) /\ Len(t \o u) = Distance(x, z)
  <2> HIDE DEF s, t, u
  <2> QED BY <1>1, <1>2
<1> HIDE DEF s, t, u
<1>6. s = t \o u
  BY <1>1, <1>4, <1>5, SeqEqual
<1> QED BY <1>6 DEF s, t, u

\* The array d is b with c in the slot of index z.
Stored(d, b, z, c) ==
  /\ d \in [0 .. INPUT_BUF - 1 -> Chars]
  /\ d[z % INPUT_BUF] = c
  /\ \A k \in 0 .. INPUT_BUF - 1 : k # z % INPUT_BUF => d[k] = b[k]

\* input.e++.
LEMMA NextIndex ==
  ASSUME NEW x \in Word, NEW z \in Word, Distance(x, z) < INPUT_BUF
  PROVE  Add(z, 1) \in Word /\ Distance(x, Add(z, 1)) = Distance(x, z) + 1
<1>1. Distance(x, z) \in Word
  BY Subtract
<1>2. Add(z, 1) \in Word /\ Add(z, 1) = IF z + 1 < WORD THEN z + 1 ELSE z + 1 - WORD
  <2>1. 1 \in 0 .. WORD
    BY Sizes
  <2> QED BY <2>1, AddWraps
<1> QED BY <1>1, <1>2, Sizes DEF Distance, Word

\* A character typed is last.
LEMMA SegmentPut ==
  ASSUME NEW b \in [0 .. INPUT_BUF - 1 -> Chars], NEW x \in Word, NEW z \in Word,
         NEW c \in Chars, NEW d, Stored(d, b, z, c), NEW y \in Word,
         Distance(x, z) < INPUT_BUF, Distance(x, y) = Distance(x, z) + 1
  PROVE  Segment(d, x, y) = Append(Segment(b, x, z), c)
<1> DEFINE l == Distance(x, z)
           s == Segment(d, x, y)
           t == Segment(b, x, z)
<1>1. d \in [0 .. INPUT_BUF - 1 -> Chars]
  BY DEF Stored
<1>2. l \in Nat /\ l < INPUT_BUF
  <2>1. l \in Word
    BY Subtract
  <2> QED BY <2>1 DEF Word
<1>3. /\ s \in Seq(Chars) /\ Len(s) = l + 1
      /\ \A j \in 1 .. l + 1 : s[j] = d[Add(x, j - 1) % INPUT_BUF]
  <2>1. /\ s \in Seq(Chars) /\ Len(s) = Distance(x, y)
        /\ \A j \in 1 .. Distance(x, y) : s[j] = d[Add(x, j - 1) % INPUT_BUF]
    BY <1>1, SegmentSeq
  <2> HIDE DEF s
  <2> QED BY <2>1
<1>4. /\ t \in Seq(Chars) /\ Len(t) = l
      /\ \A j \in 1 .. l : t[j] = b[Add(x, j - 1) % INPUT_BUF]
  BY SegmentSeq
<1>5. ASSUME NEW j \in 1 .. l PROVE s[j] = t[j]
  <2>1. j - 1 \in 0 .. Distance(x, z) - 1 /\ j \in 1 .. l + 1 /\ j - 1 \in 0 .. WORD
    BY <1>2, Sizes
  <2>2. Add(x, j - 1) % INPUT_BUF # z % INPUT_BUF
    BY <2>1, SlotFree
  <2>3. Add(x, j - 1) % INPUT_BUF \in 0 .. INPUT_BUF - 1
    <3>1. Add(x, j - 1) \in Word
      BY <2>1, AddWraps
    <3> QED BY <3>1, Sizes DEF Word
  <2>4. d[Add(x, j - 1) % INPUT_BUF] = b[Add(x, j - 1) % INPUT_BUF]
    BY <2>2, <2>3 DEF Stored
  <2> QED BY <1>3, <1>4, <2>1, <2>4
<1>6. s[l + 1] = c
  <2>1. Add(x, l) = z
    <3>1. l \in 0 .. WORD
      BY <1>2, Sizes
    <3>2. Add(x, l) = IF x + l < WORD THEN x + l ELSE x + l - WORD
      BY <3>1, AddWraps
    <3> QED BY <3>2, Sizes DEF Distance, Word
  <2>2. l + 1 \in 1 .. l + 1 /\ (l + 1) - 1 = l
    BY <1>2
  <2>3. s[l + 1] = d[z % INPUT_BUF]
    BY <1>3, <2>1, <2>2
  <2> QED BY <2>3 DEF Stored
<1> HIDE DEF s, t, l
<1>7. s = Append(t, c)
  <2>1. Append(t, c) \in Seq(Chars) /\ Len(Append(t, c)) = l + 1
    BY <1>4
  <2>2. ASSUME NEW j \in 1 .. l + 1 PROVE s[j] = Append(t, c)[j]
    BY <1>2, <1>4, <1>5, <1>6
  <2> QED BY <1>3, <2>1, <2>2, SeqEqual
<1> QED BY <1>7 DEF s, t

\* ... and leaves the others alone.
LEMMA SegmentKeep ==
  ASSUME NEW b \in [0 .. INPUT_BUF - 1 -> Chars], NEW x \in Word, NEW y \in Word,
         NEW z \in Word, NEW c \in Chars,
         Distance(x, y) <= Distance(x, z), Distance(x, z) < INPUT_BUF,
         NEW d, Stored(d, b, z, c)
  PROVE  Segment(d, x, y) = Segment(b, x, y)
<1>1. Distance(x, y) \in Nat /\ Distance(x, z) \in Nat
  <2>1. Distance(x, y) \in Word /\ Distance(x, z) \in Word
    BY Subtract
  <2> QED BY <2>1 DEF Word
<1>2. ASSUME NEW j \in 1 .. Distance(x, y)
      PROVE  d[Add(x, j - 1) % INPUT_BUF] = b[Add(x, j - 1) % INPUT_BUF]
  <2>1. j - 1 \in 0 .. Distance(x, z) - 1 /\ j - 1 \in 0 .. WORD
    BY <1>1, Sizes
  <2>2. Add(x, j - 1) % INPUT_BUF # z % INPUT_BUF
    BY <2>1, SlotFree
  <2>3. Add(x, j - 1) % INPUT_BUF \in 0 .. INPUT_BUF - 1
    <3>1. Add(x, j - 1) \in Word
      BY <2>1, AddWraps
    <3> QED BY <3>1, Sizes DEF Word
  <2> QED BY <2>2, <2>3 DEF Stored
<1> QED BY <1>2 DEF Segment

\* Backspace takes back the last character.
LEMMA SegmentErase ==
  ASSUME NEW b \in [0 .. INPUT_BUF - 1 -> Chars], NEW x \in Word, NEW z \in Word,
         Distance(x, z) > 0
  PROVE  /\ Add(z, WORD - 1) \in Word
         /\ Distance(x, Add(z, WORD - 1)) = Distance(x, z) - 1
         /\ Segment(b, x, z) # << >>
         /\ Segment(b, x, Add(z, WORD - 1))
              = SubSeq(Segment(b, x, z), 1, Len(Segment(b, x, z)) - 1)
<1> DEFINE l == Distance(x, z)
           s == Segment(b, x, Add(z, WORD - 1))
           t == Segment(b, x, z)
<1>1. l \in Nat /\ l > 0
  <2>1. l \in Word
    BY Subtract
  <2> QED BY <2>1 DEF Word
<1>2. /\ Add(z, WORD - 1) \in Word
      /\ Add(z, WORD - 1) = IF z + (WORD - 1) < WORD THEN z + (WORD - 1)
                                                     ELSE z + (WORD - 1) - WORD
  <2>1. WORD - 1 \in 0 .. WORD
    BY Sizes
  <2> QED BY <2>1, AddWraps
<1>3. Distance(x, Add(z, WORD - 1)) = l - 1
  BY <1>1, <1>2, Sizes DEF Distance, Word
<1>4. /\ s \in Seq(Chars) /\ Len(s) = l - 1
      /\ \A j \in 1 .. l - 1 : s[j] = b[Add(x, j - 1) % INPUT_BUF]
  <2> DEFINE y == Add(z, WORD - 1)
  <2>1. /\ s \in Seq(Chars) /\ Len(s) = Distance(x, y)
        /\ \A j \in 1 .. Distance(x, y) : s[j] = b[Add(x, j - 1) % INPUT_BUF]
    BY <1>2, SegmentSeq
  <2> HIDE DEF s
  <2> QED BY <1>3, <2>1
<1>5. /\ t \in Seq(Chars) /\ Len(t) = l
      /\ \A j \in 1 .. l : t[j] = b[Add(x, j - 1) % INPUT_BUF]
  BY SegmentSeq
<1>6. t # << >> /\ s = SubSeq(t, 1, Len(t) - 1)
  <2> HIDE DEF s, t, l
  <2>1. /\ SubSeq(t, 1, Len(t) - 1) \in Seq(Chars)
        /\ Len(SubSeq(t, 1, Len(t) - 1)) = l - 1
    BY <1>1, <1>5
  <2>2. ASSUME NEW j \in 1 .. l - 1 PROVE s[j] = SubSeq(t, 1, Len(t) - 1)[j]
    BY <1>1, <1>4, <1>5
  <2>3. s = SubSeq(t, 1, Len(t) - 1)
    BY <1>4, <2>1, <2>2, SeqEqual
  <2> QED BY <1>1, <1>5, <2>3
<1> QED BY <1>2, <1>3, <1>6

\* A reader takes the first.
LEMMA SegmentTake ==
  ASSUME NEW b \in [0 .. INPUT_BUF - 1 -> Chars], NEW x \in Word, NEW y \in Word, x # y
  PROVE  /\ Add(x, 1) \in Word
         /\ Distance(x, y) = Distance(Add(x, 1), y) + 1
         /\ Segment(b, x, y) # << >>
         /\ Head(Segment(b, x, y)) = b[x % INPUT_BUF]
         /\ Segment(b, Add(x, 1), y) = Tail(Segment(b, x, y))
<1> DEFINE l == Distance(x, y)
           s == Segment(b, Add(x, 1), y)
           t == Segment(b, x, y)
<1>1. l \in Nat /\ l > 0 /\ l < WORD
  <2>1. l \in Word
    BY Subtract
  <2> QED BY <2>1, Sizes DEF Word, Distance
<1>2. Add(x, 1) \in Word /\ Add(x, 1) = IF x + 1 < WORD THEN x + 1 ELSE x + 1 - WORD
  <2>1. 1 \in 0 .. WORD
    BY Sizes
  <2> QED BY <2>1, AddWraps
<1>3. Distance(Add(x, 1), y) = l - 1
  BY <1>1, <1>2, Sizes DEF Distance, Word
<1>4. /\ s \in Seq(Chars) /\ Len(s) = l - 1
      /\ \A j \in 1 .. l - 1 : s[j] = b[Add(Add(x, 1), j - 1) % INPUT_BUF]
  <2>1. /\ s \in Seq(Chars) /\ Len(s) = Distance(Add(x, 1), y)
        /\ \A j \in 1 .. Distance(Add(x, 1), y) :
             s[j] = b[Add(Add(x, 1), j - 1) % INPUT_BUF]
    BY <1>2, SegmentSeq
  <2> HIDE DEF s
  <2> QED BY <1>3, <2>1
<1>5. /\ t \in Seq(Chars) /\ Len(t) = l
      /\ \A j \in 1 .. l : t[j] = b[Add(x, j - 1) % INPUT_BUF]
  BY SegmentSeq
<1>6. t # << >> /\ Head(t) = b[x % INPUT_BUF]
  <2>1. Add(x, 1 - 1) = x
    <3>1. 0 \in 0 .. WORD /\ x + 0 = x /\ x < WORD
      BY Sizes DEF Word
    <3>2. Add(x, 0) = x
      BY <3>1, AddWraps
    <3> QED BY <3>2
  <2> HIDE DEF s, t, l
  <2>2. t[1] = b[x % INPUT_BUF]
    BY <1>1, <1>5, <2>1
  <2> QED BY <1>1, <1>5, <2>2
<1>7. s = Tail(t)
  <2>1. ASSUME NEW j \in 1 .. l - 1
        PROVE  Add(Add(x, 1), j - 1) = Add(x, (j + 1) - 1)
    <3>1. j - 1 \in 0 .. WORD /\ (j + 1) - 1 \in 0 .. WORD
      BY <1>1, Sizes
    <3>2. Add(Add(x, 1), j - 1) = IF Add(x, 1) + (j - 1) < WORD
            THEN Add(x, 1) + (j - 1) ELSE Add(x, 1) + (j - 1) - WORD
      BY <1>2, <3>1, AddWraps
    <3>3. Add(x, (j + 1) - 1) = IF x + ((j + 1) - 1) < WORD
            THEN x + ((j + 1) - 1) ELSE x + ((j + 1) - 1) - WORD
      BY <3>1, AddWraps
    <3> QED BY <1>1, <1>2, <3>1, <3>2, <3>3, Sizes DEF Word
  <2> HIDE DEF s, t, l
  <2>2. Tail(t) \in Seq(Chars) /\ Len(Tail(t)) = l - 1
    BY <1>1, <1>5, <1>6
  <2>3. ASSUME NEW j \in 1 .. l - 1 PROVE s[j] = Tail(t)[j]
    <3>1. j + 1 \in 1 .. l /\ Tail(t)[j] = t[j + 1]
      BY <1>1, <1>5, <1>6
    <3> QED BY <1>4, <1>5, <2>1, <3>1
  <2> QED BY <1>4, <2>2, <2>3, SeqEqual
<1> QED BY <1>1, <1>2, <1>3, <1>6, <1>7

\* Nothing is between an index and itself.
LEMMA SegmentEmpty ==
  ASSUME NEW b, NEW x \in Word
  PROVE  Distance(x, x) = 0 /\ Segment(b, x, x) = << >>
<1>1. Distance(x, x) = 0
  BY DEF Distance, Word
<1> QED BY <1>1 DEF Segment

-----------------------------------------------------------------------------
(* The refinement.                                                         *)

\* The mapping in terms of Segment.
LEMMA Mapping ==
  ASSUME RingInv
  PROVE  /\ Cells(r, Add(w, WORD - r)) = Segment(buf, r, w)
         /\ Cells(w, Add(e, WORD - w)) = Segment(buf, w, e)
BY Subtract DEF Cells, Segment, RingInv

\* The same after a step.
LEMMA MappingNext ==
  ASSUME RingInv'
  PROVE  /\ Cells(r, Add(w, WORD - r))' = Segment(buf', r', w')
         /\ Cells(w, Add(e, WORD - w))' = Segment(buf', w', e')
BY Subtract DEF Cells, Segment, RingInv

\* The distances between the three indices.
LEMMA Lengths ==
  ASSUME RingInv
  PROVE  /\ Distance(r, e) = Distance(r, w) + Distance(w, e)
         /\ Distance(r, w) \in Nat /\ Distance(w, e) \in Nat
         /\ Segment(buf, r, w) \in Seq(Chars) /\ Len(Segment(buf, r, w)) = Distance(r, w)
         /\ Segment(buf, w, e) \in Seq(Chars) /\ Len(Segment(buf, w, e)) = Distance(w, e)
<1>1. Distance(r, w) \in Word /\ Distance(w, e) \in Word
  BY Subtract DEF RingInv
<1>2. Distance(r, e) = Distance(r, w) + Distance(w, e)
  BY Between DEF RingInv
<1>3. Distance(r, w) \in Nat /\ Distance(w, e) \in Nat
  BY <1>1 DEF Word
<1>4. /\ /\ Segment(buf, r, w) \in Seq(Chars)
      /\ Len(Segment(buf, r, w)) = Distance(r, w)
      /\ Segment(buf, w, e) \in Seq(Chars) /\ Len(Segment(buf, w, e)) = Distance(w, e)
  BY SegmentSeq DEF RingInv
<1> QED BY <1>2, <1>3, <1>4

\* A character typed joins the line, and may end it.
LEMMA TypedStep ==
  ASSUME NEW c \in Chars, RingInv, Typed(c), UNCHANGED got
  PROVE  RingInv' /\ Abs!Type(c)
<1> DEFINE ready == Segment(buf, r, w)
           line == Segment(buf, w, e)
<1>1. /\ buf \in [0 .. INPUT_BUF - 1 -> Chars]
      /\ r \in Word /\ w \in Word /\ e \in Word
      /\ Distance(r, w) <= Distance(r, e)
      /\ \A j \in 1 .. Distance(w, e) : line[j] # "nl"
  BY DEF RingInv
<1>2. /\ Distance(r, e) = Distance(r, w) + Distance(w, e)
      /\ Distance(r, w) \in Nat /\ Distance(w, e) \in Nat
      /\ ready \in Seq(Chars) /\ Len(ready) = Distance(r, w)
      /\ line \in Seq(Chars) /\ Len(line) = Distance(w, e)
  BY Lengths
<1>3. Distance(r, e) < INPUT_BUF /\ Distance(w, e) < INPUT_BUF
  <2>1. Distance(r, e) < INPUT_BUF
    BY <1>1, Subtract DEF Typed, Room
  <2> QED BY <1>2, <2>1, Sizes
<1>4. buf' = [buf EXCEPT ![e % INPUT_BUF] = c] /\ e' = Add(e, 1) /\ r' = r
  BY DEF Typed
<1>5. Stored(buf', buf, e, c)
  <2>1. e % INPUT_BUF \in 0 .. INPUT_BUF - 1
    BY <1>1, Sizes DEF Word
  <2> QED BY <1>1, <1>4, <2>1 DEF Stored
<1>6. /\ buf' \in [0 .. INPUT_BUF - 1 -> Chars] /\ e' \in Word
      /\ Distance(r, e') = Distance(r, e) + 1
      /\ Segment(buf', r, e') = Append(Segment(buf, r, e), c)
      /\ Distance(w, e') = Distance(w, e) + 1
      /\ Segment(buf', w, e') = Append(line, c)
  <2>1. /\ e' \in Word
        /\ Distance(r, e') = Distance(r, e) + 1 /\ Distance(w, e') = Distance(w, e) + 1
    BY <1>1, <1>3, <1>4, NextIndex
  <2>2. /\ Segment(buf', r, e') = Append(Segment(buf, r, e), c)
        /\ Segment(buf', w, e') = Append(line, c)
    BY <1>1, <1>3, <1>5, <2>1, SegmentPut
  <2> QED BY <1>5, <2>1, <2>2 DEF Stored
<1>7. Segment(buf', r, w) = ready
  BY <1>1, <1>3, <1>5, SegmentKeep
<1>8. e' = Add(r, INPUT_BUF) <=> Distance(r, w) + (Distance(w, e) + 1) = INPUT_BUF
  <2>1. INPUT_BUF \in 0 .. WORD
    BY Sizes
  <2>2. Add(r, INPUT_BUF) = IF r + INPUT_BUF < WORD THEN r + INPUT_BUF
                                                    ELSE r + INPUT_BUF - WORD
    BY <1>1, <2>1, AddWraps
  <2>3. e' = Add(r, INPUT_BUF) <=> Distance(r, e') = INPUT_BUF
    <3>1. r \in Word /\ e' \in Word
      BY <1>1, <1>6
    <3>2. ASSUME NEW x \in Word, NEW y \in Word
          PROVE  y = (IF x + INPUT_BUF < WORD THEN x + INPUT_BUF
                                              ELSE x + INPUT_BUF - WORD)
                 <=> Distance(x, y) = INPUT_BUF
      BY Sizes DEF Distance, Word
    <3> QED BY <2>2, <3>1, <3>2
  <2> QED BY <1>2, <1>6, <2>3
<1> DEFINE ends == c \in {"nl", "eof"} \/ Len(ready) + Len(Append(line, c)) = INPUT_BUF
<1>9. ends <=> (c \in {"nl", "eof"} \/ e' = Add(r, INPUT_BUF))
  <2>1. Len(Append(line, c)) = Distance(w, e) + 1
    BY <1>2
  <2> QED BY <1>2, <1>8, <2>1
<1>10. CASE ends
  <2>1. w' = e'
    BY <1>9, <1>10 DEF Typed
  <2>2. Distance(w', e') = 0 /\ Segment(buf', w', e') = << >>
    BY <1>6, <2>1, SegmentEmpty
  <2>3. RingInv'
    BY <1>1, <1>2, <1>3, <1>4, <1>6, <2>1, <2>2, Sizes DEF RingInv
  <2>4. Segment(buf', r', w') = ready \o Append(line, c)
    <3>1. Segment(buf, r, e) = ready \o line
      BY <1>1, SegmentCat
    <3> HIDE DEF ready, line
    <3>2. Append(ready \o line, c) = ready \o Append(line, c)
      BY <1>2
    <3> QED BY <1>4, <1>6, <2>1, <3>1, <3>2
  <2> HIDE DEF ready, line
  <2> QED BY <1>2, <1>3, <1>10, <2>2, <2>3, <2>4, Mapping, MappingNext DEF Abs!Type,
      ready, line
<1>11. CASE ~ends
  <2>1. w' = w /\ c # "nl"
    BY <1>9, <1>11 DEF Typed
  <2>2. RingInv'
    <3>1. \A j \in 1 .. Distance(w, e') : Segment(buf', w, e')[j] # "nl"
      <4> HIDE DEF line
      <4> QED BY <1>1, <1>2, <1>6, <2>1
    <3>2. Distance(r, w) <= Distance(r, e') /\ Distance(r, e') <= INPUT_BUF
      BY <1>1, <1>2, <1>3, <1>6, Sizes
    <3> QED BY <1>1, <1>4, <1>6, <2>1, <3>1, <3>2 DEF RingInv
  <2> QED BY <1>2, <1>3, <1>4, <1>6, <1>7, <1>11, <2>1, <2>2, Mapping, MappingNext
          DEF Abs!Type
<1> QED BY <1>10, <1>11

\* Backspace.
LEMMA ErasedStep ==
  ASSUME RingInv, Erased, UNCHANGED got
  PROVE  RingInv' /\ Abs!Erase
<1> DEFINE line == Segment(buf, w, e)
<1>1. /\ buf \in [0 .. INPUT_BUF - 1 -> Chars]
      /\ r \in Word /\ w \in Word /\ e \in Word /\ e # w
      /\ e' = Add(e, WORD - 1) /\ UNCHANGED <<buf, r, w>>
  BY DEF RingInv, Erased
<1>2. /\ Distance(r, e) = Distance(r, w) + Distance(w, e)
      /\ Distance(r, w) \in Nat /\ Distance(w, e) \in Nat
      /\ line \in Seq(Chars) /\ Len(line) = Distance(w, e)
      /\ Distance(r, e) <= INPUT_BUF
      /\ \A j \in 1 .. Distance(w, e) : line[j] # "nl"
  BY Lengths DEF RingInv
<1>3. Distance(w, e) > 0
  BY <1>1, Sizes DEF Distance, Word
<1>4. /\ e' \in Word /\ Distance(w, e') = Distance(w, e) - 1 /\ line # << >>
      /\ Segment(buf, w, e') = SubSeq(line, 1, Len(line) - 1)
  BY <1>1, <1>3, SegmentErase
<1>5. Distance(r, e') = Distance(r, e) - 1
  <2>1. Distance(r, e) > 0
    BY <1>2, <1>3
  <2> QED BY <1>1, <2>1, SegmentErase
<1>6. RingInv'
  <2> HIDE DEF line
  <2>1. \A j \in 1 .. Distance(w, e') : Segment(buf, w, e')[j] # "nl"
    BY <1>2, <1>3, <1>4
  <2>2. Distance(r, w) <= Distance(r, e') /\ Distance(r, e') <= INPUT_BUF
    BY <1>2, <1>3, <1>5, Sizes
  <2> QED BY <1>1, <1>4, <2>1, <2>2 DEF RingInv
<1> QED BY <1>1, <1>4, <1>6, Mapping, MappingNext DEF Abs!Erase

\* ^U: the loop stops at w, since there is no newline before it.
LEMMA KilledStep ==
  ASSUME RingInv, Killed, UNCHANGED got
  PROVE  RingInv' /\ Abs!EraseLine
<1> DEFINE l == Distance(w, e)
<1>1. /\ buf \in [0 .. INPUT_BUF - 1 -> Chars]
      /\ r \in Word /\ w \in Word /\ e \in Word
      /\ UNCHANGED <<buf, r, w>>
  BY DEF RingInv, Killed
<1>2. /\ Distance(r, e) = Distance(r, w) + l
      /\ Distance(r, w) \in Nat /\ l \in Nat
      /\ Distance(r, e) <= INPUT_BUF
      /\ \A j \in 1 .. l : Segment(buf, w, e)[j] # "nl"
  BY Lengths DEF RingInv
<1>3. Add(e, WORD - w) = l
  BY <1>1, Subtract
<1>4. ASSUME NEW j \in 1 .. l PROVE buf[Add(e, WORD - j) % INPUT_BUF] # "nl"
  <2> DEFINE k == l - j
  <2>1. k + 1 \in 1 .. l /\ k \in 0 .. WORD /\ WORD - j \in 0 .. WORD
    <3>1. l \in Word
      BY <1>1, Subtract
    <3> QED BY <1>2, <3>1, Sizes DEF Word
  <2>2. Add(w, k) = Add(e, WORD - j)
    <3>1. Add(w, k) = IF w + k < WORD THEN w + k ELSE w + k - WORD
      BY <1>1, <2>1, AddWraps
    <3>2. Add(e, WORD - j) = IF e + (WORD - j) < WORD THEN e + (WORD - j)
                                                      ELSE e + (WORD - j) - WORD
      BY <1>1, <2>1, AddWraps
    <3> QED BY <1>1, <1>2, <3>1, <3>2, Sizes DEF Distance, Word
  <2>3. Segment(buf, w, e)[k + 1] = buf[Add(w, (k + 1) - 1) % INPUT_BUF]
    BY <1>1, <2>1, SegmentSeq
  <2>4. (k + 1) - 1 = k
    BY <1>2
  <2> QED BY <1>2, <2>1, <2>2, <2>3, <2>4
<1>5. Line = 1 .. l
  <2>1. \A k \in 1 .. l : \A j \in 1 .. k : j \in 1 .. l
    BY <1>2
  <2> QED BY <1>3, <1>4, <2>1 DEF Line
<1>6. e' = Add(e, WORD - l)
  <2>1. CASE l = 0
    <3>1. Line = {}
      BY <1>5, <2>1
    <3> QED BY <2>1, <3>1 DEF Killed
  <2>2. CASE l # 0
    <3>1. l \in Line /\ Line # {} /\ \A y \in Line : y <= l /\ y \in Nat
      BY <1>2, <1>5, <2>2
    <3>2. (CHOOSE x \in Line : \A y \in Line : y <= x) = l
      <4>1. \A x \in Line : (\A y \in Line : y <= x) => x = l
        BY <1>2, <3>1
      <4> QED BY <3>1, <4>1
    <3> QED BY <3>1, <3>2 DEF Killed
  <2> QED BY <2>1, <2>2
<1>7. e' = w
  <2>1. WORD - l \in 0 .. WORD
    <3>1. l \in Word
      BY <1>1, Subtract
    <3> QED BY <3>1, Sizes DEF Word
  <2>2. e' = IF e + (WORD - l) < WORD THEN e + (WORD - l) ELSE e + (WORD - l) - WORD
    BY <1>1, <1>6, <2>1, AddWraps
  <2> QED BY <1>1, <2>2, Sizes DEF Distance, Word
<1>8. Distance(w', e') = 0 /\ Segment(buf', w', e') = << >>
  BY <1>1, <1>7, SegmentEmpty
<1>9. RingInv'
  <2>1. Distance(r', w') <= Distance(r', e') /\ Distance(r', e') <= INPUT_BUF
    BY <1>1, <1>2, <1>7, Sizes
  <2> QED BY <1>1, <1>7, <1>8, <2>1 DEF RingInv
<1> QED BY <1>1, <1>8, <1>9, Mapping, MappingNext DEF Abs!EraseLine

\* What has been read matters while the read goes on: a step that keeps it and
\* takes nobody back from the way out keeps GotInv.
LEMMA GotKept ==
  ASSUME GotInv, UNCHANGED got,
         \A q \in Procs : pc[q] \in {"relock", "return"} => pc'[q] \in {"relock", "return"}
  PROVE  GotInv'
BY DEF GotInv, GoesOn

\* One character of a read: taken, or an end of file that is taken, or left.
LEMMA ReadCharStep ==
  ASSUME NEW p \in Procs, Inv, RingInv, GotInv, ReadChar(p)
  PROVE  RingInv' /\ GotInv' /\ (Abs!Take(p) \/ Abs!TakeEof(p) \/ UNCHANGED Abs!vars)
<1> DEFINE c == buf[r % INPUT_BUF]
           ready == Segment(buf, r, w)
<1>1. /\ buf \in [0 .. INPUT_BUF - 1 -> Chars]
      /\ r \in Word /\ w \in Word /\ e \in Word /\ r # w
      /\ UNCHANGED <<buf, w, e>>
  BY DEF RingInv, ReadChar
<1>2. c \in Chars
  <2>1. r % INPUT_BUF \in 0 .. INPUT_BUF - 1
    BY <1>1, Sizes DEF Word
  <2> QED BY <1>1, <2>1
<1>3. /\ pc[p] = "loop"
      /\ pc \in [Procs -> Labels]
      /\ got \in [Procs -> Seq(Chars)]
      /\ GoesOn(p)
  BY DEF ReadChar, Inv, GotInv
<1>4. /\ ready # << >> /\ Head(ready) = c
      /\ Add(r, 1) \in Word
      /\ Segment(buf, Add(r, 1), w) = Tail(ready)
      /\ Distance(r, w) = Distance(Add(r, 1), w) + 1
  BY <1>1, SegmentTake
<1>5. ASSUME r' = Add(r, 1) PROVE RingInv' /\ Segment(buf', r', w') = Tail(ready)
  <2>1. r # e
    <3>1. Distance(r, w) <= Distance(r, e) /\ Distance(r, w) # 0
      BY <1>1, Sizes DEF RingInv, Distance, Word
    <3>2. Distance(r, w) \in Nat /\ Distance(e, e) = 0
      BY <1>1, Lengths, SegmentEmpty
    <3> QED BY <3>1, <3>2
  <2>2. Distance(r, e) = Distance(r', e) + 1
    BY <1>1, <1>5, <2>1, SegmentTake
  <2>3. Distance(r', w) \in Nat /\ Distance(r', e) \in Nat
    <3>1. Distance(r', w) \in Word /\ Distance(r', e) \in Word
      BY <1>1, <1>4, <1>5, Subtract
    <3> QED BY <3>1 DEF Word
  <2>4. Distance(r', w) <= Distance(r', e) /\ Distance(r', e) <= INPUT_BUF
    BY <1>4, <1>5, <2>2, <2>3, Sizes DEF RingInv
  <2>5. RingInv'
    BY <1>1, <1>4, <1>5, <2>4 DEF RingInv
  <2> QED BY <1>1, <1>4, <1>5, <2>5
<1>6. Segment(buf', w', e') = Segment(buf, w, e)
  BY <1>1
<1> HIDE DEF c, ready
<1>7. CASE c = "eof"
  <2>1. /\ UNCHANGED got /\ pc' = [pc EXCEPT ![p] = "relock"]
        /\ r' = IF got[p] # << >> THEN r ELSE Add(r, 1)
    BY <1>7 DEF ReadChar, Done, Goto, c
  <2>2. GotInv'
    BY <1>3, <2>1, GotKept
  <2>3. CASE got[p] = << >>
    <3>1. r' = Add(r, 1)
      BY <2>1, <2>3
    <3>2. RingInv' /\ Segment(buf', r', w') = Tail(ready)
      BY <1>5, <3>1
    <3>3. Abs!TakeEof(p)
      BY <1>4, <1>6, <1>7, <2>1, <2>3, <3>2, Mapping, MappingNext DEF Abs!TakeEof,
          ready
    <3> QED BY <2>2, <3>2, <3>3
  <2>4. CASE got[p] # << >>
    <3>1. r' = r
      BY <2>1, <2>4
    <3>2. RingInv'
      BY <1>1, <3>1 DEF RingInv
    <3>3. UNCHANGED Abs!vars
      BY <1>1, <1>6, <2>1, <3>1, <3>2, Mapping, MappingNext DEF Abs!vars
    <3> QED BY <2>2, <3>2, <3>3
  <2> QED BY <2>3, <2>4
<1>8. CASE c # "eof"
  <2>1. /\ got' = [got EXCEPT ![p] = Append(@, c)] /\ r' = Add(r, 1)
        /\ IF c = "nl" THEN pc' = [pc EXCEPT ![p] = "relock"] ELSE pc' = pc
    BY <1>8 DEF ReadChar, Done, Goto, c
  <2>2. RingInv' /\ Segment(buf', r', w') = Tail(ready)
    BY <1>5, <2>1
  <2>3. got[p] \in Seq(Chars) /\ got'[p] = Append(got[p], c)
    BY <1>3, <2>1
  <2>4. /\ got'[p] # << >>
        /\ got'[p][Len(got'[p])] = c
        /\ got' \in [Procs -> Seq(Chars)]
    <3>1. /\ Append(got[p], c) \in Seq(Chars) /\ Append(got[p], c) # << >>
          /\ Append(got[p], c)[Len(Append(got[p], c))] = c
      BY <1>2, <2>3
    <3>2. got' \in [Procs -> Seq(Chars)]
      BY <1>3, <2>1, <3>1
    <3> QED BY <2>3, <3>1, <3>2
  <2>5. ASSUME NEW q \in Procs, pc'[q] \notin {"relock", "return"} PROVE GoesOn(q)'
    <3>1. CASE q = p
      <4>1. c # "nl"
        BY <1>3, <2>1, <2>5, <3>1
      <4> QED BY <2>4, <3>1, <4>1 DEF GoesOn
    <3>2. CASE q # p
      <4>1. got'[q] = got[q] /\ pc'[q] = pc[q]
        BY <1>3, <2>1, <3>2
      <4> QED BY <2>5, <4>1 DEF GotInv, GoesOn
    <3> QED BY <3>1, <3>2
  <2>6. GotInv'
    BY <2>4, <2>5 DEF GotInv
  <2>7. Abs!Take(p)
    BY <1>3, <1>4, <1>6, <1>8, <2>1, <2>2, Mapping, MappingNext DEF Abs!Take,
        GoesOn, ready
  <2> QED BY <2>2, <2>6, <2>7
<1> QED BY <1>7, <1>8

\* A step that leaves the ring alone is none of the line discipline.
LEMMA QuietStep ==
  ASSUME RingInv, UNCHANGED <<buf, r, w, e>>
  PROVE  RingInv' /\ UNCHANGED <<Cells(r, Add(w, WORD - r)), Cells(w, Add(e, WORD - w))>>
BY DEF RingInv, Cells

\* Every step of the console is a step of the line discipline, or none.
LEMMA RefinedStep ==
  ASSUME Inv, RingInv, GotInv, [Next]_vars
  PROVE  RingInv' /\ GotInv' /\ [Abs!Next]_(Abs!vars)
<1>1. pc \in [Procs -> Labels]
  BY DEF Inv
<1>2. ASSUME NEW p \in Procs, NEW l, Goto(p, l), UNCHANGED <<buf, r, w, e, got>>,
             pc[p] \in {"relock", "return"} => l \in {"relock", "return"}
      PROVE  RingInv' /\ GotInv' /\ [Abs!Next]_(Abs!vars)
  <2>1. \A q \in Procs : pc[q] \in {"relock", "return"} => pc'[q] \in {"relock", "return"}
    BY <1>1, <1>2 DEF Goto
  <2>2. GotInv'
    BY <1>2, <2>1, GotKept
  <2> QED BY <1>2, <2>2, QuietStep DEF Abs!vars
<1>3. ASSUME NEW c \in Keys, consoleintr(c)
      PROVE  RingInv' /\ GotInv' /\ [Abs!Next]_(Abs!vars)
  <2>1. UNCHANGED got
    BY <1>3 DEF consoleintr
  <2>2. ASSUME \A q \in Procs : pc'[q] = pc[q] \/ pc'[q] = Wake(q) PROVE GotInv'
    <3>1. \A q \in Procs : pc[q] \in {"relock", "return"} => Wake(q) = pc[q]
      BY DEF Wake
    <3> QED BY <2>1, <2>2, <3>1, GotKept
  <2>3. CASE c = "erase"
    <3>1. Erased
      BY <1>3, <2>3 DEF consoleintr
    <3> QED BY <2>1, <2>2, <3>1, ErasedStep DEF Erased, Abs!Next
  <2>4. CASE c = "kill"
    <3>1. Killed
      BY <1>3, <2>4 DEF consoleintr
    <3> QED BY <2>1, <2>2, <3>1, KilledStep DEF Killed, Abs!Next
  <2>5. CASE c \in Chars /\ c \notin {"erase", "kill"}
    <3>1. Typed(c)
      BY <1>3, <2>5 DEF consoleintr
    <3>2. RingInv' /\ Abs!Type(c)
      BY <2>1, <2>5, <3>1, TypedStep
    <3>3. GotInv'
      BY <2>2, <3>1 DEF Typed
    <3> QED BY <2>5, <3>2, <3>3 DEF Abs!Next, Chars
  <2> QED BY <2>3, <2>4, <2>5 DEF Keys
<1>4. ASSUME NEW p \in Procs, NEW l \in {"read", "write"}, NEW k, Call(p, l, k)
      PROVE  RingInv' /\ GotInv' /\ [Abs!Next]_(Abs!vars)
  BY <1>2, <1>4 DEF Call, input
<1>5. ASSUME NEW p \in Procs, Kill(p)
      PROVE  RingInv' /\ GotInv' /\ [Abs!Next]_(Abs!vars)
  <2>1. pc[p] \in {"relock", "return"} => Wake(p) = pc[p]
    BY DEF Wake
  <2> QED BY <1>2, <1>5, <2>1 DEF Kill, input
<1>6. ASSUME NEW p \in Procs, Step(p)
      PROVE  RingInv' /\ GotInv' /\ [Abs!Next]_(Abs!vars)
  <2> USE DEF input
  <2>1. CASE ReadUnlock(p)
    BY <1>2, <2>1 DEF ReadUnlock, Unlock
  <2>2. CASE WriteUnlock(p)
    BY <1>2, <2>2 DEF WriteUnlock, Unlock
  <2>3. CASE ReadAcquire(p)
    BY <1>2, <2>3 DEF ReadAcquire
  <2>4. CASE ReadEmpty(p)
    BY <1>2, <2>4 DEF ReadEmpty, Done
  <2>5. CASE ReadSleep(p)
    BY <1>2, <2>5 DEF ReadSleep
  <2>6. CASE ReadChar(p)
    BY <2>6, ReadCharStep DEF Abs!Next
  <2>7. CASE ReadFull(p)
    BY <1>2, <2>7 DEF ReadFull, Done
  <2>8. CASE WriteOut(p)
    BY <1>2, <2>8 DEF WriteOut
  <2>9. CASE Relock(p)
    BY <1>2, <2>9 DEF Relock
  <2>10. CASE Return(p)
    <3>1. /\ UNCHANGED <<buf, r, w, e>> /\ pc' = [pc EXCEPT ![p] = "user"]
          /\ got' = [got EXCEPT ![p] = << >>]
      BY <2>10 DEF Return, Goto
    <3>2. Abs!Begin(p) /\ RingInv'
      BY <3>1, QuietStep DEF Abs!Begin
    <3>3. got' \in [Procs -> Seq(Chars)] /\ got'[p] = << >>
      <4>1. << >> \in Seq(Chars)
        OBVIOUS
      <4> QED BY <3>1, <4>1 DEF GotInv
    <3>4. \A q \in Procs \ {p} : got'[q] = got[q] /\ pc'[q] = pc[q]
      BY <1>1, <3>1 DEF GotInv
    <3>5. GotInv'
      BY <3>3, <3>4 DEF GotInv, GoesOn
    <3> QED BY <3>2, <3>5 DEF Abs!Next
  <2> QED BY <1>6, <2>1, <2>2, <2>3, <2>4, <2>5, <2>6, <2>7, <2>8, <2>9, <2>10 DEF
      Step
<1>7. CASE UNCHANGED vars
  <2>1. UNCHANGED <<buf, r, w, e, got, pc>>
    BY <1>7 DEF vars
  <2>2. GotInv'
    BY <2>1, GotKept
  <2> QED BY <2>1, <2>2, QuietStep DEF Abs!vars
<1>8. CASE Next
  BY <1>3, <1>4, <1>5, <1>6, <1>8 DEF Next
<1> QED BY <1>7, <1>8

\* At boot the ring is empty.
LEMMA RefinedInit == Init => RingInv /\ GotInv /\ Abs!Init
<1> SUFFICES ASSUME Init PROVE RingInv /\ GotInv /\ Abs!Init
  OBVIOUS
<1>1. r = 0 /\ w = 0 /\ e = 0 /\ 0 \in Word
  BY Sizes DEF Init, Word
<1>2. Distance(0, 0) = 0 /\ Segment(buf, 0, 0) = << >>
  BY <1>1, SegmentEmpty
<1>3. RingInv
  <2>1. buf \in [0 .. INPUT_BUF - 1 -> Chars]
    BY DEF Init, Chars
  <2> QED BY <1>1, <1>2, <2>1, Sizes DEF RingInv
<1>4. GotInv
  <2>1. << >> \in Seq(Chars)
    OBVIOUS
  <2>2. \A p \in Procs : got[p] = << >>
    BY DEF Init
  <2>3. got \in [Procs -> Seq(Chars)]
    BY <2>1 DEF Init
  <2> QED BY <2>2, <2>3 DEF GotInv, GoesOn
<1>5. Abs!Init
  BY <1>1, <1>2, <1>3, Mapping DEF Abs!Init, Init
<1> QED BY <1>3, <1>4, <1>5

\* Whatever the number of processes, the size of the ring and the width of its
\* indices, the ring of consoleintr() and consoleread() is the line discipline
\* of Tty: no character is lost, repeated or reordered, and editing reaches no
\* line that has ended.
THEOREM ConsoleIsTty == Spec => ImplementsTty
<1>1. Inv /\ RingInv /\ GotInv /\ [Next]_vars
        => RingInv' /\ GotInv' /\ [Abs!Next]_(Abs!vars)
  BY RefinedStep
<1> QED BY InitInv, NextInv, RefinedInit, <1>1, PTL DEF Spec, ImplementsTty,
    Abs!Spec
=============================================================================
