------------------------------ MODULE LogProofs ------------------------------
(***************************************************************************)
(* Proofs about the log, for any number of processes, blocks and system    *)
(* calls, any size of the log and any number of crashes: that it is an     *)
(* atomic file system, and that it has room for what it lets in.           *)
(***************************************************************************)
EXTENDS Log, FiniteSetTheorems, TLAPS

-----------------------------------------------------------------------------
(* The invariant                                                           *)

Labels == {"idle", "begin", "asleep", "op", "check", "append", "wlog", "install",
           "finish"}

TypeInv ==
  /\ home \in [Blocks -> Vals]
  /\ hdr \in Seq(Blocks) /\ lh \in Seq(Blocks)
  /\ logd \in [1 .. LOGSIZE -> Vals]
  /\ cache \in [Blocks -> Vals \union {NoBuf}]
  /\ dirty \subseteq Blocks
  /\ outstanding \in Nat /\ tail \in Nat
  /\ committing \in BOOLEAN
  /\ pc \in [Procs -> Labels]
  /\ buf \in [Procs -> Blocks \union {NoBlock}]
  /\ wrote \in [Procs -> SUBSET Blocks]
  /\ boot \in {"readhead", "install", "up", "panic"}

\* The processes in a system call.
Active == {p \in Procs : pc[p] \in InOp}

\* log.outstanding counts them.  A process holds a buffer from its change to the
\* end of log_write(), and a block has one buffer.
CallInv ==
  /\ outstanding = Cardinality(Active)
  /\ \A p \in Procs : Cardinality(wrote[p]) <= OpBlocks
  /\ \A p \in Procs : pc[p] \notin InOp => wrote[p] = {}
  /\ \A p \in Procs : buf[p] # NoBlock <=> pc[p] \in {"check", "append"}
  /\ \A p \in Procs : buf[p] # NoBlock => buf[p] \in wrote[p]
  /\ \A p, q \in Procs : buf[p] = buf[q] /\ buf[p] # NoBlock => p = q

InCommit == {"wlog", "install", "finish"}

\* One process commits, when no system call is in progress.
CommitInv ==
  /\ committing <=> \E p \in Procs : pc[p] \in InCommit
  /\ \A p, q \in Procs : pc[p] \in InCommit /\ pc[q] \in InCommit => p = q
  /\ \A p, q \in Procs : pc[p] \in InCommit => pc[q] \notin InOp

\* Between a crash and the end of recovery there are no processes.
BootInv ==
  /\ boot \in {"readhead", "install"} =>
       (\A p \in Procs : pc[p] = "idle") /\ dirty = {}
  /\ boot = "readhead" => lh = <<>> /\ tail = 0

\* A cached block is the home block, unless it is dirty or somebody changes it.
CacheInv ==
  /\ \A b \in Blocks : cache[b] # NoBuf /\ b \notin dirty /\ ~Locked(b) =>
       cache[b] = home[b]
  /\ \A b \in dirty : cache[b] # NoBuf
  /\ \A b \in Blocks : Locked(b) => cache[b] # NoBuf

NoRepeats(s) == \A i, j \in DOMAIN s : s[i] = s[j] => i = j

\* The first n blocks of the log are in their homes.
InHomes(n) == \A i \in 1 .. n : home[lh[i]] = logd[i]

\* Blocks m to n of the transaction are in the log.
InLog(m, n) == \A i \in m .. n : logd[i] = cache[lh[i]]

Running == boot \in {"up", "panic"}

\* What is on the disk at each point of a commit, and of recovery.
DiskInv ==
  /\ NoRepeats(lh) /\ NoRepeats(hdr) /\ Len(hdr) <= LOGSIZE
  /\ tail <= Len(lh)
  /\ boot = "install" => lh = hdr /\ InHomes(tail)
  /\ \A p \in Procs : pc[p] = "wlog" => InLog(1, tail)
  /\ \A p \in Procs : pc[p] = "install" =>
       /\ hdr = lh
       /\ dirty = {lh[i] : i \in tail + 1 .. Len(lh)}
       /\ InHomes(tail) /\ InLog(tail + 1, Len(lh))
  /\ \A p \in Procs : pc[p] = "finish" => lh = <<>>
  /\ Running /\ (\A p \in Procs : pc[p] # "install") =>
       hdr = <<>> /\ dirty = Logged(lh)
  /\ Running /\ (\A p \in Procs : pc[p] \notin {"wlog", "install"}) => tail = 0

\* begin_op() has reserved log blocks for every call in progress.
RoomInv ==
  Running => Len(lh) + outstanding * MAXOPBLOCKS <= LOGSIZE + Cardinality(Used)

Inv ==
  TypeInv /\ CallInv /\ CommitInv /\ BootInv /\ CacheInv /\ DiskInv /\ RoomInv

-----------------------------------------------------------------------------
(* Counting                                                                *)

\* A set of at most n elements can be numbered from 1 to n.
LEMMA Numbering ==
  ASSUME NEW S, IsFiniteSet(S), NEW n \in Nat, Cardinality(S) <= n
  PROVE  \E f \in [S -> 1 .. n] : \A x, y \in S : f[x] = f[y] => x = y
<1> DEFINE m == Cardinality(S)
<1>1. m \in Nat
  BY FS_CardinalityType
<1> HIDE DEF m
<1>2. IsFiniteSet(1 .. m) /\ Cardinality(1 .. m) = m
  BY <1>1, FS_Interval
<1>3. PICK f : f \in Bijection(S, 1 .. m)
  BY <1>2, FS_SameCardinalityBij DEF m, ExistsBijection
<1>4. f \in [S -> 1 .. m] /\ \A x, y \in S : f[x] = f[y] => x = y
  BY <1>3 DEF Bijection, Injection, IsInjective
<1>5. \A i \in 1 .. m : i \in 1 .. n
  BY <1>1 DEF m
<1>6. f \in [S -> 1 .. n]
  BY <1>4, <1>5
<1> QED BY <1>4, <1>6

\* The sets of the invariant are finite.
LEMMA Finite ==
  ASSUME TypeInv
  PROVE  /\ IsFiniteSet(Active) /\ Cardinality(Active) \in Nat
         /\ IsFiniteSet(Used) /\ Cardinality(Used) \in Nat
         /\ \A p \in Procs : IsFiniteSet(wrote[p]) /\ Cardinality(wrote[p]) \in Nat
<1>1. IsFiniteSet(Active) /\ Cardinality(Active) \in Nat
  BY ConstantsAssumption, FS_Subset, FS_CardinalityType DEF Active
<1>2. IsFiniteSet(Procs \X Blocks)
  BY ConstantsAssumption, FS_Product
<1>3. Used \in SUBSET (Procs \X Blocks)
  BY DEF Used
<1>4. IsFiniteSet(Used) /\ Cardinality(Used) \in Nat
  BY <1>2, <1>3, FS_Subset, FS_CardinalityType
<1>5. \A p \in Procs : IsFiniteSet(wrote[p]) /\ Cardinality(wrote[p]) \in Nat
  BY ConstantsAssumption, FS_Subset, FS_CardinalityType DEF TypeInv
<1> QED BY <1>1, <1>4, <1>5

\* The calls in progress use no more than OpBlocks each.
LEMMA UsedBound ==
  ASSUME TypeInv, CallInv
  PROVE  Cardinality(Used) <= outstanding * OpBlocks
<1> DEFINE Num(p, f) == \A x, y \in wrote[p] : f[x] = f[y] => x = y
           f == [p \in Procs |-> CHOOSE f \in [wrote[p] -> 1 .. OpBlocks] : Num(p, f)]
           T == Active \X (1 .. OpBlocks)
           g == [x \in Used |-> <<x[1], f[x[1]][x[2]]>>]
<1>1. OpBlocks \in Nat
  BY ConstantsAssumption
<1>2. ASSUME NEW p \in Procs
      PROVE  f[p] \in [wrote[p] -> 1 .. OpBlocks] /\ Num(p, f[p])
  <2>1. \E h \in [wrote[p] -> 1 .. OpBlocks] : Num(p, h)
    BY <1>1, Finite, Numbering DEF CallInv
  <2> QED BY <2>1
<1> HIDE DEF f
<1>3. ASSUME NEW x \in Used
      PROVE  /\ x = <<x[1], x[2]>> /\ x[1] \in Active /\ x[1] \in Procs
             /\ x[2] \in wrote[x[1]]
  BY DEF Used, Active
<1>4. \A x \in Used : g[x] = <<x[1], f[x[1]][x[2]]>> /\ g[x] \in T
  BY <1>2, <1>3
<1>5. \A x, y \in Used : g[x] = g[y] => x = y
  <2> SUFFICES ASSUME NEW x \in Used, NEW y \in Used, g[x] = g[y] PROVE x = y
    OBVIOUS
  <2>1. x[1] = y[1] /\ f[x[1]][x[2]] = f[y[1]][y[2]]
    BY <1>4
  <2>2. x[2] = y[2]
    BY <1>2, <1>3, <2>1
  <2> QED BY <1>3, <2>1, <2>2
<1>6. g \in Injection(Used, T)
  <2>1. g \in [Used -> T]
    BY <1>4
  <2>2. IsInjective(g)
    BY <1>5 DEF IsInjective
  <2> QED BY <2>1, <2>2 DEF Injection
<1>7. IsFiniteSet(T) /\ Cardinality(T) = Cardinality(Active) * OpBlocks
  <2>1. IsFiniteSet(1 .. OpBlocks) /\ Cardinality(1 .. OpBlocks) = OpBlocks
    BY <1>1, FS_Interval
  <2> QED BY <2>1, Finite, FS_Product, Zenon
<1> HIDE DEF g, T
<1>8. Cardinality(Used) <= Cardinality(T)
  BY <1>6, <1>7, FS_Injection
<1> QED BY <1>7, <1>8 DEF CallInv

\* So the transaction fits into the log.
LEMMA RoomLen ==
  ASSUME TypeInv, CallInv, BootInv, DiskInv, RoomInv PROVE Len(lh) <= LOGSIZE
<1>1. CASE Running
  <2> DEFINE u == Cardinality(Used)
  <2>1. u \in Nat /\ u <= outstanding * OpBlocks
    BY Finite, UsedBound
  <2> HIDE DEF u
  <2>2. /\ outstanding \in Nat /\ OpBlocks \in Nat /\ MAXOPBLOCKS \in Nat
        /\ OpBlocks <= MAXOPBLOCKS /\ Len(lh) \in Nat /\ LOGSIZE \in Nat
    BY ConstantsAssumption DEF TypeInv
  <2>3. outstanding * OpBlocks <= outstanding * MAXOPBLOCKS
    BY <2>2
  <2>4. Len(lh) + outstanding * MAXOPBLOCKS <= LOGSIZE + u
    BY <1>1 DEF RoomInv, u
  <2> QED BY <2>1, <2>2, <2>3, <2>4
<1>2. CASE boot = "readhead"
  BY <1>2, ConstantsAssumption DEF BootInv
<1>3. CASE boot = "install"
  BY <1>3 DEF DiskInv
<1> QED BY <1>1, <1>2, <1>3 DEF TypeInv, Running

-----------------------------------------------------------------------------
(* Every step keeps the invariant                                          *)

\* The numbers in the header of the transaction.
LEMMA HeaderBlocks ==
  ASSUME Inv
  PROVE  /\ Len(lh) \in 0 .. LOGSIZE /\ DOMAIN lh = 1 .. Len(lh)
         /\ \A i \in 1 .. Len(lh) : lh[i] \in Blocks /\ i \in 1 .. LOGSIZE
         /\ Len(hdr) \in 0 .. LOGSIZE /\ DOMAIN hdr = 1 .. Len(hdr)
         /\ \A i \in 1 .. Len(hdr) : hdr[i] \in Blocks /\ i \in 1 .. LOGSIZE
<1>1. Len(lh) <= LOGSIZE /\ Len(hdr) <= LOGSIZE /\ LOGSIZE \in Nat
  BY RoomLen, ConstantsAssumption DEF Inv, DiskInv
<1>2. lh \in Seq(Blocks) /\ hdr \in Seq(Blocks)
  BY DEF Inv, TypeInv
<1>3. /\ Len(lh) \in Nat /\ DOMAIN lh = 1 .. Len(lh)
      /\ Len(hdr) \in Nat /\ DOMAIN hdr = 1 .. Len(hdr)
  BY <1>2
<1>4. /\ \A i \in 1 .. Len(lh) : lh[i] \in Blocks
      /\ \A i \in 1 .. Len(hdr) : hdr[i] \in Blocks
  BY <1>2
<1> QED BY <1>1, <1>3, <1>4

\* The block that InstallOne writes.
LEMMA NextBlock ==
  ASSUME Inv, tail < Len(lh)
  PROVE  /\ tail + 1 \in 1 .. Len(lh) /\ tail + 1 \in 1 .. LOGSIZE
         /\ lh[tail + 1] \in Blocks /\ logd[tail + 1] \in Vals
<1>1. tail + 1 \in 1 .. Len(lh)
  BY HeaderBlocks DEF Inv, TypeInv
<1> QED BY <1>1, HeaderBlocks DEF Inv, TypeInv

\* While a commit writes the log, every block of the transaction is cached.
LEMMA Cached ==
  ASSUME Inv, NEW p \in Procs, pc[p] = "wlog", NEW i \in 1 .. Len(lh)
  PROVE  lh[i] \in dirty /\ cache[lh[i]] \in Vals
<1>1. \A q \in Procs : pc[q] # "install"
  BY DEF Inv, CommitInv, InCommit
<1>2. Running
  BY DEF Inv, BootInv, TypeInv, Running
<1>3. dirty = Logged(lh)
  BY <1>1, <1>2 DEF Inv, DiskInv
<1>4. lh[i] \in dirty
  BY <1>3, HeaderBlocks DEF Logged
<1> QED BY <1>4 DEF Inv, TypeInv, CacheInv

\* Absorb() gives a sequence with b in it.
LEMMA AbsorbProperties ==
  ASSUME Inv, NEW b \in Blocks
  PROVE  /\ Absorb(b) \in Seq(Blocks) /\ NoRepeats(Absorb(b))
         /\ Logged(Absorb(b)) = Logged(lh) \union {b}
         /\ Len(Absorb(b)) = IF b \in Logged(lh) THEN Len(lh) ELSE Len(lh) + 1
<1>1. lh \in Seq(Blocks) /\ NoRepeats(lh)
  BY DEF Inv, TypeInv, DiskInv
<1>2. Len(lh) \in Nat /\ DOMAIN lh = 1 .. Len(lh)
  BY <1>1
<1>3. CASE b \in Logged(lh)
  BY <1>1, <1>3 DEF Absorb
<1>4. CASE b \notin Logged(lh)
  <2> DEFINE s == Append(lh, b)
             n == Len(lh)
  <2>1. /\ s \in Seq(Blocks) /\ Len(s) = n + 1
        /\ \A i \in 1 .. n : s[i] = lh[i]
        /\ s[n + 1] = b
    BY <1>1
  <2>2. DOMAIN s = 1 .. n + 1
    BY <2>1
  <2>3. Absorb(b) = s
    BY <1>4 DEF Absorb
  <2> HIDE DEF s
  <2>4. \A i \in 1 .. n : lh[i] # b
    BY <1>2, <1>4 DEF Logged
  <2>5. NoRepeats(s)
    <3> SUFFICES ASSUME NEW i \in 1 .. n + 1, NEW j \in 1 .. n + 1, s[i] = s[j]
                 PROVE  i = j
      BY <2>2 DEF NoRepeats
    <3>1. CASE i \in 1 .. n /\ j \in 1 .. n
      BY <1>1, <1>2, <2>1, <3>1 DEF NoRepeats
    <3>2. CASE i = n + 1 \/ j = n + 1
      BY <1>2, <2>1, <2>4, <3>2
    <3> QED BY <1>2, <3>1, <3>2
  <2>6. Logged(s) = Logged(lh) \union {b}
    <3>1. \A i \in 1 .. n : i \in 1 .. n + 1
      BY <1>2
    <3>2. n + 1 \in 1 .. n + 1 /\ \A i \in 1 .. n + 1 : i = n + 1 \/ i \in 1 .. n
      BY <1>2
    <3> QED BY <1>2, <2>1, <2>2, <3>1, <3>2 DEF Logged
  <2> QED BY <1>4, <2>1, <2>3, <2>5, <2>6
<1> QED BY <1>3, <1>4

\* The types.
LEMMA TypeStep == Inv /\ [Next]_vars => TypeInv'
<1> SUFFICES ASSUME Inv, [Next]_vars PROVE TypeInv'
  OBVIOUS
<1>a. TypeInv
  BY DEF Inv
<1>b. \A p \in Procs : pc[p] \in {"check", "append"} => buf[p] \in Blocks
  BY DEF Inv, CallInv, TypeInv
<1> USE DEF TypeInv, Labels, disk, Goto
<1>1. ASSUME NEW p \in Procs, Syscall(p) PROVE TypeInv'
  BY <1>a, <1>1, Zenon DEF Syscall
<1>2. ASSUME NEW p \in Procs, begin_op(p) PROVE TypeInv'
  BY <1>a, <1>2 DEF begin_op
<1>3. ASSUME NEW p \in Procs, begin_op_sleep(p) PROVE TypeInv'
  BY <1>a, <1>3, Zenon DEF begin_op_sleep
<1>4. ASSUME NEW p \in Procs, log_write_check(p) PROVE TypeInv'
  BY <1>a, <1>4, Zenon DEF log_write_check
<1>5. ASSUME NEW p \in Procs, log_write(p) PROVE TypeInv'
  <2>1. buf[p] \in Blocks
    BY <1>b, <1>5 DEF log_write
  <2>2. lh' \in Seq(Blocks)
    BY <1>5, <2>1, AbsorbProperties, Zenon DEF log_write
  <2> QED BY <1>a, <1>5, <2>1, <2>2, Zenon DEF log_write
<1>6. ASSUME NEW p \in Procs, end_op_commit(p) PROVE TypeInv'
  <2>1. outstanding' = 0
    BY <1>6 DEF end_op_commit
  <2> QED BY <1>a, <1>6, <2>1 DEF end_op_commit
<1>7. ASSUME NEW p \in Procs, end_op(p) PROVE TypeInv'
  <2>1. outstanding # 0
    <3>1. p \in Active
      BY <1>7 DEF end_op, Active, InOp
    <3> QED BY <1>a, <3>1, Finite, FS_EmptySet DEF Inv, CallInv
  <2>2. outstanding' \in Nat
    BY <1>a, <1>7, <2>1 DEF end_op
  <2> QED BY <1>a, <1>7, <2>2, Zenon DEF end_op, WakeGoto
<1>8. ASSUME NEW p \in Procs, write_log(p) PROVE TypeInv'
  <2>1. tail + 1 \in 1 .. Len(lh)
    BY <1>8, NextBlock DEF write_log
  <2>2. cache[lh[tail + 1]] \in Vals
    BY <1>8, <2>1, Cached DEF write_log
  <2>3. tail' \in Nat
    BY <1>a, <1>8 DEF write_log
  <2>4. logd' \in [1 .. LOGSIZE -> Vals]
    BY <1>a, <1>8, <2>2, Zenon DEF write_log
  <2> QED BY <1>a, <1>8, <2>3, <2>4, Zenon DEF write_log
<1>9. ASSUME NEW p \in Procs, write_head(p) \/ clear_head(p) PROVE TypeInv'
  <2>0. <<>> \in Seq(Blocks) /\ 0 \in Nat
    OBVIOUS
  <2>1. tail' \in Nat /\ hdr' \in Seq(Blocks) /\ lh' \in Seq(Blocks)
    BY <1>a, <1>9, <2>0, Zenon DEF write_head, clear_head
  <2> QED BY <1>a, <1>9, <2>1, Zenon DEF write_head, clear_head
<1>10. CASE InstallOne
  <2>1. lh[tail + 1] \in Blocks /\ logd[tail + 1] \in Vals
    BY <1>10, NextBlock DEF InstallOne
  <2>2. tail' \in Nat
    BY <1>a, <1>10 DEF InstallOne
  <2>3. home' \in [Blocks -> Vals] /\ cache' \in [Blocks -> Vals \union {NoBuf}]
    BY <1>a, <1>10, <2>1, Zenon DEF InstallOne
  <2> QED BY <1>a, <1>10, <2>2, <2>3, Zenon DEF InstallOne
<1>11. ASSUME NEW p \in Procs, commit_done(p) PROVE TypeInv'
  BY <1>a, <1>11, Zenon DEF commit_done, CommitWake, WakeGoto
<1>12. ASSUME NEW p \in Procs, NEW b \in Blocks, NEW v \in Vals, Modify(p, b, v)
       PROVE  TypeInv'
  BY <1>a, <1>12, Zenon DEF Modify
<1>13. ASSUME NEW b \in Blocks, Load(b) \/ Evict(b) PROVE TypeInv'
  BY <1>a, <1>13, Zenon DEF Load, Evict
<1>14. CASE Crash
  <2>1. <<>> \in Seq(Blocks) /\ 0 \in Nat
    OBVIOUS
  <2> QED BY <1>a, <1>14, <2>1, Zenon DEF Crash
<1>15. CASE read_head \/ recover_clear
  <2>0. <<>> \in Seq(Blocks) /\ 0 \in Nat
    OBVIOUS
  <2>1. tail' \in Nat /\ hdr' \in Seq(Blocks) /\ lh' \in Seq(Blocks)
    BY <1>a, <1>15, <2>0, Zenon DEF read_head, recover_clear
  <2> QED BY <1>a, <1>15, <2>1, Zenon DEF read_head, recover_clear
<1>16. CASE UNCHANGED vars
  BY <1>a, <1>16, Zenon DEF vars
<1> QED
  BY <1>1, <1>2, <1>3, <1>4, <1>5, <1>6, <1>7, <1>8, <1>9, <1>10, <1>11, <1>12,
     <1>13, <1>14, <1>15, <1>16, Zenon
  DEF Next, Op, EndOp, commit, install_trans, recover_from_log, recover_install

\* The processes in a call, those that hold buffers, and what they wrote.
LEMMA CallStep == Inv /\ [Next]_vars => CallInv'
<1> SUFFICES ASSUME Inv, [Next]_vars PROVE CallInv'
  OBVIOUS
<1>a. TypeInv /\ CallInv
  BY DEF Inv
<1>b. /\ IsFiniteSet(Active) /\ Cardinality(Active) \in Nat
      /\ \A p \in Procs : IsFiniteSet(wrote[p]) /\ Cardinality(wrote[p]) \in Nat
  BY <1>a, Finite
<1>c. OpBlocks \in Nat /\ IsFiniteSet({}) /\ Cardinality({}) = 0
  BY ConstantsAssumption, FS_EmptySet
\* A step that changes no label into or out of a system call, and no buffer.
<1>d. ASSUME UNCHANGED <<outstanding, buf, wrote>>,
             \A p \in Procs : \/ pc'[p] = pc[p]
                              \/ pc'[p] \notin InOp /\ pc[p] \notin InOp
      PROVE  CallInv'
  <2>1. Active' = Active
    BY <1>d, Zenon DEF Active
  <2> QED BY <1>a, <1>d, <2>1, Zenon DEF CallInv, InOp
<1>1. ASSUME NEW p \in Procs, Syscall(p) PROVE CallInv'
  <2>1. UNCHANGED <<outstanding, buf, wrote>>
    BY <1>1, Zenon DEF Syscall
  <2>2. \A q \in Procs : \/ pc'[q] = pc[q]
                         \/ pc'[q] \notin InOp /\ pc[q] \notin InOp
    BY <1>1, <1>a DEF Syscall, Goto, TypeInv, InOp
  <2> QED BY <1>d, <2>1, <2>2, Zenon
<1>2. ASSUME NEW p \in Procs, begin_op(p) PROVE CallInv'
  <2>1. Active' = Active \union {p} /\ p \notin Active
    BY <1>2, <1>a DEF begin_op, Goto, Active, InOp, TypeInv
  <2>2. outstanding' = Cardinality(Active')
    BY <1>2, <1>a, <1>b, <2>1, FS_AddElement, Zenon DEF begin_op, CallInv
  <2>3. UNCHANGED <<buf, wrote>> /\ buf[p] = NoBlock
    BY <1>2, <1>a, Zenon DEF begin_op, CallInv
  <2>4. \A q \in Procs : pc'[q] = IF q = p THEN "op" ELSE pc[q]
    BY <1>2, <1>a, Zenon DEF begin_op, Goto, TypeInv
  <2> QED BY <1>a, <2>2, <2>3, <2>4, Zenon DEF CallInv, InOp
<1>3. ASSUME NEW p \in Procs, begin_op_sleep(p) PROVE CallInv'
  <2>1. UNCHANGED <<outstanding, buf, wrote>>
    BY <1>3, Zenon DEF begin_op_sleep
  <2>2. \A q \in Procs : \/ pc'[q] = pc[q]
                         \/ pc'[q] \notin InOp /\ pc[q] \notin InOp
    BY <1>3, <1>a DEF begin_op_sleep, Goto, TypeInv, InOp
  <2> QED BY <1>d, <2>1, <2>2, Zenon
<1>4. ASSUME NEW p \in Procs, log_write_check(p) PROVE CallInv'
  <2>1. UNCHANGED <<outstanding, buf, wrote>>
    BY <1>4, Zenon DEF log_write_check
  <2>2. pc[p] = "check" /\ (pc' = pc \/ pc' = [pc EXCEPT ![p] = "append"])
    BY <1>4, Zenon DEF log_write_check, Goto
  <2>3. Active' = Active
    BY <1>a, <2>2 DEF Active, InOp, TypeInv
  <2>4. \A q \in Procs : pc'[q] = pc[q] \/ (q = p /\ pc'[q] = "append")
    BY <1>a, <2>2 DEF TypeInv
  <2> QED BY <1>a, <2>1, <2>2, <2>3, <2>4, Zenon DEF CallInv, InOp
<1>5. ASSUME NEW p \in Procs, log_write(p) PROVE CallInv'
  <2>1. UNCHANGED <<outstanding, wrote>> /\ pc[p] = "append"
    BY <1>5, Zenon DEF log_write
  <2>2. \A q \in Procs : /\ pc'[q] = IF q = p THEN "op" ELSE pc[q]
                         /\ buf'[q] = IF q = p THEN NoBlock ELSE buf[q]
    BY <1>5, <1>a, Zenon DEF log_write, Goto, TypeInv
  <2>3. Active' = Active
    BY <2>1, <2>2 DEF Active, InOp
  <2> QED BY <1>a, <2>1, <2>2, <2>3, Zenon DEF CallInv, InOp
<1>6. ASSUME NEW p \in Procs, EndOp(p) PROVE CallInv'
  <2>1. /\ pc[p] = "op" /\ outstanding' = outstanding - 1 /\ UNCHANGED buf
        /\ wrote' = [wrote EXCEPT ![p] = {}]
    BY <1>6 DEF EndOp, end_op_commit, end_op
  <2>2. committing <=> \E q \in Procs : pc[q] \in InCommit
    BY DEF Inv, CommitInv
  <2>3. ~committing
    BY <2>1, <2>2 DEF Inv, CommitInv, InOp
  <2>4. /\ pc'[p] \notin InOp \union {"check", "append"}
        /\ \A q \in Procs \ {p} : \/ pc'[q] = pc[q]
                                  \/ pc[q] = "asleep" /\ pc'[q] = "begin"
    BY <1>6, <1>a, <2>3 DEF EndOp, end_op_commit, end_op, Goto, WakeGoto, TypeInv,
        InOp
  <2>5. Active' = Active \ {p} /\ p \in Active
    BY <2>1, <2>4 DEF Active, InOp
  <2>6. outstanding' = Cardinality(Active')
    BY <1>a, <1>b, <2>1, <2>5, FS_RemoveElement, Zenon DEF CallInv
  <2>7. \A q \in Procs : wrote'[q] = IF q = p THEN {} ELSE wrote[q]
    BY <1>a, <2>1, Zenon DEF TypeInv
  <2>8. \A q \in Procs : Cardinality(wrote'[q]) <= OpBlocks
    BY <1>a, <1>c, <2>7 DEF CallInv
  <2>9. buf[p] = NoBlock
    BY <1>a, <2>1 DEF CallInv
  <2>10. \A q \in Procs : pc'[q] \notin InOp => wrote'[q] = {}
    BY <1>a, <2>4, <2>7 DEF CallInv, InOp
  <2>11. \A q \in Procs : buf'[q] # NoBlock <=> pc'[q] \in {"check", "append"}
    BY <1>a, <2>1, <2>4, <2>9 DEF CallInv
  <2>12. \A q \in Procs : buf'[q] # NoBlock => buf'[q] \in wrote'[q]
    BY <1>a, <2>1, <2>7, <2>9 DEF CallInv
  <2>13. \A q, r \in Procs : buf'[q] = buf'[r] /\ buf'[q] # NoBlock => q = r
    BY <1>a, <2>1 DEF CallInv
  <2> QED BY <2>6, <2>8, <2>10, <2>11, <2>12, <2>13, Zenon DEF CallInv
<1>7. ASSUME NEW p \in Procs, write_log(p) PROVE CallInv'
  <2>1. UNCHANGED <<outstanding, buf, wrote>>
    BY <1>7, Zenon DEF write_log
  <2>2. \A q \in Procs : \/ pc'[q] = pc[q]
                         \/ pc'[q] \notin InOp /\ pc[q] \notin InOp
    BY <1>7, <1>a, Zenon DEF write_log
  <2> QED BY <1>d, <2>1, <2>2, Zenon
<1>8. ASSUME NEW p \in Procs, write_head(p) \/ clear_head(p) PROVE CallInv'
  <2>1. UNCHANGED <<outstanding, buf, wrote>>
    BY <1>8, Zenon DEF write_head, clear_head
  <2>2. \A q \in Procs : \/ pc'[q] = pc[q]
                         \/ pc'[q] \notin InOp /\ pc[q] \notin InOp
    BY <1>8, <1>a DEF write_head, clear_head, Goto, TypeInv, InOp
  <2> QED BY <1>d, <2>1, <2>2, Zenon
<1>9. CASE InstallOne
  <2>1. UNCHANGED <<outstanding, buf, wrote>>
    BY <1>9, Zenon DEF InstallOne
  <2>2. \A q \in Procs : \/ pc'[q] = pc[q]
                         \/ pc'[q] \notin InOp /\ pc[q] \notin InOp
    BY <1>9, <1>a, Zenon DEF InstallOne
  <2> QED BY <1>d, <2>1, <2>2, Zenon
<1>10. ASSUME NEW p \in Procs, commit_done(p) PROVE CallInv'
  <2>1. UNCHANGED <<outstanding, buf, wrote>>
    BY <1>10, Zenon DEF commit_done
  <2>2. \A q \in Procs : \/ pc'[q] = pc[q]
                         \/ pc'[q] \notin InOp /\ pc[q] \notin InOp
    BY <1>10, <1>a DEF commit_done, CommitWake, WakeGoto, InOp, TypeInv
  <2> QED BY <1>d, <2>1, <2>2, Zenon
<1>11. ASSUME NEW p \in Procs, NEW b \in Blocks, NEW v \in Vals, Modify(p, b, v)
       PROVE  CallInv'
  <2>1. /\ pc[p] = "op" /\ ~Locked(b) /\ UNCHANGED outstanding
        /\ b \in wrote[p] \/ Cardinality(wrote[p]) < OpBlocks
    BY <1>11, Zenon DEF Modify
  <2>2. \A q \in Procs : /\ pc'[q] = IF q = p THEN "check" ELSE pc[q]
                         /\ buf'[q] = IF q = p THEN b ELSE buf[q]
                         /\ wrote'[q] = IF q = p THEN wrote[p] \union {b} ELSE wrote[q]
    BY <1>11, <1>a, Zenon DEF Modify, Goto, TypeInv
  <2>3. Active' = Active
    BY <2>1, <2>2 DEF Active, InOp
  <2>4. Cardinality(wrote[p] \union {b}) <= OpBlocks
    <3>1. CASE b \in wrote[p]
      <4>1. wrote[p] \union {b} = wrote[p]
        BY <3>1, Zenon
      <4> QED BY <1>a, <4>1, Zenon DEF CallInv
    <3>2. CASE b \notin wrote[p]
      <4>1. Cardinality(wrote[p] \union {b}) = Cardinality(wrote[p]) + 1
        BY <1>b, <3>2, FS_AddElement, Zenon
      <4>2. Cardinality(wrote[p]) < OpBlocks
        BY <2>1, <3>2, Zenon
      <4> QED BY <1>b, <1>c, <4>1, <4>2
    <3> QED BY <3>1, <3>2, Zenon
  <2>5. \A q \in Procs : Cardinality(wrote'[q]) <= OpBlocks
    BY <1>a, <2>2, <2>4, Zenon DEF CallInv
  <2>6. \A q, r \in Procs : buf'[q] = buf'[r] /\ buf'[q] # NoBlock => q = r
    <3>1. \A q \in Procs : buf[q] # b
      BY <2>1, Zenon DEF Locked
    <3> QED BY <1>a, <2>2, <3>1, Zenon DEF CallInv
  <2>7. b # NoBlock
    BY ConstantsAssumption
  <2> QED BY <1>a, <2>1, <2>2, <2>3, <2>5, <2>6, <2>7, Zenon DEF CallInv, InOp
<1>12. ASSUME NEW b \in Blocks, Load(b) \/ Evict(b) PROVE CallInv'
  <2>1. UNCHANGED <<outstanding, buf, wrote>>
    BY <1>12, Zenon DEF Load, Evict
  <2>2. \A q \in Procs : \/ pc'[q] = pc[q]
                         \/ pc'[q] \notin InOp /\ pc[q] \notin InOp
    BY <1>12, <1>a, Zenon DEF Load, Evict
  <2> QED BY <1>d, <2>1, <2>2, Zenon
<1>13. CASE Crash
  <2>1. Active' = {}
    BY <1>13 DEF Crash, Active, InOp
  <2>2. /\ outstanding' = 0
        /\ \A q \in Procs : pc'[q] = "idle" /\ buf'[q] = NoBlock /\ wrote'[q] = {}
    BY <1>13, Zenon DEF Crash
  <2>3. \A q \in Procs : Cardinality(wrote'[q]) <= OpBlocks
    BY <1>c, <2>2
  <2> QED BY <1>c, <2>1, <2>2, <2>3, Zenon DEF CallInv, InOp
<1>14. CASE read_head \/ recover_clear
  <2>1. UNCHANGED <<outstanding, buf, wrote>>
    BY <1>14, Zenon DEF read_head, recover_clear
  <2>2. \A q \in Procs : \/ pc'[q] = pc[q]
                         \/ pc'[q] \notin InOp /\ pc[q] \notin InOp
    BY <1>14, <1>a, Zenon DEF read_head, recover_clear
  <2> QED BY <1>d, <2>1, <2>2, Zenon
<1>15. CASE UNCHANGED vars
  <2>1. UNCHANGED <<outstanding, buf, wrote>>
    BY <1>15, Zenon DEF vars
  <2>2. \A q \in Procs : \/ pc'[q] = pc[q]
                         \/ pc'[q] \notin InOp /\ pc[q] \notin InOp
    BY <1>15, <1>a, Zenon DEF vars
  <2> QED BY <1>d, <2>1, <2>2, Zenon
<1> QED
  BY <1>1, <1>2, <1>3, <1>4, <1>5, <1>6, <1>7, <1>8, <1>9, <1>10, <1>11, <1>12,
     <1>13, <1>14, <1>15, Zenon
  DEF Next, Op, commit, install_trans, recover_from_log, recover_install

\* One process commits, alone.
LEMMA CommitStep == Inv /\ [Next]_vars => CommitInv'
<1> SUFFICES ASSUME Inv, [Next]_vars PROVE CommitInv'
  OBVIOUS
<1>a. TypeInv /\ CommitInv /\ CallInv
  BY DEF Inv
\* A step that nobody starts or ends a commit with, nor a call during one.
<1>b. ASSUME UNCHANGED committing,
             \A p \in Procs : /\ pc'[p] \in InCommit <=> pc[p] \in InCommit
                              /\ pc'[p] \in InOp => pc[p] \in InOp \/ ~committing
      PROVE  CommitInv'
  BY <1>a, <1>b, Zenon DEF CommitInv
<1>c. ASSUME UNCHANGED <<committing, pc>> PROVE CommitInv'
  BY <1>a, <1>c, Zenon DEF CommitInv
<1> USE DEF Goto, WakeGoto
<1>1. ASSUME NEW p \in Procs, Syscall(p) PROVE CommitInv'
  <2>1. \A q \in Procs : pc'[q] = pc[q] \/ (pc[q] = "idle" /\ pc'[q] = "begin")
    BY <1>1, <1>a DEF Syscall, TypeInv
  <2> QED BY <1>1, <1>b, <2>1 DEF Syscall, InCommit, InOp
<1>2. ASSUME NEW p \in Procs, begin_op(p) PROVE CommitInv'
  <2>1. \A q \in Procs : pc'[q] = pc[q] \/ (pc[q] = "begin" /\ pc'[q] = "op")
    BY <1>2, <1>a DEF begin_op, TypeInv
  <2> QED BY <1>2, <1>b, <2>1 DEF begin_op, MustWait, InCommit, InOp
<1>3. ASSUME NEW p \in Procs, begin_op_sleep(p) PROVE CommitInv'
  <2>1. \A q \in Procs : pc'[q] = pc[q] \/ (pc[q] = "begin" /\ pc'[q] = "asleep")
    BY <1>3, <1>a DEF begin_op_sleep, TypeInv
  <2> QED BY <1>3, <1>b, <2>1 DEF begin_op_sleep, InCommit, InOp
<1>4. ASSUME NEW p \in Procs, log_write_check(p) \/ log_write(p) PROVE CommitInv'
  <2>1. \A q \in Procs : pc'[q] = pc[q] \/ (pc[q] \in InOp /\ pc'[q] \in InOp)
    BY <1>4, <1>a DEF log_write_check, log_write, TypeInv, InOp
  <2> QED BY <1>4, <1>b, <2>1 DEF log_write_check, log_write, InCommit, InOp
<1>5. ASSUME NEW p \in Procs, end_op_commit(p) PROVE CommitInv'
  <2>1. /\ pc'[p] \in InCommit /\ committing' /\ ~committing
        /\ \A q \in Procs \ {p} : pc'[q] = pc[q]
    BY <1>5, <1>a DEF end_op_commit, TypeInv, InCommit
  <2>2. \A q \in Procs \ {p} : pc[q] \notin InOp
    <3> SUFFICES ASSUME NEW q \in Procs, q # p, pc[q] \in InOp PROVE FALSE
      BY Zenon
    <3>1. p \in Active /\ q \in Active
      BY <1>5 DEF end_op_commit, Active, InOp
    <3>2. Cardinality(Active) = 1 /\ IsFiniteSet(Active)
      BY <1>5, <1>a, Finite DEF end_op_commit, CallInv
    <3>3. PICK x : Active = {x}
      BY <3>2, FS_Singleton, Zenon
    <3> QED BY <3>1, <3>3
  <2>3. \A q \in Procs \ {p} : pc[q] \notin InCommit
    BY <1>a, <2>1, Zenon DEF CommitInv
  <2>4. pc'[p] \notin InOp
    BY <2>1 DEF InCommit, InOp
  <2> QED BY <2>1, <2>2, <2>3, <2>4, Zenon DEF CommitInv
<1>6. ASSUME NEW p \in Procs, end_op(p) PROVE CommitInv'
  <2>1. pc[p] = "op"
    BY <1>6 DEF end_op
  <2>2. \A q \in Procs : \/ pc'[q] = pc[q]
                         \/ pc'[q] \in {"idle", "begin"} /\ pc[q] \in {"op", "asleep"}
    BY <1>6, <2>1, <1>a DEF end_op, TypeInv
  <2> QED BY <1>6, <1>b, <2>2 DEF end_op, InCommit, InOp
<1>7. ASSUME NEW p \in Procs, write_log(p) PROVE CommitInv'
  BY <1>7, <1>c, Zenon DEF write_log
<1>8. ASSUME NEW p \in Procs, write_head(p) \/ clear_head(p) PROVE CommitInv'
  <2>1. \A q \in Procs : pc'[q] = pc[q] \/ (pc[q] \in InCommit /\ pc'[q] \in InCommit)
    BY <1>8, <1>a DEF write_head, clear_head, TypeInv, InCommit
  <2> QED BY <1>8, <1>b, <2>1 DEF write_head, clear_head, InCommit, InOp
<1>9. CASE InstallOne
  BY <1>9, <1>c, Zenon DEF InstallOne
<1>10. ASSUME NEW p \in Procs, commit_done(p) PROVE CommitInv'
  <2>1. pc[p] \in InCommit /\ ~committing'
    BY <1>10 DEF commit_done, InCommit
  <2>2. \A q \in Procs \ {p} : pc[q] \notin InCommit
    BY <1>a, <2>1, Zenon DEF CommitInv
  <2>3. \A q \in Procs : (pc'[q] = pc[q] /\ q # p) \/ pc'[q] \in {"idle", "begin"}
    BY <1>10 DEF commit_done, CommitWake
  <2>4. \A q \in Procs : pc'[q] \notin InCommit
    BY <2>2, <2>3 DEF InCommit
  <2> QED BY <2>1, <2>4, Zenon DEF CommitInv
<1>11. ASSUME NEW p \in Procs, NEW b \in Blocks, NEW v \in Vals, Modify(p, b, v)
       PROVE  CommitInv'
  <2>1. \A q \in Procs : pc'[q] = pc[q] \/ (pc[q] = "op" /\ pc'[q] = "check")
    BY <1>11, <1>a DEF Modify, TypeInv
  <2> QED BY <1>11, <1>b, <2>1 DEF Modify, InCommit, InOp
<1>12. ASSUME NEW b \in Blocks, Load(b) \/ Evict(b) PROVE CommitInv'
  BY <1>12, <1>c, Zenon DEF Load, Evict
<1>13. CASE Crash
  <2>1. ~committing' /\ \A q \in Procs : pc'[q] \notin InCommit
    BY <1>13 DEF Crash, InCommit
  <2> QED BY <2>1, Zenon DEF CommitInv
<1>14. CASE read_head \/ recover_clear
  BY <1>14, <1>c, Zenon DEF read_head, recover_clear
<1>15. CASE UNCHANGED vars
  BY <1>15, <1>c, Zenon DEF vars
<1> QED
  BY <1>1, <1>2, <1>3, <1>4, <1>5, <1>6, <1>7, <1>8, <1>9, <1>10, <1>11, <1>12,
     <1>13, <1>14, <1>15, Zenon
  DEF Next, Op, EndOp, commit, install_trans, recover_from_log, recover_install

\* Nothing runs before recovery is over.
LEMMA BootStep == Inv /\ [Next]_vars => BootInv'
<1> SUFFICES ASSUME Inv, [Next]_vars PROVE BootInv'
  OBVIOUS
<1>a. BootInv
  BY DEF Inv
<1>b. ASSUME Running' PROVE BootInv'
  BY <1>b DEF Running, BootInv
<1>1. ASSUME NEW p \in Procs, Syscall(p) \/ Op(p) \/ EndOp(p) \/ commit(p)
      PROVE  BootInv'
  <2>1. Running'
    BY <1>1 DEF Running, Syscall, Op, EndOp, commit, begin_op, begin_op_sleep,
       log_write_check, log_write, end_op_commit, end_op, write_log, write_head,
       install_trans, InstallOne, clear_head, commit_done
  <2> QED BY <1>b, <2>1, Zenon
<1>2. ASSUME NEW p \in Procs, NEW b \in Blocks, NEW v \in Vals, Modify(p, b, v)
      PROVE  BootInv'
  BY <1>2, <1>b, Zenon DEF Modify, Running
<1>3. ASSUME NEW b \in Blocks, Load(b) \/ Evict(b) PROVE BootInv'
  BY <1>3, <1>b, Zenon DEF Load, Evict, Running
<1>4. CASE Crash
  BY <1>4 DEF Crash, BootInv
<1>5. CASE read_head
  BY <1>5, <1>a DEF read_head, BootInv
<1>6. CASE recover_install
  BY <1>6, <1>a DEF recover_install, InstallOne, BootInv
<1>7. CASE recover_clear
  BY <1>7, <1>b DEF recover_clear, Running
<1>8. CASE UNCHANGED vars
  BY <1>8, <1>a, Zenon DEF vars, BootInv
<1> QED
  BY <1>1, <1>2, <1>3, <1>4, <1>5, <1>6, <1>7, <1>8, Zenon
  DEF Next, recover_from_log

\* The cache agrees with the disk, but for the blocks of the transaction.
LEMMA CacheStep == Inv /\ [Next]_vars => CacheInv'
<1> SUFFICES ASSUME Inv, [Next]_vars PROVE CacheInv'
  OBVIOUS
<1>a. TypeInv /\ CacheInv /\ CallInv
  BY DEF Inv
<1>b. ASSUME UNCHANGED <<cache, dirty, buf, home>> PROVE CacheInv'
  BY <1>a, <1>b, Zenon DEF CacheInv, Locked
<1>c. NoBuf \notin Vals /\ NoBlock \notin Blocks
  BY ConstantsAssumption
<1>1. ASSUME NEW p \in Procs,
             \/ Syscall(p) \/ begin_op(p) \/ begin_op_sleep(p)
             \/ log_write_check(p) \/ EndOp(p)
      PROVE  CacheInv'
  BY <1>1, <1>b, Zenon
  DEF Syscall, begin_op, begin_op_sleep, log_write_check, EndOp, end_op_commit,
      end_op, disk
<1>2. ASSUME NEW p \in Procs, log_write(p) PROVE CacheInv'
  <2>1. /\ UNCHANGED <<cache, home>> /\ dirty' = dirty \union {buf[p]}
        /\ pc[p] = "append"
    BY <1>2, Zenon DEF log_write, disk
  <2>2. \A q \in Procs : buf'[q] = IF q = p THEN NoBlock ELSE buf[q]
    BY <1>2, <1>a, Zenon DEF log_write, TypeInv
  <2>3. buf[p] # NoBlock
    BY <1>a, <2>1 DEF CallInv
  <2>4. buf[p] \in Blocks /\ Locked(buf[p])
    BY <1>a, <2>3, Zenon DEF TypeInv, Locked
  <2>5. \A b \in Blocks : /\ Locked(b)' => Locked(b)
                          /\ ~Locked(b)' /\ b # buf[p] => ~Locked(b)
    BY <1>c, <2>2, Zenon DEF Locked
  <2> QED BY <1>a, <2>1, <2>4, <2>5, Zenon DEF CacheInv
<1>3. ASSUME NEW p \in Procs, write_log(p) \/ write_head(p) \/ clear_head(p)
      PROVE  CacheInv'
  BY <1>3, <1>b, Zenon DEF write_log, write_head, clear_head
<1>4. ASSUME NEW p \in Procs, commit_done(p) PROVE CacheInv'
  BY <1>4, <1>b, Zenon DEF commit_done, disk
<1>5. CASE InstallOne
  <2> DEFINE c == lh[tail + 1]
             v == logd[tail + 1]
  <2>1. c \in Blocks /\ v \in Vals
    BY <1>5, NextBlock DEF InstallOne
  <2>2. /\ ~Locked(c) /\ dirty' = dirty \ {c} /\ UNCHANGED buf
        /\ home' = [home EXCEPT ![c] = v] /\ cache' = [cache EXCEPT ![c] = v]
    BY <1>5, Zenon DEF InstallOne
  <2> HIDE DEF c, v
  <2>3. \A b \in Blocks : /\ home'[b] = IF b = c THEN v ELSE home[b]
                          /\ cache'[b] = IF b = c THEN v ELSE cache[b]
    BY <1>a, <2>2, Zenon DEF TypeInv
  <2>4. \A b : Locked(b)' <=> Locked(b)
    BY <2>2, Zenon DEF Locked
  <2>5. dirty' \subseteq Blocks
    BY <1>a, <2>2 DEF TypeInv
  <2>6. v # NoBuf
    BY <1>c, <2>1
  <2> QED BY <1>a, <2>2, <2>3, <2>4, <2>5, <2>6, Zenon DEF CacheInv
<1>6. ASSUME NEW p \in Procs, NEW b \in Blocks, NEW v \in Vals, Modify(p, b, v)
      PROVE  CacheInv'
  <2>1. /\ UNCHANGED <<dirty, home>> /\ pc[p] = "op"
        /\ \A c \in Blocks : cache'[c] = IF c = b THEN v ELSE cache[c]
        /\ \A q \in Procs : buf'[q] = IF q = p THEN b ELSE buf[q]
    BY <1>6, <1>a, Zenon DEF Modify, TypeInv, disk
  <2>2. buf[p] = NoBlock
    BY <1>a, <2>1 DEF CallInv
  <2>3. /\ Locked(b)'
        /\ \A c \in Blocks \ {b} : Locked(c)' <=> Locked(c)
    BY <1>c, <2>1, <2>2, Zenon DEF Locked
  <2>4. dirty \subseteq Blocks /\ v # NoBuf
    BY <1>a, <1>c DEF TypeInv
  <2> QED BY <1>a, <2>1, <2>3, <2>4, Zenon DEF CacheInv
<1>7. ASSUME NEW b \in Blocks, Load(b) \/ Evict(b) PROVE CacheInv'
  <2>1. /\ UNCHANGED <<dirty, home, buf>>
        /\ \A c \in Blocks \ {b} : cache'[c] = cache[c]
        /\ \/ cache[b] = NoBuf /\ cache'[b] = home[b]
           \/ cache'[b] = NoBuf /\ ~Locked(b) /\ b \notin dirty
    BY <1>7, <1>a, Zenon DEF Load, Evict, Recyclable, TypeInv, disk
  <2>2. \A c : Locked(c)' <=> Locked(c)
    BY <2>1, Zenon DEF Locked
  <2>3. dirty \subseteq Blocks /\ home[b] # NoBuf
    BY <1>a, <1>c DEF TypeInv
  <2> QED BY <1>a, <2>1, <2>2, <2>3, Zenon DEF CacheInv
<1>8. CASE Crash
  <2>1. /\ dirty' = {} /\ \A q \in Procs : buf'[q] = NoBlock
        /\ \A b \in Blocks : cache'[b] = NoBuf
    BY <1>8, Zenon DEF Crash
  <2>2. \A b \in Blocks : ~Locked(b)'
    BY <1>c, <2>1, Zenon DEF Locked
  <2> QED BY <2>1, <2>2, Zenon DEF CacheInv
<1>9. CASE read_head \/ recover_clear
  BY <1>9, <1>b, Zenon DEF read_head, recover_clear, disk
<1>10. CASE UNCHANGED vars
  BY <1>10, <1>b, Zenon DEF vars, disk
<1> QED
  BY <1>1, <1>2, <1>3, <1>4, <1>5, <1>6, <1>7, <1>8, <1>9, <1>10, Zenon
  DEF Next, Op, commit, install_trans, recover_from_log, recover_install

\* The disk and the transaction.
LEMMA DiskStep == Inv /\ [Next]_vars => DiskInv'
<1> SUFFICES ASSUME Inv, [Next]_vars PROVE DiskInv'
  OBVIOUS
<1>a. TypeInv /\ CommitInv /\ BootInv /\ CacheInv /\ DiskInv
  BY DEF Inv
<1>b. /\ Len(lh) \in Nat /\ DOMAIN lh = 1 .. Len(lh) /\ Len(lh) <= LOGSIZE
      /\ Len(hdr) \in Nat /\ DOMAIN hdr = 1 .. Len(hdr)
      /\ tail \in Nat /\ LOGSIZE \in Nat
      /\ \A i \in 1 .. Len(lh) : lh[i] \in Blocks /\ i \in 1 .. LOGSIZE
  BY HeaderBlocks, ConstantsAssumption DEF Inv, TypeInv
<1>c. NoRepeats(<<>>) /\ Logged(<<>>) = {} /\ Len(<<>>) = 0
  BY DEF NoRepeats, Logged
\* A step that keeps the transaction and does not move the commit.
<1>d. ASSUME UNCHANGED <<disk, dirty, lh, tail>>,
             boot' = boot \/ (Running /\ Running'),
             \A q \in Procs : \/ pc'[q] = pc[q]
                              \/ /\ pc'[q] \notin InCommit
                                 /\ pc[q] \notin {"wlog", "install"},
             \/ \A q \in Procs : pc[q] \notin InCommit
             \/ \A c \in dirty : cache'[c] = cache[c]
      PROVE  DiskInv'
  <2>1. \A q \in Procs : pc'[q] \in InCommit => pc'[q] = pc[q]
    BY <1>d
  <2>2. \A q \in Procs : pc[q] \in {"wlog", "install"} => pc'[q] = pc[q]
    BY <1>d
  <2>3. Running' <=> Running
    BY <1>d DEF Running
  <2>4. boot' = "install" => lh' = hdr' /\ InHomes(tail)'
    BY <1>a, <1>d DEF DiskInv, InHomes, disk, Running
  <2>5. ASSUME NEW q \in Procs, pc'[q] = "wlog" PROVE InLog(1, tail)'
    <3>1. pc[q] = "wlog"
      BY <2>1, <2>5 DEF InCommit
    <3>2. InLog(1, tail) /\ \A c \in dirty : cache'[c] = cache[c]
      BY <1>a, <1>d, <3>1 DEF DiskInv, InCommit
    <3>3. \A i \in 1 .. tail : lh[i] \in dirty
      BY <1>a, <1>b, <3>1, Cached DEF DiskInv
    <3> QED BY <1>d, <3>2, <3>3 DEF InLog, disk
  <2>6. ASSUME NEW q \in Procs, pc'[q] = "install"
        PROVE  /\ hdr' = lh'
               /\ dirty' = {lh'[i] : i \in tail' + 1 .. Len(lh')}
               /\ InHomes(tail)' /\ InLog(tail + 1, Len(lh))'
    <3>1. pc[q] = "install"
      BY <2>1, <2>6 DEF InCommit
    <3>2. /\ hdr = lh
          /\ dirty = {lh[i] : i \in tail + 1 .. Len(lh)}
          /\ InHomes(tail) /\ InLog(tail + 1, Len(lh))
      BY <1>a, <3>1, Zenon DEF DiskInv
    <3>3. \A c \in dirty : cache'[c] = cache[c]
      BY <1>d, <3>1 DEF InCommit
    <3>4. \A i \in tail + 1 .. Len(lh) : lh[i] \in dirty
      BY <3>2
    <3> QED BY <1>d, <3>2, <3>3, <3>4 DEF InLog, InHomes, disk
  <2>7. \A q \in Procs : pc'[q] = "finish" => lh' = <<>>
    BY <1>a, <1>d, <2>1 DEF DiskInv, InCommit
  <2>8. Running' /\ (\A q \in Procs : pc'[q] # "install") =>
          hdr' = <<>> /\ dirty' = Logged(lh')
    BY <1>a, <1>d, <2>2, <2>3 DEF DiskInv, disk
  <2>9. Running' /\ (\A q \in Procs : pc'[q] \notin {"wlog", "install"}) => tail' = 0
    BY <1>a, <1>d, <2>2, <2>3 DEF DiskInv
  <2>10. /\ NoRepeats(lh)' /\ NoRepeats(hdr)' /\ Len(hdr') <= LOGSIZE
         /\ tail' <= Len(lh')
    BY <1>a, <1>d DEF DiskInv, disk, NoRepeats
  <2> QED BY <2>4, <2>5, <2>6, <2>7, <2>8, <2>9, <2>10, Zenon DEF DiskInv
<1>1. ASSUME NEW p \in Procs, Syscall(p) \/ begin_op(p) \/ begin_op_sleep(p)
      PROVE  DiskInv'
  <2>1. UNCHANGED <<disk, dirty, lh, tail, boot, cache>>
    BY <1>1, Zenon DEF Syscall, begin_op, begin_op_sleep
  <2>2. \A q \in Procs : \/ pc'[q] = pc[q]
                         \/ /\ pc'[q] \notin InCommit
                            /\ pc[q] \notin {"wlog", "install"}
    BY <1>1, <1>a DEF Syscall, begin_op, begin_op_sleep, Goto, TypeInv, InCommit
  <2> QED BY <1>d, <2>1, <2>2, Zenon
<1>2. ASSUME NEW p \in Procs, log_write_check(p) \/ end_op(p) PROVE DiskInv'
  <2>1. UNCHANGED <<disk, dirty, lh, tail, cache>> /\ Running /\ Running'
    BY <1>2 DEF log_write_check, end_op, Running
  <2>2. \A q \in Procs : \/ pc'[q] = pc[q]
                         \/ /\ pc'[q] \notin InCommit
                            /\ pc[q] \notin {"wlog", "install"}
    BY <1>2, <1>a DEF log_write_check, end_op, Goto, WakeGoto, TypeInv, InCommit
  <2> QED BY <1>d, <2>1, <2>2, Zenon
<1>3. ASSUME NEW p \in Procs, commit_done(p) PROVE DiskInv'
  <2>1. UNCHANGED <<disk, dirty, lh, tail, boot, cache>>
    BY <1>3, Zenon DEF commit_done
  <2>2. \A q \in Procs : \/ pc'[q] = pc[q]
                         \/ /\ pc'[q] \notin InCommit
                            /\ pc[q] \notin {"wlog", "install"}
    BY <1>3, <1>a DEF commit_done, CommitWake, WakeGoto, TypeInv, InCommit
  <2> QED BY <1>d, <2>1, <2>2, Zenon
<1>4. ASSUME NEW p \in Procs, NEW b \in Blocks, NEW v \in Vals, Modify(p, b, v)
      PROVE  DiskInv'
  <2>1. UNCHANGED <<disk, dirty, lh, tail, boot>>
    BY <1>4, Zenon DEF Modify
  <2>2. \A q \in Procs : \/ pc'[q] = pc[q]
                         \/ /\ pc'[q] \notin InCommit
                            /\ pc[q] \notin {"wlog", "install"}
    BY <1>4, <1>a DEF Modify, Goto, TypeInv, InCommit
  <2>3. \A q \in Procs : pc[q] \notin InCommit
    BY <1>4, <1>a DEF Modify, CommitInv, InOp
  <2> QED BY <1>d, <2>1, <2>2, <2>3, Zenon
<1>5. ASSUME NEW b \in Blocks, Load(b) \/ Evict(b) PROVE DiskInv'
  <2>1. UNCHANGED <<disk, dirty, lh, tail, boot, pc>>
    BY <1>5, Zenon DEF Load, Evict
  <2>2. b \notin dirty /\ \A c \in Blocks \ {b} : cache'[c] = cache[c]
    BY <1>5, <1>a, Zenon DEF Load, Evict, Recyclable, TypeInv, CacheInv
  <2>3. \A c \in dirty : cache'[c] = cache[c]
    BY <1>a, <2>2, Zenon DEF TypeInv
  <2> QED BY <1>d, <2>1, <2>3, Zenon
<1>6. ASSUME NEW p \in Procs, log_write(p) PROVE DiskInv'
  <2>1. /\ lh' = Absorb(buf[p]) /\ dirty' = dirty \union {buf[p]}
        /\ UNCHANGED <<hdr, tail, boot>> /\ boot = "up" /\ pc[p] = "append"
    BY <1>6, Zenon DEF log_write, disk
  <2>2. buf[p] \in Blocks
    BY <2>1 DEF Inv, CallInv, TypeInv
  <2>3. \A q \in Procs : pc[q] \notin InCommit
    BY <1>a, <2>1 DEF CommitInv, InOp
  <2>4. \A q \in Procs : pc'[q] \notin InCommit
    BY <1>6, <1>a, <2>3 DEF log_write, Goto, TypeInv, InCommit
  <2>5. hdr = <<>> /\ dirty = Logged(lh) /\ tail = 0
    BY <1>a, <2>1, <2>3 DEF DiskInv, Running, InCommit
  <2>6. /\ NoRepeats(lh') /\ Logged(lh') = Logged(lh) \union {buf[p]}
        /\ Len(lh') >= 0
    BY <1>b, <2>1, <2>2, AbsorbProperties
  <2>7. tail' <= Len(lh')
    BY <2>1, <2>5, <2>6
  <2> QED BY <1>a, <2>1, <2>4, <2>5, <2>6, <2>7 DEF DiskInv, InCommit, NoRepeats
<1>7. ASSUME NEW p \in Procs, end_op_commit(p) PROVE DiskInv'
  <2>1. /\ UNCHANGED <<disk, dirty, lh, tail, boot, cache>>
        /\ boot = "up"
        /\ pc[p] = "op"
    BY <1>7, Zenon DEF end_op_commit
  <2>2. \A q \in Procs : pc[q] \notin InCommit
    BY <1>a, <2>1 DEF CommitInv, InOp
  <2>3. \A q \in Procs : pc'[q] = IF q # p THEN pc[q]
                                  ELSE IF lh = <<>> THEN "finish" ELSE "wlog"
    BY <1>7, <1>a DEF end_op_commit, Goto, TypeInv
  <2>4. hdr = <<>> /\ dirty = Logged(lh) /\ tail = 0
    BY <1>a, <2>1, <2>2 DEF DiskInv, Running, InCommit
  <2>5. InLog(1, tail)'
    BY <2>1, <2>4 DEF InLog
  <2>6. \A q \in Procs : pc'[q] # "install" /\ (pc'[q] = "finish" => lh' = <<>>)
    BY <2>1, <2>2, <2>3 DEF InCommit
  <2> QED BY <1>a, <2>1, <2>4, <2>5, <2>6 DEF DiskInv, disk, NoRepeats
<1>8. ASSUME NEW p \in Procs, write_log(p) PROVE DiskInv'
  <2>1. /\ UNCHANGED <<home, hdr, cache, dirty, lh, pc, boot>> /\ boot = "up"
        /\ pc[p] = "wlog" /\ tail < Len(lh) /\ tail' = tail + 1
        /\ logd' = [logd EXCEPT ![tail + 1] = cache[lh[tail + 1]]]
    BY <1>8, Zenon DEF write_log
  <2>2. \A q \in Procs : pc[q] # "install"
    BY <1>a, <2>1 DEF CommitInv, InCommit
  <2>3. \A i \in 1 .. tail + 1 :
          logd'[i] = IF i = tail + 1 THEN cache[lh[tail + 1]] ELSE logd[i]
    BY <1>a, <1>b, <2>1 DEF TypeInv
  <2>4. \A i \in 1 .. tail : logd[i] = cache[lh[i]]
    BY <1>a, <2>1, Zenon DEF DiskInv, InLog
  <2>5. InLog(1, tail)'
    BY <1>b, <2>1, <2>3, <2>4 DEF InLog
  <2>6. tail' <= Len(lh') /\ hdr' = <<>> /\ dirty' = Logged(lh')
    BY <1>a, <1>b, <2>1, <2>2 DEF DiskInv, Running
  <2> QED BY <1>a, <2>1, <2>2, <2>5, <2>6 DEF DiskInv, NoRepeats
<1>9. ASSUME NEW p \in Procs, write_head(p) PROVE DiskInv'
  <2>1. /\ UNCHANGED <<home, logd, cache, dirty, lh, boot>> /\ boot = "up"
        /\ pc[p] = "wlog" /\ tail = Len(lh) /\ tail' = 0 /\ hdr' = lh
    BY <1>9, Zenon DEF write_head, LogWritten
  <2>2. \A q \in Procs \ {p} : pc[q] \notin InCommit
    BY <1>a, <2>1 DEF CommitInv, InCommit
  <2>3. \A q \in Procs : pc'[q] = IF q = p THEN "install" ELSE pc[q]
    BY <1>9, <1>a DEF write_head, Goto, TypeInv
  <2>4. dirty = Logged(lh)
    BY <1>a, <2>1, <2>2 DEF DiskInv, Running, InCommit
  <2>5. dirty' = {lh'[i] : i \in tail' + 1 .. Len(lh')}
    BY <1>b, <2>1, <2>4 DEF Logged
  <2>6. InHomes(tail)' /\ InLog(tail + 1, Len(lh))'
    <3>1. InLog(1, Len(lh)) /\ tail' + 1 = 1
      BY <1>a, <2>1 DEF DiskInv
    <3>2. InHomes(tail)'
      BY <2>1 DEF InHomes
    <3> QED BY <2>1, <3>1, <3>2, Zenon DEF InLog
  <2>7. /\ NoRepeats(lh)' /\ NoRepeats(hdr)' /\ Len(hdr') <= LOGSIZE
        /\ tail' <= Len(lh')
    BY <1>a, <1>b, <2>1 DEF DiskInv, NoRepeats
  <2> QED BY <2>1, <2>2, <2>3, <2>5, <2>6, <2>7 DEF DiskInv, InCommit
<1>10. ASSUME InstallOne,
              boot = "install" \/ (boot = "up" /\ \E p \in Procs : pc[p] = "install")
       PROVE  DiskInv'
  <2> DEFINE c == lh[tail + 1]
             v == logd[tail + 1]
  <2>1. /\ c \in Blocks /\ tail + 1 \in 1 .. Len(lh)
    BY <1>10, NextBlock DEF InstallOne
  <2>2. /\ UNCHANGED <<hdr, logd, lh, pc, boot>> /\ tail' = tail + 1
        /\ home' = [home EXCEPT ![c] = v] /\ cache' = [cache EXCEPT ![c] = v]
        /\ dirty' = dirty \ {c}
    BY <1>10, Zenon DEF InstallOne
  <2>3. \A i \in 1 .. Len(lh) : lh[i] = c <=> i = tail + 1
    BY <1>a, <1>b, <2>1 DEF DiskInv, NoRepeats
  <2> HIDE DEF c
  <2>4. \A b \in Blocks : /\ home'[b] = IF b = c THEN v ELSE home[b]
                          /\ cache'[b] = IF b = c THEN v ELSE cache[b]
    BY <1>a, <2>2, Zenon DEF TypeInv
  <2>5. InHomes(tail)
    BY <1>10, <1>a DEF DiskInv
  <2>6. InHomes(tail)'
    BY <1>b, <2>1, <2>2, <2>3, <2>4, <2>5 DEF InHomes
  <2>7. \A q \in Procs : pc[q] \notin {"wlog", "finish"}
    BY <1>10, <1>a DEF BootInv, CommitInv, InCommit
  <2>8. ASSUME NEW q \in Procs, pc[q] = "install"
        PROVE  /\ hdr' = lh'
               /\ dirty' = {lh'[i] : i \in tail' + 1 .. Len(lh')}
               /\ InLog(tail + 1, Len(lh))'
    <3>1. /\ hdr = lh /\ InLog(tail + 1, Len(lh))
          /\ dirty = {lh[i] : i \in tail + 1 .. Len(lh)}
      BY <1>a, <2>8, Zenon DEF DiskInv
    <3>2. InLog(tail + 1, Len(lh))'
      BY <1>b, <2>1, <2>2, <2>3, <2>4, <3>1 DEF InLog
    <3>3. /\ \A i \in tail + 2 .. Len(lh) : i \in tail + 1 .. Len(lh) /\ lh[i] # c
          /\ \A i \in tail + 1 .. Len(lh) : lh[i] = c \/ i \in tail + 2 .. Len(lh)
          /\ tail' + 1 = tail + 2
      BY <1>b, <2>2, <2>3
    <3>4. dirty \ {c} = {lh[i] : i \in tail + 2 .. Len(lh)}
      BY <3>1, <3>3, Zenon
    <3> QED BY <2>2, <3>1, <3>2, <3>3, <3>4
  <2>9. Running => \E q \in Procs : pc[q] = "install"
    BY <1>10 DEF Running
  <2>10. tail' <= Len(lh')
    BY <2>1, <2>2
  <2> QED BY <1>a, <2>2, <2>6, <2>7, <2>8, <2>9, <2>10 DEF DiskInv, NoRepeats,
      Running
<1>11. ASSUME NEW p \in Procs, clear_head(p) PROVE DiskInv'
  <2>1. /\ UNCHANGED <<dirty, boot>> /\ boot = "up" /\ pc[p] = "install"
        /\ tail = Len(lh) /\ lh' = <<>> /\ hdr' = <<>> /\ tail' = 0
    BY <1>11, Zenon DEF clear_head, Installed
  <2>2. \A q \in Procs \ {p} : pc[q] \notin InCommit
    BY <1>a, <2>1 DEF CommitInv, InCommit
  <2>3. \A q \in Procs : pc'[q] = IF q = p THEN "finish" ELSE pc[q]
    BY <1>11, <1>a DEF clear_head, Goto, TypeInv
  <2>4. dirty = {}
    <3>1. dirty = {lh[i] : i \in tail + 1 .. Len(lh)}
      BY <1>a, <2>1, Zenon DEF DiskInv
    <3>2. \A i : i \notin tail + 1 .. Len(lh)
      BY <1>b, <2>1
    <3> QED BY <3>1, <3>2, Zenon
  <2>5. \A q \in Procs : pc'[q] \notin {"wlog", "install"}
    BY <2>2, <2>3 DEF InCommit
  <2>6. /\ NoRepeats(lh)'
        /\ NoRepeats(hdr)'
        /\ Len(hdr') <= LOGSIZE
        /\ tail' <= Len(lh')
    BY <1>b, <1>c, <2>1 DEF NoRepeats
  <2> QED BY <1>c, <2>1, <2>4, <2>5, <2>6 DEF DiskInv
<1>12. CASE Crash
  <2>1. /\ UNCHANGED hdr /\ lh' = <<>> /\ tail' = 0 /\ boot' = "readhead"
        /\ \A q \in Procs : pc'[q] = "idle"
    BY <1>12, Zenon DEF Crash, disk
  <2>2. /\ NoRepeats(lh)'
        /\ NoRepeats(hdr)'
        /\ Len(hdr') <= LOGSIZE
        /\ tail' <= Len(lh')
    BY <1>a, <1>c, <2>1 DEF NoRepeats, DiskInv
  <2> QED BY <2>1, <2>2 DEF DiskInv, Running
<1>13. CASE read_head \/ recover_clear
  <2>1. UNCHANGED <<dirty, pc>> /\ dirty = {} /\ \A q \in Procs : pc[q] = "idle"
    BY <1>13, <1>a DEF read_head, recover_clear, BootInv
  <2>2. CASE read_head
    <3>1. lh' = hdr /\ hdr' = hdr /\ boot' = "install" /\ tail = 0 /\ tail' = 0
      BY <1>a, <2>2 DEF read_head, BootInv, disk
    <3>2. InHomes(tail)'
      BY <3>1 DEF InHomes
    <3>3. /\ NoRepeats(lh)' /\ NoRepeats(hdr)' /\ Len(hdr') <= LOGSIZE
          /\ tail' <= Len(lh')
      BY <1>a, <1>b, <3>1 DEF NoRepeats, DiskInv
    <3> QED BY <2>1, <3>1, <3>2, <3>3 DEF DiskInv, Running
  <2>3. CASE recover_clear
    <3>1. lh' = <<>> /\ hdr' = <<>> /\ tail' = 0 /\ boot' = "up"
      BY <2>3, Zenon DEF recover_clear
    <3>2. /\ NoRepeats(lh)' /\ NoRepeats(hdr)' /\ Len(hdr') <= LOGSIZE
          /\ tail' <= Len(lh')
      BY <1>b, <1>c, <3>1 DEF NoRepeats
    <3> QED BY <1>c, <2>1, <3>1, <3>2 DEF DiskInv
  <2> QED BY <1>13, <2>2, <2>3, Zenon
<1>14. CASE UNCHANGED vars
  BY <1>14, <1>d, Zenon DEF vars
<1>15. ASSUME NEW p \in Procs, install_trans(p) PROVE DiskInv'
  BY <1>10, <1>15, Zenon DEF install_trans
<1>16. CASE recover_install
  BY <1>10, <1>16, Zenon DEF recover_install
<1> QED
  BY <1>1, <1>2, <1>3, <1>4, <1>5, <1>6, <1>7, <1>8, <1>9, <1>11, <1>12, <1>13,
     <1>14, <1>15, <1>16, Zenon
  DEF Next, Op, EndOp, commit, recover_from_log

\* Nobody is in a call while somebody commits, nor before recovery is over.
LEMMA NoCalls ==
  ASSUME Inv, boot = "install" \/ \E p \in Procs : pc[p] \in InCommit
  PROVE  Active = {} /\ outstanding = 0
<1>1. \A p \in Procs : pc[p] \notin InOp
  BY DEF Inv, BootInv, CommitInv, InOp
<1>2. Active = {}
  BY <1>1 DEF Active
<1> QED BY <1>2, FS_EmptySet DEF Inv, CallInv

\* A call that ends gives back what it did not use of its MAXOPBLOCKS blocks.
LEMMA Release ==
  ASSUME TypeInv, NEW p \in Procs, NEW U, IsFiniteSet(U),
         \A x \in Used : x[1] = p \/ x \in U
  PROVE  Cardinality(Used) <= Cardinality(U) + Cardinality(wrote[p])
<1> DEFINE W == {p} \X wrote[p]
           S == U \union W
<1>1. IsFiniteSet(wrote[p]) /\ Cardinality(wrote[p]) \in Nat
  BY Finite
<1>2. IsFiniteSet({p}) /\ Cardinality({p}) = 1
  BY FS_Singleton, Zenon
<1>3. IsFiniteSet(W) /\ Cardinality(W) = 1 * Cardinality(wrote[p])
  BY <1>1, <1>2, FS_Product
<1>4. Used \subseteq S
  BY DEF Used
<1> HIDE DEF W
<1>5. /\ IsFiniteSet(S)
      /\ Cardinality(S) = Cardinality(U) + Cardinality(W) - Cardinality(U \cap W)
  BY <1>3, FS_Union
<1>6. IsFiniteSet(U \cap W)
  BY <1>3, FS_Intersection
<1>7. /\ Cardinality(U) \in Nat /\ Cardinality(W) \in Nat
      /\ Cardinality(U \cap W) \in Nat
  BY <1>3, <1>6, FS_CardinalityType
<1> HIDE DEF S
<1>8. Cardinality(Used) <= Cardinality(S) /\ Cardinality(Used) \in Nat
  BY <1>4, <1>5, FS_Subset, Finite
<1> QED BY <1>1, <1>3, <1>5, <1>7, <1>8

\* The reservation.
LEMMA RoomStep == Inv /\ [Next]_vars => RoomInv'
<1> SUFFICES ASSUME Inv, [Next]_vars, Running' PROVE RoomInv'
  BY DEF RoomInv
<1>a. TypeInv /\ CallInv /\ RoomInv
  BY DEF Inv
<1>b. /\ Len(lh) \in Nat /\ Len(lh) <= LOGSIZE
      /\ outstanding \in Nat /\ LOGSIZE \in Nat /\ MAXOPBLOCKS \in Nat
      /\ OpBlocks \in Nat /\ OpBlocks <= MAXOPBLOCKS
      /\ outstanding * MAXOPBLOCKS \in Nat
  BY <1>a, HeaderBlocks, ConstantsAssumption DEF TypeInv
<1>c. /\ IsFiniteSet(Used) /\ Cardinality(Used) \in Nat
      /\ IsFiniteSet(Used') /\ Cardinality(Used') \in Nat
  <2>1. Used' \in SUBSET (Procs \X Blocks)
    BY DEF Used
  <2>2. IsFiniteSet(Used')
    BY <2>1, ConstantsAssumption, FS_Product, FS_Subset, Zenon
  <2> QED BY <1>a, <2>2, Finite, FS_CardinalityType
\* A step that reserves nothing and gives nothing back.
<1>d. ASSUME Running, UNCHANGED <<lh, outstanding, wrote>>,
             \A q \in Procs : pc[q] \in InOp => pc'[q] \in InOp
      PROVE  RoomInv'
  <2>1. Used \subseteq Used'
    BY <1>d, Zenon DEF Used
  <2>2. Cardinality(Used) <= Cardinality(Used')
    BY <1>c, <2>1, FS_Subset
  <2>3. Len(lh) + outstanding * MAXOPBLOCKS <= LOGSIZE + Cardinality(Used)
    BY <1>a, <1>d DEF RoomInv
  <2>4. Len(lh) + outstanding * MAXOPBLOCKS <= LOGSIZE + Cardinality(Used')
    BY <1>b, <1>c, <2>2, <2>3
  <2> QED BY <1>d, <2>4, Zenon DEF RoomInv
<1>1. ASSUME NEW p \in Procs,
             Syscall(p) \/ begin_op_sleep(p) \/ log_write_check(p)
      PROVE  RoomInv'
  <2>1. UNCHANGED <<lh, outstanding, wrote>> /\ Running
    BY <1>1 DEF Syscall, begin_op_sleep, log_write_check, Running
  <2>2. \A q \in Procs : pc[q] \in InOp => pc'[q] \in InOp
    BY <1>1, <1>a DEF Syscall, begin_op_sleep, log_write_check, Goto, InOp, TypeInv
  <2> QED BY <1>d, <2>1, <2>2, Zenon
<1>2. ASSUME NEW p \in Procs, begin_op(p) PROVE RoomInv'
  <2>1. lh' = lh /\ outstanding' = outstanding + 1 /\ ~MustWait
    BY <1>2 DEF begin_op
  <2>2. (outstanding + 1) * MAXOPBLOCKS \in Nat
    BY <1>b
  <2>3. Len(lh) + (outstanding + 1) * MAXOPBLOCKS <= LOGSIZE
    BY <1>b, <2>1, <2>2 DEF MustWait
  <2>4. Len(lh) + (outstanding + 1) * MAXOPBLOCKS <= LOGSIZE + Cardinality(Used')
    BY <1>b, <1>c, <2>2, <2>3
  <2> QED BY <2>1, <2>4 DEF RoomInv
<1>3. ASSUME NEW p \in Procs, log_write(p) PROVE RoomInv'
  <2> DEFINE b == buf[p]
  <2>1. /\ lh' = Absorb(b) /\ UNCHANGED <<outstanding, wrote>> /\ Running
        /\ pc[p] = "append"
    BY <1>3 DEF log_write, Running
  <2>2. b \in Blocks /\ b \in wrote[p]
    BY <1>a, <2>1 DEF CallInv, TypeInv
  <2> HIDE DEF b
  <2>3. \A q \in Procs : pc'[q] \in InOp <=> pc[q] \in InOp
    BY <1>3, <1>a, <2>1 DEF log_write, Goto, InOp, TypeInv
  <2>4. /\ Logged(lh') = Logged(lh) \union {b}
        /\ Len(lh') = IF b \in Logged(lh) THEN Len(lh) ELSE Len(lh) + 1
    BY <2>1, <2>2, AbsorbProperties
  <2>5. CASE b \in Logged(lh)
    <3>1. lh' = lh
      BY <2>1, <2>5 DEF Absorb
    <3> QED BY <1>d, <2>1, <2>3, <3>1, Zenon
  <2>6. CASE b \notin Logged(lh)
    <3> DEFINE x == <<p, b>>
    <3>1. x \notin Used /\ x \in Used'
      BY <2>1, <2>2, <2>3, <2>4, <2>6 DEF Used, InOp
    <3>2. Used \subseteq Used'
      BY <2>1, <2>3, <2>4, Zenon DEF Used
    <3> HIDE DEF x
    <3>3. /\ IsFiniteSet(Used \union {x})
          /\ Cardinality(Used \union {x}) = Cardinality(Used) + 1
      BY <1>c, <3>1, FS_AddElement
    <3>4. Cardinality(Used \union {x}) <= Cardinality(Used')
      BY <1>c, <3>1, <3>2, FS_Subset
    <3>5. Len(lh) + outstanding * MAXOPBLOCKS <= LOGSIZE + Cardinality(Used)
      BY <1>a, <2>1 DEF RoomInv
    <3>6. Len(lh') + outstanding * MAXOPBLOCKS <= LOGSIZE + Cardinality(Used')
      BY <1>b, <1>c, <2>4, <2>6, <3>3, <3>4, <3>5
    <3> QED BY <2>1, <3>6, Zenon DEF RoomInv
  <2> QED BY <2>5, <2>6, Zenon
<1>4. ASSUME NEW p \in Procs, end_op_commit(p) PROVE RoomInv'
  <2>1. lh' = lh /\ outstanding' = 0
    BY <1>4 DEF end_op_commit
  <2> QED BY <1>b, <1>c, <2>1 DEF RoomInv
<1>5. ASSUME NEW p \in Procs, end_op(p) PROVE RoomInv'
  <2>1. lh' = lh /\ outstanding' = outstanding - 1 /\ pc[p] = "op" /\ Running
    BY <1>5 DEF end_op, Running
  <2>2. \A q \in Procs \ {p} : /\ wrote'[q] = wrote[q]
                               /\ pc[q] \in InOp => pc'[q] \in InOp
    BY <1>5, <1>a DEF end_op, WakeGoto, TypeInv, InOp
  <2>3. \A x \in Used : x[1] = p \/ x \in Used'
    BY <2>1, <2>2, Zenon DEF Used
  <2>4. Cardinality(Used) <= Cardinality(Used') + Cardinality(wrote[p])
    BY <1>a, <1>c, <2>3, Release
  <2>5. Cardinality(wrote[p]) <= MAXOPBLOCKS /\ Cardinality(wrote[p]) \in Nat
    BY <1>a, <1>b, Finite DEF CallInv
  <2>6. Len(lh) + outstanding * MAXOPBLOCKS <= LOGSIZE + Cardinality(Used)
    BY <1>a, <2>1 DEF RoomInv
  <2>7. (outstanding - 1) * MAXOPBLOCKS = outstanding * MAXOPBLOCKS - MAXOPBLOCKS
    BY <1>b
  <2>8. Len(lh) + (outstanding - 1) * MAXOPBLOCKS <= LOGSIZE + Cardinality(Used')
    BY <1>b, <1>c, <2>4, <2>5, <2>6, <2>7
  <2> QED BY <2>1, <2>8 DEF RoomInv
<1>6. ASSUME NEW p \in Procs,
             write_log(p) \/ write_head(p) \/ install_trans(p) \/ commit_done(p)
      PROVE  RoomInv'
  <2>1. UNCHANGED <<lh, outstanding, wrote>> /\ Running
    BY <1>6
    DEF write_log, write_head, install_trans, InstallOne, commit_done, Running
  <2>2. \A q \in Procs : pc[q] \notin InOp
    BY <1>6, Zenon DEF write_log, write_head, install_trans, commit_done, Inv, CommitInv,
       InCommit
  <2> QED BY <1>d, <2>1, <2>2, Zenon
<1>7. ASSUME NEW p \in Procs, clear_head(p) PROVE RoomInv'
  <2>1. pc[p] \in InCommit /\ lh' = <<>> /\ outstanding' = outstanding
    BY <1>7 DEF clear_head, InCommit
  <2>2. outstanding' = 0
    BY <2>1, NoCalls
  <2> QED BY <1>b, <1>c, <2>1, <2>2 DEF RoomInv
<1>8. ASSUME NEW p \in Procs, NEW b \in Blocks, NEW v \in Vals, Modify(p, b, v)
      PROVE  RoomInv'
  <2>1. UNCHANGED <<lh, outstanding>> /\ Running
    BY <1>8 DEF Modify, Running
  <2>2. \A q \in Procs : /\ wrote[q] \subseteq wrote'[q]
                         /\ pc[q] \in InOp => pc'[q] \in InOp
    BY <1>8, <1>a DEF Modify, Goto, TypeInv, InOp
  <2>3. Used \subseteq Used'
    BY <2>1, <2>2, Zenon DEF Used
  <2>4. Cardinality(Used) <= Cardinality(Used')
    BY <1>c, <2>3, FS_Subset
  <2>5. Len(lh) + outstanding * MAXOPBLOCKS <= LOGSIZE + Cardinality(Used)
    BY <1>a, <2>1 DEF RoomInv
  <2>6. Len(lh) + outstanding * MAXOPBLOCKS <= LOGSIZE + Cardinality(Used')
    BY <1>b, <1>c, <2>4, <2>5
  <2> QED BY <2>1, <2>6, Zenon DEF RoomInv
<1>9. ASSUME NEW b \in Blocks, Load(b) \/ Evict(b) PROVE RoomInv'
  BY <1>9, <1>d DEF Load, Evict, Running
<1>10. CASE Crash \/ read_head \/ recover_install
  BY <1>10 DEF Crash, read_head, recover_install, InstallOne, Running
<1>11. CASE recover_clear
  <2>1. boot = "install" /\ lh' = <<>> /\ outstanding' = outstanding
    BY <1>11 DEF recover_clear
  <2>2. outstanding' = 0
    BY <2>1, NoCalls
  <2> QED BY <1>b, <1>c, <2>1, <2>2 DEF RoomInv
<1>12. CASE UNCHANGED vars
  <2>1. UNCHANGED <<lh, outstanding, wrote, pc, boot>>
    BY <1>12, Zenon DEF vars
  <2> QED BY <1>d, <2>1, Zenon DEF Running
<1> QED
  BY <1>1, <1>2, <1>3, <1>4, <1>5, <1>6, <1>7, <1>8, <1>9, <1>10, <1>11, <1>12,
     Zenon
  DEF Next, Op, EndOp, commit, recover_from_log

\* The invariant holds when the machine boots.
LEMMA InitInv == Init => Inv
<1> SUFFICES ASSUME Init PROVE Inv
  OBVIOUS
<1>a. /\ \A p \in Procs : pc[p] = "idle" /\ buf[p] = NoBlock /\ wrote[p] = {}
      /\ hdr = <<>> /\ lh = <<>> /\ dirty = {} /\ outstanding = 0 /\ tail = 0
      /\ committing = FALSE /\ boot = "readhead"
      /\ \A b \in Blocks : cache[b] = NoBuf
  BY Zenon DEF Init
<1>b. /\ IsFiniteSet({}) /\ Cardinality({}) = 0 /\ OpBlocks \in Nat
      /\ LOGSIZE \in Nat /\ NoBlock \notin Blocks
  BY FS_EmptySet, ConstantsAssumption
<1>1. TypeInv
  <2>1. <<>> \in Seq(Blocks) /\ 0 \in Nat
    OBVIOUS
  <2>2. PICK v \in Vals : /\ home = [b \in Blocks |-> v]
                          /\ logd = [i \in 1 .. LOGSIZE |-> v]
    BY Zenon DEF Init
  <2> QED BY <1>a, <2>1, <2>2, Zenon DEF Init, TypeInv, Labels
<1>2. CallInv
  <2>1. Active = {}
    BY <1>a DEF Active, InOp
  <2>2. \A p \in Procs : Cardinality(wrote[p]) <= OpBlocks
    <3>1. \A p \in Procs : Cardinality(wrote[p]) = 0
      BY <1>a, <1>b, Zenon
    <3> QED BY <1>b, <3>1
  <2> QED BY <1>a, <1>b, <2>1, <2>2 DEF CallInv, InOp
<1>3. CommitInv
  BY <1>a DEF CommitInv, InCommit
<1>4. BootInv
  BY <1>a DEF BootInv
<1>5. CacheInv
  BY <1>a, <1>b DEF CacheInv, Locked
<1>6. DiskInv
  <2>1. NoRepeats(<<>>) /\ Len(<<>>) = 0
    BY DEF NoRepeats
  <2> QED BY <1>a, <1>b, <2>1 DEF DiskInv, Running
<1>7. RoomInv
  BY <1>a DEF RoomInv, Running
<1> QED BY <1>1, <1>2, <1>3, <1>4, <1>5, <1>6, <1>7, Zenon DEF Inv

\* The invariant of log.c.
LEMMA Invariance == Spec => []Inv
<1>1. Inv /\ [Next]_vars => Inv'
  BY TypeStep, CallStep, CommitStep, BootStep, CacheStep, DiskStep, RoomStep, Zenon
  DEF Inv
<1> QED BY <1>1, InitInv, PTL DEF Spec

-----------------------------------------------------------------------------
(* The log is an atomic file system                                        *)

\* Recovered(), with the disk as an argument.
RecoveredFrom(h, d, m, b) ==
  IF b \in Logged(h) THEN d[CHOOSE i \in DOMAIN h : h[i] = b] ELSE m[b]

\* Recovery gives a block that the header names its copy in the log.
LEMMA RecoveredBlock ==
  ASSUME NEW h, NEW d, NEW m, NoRepeats(h), NEW i \in DOMAIN h
  PROVE  RecoveredFrom(h, d, m, h[i]) = d[i]
<1> DEFINE j == CHOOSE k \in DOMAIN h : h[k] = h[i]
<1>1. j \in DOMAIN h /\ h[j] = h[i]
  BY Zenon
<1>2. j = i
  BY <1>1, Zenon DEF NoRepeats
<1>3. h[i] \in Logged(h)
  BY Zenon DEF Logged
<1> QED BY <1>2, <1>3, Zenon DEF RecoveredFrom

\* Every step of log.c is a step of AtomicFs or changes nothing that it shows.
LEMMA AtomicStep ==
  ASSUME Inv, [Next]_vars
  PROVE  [Abs!Next]_(Abs!vars)
<1>a. TypeInv /\ CallInv /\ CommitInv /\ BootInv /\ CacheInv /\ DiskInv
  BY DEF Inv
<1>b. /\ \A b : Recovered(b) = RecoveredFrom(hdr, logd, home, b)
      /\ \A b : Recovered(b)' = RecoveredFrom(hdr', logd', home', b)
  BY Zenon DEF Recovered, RecoveredFrom
<1>c. /\ NoRepeats(lh) /\ NoRepeats(hdr) /\ NoRepeats(<<>>) /\ Logged(<<>>) = {}
      /\ DOMAIN lh = 1 .. Len(lh) /\ Len(lh) \in Nat /\ tail \in Nat
      /\ \A i \in 1 .. Len(lh) : lh[i] \in Blocks
  BY <1>a, HeaderBlocks DEF DiskInv, NoRepeats, Logged, TypeInv
<1>d. /\ hdr = <<>> => \A b : Recovered(b) = home[b]
      /\ hdr' = <<>> => \A b : Recovered(b)' = home'[b]
  BY <1>b, <1>c, Zenon DEF RecoveredFrom
<1>e. NoBuf \notin Vals /\ NoBlock \notin Blocks
  BY ConstantsAssumption
<1>f. /\ Running => \A b \in Blocks :
           Current(b) = IF cache[b] = NoBuf THEN home[b] ELSE cache[b]
      /\ Running' => \A b \in Blocks :
           Current(b)' = IF cache'[b] = NoBuf THEN home'[b] ELSE cache'[b]
  BY DEF Running, Current
\* What the steps of AtomicFs see.
<1>g. ASSUME Active' = Active,
             \A b \in Blocks : Current(b)' = Current(b) /\ Recovered(b)' = Recovered(b)
      PROVE  UNCHANGED Abs!vars
  BY <1>g, Zenon DEF Abs!vars, Active
\* A step that changes neither the disk nor the cache.
<1>h. ASSUME UNCHANGED <<disk, cache>>, Running, Running'
      PROVE  \A b \in Blocks : Current(b)' = Current(b) /\ Recovered(b)' = Recovered(b)
  BY <1>b, <1>f, <1>h, Zenon DEF disk
<1>1. ASSUME NEW p \in Procs,
             \/ Syscall(p) \/ begin_op_sleep(p) \/ log_write_check(p) \/ log_write(p)
             \/ commit_done(p)
      PROVE  UNCHANGED Abs!vars
  <2>1. UNCHANGED <<disk, cache>> /\ Running /\ Running'
    BY <1>1 DEF Syscall, begin_op_sleep, log_write_check, log_write, commit_done,
       Running
  <2>2. \A q \in Procs : pc'[q] \in InOp <=> pc[q] \in InOp
    BY <1>1, <1>a DEF Syscall, begin_op_sleep, log_write_check, log_write,
       commit_done, CommitWake, WakeGoto, Goto, TypeInv, InOp
  <2>3. Active' = Active
    BY <2>2, Zenon DEF Active
  <2> QED BY <1>g, <1>h, <2>1, <2>3, Zenon
<1>2. ASSUME NEW p \in Procs, begin_op(p) PROVE Abs!Begin(p)
  <2>1. UNCHANGED <<disk, cache>> /\ Running /\ Running'
    BY <1>2 DEF begin_op, Running
  <2>2. Active' = Active \union {p} /\ p \notin Active
    BY <1>2, <1>a DEF begin_op, Goto, Active, InOp, TypeInv
  <2> QED BY <1>h, <2>1, <2>2, Zenon DEF Abs!Begin, Active
<1>3. ASSUME NEW p \in Procs, EndOp(p) PROVE Abs!End(p)
  <2>1. UNCHANGED <<disk, cache>> /\ Running /\ Running' /\ pc[p] = "op"
    BY <1>3 DEF EndOp, end_op_commit, end_op, Running
  <2>2. ~committing
    BY <1>a, <2>1 DEF CommitInv, InOp
  <2>3. \A q \in Procs : pc'[q] \in InOp <=> q # p /\ pc[q] \in InOp
    BY <1>3, <1>a, <2>2 DEF EndOp, end_op_commit, end_op, Goto, WakeGoto, TypeInv,
        InOp
  <2>4. Active' = Active \ {p} /\ p \in Active
    BY <2>1, <2>3 DEF Active, InOp
  <2> QED BY <1>h, <2>1, <2>4, Zenon DEF Abs!End, Active
<1>4. ASSUME NEW p \in Procs, NEW b \in Blocks, NEW v \in Vals, Modify(p, b, v)
      PROVE  Abs!Write(p, b, v)
  <2>1. /\ UNCHANGED disk /\ Running /\ Running' /\ pc[p] = "op"
        /\ cache' = [cache EXCEPT ![b] = v]
    BY <1>4, Zenon DEF Modify, Running
  <2>2. \A q \in Procs : pc'[q] \in InOp <=> pc[q] \in InOp
    BY <1>4, <1>a DEF Modify, Goto, TypeInv, InOp
  <2>3. Active' = Active /\ p \in Active
    BY <2>1, <2>2 DEF Active, InOp
  <2>4. \A c \in Blocks : cache'[c] = IF c = b THEN v ELSE cache[c]
    BY <1>a, <2>1, Zenon DEF TypeInv
  <2>5. \A c \in Blocks : Current(c)' = IF c = b THEN v ELSE Current(c)
    BY <1>e, <1>f, <2>1, <2>4 DEF disk
  <2>6. \A c \in Blocks : Recovered(c)' = Recovered(c)
    BY <1>b, <2>1, Zenon DEF disk
  <2> QED BY <2>3, <2>5, <2>6, Zenon DEF Abs!Write, Active
<1>5. ASSUME NEW p \in Procs, write_log(p) PROVE UNCHANGED Abs!vars
  <2>1. /\ UNCHANGED <<home, hdr, cache, pc>> /\ Running /\ Running'
        /\ pc[p] = "wlog"
    BY <1>5 DEF write_log, Running
  <2>2. \A q \in Procs : pc[q] # "install"
    BY <1>a, <2>1 DEF CommitInv, InCommit
  <2>3. hdr = <<>>
    BY <1>a, <2>1, <2>2, Zenon DEF DiskInv
  <2>4. Active' = Active
    BY <2>1, Zenon DEF Active
  <2> QED BY <1>d, <1>f, <1>g, <2>1, <2>3, <2>4, Zenon
<1>6. ASSUME NEW p \in Procs, write_head(p) PROVE Abs!Commit
  <2>1. /\ UNCHANGED <<home, logd, cache>> /\ Running /\ Running'
        /\ pc[p] = "wlog" /\ tail = Len(lh) /\ hdr' = lh
    BY <1>6 DEF write_head, Running, LogWritten
  <2>2. pc[p] \in InCommit
    BY <2>1 DEF InCommit
  <2>3. Active = {}
    BY <2>2, NoCalls, Zenon
  <2>4. \A q \in Procs : pc'[q] \notin InOp
    BY <1>6, <1>a, <2>3 DEF write_head, Goto, TypeInv, InOp, Active
  <2>5. Active' = {}
    BY <2>4, Zenon DEF Active
  <2>6. dirty = Logged(lh) /\ \A i \in 1 .. Len(lh) : logd[i] = cache[lh[i]]
    <3>1. \A q \in Procs : pc[q] # "install"
      BY <1>a, <2>1 DEF CommitInv, InCommit
    <3> QED BY <1>a, <2>1, <3>1, Zenon DEF DiskInv, InLog
  <2>7. \A b \in Blocks : ~Locked(b)
    <3>1. \A q \in Procs : buf[q] = NoBlock
      BY <1>a, <2>3 DEF CallInv, Active, InOp
    <3> QED BY <1>e, <3>1, Zenon DEF Locked
  <2>8. \A b \in Blocks : Recovered(b)' = Current(b)
    <3> SUFFICES ASSUME NEW b \in Blocks PROVE Recovered(b)' = Current(b)
      OBVIOUS
    <3>1. CASE b \in Logged(lh)
      <4>1. PICK i \in 1 .. Len(lh) : b = lh[i]
        BY <1>c, <3>1, Zenon DEF Logged
      <4>2. Recovered(b)' = logd[i]
        <5>1. RecoveredFrom(lh, logd', home', lh[i]) = logd'[i]
          BY <1>c, RecoveredBlock
        <5> QED BY <1>b, <2>1, <4>1, <5>1, Zenon
      <4>3. cache[b] # NoBuf
        BY <1>a, <2>6, <3>1, Zenon DEF CacheInv
      <4> QED BY <1>f, <2>1, <2>6, <4>1, <4>2, <4>3, Zenon
    <3>2. CASE b \notin Logged(lh)
      <4>1. Recovered(b)' = home[b]
        BY <1>b, <2>1, <3>2, Zenon DEF RecoveredFrom
      <4>2. cache[b] # NoBuf => cache[b] = home[b]
        BY <1>a, <2>6, <2>7, <3>2, Zenon DEF CacheInv
      <4> QED BY <1>f, <2>1, <4>1, <4>2, Zenon
    <3> QED BY <3>1, <3>2, Zenon
  <2>9. \A b \in Blocks : Current(b)' = Current(b)
    BY <1>f, <2>1, Zenon
  <2> QED BY <2>3, <2>5, <2>8, <2>9, Zenon DEF Abs!Commit, Active
\* Installing a block does not change what recovery would give.
<1>7. ASSUME InstallOne, hdr = lh
      PROVE  /\ \A b \in Blocks : Recovered(b)' = Recovered(b)
             /\ Active' = Active
  <2> DEFINE c == lh[tail + 1]
  <2>1. c \in Blocks /\ tail + 1 \in 1 .. Len(lh)
    BY <1>7, NextBlock DEF InstallOne
  <2>2. c \in Logged(hdr)
    BY <1>c, <1>7, <2>1, Zenon DEF Logged
  <2>3. UNCHANGED <<hdr, logd, pc>> /\ home' = [home EXCEPT ![c] = logd[tail + 1]]
    BY <1>7, Zenon DEF InstallOne
  <2> HIDE DEF c
  <2>4. \A b \in Blocks \ {c} : home'[b] = home[b]
    BY <1>a, <2>3, Zenon DEF TypeInv
  <2>5. \A b \in Blocks : Recovered(b)' = Recovered(b)
    BY <1>b, <2>2, <2>3, <2>4 DEF RecoveredFrom
  <2> QED BY <2>3, <2>5, Zenon DEF Active
<1>8. ASSUME NEW p \in Procs, install_trans(p) PROVE UNCHANGED Abs!vars
  <2> DEFINE c == lh[tail + 1]
             v == logd[tail + 1]
  <2>1. InstallOne /\ pc[p] = "install" /\ Running
    BY <1>8 DEF install_trans, Running
  <2>2. /\ hdr = lh /\ dirty = {lh[i] : i \in tail + 1 .. Len(lh)}
        /\ InLog(tail + 1, Len(lh))
    BY <1>a, <2>1, Zenon DEF DiskInv
  <2>3. c \in Blocks /\ v \in Vals /\ tail + 1 \in tail + 1 .. Len(lh)
    <3>1. tail < Len(lh)
      BY <2>1, Zenon DEF InstallOne
    <3>2. tail + 1 \in tail + 1 .. Len(lh)
      BY <1>c, <3>1
    <3> QED BY <3>1, <3>2, NextBlock, Zenon
  <2>4. cache[c] = v /\ v # NoBuf
    BY <1>e, <2>2, <2>3 DEF InLog
  <2>5. /\ home' = [home EXCEPT ![c] = v] /\ cache' = [cache EXCEPT ![c] = v]
        /\ UNCHANGED boot
    BY <2>1, Zenon DEF InstallOne
  <2> HIDE DEF c, v
  <2>6. \A b \in Blocks : /\ home'[b] = IF b = c THEN v ELSE home[b]
                          /\ cache'[b] = IF b = c THEN v ELSE cache[b]
    BY <1>a, <2>5, Zenon DEF TypeInv
  <2>7. Running'
    BY <2>1, <2>5, Zenon DEF Running
  <2>8. \A b \in Blocks : Current(b)' = Current(b)
    BY <1>f, <2>1, <2>4, <2>6, <2>7, Zenon
  <2> QED BY <1>7, <1>g, <2>1, <2>2, <2>8, Zenon
<1>9. CASE recover_install
  <2>1. InstallOne /\ boot = "install" /\ boot' = "install" /\ hdr = lh
    BY <1>9, <1>a, Zenon DEF recover_install, InstallOne, DiskInv
  <2>2. \A b \in Blocks : Current(b)' = Recovered(b)' /\ Current(b) = Recovered(b)
    BY <2>1, Zenon DEF Current
  <2> QED BY <1>7, <1>g, <2>1, <2>2, Zenon
\* When all is installed the header does not matter.
<1>10. ASSUME hdr = lh, InHomes(tail), tail = Len(lh)
       PROVE  \A b \in Blocks : Recovered(b) = home[b]
  <2> SUFFICES ASSUME NEW b \in Blocks PROVE Recovered(b) = home[b]
    OBVIOUS
  <2>1. CASE b \in Logged(hdr)
    <3>1. PICK i \in 1 .. Len(lh) : b = lh[i]
      BY <1>10, <1>c, <2>1, Zenon DEF Logged
    <3>2. Recovered(b) = logd[i]
      <4>1. RecoveredFrom(lh, logd, home, lh[i]) = logd[i]
        BY <1>c, RecoveredBlock
      <4> QED BY <1>b, <1>10, <3>1, <4>1, Zenon
    <3>3. home[b] = logd[i]
      BY <1>10, <3>1, Zenon DEF InHomes
    <3> QED BY <3>2, <3>3, Zenon
  <2>2. CASE b \notin Logged(hdr)
    BY <1>b, <2>2 DEF RecoveredFrom
  <2> QED BY <2>1, <2>2, Zenon
<1>11. ASSUME NEW p \in Procs, clear_head(p) PROVE UNCHANGED Abs!vars
  <2>1. /\ UNCHANGED <<home, cache>> /\ hdr' = <<>> /\ Running /\ Running'
        /\ pc[p] = "install" /\ tail = Len(lh)
    BY <1>11 DEF clear_head, Installed, Running
  <2>2. hdr = lh /\ InHomes(tail)
    BY <1>a, <2>1, Zenon DEF DiskInv
  <2>3. \A b \in Blocks : Recovered(b)' = Recovered(b) /\ Current(b)' = Current(b)
    BY <1>d, <1>f, <1>10, <2>1, <2>2, Zenon
  <2>4. \A q \in Procs : pc'[q] \in InOp <=> pc[q] \in InOp
    BY <1>11, <1>a DEF clear_head, Goto, TypeInv, InOp
  <2>5. Active' = Active
    BY <2>4, Zenon DEF Active
  <2> QED BY <1>g, <2>3, <2>5, Zenon
<1>12. CASE recover_clear
  <2>1. /\ UNCHANGED <<home, cache, pc>> /\ hdr' = <<>> /\ Running'
        /\ boot = "install" /\ tail = Len(lh)
    BY <1>12 DEF recover_clear, Installed, Running
  <2>2. hdr = lh /\ InHomes(tail)
    BY <1>a, <2>1, Zenon DEF DiskInv
  <2>3. dirty = {} /\ \A q \in Procs : buf[q] = NoBlock
    BY <1>a, <2>1 DEF BootInv, CallInv
  <2>4. \A b \in Blocks : cache[b] # NoBuf => cache[b] = home[b]
    BY <1>a, <1>e, <2>3, Zenon DEF CacheInv, Locked
  <2>5. \A b \in Blocks : Current(b) = Recovered(b)
    BY <2>1, Zenon DEF Current
  <2>6. \A b \in Blocks : Recovered(b)' = Recovered(b) /\ Current(b)' = Current(b)
    BY <1>d, <1>f, <1>10, <2>1, <2>2, <2>4, <2>5, Zenon
  <2>7. Active' = Active
    BY <2>1, Zenon DEF Active
  <2> QED BY <1>g, <2>6, <2>7, Zenon
<1>13. ASSUME NEW b \in Blocks, Load(b) \/ Evict(b) PROVE UNCHANGED Abs!vars
  <2>1. UNCHANGED <<disk, pc>> /\ Running /\ Running'
    BY <1>13 DEF Load, Evict, Running
  <2>2. /\ \A c \in Blocks \ {b} : cache'[c] = cache[c]
        /\ \/ cache[b] = NoBuf /\ cache'[b] = home[b]
           \/ cache'[b] = NoBuf /\ cache[b] = home[b]
    BY <1>13, <1>a, Zenon DEF Load, Evict, Recyclable, TypeInv, CacheInv
  <2>3. \A c \in Blocks : Recovered(c)' = Recovered(c)
    BY <1>b, <2>1, Zenon DEF disk
  <2>4. \A c \in Blocks : Current(c)' = Current(c)
    BY <1>f, <2>1, <2>2 DEF disk
  <2>5. Active' = Active
    BY <2>1, Zenon DEF Active
  <2> QED BY <1>g, <2>3, <2>4, <2>5, Zenon
<1>14. CASE Crash
  <2>1. UNCHANGED disk /\ boot' = "readhead" /\ \A q \in Procs : pc'[q] = "idle"
    BY <1>14, Zenon DEF Crash
  <2>2. \A b \in Blocks : Recovered(b)' = Recovered(b) /\ Current(b)' = Recovered(b)
    BY <1>b, <2>1, Zenon DEF disk, Current
  <2>3. Active' = {}
    BY <2>1 DEF Active, InOp
  <2>4. Abs!Crash
    BY <2>2, <2>3, Zenon DEF Abs!Crash, Active
  <2> QED BY <2>4, Zenon DEF Abs!Next
<1>15. CASE read_head
  <2>1. UNCHANGED <<disk, pc>> /\ boot = "readhead" /\ boot' = "install"
    BY <1>15, Zenon DEF read_head
  <2>2. \A b \in Blocks : /\ Recovered(b)' = Recovered(b)
                          /\ Current(b)' = Recovered(b)' /\ Current(b) = Recovered(b)
    BY <1>b, <2>1, Zenon DEF disk, Current
  <2>3. Active' = Active
    BY <2>1, Zenon DEF Active
  <2> QED BY <1>g, <2>2, <2>3, Zenon
<1>16. CASE UNCHANGED vars
  <2>1. UNCHANGED <<disk, pc, cache, boot>>
    BY <1>16, Zenon DEF vars
  <2>2. \A b \in Blocks : Recovered(b)' = Recovered(b) /\ Current(b)' = Current(b)
    BY <1>b, <2>1, Zenon DEF disk, Current
  <2>3. Active' = Active
    BY <2>1, Zenon DEF Active
  <2> QED BY <1>g, <2>2, <2>3, Zenon
<1>17. ASSUME NEW p \in Procs, Syscall(p) \/ Op(p) \/ EndOp(p) \/ commit(p)
       PROVE  [Abs!Next]_(Abs!vars)
  BY <1>1, <1>2, <1>3, <1>5, <1>6, <1>8, <1>11, <1>17, Zenon
  DEF Op, commit, Abs!Next
<1>18. ASSUME NEW p \in Procs, NEW b \in Blocks, NEW v \in Vals, Modify(p, b, v)
       PROVE  [Abs!Next]_(Abs!vars)
  BY <1>4, <1>18, Zenon DEF Abs!Next
<1> QED
  BY <1>9, <1>12, <1>13, <1>14, <1>15, <1>16, <1>17, <1>18, Zenon
  DEF Next, recover_from_log

\* For any number of processes, blocks and crashes and any size of the log, as
\* long as no call writes more than MAXOPBLOCKS blocks: log.c implements atomic
\* file system updates.
THEOREM LogIsAtomic == Spec => ImplementsAtomicFs
<1>1. Init => Abs!Init
  <2> SUFFICES ASSUME Init PROVE Abs!Init
    OBVIOUS
  <2>1. /\ \A p \in Procs : pc[p] = "idle"
        /\ boot = "readhead" /\ hdr = <<>>
    BY Zenon DEF Init
  <2>2. home \in [Blocks -> Vals]
    BY InitInv, Zenon DEF Inv, TypeInv
  <2>3. \A b \in Blocks : Recovered(b) = home[b]
    BY <2>1 DEF Recovered, Logged
  <2>4. \A b \in Blocks : Current(b) = Recovered(b) /\ Recovered(b) \in Vals
    BY <2>1, <2>2, <2>3, Zenon DEF Current
  <2>5. {p \in Procs : pc[p] \in InOp} = {}
    BY <2>1 DEF InOp
  <2> QED BY <2>4, <2>5, Zenon DEF Abs!Init
<1>2. Inv /\ [Next]_vars => [Abs!Next]_(Abs!vars)
  BY AtomicStep
<1> QED BY Invariance, <1>1, <1>2, PTL DEF Spec, ImplementsAtomicFs, Abs!Spec

-----------------------------------------------------------------------------
(* The log has room for what it lets in                                    *)

\* What log_write() needs to stay clear of its panics: a system call writes
\* fewer blocks than begin_op() reserves for it, and the log on the disk is not
\* shorter than LOGSIZE by more than what is left over.
Slack ==
  OpBlocks < MAXOPBLOCKS /\ LOGSIZE + OpBlocks + 1 < LogBlocks + MAXOPBLOCKS

\* For any number of processes, blocks and crashes and any size of the log, as
\* long as no call writes as many as MAXOPBLOCKS blocks: no panic of log.c is
\* reached, and the log has room for every call that begin_op() let in.
THEOREM RoomForAll ==
  ASSUME Slack
  PROVE  Spec => []NoPanic
<1>1. ASSUME Inv, boot # "panic", [Next]_vars PROVE boot' # "panic"
  <2>1. ASSUME NEW p \in Procs, log_write_check(p) PROVE boot' # "panic"
    <3>1. pc[p] = "check" /\ boot = "up"
      BY <2>1 DEF log_write_check
    <3>2. p \in Active
      BY <3>1 DEF Active, InOp
    <3>3. outstanding \in Nat /\ outstanding # 0
      BY <1>1, <3>2, Finite, FS_EmptySet DEF Inv, CallInv
    <3>4. Len(lh) + outstanding * MAXOPBLOCKS <= LOGSIZE + Cardinality(Used)
      BY <1>1, <3>1 DEF Inv, RoomInv, Running
    <3>5. Cardinality(Used) <= outstanding * OpBlocks /\ Cardinality(Used) \in Nat
      BY <1>1, UsedBound, Finite, Zenon DEF Inv
    <3>6. /\ OpBlocks \in Nat /\ MAXOPBLOCKS \in Nat /\ LOGSIZE \in Nat
          /\ LogBlocks \in Nat /\ Len(lh) \in Nat
      BY <1>1, ConstantsAssumption, HeaderBlocks
    <3>7. outstanding * MAXOPBLOCKS - outstanding * OpBlocks >= MAXOPBLOCKS - OpBlocks
      <4> DEFINE n == MAXOPBLOCKS - OpBlocks
                 k == outstanding - 1
      <4>1. n \in Nat /\ k \in Nat
        BY <1>1, <3>3, <3>6 DEF Slack
      <4>2. outstanding * MAXOPBLOCKS - outstanding * OpBlocks = k * n + n
        BY <3>3, <3>6
      <4> HIDE DEF n, k
      <4>3. k * n >= 0 /\ k * n \in Nat
        BY <4>1
      <4>4. k * n + n >= n
        BY <4>1, <4>3
      <4> QED BY <4>2, <4>4 DEF n
    <3>8. outstanding * MAXOPBLOCKS \in Nat /\ outstanding * OpBlocks \in Nat
      BY <3>3, <3>6
    <3>9. Len(lh) + MAXOPBLOCKS <= LOGSIZE + OpBlocks
      BY <3>4, <3>5, <3>6, <3>7, <3>8
    <3>10. ~TooBig /\ ~(outstanding < 1)
      BY <1>1, <3>3, <3>6, <3>9 DEF TooBig, Slack
    <3> QED BY <1>1, <2>1, <3>10, Zenon DEF log_write_check
  <2>2. ASSUME NEW p \in Procs, EndOp(p) PROVE boot' # "panic"
    <3>1. pc[p] = "op"
      BY <2>2 DEF EndOp, end_op_commit, end_op
    <3>2. ~committing
      BY <1>1, <3>1 DEF Inv, CommitInv, InOp
    <3> QED BY <1>1, <2>2, <3>2, Zenon DEF EndOp, end_op_commit, end_op
  <2>3. ASSUME NEW p \in Procs,
               \/ Syscall(p) \/ begin_op(p) \/ begin_op_sleep(p) \/ log_write(p)
               \/ commit(p)
        PROVE  boot' # "panic"
    BY <1>1, <2>3, Zenon DEF Syscall, begin_op, begin_op_sleep, log_write, commit,
       write_log, write_head, install_trans, InstallOne, clear_head, commit_done
  <2>4. ASSUME NEW p \in Procs, NEW b \in Blocks, NEW v \in Vals, Modify(p, b, v)
        PROVE  boot' # "panic"
    BY <1>1, <2>4, Zenon DEF Modify
  <2>5. ASSUME NEW b \in Blocks, Load(b) \/ Evict(b) PROVE boot' # "panic"
    BY <1>1, <2>5, Zenon DEF Load, Evict
  <2>6. CASE Crash \/ recover_from_log
    BY <1>1, <2>6 DEF Crash, recover_from_log, read_head, recover_install,
       InstallOne, recover_clear
  <2>7. CASE UNCHANGED vars
    BY <1>1, <2>7, Zenon DEF vars
  <2> QED BY <1>1, <2>1, <2>2, <2>3, <2>4, <2>5, <2>6, <2>7, Zenon DEF Next, Op
<1>2. Inv /\ boot # "panic" => NoPanic
  BY DEF Inv, RoomInv, Running, NoPanic
<1>3. Inv /\ boot # "panic" /\ [Next]_vars => (boot # "panic")'
  BY <1>1, Zenon
<1>4. Init => boot # "panic"
  BY DEF Init
<1> QED BY Invariance, <1>2, <1>3, <1>4, PTL DEF Spec
=============================================================================
