--------------------------- MODULE SpinlockProofs ---------------------------
(***************************************************************************)
(* Proofs about spinlock.c for any number of CPUs and locks.               *)
(***************************************************************************)
EXTENDS Spinlock, FiniteSetTheorems, TLAPS

\* Inside acquire() or release() with interrupts off, and counted in ncli.
Counted == {"hold", "xchg", "setcpu", "clearcpu", "unlock", "popcli"}

\* lk->locked is 1 on behalf of the context, which is not using the lock.
Between == {"setcpu", "clearcpu", "unlock"}

Owns(k) == held[k] \union (IF pc[k] \in Between THEN {lk[k]} ELSE {})

\* A taken lock belongs to one context.
OwnInv ==
  /\ \A k \in Ctxs : \A l \in Owns(k) : locked[l]
  /\ \A j, k \in Ctxs : j # k => Owns(j) \intersect Owns(k) = {}
  /\ \A k \in Ctxs : pc[k] \in {"clearcpu", "unlock"} => lk[k] \notin held[k]
  /\ \A k \in Ctxs : pc[k] \in {"cli", "hold", "xchg", "setcpu"} =>
       \A h \in held[k] : h < lk[k]

\* lk->cpu is set exactly while a context of that CPU uses the lock.
OwnerInv ==
  /\ \A k \in Ctxs : \A l \in held[k] : owner[l] = k[1]
  /\ \A l \in Locks : owner[l] # None =>
       \E k \in Ctxs : /\ k[1] = owner[l]
                       /\ l \in held[k] \/ (pc[k] = "clearcpu" /\ lk[k] = l)

\* The context that does not run holds nothing.
ModeInv ==
  \A k \in Ctxs : mode[k[1]] # k[2] =>
    /\ held[k] = {}
    /\ pc[k] \in (IF k[2] = "intr" THEN {"run"} ELSE {"run", "cli"})

\* ncli counts the locks of the context that runs.
NcliInv ==
  \A k \in Ctxs : mode[k[1]] = k[2] =>
    ncli[k[1]] = Cardinality(held[k]) + (IF pc[k] \in Counted THEN 1 ELSE 0)

\* What the interrupt flag is and what popcli() will make it.
FlagInv ==
  /\ \A c \in CPUs : IF ncli[c] = 0 THEN fl_if[c] <=> mode[c] = "thread"
                     ELSE ~fl_if[c] /\ (intena[c] <=> mode[c] = "thread")
  /\ \A k \in Ctxs : pc[k] = "cli" /\ held[k] = {} =>
       (eflags[k] <=> k[2] = "thread")

IInv ==
  /\ TypeOK /\ NoPanic
  /\ OwnInv /\ OwnerInv /\ ModeInv /\ NcliInv /\ FlagInv

-----------------------------------------------------------------------------
\* A set of locks is finite, and taking or dropping a lock counts one.
LEMMA HeldCard ==
  ASSUME NEW S \in SUBSET Locks, NEW l \in Locks
  PROVE  /\ Cardinality(S) \in Nat
         /\ Cardinality(S) = 0 <=> S = {}
         /\ l \notin S => Cardinality(S \union {l}) = Cardinality(S) + 1
         /\ l \in S => Cardinality(S \ {l}) = Cardinality(S) - 1
<1>1. IsFiniteSet(Locks)
  BY ConstantsAssumption, FS_Interval DEF Locks
<1>2. IsFiniteSet(S)
  BY <1>1, FS_Subset
<1>3. QED
  BY Zenon, <1>2, FS_CardinalityType, FS_EmptySet, FS_AddElement,
      FS_RemoveElement

\* ncli of a context that runs: 0 when it has no lock and does not take or
\* release one.
LEMMA Count ==
  ASSUME TypeOK, NcliInv, NEW k \in Ctxs, mode[k[1]] = k[2]
  PROVE  /\ ncli[k[1]] \in Nat
         /\ ncli[k[1]] = 0 <=> held[k] = {} /\ pc[k] \notin Counted
<1>1. held[k] \in SUBSET Locks /\ 1 \in Locks /\ k[1] \in CPUs
  BY ConstantsAssumption DEF TypeOK, Ctxs, Locks
<1>2. Cardinality(held[k]) \in Nat /\ (Cardinality(held[k]) = 0 <=> held[k] = {})
  BY Zenon, <1>1, HeldCard
<1>3. ncli[k[1]] = Cardinality(held[k]) + (IF pc[k] \in Counted THEN 1 ELSE 0)
  BY DEF NcliInv
<1>4. QED
  BY <1>2, <1>3

\* Two contexts that run are on different CPUs.
LEMMA OtherCpu ==
  ASSUME TypeOK, NEW j \in Ctxs, NEW k \in Ctxs, j # k,
         mode[j[1]] = j[2], mode[k[1]] = k[2]
  PROVE  j[1] # k[1]
BY DEF Ctxs

\* Every step keeps the types; ncli stays a natural number because a context that
\* calls popcli() is counted in it.
LEMMA TypeOKStep == IInv /\ [Next]_vars => TypeOK'
<1> SUFFICES ASSUME IInv, [Next]_vars PROVE TypeOK'
  OBVIOUS
<1>t. TypeOK
  BY DEF IInv
<1>i. NcliInv
  BY DEF IInv
<1>1. ASSUME NEW k \in Ctxs, NEW l \in Locks, acquire(k, l) PROVE TypeOK'
  BY <1>t, <1>i, <1>1 DEF acquire, At, Goto, TypeOK, Labels, NcliInv, Counted,
     Ctxs, vars, lockvars, cpuvars, ctxvars
<1>2. ASSUME NEW k \in Ctxs, pushcli(k) PROVE TypeOK'
  BY <1>t, <1>i, <1>2 DEF pushcli, At, Goto, cli, SaveIntena, Nested, TypeOK,
     Labels, NcliInv, Counted, Ctxs, vars, lockvars, cpuvars, ctxvars
<1>3. ASSUME NEW k \in Ctxs, AcquireHolding(k) PROVE TypeOK'
  BY <1>t, <1>i, <1>3 DEF AcquireHolding, At, Goto, holding, TypeOK, Labels,
     NcliInv, Counted, Ctxs, vars, lockvars, cpuvars, ctxvars
<1>4. ASSUME NEW k \in Ctxs, Xchg(k) PROVE TypeOK'
  BY <1>t, <1>i, <1>4 DEF Xchg, At, Goto, xchg, TypeOK, Labels, NcliInv,
     Counted, Ctxs, vars, lockvars, cpuvars, ctxvars
<1>5. ASSUME NEW k \in Ctxs, SetCpu(k) PROVE TypeOK'
  BY <1>t, <1>i, <1>5 DEF SetCpu, At, Goto, TypeOK, Labels, NcliInv, Counted,
     Ctxs, vars, lockvars, cpuvars, ctxvars
<1>6. ASSUME NEW k \in Ctxs, NEW l \in Locks, release(k, l) PROVE TypeOK'
  BY <1>t, <1>i, <1>6 DEF release, At, Goto, holding, TypeOK, Labels, NcliInv,
     Counted, Ctxs, vars, lockvars, cpuvars, ctxvars
<1>7. ASSUME NEW k \in Ctxs, ClearCpu(k) PROVE TypeOK'
  BY <1>t, <1>i, <1>7 DEF ClearCpu, At, Goto, clearCpu, TypeOK, Labels,
     NcliInv, Counted, Ctxs, vars, lockvars, cpuvars, ctxvars
<1>8. ASSUME NEW k \in Ctxs, Unlock(k) PROVE TypeOK'
  BY <1>t, <1>i, <1>8 DEF Unlock, At, Goto, TypeOK, Labels, NcliInv, Counted,
     Ctxs, vars, lockvars, cpuvars, ctxvars
<1>9. ASSUME NEW k \in Ctxs, popcli(k) PROVE TypeOK'
  <2>1. ncli[k[1]] \in Nat \ {0}
    BY <1>t, <1>i, <1>9, Count DEF popcli, At, Counted
  <2>2. fl_if' \in [CPUs -> BOOLEAN]
    BY Zenon, <1>t, <1>9 DEF popcli, TypeOK
  <2>n. ncli' = [ncli EXCEPT ![k[1]] = ncli[k[1]] - 1]
    BY Zenon, <1>9 DEF popcli
  <2>m. ncli \in [CPUs -> Nat]
    BY Zenon, <1>t DEF TypeOK
  <2>3. ncli' \in [CPUs -> Nat]
    <3>1. ncli[k[1]] - 1 \in Nat
      BY <2>1
    <3>2. QED
      BY Zenon, <3>1, <2>n, <2>m
  <2>4. QED
    BY <1>t, <1>9, <2>2, <2>3 DEF popcli, Goto, TypeOK, Labels, Ctxs, lockvars
<1>10. ASSUME NEW c \in CPUs, Interrupt(c) PROVE TypeOK'
  BY <1>t, <1>i, <1>10 DEF Interrupt, TypeOK, Labels, NcliInv, Counted, Ctxs,
     vars, lockvars, cpuvars, ctxvars
<1>11. ASSUME NEW c \in CPUs, iret(c) PROVE TypeOK'
  BY <1>t, <1>i, <1>11 DEF iret, At, TypeOK, Labels, NcliInv, Counted, Ctxs,
     vars, lockvars, cpuvars, ctxvars
<1>12. CASE UNCHANGED vars
  BY SMTT(30), <1>t, <1>i, <1>12 DEF NcliInv, Counted, TypeOK, vars, lockvars,
      cpuvars, ctxvars
<1> QED
  BY <1>1, <1>2, <1>3, <1>4, <1>5, <1>6, <1>7, <1>8, <1>9, <1>10, <1>11, <1>12
     DEF Next, Step, Release

\* No step reaches a panic.
LEMMA NoPanicStep == IInv /\ [Next]_vars => NoPanic'
<1> SUFFICES ASSUME IInv, [Next]_vars PROVE NoPanic'
  OBVIOUS
<1>t. TypeOK
  BY DEF IInv
<1>i. NoPanic /\ OwnInv /\ OwnerInv /\ ModeInv /\ NcliInv /\ FlagInv
  BY DEF IInv
<1>1. ASSUME NEW k \in Ctxs, NEW l \in Locks, acquire(k, l) PROVE NoPanic'
  BY SMTT(30), <1>t, <1>i, <1>1 DEF acquire, At, Goto, TypeOK, Labels,
      NoPanic, OwnInv, OwnerInv, Owns, Ctxs, vars, lockvars, cpuvars, ctxvars
<1>2. ASSUME NEW k \in Ctxs, pushcli(k) PROVE NoPanic'
  BY <1>t, <1>i, <1>2 DEF pushcli, At, Goto, cli, SaveIntena, Nested, TypeOK,
     Labels, NoPanic, OwnInv, OwnerInv, Owns, Ctxs, vars, lockvars, cpuvars,
     ctxvars
<1>3. ASSUME NEW k \in Ctxs, AcquireHolding(k) PROVE NoPanic'
  <2>1. SUFFICES ~holding(lk[k], k[1])
    BY <1>t, <1>i, <1>3 DEF AcquireHolding, Goto, NoPanic, TypeOK, Ctxs
  <2>2. SUFFICES ASSUME owner[lk[k]] = k[1] PROVE FALSE
    BY DEF holding
  <2>3. lk[k] \in Locks /\ k[1] \in CPUs /\ k[1] # None
    BY <1>t DEF TypeOK, Ctxs, CPUs, None
  <2>4. PICK j \in Ctxs : /\ j[1] = k[1]
                          /\ lk[k] \in held[j] \/ pc[j] = "clearcpu"
    BY <1>i, <2>2, <2>3 DEF OwnerInv
  <2>5. j = k
    BY <1>t, <1>i, <1>3, <2>4 DEF AcquireHolding, At, ModeInv, Ctxs
  <2>6. lk[k] \notin held[k]
    BY SMTT(30), <1>t, <1>i, <1>3 DEF AcquireHolding, At, OwnInv, TypeOK, Locks
  <2>7. QED
    BY <1>3, <2>4, <2>5, <2>6 DEF AcquireHolding, At
<1>4. ASSUME NEW k \in Ctxs, Xchg(k) PROVE NoPanic'
  BY SMTT(30), <1>t, <1>i, <1>4 DEF Xchg, At, Goto, xchg, TypeOK, Labels,
      NoPanic, OwnInv, OwnerInv, Owns, Ctxs, vars, lockvars, cpuvars, ctxvars
<1>5. ASSUME NEW k \in Ctxs, SetCpu(k) PROVE NoPanic'
  BY SMTT(30), <1>t, <1>i, <1>5 DEF SetCpu, At, Goto, TypeOK, Labels, NoPanic,
      OwnInv, OwnerInv, Owns, Ctxs, vars, lockvars, cpuvars, ctxvars
<1>6. ASSUME NEW k \in Ctxs, NEW l \in Locks, release(k, l) PROVE NoPanic'
  BY SMTT(30), <1>t, <1>i, <1>6 DEF release, At, Goto, holding, TypeOK,
      Labels, NoPanic, OwnInv, OwnerInv, Owns, Ctxs, vars, lockvars, cpuvars,
      ctxvars
<1>7. ASSUME NEW k \in Ctxs, ClearCpu(k) PROVE NoPanic'
  BY SMTT(30), <1>t, <1>i, <1>7 DEF ClearCpu, At, Goto, clearCpu, TypeOK,
      Labels, NoPanic, OwnInv, OwnerInv, Owns, Ctxs, vars, lockvars, cpuvars,
      ctxvars
<1>8. ASSUME NEW k \in Ctxs, Unlock(k) PROVE NoPanic'
  BY <1>t, <1>i, <1>8 DEF Unlock, At, Goto, TypeOK, Labels, NoPanic, OwnInv,
     OwnerInv, Owns, Ctxs, vars, lockvars, cpuvars, ctxvars
<1>9. ASSUME NEW k \in Ctxs, popcli(k) PROVE NoPanic'
  <2>1. ncli[k[1]] \in Nat \ {0} /\ k[1] \in CPUs
    BY <1>t, <1>i, <1>9, Count DEF popcli, At, Counted, Ctxs
  <2>2. ~fl_if[k[1]]
    BY <1>i, <2>1 DEF FlagInv
  <2>3. QED
    BY <1>t, <1>i, <1>9, <2>1, <2>2 DEF popcli, Goto, NoPanic, TypeOK, Ctxs
<1>10. ASSUME NEW c \in CPUs, Interrupt(c) PROVE NoPanic'
  BY SMTT(30), <1>t, <1>i, <1>10 DEF Interrupt, TypeOK, Labels, NoPanic,
      OwnInv, OwnerInv, Owns, Ctxs, vars, lockvars, cpuvars, ctxvars
<1>11. ASSUME NEW c \in CPUs, iret(c) PROVE NoPanic'
  BY <1>t, <1>i, <1>11 DEF iret, At, TypeOK, Labels, NoPanic, OwnInv, OwnerInv,
     Owns, Ctxs, vars, lockvars, cpuvars, ctxvars
<1>12. CASE UNCHANGED vars
  BY SMTT(30), <1>t, <1>i, <1>12 DEF NoPanic, OwnInv, OwnerInv, Owns, TypeOK,
      vars, lockvars, cpuvars, ctxvars
<1> QED
  BY <1>1, <1>2, <1>3, <1>4, <1>5, <1>6, <1>7, <1>8, <1>9, <1>10, <1>11, <1>12
     DEF Next, Step, Release

\* A lock that is taken stays with one context.
LEMMA OwnStep == IInv /\ [Next]_vars => OwnInv'
<1> SUFFICES ASSUME IInv, [Next]_vars PROVE OwnInv'
  OBVIOUS
<1>t. TypeOK
  BY DEF IInv
<1>i. OwnInv /\ NoPanic
  BY DEF IInv
<1>1. ASSUME NEW k \in Ctxs, NEW l \in Locks, acquire(k, l) PROVE OwnInv'
  BY SMTT(30), <1>t, <1>i, <1>1 DEF acquire, At, Goto, TypeOK, Labels, OwnInv,
      Owns, Between, NoPanic, Ctxs, vars, lockvars, cpuvars, ctxvars
<1>2. ASSUME NEW k \in Ctxs, pushcli(k) PROVE OwnInv'
  BY SMTT(30), <1>t, <1>i, <1>2 DEF pushcli, At, Goto, cli, SaveIntena,
      Nested, TypeOK, Labels, OwnInv, Owns, Between, NoPanic, Ctxs, vars,
      lockvars, cpuvars, ctxvars
<1>3. ASSUME NEW k \in Ctxs, AcquireHolding(k) PROVE OwnInv'
  BY SMTT(30), <1>t, <1>i, <1>3 DEF AcquireHolding, At, Goto, holding, TypeOK,
      Labels, OwnInv, Owns, Between, NoPanic, Ctxs, vars, lockvars, cpuvars,
      ctxvars
<1>4. ASSUME NEW k \in Ctxs, Xchg(k) PROVE OwnInv'
  BY SMTT(30), <1>t, <1>i, <1>4 DEF Xchg, At, Goto, xchg, TypeOK, Labels,
      OwnInv, Owns, Between, NoPanic, Ctxs, vars, lockvars, cpuvars, ctxvars
<1>5. ASSUME NEW k \in Ctxs, SetCpu(k) PROVE OwnInv'
  BY SMTT(30), <1>t, <1>i, <1>5 DEF SetCpu, At, Goto, TypeOK, Labels, OwnInv,
      Owns, Between, NoPanic, Ctxs, vars, lockvars, cpuvars, ctxvars
<1>6. ASSUME NEW k \in Ctxs, NEW l \in Locks, release(k, l) PROVE OwnInv'
  BY SMTT(30), <1>t, <1>i, <1>6 DEF release, At, Goto, holding, TypeOK,
      Labels, OwnInv, Owns, Between, NoPanic, Ctxs, vars, lockvars, cpuvars,
      ctxvars
<1>7. ASSUME NEW k \in Ctxs, ClearCpu(k) PROVE OwnInv'
  BY SMTT(30), <1>t, <1>i, <1>7 DEF ClearCpu, At, Goto, clearCpu, TypeOK,
      Labels, OwnInv, Owns, Between, NoPanic, Ctxs, vars, lockvars, cpuvars,
      ctxvars
<1>8. ASSUME NEW k \in Ctxs, Unlock(k) PROVE OwnInv'
  BY SMTT(30), <1>t, <1>i, <1>8 DEF Unlock, At, Goto, TypeOK, Labels, OwnInv,
      Owns, Between, NoPanic, Ctxs, vars, lockvars, cpuvars, ctxvars
<1>9. ASSUME NEW k \in Ctxs, popcli(k) PROVE OwnInv'
  BY SMTT(30), <1>t, <1>i, <1>9 DEF popcli, At, Goto, TypeOK, Labels, OwnInv,
      Owns, Between, NoPanic, Ctxs, vars, lockvars, cpuvars, ctxvars
<1>10. ASSUME NEW c \in CPUs, Interrupt(c) PROVE OwnInv'
  BY SMTT(30), <1>t, <1>i, <1>10 DEF Interrupt, TypeOK, Labels, OwnInv, Owns,
      Between, NoPanic, Ctxs, vars, lockvars, cpuvars, ctxvars
<1>11. ASSUME NEW c \in CPUs, iret(c) PROVE OwnInv'
  BY <1>t, <1>i, <1>11 DEF iret, At, TypeOK, Labels, OwnInv, Owns, Between,
     NoPanic, Ctxs, vars, lockvars, cpuvars, ctxvars
<1>12. CASE UNCHANGED vars
  BY SMTT(30), <1>t, <1>i, <1>12 DEF OwnInv, Owns, Between, NoPanic, TypeOK,
      vars, lockvars, cpuvars, ctxvars
<1> QED
  BY <1>1, <1>2, <1>3, <1>4, <1>5, <1>6, <1>7, <1>8, <1>9, <1>10, <1>11, <1>12
     DEF Next, Step, Release

\* lk->cpu is set and cleared with the lock.
LEMMA OwnerStep == IInv /\ [Next]_vars => OwnerInv'
<1> SUFFICES ASSUME IInv, [Next]_vars PROVE OwnerInv'
  OBVIOUS
<1>t. TypeOK
  BY DEF IInv
<1>i. OwnInv /\ OwnerInv /\ NoPanic
  BY SMTT(30) DEF IInv
<1>1. ASSUME NEW k \in Ctxs, NEW l \in Locks, acquire(k, l) PROVE OwnerInv'
  BY SMTT(30), <1>t, <1>i, <1>1 DEF acquire, At, Goto, TypeOK, Labels, OwnInv,
      OwnerInv, Owns, Between, NoPanic, Ctxs, vars, lockvars, cpuvars, ctxvars
<1>2. ASSUME NEW k \in Ctxs, pushcli(k) PROVE OwnerInv'
  BY SMTT(30), <1>t, <1>i, <1>2 DEF pushcli, At, Goto, cli, SaveIntena,
      Nested, TypeOK, Labels, OwnInv, OwnerInv, Owns, Between, NoPanic, Ctxs,
      vars, lockvars, cpuvars, ctxvars
<1>3. ASSUME NEW k \in Ctxs, AcquireHolding(k) PROVE OwnerInv'
  BY SMTT(30), <1>t, <1>i, <1>3 DEF AcquireHolding, At, Goto, holding, TypeOK,
      Labels, OwnInv, OwnerInv, Owns, Between, NoPanic, Ctxs, vars, lockvars,
      cpuvars, ctxvars
<1>4. ASSUME NEW k \in Ctxs, Xchg(k) PROVE OwnerInv'
  BY SMTT(30), <1>t, <1>i, <1>4 DEF Xchg, At, Goto, xchg, TypeOK, Labels,
      OwnInv, OwnerInv, Owns, Between, NoPanic, Ctxs, vars, lockvars, cpuvars,
      ctxvars
<1>5. ASSUME NEW k \in Ctxs, SetCpu(k) PROVE OwnerInv'
  BY SMTT(30), <1>t, <1>i, <1>5 DEF SetCpu, At, Goto, TypeOK, Labels, OwnInv,
      OwnerInv, Owns, Between, NoPanic, Ctxs, vars, lockvars, cpuvars, ctxvars
<1>6. ASSUME NEW k \in Ctxs, NEW l \in Locks, release(k, l) PROVE OwnerInv'
  BY <1>t, <1>i, <1>6 DEF release, At, Goto, holding, TypeOK, Labels, OwnInv,
     OwnerInv, Owns, Between, NoPanic, Ctxs, vars, lockvars, cpuvars, ctxvars
<1>7. ASSUME NEW k \in Ctxs, ClearCpu(k) PROVE OwnerInv'
  <2>1. /\ owner' = [owner EXCEPT ![lk[k]] = None] /\ held' = held /\ lk' = lk
        /\ pc' = [pc EXCEPT ![k] = "unlock"] /\ pc[k] = "clearcpu"
    BY <1>7 DEF ClearCpu, At, Goto, clearCpu
  <2>2. lk[k] \notin held[k] /\ \A j \in Ctxs : j # k => lk[k] \notin held[j]
    BY <1>i, <2>1 DEF OwnInv, Owns, Between
  <2>3. \A j \in Ctxs : \A l \in held'[j] : owner'[l] = j[1]
    BY <1>t, <1>i, <2>1, <2>2 DEF OwnerInv, TypeOK
  <2>4. \A l \in Locks : owner'[l] # None =>
          \E j \in Ctxs : /\ j[1] = owner'[l]
                          /\ l \in held'[j] \/ (pc'[j] = "clearcpu" /\ lk'[j] = l)
    <3> SUFFICES ASSUME NEW l \in Locks, owner'[l] # None
                 PROVE  \E j \in Ctxs :
                          /\ j[1] = owner'[l]
                          /\ l \in held'[j] \/ (pc'[j] = "clearcpu" /\ lk'[j] = l)
      OBVIOUS
    <3>1. l # lk[k] /\ owner'[l] = owner[l]
      BY <1>t, <2>1 DEF TypeOK
    <3>2. PICK j \in Ctxs : /\ j[1] = owner[l]
                            /\ l \in held[j] \/ (pc[j] = "clearcpu" /\ lk[j] = l)
      BY SMTT(30), <1>i, <3>1 DEF OwnerInv
    <3>3. QED
      BY <1>t, <2>1, <3>1, <3>2 DEF TypeOK
  <2>5. QED
    BY <2>3, <2>4 DEF OwnerInv
<1>8. ASSUME NEW k \in Ctxs, Unlock(k) PROVE OwnerInv'
  BY SMTT(30), <1>t, <1>i, <1>8 DEF Unlock, At, Goto, TypeOK, Labels, OwnInv,
      OwnerInv, Owns, Between, NoPanic, Ctxs, vars, lockvars, cpuvars, ctxvars
<1>9. ASSUME NEW k \in Ctxs, popcli(k) PROVE OwnerInv'
  BY SMTT(30), <1>t, <1>i, <1>9 DEF popcli, At, Goto, TypeOK, Labels, OwnInv,
      OwnerInv, Owns, Between, NoPanic, Ctxs, vars, lockvars, cpuvars, ctxvars
<1>10. ASSUME NEW c \in CPUs, Interrupt(c) PROVE OwnerInv'
  BY SMTT(30), <1>t, <1>i, <1>10 DEF Interrupt, TypeOK, Labels, OwnInv,
      OwnerInv, Owns, Between, NoPanic, Ctxs, vars, lockvars, cpuvars, ctxvars
<1>11. ASSUME NEW c \in CPUs, iret(c) PROVE OwnerInv'
  BY SMTT(30), <1>t, <1>i, <1>11 DEF iret, At, TypeOK, Labels, OwnInv,
      OwnerInv, Owns, Between, NoPanic, Ctxs, vars, lockvars, cpuvars, ctxvars
<1>12. CASE UNCHANGED vars
  BY SMTT(30), <1>t, <1>i, <1>12 DEF OwnInv, OwnerInv, Owns, Between, NoPanic,
      TypeOK, vars, lockvars, cpuvars, ctxvars
<1> QED
  BY <1>1, <1>2, <1>3, <1>4, <1>5, <1>6, <1>7, <1>8, <1>9, <1>10, <1>11, <1>12
     DEF Next, Step, Release

\* An interrupt finds the thread without a lock.
LEMMA ModeStep == IInv /\ [Next]_vars => ModeInv'
<1> SUFFICES ASSUME IInv, [Next]_vars PROVE ModeInv'
  OBVIOUS
<1>t. TypeOK
  BY DEF IInv
<1>i. ModeInv /\ NcliInv /\ FlagInv /\ NoPanic
  BY DEF IInv
<1>1. ASSUME NEW k \in Ctxs, NEW l \in Locks, acquire(k, l) PROVE ModeInv'
  BY SMTT(30), <1>t, <1>i, <1>1 DEF acquire, At, Goto, TypeOK, Labels,
      ModeInv, NoPanic, Ctxs, vars, lockvars, cpuvars, ctxvars
<1>2. ASSUME NEW k \in Ctxs, pushcli(k) PROVE ModeInv'
  BY <1>t, <1>i, <1>2 DEF pushcli, At, Goto, cli, SaveIntena, Nested, TypeOK,
     Labels, ModeInv, NoPanic, Ctxs, vars, lockvars, cpuvars, ctxvars
<1>3. ASSUME NEW k \in Ctxs, AcquireHolding(k) PROVE ModeInv'
  BY SMTT(30), <1>t, <1>i, <1>3 DEF AcquireHolding, At, Goto, holding, TypeOK,
      Labels, ModeInv, NoPanic, Ctxs, vars, lockvars, cpuvars, ctxvars
<1>4. ASSUME NEW k \in Ctxs, Xchg(k) PROVE ModeInv'
  BY SMTT(30), <1>t, <1>i, <1>4 DEF Xchg, At, Goto, xchg, TypeOK, Labels,
      ModeInv, NoPanic, Ctxs, vars, lockvars, cpuvars, ctxvars
<1>5. ASSUME NEW k \in Ctxs, SetCpu(k) PROVE ModeInv'
  BY SMTT(30), <1>t, <1>i, <1>5 DEF SetCpu, At, Goto, TypeOK, Labels, ModeInv,
      NoPanic, Ctxs, vars, lockvars, cpuvars, ctxvars
<1>6. ASSUME NEW k \in Ctxs, NEW l \in Locks, release(k, l) PROVE ModeInv'
  BY SMTT(30), <1>t, <1>i, <1>6 DEF release, At, Goto, holding, TypeOK,
      Labels, ModeInv, NoPanic, Ctxs, vars, lockvars, cpuvars, ctxvars
<1>7. ASSUME NEW k \in Ctxs, ClearCpu(k) PROVE ModeInv'
  BY <1>t, <1>i, <1>7 DEF ClearCpu, At, Goto, clearCpu, TypeOK, Labels,
     ModeInv, NoPanic, Ctxs, vars, lockvars, cpuvars, ctxvars
<1>8. ASSUME NEW k \in Ctxs, Unlock(k) PROVE ModeInv'
  BY <1>t, <1>i, <1>8 DEF Unlock, At, Goto, TypeOK, Labels, ModeInv, NoPanic,
     Ctxs, vars, lockvars, cpuvars, ctxvars
<1>9. ASSUME NEW k \in Ctxs, popcli(k) PROVE ModeInv'
  BY SMTT(30), <1>t, <1>i, <1>9 DEF popcli, At, Goto, TypeOK, Labels, ModeInv,
      NoPanic, Ctxs, vars, lockvars, cpuvars, ctxvars
<1>10. ASSUME NEW c \in CPUs, Interrupt(c) PROVE ModeInv'
  <2> DEFINE k == <<c, "thread">>
  <2>1. k \in Ctxs /\ k[1] = c /\ k[2] = "thread"
    BY DEF Ctxs
  <2>2. ncli[c] = 0 /\ mode[c] = "thread"
    BY <1>i, <1>10 DEF FlagInv, Interrupt
  <2>3. held[k] = {} /\ pc[k] \in {"run", "cli"}
    BY SMTT(30), <1>t, <1>i, <2>1, <2>2, Count DEF Counted, TypeOK, Labels,
        NoPanic
  <2>4. ASSUME NEW j \in Ctxs, mode'[j[1]] # j[2]
        PROVE  /\ held'[j] = {}
               /\ pc'[j] \in (IF j[2] = "intr" THEN {"run"} ELSE {"run", "cli"})
    <3>1. CASE j = k
      BY <1>10, <2>3, <3>1 DEF Interrupt, ctxvars
    <3>2. CASE j # k
      BY <1>t, <1>i, <1>10, <2>4, <3>2 DEF Interrupt, ctxvars, ModeInv, TypeOK,
         Ctxs
    <3>3. QED
      BY <3>1, <3>2
  <2>5. QED
    BY <2>4 DEF ModeInv
<1>11. ASSUME NEW c \in CPUs, iret(c) PROVE ModeInv'
  <2>1. ASSUME NEW j \in Ctxs, mode'[j[1]] # j[2]
        PROVE  /\ held'[j] = {}
               /\ pc'[j] \in (IF j[2] = "intr" THEN {"run"} ELSE {"run", "cli"})
    <3>1. CASE j = <<c, "intr">>
      BY <1>11, <3>1 DEF iret, At, ctxvars
    <3>2. CASE j # <<c, "intr">>
      BY <1>t, <1>i, <1>11, <2>1, <3>2 DEF iret, ctxvars, ModeInv, TypeOK, Ctxs
    <3>3. QED
      BY <3>1, <3>2
  <2>2. QED
    BY <2>1 DEF ModeInv
<1>12. CASE UNCHANGED vars
  BY SMTT(30), <1>t, <1>i, <1>12 DEF ModeInv, NoPanic, TypeOK, vars, lockvars,
      cpuvars, ctxvars
<1> QED
  BY <1>1, <1>2, <1>3, <1>4, <1>5, <1>6, <1>7, <1>8, <1>9, <1>10, <1>11, <1>12
     DEF Next, Step, Release

\* ncli counts the locks of the context that runs.
LEMMA NcliStep == IInv /\ [Next]_vars => NcliInv'
<1> SUFFICES ASSUME IInv, [Next]_vars PROVE NcliInv'
  OBVIOUS
<1>t. TypeOK
  BY DEF IInv
<1>i. OwnInv /\ OwnerInv /\ ModeInv /\ NcliInv /\ FlagInv /\ NoPanic
  BY DEF IInv
<1>n. NoPanic'
  BY SMTT(30), NoPanicStep
<1>1. ASSUME NEW k \in Ctxs, NEW l \in Locks, acquire(k, l) PROVE NcliInv'
  BY SMTT(30), <1>t, <1>i, <1>1 DEF acquire, At, Goto, TypeOK, Labels,
      ModeInv, NcliInv, OwnInv, Owns, Between, Counted, NoPanic, Ctxs, vars,
      lockvars, cpuvars, ctxvars
<1>2. ASSUME NEW k \in Ctxs, pushcli(k) PROVE NcliInv'
  <2>1. ASSUME NEW j \in Ctxs, mode'[j[1]] = j[2]
        PROVE  ncli'[j[1]] = Cardinality(held'[j])
                             + (IF pc'[j] \in Counted THEN 1 ELSE 0)
    <3>1. mode[j[1]] = j[2] /\ mode[k[1]] = k[2] /\ j[1] \in CPUs /\ k[1] \in CPUs
      BY <1>2, <2>1 DEF pushcli, At, cpuvars, Ctxs
    <3>2. ncli[j[1]] = Cardinality(held[j]) + (IF pc[j] \in Counted THEN 1 ELSE 0)
      BY <1>i, <3>1 DEF NcliInv
    <3>c. Cardinality(held[j]) \in Nat
      BY Zenon, <1>t, HeldCard, ConstantsAssumption DEF TypeOK, Locks
    <3>3. CASE j = k
      BY <1>t, <1>2, <3>1, <3>2, <3>c, <3>3 DEF pushcli, At, Goto, cli,
         SaveIntena, Nested, TypeOK, Counted, cpuvars, lockvars
    <3>4. CASE j # k
      <4>1. j[1] # k[1]
        BY <1>t, <3>1, <3>4, OtherCpu
      <4>2. QED
        BY <1>t, <1>2, <3>1, <3>2, <3>4, <4>1 DEF pushcli, At, Goto, cli,
           SaveIntena, Nested, TypeOK, cpuvars, lockvars
    <3>5. QED
      BY <3>3, <3>4
  <2>2. QED
    BY <2>1 DEF NcliInv
<1>3. ASSUME NEW k \in Ctxs, AcquireHolding(k) PROVE NcliInv'
  <2>1. ASSUME NEW j \in Ctxs, mode'[j[1]] = j[2]
        PROVE  ncli'[j[1]] = Cardinality(held'[j])
                             + (IF pc'[j] \in Counted THEN 1 ELSE 0)
    <3>1. mode[j[1]] = j[2] /\ mode[k[1]] = k[2] /\ j[1] \in CPUs /\ k[1] \in CPUs
      BY <1>3, <2>1 DEF AcquireHolding, At, cpuvars, Ctxs
    <3>2. ncli[j[1]] = Cardinality(held[j]) + (IF pc[j] \in Counted THEN 1 ELSE 0)
      BY <1>i, <3>1 DEF NcliInv
    <3>c. Cardinality(held[j]) \in Nat
      BY Zenon, <1>t, HeldCard, ConstantsAssumption DEF TypeOK, Locks
    <3>3. CASE j = k
      <4>1. pc[k] = "hold" /\ pc'[k] \in {"xchg", "panic"} /\ held' = held /\ ncli' = ncli
        BY <1>t, <1>3 DEF AcquireHolding, At, Goto, TypeOK, cpuvars
      <4>2. pc'[k] # "panic"
        BY <1>n DEF NoPanic
      <4>3. QED
        BY <3>2, <3>3, <4>1, <4>2 DEF Counted
    <3>4. CASE j # k
      <4>1. j[1] # k[1]
        BY <1>t, <3>1, <3>4, OtherCpu
      <4>2. QED
        BY <1>t, <1>3, <3>1, <3>2, <3>4, <4>1 DEF AcquireHolding, At, Goto,
           holding, TypeOK, cpuvars, lockvars
    <3>5. QED
      BY <3>3, <3>4
  <2>2. QED
    BY <2>1 DEF NcliInv
<1>4. ASSUME NEW k \in Ctxs, Xchg(k) PROVE NcliInv'
  BY <1>t, <1>i, <1>4 DEF Xchg, At, Goto, xchg, TypeOK, Labels, ModeInv,
     NcliInv, OwnInv, Owns, Between, Counted, NoPanic, Ctxs, vars, lockvars,
     cpuvars, ctxvars
<1>5. ASSUME NEW k \in Ctxs, SetCpu(k) PROVE NcliInv'
  <2>1. ASSUME NEW j \in Ctxs, mode'[j[1]] = j[2]
        PROVE  ncli'[j[1]] = Cardinality(held'[j])
                             + (IF pc'[j] \in Counted THEN 1 ELSE 0)
    <3>1. mode[j[1]] = j[2] /\ mode[k[1]] = k[2] /\ j[1] \in CPUs /\ k[1] \in CPUs
      BY SMTT(30), <1>5, <2>1 DEF SetCpu, At, cpuvars, Ctxs
    <3>2. ncli[j[1]] = Cardinality(held[j]) + (IF pc[j] \in Counted THEN 1 ELSE 0)
      BY <1>i, <3>1 DEF NcliInv
    <3>c. Cardinality(held[j]) \in Nat
      BY Zenon, <1>t, HeldCard, ConstantsAssumption DEF TypeOK, Locks
    <3>3. CASE j = k
      <4>1. held[k] \in SUBSET Locks /\ lk[k] \in Locks /\ lk[k] \notin held[k]
        BY <1>t, <1>i, <1>5 DEF SetCpu, At, OwnInv, TypeOK, Locks
      <4>2. Cardinality(held[k] \union {lk[k]}) = Cardinality(held[k]) + 1
        BY <4>1, HeldCard
      <4>3. held'[k] = held[k] \union {lk[k]} /\ pc[k] = "setcpu" /\ pc'[k] = "run" /\ ncli' = ncli
        BY SMTT(30), <1>t, <1>5 DEF SetCpu, At, Goto, TypeOK, cpuvars
      <4>4. QED
        BY SMTT(30), <3>2, <3>c, <3>3, <4>2, <4>3 DEF Counted
    <3>4. CASE j # k
      <4>1. j[1] # k[1]
        BY <1>t, <3>1, <3>4, OtherCpu
      <4>2. QED
        BY SMTT(30), <1>t, <1>5, <3>1, <3>2, <3>4, <4>1 DEF SetCpu, At, Goto,
            TypeOK, cpuvars, lockvars
    <3>5. QED
      BY <3>3, <3>4
  <2>2. QED
    BY <2>1 DEF NcliInv
<1>6. ASSUME NEW k \in Ctxs, NEW l \in Locks, release(k, l) PROVE NcliInv'
  <2>1. ASSUME NEW j \in Ctxs, mode'[j[1]] = j[2]
        PROVE  ncli'[j[1]] = Cardinality(held'[j])
                             + (IF pc'[j] \in Counted THEN 1 ELSE 0)
    <3>1. mode[j[1]] = j[2] /\ mode[k[1]] = k[2] /\ j[1] \in CPUs /\ k[1] \in CPUs
      BY SMTT(30), <1>6, <2>1 DEF release, At, cpuvars, Ctxs
    <3>2. ncli[j[1]] = Cardinality(held[j]) + (IF pc[j] \in Counted THEN 1 ELSE 0)
      BY <1>i, <3>1 DEF NcliInv
    <3>c. Cardinality(held[j]) \in Nat
      BY Zenon, <1>t, HeldCard, ConstantsAssumption DEF TypeOK, Locks
    <3>3. CASE j = k
      <4>1. held[k] \in SUBSET Locks /\ l \in held[k]
        BY <1>t, <1>6 DEF release, TypeOK
      <4>2. Cardinality(held[k] \ {l}) = Cardinality(held[k]) - 1
        BY <4>1, HeldCard
      <4>3. held'[k] = held[k] \ {l} /\ pc[k] = "run" /\ pc'[k] \in {"clearcpu", "panic"} /\ ncli' = ncli
        BY <1>t, <1>6 DEF release, At, Goto, TypeOK, cpuvars
      <4>4. pc'[k] # "panic"
        BY <1>t, <1>i, <1>6, <4>1 DEF release, Goto, holding, OwnInv, Owns,
           OwnerInv, TypeOK
      <4>5. QED
        BY <3>2, <3>c, <3>3, <4>2, <4>3, <4>4 DEF Counted
    <3>4. CASE j # k
      <4>1. j[1] # k[1]
        BY SMTT(30), <1>t, <3>1, <3>4, OtherCpu
      <4>2. QED
        BY SMTT(30), <1>t, <1>6, <3>1, <3>2, <3>4, <4>1 DEF release, At, Goto,
            holding, TypeOK, cpuvars, lockvars
    <3>5. QED
      BY SMTT(30), <3>3, <3>4
  <2>2. QED
    BY <2>1 DEF NcliInv
<1>7. ASSUME NEW k \in Ctxs, ClearCpu(k) PROVE NcliInv'
  <2>1. ASSUME NEW j \in Ctxs, mode'[j[1]] = j[2]
        PROVE  ncli'[j[1]] = Cardinality(held'[j])
                             + (IF pc'[j] \in Counted THEN 1 ELSE 0)
    <3>1. mode[j[1]] = j[2] /\ mode[k[1]] = k[2] /\ j[1] \in CPUs /\ k[1] \in CPUs
      BY SMTT(30), <1>7, <2>1 DEF ClearCpu, At, cpuvars, Ctxs
    <3>2. ncli[j[1]] = Cardinality(held[j]) + (IF pc[j] \in Counted THEN 1 ELSE 0)
      BY <1>i, <3>1 DEF NcliInv
    <3>c. Cardinality(held[j]) \in Nat
      BY Zenon, <1>t, HeldCard, ConstantsAssumption DEF TypeOK, Locks
    <3>3. CASE j = k
      BY SMTT(30), <1>t, <1>7, <3>1, <3>2, <3>c, <3>3 DEF ClearCpu, At, Goto,
          clearCpu, TypeOK, Counted, cpuvars, lockvars
    <3>4. CASE j # k
      <4>1. j[1] # k[1]
        BY <1>t, <3>1, <3>4, OtherCpu
      <4>2. QED
        BY SMTT(30), <1>t, <1>7, <3>1, <3>2, <3>4, <4>1 DEF ClearCpu, At,
            Goto, clearCpu, TypeOK, cpuvars, lockvars
    <3>5. QED
      BY <3>3, <3>4
  <2>2. QED
    BY <2>1 DEF NcliInv
<1>8. ASSUME NEW k \in Ctxs, Unlock(k) PROVE NcliInv'
  BY SMTT(30), <1>t, <1>i, <1>8 DEF Unlock, At, Goto, TypeOK, Labels, ModeInv,
      NcliInv, OwnInv, Owns, Between, Counted, NoPanic, Ctxs, vars, lockvars,
      cpuvars, ctxvars
<1>9. ASSUME NEW k \in Ctxs, popcli(k) PROVE NcliInv'
  <2>1. ASSUME NEW j \in Ctxs, mode'[j[1]] = j[2]
        PROVE  ncli'[j[1]] = Cardinality(held'[j])
                             + (IF pc'[j] \in Counted THEN 1 ELSE 0)
    <3>1. mode[j[1]] = j[2] /\ mode[k[1]] = k[2] /\ j[1] \in CPUs /\ k[1] \in CPUs
      BY SMTT(30), <1>9, <2>1 DEF popcli, At, cpuvars, Ctxs
    <3>2. ncli[j[1]] = Cardinality(held[j]) + (IF pc[j] \in Counted THEN 1 ELSE 0)
      BY <1>i, <3>1 DEF NcliInv
    <3>c. Cardinality(held[j]) \in Nat
      BY Zenon, <1>t, HeldCard, ConstantsAssumption DEF TypeOK, Locks
    <3>3. CASE j = k
      <4>1. pc[k] = "popcli" /\ pc'[k] \in {"run", "panic"} /\ held' = held /\ ncli'[k[1]] = ncli[k[1]] - 1
        BY SMTT(30), <1>t, <1>9, <3>1 DEF popcli, At, Goto, TypeOK
      <4>2. QED
        BY SMTT(30), <3>2, <3>c, <3>3, <4>1 DEF Counted
    <3>4. CASE j # k
      <4>1. j[1] # k[1]
        BY <1>t, <3>1, <3>4, OtherCpu
      <4>2. QED
        BY SMTT(30), <1>t, <1>9, <3>1, <3>2, <3>4, <4>1 DEF popcli, At, Goto,
            TypeOK, cpuvars, lockvars
    <3>5. QED
      BY <3>3, <3>4
  <2>2. QED
    BY <2>1 DEF NcliInv
<1>10. ASSUME NEW c \in CPUs, Interrupt(c) PROVE NcliInv'
  <2>1. ASSUME NEW j \in Ctxs, mode'[j[1]] = j[2]
        PROVE  ncli'[j[1]] = Cardinality(held'[j])
                             + (IF pc'[j] \in Counted THEN 1 ELSE 0)
    <3>1. CASE j[1] = c
      <4>1. j = <<c, "intr">> /\ mode[c] = "thread" /\ c \in CPUs
        BY <1>t, <1>10, <2>1, <3>1 DEF Interrupt, TypeOK, Ctxs
      <4>2. PICK k \in Ctxs : k = <<c, "thread">>
        BY Zenon, <4>1 DEF Ctxs
      <4>3. mode[k[1]] = k[2] /\ k[1] = c
        BY <4>1, <4>2
      <4>4. ncli[c] = 0
        BY <1>i, <1>10 DEF FlagInv, Interrupt
      <4>5. held[j] = {} /\ pc[j] \in {"run", "cli"}
        BY <1>i, <4>1 DEF ModeInv
      <4>6. Cardinality({}) = 0
        BY FS_EmptySet
      <4>7. QED
        BY SMTT(30), <1>10, <4>1, <4>4, <4>5, <4>6 DEF Interrupt, ctxvars,
            Counted
    <3>2. CASE j[1] # c
      BY <1>t, <1>i, <1>10, <2>1, <3>2 DEF Interrupt, ctxvars, NcliInv, TypeOK,
         Ctxs
    <3>3. QED
      BY SMTT(30), <3>1, <3>2
  <2>2. QED
    BY <2>1 DEF NcliInv
<1>11. ASSUME NEW c \in CPUs, iret(c) PROVE NcliInv'
  <2>1. ASSUME NEW j \in Ctxs, mode'[j[1]] = j[2]
        PROVE  ncli'[j[1]] = Cardinality(held'[j])
                             + (IF pc'[j] \in Counted THEN 1 ELSE 0)
    <3>1. CASE j[1] = c
      <4>1. j = <<c, "thread">> /\ mode[c] = "intr" /\ c \in CPUs
        BY <1>t, <1>11, <2>1, <3>1 DEF iret, At, TypeOK, Ctxs
      <4>2. PICK k \in Ctxs : k = <<c, "intr">>
        BY ZenonT(30), <4>1 DEF Ctxs
      <4>3. mode[k[1]] = k[2] /\ k[1] = c
        BY <4>1, <4>2
      <4>4. ncli[c] = 0
        BY <1>t, <1>i, <1>11, <4>2, <4>3, Count DEF iret, At, Counted
      <4>5. held[j] = {} /\ pc[j] \in {"run", "cli"}
        BY <1>i, <4>1 DEF ModeInv
      <4>6. Cardinality({}) = 0
        BY FS_EmptySet
      <4>7. QED
        BY <1>11, <4>1, <4>4, <4>5, <4>6 DEF iret, At, ctxvars, Counted
    <3>2. CASE j[1] # c
      BY SMTT(30), <1>t, <1>i, <1>11, <2>1, <3>2 DEF iret, At, ctxvars,
          NcliInv, TypeOK, Ctxs
    <3>3. QED
      BY <3>1, <3>2
  <2>2. QED
    BY <2>1 DEF NcliInv
<1>12. CASE UNCHANGED vars
  BY <1>t, <1>i, <1>12 DEF ModeInv, NcliInv, OwnInv, Owns, Between, Counted,
     NoPanic, TypeOK, vars, lockvars, cpuvars, ctxvars
<1> QED
  BY <1>1, <1>2, <1>3, <1>4, <1>5, <1>6, <1>7, <1>8, <1>9, <1>10, <1>11, <1>12
     DEF Next, Step, Release

\* The interrupt flag follows ncli.
LEMMA FlagStep == IInv /\ [Next]_vars => FlagInv'
<1> SUFFICES ASSUME IInv, [Next]_vars PROVE FlagInv'
  OBVIOUS
<1>t. TypeOK
  BY DEF IInv
<1>i. ModeInv /\ NcliInv /\ FlagInv /\ NoPanic
  BY DEF IInv
<1>1. ASSUME NEW k \in Ctxs, NEW l \in Locks, acquire(k, l) PROVE FlagInv'
  <2>1. mode[k[1]] = k[2] /\ k[1] \in CPUs
    BY SMTT(30), <1>1 DEF acquire, At, Ctxs
  <2>2. held[k] = {} => (fl_if[k[1]] <=> k[2] = "thread")
    BY SMTT(30), <1>t, <1>i, <1>1, <2>1, Count DEF FlagInv, acquire, At,
        Counted
  <2>3. QED
    BY <1>t, <1>i, <1>1, <2>2 DEF acquire, Goto, FlagInv, TypeOK, cpuvars, Ctxs
<1>2. ASSUME NEW k \in Ctxs, pushcli(k) PROVE FlagInv'
  <2>1. mode[k[1]] = k[2] /\ k[1] \in CPUs /\ pc[k] = "cli"
    BY <1>2 DEF pushcli, At, Ctxs
  <2>2. ncli[k[1]] \in Nat /\ (ncli[k[1]] = 0 => held[k] = {})
    BY <1>t, <1>i, <2>1, Count
  <2>3. SaveIntena(k[1], eflags[k]) <=> mode[k[1]] = "thread"
    BY SMTT(30), <1>t, <1>i, <2>1, <2>2 DEF SaveIntena, FlagInv, TypeOK
  <2>4. \A c \in CPUs : IF ncli'[c] = 0 THEN fl_if'[c] <=> mode'[c] = "thread"
                       ELSE ~fl_if'[c] /\ (intena'[c] <=> mode'[c] = "thread")
    BY SMTT(30), <1>t, <1>i, <1>2, <2>1, <2>2, <2>3 DEF pushcli, cli, Nested,
        FlagInv, TypeOK
  <2>5. QED
    BY <1>t, <1>i, <1>2, <2>4 DEF pushcli, Goto, FlagInv, TypeOK, Ctxs
<1>3. ASSUME NEW k \in Ctxs, AcquireHolding(k) PROVE FlagInv'
  BY SMTT(30), <1>t, <1>i, <1>3 DEF AcquireHolding, At, Goto, holding, TypeOK,
      Labels, ModeInv, FlagInv, NoPanic, Ctxs, vars, lockvars, cpuvars,
      ctxvars
<1>4. ASSUME NEW k \in Ctxs, Xchg(k) PROVE FlagInv'
  BY SMTT(30), <1>t, <1>i, <1>4 DEF Xchg, At, Goto, xchg, TypeOK, Labels,
      ModeInv, FlagInv, NoPanic, Ctxs, vars, lockvars, cpuvars, ctxvars
<1>5. ASSUME NEW k \in Ctxs, SetCpu(k) PROVE FlagInv'
  BY SMTT(30), <1>t, <1>i, <1>5 DEF SetCpu, At, Goto, TypeOK, Labels, ModeInv,
      FlagInv, NoPanic, Ctxs, vars, lockvars, cpuvars, ctxvars
<1>6. ASSUME NEW k \in Ctxs, NEW l \in Locks, release(k, l) PROVE FlagInv'
  BY SMTT(30), <1>t, <1>i, <1>6 DEF release, At, Goto, holding, TypeOK,
      Labels, ModeInv, FlagInv, NoPanic, Ctxs, vars, lockvars, cpuvars,
      ctxvars
<1>7. ASSUME NEW k \in Ctxs, ClearCpu(k) PROVE FlagInv'
  BY SMTT(30), <1>t, <1>i, <1>7 DEF ClearCpu, At, Goto, clearCpu, TypeOK,
      Labels, ModeInv, FlagInv, NoPanic, Ctxs, vars, lockvars, cpuvars,
      ctxvars
<1>8. ASSUME NEW k \in Ctxs, Unlock(k) PROVE FlagInv'
  BY SMTT(30), <1>t, <1>i, <1>8 DEF Unlock, At, Goto, TypeOK, Labels, ModeInv,
      FlagInv, NoPanic, Ctxs, vars, lockvars, cpuvars, ctxvars
<1>9. ASSUME NEW k \in Ctxs, popcli(k) PROVE FlagInv'
  <2>1. mode[k[1]] = k[2] /\ k[1] \in CPUs
    BY SMTT(30), <1>9 DEF popcli, At, Ctxs
  <2>2. ncli[k[1]] \in Nat \ {0}
    BY SMTT(30), <1>t, <1>i, <1>9, <2>1, Count DEF popcli, At, Counted
  <2>3. ~fl_if[k[1]] /\ (intena[k[1]] <=> mode[k[1]] = "thread")
    BY SMTT(30), <1>i, <2>1, <2>2 DEF FlagInv
  <2>4. \A c \in CPUs : IF ncli'[c] = 0 THEN fl_if'[c] <=> mode'[c] = "thread"
                       ELSE ~fl_if'[c] /\ (intena'[c] <=> mode'[c] = "thread")
    BY SMTT(30), <1>t, <1>i, <1>9, <2>1, <2>2, <2>3 DEF popcli, FlagInv, TypeOK
  <2>5. QED
    BY SMTT(30), <1>t, <1>i, <1>9, <2>4 DEF popcli, Goto, FlagInv, TypeOK, Ctxs
<1>10. ASSUME NEW c \in CPUs, Interrupt(c) PROVE FlagInv'
  BY SMTT(30), <1>t, <1>i, <1>10 DEF Interrupt, TypeOK, Labels, ModeInv,
      FlagInv, NoPanic, Ctxs, vars, lockvars, cpuvars, ctxvars
<1>11. ASSUME NEW c \in CPUs, iret(c) PROVE FlagInv'
  <2>1. <<c, "intr">> \in Ctxs
    BY DEF Ctxs
  <2>2. ncli[c] = 0
    BY SMTT(30), <1>t, <1>i, <1>11, <2>1, Count DEF iret, At, Counted
  <2>3. QED
    BY <1>t, <1>i, <1>11, <2>2 DEF iret, FlagInv, TypeOK, ctxvars
<1>12. CASE UNCHANGED vars
  BY <1>t, <1>i, <1>12 DEF ModeInv, FlagInv, NoPanic, TypeOK, vars, lockvars,
     cpuvars, ctxvars
<1> QED
  BY <1>1, <1>2, <1>3, <1>4, <1>5, <1>6, <1>7, <1>8, <1>9, <1>10, <1>11, <1>12
     DEF Next, Step, Release

\* acquire(), release() and interrupts keep the invariant.
THEOREM Invariance == Spec => []IInv
<1>1. Init => IInv
  <2> SUFFICES ASSUME Init PROVE IInv
    OBVIOUS
  <2>1. TypeOK /\ NoPanic
    BY SMTT(30), ConstantsAssumption DEF Init, TypeOK, NoPanic, Labels, Locks,
        Ctxs
  <2>2. OwnInv /\ OwnerInv /\ ModeInv
    BY DEF Init, OwnInv, Owns, Between, OwnerInv, ModeInv, Ctxs
  <2>3. NcliInv /\ FlagInv
    BY FS_EmptySet DEF Init, NcliInv, FlagInv, Counted, Ctxs
  <2>4. QED
    BY <2>1, <2>2, <2>3 DEF IInv
<1>2. IInv /\ [Next]_vars => IInv'
  BY TypeOKStep, NoPanicStep, OwnStep, OwnerStep, ModeStep, NcliStep, FlagStep
  DEF IInv
<1>3. QED
  BY <1>1, <1>2, PTL DEF Spec

\* Spin locks exclude each other, for any number of CPUs, with interrupts.
THEOREM MutualExclusionThm == Spec => []MutualExclusion
<1>1. IInv => MutualExclusion
  BY SMTT(30) DEF IInv, OwnInv, Owns, MutualExclusion
<1>2. QED
  BY Invariance, <1>1, PTL

\* No interrupt comes between acquire() and release().
THEOREM InterruptsOffThm == Spec => []InterruptsOff
<1>1. IInv => InterruptsOff
  <2> SUFFICES ASSUME IInv, NEW k \in Ctxs,
                      held[k] # {} \/ pc[k] \notin {"run", "cli", "panic"}
               PROVE  ~fl_if[k[1]]
    BY DEF InterruptsOff, Ctxs
  <2>1. mode[k[1]] = k[2] /\ k[1] \in CPUs
    BY SMTT(30) DEF IInv, ModeInv, Ctxs
  <2>2. ncli[k[1]] # 0
    BY <2>1, Count DEF IInv, TypeOK, Labels, Counted
  <2>3. QED
    BY <2>1, <2>2 DEF IInv, FlagInv
<1>2. QED
  BY Invariance, <1>1, PTL

\* pushcli() and popcli() leave interrupts as they found them.
THEOREM InterruptsRestoredThm == Spec => []InterruptsRestored
<1>1. IInv => InterruptsRestored
  <2> SUFFICES ASSUME IInv, NEW c \in CPUs, NEW k \in Ctxs, k = <<c, mode[c]>>,
                      pc[k] \in {"run", "cli"}, held[k] = {}
               PROVE  fl_if[c] = (mode[c] = "thread")
    BY Zenon DEF InterruptsRestored, IInv, TypeOK, Ctxs
  <2>1. ncli[c] = 0
    BY Count DEF IInv, Counted
  <2>2. fl_if[c] <=> mode[c] = "thread"
    BY <2>1 DEF IInv, FlagInv
  <2>3. fl_if[c] \in BOOLEAN
    BY DEF IInv, TypeOK
  <2>4. QED
    BY SMTT(30), <2>2, <2>3
<1>2. QED
  BY Invariance, <1>1, PTL

\* Callers that keep the lock order never meet a panic.
THEOREM NoPanicThm == Spec => []NoPanic
BY Invariance, PTL DEF IInv
=============================================================================
