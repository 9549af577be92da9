-------------------------------- MODULE Fs ----------------------------------
(***************************************************************************)
(* Inodes, directories, path names, the file table and the system calls on *)
(* them: fs.c, file.c and sysfile.c (with the parts of fork() and exit()   *)
(* that copy and close files).                                             *)
(*                                                                         *)
(* dinode is the disk as the running system sees it, the log included; the *)
(* blocks of a directory are its sequence of entries, the content of files *)
(* is the business of FileData.  A pointer to an inode is a slot of the    *)
(* inode cache and 0 is the null pointer.                                  *)
(*                                                                         *)
(* Every sleep-lock that is taken starts a step.  A step that takes a lock *)
(* and gives it back is atomic: all it does besides is one access to the   *)
(* cache.  iput() is three steps, since it tests the reference count and   *)
(* drops its reference at different times.  put[p] are the references that *)
(* p gives to iput() before its next step at pc[p].                        *)
(***************************************************************************)
EXTENDS Integers, Sequences, FiniteSets, FiniteSetsExt

CONSTANTS
  Procs,
  Started,    \* the processes that run at first; the others wait for fork()
  None,       \* not a process
  ninodes, NINODE, NFILE, NOFILE,
  Scenarios,  \* bound: of each process, the system calls it may make and
              \* how many of them
  Tree,       \* the file system at first
  Opened      \* the open files at first: file k is descriptor 0 of process
              \* Opened[k].p, on inode Opened[k].i

ROOTINO == 1
Inums == 1 .. ninodes - 1
Slots == 1 .. NINODE
Files == 1 .. NFILE
Fds == 0 .. NOFILE - 1

\* The panic "iget: no inodes" is out of the model: the cache holds them all.
ASSUME ConstantsAssumption ==
  /\ Started \subseteq Procs /\ None \notin Procs
  /\ NINODE >= ninodes - 1 /\ ROOTINO \in Inums
  /\ {NFILE, NOFILE} \subseteq Nat

VARIABLES
  dinode,    \* on disk: type, nlink and, of a directory, its entries
  icache,    \* icache.inode
  ftable,    \* ftable.file
  ofile, cwd,
  pc, call,  \* the system call that p is in, and where
  reg,       \* the variables of its functions
  put, stage,
  budget,    \* the system calls that p may still make, and how many
  raced,     \* history: inodes of which two iput() overlapped
  lost,      \* history: inodes that were given a name in a removed directory
  panic

disk == <<dinode, raced, lost>>
files == <<ftable, ofile, cwd>>
vars == <<dinode, icache, ftable, ofile, cwd, pc, call, reg, put, stage,
          budget, raced, lost, panic>>

FreeDinode == [type |-> "free", nlink |-> 0, ents |-> << >>]
FreeFile == [ref |-> 0, type |-> "none", ip |-> 0]
Reg0 == [at |-> 0, ip |-> 0, dp |-> 0, f |-> 0, path |-> << >>, name |-> "",
         parent |-> FALSE, dead |-> FALSE]
NoCall == [op |-> "none"]

-----------------------------------------------------------------------------
(* Directories: an entry whose inum is 0 is empty.                         *)

Matches(ents, name) ==
  {k \in DOMAIN ents : ents[k].inum # 0 /\ ents[k].name = name}

\* The i-number under that name, 0 if there is none.
dirlookup(ents, name) ==
  LET M == Matches(ents, name) IN IF M = {} THEN 0 ELSE ents[Min(M)].inum

dirlink(ents, name, i) ==
  LET E == {k \in DOMAIN ents : ents[k].inum = 0}
      de == [name |-> name, inum |-> i]
  IN  IF E = {} THEN Append(ents, de) ELSE [ents EXCEPT ![Min(E)] = de]

\* unlink writes a zeroed entry over the one it removes.
Zeroed(ents, name) ==
  [ents EXCEPT ![Min(Matches(ents, name))] = [name |-> "", inum |-> 0]]

\* The first two entries are "." and "..".
isdirempty(ents) == \A k \in 3 .. Len(ents) : ents[k].inum = 0

NewDir(i, parent) ==
  <<[name |-> ".", inum |-> i], [name |-> "..", inum |-> parent]>>

-----------------------------------------------------------------------------
(* The inode cache.                                                        *)

Cached(ic, i) == {s \in Slots : ic[s].ref > 0 /\ ic[s].inum = i}

IgetSlot(ic, i) ==
  IF Cached(ic, i) # {} THEN Min(Cached(ic, i))
                        ELSE Min({s \in Slots : ic[s].ref = 0})

idup(ic, s) == [ic EXCEPT ![s].ref = @ + 1]

iget(ic, i) ==
  LET s == IgetSlot(ic, i) IN
  IF s \in Cached(ic, i)
  THEN idup(ic, s)
  ELSE [ic EXCEPT ![s].inum = i, ![s].ref = 1, ![s].valid = FALSE]

\* What ilock() reads from disk.
Load(ic, s) ==
  IF ic[s].valid
  THEN ic
  ELSE [ic EXCEPT ![s].valid = TRUE,
                  ![s].type = dinode[ic[s].inum].type,
                  ![s].nlink = dinode[ic[s].inum].nlink]

NoType(s) == ~icache[s].valid /\ dinode[icache[s].inum].type = "free"

Lock(ic, s, p) == [Load(ic, s) EXCEPT ![s].lock = p]
Unlock(ic, s) == [ic EXCEPT ![s].lock = None]

\* The disk after iupdate() of slot s of the cache ic.
iupdate(di, ic, s) ==
  [di EXCEPT ![ic[s].inum].type = ic[s].type, ![ic[s].inum].nlink = ic[s].nlink]

SetLinks(ic, s, n) == [ic EXCEPT ![s].nlink = n]

FreeInums == {i \in Inums : dinode[i].type = "free"}

-----------------------------------------------------------------------------
(* Where a process is.                                                     *)

\* The function at each label begins with an ilock() of this variable.
LockReg ==
  [walk |-> "at", create |-> "dp", createOld |-> "ip", createNew |-> "ip",
   open |-> "ip", unlink |-> "dp", unlinkFile |-> "ip", link |-> "ip",
   linkDir |-> "dp", linkBad |-> "ip", chdir |-> "ip"]

InIput(p) == put[p] # << >>

\* The slot that the next step of p locks, 0 if it locks none.
Locks(p) ==
  IF InIput(p) THEN IF stage[p] = "lock" THEN Head(put[p]) ELSE 0
  ELSE IF pc[p] = "walk" /\ reg[p].path = << >> THEN 0
  ELSE IF pc[p] \in DOMAIN LockReg THEN reg[p][LockReg[pc[p]]]
  ELSE IF pc[p] = "fstat" THEN ftable[ofile[p][call[p].fd]].ip
  ELSE 0

Available(p) == Locks(p) # 0 => icache[Locks(p)].lock = None

At(p, l) ==
  /\ panic = "" /\ ~InIput(p) /\ pc[p] = l
  /\ Available(p) /\ (Locks(p) # 0 => ~NoType(Locks(p)))

UserMode(p) == pc[p] = "user" /\ ~InIput(p)

Goto(p, l, r) ==
  /\ pc' = [pc EXCEPT ![p] = l] /\ reg' = [reg EXCEPT ![p] = r]
  /\ UNCHANGED <<call, stage, budget, panic>>

Return(p) ==
  /\ pc' = [pc EXCEPT ![p] = "user"] /\ reg' = [reg EXCEPT ![p] = Reg0]
  /\ call' = [call EXCEPT ![p] = NoCall]
  /\ UNCHANGED <<stage, budget, panic>>

Put(p, ss) == put' = [put EXCEPT ![p] = ss]

-----------------------------------------------------------------------------
Holders(i) ==
  Cardinality({k \in DOMAIN Opened : Opened[k].i = i})
    + (IF i = ROOTINO THEN Cardinality(Started) ELSE 0)

\* Processes that run in the root directory of Tree, with Opened open.
Init ==
  /\ dinode = Tree
  /\ icache = [s \in Slots |->
       [inum |-> s, ref |-> IF s \in Inums THEN Holders(s) ELSE 0,
        valid |-> s \in Inums /\ Holders(s) > 0,
        type |-> IF s \in Inums THEN Tree[s].type ELSE "free",
        nlink |-> IF s \in Inums THEN Tree[s].nlink ELSE 0, lock |-> None]]
  /\ ftable = [f \in Files |->
       IF f \in DOMAIN Opened THEN [ref |-> 1, type |-> "inode", ip |-> Opened[f].i]
                              ELSE FreeFile]
  /\ ofile = [p \in Procs |-> [fd \in Fds |->
       LET F == {f \in DOMAIN Opened : Opened[f].p = p}
       IN  IF fd = 0 /\ F # {} THEN Min(F) ELSE 0]]
  /\ cwd = [p \in Procs |-> IF p \in Started THEN ROOTINO ELSE 0]
  /\ pc = [p \in Procs |-> IF p \in Started THEN "user" ELSE "gone"]
  /\ call = [p \in Procs |-> NoCall]
  /\ reg = [p \in Procs |-> Reg0]
  /\ put = [p \in Procs |-> << >>]
  /\ stage = [p \in Procs |-> "lock"]
  /\ budget \in Scenarios
  /\ raced = {} /\ lost = {} /\ panic = ""

-----------------------------------------------------------------------------
(* iput().                                                                 *)

\* (mutant) the other references are not looked at.
BugLastPut(e) == e.valid /\ e.nlink = 0

\* (mutant) the reference being dropped is not counted.
BugLastPutZero(e) == e.valid /\ e.nlink = 0 /\ e.ref = 0

\* The test, with the inode locked: it is the last reference to an inode
\* that no directory names.
LastPut(e) == e.valid /\ e.nlink = 0 /\ e.ref = 1

\* A process that has made the test and has yet to drop its reference.
Dropping(q, s) == InIput(q) /\ stage[q] = "drop" /\ Head(put[q]) = s

iputLock(p) ==
  /\ panic = "" /\ InIput(p) /\ stage[p] = "lock" /\ Available(p)
  /\ LET s == Head(put[p]) IN
     /\ IF LastPut(icache[s])
        THEN /\ stage' = [stage EXCEPT ![p] = "free"]
             /\ icache' = [icache EXCEPT ![s].lock = p]
        ELSE /\ stage' = [stage EXCEPT ![p] = "drop"]
             /\ UNCHANGED icache
     /\ raced' = IF \E q \in Procs \ {p} : Dropping(q, s)
                 THEN raced \union {icache[s].inum} ELSE raced
  /\ UNCHANGED <<dinode, lost, files, pc, call, reg, put, budget, panic>>

\* itrunc(), type = 0, iupdate(), valid = 0.
iputFree(p) ==
  /\ panic = "" /\ InIput(p) /\ stage[p] = "free"
  /\ LET s == Head(put[p]) IN
     /\ dinode' = [dinode EXCEPT ![icache[s].inum] = FreeDinode]
     /\ icache' = [Unlock(icache, s) EXCEPT ![s].type = "free", ![s].valid = FALSE]
  /\ stage' = [stage EXCEPT ![p] = "drop"]
  /\ UNCHANGED <<raced, lost, files, pc, call, reg, put, budget, panic>>

iputDrop(p) ==
  /\ panic = "" /\ InIput(p) /\ stage[p] = "drop"
  /\ icache' = [icache EXCEPT ![Head(put[p])].ref = @ - 1]
  /\ put' = [put EXCEPT ![p] = Tail(@)]
  /\ stage' = [stage EXCEPT ![p] = "lock"]
  /\ UNCHANGED <<disk, files, pc, call, reg, budget, panic>>

-----------------------------------------------------------------------------
(* namex().                                                                *)

\* The head of namex(): the root for a path that begins with "/".
StartWalk(p, path, parent, r) ==
  LET abs == path # << >> /\ Head(path) = "/"
      ic == IF abs THEN iget(icache, ROOTINO) ELSE idup(icache, cwd[p])
  IN  /\ icache' = ic
      /\ pc' = [pc EXCEPT ![p] = "walk"]
      /\ reg' = [reg EXCEPT ![p] =
           [r EXCEPT !.at = IF abs THEN IgetSlot(icache, ROOTINO) ELSE cwd[p],
                     !.path = IF abs THEN Tail(path) ELSE path,
                     !.parent = parent]]

\* What follows a lookup that finds its inode.
AfterName == [open |-> "open", link |-> "link", chdir |-> "chdir"]
AfterParent == [open |-> "create", mkdir |-> "create", mknod |-> "create",
                unlink |-> "unlink", link |-> "linkDir"]

Last(p) == reg[p].parent /\ Len(reg[p].path) = 1

\* nameiparent() stops one level early.
WalkStop(p) ==
  /\ At(p, "walk") /\ Last(p)
  /\ LET s == reg[p].at
         ic == Load(icache, s)
     IN  /\ ic[s].type = "DIR"
         /\ icache' = ic
         /\ Goto(p, AfterParent[call[p].op],
                 [reg[p] EXCEPT !.dp = s, !.at = 0, !.path = << >>,
                                !.name = Head(reg[p].path)])
  /\ UNCHANGED <<disk, files, put>>

\* An element that is not a directory, a name that is not there, or the
\* parent of the empty path.
WalkFail(p) ==
  /\ At(p, "walk")
  /\ LET s == reg[p].at
         ic == IF reg[p].path = << >> THEN icache ELSE Load(icache, s)
     IN  /\ IF reg[p].path = << >>
            THEN reg[p].parent
            ELSE \/ ic[s].type # "DIR"
                 \/ /\ ~Last(p)
                    /\ dirlookup(dinode[ic[s].inum].ents, Head(reg[p].path)) = 0
         /\ icache' = ic
         /\ Put(p, <<s>>)
  /\ IF call[p].op = "link" /\ reg[p].parent
     THEN Goto(p, "linkBad", [reg[p] EXCEPT !.at = 0, !.path = << >>])
     ELSE Return(p)
  /\ UNCHANGED <<disk, files>>

\* (mutant) the directory stays locked until the element is.
BugWalkDown(p) ==
  /\ At(p, "walk") /\ reg[p].path # << >> /\ ~Last(p)
  /\ LET s == reg[p].at
         d == reg[p].dp
         ic == Lock(icache, s, p)
         i == dirlookup(dinode[ic[s].inum].ents, Head(reg[p].path))
     IN  /\ ic[s].type = "DIR" /\ i # 0
         /\ icache' = IF d = 0 THEN iget(ic, i) ELSE Unlock(iget(ic, i), d)
         /\ Put(p, IF d = 0 THEN << >> ELSE <<d>>)
         /\ Goto(p, "walk", [reg[p] EXCEPT !.at = IgetSlot(ic, i), !.path = Tail(@),
                                           !.dp = s])
  /\ UNCHANGED <<disk, files>>

\* The next element is looked up and referenced with the directory locked,
\* and the directory is put before the element is locked.
WalkDown(p) ==
  /\ At(p, "walk") /\ reg[p].path # << >> /\ ~Last(p)
  /\ LET s == reg[p].at
         ic == Load(icache, s)
         i == dirlookup(dinode[ic[s].inum].ents, Head(reg[p].path))
     IN  /\ ic[s].type = "DIR" /\ i # 0
         /\ icache' = iget(ic, i)
         /\ Put(p, <<s>>)
         /\ Goto(p, "walk", [reg[p] EXCEPT !.at = IgetSlot(ic, i), !.path = Tail(@),
                                           !.dead = @ \/ ic[s].nlink = 0])
  /\ UNCHANGED <<disk, files>>

WalkEnd(p) ==
  /\ At(p, "walk") /\ reg[p].path = << >> /\ ~reg[p].parent
  /\ Goto(p, AfterName[call[p].op], [reg[p] EXCEPT !.ip = reg[p].at, !.at = 0])
  /\ UNCHANGED <<disk, files, icache, put>>

-----------------------------------------------------------------------------
\* The entry d of the cache is a directory that has been removed.
Lose(d, i) == lost' = IF d.nlink = 0 THEN lost \union {i, d.inum} ELSE lost

(* create(): for open with O_CREATE, mkdir and mknod.                      *)

NewType(op) == CASE op = "mkdir" -> "DIR" [] op = "mknod" -> "DEV"
                 [] OTHER -> "FILE"

\* The name exists: the directory is put before the inode is locked.
CreateFound(p) ==
  /\ At(p, "create")
  /\ LET s == reg[p].dp
         ic == Load(icache, s)
         i == dirlookup(dinode[ic[s].inum].ents, reg[p].name)
     IN  /\ i # 0
         /\ icache' = iget(ic, i)
         /\ Put(p, <<s>>)
         /\ Goto(p, "createOld",
                 [reg[p] EXCEPT !.ip = IgetSlot(ic, i), !.dp = 0])
  /\ UNCHANGED <<disk, files>>

\* ialloc() and its iget(), with the directory locked.
CreateAlloc(p) ==
  /\ At(p, "create") /\ FreeInums # {}
  /\ LET s == reg[p].dp
         ic == Lock(icache, s, p)
         i == Min(FreeInums)
     IN  /\ dirlookup(dinode[ic[s].inum].ents, reg[p].name) = 0
         /\ dinode' = [dinode EXCEPT ![i] =
                         [FreeDinode EXCEPT !.type = NewType(call[p].op)]]
         /\ icache' = iget(ic, i)
         /\ Goto(p, "createNew", [reg[p] EXCEPT !.ip = IgetSlot(ic, i)])
  /\ UNCHANGED <<raced, lost, files, put>>

\* The new inode is filled in and named; it stays locked while the directory
\* is put.
CreateNew(p) ==
  /\ At(p, "createNew")
  /\ LET s == reg[p].ip
         d == reg[p].dp
         isdir == call[p].op = "mkdir"
         ic1 == SetLinks(Lock(icache, s, p), s, 1)
         ic2 == IF isdir THEN SetLinks(ic1, d, ic1[d].nlink + 1) ELSE ic1
         i == ic2[s].inum
         j == ic2[d].inum
     IN  /\ dinode' = [iupdate(iupdate(dinode, ic2, s), ic2, d) EXCEPT
                         ![i].ents = IF isdir THEN NewDir(i, j) ELSE << >>,
                         ![j].ents = dirlink(@, reg[p].name, i)]
         /\ icache' = Unlock(ic2, d)
         /\ Put(p, <<d>>)
         /\ Goto(p, IF call[p].op = "open" THEN "openNew" ELSE "createPut",
                 [reg[p] EXCEPT !.dp = 0])
         /\ Lose(ic1[d], i)
  /\ UNCHANGED <<raced, files>>

\* iunlockput(ip) of sys_mkdir() and sys_mknod().
CreatePut(p) ==
  /\ At(p, "createPut")
  /\ icache' = Unlock(icache, reg[p].ip)
  /\ Put(p, <<reg[p].ip>>)
  /\ Return(p)
  /\ UNCHANGED <<disk, files>>

-----------------------------------------------------------------------------
(* sys_open().  The file and the descriptor are allocated with the inode   *)
(* locked; the fields of the file are set later, in OpenFill.              *)

FreeFiles == {f \in Files : ftable[f].ref = 0}
FreeFds(p) == {fd \in Fds : ofile[p][fd] = 0}

PutBack(p, ic) ==
  /\ icache' = ic /\ Put(p, <<reg[p].ip>>) /\ Return(p) /\ UNCHANGED files

\* filealloc() and fdalloc(), or the way out when there is none.
OpenTail(p, ic) ==
  IF FreeFiles = {} \/ FreeFds(p) = {}
  THEN PutBack(p, ic)
  ELSE LET f == Min(FreeFiles) IN
       /\ ftable' = [ftable EXCEPT ![f].ref = 1]
       /\ ofile' = [ofile EXCEPT ![p][Min(FreeFds(p))] = f]
       /\ icache' = ic
       /\ Goto(p, "openFill", [reg[p] EXCEPT !.f = f])
       /\ UNCHANGED <<cwd, put>>

Open(p) ==
  /\ At(p, "open")
  /\ LET ic == Load(icache, reg[p].ip) IN
     IF ic[reg[p].ip].type = "DIR" /\ call[p].write
     THEN PutBack(p, ic) ELSE OpenTail(p, ic)
  /\ UNCHANGED disk

\* create() found the name: only open() of a file succeeds.
CreateOld(p) ==
  /\ At(p, "createOld")
  /\ LET ic == Load(icache, reg[p].ip) IN
     IF call[p].op = "open" /\ ic[reg[p].ip].type = "FILE"
     THEN OpenTail(p, ic) ELSE PutBack(p, ic)
  /\ UNCHANGED disk

OpenNew(p) ==
  /\ At(p, "openNew")
  /\ OpenTail(p, Unlock(icache, reg[p].ip))
  /\ UNCHANGED disk

OpenFill(p) ==
  /\ At(p, "openFill")
  /\ ftable' = [ftable EXCEPT ![reg[p].f].type = "inode",
                              ![reg[p].f].ip = reg[p].ip]
  /\ Return(p)
  /\ UNCHANGED <<disk, icache, ofile, cwd, put>>

-----------------------------------------------------------------------------
(* sys_unlink().                                                           *)

\* With the directory locked: "." and ".." and a missing name fail.
Unlink(p) ==
  /\ At(p, "unlink")
  /\ LET s == reg[p].dp
         ic == Load(icache, s)
         i == dirlookup(dinode[ic[s].inum].ents, reg[p].name)
     IN  IF reg[p].name \in {".", ".."} \/ i = 0
         THEN /\ icache' = ic /\ Put(p, <<s>>) /\ Return(p)
         ELSE /\ icache' = iget(Lock(ic, s, p), i)
              /\ Goto(p, "unlinkFile", [reg[p] EXCEPT !.ip = IgetSlot(ic, i)])
              /\ UNCHANGED put
  /\ UNCHANGED <<disk, files>>

\* A directory that is not empty is put while its parent is locked.
UnlinkBusy(p) ==
  /\ At(p, "unlinkFile")
  /\ LET s == reg[p].ip
         ic == Load(icache, s)
     IN  /\ ic[s].nlink > 0 /\ ic[s].type = "DIR"
         /\ ~isdirempty(dinode[ic[s].inum].ents)
         /\ icache' = ic
         /\ Put(p, <<s>>)
         /\ Goto(p, "unlinkBad", [reg[p] EXCEPT !.ip = 0])
  /\ UNCHANGED <<disk, files>>

\* The entry is erased, and the inode stays locked while the parent is put.
UnlinkFile(p) ==
  /\ At(p, "unlinkFile")
  /\ LET s == reg[p].ip
         d == reg[p].dp
         ic1 == Lock(icache, s, p)
         isdir == ic1[s].type = "DIR"
         ic2 == IF isdir THEN SetLinks(ic1, d, ic1[d].nlink - 1) ELSE ic1
     IN  /\ ic1[s].nlink > 0
         /\ isdir => isdirempty(dinode[ic1[s].inum].ents)
         /\ dinode' = [iupdate(dinode, ic2, d) EXCEPT
                         ![ic2[d].inum].ents = Zeroed(@, reg[p].name)]
         /\ icache' = Unlock(ic2, d)
         /\ Put(p, <<d>>)
         /\ Goto(p, "unlinkDrop", [reg[p] EXCEPT !.dp = 0])
  /\ UNCHANGED <<raced, lost, files>>

UnlinkDrop(p) ==
  /\ At(p, "unlinkDrop")
  /\ LET s == reg[p].ip
         ic == SetLinks(icache, s, icache[s].nlink - 1)
     IN  /\ dinode' = iupdate(dinode, ic, s)
         /\ icache' = Unlock(ic, s)
         /\ Put(p, <<s>>)
  /\ Return(p)
  /\ UNCHANGED <<raced, lost, files>>

\* bad: iunlockput(dp).
UnlinkBad(p) ==
  /\ At(p, "unlinkBad")
  /\ icache' = Unlock(icache, reg[p].dp)
  /\ Put(p, <<reg[p].dp>>)
  /\ Return(p)
  /\ UNCHANGED <<disk, files>>

-----------------------------------------------------------------------------
(* sys_link().                                                             *)

\* (mutant) the old inode is not put.
BugLinkUndir(p) ==
  /\ At(p, "linkUndir")
  /\ icache' = Unlock(icache, reg[p].dp)
  /\ Put(p, <<reg[p].dp>>)
  /\ Return(p)
  /\ UNCHANGED <<disk, files>>

\* The count goes up before the new entry is made.
Link(p) ==
  /\ At(p, "link")
  /\ LET s == reg[p].ip
         ic == Load(icache, s)
         up == SetLinks(ic, s, ic[s].nlink + 1)
     IN  IF ic[s].type = "DIR"
         THEN PutBack(p, ic) /\ UNCHANGED dinode
         ELSE /\ dinode' = iupdate(dinode, up, s)
              /\ icache' = up
              /\ Goto(p, "linkWalk", reg[p])
              /\ UNCHANGED <<files, put>>
  /\ UNCHANGED <<raced, lost>>

LinkWalk(p) ==
  /\ At(p, "linkWalk")
  /\ StartWalk(p, call[p].new, TRUE, reg[p])
  /\ UNCHANGED <<disk, files, call, put, stage, budget, panic>>

\* dirlink(): a name that is there is put while the directory is locked.
LinkDir(p) ==
  /\ At(p, "linkDir")
  /\ LET d == reg[p].dp
         ic == Load(icache, d)
         j == ic[d].inum
         i == dirlookup(dinode[j].ents, reg[p].name)
     IN  IF i # 0
         THEN /\ icache' = iget(Lock(ic, d, p), i)
              /\ Put(p, <<IgetSlot(ic, i)>>)
              /\ Goto(p, "linkUndir", reg[p])
              /\ UNCHANGED <<dinode, lost>>
         ELSE /\ dinode' = [dinode EXCEPT ![j].ents =
                              dirlink(@, reg[p].name, icache[reg[p].ip].inum)]
              /\ icache' = ic
              /\ Put(p, <<d, reg[p].ip>>)
              /\ Lose(ic[d], icache[reg[p].ip].inum)
              /\ Return(p)
  /\ UNCHANGED <<raced, files>>

LinkUndir(p) ==
  /\ At(p, "linkUndir")
  /\ icache' = Unlock(icache, reg[p].dp)
  /\ Put(p, <<reg[p].dp>>)
  /\ Goto(p, "linkBad", [reg[p] EXCEPT !.dp = 0])
  /\ UNCHANGED <<disk, files>>

\* (mutant) the count is left as it is.
BugLinkBad(p) ==
  /\ At(p, "linkBad")
  /\ Put(p, <<reg[p].ip>>)
  /\ Return(p)
  /\ UNCHANGED <<disk, files, icache>>

\* bad: the count goes down again.
LinkBad(p) ==
  /\ At(p, "linkBad")
  /\ LET s == reg[p].ip
         ic == SetLinks(icache, s, icache[s].nlink - 1)
     IN  /\ dinode' = iupdate(dinode, ic, s)
         /\ icache' = ic
         /\ Put(p, <<s>>)
  /\ Return(p)
  /\ UNCHANGED <<raced, lost, files>>

-----------------------------------------------------------------------------
(* sys_chdir(), sys_close(), sys_dup(), sys_fstat(), fork() and exit().    *)

\* cwd keeps its old value while that is put.
Chdir(p) ==
  /\ At(p, "chdir")
  /\ LET ic == Load(icache, reg[p].ip) IN
     IF ic[reg[p].ip].type # "DIR"
     THEN PutBack(p, ic)
     ELSE /\ icache' = ic /\ Put(p, <<cwd[p]>>)
          /\ Goto(p, "chdirSet", reg[p])
          /\ UNCHANGED files
  /\ UNCHANGED disk

ChdirSet(p) ==
  /\ At(p, "chdirSet")
  /\ cwd' = [cwd EXCEPT ![p] = reg[p].ip]
  /\ Return(p)
  /\ UNCHANGED <<disk, icache, ftable, ofile, put>>

\* The descriptor is cleared; the last reference to the file puts the inode.
fileclose(p, fd) ==
  LET f == ofile[p][fd]
      last == ftable[f].ref = 1
  IN  /\ ofile' = [ofile EXCEPT ![p][fd] = 0]
      /\ ftable' = [ftable EXCEPT ![f] = IF last THEN FreeFile
                                         ELSE [@ EXCEPT !.ref = @ - 1]]
      /\ Put(p, IF last /\ ftable[f].type = "inode" THEN <<ftable[f].ip>> ELSE << >>)
      /\ UNCHANGED cwd

Close(p) ==
  /\ At(p, "close")
  /\ fileclose(p, call[p].fd)
  /\ Return(p)
  /\ UNCHANGED <<disk, icache>>

\* n more references to file f.
filedup(f, n) == [ftable[f] EXCEPT !.ref = @ + n]

Dup(p) ==
  /\ At(p, "dup")
  /\ LET f == ofile[p][call[p].fd] IN
     IF FreeFds(p) = {}
     THEN UNCHANGED files
     ELSE /\ ofile' = [ofile EXCEPT ![p][Min(FreeFds(p))] = f]
          /\ ftable' = [ftable EXCEPT ![f] = filedup(f, 1)]
          /\ UNCHANGED cwd
  /\ Return(p)
  /\ UNCHANGED <<disk, icache, put>>

\* filestat(); fileread() and filewrite() hold the lock in the same way.
Fstat(p) ==
  /\ At(p, "fstat")
  /\ icache' = Load(icache, Locks(p))
  /\ Return(p)
  /\ UNCHANGED <<disk, files, put>>

\* The child gets the descriptors and the directory of its parent.
Fork(p, q) ==
  /\ At(p, "fork") /\ pc[q] = "gone" /\ ~InIput(q)
  /\ ofile' = [ofile EXCEPT ![q] = ofile[p]]
  /\ ftable' = [f \in Files |->
       filedup(f, Cardinality({d \in Fds : ofile[p][d] = f}))]
  /\ icache' = idup(icache, cwd[p])
  /\ cwd' = [cwd EXCEPT ![q] = cwd[p]]
  /\ pc' = [pc EXCEPT ![p] = "user", ![q] = "user"]
  /\ call' = [call EXCEPT ![p] = NoCall]
  /\ UNCHANGED <<disk, reg, put, stage, budget, panic>>

\* exit() closes one descriptor after the other, then puts the directory.
Exit(p) ==
  /\ At(p, "exit")
  /\ LET open == {fd \in Fds : ofile[p][fd] # 0} IN
     IF open # {}
     THEN fileclose(p, Min(open)) /\ Goto(p, "exit", reg[p])
     ELSE /\ Put(p, <<cwd[p]>>) /\ cwd' = [cwd EXCEPT ![p] = 0]
          /\ Goto(p, "gone", Reg0)
          /\ UNCHANGED <<ftable, ofile>>
  /\ UNCHANGED <<disk, icache>>

-----------------------------------------------------------------------------
\* A system call begins.  Bad descriptors fail at once and change nothing.
Enter(p, c) ==
  /\ panic = "" /\ UserMode(p) /\ budget[p].left > 0
  /\ c.op \in {"close", "dup", "fstat"} => ofile[p][c.fd] # 0
  /\ c.op = "fork" => \E q \in Procs : pc[q] = "gone" /\ ~InIput(q)
  /\ call' = [call EXCEPT ![p] = c]
  /\ budget' = [budget EXCEPT ![p].left = @ - 1]
  /\ IF c.op \in DOMAIN AfterName \union DOMAIN AfterParent
     THEN StartWalk(p, c.path, c.op \notin DOMAIN AfterName \/ c.create, Reg0)
     ELSE /\ pc' = [pc EXCEPT ![p] = c.op]
          /\ UNCHANGED <<icache, reg>>
  /\ UNCHANGED <<disk, files, put, stage, panic>>

\* The panics of ilock(), ialloc() and sys_unlink(), "" for none.
PanicMsg(p) ==
  IF ~InIput(p) /\ Locks(p) # 0 /\ NoType(Locks(p)) THEN "ilock: no type"
  ELSE IF /\ At(p, "create") /\ FreeInums = {}
          /\ dirlookup(dinode[icache[reg[p].dp].inum].ents, reg[p].name) = 0
       THEN "ialloc: no inodes"
  ELSE IF At(p, "unlinkFile") /\ Load(icache, reg[p].ip)[reg[p].ip].nlink < 1
       THEN "unlink: nlink < 1"
  ELSE ""

Panic(p) ==
  /\ panic = "" /\ Available(p) /\ PanicMsg(p) # ""
  /\ panic' = PanicMsg(p)
  /\ UNCHANGED <<disk, files, icache, pc, call, reg, put, stage, budget>>

Lookup(p) == WalkStop(p) \/ WalkFail(p) \/ WalkDown(p) \/ WalkEnd(p)
Create(p) == CreateFound(p) \/ CreateAlloc(p) \/ CreateNew(p) \/ CreateOld(p)
               \/ CreatePut(p)
Opening(p) == Open(p) \/ OpenNew(p) \/ OpenFill(p)
Unlinking(p) == Unlink(p) \/ UnlinkBusy(p) \/ UnlinkFile(p) \/ UnlinkDrop(p)
                  \/ UnlinkBad(p)
Linking(p) == Link(p) \/ LinkWalk(p) \/ LinkDir(p) \/ LinkUndir(p) \/ LinkBad(p)
Descriptors(p) == Chdir(p) \/ ChdirSet(p) \/ Close(p) \/ Dup(p) \/ Fstat(p)
                    \/ Exit(p) \/ \E q \in Procs : Fork(p, q)
Iput(p) == iputLock(p) \/ iputFree(p) \/ iputDrop(p)

Next ==
  \E p \in Procs :
    \/ \E c \in budget[p].calls : Enter(p, c)
    \/ Lookup(p) \/ Create(p) \/ Opening(p) \/ Unlinking(p) \/ Linking(p)
    \/ Descriptors(p) \/ Iput(p) \/ Panic(p)

Spec == Init /\ [][Next]_vars

-----------------------------------------------------------------------------
\* The entries in use, "." apart.
Entries ==
  UNION {{<<d, k>> : k \in {n \in DOMAIN dinode[d].ents :
            dinode[d].ents[n].inum # 0 /\ dinode[d].ents[n].name # "."}} : d \in Inums}

\* Those in directories that can be reached: the root and those with a name.
LiveEntries ==
  LET E == Entries
      D == {ROOTINO} \union {dinode[e[1]].ents[e[2]].inum :
                               e \in {x \in E : dinode[x[1]].ents[x[2]].name # ".."}}
  IN  {e \in E : e[1] \in D}

\* At every moment, and so in whatever state a crash leaves the disk, an inode
\* that a directory names is allocated and has at least as many links as
\* names; when no system call is under way it has exactly as many, unless a
\* name for it was made in a directory just removed (create, sys_link with its
\* undoing, sys_unlink).
LinkCounts ==
  LET E == LiveEntries
      quiet == \A p \in Procs : pc[p] \in {"user", "gone"} /\ ~InIput(p)
  IN  \A i \in Inums :
        LET n == Cardinality({e \in E : dinode[e[1]].ents[e[2]].inum = i}) IN
        n > 0 => /\ dinode[i].type # "free"
                 /\ dinode[i].nlink >= n
                 /\ quiet /\ i \notin lost => dinode[i].nlink = n

\* The reference counts of the inode cache and of the file table are the
\* number of pointers to the entry, on every way out of every system call.
Refs(s) ==
  Cardinality({f \in Files : ftable[f].type = "inode" /\ ftable[f].ip = s})
    + Cardinality({p \in Procs : cwd[p] = s /\ pc[p] # "chdirSet"})
    + Cardinality({<<p, r>> \in Procs \X {"at", "ip", "dp"} : reg[p][r] = s})
    + Cardinality({<<p, k>> \in Procs \X {1, 2} :
                     k \in DOMAIN put[p] /\ put[p][k] = s})

RefsCounted ==
  /\ \A s \in Slots : icache[s].ref = Refs(s)
  /\ \A f \in Files : ftable[f].ref =
       Cardinality({<<p, fd>> \in Procs \X Fds : ofile[p][fd] = f})

\* No inode is freed under a process that has it open, runs in it or is
\* working on it, whoever removes its last name (Notes: "one process opens a
\* file while another deletes it").  Only ".." of a directory that has been
\* removed itself may lead to an inode that is gone.
HeldInodesAllocated ==
  \A p \in Procs :
    LET held == {cwd[p], reg[p].ip, reg[p].dp, reg[p].at}
                  \union {ftable[ofile[p][fd]].ip :
                            fd \in {d \in Fds : /\ ofile[p][d] # 0
                                                /\ ftable[ofile[p][d]].type = "inode"}}
    IN  \A s \in held \ {0} :
          \/ dinode[icache[s].inum].type # "free"
          \/ reg[p].dead \/ pc[p] = "chdirSet"

\* The panics that are left: the disk is out of inodes, or ".." of a removed
\* directory.
PanicsExplained ==
  /\ panic \in {"", "ialloc: no inodes", "ilock: no type"}
  /\ panic = "ilock: no type" => \E p \in Procs : reg[p].dead

\* p waits in ilock() for an inode that q has locked.
WaitsFor(p, q) ==
  ~InIput(p) /\ Locks(p) # 0 /\ icache[Locks(p)].lock = q

\* ilock() alone never deadlocks (Notes: "deadlock d/.. vs ../d, two
\* processes"): processes that wait for each other in a circle include one
\* that waits in iput().
LocksOrdered ==
  ~\E S \in SUBSET Procs \ {{}} : \A p \in S : \E q \in S : WaitsFor(p, q)

\* The comment on iput(): "If that was the last reference and the inode has no
\* links to it, free the inode (and its content) on disk."
UnlinkedFreed ==
  \A i \in Inums :
    dinode[i].type # "free" /\ dinode[i].nlink = 0 => Cached(icache, i) # {}

\* An inode that has lost its last name and its last reference is free on
\* disk, unless two iput() of it overlapped, each taking the other's reference
\* for one that stays.
OnlyRacesLeak ==
  \A i \in Inums :
    dinode[i].type # "free" /\ dinode[i].nlink = 0 /\ Cached(icache, i) = {} =>
      i \in raced
=============================================================================
