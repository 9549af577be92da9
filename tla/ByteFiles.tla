----------------------------- MODULE ByteFiles ------------------------------
(***************************************************************************)
(* What files promise: a file is a sequence of bytes, an open file has an  *)
(* offset into it, write() puts its bytes there a chunk at a time and      *)
(* read() returns those that are there.  Processes that share an open file *)
(* share its offset.  A file that is removed becomes empty.                *)
(***************************************************************************)
EXTENDS Integers, Sequences

CONSTANTS Procs, Inodes, OpenFiles, Bytes, MaxBytes, Lengths

VARIABLES
  content,   \* content[i]: the bytes of i
  file,      \* file[f]: the inode that f is open on (0 for none), and its offset
  todo,      \* todo[p]: the file and the bytes that p has yet to write
  got        \* got[p]: what the last read() of p returned

vars == <<content, file, todo, got>>

Nothing == [f |-> 0, src |-> << >>]

Init ==
  /\ content = [i \in Inodes |-> << >>]
  /\ file = [f \in OpenFiles |-> [ip |-> 0, off |-> 0]]
  /\ todo = [p \in Procs |-> Nothing]
  /\ got = [p \in Procs |-> << >>]

\* s with the bytes b from offset o on.
Overwrite(s, b, o) ==
  SubSeq(s, 1, o) \o b \o SubSeq(s, o + Len(b) + 1, Len(s))

Open(f, i) ==
  /\ file[f].ip = 0
  /\ file' = [file EXCEPT ![f] = [ip |-> i, off |-> 0]]
  /\ UNCHANGED <<content, todo, got>>

Close(f) ==
  /\ file[f].ip # 0
  /\ file' = [file EXCEPT ![f].ip = 0]
  /\ UNCHANGED <<content, todo, got>>

Begin(p, f, src) ==
  /\ todo[p] = Nothing /\ file[f].ip # 0
  /\ todo' = [todo EXCEPT ![p] = [f |-> f, src |-> src]]
  /\ UNCHANGED <<content, file, got>>

\* The next k bytes are written, all of them and where the offset is.
Write(p, k) ==
  LET f == todo[p].f
      o == file[f].off
      rest == SubSeq(todo[p].src, k + 1, Len(todo[p].src))
  IN  /\ k <= Len(todo[p].src) /\ o + k <= MaxBytes
      /\ content' = [content EXCEPT ![file[f].ip] =
                       Overwrite(@, SubSeq(todo[p].src, 1, k), o)]
      /\ file' = [file EXCEPT ![f].off = o + k]
      /\ todo' = [todo EXCEPT ![p] = IF rest = << >> THEN Nothing
                                     ELSE [f |-> f, src |-> rest]]
      /\ UNCHANGED got

\* A chunk does not fit in the file: write() gives up.
GiveUp(p) ==
  /\ todo[p] # Nothing
  /\ file[todo[p].f].off + Len(todo[p].src) > MaxBytes
  /\ todo' = [todo EXCEPT ![p] = Nothing]
  /\ UNCHANGED <<content, file, got>>

Read(p, f, n) ==
  LET o == file[f].off
      s == content[file[f].ip]
      b == SubSeq(s, o + 1, IF o + n > Len(s) THEN Len(s) ELSE o + n)
  IN  /\ todo[p] = Nothing /\ file[f].ip # 0
      /\ got' = [got EXCEPT ![p] = b]
      /\ file' = [file EXCEPT ![f].off = o + Len(b)]
      /\ UNCHANGED <<content, todo>>

Remove(i) ==
  /\ \A f \in OpenFiles : file[f].ip # i
  /\ content' = [content EXCEPT ![i] = << >>]
  /\ UNCHANGED <<file, todo, got>>

Next ==
  \/ \E f \in OpenFiles : Close(f) \/ \E i \in Inodes : Open(f, i)
  \/ \E i \in Inodes : Remove(i)
  \/ \E p \in Procs :
       \/ \E k \in 1 .. MaxBytes : Write(p, k)
       \/ GiveUp(p)
       \/ \E f \in OpenFiles : \E n \in Lengths :
            Read(p, f, n) \/ \E src \in [1 .. n -> Bytes] : Begin(p, f, src)

Spec == Init /\ [][Next]_vars
=============================================================================
