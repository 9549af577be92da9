-------------------------------- MODULE Tty ---------------------------------
(***************************************************************************)
(* What the console promises to those who read it: characters typed build  *)
(* up a line that can be edited until it is ended, by a newline, by end of *)
(* file or by a full buffer; the characters of ended lines are read in the *)
(* order in which they were typed, each by one reader.  A read stops at a  *)
(* newline, and at an end of file, which it takes only if it has nothing   *)
(* else to return.                                                         *)
(***************************************************************************)
EXTENDS Naturals, Sequences

CONSTANTS Procs, Plain, Size

VARIABLES
  line,    \* the line being typed
  ready,   \* the characters of ended lines
  got      \* got[p]: what the read() of p has so far

vars == <<line, ready, got>>

Init == line = << >> /\ ready = << >> /\ got = [p \in Procs |-> << >>]

\* A character is kept if there is room for it, and may end the line.
Type(c) ==
  LET l == Append(line, c) IN
  /\ Len(ready) + Len(line) < Size
  /\ IF c \in {"nl", "eof"} \/ Len(ready) + Len(l) = Size
     THEN ready' = ready \o l /\ line' = << >>
     ELSE ready' = ready /\ line' = l
  /\ UNCHANGED got

Erase ==
  /\ line # << >>
  /\ line' = SubSeq(line, 1, Len(line) - 1)
  /\ UNCHANGED <<ready, got>>

EraseLine == line' = << >> /\ UNCHANGED <<ready, got>>

Begin(p) == got' = [got EXCEPT ![p] = << >>] /\ UNCHANGED <<line, ready>>

Take(p) ==
  /\ ready # << >> /\ Head(ready) # "eof"
  /\ got[p] = << >> \/ got[p][Len(got[p])] # "nl"
  /\ got' = [got EXCEPT ![p] = Append(@, Head(ready))]
  /\ ready' = Tail(ready)
  /\ UNCHANGED line

TakeEof(p) ==
  /\ ready # << >> /\ Head(ready) = "eof" /\ got[p] = << >>
  /\ ready' = Tail(ready)
  /\ UNCHANGED <<line, got>>

Next ==
  \/ \E c \in Plain \union {"nl", "eof"} : Type(c)
  \/ Erase \/ EraseLine
  \/ \E p \in Procs : Begin(p) \/ Take(p) \/ TakeEof(p)

Spec == Init /\ [][Next]_vars
=============================================================================
