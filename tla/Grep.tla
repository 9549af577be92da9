-------------------------------- MODULE Grep --------------------------------
(***************************************************************************)
(* grep.c: the loop that cuts what read() returns into lines, and the      *)
(* matcher.  The input is a file or a pipe, of which a read() may return   *)
(* any part that fits in the buffer.                                       *)
(***************************************************************************)
EXTENDS Naturals, Sequences, SequencesExt

CONSTANTS
  Patterns, Inputs,
  BUFSIZE      \* sizeof(buf)

ASSUME GrepAssumption == BUFSIZE \in Nat \ {0, 1}

VARIABLES
  pattern,
  in,       \* the input, and how much of it has been read
  off,
  kept,     \* the first m characters of buf
  out,      \* the lines written
  dropped   \* whether characters of a line were dropped (history)

grepVars == <<pattern, in, off, kept, out, dropped>>

GrepInit ==
  /\ pattern \in Patterns /\ in \in Inputs
  /\ off = 0 /\ kept = << >> /\ out = << >> /\ dropped = FALSE

-----------------------------------------------------------------------------
Ch(s, k) == IF k <= Len(s) THEN s[k] ELSE "0"

\* (mutant) a star matches at least one character.
Bugmatchstar(c, re, text, here, i, j) ==
  \E k \in j + 1 .. Len(text) + 1 :
    /\ \A l \in j .. k - 1 : c \in {".", text[l]}
    /\ here[i, k]

\* c* at position j of the text, then the pattern from i on.
matchstar(c, re, text, here, i, j) ==
  \E k \in j .. Len(text) + 1 :
    /\ \A l \in j .. k - 1 : c \in {".", text[l]}
    /\ here[i, k]

\* Whether the pattern from i on matches the text from j on.
matchhere(re, text, from, to) ==
  LET here[i \in Nat, j \in Nat] ==
        IF i > Len(re) THEN TRUE
        ELSE IF Ch(re, i + 1) = "*"
        THEN matchstar(re[i], re, text, here, i + 2, j)
        ELSE IF re[i] = "$" /\ i = Len(re) THEN j > Len(text)
        ELSE /\ j <= Len(text)
             /\ re[i] \in {".", text[j]}
             /\ here[i + 1, j + 1]
  IN  here[from, to]

match(re, text) ==
  IF Ch(re, 1) = "^" THEN matchhere(re, text, 2, 1)
  ELSE \E j \in 1 .. Len(text) + 1 : matchhere(re, text, 1, j)

-----------------------------------------------------------------------------
\* The lines of s that a newline ends, and what comes after the last one.
LinesOf(s) ==
  LET nl == {0} \union {k \in 1 .. Len(s) : s[k] = "nl"}
      prev(k) == CHOOSE j \in nl : j < k /\ \A x \in nl : x < k => x <= j
      ends == SetToSortSeq(nl \ {0}, <)
  IN  [n \in 1 .. Len(ends) |-> SubSeq(s, prev(ends[n]) + 1, ends[n] - 1)]

RestOf(s) ==
  LET nl == {0} \union {k \in 1 .. Len(s) : s[k] = "nl"}
      last == CHOOSE j \in nl : \A x \in nl : x <= j
  IN  SubSeq(s, last + 1, Len(s))

\* What stays in the buffer: nothing, if it had no newline.
Keep(s) == IF LinesOf(s) = << >> THEN << >> ELSE RestOf(s)

\* A read() that returns n characters, and what the loop does with them.
grep(n) ==
  LET s == kept \o SubSeq(in, off + 1, off + n) IN
  /\ n <= BUFSIZE - Len(kept) - 1 /\ off + n <= Len(in)
  /\ off' = off + n
  /\ out' = out \o SelectSeq(LinesOf(s), LAMBDA l : match(pattern, l))
  /\ kept' = Keep(s)
  /\ dropped' = (dropped \/ LinesOf(s) = << >>)
  /\ UNCHANGED <<pattern, in>>

GrepNext == \E n \in 1 .. BUFSIZE : grep(n)

-----------------------------------------------------------------------------
(* The language of a pattern, as sets of texts.                            *)

Letters == {in[k] : k \in 1 .. Len(in)} \ {"nl"}
Texts == UNION {[1 .. n -> Letters] : n \in 0 .. Len(in)}

One(c) == IF c = "." THEN Letters ELSE {c}
Concat(S, T) == {x \in Texts : \E k \in 0 .. Len(x) :
                   SubSeq(x, 1, k) \in S /\ SubSeq(x, k + 1, Len(x)) \in T}

\* The texts that the pattern from i on describes, with the rest of the line.
Language(re, first) ==
  LET from[i \in Nat] ==
        IF i > Len(re) THEN Texts
        ELSE IF i < Len(re) /\ Ch(re, i + 1) = "*"
        THEN Concat({x \in Texts : \A k \in 1 .. Len(x) : x[k] \in One(re[i])},
                    from[i + 2])
        ELSE IF re[i] = "$" /\ i = Len(re) THEN {<< >>}
        ELSE Concat({<<c>> : c \in One(re[i])}, from[i + 1])
  IN  from[first]

Describes(re) ==
  IF Ch(re, 1) = "^" THEN Language(re, 2) ELSE Concat(Texts, Language(re, 1))

\* Of the lines read so far grep() has written exactly those in the language
\* of the pattern, in order, however read() cut the input; except that a read
\* without a newline drops the beginning of a line.
GrepPrints ==
  dropped \/ out = SelectSeq(LinesOf(SubSeq(in, 1, off)),
                             LAMBDA l : l \in Describes(pattern))
=============================================================================
