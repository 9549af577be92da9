------------------------------- MODULE Parse --------------------------------
(***************************************************************************)
(* The parser of the shell, sh.c.  A line is a sequence of characters; a   *)
(* position in it is an index, and the position after the last character   *)
(* holds NUL.  What a parse function returns is where it stopped and what  *)
(* it built; Panic stands for the calls of panic(), which end the process. *)
(***************************************************************************)
EXTENDS Naturals, Sequences, SequencesExt, FiniteSetsExt

CONSTANT MAXARGS

NUL == "0"
Symbols == {"<", "|", ">", "&", ";", "(", ")"}

Char(b, s) == IF s <= Len(b) THEN b[s] ELSE NUL

\* The first position from s on that does not hold whitespace.
Skip(b, s) == Min({k \in s .. Len(b) + 1 : Char(b, k) # " "})

\* The end of the word that starts at s.
WordEnd(b, s) ==
  Min({k \in s .. Len(b) + 1 : Char(b, k) \in Symbols \union {" ", NUL}})

gettoken(b, s) ==
  LET q == Skip(b, s)
      c == Char(b, q)
      twice == c = ">" /\ Char(b, q + 1) = ">"
      eq == CASE c = NUL -> q
              [] c \in Symbols -> IF twice THEN q + 2 ELSE q + 1
              [] OTHER -> WordEnd(b, q)
      tok == CASE c = NUL -> c
               [] c \in Symbols -> IF twice THEN "+" ELSE c
               [] OTHER -> "a"
  IN  [tok |-> tok, q |-> q, eq |-> eq, s |-> Skip(b, eq)]

peek(b, s, toks) == Char(b, Skip(b, s)) \in toks

-----------------------------------------------------------------------------
(* The constructors.  A word is its first position and the one after it.   *)

Word(t) == [q |-> t.q, eq |-> t.eq]

execcmd(argv) == [type |-> "EXEC", argv |-> argv]
redircmd(c, rd) ==
  [type |-> "REDIR", cmd |-> c, file |-> rd.file, fd |-> rd.fd]
pipecmd(l, r) == [type |-> "PIPE", left |-> l, right |-> r]
listcmd(l, r) == [type |-> "LIST", left |-> l, right |-> r]
backcmd(c) == [type |-> "BACK", cmd |-> c]

\* What a parse function returns: val is a command, or a sequence of
\* redirections or of words and redirections.
Result(s, v) == [s |-> s, val |-> v]
Panic == Result(0, [type |-> "panic"])

Then(r, x) == IF r.s = 0 THEN Panic ELSE x

-----------------------------------------------------------------------------
(* The parse functions call one another: parse is the function of them     *)
(* all, by name and position (Parser below).                               *)

\* The redirections at s, in order; the caller wraps its command in them.
parseredirs(b, parse, s) ==
  LET t == gettoken(b, s)
      f == gettoken(b, t.s)
      rd == [file |-> Word(f), fd |-> IF t.tok = "<" THEN 0 ELSE 1]
      more == parse["redirs", f.s]
  IN  IF ~peek(b, s, {"<", ">"}) THEN Result(s, << >>)
      ELSE IF f.tok # "a" THEN Panic
      ELSE Then(more, Result(more.s, <<rd>> \o more.val))

\* The loop of parseexec(): a word, the redirections after it, and the rest.
Arguments(b, parse, s) ==
  LET t == gettoken(b, s)
      rd == parse["redirs", t.s]
      more == parse["args", rd.s]
  IN  IF peek(b, s, {"|", ")", "&", ";"}) \/ t.tok = NUL
      THEN Result(s, [argv |-> << >>, rds |-> << >>])
      ELSE IF t.tok # "a" THEN Panic
      ELSE Then(rd, Then(more,
             Result(more.s, [argv |-> <<Word(t)>> \o more.val.argv,
                             rds |-> rd.val \o more.val.rds])))

parseexec(b, parse, s) ==
  LET rd == parse["redirs", s]
      args == parse["args", rd.s]
      cmd == execcmd(args.val.argv)
  IN  IF peek(b, s, {"("}) THEN parse["block", s]
      ELSE Then(rd, Then(args,
             IF Len(args.val.argv) >= MAXARGS THEN Panic
             ELSE Result(args.s,
                    FoldLeft(redircmd, cmd, rd.val \o args.val.rds))))

parseblock(b, parse, s) ==
  LET l == parse["line", gettoken(b, s).s]
      rd == parse["redirs", gettoken(b, l.s).s]
  IN  Then(l, IF ~peek(b, l.s, {")"}) THEN Panic
              ELSE Then(rd, Result(rd.s, FoldLeft(redircmd, l.val, rd.val))))

parsepipe(b, parse, s) ==
  LET l == parse["exec", s]
      r == parse["pipe", gettoken(b, l.s).s]
  IN  Then(l, IF ~peek(b, l.s, {"|"}) THEN l
              ELSE Then(r, Result(r.s, pipecmd(l.val, r.val))))

\* The loop of parseline() over "&": as many as there are from s on.
Ampersands(b, parse, s) ==
  LET more == parse["backs", gettoken(b, s).s] IN
  IF peek(b, s, {"&"}) THEN Result(more.s, more.val + 1) ELSE Result(s, 0)

parseline(b, parse, s) ==
  LET p == parse["pipe", s]
      a == parse["backs", p.s]
      cmd == FoldLeft(LAMBDA c, k : backcmd(c), p.val, [k \in 1 .. a.val |-> k])
      r == parse["line", gettoken(b, a.s).s]
  IN  Then(p, IF ~peek(b, a.s, {";"}) THEN Result(a.s, cmd)
              ELSE Then(r, Result(r.s, listcmd(cmd, r.val))))

Parser(b) ==
  LET parse[f \in {"line", "backs", "pipe", "exec", "block", "args", "redirs"},
            s \in Nat] ==
        CASE f = "line" -> parseline(b, parse, s)
          [] f = "backs" -> Ampersands(b, parse, s)
          [] f = "pipe" -> parsepipe(b, parse, s)
          [] f = "exec" -> parseexec(b, parse, s)
          [] f = "block" -> parseblock(b, parse, s)
          [] f = "args" -> Arguments(b, parse, s)
          [] f = "redirs" -> parseredirs(b, parse, s)
  IN  parse

\* (mutant) what is left over is ignored.
Bugparsecmd(b) == Parser(b)["line", 1].val

\* parseline(), refusing what is left over.
parsecmd(b) ==
  LET l == Parser(b)["line", 1] IN
  Then(l, IF Skip(b, l.s) # Len(b) + 1 THEN Panic ELSE l).val

\* The words of a command, in the order in which it was built.
RECURSIVE Words(_)
Words(c) ==
  CASE c.type = "EXEC" -> c.argv
    [] c.type = "REDIR" -> Append(Words(c.cmd), c.file)
    [] c.type = "BACK" -> Words(c.cmd)
    [] c.type \in {"PIPE", "LIST"} -> Words(c.left) \o Words(c.right)
    [] OTHER -> << >>

\* The line with a NUL after each word.
nulterminate(b, c) ==
  [s \in 1 .. Len(b) + 1 |->
     IF \E k \in 1 .. Len(Words(c)) : Words(c)[k].eq = s
     THEN NUL ELSE Char(b, s)]

-----------------------------------------------------------------------------
(* The language, as a grammar over the tokens of the line:                 *)
(*                                                                         *)
(*   line ::= pipe {"&"} [";" line]        pipe ::= cmd ["|" pipe]         *)
(*   cmd ::= "(" line ")" {redir} | {redir | word}                         *)

Tokens(b) ==
  LET from[s \in Nat] ==
        LET t == gettoken(b, s) IN
        IF t.tok = NUL THEN << >> ELSE <<t>> \o from[t.s]
  IN  from[1]

Redirs == {"<", ">", "+"}

IsRedirs(t) ==
  /\ Len(t) % 2 = 0
  /\ \A k \in 1 .. Len(t) : IF k % 2 = 1 THEN t[k] \in Redirs ELSE t[k] = "a"

IsSimple(t) ==
  /\ \A k \in 1 .. Len(t) : t[k] \in Redirs \union {"a"}
  /\ \A k \in 1 .. Len(t) :
       t[k] \in Redirs => k < Len(t) /\ t[k + 1] = "a"
  /\ Cardinality({k \in 1 .. Len(t) :
       t[k] = "a" /\ (k > 1 => t[k - 1] \notin Redirs)}) < MAXARGS

RECURSIVE IsLine(_), IsPipe(_)

IsCmd(t) ==
  \/ IsSimple(t)
  \/ \E k \in 2 .. Len(t) :
       /\ t[1] = "(" /\ t[k] = ")"
       /\ IsRedirs(SubSeq(t, k + 1, Len(t)))
       /\ IsLine(SubSeq(t, 2, k - 1))

IsPipe(t) ==
  \/ IsCmd(t)
  \/ \E k \in 1 .. Len(t) :
       /\ t[k] = "|"
       /\ IsCmd(SubSeq(t, 1, k - 1))
       /\ IsPipe(SubSeq(t, k + 1, Len(t)))

IsBacks(t) ==
  \E k \in 0 .. Len(t) :
    /\ \A j \in k + 1 .. Len(t) : t[j] = "&"
    /\ IsPipe(SubSeq(t, 1, k))

IsLine(t) ==
  \/ IsBacks(t)
  \/ \E k \in 1 .. Len(t) :
       /\ t[k] = ";"
       /\ IsBacks(SubSeq(t, 1, k - 1))
       /\ IsLine(SubSeq(t, k + 1, Len(t)))
=============================================================================
