------------------------------- MODULE MCUser -------------------------------
(***************************************************************************)
(* The user programs for TLC.  They share no state: a behaviour is one of  *)
(* the shell, of the allocator or of grep, and the other two stay as they  *)
(* are at the start.                                                       *)
(***************************************************************************)
EXTENDS Shell, Heap, Grep

VARIABLE part

vars == <<part, shellVars, heapVars, grepVars>>

Init ==
  /\ part \in {"shell", "heap", "grep"}
  /\ ShellInit /\ HeapInit /\ GrepInit
  /\ part # "grep" => pattern = << >> /\ in = [k \in 1 .. 4 |-> "nl"]

ShellPart(A) ==
  part = "shell" /\ A /\ UNCHANGED <<part, heapVars, grepVars>>

Next ==
  \/ ShellPart(ShellNext)
  \/ part = "heap" /\ HeapNext /\ UNCHANGED <<part, shellVars, grepVars>>
  \/ part = "grep" /\ GrepNext /\ UNCHANGED <<part, shellVars, heapVars>>

Spec ==
  /\ Init /\ [][Next]_vars
  /\ \A p \in Slots : WF_vars(ShellPart(ShellStep(p)))

\* Every line of up to three characters, and longer ones with processes that
\* outlive their parents, blocks and redirections; then a pipeline.
Upto(n, S) == UNION {[1 .. k -> S] : k \in 0 .. n}

MCLines ==
  << Upto(3, Symbols \union {" ", "a"}) \union
       { <<"a", "|", "a", "|", "a">>, <<"a", "&", ";", "a", "|", "a">>,
         <<"(", "a", ";", "a", ")", "|", "a">>, <<"a", " ", "a", " ", "a">>,
         <<"(", "a", "|", "a", ")", "&">>, <<"a", ">", ">", "a", "|", "a">> },
     { <<"a", "|", "a">> } >>

\* Every pattern of up to two characters, and a few longer ones.
MCPatterns ==
  Upto(2, {"a", "b", ".", "*", "^", "$"}) \union
    { <<"a", "*", "b">>, <<"^", ".", "*", "$">>, <<"^", "a", "*", "$">> }

MCInputs == [1 .. 4 -> {"a", "b", "nl"}]
=============================================================================
