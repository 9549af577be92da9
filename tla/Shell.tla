------------------------------- MODULE Shell --------------------------------
(***************************************************************************)
(* init (init.c) and the shell (sh.c): the processes that run a command    *)
(* line, their descriptors and who waits for whom.                         *)
(*                                                                         *)
(* The kernel is modelled as these programs use it: fork(), which fails    *)
(* when the table is full, wait(), exit(), pipe(), dup(), open() and       *)
(* close().  A program that exec() starts reads its input to the end and   *)
(* exits; so its exit waits until every other end of its input is closed.  *)
(***************************************************************************)
EXTENDS Parse

CONSTANTS
  NPROC, NOFILE,
  Lines        \* bound: Lines[k] are the lines that can be typed as the k-th

ASSUME ShellAssumption ==
  /\ {NPROC, NOFILE, MAXARGS} \subseteq Nat \ {0}
  /\ NPROC >= 2 /\ NOFILE >= 3

\* What parsecmd() makes of the lines.
AllLines == UNION {Lines[k] : k \in 1 .. Len(Lines)}
Syntax == [line \in AllLines |-> parsecmd(line)]

VARIABLES
  proc,    \* the process table: slot 1 is init
  typed,   \* lines typed
  failed   \* a fork1() has failed (history)

shellVars == <<proc, typed, failed>>

Slots == 1 .. NPROC
Fds == 0 .. NOFILE - 1

Closed == <<"closed">>
Console == <<"console">>
File == <<"file">>

\* What a slot holds: pipe is the array p of runcmd(), cmd what is left to run
\* (the pid of the shell, for init), and line what a child of main() parses.
\* back is history: whether the process runs for a command with "&".
Free ==
  [pc |-> "free", parent |-> 1, cmd |-> << >>, line |-> << >>, pipe |-> << >>,
   fd |-> [k \in Fds |-> Closed], back |-> FALSE]

ShellInit ==
  /\ proc = [p \in Slots |-> IF p # 1 THEN Free ELSE
               [Free EXCEPT !.pc = "init",
                            !.fd = [k \in Fds |-> IF k < 3 THEN Console
                                                           ELSE Closed]]]
  /\ typed = 0 /\ failed = FALSE

-----------------------------------------------------------------------------
(* The system calls.                                                       *)

FreeSlots == {q \in Slots : proc[q].pc = "free"}
Children(p) == {q \in Slots \ {p} : proc[q].pc # "free" /\ proc[q].parent = p}
Zombies(p) == {q \in Children(p) : proc[q].pc = "zombie"}

\* The lowest free descriptor takes the file; Fds is not exhausted.
Lowest(fd) == Min({k \in Fds : fd[k] = Closed})
Install(fd, f) == [fd EXCEPT ![Lowest(fd)] = f]
close(fd, k) == [fd EXCEPT ![k] = Closed]
dup(fd, k) == Install(fd, fd[k])

\* exit(): the descriptors are closed and the children become init's.
Exited(t, p) ==
  [q \in Slots |->
     IF q = p THEN [t[p] EXCEPT !.pc = "zombie", !.cmd = << >>,
                                !.line = << >>, !.pipe = << >>, !.fd = Free.fd]
     ELSE IF t[q].pc # "free" /\ t[q].parent = p
     THEN [t[q] EXCEPT !.parent = 1] ELSE t[q]]

exit(p) == proc' = Exited(proc, p) /\ UNCHANGED failed

\* fork1(): the child gets the lowest free slot, a copy of the parent and
\* what the parent's code has it do; without a slot, panic() ends the parent.
fork1(p, parent, child) ==
  IF FreeSlots = {}
  THEN proc' = Exited(proc, p) /\ failed' = TRUE
  ELSE /\ proc' = [proc EXCEPT ![p] = parent,
                               ![Min(FreeSlots)] = [child EXCEPT !.parent = p]]
       /\ UNCHANGED failed

On(p, l) == proc[p].pc = l /\ UNCHANGED typed

-----------------------------------------------------------------------------
(* init and the main loop of the shell.                                    *)

\* fork() of init: the child executes the shell.  If it fails init exits,
\* which stops the kernel: nothing runs after that.
InitFork(p) ==
  /\ On(p, "init")
  /\ IF FreeSlots = {}
     THEN proc' = [q \in Slots |-> Free] /\ failed' = TRUE
     ELSE fork1(p, [proc[p] EXCEPT !.pc = "initwait", !.cmd = <<Min(FreeSlots)>>],
                   [proc[p] EXCEPT !.pc = "prompt"])

\* A command line: main() forks a child to run it and waits.
GetCmd(p) ==
  /\ proc[p].pc = "prompt" /\ typed < Len(Lines)
  /\ typed' = typed + 1
  /\ \E line \in Lines[typed'] :
       fork1(p, [proc[p] EXCEPT !.pc = "mainwait"],
                [proc[p] EXCEPT !.pc = "parse", !.line = line,
                                !.cmd = Syntax[line]])

\* End of file at the prompt ends the shell.  (A line with "cd" only calls
\* chdir() and prompts again.)
Eof(p) ==
  /\ proc[p].pc = "prompt" /\ typed < Len(Lines)
  /\ typed' = typed + 1
  /\ exit(p)

\* The child, which has called parsecmd(): panic() has ended it, or it goes on.
Parsed(p) ==
  /\ On(p, "parse")
  /\ IF proc[p].cmd.type = "panic" THEN exit(p)
     ELSE /\ proc' = [proc EXCEPT ![p].pc = "runcmd", ![p].line = << >>]
          /\ UNCHANGED failed

-----------------------------------------------------------------------------
(* runcmd().                                                               *)

Running(p, type) == On(p, "runcmd") /\ proc[p].cmd.type = type

RunExec(p) ==
  /\ Running(p, "EXEC")
  /\ IF proc[p].cmd.argv = << >> THEN exit(p)
     ELSE /\ proc' = [proc EXCEPT ![p].pc = "program", ![p].cmd = << >>]
          /\ UNCHANGED failed

\* exec() returns: there is no such program.
ExecFails(p) ==
  Running(p, "EXEC") /\ proc[p].cmd.argv # << >> /\ exit(p)

RunRedir(p) ==
  LET c == proc[p].cmd IN
  /\ Running(p, "REDIR")
  /\ proc' = [proc EXCEPT ![p].fd = Install(close(@, c.fd), File),
                          ![p].cmd = c.cmd]
  /\ UNCHANGED failed

OpenFails(p) == Running(p, "REDIR") /\ exit(p)

RunList(p) ==
  LET c == proc[p].cmd IN
  /\ Running(p, "LIST")
  /\ fork1(p, [proc[p] EXCEPT !.pc = "listwait", !.cmd = c.right],
              [proc[p] EXCEPT !.cmd = c.left])

\* The pipes that exist; a new one is named by the least unused number.
Pipes ==
  {k \in 1 .. 2 * NPROC :
     \E q \in Slots, f \in Fds : proc[q].fd[f] \in {<<"read", k>>, <<"write", k>>}}

\* pipe(p) and the first fork1(); panic() if there are no descriptors.
RunPipe(p) ==
  LET c == proc[p].cmd
      k == Min((1 .. 2 * NPROC) \ Pipes)
      one == Install(proc[p].fd, <<"read", k>>)
      ends == <<Lowest(proc[p].fd), Lowest(one)>>
      both == [proc[p] EXCEPT !.fd = Install(one, <<"write", k>>), !.pipe = ends]
  IN
  /\ Running(p, "PIPE")
  /\ IF Cardinality({f \in Fds : proc[p].fd[f] = Closed}) < 2
     THEN exit(p)
     ELSE fork1(p, [both EXCEPT !.pc = "fork2"],
                   [both EXCEPT !.pc = "left", !.cmd = c.left])

RunFork2(p) ==
  /\ On(p, "fork2")
  /\ fork1(p, [proc[p] EXCEPT !.pc = "pclose", !.cmd = << >>],
              [proc[p] EXCEPT !.pc = "right", !.cmd = @.right])

\* (mutant) the parent of a pipeline keeps its ends of the pipe.
BugClosePipe(fd, ends) == fd

ClosePipe(fd, ends) == close(close(fd, ends[1]), ends[2])

PipeClose(p) ==
  /\ On(p, "pclose")
  /\ proc' = [proc EXCEPT ![p].pc = "pwait1", ![p].pipe = << >>,
                          ![p].fd = ClosePipe(@, proc[p].pipe)]
  /\ UNCHANGED failed

\* A side of the pipeline: close(d), dup() an end onto d, close both ends.
Side(p, l, d, e) ==
  /\ On(p, l)
  /\ LET ends == proc[p].pipe IN
     proc' = [proc EXCEPT ![p].pc = "runcmd", ![p].pipe = << >>,
                ![p].fd = ClosePipe(dup(close(@, d), ends[e]), ends)]
  /\ UNCHANGED failed

PipeLeft(p) == Side(p, "left", 1, 2)
PipeRight(p) == Side(p, "right", 0, 1)

RunBack(p) ==
  /\ Running(p, "BACK")
  /\ fork1(p, [proc[p] EXCEPT !.pc = "exit", !.cmd = << >>],
              [proc[p] EXCEPT !.cmd = @.cmd, !.back = TRUE])

\* The exit() at the end of runcmd().
RunExit(p) == On(p, "exit") /\ exit(p)

\* (mutant) the second wait() of a pipeline is missing.
BugAfterWait(p, z) ==
  CASE proc[p].pc = "mainwait" -> "prompt"
    [] proc[p].pc = "listwait" -> "runcmd"
    [] proc[p].pc \in {"pwait1", "pwait2"} -> "exit"
    [] OTHER -> IF <<z>> = proc[p].cmd THEN "init" ELSE "initwait"

\* What a process does after wait() has reaped child z.
AfterWait(p, z) ==
  CASE proc[p].pc = "mainwait" -> "prompt"
    [] proc[p].pc = "listwait" -> "runcmd"
    [] proc[p].pc = "pwait1" -> "pwait2"
    [] proc[p].pc = "pwait2" -> "exit"
    [] OTHER -> IF <<z>> = proc[p].cmd THEN "init" ELSE "initwait"

\* wait(): the first zombie child of the table is reaped.  Who waits here has
\* a child.
wait(p) ==
  /\ proc[p].pc \in {"mainwait", "listwait", "pwait1", "pwait2", "initwait"}
  /\ Zombies(p) # {}
  /\ LET z == Min(Zombies(p)) IN
     proc' = [proc EXCEPT ![z] = Free, ![p].pc = AfterWait(p, z)]
  /\ UNCHANGED <<typed, failed>>

\* A program ends when its input does: nobody else can write to the pipe.
Writers(k) == {q \in Slots : \E f \in Fds : proc[q].fd[f] = <<"write", k>>}

ProgramEnds(p) ==
  /\ On(p, "program")
  /\ \A k \in Pipes : proc[p].fd[0] = <<"read", k>> => Writers(k) = {}
  /\ exit(p)

-----------------------------------------------------------------------------
ShellStep(p) ==
  \/ InitFork(p) \/ Parsed(p) \/ wait(p) \/ RunExec(p) \/ ExecFails(p)
  \/ RunRedir(p) \/ OpenFails(p) \/ RunList(p) \/ RunPipe(p) \/ RunFork2(p)
  \/ PipeClose(p) \/ PipeLeft(p) \/ PipeRight(p) \/ RunBack(p)
  \/ RunExit(p) \/ ProgramEnds(p)

ShellNext ==
  \E p \in Slots :
    GetCmd(p) \/ Eof(p) \/ ShellStep(p)

\* Every process runs on: the scheduler leaves none out, and a program ends.
ShellFairness == \A p \in Slots : WF_shellVars(ShellStep(p))

ShellSpec == ShellInit /\ [][ShellNext]_shellVars /\ ShellFairness

-----------------------------------------------------------------------------
Agrees(b, c) ==
  LET t == Tokens(b)
      z == nulterminate(b, c)
      words == {Word(t[k]) : k \in {j \in 1 .. Len(t) : t[j].tok = "a"}}
  IN  /\ (c.type # "panic") = IsLine([k \in 1 .. Len(t) |-> t[k].tok])
      /\ c.type # "panic" =>
           /\ {Words(c)[k] : k \in 1 .. Len(Words(c))} = words
           /\ \A x \in words : \A k \in x.q .. x.eq :
                z[k] = IF k = x.eq THEN NUL ELSE b[k]

RightLines == {line \in AllLines : Agrees(line, Syntax[line])}

\* parsecmd() accepts the lines of the grammar and no others, and the command
\* it builds has every word of the line, each of which reads back as it was
\* typed after nulterminate() has cut the line in pieces.
ParserAgrees ==
  \A p \in Slots : proc[p].pc = "parse" => proc[p].line \in RightLines

\* When the prompt comes back, whatever still runs was started with "&",
\* unless a fork failed: runcmd() and main() wait for the others.
PromptMeansDone ==
  \A s \in Slots : proc[s].pc = "prompt" =>
    \A q \in Slots \ {1, s} :
      proc[q].pc \in {"free", "zombie"} \/ proc[q].back \/ failed

Waiting == \E p \in Slots : proc[p].pc = "mainwait"

\* Every command line ends, pipelines that read to the end of their input
\* included: no process keeps the write end of a pipe open for ever.
PromptReturns == Waiting ~> ~Waiting
=============================================================================
