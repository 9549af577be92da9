-------------------------------- MODULE MCFs --------------------------------
(* Fs for TLC: a directory d and a file a in the root, one inode free.     *)
EXTENDS Fs, TLC

CONSTANTS p1, p2, p3

MCTree ==
  <<[type |-> "DIR", nlink |-> 2,
     ents |-> NewDir(1, 1) \o <<[name |-> "d", inum |-> 2], [name |-> "a", inum |-> 3]>>],
    [type |-> "DIR", nlink |-> 1, ents |-> NewDir(2, 1)],
    [type |-> "FILE", nlink |-> 1, ents |-> << >>],
    FreeDinode>>

MCOpened == <<[p |-> p1, i |-> 3], [p |-> p2, i |-> 3]>>

Path(op, path) == [op |-> op, path |-> path, create |-> FALSE, write |-> FALSE]
Creat(path) == [op |-> "open", path |-> path, create |-> TRUE, write |-> TRUE]
Ln(path, new) == [op |-> "link", path |-> path, new |-> new, create |-> FALSE]
Fd(op, fd) == [op |-> op, fd |-> fd]

May(n, calls) == [left |-> n, calls |-> calls]

\* Files and directories made, linked and removed against each other.
Naming ==
  p1 :> May(2, {Path("unlink", <<"/", "a">>), Path("unlink", <<"/", "d">>),
                Creat(<<"/", "d", "b">>), Path("mkdir", <<"d", "e">>)})
  @@ p2 :> May(2, {Ln(<<"/", "a">>, <<"/", "d", "b">>), Path("open", <<"d", "..", "a">>),
                   Path("unlink", <<"d", "b">>), Creat(<<"/", "a">>)})
  @@ p3 :> May(0, {})

\* Descriptors that are shared, duplicated and closed.
Sharing ==
  p1 :> May(2, {Fd("fork", 0), Fd("close", 0), Fd("exit", 0), Fd("dup", 0)})
  @@ p2 :> May(2, {Path("unlink", <<"a">>), Fd("close", 0), Creat(<<"a">>)})
  @@ p3 :> May(2, {Fd("fstat", 0), Fd("exit", 0), Fd("close", 0)})

\* Working directories that are removed, with a parent that is removed too.
Removing ==
  p1 :> May(3, {Path("mkdir", <<"d", "e">>), Path("unlink", <<"d", "e">>),
                Path("unlink", <<"d">>)})
  @@ p2 :> May(2, {Path("chdir", <<"d", "e">>), Path("open", <<"..">>),
                   Path("mknod", <<"b">>)})
  @@ p3 :> May(0, {})

\* The calls that fail.
Failing ==
  p1 :> May(2, {Ln(<<"a">>, <<"a", "b">>), Ln(<<"a">>, <<"d", ".">>),
                Ln(<<"d">>, <<"b">>), Ln(<<"a">>, <<"d">>), Path("unlink", <<"/">>),
                [Path("open", <<"d">>) EXCEPT !.write = TRUE]})
  @@ p2 :> May(1, {Path("mkdir", <<"a">>), Path("unlink", <<"d", ".">>),
                   Path("chdir", <<"a">>), Path("mkdir", <<"d", "e">>),
                   Path("unlink", <<"d">>), Creat(<<"b">>)})
  @@ p3 :> May(0, {})

MCScenarios == {Naming, Sharing, Removing, Failing}
=============================================================================
