------------------------------- MODULE MCCopy -------------------------------
(* Small instances of Copy for TLC: a tree of three files, one of them two  *)
(* directories down, an empty file, an older destination, and the argument  *)
(* lists that differ in how they resolve.                                   *)
EXTENDS Copy

A == <<"a">>
Empty == <<"empty">>
D == <<"d">>
DA == <<"d", "a">>
DE == <<"d", "e">>
DEB == <<"d", "e", "b">>
Out == <<"out">>
OutA == <<"out", "a">>
OutE == <<"out", "e">>
New == <<"new">>
Gone == <<"gone">>

SomeDirs == {<< >>, D, DE, Out, OutE}
SomeFiles ==
  [f \in {A, Empty, DA, DEB, OutA} |->
     CASE f = A -> 2 [] f = Empty -> 0 [] f = DA -> 2 [] f = DEB -> 1
       [] f = OutA -> 3]
SomeVanishing == {DA}

Arg(kind, p, names, abs) ==
  [kind |-> kind, path |-> p, names |-> names, absolute |-> abs]
File(p) == Arg("path", p, {}, FALSE)
Root == Arg("path", << >>, {}, TRUE)
Glob(p, names) == Arg("glob", p, names, FALSE)
Remote(p) == Arg("remote", p, {}, FALSE)
To(p) == [path |-> p, slash |-> FALSE]
Into(p) == [path |-> p, slash |-> TRUE]
Cmd(srcs, dst) == [srcs |-> srcs, dst |-> dst]

SomeCommands == {
  Cmd(<< >>, To(A)),
  Cmd(<<File(A)>>, To(New)),
  Cmd(<<File(A), File(DEB)>>, Into(Out)),
  Cmd(<<File(A), File(DA)>>, To(Out)),
  Cmd(<<File(A), File(Empty)>>, Into(New)),
  Cmd(<<File(D)>>, To(Out)),
  Cmd(<<File(D)>>, To(New)),
  Cmd(<<File(D), File(DEB)>>, To(Out)),
  Cmd(<<File(<< >>)>>, To(Out)),
  Cmd(<<Root>>, To(Out)),
  Cmd(<<Root>>, To(New)),
  Cmd(<<Glob(D, {"a", "e"}), File(A)>>, To(OutE)),
  Cmd(<<Glob(D, {"x"})>>, Into(Out)),
  Cmd(<<File(A), File(Gone)>>, Into(Out)),
  Cmd(<<Remote(Gone), Remote(<< >>), File(A)>>, To(Out)),
  Cmd(<<File(A)>>, To(A)),
  Cmd(<<File(A), File(New)>>, To(New)),
  Cmd(<<File(DEB), File(A)>>, To(A))}

TwoIntoOne == {Cmd(<<File(A), File(DEB)>>, To(New))}

=============================================================================
