------------------------------ MODULE Resolver ------------------------------
(***************************************************************************)
(* DefaultPathResolver (pkg/path/resolver.go): what one source argument    *)
(* stands for in a file system, and where each of its files is to go.      *)
(*                                                                         *)
(* A path is a sequence of names from the root directory, << >>, wherever  *)
(* the program runs.  It creates no directory, so they are a constant.     *)
(* ParsePathSpec has sorted an argument into one of three kinds: a path, a *)
(* pattern (the names it matches in one directory), or host:path; whether  *)
(* a path was written with a slash in front matters for "/" alone.         *)
(***************************************************************************)
EXTENDS Naturals, Sequences, FiniteSets

CONSTANT Dirs       \* the directories there are

Base(p) == p[Len(p)]
Parent(p) == SubSeq(p, 1, Len(p) - 1)

\* What lies above a directory is a directory.
ASSUME ResolverAssumption ==
  /\ Dirs \subseteq Seq(STRING)
  /\ << >> \in Dirs
  /\ \A d \in Dirs : \A n \in 0..Len(d) : SubSeq(d, 1, n) \in Dirs

Within(base, p) == Len(base) < Len(p) /\ SubSeq(p, 1, Len(base)) = base
Rel(base, p) == SubSeq(p, Len(base) + 1, Len(p))

\* What a directory holds, given the files there are.
Entries(files, d) == {p \in (files \cup Dirs) \ {<< >>} : Parent(p) = d}

\* afero.Glob: the entries of one directory that match; none is no error.
Matches(files, spec) ==
  {p \in Entries(files, spec.path) : Base(p) \in spec.names}

\* The first paths to Stat for an argument.
Found(files, spec) ==
  CASE spec.kind = "path" -> {spec.path}
    [] spec.kind = "glob" -> Matches(files, spec)
    [] spec.kind = "remote" -> {}

FromDir(spec) == spec.kind = "path" /\ spec.path \in Dirs

\* filepath.Rel fails for the argument "/": without its slash nothing is left,
\* which stands for the current directory, and "/x" is not relative to that.
RelFails(spec) == spec.absolute /\ spec.path = << >>

IsTree(spec) == FromDir(spec) /\ ~RelFails(spec)

\* filepath.Join(d, filepath.Base(p)); the Base of an empty path is ".".
Joined(d, p) == IF p = << >> THEN d ELSE Append(d, Base(p))

\* dstIsDir
IntoDir(dst) == dst.slash \/ dst.path \in Dirs

\* Slip: a file of a directory goes by its last name only.
DestinationFlat(p, spec, dst) ==
  IF FromDir(spec) \/ IntoDir(dst) THEN Joined(dst.path, p) ELSE dst.path

\* resolveDestinationPath: the files of a directory keep their way below it if
\* Rel finds it; another goes into dst when that is a directory or ends in a
\* slash.
DestinationOf(p, spec, dst) ==
  IF IsTree(spec) THEN dst.path \o Rel(spec.path, p)
  ELSE IF IntoDir(dst) THEN Joined(dst.path, p)
  ELSE dst.path

=============================================================================
