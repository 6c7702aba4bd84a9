----------------------------- MODULE CopyProofs -----------------------------
(***************************************************************************)
(* Theorems about Copy, for any tree, any argument list, any files that    *)
(* may vanish and any order of the chunks.                                 *)
(***************************************************************************)
EXTENDS Copy, ResolverProofs, FiniteSetTheorems, FunctionTheorems

Units == Seq(Path \X Nat)
Move == [src : Path, dst : Path, size : Nat, spec : Nat]

(* No file is touched before the sources are resolved. *)
NothingYet == phase \in {"start", "next", "expand"} => Untouched

(* Units are at their positions, and only destinations have changed. *)
Placed(units) == \A k \in DOMAIN units : units[k] = Hole \/ units[k][2] = k
InPlace ==
  /\ \A p \in Files : Placed(content[p])
  /\ \A p \in Files \ Destinations :
       p \in DOMAIN Original /\ content[p] = Original[p]

(* The chunks of an undisturbed transfer that have left the queue are there, *)
(* unless some chunk failed, and its source is what it was.                  *)
Intact(t) ==
  LET src == transfers[t].src IN
  src \in Files => \A k \in DOMAIN content[src] : content[src][k] = <<src, k>>
Landed(t, k) ==
  LET dst == transfers[t].dst IN
  /\ dst \in Files /\ k <= Len(content[dst])
  /\ content[dst][k] = <<transfers[t].src, k>>
OnItsWay(t) ==
  ~partial /\ t <= file =>
    \A k \in 1..transfers[t].size : (t = file /\ k \in queue) \/ Landed(t, k)
Delivered ==
  /\ phase = "files" =>
       \A t \in Transfers : Undisturbed(t) => Intact(t) /\ OnItsWay(t)
  /\ phase # "exited" => exit = NoExit
  /\ ZeroDelivers

(* A transfer is of a file that its argument names, and goes where the       *)
(* argument says; no argument makes two transfers of one file.               *)
Fits(s, m, dst) ==
  s.kind # "remote" =>
    /\ m.src \in DOMAIN Original
    /\ Names(s, m.src)
    /\ m.dst = DestinationOf(m.src, s, dst)
Grounded ==
  \A t \in Transfers : Fits(SourceOf(t), transfers[t], command.dst)
Once ==
  \A t, u \in Transfers :
    /\ SourceOf(t).kind # "remote"
    /\ transfers[t].spec = transfers[u].spec
    /\ transfers[t].src = transfers[u].src
    => t = u

(* The paths listed, but not yet looked at, are none of them below another   *)
(* and none of them above a file that was resolved already.                  *)
Sorted(s, paths) ==
  /\ s.kind = "path" /\ ~FromDir(s) => paths \subseteq {s.path}
  /\ s.kind = "glob" => paths \subseteq Matches(DOMAIN Original, s)
  /\ FromDir(s) => \A p, q \in paths : From(p, q) => p = q
Fresh(s, paths, src) ==
  \A p \in paths : p # src /\ (FromDir(s) => ~From(p, src))
Frontier ==
  phase = "expand" =>
    /\ Sorted(Source, todo)
    /\ \A t \in Transfers :
         transfers[t].spec = spec /\ Source.kind # "remote" =>
           Fresh(Source, todo, transfers[t].src)

(* What an argument names is resolved already or still lies ahead.           *)
Ahead(s, paths, f) == \E p \in paths : p = f \/ (FromDir(s) /\ From(p, f))
Taken(i, f) ==
  \E t \in Transfers : transfers[t].spec = i /\ transfers[t].src = f
Covered ==
  phase \in {"next", "expand", "files"} =>
    \A i \in 1..spec : \A f \in DOMAIN Original \ Vanishing :
      Names(command.srcs[i], f) =>
        Taken(i, f) \/ (phase = "expand" /\ i = spec /\ Ahead(Source, todo, f))
Staying == DOMAIN Original \ Vanishing \subseteq Files

(* What the phases keep: nothing is copied before all is resolved. *)
Typed ==
  /\ TypeOK
  /\ Files \subseteq Path
  /\ transfers \in Seq(Move)
  /\ phase \in {"start", "next", "expand"} => file = 0
  /\ phase # "files" => queue = {}
  /\ phase = "start" => spec = 0 /\ transfers = << >>
  /\ phase = "expand" =>
       /\ spec >= 1
       /\ FromDir(Source) => \A p \in todo : From(Source.path, p)
  /\ phase = "files" => spec = Len(command.srcs)

-----------------------------------------------------------------------------

\* What an argument list consists of.
LEMMA CommandFacts ==
  ASSUME command \in Commands
  PROVE  /\ command.srcs \in Seq(Argument) /\ Len(command.srcs) \in Nat
         /\ DOMAIN command.srcs = 1..Len(command.srcs)
         /\ command.dst.path \in Path
         /\ \A i \in 1..Len(command.srcs) :
              /\ command.srcs[i].path \in Path
              /\ command.srcs[i].kind \in {"path", "glob", "remote"}
<1>1. command \in [srcs : Seq(Argument), dst : Target]
  BY CopyAssumption
<1>2. command.srcs \in Seq(Argument) /\ command.dst \in Target
  BY <1>1
<1>3. command.dst.path \in Path
  BY <1>2 DEF Target, Path
<1>4. /\ Len(command.srcs) \in Nat
      /\ DOMAIN command.srcs = 1..Len(command.srcs)
      /\ \A i \in 1..Len(command.srcs) : command.srcs[i] \in Argument
  BY <1>2
<1>5. \A a \in Argument :
        a.path \in Path /\ a.kind \in {"path", "glob", "remote"}
  BY DEF Argument, Path
<1> QED
  BY <1>2, <1>3, <1>4, <1>5

\* The argument being expanded, and the paths listed for it.
LEMMA SourceFacts ==
  ASSUME Typed, phase = "expand"
  PROVE  /\ spec \in 1..Len(command.srcs) /\ Source.path \in Path
         /\ Source.kind \in {"path", "glob", "remote"}
         /\ todo \subseteq Path
<1>1. /\ spec \in 0..Len(command.srcs) /\ spec >= 1 /\ command \in Commands
      /\ todo \subseteq Path
  BY DEF Typed, TypeOK, Path
<1>2. spec \in 1..Len(command.srcs)
  BY <1>1, CommandFacts
<1> QED
  BY <1>1, <1>2, CommandFacts DEF Source

\* The transfer whose chunks are being copied.
LEMMA FileFacts ==
  ASSUME Typed, NEW k \in queue
  PROVE  /\ phase = "files" /\ file \in Transfers
         /\ Src \in Path /\ Dst \in Path /\ Dst \in Destinations
         /\ k \in 1..transfers[file].size /\ transfers[file].size \in Nat
<1>1. /\ phase = "files" /\ file \in 0..Len(transfers)
      /\ k \in 1..(IF file = 0 THEN 0 ELSE transfers[file].size)
      /\ transfers \in Seq(Move)
  BY DEF Typed, TypeOK
<1>2. file # 0
  BY <1>1
<1>3. file \in 1..Len(transfers) /\ Transfers = 1..Len(transfers)
  BY <1>1, <1>2 DEF Transfers
<1>4. transfers[file] \in Move
  BY <1>1, <1>3, ElementOfSeq
<1>5. Src \in Path /\ Dst \in Path /\ transfers[file].size \in Nat
  BY <1>4 DEF Move, Src, Dst
<1> QED
  BY <1>1, <1>2, <1>3, <1>5 DEF Dst, Destinations

\* The units of a file before the program starts.
LEMMA OriginalFacts ==
  ASSUME NEW p \in DOMAIN Original
  PROVE  /\ p \in Path /\ p # << >> /\ p \notin Dirs /\ Parent(p) \in Dirs
         /\ DOMAIN Original = DOMAIN Length /\ Original[p] \in Units
         /\ DOMAIN Original[p] = 1..Len(Original[p])
         /\ \A k \in DOMAIN Original[p] : Original[p][k] = <<p, k>>
<1>1. DOMAIN Original = DOMAIN Length /\ p \in DOMAIN Length
  BY DEF Original
<1>2. p \in Path /\ Length[p] \in Nat /\ p \notin Dirs /\ Parent(p) \in Dirs
  BY <1>1, CopyAssumption DEF Path
<1>3. Original[p] = [k \in 1..Length[p] |-> <<p, k>>]
  BY <1>1 DEF Original
<1> DEFINE n == Length[p]
           S == Path \X Nat
           o == Original[p]
<1>4. /\ n \in Nat /\ o = [k \in 1..n |-> <<p, k>>]
      /\ \A k \in 1..n : <<p, k>> \in S
  BY <1>2, <1>3
<1> HIDE DEF n, S, o
<1>5. o = [k \in 1..n |-> o[k]] /\ \A k \in 1..n : o[k] = <<p, k>> /\ o[k] \in S
  BY <1>4
<1>6. o \in Seq(S) /\ Len(o) = n /\ DOMAIN o = 1..n
  BY <1>4, <1>5
<1> QED
  BY <1>1, <1>2, <1>5, <1>6, ResolverAssumption DEF o, S, Units

\* A unit written at its position: the others stay, a gap is filled.
Overwrites(new, units, k, unit) ==
  /\ DOMAIN units = 1..Len(units) /\ Len(units) \in Nat
  /\ DOMAIN new = 1..Len(new) /\ Len(new) \in Nat /\ Len(units) <= Len(new)
  /\ k \in DOMAIN new /\ new[k] = unit
  /\ \A i \in DOMAIN units \ {k} : new[i] = units[i]
  /\ \A i \in DOMAIN new \ (DOMAIN units \cup {k}) : new[i] = Hole

\* Where there was a unit already, the file does not grow.
KeepsLength(new, units, k) == k \in DOMAIN units => DOMAIN new = DOMAIN units

\* What WriteAt makes of a file, whatever the position.
LEMMA WriteAtFacts ==
  ASSUME NEW units \in Units, NEW k \in Nat \ {0}, NEW unit \in Path \X Nat
  PROVE  /\ WriteAt(units, k, unit) \in Units
         /\ Overwrites(WriteAt(units, k, unit), units, k, unit)
         /\ KeepsLength(WriteAt(units, k, unit), units, k)
<1> DEFINE n == Bigger(k, Len(units))
           w == WriteAt(units, k, unit)
           S == Path \X Nat
<1>1. units \in Seq(S) /\ Len(units) \in Nat /\ DOMAIN units = 1..Len(units)
  BY DEF Units
<1>2. n \in Nat /\ k <= n /\ Len(units) <= n
  BY <1>1 DEF Bigger
<1>3. ASSUME k <= Len(units)
       PROVE  n = Len(units)
  <2>1. ~(k > Len(units))
    BY <1>1, <1>3
  <2> QED
    BY <2>1, Zenon DEF Bigger
<1>4. Hole \in S
  <2> DEFINE e == << >>
  <2>1. e \in Path
    BY DEF Path
  <2> HIDE DEF e
  <2>2. <<e, 0>> \in Path \X Nat
    BY <2>1
  <2> QED
    BY <2>2 DEF e, Hole
<1> HIDE DEF n, S
<1>5. w = [i \in 1..n |-> IF i = k THEN unit
                          ELSE IF i <= Len(units) THEN units[i] ELSE Hole]
  BY DEF WriteAt, n
<1> HIDE DEF w
<1>6. \A i \in 1..n : w[i] \in S
  <2>1. unit \in S /\ \A i \in 1..Len(units) : units[i] \in S
    BY <1>1 DEF S
  <2>2. \A i \in 1..n : i <= Len(units) => i \in 1..Len(units)
    BY <1>1, <1>2
  <2> QED
    BY <1>4, <1>5, <2>1, <2>2
<1>7. w = [i \in 1..n |-> w[i]]
  BY <1>5
<1>8. w \in Seq(S) /\ Len(w) = n /\ DOMAIN w = 1..n
  BY <1>2, <1>6, <1>7
<1>9. /\ w[k] = unit /\ k \in 1..n
      /\ \A i \in 1..Len(units) : i # k => w[i] = units[i]
      /\ \A i \in 1..n : i \notin 1..Len(units) /\ i # k => w[i] = Hole
  BY <1>1, <1>2, <1>5
<1>10. Overwrites(w, units, k, unit)
  BY <1>1, <1>2, <1>8, <1>9 DEF Overwrites
<1>11. ASSUME k \in DOMAIN units
       PROVE  DOMAIN w = DOMAIN units
  <2>1. k <= Len(units)
    BY <1>1, <1>11
  <2> QED
    BY <1>1, <1>8, <1>3, <2>1
<1>12. KeepsLength(w, units, k)
  BY <1>11 DEF KeepsLength
<1> QED
  BY <1>8, <1>10, <1>12 DEF w, S, Units
\* A transfer added to those there are.
LEMMA AppendFacts ==
  ASSUME transfers \in Seq(Move), NEW m \in Move,
         transfers' = Append(transfers, m)
  PROVE  /\ transfers' \in Seq(Move) /\ Len(transfers) \in Nat
         /\ Len(transfers') = Len(transfers) + 1
         /\ transfers'[Len(transfers) + 1] = m
         /\ \A t \in 1..Len(transfers) : transfers'[t] = transfers[t]
         /\ Transfers = 1..Len(transfers)
         /\ Transfers' = Transfers \cup {Len(transfers) + 1}
<1>1. /\ transfers' \in Seq(Move) /\ Len(transfers) \in Nat
      /\ Len(transfers') = Len(transfers) + 1
      /\ transfers'[Len(transfers) + 1] = m
      /\ \A t \in 1..Len(transfers) : transfers'[t] = transfers[t]
  BY AppendProperties
<1>2. Transfers = 1..Len(transfers) /\ Transfers' = 1..Len(transfers')
  BY <1>1 DEF Transfers
<1> QED
  BY <1>1, <1>2

\* A file found is added to the transfers.
LEMMA FoundTyped ==
  ASSUME Typed, phase = "expand", NEW p \in Path, NEW n \in Nat,
         transfers' = Append(transfers, Transfer(p, n)),
         todo' \subseteq todo, phase' \in {"next", "expand"},
         UNCHANGED <<spec, resolveFrame>>,
         FromDir(Source) => From(Source.path, p)
  PROVE  Typed' /\ Transfer(p, n) \in Move
<1> DEFINE m == Transfer(p, n)
<1>1. spec \in 1..Len(command.srcs) /\ Source.path \in Path
  BY SourceFacts
<1>2. DestinationOf(p, Source, command.dst) \in Path
  BY <1>1, CommandFacts, DestinationFacts DEF Typed, TypeOK
<1>3. m \in Move /\ m.spec = spec
  BY <1>1, <1>2 DEF Transfer, Move
<1>4. UNCHANGED <<content, command, cancelled, exit, file, queue, partial>>
  BY DEF resolveFrame, copying
<1> HIDE DEF m
<1>5. /\ transfers' \in Seq(Move) /\ Len(transfers) \in Nat
      /\ Len(transfers') = Len(transfers) + 1
      /\ transfers'[Len(transfers) + 1] = m
      /\ \A t \in Transfers : transfers'[t] = transfers[t]
      /\ Transfers = 1..Len(transfers)
      /\ Transfers' = Transfers \cup {Len(transfers) + 1}
  BY <1>3, AppendFacts DEF Typed, m
<1>6. \A t \in Transfers' : /\ {transfers'[t].src, transfers'[t].dst}
                                 \subseteq Path
                            /\ transfers'[t].size \in Nat
                            /\ transfers'[t].spec \in 1..spec
  <2>1. m.src \in Path /\ m.dst \in Path /\ m.size \in Nat
    BY <1>3 DEF Move
  <2> QED
    BY <1>1, <1>3, <1>5, <2>1 DEF Typed, TypeOK, Path
<1>7. file = 0 /\ file' = 0 /\ queue = {}
  BY <1>4 DEF Typed
<1>8. TypeOK'
  BY <1>4, <1>5, <1>6, <1>7 DEF Typed, TypeOK, Files, Path
<1>9. phase' = "expand" =>
        /\ spec' >= 1
        /\ FromDir(Source)' => \A q \in todo' : From(Source.path, q)'
  BY <1>1, <1>4 DEF Typed, FromDir, From, Source
<1> QED
  BY <1>3, <1>4, <1>5, <1>7, <1>8, <1>9 DEF Typed, Files, m

\* Units that reach the destination.
LEMMA WriteTyped ==
  ASSUME Typed, NEW k \in queue, NEW units \in Units, Write(units),
         Creatable(Dst), queue' = queue \ {k}, partial' \in BOOLEAN,
         UNCHANGED <<phase, file, copyFrame>>
  PROVE  Typed'
<1>1. /\ Files' = Files \cup {Dst}
      /\ \A p \in Files' : content'[p] = IF p = Dst THEN units ELSE content[p]
  BY DEF Write, Files
<1>2. Dst \in Path /\ Dst \notin Dirs /\ Parent(Dst) \in Dirs
  BY FileFacts DEF Creatable
<1>3. /\ \A p \in Files' : p \notin Dirs /\ Parent(p) \in Dirs
      /\ \A p \in Files' : content'[p] \in Units
      /\ Files' \subseteq Path
  BY <1>1, <1>2 DEF Typed, TypeOK, Units, Path
<1>4. UNCHANGED <<command, spec, todo, transfers, cancelled, exit, phase, file>>
  BY DEF copyFrame, resolution
<1>5. phase = "files"
  BY FileFacts
<1>6. TypeOK'
  BY <1>3, <1>4 DEF Typed, TypeOK, Transfers, Units, Path
<1> QED
  BY <1>3, <1>4, <1>5, <1>6 DEF Typed

\* A chunk that is copied, or fails.
LEMMA ChunkTyped ==
  ASSUME Typed, NEW k \in queue, CopyChunk(k) \/ CopyError(k)
  PROVE  Typed'
<1>1. Dst \in Path /\ k \in Nat \ {0}
  BY FileFacts
<1>2. \A p \in Files : content[p] \in Units
  BY DEF Typed, TypeOK, Units, Path
<1>3. Opened(Dst) \in Units
  BY <1>2 DEF Opened, Units
<1>4. CASE CopyChunk(k)
  <2>1. Src \in Files /\ k <= Len(content[Src]) /\ content[Src] \in Units
    BY <1>2, <1>4 DEF CopyChunk
  <2>2. content[Src][k] \in Path \X Nat
    BY <1>1, <2>1 DEF Units
  <2>3. WriteAt(Opened(Dst), k, content[Src][k]) \in Units
    BY <1>1, <1>3, <2>2, WriteAtFacts
  <2>4. /\ Write(WriteAt(Opened(Dst), k, content[Src][k])) /\ Creatable(Dst)
        /\ queue' = queue \ {k} /\ partial' \in BOOLEAN
        /\ UNCHANGED <<phase, file, copyFrame>>
    BY <1>4 DEF CopyChunk, Typed, TypeOK
  <2> QED
    BY <2>3, <2>4, WriteTyped
<1>5. CASE CopyError(k) /\ ~UNCHANGED content
  <2>1. /\ Write(Opened(Dst)) /\ Creatable(Dst)
        /\ queue' = queue \ {k} /\ partial' \in BOOLEAN
        /\ UNCHANGED <<phase, file, copyFrame>>
    BY <1>5 DEF CopyError
  <2> QED
    BY <1>3, <2>1, WriteTyped
<1>6. CASE CopyError(k) /\ UNCHANGED content
  <2>1. /\ UNCHANGED <<content, command, spec, todo, transfers, cancelled, exit,
                       phase, file>>
        /\ queue' = queue \ {k} /\ partial' = TRUE
    BY <1>6 DEF CopyError, copyFrame, resolution
  <2>2. phase = "files"
    BY FileFacts
  <2> QED
    BY <2>1, <2>2 DEF Typed, TypeOK, Files, Transfers
<1> QED
  BY <1>4, <1>5, <1>6

\* The paths to Stat first lie where the argument says.
LEMMA FoundFacts ==
  ASSUME Files \subseteq Path, NEW s, s.path \in Path,
         s.kind \in {"path", "glob", "remote"}
  PROVE  /\ Found(Files, s) \subseteq Path
         /\ FromDir(s) => Found(Files, s) = {s.path}
         /\ s.kind = "path" => Found(Files, s) = {s.path}
         /\ s.kind = "glob" => Found(Files, s) = Matches(Files, s)
         /\ s.kind = "remote" => Found(Files, s) = {}
<1>1. Matches(Files, s) \subseteq Path
  BY ResolverAssumption DEF Matches, Entries, Path
<1>2. /\ s.kind = "path" => Found(Files, s) = {s.path}
      /\ s.kind = "glob" => Found(Files, s) = Matches(Files, s)
      /\ s.kind = "remote" => Found(Files, s) = {}
  BY DEF Found
<1> QED
  BY <1>1, <1>2 DEF FromDir

\* The resolution of an argument begins.
LEMMA NextSourceTyped == Typed /\ NextSource => Typed'
<1> SUFFICES ASSUME Typed, NextSource PROVE Typed'
  OBVIOUS
<1>1. /\ UNCHANGED <<content, command, cancelled, exit, file, queue, partial,
                     transfers>>
      /\ phase = "next" /\ phase' = "expand" /\ spec' = spec + 1
      /\ spec < Len(command.srcs)
      /\ todo' = Found(Files, command.srcs[spec + 1])
  BY DEF NextSource, resolveFrame, copying
<1> DEFINE s == command.srcs[spec + 1]
<1>2. /\ spec \in Nat /\ Len(command.srcs) \in Nat
      /\ spec + 1 \in 1..Len(command.srcs)
  BY <1>1, CommandFacts DEF Typed, TypeOK
<1>3. s.path \in Path /\ s.kind \in {"path", "glob", "remote"}
  BY <1>2, CommandFacts DEF Typed, TypeOK
<1>4. Source' = s
  BY <1>1 DEF Source
<1> HIDE DEF s
<1>5. todo' \subseteq Path /\ (FromDir(s) => todo' = {s.path})
  BY <1>1, <1>3, FoundFacts DEF s, Typed
<1>6. FromDir(Source') => \A p \in todo' : From(Source'.path, p)
  BY <1>3, <1>4, <1>5, FromOrder
<1>7. TypeOK'
  BY <1>1, <1>2, <1>5 DEF Typed, TypeOK, Files, Transfers, Path
<1>8. FromDir(Source)' => \A p \in todo' : From(Source.path, p)'
  BY <1>6 DEF FromDir, From
<1> QED
  BY <1>1, <1>2, <1>7, <1>8 DEF Typed, Files

\* What a directory holds is to be looked at in its place.
LEMMA StatDirFacts ==
  ASSUME Typed, NEW p \in todo, StatDir(p)
  PROVE  /\ phase = "expand" /\ p \in Dirs /\ p \in Path
         /\ todo' = (todo \ {p}) \cup
                      IF FromDir(Source) THEN Entries(Files, p) ELSE {}
         /\ UNCHANGED <<content, command, phase, spec, transfers, cancelled,
                        exit, file, queue, partial>>
         /\ \A e \in Entries(Files, p) :
              /\ e \in Path /\ e # << >> /\ Parent(e) = p /\ From(p, e)
              /\ Len(e) = Len(p) + 1 /\ e \in Files \cup Dirs
<1>1. /\ phase = "expand" /\ p \in Dirs
      /\ todo' = (todo \ {p}) \cup
                   IF FromDir(Source) THEN Entries(Files, p) ELSE {}
      /\ UNCHANGED <<content, command, phase, spec, transfers, cancelled, exit,
                     file, queue, partial>>
  BY DEF StatDir, resolveFrame, copying
<1>2. \A e \in Entries(Files, p) :
        /\ e \in Path /\ e # << >> /\ Parent(e) = p /\ From(p, e)
        /\ Len(e) = Len(p) + 1 /\ e \in Files \cup Dirs
  BY <1>1, EntriesFacts DEF Typed
<1> QED
  BY <1>1, <1>2, ResolverAssumption DEF Path

\* So the listed paths still lie below the argument.
LEMMA StatDirTyped ==
  ASSUME Typed, NEW p \in todo, StatDir(p)
  PROVE  Typed'
<1>1. /\ phase = "expand" /\ p \in Dirs /\ p \in Path
      /\ todo' = (todo \ {p}) \cup
                   IF FromDir(Source) THEN Entries(Files, p) ELSE {}
      /\ UNCHANGED <<content, command, phase, spec, transfers, cancelled, exit,
                     file, queue, partial>>
      /\ \A e \in Entries(Files, p) : e \in Path /\ From(p, e)
  BY StatDirFacts
<1>2. todo \subseteq Path /\ Source.path \in Path
  BY <1>1, SourceFacts
<1>3. todo' \subseteq Path
  BY <1>1, <1>2
<1>4. FromDir(Source) => \A e \in todo' : From(Source.path, e)
  <2> SUFFICES ASSUME FromDir(Source), NEW e \in Entries(Files, p)
               PROVE  From(Source.path, e)
    BY <1>1 DEF Typed
  <2>1. From(Source.path, p)
    BY <1>1 DEF Typed
  <2> QED
    BY <1>1, <1>2, <2>1, FromOrder
<1>5. TypeOK'
  BY <1>1, <1>3 DEF Typed, TypeOK, Files, Transfers, Path
<1>6. FromDir(Source)' => \A e \in todo' : From(Source.path, e)'
  BY <1>1, <1>4 DEF FromDir, From, Source
<1> QED
  BY <1>1, <1>5, <1>6 DEF Typed, Files

\* The next file is taken up.
LEMMA NextFileFacts ==
  ASSUME Typed, NextFile
  PROVE  /\ phase = "files" /\ queue = {} /\ file' = file + 1
         /\ file' \in Transfers /\ file \in Nat
         /\ queue' = 1..transfers[file'].size
         /\ UNCHANGED <<content, command, phase, spec, todo, transfers,
                        cancelled, exit, partial>>
<1>1. /\ phase = "files" /\ queue = {} /\ file < Len(transfers)
      /\ file' = file + 1 /\ queue' = 1..transfers[file + 1].size
      /\ UNCHANGED <<content, command, phase, spec, todo, transfers,
                     cancelled, exit, partial>>
  BY DEF NextFile, copyFrame, resolution
<1>2. file \in 0..Len(transfers) /\ Len(transfers) \in Nat
  BY DEF Typed, TypeOK
<1>3. file + 1 \in 1..Len(transfers) /\ Transfers = 1..Len(transfers)
  BY <1>1, <1>2 DEF Typed, Transfers
<1> QED
  BY <1>1, <1>2, <1>3

\* Its chunks are the queue.
LEMMA NextFileTyped == Typed /\ NextFile => Typed'
<1> SUFFICES ASSUME Typed, NextFile PROVE Typed'
  OBVIOUS
<1>1. /\ phase = "files" /\ file' = file + 1 /\ file' \in Transfers
      /\ file \in Nat /\ queue' = 1..transfers[file'].size
      /\ UNCHANGED <<content, command, phase, spec, todo, transfers,
                     cancelled, exit, partial>>
  BY NextFileFacts
<1>2. Transfers = 1..Len(transfers) /\ Len(transfers) \in Nat
  BY DEF Typed, Transfers
<1>3. file' \in 0..Len(transfers) /\ file' # 0
  BY <1>1, <1>2
<1>4. queue' \subseteq 1..(IF file' = 0 THEN 0 ELSE transfers[file'].size)
  BY <1>1, <1>3
<1>5. TypeOK'
  BY <1>1, <1>3, <1>4 DEF Typed, TypeOK, Files, Transfers
<1> QED
  BY <1>1, <1>5 DEF Typed, Files

\* What every resolution step but the four above leaves alone, and what they
\* do to the phase.
Passing ==
  \/ RunEError \/ Version \/ RunE
  \/ SourceExpanded \/ NothingResolved \/ BadChunkSize \/ Resolved \/ Finish
  \/ Interrupt \/ Stop \/ UNCHANGED vars
  \/ \E p \in todo : StatMissing(p)

\* They change the phase in one of seven ways, and nothing that was resolved.
LEMMA PassingFacts ==
  ASSUME Typed, Passing
  PROVE  /\ UNCHANGED <<content, command, spec, todo, transfers, file, queue,
                        partial>>
         /\ \/ UNCHANGED <<phase, exit>>
            \/ phase = "start" /\ phase' = "next" /\ UNCHANGED exit
            \/ /\ phase = "expand" /\ phase' = "next" /\ UNCHANGED exit
               /\ Source.kind # "remote" /\ todo = {}
            \/ /\ phase = "next" /\ phase' = "files" /\ UNCHANGED exit
               /\ spec = Len(command.srcs) /\ transfers # << >>
            \/ /\ phase' = "exited" /\ exit' \in {1, 2}
               /\ phase \in {"start", "next", "expand", "files"}
               /\ queue = {}
            \/ /\ phase = "start" /\ phase' = "exited" /\ exit' = 0
            \/ /\ phase = "files" /\ phase' = "exited" /\ exit' = 0
               /\ queue = {} /\ file = Len(transfers) /\ ~partial
         /\ cancelled' \in BOOLEAN
<1>1. CASE RunEError \/ Version \/ NothingResolved \/ BadChunkSize \/ Finish
           \/ \E p \in todo : StatMissing(p)
  BY <1>1 DEF RunEError, Version, NothingResolved, BadChunkSize, Finish,
              StatMissing, Return, resolution, copying, Typed, TypeOK
<1>2. CASE RunE \/ SourceExpanded \/ Resolved
  BY <1>2 DEF RunE, SourceExpanded, Resolved, resolveFrame, resolution,
              copying, Typed, TypeOK
<1>3. CASE Interrupt \/ Stop \/ UNCHANGED vars
  BY <1>3 DEF Interrupt, Stop, vars, resolution, copying, Typed, TypeOK
<1> QED
  BY <1>1, <1>2, <1>3 DEF Passing

\* They keep the types.
LEMMA PassingTyped == Typed /\ Passing => Typed'
<1> SUFFICES ASSUME Typed, Passing PROVE Typed'
  OBVIOUS
<1>1. /\ UNCHANGED <<content, command, spec, todo, transfers, file, queue,
                     partial>>
      /\ phase' \in {"start", "next", "expand", "files", "exited"}
      /\ exit' \in {NoExit, 0, 1, 2} /\ cancelled' \in BOOLEAN
  BY PassingFacts DEF Typed, TypeOK
<1>2. TypeOK'
  BY <1>1 DEF Typed, TypeOK, Files, Transfers
<1>3. /\ phase' \in {"start", "next", "expand"} => file' = 0
      /\ phase' # "files" => queue' = {}
      /\ phase' = "start" => spec' = 0 /\ transfers' = << >>
      /\ phase' = "files" => spec' = Len(command'.srcs)
      /\ phase' = "expand" => phase = "expand"
  BY PassingFacts DEF Typed
<1>4. phase' = "expand" =>
        /\ spec' >= 1
        /\ FromDir(Source)' => \A p \in todo' : From(Source.path, p)'
  BY <1>1, <1>3 DEF Typed, FromDir, From, Source
<1> QED
  BY <1>1, <1>2, <1>3, <1>4 DEF Typed, Files

\* A listed path that is a file, and the path of a remote argument, make a
\* transfer: p is the file, n its size.
Resolves(p, n) ==
  /\ phase = "expand"
  /\ transfers' = Append(transfers, Transfer(p, n))
  /\ \/ /\ p \in todo \cap Files /\ n = Len(content[p])
        /\ todo' = todo \ {p} /\ phase' = "expand"
     \/ /\ Source.kind = "remote" /\ p = Source.path /\ n = 0
        /\ todo' = todo /\ phase' = "next"
  /\ UNCHANGED <<spec, resolveFrame>>

\* One transfer is added, the others stay.
LEMMA ResolvesFacts ==
  ASSUME Typed, NEW p, NEW n, Resolves(p, n)
  PROVE  /\ Typed' /\ p \in Path /\ n \in Nat
         /\ FromDir(Source) => From(Source.path, p)
         /\ Transfer(p, n) \in Move /\ Len(transfers) \in Nat
         /\ Transfers = 1..Len(transfers)
         /\ Transfers' = Transfers \cup {Len(transfers) + 1}
         /\ \A t \in Transfers : transfers'[t] = transfers[t]
         /\ transfers'[Len(transfers) + 1] = Transfer(p, n)
         /\ UNCHANGED <<content, command, spec, cancelled, exit, file, queue,
                        partial>>
<1>1. Source.path \in Path /\ todo \subseteq Path
  BY SourceFacts DEF Resolves
<1>2. \A q \in Files : Len(content[q]) \in Nat
  BY DEF Typed, TypeOK
<1>3. p \in Path /\ n \in Nat
  BY <1>1, <1>2 DEF Resolves
<1>4. FromDir(Source) => From(Source.path, p)
  BY DEF Resolves, FromDir, Typed
<1>5. Typed' /\ Transfer(p, n) \in Move
  BY <1>3, <1>4, FoundTyped DEF Resolves
<1>6. /\ Len(transfers) \in Nat /\ Transfers = 1..Len(transfers)
      /\ Transfers' = Transfers \cup {Len(transfers) + 1}
      /\ \A t \in Transfers : transfers'[t] = transfers[t]
      /\ transfers'[Len(transfers) + 1] = Transfer(p, n)
  BY <1>5, AppendFacts DEF Resolves, Typed
<1> QED
  BY <1>3, <1>4, <1>5, <1>6 DEF Resolves, resolveFrame, copying

\* Every step is one of these.
LEMMA StepCases ==
  ASSUME [Next]_vars
  PROVE  \/ Passing \/ NextSource \/ NextFile
         \/ \E p, n : Resolves(p, n)
         \/ \E p \in todo : StatDir(p)
         \/ \E k \in queue : (~cancelled /\ CopyChunk(k)) \/ CopyError(k)
         \/ \E p \in Vanishing : Remove(p)
<1>1. ASSUME ExpandRemote
      PROVE  Resolves(Source.path, 0)
  BY <1>1 DEF ExpandRemote, Resolves
<1>2. ASSUME NEW p \in todo, StatFile(p)
      PROVE  Resolves(p, Len(content[p]))
  BY <1>2 DEF StatFile, Resolves
<1> QED
  BY <1>1, <1>2 DEF Next, Resolve, Passing

\* Every step keeps the types.
LEMMA NextTyped == Typed /\ [Next]_vars => Typed'
<1> SUFFICES ASSUME Typed, [Next]_vars PROVE Typed'
  OBVIOUS
<1>1. CASE \E p \in Vanishing : Remove(p)
  <2>1. PICK p \in Vanishing : Remove(p)
    BY <1>1
  <2>2. /\ Files' = Files \ {p} /\ \A q \in Files' : content'[q] = content[q]
        /\ UNCHANGED <<command, phase, spec, todo, transfers, file, queue,
                       partial, cancelled, exit>>
    BY <2>1 DEF Remove, Files, resolution, copying
  <2>3. TypeOK'
    BY <2>2 DEF Typed, TypeOK, Transfers
  <2>4. /\ FromDir(Source)' <=> FromDir(Source)
        /\ \A q : From(Source.path, q)' <=> From(Source.path, q)
    BY <2>2 DEF FromDir, From, Source
  <2> QED
    BY <2>2, <2>3, <2>4 DEF Typed
<1> QED
  BY <1>1, StepCases, PassingTyped, NextSourceTyped, NextFileTyped,
     ResolvesFacts, StatDirTyped, ChunkTyped

\* Initially there is nothing but the files.
LEMMA TypedInit == Init => Typed
<1> SUFFICES ASSUME Init PROVE Typed
  OBVIOUS
<1>1. Files = DOMAIN Length /\ \A p \in Files : content[p] = Original[p]
  BY DEF Init, Files, Original
<1>2. ASSUME NEW p \in DOMAIN Length PROVE Original[p] \in Units
  <2>1. p \in DOMAIN Original
    BY <1>2 DEF Original
  <2> QED
    BY <2>1, OriginalFacts
<1>3. /\ Files \subseteq Path /\ \A p \in Files : content[p] \in Units
      /\ \A p \in Files : p \notin Dirs /\ Parent(p) \in Dirs
  BY <1>1, <1>2, CopyAssumption DEF Path
<1>4. /\ Len(command.srcs) \in Nat /\ command \in Commands
      /\ spec = 0 /\ file = 0 /\ queue = {} /\ todo = {} /\ transfers = << >>
      /\ cancelled = FALSE /\ partial = FALSE /\ exit = NoExit
      /\ phase = "start"
  BY CommandFacts DEF Init
<1>5. Len(transfers) = 0 /\ Transfers = {} /\ transfers \in Seq(Move)
  <2>1. transfers \in Seq(Move) /\ Len(transfers) = 0
    BY <1>4, EmptySeq
  <2>2. DOMAIN transfers = 1..0
    BY <2>1
  <2> QED
    BY <2>1, <2>2 DEF Transfers
<1>6. TypeOK
  <2>1. /\ \A p \in Files : content[p] \in Seq(Seq(STRING) \X Nat)
        /\ \A p \in Files : p \notin Dirs /\ Parent(p) \in Dirs
    BY <1>3 DEF Units, Path
  <2>2. spec \in 0..Len(command.srcs) /\ file \in 0..Len(transfers)
    BY <1>4, <1>5
  <2>3. {cancelled, partial} \subseteq BOOLEAN
    BY <1>4
  <2>4. exit \in {NoExit, 0, 1, 2} /\ queue \subseteq 1..0
    BY <1>4
  <2> QED
    BY <1>4, <1>5, <2>1, <2>2, <2>3, <2>4 DEF TypeOK
<1> QED
  BY <1>3, <1>4, <1>5, <1>6 DEF Typed

\* In every reachable state the types and the phases are right.
THEOREM TypedAlways == Spec => []Typed
BY TypedInit, NextTyped, PTL DEF Spec

\* Every variable keeps its type: every file lies in a directory and is none.
THEOREM TypeCorrect == Spec => []TypeOK
<1>1. Typed => TypeOK
  BY DEF Typed
<1> QED
  BY <1>1, TypedAlways, PTL

-----------------------------------------------------------------------------

\* What a copied chunk changes.
LEMMA CopyEffect ==
  ASSUME Typed, NEW k \in queue, CopyChunk(k)
  PROVE  /\ Src \in Files /\ k \in DOMAIN content[Src] /\ Dst \in Files'
         /\ Files' = Files \cup {Dst}
         /\ \A p \in Files \ {Dst} : content'[p] = content[p]
         /\ k \in DOMAIN content'[Dst] /\ k <= Len(content'[Dst])
         /\ content'[Dst][k] = content[Src][k]
         /\ Dst \in Files /\ k \in DOMAIN content[Dst] =>
              DOMAIN content'[Dst] = DOMAIN content[Dst]
         /\ Dst \in Files =>
              \A i \in DOMAIN content[Dst] \ {k} :
                /\ i \in DOMAIN content'[Dst] /\ i <= Len(content'[Dst])
                /\ content'[Dst][i] = content[Dst][i]
         /\ \A i \in DOMAIN content'[Dst] \ {k} :
              \/ content'[Dst][i] = Hole
              \/ /\ Dst \in Files /\ i \in DOMAIN content[Dst]
                 /\ content'[Dst][i] = content[Dst][i]
         /\ queue' = queue \ {k}
         /\ UNCHANGED <<command, phase, spec, todo, transfers, file, partial,
                        cancelled, exit>>
<1> DEFINE old == Opened(Dst)
           new == WriteAt(old, k, content[Src][k])
<1>1. k \in Nat \ {0}
  BY FileFacts
<1>2. \A p \in Files : content[p] \in Units
  BY DEF Typed, TypeOK, Units, Path
<1>3. old \in Units /\ (Dst \in Files => old = content[Dst])
      /\ (Dst \notin Files => old = << >>)
  BY <1>2 DEF Opened, Units
<1>4. Src \in Files /\ k <= Len(content[Src]) /\ content[Src] \in Units
  BY <1>2 DEF CopyChunk
<1>5. k \in DOMAIN content[Src] /\ content[Src][k] \in Path \X Nat
  BY <1>1, <1>4 DEF Units
<1>6. Overwrites(new, old, k, content[Src][k]) /\ KeepsLength(new, old, k)
  BY <1>1, <1>3, <1>5, WriteAtFacts
<1> HIDE DEF old, new
<1>7. Write(new) /\ queue' = queue \ {k} /\
      UNCHANGED <<command, phase, spec, todo, transfers, file, partial,
                  cancelled, exit>>
  BY DEF CopyChunk, copyFrame, resolution, old, new
<1>8. /\ Files' = Files \cup {Dst} /\ content'[Dst] = new
      /\ \A p \in Files \ {Dst} : content'[p] = content[p]
  BY <1>7 DEF Write, Files
<1>9. ASSUME Dst \in Files, NEW i \in DOMAIN content[Dst] \ {k}
      PROVE  /\ i \in DOMAIN new /\ i <= Len(new) /\ new[i] = content[Dst][i]
  BY <1>3, <1>6, <1>9 DEF Overwrites
<1>10. ASSUME NEW i \in DOMAIN new \ {k}
       PROVE  \/ new[i] = Hole
              \/ /\ Dst \in Files /\ i \in DOMAIN content[Dst]
                 /\ new[i] = content[Dst][i]
  <2>1. CASE i \in DOMAIN old
    <3>1. old # << >>
      BY <1>6, <2>1 DEF Overwrites
    <3> QED
      BY <1>3, <1>6, <2>1, <3>1 DEF Overwrites
  <2>2. CASE i \notin DOMAIN old
    BY <1>6, <2>2 DEF Overwrites
  <2> QED
    BY <2>1, <2>2
<1>11. k \in DOMAIN new /\ k <= Len(new) /\ new[k] = content[Src][k]
  BY <1>6 DEF Overwrites
<1>12. ASSUME Dst \in Files, k \in DOMAIN content[Dst]
       PROVE  DOMAIN new = DOMAIN content[Dst]
  BY <1>3, <1>6, <1>12 DEF KeepsLength
<1> QED
  BY <1>4, <1>5, <1>7, <1>8, <1>9, <1>10, <1>11, <1>12

\* What a failed chunk changes: at most it creates the destination, empty.
LEMMA ErrorEffect ==
  ASSUME Typed, NEW k \in queue, CopyError(k)
  PROVE  /\ Files \subseteq Files' /\ Files' \subseteq Files \cup {Dst}
         /\ \A p \in Files : content'[p] = content[p]
         /\ Dst \in Files' \ Files => content'[Dst] = << >>
         /\ Src \notin Files => Files' = Files
         /\ queue' = queue \ {k} /\ partial' = TRUE
         /\ UNCHANGED <<command, phase, spec, todo, transfers, file,
                        cancelled, exit>>
<1>1. /\ queue' = queue \ {k} /\ partial' = TRUE
      /\ UNCHANGED <<command, phase, spec, todo, transfers, file,
                     cancelled, exit>>
  BY DEF CopyError, copyFrame, resolution
<1>2. CASE UNCHANGED content
  BY <1>1, <1>2 DEF Files
<1>3. CASE Src \in Files /\ Write(Opened(Dst))
  BY <1>1, <1>3 DEF Write, Opened, Files
<1> QED
  BY <1>2, <1>3 DEF CopyError

\* A file that vanishes.
LEMMA RemoveEffect ==
  ASSUME NEW p \in Vanishing, Remove(p)
  PROVE  /\ Files' = Files \ {p} /\ phase # "exited"
         /\ \A q \in Files' : content'[q] = content[q]
         /\ UNCHANGED <<command, phase, spec, todo, transfers, file, queue,
                        partial, cancelled, exit>>
BY DEF Remove, Files, resolution, copying

\* The source that begins, and the paths to look at for it.
LEMMA NextSourceFacts ==
  ASSUME Typed, NextSource
  PROVE  /\ UNCHANGED <<content, command, cancelled, exit, file, queue,
                        partial, transfers>>
         /\ phase = "next" /\ phase' = "expand" /\ spec' = spec + 1
         /\ spec \in Nat /\ spec' \in 1..Len(command.srcs)
         /\ Source' = command.srcs[spec'] /\ Source' \in Argument
         /\ todo' = Found(Files, Source') /\ Source'.path \in Path
         /\ Source'.kind \in {"path", "glob", "remote"}
<1>1. /\ UNCHANGED <<content, command, cancelled, exit, file, queue, partial,
                     transfers>>
      /\ phase = "next" /\ phase' = "expand" /\ spec' = spec + 1
      /\ spec < Len(command.srcs)
      /\ todo' = Found(Files, command.srcs[spec'])
  BY DEF NextSource, resolveFrame, copying
<1>2. spec \in Nat /\ spec' \in 1..Len(command.srcs)
  BY <1>1, CommandFacts DEF Typed, TypeOK
<1>3. /\ command.srcs[spec'].path \in Path
      /\ command.srcs[spec'].kind \in {"path", "glob", "remote"}
      /\ command.srcs[spec'] \in Argument
  BY <1>2, CommandFacts DEF Typed, TypeOK
<1>4. Source' = command.srcs[spec']
  BY <1>1 DEF Source
<1> QED
  BY <1>1, <1>2, <1>3, <1>4

\* Every step keeps that: the files are touched in no phase but the last.
LEMMA NextNothingYet == Typed /\ NothingYet /\ [Next]_vars => NothingYet'
<1> SUFFICES ASSUME Typed, NothingYet, [Next]_vars PROVE NothingYet'
  OBVIOUS
<1>1. ASSUME content' = content PROVE Untouched' <=> Untouched
  BY <1>1 DEF Untouched, Files
<1>2. CASE \/ Passing \/ NextSource \/ NextFile
           \/ (\E p, n : Resolves(p, n)) \/ (\E p \in todo : StatDir(p))
  <2>1. content' = content
    BY <1>2, PassingFacts, NextSourceFacts, NextFileFacts, ResolvesFacts,
       StatDirFacts
  <2>2. phase' \in {"start", "next", "expand"} =>
          phase \in {"start", "next", "expand"}
    BY <1>2, PassingFacts, NextSourceFacts, NextFileFacts, StatDirFacts
       DEF Resolves
  <2> QED
    BY <1>1, <2>1, <2>2 DEF NothingYet
<1>3. CASE \E k \in queue : (~cancelled /\ CopyChunk(k)) \/ CopyError(k)
  <2>1. phase = "files" /\ phase' = phase
    BY <1>3, FileFacts, CopyEffect, ErrorEffect
  <2> QED
    BY <2>1 DEF NothingYet
<1>4. CASE \E p \in Vanishing : Remove(p)
  <2>1. /\ Files' \subseteq Files /\ \A q \in Files' : content'[q] = content[q]
        /\ phase' = phase
    BY <1>4, RemoveEffect
  <2>2. Untouched => Untouched'
    BY <2>1 DEF Untouched
  <2> QED
    BY <2>1, <2>2 DEF NothingYet
<1> QED
  BY StepCases, <1>2, <1>3, <1>4

\* Nothing is touched before the sources are resolved, in any reachable state.
THEOREM NothingYetAlways == Spec => []NothingYet
<1>1. Init => NothingYet
  BY DEF Init, NothingYet, Untouched, Files
<1> QED
  BY <1>1, NextNothingYet, TypedAlways, PTL DEF Spec

\* Paths are left to look at only while a local argument is expanded, and after
\* a run that ended because one was missing.
Unfinished ==
  /\ phase # "exited" => exit = NoExit
  /\ todo # {} =>
       /\ phase \in {"expand", "exited"} /\ Untouched /\ exit \in {NoExit, 2}
  /\ phase = "expand" /\ Source.kind = "remote" => todo = {}

\* Every step keeps that, and a path that is missing stays missing.
LEMMA NextMissing ==
  Typed /\ NothingYet /\ Unfinished /\ [Next]_vars =>
    Unfinished' /\ (Missing => Missing')
<1> SUFFICES ASSUME Typed, NothingYet, Unfinished, [Next]_vars
             PROVE  Unfinished' /\ (Missing => Missing')
  OBVIOUS
<1>1. ASSUME content' = content
      PROVE  Files' = Files /\ (Untouched' <=> Untouched)
  BY <1>1 DEF Untouched, Files
<1>2. CASE Passing
  <2>1. UNCHANGED <<content, todo>>
    BY <1>2, PassingFacts
  <2>2. Missing => Missing'
    BY <1>1, <2>1 DEF Missing
  <2>3. todo # {} => \/ UNCHANGED <<phase, exit>>
                     \/ phase' = "exited" /\ exit' = 2
    BY <1>2 DEF Passing, RunEError, Version, RunE, SourceExpanded,
                NothingResolved, BadChunkSize, Resolved, Finish, Interrupt,
                Stop, StatMissing, Return, vars, Unfinished
  <2>4. phase' # "exited" => exit' = NoExit
    BY <1>2, PassingFacts DEF Unfinished, Typed, TypeOK
  <2>5. phase' = "expand" => UNCHANGED <<phase, Source>>
    BY <1>2, PassingFacts DEF Source
  <2> QED
    BY <1>1, <2>1, <2>2, <2>3, <2>4, <2>5 DEF Unfinished
<1>3. CASE NextSource
  <2>1. /\ UNCHANGED <<content, exit>> /\ phase = "next" /\ phase' = "expand"
    BY <1>3, NextSourceFacts
  <2>2. exit = NoExit /\ todo = {} /\ Untouched
    BY <2>1 DEF Unfinished, NothingYet
  <2>3. ~Missing
    BY <2>2 DEF Missing
  <2>4. Untouched' /\ exit' = NoExit
    BY <1>1, <2>1, <2>2
  <2>5. Source'.kind = "remote" => todo' = {}
    BY <1>3, NextSourceFacts DEF Found
  <2>6. Unfinished'
    BY <2>1, <2>4, <2>5 DEF Unfinished
  <2> QED
    BY <2>3, <2>6
<1>4. CASE NextFile
  <2>1. phase = "files" /\ UNCHANGED <<content, todo, phase, exit>>
    BY <1>4, NextFileFacts DEF NextFile
  <2> QED
    BY <1>1, <2>1 DEF Unfinished, Missing
<1>5. CASE \E p, n : Resolves(p, n)
  <2>1. PICK p, n : Resolves(p, n)
    BY <1>5
  <2>2. UNCHANGED <<content, exit, Source>> /\ phase = "expand"
    BY <2>1, ResolvesFacts DEF Resolves, Source
  <2>3. CASE p \in Files /\ todo' = todo \ {p} /\ phase' = "expand"
    BY <1>1, <2>2, <2>3 DEF Unfinished, Missing
  <2>4. CASE Source.kind = "remote" /\ todo' = todo /\ phase' = "next"
    <3>1. todo = {}
      BY <2>2, <2>4 DEF Unfinished
    <3> QED
      BY <1>1, <2>2, <2>4, <3>1 DEF Unfinished, Missing
  <2> QED
    BY <2>1, <2>3, <2>4 DEF Resolves
<1>6. CASE \E p \in todo : StatDir(p)
  <2>1. PICK p \in todo : StatDir(p)
    BY <1>6
  <2>2. /\ UNCHANGED <<content, phase, exit, Source>> /\ phase = "expand"
        /\ p \in Dirs /\ todo \ {p} \subseteq todo' /\ todo # {}
    BY <2>1, StatDirFacts DEF Source
  <2> QED
    BY <1>1, <2>2 DEF Unfinished, NothingYet, Missing
<1>7. CASE \E k \in queue : (~cancelled /\ CopyChunk(k)) \/ CopyError(k)
  <2>1. phase = "files" /\ UNCHANGED <<phase, todo, exit>>
    BY <1>7, FileFacts, CopyEffect, ErrorEffect
  <2>2. todo = {}
    BY <2>1 DEF Unfinished
  <2> QED
    BY <2>1, <2>2 DEF Unfinished, Missing
<1>8. CASE \E p \in Vanishing : Remove(p)
  <2>1. /\ Files' \subseteq Files /\ \A q \in Files' : content'[q] = content[q]
        /\ UNCHANGED <<phase, todo, exit, Source>>
    BY <1>8, RemoveEffect DEF Source
  <2>2. Untouched => Untouched'
    BY <2>1 DEF Untouched
  <2> QED
    BY <2>1, <2>2 DEF Unfinished, Missing
<1> QED
  BY StepCases, <1>2, <1>3, <1>4, <1>5, <1>6, <1>7, <1>8

\* Once a path is missing nothing has been touched nor ever will be, and the
\* run does not end with anything but 2.
THEOREM AllOrNothingAlways == Spec => AllOrNothing
<1> DEFINE Quit == Untouched /\ exit \in {NoExit, 2}
<1>1. Init => Unfinished
  BY DEF Init, Unfinished
<1>2. Unfinished /\ Missing => Quit
  BY DEF Unfinished, Missing
<1> HIDE DEF Quit
<1>3. Spec => [](Missing => []Quit)
  BY <1>1, <1>2, NextMissing, TypedAlways, NothingYetAlways, PTL DEF Spec
<1> QED
  BY <1>3 DEF AllOrNothing, Quit

\* A destination stays one.
LEMMA DestinationsGrow ==
  ASSUME Typed, [Next]_vars
  PROVE  Destinations \subseteq Destinations'
<1>1. ASSUME UNCHANGED transfers PROVE Destinations' = Destinations
  BY <1>1 DEF Destinations, Transfers
<1>2. CASE \E p, n : Resolves(p, n)
  <2>1. Transfers \subseteq Transfers'
        /\ \A t \in Transfers : transfers'[t] = transfers[t]
    BY <1>2, ResolvesFacts
  <2> QED
    BY <2>1 DEF Destinations
<1>3. CASE ~ \E p, n : Resolves(p, n)
  BY <1>1, <1>3, StepCases, PassingFacts, NextSourceFacts, NextFileFacts,
     StatDirFacts, CopyEffect, ErrorEffect, RemoveEffect
<1> QED
  BY <1>2, <1>3

\* Every step keeps the units in their places.
LEMMA NextInPlace == Typed /\ InPlace /\ [Next]_vars => InPlace'
<1> SUFFICES ASSUME Typed, InPlace, [Next]_vars PROVE InPlace'
  OBVIOUS
<1>1. Destinations \subseteq Destinations'
  BY DestinationsGrow
<1>2. CASE \E k \in queue : ~cancelled /\ CopyChunk(k)
  <2>1. PICK k \in queue : CopyChunk(k)
    BY <1>2
  <2>2. Dst \in Destinations /\ k \in Nat
    BY FileFacts
  <2>3. content[Src][k] = Hole \/ content[Src][k][2] = k
    BY <2>1, CopyEffect DEF InPlace, Placed
  <2>4. \A p \in Files : Placed(content[p])
    BY DEF InPlace
  <2>5. Placed(content'[Dst])
    <3> SUFFICES ASSUME NEW i \in DOMAIN content'[Dst]
                 PROVE  content'[Dst][i] = Hole \/ content'[Dst][i][2] = i
      BY DEF Placed
    <3>1. CASE i = k
      BY <2>1, <2>3, <3>1, CopyEffect
    <3>2. CASE i # k
      BY <2>1, <2>4, <3>2, CopyEffect DEF Placed
    <3> QED
      BY <3>1, <3>2
  <2>6. /\ Files' = Files \cup {Dst}
        /\ \A p \in Files \ {Dst} : content'[p] = content[p]
    BY <2>1, CopyEffect
  <2> QED
    BY <1>1, <2>2, <2>4, <2>5, <2>6 DEF InPlace
<1>3. CASE \E k \in queue : CopyError(k)
  <2>1. PICK k \in queue : CopyError(k)
    BY <1>3
  <2>2. Dst \in Destinations
    BY FileFacts
  <2>3. /\ Files' \subseteq Files \cup {Dst}
        /\ \A p \in Files : content'[p] = content[p]
        /\ Dst \in Files' \ Files => content'[Dst] = << >>
    BY <2>1, ErrorEffect
  <2>4. Placed(<< >>)
    BY DEF Placed
  <2> QED
    BY <1>1, <2>2, <2>3, <2>4 DEF InPlace
<1>4. CASE \E p \in Vanishing : Remove(p)
  BY <1>1, <1>4, RemoveEffect DEF InPlace
<1>5. CASE UNCHANGED content
  BY <1>1, <1>5 DEF InPlace, Files
<1> QED
  BY <1>2, <1>3, <1>4, <1>5, StepCases, PassingFacts, NextSourceFacts,
     NextFileFacts, StatDirFacts, ResolvesFacts

\* Chunks land at their own offset in any order, and nothing but a destination
\* changes.
THEOREM DataInPlaceAlways == Spec => []DataInPlace
<1>1. Init => InPlace
  <2> SUFFICES ASSUME Init PROVE InPlace
    OBVIOUS
  <2>1. content = Original
    BY DEF Init
  <2>2. \A p \in Files : Placed(Original[p])
    BY <2>1, OriginalFacts DEF Placed, Files
  <2> QED
    BY <2>1, <2>2 DEF InPlace, Files
<1>2. InPlace => DataInPlace
  BY DEF InPlace, DataInPlace, Placed
<1> QED
  BY <1>1, <1>2, NextInPlace, TypedAlways, PTL DEF Spec

\* Whether a transfer is disturbed hangs on the transfers alone.
LEMMA UndisturbedKept ==
  ASSUME UNCHANGED transfers
  PROVE  Transfers' = Transfers
         /\ \A t : Undisturbed(t)' <=> Undisturbed(t)
BY DEF Undisturbed, Transfers

\* A copied chunk of an undisturbed transfer arrives, one of another transfer
\* does not reach its files.
LEMMA CopyDelivers ==
  ASSUME Typed, Delivered, NEW k \in queue, CopyChunk(k),
         NEW t \in Transfers, Undisturbed(t)
  PROVE  Intact(t)' /\ OnItsWay(t)'
<1>1. /\ phase = "files" /\ file \in Transfers /\ k \in Nat \ {0}
  BY FileFacts
<1>2. /\ Src \in Files /\ k \in DOMAIN content[Src] /\ Dst \in Files'
      /\ Files' = Files \cup {Dst}
      /\ \A p \in Files \ {Dst} : content'[p] = content[p]
      /\ k \in DOMAIN content'[Dst] /\ k <= Len(content'[Dst])
      /\ content'[Dst][k] = content[Src][k]
      /\ Dst \in Files /\ k \in DOMAIN content[Dst] =>
           DOMAIN content'[Dst] = DOMAIN content[Dst]
      /\ Dst \in Files =>
           \A i \in DOMAIN content[Dst] \ {k} :
             /\ i \in DOMAIN content'[Dst] /\ i <= Len(content'[Dst])
             /\ content'[Dst][i] = content[Dst][i]
      /\ queue' = queue \ {k}
      /\ UNCHANGED <<transfers, file, partial>>
  BY CopyEffect
<1>3. Intact(t) /\ OnItsWay(t)
  BY <1>1 DEF Delivered
<1> DEFINE src == transfers[t].src
           dst == transfers[t].dst
<1>4. CASE t # file
  <2>1. Dst # src /\ Dst # dst
    BY <1>1, <1>4 DEF Undisturbed, Dst
  <2>2. Intact(t)'
    BY <1>2, <1>3, <2>1 DEF Intact
  <2>3. \A j : Landed(t, j) => Landed(t, j)'
    BY <1>2, <2>1 DEF Landed
  <2>4. OnItsWay(t)'
    BY <1>2, <1>3, <1>4, <2>3 DEF OnItsWay
  <2> QED
    BY <2>2, <2>4
<1>5. CASE t = file
  <2>1. src = Src /\ dst = Dst
    BY <1>5 DEF Src, Dst
  <2>2. content[Src][k] = <<src, k>>
    BY <1>2, <1>3, <2>1 DEF Intact
  <2>3. Intact(t)'
    <3>1. CASE src = Dst
      <4>1. DOMAIN content'[Dst] = DOMAIN content[Dst] /\ Dst \in Files
        BY <1>2, <2>1, <3>1
      <4>2. \A i \in DOMAIN content'[src] : content'[src][i] = <<src, i>>
        BY <1>2, <1>3, <2>2, <3>1, <4>1 DEF Intact
      <4> QED
        BY <1>2, <4>2 DEF Intact
    <3>2. CASE src # Dst
      BY <1>2, <1>3, <3>2 DEF Intact
    <3> QED
      BY <3>1, <3>2
  <2>4. Landed(t, k)'
    BY <1>2, <2>1, <2>2 DEF Landed
  <2>5. ASSUME NEW j \in Nat \ {0}, j # k, Landed(t, j)
        PROVE  Landed(t, j)'
    <3>1. Dst \in Files /\ j <= Len(content[Dst]) /\ content[Dst] \in Units
      BY <2>1, <2>5 DEF Landed, Typed, TypeOK, Units, Path
    <3>2. j \in DOMAIN content[Dst]
      BY <3>1 DEF Units
    <3> QED
      BY <1>2, <2>1, <2>5, <3>2 DEF Landed
  <2>6. OnItsWay(t)'
    <3> SUFFICES ASSUME ~partial, NEW j \in 1..transfers[t].size
                 PROVE  j \in queue \ {k} \/ Landed(t, j)'
      BY <1>2, <1>5 DEF OnItsWay
    <3>1. j \in queue \/ Landed(t, j)
      BY <1>1, <1>3, <1>5 DEF OnItsWay, Typed, TypeOK
    <3>2. j \in Nat \ {0}
      BY <1>5, FileFacts
    <3> QED
      BY <2>4, <2>5, <3>1, <3>2
  <2> QED
    BY <2>3, <2>6
<1> QED
  BY <1>4, <1>5

\* Every step keeps what has been delivered.
LEMMA NextDelivered ==
  Typed /\ NothingYet /\ Delivered /\ [Next]_vars => Delivered'
<1> SUFFICES ASSUME Typed, NothingYet, Delivered, [Next]_vars PROVE Delivered'
  OBVIOUS
<1> DEFINE Good ==
             \A t \in Transfers : Undisturbed(t) => Intact(t) /\ OnItsWay(t)
<1>1. ASSUME exit' = NoExit PROVE ZeroDelivers'
  BY <1>1 DEF ZeroDelivers, NoExit
<1>2. ASSUME UNCHANGED <<content, transfers>>
      PROVE  /\ \A t : Intact(t)' <=> Intact(t)
             /\ \A t, k : Landed(t, k)' <=> Landed(t, k)
             /\ \A t : Arrived(t)' <=> Arrived(t)
  BY <1>2 DEF Intact, Landed, Arrived, Files
<1>3. ASSUME NEW t \in Transfers
      PROVE  Arrived(t) <=> \A k \in 1..transfers[t].size : Landed(t, k)
  BY DEF Arrived, Landed
<1>4. file \in Nat /\ Len(transfers) \in Nat /\ Transfers = 1..Len(transfers)
  BY DEF Typed, TypeOK, Transfers
<1>5. CASE Passing
  <2>1. UNCHANGED <<content, transfers, file, queue, partial>>
    BY <1>5, PassingFacts
  <2>2. \A t : OnItsWay(t)' <=> OnItsWay(t)
    BY <1>2, <2>1 DEF OnItsWay
  <2>3. /\ Transfers' = Transfers /\ \A t : Undisturbed(t)' <=> Undisturbed(t)
        /\ \A t : Intact(t)' <=> Intact(t)
    BY <1>2, <2>1, UndisturbedKept
  <2>4. ZeroDelivers => (exit' = exit => ZeroDelivers')
    BY <1>2, <2>1, <2>3 DEF ZeroDelivers
  <2>5. CASE UNCHANGED <<phase, exit>>
    BY <2>2, <2>3, <2>4, <2>5 DEF Delivered
  <2>6. CASE phase' \in {"next", "expand"} /\ UNCHANGED exit
    BY <2>4, <2>6, PassingFacts, <1>5 DEF Delivered
  <2>7. CASE phase = "next" /\ phase' = "files" /\ UNCHANGED exit
    <3>1. Untouched /\ file = 0
      BY <2>7 DEF NothingYet, Typed
    <3>2. \A t : Intact(t)
      BY <3>1, OriginalFacts DEF Intact, Untouched
    <3>3. \A t \in Transfers : OnItsWay(t)
      BY <1>4, <3>1 DEF OnItsWay
    <3> QED
      BY <2>2, <2>3, <2>4, <2>7, <3>2, <3>3 DEF Delivered
  <2>8. CASE phase' = "exited" /\ exit' \in {1, 2}
    BY <2>8 DEF Delivered, ZeroDelivers
  <2>9. CASE phase = "start" /\ phase' = "exited" /\ exit' = 0
    <3>1. Transfers = {}
      <4>1. Len(transfers) = 0
        BY <2>9, EmptySeq DEF Typed
      <4> QED
        BY <1>4, <4>1
    <3> QED
      BY <2>3, <2>9, <3>1 DEF Delivered, ZeroDelivers
  <2>10. CASE /\ phase = "files" /\ phase' = "exited" /\ exit' = 0
              /\ queue = {} /\ file = Len(transfers) /\ ~partial
    <3>1. \A t \in Transfers : Undisturbed(t) => Arrived(t)
      BY <1>3, <1>4, <2>10 DEF Delivered, OnItsWay
    <3> QED
      BY <1>2, <2>1, <2>3, <2>10, <3>1 DEF Delivered, ZeroDelivers
  <2> QED
    BY <1>5, <2>5, <2>6, <2>7, <2>8, <2>9, <2>10, PassingFacts
<1>6. CASE \/ NextSource
           \/ \E p, n : Resolves(p, n)
           \/ \E p \in todo : StatDir(p)
  <2>1. phase \in {"next", "expand"} /\ phase' \in {"next", "expand"}
        /\ exit' = exit
    BY <1>6, NextSourceFacts, ResolvesFacts, StatDirFacts DEF Resolves
  <2> QED
    BY <1>1, <2>1 DEF Delivered
<1>7. CASE NextFile
  <2>1. /\ phase = "files" /\ phase' = "files" /\ queue = {}
        /\ file' = file + 1 /\ queue' = 1..transfers[file'].size
        /\ UNCHANGED <<content, transfers, partial, exit>>
    BY <1>7, NextFileFacts
  <2>2. ASSUME NEW t \in Transfers, OnItsWay(t)
        PROVE  OnItsWay(t)'
    BY <1>2, <1>4, <2>1, <2>2 DEF OnItsWay
  <2>3. /\ Transfers' = Transfers /\ \A t : Undisturbed(t)' <=> Undisturbed(t)
        /\ \A t : Intact(t)' <=> Intact(t)
    BY <1>2, <2>1, UndisturbedKept
  <2> QED
    BY <1>1, <2>1, <2>2, <2>3 DEF Delivered
<1>8. CASE \E k \in queue : ~cancelled /\ CopyChunk(k)
  <2>1. PICK k \in queue : CopyChunk(k)
    BY <1>8
  <2>2. phase = "files" /\ UNCHANGED <<phase, transfers, exit>>
    BY <2>1, CopyEffect, FileFacts
  <2>3. Transfers' = Transfers /\ \A t : Undisturbed(t)' <=> Undisturbed(t)
    BY <2>2, UndisturbedKept
  <2> QED
    BY <1>1, <2>1, <2>2, <2>3, CopyDelivers DEF Delivered
<1>9. CASE \E k \in queue : CopyError(k)
  <2>1. PICK k \in queue : CopyError(k)
    BY <1>9
  <2>2. /\ phase = "files" /\ UNCHANGED <<phase, transfers, exit>>
        /\ partial' = TRUE /\ Files' \subseteq Files \cup {Dst}
        /\ \A p \in Files : content'[p] = content[p]
        /\ Dst \in Files' \ Files => content'[Dst] = << >>
    BY <2>1, ErrorEffect, FileFacts
  <2>3. Transfers' = Transfers /\ \A t : Undisturbed(t)' <=> Undisturbed(t)
    BY <2>2, UndisturbedKept
  <2>4. \A t : OnItsWay(t)'
    BY <2>2 DEF OnItsWay
  <2>5. ASSUME NEW t, Intact(t) PROVE Intact(t)'
    BY <2>2, <2>5 DEF Intact
  <2> QED
    BY <1>1, <2>2, <2>3, <2>4, <2>5 DEF Delivered
<1>10. CASE \E p \in Vanishing : Remove(p)
  <2>1. PICK p \in Vanishing : Remove(p)
    BY <1>10
  <2>2. /\ Files' = Files \ {p} /\ phase # "exited"
        /\ \A q \in Files' : content'[q] = content[q]
        /\ UNCHANGED <<phase, transfers, file, queue, partial, exit>>
    BY <2>1, RemoveEffect
  <2>3. Transfers' = Transfers /\ \A t : Undisturbed(t)' <=> Undisturbed(t)
    BY <2>2, UndisturbedKept
  <2>4. ASSUME NEW t, Undisturbed(t), OnItsWay(t) PROVE OnItsWay(t)'
    <3>1. \A k : Landed(t, k) => Landed(t, k)'
      BY <2>2, <2>4 DEF Landed, Undisturbed
    <3> QED
      BY <2>2, <2>4, <3>1 DEF OnItsWay
  <2>5. ASSUME NEW t, Intact(t) PROVE Intact(t)'
    BY <2>2, <2>5 DEF Intact
  <2> QED
    BY <1>1, <2>2, <2>3, <2>4, <2>5 DEF Delivered
<1> QED
  BY StepCases, <1>5, <1>6, <1>7, <1>8, <1>9, <1>10

\* Exit code 0 means that every undisturbed transfer is at its destination,
\* through failures, a file that vanishes and any order of the chunks.
THEOREM ZeroDeliversAlways == Spec => []ZeroDelivers
<1>1. Init => Delivered
  BY DEF Init, Delivered, ZeroDelivers, NoExit
<1>2. Delivered => ZeroDelivers
  BY DEF Delivered
<1> QED
  BY <1>1, <1>2, NextDelivered, TypedAlways, NothingYetAlways, PTL DEF Spec

-----------------------------------------------------------------------------

\* What these say of the next state.
LEMMA Primes ==
  ASSUME NEW t, NEW i, NEW f
  PROVE  /\ Fits(SourceOf(t), transfers[t], command.dst)' <=>
              Fits(SourceOf(t)', transfers'[t], command'.dst)
         /\ SourceOf(t)' = command'.srcs[transfers'[t].spec]
         /\ Sorted(Source, todo)' <=> Sorted(Source', todo')
         /\ Fresh(Source, todo, transfers[t].src)' <=>
              Fresh(Source', todo', transfers'[t].src)
         /\ Ahead(Source, todo, f)' <=> Ahead(Source', todo', f)
         /\ Names(command.srcs[i], f)' <=> Names(command'.srcs[i], f)
BY DEF Fits, SourceOf, Sorted, Fresh, Ahead, Names, FromDir, From, Within, Rel,
       Matches, Entries, Base, Parent, Source, Original, DestinationOf, IsTree,
       RelFails, Joined, IntoDir

\* Every step but three leaves the search for the sources where it is.
Quiet ==
  /\ UNCHANGED <<command, transfers, spec, todo>>
  /\ \/ phase' = phase
     \/ phase = "start" /\ phase' = "next" /\ spec = 0
     \/ phase = "expand" /\ phase' = "next" /\ todo = {}
     \/ phase = "next" /\ phase' = "files"
     \/ phase' = "exited"

\* There is no fifth kind of step.
LEMMA SearchCases ==
  ASSUME Typed, [Next]_vars
  PROVE  \/ Quiet \/ NextSource \/ \E p, n : Resolves(p, n)
         \/ \E p \in todo : StatDir(p)
<1>1. CASE Passing
  BY <1>1, PassingFacts DEF Quiet, Typed
<1>2. CASE NextFile
  BY <1>2, NextFileFacts DEF Quiet
<1>3. CASE \E k \in queue : (~cancelled /\ CopyChunk(k)) \/ CopyError(k)
  BY <1>3, CopyEffect, ErrorEffect DEF Quiet
<1>4. CASE \E p \in Vanishing : Remove(p)
  BY <1>4, RemoveEffect DEF Quiet
<1> QED
  BY <1>1, <1>2, <1>3, <1>4, StepCases

\* Names of the three kinds of argument.
LEMMA NamesFacts ==
  ASSUME NEW s, s.path \in Path, NEW f \in Path
  PROVE  /\ s.kind = "path" =>
              (Names(s, f) <=> f = s.path \/ (FromDir(s) /\ Within(s.path, f)))
         /\ s.kind = "glob" =>
              (Names(s, f) <=> f \in Matches(DOMAIN Original, s))
         /\ s.kind = "remote" => ~Names(s, f)
BY DEF Names

\* A new transfer is of a file that its argument names.
LEMMA FoundFits ==
  ASSUME Typed, NothingYet, Frontier, NEW p, NEW n, Resolves(p, n)
  PROVE  Fits(Source, Transfer(p, n), command.dst)
<1> SUFFICES ASSUME Source.kind # "remote"
             PROVE  /\ p \in DOMAIN Original /\ Names(Source, p)
  BY DEF Fits, Transfer
<1>1. phase = "expand" /\ p \in todo /\ p \in Files /\ p \in Path
  BY ResolvesFacts DEF Resolves
<1>2. Source.path \in Path /\ Source.kind \in {"path", "glob", "remote"}
  BY <1>1, SourceFacts
<1>3. p \in DOMAIN Original /\ p \notin Dirs
  BY <1>1 DEF NothingYet, Untouched, Typed, TypeOK
<1>4. Sorted(Source, todo)
  BY <1>1 DEF Frontier
<1>5. CASE FromDir(Source)
  <2>1. From(Source.path, p) /\ Source.path # p /\ Source.kind = "path"
    BY <1>1, <1>3, <1>5 DEF Typed, FromDir
  <2>2. Within(Source.path, p)
    BY <1>1, <1>2, <2>1, WithinFacts
  <2>3. Names(Source, p)
    BY <1>1, <1>2, <1>5, <2>1, <2>2, NamesFacts
  <2> QED
    BY <1>3, <2>3
<1>6. CASE ~FromDir(Source)
  <2>1. CASE Source.kind = "path"
    BY <1>1, <1>2, <1>3, <1>4, <1>6, <2>1, NamesFacts DEF Sorted
  <2>2. CASE Source.kind = "glob"
    BY <1>1, <1>2, <1>3, <1>4, <1>6, <2>2, NamesFacts DEF Sorted
  <2> QED
    BY <1>2, <2>1, <2>2
<1> QED
  BY <1>5, <1>6

\* Every step keeps every transfer in its place.
LEMMA NextGrounded ==
  Typed /\ NothingYet /\ Frontier /\ Grounded /\ [Next]_vars => Grounded'
<1> SUFFICES ASSUME Typed, NothingYet, Frontier, Grounded, [Next]_vars
             PROVE  Grounded'
  OBVIOUS
<1>1. ASSUME NEW t, transfers'[t] = transfers[t], command' = command,
             t \in Transfers
      PROVE  Fits(SourceOf(t), transfers[t], command.dst)'
  <2>1. Fits(SourceOf(t), transfers[t], command.dst)
    BY <1>1 DEF Grounded
  <2>2. SourceOf(t)' = SourceOf(t)
    BY <1>1, Primes DEF SourceOf
  <2>3. Fits(SourceOf(t)', transfers'[t], command'.dst)
    BY <1>1, <2>1, <2>2
  <2> QED
    BY <2>3, Primes
<1>2. CASE UNCHANGED <<command, transfers>>
  BY <1>1, <1>2 DEF Grounded, Transfers
<1>3. CASE \E p, n : Resolves(p, n)
  <2>1. PICK p, n : Resolves(p, n)
    BY <1>3
  <2>0. PICK u : u = Len(transfers) + 1
    OBVIOUS
  <2> DEFINE m == Transfer(p, n)
  <2>2. /\ Transfers' = Transfers \cup {u} /\ command' = command
        /\ \A t \in Transfers : transfers'[t] = transfers[t]
        /\ transfers'[u] = m
    BY <2>0, <2>1, ResolvesFacts
  <2>3. m.spec = spec /\ Source = command.srcs[spec]
    BY DEF Transfer, Source
  <2>4. Fits(Source, m, command.dst)
    BY <2>1, FoundFits
  <2> HIDE DEF m
  <2>5. SourceOf(u)' = Source
    BY <2>2, <2>3, Primes
  <2>6. Fits(SourceOf(u)', transfers'[u], command'.dst)
    BY <2>2, <2>4, <2>5
  <2>7. Fits(SourceOf(u), transfers[u], command.dst)'
    BY <2>6, Primes
  <2> QED
    BY <1>1, <2>2, <2>7 DEF Grounded
<1> QED
  BY <1>2, <1>3, SearchCases, NextSourceFacts, StatDirFacts DEF Quiet

\* No step makes a second transfer of a file for one argument.
LEMMA NextOnce == Typed /\ Frontier /\ Once /\ [Next]_vars => Once'
<1> SUFFICES ASSUME Typed, Frontier, Once, [Next]_vars PROVE Once'
  OBVIOUS
<1>1. CASE UNCHANGED <<command, transfers>>
  BY <1>1 DEF Once, Transfers, SourceOf
<1>2. CASE \E p, n : Resolves(p, n)
  <2>1. PICK p, n : Resolves(p, n)
    BY <1>2
  <2>0. PICK new : new = Len(transfers) + 1
    OBVIOUS
  <2> DEFINE m == Transfer(p, n)
  <2>2. /\ Transfers' = Transfers \cup {new} /\ command' = command
        /\ \A t \in Transfers : transfers'[t] = transfers[t]
        /\ transfers'[new] = m
    BY <2>0, <2>1, ResolvesFacts
  <2>3. m.spec = spec /\ m.src = p /\ Source = command.srcs[spec]
        /\ phase = "expand"
    BY <2>1 DEF Transfer, Source, Resolves
  <2> HIDE DEF m
  <2>4. \A t \in Transfers : SourceOf(t)' = SourceOf(t)
    BY <2>2, Primes DEF SourceOf
  <2>5. SourceOf(new)' = Source
    BY <2>2, <2>3, Primes
  <2>6. ASSUME NEW t \in Transfers, transfers[t].spec = spec,
               Source.kind # "remote"
        PROVE  transfers[t].src # p
    <3>1. p \in todo
      BY <2>1, <2>6 DEF Resolves
    <3>2. Fresh(Source, todo, transfers[t].src)
      BY <2>3, <2>6 DEF Frontier
    <3> QED
      BY <3>1, <3>2 DEF Fresh
  <2>7. \A t \in Transfers : transfers[t].spec = spec => SourceOf(t) = Source
    BY <2>3 DEF SourceOf
  <2>8. ASSUME NEW t \in Transfers', NEW u \in Transfers',
               SourceOf(t)'.kind # "remote",
               transfers'[t].spec = transfers'[u].spec,
               transfers'[t].src = transfers'[u].src
        PROVE  t = u
    <3>1. CASE t \in Transfers /\ u \in Transfers
      BY <2>2, <2>4, <2>8, <3>1 DEF Once
    <3>2. CASE t \in Transfers /\ u = new
      BY <2>2, <2>3, <2>4, <2>6, <2>7, <2>8, <3>2
    <3>3. CASE t = new /\ u \in Transfers
      BY <2>2, <2>3, <2>5, <2>6, <2>8, <3>3
    <3> QED
      BY <2>2, <3>1, <3>2, <3>3
  <2> QED
    BY <2>8 DEF Once
<1> QED
  BY <1>1, <1>2, SearchCases, NextSourceFacts, StatDirFacts DEF Quiet

\* The paths first listed for an argument are sorted.
LEMMA FoundSorted ==
  ASSUME Files \subseteq Path, Files \subseteq DOMAIN Original, NEW s,
         s.path \in Path, s.kind \in {"path", "glob", "remote"}
  PROVE  Sorted(s, Found(Files, s))
<1>1. s.kind = "glob" => Found(Files, s) \subseteq Matches(DOMAIN Original, s)
  BY FoundFacts DEF Matches, Entries
<1>2. FromDir(s) => \A p, q \in Found(Files, s) : From(p, q) => p = q
  BY FoundFacts
<1> QED
  BY <1>1, <1>2, FoundFacts DEF Sorted

\* So are those left when a path is replaced by what the directory holds.
LEMMA StatDirSorted ==
  ASSUME Typed, Sorted(Source, todo), NEW p \in todo, StatDir(p)
  PROVE  Sorted(Source, todo')
<1>1. /\ phase = "expand" /\ p \in Path
      /\ todo' = (todo \ {p}) \cup
                   IF FromDir(Source) THEN Entries(Files, p) ELSE {}
      /\ \A e \in Entries(Files, p) :
           /\ e \in Path /\ e # << >> /\ Parent(e) = p /\ From(p, e)
           /\ Len(e) = Len(p) + 1
  BY StatDirFacts
<1>2. todo \subseteq Path
  BY <1>1, SourceFacts
<1>3. CASE ~FromDir(Source)
  BY <1>1, <1>3 DEF Sorted
<1>4. CASE FromDir(Source)
  <2>1. Source.kind = "path"
    BY <1>4 DEF FromDir
  <2>2. \A q, r \in todo : From(q, r) => q = r
    BY <1>4 DEF Sorted
  <2>3. ASSUME NEW e \in Entries(Files, p), NEW q \in todo \ {p}
        PROVE  ~From(e, q) /\ ~From(q, e)
    <3>1. /\ e \in Path /\ q \in Path /\ e # << >> /\ Parent(e) = p
          /\ From(p, e)
      BY <1>1, <1>2, <2>3
    <3>2. From(e, q) => From(p, q)
      BY <1>1, <3>1, FromOrder
    <3>3. From(q, e) => q = e \/ From(q, p)
      BY <3>1, ParentOrder
    <3> QED
      BY <2>2, <2>3, <3>1, <3>2, <3>3
  <2>4. ASSUME NEW e \in Entries(Files, p), NEW f \in Entries(Files, p),
               From(e, f)
        PROVE  e = f
    BY <1>1, <2>4, FromOrder
  <2>5. \A q, r \in todo' : From(q, r) => q = r
    BY <1>1, <1>4, <2>2, <2>3, <2>4
  <2> QED
    BY <1>4, <2>1, <2>5 DEF Sorted
<1> QED
  BY <1>3, <1>4

\* None of them was resolved, nor anything below it.
LEMMA StatDirFresh ==
  ASSUME Typed, NEW src \in Path, Fresh(Source, todo, src), NEW p \in todo,
         StatDir(p)
  PROVE  Fresh(Source, todo', src)
<1>1. /\ phase = "expand" /\ p \in Path
      /\ todo' = (todo \ {p}) \cup
                   IF FromDir(Source) THEN Entries(Files, p) ELSE {}
      /\ \A e \in Entries(Files, p) : e \in Path /\ From(p, e)
  BY StatDirFacts
<1>2. ASSUME FromDir(Source), NEW e \in Entries(Files, p)
      PROVE  e # src /\ ~From(e, src)
  <2>1. ~From(p, src)
    BY <1>2 DEF Fresh
  <2>2. From(e, src) => From(p, src)
    BY <1>1, <1>2, FromOrder
  <2>3. From(p, e)
    BY <1>1, <1>2
  <2> QED
    BY <2>1, <2>2, <2>3
<1> QED
  BY <1>1, <1>2 DEF Fresh

\* Every step keeps the listed paths apart from each other and from the files.
LEMMA NextFrontier ==
  Typed /\ NothingYet /\ Grounded /\ Frontier /\ [Next]_vars => Frontier'
<1> SUFFICES ASSUME Typed, NothingYet, Grounded, Frontier, [Next]_vars,
                    phase' = "expand"
             PROVE  /\ Sorted(Source', todo')
                    /\ \A t \in Transfers' :
                         transfers'[t].spec = spec' /\ Source'.kind # "remote"
                           => Fresh(Source', todo', transfers'[t].src)
  BY Primes DEF Frontier
<1>1. CASE Quiet
  <2>1. /\ phase = "expand" /\ UNCHANGED <<transfers, spec, todo>>
        /\ Source' = Source /\ Transfers' = Transfers
    BY <1>1 DEF Quiet, Source, Transfers
  <2> QED
    BY <2>1 DEF Frontier
<1>2. CASE NextSource
  <2>1. /\ UNCHANGED transfers /\ phase = "next" /\ spec' = spec + 1
        /\ spec \in Nat /\ todo' = Found(Files, Source')
        /\ Source'.path \in Path
        /\ Source'.kind \in {"path", "glob", "remote"}
    BY <1>2, NextSourceFacts
  <2>2. Files \subseteq DOMAIN Original
    BY <2>1 DEF NothingYet, Untouched
  <2>3. Sorted(Source', todo')
    BY <2>1, <2>2, FoundSorted DEF Typed
  <2>4. \A t \in Transfers : transfers[t].spec \in 1..spec
    BY DEF Typed, TypeOK
  <2>5. \A t \in Transfers' : transfers'[t].spec # spec'
    BY <2>1, <2>4 DEF Transfers
  <2> QED
    BY <2>3, <2>5
<1>3. CASE \E p, n : Resolves(p, n)
  <2>1. PICK p, n : Resolves(p, n)
    BY <1>3
  <2>2. /\ phase = "expand" /\ p \in todo /\ todo' = todo \ {p}
        /\ UNCHANGED spec /\ Source' = Source
        /\ Transfers' = Transfers \cup {Len(transfers) + 1}
        /\ \A t \in Transfers : transfers'[t] = transfers[t]
        /\ transfers'[Len(transfers) + 1] = Transfer(p, n)
    BY <2>1, ResolvesFacts DEF Resolves, Source
  <2>3. Sorted(Source, todo)
    BY <2>2 DEF Frontier
  <2>4. Sorted(Source, todo \ {p})
    BY <2>3 DEF Sorted
  <2>5. Fresh(Source, todo \ {p}, p)
    BY <2>2, <2>3 DEF Fresh, Sorted
  <2>6. \A src : Fresh(Source, todo, src) => Fresh(Source, todo \ {p}, src)
    BY DEF Fresh
  <2>7. Transfer(p, n).src = p
    BY DEF Transfer
  <2> QED
    BY <2>2, <2>4, <2>5, <2>6, <2>7 DEF Frontier
<1>4. CASE \E p \in todo : StatDir(p)
  <2>1. PICK p \in todo : StatDir(p)
    BY <1>4
  <2>2. /\ phase = "expand" /\ UNCHANGED <<transfers, spec>>
        /\ Source' = Source /\ Transfers' = Transfers
    BY <2>1, StatDirFacts DEF Source, Transfers
  <2>3. Sorted(Source, todo')
    BY <2>1, <2>2, StatDirSorted DEF Frontier
  <2>4. ASSUME NEW t \in Transfers, transfers[t].spec = spec,
               Source.kind # "remote"
        PROVE  Fresh(Source, todo', transfers[t].src)
    <3>1. Fresh(Source, todo, transfers[t].src)
      BY <2>2, <2>4 DEF Frontier
    <3>2. SourceOf(t) = Source
      BY <2>4 DEF SourceOf, Source
    <3>3. transfers[t].src \in DOMAIN Original
      BY <2>4, <3>2 DEF Grounded, Fits
    <3>4. transfers[t].src \in Path
      BY <3>3, OriginalFacts
    <3> QED
      BY <2>1, <3>1, <3>4, StatDirFresh
  <2> QED
    BY <2>2, <2>3, <2>4
<1> QED
  BY <1>1, <1>2, <1>3, <1>4, SearchCases

\* Only what may vanish does.
LEMMA NextStaying == Typed /\ Staying /\ [Next]_vars => Staying'
<1> SUFFICES ASSUME Typed, Staying, [Next]_vars PROVE Staying'
  OBVIOUS
<1>1. CASE UNCHANGED content
  BY <1>1 DEF Staying, Files
<1>2. CASE \E k \in queue : (~cancelled /\ CopyChunk(k)) \/ CopyError(k)
  <2>1. Files \subseteq Files'
    BY <1>2, CopyEffect, ErrorEffect
  <2> QED
    BY <2>1 DEF Staying
<1>3. CASE \E p \in Vanishing : Remove(p)
  <2>1. PICK p \in Vanishing : Remove(p)
    BY <1>3
  <2>2. Files' = Files \ {p}
    BY <2>1, RemoveEffect
  <2> QED
    BY <2>2 DEF Staying
<1> QED
  BY <1>1, <1>2, <1>3, StepCases, PassingFacts, NextSourceFacts,
     NextFileFacts, ResolvesFacts, StatDirFacts

\* A file that an argument names lies ahead when its expansion begins.
LEMMA FoundAhead ==
  ASSUME Files \subseteq Path, NEW s, s.path \in Path,
         s.kind \in {"path", "glob", "remote"}, NEW f \in Files,
         Names(s, f)
  PROVE  Ahead(s, Found(Files, s), f)
<1>1. CASE s.kind = "path"
  <2>1. Found(Files, s) = {s.path}
    BY <1>1, FoundFacts
  <2>2. f = s.path \/ (FromDir(s) /\ From(s.path, f))
    BY <1>1, NamesFacts, WithinFacts
  <2> QED
    BY <2>1, <2>2 DEF Ahead
<1>2. CASE s.kind = "glob"
  <2>1. f \in Matches(DOMAIN Original, s)
    BY <1>2, NamesFacts
  <2>2. f \in Matches(Files, s)
    BY <2>1 DEF Matches, Entries
  <2> QED
    BY <1>2, <2>2, FoundFacts DEF Ahead
<1> QED
  BY <1>1, <1>2, NamesFacts

\* It lies ahead until it is resolved itself.
LEMMA StatFileAhead ==
  ASSUME Typed, NEW p \in todo, p \in Files, NEW f \in Files, f # p,
         Ahead(Source, todo, f)
  PROVE  Ahead(Source, todo \ {p}, f)
<1>1. PICK q \in todo : q = f \/ (FromDir(Source) /\ From(q, f))
  BY DEF Ahead
<1>2. q # p
  <2> SUFFICES ASSUME From(p, f) PROVE FALSE
    BY <1>1
  <2>1. /\ p \in Path /\ p \notin Dirs /\ f \in Path /\ f \notin Dirs
        /\ Parent(f) \in Dirs
    BY DEF Typed, TypeOK
  <2>2. f # << >>
    BY <2>1, ResolverAssumption
  <2> QED
    BY <2>1, <2>2, NoneBelow
<1> QED
  BY <1>1, <1>2 DEF Ahead

\* Behind a directory lies an entry of it.
LEMMA StatDirAhead ==
  ASSUME Typed, NEW p \in todo, StatDir(p), NEW f \in Files,
         Ahead(Source, todo, f)
  PROVE  Ahead(Source, todo', f)
<1>1. /\ p \in Dirs
      /\ todo' = (todo \ {p}) \cup
                   IF FromDir(Source) THEN Entries(Files, p) ELSE {}
  BY StatDirFacts
<1>2. f \notin Dirs /\ Parent(f) \in Dirs /\ Files \subseteq Path
  BY DEF Typed, TypeOK
<1>3. PICK q \in todo : q = f \/ (FromDir(Source) /\ From(q, f))
  BY DEF Ahead
<1>4. CASE q # p
  BY <1>1, <1>3, <1>4 DEF Ahead
<1>5. CASE q = p
  <2>1. FromDir(Source) /\ From(p, f) /\ p # f /\ f # << >>
    BY <1>1, <1>2, <1>3, <1>5, ResolverAssumption
  <2>2. PICK e \in Entries(Files, p) : From(e, f)
    BY <1>1, <1>2, <2>1, EntryToward
  <2> QED
    BY <1>1, <2>1, <2>2 DEF Ahead
<1> QED
  BY <1>4, <1>5

\* Every step keeps track of every file that an argument names.
LEMMA NextCovered ==
  Typed /\ NothingYet /\ Staying /\ Covered /\ [Next]_vars => Covered'
<1> SUFFICES ASSUME Typed, NothingYet, Staying, Covered, [Next]_vars,
                    phase' \in {"next", "expand", "files"},
                    NEW i \in 1..spec', NEW f \in DOMAIN Original \ Vanishing,
                    Names(command'.srcs[i], f)
             PROVE  Taken(i, f)' \/ (/\ phase' = "expand" /\ i = spec'
                                     /\ Ahead(Source', todo', f))
  BY Primes DEF Covered
<1>1. /\ f \in Files /\ f \in Path /\ Files \subseteq Path
      /\ spec \in Nat
  BY CommandFacts DEF Staying, Typed, TypeOK
<1>2. ASSUME UNCHANGED transfers, Taken(i, f)
      PROVE  Taken(i, f)'
  BY <1>2 DEF Taken, Transfers
<1>3. CASE Quiet
  <2>1. UNCHANGED <<command, transfers, spec, todo>> /\ Source' = Source
    BY <1>3 DEF Quiet, Source
  <2>2. CASE phase \in {"next", "expand", "files"}
    <3>1. \/ Taken(i, f)
          \/ phase = "expand" /\ i = spec /\ Ahead(Source, todo, f)
      BY <2>1, <2>2 DEF Covered
    <3>2. phase = "expand" => phase' = "expand" \/ ~Ahead(Source, todo, f)
      BY <1>3 DEF Quiet, Ahead
    <3> QED
      BY <1>2, <2>1, <3>1, <3>2
  <2>3. CASE phase \notin {"next", "expand", "files"}
    BY <1>3, <2>1, <2>3 DEF Quiet
  <2> QED
    BY <2>2, <2>3
<1>4. CASE NextSource
  <2>1. /\ UNCHANGED <<command, transfers>> /\ phase = "next"
        /\ phase' = "expand" /\ spec' = spec + 1
        /\ todo' = Found(Files, Source') /\ Source' = command.srcs[spec']
        /\ Source'.path \in Path
        /\ Source'.kind \in {"path", "glob", "remote"}
    BY <1>4, NextSourceFacts
  <2>2. CASE i \in 1..spec
    BY <1>2, <2>1, <2>2 DEF Covered
  <2>3. CASE i = spec'
    BY <1>1, <2>1, <2>3, FoundAhead
  <2> QED
    BY <1>1, <2>1, <2>2, <2>3
<1>5. CASE \E p, n : Resolves(p, n)
  <2>1. PICK p, n : Resolves(p, n)
    BY <1>5
  <2>2. /\ phase = "expand" /\ UNCHANGED <<command, spec>> /\ Source' = Source
        /\ Transfers' = Transfers \cup {Len(transfers) + 1}
        /\ \A t \in Transfers : transfers'[t] = transfers[t]
        /\ transfers'[Len(transfers) + 1] = Transfer(p, n)
    BY <2>1, ResolvesFacts DEF Resolves, Source
  <2>3. Transfer(p, n).src = p /\ Transfer(p, n).spec = spec
    BY DEF Transfer
  <2>4. Taken(i, f) => Taken(i, f)'
    BY <2>2 DEF Taken
  <2>5. i = spec /\ f = p => Taken(i, f)'
    BY <2>2, <2>3 DEF Taken
  <2>6. Taken(i, f) \/ (i = spec /\ Ahead(Source, todo, f))
    BY <2>2 DEF Covered
  <2>7. CASE p \in todo \cap Files /\ todo' = todo \ {p} /\ phase' = "expand"
    BY <1>1, <2>2, <2>4, <2>5, <2>6, <2>7, StatFileAhead
  <2>8. CASE Source.kind = "remote"
    <3>1. i = spec => ~Names(command'.srcs[i], f)
      BY <1>1, <2>2, <2>8, SourceFacts, NamesFacts DEF Source
    <3> QED
      BY <2>4, <2>6, <3>1
  <2> QED
    BY <2>1, <2>7, <2>8 DEF Resolves
<1>6. CASE \E p \in todo : StatDir(p)
  <2>1. PICK p \in todo : StatDir(p)
    BY <1>6
  <2>2. /\ phase = "expand" /\ UNCHANGED <<command, transfers, spec, phase>>
        /\ Source' = Source
    BY <2>1, StatDirFacts DEF Source
  <2>3. Taken(i, f) \/ (i = spec /\ Ahead(Source, todo, f))
    BY <2>2 DEF Covered
  <2> QED
    BY <1>1, <1>2, <2>1, <2>2, <2>3, StatDirAhead
<1> QED
  BY <1>3, <1>4, <1>5, <1>6, SearchCases

(* The inductive invariant of the search for the sources. *)
Search == Grounded /\ Once /\ Frontier /\ Covered /\ Staying

\* Nothing is lost, doubled or misplaced by the search, in any reachable state.
THEOREM SearchAlways == Spec => []Search
<1>1. Init => Search
  <2> SUFFICES ASSUME Init PROVE Search
    OBVIOUS
  <2>1. Typed
    BY TypedInit
  <2>2. phase = "start" /\ Files = DOMAIN Original /\ transfers = << >>
    BY DEF Init, Files
  <2>3. Transfers = {}
    BY <2>2 DEF Transfers
  <2> QED
    BY <2>2, <2>3 DEF Search, Grounded, Once, Frontier, Covered, Staying
<1>2. Typed /\ NothingYet /\ Search /\ [Next]_vars => Search'
  BY NextGrounded, NextOnce, NextFrontier, NextCovered, NextStaying DEF Search
<1> QED
  BY <1>1, <1>2, TypedAlways, NothingYetAlways, PTL DEF Spec

\* A path that the local argument s may stand for.
StandsFor(s, p) ==
  /\ p \in Path /\ p # << >>
  /\ FromDir(s) => Within(s.path, p)
  /\ s.kind = "path" /\ ~FromDir(s) => p = s.path
  /\ s.kind = "glob" => Parent(p) = s.path

\* The source of a local transfer, and where it goes.
LEMMA LocalFacts ==
  ASSUME Typed, Search, NEW t \in Transfers, SourceOf(t).kind # "remote"
  PROVE  /\ SourceOf(t).path \in Path /\ SourceOf(t).kind \in {"path", "glob"}
         /\ StandsFor(SourceOf(t), transfers[t].src)
         /\ transfers[t].dst =
              DestinationOf(transfers[t].src, SourceOf(t), command.dst)
<1> DEFINE s == SourceOf(t)
           p == transfers[t].src
<1>1. transfers[t].spec \in 1..spec /\ spec \in 0..Len(command.srcs)
  BY DEF Typed, TypeOK
<1>2. Len(command.srcs) \in Nat /\ command \in Commands
  BY CommandFacts DEF Typed, TypeOK
<1>3. transfers[t].spec \in 1..Len(command.srcs)
  BY <1>1, <1>2
<1>4. s.path \in Path /\ s.kind \in {"path", "glob"}
  BY <1>2, <1>3, CommandFacts DEF SourceOf
<1>5. Fits(s, transfers[t], command.dst)
  BY DEF Search, Grounded
<1>6. /\ p \in DOMAIN Original /\ Names(s, p)
      /\ transfers[t].dst = DestinationOf(p, s, command.dst)
  BY <1>4, <1>5 DEF Fits
<1> HIDE DEF s, p
<1>7. p \in Path /\ p # << >> /\ p \notin Dirs
  BY <1>6, OriginalFacts
<1>8. FromDir(s) => Within(s.path, p)
  BY <1>4, <1>6, <1>7, NamesFacts DEF FromDir
<1>9. s.kind = "path" /\ ~FromDir(s) => p = s.path
  BY <1>4, <1>6, <1>7, NamesFacts
<1>10. s.kind = "glob" => Parent(p) = s.path
  BY <1>4, <1>6, <1>7, NamesFacts DEF Matches, Entries
<1> QED
  BY <1>4, <1>6, <1>7, <1>8, <1>9, <1>10 DEF s, p, StandsFor

\* Of two files of one argument that meet below dst, the argument is "/".
LEMMA MeetFromRoot ==
  ASSUME NEW s, s.path \in Path, s.kind \in {"path", "glob"},
         NEW dst, dst.path \in Path, IsTree(s) \/ IntoDir(dst),
         NEW p, StandsFor(s, p), NEW q, StandsFor(s, q), p # q,
         DestinationOf(p, s, dst) = DestinationOf(q, s, dst)
  PROVE  RelFails(s)
<1>1. p \in Path /\ p # << >> /\ q \in Path /\ q # << >>
  BY DEF StandsFor
<1>2. CASE IsTree(s)
  <2>1. Within(s.path, p) /\ Within(s.path, q)
    BY <1>2 DEF IsTree, StandsFor
  <2>2. dst.path \o Rel(s.path, p) = dst.path \o Rel(s.path, q)
    BY <1>2 DEF DestinationOf
  <2> QED
    BY <1>1, <2>1, <2>2, TreeInjective
<1>3. CASE s.kind = "path" /\ ~FromDir(s)
  BY <1>3 DEF StandsFor
<1>4. CASE s.kind = "glob"
  <2>1. Base(p) = Base(q)
    BY <1>1, DestinationName DEF StandsFor
  <2>2. Parent(p) = Parent(q)
    BY <1>4 DEF StandsFor
  <2> QED
    BY <1>1, <2>1, <2>2, SameEntry
<1> QED
  BY <1>2, <1>3, <1>4 DEF IsTree

\* Local files meet in the destination as it was given, or have one name and
\* come from different arguments or from "/".
THEOREM MeetOnlyByNameAlways == Spec => []MeetOnlyByName
<1>1. Typed /\ Search => MeetOnlyByName
  <2> SUFFICES ASSUME Typed, Search, NEW t \in Transfers, NEW u \in Transfers,
                      t # u, transfers[t].dst = transfers[u].dst,
                      SourceOf(t).kind # "remote", SourceOf(u).kind # "remote"
               PROVE  \/ /\ transfers[t].dst = command.dst.path
                         /\ ~IntoDir(command.dst)
                      \/ /\ Base(transfers[t].src) = Base(transfers[u].src)
                         /\ transfers[t].spec = transfers[u].spec =>
                              RelFails(SourceOf(t))
    BY DEF MeetOnlyByName
  <2>1. command.dst.path \in Path
    BY CommandFacts DEF Typed, TypeOK
  <2> DEFINE s == SourceOf(t)
             r == SourceOf(u)
             p == transfers[t].src
             q == transfers[u].src
             dst == command.dst
  <2>2. /\ s.path \in Path /\ s.kind \in {"path", "glob"} /\ StandsFor(s, p)
        /\ transfers[t].dst = DestinationOf(p, s, dst)
    BY LocalFacts
  <2>3. /\ r.path \in Path /\ StandsFor(r, q)
        /\ transfers[u].dst = DestinationOf(q, r, dst)
    BY LocalFacts
  <2>4. transfers[t].spec = transfers[u].spec => s = r /\ p # q
    BY DEF Search, Once, SourceOf
  <2> HIDE DEF s, r, p, q, dst
  <2>5. dst.path \in Path
    BY <2>1 DEF dst
  <2>6. /\ IsTree(s) \/ IntoDir(dst) =>
             /\ DestinationOf(p, s, dst) # dst.path
             /\ Base(DestinationOf(p, s, dst)) = Base(p)
        /\ ~(IsTree(s) \/ IntoDir(dst)) => DestinationOf(p, s, dst) = dst.path
    <3>1. /\ p \in Path /\ p # << >>
          /\ FromDir(s) => s.path \in Path /\ Within(s.path, p)
      BY <2>2 DEF StandsFor
    <3> QED
      BY <2>5, <3>1, DestinationName
  <2>7. /\ IsTree(r) \/ IntoDir(dst) =>
             Base(DestinationOf(q, r, dst)) = Base(q)
        /\ ~(IsTree(r) \/ IntoDir(dst)) => DestinationOf(q, r, dst) = dst.path
    <3>1. /\ q \in Path /\ q # << >>
          /\ FromDir(r) => r.path \in Path /\ Within(r.path, q)
      BY <2>3 DEF StandsFor
    <3> QED
      BY <2>5, <3>1, DestinationName
  <2>8. DestinationOf(p, s, dst) = DestinationOf(q, r, dst)
    BY <2>2, <2>3
  <2>9. CASE ~(IsTree(s) \/ IntoDir(dst))
    <3>1. DestinationOf(p, s, dst) = dst.path
      BY <2>6, <2>9
    <3> QED
      BY <2>2, <2>9, <3>1 DEF dst
  <2>10. CASE IsTree(s) \/ IntoDir(dst)
    <3>1. /\ DestinationOf(p, s, dst) # dst.path
          /\ Base(DestinationOf(p, s, dst)) = Base(p)
      BY <2>6, <2>10
    <3>2. Base(DestinationOf(q, r, dst)) = Base(q)
      BY <2>8, <2>7, <3>1
    <3>3. Base(p) = Base(q)
      BY <2>8, <3>1, <3>2
    <3>4. transfers[t].spec = transfers[u].spec => RelFails(s)
      BY <2>2, <2>3, <2>4, <2>8, <2>5, <2>10, MeetFromRoot
    <3> QED
      BY <3>3, <3>4 DEF p, q, s
  <2> QED
    BY <2>9, <2>10
<1> QED
  BY <1>1, TypedAlways, SearchAlways, PTL

\* A file is copied once for every argument that names it.
THEOREM EverySourceCountsAlways == Spec => []EverySourceCounts
<1>1. Typed /\ Search => EverySourceCounts
  <2> SUFFICES ASSUME Typed, Search, phase = "files",
                      NEW p \in DOMAIN Original \ Vanishing
               PROVE  Cardinality({t \in Transfers :
                                     /\ transfers[t].src = p
                                     /\ command.srcs[transfers[t].spec].kind
                                          # "remote"}) =
                      Cardinality({i \in DOMAIN command.srcs :
                                     Names(command.srcs[i], p)})
    BY DEF EverySourceCounts
  <2> DEFINE T == {t \in Transfers :
                     /\ transfers[t].src = p
                     /\ command.srcs[transfers[t].spec].kind # "remote"}
             I == {i \in DOMAIN command.srcs : Names(command.srcs[i], p)}
             f == [t \in T |-> transfers[t].spec]
  <2>1. /\ p \in Path /\ spec = Len(command.srcs) /\ spec \in Nat
        /\ DOMAIN command.srcs = 1..spec
        /\ \A i \in 1..spec : command.srcs[i].path \in Path
    BY OriginalFacts, CommandFacts DEF Typed, TypeOK
  <2>2. \A t \in Transfers : transfers[t].spec \in 1..spec
    BY DEF Typed, TypeOK
  <2>3. ASSUME NEW t \in T PROVE f[t] \in I
    <3>1. /\ t \in Transfers /\ transfers[t].src = p
          /\ SourceOf(t).kind # "remote" /\ f[t] = transfers[t].spec
          /\ SourceOf(t) = command.srcs[transfers[t].spec]
      BY DEF SourceOf
    <3>2. Fits(SourceOf(t), transfers[t], command.dst)
      BY <3>1 DEF Search, Grounded
    <3>3. Names(command.srcs[transfers[t].spec], p)
      BY <3>1, <3>2 DEF Fits
    <3> QED
      BY <2>1, <2>2, <3>1, <3>3
  <2>4. ASSUME NEW t \in T, NEW u \in T, f[t] = f[u] PROVE t = u
    BY <2>4 DEF Search, Once, SourceOf
  <2>5. ASSUME NEW i \in I PROVE \E t \in T : f[t] = i
    <3>1. i \in 1..spec /\ Names(command.srcs[i], p)
      BY <2>1
    <3>2. Taken(i, p)
      BY <3>1 DEF Search, Covered
    <3>3. PICK t \in Transfers : transfers[t].spec = i /\ transfers[t].src = p
      BY <3>2 DEF Taken
    <3>4. command.srcs[i].kind # "remote"
      BY <2>1, <3>1, NamesFacts
    <3> QED
      BY <3>3, <3>4
  <2>6. IsFiniteSet(T)
    <3>1. Transfers = 1..Len(transfers) /\ Len(transfers) \in Nat
      BY DEF Typed, Transfers
    <3>2. IsFiniteSet(Transfers)
      BY <3>1, FS_Interval
    <3> QED
      BY <3>2, FS_Subset
  <2>7. f \in [T -> I]
    BY <2>3
  <2> HIDE DEF T, I, f
  <2>8. f \in Bijection(T, I)
    BY <2>4, <2>5, <2>7, Fun_IsBij
  <2>9. Cardinality(T) = Cardinality(I)
    BY <2>6, <2>8, FS_Bijection DEF ExistsBijection
  <2> QED
    BY <2>9 DEF T, I
<1> QED
  BY <1>1, TypedAlways, SearchAlways, PTL

=============================================================================
