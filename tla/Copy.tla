-------------------------------- MODULE Copy --------------------------------
(***************************************************************************)
(* One invocation of goscp between the argument list and the files: RunE   *)
(* (cmd/goscp/root.go), the resolution of the sources (Resolver) and the   *)
(* copies by local workers (localFileSFTP in cmd/goscp/run.go), while      *)
(* another program may remove files and the user may interrupt.            *)
(*                                                                         *)
(* A file is a sequence of units, a unit is named for where it began:      *)
(* <<path, position>>; a chunk is one unit.  Checkpoints, resumption and   *)
(* dry runs are those of Transfer, where every file has a destination of   *)
(* its own; here the paths are the point.                                  *)
(***************************************************************************)
EXTENDS Resolver

CONSTANTS Length,     \* the files there are at the start, and their units
          Vanishing,  \* files that another program may remove
          Commands    \* the argument lists explored

\* What ParsePathSpec makes of a source argument and of the destination.
Argument == [kind : {"path", "glob", "remote"}, path : Seq(STRING),
             names : SUBSET STRING, absolute : BOOLEAN]
Target == [path : Seq(STRING), slash : BOOLEAN]

ASSUME CopyAssumption ==
  /\ DOMAIN Length \subseteq Seq(STRING)
  /\ \A f \in DOMAIN Length : f \notin Dirs /\ Parent(f) \in Dirs
  /\ \A f \in DOMAIN Length : Length[f] \in Nat
  /\ Vanishing \subseteq DOMAIN Length
  /\ Commands \subseteq [srcs : Seq(Argument), dst : Target]

VARIABLES
  content,    \* the files there are, each a sequence of units
  command,    \* the argument list: srcs and dst
  phase,      \* where RunE and RunTransfer are
  spec,       \* index of the source argument being expanded
  todo,       \* paths of it that Walk or Glob has listed, not yet stat'ed
  transfers,  \* the transfers resolved so far
  file,       \* index of the transfer whose Schedule call is running
  queue,      \* its chunks that have no result yet
  cancelled,  \* ctx is cancelled
  partial,    \* partialFailures
  exit        \* the exit code

resolution == <<spec, todo, transfers>>
copying == <<file, queue, partial>>
vars == <<content, command, phase, resolution, copying, cancelled, exit>>

NoExit == 9
Hole == <<<< >>, 0>>

Original == [f \in DOMAIN Length |-> [k \in 1..Length[f] |-> <<f, k>>]]
Files == DOMAIN content

Init ==
  /\ content = Original
  /\ command \in Commands
  /\ phase = "start"
  /\ spec = 0
  /\ todo = {}
  /\ transfers = << >>
  /\ file = 0
  /\ queue = {}
  /\ cancelled = FALSE
  /\ partial = FALSE
  /\ exit = NoExit

Return(code) ==
  /\ phase' = "exited"
  /\ exit' = code
  /\ UNCHANGED <<content, command, resolution, copying, cancelled>>

----------------------------------------------------------------------------
(* RunE *)

\* The log file cannot be opened, or fewer than two arguments are left.
RunEError == phase = "start" /\ Return(2)

Version == phase = "start" /\ Return(0)

RunE ==
  /\ phase = "start"
  /\ Len(command.srcs) >= 1
  /\ phase' = "next"
  /\ UNCHANGED <<content, command, resolution, copying, cancelled, exit>>

----------------------------------------------------------------------------
(* Resolve: one argument after the other, one Stat after the other.  Walk   *)
(* and Glob go in lexical order, which is not needed here.                  *)

resolveFrame == <<content, command, copying, cancelled, exit>>

Source == command.srcs[spec]

\* A transfer remembers which argument it came from.
Transfer(p, size) ==
  [src |-> p, dst |-> DestinationOf(p, Source, command.dst), size |-> size,
   spec |-> spec]

NextSource ==
  /\ phase = "next"
  /\ spec < Len(command.srcs)
  /\ spec' = spec + 1
  /\ todo' = Found(Files, command.srcs[spec + 1])
  /\ phase' = "expand"
  /\ UNCHANGED <<transfers, resolveFrame>>

\* Nothing is asked of the remote host: its file has no size.
ExpandRemote ==
  /\ phase = "expand"
  /\ Source.kind = "remote"
  /\ transfers' = Append(transfers, Transfer(Source.path, 0))
  /\ phase' = "next"
  /\ UNCHANGED <<spec, todo, resolveFrame>>

StatFile(p) ==
  /\ phase = "expand"
  /\ p \in Files
  /\ transfers' = Append(transfers, Transfer(p, Len(content[p])))
  /\ todo' = todo \ {p}
  /\ UNCHANGED <<phase, spec, resolveFrame>>

\* Slip: a directory that a pattern matches is walked as well.
StatAnyDir(p) ==
  /\ phase = "expand"
  /\ p \in Dirs
  /\ todo' = (todo \ {p}) \cup Entries(Files, p)
  /\ UNCHANGED <<phase, spec, transfers, resolveFrame>>

\* Walk lists a directory; one that a pattern matches is passed over.
StatDir(p) ==
  /\ phase = "expand"
  /\ p \in Dirs
  /\ todo' = (todo \ {p}) \cup
             IF FromDir(Source) THEN Entries(Files, p) ELSE {}
  /\ UNCHANGED <<phase, spec, transfers, resolveFrame>>

\* Slip: a path that is not there is passed over.
SkipMissing(p) ==
  /\ phase = "expand"
  /\ p \notin Files \cup Dirs
  /\ todo' = todo \ {p}
  /\ UNCHANGED <<phase, spec, transfers, resolveFrame>>

\* It never was there, or it is gone since it was listed.
StatMissing(p) ==
  /\ phase = "expand"
  /\ p \notin Files \cup Dirs
  /\ Return(2)

SourceExpanded ==
  /\ phase = "expand"
  /\ Source.kind # "remote"
  /\ todo = {}
  /\ phase' = "next"
  /\ UNCHANGED <<resolution, resolveFrame>>

Resolve ==
  \/ NextSource \/ ExpandRemote \/ SourceExpanded
  \/ \E p \in todo : StatFile(p) \/ StatDir(p) \/ StatMissing(p)

\* No file was found.
NothingResolved ==
  /\ phase = "next"
  /\ spec = Len(command.srcs)
  /\ transfers = << >>
  /\ Return(2)

\* The chunk size does not parse: known only now.
BadChunkSize ==
  /\ phase = "next"
  /\ spec = Len(command.srcs)
  /\ transfers # << >>
  /\ Return(2)

Resolved ==
  /\ phase = "next"
  /\ spec = Len(command.srcs)
  /\ transfers # << >>
  /\ phase' = "files"
  /\ UNCHANGED <<resolution, resolveFrame>>

----------------------------------------------------------------------------
(* The copies, one file after the other, its chunks in any order *)

copyFrame == <<command, resolution, cancelled, exit>>

Src == transfers[file].src
Dst == transfers[file].dst

\* A file without chunks is skipped, its destination not created.
NextFile ==
  /\ phase = "files"
  /\ queue = {}
  /\ file < Len(transfers)
  /\ file' = file + 1
  /\ queue' = 1..transfers[file + 1].size
  /\ UNCHANGED <<content, phase, partial, copyFrame>>

\* Slip: nothing is asked of the directory the file is to be in.
CreatableAnywhere(p) == TRUE

\* Whether O_CREATE|O_WRONLY opens p: no directory is created for it.
Creatable(p) == p \notin Dirs /\ p # << >> /\ Parent(p) \in Dirs

Bigger(a, b) == IF a > b THEN a ELSE b

\* Slip: the unit is written at the end of the file, as O_APPEND does.
WriteAtEnd(units, k, unit) == Append(units, unit)

\* WriteAt of one unit: what lies before it reads as zeros if it was not there,
\* what lies behind it stays.
WriteAt(units, k, unit) ==
  [i \in 1..Bigger(k, Len(units)) |->
     IF i = k THEN unit ELSE IF i <= Len(units) THEN units[i] ELSE Hole]

\* The destination, which the open creates if need be.
Opened(p) == IF p \in Files THEN content[p] ELSE << >>

Write(units) ==
  content' = [p \in Files \cup {Dst} |-> IF p = Dst THEN units ELSE content[p]]

CopyChunk(k) ==
  /\ Src \in Files
  /\ k <= Len(content[Src])
  /\ Creatable(Dst)
  /\ Write(WriteAt(Opened(Dst), k, content[Src][k]))
  /\ queue' = queue \ {k}
  /\ UNCHANGED <<phase, file, partial, copyFrame>>

\* Slip: a chunk that fails leaves no trace.
CopyErrorSilent(k) ==
  /\ queue' = queue \ {k}
  /\ UNCHANGED <<content, phase, file, partial, copyFrame>>

\* ctx is cancelled, an open, a read or the write fails; a write that fails
\* may have created the file.
CopyError(k) ==
  /\ \/ UNCHANGED content
     \/ Src \in Files /\ Creatable(Dst) /\ Write(Opened(Dst))
  /\ queue' = queue \ {k}
  /\ partial' = TRUE
  /\ UNCHANGED <<phase, file, copyFrame>>

Finish ==
  /\ phase = "files"
  /\ queue = {}
  /\ file = Len(transfers)
  /\ Return(IF partial THEN 1 ELSE 0)

----------------------------------------------------------------------------

Interrupt ==
  /\ phase \notin {"start", "exited"}
  /\ ~cancelled
  /\ cancelled' = TRUE
  /\ UNCHANGED <<content, command, phase, resolution, copying, exit>>

\* Another program removes a file.
Remove(p) ==
  /\ p \in Files \cap Vanishing
  /\ phase # "exited"
  /\ content' = [q \in Files \ {p} |-> content[q]]
  /\ UNCHANGED <<command, phase, resolution, copying, cancelled, exit>>

Stop == phase = "exited" /\ UNCHANGED vars

Next ==
  \/ RunEError \/ Version \/ RunE
  \/ Resolve \/ NothingResolved \/ BadChunkSize \/ Resolved
  \/ NextFile \/ Finish
  \/ \E k \in queue : (~cancelled /\ CopyChunk(k)) \/ CopyError(k)
  \/ Interrupt
  \/ \E p \in Vanishing : Remove(p)
  \/ Stop

Spec == Init /\ [][Next]_vars

----------------------------------------------------------------------------
(* Properties *)

Transfers == DOMAIN transfers
Destinations == {transfers[t].dst : t \in Transfers}

\* In particular, every file lies in a directory and is none.
TypeOK ==
  /\ \A p \in Files : p \notin Dirs /\ Parent(p) \in Dirs
  /\ \A p \in Files : content[p] \in Seq(Seq(STRING) \X Nat)
  /\ command \in Commands
  /\ phase \in {"start", "next", "expand", "files", "exited"}
  /\ spec \in 0..Len(command.srcs)
  /\ \A p \in todo : p \in Seq(STRING)
  /\ \A t \in Transfers : /\ {transfers[t].src, transfers[t].dst}
                               \subseteq Seq(STRING)
                          /\ transfers[t].size \in Nat
                          /\ transfers[t].spec \in 1..spec
  /\ file \in 0..Len(transfers)
  /\ queue \subseteq 1..(IF file = 0 THEN 0 ELSE transfers[file].size)
  /\ {cancelled, partial} \subseteq BOOLEAN
  /\ exit \in {NoExit, 0, 1, 2}

\* The source file of t is at its destination, as far as it was resolved.
Arrived(t) ==
  \A k \in 1..transfers[t].size :
    /\ transfers[t].dst \in Files
    /\ k <= Len(content[transfers[t].dst])
    /\ content[transfers[t].dst][k] = <<transfers[t].src, k>>

\* No other transfer writes where t reads or writes, and nobody removes it.
Undisturbed(t) ==
  /\ transfers[t].dst \notin Vanishing
  /\ \A u \in Transfers \ {t} :
       transfers[u].dst \notin {transfers[t].src, transfers[t].dst}

\* Exit code 0 means that what was to be copied is there, through whatever
\* failures of other programs and in whatever order the chunks were written.
ZeroDelivers ==
  exit = 0 => \A t \in Transfers : Undisturbed(t) => Arrived(t)

\* docs/COMPATIBILITY.md:99: 0 is "full success (all planned files/chunks
\* completed)": each planned file is at its destination.
ZeroMeansAll == exit = 0 => \A t \in Transfers : Arrived(t)

\* The files are those the program found, but for those that vanished.
Untouched == \A p \in Files : p \in DOMAIN Original /\ content[p] = Original[p]

\* A path that was given or listed is not there when it is its turn.
Missing == \E p \in todo : p \notin Files \cup Dirs

\* Once a path that was given as a source, or listed for one, is not there,
\* the run has touched nothing, never will, and ends with 2 if it ends: the
\* sources are resolved to the last path before the first file is copied, and
\* none is passed over (resolver.go:94, 103, 117).
AllOrNothing == [](Missing => [](Untouched /\ exit \in {NoExit, 2}))

\* Whether an argument stands for the file p.
Names(s, p) ==
  CASE s.kind = "path" -> p = s.path \/ (FromDir(s) /\ Within(s.path, p))
    [] s.kind = "glob" -> p \in Matches(DOMAIN Original, s)
    [] s.kind = "remote" -> FALSE

\* A file is copied once for every argument that names it, at whatever depth,
\* files that come and go beside it notwithstanding (resolver.go:94, 117).
EverySourceCounts ==
  phase = "files" =>
    \A p \in DOMAIN Original \ Vanishing :
      Cardinality({t \in Transfers : /\ transfers[t].src = p
                                     /\ command.srcs[transfers[t].spec].kind
                                          # "remote"}) =
      Cardinality({i \in DOMAIN command.srcs : Names(command.srcs[i], p)})

\* When two local files meet in one destination (resolver.go:155-166): either
\* it is the one that was given, and no directory, or the files have the same
\* name and come from different arguments or from "/".  So the files of any
\* other directory, however deep, never meet, and what a pattern matches only
\* in a destination that is no directory.
SourceOf(t) == command.srcs[transfers[t].spec]
MeetOnlyByName ==
  \A t, u \in Transfers :
    /\ t # u /\ transfers[t].dst = transfers[u].dst
    /\ "remote" \notin {SourceOf(t).kind, SourceOf(u).kind}
    => \/ transfers[t].dst = command.dst.path /\ ~IntoDir(command.dst)
       \/ /\ Base(transfers[t].src) = Base(transfers[u].src)
          /\ transfers[t].spec = transfers[u].spec => RelFails(SourceOf(t))

\* Chunks land at their own offset in any order, over any older file, and no
\* file but a destination changes.
DataInPlace ==
  \A p \in Files :
    IF p \in Destinations
    THEN \A k \in DOMAIN content[p] :
           content[p][k] = Hole \/ content[p][k][2] = k
    ELSE content[p] = Original[p]

=============================================================================
