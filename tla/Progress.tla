------------------------------ MODULE Progress ------------------------------
(***************************************************************************)
(* MultiBarReporter (pkg/progress/reporter.go): one bar per file and one   *)
(* overall bar, fed by the results of a transfer in whatever order they    *)
(* and the calls of Add, Fail and Complete arrive.  Each method runs under *)
(* r.mu and is one action, but for Complete, which waits for the bars      *)
(* after it has let go of it.                                              *)
(*                                                                         *)
(* The bars are those of github.com/vbauerster/mpb/v8, which is external:  *)
(* one made with a total above 0 completes itself when its current value   *)
(* reaches it and ignores SetTotal, one made with total 0 is completed by  *)
(* SetTotal(n, true) alone; a bar that is completed or aborted takes no    *)
(* more calls; Wait returns when all bars are, and AddBar panics then.     *)
(***************************************************************************)
EXTENDS Integers, Functions

CONSTANTS Size,       \* the size of each file, in chunks
          Completers  \* calls of Complete

Files == DOMAIN Size

ASSUME ProgressAssumption == Size \in [Files -> Nat]

VARIABLES
  left,         \* chunks of each file whose result has not been reported
  files,        \* r.files: an entry per file, its bar included
  overall,      \* the overall bar
  totalBytes, transferredBytes, completed,
  container,    \* the mpb container: "open", "shut", or "panic"
  pc            \* where each Complete is

counters == <<totalBytes, transferredBytes>>
vars == <<left, files, overall, counters, completed, container, pc>>

Known == DOMAIN files

Init ==
  /\ left = Size
  /\ files = [f \in {} |-> 0]
  /\ overall = [current |-> 0, total |-> 0, state |-> "running"]
  /\ totalBytes = 0
  /\ transferredBytes = 0
  /\ completed = FALSE
  /\ container = "open"
  /\ pc = [c \in Completers |-> "start"]

----------------------------------------------------------------------------
(* mpb *)

NewBar(total) == [current |-> 0, total |-> total, state |-> "running"]

\* A bar with a total of its own; SetTotal is for the others.
Automatic(f) == Size[f] > 0

Change(bar, to) == IF bar.state = "running" THEN to ELSE bar

Moved(f, bar, current) ==
  Change(bar,
    IF Automatic(f) /\ current >= bar.total
    THEN [bar EXCEPT !.current = bar.total, !.state = "completed"]
    ELSE [bar EXCEPT !.current = current])

Finished(bar, total) ==
  Change(bar, [current |-> total, total |-> total, state |-> "completed"])

Aborted(bar) == Change(bar, [bar EXCEPT !.state = "aborted"])

----------------------------------------------------------------------------

\* Slip: completed is not looked at.
AddAnyTime(f) ==
  /\ f \notin Known
  /\ container' = IF container = "open" THEN "open" ELSE "panic"
  /\ files' = [g \in Known \cup {f} |->
       IF g = f THEN [bar |-> NewBar(Size[f]), transferred |-> 0,
                      done |-> FALSE, failed |-> FALSE]
                ELSE files[g]]
  /\ totalBytes' = totalBytes + Size[f]
  /\ overall' = Change(overall, [overall EXCEPT !.total = totalBytes'])
  /\ UNCHANGED <<left, transferredBytes, completed, pc>>

Add(f) ==
  /\ ~completed
  /\ f \notin Known
  /\ container' = IF container = "open" THEN "open" ELSE "panic"
  /\ files' = [g \in Known \cup {f} |->
       IF g = f THEN [bar |-> NewBar(Size[f]), transferred |-> 0,
                      done |-> FALSE, failed |-> FALSE]
                ELSE files[g]]
  /\ totalBytes' = totalBytes + Size[f]
  /\ overall' = Change(overall, [overall EXCEPT !.total = totalBytes'])
  /\ UNCHANGED <<left, transferredBytes, completed, pc>>

\* A result of a chunk of f, which carries bytes unless it is an error.
Reported(f) == left[f] > 0 /\ left' = [left EXCEPT ![f] = @ - 1]

\* Slip: the bytes are counted before the file is looked up.
UpdateCountedFirst(f) ==
  /\ Reported(f)
  /\ completed \/ f \notin Known
  /\ transferredBytes' = transferredBytes + 1
  /\ UNCHANGED <<files, overall, totalBytes, completed, container, pc>>

\* After Complete, or for a file it does not know, Update does nothing.
UpdateIgnored(f) ==
  /\ Reported(f)
  /\ completed \/ f \notin Known
  /\ UNCHANGED <<files, overall, counters, completed, container, pc>>

Update(f) ==
  /\ Reported(f)
  /\ ~completed
  /\ f \in Known
  /\ files' = [files EXCEPT ![f].transferred = @ + 1,
                            ![f].bar = Moved(f, @, @.current + 1)]
  /\ transferredBytes' = transferredBytes + 1
  /\ overall' = Change(overall, [overall EXCEPT !.current = @ + 1])
  /\ UNCHANGED <<totalBytes, completed, container, pc>>

\* Slip: the file is marked, its bar left running.
FailedNoAbort(entry) == [entry EXCEPT !.failed = TRUE, !.done = TRUE]

\* Slip: the failure is noted and nothing else.
FailedNotDone(entry) == [entry EXCEPT !.failed = TRUE]

Failed(entry) ==
  [entry EXCEPT !.failed = TRUE, !.done = TRUE, !.bar = Aborted(@)]

UpdateError(f) ==
  /\ Reported(f)
  /\ ~completed
  /\ f \in Known
  /\ files' = [files EXCEPT ![f] = Failed(@)]
  /\ UNCHANGED <<overall, counters, completed, container, pc>>

\* Fail does not look at completed.
Fail(f) ==
  /\ f \in Known
  /\ files' = [files EXCEPT ![f] = Failed(@)]
  /\ UNCHANGED <<left, overall, counters, completed, container, pc>>

\* Complete, for a file that is not done: its bar is filled, whatever arrived.
CompletedEntry(f, entry) ==
  IF entry.done THEN entry
  ELSE [entry EXCEPT !.done = TRUE,
                     !.bar = Finished(Moved(f, @, Size[f]), Size[f])]

Complete(c) ==
  /\ pc[c] = "start"
  /\ ~completed
  /\ completed' = TRUE
  /\ files' = [f \in Known |-> CompletedEntry(f, files[f])]
  /\ overall' = Finished(overall, totalBytes)
  /\ pc' = [pc EXCEPT ![c] = "wait"]
  /\ UNCHANGED <<left, counters, container>>

CompleteAgain(c) ==
  /\ pc[c] = "start"
  /\ completed
  /\ pc' = [pc EXCEPT ![c] = "returned"]
  /\ UNCHANGED <<left, files, overall, counters, completed, container>>

\* progress.Wait
Wait(c) ==
  /\ pc[c] = "wait"
  /\ overall.state # "running"
  /\ \A f \in Known : files[f].bar.state # "running"
  /\ container' = "shut"
  /\ pc' = [pc EXCEPT ![c] = "returned"]
  /\ UNCHANGED <<left, files, overall, counters, completed>>

Completer(c) == Complete(c) \/ CompleteAgain(c) \/ Wait(c)

Stop == (\A c \in Completers : pc[c] = "returned") /\ UNCHANGED vars

Next ==
  \/ \E f \in Files : \/ Add(f) \/ UpdateIgnored(f) \/ Update(f)
                      \/ UpdateError(f) \/ Fail(f)
  \/ \E c \in Completers : Completer(c)
  \/ Stop

Spec == Init /\ [][Next]_vars

\* Wait returns once it can: mpb's own goroutines keep serving the bars.
FairSpec == Spec /\ \A c \in Completers : WF_vars(Wait(c))

----------------------------------------------------------------------------
(* Properties *)

Bar == [current : Nat, total : Nat, state : {"running", "completed", "aborted"}]
Entry == [bar : Bar, transferred : Nat, done : BOOLEAN, failed : BOOLEAN]

\* In particular, AddBar is never called on a container that has shut down.
TypeOK ==
  /\ left \in [Files -> Nat]
  /\ Known \subseteq Files
  /\ \A f \in Known : files[f] \in Entry /\ files[f].bar.total = Size[f]
  /\ overall \in Bar
  /\ {totalBytes, transferredBytes} \subseteq Nat
  /\ completed \in BOOLEAN
  /\ container \in {"open", "shut"}
  /\ pc \in [Completers -> {"start", "wait", "returned"}]

Transferred == [f \in Known |-> files[f].transferred]

\* The overall bar is the sum of the files, whatever came late, failed, or was
\* reported for a file not added yet; and until Complete it shows just that.
OverallIsSum ==
  /\ totalBytes = SumFunctionOnSet(Size, Known)
  /\ transferredBytes = SumFunctionOnSet(Transferred, Known)
  /\ ~completed =>
       /\ overall.total = totalBytes
       /\ overall.current = transferredBytes

\* The bar of a file that failed never turns into a completed one, neither by
\* the results that still arrive nor by Complete (reporter.go:142).
FailedIsNotDone ==
  [][\A f \in Known :
       files[f].failed /\ files'[f].bar.state = "completed" =>
         files[f].bar.state = "completed"]_vars

\* A call of Complete returns, whatever failed before, meanwhile or after: no
\* bar is left for Wait to wait for (reporter.go:155).
CompleteReturns == \A c \in Completers : pc[c] = "wait" ~> pc[c] = "returned"

=============================================================================
