--------------------------- MODULE ProgressProofs ---------------------------
(***************************************************************************)
(* Theorems about Progress, for any files of any size, any number of calls *)
(* of Complete, and results, failures and additions in any order.          *)
(***************************************************************************)
EXTENDS Progress, FiniteSetTheorems, WellFoundedInduction, TLAPS

(* A file that failed is done, and nothing moves the bar of a done one. *)
Settled(entry) ==
  /\ entry.failed => entry.done
  /\ entry.done => entry.bar.state # "running"

(* The container shuts down after Complete, which no Add follows, and until *)
(* then the overall bar runs and shows the two totals.                      *)
Ordered ==
  /\ container = "shut" => completed
  /\ \A c \in Completers : pc[c] = "wait" => completed
  /\ ~completed => /\ overall.state = "running"
                   /\ overall.total = totalBytes
                   /\ overall.current = transferredBytes

(* Complete has gone over every file and over the overall bar. *)
Closed ==
  completed => overall.state # "running" /\ \A f \in Known : files[f].done

Accurate == TypeOK /\ Ordered /\ Closed /\ \A f \in Known : Settled(files[f])

-----------------------------------------------------------------------------

\* A call on a bar leaves a bar of the same total, which it does not revive.
LEMMA BarFacts ==
  ASSUME NEW f \in Files, NEW bar \in Bar, bar.total = Size[f],
         NEW n \in Nat
  PROVE  /\ Moved(f, bar, n) \in Bar /\ Moved(f, bar, n).total = Size[f]
         /\ Finished(bar, Size[f]) \in Bar
         /\ Finished(bar, Size[f]).total = Size[f]
         /\ Finished(bar, Size[f]).state # "running"
         /\ Aborted(bar) \in Bar /\ Aborted(bar).total = Size[f]
         /\ Aborted(bar).state # "running"
         /\ Aborted(bar).state = "completed" => bar.state = "completed"
         /\ bar.state # "running" => Moved(f, bar, n) = bar
<1>1. /\ bar.current \in Nat /\ bar.total \in Nat /\ Size[f] \in Nat
      /\ bar.state \in {"running", "completed", "aborted"}
      /\ bar = [current |-> bar.current, total |-> bar.total,
                state |-> bar.state]
  BY ProgressAssumption DEF Bar
<1>2. /\ Moved(f, bar, n) \in Bar /\ Moved(f, bar, n).total = Size[f]
      /\ bar.state # "running" => Moved(f, bar, n) = bar
  BY <1>1 DEF Moved, Change, Bar
<1>3. /\ Finished(bar, Size[f]) \in Bar
      /\ Finished(bar, Size[f]).total = Size[f]
      /\ Finished(bar, Size[f]).state # "running"
  BY <1>1 DEF Finished, Change, Bar
<1>4. /\ Aborted(bar) \in Bar /\ Aborted(bar).total = Size[f]
      /\ Aborted(bar).state # "running"
      /\ Aborted(bar).state = "completed" => bar.state = "completed"
  BY <1>1 DEF Aborted, Change, Bar
<1> QED
  BY <1>2, <1>3, <1>4

\* The entry of a file that failed.
LEMMA FailedFacts ==
  ASSUME NEW f \in Files, NEW e \in Entry, e.bar.total = Size[f]
  PROVE  /\ Failed(e) \in Entry /\ Failed(e).bar.total = Size[f]
         /\ Settled(Failed(e)) /\ Failed(e).done
         /\ Failed(e).bar.state = "completed" => e.bar.state = "completed"
         /\ Failed(e).transferred = e.transferred
<1>1. /\ e.bar \in Bar /\ e.transferred \in Nat
      /\ e = [bar |-> e.bar, transferred |-> e.transferred,
              done |-> e.done, failed |-> e.failed]
  BY DEF Entry
<1>2. /\ Aborted(e.bar) \in Bar /\ Aborted(e.bar).total = Size[f]
      /\ Aborted(e.bar).state # "running"
      /\ Aborted(e.bar).state = "completed" => e.bar.state = "completed"
  BY <1>1, BarFacts, 0 \in Nat
<1>3. Failed(e) = [bar |-> Aborted(e.bar), transferred |-> e.transferred,
                   done |-> TRUE, failed |-> TRUE]
  <2> DEFINE r == Failed(e)
  <2>1. DOMAIN e = {"bar", "transferred", "done", "failed"}
    BY DEF Entry
  <2>2. DOMAIN r = {"bar", "transferred", "done", "failed"}
    BY <2>1 DEF Failed
  <2>3. /\ r.bar = Aborted(e.bar) /\ r.transferred = e.transferred
        /\ r.done = TRUE /\ r.failed = TRUE
    BY <2>1 DEF Failed
  <2>4. r = [i \in DOMAIN r |-> r[i]]
    BY <2>1 DEF Failed
  <2> HIDE DEF r
  <2> QED
    BY <2>2, <2>3, <2>4 DEF r
<1> DEFINE bar == Aborted(e.bar)
<1> HIDE DEF bar
<1>4. /\ Failed(e) = [bar |-> bar, transferred |-> e.transferred,
                      done |-> TRUE, failed |-> TRUE]
      /\ bar \in Bar /\ bar.total = Size[f] /\ bar.state # "running"
      /\ bar.state = "completed" => e.bar.state = "completed"
  BY <1>2, <1>3 DEF bar
<1> QED
  BY <1>1, <1>4 DEF Entry, Settled

\* The entry of a file when Complete has gone over it.
LEMMA CompletedFacts ==
  ASSUME NEW f \in Files, NEW e \in Entry, e.bar.total = Size[f], Settled(e)
  PROVE  /\ CompletedEntry(f, e) \in Entry
         /\ CompletedEntry(f, e).bar.total = Size[f]
         /\ Settled(CompletedEntry(f, e)) /\ CompletedEntry(f, e).done
         /\ e.failed => CompletedEntry(f, e) = e
         /\ CompletedEntry(f, e).transferred = e.transferred
<1>1. /\ e.bar \in Bar /\ e.transferred \in Nat
      /\ e.done \in BOOLEAN /\ e.failed \in BOOLEAN
      /\ e = [bar |-> e.bar, transferred |-> e.transferred,
              done |-> e.done, failed |-> e.failed]
  BY DEF Entry
<1>2. Size[f] \in Nat
  BY ProgressAssumption
<1> DEFINE moved == Moved(f, e.bar, Size[f])
           bar == Finished(moved, Size[f])
<1>3. moved \in Bar /\ moved.total = Size[f]
  BY <1>1, <1>2, BarFacts
<1>4. bar \in Bar /\ bar.total = Size[f] /\ bar.state # "running"
  BY <1>2, <1>3, BarFacts
<1>5. CASE e.done
  BY <1>5 DEF CompletedEntry
<1>6. CASE ~e.done
  <2>1. CompletedEntry(f, e) =
          [bar |-> bar, transferred |-> e.transferred, done |-> TRUE,
           failed |-> e.failed]
    BY <1>1, <1>6 DEF CompletedEntry
  <2>2. ~e.failed
    BY <1>6 DEF Settled
  <2> HIDE DEF bar
  <2> QED
    BY <1>1, <1>4, <2>1, <2>2 DEF Entry, Settled
<1> QED
  BY <1>5, <1>6

\* Initially there is no file, and nothing has been counted.
LEMMA AccurateInit == Init => Accurate
<1> SUFFICES ASSUME Init PROVE Accurate
  OBVIOUS
<1>1. Known = {}
  BY DEF Init, Known
<1>2. overall \in Bar
  BY DEF Init, Bar
<1>3. TypeOK
  <2>1. left \in [Files -> Nat]
    BY ProgressAssumption DEF Init
  <2>2. pc \in [Completers -> {"start", "wait", "returned"}]
    BY DEF Init
  <2>3. /\ totalBytes \in Nat /\ transferredBytes \in Nat
        /\ completed \in BOOLEAN /\ container \in {"open", "shut"}
    BY DEF Init
  <2> QED
    BY <1>1, <1>2, <2>1, <2>2, <2>3 DEF TypeOK
<1>4. Ordered
  BY DEF Init, Ordered
<1> QED
  BY <1>1, <1>3, <1>4 DEF Accurate, Init, Closed

\* A result is counted off its file.
LEMMA ReportedFacts ==
  ASSUME TypeOK, NEW f \in Files, Reported(f)
  PROVE  left' \in [Files -> Nat]
BY DEF TypeOK, Reported

\* The overall bar while it runs.
LEMMA OverallFacts ==
  ASSUME Accurate, ~completed, NEW n \in Nat
  PROVE  /\ overall \in Bar /\ totalBytes \in Nat /\ transferredBytes \in Nat
         /\ Change(overall, [overall EXCEPT !.total = n]) =
              [current |-> transferredBytes, total |-> n, state |-> "running"]
         /\ Change(overall, [overall EXCEPT !.current = @ + 1]) =
              [current |-> transferredBytes + 1, total |-> totalBytes,
               state |-> "running"]
<1>1. overall \in Bar /\ totalBytes \in Nat /\ transferredBytes \in Nat
  BY DEF Accurate, TypeOK
<1>2. overall = [current |-> transferredBytes, total |-> totalBytes,
                 state |-> "running"]
  BY <1>1 DEF Accurate, Ordered, Bar
<1> QED
  BY <1>1, <1>2 DEF Change

\* Add makes a new entry and raises the total.
LEMMA AddStep ==
  ASSUME Accurate, NEW f \in Files, Add(f)
  PROVE  Accurate'
<1>1. /\ ~completed /\ f \notin Known
      /\ UNCHANGED <<left, transferredBytes, completed, pc>>
  BY DEF Add
<1>2. Size[f] \in Nat /\ totalBytes \in Nat
  BY ProgressAssumption DEF Accurate, TypeOK
<1>3. container' = "open"
  BY <1>1 DEF Add, Accurate, Ordered, TypeOK
<1>4. totalBytes' = totalBytes + Size[f] /\ totalBytes' \in Nat
  BY <1>2 DEF Add
<1>5. overall' = [current |-> transferredBytes, total |-> totalBytes',
                  state |-> "running"]
  BY <1>1, <1>4, OverallFacts DEF Add
<1>6. overall' \in Bar
  BY <1>4, <1>5 DEF Bar, Accurate, TypeOK
<1>7. Ordered'
  BY <1>1, <1>3, <1>5 DEF Accurate, Ordered
<1> DEFINE new == [bar |-> NewBar(Size[f]), transferred |-> 0, done |-> FALSE,
                   failed |-> FALSE]
<1>8. Known' = Known \cup {f} /\ files'[f] = new
      /\ \A g \in Known : files'[g] = files[g]
  BY <1>1 DEF Add, Known
<1>9. new \in Entry /\ new.bar.total = Size[f] /\ Settled(new)
  BY <1>2 DEF NewBar, Entry, Bar, Settled
<1> HIDE DEF new
<1>10. /\ Known' \subseteq Files
       /\ \A g \in Known' : /\ files'[g] \in Entry
                            /\ files'[g].bar.total = Size[g]
                            /\ Settled(files'[g])
  BY <1>8, <1>9 DEF Accurate, TypeOK
<1>11. TypeOK'
  BY <1>1, <1>3, <1>4, <1>6, <1>10 DEF Accurate, TypeOK
<1> QED
  BY <1>1, <1>7, <1>10, <1>11 DEF Accurate, Closed

\* A result moves the bar of its file, if it has not settled, and both totals.
LEMMA UpdateStep ==
  ASSUME Accurate, NEW f \in Files, Update(f)
  PROVE  /\ Accurate'
         /\ \A g \in Known : files[g].failed => files'[g].bar = files[g].bar
<1>1. /\ ~completed /\ f \in Known
      /\ UNCHANGED <<totalBytes, completed, container, pc>>
      /\ transferredBytes' = transferredBytes + 1
  BY DEF Update
<1>2. left' \in [Files -> Nat]
  BY ReportedFacts DEF Update, Accurate
<1> DEFINE e == files[f]
           bar == Moved(f, e.bar, e.bar.current + 1)
<1>3. e \in Entry /\ e.bar.total = Size[f] /\ Settled(e)
  BY <1>1 DEF Accurate, TypeOK
<1>4. e.bar \in Bar /\ e.transferred \in Nat /\ e.bar.current + 1 \in Nat
  BY <1>3 DEF Entry, Bar
<1>5. /\ bar \in Bar /\ bar.total = Size[f]
      /\ e.bar.state # "running" => bar = e.bar
  BY <1>3, <1>4, BarFacts
<1>6. /\ Known' = Known
      /\ \A g \in Known : g # f => files'[g] = files[g]
      /\ files'[f] = [e EXCEPT !.transferred = @ + 1, !.bar = bar]
  <2>1. files' = [files EXCEPT ![f].transferred = @ + 1,
                               ![f].bar = Moved(f, @, @.current + 1)]
    BY DEF Update
  <2>2. DOMAIN e = {"bar", "transferred", "done", "failed"}
    BY <1>3 DEF Entry
  <2> QED
    BY <1>1, <2>1, <2>2 DEF Known
<1> DEFINE to == [bar |-> bar, transferred |-> e.transferred + 1,
                  done |-> e.done, failed |-> e.failed]
<1>7. files'[f] = to
  <2>1. e = [bar |-> e.bar, transferred |-> e.transferred, done |-> e.done,
             failed |-> e.failed]
    BY <1>3 DEF Entry
  <2> HIDE DEF bar, e
  <2> QED
    BY <1>6, <2>1
<1>8. /\ to \in Entry /\ to.bar.total = Size[f] /\ Settled(to)
      /\ e.failed => to.bar = e.bar
  <2> HIDE DEF bar, e
  <2> QED
    BY <1>3, <1>4, <1>5 DEF Entry, Settled
<1> HIDE DEF to, bar
<1>9. /\ \A g \in Known' : /\ files'[g] \in Entry
                           /\ files'[g].bar.total = Size[g]
                           /\ Settled(files'[g])
      /\ \A g \in Known : files[g].failed => files'[g].bar = files[g].bar
  BY <1>6, <1>7, <1>8 DEF Accurate, TypeOK
<1>10. /\ overall' = [current |-> transferredBytes', total |-> totalBytes,
                      state |-> "running"]
       /\ overall' \in Bar /\ transferredBytes' \in Nat
  <2>1. totalBytes \in Nat /\ transferredBytes \in Nat
    BY DEF Accurate, TypeOK
  <2>2. overall' = [current |-> transferredBytes + 1, total |-> totalBytes,
                    state |-> "running"]
    BY <1>1, <2>1, OverallFacts DEF Update
  <2> QED
    BY <1>1, <2>1, <2>2 DEF Bar
<1>11. Ordered'
  BY <1>1, <1>10 DEF Accurate, Ordered
<1>12. TypeOK'
  BY <1>1, <1>2, <1>6, <1>9, <1>10 DEF Accurate, TypeOK
<1> QED
  BY <1>1, <1>9, <1>11, <1>12 DEF Accurate, Closed

\* A failure settles its file for good, before Complete or after it.
LEMMA FailStep ==
  ASSUME Accurate, NEW f \in Files, UpdateError(f) \/ Fail(f)
  PROVE  /\ Accurate'
         /\ \A g \in Known : files'[g].bar.state = "completed" =>
              files[g].bar.state = "completed"
<1>1. /\ f \in Known /\ files' = [files EXCEPT ![f] = Failed(@)]
      /\ UNCHANGED <<overall, totalBytes, transferredBytes, completed,
                     container, pc>>
  BY DEF UpdateError, Fail, counters
<1>2. left' \in [Files -> Nat]
  BY ReportedFacts DEF UpdateError, Fail, Accurate, TypeOK
<1>3. files[f] \in Entry /\ files[f].bar.total = Size[f]
  BY <1>1 DEF Accurate, TypeOK
<1>4. /\ Known' = Known /\ files'[f] = Failed(files[f])
      /\ \A g \in Known : g # f => files'[g] = files[g]
  BY <1>1 DEF Known
<1>5. /\ files'[f] \in Entry /\ files'[f].bar.total = Size[f]
      /\ Settled(files'[f]) /\ files'[f].done
      /\ files'[f].bar.state = "completed" => files[f].bar.state = "completed"
  BY <1>3, <1>4, FailedFacts
<1>6. /\ \A g \in Known' : /\ files'[g] \in Entry
                           /\ files'[g].bar.total = Size[g]
                           /\ Settled(files'[g])
      /\ \A g \in Known : files'[g].bar.state = "completed" =>
           files[g].bar.state = "completed"
  BY <1>4, <1>5 DEF Accurate, TypeOK
<1>7. TypeOK' /\ Ordered'
  BY <1>1, <1>2, <1>4, <1>6 DEF Accurate, TypeOK, Ordered
<1>8. Closed'
  BY <1>1, <1>4, <1>5 DEF Accurate, Closed
<1> QED
  BY <1>6, <1>7, <1>8 DEF Accurate

\* Complete fills the bars of the files that are not done, and the overall one.
LEMMA CompleteStep ==
  ASSUME Accurate, NEW c \in Completers, Complete(c)
  PROVE  /\ Accurate'
         /\ \A g \in Known : files[g].failed => files'[g] = files[g]
<1>1. /\ completed' = TRUE /\ pc' = [pc EXCEPT ![c] = "wait"]
      /\ UNCHANGED <<left, totalBytes, transferredBytes, container>>
  BY DEF Complete, counters
<1>2. /\ Known' = Known
      /\ \A g \in Known : files'[g] = CompletedEntry(g, files[g])
  BY DEF Complete, Known
<1>3. \A g \in Known : /\ g \in Files /\ files[g] \in Entry
                       /\ files[g].bar.total = Size[g] /\ Settled(files[g])
  BY DEF Accurate, TypeOK
<1>4. \A g \in Known : /\ CompletedEntry(g, files[g]) \in Entry
                       /\ CompletedEntry(g, files[g]).bar.total = Size[g]
                       /\ Settled(CompletedEntry(g, files[g]))
                       /\ CompletedEntry(g, files[g]).done
                       /\ files[g].failed =>
                            CompletedEntry(g, files[g]) = files[g]
  BY <1>3, CompletedFacts
<1>5. /\ \A g \in Known' : /\ files'[g] \in Entry
                           /\ files'[g].bar.total = Size[g]
                           /\ Settled(files'[g])
      /\ \A g \in Known : files[g].failed => files'[g] = files[g]
  BY <1>2, <1>4
<1>6. overall' \in Bar /\ overall'.state # "running"
  <2>1. overall \in Bar /\ totalBytes \in Nat
    BY DEF Accurate, TypeOK
  <2>2. overall' = Finished(overall, totalBytes)
    BY DEF Complete
  <2> QED
    BY <2>1, <2>2 DEF Finished, Change, Bar
<1>7. pc' \in [Completers -> {"start", "wait", "returned"}]
  BY <1>1 DEF Accurate, TypeOK
<1>8. TypeOK'
  BY <1>1, <1>2, <1>5, <1>6, <1>7 DEF Accurate, TypeOK
<1>9. Ordered'
  BY <1>1 DEF Ordered
<1>10. Closed'
  BY <1>2, <1>4, <1>6 DEF Closed
<1> QED
  BY <1>5, <1>8, <1>9, <1>10 DEF Accurate

\* The other steps leave the files and the totals alone.
LEMMA QuietStep ==
  ASSUME Accurate,
         \/ \E f \in Files : UpdateIgnored(f)
         \/ \E c \in Completers : CompleteAgain(c) \/ Wait(c)
         \/ UNCHANGED vars
  PROVE  Accurate' /\ UNCHANGED files
<1>1. CASE \E f \in Files : UpdateIgnored(f)
  <2>1. UNCHANGED <<files, overall, totalBytes, transferredBytes, completed,
                    container, pc>>
    BY <1>1 DEF UpdateIgnored, counters
  <2>2. left' \in [Files -> Nat]
    BY <1>1, ReportedFacts DEF UpdateIgnored, Accurate
  <2> QED
    BY <2>1, <2>2 DEF Accurate, TypeOK, Ordered, Closed, Known
<1>2. CASE \E c \in Completers : CompleteAgain(c) \/ Wait(c)
  <2>1. PICK c \in Completers :
          /\ pc' = [pc EXCEPT ![c] = "returned"]
          /\ \/ UNCHANGED container
             \/ pc[c] = "wait" /\ container' = "shut"
          /\ UNCHANGED <<left, files, overall, totalBytes, transferredBytes,
                         completed>>
    BY <1>2 DEF CompleteAgain, Wait, counters
  <2>2. TypeOK'
    BY <2>1 DEF Accurate, TypeOK, Known
  <2>3. Ordered'
    BY <2>1 DEF Accurate, TypeOK, Ordered
  <2> QED
    BY <2>1, <2>2, <2>3 DEF Accurate, Closed, Known
<1>3. CASE UNCHANGED vars
  BY <1>3 DEF vars, counters, Accurate, TypeOK, Ordered, Closed, Known
<1> QED
  BY <1>1, <1>2, <1>3

\* Every step keeps the invariant.
LEMMA NextAccurate == Accurate /\ [Next]_vars => Accurate'
<1> SUFFICES ASSUME Accurate, [Next]_vars PROVE Accurate'
  OBVIOUS
<1>1. CASE \E f \in Files : Add(f)
  BY <1>1, AddStep
<1>2. CASE \E f \in Files : Update(f)
  BY <1>2, UpdateStep
<1>3. CASE \E f \in Files : UpdateError(f) \/ Fail(f)
  BY <1>3, FailStep
<1>4. CASE \E c \in Completers : Complete(c)
  BY <1>4, CompleteStep
<1>5. CASE \/ \E f \in Files : UpdateIgnored(f)
           \/ \E c \in Completers : CompleteAgain(c) \/ Wait(c)
           \/ UNCHANGED vars
  BY <1>5, QuietStep
<1> QED
  BY <1>1, <1>2, <1>3, <1>4, <1>5 DEF Next, Completer, Stop

\* Types, the order of Complete and the container, and the settled bars.
THEOREM AccurateAlways == Spec => []Accurate
BY AccurateInit, NextAccurate, PTL DEF Spec

\* Every variable keeps its type: AddBar never finds the container shut, since
\* it shuts for a Complete alone and Add does nothing after one.
THEOREM TypeCorrect == Spec => []TypeOK
<1>1. Accurate => TypeOK
  BY DEF Accurate
<1> QED
  BY <1>1, AccurateAlways, PTL

\* The bar of a failed file does not turn into a completed one in any step.
LEMMA FailedStep ==
  ASSUME Accurate, [Next]_vars, NEW g \in Known, files[g].failed,
         files'[g].bar.state = "completed"
  PROVE  files[g].bar.state = "completed"
<1>1. CASE \E f \in Files : Add(f)
  BY <1>1 DEF Add, Known
<1>2. CASE \E f \in Files : Update(f)
  BY <1>2, UpdateStep
<1>3. CASE \E f \in Files : UpdateError(f) \/ Fail(f)
  BY <1>3, FailStep
<1>4. CASE \E c \in Completers : Complete(c)
  BY <1>4, CompleteStep
<1>5. CASE \/ \E f \in Files : UpdateIgnored(f)
           \/ \E c \in Completers : CompleteAgain(c) \/ Wait(c)
           \/ UNCHANGED vars
  BY <1>5, QuietStep
<1> QED
  BY <1>1, <1>2, <1>3, <1>4, <1>5 DEF Next, Completer, Stop

\* A file that failed is never shown as a file that was copied.
THEOREM FailedIsNotDoneAlways == Spec => FailedIsNotDone
<1>1. Accurate /\ [Next]_vars =>
        [\A f \in Known :
           files[f].failed /\ files'[f].bar.state = "completed" =>
             files[f].bar.state = "completed"]_vars
  BY FailedStep
<1> QED
  BY <1>1, AccurateAlways, PTL DEF Spec, FailedIsNotDone

\* A call of Complete that waits finds every bar at rest, and none starts again:
\* neither a late result nor a late Add leaves Wait a bar to wait for
\* (reporter.go:80, 142, 155).
NothingToWaitFor ==
  \A c \in Completers : pc[c] = "wait" =>
    /\ overall.state # "running"
    /\ \A f \in Known : files[f].bar.state # "running"

\* Between the two halves of Complete no bar starts that Wait would wait for:
\* what is left of CompleteReturns is that mpb's own goroutines get their turn.
THEOREM NothingToWaitForAlways == Spec => []NothingToWaitFor
<1>1. Accurate => NothingToWaitFor
  BY DEF Accurate, Ordered, Closed, Settled, NothingToWaitFor
<1> QED
  BY <1>1, AccurateAlways, PTL

-----------------------------------------------------------------------------
(* Sums over finite sets *)

Pick(s) == CHOOSE x \in s : TRUE

(* T gives the sum of h over each set of sets, one element after another. *)
Adds(T, h, sets) ==
  T = [s \in sets |-> IF s = {} THEN 0 ELSE h[Pick(s)] + T[s \ {Pick(s)}]]

\* A sum is the last value of such a function: what the fold is defined to be.
LEMMA SumUnfolds ==
  ASSUME NEW h, NEW S
  PROVE  SumFunctionOnSet(h, S) = (CHOOSE T : Adds(T, h, SUBSET S))[S]
<1>1. SumFunctionOnSet(h, S) =
        (CHOOSE T : T = [s \in SUBSET S |->
         IF s = {} THEN 0 ELSE h[Pick(s)] + T[s \ {Pick(s)}]])[S]
  BY DEF SumFunctionOnSet, FoldFunctionOnSet, MapThenFoldSet, Pick
<1> QED
  BY <1>1 DEF Adds

\* A set of naturals that holds 0 and every successor holds all of them.
LEMMA CountUp ==
  ASSUME NEW U \in SUBSET Nat, 0 \in U, \A n \in U : n + 1 \in U
  PROVE  U = Nat
<1> SUFFICES ASSUME Nat \ U # {} PROVE FALSE
  OBVIOUS
<1> DEFINE R == OpToRel(<, Nat)
<1>1. IsWellFoundedOn(R, Nat)
  BY NatLessThanWellFounded
<1> HIDE DEF R
<1>2. PICK n \in Nat \ U : \A m \in Nat \ U : ~ (<<m, n>> \in R)
  BY <1>1, WFMin
<1>3. \A m \in Nat \ U : ~ (m < n)
  BY <1>2 DEF R, OpToRel
<1>4. n # 0 /\ n - 1 \in Nat /\ n - 1 < n
  BY <1>2
<1>5. n - 1 \in U
  BY <1>3, <1>4
<1> QED
  BY <1>2, <1>5

\* A finite set is good if the empty set is, and each of its subsets is as soon
\* as what is left of it without any one element is.
LEMMA Shrink ==
  ASSUME NEW S, IsFiniteSet(S), NEW good \in SUBSET (SUBSET S), {} \in good,
         \A s \in SUBSET S :
           s # {} /\ (\A x \in s : s \ {x} \in good) => s \in good
  PROVE  S \in good
<1> DEFINE U == {n \in Nat :
                  \A s \in SUBSET S : Cardinality(s) = n => s \in good}
<1>0. \A s \in SUBSET S : IsFiniteSet(s) /\ Cardinality(s) \in Nat
  BY FS_Subset, FS_CardinalityType
<1>1. 0 \in U
  BY <1>0, FS_EmptySet
<1>2. ASSUME NEW n \in U PROVE n + 1 \in U
  <2> SUFFICES ASSUME NEW s \in SUBSET S, Cardinality(s) = n + 1
               PROVE  s \in good
    OBVIOUS
  <2>1. s # {}
    BY <1>0, FS_EmptySet
  <2>2. ASSUME NEW x \in s PROVE s \ {x} \in good
    <3>1. Cardinality(s \ {x}) = n
      BY <1>0, FS_RemoveElement
    <3> QED
      BY <3>1
  <2> QED
    BY <2>1, <2>2
<1>3. U = Nat
  <2> HIDE DEF U
  <2>1. U \in SUBSET Nat
    BY DEF U
  <2> QED
    BY <1>1, <1>2, <2>1, CountUp
<1> QED
  BY <1>0, <1>3

\* There is such a function over the subsets of a finite set: one over those of
\* at most n elements gives one over those of n + 1.
LEMMA AddsExist ==
  ASSUME NEW S, IsFiniteSet(S), NEW h
  PROVE  \E T : Adds(T, h, SUBSET S)
<1> DEFINE upto(n) == {s \in SUBSET S : Cardinality(s) <= n}
           U == {n \in Nat : \E T : Adds(T, h, upto(n))}
<1>0. \A s \in SUBSET S : IsFiniteSet(s) /\ Cardinality(s) \in Nat
  BY FS_Subset, FS_CardinalityType
<1>1. 0 \in U
  <2>1. \A s \in upto(0) : s = {}
    BY <1>0, FS_EmptySet
  <2> DEFINE T == [s \in upto(0) |-> 0]
  <2>2. Adds(T, h, upto(0))
    BY <2>1 DEF Adds
  <2> QED
    BY <2>2
<1>2. ASSUME NEW n \in U PROVE n + 1 \in U
  <2>1. PICK T : Adds(T, h, upto(n))
    OBVIOUS
  <2> DEFINE value(s) == IF s = {} THEN 0 ELSE h[Pick(s)] + T[s \ {Pick(s)}]
             V == [s \in upto(n + 1) |-> value(s)]
  <2>2. \A s \in upto(n) : s \in upto(n + 1) /\ T[s] = value(s)
    <3>1. \A s \in upto(n) : s \in upto(n + 1)
      BY <1>0
    <3> HIDE DEF upto
    <3>2. \A s \in upto(n) : T[s] = value(s)
      BY <2>1 DEF Adds
    <3> QED
      BY <3>1, <3>2
  <2>3. ASSUME NEW s \in upto(n + 1), s # {}
        PROVE  s \ {Pick(s)} \in upto(n)
    <3>1. Pick(s) \in s
      BY <2>3 DEF Pick
    <3>2. Cardinality(s \ {Pick(s)}) = Cardinality(s) - 1
      BY <1>0, <3>1, FS_RemoveElement
    <3> QED
      BY <1>0, <3>2
  <2> HIDE DEF upto
  <2>4. \A s \in upto(n) : V[s] = T[s]
    BY <2>2
  <2>5. \A s \in upto(n + 1) :
          V[s] = IF s = {} THEN 0 ELSE h[Pick(s)] + V[s \ {Pick(s)}]
    BY <2>3, <2>4
  <2>6. Adds(V, h, upto(n + 1))
    <3> HIDE DEF value
    <3>1. V = [s \in upto(n + 1) |-> V[s]]
      OBVIOUS
    <3> HIDE DEF V
    <3> QED
      BY <2>5, <3>1 DEF Adds
  <2> HIDE DEF V
  <2> QED
    BY <2>6
<1>3. U = Nat
  <2> HIDE DEF U
  <2>1. U \in SUBSET Nat
    BY DEF U
  <2> QED
    BY <1>1, <1>2, <2>1, CountUp
<1>4. Cardinality(S) \in U
  BY <1>0, <1>3
<1>5. upto(Cardinality(S)) = SUBSET S
  BY <1>0, FS_Subset
<1> HIDE DEF upto
<1> QED
  BY <1>4, <1>5

\* A sum over a finite set is a value of a function that adds up its subsets.
LEMMA SumIs ==
  ASSUME NEW S, IsFiniteSet(S), NEW h
  PROVE  \E T : Adds(T, h, SUBSET S) /\ SumFunctionOnSet(h, S) = T[S]
BY SumUnfolds, AddsExist

\* Its values are naturals where those it adds are.
LEMMA AddsNat ==
  ASSUME NEW S, IsFiniteSet(S), NEW h, \A x \in S : h[x] \in Nat,
         NEW T, Adds(T, h, SUBSET S)
  PROVE  \A s \in SUBSET S : T[s] \in Nat
<1> SUFFICES ASSUME NEW r \in SUBSET S PROVE T[r] \in Nat
  OBVIOUS
<1> DEFINE good == {s \in SUBSET r : T[s] \in Nat}
<1>1. {} \in good
  BY DEF Adds
<1>2. ASSUME NEW s \in SUBSET r, s # {}, \A x \in s : s \ {x} \in good
      PROVE  s \in good
  <2>1. Pick(s) \in s
    BY <1>2 DEF Pick
  <2>2. T[s] = h[Pick(s)] + T[s \ {Pick(s)}]
    BY <1>2 DEF Adds
  <2> QED
    BY <1>2, <2>1, <2>2
<1> HIDE DEF good
<1>3. good \in SUBSET (SUBSET r) /\ IsFiniteSet(r)
  BY FS_Subset DEF good
<1>4. r \in good
  BY <1>1, <1>2, <1>3, Shrink
<1> QED
  BY <1>4 DEF good

\* Any element may be added last.
LEMMA AddsAny ==
  ASSUME NEW S, IsFiniteSet(S), NEW h, \A x \in S : h[x] \in Nat,
         NEW T, Adds(T, h, SUBSET S)
  PROVE  \A y \in S : T[S] = h[y] + T[S \ {y}]
<1> DEFINE good == {s \in SUBSET S : \A y \in s : T[s] = h[y] + T[s \ {y}]}
<1>1. {} \in good
  OBVIOUS
<1>2. ASSUME NEW s \in SUBSET S, s # {}, \A x \in s : s \ {x} \in good
      PROVE  s \in good
  <2> SUFFICES ASSUME NEW y \in s PROVE T[s] = h[y] + T[s \ {y}]
    OBVIOUS
  <2> DEFINE p == Pick(s)
  <2>1. p \in s
    BY <1>2 DEF Pick
  <2>2. T[s] = h[p] + T[s \ {p}]
    BY <1>2 DEF Adds
  <2> HIDE DEF p
  <2>3. CASE y = p
    BY <2>2, <2>3
  <2>4. CASE y # p
    <3>1. T[s \ {p}] = h[y] + T[(s \ {p}) \ {y}]
      BY <1>2, <2>1, <2>4
    <3>2. T[s \ {y}] = h[p] + T[(s \ {y}) \ {p}]
      BY <1>2, <2>1, <2>4
    <3>3. (s \ {p}) \ {y} = (s \ {y}) \ {p}
      OBVIOUS
    <3>4. /\ h[y] \in Nat /\ h[p] \in Nat
          /\ T[(s \ {y}) \ {p}] \in Nat
      BY <2>1, AddsNat
    <3>5. T[s] = h[p] + (h[y] + T[(s \ {y}) \ {p}])
      BY <2>2, <3>1, <3>3
    <3> DEFINE rest == T[(s \ {y}) \ {p}]
               hy == h[y]
               hp == h[p]
    <3> HIDE DEF rest, hy, hp
    <3>6. /\ T[s] = hp + (hy + rest) /\ T[s \ {y}] = hp + rest
          /\ hy \in Nat /\ hp \in Nat /\ rest \in Nat
      BY <3>2, <3>4, <3>5 DEF rest, hy, hp
    <3>7. T[s] = hy + T[s \ {y}]
      BY <3>6
    <3> QED
      BY <3>7 DEF hy
  <2> QED
    BY <2>3, <2>4
<1> HIDE DEF good
<1>3. good \in SUBSET (SUBSET S)
  BY DEF good
<1>4. S \in good
  BY <1>1, <1>2, <1>3, Shrink
<1> QED
  BY <1>4 DEF good

\* Its value depends on what it adds alone, and not on its domain.
LEMMA AddsSame ==
  ASSUME NEW S, IsFiniteSet(S), NEW sets, NEW more,
         SUBSET S \subseteq sets, SUBSET S \subseteq more,
         NEW h, NEW k, \A x \in S : h[x] = k[x],
         NEW T, Adds(T, h, sets), NEW V, Adds(V, k, more)
  PROVE  T[S] = V[S]
<1> DEFINE good == {s \in SUBSET S : T[s] = V[s]}
<1>1. {} \in good
  BY DEF Adds
<1>2. ASSUME NEW s \in SUBSET S, s # {}, \A x \in s : s \ {x} \in good
      PROVE  s \in good
  <2>1. Pick(s) \in s
    BY <1>2 DEF Pick
  <2>2. /\ T[s] = h[Pick(s)] + T[s \ {Pick(s)}]
        /\ V[s] = k[Pick(s)] + V[s \ {Pick(s)}]
    BY <1>2 DEF Adds
  <2>3. s \ {Pick(s)} \in good
    BY <1>2, <2>1
  <2> QED
    BY <1>2, <2>1, <2>2, <2>3
<1> HIDE DEF good
<1>3. good \in SUBSET (SUBSET S)
  BY DEF good
<1>4. S \in good
  BY <1>1, <1>2, <1>3, Shrink
<1> QED
  BY <1>4 DEF good

\* A sum of naturals is one.
LEMMA SumNat ==
  ASSUME NEW S, IsFiniteSet(S), NEW h, \A x \in S : h[x] \in Nat
  PROVE  SumFunctionOnSet(h, S) \in Nat
<1>1. PICK T : Adds(T, h, SUBSET S) /\ SumFunctionOnSet(h, S) = T[S]
  BY SumIs
<1>2. \A s \in SUBSET S : T[s] \in Nat
  BY <1>1, AddsNat
<1> QED
  BY <1>1, <1>2

\* Nothing adds up to zero.
LEMMA SumEmpty ==
  ASSUME NEW h
  PROVE  SumFunctionOnSet(h, {}) = 0
<1>1. PICK T : Adds(T, h, SUBSET {}) /\ SumFunctionOnSet(h, {}) = T[{}]
  BY SumIs, FS_EmptySet
<1> QED
  BY <1>1 DEF Adds

\* The same values add up to the same sum.
LEMMA SumSame ==
  ASSUME NEW S, IsFiniteSet(S), NEW h, NEW k, \A x \in S : h[x] = k[x]
  PROVE  SumFunctionOnSet(h, S) = SumFunctionOnSet(k, S)
<1>1. PICK T : Adds(T, h, SUBSET S) /\ SumFunctionOnSet(h, S) = T[S]
  BY SumIs
<1>2. PICK V : Adds(V, k, SUBSET S) /\ SumFunctionOnSet(k, S) = V[S]
  BY SumIs
<1>3. T[S] = V[S]
  BY <1>1, <1>2, AddsSame
<1> QED
  BY <1>1, <1>2, <1>3

\* One element adds its value to the sum of the others.
LEMMA SumRemove ==
  ASSUME NEW S, IsFiniteSet(S), NEW h, \A x \in S : h[x] \in Nat, NEW y \in S
  PROVE  SumFunctionOnSet(h, S) = h[y] + SumFunctionOnSet(h, S \ {y})
<1>1. PICK T : Adds(T, h, SUBSET S) /\ SumFunctionOnSet(h, S) = T[S]
  BY SumIs
<1>2. IsFiniteSet(S \ {y}) /\ SUBSET (S \ {y}) \subseteq SUBSET S
  BY FS_RemoveElement
<1>3. PICK V : /\ Adds(V, h, SUBSET (S \ {y}))
               /\ SumFunctionOnSet(h, S \ {y}) = V[S \ {y}]
  BY <1>2, SumIs
<1>4. T[S \ {y}] = V[S \ {y}]
  BY <1>1, <1>2, <1>3, AddsSame
<1>5. T[S] = h[y] + T[S \ {y}]
  BY <1>1, AddsAny
<1> QED
  BY <1>1, <1>3, <1>4, <1>5

-----------------------------------------------------------------------------
(* The two totals *)

(* At any time finitely many files are known, and the totals are their sums. *)
Summed ==
  /\ IsFiniteSet(Known)
  /\ totalBytes = SumFunctionOnSet(Size, Known)
  /\ transferredBytes = SumFunctionOnSet(Transferred, Known)

\* What each file has transferred is a number.
LEMMA TransferredFacts ==
  ASSUME Accurate
  PROVE  \A f \in Known : /\ f \in Files /\ Size[f] \in Nat
                          /\ Transferred[f] = files[f].transferred
                          /\ Transferred[f] \in Nat
BY ProgressAssumption DEF Accurate, TypeOK, Entry, Transferred

\* A step that keeps the files, what each has transferred, and the totals.
LEMMA SameSums ==
  ASSUME Summed, Known' = Known, UNCHANGED <<totalBytes, transferredBytes>>,
         \A f \in Known : files'[f].transferred = files[f].transferred
  PROVE  Summed'
<1>1. \A f \in Known : Transferred'[f] = Transferred[f]
  BY DEF Transferred
<1> DEFINE now == Transferred
<1>2. PICK then : then = Transferred'
  OBVIOUS
<1>3. \A f \in Known : then[f] = now[f]
  BY <1>1, <1>2
<1> HIDE DEF now
<1>4. SumFunctionOnSet(then, Known) = SumFunctionOnSet(now, Known)
  BY <1>3, SumSame DEF Summed
<1> QED
  BY <1>2, <1>4 DEF Summed, now

\* A file that is added adds its size, and nothing to what is transferred.
LEMMA AddSums ==
  ASSUME Accurate, Summed, NEW f \in Files, Add(f)
  PROVE  Summed'
<1>1. /\ f \notin Known /\ Known' = Known \cup {f}
      /\ totalBytes' = totalBytes + Size[f]
      /\ transferredBytes' = transferredBytes
      /\ files'[f].transferred = 0
      /\ \A g \in Known : files'[g] = files[g]
  BY DEF Add, Known
<1>2. IsFiniteSet(Known) /\ IsFiniteSet(Known \cup {f})
  BY FS_AddElement DEF Summed
<1>3. (Known \cup {f}) \ {f} = Known
  BY <1>1
<1>4. Size[f] \in Nat /\ \A g \in Known : Size[g] \in Nat
  BY TransferredFacts, ProgressAssumption
<1>5. SumFunctionOnSet(Size, Known \cup {f}) =
        Size[f] + SumFunctionOnSet(Size, Known)
  BY <1>2, <1>3, <1>4, SumRemove
<1>6. SumFunctionOnSet(Size, Known) \in Nat
  BY <1>2, <1>4, SumNat
<1>7. totalBytes' = SumFunctionOnSet(Size, Known)'
  BY <1>1, <1>4, <1>5, <1>6 DEF Summed
<1> DEFINE now == Transferred
<1>8. PICK then : then = Transferred'
  OBVIOUS
<1>9. /\ then[f] = 0
      /\ \A g \in Known : then[g] = now[g] /\ now[g] \in Nat
  BY <1>1, <1>8, TransferredFacts DEF Transferred
<1> HIDE DEF now
<1>10. SumFunctionOnSet(then, Known) = SumFunctionOnSet(now, Known)
  BY <1>2, <1>9, SumSame
<1>11. SumFunctionOnSet(then, Known \cup {f}) =
         0 + SumFunctionOnSet(then, Known)
  BY <1>2, <1>3, <1>9, SumRemove
<1>12. SumFunctionOnSet(now, Known) \in Nat
  BY <1>2, <1>9, SumNat
<1>13. transferredBytes' = SumFunctionOnSet(Transferred, Known)'
  BY <1>1, <1>8, <1>10, <1>11, <1>12 DEF Summed, now
<1> QED
  BY <1>1, <1>2, <1>7, <1>13 DEF Summed

\* A result adds the same to its file and to the total.
LEMMA UpdateSums ==
  ASSUME Accurate, Summed, NEW f \in Files, Update(f)
  PROVE  Summed'
<1>1. /\ f \in Known /\ Known' = Known
      /\ totalBytes' = totalBytes
      /\ transferredBytes' = transferredBytes + 1
      /\ \A g \in Known : g # f => files'[g] = files[g]
  BY DEF Update, Known
<1>2. files'[f].transferred = files[f].transferred + 1
  <2> DEFINE e == files[f]
             bar == Moved(f, e.bar, e.bar.current + 1)
  <2>1. DOMAIN e = {"bar", "transferred", "done", "failed"}
    BY <1>1 DEF Accurate, TypeOK, Entry
  <2>2. files'[f] = [e EXCEPT !.transferred = @ + 1, !.bar = bar]
    BY <1>1, <2>1 DEF Update, Known
  <2> HIDE DEF e, bar
  <2>3. files'[f].transferred = e.transferred + 1
    BY <2>1, <2>2
  <2> QED
    BY <2>3 DEF e
<1>3. IsFiniteSet(Known) /\ IsFiniteSet(Known \ {f})
  BY FS_RemoveElement DEF Summed
<1> DEFINE now == Transferred
           others == Known \ {f}
<1>4. PICK then : then = Transferred'
  OBVIOUS
<1>5. /\ now[f] \in Nat /\ then[f] = now[f] + 1
      /\ \A g \in Known : now[g] \in Nat /\ then[g] \in Nat
      /\ \A g \in others : now[g] \in Nat /\ then[g] = now[g]
  BY <1>1, <1>2, <1>4, TransferredFacts DEF Transferred
<1> HIDE DEF now
<1>6. /\ SumFunctionOnSet(now, Known) =
           now[f] + SumFunctionOnSet(now, others)
      /\ SumFunctionOnSet(then, Known) =
           then[f] + SumFunctionOnSet(then, others)
  BY <1>1, <1>3, <1>5, SumRemove
<1> HIDE DEF others
<1>7. SumFunctionOnSet(then, others) = SumFunctionOnSet(now, others)
  BY <1>3, <1>5, SumSame DEF others
<1>8. SumFunctionOnSet(now, others) \in Nat
  BY <1>3, <1>5, SumNat DEF others
<1>9. SumFunctionOnSet(then, Known) = SumFunctionOnSet(now, Known) + 1
  BY <1>5, <1>6, <1>7, <1>8
<1>10. transferredBytes' = SumFunctionOnSet(Transferred, Known)'
  BY <1>1, <1>4, <1>9 DEF Summed, now
<1> QED
  BY <1>1, <1>10 DEF Summed

\* At first there are no files.
LEMMA SummedInit == Init => Summed
<1> SUFFICES ASSUME Init PROVE Summed
  OBVIOUS
<1>1. Known = {} /\ totalBytes = 0 /\ transferredBytes = 0
  BY DEF Init, Known
<1> QED
  BY <1>1, FS_EmptySet, SumEmpty DEF Summed

\* Every step keeps the sums.
LEMMA NextSummed == Accurate /\ Summed /\ [Next]_vars => Summed'
<1> SUFFICES ASSUME Accurate, Summed, [Next]_vars PROVE Summed'
  OBVIOUS
<1>1. CASE \E f \in Files : Add(f)
  BY <1>1, AddSums
<1>2. CASE \E f \in Files : Update(f)
  BY <1>2, UpdateSums
<1>3. CASE \E f \in Files : UpdateError(f) \/ Fail(f)
  <2>1. PICK f \in Files : UpdateError(f) \/ Fail(f)
    BY <1>3
  <2>2. /\ f \in Known /\ Known' = Known
        /\ UNCHANGED <<totalBytes, transferredBytes>>
        /\ files'[f] = Failed(files[f])
        /\ \A g \in Known : g # f => files'[g] = files[g]
    BY <2>1 DEF UpdateError, Fail, counters, Known
  <2>3. files[f] \in Entry /\ files[f].bar.total = Size[f]
    BY <2>2 DEF Accurate, TypeOK
  <2>4. Failed(files[f]).transferred = files[f].transferred
    BY <2>3, FailedFacts
  <2> QED
    BY <2>2, <2>4, SameSums
<1>4. CASE \E c \in Completers : Complete(c)
  <2>1. /\ Known' = Known
        /\ UNCHANGED <<totalBytes, transferredBytes>>
        /\ \A g \in Known : files'[g] = CompletedEntry(g, files[g])
    BY <1>4 DEF Complete, counters, Known
  <2>2. \A g \in Known : /\ g \in Files /\ files[g] \in Entry
                         /\ files[g].bar.total = Size[g] /\ Settled(files[g])
    BY DEF Accurate, TypeOK
  <2>3. \A g \in Known :
          CompletedEntry(g, files[g]).transferred = files[g].transferred
    BY <2>2, CompletedFacts
  <2> QED
    BY <2>1, <2>3, SameSums
<1>5. CASE \/ \E f \in Files : UpdateIgnored(f)
           \/ \E c \in Completers : CompleteAgain(c) \/ Wait(c)
           \/ UNCHANGED vars
  <2>1. UNCHANGED <<files, totalBytes, transferredBytes>>
    BY <1>5 DEF UpdateIgnored, CompleteAgain, Wait, vars, counters
  <2> QED
    BY <2>1, SameSums DEF Known
<1> QED
  BY <1>1, <1>2, <1>3, <1>4, <1>5 DEF Next, Completer, Stop

\* The overall bar counts the bytes of the files it knows, each once: neither a
\* result that came before its file was added or after Complete, nor a failure,
\* makes it differ from their sum; and until Complete it shows just that.
THEOREM OverallIsSumAlways == Spec => []OverallIsSum
<1>1. Init => Accurate /\ Summed
  BY AccurateInit, SummedInit
<1>2. Accurate /\ Summed /\ [Next]_vars => (Accurate /\ Summed)'
  BY NextAccurate, NextSummed
<1>3. Accurate /\ Summed => OverallIsSum
  BY DEF Accurate, Ordered, Summed, OverallIsSum
<1> QED
  BY <1>1, <1>2, <1>3, PTL DEF Spec

=============================================================================
