---------------------------- MODULE ResumableCopy ----------------------------
(***************************************************************************)
(* What RunTransfer (cmd/goscp/run.go) promises over any number of         *)
(* invocations, whatever the files, the chunks and the scheduling: the     *)
(* copy only grows, the record of what is done never runs ahead of the     *)
(* copy, a record that is saved again forgets nothing it ever held, and an *)
(* invocation that answers 0 has copied everything.  RecordSpec promises   *)
(* all of this but the last.                                               *)
(***************************************************************************)

CONSTANTS Units,      \* what is to be copied
          NoAnswer    \* no exit code: an invocation is running, or was killed

VARIABLES
  copied,       \* the units at the destination
  readable,     \* the record on disk can be loaded
  record,       \* the units it calls done
  kept,         \* history: the units the last readable record called done
  answer        \* the exit code of the invocation that ended

vars == <<copied, readable, record, kept, answer>>

Init ==
  /\ copied = {}
  /\ readable = FALSE
  /\ record = {}
  /\ kept = {}
  /\ answer = NoAnswer

Copy ==
  /\ answer = NoAnswer
  /\ copied \subseteq copied'
  /\ copied' \subseteq Units
  /\ UNCHANGED <<readable, record, kept, answer>>

\* The record is overwritten in place: for a while there is none.
Lose ==
  /\ answer = NoAnswer
  /\ readable' = FALSE
  /\ record' = {}
  /\ UNCHANGED <<copied, kept, answer>>

Rewrite ==
  /\ ~readable
  /\ readable' = TRUE
  /\ record' \subseteq copied
  /\ kept \subseteq record'
  /\ kept' = record'

Save ==
  /\ answer = NoAnswer
  /\ Rewrite
  /\ UNCHANGED <<copied, answer>>

\* The invocation ends; the error of a Save whose data did reach the disk may
\* be what ends it.
End(code) ==
  /\ answer = NoAnswer
  /\ answer' = code
  /\ Rewrite \/ UNCHANGED <<readable, record, kept>>
  /\ UNCHANGED copied

Answer(code) == End(code) /\ (code = 0 => copied = Units)

\* Another invocation starts.
Restart ==
  /\ answer # NoAnswer
  /\ answer' = NoAnswer
  /\ UNCHANGED <<copied, readable, record, kept>>

Next == Copy \/ Lose \/ Save \/ Restart \/ \E code \in {0, 1, 2} : Answer(code)

Spec == Init /\ [][Next]_vars

RecordNext ==
  Copy \/ Lose \/ Save \/ Restart \/ \E code \in {0, 1, 2} : End(code)

RecordSpec == Init /\ [][RecordNext]_vars

=============================================================================
