--------------------------- MODULE TransferProofs ---------------------------
(***************************************************************************)
(* Theorems about Transfer, for any number of files of any sizes, any      *)
(* number of invocations, crashes, interrupts and failures.  What depends  *)
(* on the identity of chunks supposes that a resumed invocation has the    *)
(* plan of its checkpoint (SamePlanSpec); transfer_replan shows why.       *)
(***************************************************************************)
EXTENDS Transfer, FiniteSetTheorems, TLAPS

\* The chunks of a list are those that a plan gives their IDs.
Agree(chunks, size) ==
  \A id \in DOMAIN chunks :
    /\ id \in PlanIDs(size)
    /\ chunks[id].first = Plan(size)[id].first
    /\ chunks[id].last = Plan(size)[id].last

\* A resumed invocation cuts its files as the checkpoint's did.  The code takes
\* that for granted (run.go:484).
SamePlan ==
  phase = "plan" /\ opts.resume /\ ~opts.dryRun =>
    Agree(disk.chunks, opts.chunkSize)

\* The same for a user who sees to it.
SamePlanSpec == Init /\ [][Next /\ SamePlan']_vars

\* Also when invocations differ in their chunk sizes, so that a chunk ID stands
\* for other units in each of them (run.go:484), the record never runs ahead of
\* the copy and forgets nothing that it ever held.
KeepsRecord == Promise!RecordSpec

-----------------------------------------------------------------------------
(* The inductive invariant *)

(* A chunk with the range that some chunk size gives to its ID. *)
FirstOf(id, s) == (id[2] - 1) * s + 1
LastOf(id, s) == Lower(id[2] * s, FileSize[FileOf(id)])
Fits(id, c) ==
  \E s \in ChunkSizes :
    /\ id \in PlanIDs(s)
    /\ c.first = FirstOf(id, s)
    /\ c.last = LastOf(id, s)
AllFit(chunks) ==
  \A id \in DOMAIN chunks :
    id \in ChunkIDs /\ chunks[id] \in Chunk /\ Fits(id, chunks[id])

InLoop == phase \in {"next", "results", "markSave"}

(* What the memory of the process holds in each phase. *)
Process ==
  /\ phase \in {"off", "exited"} => chunkByID = NoChunks /\ pending = {}
  /\ phase \in {"init", "initSave", "plan"} =>
       /\ opts \in Options
       /\ chunkByID = Plan(opts.chunkSize)
       /\ pending = PlanIDs(opts.chunkSize)
  /\ InLoop =>
       /\ opts \in Options /\ ~opts.dryRun
       /\ pending \subseteq PlanIDs(opts.chunkSize)
       /\ \A id \in PlanIDs(opts.chunkSize) :
            /\ id \in DOMAIN chunkByID
            /\ id \notin pending => chunkByID[id].state = "done"
  /\ ~InLoop => file = 0 /\ reported = NoReport /\ ~partial /\ ~fatal
  /\ phase \notin {"results", "markSave"} =>
       queue = {} /\ begun = {} /\ outcomes = {} /\ setupError = "none"
  /\ phase \notin {"initSave", "markSave"} => payload = NoChunks
  /\ phase = "initSave" => ~opts.resume /\ payload = chunkByID
  /\ phase = "init" => CheckpointOn
  /\ phase = "exited" => opts \in Options /\ exit \in {0, 1, 2}
  /\ setupError = "received" => fatal
  /\ \A o \in outcomes : o[1] \in pending

(* The lists of chunks there are. *)
Lists ==
  /\ srcSize = FileSize
  /\ disk = Missing \/ disk = Torn \/ disk.kind = "saved"
  /\ AllFit(disk.chunks) /\ AllFit(chunkByID) /\ AllFit(payload)

Typed == TypeOK /\ Lists /\ Process

(* A chunk whose result has not been received, or will never be. *)
Coming(id) ==
  \/ id \in queue
  \/ \E r \in {"ok", "err"} : <<id, r>> \in outcomes
  \/ FileOf(id) > file

(* Where the chunks of the running Schedule call are. *)
Flight ==
  /\ \A id \in queue : FileOf(id) = file
  /\ \A o \in outcomes : o[1] \notin queue /\ FileOf(o[1]) = file
  /\ \A o, p \in outcomes : o[1] = p[1] => o = p
  /\ \A id \in pending : Coming(id) => chunkByID[id].state # "done"

(* What this invocation calls transferred is at the destination. *)
Written ==
  /\ \A o \in outcomes : o[2] = "ok" => UnitsOf(o[1]) \subseteq dst
  /\ \A id \in DoneIn(chunkByID) : UnitsOf(id) \subseteq dst

(* What a list of chunks calls done, this invocation knows to be done. *)
Backed(chunks) ==
  \A id \in DoneIn(chunks) :
    id \in DOMAIN chunkByID /\ chunkByID[id] = chunks[id]

(* The checkpoint holds exactly what was ever saved as done. *)
Recorded ==
  /\ disk = Missing => everDone = {}
  /\ Loadable => everDone = DoneUnits(disk.chunks)
  /\ everDone \subseteq dst
  /\ phase \in {"init", "initSave"} /\ ~opts.resume => everDone = {}
  /\ phase \in {"initSave", "markSave"} => disk = Torn
  /\ phase = "plan" /\ opts.resume => Loadable
  /\ phase = "plan" /\ opts.checkpoint /\ ~opts.resume =>
       Loadable /\ disk.chunks = chunkByID
  /\ InLoop /\ CheckpointOn =>
       everDone \subseteq DoneUnits(chunkByID) /\ Backed(disk.chunks)
  /\ phase = "markSave" =>
       CheckpointOn /\ everDone \subseteq DoneUnits(payload) /\ Backed(payload)

(* The list that the checkpoint holds, or will when the Save has ended. *)
Stored == IF phase = "markSave" THEN payload ELSE disk.chunks

(* Every planned chunk comes to an end that flags and checkpoint show. *)
Accounted ==
  InLoop =>
    /\ \A id \in pending :
         \/ Coming(id) \/ setupError # "none" \/ fatal
         \/ chunkByID[id].state = "done"
         \/ chunkByID[id].state = "failed" /\ partial
    /\ partial =>
         \E id \in pending : ~Coming(id) /\ chunkByID[id].state = "failed"
    /\ CheckpointOn /\ ~fatal =>
         /\ phase = "markSave" \/ Loadable
         /\ \A id \in DOMAIN chunkByID :
              IF id \in DOMAIN Stored THEN Stored[id] = chunkByID[id]
              ELSE id \in pending /\ (Coming(id) \/ setupError # "none")

(* All chunks are those of the plan of this invocation. *)
Uniform == InLoop => Agree(chunkByID, opts.chunkSize)

(* The units that the results received in this invocation stand for. *)
DoneIDs(f) == {i \in pending : FileOf(i) = f /\ chunkByID[i].state = "done"}
DoneOf(f) == UNION {UnitsOf(id) : id \in DoneIDs(f)}
CountedRight == \A f \in Files : reported[f] = Cardinality(DoneOf(f))

-----------------------------------------------------------------------------
(* Chunks and plans *)

\* A chunk ID is a file and a number.
LEMMA IDFacts ==
  ASSUME NEW id \in ChunkIDs
  PROVE  /\ id = <<FileOf(id), id[2]>>
         /\ FileOf(id) \in Files /\ FileOf(id) \in Nat \ {0}
         /\ FileSize[FileOf(id)] \in Nat
         /\ id[2] \in 1..FileSize[FileOf(id)]
<1>1. PICK f \in Files : id \in {f} \X (1..FileSize[f])
  BY DEF ChunkIDs
<1>2. f \in Nat \ {0} /\ FileSize[f] \in Nat
  BY TransferAssumption DEF Files
<1> QED
  BY <1>1, <1>2 DEF FileOf

\* Files are numbered from 1.
LEMMA FileNumbers ==
  Files \subseteq Nat \ {0} /\ \A f \in Files : FileSize[f] \in Nat
BY TransferAssumption DEF Files

\* The products in a plan are natural numbers in the order of the numbers.
LEMMA ProductFacts ==
  ASSUME NEW k \in Nat, NEW s \in Nat
  PROVE  k * s \in Nat /\ (k + 1) * s = k * s + s
OBVIOUS

\* The range that a plan gives to an ID lies in its file.
LEMMA RangeFacts ==
  ASSUME NEW s \in ChunkSizes, NEW id \in PlanIDs(s)
  PROVE  /\ id \in ChunkIDs
         /\ FirstOf(id, s) \in Nat \ {0} /\ LastOf(id, s) \in Nat
         /\ FirstOf(id, s) <= LastOf(id, s)
         /\ LastOf(id, s) <= FileSize[FileOf(id)]
<1> DEFINE k == id[2] - 1
           size == FileSize[FileOf(id)]
<1>1. id \in ChunkIDs /\ k * s < size
  BY DEF PlanIDs
<1>2. /\ s \in Nat \ {0} /\ size \in Nat
      /\ k \in Nat /\ id[2] = k + 1
  BY <1>1, IDFacts, TransferAssumption
<1> DEFINE n == k * s
<1>3. n \in Nat /\ id[2] * s = n + s
  BY <1>2, ProductFacts
<1>4. FirstOf(id, s) = n + 1 /\ LastOf(id, s) = Lower(n + s, size)
  BY <1>3 DEF FirstOf, LastOf
<1> HIDE DEF n, k, size
<1>5. n < size
  BY <1>1 DEF n
<1> QED
  BY <1>1, <1>2, <1>3, <1>4, <1>5 DEF Lower, size

\* The same of a chunk that fits its ID.
LEMMA FitFacts ==
  ASSUME NEW chunks, AllFit(chunks), NEW id \in DOMAIN chunks
  PROVE  /\ id \in ChunkIDs /\ chunks[id] \in Chunk
         /\ chunks[id].first \in Nat \ {0}
         /\ chunks[id].last \in Nat
         /\ chunks[id].first <= chunks[id].last
         /\ chunks[id].last <= FileSize[FileOf(id)]
         /\ UnitsIn(chunks, id) \subseteq Units
<1>1. PICK s \in ChunkSizes : /\ id \in PlanIDs(s)
                              /\ chunks[id].first = FirstOf(id, s)
                              /\ chunks[id].last = LastOf(id, s)
  BY DEF AllFit, Fits
<1>2. /\ chunks[id].first \in Nat \ {0}
      /\ chunks[id].last \in Nat
      /\ chunks[id].first <= chunks[id].last
      /\ chunks[id].last <= FileSize[FileOf(id)]
  BY <1>1, RangeFacts
<1>3. id \in ChunkIDs /\ chunks[id] \in Chunk
  BY DEF AllFit
<1>4. UnitsIn(chunks, id) \subseteq {FileOf(id)} \X (1..FileSize[FileOf(id)])
  BY <1>2, <1>3, IDFacts DEF UnitsIn
<1>5. {FileOf(id)} \X (1..FileSize[FileOf(id)]) \subseteq Units
  BY <1>3, IDFacts DEF Units
<1> QED
  BY <1>2, <1>3, <1>4, <1>5

\* A plan consists of chunks that fit, all of them pending.
LEMMA PlanFacts ==
  ASSUME NEW s \in ChunkSizes
  PROVE  /\ DOMAIN Plan(s) = PlanIDs(s)
         /\ PlanIDs(s) \subseteq ChunkIDs
         /\ AllFit(Plan(s))
         /\ \A id \in PlanIDs(s) : Plan(s)[id].state = "pending"
<1>1. DOMAIN Plan(s) = PlanIDs(s)
  BY DEF Plan
<1>2. ASSUME NEW id \in PlanIDs(s)
      PROVE  /\ id \in ChunkIDs
             /\ Plan(s)[id].state = "pending"
             /\ Plan(s)[id] \in Chunk /\ Fits(id, Plan(s)[id])
  <2>1. Plan(s)[id] = [first |-> FirstOf(id, s), last |-> LastOf(id, s),
                       state |-> "pending"]
    BY DEF Plan, FirstOf, LastOf
  <2>2. /\ id \in ChunkIDs
        /\ FirstOf(id, s) \in Nat /\ LastOf(id, s) \in Nat
    BY RangeFacts
  <2> QED
    BY <2>1, <2>2 DEF Chunk, States, Fits
<1> QED
  BY <1>1, <1>2 DEF AllFit

\* The empty list fits, and so does a stored list merged with a plan, ...
LEMMA NoChunksFit ==
  DOMAIN NoChunks = {} /\ AllFit(NoChunks)
BY DEF NoChunks, AllFit

\* ... whatever the two lists.
LEMMA MergedFit ==
  ASSUME NEW planned, NEW stored, AllFit(planned), AllFit(stored)
  PROVE  AllFit(Merged(planned, stored))
BY DEF AllFit, Merged

\* ... a list with one more or another entry, ...
LEMMA UpdatedFit ==
  ASSUME NEW chunks, AllFit(chunks),
         NEW id \in ChunkIDs, NEW c \in Chunk, Fits(id, c)
  PROVE  AllFit(Updated(chunks, id, c))
BY DEF AllFit, Updated

\* ... and one in which a chunk has got another state.
LEMMA StateFit ==
  ASSUME NEW chunks, NEW others, AllFit(chunks),
         NEW id \in DOMAIN chunks, NEW state \in States,
         others = [chunks EXCEPT ![id].state = state]
  PROVE  /\ DOMAIN others = DOMAIN chunks
         /\ AllFit(others)
         /\ \A i \in DOMAIN chunks : /\ others[i].first = chunks[i].first
                                     /\ others[i].last = chunks[i].last
         /\ \A i \in DOMAIN chunks \ {id} : others[i] = chunks[i]
         /\ others[id].state = state
<1>1. /\ chunks[id] \in Chunk /\ Fits(id, chunks[id]) /\ id \in ChunkIDs
      /\ \A i \in DOMAIN chunks :
           i \in ChunkIDs /\ chunks[i] \in Chunk /\ Fits(i, chunks[i])
  BY DEF AllFit
<1>2. /\ DOMAIN others = DOMAIN chunks
      /\ \A i \in DOMAIN chunks \ {id} : others[i] = chunks[i]
      /\ others[id] = [chunks[id] EXCEPT !.state = state]
  OBVIOUS
<1>3. /\ others[id] \in Chunk
      /\ others[id].first = chunks[id].first
      /\ others[id].last = chunks[id].last
      /\ others[id].state = state
  BY <1>1, <1>2 DEF Chunk
<1>4. Fits(id, others[id])
  BY <1>1, <1>3 DEF Fits
<1>5. AllFit(others)
  BY <1>1, <1>2, <1>3, <1>4 DEF AllFit
<1> QED
  BY <1>2, <1>3, <1>5

-----------------------------------------------------------------------------
(* Types *)

USE DEF checkpoint, world, command, plan, schedule, flags

\* What a Save leaves is again no file, a torn one or a list that fits.
LEMMA SavedFit ==
  ASSUME NEW chunks, AllFit(chunks),
         \/ SaveOpen \/ SaveOpenError
         \/ SaveWrite(chunks) \/ SaveWriteError(chunks),
         Lists
  PROVE  /\ disk' = Missing \/ disk' = Torn \/ disk'.kind = "saved"
         /\ AllFit(disk'.chunks)
<1>1. AllFit(Torn.chunks) /\ AllFit(Saved(chunks).chunks)
  BY NoChunksFit DEF Torn, Saved
<1>2. disk' \in {disk, Torn, Saved(chunks)}
  BY DEF SaveOpen, SaveOpenError, SaveWrite, SaveWriteError
<1>3. Saved(chunks).kind = "saved"
  BY DEF Saved
<1> QED
  BY <1>1, <1>2, <1>3 DEF Lists

\* Initially there are no lists.
LEMMA ListsInit == Init => Lists
<1>1. AllFit(Missing.chunks)
  BY NoChunksFit DEF Missing
<1> QED
  BY <1>1, NoChunksFit DEF Init, Lists

\* Every step keeps the lists.
LEMMA ListsStep == Typed /\ [Next]_vars => Lists'
<1> SUFFICES ASSUME Typed, [Next]_vars PROVE Lists'
  OBVIOUS
<1> USE DEF Typed
<1>1. ASSUME UNCHANGED <<srcSize, disk, chunkByID, payload>>
      PROVE  Lists'
  BY <1>1 DEF Lists, AllFit
<1>2. ASSUME NEW p, NoProcess(p), UNCHANGED world,
             /\ disk' = Missing \/ disk' = Torn \/ disk'.kind = "saved"
             /\ AllFit(disk'.chunks)
      PROVE  Lists'
  BY <1>2, NoChunksFit DEF NoProcess, Lists
<1>3. ASSUME NEW o \in Options, Start(o)
      PROVE  Lists'
  <2>1. o.chunkSize \in ChunkSizes
    BY DEF Options
  <2>2. AllFit(chunkByID')
    BY <1>3, <2>1, PlanFacts DEF Start
  <2> QED
    BY <1>3, <2>2 DEF Start, Lists
<1>4. CASE Crash
  BY <1>2, <1>4 DEF Crash, Lists
<1>5. CASE ResumeLoadError \/ ReloadError \/ DryRun \/ Finish
  BY <1>2, <1>5 DEF ResumeLoadError, ReloadError, DryRun, Finish, Return, Lists
<1>6. CASE CreateError
  <2>1. SaveOpenError \/ SaveWriteError(payload)
    BY <1>6 DEF CreateError
  <2>2. /\ disk' = Missing \/ disk' = Torn \/ disk'.kind = "saved"
        /\ AllFit(disk'.chunks)
    BY <2>1, SavedFit DEF Lists
  <2> QED
    BY <1>2, <1>6, <2>2 DEF CreateError, Return
<1>7. CASE CreateOpen
  BY <1>7, SavedFit DEF CreateOpen, Lists
<1>8. CASE CreateWrite
  BY <1>8, SavedFit, NoChunksFit DEF CreateWrite, Lists
<1>9. CASE Begin
  <2>1. AllFit(chunkByID')
    BY <1>9, MergedFit DEF Begin, Lists
  <2> QED
    BY <1>9, <2>1 DEF Begin, Lists
<1>10. ASSUME NEW o \in outcomes, Receive(o)
       PROVE  /\ UNCHANGED srcSize /\ o[1] \in DOMAIN chunkByID
              /\ AllFit(chunkByID') /\ DOMAIN chunkByID' = DOMAIN chunkByID
  <2>1. o[1] \in DOMAIN chunkByID
    BY DEF Process, TypeOK
  <2>2. chunkByID' = [chunkByID EXCEPT ![o[1]].state = NewState(o)]
        /\ UNCHANGED srcSize
    BY <1>10 DEF Receive
  <2>3. NewState(o) \in States
    BY DEF NewState, States
  <2> QED
    BY <2>1, <2>2, <2>3, StateFit DEF Lists
<1>11. ASSUME NEW o \in outcomes, ReceiveUnrecorded(o) \/ RecordError(o)
       PROVE  Lists'
  BY <1>10, <1>11 DEF ReceiveUnrecorded, RecordError, SaveOpenError, Lists
<1>12. ASSUME NEW o \in outcomes, Record(o)
       PROVE  Lists'
  <2>1. AllFit(payload')
    <3>1. /\ o[1] \in ChunkIDs /\ chunkByID'[o[1]] \in Chunk
          /\ Fits(o[1], chunkByID'[o[1]])
      BY <1>10, <1>12 DEF Record, AllFit
    <3>2. payload' = Updated(disk.chunks, o[1], chunkByID'[o[1]])
      BY <1>12 DEF Record
    <3> QED
      BY <3>1, <3>2, UpdatedFit DEF Lists
  <2>2. disk' = Torn /\ AllFit(Torn.chunks)
    BY <1>12, NoChunksFit DEF Record, SaveOpen, Torn
  <2> QED
    BY <1>10, <1>12, <2>1, <2>2 DEF Record, Lists
<1>13. CASE RecordWrite \/ RecordWriteError
  <2>1. SaveWrite(payload) \/ SaveWriteError(payload)
    BY <1>13 DEF RecordWrite, RecordWriteError
  <2>2. UNCHANGED <<srcSize, chunkByID>> /\ payload' = NoChunks
    BY <1>13 DEF RecordWrite, RecordWriteError, recordFrame
  <2> QED
    BY <2>1, <2>2, SavedFit, NoChunksFit DEF Lists
<1>14. CASE Interrupt \/ ResumeLoad \/ NextFile
  BY <1>1, <1>14 DEF Interrupt, ResumeLoad, NextFile
<1>15. ASSUME NEW id \in queue, Worker(id)
       PROVE  Lists'
  BY <1>1, <1>15 DEF Worker, PassCheck, ExecuteStopped, Execute, ExecuteError,
                     Discard, Outcome, workersFrame
<1>16. CASE SetupFails \/ ReceiveSetupError \/ ResultsEnd
  BY <1>1, <1>16 DEF SetupFails, ReceiveSetupError, ResultsEnd, workersFrame
<1>17. CASE Stop \/ UNCHANGED vars
  BY <1>1, <1>17 DEF Stop, vars
<1>18. CASE Main
  <2>1. CASE Results
    BY <1>11, <1>12, <1>13, <1>16, <2>1 DEF Results
  <2> QED
    BY <1>5, <1>6, <1>7, <1>8, <1>9, <1>14, <1>18, <2>1 DEF Main
<1> QED
  BY <1>3, <1>4, <1>14, <1>15, <1>16, <1>17, <1>18 DEF Next

\* The part of TypeOK that Lists implies, now and after a step.
ListsTyped ==
  /\ disk.kind \in {"missing", "torn", "saved"}
  /\ DOMAIN disk.chunks \subseteq ChunkIDs
  /\ \A id \in DOMAIN disk.chunks : disk.chunks[id] \in Chunk
  /\ DOMAIN chunkByID \subseteq ChunkIDs
  /\ \A id \in DOMAIN chunkByID : chunkByID[id] \in Chunk
  /\ DOMAIN payload \subseteq ChunkIDs
  /\ \A id \in DOMAIN payload : payload[id] \in Chunk
  /\ \A f \in Files : srcSize[f] \in 0..FileSize[f]

\* The lists have these types before and after a step.
LEMMA ListTypes == (Lists => ListsTyped) /\ (Lists' => ListsTyped')
<1>1. \A f \in Files : FileSize[f] \in 0..FileSize[f]
  BY TransferAssumption DEF Files
<1>2. Lists => ListsTyped
  BY <1>1 DEF Lists, ListsTyped, AllFit, Missing, Torn
<1>3. Lists' => ListsTyped'
  BY <1>1 DEF Lists, ListsTyped, AllFit, Missing, Torn
<1> QED
  BY <1>2, <1>3

\* The memory of a process that has ended or never began.
LEMMA ProcessGone ==
  ASSUME NEW p \in {"off", "exited"}, NoProcess(p),
         p = "exited" => opts' \in Options /\ exit' \in {0, 1, 2}
  PROVE  Process'
BY NoChunksFit DEF NoProcess, Process, InLoop, CheckpointOn

\* The first process has not begun.
LEMMA ProcessInit == Init => Process
BY DEF Init, Process, InLoop, CheckpointOn, NoOptions

\* Receiving a result leaves the plan as it is, but for the chunk's state.
LEMMA ReceiveFacts ==
  ASSUME Typed, NEW o \in outcomes, Receive(o)
  PROVE  /\ o[1] \in pending /\ o[1] \in DOMAIN chunkByID
         /\ o = <<o[1], o[2]>> /\ o[2] \in {"ok", "err"}
         /\ o[1] \in ChunkIDs /\ FileOf(o[1]) \in Files
         /\ phase = "results" /\ InLoop
         /\ DOMAIN chunkByID' = DOMAIN chunkByID
         /\ \A id \in DOMAIN chunkByID :
              /\ chunkByID'[id].first = chunkByID[id].first
              /\ chunkByID'[id].last = chunkByID[id].last
         /\ \A id \in DOMAIN chunkByID \ {o[1]} : chunkByID'[id] = chunkByID[id]
         /\ chunkByID'[o[1]].state = NewState(o)
         /\ NewState(o) \in States
         /\ pending' = pending
<1>1. o[1] \in pending /\ o[1] \in DOMAIN chunkByID
  BY DEF Typed, Process, TypeOK
<1>2. /\ o[1] \in ChunkIDs /\ o = <<o[1], o[2]>> /\ o[2] \in {"ok", "err"}
  BY DEF Typed, TypeOK
<1>3. NewState(o) \in States
  BY DEF NewState, States
<1>4. /\ chunkByID' = [chunkByID EXCEPT ![o[1]].state = NewState(o)]
      /\ phase = "results" /\ pending' = pending
  BY DEF Receive
<1> QED
  BY <1>1, <1>2, <1>3, <1>4, StateFit, IDFacts DEF Typed, Lists, InLoop

\* Every step keeps the phases of the process.
LEMMA ProcessStep == Typed /\ [Next]_vars => Process'
<1> SUFFICES ASSUME Typed, [Next]_vars PROVE Process'
  OBVIOUS
<1> USE DEF Typed, InLoop, CheckpointOn
<1>1. ASSUME NEW o \in Options, Start(o)
      PROVE  Process'
  <2>1. /\ phase \in {"off", "exited"} /\ opts' = o
        /\ phase' \in {"init", "plan"}
        /\ phase' = "init" => o.resume \/ o.checkpoint
        /\ chunkByID' = Plan(o.chunkSize) /\ pending' = PlanIDs(o.chunkSize)
        /\ UNCHANGED <<file, schedule, payload, flags>>
    BY <1>1 DEF Start, Running, TypeOK, Phases
  <2> QED
    BY <2>1 DEF Process
<1>2. CASE Crash
  BY <1>2, ProcessGone DEF Crash
<1>3. CASE ResumeLoadError \/ ReloadError \/ CreateError \/ DryRun \/ Finish
  <2>1. \E code \in {0, 1, 2} : Return(code)
    BY <1>3 DEF ResumeLoadError, ReloadError, CreateError, DryRun, Finish
  <2>2. opts \in Options
    BY <1>3 DEF ResumeLoadError, ReloadError, CreateError, DryRun, Finish,
                Process
  <2> QED
    BY <2>1, <2>2, ProcessGone DEF Return
<1>4. CASE Interrupt
  BY <1>4 DEF Interrupt, Process
<1>5. CASE ResumeLoad
  BY <1>5 DEF ResumeLoad, Process
<1>6. CASE CreateOpen
  BY <1>6 DEF CreateOpen, Process
<1>7. CASE CreateWrite
  BY <1>7 DEF CreateWrite, Process
<1>8. CASE Begin
  <2>1. /\ phase = "plan" /\ opts \in Options /\ ~opts.dryRun
        /\ opts.chunkSize \in ChunkSizes
        /\ DOMAIN chunkByID = PlanIDs(opts.chunkSize)
        /\ pending = PlanIDs(opts.chunkSize)
    BY <1>8, PlanFacts DEF Begin, Process, Options
  <2>2. /\ pending' \subseteq PlanIDs(opts.chunkSize)
        /\ \A id \in PlanIDs(opts.chunkSize) :
             /\ id \in DOMAIN chunkByID'
             /\ id \notin pending' => chunkByID'[id].state = "done"
    <3>1. CASE opts.resume
      <4> DEFINE planned == chunkByID
                 stored == disk.chunks
      <4>1. /\ pending' = PendingOf(planned, stored)
            /\ chunkByID' = Merged(planned, stored)
        BY <1>8, <3>1 DEF Begin
      <4>2. DOMAIN planned = PlanIDs(opts.chunkSize)
        BY <2>1
      <4> HIDE DEF planned, stored
      <4>3. /\ DOMAIN chunkByID' = DOMAIN planned \cup DOMAIN stored
            /\ \A id \in DOMAIN stored : chunkByID'[id] = stored[id]
            /\ pending' \subseteq DOMAIN planned
            /\ \A id \in DOMAIN planned \ pending' :
                 id \in DOMAIN stored /\ stored[id].state = "done"
        BY <4>1 DEF Merged, PendingOf
      <4> QED
        BY <4>2, <4>3
    <3>2. CASE ~opts.resume
      BY <1>8, <2>1, <3>2 DEF Begin
    <3> QED
      BY <3>1, <3>2
  <2>3. /\ phase' = "next" /\ file' = 0
        /\ UNCHANGED <<command, schedule, payload, flags>>
    BY <1>8 DEF Begin
  <2> QED
    BY <2>1, <2>2, <2>3 DEF Process
<1>9. CASE NextFile
  BY <1>9 DEF NextFile, Process
<1>10. ASSUME NEW id \in queue, Worker(id)
       PROVE  Process'
  <2>1. /\ phase \in {"results", "markSave"} /\ id \in pending
        /\ \A o \in outcomes : o[1] \in pending
    BY DEF Process, TypeOK
  <2>2. /\ UNCHANGED workersFrame /\ UNCHANGED setupError
        /\ \E r \in {"ok", "err"} :
             outcomes' \subseteq outcomes \cup {<<id, r>>}
    BY <1>10 DEF Worker, PassCheck, ExecuteStopped, Execute, ExecuteError,
                 Discard, Outcome, workersFrame
  <2>3. \A o \in outcomes' : o[1] \in pending
    BY <2>1, <2>2
  <2> QED
    BY <2>1, <2>2, <2>3 DEF workersFrame, Process
<1>11. CASE SetupFails
  BY <1>11 DEF SetupFails, workersFrame, Process
<1>12. ASSUME NEW o \in outcomes,
              ReceiveUnrecorded(o) \/ Record(o) \/ RecordError(o)
       PROVE  Process'
  <2>1. Receive(o)
    BY <1>12 DEF ReceiveUnrecorded, Record, RecordError
  <2>2. /\ phase' \in {"results", "markSave"}
        /\ phase' = "results" => UNCHANGED payload
        /\ fatal => fatal'
    BY <1>12, <2>1 DEF ReceiveUnrecorded, Record, RecordError, Receive
  <2>3. UNCHANGED <<command, pending, file, queue, setupError>>
        /\ outcomes' = outcomes \ {o}
    BY <2>1 DEF Receive
  <2>4. /\ opts \in Options /\ ~opts.dryRun
        /\ pending \subseteq PlanIDs(opts.chunkSize)
        /\ \A id \in PlanIDs(opts.chunkSize) :
             /\ id \in DOMAIN chunkByID'
             /\ id \notin pending => chunkByID'[id].state = "done"
    BY <2>1, ReceiveFacts DEF Process
  <2>5. phase = "results"
    BY <2>1, ReceiveFacts
  <2> QED
    BY <2>2, <2>3, <2>4, <2>5 DEF Process
<1>13. CASE RecordWrite \/ RecordWriteError
  BY <1>13 DEF RecordWrite, RecordWriteError, recordFrame, Process
<1>14. CASE ReceiveSetupError
  BY <1>14 DEF ReceiveSetupError, Process
<1>15. CASE ResultsEnd
  BY <1>15 DEF ResultsEnd, Process, TypeOK
<1>16. CASE Stop \/ UNCHANGED vars
  BY <1>16 DEF Stop, vars, Process
<1>17. CASE Main
  <2>1. CASE Results
    BY <1>12, <1>13, <1>14, <1>15, <2>1 DEF Results
  <2> QED
    BY <1>3, <1>5, <1>6, <1>7, <1>8, <1>9, <1>17, <2>1 DEF Main
<1> QED
  BY <1>1, <1>2, <1>4, <1>10, <1>11, <1>16, <1>17 DEF Next

\* The types of what the process counts and answers.
LEMMA TypeGone ==
  ASSUME TypeOK, Lists', NEW p \in {"off", "exited"}, NoProcess(p),
         UNCHANGED <<dst, starts>>, everDone' \subseteq Units,
         opts' \in Options \cup {NoOptions}, cancelled' \in BOOLEAN,
         exit' \in {NoExit, 0, 1, 2}
  PROVE  TypeOK'
<1>1. /\ DOMAIN chunkByID' \subseteq ChunkIDs
      /\ phase' \in Phases /\ pending' = {}
      /\ file' \in Files \cup {0} /\ queue' = {} /\ begun' = {}
      /\ outcomes' = {} /\ setupError' = "none"
      /\ reported' \in [Files -> Nat] /\ ~partial' /\ ~fatal'
  BY NoChunksFit DEF NoProcess, Phases, NoReport
<1>2. partial' \in BOOLEAN /\ fatal' \in BOOLEAN
  BY DEF NoProcess
<1>3. ListsTyped'
  BY ListTypes
<1> QED
  BY <1>1, <1>2, <1>3 DEF TypeOK, ListsTyped

\* The units of a chunk are units.
LEMMA UnitFacts ==
  ASSUME Lists, NEW id \in DOMAIN chunkByID
  PROVE  /\ UnitsOf(id) \subseteq Units /\ Readable(id) = UnitsOf(id)
         /\ Length(id) \in Nat \ {0}
<1>1. AllFit(chunkByID) /\ srcSize = FileSize
  BY DEF Lists
<1>2. /\ id \in ChunkIDs
      /\ chunkByID[id].first \in Nat \ {0}
      /\ chunkByID[id].last \in Nat
      /\ chunkByID[id].first <= chunkByID[id].last
      /\ chunkByID[id].last <= FileSize[FileOf(id)]
      /\ UnitsOf(id) \subseteq Units
  BY <1>1, FitFacts DEF UnitsOf
<1>3. \A u \in UnitsOf(id) : u[2] <= FileSize[FileOf(id)]
  <2>1. FileSize[FileOf(id)] \in Nat
    BY <1>2, IDFacts
  <2> QED
    BY <1>2, <2>1 DEF UnitsOf, UnitsIn
<1> QED
  BY <1>1, <1>2, <1>3 DEF Readable, Length

\* What a list calls done are units.
LEMMA DoneAreUnits ==
  ASSUME NEW chunks, AllFit(chunks)
  PROVE  DoneUnits(chunks) \subseteq Units
<1>1. \A id \in DoneIn(chunks) : UnitsIn(chunks, id) \subseteq Units
  BY FitFacts DEF DoneIn
<1> QED
  BY <1>1 DEF DoneUnits

\* Initially every variable has its type.
LEMMA TypeInit == Init => TypeOK
<1> SUFFICES ASSUME Init PROVE TypeOK
  OBVIOUS
<1>1. ListsTyped
  BY ListsInit, ListTypes
<1>2. phase \in Phases /\ reported \in [Files -> Nat]
  BY DEF Init, Phases, NoReport
<1>3. starts \in 0..MaxStarts
  BY TransferAssumption DEF Init
<1>4. /\ dst = {} /\ everDone = {} /\ opts = NoOptions /\ pending = {}
      /\ file = 0 /\ begun = {} /\ queue = {} /\ outcomes = {}
      /\ setupError = "none" /\ exit = NoExit
      /\ cancelled = FALSE /\ partial = FALSE /\ fatal = FALSE
  BY DEF Init
<1> QED
  BY <1>1, <1>2, <1>3, <1>4 DEF TypeOK, ListsTyped

\* Every step keeps the types.
LEMMA TypeStep == Typed /\ [Next]_vars => TypeOK'
<1> SUFFICES ASSUME Typed, [Next]_vars PROVE TypeOK'
  OBVIOUS
<1> USE DEF Typed
<1>1. Lists'
  BY ListsStep
<1>2. ListsTyped'
  BY <1>1, ListTypes
<1> USE DEF ListsTyped
<1> USE DEF Phases
<1>3. ASSUME NEW o \in Options, Start(o)
      PROVE  TypeOK'
  <2>1. pending' \subseteq DOMAIN chunkByID'
    BY <1>3, PlanFacts DEF Start, Options
  <2>2. starts' \in 0..MaxStarts
    BY <1>3, TransferAssumption DEF Start, TypeOK
  <2>3. UNCHANGED <<checkpoint, dst, file, schedule, flags>>
        /\ phase' \in Phases /\ opts' = o
        /\ cancelled' = FALSE /\ exit' = NoExit
    BY <1>3 DEF Start
  <2>4. queue \subseteq pending'
    BY <1>3 DEF Start, Running, Process, TypeOK
  <2> QED
    BY <1>1, <1>2, <2>1, <2>2, <2>3, <2>4 DEF TypeOK
<1>4. CASE Crash
  BY <1>1, <1>4, TypeGone DEF Crash, TypeOK
<1>5. ASSUME NEW code \in {0, 1, 2}, Return(code), UNCHANGED everDone
      PROVE  TypeOK'
  BY <1>1, <1>5, TypeGone DEF Return, TypeOK
<1>6. CASE ResumeLoadError \/ ReloadError \/ CreateError \/ DryRun \/ Finish
  BY <1>5, <1>6 DEF ResumeLoadError, ReloadError, CreateError, DryRun, Finish
<1>7. CASE Interrupt \/ ResumeLoad
  BY <1>1, <1>2, <1>7 DEF Interrupt, ResumeLoad, TypeOK
<1>8. CASE CreateOpen \/ CreateWrite
  BY <1>1, <1>2, <1>8 DEF CreateOpen, CreateWrite, TypeOK
<1>9. CASE Begin
  <2>1. /\ pending' \subseteq DOMAIN chunkByID'
        /\ queue = {} /\ begun = {} /\ file' = 0 /\ phase' = "next"
        /\ UNCHANGED <<checkpoint, dst, command, schedule, cancelled, flags,
                       exit>>
    <3>1. pending' \subseteq DOMAIN chunkByID'
      <4>1. CASE opts.resume
        <5>1. /\ pending' = PendingOf(chunkByID, disk.chunks)
              /\ chunkByID' = Merged(chunkByID, disk.chunks)
          BY <1>9, <4>1 DEF Begin
        <5> QED
          BY <5>1 DEF PendingOf, Merged
      <4>2. CASE ~opts.resume
        BY <1>9, <4>2 DEF Begin, TypeOK
      <4> QED
        BY <4>1, <4>2
    <3> QED
      BY <1>9, <3>1 DEF Begin, Process
  <2> QED
    BY <1>1, <1>2, <2>1 DEF TypeOK
<1>10. CASE NextFile
  BY <1>1, <1>2, <1>10 DEF NextFile, Process, TypeOK
<1>11. ASSUME NEW id \in queue, Worker(id)
       PROVE  TypeOK'
  <2>1. id \in pending /\ id \in ChunkIDs /\ Readable(id) \subseteq Units
    BY UnitFacts DEF TypeOK
  <2>2. dst' \subseteq Units
    BY <1>11, <2>1 DEF Worker, PassCheck, ExecuteStopped, Execute, ExecuteError,
                       Discard, TypeOK
  <2>3. /\ outcomes' \subseteq ChunkIDs \X {"ok", "err"}
        /\ queue' \subseteq queue /\ begun' \subseteq queue'
    BY <1>11, <2>1 DEF Worker, PassCheck, ExecuteStopped, Execute, ExecuteError,
                       Discard, Outcome, workersFrame, TypeOK
  <2>4. UNCHANGED workersFrame /\ UNCHANGED setupError
    BY <1>11 DEF Worker, PassCheck, ExecuteStopped, Execute, ExecuteError,
                 Discard, Outcome, workersFrame
  <2> QED
    BY <1>1, <1>2, <2>2, <2>3, <2>4 DEF workersFrame, TypeOK
<1>12. ASSUME NEW o \in outcomes,
              ReceiveUnrecorded(o) \/ Record(o) \/ RecordError(o)
       PROVE  TypeOK'
  <2>1. Receive(o)
    BY <1>12 DEF ReceiveUnrecorded, Record, RecordError
  <2>2. reported' \in [Files -> Nat] /\ partial' \in BOOLEAN
    <3>1. Length(o[1]) \in Nat
      BY <2>1, ReceiveFacts, UnitFacts
    <3>2. reported' = [reported EXCEPT ![FileOf(o[1])] =
                                IF o[2] = "ok" THEN @ + Length(o[1]) ELSE @]
      BY <2>1 DEF Receive, Counted
    <3>3. FileOf(o[1]) \in Files
      BY <2>1, ReceiveFacts
    <3>4. reported' \in [Files -> Nat]
      BY <3>1, <3>2, <3>3 DEF TypeOK
    <3>5. partial' \in BOOLEAN
      BY <2>1 DEF Receive
    <3> QED
      BY <3>4, <3>5
  <2>3. /\ phase' \in {"results", "markSave"} /\ fatal' \in BOOLEAN
        /\ UNCHANGED everDone
    BY <1>12, <2>1 DEF ReceiveUnrecorded, Record, RecordError, Receive, TypeOK
  <2>4. pending \subseteq DOMAIN chunkByID' /\ outcomes' \subseteq outcomes
        /\ UNCHANGED <<dst, command, pending, file, queue, begun, setupError,
                       cancelled, exit>>
    BY <2>1, ReceiveFacts DEF Receive, TypeOK
  <2> QED
    BY <1>1, <1>2, <2>2, <2>3, <2>4 DEF TypeOK
<1>13. CASE RecordWrite \/ RecordWriteError
  <2>1. everDone' \subseteq Units
    BY <1>13, DoneAreUnits DEF RecordWrite, RecordWriteError, Lists, TypeOK
  <2>2. /\ phase' = "results" /\ fatal' \in BOOLEAN
        /\ UNCHANGED <<dst, command, plan, file, schedule, cancelled, reported,
                       partial, exit>>
    BY <1>13 DEF RecordWrite, RecordWriteError, recordFrame, TypeOK
  <2> QED
    BY <1>1, <1>2, <2>1, <2>2 DEF TypeOK
<1>14. CASE SetupFails \/ ReceiveSetupError \/ ResultsEnd
  BY <1>1, <1>2, <1>14 DEF SetupFails, ReceiveSetupError, ResultsEnd,
                           workersFrame, TypeOK
<1>15. CASE Stop \/ UNCHANGED vars
  BY <1>1, <1>2, <1>15 DEF Stop, vars, TypeOK
<1>16. CASE Main
  <2>1. CASE Results
    BY <1>12, <1>13, <1>14, <2>1 DEF Results
  <2> QED
    BY <1>6, <1>7, <1>8, <1>9, <1>10, <1>16, <2>1 DEF Main
<1> QED
  BY <1>3, <1>4, <1>7, <1>11, <1>14, <1>15, <1>16 DEF Next

\* The types and what they rest on, for the layers that follow.
THEOREM TypedAlways == Spec => []Typed
<1>1. Init => Typed
  BY ListsInit, ProcessInit, TypeInit DEF Typed
<1>2. Typed /\ [Next]_vars => Typed'
  BY ListsStep, ProcessStep, TypeStep DEF Typed
<1> QED
  BY <1>1, <1>2, PTL DEF Spec

\* Every variable has its type, whatever crashes, fails or is interrupted.
THEOREM TypeCorrect == Spec => []TypeOK
<1>1. Typed => TypeOK
  BY DEF Typed
<1> QED
  BY <1>1, TypedAlways, PTL

-----------------------------------------------------------------------------
(* The chunks of the running Schedule call *)

\* What the steps of a worker do to the call.
LEMMA WorkerFacts ==
  ASSUME Typed, NEW id \in queue, Worker(id)
  PROVE  /\ UNCHANGED workersFrame /\ UNCHANGED setupError
         /\ id \in pending /\ id \in DOMAIN chunkByID /\ id \in ChunkIDs
         /\ InLoop /\ phase \in {"results", "markSave"}
         /\ dst \subseteq dst'
         /\ \/ UNCHANGED <<queue, outcomes>>
            \/ /\ queue' = queue \ {id}
               /\ UNCHANGED outcomes /\ setupError # "none"
            \/ /\ queue' = queue \ {id}
               /\ outcomes' = outcomes \cup {<<id, "err">>}
            \/ /\ queue' = queue \ {id}
               /\ outcomes' = outcomes \cup {<<id, "ok">>}
               /\ UnitsOf(id) \subseteq dst'
<1>1. /\ id \in pending /\ id \in DOMAIN chunkByID /\ id \in ChunkIDs
      /\ InLoop /\ phase \in {"results", "markSave"}
  BY DEF Typed, Process, TypeOK, InLoop
<1>2. Readable(id) = UnitsOf(id)
  BY <1>1, UnitFacts DEF Typed
<1>3. CASE PassCheck(id)
  BY <1>1, <1>3 DEF PassCheck, workersFrame
<1>4. CASE ExecuteStopped(id)
  BY <1>1, <1>4 DEF ExecuteStopped, Outcome, workersFrame
<1>5. CASE Execute(id)
  BY <1>1, <1>2, <1>5 DEF Execute, Outcome, workersFrame
<1>6. CASE ExecuteError(id)
  BY <1>1, <1>6 DEF ExecuteError, Outcome, workersFrame
<1>7. CASE Discard(id)
  BY <1>1, <1>7 DEF Discard, workersFrame
<1> QED
  BY <1>3, <1>4, <1>5, <1>6, <1>7 DEF Worker

\* A resumed run merges the stored list into its plan.
LEMMA BeginFacts ==
  ASSUME Typed, Begin
  PROVE  /\ phase = "plan" /\ phase' = "next" /\ file' = 0
         /\ opts \in Options /\ opts.chunkSize \in ChunkSizes
         /\ queue = {} /\ begun = {} /\ outcomes = {} /\ setupError = "none"
         /\ reported = NoReport /\ ~partial /\ ~fatal
         /\ DOMAIN chunkByID = PlanIDs(opts.chunkSize)
         /\ \A id \in DOMAIN chunkByID :
              chunkByID[id] = Plan(opts.chunkSize)[id] /\
              chunkByID[id].state = "pending"
         /\ UNCHANGED <<checkpoint, world, command, schedule, payload,
                        cancelled, flags, exit>>
         /\ pending' \subseteq PlanIDs(opts.chunkSize)
         /\ \A id \in pending' : chunkByID'[id].state # "done"
         /\ ~opts.resume => UNCHANGED plan /\ pending = DOMAIN chunkByID
         /\ opts.resume =>
              /\ DOMAIN chunkByID' = DOMAIN chunkByID \cup DOMAIN disk.chunks
              /\ \A id \in DOMAIN disk.chunks :
                   chunkByID'[id] = disk.chunks[id]
              /\ \A id \in DOMAIN chunkByID \ DOMAIN disk.chunks :
                   id \in pending' /\ chunkByID'[id] = chunkByID[id]
              /\ \A id \in DOMAIN chunkByID : id \in pending' <=>
                   (id \in DOMAIN disk.chunks =>
                      disk.chunks[id].state # "done")
<1>1. /\ phase = "plan" /\ phase' = "next" /\ file' = 0
      /\ opts \in Options /\ opts.chunkSize \in ChunkSizes
      /\ chunkByID = Plan(opts.chunkSize) /\ pending = PlanIDs(opts.chunkSize)
  BY DEF Typed, Process, Begin, Options
<1>2. /\ queue = {} /\ begun = {} /\ outcomes = {} /\ setupError = "none"
      /\ reported = NoReport /\ ~partial /\ ~fatal
  BY <1>1 DEF Typed, Process, InLoop
<1>3. /\ DOMAIN chunkByID = PlanIDs(opts.chunkSize)
      /\ \A id \in DOMAIN chunkByID :
           chunkByID[id] = Plan(opts.chunkSize)[id] /\
           chunkByID[id].state = "pending"
  BY <1>1, PlanFacts
<1>4. UNCHANGED <<checkpoint, world, command, schedule, payload, cancelled,
                  flags, exit>>
  BY DEF Begin
<1>5. CASE ~opts.resume
  BY <1>1, <1>2, <1>3, <1>4, <1>5 DEF Begin
<1>6. CASE opts.resume
  <2> DEFINE planned == chunkByID
             stored == disk.chunks
  <2>1. pending' = PendingOf(planned, stored)
        /\ chunkByID' = Merged(planned, stored)
    BY <1>6 DEF Begin
  <2>2. DOMAIN planned = PlanIDs(opts.chunkSize)
        /\ \A id \in DOMAIN planned : planned[id].state = "pending"
    BY <1>3
  <2> HIDE DEF planned, stored
  <2>3. /\ DOMAIN chunkByID' = DOMAIN planned \cup DOMAIN stored
        /\ \A id \in DOMAIN stored : chunkByID'[id] = stored[id]
        /\ \A id \in DOMAIN planned \ DOMAIN stored :
             id \in pending' /\ chunkByID'[id] = planned[id]
        /\ pending' \subseteq DOMAIN planned
        /\ \A id \in DOMAIN planned : id \in pending' <=>
             (id \in DOMAIN stored => stored[id].state # "done")
    BY <2>1 DEF Merged, PendingOf
  <2>4. \A id \in pending' : chunkByID'[id].state # "done"
    BY <2>2, <2>3
  <2> QED
    BY <1>1, <1>2, <1>3, <1>4, <1>6, <2>2, <2>3, <2>4 DEF planned, stored
<1> QED
  BY <1>5, <1>6

\* Every step keeps what Flight says of the call.
LEMMA FlightStep == Typed /\ Flight /\ [Next]_vars => Flight'
<1> SUFFICES ASSUME Typed, Flight, [Next]_vars PROVE Flight'
  OBVIOUS
<1>1. ASSUME UNCHANGED <<chunkByID, pending, file, queue, outcomes>>
      PROVE  Flight'
  BY <1>1 DEF Flight, Coming
<1>2. ASSUME NEW p, NoProcess(p)
      PROVE  Flight'
  BY <1>2 DEF NoProcess, Flight
<1>3. ASSUME NEW o \in Options, Start(o)
      PROVE  Flight'
  <2>1. queue' = {} /\ outcomes' = {}
    BY <1>3 DEF Start, Running, Typed, Process
  <2>2. \A id \in pending' : chunkByID'[id].state = "pending"
    BY <1>3, PlanFacts DEF Start, Options
  <2> QED
    BY <2>1, <2>2 DEF Flight
<1>4. CASE \/ Crash \/ ResumeLoadError \/ ReloadError \/ CreateError
           \/ DryRun \/ Finish
  BY <1>2, <1>4 DEF Crash, ResumeLoadError, ReloadError, CreateError, DryRun,
                    Finish, Return
<1>5. CASE Interrupt \/ ResumeLoad \/ CreateOpen \/ CreateWrite
  BY <1>1, <1>5 DEF Interrupt, ResumeLoad, CreateOpen, CreateWrite
<1>6. CASE Begin
  BY <1>6, BeginFacts DEF Flight
<1>7. CASE NextFile
  <2>1. outcomes' = {} /\ UNCHANGED <<chunkByID, pending>>
    BY <1>7 DEF NextFile, Typed, Process
  <2>2. file' = file + 1 /\ \A id \in queue' : FileOf(id) = file'
    BY <1>7 DEF NextFile
  <2>3. \A id \in pending : id \in queue' \/ FileOf(id) > file' => Coming(id)
    <3>1. \A id \in pending : FileOf(id) \in Nat
      BY IDFacts DEF Typed, TypeOK
    <3>2. file \in Nat
      BY FileNumbers DEF Typed, TypeOK
    <3> QED
      BY <2>2, <3>1, <3>2 DEF Coming
  <2> QED
    BY <2>1, <2>2, <2>3 DEF Flight, Coming
<1>8. ASSUME NEW id \in queue, Worker(id)
      PROVE  Flight'
  <2>1. /\ UNCHANGED <<chunkByID, pending, file>>
        /\ queue' \subseteq queue
        /\ \/ UNCHANGED outcomes
           \/ /\ queue' = queue \ {id}
              /\ \E r \in {"ok", "err"} :
                   outcomes' = outcomes \cup {<<id, r>>}
    BY <1>8, WorkerFacts DEF workersFrame
  <2>2. \A i \in pending : Coming(i)' => Coming(i)
    BY <2>1 DEF Coming
  <2> QED
    BY <2>1, <2>2 DEF Flight
<1>9. ASSUME NEW o \in outcomes,
             ReceiveUnrecorded(o) \/ Record(o) \/ RecordError(o)
      PROVE  Flight'
  <2>1. Receive(o)
    BY <1>9 DEF ReceiveUnrecorded, Record, RecordError
  <2>2. /\ UNCHANGED <<pending, file, queue>>
        /\ outcomes' = outcomes \ {o}
    BY <2>1 DEF Receive
  <2>3. /\ o[1] \in pending /\ FileOf(o[1]) = file /\ o[1] \notin queue
        /\ file \in Nat
    BY <2>1, ReceiveFacts, FileNumbers DEF Flight, Typed, TypeOK
  <2>4. ~Coming(o[1])'
    BY <2>2, <2>3 DEF Flight, Coming
  <2>5. \A i \in pending : Coming(i)' => Coming(i) /\ i # o[1]
    BY <2>2, <2>4 DEF Coming
  <2>6. \A i \in pending \ {o[1]} : chunkByID'[i] = chunkByID[i]
    BY <2>1, ReceiveFacts DEF Typed, TypeOK
  <2> QED
    BY <2>2, <2>5, <2>6 DEF Flight
<1>10. CASE RecordWrite \/ RecordWriteError
  BY <1>1, <1>10 DEF RecordWrite, RecordWriteError, recordFrame
<1>11. CASE SetupFails \/ ReceiveSetupError \/ ResultsEnd
  BY <1>1, <1>11 DEF SetupFails, ReceiveSetupError, ResultsEnd, workersFrame
<1>12. CASE Stop \/ UNCHANGED vars
  BY <1>1, <1>12 DEF Stop, vars
<1>13. CASE Main
  <2>1. CASE Results
    BY <1>9, <1>10, <1>11, <2>1 DEF Results
  <2> QED
    BY <1>4, <1>5, <1>6, <1>7, <1>13, <2>1 DEF Main
<1> QED
  BY <1>3, <1>4, <1>5, <1>8, <1>11, <1>12, <1>13 DEF Next

-----------------------------------------------------------------------------
(* The destination and the checkpoint *)

\* Lists that agree on the chunks that one of them calls done.
LEMMA DoneGrows ==
  ASSUME NEW c, NEW d, \A id \in DoneIn(c) : id \in DOMAIN d /\ d[id] = c[id]
  PROVE  DoneUnits(c) \subseteq DoneUnits(d)
<1>1. \A id \in DoneIn(c) : id \in DoneIn(d) /\ UnitsIn(d, id) = UnitsIn(c, id)
  BY DEF DoneIn, UnitsIn
<1> QED
  BY <1>1 DEF DoneUnits

\* Initially, and in every plan, nothing is done.
LEMMA NothingDone ==
  ASSUME NEW chunks, \A id \in DOMAIN chunks : chunks[id].state # "done"
  PROVE  DoneIn(chunks) = {} /\ DoneUnits(chunks) = {}
BY DEF DoneIn, DoneUnits

\* What a Save that has been opened and written leaves on disk.
LEMMA DiskFacts ==
  /\ Missing.kind = "missing" /\ Torn.kind = "torn" /\ Missing # Torn
  /\ DoneIn(Torn.chunks) = {}
  /\ \A chunks : /\ Saved(chunks).kind = "saved"
                 /\ Saved(chunks).chunks = chunks
                 /\ Saved(chunks) # Torn /\ Saved(chunks) # Missing
BY DEF Missing, Torn, Saved, DoneIn, NoChunks

\* A received result leaves alone what was done and where chunks lie.
LEMMA ReceiveKeeps ==
  ASSUME Typed, Flight, NEW o \in outcomes, Receive(o)
  PROVE  /\ o[1] \notin DoneIn(chunkByID)
         /\ \A id \in DoneIn(chunkByID) :
              id \in DoneIn(chunkByID') /\ chunkByID'[id] = chunkByID[id]
         /\ \A id \in DOMAIN chunkByID : UnitsOf(id)' = UnitsOf(id)
         /\ \A id \in DoneIn(chunkByID') :
              id \in DoneIn(chunkByID) \/ (id = o[1] /\ o[2] = "ok")
<1>1. /\ DOMAIN chunkByID' = DOMAIN chunkByID
      /\ \A id \in DOMAIN chunkByID :
           /\ chunkByID'[id].first = chunkByID[id].first
           /\ chunkByID'[id].last = chunkByID[id].last
      /\ \A id \in DOMAIN chunkByID \ {o[1]} : chunkByID'[id] = chunkByID[id]
  BY ReceiveFacts
<1>2. o[1] \in pending /\ Coming(o[1])
  BY ReceiveFacts DEF Coming
<1>3. chunkByID[o[1]].state # "done"
  BY <1>2 DEF Flight
<1>4. chunkByID'[o[1]].state = "done" => o[2] = "ok"
  BY ReceiveFacts DEF NewState
<1>5. \A id \in DOMAIN chunkByID : UnitsOf(id)' = UnitsOf(id)
  BY <1>1 DEF UnitsOf, UnitsIn
<1>6. \A id \in DoneIn(chunkByID) :
        id \in DoneIn(chunkByID') /\ chunkByID'[id] = chunkByID[id]
  BY <1>1, <1>3 DEF DoneIn
<1>7. \A id \in DoneIn(chunkByID') :
        id \in DoneIn(chunkByID) \/ (id = o[1] /\ o[2] = "ok")
  BY <1>1, <1>4 DEF DoneIn
<1>8. o[1] \notin DoneIn(chunkByID)
  BY <1>3 DEF DoneIn
<1> QED
  BY <1>5, <1>6, <1>7, <1>8

Kept == Typed /\ Flight /\ Written /\ Recorded

\* Every step keeps what Written says of the destination.
LEMMA WrittenStep == Kept /\ [Next]_vars => Written'
<1> SUFFICES ASSUME Kept, [Next]_vars PROVE Written'
  OBVIOUS
<1> USE DEF Kept
<1>1. ASSUME UNCHANGED <<chunkByID, dst, outcomes>>
      PROVE  Written'
  BY <1>1 DEF Written, UnitsOf
<1>2. ASSUME NEW p, NoProcess(p)
      PROVE  Written'
  <2>1. DoneIn(chunkByID') = {} /\ outcomes' = {}
    BY <1>2 DEF NoProcess, DoneIn, NoChunks
  <2> QED
    BY <2>1 DEF Written
<1>3. ASSUME NEW o \in Options, Start(o)
      PROVE  Written'
  <2>1. outcomes' = {}
    BY <1>3 DEF Start, Running, Typed, Process
  <2>2. DoneIn(chunkByID') = {}
    BY <1>3, PlanFacts DEF Start, Options, DoneIn
  <2> QED
    BY <2>1, <2>2 DEF Written
<1>4. CASE \/ Crash \/ ResumeLoadError \/ ReloadError \/ CreateError
           \/ DryRun \/ Finish
  BY <1>2, <1>4 DEF Crash, ResumeLoadError, ReloadError, CreateError, DryRun,
                    Finish, Return
<1>5. CASE Interrupt \/ ResumeLoad \/ CreateOpen \/ CreateWrite \/ NextFile
  BY <1>1, <1>5 DEF Interrupt, ResumeLoad, CreateOpen, CreateWrite, NextFile
<1>6. CASE Begin
  <2>1. CASE ~opts.resume
    BY <1>1, <1>6, <2>1, BeginFacts DEF Begin
  <2>2. CASE opts.resume
    <3>1. Loadable /\ DoneUnits(disk.chunks) \subseteq dst
      BY <1>6, <2>2 DEF Recorded, Begin
    <3>2. ASSUME NEW id \in DoneIn(chunkByID')
          PROVE  UnitsOf(id)' \subseteq dst
      <4>1. id \in DOMAIN disk.chunks /\ chunkByID'[id] = disk.chunks[id]
        BY <1>6, <2>2, <3>2, BeginFacts DEF DoneIn
      <4>2. id \in DoneIn(disk.chunks)
            /\ UnitsOf(id)' = UnitsIn(disk.chunks, id)
        BY <3>2, <4>1 DEF DoneIn, UnitsOf, UnitsIn
      <4> QED
        BY <3>1, <4>2 DEF DoneUnits
    <3> QED
      BY <1>6, <3>2, BeginFacts DEF Written
  <2> QED
    BY <2>1, <2>2
<1>7. ASSUME NEW id \in queue, Worker(id)
      PROVE  Written'
  <2>1. /\ UNCHANGED chunkByID /\ dst \subseteq dst'
        /\ \A o \in outcomes' : o[2] = "ok" =>
             o \in outcomes \/ (o[1] = id /\ UnitsOf(id) \subseteq dst')
    <3>1. UNCHANGED chunkByID /\ dst \subseteq dst'
      BY <1>7, WorkerFacts DEF workersFrame
    <3>2. \/ outcomes' = outcomes
          \/ outcomes' = outcomes \cup {<<id, "err">>}
          \/ /\ outcomes' = outcomes \cup {<<id, "ok">>}
             /\ UnitsOf(id) \subseteq dst'
      BY <1>7, WorkerFacts
    <3>3. <<id, "err">>[2] # "ok" /\ <<id, "ok">>[1] = id
      OBVIOUS
    <3> QED
      BY <3>1, <3>2, <3>3
  <2> QED
    BY <2>1 DEF Written, UnitsOf
<1>8. ASSUME NEW o \in outcomes,
             ReceiveUnrecorded(o) \/ Record(o) \/ RecordError(o)
      PROVE  Written'
  <2>1. Receive(o)
    BY <1>8 DEF ReceiveUnrecorded, Record, RecordError
  <2>2. UNCHANGED dst /\ outcomes' = outcomes \ {o}
    BY <2>1 DEF Receive
  <2>3. \A p \in outcomes : p[1] \in DOMAIN chunkByID
    BY DEF Typed, Process, TypeOK
  <2>4. \A p \in outcomes' : p[2] = "ok" => UnitsOf(p[1])' \subseteq dst
    BY <2>1, <2>2, <2>3, ReceiveKeeps DEF Written
  <2>5. \A i \in DoneIn(chunkByID') : UnitsOf(i)' \subseteq dst
    <3>1. DoneIn(chunkByID') \subseteq DOMAIN chunkByID
      BY <2>1, ReceiveFacts DEF DoneIn
    <3> QED
      BY <2>1, <3>1, ReceiveKeeps DEF Written
  <2> QED
    BY <2>2, <2>4, <2>5 DEF Written
<1>9. CASE RecordWrite \/ RecordWriteError
  BY <1>1, <1>9 DEF RecordWrite, RecordWriteError, recordFrame
<1>10. CASE SetupFails \/ ReceiveSetupError \/ ResultsEnd
  BY <1>1, <1>10 DEF SetupFails, ReceiveSetupError, ResultsEnd, workersFrame
<1>11. CASE Stop \/ UNCHANGED vars
  BY <1>1, <1>11 DEF Stop, vars
<1>12. CASE Main
  <2>1. CASE Results
    BY <1>8, <1>9, <1>10, <2>1 DEF Results
  <2> QED
    BY <1>4, <1>5, <1>6, <1>12, <2>1 DEF Main
<1> QED
  BY <1>3, <1>4, <1>5, <1>7, <1>10, <1>11, <1>12 DEF Next

\* Every step keeps what Recorded says of the checkpoint.
LEMMA RecordedStep == Kept /\ [Next]_vars => Recorded'
<1> SUFFICES ASSUME Kept, [Next]_vars PROVE Recorded'
  OBVIOUS
<1> USE DEF Kept, InLoop, CheckpointOn, Loadable
<1>1. ASSUME UNCHANGED <<disk, everDone, opts, chunkByID, payload>>,
             dst \subseteq dst',
             \/ UNCHANGED phase
             \/ /\ phase = "init" /\ opts.resume /\ disk.kind = "saved"
                /\ phase' = "plan"
             \/ InLoop /\ phase' \in {"next", "results"}
      PROVE  Recorded'
  BY <1>1 DEF Recorded, Backed
<1>2. ASSUME UNCHANGED <<checkpoint, dst>>, phase' \in {"off", "exited"}
      PROVE  Recorded'
  BY <1>2 DEF Recorded
<1>3. ASSUME NEW o \in Options, Start(o)
      PROVE  Recorded'
  <2>1. /\ UNCHANGED <<checkpoint, dst>> /\ opts' = o
        /\ phase' \in {"init", "plan"}
        /\ phase' = "plan" => ~o.resume /\ ~o.checkpoint
        /\ phase' = "init" => o.resume \/ o.checkpoint
        /\ o.checkpoint /\ ~o.resume => disk = Missing
    BY <1>3 DEF Start
  <2> QED
    BY <2>1 DEF Recorded
<1>4. CASE Crash
  BY <1>2, <1>4 DEF Crash, NoProcess
<1>5. CASE ResumeLoadError \/ ReloadError \/ DryRun \/ Finish
  BY <1>2, <1>5 DEF ResumeLoadError, ReloadError, DryRun, Finish, Return,
                    NoProcess
<1>6. ASSUME phase = "initSave"
      PROVE  /\ everDone = {} /\ disk = Torn /\ ~opts.resume
             /\ payload = chunkByID /\ DoneUnits(payload) = {}
  <2>1. ~opts.resume /\ payload = chunkByID
        /\ chunkByID = Plan(opts.chunkSize) /\ opts.chunkSize \in ChunkSizes
    BY <1>6 DEF Typed, Process, Options
  <2>2. DoneUnits(payload) = {}
    BY <2>1, PlanFacts, NothingDone
  <2> QED
    BY <1>6, <2>1, <2>2 DEF Recorded
<1>7. CASE CreateError
  <2>1. /\ phase' = "exited" /\ UNCHANGED <<everDone, dst>>
        /\ \/ UNCHANGED disk
           \/ phase = "initSave" /\ disk' = Saved(payload)
    BY <1>7 DEF CreateError, Return, NoProcess, SaveOpenError, SaveWriteError
  <2>2. CASE UNCHANGED disk
    BY <1>2, <2>1, <2>2
  <2>3. CASE phase = "initSave" /\ disk' = Saved(payload)
    BY <1>6, <2>1, <2>3, DiskFacts DEF Recorded
  <2> QED
    BY <2>1, <2>2, <2>3
<1>8. CASE CreateOpen
  <2>1. /\ phase' = "initSave" /\ disk' = Torn /\ everDone = {}
        /\ UNCHANGED <<everDone, dst, opts>>
    BY <1>8 DEF CreateOpen, SaveOpen, Recorded
  <2> QED
    BY <2>1, DiskFacts DEF Recorded
<1>9. CASE CreateWrite
  <2>1. /\ phase = "initSave" /\ phase' = "plan" /\ disk' = Saved(payload)
        /\ UNCHANGED <<everDone, dst, opts, chunkByID>>
    BY <1>9 DEF CreateWrite, SaveWrite
  <2> QED
    BY <1>6, <2>1, DiskFacts DEF Recorded
<1>10. CASE Begin
  <2>1. /\ phase = "plan" /\ phase' = "next"
        /\ UNCHANGED <<disk, everDone, dst, opts>>
    BY <1>10, BeginFacts
  <2>2. ASSUME CheckpointOn
        PROVE  /\ disk.kind = "saved" /\ everDone = DoneUnits(disk.chunks)
               /\ \A id \in DoneIn(disk.chunks) :
                    id \in DOMAIN chunkByID' /\ chunkByID'[id] = disk.chunks[id]
    <3>1. CASE opts.resume
      BY <1>10, <2>1, <3>1, BeginFacts DEF Recorded, DoneIn
    <3>2. CASE ~opts.resume
      <4>1. opts.checkpoint
        BY <2>2, <3>2
      <4>2. disk.kind = "saved" /\ disk.chunks = chunkByID
        BY <2>1, <3>2, <4>1 DEF Recorded
      <4>3. UNCHANGED chunkByID
        BY <1>10, <3>2, BeginFacts
      <4> QED
        BY <4>2, <4>3 DEF Recorded, DoneIn
    <3> QED
      BY <3>1, <3>2
  <2>3. CheckpointOn => everDone \subseteq DoneUnits(chunkByID')
    BY <2>2, DoneGrows
  <2> QED
    BY <2>1, <2>2, <2>3 DEF Recorded, Backed
<1>11. CASE Interrupt \/ ResumeLoad
  BY <1>1, <1>11 DEF Interrupt, ResumeLoad
<1>12. CASE NextFile \/ SetupFails \/ ReceiveSetupError \/ ResultsEnd
  <2>1. UNCHANGED <<disk, everDone, opts, chunkByID, payload, dst>>
        /\ \/ UNCHANGED phase
           \/ InLoop /\ phase' \in {"next", "results"}
    BY <1>12 DEF NextFile, SetupFails, ReceiveSetupError, ResultsEnd,
                 workersFrame
  <2> QED
    BY <1>1, <2>1
<1>13. ASSUME NEW id \in queue, Worker(id)
       PROVE  Recorded'
  BY <1>1, <1>13, WorkerFacts DEF workersFrame
<1>14. ASSUME NEW o \in outcomes, Receive(o)
       PROVE  /\ UNCHANGED <<dst, opts>> /\ phase = "results"
              /\ DoneUnits(chunkByID) \subseteq DoneUnits(chunkByID')
              /\ \A id \in DoneIn(chunkByID) :
                   id \in DOMAIN chunkByID' /\ chunkByID'[id] = chunkByID[id]
  <2>1. UNCHANGED <<dst, opts>> /\ phase = "results"
    BY <1>14 DEF Receive
  <2>2. \A id \in DoneIn(chunkByID) :
          id \in DOMAIN chunkByID' /\ chunkByID'[id] = chunkByID[id]
    BY <1>14, ReceiveKeeps DEF DoneIn
  <2> QED
    BY <2>1, <2>2, DoneGrows
<1>15. ASSUME NEW o \in outcomes, ReceiveUnrecorded(o) \/ RecordError(o)
       PROVE  Recorded'
  <2>1. Receive(o) /\ UNCHANGED <<disk, everDone, phase>>
    BY <1>15 DEF ReceiveUnrecorded, RecordError, SaveOpenError
  <2>2. CheckpointOn => \A id \in DoneIn(disk.chunks) :
          id \in DOMAIN chunkByID' /\ chunkByID'[id] = disk.chunks[id]
    BY <1>14, <2>1 DEF Recorded, Backed, DoneIn
  <2> QED
    BY <1>14, <2>1, <2>2 DEF Recorded, Backed
<1>16. ASSUME NEW o \in outcomes, Record(o)
       PROVE  Recorded'
  <2>1. /\ Receive(o) /\ CheckpointOn /\ disk.kind = "saved" /\ disk' = Torn
        /\ phase' = "markSave" /\ UNCHANGED everDone
        /\ payload' = Updated(disk.chunks, o[1], chunkByID'[o[1]])
    BY <1>16 DEF Record, SaveOpen
  <2>2. /\ everDone = DoneUnits(disk.chunks)
        /\ everDone \subseteq DoneUnits(chunkByID)
        /\ Backed(disk.chunks)
    BY <1>14, <2>1 DEF Recorded
  <2>3. o[1] \notin DoneIn(disk.chunks)
    BY <2>1, <2>2, ReceiveKeeps DEF Backed, DoneIn
  <2>4. /\ DOMAIN payload' = DOMAIN disk.chunks \cup {o[1]}
        /\ \A id \in DOMAIN disk.chunks \ {o[1]} :
             payload'[id] = disk.chunks[id]
        /\ payload'[o[1]] = chunkByID'[o[1]]
    BY <2>1 DEF Updated
  <2>5. everDone \subseteq DoneUnits(payload')
    <3>1. \A id \in DoneIn(disk.chunks) :
            id \in DOMAIN payload' /\ payload'[id] = disk.chunks[id]
      BY <2>3, <2>4 DEF DoneIn
    <3> QED
      BY <2>2, <3>1, DoneGrows
  <2>6. \A id \in DoneIn(payload') :
          id \in DOMAIN chunkByID' /\ chunkByID'[id] = payload'[id]
    <3> TAKE id \in DoneIn(payload')
    <3>1. CASE id = o[1]
      BY <2>1, <2>4, <3>1, ReceiveFacts
    <3>2. CASE id # o[1]
      <4>1. id \in DoneIn(disk.chunks) /\ payload'[id] = disk.chunks[id]
        BY <2>4, <3>2 DEF DoneIn
      <4>2. id \in DoneIn(chunkByID) /\ chunkByID[id] = disk.chunks[id]
        BY <2>2, <4>1 DEF Backed, DoneIn
      <4> QED
        BY <1>14, <2>1, <4>1, <4>2
    <3> QED
      BY <3>1, <3>2
  <2> QED
    BY <1>14, <2>1, <2>2, <2>5, <2>6, DiskFacts DEF Recorded, Backed
<1>17. CASE RecordWrite \/ RecordWriteError
  <2>1. /\ phase = "markSave" /\ phase' = "results" /\ disk = Torn
        /\ UNCHANGED <<dst, opts, chunkByID>>
        /\ CheckpointOn /\ Backed(payload)
        /\ everDone \subseteq DoneUnits(payload)
        /\ everDone \subseteq DoneUnits(chunkByID) /\ everDone \subseteq dst
    BY <1>17 DEF RecordWrite, RecordWriteError, recordFrame, Recorded
  <2>2. \/ disk' = Torn /\ UNCHANGED everDone
        \/ /\ disk' = Saved(payload)
           /\ everDone' = everDone \cup DoneUnits(payload)
    BY <1>17, <2>1, DiskFacts DEF RecordWrite, RecordWriteError, SaveWrite,
                                  SaveWriteError
  <2>3. CASE disk' = Torn /\ UNCHANGED everDone
    BY <2>1, <2>3, DiskFacts DEF Recorded, Backed
  <2>4. CASE /\ disk' = Saved(payload)
             /\ everDone' = everDone \cup DoneUnits(payload)
    <3>1. everDone' = DoneUnits(payload)
      BY <2>1, <2>4
    <3>2. DoneUnits(payload) \subseteq DoneUnits(chunkByID)
      BY <2>1, DoneGrows DEF Backed
    <3>3. DoneUnits(chunkByID) \subseteq dst
      BY DEF Written, UnitsOf, DoneUnits
    <3> QED
      BY <2>1, <2>4, <3>1, <3>2, <3>3, DiskFacts DEF Recorded, Backed
  <2> QED
    BY <2>2, <2>3, <2>4
<1>18. CASE Stop \/ UNCHANGED vars
  BY <1>1, <1>18 DEF Stop, vars
<1>19. CASE Main
  <2>1. CASE Results
    BY <1>12, <1>15, <1>16, <1>17, <2>1 DEF Results
  <2> QED
    BY <1>5, <1>7, <1>8, <1>9, <1>10, <1>11, <1>12, <1>19, <2>1 DEF Main
<1> QED
  BY <1>3, <1>4, <1>11, <1>12, <1>13, <1>18, <1>19 DEF Next

\* While the sources stay as they were resolved, a chunk reported as
\* transferred is there to its last unit; transfer_shrink shows what happens
\* when they do not.
LEMMA OkWhole == Kept => OkIsWhole
BY DEF Kept, Written, OkIsWhole

\* The invariant that the properties of the checkpoint and of the destination
\* rest on.
THEOREM KeptAlways == Spec => []Kept
<1>1. Init => Kept
  <2>1. Init => Typed
    BY ListsInit, ProcessInit, TypeInit DEF Typed
  <2>2. Init => Flight /\ Written /\ Recorded
    BY DiskFacts DEF Init, Flight, Written, Recorded, DoneIn, NoChunks, InLoop,
                     Loadable
  <2> QED
    BY <2>1, <2>2 DEF Kept
<1>2. Kept /\ [Next]_vars => Kept'
  BY ListsStep, ProcessStep, TypeStep, FlightStep, WrittenStep, RecordedStep
     DEF Kept, Typed
<1> QED
  BY <1>1, <1>2, PTL DEF Spec

-----------------------------------------------------------------------------
(* What becomes of the planned chunks *)

\* While one file follows another, the chunks that are still coming stay so.
LEMMA NextFileFacts ==
  ASSUME Typed, NextFile
  PROVE  /\ phase = "next" /\ phase' \in {"next", "results"}
         /\ UNCHANGED <<disk, opts, chunkByID, pending, setupError, payload,
                        partial, fatal>>
         /\ \A id \in pending : Coming(id)' <=> Coming(id)
<1>1. /\ phase = "next" /\ phase' \in {"next", "results"}
      /\ UNCHANGED <<disk, opts, chunkByID, pending, setupError, payload,
                     partial, fatal, outcomes>>
      /\ file' = file + 1
      /\ queue' = {id \in pending : FileOf(id) = file + 1}
  BY DEF NextFile
<1>2. queue = {} /\ outcomes = {}
  BY <1>1 DEF Typed, Process
<1>3. ASSUME NEW id \in pending
      PROVE  Coming(id)' <=> Coming(id)
  <2>1. FileOf(id) \in Nat /\ file \in Nat
    BY IDFacts, FileNumbers DEF Typed, TypeOK
  <2>2. Coming(id) <=> FileOf(id) > file
    BY <1>2 DEF Coming
  <2>3. Coming(id)' <=> FileOf(id) = file + 1 \/ FileOf(id) > file + 1
    BY <1>1, <1>2 DEF Coming
  <2> QED
    BY <2>1, <2>2, <2>3
<1> QED
  BY <1>1, <1>3

\* A step of a worker ends the wait for its chunk only by discarding it.
LEMMA WorkerComing ==
  ASSUME Typed, NEW id \in queue, Worker(id), NEW i \in pending
  PROVE  /\ Coming(i)' => Coming(i)
         /\ Coming(i) => Coming(i)' \/ setupError # "none"
<1>1. UNCHANGED file
  BY WorkerFacts DEF workersFrame
<1>2. \/ UNCHANGED <<queue, outcomes>>
      \/ /\ queue' = queue \ {id}
         /\ UNCHANGED outcomes /\ setupError # "none"
      \/ /\ queue' = queue \ {id}
         /\ \E r \in {"ok", "err"} : outcomes' = outcomes \cup {<<id, r>>}
  BY WorkerFacts
<1> QED
  BY <1>1, <1>2 DEF Coming

\* A received result is the end of its chunk, and of no other.
LEMMA ReceiveComing ==
  ASSUME Typed, Flight, NEW o \in outcomes, Receive(o)
  PROVE  /\ Coming(o[1]) /\ ~Coming(o[1])'
         /\ \A i \in pending \ {o[1]} : Coming(i)' <=> Coming(i)
<1>1. /\ UNCHANGED <<pending, file, queue>>
      /\ outcomes' = outcomes \ {o}
  BY DEF Receive
<1>2. /\ o[1] \in pending /\ FileOf(o[1]) = file /\ o[1] \notin queue
      /\ file \in Nat /\ Coming(o[1])
  BY ReceiveFacts, FileNumbers DEF Flight, Typed, TypeOK, Coming
<1>3. ~Coming(o[1])'
  BY <1>1, <1>2 DEF Flight, Coming
<1>4. ASSUME NEW i \in pending \ {o[1]}
      PROVE  Coming(i)' <=> Coming(i)
  <2>1. \A r \in {"ok", "err"} : <<i, r>> # o
    OBVIOUS
  <2> QED
    BY <1>1, <2>1 DEF Coming
<1> QED
  BY <1>2, <1>3, <1>4

\* Every step keeps the account of the planned chunks.
LEMMA AccountedStep == Kept /\ Accounted /\ [Next]_vars => Accounted'
<1> SUFFICES ASSUME Kept, Accounted, [Next]_vars PROVE Accounted'
  OBVIOUS
<1> USE DEF Kept, InLoop, CheckpointOn, Loadable
<1>1. ASSUME UNCHANGED <<disk, opts, phase, chunkByID, pending, file, queue,
                         outcomes, payload, partial>>,
             setupError' = setupError \/ setupError' # "none",
             UNCHANGED fatal \/ fatal'
      PROVE  Accounted'
  BY <1>1 DEF Accounted, Coming, Stored
<1>2. ASSUME phase' \notin {"next", "results", "markSave"}
      PROVE  Accounted'
  BY <1>2 DEF Accounted
<1>3. ASSUME NEW o \in Options, Start(o)
      PROVE  Accounted'
  BY <1>2, <1>3 DEF Start
<1>4. CASE \/ Crash \/ ResumeLoadError \/ ReloadError \/ CreateError
           \/ DryRun \/ Finish
  BY <1>2, <1>4 DEF Crash, ResumeLoadError, ReloadError, CreateError, DryRun,
                    Finish, Return, NoProcess
<1>5. CASE ResumeLoad \/ CreateOpen \/ CreateWrite
  BY <1>2, <1>5 DEF ResumeLoad, CreateOpen, CreateWrite
<1>6. CASE Begin
  <2>1. /\ phase = "plan" /\ phase' = "next" /\ file' = 0 /\ ~partial'
        /\ UNCHANGED <<disk, opts>>
    BY <1>6, BeginFacts
  <2>2. \A id \in pending' : Coming(id)'
    <3>1. \A id \in pending' : FileOf(id) > 0
      BY <1>6, BeginFacts, PlanFacts, IDFacts
    <3> QED
      BY <2>1, <3>1 DEF Coming
  <2>3. ASSUME opts.resume \/ opts.checkpoint
        PROVE  /\ disk.kind = "saved"
               /\ \A id \in DOMAIN chunkByID' :
                    IF id \in DOMAIN disk.chunks
                      THEN disk.chunks[id] = chunkByID'[id]
                      ELSE id \in pending'
    <3>1. CASE opts.resume
      BY <1>6, <2>1, <3>1, BeginFacts DEF Recorded
    <3>2. CASE ~opts.resume
      BY <1>6, <2>1, <2>3, <3>2, BeginFacts DEF Recorded
    <3> QED
      BY <3>1, <3>2
  <2> QED
    BY <2>1, <2>2, <2>3 DEF Accounted, Stored
<1>7. CASE NextFile
  BY <1>7, NextFileFacts DEF Accounted, Stored, Typed, TypeOK
<1>8. ASSUME NEW id \in queue, Worker(id)
      PROVE  Accounted'
  <2>1. UNCHANGED <<disk, opts, phase, chunkByID, pending, setupError, payload,
                    partial, fatal>>
    BY <1>8, WorkerFacts DEF workersFrame
  <2>2. \A i \in pending : /\ Coming(i)' => Coming(i)
                           /\ Coming(i) => Coming(i)' \/ setupError # "none"
    BY <1>8, WorkerComing
  <2> QED
    BY <2>1, <2>2 DEF Accounted, Stored
<1>9. ASSUME NEW o \in outcomes, Receive(o), fatal => fatal',
             phase' \in {"results", "markSave"}
      PROVE  /\ \A id \in pending' :
                  \/ Coming(id)' \/ setupError' # "none" \/ fatal'
                  \/ chunkByID'[id].state = "done"
                  \/ chunkByID'[id].state = "failed" /\ partial'
             /\ partial' =>
                  \E id \in pending' :
                    ~Coming(id)' /\ chunkByID'[id].state = "failed"
  <2>1. /\ UNCHANGED <<pending, setupError>> /\ phase = "results"
        /\ partial' = (partial \/ o[2] = "err")
    BY <1>9 DEF Receive
  <2>2. /\ o[1] \in pending /\ chunkByID'[o[1]].state = NewState(o)
        /\ o[2] \in {"ok", "err"}
        /\ \A i \in pending \ {o[1]} : chunkByID'[i] = chunkByID[i]
    BY <1>9, ReceiveFacts DEF Typed, TypeOK
  <2>3. ASSUME NEW id \in pending
        PROVE  \/ Coming(id)' \/ setupError' # "none" \/ fatal'
               \/ chunkByID'[id].state = "done"
               \/ chunkByID'[id].state = "failed" /\ partial'
    <3>1. CASE id = o[1]
      BY <2>1, <2>2, <3>1 DEF NewState
    <3>2. CASE id # o[1]
      BY <1>9, <2>1, <2>2, <3>2, ReceiveComing DEF Accounted
    <3> QED
      BY <3>1, <3>2
  <2>4. CASE o[2] = "err"
    BY <1>9, <2>1, <2>2, <2>3, <2>4, ReceiveComing DEF NewState
  <2>5. CASE o[2] # "err"
    <3>1. ASSUME partial
          PROVE  \E id \in pending :
                   ~Coming(id)' /\ chunkByID'[id].state = "failed"
      <4>1. PICK id \in pending :
              ~Coming(id) /\ chunkByID[id].state = "failed"
        BY <2>1, <3>1 DEF Accounted
      <4>2. id # o[1]
        BY <1>9, <4>1, ReceiveComing
      <4> QED
        BY <1>9, <2>2, <4>1, <4>2, ReceiveComing
    <3> QED
      BY <2>1, <2>3, <2>5, <3>1
  <2> QED
    BY <2>4, <2>5
<1>10. ASSUME NEW o \in outcomes, ReceiveUnrecorded(o) \/ RecordError(o)
       PROVE  Accounted'
  <2>1. /\ Receive(o) /\ phase' = "results"
        /\ fatal' \/ (UNCHANGED fatal /\ ~CheckpointOn)
        /\ UNCHANGED opts
    BY <1>10 DEF ReceiveUnrecorded, RecordError, Receive
  <2> QED
    BY <1>9, <2>1 DEF Accounted
<1>11. ASSUME NEW o \in outcomes, Record(o)
       PROVE  Accounted'
  <2>1. /\ Receive(o) /\ CheckpointOn /\ phase = "results"
        /\ phase' = "markSave"
        /\ payload' = Updated(disk.chunks, o[1], chunkByID'[o[1]])
        /\ UNCHANGED <<fatal, opts, pending, setupError>>
    BY <1>11 DEF Record, Receive
  <2>2. ASSUME ~fatal, NEW id \in DOMAIN chunkByID'
        PROVE  IF id \in DOMAIN payload' THEN payload'[id] = chunkByID'[id]
               ELSE id \in pending' /\ (Coming(id)' \/ setupError' # "none")
    <3>1. /\ DOMAIN payload' = DOMAIN disk.chunks \cup {o[1]}
          /\ payload'[o[1]] = chunkByID'[o[1]]
          /\ \A i \in DOMAIN disk.chunks \ {o[1]} :
               payload'[i] = disk.chunks[i]
      BY <2>1 DEF Updated
    <3>2. CASE id = o[1]
      BY <3>1, <3>2
    <3>3. CASE id # o[1]
      <4>1. id \in DOMAIN chunkByID /\ chunkByID'[id] = chunkByID[id]
        BY <2>1, <2>2, <3>3, ReceiveFacts
      <4>2. IF id \in DOMAIN disk.chunks THEN disk.chunks[id] = chunkByID[id]
            ELSE id \in pending /\ (Coming(id) \/ setupError # "none")
        BY <2>1, <2>2, <4>1 DEF Accounted, Stored
      <4>3. id \in pending => (Coming(id)' <=> Coming(id))
        BY <2>1, <3>3, ReceiveComing
      <4> QED
        BY <2>1, <3>1, <3>3, <4>1, <4>2, <4>3
    <3> QED
      BY <3>2, <3>3
  <2> QED
    BY <1>9, <2>1, <2>2 DEF Accounted, Stored
<1>12. CASE RecordWrite
  <2>1. /\ phase = "markSave" /\ phase' = "results" /\ disk' = Saved(payload)
        /\ UNCHANGED <<opts, chunkByID, pending, file, queue, outcomes,
                       setupError, partial, fatal>>
    BY <1>12 DEF RecordWrite, SaveWrite, recordFrame
  <2> QED
    BY <2>1, DiskFacts DEF Accounted, Coming, Stored
<1>13. CASE RecordWriteError
  <2>1. /\ phase = "markSave" /\ phase' = "results" /\ fatal'
        /\ UNCHANGED <<chunkByID, pending, file, queue, outcomes, partial>>
    BY <1>13 DEF RecordWriteError, recordFrame
  <2> QED
    BY <2>1 DEF Accounted, Coming
<1>14. CASE ResultsEnd
  <2>1. /\ phase = "results" /\ phase' = "next" /\ setupError' = "none"
        /\ setupError = "none" \/ fatal
        /\ UNCHANGED <<disk, opts, chunkByID, pending, file, queue, outcomes,
                       partial, fatal>>
    BY <1>14 DEF ResultsEnd, Typed, TypeOK, Process
  <2> QED
    BY <2>1 DEF Accounted, Coming, Stored
<1>15. CASE Interrupt \/ SetupFails \/ ReceiveSetupError
  BY <1>1, <1>15 DEF Interrupt, SetupFails, ReceiveSetupError, workersFrame
<1>16. CASE Stop \/ UNCHANGED vars
  BY <1>1, <1>16 DEF Stop, vars
<1>17. CASE Main
  <2>1. CASE Results
    BY <1>10, <1>11, <1>12, <1>13, <1>14, <1>15, <2>1 DEF Results
  <2> QED
    BY <1>4, <1>5, <1>6, <1>7, <1>17, <2>1 DEF Main
<1> QED
  BY <1>3, <1>4, <1>8, <1>15, <1>16, <1>17 DEF Next

\* An invocation that has transferred its files ended by Finish, and nothing
\* changes until the next one starts.
LEMMA TransferredFacts ==
  Kept /\ [Next]_vars /\ Transferred' => Finish \/ UNCHANGED vars
<1> SUFFICES ASSUME Kept, [Next]_vars, Transferred'
             PROVE  Finish \/ UNCHANGED vars
  OBVIOUS
<1> USE DEF Transferred
<1>1. CASE \/ \E o \in Options : Start(o)
           \/ Crash \/ ResumeLoad \/ CreateOpen \/ CreateWrite \/ Begin
           \/ NextFile
  BY <1>1 DEF Start, Crash, NoProcess, ResumeLoad, CreateOpen, CreateWrite,
              Begin, NextFile
<1>2. CASE ResumeLoadError \/ ReloadError \/ CreateError \/ DryRun
  BY <1>2 DEF ResumeLoadError, ReloadError, CreateError, DryRun, Return
<1>3. CASE Interrupt
  BY <1>3 DEF Interrupt, Running
<1>4. CASE SetupFails \/ (\E id \in queue : Worker(id))
  <2>1. phase # "exited"
    BY <1>4 DEF SetupFails, Kept, Typed, Process
  <2>2. UNCHANGED phase
    BY <1>4, WorkerFacts DEF SetupFails, workersFrame, Kept
  <2> QED
    BY <2>1, <2>2
<1>5. CASE Results
  <2>1. phase \in {"results", "markSave"}
    BY <1>5 DEF Results, ReceiveUnrecorded, Record, RecordError, Receive,
                RecordWrite, RecordWriteError, ReceiveSetupError, ResultsEnd
  <2>2. phase' = phase \/ phase' \in {"results", "markSave", "next"}
    BY <1>5 DEF Results, ReceiveUnrecorded, Record, RecordError, Receive,
                RecordWrite, RecordWriteError, ReceiveSetupError, ResultsEnd
  <2> QED
    BY <2>1, <2>2
<1>6. CASE Stop
  BY <1>6 DEF Stop
<1>7. CASE Main
  BY <1>1, <1>2, <1>5, <1>7 DEF Main
<1> QED
  BY <1>1, <1>3, <1>4, <1>6, <1>7 DEF Next

\* When the loop over the files ends without a fatal error, every planned
\* chunk is done or failed, and the checkpoint says so.
LEMMA FinishFacts ==
  ASSUME Kept, Accounted, Finish
  PROVE  /\ opts.chunkSize \in ChunkSizes
         /\ UNCHANGED <<opts, disk, dst>>
         /\ exit' = (IF fatal THEN 2 ELSE IF partial THEN 1 ELSE 0)
         /\ PlanIDs(opts.chunkSize) \subseteq DOMAIN chunkByID
         /\ ~fatal => \A id \in PlanIDs(opts.chunkSize) :
                        \/ chunkByID[id].state = "done"
                        \/ chunkByID[id].state = "failed" /\ partial
         /\ partial => \E id \in PlanIDs(opts.chunkSize) :
                         chunkByID[id].state = "failed"
         /\ ~fatal /\ CheckpointOn =>
              /\ Loadable
              /\ \A id \in PlanIDs(opts.chunkSize) :
                   disk.chunks[id] = chunkByID[id]
<1> USE DEF Kept, InLoop, Loadable
<1>1. /\ phase = "next" /\ file + 1 \notin Files
      /\ exit' = (IF fatal THEN 2 ELSE IF partial THEN 1 ELSE 0)
      /\ UNCHANGED <<opts, disk, dst>>
  BY DEF Finish, Return
<1>2. /\ queue = {} /\ outcomes = {} /\ setupError = "none"
      /\ opts \in Options /\ pending \subseteq PlanIDs(opts.chunkSize)
      /\ \A id \in PlanIDs(opts.chunkSize) :
           /\ id \in DOMAIN chunkByID
           /\ id \notin pending => chunkByID[id].state = "done"
  BY <1>1 DEF Typed, Process
<1>3. ASSUME NEW id \in pending
      PROVE  ~Coming(id)
  <2>1. FileOf(id) \in Files /\ file \in Files \cup {0}
    BY IDFacts DEF Typed, TypeOK
  <2>2. FileOf(id) <= file
    <3>1. PICK n \in Nat : Files = 1..n
      BY TransferAssumption DEF Files
    <3> QED
      BY <1>1, <2>1, <3>1
  <2>3. FileOf(id) \in Nat /\ file \in Nat
    BY IDFacts, FileNumbers DEF Typed, TypeOK
  <2> QED
    BY <1>2, <2>2, <2>3 DEF Coming
<1>4. ASSUME ~fatal, CheckpointOn
      PROVE  /\ disk.kind = "saved"
             /\ \A id \in PlanIDs(opts.chunkSize) :
                  disk.chunks[id] = chunkByID[id]
  BY <1>1, <1>2, <1>3, <1>4 DEF Accounted, Stored
<1>5. ASSUME ~fatal, NEW id \in PlanIDs(opts.chunkSize)
      PROVE  \/ chunkByID[id].state = "done"
             \/ chunkByID[id].state = "failed" /\ partial
  BY <1>1, <1>2, <1>3, <1>5 DEF Accounted
<1>6. ASSUME partial
      PROVE  \E id \in PlanIDs(opts.chunkSize) : chunkByID[id].state = "failed"
  BY <1>1, <1>2, <1>6 DEF Accounted
<1> QED
  BY <1>1, <1>2, <1>4, <1>5, <1>6 DEF Options

\* The exit code and the checkpoint, once an invocation has ended.
LEMMA ExitStep ==
  Kept /\ Accounted /\ ExitMatchesCheckpoint /\ [Next]_vars
    => ExitMatchesCheckpoint'
<1> SUFFICES ASSUME Kept, Accounted, ExitMatchesCheckpoint, [Next]_vars,
                    Transferred', CheckpointOn'
             PROVE  ExitMatchesCheckpoint'
  BY DEF ExitMatchesCheckpoint
<1>1. CASE UNCHANGED vars
  BY <1>1 DEF vars, ExitMatchesCheckpoint, Transferred, CheckpointOn, Planned,
              Loadable
<1>2. CASE Finish
  <2>1. /\ CheckpointOn /\ UNCHANGED <<opts, disk>>
        /\ exit' = (IF fatal THEN 2 ELSE IF partial THEN 1 ELSE 0)
    BY <1>2, FinishFacts DEF CheckpointOn
  <2>2. ~fatal
    BY <2>1 DEF Transferred
  <2>3. exit' = 1 <=> partial
    BY <2>1, <2>2
  <2>4. /\ disk.kind = "saved"
        /\ \A id \in PlanIDs(opts.chunkSize) :
             disk.chunks[id].state \in {"done", "failed"}
        /\ partial <=> \E id \in PlanIDs(opts.chunkSize) :
                         disk.chunks[id].state = "failed"
    BY <1>2, <2>1, <2>2, FinishFacts DEF Loadable
  <2> QED
    BY <2>1, <2>3, <2>4 DEF ExitMatchesCheckpoint, Planned, Loadable
<1> QED
  BY <1>1, <1>2, TransferredFacts

\* The results of the workers say the truth, as long as no source shrinks.
THEOREM OkIsWholeAlways == Spec => []OkIsWhole
BY KeptAlways, OkWhole, PTL

\* Every planned chunk is accounted for at every moment.
THEOREM AccountedAlways == Spec => []Accounted
<1>1. Init => Accounted
  BY DEF Init, Accounted, InLoop
<1>2. Kept /\ Accounted /\ [Next]_vars => Accounted'
  BY AccountedStep
<1> QED
  BY <1>1, <1>2, KeptAlways, PTL DEF Spec

\* An invocation that ends with 0 or 1 leaves a checkpoint that can be loaded,
\* in which every planned chunk is done or failed, and the code says which.
THEOREM ExitMatchesCheckpointAlways == Spec => []ExitMatchesCheckpoint
<1>1. Init => ExitMatchesCheckpoint
  BY DEF Init, ExitMatchesCheckpoint, Transferred
<1>2. Kept /\ Accounted /\ ExitMatchesCheckpoint /\ [Next]_vars
        => ExitMatchesCheckpoint'
  BY ExitStep
<1> QED
  BY <1>1, <1>2, KeptAlways, AccountedAlways, PTL DEF Spec

-----------------------------------------------------------------------------
(* One chunk size for all invocations *)

\* Multiplication keeps the order of the numbers.
LEMMA ProductOrder ==
  ASSUME NEW a \in Nat, NEW b \in Nat, NEW s \in Nat, a <= b
  PROVE  a * s <= b * s
<1> DEFINE d == b - a
           x == a * s
           y == d * s
<1>1. d \in Nat /\ b = a + d
  OBVIOUS
<1>2. x \in Nat /\ y \in Nat /\ (a + d) * s = x + y
  BY <1>1
<1>3. b * s = x + y
  BY <1>1, <1>2
<1> HIDE DEF d, x, y
<1>4. x <= b * s
  BY <1>2, <1>3
<1> QED
  BY <1>4 DEF x

\* The quotient of a division.
LEMMA DivFacts ==
  ASSUME NEW n \in Nat, NEW s \in Nat \ {0}
  PROVE  /\ n \div s \in Nat
         /\ (n \div s) * s <= n /\ n < (n \div s) * s + s
OBVIOUS

\* In a plan, a chunk begins behind the chunks with smaller numbers.
LEMMA RangesInOrder ==
  ASSUME NEW s \in ChunkSizes, NEW i \in PlanIDs(s), NEW j \in PlanIDs(s),
         i[2] < j[2]
  PROVE  LastOf(i, s) < FirstOf(j, s)
<1> DEFINE k == j[2] - 1
           x == i[2] * s
           y == k * s
<1>1. /\ s \in Nat /\ i[2] \in Nat /\ j[2] \in Nat /\ j[2] # 0
      /\ FileSize[FileOf(i)] \in Nat
  BY IDFacts, TransferAssumption DEF PlanIDs
<1>2. k \in Nat /\ i[2] <= k
  BY <1>1
<1>3. x \in Nat /\ y \in Nat
  BY <1>1, <1>2
<1>4. x <= y
  BY <1>1, <1>2, ProductOrder
<1>5. LastOf(i, s) = Lower(x, FileSize[FileOf(i)]) /\ FirstOf(j, s) = y + 1
  BY DEF LastOf, FirstOf
<1> HIDE DEF x, y, k
<1> QED
  BY <1>1, <1>3, <1>4, <1>5 DEF Lower

\* A list that agrees with a plan has the ranges of its chunk size.
LEMMA AgreeFacts ==
  ASSUME NEW s, NEW chunks, Agree(chunks, s), NEW id \in DOMAIN chunks
  PROVE  /\ id \in PlanIDs(s)
         /\ chunks[id].first = FirstOf(id, s)
         /\ chunks[id].last = LastOf(id, s)
<1>1. /\ id \in PlanIDs(s)
      /\ chunks[id].first = Plan(s)[id].first
      /\ chunks[id].last = Plan(s)[id].last
  BY DEF Agree
<1>2. Plan(s)[id] = [first |-> FirstOf(id, s), last |-> LastOf(id, s),
                     state |-> "pending"]
  BY <1>1 DEF Plan, FirstOf, LastOf
<1> QED
  BY <1>1, <1>2

\* Every step that the user's care allows keeps all chunks those of one plan.
LEMMA UniformStep ==
  Typed /\ SamePlan /\ Uniform /\ [Next]_vars => Uniform'
<1> SUFFICES ASSUME Typed, SamePlan, Uniform, [Next]_vars, InLoop'
             PROVE  Agree(chunkByID', opts'.chunkSize)
  BY DEF Uniform, Agree
<1>1. ASSUME UNCHANGED <<chunkByID, opts>>, InLoop
      PROVE  Agree(chunkByID', opts'.chunkSize)
  BY <1>1 DEF Uniform
<1>2. CASE Begin
  <2>1. /\ phase = "plan" /\ ~opts.dryRun /\ opts' = opts
        /\ DOMAIN chunkByID = PlanIDs(opts.chunkSize)
        /\ \A id \in DOMAIN chunkByID :
             chunkByID[id] = Plan(opts.chunkSize)[id]
    BY <1>2, BeginFacts DEF Begin, command
  <2>2. CASE ~opts.resume
    BY <1>2, <2>1, <2>2, BeginFacts DEF Agree, plan
  <2>3. CASE opts.resume
    <3>1. Agree(disk.chunks, opts.chunkSize)
      BY <2>1, <2>3 DEF SamePlan
    <3>2. /\ DOMAIN chunkByID' = DOMAIN chunkByID \cup DOMAIN disk.chunks
          /\ \A id \in DOMAIN disk.chunks : chunkByID'[id] = disk.chunks[id]
          /\ \A id \in DOMAIN chunkByID \ DOMAIN disk.chunks :
               chunkByID'[id] = chunkByID[id]
      BY <1>2, <2>3, BeginFacts
    <3> QED
      BY <2>1, <3>1, <3>2 DEF Agree
  <2> QED
    BY <2>2, <2>3
<1>3. CASE \/ (\E o \in Options : Start(o))
           \/ Crash \/ ResumeLoad \/ ResumeLoadError \/ ReloadError
           \/ CreateOpen \/ CreateWrite \/ CreateError \/ DryRun \/ Finish
  BY <1>3 DEF Start, Crash, ResumeLoad, ResumeLoadError, ReloadError,
              CreateOpen, CreateWrite, CreateError, DryRun, Finish, Return,
              NoProcess, InLoop
<1>4. CASE Interrupt \/ NextFile
  BY <1>1, <1>4 DEF Interrupt, NextFile, InLoop, command, plan
<1>5. ASSUME NEW id \in queue, Worker(id)
      PROVE  Agree(chunkByID', opts'.chunkSize)
  BY <1>1, <1>5, WorkerFacts DEF workersFrame, command, plan
<1>6. ASSUME NEW o \in outcomes,
             ReceiveUnrecorded(o) \/ Record(o) \/ RecordError(o)
      PROVE  Agree(chunkByID', opts'.chunkSize)
  <2>1. Receive(o) /\ opts' = opts
    BY <1>6 DEF ReceiveUnrecorded, Record, RecordError, Receive, command
  <2> QED
    BY <2>1, ReceiveFacts DEF Uniform, Agree
<1>7. CASE RecordWrite \/ RecordWriteError
  BY <1>1, <1>7 DEF RecordWrite, RecordWriteError, recordFrame, InLoop,
                    command, plan
<1>8. CASE SetupFails \/ ReceiveSetupError \/ ResultsEnd
  <2>1. UNCHANGED <<chunkByID, opts>>
    BY <1>8 DEF SetupFails, ReceiveSetupError, ResultsEnd, workersFrame,
                command, plan
  <2>2. InLoop
    BY <1>8 DEF SetupFails, ReceiveSetupError, ResultsEnd, Typed, Process,
                InLoop
  <2> QED
    BY <1>1, <2>1, <2>2
<1>9. CASE Stop \/ UNCHANGED vars
  BY <1>1, <1>9 DEF Stop, vars, command, plan, InLoop
<1>10. CASE Main
  <2>1. CASE Results
    BY <1>6, <1>7, <1>8, <2>1 DEF Results
  <2> QED
    BY <1>2, <1>3, <1>4, <1>10, <2>1 DEF Main
<1> QED
  BY <1>3, <1>4, <1>5, <1>8, <1>9, <1>10 DEF Next

\* What the other theorems use of a behavior of SamePlanSpec.
LEMMA UniformAlways == SamePlanSpec => Spec /\ []Uniform
<1>1. Init => Uniform /\ SamePlan
  BY DEF Init, Uniform, InLoop, SamePlan
<1>2. [Next /\ SamePlan']_vars => [Next]_vars
  OBVIOUS
<1>3. SamePlan /\ [Next /\ SamePlan']_vars => SamePlan'
  BY DEF SamePlan, vars, command, checkpoint, Agree
<1>4. Typed /\ SamePlan /\ Uniform /\ [Next]_vars => Uniform'
  BY UniformStep
<1> QED
  BY <1>1, <1>2, <1>3, <1>4, TypedAlways, PTL DEF SamePlanSpec, Spec

\* A user who never changes the chunk size sees to it: with one chunk size every
\* behavior of Spec is one of SamePlanSpec.
THEOREM OneSizeSuffices ==
  (\A s, t \in ChunkSizes : s = t) => (Spec => SamePlanSpec)
<1> SUFFICES ASSUME \A s, t \in ChunkSizes : s = t PROVE Spec => SamePlanSpec
  OBVIOUS
<1>1. Typed => SamePlan
  <2> SUFFICES ASSUME Typed, phase = "plan", NEW id \in DOMAIN disk.chunks
               PROVE  /\ id \in PlanIDs(opts.chunkSize)
                      /\ disk.chunks[id].first = Plan(opts.chunkSize)[id].first
                      /\ disk.chunks[id].last = Plan(opts.chunkSize)[id].last
    BY DEF SamePlan, Agree
  <2> DEFINE size == opts.chunkSize
             chunk == disk.chunks[id]
  <2>1. size \in ChunkSizes /\ Fits(id, chunk)
    BY DEF Typed, Process, Options, Lists, AllFit
  <2> HIDE DEF size, chunk
  <2>2. /\ id \in PlanIDs(size)
        /\ chunk.first = FirstOf(id, size) /\ chunk.last = LastOf(id, size)
    BY <2>1 DEF Fits
  <2>3. Plan(size)[id] = [first |-> FirstOf(id, size),
                          last |-> LastOf(id, size), state |-> "pending"]
    BY <2>2 DEF Plan, FirstOf, LastOf
  <2> QED
    BY <2>2, <2>3 DEF size, chunk
<1>2. [Next]_vars /\ SamePlan' => [Next /\ SamePlan']_vars
  OBVIOUS
<1> QED
  BY <1>1, <1>2, TypedAlways, PTL DEF Spec, SamePlanSpec

\* Chunks of one plan have no unit in common.
LEMMA ChunksApart ==
  ASSUME NEW s \in ChunkSizes, NEW chunks, AllFit(chunks), Agree(chunks, s),
         NEW i \in DOMAIN chunks, NEW j \in DOMAIN chunks, i # j
  PROVE  UnitsIn(chunks, i) \cap UnitsIn(chunks, j) = {}
<1>1. /\ i \in PlanIDs(s)
      /\ chunks[i].first = FirstOf(i, s) /\ chunks[i].last = LastOf(i, s)
  BY AgreeFacts
<1>2. /\ j \in PlanIDs(s)
      /\ chunks[j].first = FirstOf(j, s) /\ chunks[j].last = LastOf(j, s)
  BY AgreeFacts
<1>3. CASE FileOf(i) # FileOf(j)
  BY <1>3 DEF UnitsIn
<1>4. CASE FileOf(i) = FileOf(j)
  <2>1. /\ i = <<FileOf(i), i[2]>> /\ j = <<FileOf(j), j[2]>>
        /\ i[2] \in Nat /\ j[2] \in Nat
    BY IDFacts DEF AllFit
  <2>2. i[2] < j[2] \/ j[2] < i[2]
    BY <1>4, <2>1
  <2>3. chunks[i].last < chunks[j].first \/ chunks[j].last < chunks[i].first
    BY <1>1, <1>2, <2>2, RangesInOrder
  <2>4. /\ chunks[i].first \in Nat /\ chunks[i].last \in Nat
        /\ chunks[j].first \in Nat /\ chunks[j].last \in Nat
    BY FitFacts
  <2>5. (chunks[i].first..chunks[i].last)
          \cap (chunks[j].first..chunks[j].last) = {}
    BY <2>3, <2>4
  <2> QED
    BY <2>5 DEF UnitsIn
<1> QED
  BY <1>3, <1>4

\* What is in flight is not done, and so lies apart from what was done.
LEMMA NotResent == Uniform /\ Kept => DoneIsNotResent
<1> SUFFICES ASSUME Uniform, Kept, opts.resume, NEW id \in queue
             PROVE  UnitsOf(id) \cap everDone = {}
  BY DEF DoneIsNotResent
<1>1. everDone \subseteq DoneUnits(chunkByID)
  BY DEF Kept, Typed, Process, Recorded, InLoop, CheckpointOn
<1>2. id \in pending /\ id \in DOMAIN chunkByID /\ AllFit(chunkByID)
  BY DEF Kept, Typed, TypeOK, Lists
<1>3. chunkByID[id].state # "done"
  BY <1>2 DEF Kept, Flight, Coming
<1>4. \A j \in DoneIn(chunkByID) :
        UnitsIn(chunkByID, id) \cap UnitsIn(chunkByID, j) = {}
  <2>1. InLoop /\ opts.chunkSize \in ChunkSizes
    BY DEF Kept, Typed, Process, InLoop, Options
  <2> QED
    BY <1>2, <1>3, <2>1, ChunksApart DEF DoneIn, Uniform
<1> QED
  BY <1>1, <1>4 DEF UnitsOf, DoneUnits

\* A run that is resumed with the plan of its checkpoint never copies again
\* what any earlier checkpoint called done.
THEOREM DoneIsNotResentAlways == SamePlanSpec => []DoneIsNotResent
<1>1. Uniform /\ Kept => DoneIsNotResent
  BY NotResent
<1> QED
  BY <1>1, KeptAlways, UniformAlways, PTL

\* A chunk has as many units as its length says.
LEMMA UnitsCount ==
  ASSUME Lists, NEW id \in DOMAIN chunkByID
  PROVE  /\ IsFiniteSet(UnitsOf(id)) /\ Cardinality(UnitsOf(id)) = Length(id)
         /\ Length(id) \in Nat
<1> DEFINE a == chunkByID[id].first
           b == chunkByID[id].last
<1>1. a \in Nat /\ b \in Nat /\ a <= b
  BY FitFacts DEF Lists
<1>2. UnitsOf(id) = {FileOf(id)} \X (a..b) /\ Length(id) = b - a + 1
  BY DEF UnitsOf, UnitsIn, Length
<1> HIDE DEF a, b
<1>3. IsFiniteSet(a..b) /\ Cardinality(a..b) = b - a + 1
  BY <1>1, FS_Interval
<1>4. IsFiniteSet({FileOf(id)}) /\ Cardinality({FileOf(id)}) = 1
  BY FS_Singleton
<1> DEFINE u == {FileOf(id)}
           v == a..b
<1>5. IsFiniteSet(u) /\ IsFiniteSet(v)
  BY <1>3, <1>4
<1>6. Cardinality(u) = 1 /\ Cardinality(v) = b - a + 1 /\ UnitsOf(id) = u \X v
  BY <1>2, <1>3, <1>4
<1> HIDE DEF u, v
<1>7. /\ IsFiniteSet(u \X v)
      /\ Cardinality(u \X v) = Cardinality(u) * Cardinality(v)
  BY <1>5, FS_Product, ZenonT(30)
<1>8. Cardinality(u \X v) = 1 * (b - a + 1)
  BY <1>6, <1>7
<1>9. 1 * (b - a + 1) = b - a + 1 /\ b - a + 1 \in Nat
  BY <1>1
<1>10. Cardinality(UnitsOf(id)) = Cardinality(u \X v)
  BY <1>6
<1>11. IsFiniteSet(UnitsOf(id))
  BY <1>6, <1>7
<1>12. Length(id) = b - a + 1
  BY <1>2
<1> QED
  BY <1>8, <1>9, <1>10, <1>11, <1>12
\* A file has finitely many units.
LEMMA FileFinite ==
  ASSUME NEW f \in Files
  PROVE  IsFiniteSet({f} \X (1..FileSize[f]))
<1>1. FileSize[f] \in Int
  BY FileNumbers
<1>2. IsFiniteSet(1..FileSize[f])
  BY <1>1, FS_Interval
<1>3. IsFiniteSet({f})
  BY FS_Singleton
<1> QED
  BY <1>2, <1>3, FS_Product

\* What is done of a file are units of the file, a finite set.
LEMMA DoneOfFacts ==
  ASSUME Typed, NEW f \in Files
  PROVE  DoneOf(f) \subseteq {f} \X (1..FileSize[f]) /\ IsFiniteSet(DoneOf(f))
<1>1. ASSUME NEW id \in DoneIDs(f)
      PROVE  UnitsOf(id) \subseteq {f} \X (1..FileSize[f])
  <2>1. id \in DOMAIN chunkByID /\ FileOf(id) = f
    BY DEF DoneIDs, Typed, TypeOK
  <2>2. /\ chunkByID[id].first \in Nat \ {0} /\ chunkByID[id].last \in Nat
        /\ chunkByID[id].last <= FileSize[f]
    BY <2>1, FitFacts DEF Typed, Lists
  <2>3. FileSize[f] \in Nat
    BY FileNumbers
  <2> QED
    BY <2>1, <2>2, <2>3 DEF UnitsOf, UnitsIn
<1>2. IsFiniteSet({f} \X (1..FileSize[f]))
  BY FileFinite
<1>3. DoneOf(f) \subseteq {f} \X (1..FileSize[f])
  BY <1>1 DEF DoneOf
<1> QED
  BY <1>2, <1>3, FS_Subset

\* What a received result changes in the account of a file.
LEMMA ReceiveCounts ==
  ASSUME Uniform, Kept, CountedRight, NEW o \in outcomes, Receive(o)
  PROVE  CountedRight'
<1> USE DEF Kept
<1> DEFINE id == o[1]
           g == FileOf(id)
<1>1. /\ id \in pending /\ id \in DOMAIN chunkByID /\ g \in Files
      /\ o[2] \in {"ok", "err"}
      /\ UNCHANGED pending /\ chunkByID'[id].state = NewState(o)
      /\ \A i \in DOMAIN chunkByID \ {id} : chunkByID'[i] = chunkByID[i]
      /\ pending \subseteq DOMAIN chunkByID
  BY ReceiveFacts DEF Typed, TypeOK
<1>2. /\ chunkByID[id].state # "done"
      /\ \A i \in DOMAIN chunkByID : UnitsOf(i)' = UnitsOf(i)
  BY <1>1, ReceiveKeeps DEF DoneIn
<1>3. reported' = [reported EXCEPT ![g] =
                     IF o[2] = "ok" THEN @ + Length(id) ELSE @]
  BY DEF Receive, Counted
<1> HIDE DEF id, g
<1> SUFFICES ASSUME NEW f \in Files
             PROVE  reported'[f] = Cardinality(DoneOf(f)')
  BY DEF CountedRight
<1>4. reported \in [Files -> Nat] /\ reported[f] = Cardinality(DoneOf(f))
  BY DEF CountedRight, Typed, TypeOK
<1>5. CASE o[2] = "ok" /\ f = g
  <2>1. DoneIDs(f)' = DoneIDs(f) \cup {id}
    BY <1>1, <1>5 DEF DoneIDs, NewState, g
  <2>2. DoneOf(f)' = DoneOf(f) \cup UnitsOf(id)
    <3>1. \A i \in DoneIDs(f)' : UnitsOf(i)' = UnitsOf(i)
      BY <1>1, <1>2 DEF DoneIDs
    <3>2. DoneOf(f)' = UNION {UnitsOf(i) : i \in DoneIDs(f)'}
      BY <3>1 DEF DoneOf
    <3> QED
      BY <2>1, <3>2 DEF DoneOf
  <2>3. DoneOf(f) \cap UnitsOf(id) = {}
    <3>1. \A i \in DoneIDs(f) : i \in DOMAIN chunkByID /\ i # id
      BY <1>1, <1>2 DEF DoneIDs
    <3>2. /\ opts.chunkSize \in ChunkSizes
          /\ Agree(chunkByID, opts.chunkSize)
      BY ReceiveFacts DEF Uniform, Typed, Process, Options
    <3>3. \A i \in DoneIDs(f) : UnitsOf(i) \cap UnitsOf(id) = {}
      BY <1>1, <3>1, <3>2, ChunksApart DEF Typed, Lists, UnitsOf
    <3> QED
      BY <3>3 DEF DoneOf
  <2>4. IsFiniteSet(UnitsOf(id)) /\ Cardinality(UnitsOf(id)) = Length(id)
        /\ Length(id) \in Nat
    BY <1>1, UnitsCount DEF Typed
  <2>5. Cardinality(DoneOf(f) \cup UnitsOf(id)) =
          Cardinality(DoneOf(f)) + Cardinality(UnitsOf(id)) - Cardinality({})
    BY <2>3, <2>4, DoneOfFacts, FS_Union
  <2>6. Cardinality(DoneOf(f)') = reported[f] + Length(id)
    BY <1>4, <2>2, <2>4, <2>5, FS_EmptySet
  <2> QED
    BY <1>3, <1>4, <1>5, <2>6
<1>6. CASE ~(o[2] = "ok" /\ f = g)
  <2>1. DoneIDs(f)' = DoneIDs(f)
    BY <1>1, <1>2, <1>6 DEF DoneIDs, NewState, g
  <2>2. \A i \in DoneIDs(f) : UnitsOf(i)' = UnitsOf(i)
    BY <1>1, <1>2 DEF DoneIDs
  <2>3. DoneOf(f)' = DoneOf(f)
    BY <2>1, <2>2 DEF DoneOf
  <2>4. reported'[f] = reported[f]
    BY <1>1, <1>3, <1>4, <1>6
  <2> QED
    BY <1>4, <2>3, <2>4
<1> QED
  BY <1>5, <1>6

\* Every step keeps what is reported equal to what is done.
LEMMA CountedStep ==
  Uniform /\ Kept /\ CountedRight /\ [Next]_vars => CountedRight'
<1> SUFFICES ASSUME Uniform, Kept, CountedRight, [Next]_vars
             PROVE  CountedRight'
  OBVIOUS
<1>1. ASSUME UNCHANGED <<chunkByID, pending, reported>>
      PROVE  CountedRight'
  BY <1>1 DEF CountedRight, DoneOf, DoneIDs, UnitsOf
<1>2. ASSUME \A id \in pending' : chunkByID'[id].state # "done",
             reported' = NoReport
      PROVE  CountedRight'
  <2>1. \A f \in Files : DoneOf(f)' = {} /\ reported'[f] = 0
    BY <1>2 DEF DoneOf, DoneIDs, NoReport
  <2> QED
    BY <2>1, FS_EmptySet DEF CountedRight
<1>3. ASSUME NEW o \in Options, Start(o)
      PROVE  CountedRight'
  <2>1. reported' = NoReport
    BY <1>3 DEF Start, Running, Kept, Typed, Process, InLoop
  <2>2. \A id \in pending' : chunkByID'[id].state # "done"
    BY <1>3, PlanFacts DEF Start, Options
  <2> QED
    BY <1>2, <2>1, <2>2
<1>4. CASE \/ Crash \/ ResumeLoadError \/ ReloadError \/ CreateError
           \/ DryRun \/ Finish
  BY <1>2, <1>4 DEF Crash, ResumeLoadError, ReloadError, CreateError, DryRun,
                    Finish, Return, NoProcess
<1>5. CASE Interrupt \/ ResumeLoad \/ CreateOpen \/ CreateWrite \/ NextFile
  BY <1>1, <1>5 DEF Interrupt, ResumeLoad, CreateOpen, CreateWrite, NextFile
<1>6. CASE Begin
  BY <1>2, <1>6, BeginFacts DEF Kept
<1>7. ASSUME NEW id \in queue, Worker(id)
      PROVE  CountedRight'
  BY <1>1, <1>7, WorkerFacts DEF Kept, workersFrame
<1>8. ASSUME NEW o \in outcomes,
             ReceiveUnrecorded(o) \/ Record(o) \/ RecordError(o)
      PROVE  CountedRight'
  BY <1>8, ReceiveCounts DEF ReceiveUnrecorded, Record, RecordError
<1>9. CASE RecordWrite \/ RecordWriteError
  BY <1>1, <1>9 DEF RecordWrite, RecordWriteError, recordFrame
<1>10. CASE SetupFails \/ ReceiveSetupError \/ ResultsEnd
  BY <1>1, <1>10 DEF SetupFails, ReceiveSetupError, ResultsEnd, workersFrame
<1>11. CASE Stop \/ UNCHANGED vars
  BY <1>1, <1>11 DEF Stop, vars
<1>12. CASE Main
  <2>1. CASE Results
    BY <1>8, <1>9, <1>10, <2>1 DEF Results
  <2> QED
    BY <1>4, <1>5, <1>6, <1>12, <2>1 DEF Main
<1> QED
  BY <1>3, <1>4, <1>5, <1>7, <1>10, <1>11, <1>12 DEF Next

\* What is counted as transferred of a file is at the destination.
LEMMA ReportedIsThere == Kept /\ CountedRight => ReportIsTrue
<1> SUFFICES ASSUME Kept, CountedRight, NEW f \in Files
             PROVE  reported[f] <= Cardinality({u \in dst : u[1] = f})
  BY DEF ReportIsTrue
<1> DEFINE there == {u \in dst : u[1] = f}
<1>1. there \subseteq {f} \X (1..FileSize[f])
  BY DEF Kept, Typed, TypeOK, Units
<1>2. IsFiniteSet({f} \X (1..FileSize[f]))
  BY FileFinite
<1>3. IsFiniteSet(there)
  BY <1>1, <1>2, FS_Subset
<1>4. DoneOf(f) \subseteq there
  <2>1. DoneOf(f) \subseteq dst
    BY DEF DoneOf, DoneIDs, Kept, Written, DoneIn, Typed, TypeOK
  <2> QED
    BY <2>1, DoneOfFacts DEF Kept
<1>5. Cardinality(DoneOf(f)) <= Cardinality(there)
  BY <1>3, <1>4, FS_Subset
<1> QED
  BY <1>5 DEF CountedRight

\* As long as resumed runs have the plan of their checkpoint, the progress of a
\* file never runs ahead of what is at its destination.
THEOREM ReportIsTrueAlways == SamePlanSpec => []ReportIsTrue
<1>1. Init => CountedRight
  <2> SUFFICES ASSUME Init, NEW f \in Files
               PROVE  reported[f] = Cardinality(DoneOf(f))
    BY DEF CountedRight
  <2>1. DoneOf(f) = {} /\ reported[f] = 0
    BY DEF Init, DoneOf, DoneIDs, NoReport
  <2> QED
    BY <2>1, FS_EmptySet
<1>2. Uniform /\ Kept /\ CountedRight /\ [Next]_vars => CountedRight'
  BY CountedStep
<1>3. Kept /\ CountedRight => ReportIsTrue
  BY ReportedIsThere
<1> QED
  BY <1>1, <1>2, <1>3, KeptAlways, UniformAlways, PTL DEF Spec

\* A plan covers its files: each unit lies in one of its chunks.
LEMMA PlanCovers ==
  ASSUME NEW s \in ChunkSizes, NEW chunks, Agree(chunks, s),
         PlanIDs(s) \subseteq DoneIn(chunks)
  PROVE  Units \subseteq DoneUnits(chunks)
<1> SUFFICES ASSUME NEW u \in Units PROVE u \in DoneUnits(chunks)
  OBVIOUS
<1>1. PICK f \in Files : u \in {f} \X (1..FileSize[f])
  BY DEF Units
<1> DEFINE size == FileSize[f]
           k == u[2]
           q == (k - 1) \div s
           x == q * s
           id == <<f, q + 1>>
<1>2. /\ u = <<f, k>> /\ k \in Nat \ {0} /\ k <= size /\ size \in Nat
      /\ s \in Nat \ {0}
  BY <1>1, FileNumbers, TransferAssumption
<1>3. q \in Nat /\ x <= k - 1 /\ k - 1 < x + s
  <2>1. k - 1 \in Nat
    BY <1>2
  <2> HIDE DEF k
  <2> QED
    BY <1>2, <2>1, DivFacts
<1>4. x \in Nat /\ (q + 1) * s = x + s
  BY <1>2, <1>3, ProductFacts
<1>5. q <= x
  <2>1. q * 1 <= q * s
    <3>1. 1 * q <= s * q
      BY <1>2, <1>3, ProductOrder
    <3> QED
      BY <1>2, <1>3, <3>1
  <2> QED
    BY <1>3, <2>1
<1> HIDE DEF x, q, k, size
<1>6. q + 1 \in 1..size /\ x < size
  BY <1>2, <1>3, <1>4, <1>5
<1>7. id \in PlanIDs(s)
  <2>1. id \in {f} \X (1..FileSize[f])
    BY <1>6 DEF size
  <2>2. id \in ChunkIDs
    BY <2>1 DEF ChunkIDs
  <2>3. id[2] - 1 = q /\ FileOf(id) = f
    BY <1>3 DEF FileOf
  <2>4. (id[2] - 1) * s < FileSize[FileOf(id)]
    BY <1>6, <2>3 DEF x, size
  <2> QED
    BY <2>2, <2>4 DEF PlanIDs
<1>8. chunks[id].first = x + 1 /\ chunks[id].last = Lower(x + s, size)
  <2>1. chunks[id].first = FirstOf(id, s) /\ chunks[id].last = LastOf(id, s)
    BY <1>7, AgreeFacts DEF DoneIn
  <2>2. id[2] - 1 = q /\ id[2] = q + 1 /\ FileOf(id) = f
    BY <1>3 DEF FileOf
  <2>3. FirstOf(id, s) = x + 1 /\ LastOf(id, s) = Lower(x + s, size)
    BY <1>4, <2>2 DEF FirstOf, LastOf, x, size
  <2> QED
    BY <2>1, <2>3
<1>9. k \in chunks[id].first..chunks[id].last
  BY <1>2, <1>3, <1>4, <1>8 DEF Lower
<1>10. u \in UnitsIn(chunks, id)
  BY <1>2, <1>9 DEF UnitsIn, FileOf
<1> QED
  BY <1>7, <1>10 DEF DoneUnits

\* An invocation that answers 0 has brought every unit to its destination.
LEMMA FinishComplete ==
  ASSUME Uniform, Kept, Accounted, Finish, exit' = 0
  PROVE  dst = Units
<1>1. PlanIDs(opts.chunkSize) \subseteq DoneIn(chunkByID)
      /\ opts.chunkSize \in ChunkSizes
  BY FinishFacts DEF DoneIn
<1>2. Units \subseteq DoneUnits(chunkByID)
  <2>1. Agree(chunkByID, opts.chunkSize)
    BY DEF Finish, InLoop, Uniform
  <2> QED
    BY <1>1, <2>1, PlanCovers
<1>3. DoneUnits(chunkByID) \subseteq dst
  BY DEF Kept, Written, UnitsOf, DoneUnits
<1> QED
  BY <1>2, <1>3 DEF Kept, Typed, TypeOK

\* As long as resumed runs have the plan of their checkpoint, exit code 0 says
\* that every file is complete.
THEOREM ExitZeroIsCompleteAlways == SamePlanSpec => []ExitZeroIsComplete
<1>1. Init => ExitZeroIsComplete
  BY DEF Init, ExitZeroIsComplete, Transferred
<1>2. Uniform /\ Kept /\ Accounted /\ ExitZeroIsComplete /\ [Next]_vars
        => ExitZeroIsComplete'
  <2> SUFFICES ASSUME Uniform, Kept, Accounted, ExitZeroIsComplete, [Next]_vars,
                      Transferred', exit' = 0
               PROVE  dst' = Units
    BY DEF ExitZeroIsComplete
  <2>1. CASE UNCHANGED vars
    BY <2>1 DEF vars, ExitZeroIsComplete, Transferred
  <2>2. CASE Finish
    BY <2>2, FinishComplete, FinishFacts
  <2> QED
    BY <2>1, <2>2, TransferredFacts
<1> QED
  BY <1>1, <1>2, KeptAlways, AccountedAlways, UniformAlways, PTL DEF Spec

-----------------------------------------------------------------------------
(* The promises of ResumableCopy *)

Answered == IF phase = "exited" /\ ~opts.dryRun THEN exit ELSE NoExit

\* Outside a finished transfer there is no answer.
LEMMA NoAnswerYet ==
  /\ phase # "exited" \/ opts.dryRun => Answered = NoExit
  /\ phase' # "exited" \/ opts'.dryRun => Answered' = NoExit
  /\ phase' = "exited" /\ ~opts'.dryRun => Answered' = exit'
BY DEF Answered

\* The first state is a first state of the abstract copy.
LEMMA PromiseInit == Init => Promise!Init
BY DiskFacts DEF Init, Promise!Init, Loadable, DoneUnits, DoneIn, Missing,
                 NoChunks

\* A step that leaves alone what ResumableCopy speaks of is a stutter, ...
LEMMA PromiseStutter ==
  UNCHANGED <<dst, disk, everDone>> /\ Answered' = Answered
    => UNCHANGED Promise!vars
<1> SUFFICES ASSUME UNCHANGED <<dst, disk, everDone>>, Answered' = Answered
             PROVE  UNCHANGED Promise!vars
  OBVIOUS
<1>1. Loadable' = Loadable /\ DoneUnits(disk'.chunks) = DoneUnits(disk.chunks)
  BY DEF Loadable
<1> QED
  BY <1>1 DEF Promise!vars, Answered

\* ... opening the checkpoint for a Save loses the record, ...
LEMMA PromiseLose ==
  ASSUME disk' = Torn, UNCHANGED <<dst, everDone>>,
         Answered = NoExit, Answered' = NoExit
  PROVE  Promise!Lose
<1>1. ~Loadable' /\ DoneUnits(disk'.chunks) = {}
  BY DiskFacts DEF Loadable, DoneUnits
<1> QED
  BY <1>1 DEF Promise!Lose, Answered

\* ... and the write gives it back with all that it ever held.
LEMMA PromiseRewrite ==
  ASSUME NEW chunks, disk = Torn, disk' = Saved(chunks),
         everDone \subseteq DoneUnits(chunks), DoneUnits(chunks) \subseteq dst,
         everDone' = DoneUnits(chunks)
  PROVE  Promise!Rewrite
<1>1. ~Loadable /\ Loadable' /\ disk'.chunks = chunks
  BY DiskFacts DEF Loadable
<1> QED
  BY <1>1 DEF Promise!Rewrite

\* Every step of the program is one that ResumableCopy's record allows, or a
\* stutter.
LEMMA PromiseStep ==
  ASSUME Kept, Kept', [Next]_vars
  PROVE  [Promise!RecordNext]_(Promise!vars)
<1> USE DEF Kept
<1>1. ASSUME UNCHANGED <<dst, disk, everDone>>, Answered' = Answered
      PROVE  UNCHANGED Promise!vars
  BY <1>1, PromiseStutter
<1>2. ASSUME NEW o \in Options, Start(o)
      PROVE  [Promise!RecordNext]_(Promise!vars)
  <2>1. UNCHANGED <<dst, disk, everDone>> /\ Answered' = NoExit
    BY <1>2, NoAnswerYet DEF Start
  <2>2. CASE Answered = NoExit
    BY <1>1, <2>1, <2>2
  <2>3. CASE Answered # NoExit
    <3>1. UNCHANGED <<Loadable, DoneUnits(disk.chunks)>>
      BY <2>1 DEF Loadable
    <3>2. Promise!Restart
      BY <2>1, <2>3, <3>1 DEF Promise!Restart, Answered
    <3> QED
      BY <3>2 DEF Promise!RecordNext
  <2> QED
    BY <2>2, <2>3
<1>3. CASE Crash \/ Interrupt \/ ResumeLoad \/ Begin \/ NextFile
  <2>1. UNCHANGED <<dst, disk, everDone>>
    BY <1>3 DEF Crash, Interrupt, ResumeLoad, Begin, NextFile
  <2>2. phase # "exited" /\ phase' # "exited"
    BY <1>3 DEF Crash, Interrupt, ResumeLoad, Begin, NextFile, Running,
                NoProcess
  <2> QED
    BY <1>1, <2>1, <2>2, NoAnswerYet
<1>4. CASE DryRun
  <2>1. UNCHANGED <<dst, disk, everDone>> /\ opts.dryRun /\ opts'.dryRun
    BY <1>4 DEF DryRun, Return
  <2> QED
    BY <1>1, <2>1, NoAnswerYet
<1>5. ASSUME NEW code \in {0, 1, 2}, Return(code), phase # "exited",
             UNCHANGED <<disk, everDone>>
      PROVE  [Promise!RecordNext]_(Promise!vars)
  <2>1. /\ UNCHANGED <<dst, opts>> /\ phase' = "exited" /\ exit' = code
        /\ Answered = NoExit
    BY <1>5, NoAnswerYet DEF Return, NoProcess
  <2>2. CASE opts.dryRun
    BY <1>1, <1>5, <2>1, <2>2, NoAnswerYet
  <2>3. CASE ~opts.dryRun
    <3>1. Answered' = code
      BY <2>1, <2>3, NoAnswerYet
    <3>2. UNCHANGED <<Loadable, DoneUnits(disk.chunks)>>
      BY <1>5 DEF Loadable
    <3>3. Promise!End(code)
      BY <1>5, <2>1, <3>1, <3>2 DEF Promise!End, Answered
    <3> QED
      BY <3>3 DEF Promise!RecordNext
  <2> QED
    BY <2>2, <2>3
<1>6. CASE Finish
  <2>1. PICK code \in {0, 1, 2} : Return(code)
    BY <1>6 DEF Finish
  <2>2. phase # "exited" /\ UNCHANGED <<disk, everDone>>
    BY <1>6 DEF Finish
  <2> QED
    BY <1>5, <2>1, <2>2
<1>7. CASE ResumeLoadError \/ ReloadError
  BY <1>5, <1>7 DEF ResumeLoadError, ReloadError
<1>8. ASSUME phase = "initSave"
      PROVE  disk = Torn /\ everDone = {} /\ DoneUnits(payload) = {}
  <2>1. ~opts.resume /\ payload = Plan(opts.chunkSize)
        /\ opts.chunkSize \in ChunkSizes
    BY <1>8 DEF Typed, Process, Options
  <2> QED
    BY <1>8, <2>1, PlanFacts, NothingDone DEF Recorded
<1>9. CASE CreateError
  <2>1. /\ Return(2) /\ UNCHANGED everDone /\ phase \in {"init", "initSave"}
        /\ \/ UNCHANGED disk
           \/ phase = "initSave" /\ disk' = Saved(payload)
    BY <1>9 DEF CreateError, SaveOpenError, SaveWriteError
  <2>2. CASE UNCHANGED disk
    BY <1>5, <2>1, <2>2
  <2>3. CASE phase = "initSave" /\ disk' = Saved(payload)
    <3>1. Promise!Rewrite
      BY <1>8, <2>1, <2>3, PromiseRewrite
    <3>2. UNCHANGED <<dst, opts>> /\ phase' = "exited" /\ exit' = 2
          /\ Answered = NoExit
      BY <2>1, NoAnswerYet DEF Return, NoProcess
    <3>3. CASE opts.dryRun
      <4>1. Answered' = NoExit
        BY <3>2, <3>3, NoAnswerYet
      <4>2. Promise!Save
        BY <3>1, <3>2, <4>1 DEF Promise!Save, Answered
      <4> QED
        BY <4>2 DEF Promise!RecordNext
    <3>4. CASE ~opts.dryRun
      <4>1. Answered' = 2
        BY <3>2, <3>4, NoAnswerYet
      <4>2. Promise!End(2)
        BY <3>1, <3>2, <4>1 DEF Promise!End, Answered
      <4> QED
        BY <4>2 DEF Promise!RecordNext
    <3> QED
      BY <3>3, <3>4
  <2> QED
    BY <2>1, <2>2, <2>3
<1>10. CASE CreateOpen
  <2>1. disk' = Torn /\ UNCHANGED <<dst, everDone>>
    BY <1>10 DEF CreateOpen, SaveOpen
  <2>2. Answered = NoExit /\ Answered' = NoExit
    BY <1>10, NoAnswerYet DEF CreateOpen
  <2> QED
    BY <2>1, <2>2, PromiseLose DEF Promise!RecordNext
<1>11. CASE CreateWrite
  <2>1. /\ phase = "initSave" /\ disk' = Saved(payload)
        /\ UNCHANGED <<dst, everDone>> /\ phase' = "plan"
    BY <1>11 DEF CreateWrite, SaveWrite
  <2>2. Promise!Rewrite
    BY <1>8, <2>1, PromiseRewrite
  <2>3. Answered = NoExit /\ Answered' = NoExit
    BY <2>1, NoAnswerYet
  <2>4. Promise!Save
    BY <2>1, <2>2, <2>3 DEF Promise!Save, Answered
  <2> QED
    BY <2>4 DEF Promise!RecordNext
<1>12. ASSUME NEW id \in queue, Worker(id)
       PROVE  [Promise!RecordNext]_(Promise!vars)
  <2>1. /\ UNCHANGED <<disk, everDone, phase>> /\ dst \subseteq dst'
        /\ phase # "exited"
    BY <1>12, WorkerFacts DEF workersFrame
  <2>2. dst' \subseteq Units
    BY DEF Typed, TypeOK
  <2>3. Answered = NoExit /\ Answered' = NoExit
    BY <2>1, NoAnswerYet
  <2>4. UNCHANGED <<Loadable, DoneUnits(disk.chunks)>>
    BY <2>1 DEF Loadable
  <2>5. Promise!Copy
    BY <2>1, <2>2, <2>3, <2>4 DEF Promise!Copy, Answered
  <2> QED
    BY <2>5 DEF Promise!RecordNext
<1>13. CASE SetupFails \/ ReceiveSetupError \/ ResultsEnd
  <2>1. UNCHANGED <<dst, disk, everDone>>
    BY <1>13 DEF SetupFails, ReceiveSetupError, ResultsEnd, workersFrame
  <2>2. phase # "exited" /\ phase' # "exited"
    BY <1>13 DEF SetupFails, ReceiveSetupError, ResultsEnd, workersFrame, Typed,
                 Process
  <2> QED
    BY <1>1, <2>1, <2>2, NoAnswerYet
<1>14. ASSUME NEW o \in outcomes, ReceiveUnrecorded(o) \/ RecordError(o)
       PROVE  [Promise!RecordNext]_(Promise!vars)
  <2>1. UNCHANGED <<dst, disk, everDone>>
        /\ phase = "results" /\ phase' = "results"
    BY <1>14 DEF ReceiveUnrecorded, RecordError, Receive, SaveOpenError
  <2> QED
    BY <1>1, <2>1, NoAnswerYet
<1>15. ASSUME NEW o \in outcomes, Record(o)
       PROVE  [Promise!RecordNext]_(Promise!vars)
  <2>1. /\ disk' = Torn /\ UNCHANGED <<dst, everDone>>
        /\ phase = "results" /\ phase' = "markSave"
    BY <1>15 DEF Record, Receive, SaveOpen
  <2> QED
    BY <2>1, NoAnswerYet, PromiseLose DEF Promise!RecordNext
<1>16. CASE RecordWrite \/ RecordWriteError
  <2>1. /\ phase = "markSave" /\ phase' = "results" /\ disk = Torn
        /\ UNCHANGED dst /\ everDone \subseteq DoneUnits(payload)
    BY <1>16 DEF RecordWrite, RecordWriteError, recordFrame, Recorded
  <2>2. \/ disk' = Torn /\ UNCHANGED everDone
        \/ /\ disk' = Saved(payload)
           /\ everDone' = everDone \cup DoneUnits(payload)
    BY <1>16, <2>1, DiskFacts DEF RecordWrite, RecordWriteError, SaveWrite,
                                  SaveWriteError
  <2>3. Answered = NoExit /\ Answered' = NoExit
    BY <2>1, NoAnswerYet
  <2>4. CASE disk' = Torn /\ UNCHANGED everDone
    BY <1>1, <2>1, <2>3, <2>4
  <2>5. CASE /\ disk' = Saved(payload)
             /\ everDone' = everDone \cup DoneUnits(payload)
    <3>1. everDone' = DoneUnits(payload)
      BY <2>1, <2>5
    <3>2. DoneUnits(payload) \subseteq DoneUnits(chunkByID)
      BY <2>1, DoneGrows DEF Recorded, Backed
    <3>3. DoneUnits(chunkByID) \subseteq dst
      BY DEF Written, UnitsOf, DoneUnits
    <3>4. Promise!Rewrite
      BY <2>1, <2>5, <3>1, <3>2, <3>3, PromiseRewrite
    <3>5. Promise!Save
      BY <2>1, <2>3, <3>4 DEF Promise!Save, Answered
    <3> QED
      BY <3>5 DEF Promise!RecordNext
  <2> QED
    BY <2>2, <2>4, <2>5
<1>17. CASE Stop \/ UNCHANGED vars
  <2>1. UNCHANGED <<dst, disk, everDone, phase, opts, exit>>
    BY <1>17 DEF Stop, vars
  <2>2. Answered' = Answered
    BY <2>1 DEF Answered
  <2> QED
    BY <1>1, <2>1, <2>2
<1>18. CASE Main
  <2>1. CASE Results
    BY <1>13, <1>14, <1>15, <1>16, <2>1 DEF Results
  <2> QED
    BY <1>3, <1>4, <1>6, <1>7, <1>9, <1>10, <1>11, <1>18, <2>1 DEF Main
<1> QED
  BY <1>2, <1>3, <1>12, <1>13, <1>17, <1>18 DEF Next

\* Whatever chunk sizes the invocations are given, the checkpoint on disk never
\* calls done what is not at the destination, and a Save forgets nothing that
\* was ever saved as done.
THEOREM KeepsRecordAlways == Spec => KeepsRecord
<1>1. Init => Promise!Init
  BY PromiseInit
<1>2. Kept /\ Kept' /\ [Next]_vars => [Promise!RecordNext]_(Promise!vars)
  BY PromiseStep
<1> QED
  BY <1>1, <1>2, KeptAlways, PTL DEF Spec, KeepsRecord, Promise!RecordSpec

\* A step that answers 0 copies everything if a state that shows 0 has done so.
LEMMA CompleteAnswer ==
  ASSUME ExitZeroIsComplete', [Promise!RecordNext]_(Promise!vars)
  PROVE  [Promise!Next]_(Promise!vars)
<1>1. ASSUME NEW code \in {0, 1, 2}, Promise!End(code)
      PROVE  Promise!Answer(code)
  <2>1. Answered' = code /\ dst' = dst
    BY <1>1 DEF Promise!End, Answered
  <2>2. ASSUME code = 0
        PROVE  dst = Units
    <3>1. Answered' = 0
      BY <2>1, <2>2
    <3>2. phase' = "exited" /\ ~opts'.dryRun /\ exit' = 0
      BY <3>1 DEF Answered, NoExit
    <3>3. dst' = Units
      BY <3>2 DEF ExitZeroIsComplete, Transferred
    <3> QED
      BY <2>1, <3>3
  <2> QED
    BY <1>1, <2>2 DEF Promise!Answer
<1> QED
  BY <1>1 DEF Promise!RecordNext, Promise!Next

\* As long as resumed runs have the plan of their checkpoint, RunTransfer, its
\* checkpoint and its crashes keep all promises of ResumableCopy: what was saved
\* as done is never forgotten, and 0 is answered only for a complete copy.
THEOREM Refinement == SamePlanSpec => ImplementsResumableCopy
<1>1. Init => Promise!Init
  BY PromiseInit
<1>2. Kept /\ Kept' /\ ExitZeroIsComplete' /\ [Next]_vars
        => [Promise!Next]_(Promise!vars)
  BY PromiseStep, CompleteAnswer
<1> QED
  BY <1>1, <1>2, ExitZeroIsCompleteAlways, KeptAlways, UniformAlways, PTL
     DEF Spec, ImplementsResumableCopy, Promise!Spec

=============================================================================
