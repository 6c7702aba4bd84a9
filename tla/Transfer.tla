------------------------------ MODULE Transfer ------------------------------
(***************************************************************************)
(* RunTransfer (cmd/goscp/run.go) over several invocations of the program: *)
(* planning, the checkpoint, the transfer of the files one after another,  *)
(* the exit code, and the death of the process at any moment followed by   *)
(* another start with --resume.  The goroutines of a Schedule call are     *)
(* represented by what SchedulerContract promises of them, and each chunk  *)
(* is copied as DefaultTransferWorker.Execute copies it.                   *)
(*                                                                         *)
(* A file is a sequence of units, 1..FileSize[f] when it is resolved; the  *)
(* source may be cut afterwards.  disk is the file of the one checkpoint   *)
(* of the transfer: a later fresh run would write a file of its own.       *)
(***************************************************************************)
EXTENDS Checkpointer, FiniteSets, Sequences

CONSTANTS FileSize,       \* the size of each resolved file, in units
          ChunkSizes,     \* chunk sizes an invocation may end up with
          MaxStarts       \* bound on the invocations explored

Files == DOMAIN FileSize

ASSUME TransferAssumption ==
  /\ FileSize \in Seq(Nat)
  /\ ChunkSizes \subseteq Nat \ {0}
  /\ MaxStarts \in Nat

Units == UNION {{f} \X (1..FileSize[f]) : f \in Files}

\* Chunk IDs are fileID#1, fileID#2, ... (run.go:160).
ChunkIDs == UNION {{f} \X (1..FileSize[f]) : f \in Files}
FileOf(id) == id[1]

States == {"pending", "done", "failed"}
Options == [resume : BOOLEAN, checkpoint : BOOLEAN, dryRun : BOOLEAN,
            chunkSize : ChunkSizes]

VARIABLES
  srcSize,      \* the size of each source file now
  dst,          \* units of the destination files that hold the source's data
  everDone,     \* history: the units of the chunks ever saved as done
  starts,       \* how often the program was started
  phase,        \* where RunTransfer is
  opts,         \* the command line of this invocation
  chunkByID,    \* what this invocation knows of its chunks
  pending,      \* the chunks it means to transfer
  file,         \* the file whose turn it is; its Schedule call is running
  queue,        \* chunks of that call that have no outcome yet
  begun,        \* those of them that passed the last test of ctx
  outcomes,     \* results that RunTransfer has not received yet
  setupError,   \* "none", "sent" or "received": a result without chunk ID
  payload,      \* what the Save in progress writes
  cancelled,    \* ctx is cancelled
  reported,     \* per file, the units LogReporter has counted
  partial,      \* partialFailures
  fatal,        \* fatalErr # nil
  exit          \* the code RunTransfer returned

checkpoint == <<disk, everDone>>
world == <<srcSize, dst>>
command == <<starts, opts>>
plan == <<chunkByID, pending>>
schedule == <<queue, begun, outcomes, setupError>>
flags == <<reported, partial, fatal>>
vars == <<checkpoint, world, command, phase, plan, file, schedule, payload,
          cancelled, flags, exit>>

NoReport == [f \in Files |-> 0]

NoExit == 9
Phases == {"off", "init", "initSave", "plan", "next", "results", "markSave",
           "exited"}
Running == phase \notin {"off", "exited"}

Chunk == [first : Nat, last : Nat, state : States]

----------------------------------------------------------------------------
(* Planning *)

Lower(a, b) == IF a < b THEN a ELSE b

\* DefaultFileChunker with MinSize = MaxSize = size: contiguous ranges from
\* the first unit, the last one cut at the end of the file.
PlanIDs(size) ==
  {id \in ChunkIDs : (id[2] - 1) * size < FileSize[FileOf(id)]}
Plan(size) ==
  [id \in PlanIDs(size) |->
     [first |-> (id[2] - 1) * size + 1,
      last |-> Lower(id[2] * size, FileSize[FileOf(id)]),
      state |-> "pending"]]

\* Slip: the state stored for a chunk is not looked at.
PendingOfAll(planned, stored) == DOMAIN planned

\* pendingChunksFromCheckpoint: the planned chunks whose ID the checkpoint does
\* not call done, with the checkpoint's data where it has the ID.
PendingOf(planned, stored) ==
  {id \in DOMAIN planned : id \in DOMAIN stored => stored[id].state # "done"}
Merged(planned, stored) ==
  [id \in DOMAIN planned \cup DOMAIN stored |->
     IF id \in DOMAIN stored THEN stored[id] ELSE planned[id]]

UnitsIn(chunks, id) == {FileOf(id)} \X (chunks[id].first..chunks[id].last)
UnitsOf(id) == UnitsIn(chunkByID, id)

DoneIn(chunks) == {id \in DOMAIN chunks : chunks[id].state = "done"}
DoneUnits(chunks) == UNION {UnitsIn(chunks, id) : id \in DoneIn(chunks)}

CheckpointOn == opts.resume \/ opts.checkpoint

----------------------------------------------------------------------------

NoOptions == [resume |-> FALSE, checkpoint |-> FALSE, dryRun |-> FALSE,
              chunkSize |-> 0]

\* The memory of a process that is not running.
NoProcess(p) ==
  /\ phase' = p
  /\ chunkByID' = NoChunks
  /\ pending' = {}
  /\ file' = 0
  /\ queue' = {}
  /\ begun' = {}
  /\ outcomes' = {}
  /\ setupError' = "none"
  /\ payload' = NoChunks
  /\ reported' = NoReport
  /\ partial' = FALSE
  /\ fatal' = FALSE

Init ==
  /\ disk = Missing
  /\ srcSize = FileSize
  /\ dst = {}
  /\ everDone = {}
  /\ starts = 0
  /\ phase = "off"
  /\ opts = NoOptions
  /\ chunkByID = NoChunks
  /\ pending = {}
  /\ file = 0
  /\ queue = {}
  /\ begun = {}
  /\ outcomes = {}
  /\ setupError = "none"
  /\ payload = NoChunks
  /\ cancelled = FALSE
  /\ reported = NoReport
  /\ partial = FALSE
  /\ fatal = FALSE
  /\ exit = NoExit

\* The command line is parsed, the files are resolved and chunked.
Start(o) ==
  /\ ~Running
  /\ starts < MaxStarts
  /\ o.checkpoint /\ ~o.resume => disk = Missing
  /\ starts' = starts + 1
  /\ opts' = o
  /\ phase' = IF o.resume \/ o.checkpoint THEN "init" ELSE "plan"
  /\ chunkByID' = Plan(o.chunkSize)
  /\ pending' = PlanIDs(o.chunkSize)
  /\ cancelled' = FALSE
  /\ exit' = NoExit
  /\ UNCHANGED <<checkpoint, world, file, schedule, payload, flags>>

\* RunTransfer returns; deferred calls and main do the rest.
Return(code) ==
  /\ exit' = code
  /\ NoProcess("exited")
  /\ UNCHANGED <<world, command, cancelled>>

\* SIGINT or SIGTERM, as often as the user likes: the first cancels ctx.
Interrupt ==
  /\ Running
  /\ ~cancelled
  /\ cancelled' = TRUE
  /\ UNCHANGED <<checkpoint, world, command, phase, plan, file, schedule,
                 payload, flags, exit>>

\* The process is killed; its files stay as they are.
Crash ==
  /\ Running
  /\ NoProcess("off")
  /\ opts' = NoOptions
  /\ cancelled' = FALSE
  /\ UNCHANGED <<checkpoint, world, starts, exit>>

----------------------------------------------------------------------------
(* initCheckpoint *)

ResumeLoad ==
  /\ phase = "init"
  /\ opts.resume
  /\ Loadable
  /\ phase' = "plan"
  /\ UNCHANGED <<checkpoint, world, command, plan, file, schedule, payload,
                 cancelled, flags, exit>>

\* The checkpoint is missing or torn, or it cannot be read.
ResumeLoadError ==
  /\ phase = "init"
  /\ opts.resume
  /\ Return(2)
  /\ UNCHANGED checkpoint

CreateOpen ==
  /\ phase = "init"
  /\ ~opts.resume
  /\ SaveOpen
  /\ phase' = "initSave"
  /\ payload' = chunkByID
  /\ UNCHANGED <<everDone, world, command, plan, file, schedule, cancelled,
                 flags, exit>>

CreateWrite ==
  /\ phase = "initSave"
  /\ SaveWrite(payload)
  /\ phase' = "plan"
  /\ payload' = NoChunks
  /\ UNCHANGED <<everDone, world, command, plan, file, schedule, cancelled,
                 flags, exit>>

CreateError ==
  /\ \/ phase = "init" /\ ~opts.resume /\ SaveOpenError
     \/ phase = "initSave" /\ SaveWriteError(payload)
  /\ Return(2)
  /\ UNCHANGED everDone

----------------------------------------------------------------------------
(* From the plan to the loop over the files *)

DryRun ==
  /\ phase = "plan"
  /\ opts.dryRun
  /\ Return(0)
  /\ UNCHANGED checkpoint

Begin ==
  /\ phase = "plan"
  /\ ~opts.dryRun
  /\ phase' = "next"
  /\ file' = 0
  /\ IF opts.resume
       THEN /\ pending' = PendingOf(chunkByID, disk.chunks)
            /\ chunkByID' = Merged(chunkByID, disk.chunks)
       ELSE UNCHANGED plan
  /\ UNCHANGED <<checkpoint, world, command, schedule, payload, cancelled,
                 flags, exit>>

\* The checkpoint is loaded once more, which may fail as well.
ReloadError ==
  /\ phase = "plan"
  /\ ~opts.dryRun
  /\ opts.resume
  /\ Return(2)
  /\ UNCHANGED checkpoint

\* The next file; one without pending chunks is skipped.
NextFile ==
  /\ phase = "next"
  /\ file + 1 \in Files
  /\ file' = file + 1
  /\ queue' = {id \in pending : FileOf(id) = file + 1}
  /\ phase' = IF queue' = {} THEN "next" ELSE "results"
  /\ UNCHANGED <<checkpoint, world, command, plan, begun, outcomes, setupError,
                 payload, cancelled, flags, exit>>

Finish ==
  /\ phase = "next"
  /\ file + 1 \notin Files
  /\ Return(IF fatal THEN 2 ELSE IF partial THEN 1 ELSE 0)
  /\ UNCHANGED checkpoint

----------------------------------------------------------------------------
(* The workers of the running Schedule call *)

workersFrame == <<checkpoint, srcSize, command, phase, plan, file, payload,
                  cancelled, flags, exit>>

Outcome(id, o) ==
  /\ queue' = queue \ {id}
  /\ begun' = begun \ {id}
  /\ outcomes' = outcomes \cup {<<id, o>>}
  /\ UNCHANGED <<workersFrame, setupError>>

\* ctx.Err() is nil for the last time, before the write.
PassCheck(id) ==
  /\ id \in queue \ begun
  /\ ~cancelled
  /\ begun' = begun \cup {id}
  /\ UNCHANGED <<workersFrame, dst, queue, outcomes, setupError>>

\* ctx is cancelled, or the read fails: nothing is written.
ExecuteStopped(id) ==
  /\ id \in queue \ begun
  /\ Outcome(id, "err")
  /\ UNCHANGED dst

\* What ReadAt finds of the chunk, io.EOF being no error.
Readable(id) == {u \in UnitsOf(id) : u[2] <= srcSize[FileOf(id)]}

Execute(id) ==
  /\ id \in begun
  /\ Readable(id) # {}
  /\ dst' = dst \cup Readable(id)
  /\ Outcome(id, "ok")

\* No byte was read, or the write stops short.
ExecuteError(id) ==
  /\ id \in begun
  /\ \E k \in chunkByID[id].first..chunkByID[id].last :
       dst' = dst \cup {u \in Readable(id) : u[2] < k}
  /\ Outcome(id, "err")

\* A worker cannot be set up: it says so, and from then on may discard chunks.
SetupFails ==
  /\ queue # {}
  /\ setupError = "none"
  /\ setupError' = "sent"
  /\ UNCHANGED <<workersFrame, dst, queue, begun, outcomes>>

\* Slip: the drain reaches chunks that other workers are copying.
DiscardAny(id) ==
  /\ id \in queue
  /\ setupError # "none"
  /\ queue' = queue \ {id}
  /\ UNCHANGED <<workersFrame, dst, begun, outcomes, setupError>>

Discard(id) ==
  /\ id \in queue \ begun
  /\ setupError # "none"
  /\ queue' = queue \ {id}
  /\ UNCHANGED <<workersFrame, dst, begun, outcomes, setupError>>

----------------------------------------------------------------------------
(* The loop over the results, with markChunk *)

NewState(o) == IF o[2] = "ok" THEN "done" ELSE "failed"

Length(id) == chunkByID[id].last - chunkByID[id].first + 1

\* Slip: a chunk is counted however it ended.
CountedAlways(o) == [reported EXCEPT ![FileOf(o[1])] = @ + Length(o[1])]

\* LogReporter.Update: only a chunk that was transferred has bytes to count.
Counted(o) ==
  [reported EXCEPT ![FileOf(o[1])] =
     IF o[2] = "ok" THEN @ + Length(o[1]) ELSE @]

\* Slip: the last result decides whether the transfer was partial.
ReceiveLast(o) ==
  /\ phase = "results"
  /\ o \in outcomes
  /\ outcomes' = outcomes \ {o}
  /\ partial' = (o[2] = "err")
  /\ reported' = Counted(o)
  /\ chunkByID' = [chunkByID EXCEPT ![o[1]].state = NewState(o)]
  /\ UNCHANGED <<world, command, pending, file, queue, begun, setupError,
                 cancelled, exit>>

\* What RunTransfer does with a result before it touches the checkpoint.
Receive(o) ==
  /\ phase = "results"
  /\ o \in outcomes
  /\ outcomes' = outcomes \ {o}
  /\ partial' = (partial \/ o[2] = "err")
  /\ reported' = Counted(o)
  /\ chunkByID' = [chunkByID EXCEPT ![o[1]].state = NewState(o)]
  /\ UNCHANGED <<world, command, pending, file, queue, begun, setupError,
                 cancelled, exit>>

ReceiveUnrecorded(o) ==
  /\ Receive(o)
  /\ ~CheckpointOn
  /\ UNCHANGED <<checkpoint, phase, payload, fatal>>

\* UpdateChunk: Load, then the Save of the list with the new entry.
Record(o) ==
  /\ Receive(o)
  /\ CheckpointOn
  /\ Loadable
  /\ payload' = Updated(disk.chunks, o[1], chunkByID'[o[1]])
  /\ SaveOpen
  /\ phase' = "markSave"
  /\ UNCHANGED <<everDone, fatal>>

RecordError(o) ==
  /\ Receive(o)
  /\ CheckpointOn
  /\ SaveOpenError
  /\ fatal' = TRUE
  /\ UNCHANGED <<everDone, phase, payload>>

recordFrame == <<world, command, plan, file, schedule, cancelled, reported,
                 partial, exit>>

RecordWrite ==
  /\ phase = "markSave"
  /\ SaveWrite(payload)
  /\ everDone' = everDone \cup DoneUnits(payload)
  /\ phase' = "results"
  /\ payload' = NoChunks
  /\ UNCHANGED <<recordFrame, fatal>>

RecordWriteError ==
  /\ phase = "markSave"
  /\ SaveWriteError(payload)
  /\ everDone' = IF disk' = Torn THEN everDone
                                 ELSE everDone \cup DoneUnits(payload)
  /\ phase' = "results"
  /\ payload' = NoChunks
  /\ fatal' = TRUE
  /\ UNCHANGED recordFrame

ReceiveSetupError ==
  /\ phase = "results"
  /\ setupError = "sent"
  /\ setupError' = "received"
  /\ fatal' = TRUE
  /\ UNCHANGED <<checkpoint, world, command, phase, plan, file, queue, begun,
                 outcomes, payload, cancelled, reported, partial, exit>>

\* Slip: the loop waits for every chunk of the file to be done.
ResultsEndWhenDone ==
  /\ phase = "results"
  /\ \A id \in pending : FileOf(id) = file => chunkByID[id].state = "done"
  /\ setupError' = "none"
  /\ phase' = "next"
  /\ UNCHANGED <<checkpoint, world, command, plan, file, queue, begun,
                 outcomes, payload, cancelled, flags, exit>>

\* The results channel is closed and empty.
ResultsEnd ==
  /\ phase = "results"
  /\ queue = {}
  /\ outcomes = {}
  /\ setupError # "sent"
  /\ setupError' = "none"
  /\ phase' = "next"
  /\ UNCHANGED <<checkpoint, world, command, plan, file, queue, begun,
                 outcomes, payload, cancelled, flags, exit>>

----------------------------------------------------------------------------

Worker(id) ==
  \/ PassCheck(id) \/ ExecuteStopped(id) \/ Execute(id) \/ ExecuteError(id)
  \/ Discard(id)

Results ==
  \/ \E o \in outcomes : ReceiveUnrecorded(o) \/ Record(o) \/ RecordError(o)
  \/ RecordWrite \/ RecordWriteError
  \/ ReceiveSetupError
  \/ ResultsEnd

Main ==
  \/ ResumeLoad \/ ResumeLoadError \/ CreateOpen \/ CreateWrite \/ CreateError
  \/ DryRun \/ Begin \/ ReloadError \/ NextFile \/ Finish
  \/ Results

\* Another program truncates a source file.
Shrink(f) ==
  /\ srcSize[f] > 0
  /\ srcSize' = [srcSize EXCEPT ![f] = @ - 1]
  /\ UNCHANGED <<checkpoint, dst, command, phase, plan, file, schedule,
                 payload, cancelled, flags, exit>>

Stop == ~Running /\ starts = MaxStarts /\ UNCHANGED vars

Next ==
  \/ \E o \in Options : Start(o)
  \/ Interrupt
  \/ Crash
  \/ Main
  \/ \E id \in queue : Worker(id)
  \/ SetupFails
  \/ Stop

Spec == Init /\ [][Next]_vars

\* The same with sources that do not stay as they were resolved.
ShrinkSpec == Init /\ [][Next \/ \E f \in Files : Shrink(f)]_vars

\* The main goroutine and the workers run; Execute returns.
FairSpec ==
  /\ Spec
  /\ WF_vars(Main)
  /\ WF_vars(\E id \in queue : Worker(id))

----------------------------------------------------------------------------
(* Properties *)

TypeOK ==
  /\ disk.kind \in {"missing", "torn", "saved"}
  /\ DOMAIN disk.chunks \subseteq ChunkIDs
  /\ \A id \in DOMAIN disk.chunks : disk.chunks[id] \in Chunk
  /\ dst \subseteq Units
  /\ \A f \in Files : srcSize[f] \in 0..FileSize[f]
  /\ everDone \subseteq Units
  /\ starts \in 0..MaxStarts
  /\ phase \in Phases
  /\ opts \in Options \cup {NoOptions}
  /\ DOMAIN chunkByID \subseteq ChunkIDs
  /\ \A id \in DOMAIN chunkByID : chunkByID[id] \in Chunk
  /\ pending \subseteq DOMAIN chunkByID
  /\ file \in Files \cup {0}
  /\ begun \subseteq queue
  /\ queue \subseteq pending
  /\ outcomes \subseteq ChunkIDs \X {"ok", "err"}
  /\ setupError \in {"none", "sent", "received"}
  /\ DOMAIN payload \subseteq ChunkIDs
  /\ \A id \in DOMAIN payload : payload[id] \in Chunk
  /\ reported \in [Files -> Nat]
  /\ {cancelled, partial, fatal} \subseteq BOOLEAN
  /\ exit \in {NoExit, 0, 1, 2}

\* The resumed run leaves alone what any earlier checkpoint called done.
DoneIsNotResent ==
  opts.resume => \A id \in queue : UnitsOf(id) \cap everDone = {}

\* The plan of the invocation that just ended, which transferred its files.
Transferred == phase = "exited" /\ ~opts.dryRun /\ exit \in {0, 1}
Planned == PlanIDs(opts.chunkSize)

\* Exit codes of docs/COMPATIBILITY.md:99: 0 says that every file is complete.
ExitZeroIsComplete == Transferred /\ exit = 0 => dst = Units

\* An invocation that ends without a fatal error leaves a checkpoint in which
\* no planned chunk is pending any more, cancelled ones included, and exit
\* code 1 rather than 0 says that one of them failed.
ExitMatchesCheckpoint ==
  Transferred /\ CheckpointOn =>
    /\ Loadable
    /\ \A id \in Planned : disk.chunks[id].state \in {"done", "failed"}
    /\ exit = 1 <=> \E id \in Planned : disk.chunks[id].state = "failed"

\* The progress of a file never runs ahead of its destination: what LogReporter
\* has counted (reporter.go:261) is there, and is counted once.
ReportIsTrue ==
  \A f \in Files : reported[f] <= Cardinality({u \in dst : u[1] = f})

\* A chunk reported as transferred is there to its last unit: a short read is
\* a failure of the chunk (ARCHITECTURE.md:419).
OkIsWhole == \A o \in outcomes : o[2] = "ok" => UnitsOf(o[1]) \subseteq dst

\* Every invocation comes to its end or is killed.
EveryRunEnds == Running ~> ~Running

\* RunTransfer, its checkpoint and its crashes keep the promises of
\* ResumableCopy: chunks saved as done are never forgotten, and 0 is answered
\* only for a complete copy.
Promise == INSTANCE ResumableCopy WITH
  copied <- dst,
  readable <- Loadable,
  record <- DoneUnits(disk.chunks),
  kept <- everDone,
  answer <- IF phase = "exited" /\ ~opts.dryRun THEN exit ELSE NoExit,
  NoAnswer <- NoExit

ImplementsResumableCopy == Promise!Spec

=============================================================================
