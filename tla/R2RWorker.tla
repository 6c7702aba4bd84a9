----------------------------- MODULE R2RWorker -----------------------------
(***************************************************************************)
(* R2RTransferWorker.Execute (pkg/transfer/r2r_worker.go): the chunks of   *)
(* one file are relayed from a source host to a destination host, each by  *)
(* an Execute of its own, any number of them at a time, as the goroutines  *)
(* of a Schedule call run them.                                            *)
(*                                                                         *)
(* The file is cut into NumChunks chunks of ChunkLen units.  Handles and   *)
(* their positions belong to one Execute; the two files are shared.  What  *)
(* the SFTP servers do with a call is external: Create truncates, a write  *)
(* beyond the end extends the file.                                        *)
(***************************************************************************)
EXTENDS Naturals

CONSTANTS NumChunks,      \* the chunks of the file
          ChunkLen,       \* chunk.Length, in units
          MaxBuffer,      \* maxR2RBufferSize, in units
          SourceMayShrink \* another program may cut the source file

ASSUME R2RAssumption ==
  /\ {NumChunks, ChunkLen, MaxBuffer} \subseteq Nat \ {0}
  /\ SourceMayShrink \in BOOLEAN

Chunks == 1..NumChunks
FileLen == NumChunks * ChunkLen

VARIABLES
  srcLen,       \* the length of the source file now
  dst,          \* the destination file: which unit of the source is where
  cancelled,    \* ctx is cancelled
  pc,           \* where the Execute of each chunk is
  srcPos,       \* units before the source handle's position
  dstPos,       \* units before the destination handle's position
  remaining,    \* of the chunk, in units
  buffered,     \* nr, the units read and not yet written
  lastCreate,   \* history: the chunk whose Create came last
  late          \* history: writes of each chunk after the cancellation

files == <<srcLen, dst>>
handles == <<srcPos, dstPos>>
history == <<lastCreate, late>>
vars == <<files, cancelled, pc, handles, remaining, buffered, history>>

NoFile == [p \in {} |-> 0]
NoChunk == 0
Lower(a, b) == IF a < b THEN a ELSE b

Offset(c) == (c - 1) * ChunkLen
Range(c) == Offset(c) + 1 .. Offset(c) + ChunkLen

Init ==
  /\ srcLen = FileLen
  /\ dst = NoFile
  /\ cancelled = FALSE
  /\ pc = [c \in Chunks |-> "start"]
  /\ srcPos = [c \in Chunks |-> 0]
  /\ dstPos = [c \in Chunks |-> 0]
  /\ remaining = [c \in Chunks |-> ChunkLen]
  /\ buffered = [c \in Chunks |-> 0]
  /\ lastCreate = NoChunk
  /\ late = [c \in Chunks |-> 0]

----------------------------------------------------------------------------
(* Execute *)

\* Slip: ctx is passed along and never tested.
CtxIgnored == FALSE

\* ctx.Err() # nil
CtxDone == cancelled

Goto(c, from, to) == pc[c] = from /\ pc' = [pc EXCEPT ![c] = to]

Start(c) ==
  /\ Goto(c, "start", IF CtxDone THEN "err" ELSE "open")
  /\ UNCHANGED <<files, cancelled, handles, remaining, buffered, history>>

OpenSource(c) ==
  /\ \/ Goto(c, "open", "create")
     \/ Goto(c, "open", "err")
  /\ UNCHANGED <<files, cancelled, handles, remaining, buffered, history>>

CreateDestination(c) ==
  /\ Goto(c, "create", "seekSource")
  /\ dst' = NoFile
  /\ lastCreate' = c
  /\ UNCHANGED <<srcLen, cancelled, handles, remaining, buffered, late>>

CreateError(c) ==
  /\ Goto(c, "create", "err")
  /\ UNCHANGED <<files, cancelled, handles, remaining, buffered, history>>

\* A handle that cannot seek is read up to the offset instead.
SeekSource(c) ==
  /\ Goto(c, "seekSource", "seekDestination")
  /\ srcPos' = [srcPos EXCEPT ![c] = Offset(c)]
  /\ UNCHANGED <<files, cancelled, dstPos, remaining, buffered, history>>

\* Slip: the destination stays where Create left it.
SeekDestinationSkipped(c) ==
  /\ Goto(c, "seekDestination", "loop")
  /\ UNCHANGED <<files, cancelled, handles, remaining, buffered, history>>

SeekDestination(c) ==
  /\ Goto(c, "seekDestination", "loop")
  /\ dstPos' = [dstPos EXCEPT ![c] = Offset(c)]
  /\ UNCHANGED <<files, cancelled, srcPos, remaining, buffered, history>>

\* There is nothing to seek for the first chunk.
SeekError(c) ==
  /\ Offset(c) > 0
  /\ \/ Goto(c, "seekSource", "err")
     \/ Goto(c, "seekDestination", "err")
  /\ UNCHANGED <<files, cancelled, handles, remaining, buffered, history>>

Loop(c) ==
  /\ Goto(c, "loop", IF remaining[c] = 0 THEN "ok"
                     ELSE IF CtxDone THEN "err" ELSE "read")
  /\ UNCHANGED <<files, cancelled, handles, remaining, buffered, history>>

BufferLen == Lower(ChunkLen, MaxBuffer)

\* Slip: the buffer is filled whatever remains of the chunk.
ToReadWholeBuffer(c) == BufferLen

ToRead(c) == Lower(BufferLen, remaining[c])

\* Some units are read, and ctx is tested again before they are written.
Read(c) ==
  /\ \E nr \in 1..ToRead(c) :
       /\ srcPos[c] + nr <= srcLen
       /\ buffered' = [buffered EXCEPT ![c] = nr]
       /\ srcPos' = [srcPos EXCEPT ![c] = @ + nr]
  /\ Goto(c, "read", IF CtxDone THEN "err" ELSE "write")
  /\ UNCHANGED <<files, cancelled, dstPos, remaining, history>>

\* Slip: the end of the source ends the copy as in io.Copy.
ReadEndAccepted(c) ==
  /\ \/ srcPos[c] >= srcLen /\ Goto(c, "read", "ok")
     \/ Goto(c, "read", "err")
  /\ UNCHANGED <<files, cancelled, handles, remaining, buffered, history>>

\* Slip: an empty read is tried again.
ReadEndRetried(c) ==
  /\ \/ srcPos[c] >= srcLen /\ Goto(c, "read", "loop")
     \/ srcPos[c] < srcLen /\ Goto(c, "read", "err")
  /\ UNCHANGED <<files, cancelled, handles, remaining, buffered, history>>

\* The read fails, or returns nothing: at the end of the source, too.
ReadError(c) ==
  /\ Goto(c, "read", "err")
  /\ UNCHANGED <<files, cancelled, handles, remaining, buffered, history>>

\* n buffered units reach the file at the destination handle's position.
Stored(c, n) ==
  LET new == dstPos[c] + 1 .. dstPos[c] + n
      from == srcPos[c] - buffered[c]
  IN  [p \in DOMAIN dst \cup new |->
         IF p \in new THEN from + (p - dstPos[c]) ELSE dst[p]]

WriteUnits(c, n) ==
  /\ dst' = Stored(c, n)
  /\ dstPos' = [dstPos EXCEPT ![c] = @ + n]
  /\ buffered' = [buffered EXCEPT ![c] = 0]
  /\ late' = IF cancelled THEN [late EXCEPT ![c] = @ + 1] ELSE late
  /\ UNCHANGED <<srcLen, cancelled, srcPos, lastCreate>>

Write(c) ==
  /\ Goto(c, "write", "loop")
  /\ WriteUnits(c, buffered[c])
  /\ remaining' = [remaining EXCEPT ![c] = @ - buffered[c]]

\* The write fails, possibly after some units, or is short.
WriteError(c) ==
  /\ Goto(c, "write", "err")
  /\ \E n \in 0..buffered[c] : WriteUnits(c, n)
  /\ UNCHANGED remaining

Execute(c) ==
  \/ Start(c) \/ OpenSource(c) \/ CreateDestination(c) \/ CreateError(c)
  \/ SeekSource(c) \/ SeekDestination(c) \/ SeekError(c)
  \/ Loop(c) \/ Read(c) \/ ReadError(c) \/ Write(c) \/ WriteError(c)

----------------------------------------------------------------------------

Cancel ==
  /\ ~cancelled
  /\ cancelled' = TRUE
  /\ UNCHANGED <<files, pc, handles, remaining, buffered, history>>

Shrink ==
  /\ SourceMayShrink
  /\ srcLen > 0
  /\ srcLen' = srcLen - 1
  /\ UNCHANGED <<dst, cancelled, pc, handles, remaining, buffered, history>>

Ended(c) == pc[c] \in {"ok", "err"}
Terminated == (\A c \in Chunks : Ended(c)) /\ UNCHANGED vars

Next ==
  \/ \E c \in Chunks : Execute(c)
  \/ Cancel
  \/ Shrink
  \/ Terminated

Spec == Init /\ [][Next]_vars

\* The goroutines run, and the servers answer every call.
FairSpec == Spec /\ \A c \in Chunks : WF_vars(Execute(c))

----------------------------------------------------------------------------
(* Properties *)

\* In particular, remaining never goes below zero, where uint64 would wrap.
TypeOK ==
  /\ srcLen \in 0..FileLen
  /\ DOMAIN dst \subseteq 1..FileLen
  /\ \A p \in DOMAIN dst : dst[p] \in 1..FileLen
  /\ cancelled \in BOOLEAN
  /\ pc \in [Chunks -> {"start", "open", "create", "seekSource",
                        "seekDestination", "loop", "read", "write", "ok",
                        "err"}]
  /\ srcPos \in [Chunks -> 0..FileLen]
  /\ dstPos \in [Chunks -> 0..FileLen]
  /\ remaining \in [Chunks -> 0..ChunkLen]
  /\ buffered \in [Chunks -> 0..ChunkLen]
  /\ lastCreate \in Chunks \cup {NoChunk}
  /\ late \in [Chunks -> Nat]

\* Whatever is at the destination is in its place: through partial reads and
\* any interleaving, the two handles of an Execute move in step and no write
\* leaves its chunk.
RelayInPlace == \A p \in DOMAIN dst : dst[p] = p

\* The chunk whose Create came last is there to its last unit once its Execute
\* has returned nil, even if the source was cut meanwhile.
LastCreatedIsWhole ==
  lastCreate # NoChunk /\ pc[lastCreate] = "ok" =>
    Range(lastCreate) \subseteq DOMAIN dst

\* After the interrupt an Execute finishes at most the write it is in.
OneWriteAfterCancel == \A c \in Chunks : late[c] <= 1

\* Every Execute returns.
EveryExecuteEnds == \A c \in Chunks : <>Ended(c)

\* ARCHITECTURE.md:398: "Chunking/checkpointing works exactly as other
\* directions": a chunk that was transferred stays transferred.
OkIsThere ==
  \A c \in Chunks : pc[c] = "ok" => Range(c) \subseteq DOMAIN dst

=============================================================================
