----------------------------- MODULE R2RProofs -----------------------------
(***************************************************************************)
(* Theorems about R2RWorker, for any number of chunks of any length, any   *)
(* buffer, any interleaving of the Executes, with a source that may be cut *)
(* meanwhile and a cancellation at any moment.                             *)
(***************************************************************************)
EXTENDS R2RWorker, TLAPS

(* How the two handles of an Execute stand to what remains of its chunk. *)
Written(c) == Offset(c) + (ChunkLen - remaining[c])
Stage(c) ==
  /\ pc[c] \in {"start", "open", "create", "seekSource", "seekDestination"} =>
       dstPos[c] = 0 /\ remaining[c] = ChunkLen /\ buffered[c] = 0
  /\ pc[c] = "seekDestination" => srcPos[c] = Offset(c)
  /\ pc[c] \in {"loop", "read", "write", "ok"} =>
       dstPos[c] = Written(c) /\ srcPos[c] = dstPos[c] + buffered[c]
  /\ pc[c] \in {"loop", "read", "ok"} => buffered[c] = 0
  /\ pc[c] = "read" => remaining[c] > 0
  /\ pc[c] = "write" => buffered[c] \in 1..remaining[c]
  /\ pc[c] = "ok" => remaining[c] = 0

InStep == TypeOK /\ RelayInPlace /\ \A c \in Chunks : Stage(c)

(* The chunk whose Create came last is there as far as its handle went. *)
Behind(c) ==
  lastCreate = c /\ pc[c] \in {"loop", "read", "write", "ok"} =>
    Offset(c) + 1 .. dstPos[c] \subseteq DOMAIN dst

(* After a write that followed the cancellation, there is no way to another. *)
LateOnce(c) ==
  late[c] = 0 \/ (late[c] = 1 /\ cancelled /\ pc[c] \in {"loop", "ok", "err"})

-----------------------------------------------------------------------------

\* A chunk lies in its file.
LEMMA OffsetFacts ==
  ASSUME NEW c \in Chunks
  PROVE  /\ Offset(c) \in Nat /\ FileLen \in Nat /\ ChunkLen \in Nat \ {0}
         /\ Offset(c) + ChunkLen <= FileLen
<1> DEFINE k == c - 1
           d == NumChunks - c
           x == k * ChunkLen
           y == d * ChunkLen
<1>1. /\ ChunkLen \in Nat \ {0} /\ k \in Nat /\ d \in Nat
      /\ NumChunks = (k + 1) + d
  BY R2RAssumption DEF Chunks
<1>2. x \in Nat /\ y \in Nat
  BY <1>1
<1>3. ((k + 1) + d) * ChunkLen = (x + ChunkLen) + y
  BY <1>1
<1>4. FileLen = (x + ChunkLen) + y /\ Offset(c) = x
  BY <1>1, <1>3 DEF FileLen, Offset
<1> HIDE DEF x, y, k, d
<1> QED
  BY <1>1, <1>2, <1>4

\* The buffer is not empty, and no read asks for more than is missing.
LEMMA ToReadFacts ==
  ASSUME TypeOK, NEW c \in Chunks, NEW nr \in 1..ToRead(c)
  PROVE  nr \in Nat \ {0} /\ nr <= remaining[c] /\ nr <= ChunkLen
<1>1. remaining[c] \in Nat /\ ChunkLen \in Nat /\ MaxBuffer \in Nat
  BY R2RAssumption DEF TypeOK
<1> QED
  BY <1>1 DEF ToRead, BufferLen, Lower

\* What a write leaves at the destination.
LEMMA StoredFacts ==
  ASSUME InStep, NEW c \in Chunks, pc[c] = "write", NEW n \in 0..buffered[c]
  PROVE  /\ DOMAIN Stored(c, n) = DOMAIN dst \cup (dstPos[c] + 1..dstPos[c] + n)
         /\ DOMAIN Stored(c, n) \subseteq 1..FileLen
         /\ \A p \in DOMAIN Stored(c, n) : Stored(c, n)[p] = p
         /\ n \in Nat /\ n <= remaining[c]
         /\ dstPos[c] + n \in 0..FileLen
<1>1. /\ dstPos[c] \in Nat /\ srcPos[c] \in Nat /\ buffered[c] \in Nat
      /\ remaining[c] \in Nat /\ remaining[c] <= ChunkLen
      /\ DOMAIN dst \subseteq 1..FileLen
      /\ \A p \in DOMAIN dst : dst[p] = p
  BY OffsetFacts DEF InStep, TypeOK, RelayInPlace
<1>2. /\ dstPos[c] = Offset(c) + (ChunkLen - remaining[c])
      /\ srcPos[c] = dstPos[c] + buffered[c] /\ buffered[c] <= remaining[c]
  BY DEF InStep, Stage, Written
<1>3. /\ n \in Nat /\ n <= remaining[c] /\ dstPos[c] + n <= FileLen
      /\ FileLen \in Nat
  BY <1>1, <1>2, OffsetFacts
<1>4. srcPos[c] - buffered[c] = dstPos[c]
  BY <1>1, <1>2
<1> DEFINE new == dstPos[c] + 1..dstPos[c] + n
<1>5. Stored(c, n) = [p \in DOMAIN dst \cup new |->
                        IF p \in new THEN dstPos[c] + (p - dstPos[c])
                        ELSE dst[p]]
  BY <1>4 DEF Stored
<1>6. new \subseteq 1..FileLen /\ \A p \in new : dstPos[c] + (p - dstPos[c]) = p
  BY <1>1, <1>3
<1> HIDE DEF new
<1>7. /\ DOMAIN Stored(c, n) = DOMAIN dst \cup new
      /\ \A p \in DOMAIN Stored(c, n) : Stored(c, n)[p] = p
  BY <1>1, <1>5, <1>6
<1> QED
  BY <1>1, <1>3, <1>6, <1>7 DEF new

\* A step of one Execute leaves the state of the others alone.
LEMMA OthersKeep ==
  ASSUME TypeOK, NEW c \in Chunks, Execute(c)
  PROVE  /\ UNCHANGED <<srcLen, cancelled>>
         /\ \A d \in Chunks \ {c} :
              UNCHANGED <<pc[d], srcPos[d], dstPos[d], remaining[d],
                          buffered[d], late[d]>>
<1>1. CASE Start(c) \/ OpenSource(c) \/ CreateError(c) \/ SeekError(c)
           \/ Loop(c) \/ ReadError(c)
  BY <1>1 DEF TypeOK, Start, OpenSource, CreateError, SeekError, Loop,
              ReadError, Goto, files, handles, history
<1>2. CASE CreateDestination(c) \/ SeekSource(c) \/ SeekDestination(c)
  BY <1>2 DEF TypeOK, CreateDestination, SeekSource, SeekDestination, Goto,
              files, handles, history
<1>3. CASE Read(c)
  BY <1>3 DEF TypeOK, Read, Goto, files, handles, history
<1>4. CASE Write(c) \/ WriteError(c)
  BY <1>4 DEF TypeOK, Write, WriteError, WriteUnits, Goto, files, handles
<1> QED
  BY <1>1, <1>2, <1>3, <1>4 DEF Execute

\* The stage of an Execute hangs on its own state alone.
LEMMA StageOfOthers ==
  ASSUME InStep, NEW c \in Chunks, Execute(c), Stage(c)'
  PROVE  \A d \in Chunks : Stage(d)'
<1>1. \A d \in Chunks \ {c} :
        UNCHANGED <<pc[d], srcPos[d], dstPos[d], remaining[d], buffered[d]>>
  BY OthersKeep DEF InStep
<1>2. \A d \in Chunks \ {c} : Stage(d)'
  BY <1>1 DEF InStep, Stage, Written
<1> QED
  BY <1>2

\* Initially no Execute has done anything.
LEMMA InStepInit == Init => InStep
<1> SUFFICES ASSUME Init PROVE InStep
  OBVIOUS
<1>1. FileLen \in Nat /\ ChunkLen \in Nat
  BY R2RAssumption DEF FileLen
<1>2. TypeOK
  <2>1. 0 \in 0..FileLen /\ FileLen \in 0..FileLen /\ 0 \in 0..ChunkLen
        /\ ChunkLen \in 0..ChunkLen
    BY <1>1
  <2>2. /\ srcLen \in 0..FileLen
        /\ DOMAIN dst = {}
        /\ cancelled \in BOOLEAN
        /\ lastCreate \in Chunks \cup {NoChunk}
    BY <2>1 DEF Init, NoFile
  <2>3. /\ srcPos \in [Chunks -> 0..FileLen]
        /\ dstPos \in [Chunks -> 0..FileLen]
        /\ remaining \in [Chunks -> 0..ChunkLen]
        /\ buffered \in [Chunks -> 0..ChunkLen]
        /\ late \in [Chunks -> Nat]
    BY <2>1 DEF Init
  <2>4. pc \in [Chunks -> {"start", "open", "create", "seekSource",
                           "seekDestination", "loop", "read", "write", "ok",
                           "err"}]
    BY DEF Init
  <2> QED
    BY <2>2, <2>3, <2>4 DEF TypeOK
<1>3. RelayInPlace
  BY DEF Init, RelayInPlace, NoFile
<1>4. \A c \in Chunks : Stage(c)
  BY DEF Init, Stage
<1> QED
  BY <1>2, <1>3, <1>4 DEF InStep

\* An Execute keeps the types, its two handles in step and every unit in place.
LEMMA ExecuteInStep ==
  ASSUME InStep, NEW c \in Chunks, Execute(c)
  PROVE  InStep'
<1> USE DEF InStep
<1>1. /\ Offset(c) \in Nat /\ ChunkLen \in Nat \ {0} /\ FileLen \in Nat
      /\ Offset(c) + ChunkLen <= FileLen
  BY OffsetFacts
<1>2. ASSUME RelayInPlace', TypeOK', Stage(c)'
      PROVE  InStep'
  BY <1>2, StageOfOthers
<1>3. ASSUME NEW from, NEW to, Goto(c, from, to),
             to \in {"open", "create", "seekDestination", "seekSource", "loop",
                     "read", "write", "ok", "err"}
      PROVE  /\ pc' \in [Chunks -> {"start", "open", "create", "seekSource",
                                    "seekDestination", "loop", "read", "write",
                                    "ok", "err"}]
             /\ pc[c] = from /\ pc'[c] = to
  BY <1>3 DEF Goto, TypeOK
<1>4. CASE Start(c) \/ OpenSource(c) \/ CreateError(c) \/ SeekError(c)
           \/ ReadError(c)
  <2>1. PICK from, to : /\ Goto(c, from, to)
                        /\ to \in {"err", "open", "create"}
                        /\ to = "create" => from \in {"start", "open"}
                        /\ to = "open" => from \in {"start", "open"}
    BY <1>4 DEF Start, OpenSource, CreateError, SeekError, ReadError
  <2>2. UNCHANGED <<files, cancelled, handles, remaining, buffered, history>>
    BY <1>4 DEF Start, OpenSource, CreateError, SeekError, ReadError
  <2>3. /\ pc[c] = from /\ pc'[c] = to
        /\ pc' \in [Chunks -> {"start", "open", "create", "seekSource",
                               "seekDestination", "loop", "read", "write",
                               "ok", "err"}]
    BY <1>3, <2>1
  <2>4. TypeOK' /\ RelayInPlace'
    BY <2>2, <2>3 DEF TypeOK, RelayInPlace, files, handles, history
  <2>5. Stage(c)'
    BY <2>1, <2>2, <2>3 DEF Stage, handles
  <2> QED
    BY <1>2, <2>4, <2>5
<1>5. CASE Loop(c)
  <2>1. UNCHANGED <<files, cancelled, handles, remaining, buffered, history>>
    BY <1>5 DEF Loop
  <2>2. PICK to \in {"ok", "err", "read"} :
          /\ Goto(c, "loop", to)
          /\ to = "ok" => remaining[c] = 0
          /\ to = "read" => remaining[c] # 0
    BY <1>5 DEF Loop
  <2>3. /\ pc[c] = "loop" /\ pc'[c] = to
        /\ pc' \in [Chunks -> {"start", "open", "create", "seekSource",
                               "seekDestination", "loop", "read", "write",
                               "ok", "err"}]
    BY <1>3, <2>2
  <2>4. TypeOK' /\ RelayInPlace'
    BY <2>1, <2>3 DEF TypeOK, RelayInPlace, files, handles, history
  <2>5. remaining[c] \in Nat
    BY R2RAssumption DEF TypeOK
  <2>6. Stage(c)'
    BY <2>1, <2>2, <2>3, <2>5 DEF Stage, Written, handles
  <2> QED
    BY <1>2, <2>4, <2>6
<1>6. CASE CreateDestination(c)
  <2>1. /\ dst' = NoFile /\ lastCreate' = c
        /\ UNCHANGED <<srcLen, cancelled, handles, remaining, buffered, late>>
    BY <1>6 DEF CreateDestination
  <2>2. /\ pc[c] = "create" /\ pc'[c] = "seekSource"
        /\ pc' \in [Chunks -> {"start", "open", "create", "seekSource",
                               "seekDestination", "loop", "read", "write",
                               "ok", "err"}]
    BY <1>3, <1>6 DEF CreateDestination
  <2>3. TypeOK' /\ RelayInPlace'
    BY <2>1, <2>2 DEF TypeOK, RelayInPlace, NoFile, handles
  <2>4. Stage(c)'
    BY <2>1, <2>2 DEF Stage, handles
  <2> QED
    BY <1>2, <2>3, <2>4
<1>7. CASE SeekSource(c)
  <2>1. /\ srcPos' = [srcPos EXCEPT ![c] = Offset(c)]
        /\ UNCHANGED <<files, cancelled, dstPos, remaining, buffered, history>>
    BY <1>7 DEF SeekSource
  <2>2. /\ pc[c] = "seekSource" /\ pc'[c] = "seekDestination"
        /\ pc' \in [Chunks -> {"start", "open", "create", "seekSource",
                               "seekDestination", "loop", "read", "write",
                               "ok", "err"}]
    BY <1>3, <1>7 DEF SeekSource
  <2>3. srcPos' \in [Chunks -> 0..FileLen] /\ srcPos'[c] = Offset(c)
    BY <1>1, <2>1 DEF TypeOK
  <2>4. TypeOK' /\ RelayInPlace'
    BY <2>1, <2>2, <2>3 DEF TypeOK, RelayInPlace, files, history
  <2>5. Stage(c)'
    BY <2>1, <2>2, <2>3 DEF Stage
  <2> QED
    BY <1>2, <2>4, <2>5
<1>8. CASE SeekDestination(c)
  <2>1. /\ dstPos' = [dstPos EXCEPT ![c] = Offset(c)]
        /\ UNCHANGED <<files, cancelled, srcPos, remaining, buffered, history>>
    BY <1>8 DEF SeekDestination
  <2>2. /\ pc[c] = "seekDestination" /\ pc'[c] = "loop"
        /\ pc' \in [Chunks -> {"start", "open", "create", "seekSource",
                               "seekDestination", "loop", "read", "write",
                               "ok", "err"}]
    BY <1>3, <1>8 DEF SeekDestination
  <2>3. dstPos' \in [Chunks -> 0..FileLen] /\ dstPos'[c] = Offset(c)
    BY <1>1, <2>1 DEF TypeOK
  <2>4. TypeOK' /\ RelayInPlace'
    BY <2>1, <2>2, <2>3 DEF TypeOK, RelayInPlace, files, history
  <2>5. Stage(c)'
    BY <1>1, <2>1, <2>2, <2>3 DEF Stage, Written
  <2> QED
    BY <1>2, <2>4, <2>5
<1>9. CASE Read(c)
  <2>1. PICK nr \in 1..ToRead(c) :
          /\ srcPos[c] + nr <= srcLen
          /\ buffered' = [buffered EXCEPT ![c] = nr]
          /\ srcPos' = [srcPos EXCEPT ![c] = @ + nr]
    BY <1>9 DEF Read
  <2>2. PICK to \in {"err", "write"} : Goto(c, "read", to)
    BY <1>9 DEF Read
  <2>3. UNCHANGED <<files, cancelled, dstPos, remaining, history>>
    BY <1>9 DEF Read
  <2>4. /\ pc[c] = "read" /\ pc'[c] = to
        /\ pc' \in [Chunks -> {"start", "open", "create", "seekSource",
                               "seekDestination", "loop", "read", "write",
                               "ok", "err"}]
    BY <1>3, <2>2
  <2>5. nr \in Nat \ {0} /\ nr <= remaining[c] /\ nr <= ChunkLen
    BY ToReadFacts
  <2>6. /\ buffered' \in [Chunks -> 0..ChunkLen] /\ buffered'[c] = nr
        /\ srcPos' \in [Chunks -> 0..FileLen] /\ srcPos'[c] = srcPos[c] + nr
    BY <1>1, <2>1, <2>5 DEF TypeOK
  <2>7. TypeOK' /\ RelayInPlace'
    BY <2>3, <2>4, <2>6 DEF TypeOK, RelayInPlace, files, history
  <2>8. Stage(c)'
    <3>1. /\ dstPos[c] = Written(c) /\ srcPos[c] = dstPos[c] + buffered[c]
          /\ buffered[c] = 0
      BY <2>4 DEF Stage
    <3>2. Written(c)' = Written(c) /\ dstPos'[c] = dstPos[c]
          /\ remaining'[c] = remaining[c]
      BY <2>3 DEF Written
    <3>3. dstPos[c] \in Nat
      BY DEF TypeOK
    <3>4. srcPos'[c] = dstPos'[c] + buffered'[c]
      BY <2>5, <2>6, <3>1, <3>2, <3>3
    <3> QED
      BY <2>2, <2>4, <2>5, <2>6, <3>1, <3>2, <3>4 DEF Stage
  <2> QED
    BY <1>2, <2>7, <2>8
<1>10. CASE Write(c) \/ WriteError(c)
  <2>1. pc[c] = "write"
    BY <1>10 DEF Write, WriteError, Goto
  <2>2. buffered[c] \in Nat /\ buffered[c] \in 0..buffered[c]
    BY DEF TypeOK
  <2>3. PICK n \in 0..buffered[c] :
          /\ WriteUnits(c, n)
          /\ \/ /\ Goto(c, "write", "loop") /\ n = buffered[c]
                /\ remaining' = [remaining EXCEPT ![c] = @ - n]
             \/ Goto(c, "write", "err") /\ UNCHANGED remaining
    BY <1>10, <2>2 DEF Write, WriteError
  <2>4. /\ DOMAIN dst' \subseteq 1..FileLen
        /\ \A p \in DOMAIN dst' : dst'[p] = p
        /\ n \in Nat /\ n <= remaining[c] /\ dstPos[c] + n \in 0..FileLen
    BY <2>1, <2>3, StoredFacts DEF WriteUnits
  <2>5. /\ dstPos' \in [Chunks -> 0..FileLen] /\ dstPos'[c] = dstPos[c] + n
        /\ buffered' \in [Chunks -> 0..ChunkLen] /\ buffered'[c] = 0
    BY <1>1, <2>3, <2>4 DEF WriteUnits, TypeOK
  <2>6. late' \in [Chunks -> Nat]
    BY <2>3 DEF WriteUnits, TypeOK
  <2>7. UNCHANGED <<srcLen, cancelled, srcPos, lastCreate>>
    BY <2>3 DEF WriteUnits
  <2>8. /\ remaining' \in [Chunks -> 0..ChunkLen]
        /\ pc'[c] = "loop" =>
             n = buffered[c] /\ remaining'[c] = remaining[c] - n
    <3>1. remaining \in [Chunks -> 0..ChunkLen]
      BY DEF TypeOK
    <3>2. remaining[c] - n \in 0..ChunkLen
      BY <1>1, <2>4, <3>1
    <3>3. CASE /\ Goto(c, "write", "loop") /\ n = buffered[c]
               /\ remaining' = [remaining EXCEPT ![c] = @ - n]
      BY <3>1, <3>2, <3>3
    <3>4. CASE Goto(c, "write", "err") /\ UNCHANGED remaining
      BY <1>3, <3>1, <3>4
    <3> QED
      BY <2>3, <3>3, <3>4
  <2>9. /\ pc'[c] \in {"loop", "err"}
        /\ pc' \in [Chunks -> {"start", "open", "create", "seekSource",
                               "seekDestination", "loop", "read", "write",
                               "ok", "err"}]
    BY <1>3, <2>3
  <2>10. TypeOK'
    <3>1. \A p \in DOMAIN dst' : dst'[p] \in 1..FileLen
      BY <2>4
    <3> QED
      BY <2>4, <2>5, <2>6, <2>7, <2>8, <2>9, <3>1 DEF TypeOK
  <2>11. RelayInPlace'
    BY <2>4 DEF RelayInPlace
  <2>12. Stage(c)'
    <3>1. CASE pc'[c] = "err"
      BY <3>1 DEF Stage
    <3>2. CASE pc'[c] = "loop"
      <4>1. /\ dstPos[c] = Offset(c) + (ChunkLen - remaining[c])
            /\ srcPos[c] = dstPos[c] + buffered[c]
        BY <2>1 DEF Stage, Written
      <4>2. /\ dstPos[c] \in Nat /\ remaining[c] \in Nat
            /\ remaining'[c] = remaining[c] - n /\ n = buffered[c]
        BY <2>8, <3>2 DEF TypeOK
      <4>3. /\ dstPos'[c] = Offset(c) + (ChunkLen - remaining'[c])
            /\ srcPos'[c] = dstPos'[c] + buffered'[c]
        BY <1>1, <2>4, <2>5, <2>7, <4>1, <4>2
      <4> QED
        BY <2>5, <3>2, <4>3 DEF Stage, Written
    <3> QED
      BY <2>9, <3>1, <3>2
  <2> QED
    BY <1>2, <2>10, <2>11, <2>12
<1> QED
  BY <1>4, <1>5, <1>6, <1>7, <1>8, <1>9, <1>10 DEF Execute

\* So does every step.
LEMMA NextInStep == InStep /\ [Next]_vars => InStep'
<1> SUFFICES ASSUME InStep, [Next]_vars PROVE InStep'
  OBVIOUS
<1>1. ASSUME UNCHANGED <<dst, pc, handles, remaining, buffered, history>>,
             srcLen' \in 0..FileLen, cancelled' \in BOOLEAN
      PROVE  InStep'
  BY <1>1 DEF InStep, TypeOK, RelayInPlace, Stage, Written, handles, history
<1>2. ASSUME NEW c \in Chunks, Execute(c)
      PROVE  InStep'
  BY <1>2, ExecuteInStep
<1>3. CASE Cancel
  BY <1>1, <1>3 DEF Cancel, InStep, TypeOK, files
<1>4. CASE Shrink
  <2>1. srcLen \in 0..FileLen /\ FileLen \in Nat
    BY R2RAssumption DEF InStep, TypeOK, FileLen
  <2>2. srcLen' \in 0..FileLen
    BY <1>4, <2>1 DEF Shrink
  <2> QED
    BY <1>1, <1>4, <2>2 DEF Shrink, InStep, TypeOK
<1>5. CASE Terminated \/ UNCHANGED vars
  BY <1>1, <1>5 DEF Terminated, vars, files, InStep, TypeOK
<1> QED
  BY <1>2, <1>3, <1>4, <1>5 DEF Next

\* Types, and the two handles of every Execute in step.
THEOREM InStepAlways == Spec => []InStep
BY InStepInit, NextInStep, PTL DEF Spec

\* Every variable keeps its type: remaining never wraps around.
THEOREM TypeCorrect == Spec => []TypeOK
<1>1. InStep => TypeOK
  BY DEF InStep
<1> QED
  BY <1>1, InStepAlways, PTL

\* Whatever is at the destination is in its place.
THEOREM RelayInPlaceAlways == Spec => []RelayInPlace
<1>1. InStep => RelayInPlace
  BY DEF InStep
<1> QED
  BY <1>1, InStepAlways, PTL

\* At most one write follows the cancellation: an Execute tests ctx before it
\* reads and again before it writes.
LEMMA ExecuteLateOnce ==
  ASSUME InStep, \A d \in Chunks : LateOnce(d), NEW c \in Chunks, Execute(c)
  PROVE  \A d \in Chunks : LateOnce(d)'
<1>1. TypeOK
  BY DEF InStep
<1>2. \A d \in Chunks \ {c} : LateOnce(d)'
  BY <1>1, OthersKeep DEF LateOnce
<1>3. cancelled' = cancelled
  BY <1>1, OthersKeep
<1>4. LateOnce(c)
  OBVIOUS
<1>5. late[c] \in Nat /\ late \in [Chunks -> Nat]
  BY <1>1 DEF TypeOK
<1>6. CASE Write(c) \/ WriteError(c)
  <2>1. pc[c] = "write" /\ pc'[c] \in {"loop", "err"}
    BY <1>1, <1>6 DEF Write, WriteError, Goto, TypeOK
  <2>2. late' = IF cancelled THEN [late EXCEPT ![c] = @ + 1] ELSE late
    BY <1>6 DEF Write, WriteError, WriteUnits
  <2>3. late[c] = 0
    BY <1>4, <2>1 DEF LateOnce
  <2>4. LateOnce(c)'
    BY <1>3, <1>5, <2>1, <2>2, <2>3 DEF LateOnce
  <2> QED
    BY <1>2, <2>4
<1>7. CASE Loop(c)
  <2>1. late'[c] = late[c] /\ pc[c] = "loop"
    BY <1>7 DEF Loop, Goto, history
  <2>2. cancelled => pc'[c] \in {"ok", "err"}
    BY <1>1, <1>7 DEF Loop, Goto, CtxDone, TypeOK
  <2>3. LateOnce(c)'
    BY <1>3, <1>4, <2>1, <2>2 DEF LateOnce
  <2> QED
    BY <1>2, <2>3
<1>8. CASE \/ Start(c) \/ OpenSource(c) \/ CreateDestination(c)
           \/ CreateError(c) \/ SeekSource(c) \/ SeekDestination(c)
           \/ SeekError(c) \/ Read(c) \/ ReadError(c)
  <2>1. pc[c] \notin {"loop", "ok", "err"}
    BY <1>8 DEF Start, OpenSource, CreateDestination, CreateError, SeekSource,
                SeekDestination, SeekError, Read, ReadError, Goto
  <2>2. late' = late
    BY <1>8 DEF Start, OpenSource, CreateDestination, CreateError, SeekSource,
                SeekDestination, SeekError, Read, ReadError, history
  <2>3. LateOnce(c)'
    BY <1>4, <2>1, <2>2 DEF LateOnce
  <2> QED
    BY <1>2, <2>3
<1> QED
  BY <1>6, <1>7, <1>8 DEF Execute

\* After the interrupt an Execute finishes at most the write it is in.
THEOREM OneWriteAfterCancelAlways == Spec => []OneWriteAfterCancel
<1> DEFINE Inv == \A c \in Chunks : LateOnce(c)
<1>1. Init => Inv
  BY DEF Init, LateOnce
<1>2. InStep /\ Inv /\ [Next]_vars => Inv'
  <2> SUFFICES ASSUME InStep, Inv, [Next]_vars PROVE Inv'
    OBVIOUS
  <2>1. ASSUME NEW c \in Chunks, Execute(c) PROVE Inv'
    BY <2>1, ExecuteLateOnce
  <2>2. CASE Cancel
    BY <2>2 DEF Cancel, LateOnce, history
  <2>3. CASE Shrink \/ Terminated \/ UNCHANGED vars
    BY <2>3 DEF Shrink, Terminated, vars, history, LateOnce
  <2> QED
    BY <2>1, <2>2, <2>3 DEF Next
<1>3. Inv => OneWriteAfterCancel
  BY DEF LateOnce, OneWriteAfterCancel
<1> QED
  BY <1>1, <1>2, <1>3, InStepAlways, PTL DEF Spec

\* The chunk created last is there as far as its handle went: the other
\* Executes only add to the file until one of them creates it again.
LEMMA ExecuteBehind ==
  ASSUME InStep, \A d \in Chunks : Behind(d), NEW c \in Chunks, Execute(c)
  PROVE  \A d \in Chunks : Behind(d)'
<1>1. TypeOK /\ Stage(c)
  BY DEF InStep
<1>2. \A d \in Chunks \ {c} : UNCHANGED <<pc[d], dstPos[d]>>
  BY <1>1, OthersKeep
<1>3. CASE CreateDestination(c)
  <2>1. lastCreate' = c /\ pc'[c] = "seekSource"
    BY <1>1, <1>3 DEF CreateDestination, Goto, TypeOK
  <2> QED
    BY <2>1 DEF Behind
<1>4. CASE Write(c) \/ WriteError(c)
  <2>1. pc[c] = "write" /\ lastCreate' = lastCreate
    BY <1>4 DEF Write, WriteError, WriteUnits, Goto
  <2>2. buffered[c] \in 0..buffered[c]
    BY <1>1 DEF TypeOK
  <2>3. PICK n \in 0..buffered[c] : WriteUnits(c, n)
    BY <1>4, <2>2 DEF Write, WriteError
  <2>4. /\ DOMAIN dst' = DOMAIN dst \cup (dstPos[c] + 1..dstPos[c] + n)
        /\ n \in Nat
    BY <2>1, <2>3, StoredFacts DEF WriteUnits
  <2>5. dstPos[c] \in Nat /\ dstPos'[c] = dstPos[c] + n
    BY <1>1, <2>3 DEF WriteUnits, TypeOK
  <2>6. \A d \in Chunks \ {c} : Behind(d)'
    BY <1>2, <2>1, <2>4 DEF Behind
  <2>7. Behind(c)'
    <3> SUFFICES ASSUME lastCreate = c,
                        NEW p \in Offset(c) + 1..dstPos[c] + n
                 PROVE  p \in DOMAIN dst'
      BY <2>1, <2>5 DEF Behind
    <3>1. CASE p <= dstPos[c]
      BY <2>1, <2>4, <2>5, <3>1, OffsetFacts DEF Behind
    <3>2. CASE p > dstPos[c]
      BY <2>4, <2>5, <3>2, OffsetFacts
    <3> QED
      BY <2>4, <2>5, <3>1, <3>2, OffsetFacts
  <2> QED
    BY <2>6, <2>7
<1>5. CASE SeekDestination(c)
  <2>1. UNCHANGED <<dst, lastCreate>> /\ dstPos'[c] = Offset(c)
    BY <1>1, <1>5 DEF SeekDestination, TypeOK, files, history
  <2>2. \A d \in Chunks \ {c} : Behind(d)'
    BY <1>2, <2>1 DEF Behind
  <2>3. Offset(c) + 1..Offset(c) = {}
    BY OffsetFacts
  <2>4. Behind(c)'
    BY <2>1, <2>3 DEF Behind
  <2> QED
    BY <2>2, <2>4
<1>6. CASE Start(c) \/ OpenSource(c) \/ CreateError(c) \/ SeekSource(c)
           \/ SeekError(c) \/ Loop(c) \/ Read(c) \/ ReadError(c)
  <2>1. UNCHANGED <<dst, lastCreate, dstPos>>
    BY <1>6 DEF Start, OpenSource, CreateError, SeekSource, SeekError, Loop,
                Read, ReadError, files, handles, history
  <2>2. \/ pc[c] \in {"loop", "read"}
        \/ pc'[c] \notin {"loop", "read", "write", "ok"}
    BY <1>1, <1>6 DEF Start, OpenSource, CreateError, SeekSource, SeekError,
                      Loop, Read, ReadError, Goto, TypeOK
  <2> QED
    BY <1>2, <2>1, <2>2 DEF Behind
<1> QED
  BY <1>3, <1>4, <1>5, <1>6 DEF Execute

\* The chunk whose Create came last is whole once its Execute returned nil,
\* whatever the others did meanwhile.
THEOREM LastCreatedIsWholeAlways == Spec => []LastCreatedIsWhole
<1> DEFINE Inv == \A c \in Chunks : Behind(c)
<1>1. Init => Inv
  BY DEF Init, Behind
<1>2. InStep /\ Inv /\ [Next]_vars => Inv'
  <2> SUFFICES ASSUME InStep, Inv, [Next]_vars PROVE Inv'
    OBVIOUS
  <2>1. ASSUME NEW c \in Chunks, Execute(c) PROVE Inv'
    BY <2>1, ExecuteBehind
  <2>2. CASE Cancel \/ Shrink \/ Terminated \/ UNCHANGED vars
    BY <2>2 DEF Cancel, Shrink, Terminated, vars, files, handles, history,
                Behind
  <2> QED
    BY <2>1, <2>2 DEF Next
<1>3. InStep /\ Inv => LastCreatedIsWhole
  <2> SUFFICES ASSUME InStep, Inv, lastCreate # NoChunk, pc[lastCreate] = "ok"
               PROVE  Range(lastCreate) \subseteq DOMAIN dst
    BY DEF LastCreatedIsWhole
  <2> DEFINE c == lastCreate
  <2>1. c \in Chunks /\ Stage(c) /\ Behind(c)
    BY DEF InStep, TypeOK
  <2>2. dstPos[c] = Offset(c) + (ChunkLen - remaining[c]) /\ remaining[c] = 0
    BY <2>1 DEF Stage, Written
  <2>3. dstPos[c] = Offset(c) + ChunkLen
    BY <2>1, <2>2, OffsetFacts
  <2> QED
    BY <2>1, <2>3 DEF Behind, Range
<1> QED
  BY <1>1, <1>2, <1>3, InStepAlways, PTL DEF Spec

-----------------------------------------------------------------------------
(* How long an Execute can take *)

(* The steps that an Execute has left at most: a read that returns nothing *)
(* ends it, so that every round of the loop relays one unit or more.       *)
Rank == [start |-> 5, open |-> 4, create |-> 3, seekSource |-> 2,
         seekDestination |-> 1, loop |-> 0]
StepsLeft(c) ==
  CASE pc[c] \in {"ok", "err"} -> 0
    [] pc[c] = "write" -> 3 * remaining[c] - 1
    [] pc[c] = "read"  -> 3 * remaining[c]
    [] OTHER -> 3 * remaining[c] + 1 + Rank[pc[c]]

\* What the places of an Execute count for.
LEMMA StepsLeftIs ==
  ASSUME InStep, NEW c \in Chunks
  PROVE  /\ pc[c] = "start" => StepsLeft(c) = 3 * remaining[c] + 6
         /\ pc[c] = "open" => StepsLeft(c) = 3 * remaining[c] + 5
         /\ pc[c] = "create" => StepsLeft(c) = 3 * remaining[c] + 4
         /\ pc[c] = "seekSource" => StepsLeft(c) = 3 * remaining[c] + 3
         /\ pc[c] = "seekDestination" => StepsLeft(c) = 3 * remaining[c] + 2
         /\ pc[c] = "loop" => StepsLeft(c) = 3 * remaining[c] + 1
         /\ pc[c] = "read" => StepsLeft(c) = 3 * remaining[c]
         /\ pc[c] = "write" => /\ StepsLeft(c) = 3 * remaining[c] - 1
                               /\ remaining[c] > 0
         /\ pc[c] \in {"ok", "err"} => StepsLeft(c) = 0
<1>1. remaining[c] \in Nat /\ buffered[c] \in Nat
  BY R2RAssumption DEF InStep, TypeOK
<1>2. pc[c] = "write" => remaining[c] > 0
  BY <1>1 DEF InStep, Stage
<1> QED
  BY <1>1, <1>2 DEF StepsLeft, Rank

\* A step of an Execute is one step less for it.
LEMMA StepCounts ==
  ASSUME InStep, InStep', NEW c \in Chunks, Execute(c)
  PROVE  StepsLeft(c)' < StepsLeft(c)
<1>1. /\ DOMAIN pc = Chunks
      /\ remaining[c] \in Nat /\ remaining'[c] \in Nat /\ buffered[c] \in Nat
      /\ remaining \in [Chunks -> 0..ChunkLen]
  BY R2RAssumption DEF InStep, TypeOK
<1>7. pc[c] = "read" => remaining[c] > 0
  BY DEF InStep, Stage
<1> DEFINE now == StepsLeft(c)
           then == StepsLeft(c)'
<1>2. /\ pc[c] = "start" => now = 3 * remaining[c] + 6
      /\ pc[c] = "open" => now = 3 * remaining[c] + 5
      /\ pc[c] = "create" => now = 3 * remaining[c] + 4
      /\ pc[c] = "seekSource" => now = 3 * remaining[c] + 3
      /\ pc[c] = "seekDestination" => now = 3 * remaining[c] + 2
      /\ pc[c] = "loop" => now = 3 * remaining[c] + 1
      /\ pc[c] = "read" => now = 3 * remaining[c]
      /\ pc[c] = "write" => now = 3 * remaining[c] - 1 /\ remaining[c] > 0
  BY StepsLeftIs
<1>3. /\ pc'[c] = "open" => then = 3 * remaining'[c] + 5
      /\ pc'[c] = "create" => then = 3 * remaining'[c] + 4
      /\ pc'[c] = "seekSource" => then = 3 * remaining'[c] + 3
      /\ pc'[c] = "seekDestination" => then = 3 * remaining'[c] + 2
      /\ pc'[c] = "loop" => then = 3 * remaining'[c] + 1
      /\ pc'[c] = "read" => then = 3 * remaining'[c]
      /\ pc'[c] = "write" => then = 3 * remaining'[c] - 1
      /\ pc'[c] \in {"ok", "err"} => then = 0
  <2>1. (InStep => /\ pc[c] = "open" => StepsLeft(c) = 3 * remaining[c] + 5
                   /\ pc[c] = "create" => StepsLeft(c) = 3 * remaining[c] + 4
                   /\ pc[c] = "seekSource" =>
                        StepsLeft(c) = 3 * remaining[c] + 3
                   /\ pc[c] = "seekDestination" =>
                        StepsLeft(c) = 3 * remaining[c] + 2
                   /\ pc[c] = "loop" => StepsLeft(c) = 3 * remaining[c] + 1
                   /\ pc[c] = "read" => StepsLeft(c) = 3 * remaining[c]
                   /\ pc[c] = "write" => StepsLeft(c) = 3 * remaining[c] - 1
                   /\ pc[c] \in {"ok", "err"} => StepsLeft(c) = 0)'
    BY StepsLeftIs, PTL
  <2> QED
    BY <2>1
<1> HIDE DEF now, then
<1>4. CASE \/ Start(c) \/ OpenSource(c) \/ CreateDestination(c)
           \/ CreateError(c) \/ SeekSource(c) \/ SeekDestination(c)
           \/ SeekError(c) \/ Loop(c) \/ Read(c) \/ ReadError(c)
  <2>1. remaining' = remaining
    BY <1>4 DEF Start, OpenSource, CreateDestination, CreateError, SeekSource,
                SeekDestination, SeekError, Loop, Read, ReadError
  <2>2. \/ pc[c] = "start" /\ pc'[c] \in {"open", "err"}
        \/ pc[c] = "open" /\ pc'[c] \in {"create", "err"}
        \/ pc[c] = "create" /\ pc'[c] \in {"seekSource", "err"}
        \/ pc[c] = "seekSource" /\ pc'[c] \in {"seekDestination", "err"}
        \/ pc[c] = "seekDestination" /\ pc'[c] \in {"loop", "err"}
        \/ pc[c] = "loop" /\ pc'[c] \in {"ok", "err"}
        \/ pc[c] = "loop" /\ pc'[c] = "read" /\ remaining[c] # 0
        \/ pc[c] = "read" /\ pc'[c] = "write"
        \/ pc[c] = "read" /\ pc'[c] = "err" /\ remaining[c] > 0
    BY <1>1, <1>4, <1>7
       DEF Start, OpenSource, CreateDestination, CreateError, SeekSource,
           SeekDestination, SeekError, Loop, Read, ReadError, Goto
  <2> QED
    BY <1>1, <1>2, <1>3, <2>1, <2>2 DEF then, now
<1>5. CASE Write(c)
  <2>1. /\ pc[c] = "write" /\ pc'[c] = "loop"
        /\ remaining'[c] = remaining[c] - buffered[c]
    BY <1>1, <1>5 DEF Write, Goto
  <2>2. buffered[c] >= 1
    BY <1>1, <2>1 DEF InStep, Stage
  <2> QED
    BY <1>1, <1>2, <1>3, <2>1, <2>2 DEF then, now
<1>6. CASE WriteError(c)
  <2>1. pc[c] = "write" /\ pc'[c] = "err"
    BY <1>1, <1>6 DEF WriteError, Goto
  <2> QED
    BY <1>1, <1>2, <1>3, <2>1 DEF then, now
<1> QED
  BY <1>4, <1>5, <1>6 DEF Execute

\* Every Execute takes 3 * ChunkLen + 6 steps of its own at most, whatever the
\* reads return, fails, is cancelled or is cut meanwhile, and no step of another
\* gives it more: it can only stop by not being scheduled (EveryExecuteEnds).
THEOREM ExecuteIsBounded ==
  Spec => /\ [](\A c \in Chunks : StepsLeft(c) \in 0..3 * ChunkLen + 6)
          /\ [][\A c \in Chunks :
                  IF pc'[c] = pc[c] THEN StepsLeft(c)' = StepsLeft(c)
                  ELSE StepsLeft(c)' < StepsLeft(c)]_vars
<1>1. InStep => \A c \in Chunks : StepsLeft(c) \in 0..3 * ChunkLen + 6
  <2> SUFFICES ASSUME InStep, NEW c \in Chunks
               PROVE  StepsLeft(c) \in 0..3 * ChunkLen + 6
    OBVIOUS
  <2>1. remaining[c] \in 0..ChunkLen /\ ChunkLen \in Nat
    BY R2RAssumption DEF InStep, TypeOK
  <2>2. pc[c] \in {"start", "open", "create", "seekSource", "loop", "read",
                   "seekDestination", "write", "ok", "err"}
    BY DEF InStep, TypeOK
  <2> DEFINE left == StepsLeft(c)
  <2>3. /\ pc[c] = "start" => left = 3 * remaining[c] + 6
        /\ pc[c] = "open" => left = 3 * remaining[c] + 5
        /\ pc[c] = "create" => left = 3 * remaining[c] + 4
        /\ pc[c] = "seekSource" => left = 3 * remaining[c] + 3
        /\ pc[c] = "seekDestination" => left = 3 * remaining[c] + 2
        /\ pc[c] = "loop" => left = 3 * remaining[c] + 1
        /\ pc[c] = "read" => left = 3 * remaining[c]
        /\ pc[c] = "write" => left = 3 * remaining[c] - 1 /\ remaining[c] > 0
        /\ pc[c] \in {"ok", "err"} => left = 0
    BY StepsLeftIs
  <2> HIDE DEF left
  <2>4. left \in 0..3 * ChunkLen + 6
    BY <2>1, <2>2, <2>3
  <2> QED
    BY <2>4 DEF left
<1>2. InStep /\ InStep' /\ [Next]_vars =>
        [\A c \in Chunks :
           IF pc'[c] = pc[c] THEN StepsLeft(c)' = StepsLeft(c)
           ELSE StepsLeft(c)' < StepsLeft(c)]_vars
  <2> SUFFICES ASSUME InStep, InStep', Next, NEW d \in Chunks
               PROVE  IF pc'[d] = pc[d] THEN StepsLeft(d)' = StepsLeft(d)
                      ELSE StepsLeft(d)' < StepsLeft(d)
    OBVIOUS
  <2>1. ASSUME UNCHANGED <<pc[d], remaining[d]>>
        PROVE  pc'[d] = pc[d] /\ StepsLeft(d)' = StepsLeft(d)
    BY <2>1 DEF StepsLeft
  <2>2. ASSUME NEW c \in Chunks, Execute(c), c # d
        PROVE  UNCHANGED <<pc[d], remaining[d]>>
    BY <2>2, OthersKeep DEF InStep
  <2>3. ASSUME Execute(d)
        PROVE  StepsLeft(d)' < StepsLeft(d) /\ pc'[d] # pc[d]
    <3>1. StepsLeft(d)' < StepsLeft(d)
      BY <2>3, StepCounts
    <3>2. pc'[d] # pc[d]
      <4>1. DOMAIN pc = Chunks
        BY DEF InStep, TypeOK
      <4> QED
        BY <2>3, <4>1
           DEF Execute, Start, OpenSource, CreateDestination, CreateError,
               SeekSource, SeekDestination, SeekError, Loop, Read, ReadError,
               Write, WriteError, Goto
    <3> QED
      BY <3>1, <3>2
  <2>4. CASE Cancel \/ Shrink \/ Terminated
    <3>1. UNCHANGED <<pc[d], remaining[d]>>
      BY <2>4 DEF Cancel, Shrink, Terminated, vars
    <3> QED
      BY <2>1, <3>1
  <2> QED
    BY <2>1, <2>2, <2>3, <2>4 DEF Next
<1> QED
  BY <1>1, <1>2, InStepAlways, PTL DEF Spec

=============================================================================
