------------------------- MODULE SchedulerContract -------------------------
(***************************************************************************)
(* What a caller of TransferScheduler.Schedule may rely on, whatever the   *)
(* number of workers: the caller ranges over a channel of results, sees    *)
(* each chunk at most once, and the loop ends only when every chunk has    *)
(* been accounted for or some worker has reported that it could not be set *)
(* up.  RunTransfer (cmd/goscp/run.go) is written against this contract,   *)
(* and Transfer.tla uses it in place of the goroutines of Scheduler.tla.   *)
(***************************************************************************)
EXTENDS Naturals, Sequences

CONSTANT NumChunks        \* len(chunks), the chunks being 1..NumChunks

Chunks == 1..NumChunks

\* Result.ChunkID of a worker that could not be set up: the empty string.
NoChunk == 0

Outcomes == {"ok", "err"}
Result == [chunk : Chunks \cup {NoChunk}, outcome : Outcomes]

VARIABLES delivered,      \* the results the caller has received, in order
          returned        \* the caller's range loop has ended

vars == <<delivered, returned>>

Mentioned(c) == \E i \in 1..Len(delivered) : delivered[i].chunk = c

Init == delivered = << >> /\ returned = FALSE

Deliver(r) ==
  /\ ~returned
  /\ IF r.chunk = NoChunk THEN r.outcome = "err" ELSE ~Mentioned(r.chunk)
  /\ delivered' = Append(delivered, r)
  /\ UNCHANGED returned

Return ==
  /\ ~returned
  /\ Mentioned(NoChunk) \/ \A c \in Chunks : Mentioned(c)
  /\ returned' = TRUE
  /\ UNCHANGED delivered

Next == Return \/ \E r \in Result : Deliver(r)

Spec == Init /\ [][Next]_vars

=============================================================================
