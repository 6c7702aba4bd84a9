----------------------------- MODULE Scheduler -----------------------------
(***************************************************************************)
(* DefaultScheduler.Schedule (pkg/transfer/scheduler.go): one call, from   *)
(* the creation of the channels to the end of the caller's range over the  *)
(* results.  Goroutines: the producer, the workers, the closer, and the    *)
(* caller (the range loop of RunTransfer in cmd/goscp/run.go).             *)
(*                                                                         *)
(* Both channels are FIFO and are never reset, so each is a log with a     *)
(* read position.  workCh: chunks are queued in index order, its content   *)
(* is taken+1..sent.  resultCh: results is everything ever sent on it and  *)
(* received counts what the caller took.                                   *)
(***************************************************************************)
EXTENDS Naturals, Sequences, FiniteSets

CONSTANTS NumChunks,      \* len(chunks): the chunks are 1..NumChunks
          Workers,        \* the goroutines started for 1..cfg.NumWorkers
          HasPool,        \* s.pool # nil
          PoolSize,       \* connection pairs the pool can lend at once
          SetupMayFail,   \* pool.Acquire and factory.New may return errors
          Throttled       \* cfg.LimitMbps > 0

\* A caller never schedules an empty list (run.go:201), and the constructor
\* raises a worker count of zero or less to one (scheduler.go:19).
ASSUME SchedulerAssumption ==
  /\ NumChunks \in Nat \ {0}
  /\ Workers # {}
  /\ IsFiniteSet(Workers)
  /\ PoolSize \in Nat \ {0}
  /\ {HasPool, SetupMayFail, Throttled} \subseteq BOOLEAN

Chunks == 1..NumChunks
NoChunk == 0
Result == [chunk : Chunks \cup {NoChunk}, outcome : {"ok", "err"}]

VARIABLES
  cancelled,      \* ctx.Done() is closed
  producer,       \* "queueing", "cancelling" or "closed" (workCh is closed)
  next,           \* the chunk the producer is at
  sent,           \* chunks sent on workCh
  taken,          \* chunks received from workCh
  pc,             \* where each worker goroutine is
  holding,        \* the chunk each worker is processing
  conns,          \* workers that hold a connection pair of the pool
  results,        \* every result sent on resultCh, in order
  received,       \* how many of them the caller has received
  resultClosed,   \* resultCh is closed
  returned,       \* the caller's range over resultCh has ended
  started,        \* history: chunks whose Execute was called
  executed,       \* history: chunks whose Execute returned nil
  late            \* history: chunks received from workCh after cancellation

producerVars == <<producer, next, sent>>
callerVars == <<received, returned>>
history == <<started, executed, late>>
vars == <<cancelled, producerVars, taken, pc, holding, conns, results,
          resultClosed, callerVars, history>>

WorkerPCs == {"acquire", "new", "receive", "check", "throttle", "execute",
              "finish", "reportOk", "reportErr", "setupFailed", "drain",
              "return", "done"}

TypeOK ==
  /\ cancelled \in BOOLEAN
  /\ producer \in {"queueing", "cancelling", "closed"}
  /\ next \in 1..NumChunks + 1
  /\ sent \in 0..NumChunks
  /\ taken \in 0..NumChunks
  /\ pc \in [Workers -> WorkerPCs]
  /\ holding \in [Workers -> Chunks \cup {NoChunk}]
  /\ conns \in SUBSET Workers
  /\ results \in Seq(Result)
  /\ received \in Nat
  /\ resultClosed \in BOOLEAN
  /\ returned \in BOOLEAN
  /\ started \in SUBSET Chunks
  /\ executed \in SUBSET Chunks
  /\ late \in SUBSET Chunks

Init ==
  /\ cancelled = FALSE
  /\ producer = "queueing"
  /\ next = 1
  /\ sent = 0
  /\ taken = 0
  /\ pc = [w \in Workers |-> IF HasPool THEN "acquire" ELSE "new"]
  /\ holding = [w \in Workers |-> NoChunk]
  /\ conns = {}
  /\ results = << >>
  /\ received = 0
  /\ resultClosed = FALSE
  /\ returned = FALSE
  /\ started = {}
  /\ executed = {}
  /\ late = {}

----------------------------------------------------------------------------
(* Channels *)

\* resultCh has capacity len(chunks); a send on a full channel blocks.
ResultRoom == Len(results) - received < NumChunks

SendResult(c, o) ==
  /\ ResultRoom
  /\ results' = Append(results, [chunk |-> c, outcome |-> o])

WorkAvailable == taken < sent
WorkClosed == producer = "closed"
WorkExhausted == WorkClosed /\ ~WorkAvailable

----------------------------------------------------------------------------
(* The user interrupts: signal.NotifyContext cancels ctx (run.go:108). *)

Cancel ==
  /\ ~cancelled
  /\ cancelled' = TRUE
  /\ UNCHANGED <<producerVars, taken, pc, holding, conns, results,
                 resultClosed, callerVars, history>>

----------------------------------------------------------------------------
(* The producer: a select between ctx.Done() and the send on workCh, whose  *)
(* capacity len(chunks) leaves the send always ready.                       *)

producerOnly == <<cancelled, taken, pc, holding, conns, resultClosed,
                  callerVars, history>>

\* Slip: the loop bound is forgotten.
QueueChunkUnbounded ==
  /\ producer = "queueing"
  /\ sent' = sent + 1
  /\ next' = next + 1
  /\ UNCHANGED <<producer, results, producerOnly>>

QueueChunk ==
  /\ producer = "queueing"
  /\ next <= NumChunks
  /\ sent' = sent + 1
  /\ next' = next + 1
  /\ UNCHANGED <<producer, results, producerOnly>>

QueueCancelled ==
  /\ producer = "queueing"
  /\ next <= NumChunks
  /\ cancelled
  /\ producer' = "cancelling"
  /\ UNCHANGED <<next, sent, results, producerOnly>>

CancelChunk ==
  /\ producer = "cancelling"
  /\ next <= NumChunks
  /\ SendResult(next, "err")
  /\ next' = next + 1
  /\ UNCHANGED <<producer, sent, producerOnly>>

\* Slip: the producer returns on cancellation without reporting the rest.
CloseWorkEarly ==
  /\ producer = "queueing" => next > NumChunks
  /\ ~WorkClosed
  /\ producer' = "closed"
  /\ UNCHANGED <<next, sent, results, producerOnly>>

\* Slip: workCh is closed at the end of the loop and not by a defer.
CloseWorkUnlessCancelled ==
  /\ producer = "queueing"
  /\ next > NumChunks
  /\ producer' = "closed"
  /\ UNCHANGED <<next, sent, results, producerOnly>>

CloseWork ==
  /\ producer # "closed"
  /\ next > NumChunks
  /\ producer' = "closed"
  /\ UNCHANGED <<next, sent, results, producerOnly>>

Producer == QueueChunk \/ QueueCancelled \/ CancelChunk \/ CloseWork

----------------------------------------------------------------------------
(* The workers *)

Goto(w, from, to) == pc[w] = from /\ pc' = [pc EXCEPT ![w] = to]

workerFrame == <<cancelled, producerVars, resultClosed, callerVars>>

\* pool.Acquire: waits for a free pair.
Acquire(w) ==
  /\ Cardinality(conns) < PoolSize
  /\ Goto(w, "acquire", "new")
  /\ conns' = conns \cup {w}
  /\ UNCHANGED <<workerFrame, taken, holding, results, history>>

\* pool.Acquire or factory.New returns an error.
SetupError(w) ==
  /\ SetupMayFail
  /\ pc[w] \in {"acquire", "new"}
  /\ pc' = [pc EXCEPT ![w] = "setupFailed"]
  /\ UNCHANGED <<workerFrame, taken, holding, conns, results, history>>

NewWorker(w) ==
  /\ Goto(w, "new", "receive")
  /\ UNCHANGED <<workerFrame, taken, holding, conns, results, history>>

\* Slip: the setup error is logged and not sent.
SetupErrorUnreported(w) ==
  /\ Goto(w, "setupFailed", "drain")
  /\ UNCHANGED <<workerFrame, taken, holding, conns, results, history>>

ReportSetupError(w) ==
  /\ Goto(w, "setupFailed", "drain")
  /\ SendResult(NoChunk, "err")
  /\ UNCHANGED <<workerFrame, taken, holding, conns, history>>

\* A worker that failed empties workCh, discarding what it receives.
Drain(w) ==
  /\ pc[w] = "drain"
  /\ WorkAvailable
  /\ taken' = taken + 1
  /\ UNCHANGED <<workerFrame, pc, holding, conns, results, history>>

\* Slip: a worker that failed returns without draining workCh.
DrainSkipped(w) ==
  /\ Goto(w, "drain", "return")
  /\ UNCHANGED <<workerFrame, taken, holding, conns, results, history>>

DrainEnd(w) ==
  /\ WorkExhausted
  /\ Goto(w, "drain", "return")
  /\ UNCHANGED <<workerFrame, taken, holding, conns, results, history>>

Receive(w) ==
  /\ WorkAvailable
  /\ Goto(w, "receive", "check")
  /\ taken' = taken + 1
  /\ holding' = [holding EXCEPT ![w] = taken + 1]
  /\ late' = IF cancelled THEN late \cup {taken + 1} ELSE late
  /\ UNCHANGED <<workerFrame, conns, results, started, executed>>

ReceiveEnd(w) ==
  /\ WorkExhausted
  /\ Goto(w, "receive", "return")
  /\ UNCHANGED <<workerFrame, taken, holding, conns, results, history>>

\* Slip: no test of ctx before the chunk is processed.
CheckSkipped(w) ==
  /\ Goto(w, "check", IF Throttled THEN "throttle" ELSE "execute")
  /\ UNCHANGED <<workerFrame, taken, holding, conns, results, history>>

\* The ctx.Err() test before any work is done on the chunk.
Check(w) ==
  /\ Goto(w, "check", IF cancelled THEN "reportErr"
                      ELSE IF Throttled THEN "throttle" ELSE "execute")
  /\ UNCHANGED <<workerFrame, taken, holding, conns, results, history>>

\* waitForBytes: every WaitN asks for at most the burst, so it fails only
\* when ctx is cancelled; one that is already past its test of ctx succeeds.
Throttle(w) ==
  /\ pc[w] = "throttle"
  /\ \/ Goto(w, "throttle", "execute")
     \/ cancelled /\ Goto(w, "throttle", "reportErr")
  /\ UNCHANGED <<workerFrame, taken, holding, conns, results, history>>

CallExecute(w) ==
  /\ Goto(w, "execute", "finish")
  /\ started' = started \cup {holding[w]}
  /\ UNCHANGED <<workerFrame, taken, holding, conns, results, executed, late>>

ExecuteOk(w) ==
  /\ Goto(w, "finish", "reportOk")
  /\ executed' = executed \cup {holding[w]}
  /\ UNCHANGED <<workerFrame, taken, holding, conns, results, started, late>>

\* Slip: Execute's error is dropped.
ExecuteErrorDropped(w) ==
  /\ Goto(w, "finish", "reportOk")
  /\ UNCHANGED <<workerFrame, taken, holding, conns, results, history>>

ExecuteError(w) ==
  /\ Goto(w, "finish", "reportErr")
  /\ UNCHANGED <<workerFrame, taken, holding, conns, results, history>>

\* Slip: no continue after the error result, so a success follows it.
ReportTwice(w) ==
  /\ \/ /\ Goto(w, "reportOk", "receive")
        /\ SendResult(holding[w], "ok")
        /\ holding' = [holding EXCEPT ![w] = NoChunk]
     \/ /\ Goto(w, "reportErr", "reportOk")
        /\ SendResult(holding[w], "err")
        /\ UNCHANGED holding
  /\ UNCHANGED <<workerFrame, taken, conns, history>>

Report(w) ==
  /\ \/ Goto(w, "reportOk", "receive") /\ SendResult(holding[w], "ok")
     \/ Goto(w, "reportErr", "receive") /\ SendResult(holding[w], "err")
  /\ holding' = [holding EXCEPT ![w] = NoChunk]
  /\ UNCHANGED <<workerFrame, taken, conns, history>>

\* The deferred calls, last one first: pool.Release, then wg.Done.
Release(w) ==
  /\ pc[w] = "return"
  /\ w \in conns
  /\ conns' = conns \ {w}
  /\ UNCHANGED <<workerFrame, taken, pc, holding, results, history>>

\* Slip: wg.Done runs before the deferred Release.
WorkerDoneEarly(w) ==
  /\ Goto(w, "return", "done")
  /\ UNCHANGED <<workerFrame, taken, holding, conns, results, history>>

WorkerDone(w) ==
  /\ w \notin conns
  /\ Goto(w, "return", "done")
  /\ UNCHANGED <<workerFrame, taken, holding, conns, results, history>>

WorkerStep(w) ==
  \/ Acquire(w) \/ NewWorker(w)
  \/ ReportSetupError(w) \/ Drain(w) \/ DrainEnd(w)
  \/ Receive(w) \/ ReceiveEnd(w) \/ Check(w) \/ Throttle(w)
  \/ CallExecute(w) \/ ExecuteOk(w) \/ ExecuteError(w) \/ Report(w)
  \/ Release(w) \/ WorkerDone(w)

Worker(w) == SetupError(w) \/ WorkerStep(w)

----------------------------------------------------------------------------
(* The closer, and the caller's loop over the results *)

CloseResults ==
  /\ \A w \in Workers : pc[w] = "done"
  /\ ~resultClosed
  /\ resultClosed' = TRUE
  /\ UNCHANGED <<cancelled, producerVars, taken, pc, holding, conns, results,
                 callerVars, history>>

ReceiveResult ==
  /\ received < Len(results)
  /\ received' = received + 1
  /\ UNCHANGED <<cancelled, producerVars, taken, pc, holding, conns, results,
                 resultClosed, returned, history>>

ReturnToCaller ==
  /\ resultClosed
  /\ received = Len(results)
  /\ ~returned
  /\ returned' = TRUE
  /\ UNCHANGED <<cancelled, producerVars, taken, pc, holding, conns, results,
                 resultClosed, received, history>>

Caller == ReceiveResult \/ ReturnToCaller

Terminated == returned /\ UNCHANGED vars

Next ==
  \/ Cancel
  \/ Producer
  \/ \E w \in Workers : Worker(w)
  \/ CloseResults
  \/ Caller
  \/ Terminated

Spec == Init /\ [][Next]_vars

\* Goroutines are scheduled by the Go runtime; pool.Acquire, factory.New,
\* WaitN and Execute are assumed to return.  An interrupt or a setup error need
\* never happen, so neither is what frees a worker that waits for a pair.
Fairness ==
  /\ WF_vars(Producer)
  /\ \A w \in Workers : WF_vars(WorkerStep(w))
  /\ WF_vars(CloseResults)
  /\ WF_vars(Caller)

FairSpec == Spec /\ Fairness

----------------------------------------------------------------------------
(* Properties *)

SendPending ==
  \/ producer = "cancelling" /\ next <= NumChunks
  \/ \E w \in Workers : pc[w] \in {"reportOk", "reportErr", "setupFailed"}

\* Sending on a closed channel panics.  The producer is not counted in the
\* WaitGroup the closer waits on, so only the drain loops and the close of
\* workCh keep it, and every worker, from sending after the close.
NoSendOnClosed == resultClosed => ~SendPending

\* The caller marks a checkpoint entry per result: two results for a chunk
\* would let the later one overwrite the earlier.
UniqueResults ==
  \A i, j \in 1..Len(results) :
    i # j /\ results[i].chunk = results[j].chunk => results[i].chunk = NoChunk

Mentioned(c) == \E i \in 1..Len(results) : results[i].chunk = c

\* When the results end, every chunk has its result, or the caller has been
\* told that a worker could not be set up and treats the transfer as failed.
NoSilentLoss ==
  resultClosed => Mentioned(NoChunk) \/ \A c \in Chunks : Mentioned(c)

\* A chunk is reported as transferred exactly when its Execute returned nil:
\* no failure passes for success, and no done chunk is reported as failed.
HonestResults ==
  \A i \in 1..Len(results) :
    results[i].chunk # NoChunk =>
      (results[i].outcome = "ok" <=> results[i].chunk \in executed)

\* A chunk received from workCh after the interrupt is never transferred:
\* each worker begins at most the chunk it already held.
NoWorkAfterCancel == late \cap started = {}

\* The results end only after every connection pair is back in the pool, so
\* the next file's Schedule finds them all.
PairsReturned == resultClosed => conns = {}

----------------------------------------------------------------------------
(* The inductive invariant: what makes the properties above hold.          *)

Busy == {"check", "throttle", "execute", "finish", "reportOk", "reportErr"}

\* The positions of the producer, the workers and the caller in the two logs.
Order ==
  /\ taken <= sent
  /\ sent < next
  /\ producer = "queueing" => next = sent + 1
  /\ producer = "closed" => next = NumChunks + 1
  /\ received <= Len(results)

\* A busy worker holds a chunk of its own, taken from workCh.
Held ==
  \A w \in Workers :
    /\ IF pc[w] \in Busy THEN holding[w] \in 1..taken ELSE holding[w] = NoChunk
    /\ \A v \in Workers :
         v # w /\ holding[v] = holding[w] => holding[w] = NoChunk

\* A worker returns only after workCh was closed and emptied, and the results
\* are closed only after every worker gave its pair back and returned.
Closing ==
  /\ \A w \in Workers : /\ pc[w] \in {"return", "done"} => WorkExhausted
                        /\ pc[w] = "done" => w \notin conns
  /\ resultClosed => \A w \in Workers : pc[w] = "done"
  /\ returned => resultClosed /\ received = Len(results)

\* The chunks that left workCh or were cancelled by the producer.
Settled == 1..taken \cup sent + 1..next - 1

\* A chunk with a result is settled and no longer held.
Placed ==
  \A i \in 1..Len(results) :
    results[i].chunk # NoChunk =>
      /\ results[i].chunk \in Settled
      /\ \A w \in Workers : holding[w] # results[i].chunk

\* A settled chunk is held, has its result, or may have been discarded by a
\* worker that reported its setup error first.
Accounted ==
  /\ \A c \in Settled : \/ Mentioned(c)
                        \/ Mentioned(NoChunk)
                        \/ \E w \in Workers : holding[w] = c
  /\ \A w \in Workers : pc[w] = "drain" => Mentioned(NoChunk)

\* Execute has returned nil for a held chunk exactly when the worker is about
\* to say so; setup errors never claim success.
ExecutedSoFar ==
  /\ executed \subseteq 1..taken
  /\ \A w \in Workers :
       pc[w] \in Busy => (pc[w] = "reportOk" <=> holding[w] \in executed)
  /\ \A i \in 1..Len(results) :
       results[i].chunk = NoChunk => results[i].outcome = "err"

LateSoFar ==
  /\ started \subseteq 1..taken
  /\ late \subseteq 1..taken
  /\ late # {} => cancelled
  /\ \A w \in Workers :
       /\ pc[w] \in {"throttle", "execute"} => holding[w] \notin late
       /\ pc[w] = "check" => holding[w] \notin started

IndInv ==
  /\ TypeOK /\ Order /\ Held /\ Closing
  /\ Placed /\ UniqueResults /\ Accounted
  /\ ExecutedSoFar /\ HonestResults
  /\ LateSoFar /\ NoWorkAfterCancel

----------------------------------------------------------------------------

Contract == INSTANCE SchedulerContract
              WITH delivered <- SubSeq(results, 1, received)

\* The goroutines implement what the caller relies on.
ImplementsContract == Contract!Spec

\* The caller's loop ends, interrupted or not.
EventuallyReturned == <>returned

=============================================================================
