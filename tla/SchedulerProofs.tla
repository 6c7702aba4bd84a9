-------------------------- MODULE SchedulerProofs --------------------------
(* Theorems about Scheduler for every number of chunks and workers. *)
EXTENDS Scheduler, FiniteSetTheorems, TLAPS

Base == TypeOK /\ Order /\ Held

\* Types, the order of the logs and the chunks held: no step disturbs them.
LEMMA BaseStep == Base /\ [Next]_vars => Base'
<1> SUFFICES ASSUME Base, [Next]_vars PROVE Base'
  OBVIOUS
<1> USE SchedulerAssumption DEF Base, TypeOK, Order, Held, Busy, Chunks,
  NoChunk, Result, WorkerPCs
<1> USE DEF vars, producerVars, callerVars, history
<1>1. CASE Cancel
  BY <1>1 DEF Cancel
<1>2. CASE Producer
  <2> USE DEF producerOnly
  <2>1. CASE QueueChunk BY <2>1 DEF QueueChunk
  <2>2. CASE QueueCancelled BY <2>2 DEF QueueCancelled
  <2>3. CASE CancelChunk BY <2>3 DEF CancelChunk, SendResult
  <2>4. CASE CloseWork BY <2>4 DEF CloseWork
  <2>5. QED BY <1>2, <2>1, <2>2, <2>3, <2>4 DEF Producer
<1>3. ASSUME NEW w \in Workers, Worker(w) PROVE Base'
  <2> USE DEF workerFrame, Goto
  <2>1. CASE Acquire(w) BY <2>1 DEF Acquire
  <2>2. CASE SetupError(w) BY <2>2 DEF SetupError
  <2>3. CASE NewWorker(w) BY <2>3 DEF NewWorker
  <2>4. CASE ReportSetupError(w) BY <2>4 DEF ReportSetupError, SendResult
  <2>5. CASE Drain(w) BY <2>5 DEF Drain, WorkAvailable
  <2>6. CASE DrainEnd(w) BY <2>6 DEF DrainEnd
  <2>7. CASE Receive(w) BY <2>7 DEF Receive, WorkAvailable
  <2>8. CASE ReceiveEnd(w) BY <2>8 DEF ReceiveEnd
  <2>9. CASE Check(w) BY <2>9 DEF Check
  <2>10. CASE Throttle(w) BY <2>10 DEF Throttle
  <2>11. CASE CallExecute(w)
    <3>1. holding[w] \in Chunks BY <2>11 DEF CallExecute
    <3>2. QED BY <2>11, <3>1 DEF CallExecute
  <2>12. CASE ExecuteOk(w)
    <3>1. holding[w] \in Chunks BY <2>12 DEF ExecuteOk
    <3>2. QED BY <2>12, <3>1 DEF ExecuteOk
  <2>13. CASE ExecuteError(w) BY <2>13 DEF ExecuteError
  <2>14. CASE Report(w)
    <3>0. PICK o \in {"ok", "err"} :
            results' = Append(results, [chunk |-> holding[w], outcome |-> o])
      BY <2>14 DEF Report, SendResult
    <3>1. /\ results' \in Seq(Result)
          /\ Len(results') = Len(results) + 1
      <4>1. holding[w] \in Chunks \cup {NoChunk} OBVIOUS
      <4>2. [chunk |-> holding[w], outcome |-> o] \in Result BY <4>1
      <4>3. QED BY <3>0, <4>2
    <3>2. TypeOK' BY <2>14, <3>1 DEF Report
    <3>3. Order' BY <2>14, <3>1 DEF Report
    <3>4. Held' BY <2>14 DEF Report
    <3>5. QED BY <3>2, <3>3, <3>4
  <2>15. CASE Release(w) BY <2>15 DEF Release
  <2>16. CASE WorkerDone(w) BY <2>16 DEF WorkerDone
  <2>17. QED
    BY <1>3, <2>1, <2>2, <2>3, <2>4, <2>5, <2>6, <2>7, <2>8, <2>9, <2>10,
       <2>11, <2>12, <2>13, <2>14, <2>15, <2>16 DEF Worker, WorkerStep
<1>4. CASE CloseResults BY <1>4 DEF CloseResults
<1>5. CASE Caller
  <2>1. CASE ReceiveResult BY <2>1 DEF ReceiveResult
  <2>2. CASE ReturnToCaller BY <2>2 DEF ReturnToCaller
  <2>3. QED BY <1>5, <2>1, <2>2 DEF Caller
<1>6. CASE Terminated \/ UNCHANGED vars
  BY <1>6 DEF Terminated
<1>7. QED BY <1>1, <1>2, <1>3, <1>4, <1>5, <1>6 DEF Next

\* Workers return only after workCh is closed and emptied; nothing is queued or
\* borrowed afterwards.
LEMMA ClosingStep == Base /\ Closing /\ [Next]_vars => Closing'
<1> SUFFICES ASSUME Base /\ Closing, [Next]_vars PROVE Closing'
  OBVIOUS
<1> USE SchedulerAssumption DEF Base, TypeOK, Order, Closing, WorkExhausted,
        WorkClosed, WorkAvailable, Chunks, NoChunk, WorkerPCs
<1> USE DEF vars, producerVars, callerVars, history
<1>1. CASE Cancel
  BY <1>1 DEF Cancel
<1>2. CASE Producer
  <2> USE DEF producerOnly
  <2>1. CASE QueueChunk BY <2>1 DEF QueueChunk
  <2>2. CASE QueueCancelled BY <2>2 DEF QueueCancelled
  <2>3. CASE CancelChunk BY <2>3 DEF CancelChunk, SendResult
  <2>4. CASE CloseWork BY <2>4 DEF CloseWork
  <2>5. QED BY <1>2, <2>1, <2>2, <2>3, <2>4 DEF Producer
<1>3. ASSUME NEW w \in Workers, Worker(w) PROVE Closing'
  <2> USE DEF workerFrame, Goto
  <2>1. CASE Acquire(w) BY <2>1 DEF Acquire
  <2>2. CASE SetupError(w) BY <2>2 DEF SetupError
  <2>3. CASE NewWorker(w) BY <2>3 DEF NewWorker
  <2>4. CASE ReportSetupError(w) BY <2>4 DEF ReportSetupError, SendResult
  <2>5. CASE Drain(w) BY <2>5 DEF Drain, WorkAvailable
  <2>6. CASE DrainEnd(w) BY <2>6 DEF DrainEnd
  <2>7. CASE Receive(w) BY <2>7 DEF Receive, WorkAvailable
  <2>8. CASE ReceiveEnd(w) BY <2>8 DEF ReceiveEnd
  <2>9. CASE Check(w) BY <2>9 DEF Check
  <2>10. CASE Throttle(w) BY <2>10 DEF Throttle
  <2>11. CASE CallExecute(w) BY <2>11 DEF CallExecute
  <2>12. CASE ExecuteOk(w) BY <2>12 DEF ExecuteOk
  <2>13. CASE ExecuteError(w) BY <2>13 DEF ExecuteError
  <2>14. CASE Report(w) BY <2>14 DEF Report, SendResult
  <2>15. CASE Release(w) BY <2>15 DEF Release
  <2>16. CASE WorkerDone(w) BY <2>16 DEF WorkerDone
  <2>17. QED
    BY <1>3, <2>1, <2>2, <2>3, <2>4, <2>5, <2>6, <2>7, <2>8, <2>9, <2>10,
       <2>11, <2>12, <2>13, <2>14, <2>15, <2>16 DEF Worker, WorkerStep
<1>4. CASE CloseResults BY <1>4 DEF CloseResults
<1>5. CASE Caller
  BY <1>5 DEF Caller, ReceiveResult, ReturnToCaller
<1>6. CASE Terminated \/ UNCHANGED vars
  BY <1>6 DEF Terminated
<1>7. QED BY <1>1, <1>2, <1>3, <1>4, <1>5, <1>6 DEF Next

\* A chunk gets a result only while it is settled, and never a second one.
LEMMA PlacedStep ==
  Base /\ Placed /\ UniqueResults /\ [Next]_vars
    => (Placed /\ UniqueResults)'
<1> SUFFICES ASSUME Base /\ Placed /\ UniqueResults, [Next]_vars
             PROVE  (Placed /\ UniqueResults)'
  OBVIOUS
<1> USE SchedulerAssumption DEF Base, TypeOK, Order, Held, Busy, Placed,
        UniqueResults, Settled, Chunks, NoChunk, Result, WorkerPCs
<1> USE DEF vars, producerVars, callerVars, history
<1>1. CASE Cancel
  BY <1>1 DEF Cancel
<1>2. CASE Producer
  <2> USE DEF producerOnly
  <2>1. CASE QueueChunk BY <2>1 DEF QueueChunk
  <2>2. CASE QueueCancelled BY <2>2 DEF QueueCancelled
  <2>3. CASE CancelChunk
    <3>1. PICK o \in {"ok", "err"} :
            results' = Append(results, [chunk |-> next, outcome |-> o])
      BY <2>3 DEF CancelChunk, SendResult
    <3>2. /\ Len(results') = Len(results) + 1
          /\ results'[Len(results) + 1].chunk = next
      BY <3>1
    <3>3. \A i \in 1..Len(results) : results'[i] = results[i]
      BY <3>1
    <3>4. Placed' BY <2>3, <3>2, <3>3 DEF CancelChunk
    <3>5. \A i \in 1..Len(results) : results[i].chunk # next
      BY <2>3 DEF CancelChunk
    <3>6. UniqueResults' BY <3>2, <3>3, <3>5
    <3>7. QED BY <3>4, <3>6
  <2>4. CASE CloseWork BY <2>4 DEF CloseWork
  <2>5. QED BY <1>2, <2>1, <2>2, <2>3, <2>4 DEF Producer
<1>3. ASSUME NEW w \in Workers, Worker(w) PROVE (Placed /\ UniqueResults)'
  <2> USE DEF workerFrame, Goto
  <2>1. CASE Acquire(w) BY <2>1 DEF Acquire
  <2>2. CASE SetupError(w) BY <2>2 DEF SetupError
  <2>3. CASE NewWorker(w) BY <2>3 DEF NewWorker
  <2>4. CASE ReportSetupError(w)
    <3>1. PICK o \in {"ok", "err"} :
            results' = Append(results, [chunk |-> NoChunk, outcome |-> o])
      BY <2>4 DEF ReportSetupError, SendResult
    <3>2. /\ Len(results') = Len(results) + 1
          /\ results'[Len(results) + 1].chunk = NoChunk
      BY <3>1
    <3>3. \A i \in 1..Len(results) : results'[i] = results[i]
      BY <3>1
    <3>4. UNCHANGED <<next, sent, taken, holding>>
      BY <2>4 DEF ReportSetupError
    <3>5. Placed' BY <3>2, <3>3, <3>4
    <3>6. UniqueResults' BY <3>2, <3>3
    <3>7. QED BY <3>5, <3>6
  <2>5. CASE Drain(w) BY <2>5 DEF Drain, WorkAvailable
  <2>6. CASE DrainEnd(w) BY <2>6 DEF DrainEnd
  <2>7. CASE Receive(w)
    <3>1. \A i \in 1..Len(results) : results[i].chunk # taken + 1
      BY <2>7 DEF Receive, WorkAvailable
    <3>2. \A v \in Workers : holding'[v] = holding[v] \/ holding'[v] = taken + 1
      BY <2>7 DEF Receive
    <3>3. taken + 1 <= sent /\ taken' = taken + 1 /\
          UNCHANGED <<sent, next, results>>
      BY <2>7 DEF Receive, WorkAvailable
    <3>4. Placed' BY <3>1, <3>2, <3>3
    <3>5. UniqueResults' BY <3>3
    <3>6. QED BY <3>4, <3>5
  <2>8. CASE ReceiveEnd(w) BY <2>8 DEF ReceiveEnd
  <2>9. CASE Check(w) BY <2>9 DEF Check
  <2>10. CASE Throttle(w) BY <2>10 DEF Throttle
  <2>11. CASE CallExecute(w) BY <2>11 DEF CallExecute
  <2>12. CASE ExecuteOk(w) BY <2>12 DEF ExecuteOk
  <2>13. CASE ExecuteError(w) BY <2>13 DEF ExecuteError
  <2>14. CASE Report(w)
    <3>1. PICK o \in {"ok", "err"} :
            results' = Append(results, [chunk |-> holding[w], outcome |-> o])
      BY <2>14 DEF Report, SendResult
    <3>2. /\ Len(results') = Len(results) + 1
          /\ results'[Len(results) + 1].chunk = holding[w]
      BY <3>1
    <3>3. \A i \in 1..Len(results) : results'[i] = results[i]
      BY <3>1
    <3>4. /\ holding[w] \in 1..taken
          /\ holding' = [holding EXCEPT ![w] = NoChunk]
      BY <2>14 DEF Report
    <3>5. Placed' BY <2>14, <3>2, <3>3, <3>4 DEF Report
    <3>6. \A i \in 1..Len(results) : results[i].chunk # holding[w]
      BY <3>4
    <3>7. UniqueResults' BY <3>2, <3>3, <3>6
    <3>8. QED BY <3>5, <3>7
  <2>15. CASE Release(w) BY <2>15 DEF Release
  <2>16. CASE WorkerDone(w) BY <2>16 DEF WorkerDone
  <2>17. QED
    BY <1>3, <2>1, <2>2, <2>3, <2>4, <2>5, <2>6, <2>7, <2>8, <2>9, <2>10,
       <2>11, <2>12, <2>13, <2>14, <2>15, <2>16 DEF Worker, WorkerStep
<1>4. CASE CloseResults BY <1>4 DEF CloseResults
<1>5. CASE Caller
  BY <1>5 DEF Caller, ReceiveResult, ReturnToCaller
<1>6. CASE Terminated \/ UNCHANGED vars
  BY <1>6 DEF Terminated
<1>7. QED BY <1>1, <1>2, <1>3, <1>4, <1>5, <1>6 DEF Next

\* What one more result does to the set of chunks that have a result.
LEMMA MentionedAppend ==
  ASSUME results \in Seq(Result), NEW c, NEW o,
         results' = Append(results, [chunk |-> c, outcome |-> o])
  PROVE  /\ Mentioned(c)'
         /\ \A d : Mentioned(d) => Mentioned(d)'
<1>1. /\ Len(results') = Len(results) + 1
      /\ Len(results) \in Nat
      /\ results'[Len(results) + 1] = [chunk |-> c, outcome |-> o]
      /\ \A i \in 1..Len(results) : results'[i] = results[i]
  OBVIOUS
<1>2. Mentioned(c)' BY <1>1 DEF Mentioned
<1>3. ASSUME NEW d, Mentioned(d) PROVE Mentioned(d)' BY <1>1, <1>3 DEF Mentioned
<1>4. QED BY <1>2, <1>3

\* Results that do not change mention the same chunks.
LEMMA MentionedSame ==
  ASSUME results' = results, NEW c
  PROVE  Mentioned(c)' <=> Mentioned(c)
BY DEF Mentioned

\* No chunk leaves workCh or the producer without a holder, a result, or a setup
\* error to explain it.
LEMMA AccountedStep == Base /\ Accounted /\ [Next]_vars => Accounted'
<1> SUFFICES ASSUME Base /\ Accounted, [Next]_vars PROVE Accounted'
  OBVIOUS
<1> USE SchedulerAssumption DEF Base, TypeOK, Order, Held, Busy, Accounted,
        Settled, Chunks, NoChunk, WorkerPCs
<1> USE DEF vars, producerVars, callerVars, history
<1>1. CASE Cancel
  BY <1>1, MentionedSame DEF Cancel
<1>2. CASE Producer
  <2> USE DEF producerOnly
  <2>1. CASE QueueChunk
    BY <2>1, MentionedSame DEF QueueChunk
  <2>2. CASE QueueCancelled
    BY <2>2, MentionedSame DEF QueueCancelled
  <2>3. CASE CancelChunk
    <3>0. PICK c : c = next OBVIOUS
    <3>1. PICK o \in {"ok", "err"} :
            results' = Append(results, [chunk |-> c, outcome |-> o])
      BY <2>3, <3>0 DEF CancelChunk, SendResult
    <3>2. Mentioned(c)' /\ \A d : Mentioned(d) => Mentioned(d)'
      BY <3>1, MentionedAppend
    <3>3. QED BY <2>3, <3>0, <3>2 DEF CancelChunk
  <2>4. CASE CloseWork
    BY <2>4, MentionedSame DEF CloseWork
  <2>5. QED BY <1>2, <2>1, <2>2, <2>3, <2>4 DEF Producer
<1>3. ASSUME NEW w \in Workers, Worker(w) PROVE Accounted'
  <2> USE DEF workerFrame, Goto
  <2>1. CASE Acquire(w)
    BY <2>1, MentionedSame DEF Acquire
  <2>2. CASE SetupError(w)
    BY <2>2, MentionedSame DEF SetupError
  <2>3. CASE NewWorker(w)
    BY <2>3, MentionedSame DEF NewWorker
  <2>4. CASE ReportSetupError(w)
    <3>0. PICK c : c = NoChunk OBVIOUS
    <3>1. PICK o \in {"ok", "err"} :
            results' = Append(results, [chunk |-> c, outcome |-> o])
      BY <2>4, <3>0 DEF ReportSetupError, SendResult
    <3>2. Mentioned(c)' /\ \A d : Mentioned(d) => Mentioned(d)'
      BY <3>1, MentionedAppend
    <3>3. QED BY <2>4, <3>0, <3>2 DEF ReportSetupError
  <2>5. CASE Drain(w)
    BY <2>5, MentionedSame DEF Drain, WorkAvailable
  <2>6. CASE DrainEnd(w)
    BY <2>6, MentionedSame DEF DrainEnd
  <2>7. CASE Receive(w)
    BY <2>7, MentionedSame DEF Receive, WorkAvailable
  <2>8. CASE ReceiveEnd(w)
    BY <2>8, MentionedSame DEF ReceiveEnd
  <2>9. CASE Check(w)
    BY <2>9, MentionedSame DEF Check
  <2>10. CASE Throttle(w)
    BY <2>10, MentionedSame DEF Throttle
  <2>11. CASE CallExecute(w)
    BY <2>11, MentionedSame DEF CallExecute
  <2>12. CASE ExecuteOk(w)
    BY <2>12, MentionedSame DEF ExecuteOk
  <2>13. CASE ExecuteError(w)
    BY <2>13, MentionedSame DEF ExecuteError
  <2>14. CASE Report(w)
    <3>0. PICK c : c = holding[w] OBVIOUS
    <3>1. PICK o \in {"ok", "err"} :
            results' = Append(results, [chunk |-> c, outcome |-> o])
      BY <2>14, <3>0 DEF Report, SendResult
    <3>2. Mentioned(c)' /\ \A d : Mentioned(d) => Mentioned(d)'
      BY <3>1, MentionedAppend
    <3>3. QED BY <2>14, <3>0, <3>2 DEF Report
  <2>15. CASE Release(w)
    BY <2>15, MentionedSame DEF Release
  <2>16. CASE WorkerDone(w)
    BY <2>16, MentionedSame DEF WorkerDone
  <2>17. QED
    BY <1>3, <2>1, <2>2, <2>3, <2>4, <2>5, <2>6, <2>7, <2>8, <2>9, <2>10,
       <2>11, <2>12, <2>13, <2>14, <2>15, <2>16 DEF Worker, WorkerStep
<1>4. CASE CloseResults
  BY <1>4, MentionedSame DEF CloseResults
<1>5. CASE Caller
  BY <1>5, MentionedSame DEF Caller, ReceiveResult, ReturnToCaller
<1>6. CASE Terminated \/ UNCHANGED vars
  BY <1>6, MentionedSame DEF Terminated
<1>7. QED BY <1>1, <1>2, <1>3, <1>4, <1>5, <1>6 DEF Next

\* A result says ok exactly for the chunks whose Execute returned nil.
LEMMA ExecutedStep ==
  Base /\ Placed /\ ExecutedSoFar /\ HonestResults /\ [Next]_vars
    => (ExecutedSoFar /\ HonestResults)'
<1> SUFFICES ASSUME Base /\ Placed /\ ExecutedSoFar /\ HonestResults,
                    [Next]_vars
             PROVE  (ExecutedSoFar /\ HonestResults)'
  OBVIOUS
<1> USE SchedulerAssumption DEF Base, TypeOK, Order, Held, Busy, Placed,
        ExecutedSoFar, HonestResults, Settled, Chunks, NoChunk, Result,
        WorkerPCs
<1> USE DEF vars, producerVars, callerVars, history
<1>1. CASE Cancel
  BY <1>1 DEF Cancel
<1>2. CASE Producer
  <2> USE DEF producerOnly
  <2>1. CASE QueueChunk BY <2>1 DEF QueueChunk
  <2>2. CASE QueueCancelled BY <2>2 DEF QueueCancelled
  <2>3. CASE CancelChunk
    <3>1. PICK o \in {"ok", "err"} :
            results' = Append(results, [chunk |-> next, outcome |-> o])
      BY <2>3 DEF CancelChunk, SendResult
    <3>2. /\ Len(results') = Len(results) + 1
          /\ results'[Len(results) + 1].chunk = next
      BY <3>1
    <3>3. \A i \in 1..Len(results) : results'[i] = results[i]
      BY <3>1
    <3>4. results'[Len(results) + 1].chunk # NoChunk
      BY <2>3, <3>2 DEF CancelChunk
    <3>5. \A i \in 1..Len(results') :
            results'[i].chunk = NoChunk => results'[i].outcome = "err"
      BY <3>2, <3>3, <3>4 DEF ExecutedSoFar
    <3>6. ExecutedSoFar' BY <2>3, <3>5 DEF CancelChunk
    <3>7. HonestResults' BY <2>3, <3>1, <3>2, <3>3 DEF CancelChunk, SendResult
    <3>8. QED BY <3>6, <3>7
  <2>4. CASE CloseWork BY <2>4 DEF CloseWork
  <2>5. QED BY <1>2, <2>1, <2>2, <2>3, <2>4 DEF Producer
<1>3. ASSUME NEW w \in Workers, Worker(w)
       PROVE  (ExecutedSoFar /\ HonestResults)'
  <2> USE DEF workerFrame, Goto
  <2>1. CASE Acquire(w) BY <2>1 DEF Acquire
  <2>2. CASE SetupError(w) BY <2>2 DEF SetupError
  <2>3. CASE NewWorker(w) BY <2>3 DEF NewWorker
  <2>4. CASE ReportSetupError(w)
    <3>1. PICK o \in {"ok", "err"} :
            results' = Append(results, [chunk |-> NoChunk, outcome |-> o])
      BY <2>4 DEF ReportSetupError, SendResult
    <3>2. /\ Len(results') = Len(results) + 1
          /\ results'[Len(results) + 1].chunk = NoChunk
      BY <3>1
    <3>3. \A i \in 1..Len(results) : results'[i] = results[i]
      BY <3>1
    <3>4. results'[Len(results) + 1] = [chunk |-> NoChunk, outcome |-> "err"]
      BY <2>4 DEF ReportSetupError, SendResult
    <3>5. \A i \in 1..Len(results') :
            results'[i].chunk = NoChunk => results'[i].outcome = "err"
      BY <3>2, <3>3, <3>4 DEF ExecutedSoFar
    <3>6. ExecutedSoFar' BY <2>4, <3>5 DEF ReportSetupError
    <3>7. HonestResults' BY <2>4, <3>1, <3>2, <3>3 DEF ReportSetupError,
      SendResult
    <3>8. QED BY <3>6, <3>7
  <2>5. CASE Drain(w) BY <2>5 DEF Drain, WorkAvailable
  <2>6. CASE DrainEnd(w) BY <2>6 DEF DrainEnd
  <2>7. CASE Receive(w) BY <2>7 DEF Receive, WorkAvailable
  <2>8. CASE ReceiveEnd(w) BY <2>8 DEF ReceiveEnd
  <2>9. CASE Check(w) BY <2>9 DEF Check
  <2>10. CASE Throttle(w) BY <2>10 DEF Throttle
  <2>11. CASE CallExecute(w) BY <2>11 DEF CallExecute
  <2>12. CASE ExecuteOk(w)
    <3>1. /\ holding[w] \in 1..taken
          /\ executed' = executed \cup {holding[w]}
          /\ UNCHANGED <<taken, sent, next, holding, results>>
          /\ pc' = [pc EXCEPT ![w] = "reportOk"]
      BY <2>12 DEF ExecuteOk
    <3>2. \A v \in Workers :
            v # w /\ pc[v] \in Busy => holding[v] # holding[w]
      BY <3>1
    <3>3. ExecutedSoFar' BY <3>1, <3>2
    <3>4. HonestResults' BY <3>1
    <3>5. QED BY <3>3, <3>4
  <2>13. CASE ExecuteError(w) BY <2>13 DEF ExecuteError
  <2>14. CASE Report(w)
    <3>1. PICK o \in {"ok", "err"} :
            results' = Append(results, [chunk |-> holding[w], outcome |-> o])
      BY <2>14 DEF Report, SendResult
    <3>2. /\ Len(results') = Len(results) + 1
          /\ results'[Len(results) + 1].chunk = holding[w]
      BY <3>1
    <3>3. \A i \in 1..Len(results) : results'[i] = results[i]
      BY <3>1
    <3>4. results'[Len(results) + 1].chunk # NoChunk
      BY <2>14, <3>2 DEF Report
    <3>5. \A i \in 1..Len(results') :
            results'[i].chunk = NoChunk => results'[i].outcome = "err"
      BY <3>2, <3>3, <3>4 DEF ExecutedSoFar
    <3>6. ExecutedSoFar' BY <2>14, <3>5 DEF Report
    <3>7. HonestResults' BY <2>14, <3>1, <3>2, <3>3 DEF Report, SendResult
    <3>8. QED BY <3>6, <3>7
  <2>15. CASE Release(w) BY <2>15 DEF Release
  <2>16. CASE WorkerDone(w) BY <2>16 DEF WorkerDone
  <2>17. QED
    BY <1>3, <2>1, <2>2, <2>3, <2>4, <2>5, <2>6, <2>7, <2>8, <2>9, <2>10,
       <2>11, <2>12, <2>13, <2>14, <2>15, <2>16 DEF Worker, WorkerStep
<1>4. CASE CloseResults BY <1>4 DEF CloseResults
<1>5. CASE Caller
  BY <1>5 DEF Caller, ReceiveResult, ReturnToCaller
<1>6. CASE Terminated \/ UNCHANGED vars
  BY <1>6 DEF Terminated
<1>7. QED BY <1>1, <1>2, <1>3, <1>4, <1>5, <1>6 DEF Next

\* A chunk received after the interrupt stops at the test of ctx.
LEMMA LateStep ==
  Base /\ LateSoFar /\ NoWorkAfterCancel /\ [Next]_vars
    => (LateSoFar /\ NoWorkAfterCancel)'
<1> SUFFICES ASSUME Base /\ LateSoFar /\ NoWorkAfterCancel, [Next]_vars
             PROVE  (LateSoFar /\ NoWorkAfterCancel)'
  OBVIOUS
<1> USE SchedulerAssumption DEF Base, TypeOK, Order, Held, Busy, LateSoFar,
        NoWorkAfterCancel, Chunks, NoChunk, WorkerPCs
<1> USE DEF vars, producerVars, callerVars, history
<1>1. CASE Cancel
  BY <1>1 DEF Cancel
<1>2. CASE Producer
  <2> USE DEF producerOnly
  <2>1. CASE QueueChunk BY <2>1 DEF QueueChunk
  <2>2. CASE QueueCancelled BY <2>2 DEF QueueCancelled
  <2>3. CASE CancelChunk BY <2>3 DEF CancelChunk, SendResult
  <2>4. CASE CloseWork BY <2>4 DEF CloseWork
  <2>5. QED BY <1>2, <2>1, <2>2, <2>3, <2>4 DEF Producer
<1>3. ASSUME NEW w \in Workers, Worker(w)
       PROVE  (LateSoFar /\ NoWorkAfterCancel)'
  <2> USE DEF workerFrame, Goto
  <2>1. CASE Acquire(w) BY <2>1 DEF Acquire
  <2>2. CASE SetupError(w) BY <2>2 DEF SetupError
  <2>3. CASE NewWorker(w) BY <2>3 DEF NewWorker
  <2>4. CASE ReportSetupError(w) BY <2>4 DEF ReportSetupError, SendResult
  <2>5. CASE Drain(w) BY <2>5 DEF Drain, WorkAvailable
  <2>6. CASE DrainEnd(w) BY <2>6 DEF DrainEnd
  <2>7. CASE Receive(w) BY <2>7 DEF Receive, WorkAvailable
  <2>8. CASE ReceiveEnd(w) BY <2>8 DEF ReceiveEnd
  <2>9. CASE Check(w) BY <2>9 DEF Check
  <2>10. CASE Throttle(w) BY <2>10 DEF Throttle
  <2>11. CASE CallExecute(w)
    <3>1. /\ holding[w] \in 1..taken /\ holding[w] \notin late
          /\ started' = started \cup {holding[w]}
          /\ UNCHANGED <<cancelled, taken, holding, late>>
          /\ pc' = [pc EXCEPT ![w] = "finish"]
      BY <2>11 DEF CallExecute
    <3>2. \A v \in Workers :
            v # w /\ pc[v] \in Busy => holding[v] # holding[w]
      BY <3>1
    <3>3. LateSoFar' BY <3>1, <3>2
    <3>4. NoWorkAfterCancel' BY <3>1
    <3>5. QED BY <3>3, <3>4
  <2>12. CASE ExecuteOk(w) BY <2>12 DEF ExecuteOk
  <2>13. CASE ExecuteError(w) BY <2>13 DEF ExecuteError
  <2>14. CASE Report(w) BY <2>14 DEF Report, SendResult
  <2>15. CASE Release(w) BY <2>15 DEF Release
  <2>16. CASE WorkerDone(w) BY <2>16 DEF WorkerDone
  <2>17. QED
    BY <1>3, <2>1, <2>2, <2>3, <2>4, <2>5, <2>6, <2>7, <2>8, <2>9, <2>10,
       <2>11, <2>12, <2>13, <2>14, <2>15, <2>16 DEF Worker, WorkerStep
<1>4. CASE CloseResults BY <1>4 DEF CloseResults
<1>5. CASE Caller
  BY <1>5 DEF Caller, ReceiveResult, ReturnToCaller
<1>6. CASE Terminated \/ UNCHANGED vars
  BY <1>6 DEF Terminated
<1>7. QED BY <1>1, <1>2, <1>3, <1>4, <1>5, <1>6 DEF Next

\* The initial state satisfies the invariant.
LEMMA InitIndInv == Init => IndInv
<1> SUFFICES ASSUME Init PROVE IndInv
  OBVIOUS
<1> USE SchedulerAssumption DEF Init, Chunks, NoChunk
<1>1. TypeOK
  <2>1. results \in Seq(Result) OBVIOUS
  <2>2. pc \in [Workers -> WorkerPCs] BY DEF WorkerPCs
  <2>3. /\ next \in 1..NumChunks + 1
        /\ sent \in 0..NumChunks
        /\ taken \in 0..NumChunks
    OBVIOUS
  <2>4. QED BY <2>1, <2>2, <2>3 DEF TypeOK
<1>2. Order /\ Held /\ Closing BY DEF Order, Held, Closing, Busy
<1>3. Settled = {} BY DEF Settled
<1>4. Placed /\ UniqueResults /\ HonestResults
  BY DEF Placed, UniqueResults, HonestResults
<1>5. Accounted BY <1>3 DEF Accounted
<1>6. ExecutedSoFar /\ LateSoFar /\ NoWorkAfterCancel
  BY DEF ExecutedSoFar, LateSoFar, NoWorkAfterCancel, Busy
<1>7. QED BY <1>1, <1>2, <1>4, <1>5, <1>6 DEF IndInv

\* No step leaves the invariant.
LEMMA NextIndInv == IndInv /\ [Next]_vars => IndInv'
BY BaseStep, ClosingStep, PlacedStep, AccountedStep, ExecutedStep, LateStep
   DEF IndInv, Base

\* The invariant every property below follows from.
THEOREM Invariance == Spec => []IndInv
BY InitIndInv, NextIndInv, PTL DEF Spec

\* Every variable keeps its type, whatever the numbers of chunks and workers.
THEOREM TypeCorrect == Spec => []TypeOK
<1>1. IndInv => TypeOK BY DEF IndInv
<1>2. QED BY <1>1, Invariance, PTL

\* No goroutine ever sends on resultCh after it was closed (scheduler.go:112):
\* the producer, which the WaitGroup does not count, is done by then.
THEOREM NoSendAfterClose == Spec => []NoSendOnClosed
<1>1. ASSUME IndInv, resultClosed PROVE ~SendPending
  <2>1. PICK w \in Workers : TRUE BY SchedulerAssumption
  <2>2. \A v \in Workers : pc[v] = "done" BY <1>1 DEF IndInv, Closing
  <2>3. producer = "closed"
    BY <1>1, <2>1, <2>2 DEF IndInv, Closing, WorkExhausted, WorkClosed
  <2>4. QED BY <2>2, <2>3 DEF SendPending
<1>2. IndInv => NoSendOnClosed BY <1>1 DEF NoSendOnClosed
<1>3. QED BY <1>2, Invariance, PTL

\* Schedule never sends two results for one chunk.
THEOREM OneResultPerChunk == Spec => []UniqueResults
<1>1. IndInv => UniqueResults BY DEF IndInv
<1>2. QED BY <1>1, Invariance, PTL

\* Once everything is closed, what is missing is explained by a setup error.
LEMMA ClosedAccounts ==
  IndInv /\ resultClosed => Mentioned(NoChunk) \/ \A c \in Chunks : Mentioned(c)
<1> SUFFICES ASSUME IndInv, resultClosed, ~Mentioned(NoChunk),
                    NEW c \in Chunks
             PROVE  Mentioned(c)
  OBVIOUS
<1> USE SchedulerAssumption DEF IndInv
<1>1. PICK w \in Workers : TRUE OBVIOUS
<1>2. \A v \in Workers : pc[v] = "done" BY DEF Closing
<1>3. producer = "closed" /\ ~(taken < sent)
  BY <1>1, <1>2 DEF Closing, WorkExhausted, WorkClosed, WorkAvailable
<1>4. c \in Settled
  BY <1>3 DEF TypeOK, Order, Settled, Chunks
<1>5. \A v \in Workers : holding[v] # c
  BY <1>2 DEF Held, Busy, Chunks, NoChunk
<1>6. QED BY <1>4, <1>5 DEF Accounted

\* When the results end, no chunk is missing without an explanation.
THEOREM NothingLostSilently == Spec => []NoSilentLoss
<1>1. IndInv => NoSilentLoss BY ClosedAccounts DEF NoSilentLoss
<1>2. QED BY <1>1, Invariance, PTL

\* "ok" is reported exactly for the chunks that were transferred.
THEOREM ResultsAreHonest == Spec => []HonestResults
<1>1. IndInv => HonestResults BY DEF IndInv
<1>2. QED BY <1>1, Invariance, PTL

\* No transfer begins for a chunk received after the interrupt.
THEOREM InterruptStopsWork == Spec => []NoWorkAfterCancel
<1>1. IndInv => NoWorkAfterCancel BY DEF IndInv
<1>2. QED BY <1>1, Invariance, PTL

\* The pool has every pair back before the caller's loop can end.
THEOREM PoolIsWhole == Spec => []PairsReturned
<1>1. IndInv => PairsReturned BY DEF IndInv, Closing, PairsReturned, TypeOK
<1>2. QED BY <1>1, Invariance, PTL

----------------------------------------------------------------------------
(* Nobody is blocked for ever. *)

\* What each goroutine waits for, if anything; an interrupt or a setup error
\* would help a worker that waits for a pair, and neither need come.
ProducerCanGo ==
  \/ producer = "queueing"
  \/ producer = "cancelling" /\ (next <= NumChunks => ResultRoom)
WorkerCanGo(w) ==
  \/ pc[w] = "acquire" /\ Cardinality(conns) < PoolSize
  \/ pc[w] \in {"receive", "drain"} /\ (WorkAvailable \/ WorkClosed)
  \/ pc[w] \in {"setupFailed", "reportOk", "reportErr"} /\ ResultRoom
  \/ pc[w] \in {"new", "check", "throttle", "execute", "finish", "return"}
CloserCanGo == ~resultClosed /\ \A w \in Workers : pc[w] = "done"
CallerCanGo == received < Len(results) \/ resultClosed

\* Until the caller's loop ends, not everyone waits on everyone: with a pool
\* smaller than the workers, both channels full or empty, and failed setups,
\* some goroutine is not blocked.
NeverStuck ==
  \/ returned
  \/ ProducerCanGo \/ CloserCanGo \/ CallerCanGo
  \/ \E w \in Workers : WorkerCanGo(w)

\* A worker that waits for a pair has none.
PairsTaken == \A w \in Workers : pc[w] = "acquire" => w \notin conns

\* No worker goes back to waiting for a pair.
LEMMA PairsTakenStep ==
  TypeOK /\ PairsTaken /\ [Next]_vars => PairsTaken'
<1> SUFFICES ASSUME TypeOK, PairsTaken, [Next]_vars PROVE PairsTaken'
  OBVIOUS
<1>1. ASSUME UNCHANGED <<pc, conns>> PROVE PairsTaken'
  BY <1>1 DEF PairsTaken
<1>2. CASE Cancel \/ Producer \/ CloseResults \/ Caller \/ Terminated
           \/ UNCHANGED vars
  <2>1. UNCHANGED <<pc, conns>>
    BY <1>2 DEF Cancel, Producer, QueueChunk, QueueCancelled, CancelChunk,
                CloseWork, producerOnly, CloseResults, Caller, ReceiveResult,
                ReturnToCaller, Terminated, vars
  <2> QED
    BY <1>1, <2>1
<1>3. ASSUME NEW w \in Workers, Worker(w) PROVE PairsTaken'
  <2>1. DOMAIN pc = Workers
    BY DEF TypeOK
  <2>2. CASE Acquire(w)
    BY <2>1, <2>2 DEF Acquire, Goto, PairsTaken
  <2>3. CASE Release(w)
    BY <2>3 DEF Release, PairsTaken
  <2>4. CASE Drain(w)
    BY <1>1, <2>4 DEF Drain
  <2>5. CASE \/ SetupError(w) \/ NewWorker(w) \/ ReportSetupError(w)
             \/ DrainEnd(w) \/ Receive(w) \/ ReceiveEnd(w) \/ Check(w)
             \/ Throttle(w) \/ CallExecute(w) \/ ExecuteOk(w)
             \/ ExecuteError(w) \/ Report(w) \/ WorkerDone(w)
    <3>1. PICK to : pc' = [pc EXCEPT ![w] = to] /\ to # "acquire"
      BY <2>5 DEF SetupError, NewWorker, ReportSetupError, DrainEnd, Receive,
                  ReceiveEnd, Check, Throttle, CallExecute, ExecuteOk,
                  ExecuteError, Report, WorkerDone, Goto
    <3>2. conns' = conns
      BY <2>5 DEF SetupError, NewWorker, ReportSetupError, DrainEnd, Receive,
                  ReceiveEnd, Check, Throttle, CallExecute, ExecuteOk,
                  ExecuteError, Report, WorkerDone
    <3> QED
      BY <2>1, <3>1, <3>2 DEF PairsTaken
  <2> QED
    BY <1>3, <2>2, <2>3, <2>4, <2>5 DEF Worker, WorkerStep
<1> QED
  BY <1>2, <1>3 DEF Next

\* With the work closed and room for a result, a worker that is not done can go,
\* or waits for a pair that a worker holds who can.
LEMMA SomeWorkerCanGo ==
  ASSUME IndInv, PairsTaken, WorkClosed, ResultRoom,
         NEW w \in Workers, pc[w] # "done"
  PROVE  \E v \in Workers : WorkerCanGo(v)
<1>1. ASSUME NEW v \in Workers, pc[v] \notin {"acquire", "done"}
      PROVE  WorkerCanGo(v)
  BY <1>1 DEF IndInv, TypeOK, WorkerPCs, WorkerCanGo
<1>2. CASE pc[w] = "acquire"
  <2>1. CASE conns = {}
    <3>1. Cardinality(conns) = 0 /\ PoolSize \in Nat \ {0}
      BY <2>1, FS_EmptySet, SchedulerAssumption
    <3> QED
      BY <1>2, <3>1 DEF WorkerCanGo
  <2>2. CASE conns # {}
    <3>1. PICK v \in Workers : v \in conns
      BY <2>2 DEF IndInv, TypeOK
    <3>2. pc[v] \notin {"acquire", "done"}
      BY <3>1 DEF PairsTaken, IndInv, Closing
    <3> QED
      BY <1>1, <3>2
  <2> QED
    BY <2>1, <2>2
<1> QED
  BY <1>1, <1>2

\* For any number of workers, chunks and pairs, some goroutine can go on until
\* the caller's loop ends: Schedule cannot deadlock.
THEOREM NeverStuckAlways == Spec => []NeverStuck
<1>1. IndInv /\ PairsTaken => NeverStuck
  <2> SUFFICES ASSUME IndInv, PairsTaken, ~CallerCanGo, ~ProducerCanGo,
                      ~CloserCanGo
               PROVE  \E w \in Workers : WorkerCanGo(w)
    BY DEF NeverStuck
  <2>1. /\ ~resultClosed /\ Len(results) \in Nat /\ received \in Nat
        /\ received <= Len(results) /\ ~(received < Len(results))
    BY DEF CallerCanGo, IndInv, TypeOK, Order
  <2>2. NumChunks \in Nat \ {0} /\ Len(results) - received = 0
    BY <2>1, SchedulerAssumption
  <2>3. ResultRoom
    BY <2>2 DEF ResultRoom
  <2>4. WorkClosed
    BY <2>3 DEF ProducerCanGo, IndInv, TypeOK, WorkClosed
  <2>5. PICK w \in Workers : pc[w] # "done"
    BY <2>1 DEF CloserCanGo
  <2> QED
    BY <2>3, <2>4, <2>5, SomeWorkerCanGo
<1>2. Init => PairsTaken
  BY DEF Init, PairsTaken
<1>3. IndInv => TypeOK
  BY DEF IndInv
<1> QED
  BY <1>1, <1>2, <1>3, PairsTakenStep, Invariance, PTL DEF Spec

----------------------------------------------------------------------------
(* The goroutines implement the contract. *)

Prefix == SubSeq(results, 1, received)

\* What the caller has received, as a prefix of the log of results.
LEMMA PrefixFacts ==
  ASSUME TypeOK, Order
  PROVE  /\ Len(Prefix) = received
         /\ \A i \in 1..received : Prefix[i] = results[i]
BY DEF TypeOK, Order, Prefix

\* A step that moves no result to the caller leaves the prefix alone.
LEMMA PrefixSame ==
  ASSUME TypeOK, Order, received' = received,
         results' = results \/ \E r \in Result : results' = Append(results, r)
  PROVE  Prefix' = Prefix
BY DEF TypeOK, Order, Prefix

\* The next result reaches the caller.
LEMMA PrefixGrows ==
  ASSUME TypeOK, received < Len(results), received' = received + 1,
         results' = results
  PROVE  Prefix' = Append(Prefix, results[received + 1])
BY DEF TypeOK, Prefix

\* Every step of Scheduler is a step of the contract or leaves it unchanged.
LEMMA ContractStep ==
  IndInv /\ [Next]_vars => [Contract!Next]_(Contract!vars)
<1> SUFFICES ASSUME IndInv, [Next]_vars PROVE [Contract!Next]_(Contract!vars)
  OBVIOUS
<1> USE DEF IndInv
<1>1. CASE ReceiveResult
  <2>1. PICK i \in 1..Len(results) : i = received + 1
    BY <1>1 DEF ReceiveResult, TypeOK, Order
  <2>2. PICK r \in Result : r = results[i]
    BY <2>1 DEF TypeOK
  <2>3. /\ Prefix' = Append(Prefix, r)
        /\ UNCHANGED returned
    BY <1>1, <2>1, <2>2, PrefixGrows DEF ReceiveResult
  <2>4. ~returned
    BY <1>1 DEF ReceiveResult, Closing, TypeOK
  <2>5. r.chunk # NoChunk => ~Contract!Mentioned(r.chunk)
    BY <2>1, <2>2, PrefixFacts DEF UniqueResults, Contract!Mentioned, Prefix,
      TypeOK, Order
  <2>6. r.chunk = NoChunk => r.outcome = "err"
    BY <2>1, <2>2 DEF ExecutedSoFar
  <2>7. r \in Contract!Result
    BY DEF Result, Contract!Result, Chunks, Contract!Chunks, NoChunk,
           Contract!NoChunk, Contract!Outcomes
  <2>8. Contract!Deliver(r)
    BY <2>3, <2>4, <2>5, <2>6 DEF Contract!Deliver, Contract!NoChunk, NoChunk,
      Prefix
  <2>9. QED BY <2>7, <2>8 DEF Contract!Next
<1>2. CASE ReturnToCaller
  <2>1. /\ Len(Prefix) = Len(results)
        /\ \A i \in 1..Len(results) : Prefix[i] = results[i]
    BY <1>2, PrefixFacts DEF ReturnToCaller
  <2>2. \A c : Mentioned(c) => Contract!Mentioned(c)
    BY <2>1 DEF Mentioned, Contract!Mentioned, Prefix
  <2>3. Mentioned(NoChunk) \/ \A c \in Chunks : Mentioned(c)
    BY <1>2, ClosedAccounts DEF ReturnToCaller
  <2>4. Prefix' = Prefix
    BY <1>2, PrefixSame DEF ReturnToCaller, callerVars
  <2>5. Contract!Return
    BY <1>2, <2>2, <2>3, <2>4
       DEF ReturnToCaller, Contract!Return, Contract!NoChunk, NoChunk,
           Contract!Chunks, Chunks, Prefix
  <2>6. QED BY <2>5 DEF Contract!Next
<1>3. ASSUME UNCHANGED <<received, returned>>,
             results' = results \/ \E r \in Result :
               results' = Append(results, r)
      PROVE  UNCHANGED Contract!vars
  BY <1>3, PrefixSame DEF Contract!vars, Prefix
<1>4. CASE Cancel \/ CloseResults \/ Terminated \/ UNCHANGED vars
  BY <1>3, <1>4 DEF Cancel, CloseResults, Terminated, vars, callerVars
<1>5. CASE Producer
  <2>1. CASE CancelChunk
    <3>1. [chunk |-> next, outcome |-> "err"] \in Result
      BY <2>1 DEF CancelChunk, Result, Chunks, TypeOK
    <3>2. QED
      BY <1>3, <2>1, <3>1 DEF CancelChunk, SendResult, producerOnly, callerVars
  <2>2. QED
    BY <1>3, <1>5, <2>1 DEF Producer, QueueChunk, QueueCancelled, CloseWork,
                            producerOnly, callerVars
<1>6. ASSUME NEW w \in Workers, Worker(w) PROVE UNCHANGED Contract!vars
  <2>1. UNCHANGED <<received, returned>>
    BY <1>6 DEF Worker, WorkerStep, Acquire, SetupError, NewWorker,
                ReportSetupError, Drain, DrainEnd, Receive, ReceiveEnd, Check,
                Throttle, CallExecute, ExecuteOk, ExecuteError, Report, Release,
                WorkerDone, workerFrame, callerVars
  <2>2. results' = results \/ \E r \in Result : results' = Append(results, r)
    <3>1. \A o \in {"ok", "err"} :
            /\ [chunk |-> NoChunk, outcome |-> o] \in Result
            /\ [chunk |-> holding[w], outcome |-> o] \in Result
      BY DEF TypeOK, Result
    <3>2. CASE ReportSetupError(w) BY <3>1, <3>2 DEF ReportSetupError,
      SendResult
    <3>3. CASE Report(w) BY <3>1, <3>3 DEF Report, SendResult
    <3>4. QED
      BY <1>6, <3>2, <3>3
         DEF Worker, WorkerStep, Acquire, SetupError, NewWorker, Drain,
             DrainEnd, Receive, ReceiveEnd, Check, Throttle, CallExecute,
             ExecuteOk, ExecuteError, Release, WorkerDone
  <2>3. QED BY <1>3, <2>1, <2>2
<1>7. QED
  BY <1>1, <1>2, <1>4, <1>5, <1>6 DEF Next, Caller

\* The goroutines of Schedule implement the contract its caller relies on.
THEOREM SchedulerImplementsContract == Spec => ImplementsContract
<1>1. Init => Contract!Init
  BY DEF Init, Contract!Init
<1>2. QED
  BY <1>1, Invariance, ContractStep, PTL
     DEF Spec, ImplementsContract, Contract!Spec


----------------------------------------------------------------------------
(* How long the goroutines can take *)

Rank == [acquire |-> 6, new |-> 5, setupFailed |-> 4, receive |-> 3,
         drain |-> 3, check |-> 8, throttle |-> 7, execute |-> 6, finish |-> 5,
         reportOk |-> 4, reportErr |-> 4, return |-> 1, done |-> 0]
RankOf(w) == Rank[pc[w]] + IF pc[w] = "return" /\ w \in conns THEN 1 ELSE 0

(* The steps that are left at most: six for each chunk not yet taken, and *)
(* those to the next receive or to the end.                               *)
WorkerLeft(w) == 6 * (NumChunks - taken) + RankOf(w)
ProducerLeft ==
  CASE producer = "closed" -> 0
    [] producer = "cancelling" -> (NumChunks + 1 - next) + 1
    [] OTHER -> (NumChunks + 1 - next) + 2

\* A rank is a small number.
LEMMA RankFacts ==
  ASSUME NEW p \in WorkerPCs
  PROVE  Rank[p] \in 0..8 /\ (p = "return" => Rank[p] = 1)
BY DEF WorkerPCs, Rank

\* A step of a worker lowers its rank, or takes a chunk.
LEMMA RankStep ==
  ASSUME TypeOK, TypeOK', Order, NEW w \in Workers, Worker(w)
  PROVE  /\ \/ taken' = taken /\ RankOf(w)' < RankOf(w)
            \/ taken' = taken + 1 /\ taken < NumChunks
                 /\ RankOf(w)' <= RankOf(w) + 5
         /\ \A v \in Workers \ {w} : RankOf(v)' = RankOf(v)
<1>1. /\ DOMAIN pc = Workers /\ taken \in Nat /\ sent \in Nat
      /\ NumChunks \in Nat /\ taken <= sent /\ sent <= NumChunks
  BY SchedulerAssumption DEF TypeOK, Order
<1>2. CASE Release(w)
  <2>1. /\ pc' = pc /\ pc[w] = "return" /\ w \in conns /\ conns' = conns \ {w}
        /\ taken' = taken
    BY <1>2 DEF Release
  <2>2. RankOf(w) = 2 /\ RankOf(w)' = 1
    BY <2>1 DEF RankOf, Rank
  <2> QED
    BY <2>1, <2>2 DEF RankOf
<1>3. CASE Drain(w)
  <2>1. /\ pc' = pc /\ conns' = conns /\ taken' = taken + 1 /\ pc[w] = "drain"
        /\ taken < sent
    BY <1>3 DEF Drain, WorkAvailable
  <2>2. RankOf(w) = 3 /\ RankOf(w)' = 3
    BY <2>1 DEF RankOf, Rank
  <2> QED
    BY <1>1, <2>1, <2>2 DEF RankOf
<1>4. CASE Receive(w)
  <2>1. /\ conns' = conns /\ taken' = taken + 1 /\ taken < sent
        /\ pc[w] = "receive" /\ pc'[w] = "check"
        /\ \A v \in Workers \ {w} : pc'[v] = pc[v]
    BY <1>1, <1>4 DEF Receive, WorkAvailable, Goto
  <2>2. RankOf(w) = 3 /\ RankOf(w)' = 8
    BY <2>1 DEF RankOf, Rank
  <2> QED
    BY <1>1, <2>1, <2>2 DEF RankOf
<1>5. CASE \/ Acquire(w) \/ SetupError(w) \/ NewWorker(w)
           \/ ReportSetupError(w) \/ DrainEnd(w) \/ ReceiveEnd(w) \/ Check(w)
           \/ Throttle(w) \/ CallExecute(w) \/ ExecuteOk(w)
           \/ ExecuteError(w) \/ Report(w) \/ WorkerDone(w)
  <2>1. /\ taken' = taken
        /\ \A v \in Workers \ {w} :
             pc'[v] = pc[v] /\ (v \in conns' <=> v \in conns)
    BY <1>1, <1>5
       DEF Acquire, SetupError, NewWorker, ReportSetupError, DrainEnd,
           ReceiveEnd, Check, Throttle, CallExecute, ExecuteOk, ExecuteError,
           Report, WorkerDone, Goto
  <2>2. \/ pc[w] = "acquire" /\ pc'[w] \in {"new", "setupFailed"}
        \/ pc[w] = "new" /\ pc'[w] \in {"receive", "setupFailed"}
        \/ pc[w] = "setupFailed" /\ pc'[w] = "drain"
        \/ pc[w] \in {"drain", "receive"} /\ pc'[w] = "return"
        \/ pc[w] = "check" /\ pc'[w] \in {"throttle", "execute", "reportErr"}
        \/ pc[w] = "throttle" /\ pc'[w] \in {"execute", "reportErr"}
        \/ pc[w] = "execute" /\ pc'[w] = "finish"
        \/ pc[w] = "finish" /\ pc'[w] \in {"reportOk", "reportErr"}
        \/ pc[w] \in {"reportOk", "reportErr"} /\ pc'[w] = "receive"
        \/ pc[w] = "return" /\ pc'[w] = "done" /\ w \notin conns
    BY <1>1, <1>5
       DEF Acquire, SetupError, NewWorker, ReportSetupError, DrainEnd,
           ReceiveEnd, Check, Throttle, CallExecute, ExecuteOk, ExecuteError,
           Report, WorkerDone, Goto
  <2>3. RankOf(w)' < RankOf(w)
    BY <2>2 DEF RankOf, Rank
  <2> QED
    BY <2>1, <2>3 DEF RankOf
<1> QED
  BY <1>2, <1>3, <1>4, <1>5 DEF Worker, WorkerStep

\* What is left: the same or less when t of the n chunks are taken and not s.
LEMMA LeftFalls ==
  ASSUME NEW n \in Nat, NEW s \in Nat, NEW t \in Nat, t = s \/ t = s + 1,
         NEW r \in Nat, NEW q \in Nat
  PROVE  /\ q <= r => 6 * (n - t) + q <= 6 * (n - s) + r
         /\ t = s /\ q < r => 6 * (n - t) + q < 6 * (n - s) + r
         /\ t = s + 1 /\ q <= r + 5 => 6 * (n - t) + q < 6 * (n - s) + r
<1>1. 6 * (n - (s + 1)) = 6 * (n - s) - 6
  OBVIOUS
<1>2. CASE t = s
  BY <1>2
<1>3. CASE t = s + 1
  BY <1>1, <1>3
<1> QED
  BY <1>2, <1>3

\* A step of a worker is one step less for it, and not one more for another.
LEMMA WorkerCounts ==
  ASSUME TypeOK, TypeOK', Order, NEW w \in Workers, Worker(w)
  PROVE  /\ WorkerLeft(w)' < WorkerLeft(w)
         /\ \A v \in Workers : WorkerLeft(v)' <= WorkerLeft(v)
         /\ UNCHANGED ProducerLeft
<1>1. /\ NumChunks \in Nat /\ taken \in Nat /\ taken' \in Nat
      /\ \A v \in Workers : pc[v] \in WorkerPCs /\ pc'[v] \in WorkerPCs
  BY SchedulerAssumption DEF TypeOK
<1>2. \A v \in Workers : RankOf(v) \in Nat /\ RankOf(v)' \in Nat
  BY <1>1, RankFacts DEF RankOf
<1>3. /\ \/ taken' = taken /\ RankOf(w)' < RankOf(w)
         \/ taken' = taken + 1 /\ taken < NumChunks
              /\ RankOf(w)' <= RankOf(w) + 5
      /\ \A v \in Workers \ {w} : RankOf(v)' = RankOf(v)
  BY RankStep
<1>4. UNCHANGED <<producer, next>>
  BY DEF Worker, WorkerStep, Acquire, SetupError, NewWorker, ReportSetupError,
         Drain, DrainEnd, Receive, ReceiveEnd, Check, Throttle, CallExecute,
         ExecuteOk, ExecuteError, Report, Release, WorkerDone, workerFrame,
         producerVars
<1>5. WorkerLeft(w)' < WorkerLeft(w)
  <2> DEFINE r == RankOf(w)
  <2>1. PICK s \in Nat : s = RankOf(w)'
    BY <1>2
  <2>2. r \in Nat /\ (\/ taken' = taken /\ s < r
                      \/ taken' = taken + 1 /\ taken < NumChunks /\ s <= r + 5)
    BY <1>2, <1>3, <2>1
  <2> HIDE DEF r
  <2>3. 6 * (NumChunks - taken') + s < 6 * (NumChunks - taken) + r
    BY <1>1, <2>2, LeftFalls
  <2> QED
    BY <2>1, <2>3 DEF WorkerLeft, r
<1>6. ASSUME NEW v \in Workers, v # w
      PROVE  WorkerLeft(v)' <= WorkerLeft(v)
  <2>1. PICK r \in Nat : r = RankOf(v) /\ r = RankOf(v)'
    BY <1>2, <1>3, <1>6
  <2>2. taken' = taken \/ taken' = taken + 1
    BY <1>3
  <2>3. r <= r
    OBVIOUS
  <2>4. 6 * (NumChunks - taken') + r <= 6 * (NumChunks - taken) + r
    BY <1>1, <2>2, <2>3, LeftFalls
  <2> QED
    BY <2>1, <2>4 DEF WorkerLeft
<1>7. WorkerLeft(w)' <= WorkerLeft(w)
  <2>1. WorkerLeft(w) \in Int /\ WorkerLeft(w)' \in Int
    BY <1>1, <1>2 DEF WorkerLeft
  <2> QED
    BY <1>5, <2>1
<1> QED
  BY <1>4, <1>5, <1>6, <1>7 DEF ProducerLeft

\* A step of the producer is one step less for it, and none more for a worker.
LEMMA ProducerCounts ==
  ASSUME TypeOK, Producer
  PROVE  ProducerLeft' < ProducerLeft /\ UNCHANGED <<taken, pc, conns>>
<1>1. next \in 1..NumChunks + 1 /\ NumChunks \in Nat
  BY SchedulerAssumption DEF TypeOK
<1>2. UNCHANGED <<taken, pc, conns>>
  BY DEF Producer, QueueChunk, QueueCancelled, CancelChunk, CloseWork,
         producerOnly
<1>3. CASE QueueChunk
  <2>1. /\ producer = "queueing" /\ producer' = "queueing"
        /\ next' = next + 1
    BY <1>3 DEF QueueChunk
  <2>2. /\ ProducerLeft = (NumChunks + 1 - next) + 2
        /\ ProducerLeft' = (NumChunks + 1 - (next + 1)) + 2
    BY <2>1 DEF ProducerLeft
  <2> QED
    BY <1>1, <1>2, <2>2
<1>4. CASE QueueCancelled
  <2>1. producer = "queueing" /\ producer' = "cancelling" /\ next' = next
    BY <1>4 DEF QueueCancelled
  <2>2. /\ ProducerLeft = (NumChunks + 1 - next) + 2
        /\ ProducerLeft' = (NumChunks + 1 - next) + 1
    BY <2>1 DEF ProducerLeft
  <2> QED
    BY <1>1, <1>2, <2>2
<1>5. CASE CancelChunk
  <2>1. /\ producer = "cancelling" /\ producer' = "cancelling"
        /\ next' = next + 1
    BY <1>5 DEF CancelChunk
  <2>2. /\ ProducerLeft = (NumChunks + 1 - next) + 1
        /\ ProducerLeft' = (NumChunks + 1 - (next + 1)) + 1
    BY <2>1 DEF ProducerLeft
  <2> QED
    BY <1>1, <1>2, <2>2
<1>6. CASE CloseWork
  <2>1. producer \in {"queueing", "cancelling"} /\ producer' = "closed"
    BY <1>6 DEF CloseWork, TypeOK
  <2>2. /\ ProducerLeft' = 0
        /\ \/ ProducerLeft = (NumChunks + 1 - next) + 1
           \/ ProducerLeft = (NumChunks + 1 - next) + 2
    BY <2>1 DEF ProducerLeft
  <2> QED
    BY <1>1, <1>2, <2>2
<1> QED
  BY <1>3, <1>4, <1>5, <1>6 DEF Producer

\* The producer takes NumChunks + 2 steps at most, a worker 6 * NumChunks + 8,
\* whatever is cancelled or fails and whoever receives which chunk, and no step
\* of another goroutine gives them more.  They send all there is to receive, and
\* the caller reads each result once: with NeverStuckAlways, this is what makes
\* its loop end (EventuallyReturned) once everyone is scheduled.
THEOREM WorkIsBounded ==
  Spec => /\ [](ProducerLeft \in 0..NumChunks + 2)
          /\ [](\A w \in Workers : WorkerLeft(w) \in 0..6 * NumChunks + 8)
          /\ [][/\ ProducerLeft' <= ProducerLeft
                /\ Producer => ProducerLeft' < ProducerLeft
                /\ \A w \in Workers :
                     /\ WorkerLeft(w)' <= WorkerLeft(w)
                     /\ Worker(w) => WorkerLeft(w)' < WorkerLeft(w)]_vars
<1>1. IndInv => ProducerLeft \in 0..NumChunks + 2
  <2> SUFFICES ASSUME IndInv PROVE ProducerLeft \in 0..NumChunks + 2
    OBVIOUS
  <2>1. next \in 1..NumChunks + 1 /\ NumChunks \in Nat
    BY SchedulerAssumption DEF IndInv, TypeOK
  <2>2. \/ ProducerLeft = 0
        \/ ProducerLeft = (NumChunks + 1 - next) + 1
        \/ ProducerLeft = (NumChunks + 1 - next) + 2
    BY DEF ProducerLeft
  <2> QED
    BY <2>1, <2>2
<1>2. IndInv => \A w \in Workers : WorkerLeft(w) \in 0..6 * NumChunks + 8
  <2> SUFFICES ASSUME IndInv, NEW w \in Workers
               PROVE  WorkerLeft(w) \in 0..6 * NumChunks + 8
    OBVIOUS
  <2>1. taken \in 0..NumChunks /\ NumChunks \in Nat /\ pc[w] \in WorkerPCs
    BY SchedulerAssumption DEF IndInv, TypeOK
  <2>2. PICK r \in 0..8 : r = RankOf(w)
    BY <2>1, RankFacts DEF RankOf
  <2>3. 6 * (NumChunks - taken) + r \in 0..6 * NumChunks + 8
    BY <2>1
  <2> QED
    BY <2>2, <2>3 DEF WorkerLeft
<1>3. IndInv /\ IndInv' /\ [Next]_vars =>
        [/\ ProducerLeft' <= ProducerLeft
         /\ Producer => ProducerLeft' < ProducerLeft
         /\ \A w \in Workers :
              /\ WorkerLeft(w)' <= WorkerLeft(w)
              /\ Worker(w) => WorkerLeft(w)' < WorkerLeft(w)]_vars
  <2> SUFFICES ASSUME IndInv, IndInv', Next
               PROVE  /\ ProducerLeft' <= ProducerLeft
                      /\ Producer => ProducerLeft' < ProducerLeft
                      /\ \A w \in Workers :
                           /\ WorkerLeft(w)' <= WorkerLeft(w)
                           /\ Worker(w) => WorkerLeft(w)' < WorkerLeft(w)
    OBVIOUS
  <2>1. TypeOK /\ TypeOK' /\ Order
    BY DEF IndInv
  <2>2. /\ ProducerLeft \in Int /\ ProducerLeft' \in Int
        /\ \A w \in Workers : WorkerLeft(w) \in Int /\ WorkerLeft(w)' \in Int
    <3>1. ProducerLeft \in Int /\ \A w \in Workers : WorkerLeft(w) \in Int
      BY <1>1, <1>2, SchedulerAssumption
    <3>2. (ProducerLeft \in Int /\ \A w \in Workers : WorkerLeft(w) \in Int)'
      <4>1. (IndInv => /\ ProducerLeft \in 0..NumChunks + 2
                       /\ \A w \in Workers :
                            WorkerLeft(w) \in 0..6 * NumChunks + 8)'
        BY <1>1, <1>2, PTL
      <4> QED
        BY <4>1, SchedulerAssumption
    <3> QED
      BY <3>1, <3>2
  <2>3. Producer => ProducerLeft' < ProducerLeft
    BY <2>1, ProducerCounts
  <2>4. \A w \in Workers : Worker(w) => WorkerLeft(w)' < WorkerLeft(w)
    BY <2>1, WorkerCounts
  <2>5. CASE \E w \in Workers : Worker(w)
    <3>1. ProducerLeft' = ProducerLeft
      BY <2>1, <2>5, WorkerCounts
    <3>2. \A v \in Workers : WorkerLeft(v)' <= WorkerLeft(v)
      BY <2>1, <2>5, WorkerCounts
    <3> QED
      BY <2>2, <2>3, <2>4, <3>1, <3>2
  <2>6. CASE Producer
    <3>1. \A w \in Workers : WorkerLeft(w)' = WorkerLeft(w)
      BY <2>1, <2>6, ProducerCounts DEF WorkerLeft, RankOf
    <3>2. \A w \in Workers : WorkerLeft(w)' <= WorkerLeft(w)
      BY <2>2, <3>1
    <3>3. ProducerLeft' <= ProducerLeft
      BY <2>2, <2>3, <2>6
    <3> QED
      BY <2>3, <2>4, <3>2, <3>3
  <2>7. CASE Cancel \/ CloseResults \/ Caller \/ Terminated
    <3>1. UNCHANGED <<producer, next, taken, pc, conns>>
      BY <2>7 DEF Cancel, CloseResults, Caller, ReceiveResult, ReturnToCaller,
                  Terminated, vars, producerVars
    <3>2. /\ ProducerLeft' = ProducerLeft
          /\ \A w \in Workers : WorkerLeft(w)' = WorkerLeft(w)
      BY <3>1 DEF ProducerLeft, WorkerLeft, RankOf
    <3> QED
      BY <2>2, <2>3, <2>4, <3>2
  <2> QED
    BY <2>5, <2>6, <2>7 DEF Next
<1> QED
  BY <1>1, <1>2, <1>3, Invariance, PTL DEF Spec

=============================================================================
