--------------------------- MODULE ChunkerProofs ---------------------------
(* Theorems about Chunker for every word size, file size and chunk size. *)
EXTENDS Chunker, TLAPS

\* A requested size is a word.
LEMMA ParsedIsWord ==
  ASSUME NEW r \in Requests \cup {Automatic}
  PROVE  ParsedSize(r) \in 0..Modulus - 1
<1> USE ChunkerAssumption
<1>1. r[1] \in Nat /\ r[2] \in Nat
  <2>1. CASE r = Automatic BY <2>1 DEF Automatic
  <2>2. CASE r \in Requests
    <3>1. r \in Nat \X Nat BY <2>2
    <3>2. QED BY <3>1
  <2>3. QED BY <2>1, <2>2
<1> DEFINE n == r[1] * r[2]
<1>2. n \in Nat BY <1>1
<1> HIDE DEF n
<1>3. Wrap(n) \in 0..Modulus - 1 BY <1>2 DEF Wrap
<1>4. QED BY <1>3 DEF ParsedSize, n

\* The share of a worker is a number.
LEMMA ShareIsInt ==
  ASSUME NEW s \in Sizes, NEW w \in WorkerCounts
  PROVE  CeilDiv(s, AtLeastOne(w)) \in Int
<1> USE ChunkerAssumption
<1> DEFINE d == AtLeastOne(w)
           n == Plus(Plus(s, d), Modulus - 1)
<1>1. d \in Nat \ {0} BY DEF AtLeastOne
<1>2. n \in Int BY <1>1 DEF Plus
<1>3. CeilDiv(s, d) = n \div d BY <1>1 DEF CeilDiv
<1> HIDE DEF n, d
<1>4. n \div d \in Int BY <1>1, <1>2
<1>5. QED BY <1>3, <1>4 DEF d

\* The size chosen for the chunks is a positive word.
LEMMA ChosenSizeIsPositive ==
  ASSUME NEW s \in Sizes, NEW w \in WorkerCounts,
         NEW r \in Requests \cup {Automatic}
  PROVE  ChosenSize(s, w, r) \in 1..Modulus - 1
<1> DEFINE lo == OrDefault(ParsedSize(r), DefaultMin)
           hi == OrDefault(ParsedSize(r), DefaultMax)
           share == CeilDiv(s, AtLeastOne(w))
<1>1. lo \in 1..Modulus - 1 /\ hi \in 1..Modulus - 1
  BY ChunkerAssumption, ParsedIsWord DEF OrDefault
<1>2. share \in Int BY ShareIsInt
<1> HIDE DEF lo, hi, share
<1>3. Clamp(share, Lowest(lo, hi), Highest(lo, hi)) \in 1..Modulus - 1
  BY <1>1, <1>2, ChunkerAssumption DEF Clamp, Lowest, Highest
<1>4. QED BY <1>3 DEF ChosenSize, lo, hi, share

\* Types, the tiling of what is covered, and what the loop keeps true.
IndInv == TypeOK /\ Tiling /\ CoveredUpTo <= size /\ LoopInv

\* Before the loop nothing is covered.
LEMMA InitIndInv == Init => IndInv
BY ChunkerAssumption
   DEF Init, IndInv, TypeOK, Tiling, CoveredUpTo, LoopInv

\* Cutting one more chunk.
LEMMA CutStep == IndInv /\ Cut => IndInv'
<1> SUFFICES ASSUME IndInv, Cut PROVE IndInv'
  OBVIOUS
<1> USE ChunkerAssumption
<1>1. /\ size \in Nat /\ 2 * size <= Modulus
      /\ chunkSize \in 1..Modulus - 1
      /\ offset \in 0..size - 1
      /\ offset = 0 \/ offset >= chunkSize
      /\ CoveredUpTo = offset
  BY DEF IndInv, TypeOK, LoopInv, Cut, Lowest
<1>2. offset' = offset + chunkSize /\ offset' < Modulus
  BY <1>1 DEF Cut, Plus
<1> DEFINE len == Lowest(size - offset, chunkSize)
<1>3. len \in Nat /\ len > 0 /\ offset + len = Lowest(offset', size)
  BY <1>1, <1>2 DEF Lowest
<1>4. /\ chunks \in Seq([offset : Nat, length : Nat])
      /\ chunks' = Append(chunks, [offset |-> offset, length |-> len])
  BY DEF IndInv, TypeOK, Cut
<1> HIDE DEF len
<1>5. /\ chunks' \in Seq([offset : Nat, length : Nat])
      /\ Len(chunks') = Len(chunks) + 1
      /\ \A i \in 1..Len(chunks) : chunks'[i] = chunks[i]
      /\ chunks'[Len(chunks) + 1] = [offset |-> offset, length |-> len]
  <2> DEFINE E == [offset : Nat, length : Nat]
             e == [offset |-> offset, length |-> len]
  <2>1. e \in E BY <1>1, <1>3
  <2>2. chunks \in Seq(E) /\ chunks' = Append(chunks, e) BY <1>4
  <2> HIDE DEF E, e
  <2>3. /\ chunks' \in Seq(E)
        /\ Len(chunks') = Len(chunks) + 1
        /\ \A i \in 1..Len(chunks) : chunks'[i] = chunks[i]
        /\ chunks'[Len(chunks) + 1] = e
    BY <2>1, <2>2
  <2>4. QED BY <2>3 DEF E, e
<1>6. CoveredUpTo' = offset + len
  <2>1. Len(chunks) \in Nat /\ Len(<< >>) = 0 BY <1>4
  <2>2. chunks' # << >> BY <1>5, <2>1
  <2>3. QED BY <1>5, <2>2 DEF CoveredUpTo
<1>7. Tiling'
  <2>1. offset = IF Len(chunks) = 0 THEN 0
                 ELSE chunks[Len(chunks)].offset + chunks[Len(chunks)].length
    BY <1>1, <1>4 DEF CoveredUpTo
  <2>2. SUFFICES ASSUME NEW i \in 1..Len(chunks) + 1
        PROVE  /\ chunks'[i].length > 0
               /\ chunks'[i].offset =
                    IF i = 1 THEN 0
                    ELSE chunks'[i - 1].offset + chunks'[i - 1].length
    BY <1>5 DEF Tiling
  <2>3. CASE i = Len(chunks) + 1 BY <1>3, <1>4, <1>5, <2>1, <2>3
  <2>4. CASE i # Len(chunks) + 1
    <3>1. i \in 1..Len(chunks) /\ (i # 1 => i - 1 \in 1..Len(chunks))
      BY <1>4, <2>4
    <3>2. QED BY <1>5, <3>1 DEF IndInv, Tiling
  <2>5. QED BY <2>3, <2>4
<1>8. TypeOK'
  BY <1>1, <1>2, <1>5 DEF IndInv, TypeOK, Cut, inputs
<1>9. LoopInv' /\ CoveredUpTo' <= size'
  BY <1>1, <1>2, <1>3, <1>6 DEF LoopInv, Lowest, Cut, inputs
<1>10. QED BY <1>7, <1>8, <1>9 DEF IndInv

\* Every step keeps the invariant.
LEMMA NextIndInv == IndInv /\ [Next]_vars => IndInv'
<1> SUFFICES ASSUME IndInv, [Next]_vars PROVE IndInv'
  OBVIOUS
<1> USE ChunkerAssumption DEF IndInv, TypeOK, inputs
<1>1. CASE Choose
  <2>1. chunks = << >> /\ offset = 0 /\ UNCHANGED <<inputs, offset, chunks>>
    BY <1>1 DEF Choose, LoopInv
  <2>2. CoveredUpTo = 0 /\ CoveredUpTo' = 0 BY <2>1 DEF CoveredUpTo
  <2>3. CASE size = 0
    BY <1>1, <2>1, <2>2, <2>3 DEF Choose, LoopInv, Tiling
  <2>4. CASE size # 0
    <3>1. chunkSize' = ChosenSize(size, workers, request) /\ pc' = "loop"
      BY <1>1, <2>4 DEF Choose
    <3>2. ChosenSize(size, workers, request) \in 1..Modulus - 1
      BY ChosenSizeIsPositive
    <3>3. QED BY <2>1, <2>2, <3>1, <3>2 DEF LoopInv, Tiling, Lowest
  <2>5. QED BY <2>3, <2>4
<1>2. CASE Cut BY <1>2, CutStep
<1>3. CASE Finish
  BY <1>3 DEF Finish, LoopInv, Tiling, CoveredUpTo, Lowest
<1>4. CASE Terminated \/ UNCHANGED vars
  BY <1>4 DEF Terminated, vars, LoopInv, Tiling, CoveredUpTo
<1>5. QED BY <1>1, <1>2, <1>3, <1>4 DEF Next

\* The invariant that the two theorems below rest on.
THEOREM Invariance == Spec => []IndInv
BY InitIndInv, NextIndInv, PTL DEF Spec

\* Every variable keeps its type: in particular no offset leaves the word.
THEOREM TypeCorrect == Spec => []TypeOK
<1>1. IndInv => TypeOK BY DEF IndInv
<1>2. QED BY <1>1, Invariance, PTL

\* The chunks of a file of any int64 size are exactly the file, for any worker
\* count, any requested size and any defaults.
THEOREM ChunksPartitionFile == Spec => []Partition
<1>1. IndInv => Partition BY DEF IndInv, Partition, LoopInv
<1>2. QED BY <1>1, Invariance, PTL

-----------------------------------------------------------------------------

\* An explicit size is the size of the chunks, whatever the worker count.
LEMMA RequestIsChosen ==
  ASSUME NEW s \in Sizes, NEW w \in WorkerCounts,
         NEW r \in Requests \cup {Automatic}, ParsedSize(r) # 0
  PROVE  ChosenSize(s, w, r) = ParsedSize(r)
<1>1. CeilDiv(s, AtLeastOne(w)) \in Int /\ ParsedSize(r) \in Int
  BY ShareIsInt, ParsedIsWord
<1> DEFINE share == CeilDiv(s, AtLeastOne(w))
           p == ParsedSize(r)
<1>2. ChosenSize(s, w, r) = Clamp(share, Lowest(p, p), Highest(p, p))
  BY DEF ChosenSize, OrDefault
<1> HIDE DEF share, p
<1> QED
  BY <1>1, <1>2 DEF Clamp, Lowest, Highest, share, p

\* The fair share of a worker, where it is more than one byte, is enough for
\* all of them together.
LEMMA ShareIsEnough ==
  ASSUME NEW s \in Sizes, NEW w \in WorkerCounts, s > 0,
         CeilDiv(s, AtLeastOne(w)) > 1
  PROVE  s <= CeilDiv(s, AtLeastOne(w)) * AtLeastOne(w)
<1> DEFINE d == AtLeastOne(w)
           n == Plus(Plus(s, d), Modulus - 1)
           q == n \div d
<1>1. /\ s \in Nat \ {0} /\ 2 * s <= Modulus /\ d \in Nat \ {0}
      /\ Modulus \in Nat \ {0}
  BY ChunkerAssumption DEF AtLeastOne
<1> HIDE DEF d
<1>2. n = s + d - 1 \/ n = s + d - 1 - Modulus
  BY <1>1 DEF Plus
<1>3. CeilDiv(s, AtLeastOne(w)) = q
  BY <1>1 DEF CeilDiv, d
<1> HIDE DEF n
<1>4. n \in Nat
  <2>1. n = s + d - 1 - Modulus => Modulus <= s + d - 1
    BY <1>1 DEF n, Plus
  <2> QED
    BY <1>1, <1>2, <2>1
<1>5. q \in Nat /\ q * d <= n /\ n < q * d + d
  BY <1>1, <1>4
<1> HIDE DEF q
<1>6. q > 1
  BY <1>3
<1>7. q * d >= 2 * d
  <2>1. q - 2 \in Nat
    BY <1>5, <1>6
  <2>2. (q - 2) * d \in Nat
    BY <1>1, <2>1
  <2>3. q * d = (q - 2) * d + 2 * d
    BY <1>1, <1>5
  <2> QED
    BY <1>1, <2>2, <2>3
<1>8. n = s + d - 1
  BY <1>1, <1>2, <1>5, <1>7
<1>9. s <= q * d
  BY <1>1, <1>5, <1>8
<1> QED
  BY <1>3, <1>9 DEF d

(* The loop has advanced by whole chunks, and all but the last are whole. *)
Even ==
  /\ pc = "start" => chunkSize = 0
  /\ pc # "start" /\ size > 0 =>
       chunkSize = ChosenSize(size, workers, request)
  /\ chunks # << >> => size > 0
  /\ offset = Len(chunks) * chunkSize
  /\ \A i \in 1..Len(chunks) :
       /\ chunks[i].offset = (i - 1) * chunkSize
       /\ chunks[i].offset < size
       /\ i < Len(chunks) => chunks[i].length = chunkSize

\* Cutting one more chunk keeps the chunks even.
LEMMA CutEven == IndInv /\ Even /\ Cut => Even'
<1> SUFFICES ASSUME IndInv, Even, Cut PROVE Even'
  OBVIOUS
<1> USE ChunkerAssumption
<1> DEFINE n == Len(chunks)
           new == [offset |-> offset,
                   length |-> Lowest(size - offset, chunkSize)]
<1>1. /\ size \in Nat /\ 2 * size <= Modulus /\ chunkSize \in 1..Modulus - 1
      /\ offset \in 0..size - 1 /\ CoveredUpTo = offset /\ pc = "loop"
      /\ chunks \in Seq([offset : Nat, length : Nat])
      /\ offset < Modulus
      /\ offset = 0 \/ offset >= chunkSize
  BY DEF IndInv, TypeOK, LoopInv, Cut, Lowest
<1>2. n \in Nat
  BY <1>1
<1>3. offset' = offset + chunkSize
  BY <1>1 DEF Cut, Plus
<1>4. /\ Len(chunks') = n + 1 /\ chunks'[n + 1] = new
      /\ \A i \in 1..n : chunks'[i] = chunks[i]
  <2> DEFINE E == [offset : Nat, length : Nat]
  <2>1. chunks \in Seq(E) /\ chunks' = Append(chunks, new)
    BY <1>1 DEF Cut
  <2> HIDE DEF E, new
  <2> QED
    BY <2>1
<1>5. UNCHANGED <<size, workers, request, chunkSize, pc>>
  BY DEF Cut, inputs
<1>6. offset = n * chunkSize
  BY DEF Even
<1>7. (n + 1) * chunkSize = n * chunkSize + chunkSize
  BY <1>1, <1>2
<1>8. offset' = (n + 1) * chunkSize
  BY <1>3, <1>6, <1>7
<1>9. ASSUME n > 0 PROVE chunks[n].length = chunkSize
  <2>1. n \in 1..n /\ chunks # << >>
    BY <1>2, <1>9
  <2>2. chunks[n].offset = (n - 1) * chunkSize
    BY <2>1 DEF Even
  <2>3. chunks[n].offset + chunks[n].length = n * chunkSize
    BY <1>1, <1>6, <2>1 DEF CoveredUpTo
  <2>4. n * chunkSize = (n - 1) * chunkSize + chunkSize
    BY <1>1, <1>2
  <2>5. chunks[n] \in [offset : Nat, length : Nat]
    <3> DEFINE E == [offset : Nat, length : Nat]
    <3>1. chunks \in Seq(E)
      BY <1>1
    <3> HIDE DEF E
    <3>2. chunks[n] \in E
      BY <2>1, <3>1
    <3> QED
      BY <3>2 DEF E
  <2>6. chunks[n].length \in Nat /\ (n - 1) * chunkSize \in Int
    BY <1>1, <1>2, <2>5
  <2> QED
    BY <1>1, <2>2, <2>3, <2>4, <2>6
<1>10. ASSUME NEW i \in 1..n + 1
       PROVE  /\ chunks'[i].offset = (i - 1) * chunkSize
              /\ chunks'[i].offset < size
              /\ i < n + 1 => chunks'[i].length = chunkSize
  <2>1. CASE i = n + 1
    <3>1. i - 1 = n
      BY <1>2, <2>1
    <3>2. chunks'[i].offset = offset
      BY <1>4, <2>1
    <3> QED
      BY <1>1, <1>2, <1>6, <2>1, <3>1, <3>2
  <2>2. CASE i < n
    <3>1. i \in 1..n
      BY <1>2, <2>2
    <3> QED
      BY <1>4, <2>2, <3>1 DEF Even
  <2>3. CASE i = n
    <3>1. i \in 1..n
      BY <1>2, <2>3
    <3> QED
      BY <1>4, <1>9, <2>3, <3>1 DEF Even
  <2> QED
    BY <1>2, <2>1, <2>2, <2>3
<1> HIDE DEF n, new
<1>11. size > 0 /\ Len(chunks') = n + 1
  BY <1>1, <1>4
<1>12. chunkSize = ChosenSize(size, workers, request)
  BY <1>1, <1>11 DEF Even
<1> QED
  BY <1>1, <1>5, <1>8, <1>10, <1>11, <1>12 DEF Even

\* So does every step.
LEMMA NextEven == IndInv /\ Even /\ [Next]_vars => Even'
<1> SUFFICES ASSUME IndInv, Even, [Next]_vars PROVE Even'
  OBVIOUS
<1>1. CASE Choose
  <2>1. /\ chunks = << >> /\ chunks' = << >> /\ offset' = 0 /\ pc' # "start"
        /\ UNCHANGED <<size, workers, request>>
    BY <1>1 DEF Choose, IndInv, LoopInv, inputs
  <2>2. size > 0 => chunkSize' = ChosenSize(size, workers, request)
    BY <1>1 DEF Choose
  <2>3. chunkSize' \in Int
    <3>1. CASE size = 0
      BY <1>1, <3>1, ChunkerAssumption DEF Choose, IndInv, TypeOK
    <3>2. CASE size # 0
      <4>1. chunkSize' = ChosenSize(size, workers, request)
        BY <1>1, <3>2 DEF Choose
      <4> QED
        BY <4>1, ChosenSizeIsPositive, ChunkerAssumption DEF IndInv, TypeOK
    <3> QED
      BY <3>1, <3>2
  <2> DEFINE c == chunkSize'
  <2> HIDE DEF c
  <2>4. 0 * c = 0
    <3>1. \A x \in Int : 0 * x = 0
      OBVIOUS
    <3>2. c \in Int
      BY <2>3 DEF c
    <3> QED
      BY <3>1, <3>2
  <2>5. Len(chunks') = 0 /\ 1..Len(chunks') = {}
    BY <2>1
  <2> QED
    BY <2>1, <2>2, <2>4, <2>5 DEF Even, c
<1>2. CASE Cut
  BY <1>2, CutEven
<1>3. CASE Finish
  BY <1>3 DEF Finish, Even, inputs
<1>4. CASE Terminated \/ UNCHANGED vars
  BY <1>4 DEF Terminated, vars, Even
<1> QED
  BY <1>1, <1>2, <1>3, <1>4 DEF Next

\* The chunks are even in every reachable state.
THEOREM EvenAlways == Spec => []Even
<1>1. Init => Even
  <2> SUFFICES ASSUME Init PROVE Even
    OBVIOUS
  <2>1. chunks = << >> /\ Len(chunks) = 0 /\ chunkSize = 0 /\ offset = 0
    BY DEF Init
  <2> QED
    BY <2>1 DEF Init, Even
<1> QED
  BY <1>1, NextEven, Invariance, PTL DEF Spec

\* An explicit chunk size gives the same chunks whatever the worker count.
THEOREM PlanIgnoresWorkersAlways == Spec => []PlanIgnoresWorkers
<1>1. IndInv /\ Even => PlanIgnoresWorkers
  <2> SUFFICES ASSUME IndInv, Even, ParsedSize(request) # 0,
                      NEW i \in 1..Len(chunks)
               PROVE  /\ chunks[i].offset = (i - 1) * ParsedSize(request)
                      /\ i < Len(chunks) =>
                           chunks[i].length = ParsedSize(request)
    BY DEF PlanIgnoresWorkers
  <2>1. /\ size \in Sizes /\ workers \in WorkerCounts
        /\ request \in Requests \cup {Automatic}
        /\ chunks \in Seq([offset : Nat, length : Nat])
    BY DEF IndInv, TypeOK
  <2>2. chunks # << >>
    BY <2>1
  <2>3. chunkSize = ParsedSize(request)
    BY <2>1, <2>2, RequestIsChosen DEF Even, IndInv, LoopInv
  <2> QED
    BY <2>3 DEF Even
<1> QED
  BY <1>1, Invariance, EvenAlways, PTL

\* Between the bounds, there are no more chunks than workers.
THEOREM OneChunkPerWorkerAlways == Spec => []OneChunkPerWorker
<1>1. IndInv /\ Even => OneChunkPerWorker
  <2> SUFFICES ASSUME IndInv, Even, ParsedSize(request) = 0, pc = "done",
                      chunkSize > DefaultMin, chunkSize < DefaultMax
               PROVE  Len(chunks) <= AtLeastOne(workers)
    BY DEF OneChunkPerWorker
  <2> DEFINE n == Len(chunks)
             d == AtLeastOne(workers)
             share == CeilDiv(size, d)
  <2>1. /\ size \in Sizes /\ workers \in WorkerCounts
        /\ request \in Requests \cup {Automatic}
        /\ chunks \in Seq([offset : Nat, length : Nat])
        /\ chunkSize \in Nat
    BY ChunkerAssumption DEF IndInv, TypeOK
  <2> SUFFICES ASSUME chunks # << >>
               PROVE  Len(chunks) <= AtLeastOne(workers)
    BY <2>1, ChunkerAssumption DEF AtLeastOne
  <2>2. size > 0 /\ chunkSize = ChosenSize(size, workers, request)
    BY DEF Even
  <2>3. share \in Int /\ d \in Nat \ {0}
    BY <2>1, ShareIsInt, ChunkerAssumption DEF AtLeastOne
  <2>4. ChosenSize(size, workers, request) =
          Clamp(share, Lowest(DefaultMin, DefaultMax),
                Highest(DefaultMin, DefaultMax))
    BY DEF ChosenSize, OrDefault
  <2> HIDE DEF share
  <2>5. chunkSize = share
    BY <2>2, <2>3, <2>4, ChunkerAssumption DEF Clamp, Lowest, Highest
  <2>6. share > 1
    BY <2>1, <2>3, <2>5, ChunkerAssumption
  <2>7. size <= share * d
    BY <2>1, <2>2, <2>6, ShareIsEnough DEF share
  <2> HIDE DEF d
  <2>8. n \in Nat \ {0} /\ n \in 1..n
    BY <2>1
  <2>9. (n - 1) * share < size
    BY <2>5, <2>8 DEF Even
  <2> HIDE DEF n
  <2>10. ASSUME n > d PROVE FALSE
    <3> DEFINE k == n - 1 - d
    <3>1. k \in Nat /\ n - 1 = d + k
      BY <2>3, <2>8, <2>10
    <3> HIDE DEF k
    <3>2. (d + k) * share = share * d + k * share
      BY <2>3, <3>1
    <3>3. k * share \in Nat
      BY <2>3, <2>6, <3>1
    <3>4. size \in Nat
      BY <2>1, ChunkerAssumption
    <3>5. share * d \in Int
      BY <2>3
    <3> QED
      BY <2>7, <2>9, <3>1, <3>2, <3>3, <3>4, <3>5
  <2> QED
    BY <2>3, <2>8, <2>10 DEF n, d
<1> QED
  BY <1>1, Invariance, EvenAlways, PTL

-----------------------------------------------------------------------------
(* How long the loop can take *)

(* The steps that are left at most: one for every byte not covered yet. *)
StepsLeft ==
  CASE pc = "start" -> size + 2
    [] pc = "loop" -> size - Lowest(offset, size) + 1
    [] OTHER -> 0

\* The loop advances with every pass, however small the chunks and however close
\* the offset comes to the largest word: the addition to offset cannot wrap it
\* back into the file, and so nothing but the scheduler keeps it from its end.
THEOREM LoopAdvances ==
  Spec => [](StepsLeft \in Nat) /\ [][StepsLeft' < StepsLeft]_vars
<1>1. IndInv => StepsLeft \in Nat
  <2> SUFFICES ASSUME IndInv PROVE StepsLeft \in Nat
    OBVIOUS
  <2>1. /\ size \in Nat /\ offset \in Nat
        /\ pc \in {"start", "loop", "done"}
    BY ChunkerAssumption DEF IndInv, TypeOK
  <2>2. size - Lowest(offset, size) \in Nat
    BY <2>1 DEF Lowest
  <2>3. CASE pc = "start"
    BY <2>1, <2>3 DEF StepsLeft
  <2>4. CASE pc = "loop"
    BY <2>2, <2>4 DEF StepsLeft
  <2>5. CASE pc = "done"
    BY <2>5 DEF StepsLeft
  <2> QED
    BY <2>1, <2>3, <2>4, <2>5
<1>2. IndInv /\ [Next]_vars => [StepsLeft' < StepsLeft]_vars
  <2> SUFFICES ASSUME IndInv, Next, vars' # vars
               PROVE  StepsLeft' < StepsLeft
    OBVIOUS
  <2>1. size \in Nat /\ 2 * size <= Modulus /\ offset \in 0..Modulus - 1
        /\ Modulus \in Nat
    BY ChunkerAssumption DEF IndInv, TypeOK
  <2>2. CASE Choose
    <3>1. /\ pc = "start" /\ pc' \in {"loop", "done"} /\ offset' = offset
          /\ size' = size /\ offset = 0
      BY <2>2 DEF Choose, inputs, IndInv, LoopInv
    <3>2. StepsLeft = size + 2
      BY <3>1 DEF StepsLeft
    <3>3. CASE pc' = "loop"
      <4>1. StepsLeft' = size - Lowest(offset, size) + 1
        BY <3>1, <3>3 DEF StepsLeft
      <4> QED
        BY <2>1, <3>1, <3>2, <4>1 DEF Lowest
    <3>4. CASE pc' = "done"
      <4>1. StepsLeft' = 0
        BY <3>4 DEF StepsLeft
      <4> QED
        BY <2>1, <3>2, <4>1
    <3> QED
      BY <3>1, <3>3, <3>4
  <2>3. CASE Cut
    <3>1. /\ pc = "loop" /\ pc' = "loop" /\ size' = size /\ offset < size
          /\ offset' = Plus(offset, chunkSize)
      BY <2>3 DEF Cut, inputs
    <3>2. /\ chunkSize \in 1..Modulus - 1
          /\ offset = 0 \/ offset >= chunkSize
      BY <3>1 DEF IndInv, TypeOK, LoopInv
    <3>3. offset' = offset + chunkSize
      BY <2>1, <3>1, <3>2 DEF Plus
    <3>4. /\ StepsLeft = size - Lowest(offset, size) + 1
          /\ StepsLeft' = size - Lowest(offset', size) + 1
      BY <3>1 DEF StepsLeft
    <3>5. /\ Lowest(offset, size) = offset
          /\ Lowest(offset', size) > offset /\ Lowest(offset', size) \in Nat
      BY <2>1, <3>1, <3>2, <3>3 DEF Lowest
    <3> QED
      BY <2>1, <3>4, <3>5
  <2>4. CASE Finish
    <3>1. /\ pc = "loop" /\ pc' = "done" /\ offset >= size
      BY <2>4 DEF Finish
    <3>2. StepsLeft = size - Lowest(offset, size) + 1 /\ StepsLeft' = 0
      BY <3>1 DEF StepsLeft
    <3> QED
      BY <2>1, <3>1, <3>2 DEF Lowest
  <2>5. CASE Terminated
    BY <2>5 DEF Terminated
  <2> QED
    BY <2>2, <2>3, <2>4, <2>5 DEF Next
<1> QED
  BY <1>1, <1>2, Invariance, PTL DEF Spec

=============================================================================
