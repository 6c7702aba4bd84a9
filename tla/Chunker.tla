------------------------------ MODULE Chunker ------------------------------
(***************************************************************************)
(* DefaultFileChunker.Chunk (pkg/transfer/chunker.go), with the chunk size *)
(* the command line asks for (buildChunkConfig and parseByteSize in        *)
(* cmd/goscp/run.go): the choice of a chunk size and the loop that cuts    *)
(* the file, in arithmetic modulo Modulus (2^64 for uint64).               *)
(***************************************************************************)
EXTENDS Integers, Sequences

CONSTANTS Modulus,        \* of uint64
          DefaultMin,     \* defaultMinChunkSize
          DefaultMax,     \* defaultMaxChunkSize
          Sizes,          \* file sizes: os.FileInfo sizes, which are int64
          WorkerCounts,   \* cfg.NumWorkers
          Requests        \* explicit values of --chunk-size: <<number, unit>>

\* --chunk-size auto, or none.
Automatic == <<0, 1>>

ASSUME ChunkerAssumption ==
  /\ Modulus \in Nat \ {0}
  /\ DefaultMin \in 1..Modulus - 1
  /\ DefaultMax \in 1..Modulus - 1
  /\ \A s \in Sizes : s \in Nat /\ 2 * s <= Modulus
  /\ WorkerCounts \subseteq Int
  /\ Requests \subseteq Nat \X Nat

VARIABLES
  size,         \* file.Size
  workers,      \* cfg.NumWorkers
  request,      \* the requested chunk size
  chunkSize,
  offset,
  chunks,       \* the chunks appended so far: [offset, length]
  pc            \* "start", "loop" or "done"

vars == <<size, workers, request, chunkSize, offset, chunks, pc>>
inputs == <<size, workers, request>>

----------------------------------------------------------------------------
(* uint64 arithmetic *)

\* Slip: a product that leaves the word is kept.
WrapNot(n) == n

Wrap(n) == IF n < Modulus THEN n ELSE n % Modulus
\* Sums of two values below Modulus.
Plus(a, b) == IF a + b < Modulus THEN a + b ELSE a + b - Modulus

\* parseByteSize: the product of the number and its unit.
ParsedSize(r) == Wrap(r[1] * r[2])

\* Slip: a remainder is dropped.
FloorDiv(n, d) == IF d = 0 THEN 0 ELSE n \div d

\* (n + d - 1) / d
CeilDiv(n, d) == IF d = 0 THEN 0 ELSE Plus(Plus(n, d), Modulus - 1) \div d

Clamp(v, lo, hi) == IF v < lo THEN lo ELSE IF v > hi THEN hi ELSE v

\* A zero size means the default; buildChunkConfig sets both bounds to the
\* requested size.
OrDefault(v, default) == IF v = 0 THEN default ELSE v
Lowest(a, b) == IF a > b THEN b ELSE a
Highest(a, b) == IF a > b THEN a ELSE b
AtLeastOne(w) == IF w <= 0 THEN 1 ELSE w

\* Slip: an explicit size sets the lower bound only.
ChosenSizeMinOnly(s, w, r) ==
  LET minSize == OrDefault(ParsedSize(r), DefaultMin)
      autoSize == CeilDiv(s, AtLeastOne(w))
  IN  Clamp(autoSize, Lowest(minSize, DefaultMax), Highest(minSize, DefaultMax))

ChosenSize(s, w, r) ==
  LET minSize == OrDefault(ParsedSize(r), DefaultMin)
      maxSize == OrDefault(ParsedSize(r), DefaultMax)
      autoSize == CeilDiv(s, AtLeastOne(w))
  IN  Clamp(autoSize, Lowest(minSize, maxSize), Highest(minSize, maxSize))

----------------------------------------------------------------------------

Init ==
  /\ size \in Sizes
  /\ workers \in WorkerCounts
  /\ request \in Requests \cup {Automatic}
  /\ chunkSize = 0
  /\ offset = 0
  /\ chunks = << >>
  /\ pc = "start"

\* An empty file has no chunks.
Choose ==
  /\ pc = "start"
  /\ IF size = 0
       THEN pc' = "done" /\ UNCHANGED chunkSize
       ELSE pc' = "loop" /\ chunkSize' = ChosenSize(size, workers, request)
  /\ UNCHANGED <<inputs, offset, chunks>>

\* Slip: the last chunk is not cut at the end of the file.
CutWhole ==
  /\ pc = "loop"
  /\ offset < size
  /\ chunks' = Append(chunks, [offset |-> offset, length |-> chunkSize])
  /\ offset' = Plus(offset, chunkSize)
  /\ UNCHANGED <<inputs, chunkSize, pc>>

\* Slip: the offset is set to the chunk size instead of advanced by it.
CutStuck ==
  /\ pc = "loop"
  /\ offset < size
  /\ chunks' = << [offset |-> offset,
                   length |-> Lowest(size - offset, chunkSize)] >>
  /\ offset' = Lowest(offset, chunkSize)
  /\ UNCHANGED <<inputs, chunkSize, pc>>

Cut ==
  /\ pc = "loop"
  /\ offset < size
  /\ chunks' = Append(chunks, [offset |-> offset,
                               length |-> Lowest(size - offset, chunkSize)])
  /\ offset' = Plus(offset, chunkSize)
  /\ UNCHANGED <<inputs, chunkSize, pc>>

Finish ==
  /\ pc = "loop"
  /\ offset >= size
  /\ pc' = "done"
  /\ UNCHANGED <<inputs, chunkSize, offset, chunks>>

Terminated == pc = "done" /\ UNCHANGED vars

Next == Choose \/ Cut \/ Finish \/ Terminated

Spec == Init /\ [][Next]_vars
FairSpec == Spec /\ WF_vars(Next)

----------------------------------------------------------------------------
(* Properties *)

TypeOK ==
  /\ size \in Sizes
  /\ workers \in WorkerCounts
  /\ request \in Requests \cup {Automatic}
  /\ chunkSize \in 0..Modulus - 1
  /\ offset \in 0..Modulus - 1
  /\ chunks \in Seq([offset : Nat, length : Nat])
  /\ pc \in {"start", "loop", "done"}

\* The part of the file that a prefix of the chunks covers.
CoveredUpTo == IF chunks = << >> THEN 0
               ELSE chunks[Len(chunks)].offset + chunks[Len(chunks)].length

\* The chunks tile what they cover: none is empty, each begins where the one
\* before ends, the first at zero.
Tiling ==
  \A i \in 1..Len(chunks) :
    /\ chunks[i].length > 0
    /\ chunks[i].offset =
         IF i = 1 THEN 0 ELSE chunks[i - 1].offset + chunks[i - 1].length

\* The chunks of a file are the file: no byte is in two chunks, none is left
\* out, and the last one ends at the end of the file.
Partition ==
  /\ Tiling
  /\ CoveredUpTo <= size
  /\ pc = "done" => CoveredUpTo = size

\* An explicit size gives the same chunks whatever the number of workers, so
\* that the chunk IDs of a checkpoint keep their meaning when it changes.
PlanIgnoresWorkers ==
  ParsedSize(request) # 0 =>
    \A i \in 1..Len(chunks) :
      /\ chunks[i].offset = (i - 1) * ParsedSize(request)
      /\ i < Len(chunks) => chunks[i].length = ParsedSize(request)

\* Without a request, a file whose fair share lies between the bounds is cut
\* into at most one chunk per worker.
OneChunkPerWorker ==
  ParsedSize(request) = 0 /\ pc = "done" /\ chunkSize > DefaultMin
    /\ chunkSize < DefaultMax => Len(chunks) <= AtLeastOne(workers)

\* What the loop keeps true: it has covered the file up to offset, and only
\* the first addition to offset starts from zero, so none overflows.
LoopInv ==
  /\ pc = "start" => chunks = << >> /\ offset = 0
  /\ pc = "loop" => /\ chunkSize >= 1
                    /\ CoveredUpTo = Lowest(offset, size)
                    /\ offset = 0 \/ offset >= chunkSize
  /\ pc = "done" => CoveredUpTo = size

\* The loop ends.
Terminates == <>(pc = "done")

=============================================================================
