# Formal models of GoSCP

TLA+ models of the concurrent copy program in this repository: the scheduler
that moves chunks through goroutines, the run that drives it and keeps a
checkpoint across crashes, the resolution of arguments to files and their
copies on the file system, the arithmetic that cuts files into chunks, the
remote-to-remote relay, the SSH dialer and the progress bars. TLC checks each
model on small instances; TLAPS proves the safety of every one of them for every
value of its constants, and the two refinements. `PROJECT.json` maps each
definition to its lines.

    tlc -workers 2 -config scheduler.cfg MCScheduler
    tlapm SchedulerProofs.tla

## The system

| Component | Code | State | Operations | What makes it correct |
|---|---|---|---|---|
| Scheduler | `pkg/transfer/scheduler.go` | two buffered channels, a WaitGroup, a connection per worker | `Schedule`: producer, workers and closer goroutines | every chunk gets one true result or the failure is announced; no send on a closed channel; the results end |
| Run | `cmd/goscp/run.go` | `chunkByID`, pending chunks, `partialFailures`, `fatalErr` | plan, create or load a checkpoint, dry run, file loop, mark, exit code | the checkpoint and the exit code tell the truth about the destination, across kills and resumes |
| Checkpointer | `pkg/checkpoint/checkpointer.go` | one JSON file per transfer | `Save`, `Load`, `UpdateChunk`, `Delete` (no caller) | nothing saved is lost; a damaged file is refused |
| Chunker | `pkg/transfer/chunker.go`, `buildChunkConfig` and `parseByteSize` in `run.go` | the loop's offset | `Chunk` | the chunks partition the file |
| Worker | `pkg/transfer/worker.go`, `localFileSFTP` in `run.go` | none between calls | `Execute` | returns nil only if the chunk is there |
| R2R worker | `pkg/transfer/r2r_worker.go` | two handles per call | `Execute` | what is relayed arrives in place and stays |
| SSH dialer | `pkg/ssh/dialer.go` | list of clients under a mutex | `Dial`, `Close` | reaches the host asked for; no connection is forgotten; a cancelled call stops |
| Resolver | `pkg/path/resolver.go` | none; reads the file system | `Resolve` | every file named is found once, before anything is written, or the run ends; destinations meet only by name |
| Progress | `pkg/progress/reporter.go` | counters and bars under a mutex | `Add`, `Update`, `Complete`, `Fail` | counters agree with the results; a failed file is not shown as done; `Complete` returns |
| SFTP client | `pkg/sftp/client.go` | none | forwards each call | - |
| Command line | `cmd/goscp/root.go`, `main.go` | options | flags, logger, exit status | the exit status is the documented one |

How they interact: `main` runs the root command, which calls `RunTransfer`. It
resolves the files, chunks each one, writes or loads the checkpoint, and then,
file by file, calls `Schedule` and ranges over the channel of results, updating
reporter and checkpoint for each. SIGINT and SIGTERM cancel one context that
the producer and every worker test. The CLI wires local files only
(`localFileSFTP`, `noopDialerPool`), and it reports progress through
`LogReporter` or `QuietReporter`: the dialer, the SFTP client, the R2R worker
and `MultiBarReporter` are libraries that no command uses yet, so they are
modelled on their own and not composed with the run.

The hard parts are the shutdown of the channels (who may close what, when a
worker failed or the user interrupts), results that must not be lost between a
failing worker and the caller, the checkpoint rewritten in place after each
result and killed in between, resuming with another plan, sources that change
after they were listed or measured, several sources that meet in one
destination, and unsigned arithmetic near its limits. `hazards` in
`PROJECT.json` lists them one by one with the property that watches each.

## The modules

| Module | Models | Notes |
|---|---|---|
| `SchedulerContract` | what a caller of `Schedule` may rely on | abstract: results are delivered, then the loop ends |
| `Scheduler` | the goroutines of one `Schedule` call and the caller's range loop | refines `SchedulerContract` |
| `MCScheduler` | model values | |
| `SchedulerProofs` | theorems about `Scheduler` | |
| `ResumableCopy` | what any number of invocations promise their user | abstract: a copy that grows, a record that never runs ahead of it nor forgets, an answer |
| `Checkpointer` | the checkpoint file and the steps of `Save` | used by `Transfer` |
| `Transfer` | `RunTransfer` over several invocations, with `DefaultTransferWorker.Execute` | relies on the contract in place of the goroutines; refines `ResumableCopy` |
| `MCTransfer` | file sizes for TLC | |
| `TransferProofs` | theorems about `Transfer` | its refinement of `ResumableCopy` among them |
| `Chunker`, `MCChunker`, `ChunkerProofs` | `Chunk` in arithmetic modulo a word, its small instance, its theorems | |
| `R2RWorker`, `R2RProofs` | `R2RTransferWorker.Execute`, several at a time on one file; theorems | constants are plain numbers, so it has no MC module |
| `Dialer`, `MCDialer`, `DialerProofs` | `Dial` and `Close` by several goroutines, and a cancellation; theorems about them | |
| `Resolver` | what an argument stands for and where its files go | operators on paths, used by `Copy` |
| `ResolverProofs` | lemmas about paths, directories and destinations | used by `CopyProofs` |
| `Copy`, `MCCopy`, `CopyProofs` | `RunE` and one `RunTransfer` over a file system; theorems | the level of paths; no checkpoint |
| `Progress`, `MCProgress`, `ProgressProofs` | `MultiBarReporter` over the bars of mpb; theorems | `LogReporter` is in `Transfer` |

Operators with a comment `Slip: ...` are mistakes a programmer could have made
in the definition that follows them. No specification uses them; each shows
that one of the properties would notice.

### Scheduler

Both channels are FIFO and live for one call, so each is a log and a read
position: chunk `i` is the i-th chunk, `taken+1..sent` is the content of
`workCh`, `results` is all that was ever sent on `resultCh`, of which the
caller has read `received`. `producer`, `pc[w]` and `holding[w]` are the
program counters of the goroutines and the chunk each worker is busy with.
`started`, `executed` and `late` are history. One action stands for the code
between two channel operations or two tests of ctx; both branches of the
producer's `select` are separate actions (`QueueChunk`, `QueueCancelled`), so a
ready send may win against a closed `Done` channel as it may in Go. `conns`
counts the pairs lent by the pool. The pool, the factory and `Execute` are
interfaces: they succeed or fail.

### Transfer and Checkpointer

A file is a few units of data, and `dst` is the set of units that arrived.
`disk` is the checkpoint file: missing, torn (opened and truncated, or written
in part) or saved with a list of chunks. `Save` is two steps with a possible
kill or error at each. `Start` chooses the options; `Crash` forgets everything
except `disk`, `dst` and the sources; `Return` is each exit of `RunTransfer`
with its code. `queue`, `begun`, `outcomes` and `setupError` are what the
contract leaves of a running `Schedule` call: chunks without an outcome, those
past their last test of ctx, results not yet received, and the result of a
worker that could not be set up, after which chunks may be discarded. `Record`
is the whole of `markChunk` up to the truncated file, `RecordWrite` the rest.
`everDone` is history: the units of every chunk ever saved as done.
`reported` is the counter of `LogReporter` per file, which adds the length of a
chunk for each result without an error (scheduler.go:105, reporter.go:261).

Each invocation chooses its chunk size, and a resumed one matches the chunks of
the checkpoint with those of its plan by ID alone. `Spec` lets them differ;
`SamePlanSpec`, in `TransferProofs`, keeps the behaviours in which a resumed run
cuts the files as the checkpoint's did (`Agree`), whatever sizes the others ask
for.

`ResumableCopy` says what this is for in five actions: units are copied, the
record is lost while it is rewritten, it is saved with all it ever held and
nothing that is not copied, the invocation answers, another one starts. The
mapping takes `dst` for the copy, the units of the chunks called done on disk
for the record, `everDone` for what it must not forget, and the exit code of an
invocation that was no dry run for the answer. `RecordSpec` is the same without
the last promise, that 0 means a complete copy: it is what remains when a chunk
ID means other units in each invocation. A dry run, an interrupt, a crash
and every step inside a `Schedule` call that writes no data map to stutters.

The fresh checkpoint of a later invocation has an ID of its own (it contains
the time), so a second `--checkpoint` without `--resume` would not touch the
file under study; `Start` leaves it out. The pool and the factory the CLI wires
never fail; `SetupFails` models the ones `Schedule` is made for.

### Resolver and Copy

A path is a sequence of names; a file is a sequence of units, each named for
the file and position where it began, so that any mixture of old and new data
can be told apart. The program creates no directory, so `Dirs` is a constant.
An argument is a path, a pattern (a directory and the names it matches in it)
or a remote path; `command` is chosen in `Init` from a list of command lines.
`todo` holds the paths that `afero.Walk` or `afero.Glob` has listed and the
resolver has not yet stat'ed, which another program may remove meanwhile
(`Remove`). Walk's lexical order is left open. Paths count from the root
wherever the program runs; whether one was written with a slash in front
(`absolute`) matters for "/" alone: without its slash the empty string is left,
`filepath.Rel` fails (`RelFails`), and the files of the whole tree go to the
destination as if each had been named by itself (`DestinationOf`). A transfer
remembers in `spec` which argument it came from. Chunks are single units; a
chunk is one action that opens both files, reads and writes, because the chunks
of a file touch different places and files are copied one after the other.
`CopyError` leaves the destination as it was or, if the open succeeded, created.

`AllOrNothing` speaks of a path that is given or listed and not there when its
turn comes, whether it never was or has been removed since: from then on the
run changes no file and can end with nothing but 2. `MeetOnlyByName` says when
two transfers get one destination, and so which of them `ZeroDelivers` cannot
speak for. It does not say where below the destination a tree lands: that is
not where the documentation wants it (see below).

### Progress

Each method of `MultiBarReporter` holds the mutex from beginning to end and is
one action; `Complete` is two, for it waits outside the mutex. `left` counts
the results that may still arrive: one per chunk, in any order, before the
file's `Add` or after `Complete` too. mpb is external: the module's header says
what is assumed of it (v8.12.1, the version in go.mod).

### Chunker, R2RWorker, Dialer

`Chunker` takes its inputs (a size, a worker count, a requested chunk size as a
number and a unit) in `Init` and runs the code's loop, with `Wrap` and `Plus`
where uint64 wraps. Sizes are below half the modulus because `os.FileInfo`
sizes are int64.

`R2RWorker` has one `Execute` per chunk, all possibly at once. `dst` says which
unit of the source is at each place of the destination; `Create` empties it,
as SFTP's does. Errors of the deferred `Close` calls are ignored by the code
and left out.

A `Dial` of `Dialer` builds its configuration, which may leave a connection to
the ssh-agent open (`agents`; nothing in the code closes it), connects, shakes
hands, and goes on from hop to hop. ctx is tested by `DialContext` and before
each proxied dial, and nowhere else. The module names a client by the call that
opened it and its place in the chain. `spare` is the array element behind the
caller's jump hosts, which `append` overwrites when there is capacity. Reading
it while another call writes it is a data race on a string; the model lets the
reader see one of the targets.

## The runs

| Run | Instance | Question | States |
|---|---|---|---|
| `scheduler` | 2 chunks, 3 workers, 2 pairs, failing setups, throttling | is the protocol of the channels sound and free of deadlock, does it keep the contract, and does the caller's loop end? | 507,886 |
| `transfer` | files of 3 and 1 units in chunks of 2, three invocations | do checkpoint, destination, progress and exit code agree through kills and resumes, is it a `ResumableCopy`, and does every invocation end? | 527,129 |
| `chunker` | 6-bit words, sizes 0..32, counts -1..5, 12 requests | do the chunks partition the file? | 18,922 |
| `r2r` | 2 chunks of 3 units, a buffer of 2, sources that shrink | does the relay put everything in place, stop and end? | 114,968 |
| `dialer` | 2 dials through 2 jumps, 2 closes, a cancellation | is every connection accounted for and on the right host, and does a cancelled call stop? | 1,237,058 |
| `copy` | 18 command lines over 5 files and 5 directories, one file may vanish | is what was named resolved or the run ended before it wrote, whose destinations meet, and was what was resolved copied, as the exit code says? | 331,806 |
| `progress` | files of 2, 1 and 0 chunks, 2 calls of `Complete` | do bars and counters agree with the results, does `Complete` leave no bar running, and does it return? | 7,905 |
| `transfer_replan` | one file, chunk sizes 1 and 2, two invocations | violated: `ExitZeroIsComplete` | |
| `transfer_shrink` | one file that is cut | violated: `OkIsWhole` | |
| `r2r_create` | as `r2r`, the source stays as it is | violated: `OkIsThere` | |
| `dialer_alias` | as `dialer`, spare capacity | violated: `ReachesTarget` | |
| `copy_collide` | two sources, a destination that is no directory | violated: `ZeroMeansAll` | |

Why the bounds are enough. Two chunks let the producer queue one and meet the
cancellation at the other, or meet it at the first and find the second in the
inner loop that follows; three workers on two pairs let one work, one fail and
drain, and one wait. Two files, the first with two chunks and the second with
one, give a file that is complete, one that is half done and one not begun at a
crash; the third invocation resumes a resumed run. All of them ask for one chunk
size, so that every plan is that of the checkpoint (`OneSizeSuffices`); the
file of three units that `transfer_replan` cuts in chunks of one and of two has
chunks with one ID and other units. The 6-bit word has every
case of the 64-bit one: a request below, at and above the file size and the half
word, and two products that wrap, to zero and to a small size. Two relays are
enough for one to truncate under the other, and a buffer of two for chunks of
three leaves a shorter last read. Two dials and two closes are every kind of
pair, and three hops are one more than the two that a missing test of ctx would
show. The command lines of `copy` have each kind of argument and each branch of
`resolveDestinationPath`: a destination that is a directory, ends in a slash,
exists, does not, or lies in no directory, an older and longer file in the way,
a source that is missing, empty, nested or named twice, a file that is another's
destination, the current directory and "/", which differ in `Rel` alone. Three files give `progress` one with a failed and a good chunk, one
that is done with its only chunk, and an empty one. For the safety properties of
the passing runs the bounds do not matter: the theorems below state each of them
for all values. The bounds count for liveness, and for the violated runs they
only have to be large enough. `MaxStarts` is the only bound on a counter.

Fairness. `scheduler` and `transfer` assume that goroutines are scheduled
(weak fairness of each) and that calls return: `pool.Acquire`, `factory.New`,
`WaitN`, `Execute` and the file system. The Go scheduler is preemptive and
`select` and channel operations wake the waiting goroutine, so an action that
stays enabled is taken. `Execute` over local files returns; over a network it
would need the timeouts that docs/SECURITY_REQUIREMENTS.md asks for. Neither an
interrupt nor an error is assumed to happen: `SetupError`, `Cancel`, `Crash`
and `Shrink` carry no fairness. `r2r` assumes that the servers answer.
`chunker` has one process. `progress` assumes that `Wait` returns once all bars
are done; that anybody calls `Complete`, or reports the missing results, is not
assumed. `copy` and `dialer` check safety only.

Deadlock is checked in every run: a system that has finished stutters in
`Terminated` or `Stop`, and any other stop would be reported. For `Schedule` the
theorem `NeverStuckAlways` says more: it does not count an interrupt or a setup
error as a way out, which may never come.

### What the violated runs show

* `transfer_replan`: resuming matches chunks by ID only. With another
  `--chunk-size`, chunks that the checkpoint calls done stand for other bytes
  and chunks outside the new plan are never sent; the run exits 0 with a hole
  in the destination, where docs/COMPATIBILITY.md:99 promises completeness.
  With the plan of the checkpoint the property holds (`ExitZeroIsCompleteAlways`).
  The automatic size depends on `-n`, so changing the number of workers is enough.
  Two more properties need the same plan, for the same reason: a unit that one
  plan's chunk has delivered lies in a chunk of the other that is still to come,
  so that it is sent again (`DoneIsNotResent`) and counted twice
  (`ReportIsTrue`). What survives is proved: an ok result and a record that says
  done are true of the units they were given for (`OkIsWholeAlways`,
  `KeepsRecordAlways`).
* `transfer_shrink`: `Execute` takes a short read with `io.EOF` for a whole
  chunk (worker.go:36); ARCHITECTURE.md:419 counts a short read as a failure.
* `r2r_create`: each chunk's `Create` truncates the destination, so of several
  chunks only what came after the last `Create` remains, although all were
  reported as transferred (ARCHITECTURE.md:398).
* `dialer_alias`: two concurrent `Dial` calls that share a `ProxyJumps` slice
  with spare capacity can swap targets (dialer.go:74).

* `copy_collide`: with a destination that is neither a directory nor ends in a
  slash, each of several sources resolves to it; they overwrite one another and
  the run exits 0 (resolver.go:166). docs/COMPATIBILITY.md:78 and :83 want a
  directory. `ZeroDelivers` holds because it speaks of transfers that no other
  one disturbs; files of equal base names from different arguments collide in
  the same way, and files of the one argument "/" (`MeetOnlyByName`).

Other disagreements met on the way, which no run shows:

* `main` ends every error with `logger.Fatal`, exit status 1 (main.go:14), and
  `Execute` has dropped the code before (root.go:71): no run ends with the
  status 2 of docs/COMPATIBILITY.md:101.
* A pattern without a match is dropped (resolver.go:89), where
  docs/COMPATIBILITY.md:71 keeps it literally.
* A directory copied to an existing directory loses its name: `goscp d out`
  puts `d/a` to `out/a`, where docs/COMPATIBILITY.md:79, :83 and :88 want
  `out/d/a` (resolver.go:159; `IsTree` in `DestinationOf`). No property claims
  either, and `MCCopy` has the command line (`To(Out)`). No directory is ever
  created, so a tree with subdirectories fails in part (`To(New)`).
* `goscp / dst` does not keep the tree: every file goes to `dst` by its base
  name, or to the one path `dst` if that is no directory (resolver.go:156-166).
* A remote source has size 0 and so no chunks: the run exits 0 with nothing
  transferred. The host of a remote destination is ignored and its path is
  written locally. An empty file is skipped (run.go:201), its destination not
  created. A destination longer than the source keeps its tail.
* After `Complete`, `Fail` marks a file whose bar is already shown as done, and
  `Complete` fills the bar of a file whose results did not all arrive.
* ARCHITECTURE.md:358-360 describes retries the code does not have, :423 an
  `in_progress` state that is never saved, and :475-476 exit codes in another
  order than COMPATIBILITY.md.

## What is proved

`SchedulerProofs`, for every number of chunks, every finite set of workers,
every pool size, and with or without a pool, failing setups and throttling
(`SchedulerAssumption`):

* `TypeCorrect`, `NoSendAfterClose`, `OneResultPerChunk`,
  `NothingLostSilently`, `ResultsAreHonest`, `InterruptStopsWork` and
  `PoolIsWhole` are the invariants of `scheduler`;
* `NeverStuckAlways`: until the caller's loop ends some goroutine is not
  blocked, with no help from an interrupt or a setup error. A result to receive
  or a full `resultCh` leaves the caller its step, an open `workCh` the producer
  its own; after that only a worker that waits for a pair can be blocked, and it
  waits for one that does not, because who waits holds no pair (`PairsTaken`)
  and who is done has given it back (`Closing`);
* `WorkIsBounded`: each step of the producer or of a worker lowers a natural
  number of its own (`ProducerLeft`, `WorkerLeft`) that no step of another
  raises, for a worker goes round its loop only with a chunk taken from
  `workCh`. The results are what they send, and the caller reads each once. With
  `NeverStuckAlways` all that `EventuallyReturned` adds is that the goroutines
  are scheduled;
* `SchedulerImplementsContract`: every step of the goroutines is a step of
  `SchedulerContract` or a stutter, with `delivered` the results received.

None of these invariants is inductive. That nothing is sent after the close,
for example, needs to know why a worker can have returned: because `workCh` was
closed and empty (`Closing`), which the producer brings about only as its last
act (`Order`). `IndInv` collects what is needed: where each position stands
(`Order`), who holds what (`Held`), what a returned worker implies (`Closing`),
that a chunk with a result has left the queue and is held by nobody (`Placed`),
that a chunk that left the queue is held, has a result, or may have been
drained after a setup error was reported (`Accounted`), and the same for the
history variables (`ExecutedSoFar`, `LateSoFar`). The lemmas `BaseStep`,
`ClosingStep`, `PlacedStep`, `AccountedStep`, `ExecutedStep` and `LateStep`
each prove one layer from the layers below it, action by action; `Invariance`
puts them together. `ClosedAccounts` then shows that with all workers done and
none holding a chunk, every chunk has a result or a setup error was sent.
`ContractStep` uses that a prefix of the log grows only at its end.

`TransferProofs`, for any number of files of any sizes and any number of
invocations, with crashes between any two steps (`TransferAssumption`):

* `TypeCorrect`; `OkIsWholeAlways`, of sources that do not shrink
  (`transfer_shrink` has the same property and sources that do);
* `ExitMatchesCheckpointAlways`, with whatever chunk sizes the invocations are
  given. That a run may answer 0 or 1 only with a checkpoint that says why
  needs to know where every planned chunk is (`Accounted`): still coming, lost
  behind a setup error, done, or failed with `partialFailures` set; and that
  the list on disk, or about to be there, is the one in memory except for
  chunks that have no result yet;
* `KeepsRecordAlways`, with whatever chunk sizes too: every step is one of
  `RecordSpec`, so that the record never runs ahead of the copy and a record
  that is saved again forgets nothing;
* `DoneIsNotResentAlways`, `ReportIsTrueAlways`, `ExitZeroIsCompleteAlways` and
  `Refinement` (every step is one of `ResumableCopy` or a stutter), if a resumed
  invocation cuts its files as the checkpoint's did (`SamePlanSpec`). The
  hypothesis is the code's weak point and not the proof's: without it
  `transfer_replan` violates `ExitZeroIsComplete`, and nothing in the code
  compares the plans. `OneSizeSuffices` shows who meets it: a user who always
  asks for one and the same chunk size.

The inductive invariant is `Kept`: `Process` says what memory holds in each
phase, `Lists` that every list of chunks there is was cut by some plan, `Flight`
that a chunk is in the queue or among the outcomes and never in both, `Written`
that an ok result or a state `done` in memory means data at the destination,
and `Recorded` that the checkpoint is exactly what was ever saved as done,
except while `Save` has it torn, when `payload` is that and more. `Recorded`
cannot be had without `Backed`: what the disk calls done, this process has
loaded or received, so writing its own list loses nothing. `ReportIsTrue` is
proved from an equality (`CountedRight`): what was reported of a file is the
number of units in its chunks that are done, and chunks of one size share no
unit (`ChunksApart`), which takes the order of products (`RangesInOrder`). Where
the plans must agree, `Uniform` carries it from the loaded checkpoint through
the loop. `Refinement` is `KeepsRecordAlways` and `ExitZeroIsCompleteAlways`
put together (`CompleteAnswer`).

`CopyProofs`, for any directories, any files of any lengths, any of which may
vanish, and any set of argument lists (`ResolverAssumption`: what lies above a
directory is a directory; `CopyAssumption`: every file lies in a directory and
is none, and the argument lists have the types `ParsePathSpec` gives them):

* `AllOrNothingAlways`. `NothingYet` ties it to the order of things: until the
  last argument is resolved the files are those of the start, less those that
  vanished. `Unfinished` adds that a listed path is left only while an argument
  is expanded or after an end with 2, and no step takes a missing path off the
  list (`NextMissing`): what is missing once stays so, and with it the rest;
* `DataInPlaceAlways`, by `InPlace` and what `WriteAt` does (`WriteAtFacts`);
* `ZeroDeliversAlways`. `Delivered` says, of each transfer that no other one
  disturbs, that its source is what it was and that each of its chunks is in
  the queue or has landed, unless a failure was counted. A failed chunk may
  create or leave the destination and never shortens it (`ErrorEffect`);
* `MeetOnlyByNameAlways` and `EverySourceCountsAlways`, by `Search`, the
  invariant of the walk. Neither property says anything of the paths not yet
  looked at, and both depend on them: no path listed is below another
  (`Sorted`), none is above a file already resolved (`Fresh`), and every file
  that stays and that an argument names is resolved or lies below a listed path
  (`Covered`). Replacing a directory by its entries keeps all three
  (`StatDirSorted`, `StatDirFresh`, `StatDirAhead`). Then the transfers of a
  file correspond one to one to the arguments that name it, which gives the
  equal cardinalities. `ResolverProofs` has what this needs of paths: they are
  partially ordered (`FromOrder`), between a directory and a file below it lies
  an entry of the directory (`EntryToward`), nothing lies below a file
  (`NoneBelow`), a destination is the one given or has the name of its source
  (`DestinationName`), and files of one directory go to different places
  (`TreeInjective`), which leaves only "/" (`MeetFromRoot`).

`R2RProofs`, for any number of chunks of any length, any buffer and sources that
are cut at any moment (`R2RAssumption`):

* `TypeCorrect` and `RelayInPlaceAlways`, by `InStep`: the two handles of a
  relay stand at the same place of its chunk, except for what it has read and
  not yet written;
* `LastCreatedIsWholeAlways`: what the relay whose `Create` came last has passed
  is in the destination (`Behind`), for the others only write;
* `OneWriteAfterCancelAlways`: after a late write a relay is at the loop's test
  or has ended (`LateOnce`);
* `ExecuteIsBounded`: each step of a relay lowers `StepsLeft`, which no other
  step changes and which begins at 3 * `ChunkLen` + 6, because every round of
  the loop reads and writes at least one unit. What `EveryExecuteEnds` adds is
  that the relay is scheduled.

`ProgressProofs`, for any files, sizes, numbers of chunks and calls of `Complete`:

* `TypeCorrect`;
* `FailedIsNotDoneAlways`, an action property, and `NothingToWaitForAlways`, by
  `Accurate`: a file that failed is done and the bar of a done file has stopped
  (`Settled`), the container is shut only after `Complete`, until then the
  overall bar runs and shows the two totals (`Ordered`), and from then on every
  file is done (`Closed`). What `CompleteReturns` adds is that `Wait` gets its
  turn;
* `OverallIsSumAlways`. The totals are folds (`SumFunctionOnSet`), defined as a
  CHOOSE of a function on all subsets. `AddsExist` shows that there is such a
  function over a finite set, `AddsAny` that an element may be taken out first
  or last, whichever the fold would have picked (`Pick`), and `SumSame` and
  `SumRemove` are what the steps need: `Add` adds one file to the sum, `Update`
  changes one, nothing else does (`AddSums`, `UpdateSums`, `SameSums`). The
  library's induction theorems take an operator for a parameter, so the
  induction on the number of elements (`CountUp`, `Shrink`) goes by the least
  counterexample of a set (`WFMin`).

`ChunkerProofs`, for every modulus, defaults, file size up to half the modulus,
worker count and request (`ChunkerAssumption`):

* `TypeCorrect` and `ChunksPartitionFile`. The invariant adds that the offset is
  zero or at least one chunk size (`LoopInv`), so that the sum of the two stays
  below the modulus: a size is below half of it, and a chunk size is added to
  zero or is itself below the file size;
* `PlanIgnoresWorkersAlways` and `OneChunkPerWorkerAlways`. `Even` says that the
  loop has advanced by whole chunks, so that the i-th begins at a multiple of
  the chunk size; a requested size is the chunk size as it is
  (`RequestIsChosen`), and as many automatic chunks as there are workers cover
  the file (`ShareIsEnough`);
* `LoopAdvances`: every step lowers a natural number, so that the loop cannot go
  round for ever, however the word wraps.

`DialerProofs`, for any number of calls of `Dial` and `Close`, any chain of
jump hosts and any targets (`DialerAssumption`):

* `TypeCorrect`, with how far a call is at each place (`Stage`);
* `NoneForgotten` and `NoneClosedTwice`. That no two calls of `Close` take the
  same client is not inductive: a client must also never come back to the list.
  `TrackedSettled` says why not: what is or was in the list is a client that
  its `Dial` has done with, and the one it is about to track is a later one.
  `KnownConnected`, `KnownTrack` and `KnownClose` are the steps that matter;
* `CancelStopsChain`. The invariant (`LateSettled`) adds that a call that opened
  a client after the cancellation waits for no other connection;
* `RightHost`: `ReachesTarget`, unless two calls with different targets share
  spare capacity behind their jump hosts (`NothingShared`), which is what
  `dialer_alias` needs. The invariant (`OnTheWay`) compares each place of the
  route with the chain; with spare capacity and one target `SpareRight` adds that
  the array element behind the jumps is that target as soon as a call has
  appended to them.

Only model-checked: the liveness properties (`EventuallyReturned`,
`EveryRunEnds`, `Terminates`, `EveryExecuteEnds`, `CompleteReturns`), because
fairness and ENABLED are out of the prover's reach. For all of them but
`EveryRunEnds` the theorems have the safety half: something can go
(`NeverStuckAlways`, `NothingToWaitForAlways`), and every step counts
(`WorkIsBounded`, `ExecuteIsBounded`, `LoopAdvances`). No module declares a
RECURSIVE operator.

## What is not modelled

* The token bucket of `golang.org/x/time/rate`: throttling is a wait that a
  cancellation may cut short.
* Parsing of paths, sizes and flags, configuration files, logging, the dry-run
  report, mocks. A size is a number and a unit, an argument a path with its
  kind. `QuietReporter` and most of `LogReporter` only log.
* Bad checkpoint IDs: `RunTransfer` returns 2 at once.
* Two processes that resume one checkpoint at the same time: `UpdateChunk` has
  no lock between processes, so that one can lose an entry of the other, and
  nothing says that this is supported. What is watched is one process after
  another.
* SSH authentication, host keys and the transport; the SFTP client, which only
  forwards; `Delete` of the checkpointer, which nothing calls.
* Durability below the file system: a completed write survives a kill of the
  process. A power failure could lose it; the code does not sync.

## State of the project

Modelled and proved: `Scheduler` with its contract, `Checkpointer`, `Transfer`
with `ResumableCopy`, `Chunker`, `Dialer`, `R2RWorker`, `Resolver` with `Copy`,
and `Progress`. Whoever changes the code finds the definitions concerned by
their lines in `PROJECT.json`. Two changes would let hypotheses go: comparing
the plan of a resumed run with the checkpoint's makes `SamePlanSpec` the
specification and `transfer_replan` pass, and copying the jump hosts before
appending to them does the same for `NothingShared` and `dialer_alias`. A
measure of what an invocation has left to do would give `EveryRunEnds` its
missing half.
