# A verification project for the vvdec and vvenc of this repository

The repository holds two C++ programs, the VVC decoder `src/vvdec` and the VVC
encoder `src/vvenc`, with notes on the encoder's classes (`src/doc`, `src/doc3`).
Most of their code is arithmetic on samples and the translation of the standard's
syntax tables. What keeps the two programs together, and what tests hardly reach, is
the code that runs this arithmetic on many threads: thread pools with tasks that
wait for tasks, a wavefront of CTU tasks that work in place in shared buffers, lists
of pictures that are reused as soon as nobody needs them, and errors that cross
all of it. That code is modelled here, in TLA+, checked with TLC on small
instances and, for the wavefronts and the thread pools of both programs, the encoder's
pipeline and the decoder's control, proved with TLAPS: for pictures of any size, for any
number of threads, tasks and counters, for any GOP structure and length of input, and for
any stream with the faults the model has.

## Contents

| file | what it is |
|---|---|
| `CtuWavefront.tla` | reconstruction of one picture, `DecLibRecon::ctuTask` |
| `CtuWavefront_proofs.tla` | its invariants, proved for every picture and task size |
| `MCCtuWavefront.tla`, `MCCtuWavefront_*.cfg` | model checking it |
| `TaskGraph.tla` | what the thread pools promise to those who add tasks |
| `ThreadPool.tla` | the decoder's thread pool, `class ThreadPool`, with worker threads |
| `ThreadPool_proofs.tla` | its safety and its refinement of `TaskGraph`, proved for any threads, tasks and counters |
| `MCThreadPool.tla`, `MCThreadPool_*.cfg` | model checking it |
| `PicListManager.tla` | the decoder's picture list, as operators on its state |
| `DecLib.tla` | the decoder's control, parser and picture life cycle on top of it |
| `DecLib_proofs.tla` | its references, frames, fatal checks, exceptions and output, proved for any stream and any number of buffers and instances |
| `OutputOrder.tla` | what the application is promised about the order of output |
| `MCDecLib.tla`, `MCDecLib_*.cfg` | model checking them with streams |
| `EncStages.tla` | the encoder's stage pipeline and the scheduling of its pictures |
| `EncStages_proofs.tla` | its frames and shared units, proved for any configuration and input |
| `EncStages_coding_proofs.tla` | its queues, references and counts, proved on top of that |
| `EncStages_order_proofs.tla` | the order of its frames and pictures, and its refinement of `AccessUnits`, proved on top of both |
| `AccessUnits.tla` | what the caller of the encoder is promised |
| `MCEncStages.tla`, `MCEncStages_*.cfg` | model checking them with configurations |
| `EncSlice.tla` | the encoder's CTU tasks, `EncSlice::xProcessCtuTask`, over several pictures |
| `EncSlice_proofs.tla` | its invariants, proved for every picture, tiling and configuration |
| `MCEncSlice.tla`, `MCEncSlice_pictures.cfg` | model checking it |
| `EncPool.tla` | the encoder's thread pool, `class NoMallocThreadPool`, and its wait counters |
| `EncPool_proofs.tla` | its safety and its refinement of `TaskGraph`, proved for any threads, tasks, counters and program |
| `MCEncPool.tla`, `MCEncPool_pictures.cfg` | model checking it |
| `PROJECT.json` | components, runs, faulty variants, source map, findings, hazards, theorems |

Run `tlc -config MCThreadPool_picture.cfg MCThreadPool.tla` to check a
configuration, and `tlapm CtuWavefront_proofs.tla` to check the proofs of a
module.

## Inventory of the system

### Decoder (`src/vvdec/source/Lib`)

**Thread pool** (`Utilities/ThreadPool.h`, `.cpp`). State: a queue of slots in
chunks of 128, each FREE, PREPARING, WAITING or RUNNING; `m_nextFillSlot`;
`Barrier` (locked, unlocked, exception) and `WaitCounter` (a count with a barrier
and a condition variable), owned by the pictures; the idle mutex, the pause mutex
with its flag, the exit flag. Operations: `addBarrierTask`, the worker's loop
`threadProc` (search, check barriers and ready check, call, unlock, decrement,
free), the exception path `handleTaskException`, spinning and pausing, `shutdown`;
without threads, `bypassTaskQueue` and `processTasksOnMainThread`. It is correct
when a task runs only after what it waits for, at most one thread at a time runs
it, it returns true once, counters and barriers agree with the tasks in the queue,
no wake-up is lost, every task comes to its end, and waits and shutdown return.

**Reconstruction** (`DecoderLib/DecLibRecon.cpp`). State: the atomics
`ctuStates[]`, the sample and motion buffers, `m_fltBuf`. Operations:
`decompressPicture` adds border extension tasks, the CTU tasks and the task that
finishes the picture; `ctuTask` runs the ten stages; `waitForPrevDecompressedPic`
and `cleanupOnException` wait. It is correct when every stage reads only data that
is final, overwrites only data nobody needs any more, and the guards leave always
one task that can go on.

**Control** (`DecoderLib/DecLib.cpp`). State: the queue of pictures handed to the
two `DecLibRecon` instances. Operations: `decode` (one NAL unit), `flushPic`,
`reconPicture`, `blockAndFinishPictures`, `finishPicture`, `getNextOutputPic`.
It is correct when every parsed picture is reconstructed, finished once and put out
once, after errors too, and a flush ends.

**Picture list** (`CommonLib/PicListManager.cpp`) and **picture state**
(`CommonLib/Picture.cpp`). State: the list of pictures with `progress`,
`neededForOutput`, `lockedByApplication`, reference marks, the barriers and
counters. Operations: `getNewPicBuffer`, `markUnusedPicturesReusable`,
`getNextOutputPic` (bumping), `releasePicture`. It is correct when a buffer is not
reused while a picture in progress refers to it, the application holds it or it has
not been put out, and output is in order.

**Parser** (`DecoderLib/DecLibParser.cpp`, `DecSlice.cpp`). State: the picture
being parsed, the list of parsed frames, start and random access flags. Operations:
`parse`, the parse tasks (chained by `parseDone`), `getNextDecodablePicture`,
`waitForPicsToFinishParsing`. It is correct when slices are parsed in order, an
exception in one reaches the rest of the picture and its reconstruction, and every
frame that is not skipped is handed on once.

**Handle and API** (`vvdec/vvdecimpl.cpp`): the states of a decoder instance
(initialised, decoding, flushing, ended) and the frames the application holds.

### Encoder (`src/vvenc/source/Lib`)

**Thread pool** (`Utilities/NoMallocThreadPool.*`): the same slots, barriers and
counters, without exceptions and with its own waiting.

**Stage pipeline** (`EncoderLib/EncStage.h`, `EncLib.cpp`). State: per stage a sorted
list of pictures and whether it has seen the flush; the shared picture units with their
reference counts; the list of access units. Operations: `encodePicture`, which adds the
input and runs the stages (pre-processing, temporal filter, GOP encoder) until one
gives an access unit, the input is wanted or all is flushed. It is correct when a unit
is reused exactly when nobody reads it, every stage sees its window of frames, access
units come out in coding order, and the calls return.

**Picture coding** (`EncGOP.cpp`, `EncPicture.cpp`, `EncSlice.cpp`). State: input,
processing and output lists, reference marks and counts, the picture encoders; per
picture `m_processStates[]` and `m_tileColsDone[]`. Operations: initialise the pictures
in coding order, start an encoder when the references allow, the CTU tasks, write, and
release. It is correct when references stay as long as they are read, and every
stage of a CTU reads finished data and overwrites only what nobody needs.

**Structure and rate control** (`GOPCfg`, `PreProcess`, `RateCtrl`,
`BitAllocation`): sequential, the latter two floating point.

### How they interact

The application thread calls the decoder; it parses parameter sets itself and adds
parse tasks, whose progress unlocks one barrier per CTU. When the control takes a
parsed picture, it adds the picture's border extension tasks, CTU tasks and the
finishing task to the same pool. A CTU task waits for the parse barrier of its
line, polls the states of its neighbours and the border extension of the reference
pictures; the finishing task waits for the barrier of the CTU counter, and
unlocks `reconDone`, on which the control waits. Exceptions travel along the same
barriers and counters. Picture list and application thread read what the tasks
write only through `progress` and these barriers.

The encoder's caller runs the stages itself. The temporal filter and the picture
encoders use the pool; a picture encoder's CTU tasks poll each other, and with inter-frame
parallel processing the line counters of the reference pictures, which are being
coded by another encoder. In stage-parallel mode the caller goes on while encoders run
and waits only when it has no unit for its input or nothing to return.

### What is hard here

Interleavings of tasks that work in place; three separate steps between the
end of a task and the release of its slot; searches that race with additions; the
decision to sleep; exceptions in any task while its siblings run; the end of the
program with tasks in the queue; picture widths that are no multiple of the task
width; buffers that are recycled while tasks still move; errors and lost pictures that
several calls come across; flushes at any time; tiles that loosen the order other
guards rely on. `PROJECT.json` lists each under `hazards`, at its line and with the
properties that would notice.

## CtuWavefront: one picture's CTU tasks

| in the module | in the code |
|---|---|
| `Task`, `NumColPerTask`, `CtuStart`, `CtuEnd` | the tasks of `decompressPicture`, lines 562-623 |
| `ctuState` | `ctuStates[]`, values of `enum TaskType` |
| `lineParsed`, `refExt` | `ctuParsedBarrier` of the last CTU of a line; `refPicExtDepBarriers` |
| `where`, `iter` | where in the pool or in `ctuTask` a task is, and how far its loop |
| `exc` | `m_ctuTaskCounter.hasException()` |
| `ReadyMIDER` ... `ReadyALF` | the tests at the head of each `case` |
| `Call`, `Rethrow` | entry of `ctuTask`, with its look at the exception |
| `EnterStage`, `ReturnFalse`, `RefThrows` | the outcomes at the head of a `case` |
| `ProcessCtu`, `StageThrows` | one turn of the stage's loop, `*_cont` state included |
| `LeaveStage` | storing the next stage's state, and falling through |
| `LineParsed`, `ParseFails`, `RefsExtended` | the parser and the border extension, as seen from here |

A guard is evaluated in one step although the code reads several atomics one after
the other. States only grow, so a later read can only make more of the guard true:
the guards a task passes in the code it also passes in the model at the time of the
last read. Storing a state and working on samples are separate
steps, so a neighbour may run at every point in between.

The samples themselves are not modelled. What a stage reads and overwrites is in the
properties: `At(s, p)` says that a thread is in stage `s` for CTU `p`, `Passed` and
`Begun` what has been done to it. Intra prediction and motion derivation read to
the left and above, up to above right; the inverse reshaping and the offsets of
SAO work in place; deblocking reaches over a CTU's left and top edges; SAO reads
the copy of the deblocked lines; ALF writes into the buffer of these copies. A
sequence in which SAO is off does less in the same stages. Abstracted: tiles (only
that the lines may be parsed in any order is kept) and virtual boundaries, across
which fewer samples are read.

Runs:

* `ctu_picture`: 3 x 2 CTUs in tasks of two, the code's choice (`ColPerTask`) for two
  threads and a picture that is not all intra, so that the last task of a line is narrower
  (one CTU), with and without ALF; with parse errors, reference errors and a throw in any
  iteration, or none. Two lines give every guard that looks up or down, two tasks per line
  those that look left or right. `MaxRunning` lets both threads be inside this picture,
  which is enough for any two tasks to be in the middle of stages together: each source
  property relates two. The source and deadlock properties hold, before and after an
  error, and all tasks leave (`AllTasksLeave`). Wider pictures, tasks with neighbours on
  both sides and all-intra pictures are in the theorems.

Fairness (`FairSpec`): the parser and the border extension finish (they are tasks
of the pool too), a thread inside `ctuTask` goes on (weak fairness of the task's
steps), and a task that again and again could be called is called (strong
fairness of `Call`): every worker starts its search behind the slot it served last,
so it does not pass a waiting task over for ever.

Proved, in `CtuWavefront_proofs.tla`, for all widths, heights, task widths and
numbers of threads, with and without failures, from `SizesAssumption`: all six
invariants of `ctu_picture`, and `TypeOK`, which no run checks for that reason. The guards are not invariants of what they test, but what
they found stays true, since states only grow; the inductive invariant is therefore

    IInv == TypeOK /\ LoopInv /\ GuardsHeld

where `LoopInv` ties the loop counter, the `*_cont` states and the place of a task
together, and `GuardsHeld` says that for every stage a task has entered the
stage's guard (evaluated now) is true. `NextLoopInv` goes through the actions,
`NextGuardsHeld` uses that `AtLeast` is monotone. Each source property then follows
from `GuardsHeld` at the CTU's task and, for CTUs in a neighbouring task, from the
guard that its state forces there, where `OwnerNearby` bounds which tasks own the
CTUs around a CTU. `NoWavefrontDeadlock` takes the tasks of the
lowest state and, among them, the first task of the first line that has any
(`FirstOfLowest`, from the least element of a set of numbers): what a guard asks of the
tasks to the left and above is to be ahead of it, and of those to the right and below at
most not to be behind, so its guard is true. PRESAO is the exception, where
the last task of the line goes first. Liveness (`AllTasksLeave`) is
model-checked only.

## ThreadPool: the decoder's pool with worker threads

| in the module | in the code |
|---|---|
| `slots`, `nextFill` | `m_tasks` (all chunks, in order), `m_nextFillSlot` |
| `barrier`, `count` | the tasks' done barriers, each counter's `m_done` and `m_count` |
| `Seek`, `Increment`, `Fill` | `addBarrierTask`: claim a slot or grow, `++counter`, fill and publish |
| `Wait`, `Notify`, `Decrement` | `WaitCounter::wait_nothrow`, `notify_all`, `operator--` |
| `Top`, `Search`, `Sweep`, `NextSlot` | `findNextTask` from the four places that call it |
| `CheckBarrier`, `Blocked`, `ReadyCheck` | `checkTaskReady`, one barrier per step |
| `Call`, `UnlockDone`, `DecrementCounter`, `FreeTheSlot` | `processTask` |
| `DoneException` ... `ExceptionFree` | `handleTaskException` |
| `IdleLoop`, `Missed`, `LockIdle`, `Pause`, `Woken` | the idle loop and `PoolPause` |
| `ExitEarly`, `Shutdown`, `WaitForThreads` | `DecLib::destroy`, `shutdown`, the destructor |

Operations under a mutex that call nothing else are one step; every atomic access
that another thread can observe in between is a step of its own. Times (when spinning
ends, when the pause begins) are nondeterministic. A task's function returns true,
returns false once (`TwoCalls`), polls other tasks (`Polls`, as `ctuTask` polls its
neighbours and the exception of its counter) or throws (`MayThrow`); done barrier
and counter exist for every task. The program adds the tasks, waits for the counters as
`Picture::waitForAllTasks` does and shuts the pool down.

`TaskGraph` is the abstract promise: a status per task and the two rules that
matter, a function is called only after what its barriers stand for has
returned, and a task fails only with a cause. `ImplementsTaskGraph` is the
refinement, with a task's status read off `progress` and the point in
`addBarrierTask` where its counter has been incremented.

Runs (all with workers as model values, and with 8 as the range of the unsigned
counters, above the number of tasks):

* `pool_picture`: two CTU tasks, the second polling the first and returning false
  once, and a finishing task behind their counter; the first may throw. Chunks of two
  slots, so the third task makes the queue grow or reuses a slot. Ownership of slots,
  exactness of counters and the refinement hold.
* `pool_exit`: three threads, so that one owns the idle lock and two can wait or
  be between two steps, and shutdown at any point of adding or waiting: the program
  ends.
* `pool_failures`: a task that throws, at its first or its second call, and one behind
  its barrier: both come to their end, and no thread sleeps next to work
  (`NoLostWakeup`).
* `pool_counter` and `pool_wait` show the two findings below.

`pool_picture`, which checks no liveness, uses the symmetry of the threads. Fairness:
weak fairness of the main thread and of each worker: operating system threads that can
run do run. No fairness of locks or of a choice inside a thread is assumed.

`CHECK_DEADLOCK FALSE` is stated in the configurations because the program comes to
its end.

Proved, for any finite number of threads, any number of tasks with any barriers, polls
and failures, any counters and any chunk size: all the safety invariants of the runs,
and `TypeOK` and `PausedAlone` (only the last thread awake sleeps), which no run checks for
that reason, and the refinement of `TaskGraph`, all in
`ThreadPool_proofs.tla`. The assumptions are `PoolAssumption` (of it, what matters is
that the range of the counters exceeds the number of tasks) and, for the refinement,
`OrderAssumption`: a task that waits for a counter is added after all the tasks of the
counter, as `DecLibRecon` does with the task that finishes a picture. Without it a
counter's barrier that was seen unlocked could be locked again before the task is called,
and the pool promises nothing then. The proof goes in four layers, each
inductive together with the ones before:

* `PoolSafe`: the types, `SlotOwnership`, `PausedAlone`, and what they need: which mode
  and place a thread has when it owns a lock (`LocksAgree`), that the main thread keeps
  its slot PREPARING (`MainSlot`), and that the slots in use hold tasks that have been
  added (`Filled`, from which a task is in one slot only). The actions of a thread are
  first summed up (`Step`: one slot, one thread's place, locks given up or taken), and
  the invariants follow from the summary.
* `AwakeSafe` for `NoLostWakeup`: while the last thread looks through the queue under the
  pause lock, every slot it has passed is not runnable (`Looks`; `Remaining` are the slots
  it has not passed). The main thread can only lock barriers and claim slots in the
  meantime (`MainQuiet`); to fill a slot it needs the lock.
* `CountSafe` for `CounterExact`: the number of outstanding tasks goes up and down with
  the counter; once a counter has an exception it keeps it, and a thread that counts down
  in `handleTaskException` has stored one (`ErrorKept`), so the second decrement of
  finding 1 only ever hits a counter with an exception.
* `GraphSafe` for the refinement: what a thread that checks a task, a cleared slot, an
  unlocked barrier and a stored exception say of the tasks before. An unlocked counter
  means its tasks have returned because it is zero, exact, and has no exception
  (`UnlockedFinishes`). Each step is then a step of `TaskGraph` or changes no status
  (`WorkerImplements`, `MainImplements`).

The liveness properties stay with TLC.

## PicListManager, DecLib, OutputOrder: pictures in the decoder

| in the modules | in the code |
|---|---|
| `list`, `pic[b]` | `m_cPicList`; `Picture`: progress, marks, flags, barriers, what it holds |
| `GetNewPicBuffer`, `Reusable`, `GetNextOutputPic`, `Lock`, `Release` | `PicListManager.cpp` |
| `nal`, `NextNal`, `Decode`, `FlushPic`, `Unref` | the slice that comes next; the calls of the application: `vvdec_decode`, `vvdec_flush`, `vvdec_frame_unref` |
| `PrepareUnavailablePicture` | `xDecodeSliceHead` of a first slice: one picture for each reference that was lost |
| `ActivatePicture`, `Kept`, `ApplyMarking` | `xActivateParameterSets`: reference marking, and the buffer of the picture |
| `DecodeFirstSlice`, `ListsThrow`, `ConstructRefPicLists` | `xDecodeSliceMain` of a first slice: reference lists, parse task |
| `DecodeNextSlice`, `SkipSlice` | `DecLibParser::parse` of the other slices, and of those that are skipped |
| `ParseSlice`, `ParseThrow`, `ParseThrown` | the parse task of a slice, and its exception |
| `NextDecodable`, `TakePicture`, `TakeNothing` | `getNextDecodablePicture` |
| `RotateRecon`, `WaitForPrevDecompressedPic`, `DecompressPicture`, `StartTasks` | `reconPicture` and `DecLibRecon` |
| `Reconstruct`, `ReconDone`, `ReconThrow` | the CTU and finishing tasks, as `CtuWavefront` and the pool promise them |
| `HandleErrorPicture`, `FinishPrev`, `FinishPicture`, `ThrowOut` | `blockAndFinishPictures`, `finishPicture`, and the error loop of `decode` |
| `DecodeOutput`, `Flushed`, `Drain`, `FlushLast` | the ends of `decode` and `flushPic` |

The thread that calls the decoder is one action from each place where it waits to the
next: what it reads in between is only moved forward by tasks. Parsing a first slice has a
step for each buffer it takes (`main.pc` "head" and "lists"), so that every step takes
at most one. The samples of a picture
are its `content`, the index of the coded picture, so a buffer reused too early shows
as another content. `shown`, `reported` and `dropped` are history.

`OutputOrder` promises that pictures come out in order of their sequence and POC;
`ImplementsOutputOrder` is the refinement. The other properties say that references
keep their pictures until the last user is through (`RefsIntact`) and are reconstructed
when CTU tasks run on them (`RefsReady`), that a frame in the application's hands is not
changed (`FramesIntact`), that no fatal check of the control fails, that a task's
exception leaves the library exactly once, that at the end every picture was given
out, and that every call returns.

* `dec_pictures`: seven streams of 3 to 13 pictures, listed in `MCDecLib.tla`: two groups with
  reordering and a new sequence; more pictures than buffers, with a reference that is
  never shown; exceptions of parse tasks, of reconstruction and of slice headers, at
  pictures that are referenced and at the last one; references that were lost. Two
  reconstruction instances, a parser delay of one picture (`ParseFrameDelay`), three
  picture buffers by the parameter sets (`MaxDecPicBuffering`) and at most two frames in
  the application's hands (`MaxHeld`): small enough for the buffers to be reused within
  a stream, large enough for both instances, the parser and the output to have one each.
* `dec_hang` shows finding 3.

Fairness: weak fairness of the calling thread within a call, and of the pool as a
whole: it runs some task while there is one that is ready. The application need not
call again.

Some streams the control cannot take, each found with this model and confirmed in the
code. The first three are left out by what a stream is (`CodedPicture`, `ShownOrReferenced`),
the others by the streams of the run:

* a picture that is neither a reference nor for output is free for reuse when it is
  reconstructed, and may come back while it still is the current picture of its
  instance: the fatal check `DecLib.cpp:592` (`ASSUME ShownOrReferenced`, about every stream);
* two faults in one picture, the head of its second slice and the task of its first:
  the exception is thrown by the parser and found again, the fatal check `DecLib.cpp:224`;
* a header that fails in a slice between the first and the last: the slices behind it are
  parsed, and the last one makes `decode` take the picture, whose exception has been
  thrown out already. The loop at `DecLib.cpp:197-230` then takes the next picture without
  looking whether the parser's list has one. A picture of the model (`CodedPicture`) has one
  fault at most, and a header that fails is its last; then, as `NeverFatal` proves, both this
  and the fatal check above are out of reach;
* a picture of three or more slices whose parse task throws is reported again with each
  slice that is still to come: `WaitCounter::operator++` rethrows the counter's exception from
  `m_done.lock()` (`ThreadPool.h:233-237`), and the handler of `parse()` clears `parseDone`
  only (`TwoSlices` is the condition under which an exception is reported once at most);
* an IDR picture that is not for output does not end the range of pictures
  `getNextOutputPic` compares (`PicListManager.cpp:303` passes over it), so pictures of two
  sequences are compared by POC;
* a picture whose reference lists cannot be constructed (`DecLibParser.cpp:966`) stays in
  the list in its first state and keeps what is behind it from output (`BehindOrphan`
  excepts these from `AllShown`); and `flushPic` takes back the picture it had chosen
  for output when it throws (`dropped`).

### Proved

For every set of streams and every value of the other constants, from `PicListAssumption`,
`DecLibAssumption` (positive sizes, pictures of these types) and `ShownOrReferenced`:
`TypesHold`, `RefsStayIntact`, `RefsAreReady`, `FramesStayIntact` and `NeverFatal`, and on top
of them `ReportedAtMostOnce`, `NoErrorIsLost`, `ErrorsAreReported` and `EveryPictureIsShown`.

The first five are read off one inductive invariant (`InvHolds`), since none of them is
inductive and no part of it is without the others. Its layers are:

* `Types`, `MainOK`: the types, and where the main thread can be in which call and between
  which slices;
* `LocalOK`, of one picture: what its progress says of its barriers, tasks, errors and
  exceptions. Here is the reason why no buffer is reused too early: a picture that is not
  finished is still referenced, or is no reference and then waits for output
  (`ShownOrReferenced`), so `Reusable` is false for it;
* `ParsedOK`, `WorkOK`, `StuckOK`: the pictures being parsed are those in the parser's list
  and the one taken from it; a picture is in one instance at most and reconstructing or
  reconstructed there, so the main thread's choice is never in an instance; a picture in
  reconstruction has tasks or an exception, so when its tasks are gone and there is no
  exception it is reconstructed;
* `RefsHeld`, `RefsOrder`, `RefsTaken`: the entries of a picture that is not reconstructed
  point to buffers that are still referenced and hold what they held. That survives
  `markUnusedPicturesReusable` because this function looks at the references of all pictures that
  are not reconstructed, and filling in a failed picture because a picture
  never refers to itself or to one behind it in the parser's list. When a picture is taken
  its references have left the list, because it is the first one, or because one that is taken out
  of order has them all reconstructed. So `decompressPicture` waits for tasks that
  are in the pool, and finds each reference reconstructed or failed, which gives `RefsReady`;
* `HeadOK`, `RetakeOK`: the picture whose slices arrive is the parser's, and if its
  exception was thrown out by the parser its remaining slices throw too. So a call of
  `decode` that reaches the choice of a picture has its own picture, intact or with an exception
  not thrown yet, in the list, and a picture that is given up without an exception
  to throw is another one and leaves it to be taken next;
* `FramesIntact`, `FramesOK`: the application and `flushPic` hold different buffers, all
  locked and finished.

Each action has a lemma (`DecodeFirstSliceKeeps`, `TakePictureKeeps`, `StartTasksKeeps`, ...). Most
steps only move one picture on: lemmas about a step that changes some fields of one picture
(`Fields`) give the layers they cannot touch. The buffers that
`GetNewPicBuffer` gives and the ones `MarkUnusedPicturesReusable` frees have lemmas of their own.

What becomes of the exceptions and of the pictures, up to the end of the stream, has an
invariant of its own for each theorem, inductive together with `Inv`:

* `ReportedAtMostOnce`, that an exception does not leave the library twice, from `OnceOK`: a
  picture of the stream is in one buffer at most, it has begun before that buffer could be
  given to another one, and if it was reported its buffer says so (`exceptionThrownOut`), which
  each place that throws looks at. The later slices are where it does not
  (`DecodeNextSlice` throws the counter's exception again), so the theorem is about streams
  in which a picture that fails in parsing has two slices at most (`TwoSlices`), and
  `HeadOnce` says that with the second one it has not been reported yet;
* `NoErrorIsLost`, that by the end of the stream it was not reported never, from `NoneLost`: a
  picture that fails is never reconstructed by its tasks, and filled in as a reference
  it keeps its exception on `parseDone` (`FailuresOK`); it is in the parser's list, in an
  instance or on its way from there to `finishPicture`, unless `parse()` gave it up
  (`PlacesOK`), and `flushPic` goes on until both are empty (`FlushOK`); so it is reported or it is not
  finished (`ToldOK`). Here there is no condition on the slices. What it says of a picture that
  `parse()` gave up (`Orphans`) is weaker: it has no tasks, so nothing throws for it;
* `ErrorsAreReported` puts the two together: exactly once, when no picture with a
  failing task was given up (`OrphansIntact`), as in the streams of `dec_pictures`;
* `EveryPictureIsShown`, from `NoneLost` and `OutputOK`: from its first slice on a
  picture that is to be output waits for it in a buffer that is not reused, or is the
  one `flushPic` holds, until it is shown or taken back (`ShownOK`). At the end the last
  choice of `getNextOutputPic` finds nothing. It stops at the first picture that is not
  finished (`RangeBounds`), and by then only one that was given up is not (`LeftBehind`), so
  all that still wait are behind it (`EndOK`). No condition on the stream is needed.

Each action, or group of actions, has a lemma for each of the three; the actions that finish a
picture share what they do (`Finishing`), as do those that take a buffer (`LostIn`, `ArrivesIn`).

Model-checked only: `ImplementsOutputOrder`, which holds for streams whose POCs fit
`NumReorderPics` and not for every member of `CodedPicture`, as an encoder has to see to it; and
`CallsReturn`, a liveness property.

Not modelled of the control: `checkNoOutputPriorPics`, long-term references, CRA, GDR and
RASL pictures, picture hash SEI messages, an end of sequence within the stream, the mode
without threads, error handling switched off, several layers, and a header that fails
at a picture's first slice. `ParseThrown` sets the exception on the barriers and on the
counter in one step; an exception of reconstruction comes once the slices are parsed.

## EncStages, AccessUnits: the encoder's pipeline

| in the modules | in the code |
|---|---|
| `unit`, `Reuse`, `FreeUnit` | `m_picSharedList`, `PicShared::reuse`, `xGetFreePicShared` |
| `list`, `Insert`, `SendAndFree` | `m_procList` of each stage, `addPicSorted`, the end of `runStage` |
| `SeesFlush`, `FirstFlush`, `FlushedBy` | the flush in `runStage` and `addPicSorted` |
| `PreProcess`, `KeptPics`, `LinkPrevQpaBufs`, `FixStartOfLastGop` | `PreProcess::processPictures` and what it calls |
| `FilterPictures`, `HasNewPicture` | `MCTF::processPictures`, without the filtering |
| `StartGop`, `InitPicture`, `EncodePicture`, `EndEncode`, `FinishPicture` | `EncGOP::processPictures`, `xProcessPictures`, `xEncodePicture` |
| `WriteAccessUnit`, `ReleasePictures`, `Unneeded` | `xProcessPictures`, `processPictures`: output and release |
| `EncodeFrame`, `EncodeFlush`, `AddInput`, `StayInCall`, `ReturnFromCall` | `VVEncImpl::encode`, `EncLib::encodePicture` |

A configuration gives the group structure (coding number, group, references and lists of
each frame), threads and the number of parallel frames, lead and trail frames, and after how
many frames the caller may flush. `AccessUnits` promises that access units come out in coding
order, each once, only of frames that went in, and that the end is reported when all are
out; `ImplementsAccessUnits` is the refinement.

* `enc_pipeline`: four configurations. `Serial` has lead and trail frames, reconstructed
  pictures for the caller, no threads; `Blocking` a hierarchical group and threads without frame
  parallelism, with every length of input up to 15; `Parallel` two picture encoders;
  `Limited` the smallest number of units the code computes, so that `encodePicture` has
  to wait. In the latter two the range of the temporal filter (6), the units
  added at the end (3) and the access units kept back (4) are scaled down, named
  `range`, `extra` and `delay`, to reach the limit with few frames; `NumPrevFrames` = 2
  as in the code. A unit is counted exactly as often as it is used, its frame does not
  change under a reader, references stay while an encoder reads them, no check
  of the stages fails, the filter never takes a frame twice.
* `enc_flush` shows finding 4.

Fairness: the calling thread runs, the pool finishes the pictures that are being
encoded, and a caller that has begun to flush goes on until the encoder says that all is
out, as `vvencapp` does.

Proved, in `EncStages_proofs.tla`, `EncStages_coding_proofs.tla` and
`EncStages_order_proofs.tla`, for any configuration and any input: `UnitsCounted`,
`UnitsIntact`, `ReferencesHeld`, `TypeOK`, `FilterSeesWindow`, `NoFatalError` and
`ImplementsAccessUnits`, that is, every safety property of `enc_pipeline`. The
assumptions are on configurations: `EncStagesAssumption` gives their types and at most 64 lead frames
(`VVENC_MAX_GOP`, `vvencCfg.cpp:773`), below the value that stands for no picture;
`EncStagesGopAssumption` says that coding numbers are different (`GOPCfg.cpp:177`) and
references coded before the pictures that use them (`GOPCfg.cpp:444`), and that the frames up to
the one with coding number 0 are in group 0: coding numbers start with the first GOP, and the
number of the GOP goes up when it is complete (`GOPCfg.cpp:178`, `GOPCfg.cpp:230`). The
invariant has five layers, each inductive together with the ones before:

* `FlowSafe`: the count of a unit says nothing of which frame is in it, so the frames' way through the
  stages is needed (`Ordered`): until the flush, pre-processing holds the
  `NumPrevFrames` frames before the next one, so that they are still there to be linked; the
  filter has only frames that pre-processing has seen, and the GOP encoder only frames that
  the filter has passed, so no stage gets a picture twice. A picture's previous
  frames are those of its unit until it gives them back (`Linked`), and pictures not
  yet filtered have given nothing back (`Unfiltered`), so the next stage's picture may take them over. A
  stage's end, `SendAndFree`, is summed up once for all stages (`Finishing`): what it
  takes and gives is counted per unit (`SendingCounts`), and where each picture of the new lists comes
  from (`SendingFrom`).
* `CodingSafe`: the queues and running encoders hold different pictures (`Apart`), all open, that
  is with slice header and without access unit (`AllOpen`); the references of
  an open picture are in the list and its count is the number of open pictures that refer to it
  (`Referencing`), so that `xReleasePictures` never takes one of them, whatever a later header said
  of it (`referenced`); a running encoder started with reconstructed references (`Started`). That a picture
  does not refer to itself is the one place where the assumption on the groups is used.
* `FramesFlow` for `FilterSeesWindow`: the filter waits for a number of pictures
  (`m_minQueueSize`), which is a window without gaps only because its list is exactly an interval
  of the frames (`FilterHolds`). While frames come in, the last one is `range` frames ahead of
  the one to be filtered or one more (`Paced`), so no run of the stage with nothing new filters
  early; and a flush reaches the GOP encoder only when the stages before are empty
  (`Drained`).
* `CodingFlow` for `NoFatalError`. Slice headers are written in coding order, so references get
  theirs first (`Order`). That none is left out takes two facts: the coding numbers up to the
  last one have all been seen unless the input ended (`Gapless`), and a picture that the filter
  has passed on is in the list until it is coded (`Conserved`), although
  `xReleasePictures` may release what nobody refers to. `Led` says that the picture coded first
  is intra, or waits for the flush that makes it so: this is where the clause on the
  first group is used, since `fixStartOfLastGop` marks only pictures of group 0. Without frame parallelism
  one picture is open at a time (`OneByOne`), and the access unit to be returned belongs to a
  picture of the list (`AuHeld`). That some encoder runs when `encodePicture` waits
  for one follows from all of these: the open picture that is first in coding order has its references
  reconstructed (`SomeReady`).
* `Delivery` for `ImplementsAccessUnits`: the access units that were delivered, those kept back
  for the delay, the one just written and those still to be written, in this order, are in coding
  order, each once (`Lined`), and together they are the pictures that have a slice header
  (`Complete`). When the last call reports the end, the lists are empty, and with `Conserved`
  every frame has one.

The theorems of the last three layers first sum up the steps: by the frames they move
(`FrameSteps`), by what they do to the GOP encoder (`GopSteps`), and by what they do to access
units (`DeliverySteps`). Not proved, and checked by `enc_pipeline` only: the liveness properties,
`CallsReturn` and `FlushEnds`.

Not modelled of the pipeline: the look-ahead stage and two-pass encoding, rate control
in lock step, the rate cap, the synchronisation of ALF parameter sets, the rules for key
frames and IDR at POC 0, several GOPs at a time, and the lists that recycle `Picture`
objects. `EncStages` knows only that an encoder started by it ends; what happens in
between is the next module.

## EncSlice: the encoder's CTU tasks

| in the module | in the code |
|---|---|
| `state`, `at` | `m_processStates[]`; where in the pool or in `xProcessCtuTask` a task is |
| `tileColsDone` | `Picture::m_tileColsDone` |
| `ReadyCtuEncode` ... `ReadyFinishSlice` | the tests at the head of each `case` |
| `LineOrder`, `Past`, `FilterPast` | lines 909-914, the functions `checkCtuTaskNb...` |
| `RefPicCtuLineReady` | `refPicCtuLineReady` |
| `NextState`, `EnterStage`, `LeaveStage` | a call that passes the tests of its `case`, and its end |
| `LeaveAlfReconstruct`, `FallThrough` | the case that goes on into the next one |
| `CountTileCol`, `ExtendBorders`, `LeaveCcalfReconstruct` | lines 1383-1410 |
| `ProcessCtus` | `xProcessCtus`, started when `EncGOP.cpp:392` allows |

The tasks of several pictures share the pool. As in `CtuWavefront`, a guard is one step
and working on samples lies between two steps; what is read and overwritten is in the
properties. `MaxRunning` bounds the tasks that are inside the function.
`ConfigAssumption` states that lines are interleaved between pictures only with one row of tiles,
which `vvencCfg.cpp:2193` enforces. The guards are modelled with all filters (reshaping,
deblocking, SAO, ALF, CCALF) switched on: a picture without one does less in the same
stages. Motion vectors are taken to reach at most `ifpLines` lines below the CTU, which is
what the encoder restricts them to. The ready check that the pool calls first
(`xProcessCtuTask<true>`) runs the same tests and is part of `EnterStage`; the loop
without threads (lines 838-852) calls the same function in a fixed order.

* `enc_ctus`: two pictures of 3 x 3 CTUs, the second refers to the first. Four
  configurations: inter-frame parallel by one line, one tile, with and without the
  delay of IBC; two tile columns; two by two tiles coded in parallel and filtered across
  their boundaries, with IBC; two by two tiles that are not filtered across. Three columns and
  lines give a CTU with all eight neighbours, tiles of different sizes and lines before, at
  and after the one the filters are derived at. Two running tasks (`MaxRunning`) put any
  two stages side by side.

Fairness: weak fairness of the next-state relation: the threads of the pool find a task
that is ready while there is one, and no stage runs for ever. All tasks then return
(`AllPicturesEnd`), so the guards of the two pictures never block each other.

Proved, in `EncSlice_proofs.tla`, for every number of pictures with any references to
earlier ones, every size, tiling and configuration that `SizesAssumption` and
`ConfigAssumption` allow: the five invariants of `enc_ctus`, and `TypeOK`, which no run
checks for that reason. Three things make up the inductive invariant `IInv`, besides
the types and `PlacesAgree` (a task's place and its state):

* what a task found when it entered a stage stays true, because states and counters only
  grow: the guard itself (`GuardsHeld`), the references at the start of its line
  (`RefsHeld`) and that the pictures before are finished (`StartsInOrder`);
* the tests look at direct neighbours, the properties at more. The CTUs to the left are
  through a stage that has begun (`LeftDone`; for encoding within the tile only, since
  tiles may be encoded in parallel), and so are, with inter-frame parallel processing,
  the lines above for derivations and CCALF (`UpDone`): each CTU hands on what it found
  in the next, as far as its own task has that stage (`Ladder`);
* the line counter is exact (`CounterExact`): it is the number of tile columns counted,
  and one more only when all are and no task extends the borders.

`NextGrows` goes through the actions once and concludes that states grow, and that a stage
that has begun had begun before or has just been entered (`Begins`); all parts but the
counter and `StartsInOrder` follow from that alone. The properties then follow at a
state: for instance, what CTU *c* reads has not been deblocked because that would have
needed a CTU at or to the right of *c* in its tile to be encoded (`SourceNotDeblocked`),
and with `LeftDone` then *c* too. `AllPicturesEnd` is model-checked only.

## EncPool: the encoder's pool

| in the module | in the code |
|---|---|
| `slots`, `nextFill`, `Seek`, `Increment`, `Fill` | `m_tasks`, `m_nextFillSlot`, `addBarrierTask` |
| `count`, `locked`, `mutex` | `m_count`, `done` and `m_lock` of each `WaitCounter` |
| `Wait`, `Destroy`, `Notify` | `WaitCounter::wait`, its destructor, `notify_all` |
| `Count`, `UnlockDone`, `ReleaseCounter` | the steps of `operator--` |
| `Sweep`, `CheckBarrier`, `ReadyCheck` | `findNextTask` |
| `Call`, `Drop`, `FreeTheSlot` | `processTask`; a task found by a thread that is told to exit |
| `IdleLoop`, `Missed`, `LockIdle` | the idle loop of `threadProc` with `m_idleMutex` |
| `Program`, `Await`, `Shutdown` | `MCTF.cpp:1355-1386`, `EncGOP.cpp:378-413`, `xUninitLib` |

The pool has the same ancestor as the decoder's, and where the code is the same the actions
are. It differs in three ways, which the properties are about. Nothing throws, so
`ImplementsTaskGraph` is the same promise with `MayThrow` empty. Idle threads never
sleep: one spins with the idle lock or without, others wait for the lock. And a counter is
decremented in several steps under its mutex, the barrier last: `CountersOutlive` says that a
counter on the stack of the thread that waits (the temporal filter's) is destroyed only when
no thread is inside its `operator--` any more, which holds because the barrier is unlocked
before the mutex (the comment at `NoMallocThreadPool.h:199`), and
`ImplementsTaskGraph` that a counter that is used again is not unlocked by a thread
that was late. The first call of a line of the filter that would overtake the line above, or
of a CTU task that does not get to its end, returns false (`Follows`); the ready check
of a CTU task looks at others (`Polls`).

* `enc_pool`: two threads and a queue of three slots, which grows or is used again: two
  lines of the filter, the second of which does not overtake the first, and the wait for
  their counter; two CTU tasks, the second polling the first, so that their
  counter reaches zero and is used again while the second is added; the task that finishes
  the picture; and the end, or the encoder is closed before (`MayClose`). All
  threads exit and join (`ProgramEnds`).

Fairness: weak fairness of the main thread and of each worker, as in the decoder's pool. The
time after which a thread goes for the idle lock (`BUSY_WAIT_TIME`) is nondeterministic.

Proved, in `EncPool_proofs.tla`, for any finite number of threads, any tasks, counters,
barriers and chunk size, and any program that keeps to `OrderAssumption`: `CountersOutlive`,
`ImplementsTaskGraph`, and `TypeOK`, which no run checks for that reason. The assumption says of
the program what the encoder does: a counter on the stack is not used after the
function that waits for it has returned (`MCTF.cpp:1355-1386`), and a counter whose barrier
a task waits for is used again only after that task has returned, since `EncGOP` takes a
picture encoder, whose counter it is, out of the free list, where its finishing task at its end puts
it (`EncGOP.cpp:378-413`). That tasks are numbered as they are added is a convention.
The invariant has four layers, each inductive together with the ones before:

* `PoolSafe`: the types, and that a thread between finding a task and freeing its slot is
  alone in that slot (`Owned`), and a task in one slot (`Single`);
* `TasksSafe`: a task that has been added and has not returned is in the queue, a thread
  knows whether the task it holds has returned, and what was awaited stays returned;
* `CountsSafe`: each counter is the number of its outstanding tasks (`CountKnown`), a thread
  inside `operator--` owns its mutex and finds the counter at zero still when it
  unlocks the barrier (`MutexKnown`), and a destroyed counter is zero with nobody inside
  (`Destroyed`). Without the mutex the main thread could add a task between the
  count and the unlocking, and the barrier would open too early;
* `GraphSafe`: for the barriers a thread has seen unlocked, and those cleared from a slot, all
  tasks added to the counter have returned (`GroupDone`). That this stays true while the task
  waits is where `OrderAssumption` is needed (`MainGroups`).

The thirteen actions of a thread are first summed up in eleven cases (`Moves`), which is
all the other layers look at. `ProgramEnds` is model-checked only.

Not modelled: the pool without threads (the encoder creates a pool only with threads,
`EncLib.cpp:238`), done barriers of tasks (no caller passes one), and additions by
several threads (only the calling thread adds).

## Findings

1. *A counter wraps below zero* (`pool_counter`, `ClearedPoolCountsZero`). A task that
   succeeds as the last one of a counter in which a sibling's exception is stored makes
   `operator--` throw from `m_done.unlock()` (`ThreadPool.h:246`) after `m_count`
   is 0. `processTask` turns it into a task exception, and `handleTaskException`
   decrements the counter a second time, to `UINT_MAX`. `waitForAllTasks` then
   never returns; `DecLibRecon.cpp:700` calls it "to wait for all tasks to be cleared
   from the thread pool".
2. *A waiting thread is not notified* (`pool_wait`, `WaitReturns`). If the counter
   reaches zero in `handleTaskException`, the same throw leaves `operator--` before
   `m_cond.notify_all()`. A thread in `wait_nothrow`, woken by `setException`
   while the count was 1, sleeps on.

3. *A flush does not return* (`dec_hang`, `CallsReturn`). If the last slice of the last
   picture never arrives, `flushPic` takes the picture from a list that is to be emptied
   and starts it (`DecLib.cpp:270`). Nobody unlocks the barriers of the CTU lines that were
   not parsed, so the next wait for the instance (`DecLibRecon.cpp:679`) does not end.
   `vvdec.h.in:607` asks the caller to repeat the flush until the end is reported.
4. *An early flush spoils the last one* (`enc_flush`, `CallsReturn`). A flush before the
   first frame is allowed (`vvencimpl.cpp:396`), but leaves `m_flush` set in every stage. The
   flush at the end is then not the first one, pre-processing keeps its pictures
   without marking them, and `encodePicture` runs the stages for ever.

## Plan

Done: the decoder's wavefront and pool with their proofs, its control, parser and picture
list with the proofs of their invariant, errors and output; the encoder's pool, CTU tasks and pipeline with their
proofs. What would come next, in this order:

1. A theorem about the order of output of `DecLib`: `ImplementsOutputOrder` from an assumption
   on the order of POCs in a stream.
2. `ThreadPoolSingle`: the pool without threads (`bypassTaskQueue`,
   `processTasksOnMainThread`), against `TaskGraph` too. The bypass passes an exception to
   a counter that it has not incremented and lets the task be added afterwards: the
   comment at `ThreadPool.cpp:148` and what happens then are to be compared.
3. The look-ahead stage and rate control in lock step in `EncStages`.

## Not modelled, and why

Sample processing, transforms and entropy coding are sequential numerical code that
conformance streams test bit by bit. Rate control is floating point. Parameter sets
and the API layers are sequential and small. The pools without
threads run tasks one after the other; they are left for later. What each module leaves out of
its component is at the end of its section. An exception that is not a task's
(`m_exceptionFlag`) needs an allocation to fail inside the pool itself. Vendored code,
SIMD kernels and the applications are left aside.
