# TLA+ models of IO_Uring-Example

The repository is a library with the shape of stdio, `my_fopen`, `my_fread`
and `my_fclose`, over a raw `io_uring` ring with a kernel submission thread
(SQPOLL), a program `my_cat` that prints files with it, a script that tests
`my_cat`, and fifteen example programs. Here are models of it, checked with
TLC, and proofs, checked with TLAPS.

## Inventory

### my_cat

| Part | State | Operations |
|---|---|---|
| `main.cpp` | the argument, the 8-byte calls, what was written | `main` deals with the arguments one by one; `cat` opens, reads until 0 bytes, reports, closes |
| `host.cpp` | submitter (ring), `file_info` (iovecs), `my_file` (position) | `my_fopen`, `app_setup_uring`, `get_file_size`, `my_fclose` |
| `device.cpp` | `my_file` position, completion ring | `my_fread`: find the completion, copy block by block, save the position |
| the kernel | submission and completion ring, poller, buffers | take the entry, read into the iovecs, post the completion, go to sleep and be woken |

Each `my_fopen` creates a ring, submits **one** READV for the whole file, wakes
the poller if its flag says so, and spins until the completion tail moves.
`my_fread` then only copies memory. The program and the kernel share the ring
and the buffers; there are no locks between them.

Hard parts:

* *Interleaving.* The store of the tail and the load of the flags against the
  poller's announce, second look and sleep; the copy and the close against the
  read.
* *Partial failure.* Seven ways to give up in `my_fopen`, most of them leaving
  something open or allocated; failed and short reads.
* *Boundaries.* The block count narrowed to `int`; the iovec limit of one
  READV; a last block that is not full; calls that end inside a block; the
  descriptor limit.

What makes it correct: each file is delivered as one stream, in order and
without a gap; nothing is released while the kernel uses it; copies stay in
their buffers; the program ends.

### Examples (`src/example`)

| Program | State | Operations | Hard in it | Correct means |
|---|---|---|---|---|
| `io_uring_read.c` | as `my_cat` | the wait is in `my_fread`, nothing is closed, `cat` goes on with a NULL `my_file` | the copy against the read | until a crash, the same streams as `my_cat` |
| `My_read.cpp` | the same, held in `unique_ptr`s | `my_fopen` uses `s` after `std::move(s)` and ends the process | | |
| `omp_io_uring_manual.c` | one ring of one entry, SQPOLL; both queues' heads and tails | a read per file, found after a fixed sleep; or one write, waited for | an entry written over one the poller has not taken, or is reading; late completions; a wait without a wake-up | what is printed was read, each file once and in order, unless late |
| `io_uring_cp.c` | a ring of two without a poller, the offset | copies read by read | short transfers, counters that wrap, equality of the copy | success means equal files |
| `omp_io_uring_polling.c` | one liburing ring, the blocks of every file | submit one file, wait for one completion, print the file it names | a wait that fails, a completion that is not given back | each file is printed once, in order |
| `polling.c` | `files[]` with offset and buffer, `num_files` | reads of all files in flight at once, polled | a read that is prepared and not submitted; a count that does not get to zero | what is written of a file is its beginning |
| `io_uring_poll.cpp`, `io_uring_polling.c` | a ring, a `FILE`, a buffer per stream | `my_fopen`, `my_fread`, `my_fclose`, a loop of ten calls | offsets across calls; two ways to read one file; undo lists | callers get the file; everything is released |
| `io_uring_write.c`, `omp_io_uring_{atomic,ptr,string,writer}.c` | one ring | one write each, then exit | short writes | |
| `fread.c` | none | synchronous baseline | none | |
| `omp_sync_task.cpp` | an array | commands and GPU parallel loops | no ring | |

The programs share nothing but what they are modelled on, a ring between one
process and the kernel; `EarlyCat` and `MyCat` therefore share the ring's module,
`Uring`, and the abstract specification. The others use their rings differently
enough (several requests at once, liburing, no poller) to have one each.

`PROJECT.json` lists every component with its status and every hazard with its
line.

## Modules

| Module | What it is | Source |
|---|---|---|
| `Blocks` | size to block count, in C's arithmetic, `int` of a parameter width | `host.cpp:80-83` |
| `Uring` | one SQPOLL ring: the application's stores, the store buffer, the poller, the READV and its completion | `host.cpp:19-32, 129-166, 202-268`; the kernel's side is external |
| `MyCat` | the program over `Uring`, and its properties | `main.cpp`, `host.cpp`, `device.cpp` |
| `FileStream` | what `my_cat` promises: a sequence of streams | abstract |
| `RingCopy` | the copy program over a ring without a poller | `example/io_uring_cp.c` |
| `FileCopy` | what a copy promises: a growing prefix, and success is all of it | abstract |
| `EarlyCat` | the earlier version of `my_cat` over `Uring`; implements `FileStream` | `example/io_uring_read.c` |
| `ManualRing` | both commands over a ring whose entries can be written over | `example/omp_io_uring_manual.c` |
| `PollEach` | file after file on a shared liburing ring | `example/omp_io_uring_polling.c` |
| `PollAll` | all files at once on a shared liburing ring | `example/polling.c` |
| `StreamReaders` | two `my_fread`s under one `my_fopen`, `my_fclose` and `main` | `example/io_uring_poll.cpp`, `example/io_uring_polling.c` |
| `MC*` | constants for TLC | |
| `*_proofs` | theorems about the module they name; `Uring_proofs` also has those of `Blocks` | |

**`Uring`.** `sqTail` is `*sring->tail` as the program sees it and `sqSeen` as
memory holds it; `Drain` is the store leaving the buffer. `write_barrier()` is a
release fence, no instruction on x86, so it does not drain. `poller` is the
submission thread: it looks at the tail, may announce that it wants to be
woken, looks once more and sleeps. `IORING_SQ_NEED_WAKEUP` is set while it
is `announced` or `asleep`. `ReadProgress` and `PostCompletion` are the READV,
which may fail, come short, or be refused for its number of iovecs.

**`MyCat`.** One action per step of the program at which the kernel can be
noticed or a call can fail; `pc` names the next one. `FopenSetup` to `FopenSpin`
are `my_fopen`, with every error return; `FreadEof` to `FreadReturn` are
`my_fread`, one `FreadCopy` per round of its loop; `CatWrite` and `CatClose` are
`cat`. A byte is named by its position in the file, a byte nothing was written
to is one of `StaleBytes`. `live` and `fds` say what is held; `overtaken` is
history, it remembers that the flags were read while the tail was still
buffered. A size past `INT_MAX` may narrow to too few blocks; the loop over the
iovecs then writes behind `fi`, which is undefined behaviour, and the model ends
there (`FopenOverrun`, `pc = "overrun"`). The properties are at the end of the module.

**`FileStream`.** Files are dealt with in order. Each is skipped, or opened with
a stream -- nothing, or the file rounded up to whole blocks, a prefix of its
bytes and then stale ones -- which is sent in pieces of `CHUNK` and closed at
its end. `MyCat!Stream` is the refinement mapping; the stream is a function of
the buffers and the completion (`Image`).

**`RingCopy`.** `OpenSource`, `OpenTarget` and `SetupRing` are the program up to
its loop, with every exit; `SubmitRead`, `ReadDone`, `SubmitWrite` and `WriteDone`
are the four quarters of a round. A submission and `io_uring_enter` are one action:
this ring has no poller, so the kernel looks at it in the call only. The
tail counts modulo `sq_entries`, the kernel's head modulo 2^32 (`WRAP`); an entry is
taken if they differ. A failed `io_uring_enter` leaves `op = "lost"`, which the program
does not notice. `ReadDoneByKernel` and `WriteDoneByKernel` complete a request, in
full, short, or with an error. `Shrink` is another process.

**`FileCopy`.** The target grows as a prefix of the source and success requires
the whole. `RingCopy` maps to it the first `offset` bytes of the destination, and
at `done` the whole destination.

**`EarlyCat`.** The steps of `my_fopen` before the submission are one action, and
their failures another, because `cat` goes on from each in the same way: with NULL,
which `my_fread` then looks into, and the process crashes. `CatBuffer` is `cat`'s own
buffer; without it `cat` returns, also with the read under way, or with no `my_file`.
`FreadBegin` to `FreadReturn` are `my_fread`, which waits (`FreadSpin`) in the calls that
still have `isfirst = 0`. `FopenOverrun` is as in `MyCat`. `Inherited` are descriptors the
process starts with. The refinement mapping opens the abstract stream where
`my_fread` has seen the completion, not where `my_fopen` returns.

**`ManualRing`.** `Store` writes slot `sqTail % SQ_ENTRIES` with no look at the head, as
the code does, be it that the poller has not taken what was there or is reading it.
The poller begins to read an entry (`PollerBegin`), `seen` collects what the entry has
been written for since, and `PollerFetch` takes each of its four fields from any of
these: the descriptor (`from`), the iovecs (`into`), their number (`len`) and the
`file_info` the completion will name (`data`) may be of four files. `taken` are the
entries so read, its length is the submission head. A request stores into the buffers of
`into` as many bytes as fit the iovecs, the number of them and the file (`Limit`). If the
number is too large for the iovecs and the file goes on, the kernel takes what lies
behind them for iovecs: it refuses them, or writes there, where the model ends
(`Overrun`). `posted` are all completions, `cqTail` of them in the ring, the rest held
back while it is full. `usleep` needs no variable: the kernel may do anything or nothing
between `Enter` and `ReapEnd`. The ring is released when the process ends. `overwritten`
and `late` are history.

**`PollEach`, `PollAll`.** liburing is external: `sq` is the submission queue, `cq` the
completions that have not been marked as seen, oldest first. In `PollEach` a
wait finds the oldest completion, whosever it is, or fails (`WaitFails`); the
completion of a failed read stays in `cq` because the code returns before
`io_uring_cqe_seen`. In `PollAll` `prepared` are entries that `setup_read` has
filled in; `Submit` is the only action that submits, at the end of `my_fopen`. The
poll that finds nothing is a stutter (`Poll`).

**`StreamReaders`.** `prog` says which program runs. `Open` is a step of `my_fopen`,
with what it makes and what its failure gives back; each failure has a list of its own
(`UndoFopen` to `UndoAlloc`). The ring's reads are of
`BUFFER_SIZE` bytes at offset 0; `spos` is the position of the stream that
`io_uring_polling.c` reads on with (`SyncFull`, `SyncShort`).

## Runs

| Run | Configuration | Shows |
|---|---|---|
| `mycat` | `MCMyCat.cfg`, passes | types; the iovecs are overrun only by a size past `INT_MAX`; copies in bounds; nothing needed is released; delivery in order and whole; a wake-up is lost only by the reordering; `MyCat` implements `FileStream`; the program ends unless a wake-up is lost |
| `content` | `MCMyCat_content.cfg`, violated | the comparison of `testPerformance.py:36` fails when the last block's stale bytes hold a word character |
| `kept` | `MCMyCat_kept.cfg`, violated | against the comment at `host.cpp:188`, the ring's descriptor stays open: one file of one block, with no call failing, is opened, read to its end and closed by `my_fclose` |
| `hang` | `MCMyCat_hang.cfg`, violated | with nothing failing, the spin of `my_fopen` may never end: a lost wake-up |
| `large` | `MCMyCat_large.cfg`, violated | a file with more blocks than one READV takes is reported as read and nothing of it is delivered |
| `copy` | `MCRingCopy.cfg`, passes | on success the files are equal; completions are not confused; no busy wait is for a request the kernel has not seen, though the tail wraps at `sq_entries` and the kernel's head does not; `RingCopy` implements `FileCopy`; the program ends unless an enter failed or the source was cut |
| `early` | `MCEarlyCat.cfg`, passes | until its crash the earlier version implements `FileStream`, though nothing waits in `my_fopen`; it ends unless a wake-up is lost |
| `manual` | `MCManualRing.cfg`, passes | what the completion of an intact entry says was read is printed, and entries are torn, or other files' bytes printed, only where one was overwritten; without that no read is lost or done twice; the order holds while no round is late; the program ends, but for a write the poller sleeps through |
| `manual_wait` | `MCManualRing_wait.cfg`, violated | with no call failing, the write command may wait for ever, against the comment at `omp_io_uring_manual.c:286` |
| `polleach` | `MCPollEach.cfg`, passes | whatever waits and reads fail, a submitted file is at one place and printed at most once; the order holds until a wait fails; after a failed read nothing is printed any more; the program ends |
| `pollall` | `MCPollAll.cfg`, passes | what is written of a file is its beginning; a file has one read at a time and none is dropped; `my_fread` returns exactly when all files were opened and none brought a byte |
| `streams` | `MCStreamReaders.cfg`, passes | callers get beginnings of the file; `io_uring_polling.c` loses at most a last piece if nothing fails; everything is released; both end, `io_uring_poll.cpp` not on an empty file |

Several of these properties describe what a program does where one would wish for
something else: `OverrunOnlyPastIntMax`, `NothingAfterError`,
`ReturnsOnlyEmptyHanded` and `BeginningsOnly` say how far a defect reaches and no farther. No comment or
test of the repository promises the opposite, so they are not runs with an expected
violation.

Bounds of `mycat`, and why they are enough:

* `BLOCK_SZ = 2`, `CHUNK = 3`: calls end inside a block, at its end, and span
  two (the program has 4096 and 8: there blocks span calls and never the other
  way; here both happen).
* `MCSizes = 0 .. 13` with `INT_MAX = 5`, `IOV_MAX = 2`: empty file, partial and
  full last block, files below, at and above the iovec limit (5). Past `INT_MAX` the
  count comes out negative (6, 7, 8, 10), which the allocation refuses, or as 0 or 1
  (9, 11, 12, 13), too few blocks: up to 11 the narrowed size is negative, but
  division rounds towards 0 and a partial block is added; 12 and 13 come round.
* `NFiles = 3`, `FdLimit = 4`: a second file after every outcome of the first; with
  a ring and a descriptor left behind by earlier files, the limit is met in the
  middle of `my_fopen` and before it.
* `MCFaults`: every call whose result is looked at, the READV included.
* `MCStale`: one stale byte; that there can be several matters to `content` only,
  which has two.

`large` uses `IOV_MAX = 2` and sizes of three blocks; in the program that is more
than 1024 blocks of 4096 bytes, a file of more than 4 MiB.

Bounds of `copy`: blocks of 2 and sources of 0 to 5 bytes give none to three blocks,
full and partial last ones; short reads make more rounds of them, so that the
counters, which wrap at 8, and the completion ring of 4 go round within a run. Old
targets are empty, shorter and longer than the source.

Bounds of `early`: as `mycat`, with `FdLimit = 6`, and 0 or 1 of them taken at the start:
three files need six, so that they all fit or the third does not. Of the sizes past
`INT_MAX` there are 6, 7 and 13.

Bounds of `manual`: the program's submission ring of one entry, and two files, so that
the second's entry can be written over the first's, or into it. The completion ring has
one place instead of two, so that two completions meet a full one. Files have one, two
or three blocks, the last not full; three are more than `IOV_MAX`, so that either READV
can be refused, and torn entries have too few, too many or as many iovecs as there are. A
third file brings more mixtures of the same kind, and more states than a run can have;
the theorems are for any number of files and rings of any length.

Bounds of `polleach`: four files on a ring of two, so that after two failed waits the
program meets a full ring and waits for an entry; a size of no block, one, two
(refused, `IOV_MAX = 1`), and a file that is not regular. `pollall`: three files and a
ring with no entry to spare, buffers of 2 for files of 0, 1 and 3 bytes, so that a file
ends inside its first buffer or after it.

Bounds of `streams`: a buffer of 4 bytes, which may take up to four short reads; files of no byte, half a buffer, one, and one and three quarters;
three calls of `main` instead of ten, which is what `io_uring_polling.c` needs for the
largest file when nothing comes short, so that both ends of its loop are reached.

*Deadlock* is checked in all runs but `manual_wait`, where the wait for a completion
that does not come is the point, and which reports it as a violation of `WriteEnds`; a program that has ended stutters (`Exited`).

*Fairness* (`FairSpec`), used by `ExitsUnlessWakeupLost` and `Exits`: the program
is scheduled (weak fairness of `App` as a whole: it is one sequential process);
a store leaves the store buffer; the poller while awake is scheduled, so it takes
an entry that it sees and goes through with its second look; a read that was
taken up goes on and completes. There is none for `PollerAnnounce`: the poller may
stay awake or go idle at any time. For `RingCopy` there are two: the program is scheduled, and the
kernel completes a request that it has taken. `sq_thread_idle` is not modelled, because when
the poller first goes idle is up to the kernel.

The other modules assume the same two things, that the program is scheduled and that
the kernel does what it was asked: `ManualRing` that an awake poller takes an entry and
that a taken request is completed, `PollEach` and `PollAll` that the kernel's thread
takes and completes, `StreamReaders` that reads are completed. Interrupted waits
(`EnterWriteFails`, `SqringWaitFails`, `WaitFails`) and the kernel's `FlushOverflow` are
outside of the fair actions: they can happen and never have to, so no property of
termination rests on a signal that happens to come. In `EarlyCat` fairness is that of
`MyCat`.

## Proofs

The theorems hold for all values of the constants that satisfy the `ASSUME`s of
the modules. One has an assumption more: `WRAP = k * SQ_ENTRIES`, in
`RingCopy_proofs!EveryRequestTaken`: the range of the kernel's counters, 2^32, is a
multiple of the ring's length, which is a power of two.

Of the size of a file `MyCat` and `EarlyCat` assume nothing: the theorems cover those
past `INT_MAX` too, and end with the model where the iovecs are overrun.

### The modules of proofs

* `Uring_proofs`: what both programs over `Uring` need. `BlockCountRoundsUp`: the
  block count of a size up to `INT_MAX` is the size divided by the block size, rounded
  up. `BlockCountFallsShort`: of a larger size it is negative or too small, since what
  narrowing takes off is more than the block it may round up to. `KernelRing`,
  `StoreRing`, `WakeRing`, `KernelLeaves`: what the steps of `Uring` keep and leave
  alone, `RingInv` among it (the one entry passes `sqTail`, `sqSeen`, `sqHead` and
  `cqTail` in this order). `CompletedIsOver`: behind the completion nothing is in flight.
* `MyCat_proofs`: `IInv` is inductive. It is the conjunction of `TypeOK`, `RingInv`,
  `PhaseInv` (how far the ring is at each `pc`: from `spin`'s end on the completion
  is there, so nothing is in flight), `WakeInv`, `HoldInv` (what the file holds at
  each `pc`), `BlockInv` (the filled iovecs cover what the loop has gone through,
  all but the last one full, and the loop ends where they do or overruns), `PositionInv` (the position in `mf`, or in the locals
  during a call, is exactly where the delivered bytes end) and `DeliveredInOrder`.
  None of the properties is inductive by itself: that copies stay in bounds, for
  instance, needs that the iovec at the position is there and that its length
  reaches past the offset, which needs the invariant of the loop that filled them.
  There is one lemma per conjunct (`TypeStep`, `RingStep`, ...), and one per fact
  about the actions that several of them use (`RingTouched`, `CopyBounds`,
  `CopyMoves`, `ReadingSteps`). From `IInv` follow all seven invariants of the run
  `mycat`.
  `DeliversStreams` is `Spec => StreamSpec`: `FopenSpin` is `Open`,
  `CatWrite` is `Send`, `CatClose` is `Close`, every way to give up is `Skip`, all
  the rest stutters. It rests on `Image` being constant while the file is read,
  `Delivered` being a prefix of it, and every call but the last being full.
* `EarlyCat_proofs`: the same argument with the wait moved into the first `my_fread`,
  which changes most of the invariant. `PhaseInv` knows of the completion only once
  `isfirst` is set or the copy has begun; `PositionInv` says that before the wait
  nothing at all has moved, neither bytes nor position nor the ring's head, and then
  where the bytes end; `DeliveredInv` that what is handed over is the buffers', which
  from then on nobody writes to (`BytesStay`). `WakeInv`, on top of these, is the
  one of `MyCat`, kept until the entry is taken. `AlwaysDeliveredAfterCompletion`
  is why it is safe not to wait in `my_fopen`. `DeliversStreams` is the refinement: the
  abstract stream opens in `my_fread`, in the step that sees the completion
  (`StreamStarts`), and a crash is a stutter.
* `RingCopy_proofs`: again one inductive invariant, `IInv`: `FileInv` (up to `offset`
  the destination is the source, and it never reaches past `file_size`), `BlockInv`
  (the bytes read are in the buffer), `RequestInv` (one request at a time, with the
  kernel or answered), `AnswerInv` (what a completion says has happened). The
  destination may hold stale bytes behind `offset`; `SuccessMeansEqual` needs that
  they are before `file_size`, where a later round overwrites them. `Copies` is the
  refinement, `WriteDone` being `Extend`. `EveryRequestTaken` rests on `AgreeInv`: the
  tail, which wraps at `sq_entries`, and the kernel's head, which wraps at `WRAP`, agree
  modulo `sq_entries` between two requests, so that an entry is always seen
  (`TailIsAhead`); it holds only if the one range is a multiple of the other. It is the
  run's `NoWaitForNothing`.
* `PollEach_proofs`: the invariant follows each file from the submission queue to the
  output: files below `arg` are submitted, what is in the queues is in line, and a
  completion says what was read. `PrintedOnce` needs all of it, because the program
  may be any number of completions behind. `NeverWaitsForNothing` counts: fewer files
  are printed than were submitted (`CountInv`), and no two printouts name one file, so
  one of the submitted files is still in the queues or with the kernel.
* `PollAll_proofs`: `PlaceInv` (a file's request is prepared, submitted, with the kernel or
  answered, never two of these), `OffsetInv` (each of them goes on where the file was
  left), `PhaseInv` (what there can be before `my_fopen` has submitted), `CountInv`
  (`num_files` and the open files that wait for nothing any more add up to all files, and
  a file that has written has its next read prepared). `ReturnsOnlyEmptyHanded` is
  `CountInv` at `num_files = 0`: then every file was opened and brought nothing.
  `NeverPollsForNothing` adds `LaterInv`: what `my_fread` prepares is of files that gave
  bytes, so that with none of these an open file is not waiting only if it is counted.
* `StreamReaders_proofs`: `HeldInv` (what is held at each step of `my_fopen`, so that the
  undo lists fit), `FlightInv` (one read at a time, or a wait was interrupted), `PollInv`
  and `ChainInv` (where a byte of the output comes from), `StartInv` (at which places a
  beginning can be), `TimesInv`; and `WaitInv`, `CalledInv`, `ShapeInv` on top of these.
  `ShapeInv` is what `OnlyLastPieceLost` needs in every state of an undisturbed
  `io_uring_polling.c`, not only at the end: what is delivered is two beginnings of the
  file, the stream is where the second one ends, or at the end of the file with less
  than a call missing, and after a call that brought nothing it is the latter.
  `NeverWaitsForNothing` holds even behind an interrupted wait, whose completion the
  next one finds.
* `ManualRing_proofs`: `ModeInv` (how the tail, `arg` and `pc` go together in either
  command), `EntryInv` (the entries are of the command's kind, all that the poller
  has seen of one is its last version unless one was overwritten, and so is a torn
  one), `LineInv` (with
  nothing overwritten the entries between head and tail are their files', at their
  slots), `AnswerInv` (each entry that was taken is running or answered once, with no
  more than was read), `PrintInv` (what `PrintedWasRead` says; `StoredBytes` and `WhoseBytes`
  relate it to what requests have stored), `LateInv` (with no round late there is one request at
  a time). The slots of a ring are told apart by the lemma `Apart`: two places less than
  `SQ_ENTRIES` from each other differ modulo `SQ_ENTRIES`. `WriteInv`, on top of it, is
  about the write command: it has one request, whose completion finds room.

### Safety halves of liveness

A program that waits must have something to wait for, or no fairness would make it end.
That is a safety property, and there is a theorem of it for each liveness property about
an end:

| Liveness, model-checked | Its safety half, proved |
|---|---|
| `MyCat!ExitsUnlessWakeupLost`, `EarlyCat!EndsUnlessWakeupLost` | `NeverSpinsForNothing` of either: while there is no completion the read is under way, or its entry is seen by an awake poller, or the flags were read before the tail had left the store buffer |
| `RingCopy!EndsIfUndisturbed` | `EveryRequestTaken`, which is also checked, as `NoWaitForNothing` |
| `ManualRing!EndsUnlessAsleep` | `NeverWaitsForNothing`: no completion of the write is held back for want of room |
| `PollEach!Ends`, `StreamReaders!EndsUnlessEmpty` | `NeverWaitsForNothing` |
| `PollAll!ReturnsIfEmptyHanded` | `NeverPollsForNothing` |

### What is only model-checked

All invariants, action properties and refinements of the runs that pass are proved.
The temporal properties about termination (`ExitsUnlessWakeupLost`,
`EndsIfUndisturbed`, `EndsUnlessAsleep`, `Ends`, `ReturnsIfEmptyHanded`, `EndsUnlessEmpty`,
`EndsUnlessWakeupLost`) are not, because liveness under fairness
is out of the prover's reach. The five violated properties are false, there is nothing to
prove.

To repeat them: `tlc -config MCMyCat.cfg MCMyCat`, `tlapm MyCat_proofs.tla`, and so on.

## Not modelled

* Unsuccessful `omp_alloc` of `s` and `mf` (not looked at by the program), and
  `free` on memory of `omp_alloc` after a failed setup, are taken to have no effect
  on the rest.
* The result of `write` (`main.cpp:26`) is ignored by the program; the model takes
  every write to be complete.
* `update_file_size` has no caller; `my_fopen` is only called with `"r"`.
* `my_fread` is compiled so that it could run in an OpenMP target region; it is
  called on the host and modelled there.
* Timing, messages and `systemTimes`.
* `io_uring_cp` with an `-O2` build, where the busy wait may read the tail once, and
  with source and destination the same file.
* The write-once examples: one ring, one write, one wait, exit. The steps that could
  go wrong in them are in `ManualRing` and `PollEach`, where they meet others.
* `fread.c` and `omp_sync_task.cpp`: no ring; the state is that of stdio, or a loop.
* `My_read.cpp`: its `my_fopen` moves `s` into `mf` (line 257) and goes on with
  `*s->sq_ring.ring_mask` (264), where `s` is a null pointer. The process ends at the first
  file it opens, before it submits anything; nothing behind it is reached.
* What follows undefined behaviour. The models end where it begins: where the iovecs are
  overrun (`MyCat`, `EarlyCat`), where READV is given more iovecs than there are
  (`ManualRing`), at the look into a NULL `my_file` (`EarlyCat`). They stop short of:
  sizes past `INT_MAX` in `omp_io_uring_manual.c`; more than `QUEUE_DEPTH` files in
  `polling.c`, which overruns `files[]` (both an `ASSUME`); the terminator that `main`
  stores behind a full buffer (`io_uring_poll.cpp:189`); the buffer that `my_fclose` frees
  under a read an interrupted wait left in flight, whose bytes nobody looks at any more.
* Which bytes follow those that a short read has brought: `MyCat` says how many, and that
  they are stale, and `FileStream` permits them; there is no property of them.
* The iovec of length -1 of `omp_io_uring_polling.c` (line 91): `PollEach` takes it that READV
  refuses it.
* `omp_io_uring_manual.c` and `omp_io_uring_polling.c` print all blocks of a file,
  whatever the completion says; the models record how many of the bytes were read,
  not what the others were. The write command's completion is not looked at by
  the program, so a failed write ends as a successful one does.
* liburing and the kernel beyond what the programs rely on: they are taken to do what
  they are documented to.
