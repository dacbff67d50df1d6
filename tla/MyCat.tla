------------------------------- MODULE MyCat -------------------------------
(***************************************************************************)
(* my_cat (main.cpp, host.cpp, device.cpp): main hands each argument to     *)
(* cat, which opens it with my_fopen, drains it with my_fread and releases  *)
(* it with my_fclose.  my_fopen makes a ring of its own for the file,       *)
(* submits one READV for all of it and spins until the completion shows.    *)
(*                                                                         *)
(* A byte of the file is named by its position, 0, 1, ...; a byte of memory *)
(* that nothing was written to is a member of StaleBytes.  Each action is   *)
(* one step of the program between two points where the kernel can be       *)
(* noticed; pc names the next one.                                         *)
(***************************************************************************)
EXTENDS Uring, Blocks, Sequences, FiniteSets

CONSTANTS
  NFiles,      (* argc - 1                                          *)
  CHUNK,       (* size * count of a my_fread call: sizeof(buffer), 8 *)
  Sizes,       (* the file sizes fstat may report                   *)
  StaleBytes,  (* what memory fresh from posix_memalign may hold    *)
  FdLimit      (* descriptors the process may have open             *)

ASSUME MyCatAssumption ==
  /\ NFiles \in Nat
  /\ CHUNK \in Nat \ {0}
  /\ Sizes \subseteq Nat
  /\ StaleBytes # {}
  /\ StaleBytes \cap Nat = {}
  /\ FdLimit \in Nat

VARIABLES
  arg,        (* arguments dealt with                                     *)
  pc,         (* where the program is                                     *)
  size,       (* file_sz                                                  *)
  blocks,     (* mf->blocks                                               *)
  remaining,  (* bytes_remaining                                          *)
  iov,        (* iovecs[].buffer_size, for the iovecs filled so far       *)
  memory,     (* what the iovecs' buffers held when they were allocated   *)
  curBlock,   (* mf->current_block                                        *)
  curOffset,  (* mf->current_offset                                       *)
  isfirst,    (* mf->isfirst                                              *)
  index,      (* my_fread's locals: block,                                *)
  offset,     (* offset in it,                                            *)
  head,       (* completion head,                                         *)
  chunk,      (* and the bytes copied to ptr                              *)
  out,        (* bytes of this file given to write(STDOUT_FILENO)         *)
  live,       (* what this my_file holds: s, fd, fi, mf                   *)
  fds,        (* descriptors open in the process, rings included          *)
  overtaken   (* history: flags was read while the tail was still buffered *)

openVars == <<size, blocks, remaining, iov, memory>>
posVars == <<curBlock, curOffset, isfirst>>
callVars == <<index, offset, head, chunk>>
holdVars == <<live, fds>>

appVars ==
  <<arg, pc, openVars, posVars, callVars, out, holdVars, overtaken>>

vars == <<ringVars, appVars>>

Opening == {"open", "stat", "register", "alloc", "iovec", "flags", "enter",
            "spin"}
Calling == {"copy", "return"}                          (* inside my_fread *)
Reading == {"fread", "write", "close"} \cup Calling    (* cat has a my_file *)
Ended == {"exit", "overrun"}
Labels == {"main"} \cup Ended \cup Opening \cup Reading

Bytes == Nat \cup StaleBytes

(* The byte at position p of the buffers laid end to end. *)
ByteAt(p) == IF p < filled THEN p ELSE memory[p + 1]

-----------------------------------------------------------------------------
(* main and my_fopen *)

Init ==
  /\ RingInit
  /\ arg = 0 /\ pc = "main"
  /\ size = 0 /\ blocks = 0 /\ remaining = 0 /\ iov = <<>> /\ memory = <<>>
  /\ curBlock = 0 /\ curOffset = 0 /\ isfirst = 0
  /\ index = 0 /\ offset = 0 /\ head = 0 /\ chunk = <<>>
  /\ out = <<>> /\ live = {} /\ fds = 0 /\ overtaken = FALSE

(* Nothing is left of the last file but the descriptors it did not close. *)
ForgetFile ==
  /\ size' = 0 /\ blocks' = 0 /\ remaining' = 0 /\ iov' = <<>> /\ memory' = <<>>
  /\ curBlock' = 0 /\ curOffset' = 0 /\ isfirst' = 0
  /\ index' = 0 /\ offset' = 0 /\ head' = 0 /\ chunk' = <<>>
  /\ out' = <<>> /\ overtaken' = FALSE

(* my_fopen returns NULL: cat prints an error and main goes on. *)
GiveUp ==
  /\ pc' = "main"
  /\ arg' = arg + 1

(* A new submitter and its ring.  When mmap fails, ring_fd stays open.      *)
FopenSetup ==
  /\ pc = "main" /\ arg < NFiles
  /\ ForgetFile
  /\ \/ /\ fds < FdLimit
        /\ RingSetup
        /\ fds' = fds + 1 /\ live' = {"s"}
        /\ pc' = "open" /\ UNCHANGED arg
     \/ /\ fds < FdLimit /\ May("mmap")
        /\ RingSetup
        /\ fds' = fds + 1 /\ live' = {}
        /\ GiveUp
     \/ /\ fds = FdLimit \/ May("setup")
        /\ NoRing
        /\ live' = {} /\ UNCHANGED fds
        /\ GiveUp

(* On failure s and its ring are left allocated. *)
FopenOpen ==
  /\ pc = "open"
  /\ \/ /\ fds < FdLimit
        /\ fds' = fds + 1 /\ live' = live \cup {"fd"}
        /\ pc' = "stat" /\ UNCHANGED arg
     \/ /\ fds = FdLimit \/ May("open")
        /\ GiveUp /\ UNCHANGED holdVars
  /\ UNCHANGED <<ringVars, openVars, posVars, callVars, out, overtaken>>

(* On failure s, its ring and fd are left. *)
FopenStat ==
  /\ pc = "stat"
  /\ \/ \E n \in Sizes :
          /\ size' = n /\ remaining' = n /\ blocks' = BlockCount(n)
          /\ pc' = "register" /\ UNCHANGED arg
     \/ /\ May("fstat")
        /\ GiveUp /\ UNCHANGED <<size, remaining, blocks>>
  /\ UNCHANGED <<ringVars, iov, memory, posVars, callVars, out, holdVars,
                 overtaken>>

FopenRegister ==
  /\ pc = "register"
  /\ \/ /\ pc' = "alloc" /\ UNCHANGED <<arg, holdVars>>
     \/ /\ May("register")
        /\ fds' = fds - 1 /\ live' = live \ {"fd", "s"}
        /\ GiveUp
  /\ UNCHANGED <<ringVars, openVars, posVars, callVars, out, overtaken>>

(* fi, with room for the iovecs of `blocks' blocks, and mf. *)
FopenAlloc ==
  /\ pc = "alloc"
  /\ \/ /\ blocks >= 0
        /\ live' = live \cup {"fi", "mf"}
        /\ curBlock' = 0 /\ curOffset' = 0 /\ isfirst' = 0
        /\ pc' = "iovec" /\ UNCHANGED arg
     \/ /\ blocks < 0 \/ May("fi")
        /\ GiveUp /\ UNCHANGED <<live, posVars>>
  /\ UNCHANGED <<ringVars, openVars, callVars, out, fds, overtaken>>

(* One round of the loop that gives every block a buffer of BLOCK_SZ bytes. *)
FopenIovec ==
  /\ pc = "iovec" /\ remaining > 0 /\ Len(iov) < blocks
  /\ \/ /\ iov' = Append(iov, Lesser(remaining, BLOCK_SZ))
        /\ remaining' = remaining - Lesser(remaining, BLOCK_SZ)
        /\ \E was \in [1 .. BLOCK_SZ -> StaleBytes] : memory' = memory \o was
        /\ UNCHANGED <<arg, pc>>
     \/ /\ May("memalign")
        /\ GiveUp /\ UNCHANGED <<iov, remaining, memory>>
  /\ UNCHANGED <<ringVars, size, blocks, posVars, callVars, out, holdVars,
                 overtaken>>

(* The round asks for bytes that remain, not for iovecs that do: this one is *)
(* written behind fi.  What the program does from here on is undefined.     *)
FopenOverrun ==
  /\ pc = "iovec" /\ remaining > 0 /\ Len(iov) >= blocks
  /\ pc' = "overrun"
  /\ UNCHANGED <<ringVars, arg, openVars, posVars, callVars, out, holdVars,
                 overtaken>>

FopenSubmit ==
  /\ pc = "iovec" /\ remaining = 0
  /\ StoreTail(size, blocks)
  /\ pc' = "flags"
  /\ UNCHANGED <<arg, openVars, posVars, callVars, out, holdVars, overtaken>>

(* Only a release fence stands between the store of the tail and this load. *)
FopenCheckFlags ==
  /\ pc = "flags"
  /\ pc' = IF NeedWakeup THEN "enter" ELSE "spin"
  /\ overtaken' = (~NeedWakeup /\ sqSeen # sqTail)
  /\ UNCHANGED <<ringVars, arg, openVars, posVars, callVars, out, holdVars>>

(* On failure everything is left, the request included. *)
FopenEnter ==
  /\ pc = "enter"
  /\ \/ /\ WakePoller
        /\ pc' = "spin" /\ UNCHANGED arg
     \/ /\ May("enter")
        /\ GiveUp /\ UNCHANGED ringVars
  /\ UNCHANGED <<openVars, posVars, callVars, out, holdVars, overtaken>>

(* Mutants: no wait at all; one completion expected for every block. *)
NoWait == TRUE
CompletedPerBlock == cqTail - cqHead >= blocks

Completed == cqHead # cqTail

(* The loop around `pause': the completion shows, or another round. *)
FopenSpin ==
  /\ pc = "spin" /\ Completed
  /\ pc' = "fread"
  /\ UNCHANGED <<ringVars, arg, openVars, posVars, callVars, out, holdVars,
                 overtaken>>

FopenPause == pc = "spin" /\ ~Completed /\ UNCHANGED vars

-----------------------------------------------------------------------------
(* my_fread, as cat's loop calls it *)

(* Mutant: the index of the last block taken for the number of blocks. *)
AllReadEarly == curBlock + 1 >= blocks

AllRead == curBlock >= blocks

(* No block is left: my_fread returns 0 and touches nothing. *)
FreadEof ==
  /\ pc = "fread" /\ AllRead
  /\ pc' = "close"
  /\ UNCHANGED <<ringVars, arg, openVars, posVars, callVars, out, holdVars,
                 overtaken>>

FreadBegin ==
  /\ pc = "fread" /\ ~AllRead
  /\ index' = curBlock /\ offset' = curOffset /\ head' = cqHead
  /\ chunk' = <<>>
  /\ pc' = "copy"
  /\ UNCHANGED <<ringVars, arg, openVars, posVars, out, holdVars, overtaken>>

(* Mutant: res is not looked at. *)
FailureIgnored == FALSE

ReadFailed == cqRes < 0

(* The first visit finds no completion, or that of a failed read; isfirst is *)
(* set then all the same.                                                  *)
FreadStop ==
  /\ pc = "copy" /\ isfirst = 0 /\ (head = cqTail \/ ReadFailed)
  /\ isfirst' = IF head = cqTail THEN 0 ELSE 1
  /\ pc' = "return"
  /\ UNCHANGED <<ringVars, arg, openVars, curBlock, curOffset, callVars, out,
                 holdVars, overtaken>>

(* Mutant: the caller's buffer is taken to be large enough. *)
ToCopyUnbounded == Lesser(iov[index + 1], BLOCK_SZ - offset)

(* to_copy: the iovec's length, cut to the end of the block and to the room. *)
ToCopy ==
  Lesser(Lesser(iov[index + 1], BLOCK_SZ - offset), CHUNK - Len(chunk))

(* Mutant: each copy starts at the beginning of the block. *)
CopyFromBlockStart == index * BLOCK_SZ

CopyFrom == index * BLOCK_SZ + offset

(* Mutant: > for >=. *)
BlockDoneLate(o) == o > BLOCK_SZ

BlockDone(o) == o >= BLOCK_SZ

(* One round of the copy loop.  A block is left behind only at BLOCK_SZ,    *)
(* never at the length of its iovec, and the completion head moves with it. *)
FreadCopy ==
  /\ pc = "copy"
  /\ isfirst = 1 \/ (head # cqTail /\ ~ReadFailed)
  /\ isfirst' = 1
  /\ LET n == ToCopy
         full == BlockDone(offset + n)
     IN  /\ chunk' = chunk \o [i \in 1 .. n |-> ByteAt(CopyFrom + i - 1)]
         /\ index' = IF full THEN index + 1 ELSE index
         /\ offset' = IF full THEN 0 ELSE offset + n
         /\ head' = IF full THEN head + 1 ELSE head
         /\ pc' = IF Len(chunk) + n < CHUNK /\ index' < blocks
                  THEN "copy" ELSE "return"
  /\ UNCHANGED <<ringVars, arg, openVars, curBlock, curOffset, out, holdVars,
                 overtaken>>

(* The position is saved and the head published; cat goes on unless 0 bytes. *)
FreadReturn ==
  /\ pc = "return"
  /\ curBlock' = index /\ curOffset' = offset
  /\ cqHead' = head
  /\ pc' = IF chunk = <<>> THEN "close" ELSE "write"
  /\ UNCHANGED <<sqTail, sqSeen, sqHead, entryVars, poller, filled, cqTail,
                 cqRes, arg, openVars, isfirst, callVars, out, holdVars,
                 overtaken>>

-----------------------------------------------------------------------------
(* cat *)

CatWrite ==
  /\ pc = "write"
  /\ out' = out \o chunk /\ chunk' = <<>>
  /\ pc' = "fread"
  /\ UNCHANGED <<ringVars, arg, openVars, posVars, index, offset, head,
                 holdVars, overtaken>>

(* "Completed reading", then my_fclose: fd, fi, s and mf; neither the ring   *)
(* nor the buffers of the iovecs.                                          *)
CatClose ==
  /\ pc = "close"
  /\ fds' = fds - 1 /\ live' = {}
  /\ pc' = "main" /\ arg' = arg + 1
  /\ UNCHANGED <<ringVars, openVars, posVars, callVars, out, overtaken>>

MainExit ==
  /\ pc = "main" /\ arg = NFiles
  /\ pc' = "exit"
  /\ UNCHANGED <<ringVars, arg, openVars, posVars, callVars, out, holdVars,
                 overtaken>>

Exited == pc \in Ended /\ UNCHANGED vars

-----------------------------------------------------------------------------
Fopen ==
  \/ FopenSetup \/ FopenOpen \/ FopenStat \/ FopenRegister \/ FopenAlloc
  \/ FopenIovec \/ FopenOverrun \/ FopenSubmit \/ FopenCheckFlags \/ FopenEnter
  \/ FopenSpin \/ FopenPause

Fread ==
  \/ FreadEof \/ FreadBegin \/ FreadStop \/ FreadCopy \/ FreadReturn

App == Fopen \/ Fread \/ CatWrite \/ CatClose \/ MainExit \/ Exited

(* The kernel and the store buffer touch the ring, never the program. *)
Kernel == KernelStep /\ UNCHANGED appVars

Next == App \/ Kernel

Spec == Init /\ [][Next]_vars

(* The program runs; a store leaves its buffer; the submission thread, while *)
(* awake, gets its turn; a read that was taken up goes on and completes.     *)
FairSpec ==
  /\ Spec
  /\ WF_vars(App)
  /\ WF_vars(Drain /\ UNCHANGED appVars)
  /\ WF_vars(PollerFetch /\ UNCHANGED appVars)
  /\ WF_vars(PollerRecheck /\ UNCHANGED appVars)
  /\ WF_vars(ReadProgress /\ UNCHANGED appVars)
  /\ WF_vars(PostCompletion /\ UNCHANGED appVars)

-----------------------------------------------------------------------------
(* What has been handed over of the open file, my_fread's copy included.    *)
Delivered == out \o chunk

(* The stream the open file's buffers make once the read has completed.     *)
Image ==
  IF cqRes < 0 THEN <<>>
  ELSE [i \in 1 .. blocks * BLOCK_SZ |-> ByteAt(i - 1)]

(* The poller sleeps on an entry it has not seen: nothing will wake it.     *)
LostWakeup == pc = "spin" /\ poller = "asleep" /\ Submitted

(* Types and ranges: the position my_fread saves is always inside a block,  *)
(* and no more descriptors are closed than were opened.                    *)
TypeOK ==
  /\ RingTypeOK
  /\ arg \in 0 .. NFiles
  /\ pc \in Labels
  /\ size \in Nat /\ blocks \in Int /\ remaining \in Nat
  /\ iov \in Seq(1 .. BLOCK_SZ) /\ memory \in Seq(StaleBytes)
  /\ curBlock \in Nat /\ curOffset \in 0 .. BLOCK_SZ - 1 /\ isfirst \in {0, 1}
  /\ index \in Nat /\ offset \in 0 .. BLOCK_SZ - 1 /\ head \in Nat
  /\ chunk \in Seq(Bytes) /\ out \in Seq(Bytes)
  /\ live \subseteq {"s", "fd", "fi", "mf"}
  /\ fds \in 0 .. FdLimit
  /\ overtaken \in BOOLEAN

(* The count of blocks is made from the size narrowed to int, the loop over  *)
(* the iovecs counts the size itself down.  The loop leaves the room that   *)
(* was allocated only for a file past INT_MAX, and every such file that the *)
(* allocation does not refuse ends so: none is submitted with a part of its *)
(* blocks.  What is submitted names exactly the filled iovecs, and those    *)
(* hold the file (host.cpp:81-83, 93-95, 111-139).                          *)
OverrunOnlyPastIntMax ==
  /\ pc = "overrun" => size > INT_MAX
  /\ pc \in {"flags", "enter", "spin"} \cup Reading =>
       /\ size <= INT_MAX /\ Len(iov) = blocks
       /\ (blocks - 1) * BLOCK_SZ < size /\ size <= blocks * BLOCK_SZ

(* my_fread copies only from buffers the iovecs have, inside the block, and *)
(* never more than the caller's buffer takes (device.cpp:191-205).          *)
CopyInBounds ==
  pc = "copy" =>
    /\ index < Len(iov) /\ Len(chunk) < CHUNK
    /\ offset + ToCopy <= BLOCK_SZ /\ Len(chunk) + ToCopy <= CHUNK

(* No descriptor or allocation the kernel or the program still needs has    *)
(* been released: the poller looks fd up when it takes the entry, the       *)
(* completion points back at fi, and my_fread goes through mf and s.  The   *)
(* program relies on my_fopen's spin for it (host.cpp:160-166, 171-200).    *)
NothingNeededIsReleased ==
  /\ InFlight => {"fd", "fi"} \subseteq live
  /\ pc \in Reading => live = {"s", "fd", "fi", "mf"}

(* The bytes handed over are those of the buffers, each once and in order,  *)
(* however calls and blocks divide them, and none was copied while the      *)
(* kernel was still writing (host.cpp:163, device.cpp:173-225).             *)
DeliveredInOrder ==
  pc \in Reading =>
    /\ ~InFlight
    /\ \A k \in 1 .. Len(Delivered) : Delivered[k] = ByteAt(k - 1)

(* When cat closes a file whose read was complete, it has delivered all of  *)
(* it, and past it only the rest of the last block (main.cpp:25-35).        *)
WholeFileDelivered ==
  pc = "close" /\ cqRes = size =>
    /\ size <= Len(out) /\ Len(out) < size + BLOCK_SZ
    /\ \A k \in 1 .. size : out[k] = k - 1

(* my_fopen misses the poller's request to be woken only when the load of   *)
(* the flags overtook the store of the tail (host.cpp:145-152).             *)
LostWakeupOnlyIfOvertaken == LostWakeup => overtaken

(* my_cat delivers streams, file after file (main.cpp:12-49).               *)
Stream == INSTANCE FileStream WITH
    file <- arg,
    phase <- IF pc \in Reading THEN "open" ELSE "idle",
    content <- IF pc \in Reading THEN Image ELSE <<>>,
    sent <- IF pc \in Reading THEN out ELSE <<>>

StreamSpec == Stream!StreamSpec

(* Unless a wake-up is lost, every argument is dealt with and main returns, *)
(* or fi is overrun: no failure, short read or odd size keeps a loop going  *)
(* (main.cpp:38-58).                                                       *)
ExitsUnlessWakeupLost == <>(pc \in Ended \/ LostWakeup)

(* testPerformance.py:25 runs my_cat on a file and waits, with no timeout,  *)
(* for it to end.                                                          *)
Exits == <>(pc = "exit")

(* "Free the submitter structure and any associated resources"              *)
(* (host.cpp:188): between two files no descriptor is open.                 *)
NoDescriptorKept == pc = "main" => fds = 0

(* cat reports "Completed reading", with the file's size, of a file it has   *)
(* read (main.cpp:34).                                                     *)
CompletedMeansDelivered == pc = "close" => size <= Len(out)

(* testPerformance.py:36 compares the output, without what is no letter or  *)
(* digit at its end (line 34), with the content of the file: "Successful:   *)
(* Content matches." (line 38).  Nul stands for stale bytes it strips.      *)
ContentMatches(Nul) ==
  pc = "close" =>
    \E n \in 0 .. Len(out) :
      /\ SubSeq(out, 1, n) = [k \in 1 .. size |-> k - 1]
      /\ \A k \in n + 1 .. Len(out) : out[k] = Nul
=============================================================================
