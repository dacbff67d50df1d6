------------------------------- MODULE EarlyCat -------------------------------
(***************************************************************************)
(* The earlier version of my_cat, example/io_uring_read.c.  It uses the     *)
(* ring as my_cat does, with three differences: the first my_fread of a     *)
(* file waits for the completion, cat goes on with what my_fopen returned   *)
(* even when that is NULL, and nothing is ever closed.                      *)
(*                                                                         *)
(* Bytes are named as in MyCat; Stale is a byte of a buffer that was not    *)
(* read.                                                                   *)
(***************************************************************************)
EXTENDS Uring, Blocks, Sequences

CONSTANTS
  NFiles, CHUNK, Sizes, FdLimit, Stale,
  Inherited   (* how many descriptors the process may start with *)

ASSUME EarlyCatAssumption ==
  /\ NFiles \in Nat /\ CHUNK \in Nat \ {0} /\ FdLimit \in Nat
  /\ Sizes \subseteq Nat /\ Stale \notin Nat
  /\ Inherited \subseteq 0 .. FdLimit

VARIABLES
  arg, pc,
  size,       (* file_sz                                                   *)
  blocks,     (* mf->blocks                                                *)
  curBlock, curOffset, isfirst,     (* fields of mf                        *)
  index, offset, head, chunk,       (* my_fread's locals, bytes at ptr     *)
  out,        (* bytes of this file handed to cat                          *)
  fds,        (* descriptors open in the process                           *)
  overtaken   (* history: flags was read while the tail was still buffered *)

fileVars == <<arg, size, blocks, fds>>
posVars == <<curBlock, curOffset, isfirst>>
callVars == <<index, offset, head, chunk>>
appVars == <<pc, fileVars, posVars, callVars, out, overtaken>>
vars == <<ringVars, appVars>>

Ended == {"exit", "crashed", "overrun"}
InCat == {"fread", "spin", "copy", "return", "write", "end"}

ByteAt(p) == IF p < filled THEN p ELSE Stale

(* iov_len of block k, counted from 0. *)
IovLen(k) == Lesser(BLOCK_SZ, size - k * BLOCK_SZ)

-----------------------------------------------------------------------------
(* my_fopen.  It returns with a my_file, for which cat goes on at "buffer",  *)
(* or with NULL, at "null".                                                 *)

Init ==
  /\ RingInit
  /\ arg = 0 /\ pc = "main" /\ size = 0 /\ blocks = 0 /\ fds \in Inherited
  /\ curBlock = 0 /\ curOffset = 0 /\ isfirst = 0
  /\ index = 0 /\ offset = 0 /\ head = 0 /\ chunk = <<>>
  /\ out = <<>> /\ overtaken = FALSE

(* app_setup_uring *)
SetupRing == RingSetup

(* Up to the submission: the ring, the file, its size, fi with its buffers  *)
(* and mf.  A ring and a file each take a descriptor.                      *)
FopenFile ==
  /\ pc = "main" /\ arg < NFiles
  /\ fds + 2 <= FdLimit
  /\ SetupRing
  /\ \E n \in Sizes :
       /\ n <= BlockCount(n) * BLOCK_SZ
       /\ size' = n /\ blocks' = BlockCount(n)
  /\ fds' = fds + 2
  /\ curBlock' = 0 /\ curOffset' = 0 /\ isfirst' = 0
  /\ index' = 0 /\ offset' = 0 /\ head' = 0 /\ chunk' = <<>> /\ out' = <<>>
  /\ overtaken' = FALSE
  /\ pc' = "submit"
  /\ UNCHANGED arg

(* The ring cannot be made; or it is, and its mapping or the opening of the *)
(* file fails; or both are there, and a later step fails, the allocation of *)
(* fi for a negative count of blocks at the latest.                        *)
FopenFileFails ==
  /\ pc = "main" /\ arg < NFiles
  /\ \/ (fds = FdLimit \/ May("fopen")) /\ fds' = fds
     \/ fds < FdLimit /\ (fds + 1 = FdLimit \/ May("fopen")) /\ fds' = fds + 1
     \/ /\ fds + 2 <= FdLimit
        /\ May("fopen") \/ \E n \in Sizes : BlockCount(n) < 0
        /\ fds' = fds + 2
  /\ pc' = "null"
  /\ UNCHANGED <<ringVars, arg, size, blocks, posVars, callVars, out,
                 overtaken>>

(* The size narrowed to int gave too few blocks: an iovec is written behind *)
(* fi, and what the program does from there on is undefined.               *)
FopenOverrun ==
  /\ pc = "main" /\ arg < NFiles
  /\ fds + 2 <= FdLimit
  /\ \E n \in Sizes : BlockCount(n) >= 0 /\ BlockCount(n) * BLOCK_SZ < n
  /\ pc' = "overrun"
  /\ UNCHANGED <<ringVars, fileVars, posVars, callVars, out, overtaken>>

FopenSubmit ==
  /\ pc = "submit"
  /\ StoreTail(size, blocks)
  /\ pc' = "flags"
  /\ UNCHANGED <<fileVars, posVars, callVars, out, overtaken>>

FopenCheckFlags ==
  /\ pc = "flags"
  /\ pc' = IF NeedWakeup THEN "enter" ELSE "buffer"
  /\ overtaken' = (~NeedWakeup /\ sqSeen # sqTail)
  /\ UNCHANGED <<ringVars, fileVars, posVars, callVars, out>>

FopenEnter ==
  /\ pc = "enter"
  /\ \/ WakePoller /\ pc' = "buffer"
     \/ May("enter") /\ pc' = "null" /\ UNCHANGED ringVars
  /\ UNCHANGED <<fileVars, posVars, callVars, out, overtaken>>

(* cat's buffer.  Without it cat returns, with or without a my_file, and    *)
(* with the read under way; with it, my_fread looks into mf at once, which  *)
(* is the end of the process if mf is NULL.                                *)
CatBuffer ==
  /\ pc \in {"buffer", "null"}
  /\ \/ /\ pc' = IF pc = "null" THEN "crashed" ELSE "fread"
        /\ UNCHANGED arg
     \/ /\ May("buffer")
        /\ pc' = "main" /\ arg' = arg + 1
  /\ UNCHANGED <<ringVars, size, blocks, fds, posVars, callVars, out, overtaken>>

-----------------------------------------------------------------------------
(* my_fread *)

FreadEof ==
  /\ pc = "fread" /\ curBlock >= blocks
  /\ pc' = "end"
  /\ UNCHANGED <<ringVars, fileVars, posVars, callVars, out, overtaken>>

FreadBegin ==
  /\ pc = "fread" /\ curBlock < blocks
  /\ index' = curBlock /\ offset' = curOffset /\ head' = cqHead
  /\ pc' = IF isfirst = 0 THEN "spin" ELSE "copy"
  /\ UNCHANGED <<ringVars, fileVars, posVars, chunk, out, overtaken>>

(* Mutants: no wait; one completion expected for every block. *)
NoWait == TRUE
CompletedPerBlock == cqTail - head >= blocks

Completed == head # cqTail

FreadSpin ==
  /\ pc = "spin" /\ Completed
  /\ pc' = "copy"
  /\ UNCHANGED <<ringVars, fileVars, posVars, callVars, out, overtaken>>

FreadSpinning == pc = "spin" /\ ~Completed /\ UNCHANGED vars

FreadStop ==
  /\ pc = "copy" /\ isfirst = 0 /\ cqRes < 0
  /\ isfirst' = 1
  /\ pc' = "return"
  /\ UNCHANGED <<ringVars, fileVars, curBlock, curOffset, callVars, out,
                 overtaken>>

(* Mutant: the room already used in the caller's buffer is not subtracted.  *)
ToCopyTooMuch == Lesser(Lesser(IovLen(index), BLOCK_SZ - offset), CHUNK)

ToCopy ==
  Lesser(Lesser(IovLen(index), BLOCK_SZ - offset), CHUNK - Len(chunk))

FreadCopy ==
  /\ pc = "copy" /\ (isfirst = 1 \/ cqRes >= 0)
  /\ isfirst' = 1
  /\ LET full == offset + ToCopy >= BLOCK_SZ
     IN  /\ chunk' = chunk \o
              [i \in 1 .. ToCopy |-> ByteAt(index * BLOCK_SZ + offset + i - 1)]
         /\ index' = IF full THEN index + 1 ELSE index
         /\ offset' = IF full THEN 0 ELSE offset + ToCopy
         /\ head' = IF full THEN head + 1 ELSE head
         /\ pc' = IF Len(chunk) + ToCopy < CHUNK /\ index' < blocks
                  THEN "copy" ELSE "return"
  /\ UNCHANGED <<ringVars, fileVars, curBlock, curOffset, out, overtaken>>

(* Mutant: the position in the block is not saved. *)
SavedBlockStart == 0

SavedOffset == offset

FreadReturn ==
  /\ pc = "return"
  /\ curBlock' = index /\ curOffset' = SavedOffset
  /\ cqHead' = head
  /\ pc' = IF chunk = <<>> THEN "end" ELSE "write"
  /\ UNCHANGED <<sqTail, sqSeen, sqHead, entryVars, poller, filled, cqTail,
                 cqRes, fileVars, isfirst, callVars, out, overtaken>>

-----------------------------------------------------------------------------
(* cat and main *)

CatWrite ==
  /\ pc = "write"
  /\ out' = out \o chunk /\ chunk' = <<>>
  /\ pc' = "fread"
  /\ UNCHANGED <<ringVars, fileVars, posVars, index, offset, head,
                 overtaken>>

(* cat returns and leaves all it opened and allocated. *)
CatEnd ==
  /\ pc = "end"
  /\ pc' = "main" /\ arg' = arg + 1
  /\ UNCHANGED <<ringVars, size, blocks, fds, posVars, callVars, out, overtaken>>

MainExit ==
  /\ pc = "main" /\ arg = NFiles
  /\ pc' = "exit"
  /\ UNCHANGED <<ringVars, fileVars, posVars, callVars, out, overtaken>>

Exited == pc \in Ended /\ UNCHANGED vars

-----------------------------------------------------------------------------
App ==
  \/ FopenFile \/ FopenFileFails \/ FopenOverrun \/ FopenSubmit
  \/ FopenCheckFlags \/ FopenEnter \/ CatBuffer
  \/ FreadEof \/ FreadBegin \/ FreadSpin \/ FreadSpinning \/ FreadStop
  \/ FreadCopy \/ FreadReturn \/ CatWrite \/ CatEnd \/ MainExit \/ Exited

(* The kernel does nothing for a process that has gone. *)
Kernel == pc \notin Ended /\ KernelStep /\ UNCHANGED appVars

Next == App \/ Kernel

Spec == Init /\ [][Next]_vars

(* As for my_cat. *)
FairSpec ==
  /\ Spec
  /\ WF_vars(App)
  /\ WF_vars(Kernel /\ Drain)
  /\ WF_vars(Kernel /\ PollerFetch)
  /\ WF_vars(Kernel /\ PollerRecheck)
  /\ WF_vars(Kernel /\ ReadProgress)
  /\ WF_vars(Kernel /\ PostCompletion)

-----------------------------------------------------------------------------
LostWakeup == pc = "spin" /\ poller = "asleep" /\ Submitted

Delivered == out \o chunk

Image ==
  IF cqRes < 0 THEN <<>>
  ELSE [i \in 1 .. blocks * BLOCK_SZ |-> ByteAt(i - 1)]

(* my_fread has seen the completion, or the file is empty.                  *)
Streaming ==
  pc \in InCat /\ (isfirst = 1 \/ pc = "copy" \/ blocks = 0)

TypeOK ==
  /\ RingTypeOK
  /\ arg \in 0 .. NFiles
  /\ pc \in {"main", "submit", "flags", "enter", "buffer", "null"}
            \cup InCat \cup Ended
  /\ size \in Nat /\ blocks \in Nat /\ fds \in 0 .. FdLimit
  /\ curBlock \in 0 .. blocks /\ curOffset \in 0 .. BLOCK_SZ - 1
  /\ isfirst \in {0, 1}
  /\ index \in 0 .. blocks /\ offset \in 0 .. BLOCK_SZ - 1 /\ head \in Nat
  /\ chunk \in Seq(Nat \cup {Stale}) /\ Len(chunk) <= CHUNK
  /\ out \in Seq(Nat \cup {Stale}) /\ overtaken \in BOOLEAN

(* Although my_fopen does not wait, no byte is handed over before the read  *)
(* is complete; the bytes are the buffers', each once and in order          *)
(* (io_uring_read.c:318-380).                                              *)
DeliveredAfterCompletion ==
  Delivered # <<>> /\ pc \in InCat =>
    /\ ~InFlight
    /\ \A k \in 1 .. Len(Delivered) : Delivered[k] = ByteAt(k - 1)

(* Until the process ends this version delivers streams, as my_cat does     *)
(* (io_uring_read.c:383-405).                                              *)
Stream == INSTANCE FileStream WITH
    file <- arg,
    phase <- IF Streaming THEN "open" ELSE "idle",
    content <- IF Streaming THEN Image ELSE <<>>,
    sent <- IF Streaming THEN out ELSE <<>>,
    StaleBytes <- {Stale}

StreamSpec == Stream!StreamSpec

(* Unless a wake-up is lost the program ends, by a crash if in no other way *)
(* (io_uring_read.c:318-322, 383-396).                                     *)
EndsUnlessWakeupLost == <>(pc \in Ended \/ LostWakeup)
=============================================================================
