------------------------------ MODULE RingCopy ------------------------------
(***************************************************************************)
(* example/io_uring_cp.c: copies a file block by block over one ring, with  *)
(* at most one request on it: a READV into the buffer, then a WRITEV of the *)
(* same iovec.  io_uring_enter hands the kernel one entry and does not wait *)
(* for it (no GETEVENTS); the program spins on the completion tail.         *)
(*                                                                         *)
(* A byte of the source is named by its position 0, 1, ...; other bytes are *)
(* members of StaleBytes.  Another process may cut the source meanwhile.    *)
(***************************************************************************)
EXTENDS Integers, Sequences

CONSTANTS
  FILE_BLOCK_SIZE,
  Sizes,        (* the sizes the source may have at fstat              *)
  StaleBytes,   (* what malloc's memory and an old target may hold      *)
  OldLengths,   (* the lengths an old target may have                  *)
  SQ_ENTRIES,   (* params.sq_entries: 2                                *)
  CQ_ENTRIES,   (* params.cq_entries: 4                                *)
  WRAP,         (* the ring's unsigned counters count modulo WRAP: 2^32 *)
  Faults        (* the calls that may fail in this run                 *)

ASSUME RingCopyAssumption ==
  /\ FILE_BLOCK_SIZE \in Nat \ {0}
  /\ Sizes \subseteq Nat /\ OldLengths \subseteq Nat
  /\ StaleBytes \cap Nat = {}
  /\ SQ_ENTRIES \in Nat \ {0, 1} /\ CQ_ENTRIES \in Nat \ {0}
  /\ WRAP \in Nat /\ SQ_ENTRIES <= WRAP

May(f) == f \in Faults

VARIABLES
  pc,         (* where the program is                         *)
  fileSize,   (* file_size                                    *)
  srcLen,     (* bytes the source has now                     *)
  dst,        (* the bytes of the destination file            *)
  offset,     (* offset                                       *)
  iovLen,     (* iov.iov_len                                  *)
  bytesRead,  (* bytes_read                                   *)
  buffer,     (* FILE_BLOCK_SIZE bytes                        *)
  sqTail,     (* *sq_tail, written by the program             *)
  sqHead,     (* entries the kernel has taken                 *)
  cqHead,     (* *cq_head, written by the program             *)
  cqTail,     (* *cq_tail, written by the kernel              *)
  cqes,       (* the completion entries: user_data and res    *)
  op          (* the request the kernel has; "lost" after a failed enter *)

fileVars == <<fileSize, dst, offset>>
blockVars == <<iovLen, bytesRead, buffer>>
sqVars == <<sqTail, sqHead, op>>
cqVars == <<cqHead, cqTail, cqes>>

vars == <<pc, srcLen, fileVars, blockVars, sqVars, cqVars>>

Ended == {"done", "failed"}
Copying == {"loop", "waitRead", "write", "waitWrite"}
Labels == {"source", "target", "ring"} \cup Copying \cup Ended

Bytes == Nat \cup StaleBytes
Error == -1   (* any negative res *)
Smaller(a, b) == IF a < b THEN a ELSE b
Larger(a, b) == IF a < b THEN b ELSE a

(* d with the bytes b stored from position at on, which is not past its end. *)
Overwrite(d, at, b) ==
  [i \in 1 .. Larger(Len(d), at + Len(b)) |->
     IF i \in at + 1 .. at + Len(b) THEN b[i - at] ELSE d[i]]

-----------------------------------------------------------------------------
Init ==
  /\ pc = "source" /\ fileSize = 0 /\ srcLen = 0 /\ offset = 0
  /\ \E n \in OldLengths : dst \in [1 .. n -> StaleBytes]
  /\ buffer = <<>> /\ iovLen = 0 /\ bytesRead = 0
  /\ sqTail = 0 /\ sqHead = 0 /\ op = "none"
  /\ cqHead = 0 /\ cqTail = 0
  /\ cqes = [i \in 0 .. CQ_ENTRIES - 1 |-> [data |-> "none", res |-> 0]]

Die == pc' = "failed"

OpenSource ==
  /\ pc = "source"
  /\ \/ /\ pc' = "target"
        /\ fileSize' \in Sizes /\ srcLen' = fileSize'
     \/ /\ May("source") /\ Die
        /\ UNCHANGED <<fileSize, srcLen>>
  /\ UNCHANGED <<dst, offset, blockVars, sqVars, cqVars>>

(* Mutant: no O_TRUNC. *)
Untruncated == dst

Truncated == <<>>

OpenTarget ==
  /\ pc = "target"
  /\ \/ pc' = "ring" /\ dst' = Truncated
     \/ May("target") /\ Die /\ UNCHANGED dst
  /\ UNCHANGED <<srcLen, fileSize, offset, blockVars, sqVars, cqVars>>

(* The ring, its two mappings and the buffer. *)
SetupRing ==
  /\ pc = "ring"
  /\ \/ pc' = "loop" /\ buffer' \in [1 .. FILE_BLOCK_SIZE -> StaleBytes]
     \/ May("ring") /\ Die /\ UNCHANGED buffer
  /\ UNCHANGED <<srcLen, fileVars, iovLen, bytesRead, sqVars, cqVars>>

(* Mutants: the ring's mask taken for the modulus; the tail stays. *)
TailModMask == (sqTail + 1) % (SQ_ENTRIES - 1)
TailStays == sqTail

(* The tail is kept below sq_entries, where the kernel counts on. *)
NextTail == (sqTail + 1) % SQ_ENTRIES

(* The tail is stored and the kernel entered.  It takes one entry, if tail  *)
(* and head differ; the result of io_uring_enter is not looked at.          *)
Submit(request) ==
  /\ sqTail' = NextTail
  /\ \/ /\ NextTail # sqHead
        /\ sqHead' = (sqHead + 1) % WRAP /\ op' = request
     \/ /\ NextTail = sqHead
        /\ UNCHANGED sqHead /\ op' = "none"
     \/ /\ May("enter")
        /\ UNCHANGED sqHead /\ op' = "lost"

SubmitRead ==
  /\ pc = "loop" /\ offset < fileSize
  /\ iovLen' = Smaller(fileSize - offset, FILE_BLOCK_SIZE)
  /\ Submit("read")
  /\ pc' = "waitRead"
  /\ UNCHANGED <<srcLen, fileVars, bytesRead, buffer, cqVars>>

(* The iovec is the one of the read: as many bytes as were asked for. *)
SubmitWrite ==
  /\ pc = "write"
  /\ Submit("write")
  /\ pc' = "waitWrite"
  /\ UNCHANGED <<srcLen, fileVars, blockVars, cqVars>>

Completed == cqHead # cqTail

Cqe == cqes[cqHead % CQ_ENTRIES]

(* Mutant: the entry is not given back. *)
HeadStays == cqHead

HeadSeen == (cqHead + 1) % WRAP

ReadDone ==
  /\ pc = "waitRead" /\ Completed
  /\ \/ /\ Cqe.res < 0 /\ Die
        /\ UNCHANGED <<bytesRead, cqHead>>
     \/ /\ Cqe.res >= 0
        /\ bytesRead' = Cqe.res /\ cqHead' = HeadSeen
        /\ pc' = "write"
  /\ UNCHANGED <<srcLen, fileVars, iovLen, buffer, sqVars, cqTail, cqes>>

WriteShort == Cqe.res < bytesRead

(* Mutant: on to the next block. *)
NextBlock == offset + iovLen

NextOffset == offset + bytesRead

WriteDone ==
  /\ pc = "waitWrite" /\ Completed
  /\ \/ /\ WriteShort /\ Die
        /\ UNCHANGED <<offset, cqHead>>
     \/ /\ ~WriteShort
        /\ offset' = NextOffset /\ cqHead' = HeadSeen
        /\ pc' = "loop"
  /\ UNCHANGED <<srcLen, fileSize, dst, blockVars, sqVars, cqTail, cqes>>

(* A round of either busy wait. *)
Wait == pc \in {"waitRead", "waitWrite"} /\ ~Completed /\ UNCHANGED vars

Finish ==
  /\ pc = "loop" /\ offset >= fileSize
  /\ pc' = "done"
  /\ UNCHANGED <<srcLen, fileVars, blockVars, sqVars, cqVars>>

Exited == pc \in Ended /\ UNCHANGED vars

-----------------------------------------------------------------------------
(* The kernel *)

Post(result) ==
  /\ op' = "none"
  /\ cqes' = [cqes EXCEPT ![cqTail % CQ_ENTRIES] =
                            [data |-> op, res |-> result]]
  /\ cqTail' = (cqTail + 1) % WRAP
  /\ UNCHANGED <<pc, srcLen, fileSize, offset, iovLen, bytesRead, sqTail,
                 sqHead, cqHead>>

(* What is there of the block; fewer bytes, but some, when it comes short. *)
ReadDoneByKernel ==
  /\ op = "read"
  /\ \/ \E n \in 0 .. iovLen :
          /\ offset + n <= srcLen \/ n = 0
          /\ \/ n = iovLen \/ offset + n >= srcLen
             \/ n > 0 /\ May("short")
          /\ buffer' = Overwrite(buffer, 0, [i \in 1 .. n |-> offset + i - 1])
          /\ Post(n)
     \/ /\ May("read")
        /\ UNCHANGED buffer
        /\ Post(Error)
  /\ UNCHANGED dst

WriteDoneByKernel ==
  /\ op = "write"
  /\ \/ \E n \in 0 .. iovLen :
          /\ n = iovLen \/ May("short")
          /\ dst' = Overwrite(dst, offset, SubSeq(buffer, 1, n))
          /\ Post(n)
     \/ /\ May("write")
        /\ UNCHANGED dst
        /\ Post(Error)
  /\ UNCHANGED buffer

(* Another process truncates the source. *)
Shrink ==
  /\ May("shrink") /\ pc \notin Ended
  /\ srcLen' \in 0 .. srcLen - 1
  /\ UNCHANGED <<pc, fileVars, blockVars, sqVars, cqVars>>

Program ==
  \/ OpenSource \/ OpenTarget \/ SetupRing \/ SubmitRead \/ ReadDone
  \/ SubmitWrite \/ WriteDone \/ Wait \/ Finish \/ Exited

Kernel == ReadDoneByKernel \/ WriteDoneByKernel

Next == Program \/ Kernel \/ Shrink

Spec == Init /\ [][Next]_vars

(* The program runs and the kernel completes what it has taken. *)
FairSpec == Spec /\ WF_vars(Program) /\ WF_vars(Kernel)

-----------------------------------------------------------------------------
TypeOK ==
  /\ pc \in Labels
  /\ {fileSize, srcLen, offset, bytesRead} \subseteq Nat
  /\ iovLen \in 0 .. FILE_BLOCK_SIZE
  /\ dst \in Seq(Bytes) /\ buffer \in Seq(Bytes)
  /\ sqTail \in 0 .. SQ_ENTRIES - 1
  /\ {sqHead, cqHead, cqTail} \subseteq 0 .. WRAP - 1
  /\ cqes \in [0 .. CQ_ENTRIES - 1 ->
                 [data : {"none", "read", "write"}, res : Nat \cup {Error}]]
  /\ op \in {"none", "read", "write", "lost"}

(* When the program returns 0, the destination is the source: the bytes,    *)
(* and no more than them.  Each write stores the whole iovec, of which a    *)
(* short read has filled only a part (io_uring_cp.c:92-149).                *)
SuccessMeansEqual == pc = "done" => dst = [i \in 1 .. fileSize |-> i - 1]

(* The completion the program takes for its request's is that one's, and    *)
(* none is left over for the next (io_uring_cp.c:113-119, 133-138).         *)
CompletionIsOwn ==
  /\ Completed /\ pc = "waitRead" => Cqe.data = "read"
  /\ Completed /\ pc = "waitWrite" => Cqe.data = "write"
  /\ pc \in {"loop", "write"} => ~Completed

(* The tail is kept below sq_entries, the kernel's head is not: still every  *)
(* request is seen, for what a busy wait waits for is in the queue, or with  *)
(* the kernel, or its io_uring_enter has failed (io_uring_cp.c:109-113,      *)
(* 129-133).                                                               *)
NoWaitForNothing ==
  pc \in {"waitRead", "waitWrite"} => Completed \/ op # "none"

(* The copy grows along the source, and success is success (FileCopy).      *)
Copy == INSTANCE FileCopy WITH
    length <- fileSize,
    target <- IF pc = "done" THEN dst
              ELSE IF pc \in Copying \cup {"failed"} THEN SubSeq(dst, 1, offset)
              ELSE <<>>,
    status <- CASE pc = "source" -> "new"
                [] pc = "done" -> "ok"
                [] pc = "failed" -> "failed"
                [] OTHER -> "running"

CopySpec == Copy!CopySpec

(* Every request is taken though the tail wraps at sq_entries and the head  *)
(* at WRAP: the program ends, unless an io_uring_enter failed or the source *)
(* became shorter than fstat said (io_uring_cp.c:93-141).                   *)
EndsIfUndisturbed ==
  <>(pc \in Ended \/ op = "lost" \/ srcLen < fileSize)
=============================================================================
