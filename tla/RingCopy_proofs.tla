--------------------------- MODULE RingCopy_proofs ---------------------------
(***************************************************************************)
(* The safety of RingCopy, for every block size, source, old target, size   *)
(* of the rings and width of their counters, and whatever fails.            *)
(***************************************************************************)
EXTENDS RingCopy, SequenceTheorems, TLAPS

Waiting == {"waitRead", "waitWrite"}

(* Up to offset the target is the source; there is nothing past its end.    *)
FileInv ==
  /\ pc \in {"source", "target", "ring"} => offset = 0
  /\ pc = "source" => fileSize = 0
  /\ pc = "ring" => dst = <<>>
  /\ pc \in Copying \cup {"done"} =>
       /\ offset <= fileSize /\ offset <= Len(dst) /\ Len(dst) <= fileSize
       /\ \A i \in 1 .. offset : dst[i] = i - 1
  /\ pc = "done" => offset = fileSize

(* The block ends within the file; what was read of it is in the buffer.    *)
BlockInv ==
  /\ pc \in Copying => Len(buffer) = FILE_BLOCK_SIZE
  /\ pc \in {"waitRead", "write", "waitWrite"} => iovLen <= fileSize - offset
  /\ pc \in {"write", "waitWrite"} =>
       /\ bytesRead <= iovLen
       /\ \A i \in 1 .. bytesRead : buffer[i] = offset + i - 1

(* One request at a time: with the kernel, or answered, or neither.         *)
RequestInv ==
  /\ pc \notin Waiting => op = "none"
  /\ pc \notin Waiting \cup Ended => ~Completed
  /\ op # "none" => ~Completed
  /\ op = "read" => pc = "waitRead"
  /\ op = "write" => pc = "waitWrite"
  /\ pc \in Waiting /\ Completed => cqTail = (cqHead + 1) % WRAP

(* What a completion says has happened. *)
AnswerInv ==
  /\ pc = "waitRead" /\ Completed =>
       /\ Cqe.data = "read" /\ Cqe.res <= iovLen
       /\ \A i \in 1 .. Cqe.res : buffer[i] = offset + i - 1
  /\ pc = "waitWrite" /\ Completed =>
       /\ Cqe.data = "write" /\ Cqe.res <= iovLen
       /\ offset + Cqe.res <= Len(dst)
       /\ \A i \in 1 .. Cqe.res :
            i <= bytesRead => dst[offset + i] = offset + i - 1

IInv == TypeOK /\ FileInv /\ BlockInv /\ RequestInv /\ AnswerInv

-----------------------------------------------------------------------------
(* The counters' next values are other values of theirs.                    *)
LEMMA Counting ==
  ASSUME NEW c \in 0 .. WRAP - 1
  PROVE  (c + 1) % WRAP \in 0 .. WRAP - 1 /\ (c + 1) % WRAP # c
<1>1. WRAP \in Nat /\ WRAP >= 2
  BY RingCopyAssumption
<1>2. CASE c + 1 < WRAP
  BY <1>1, <1>2
<1>3. CASE c + 1 = WRAP
  BY <1>1, <1>3
<1> QED
  BY <1>1, <1>2, <1>3

(* Entries of the rings have an index.                                      *)
LEMMA Indices ==
  /\ \A c \in Nat : c % CQ_ENTRIES \in 0 .. CQ_ENTRIES - 1
  /\ \A c \in Nat : c % SQ_ENTRIES \in 0 .. SQ_ENTRIES - 1
  BY RingCopyAssumption

(* What storing bytes in a file or buffer makes of it.                      *)
LEMMA Stored ==
  ASSUME NEW d \in Seq(Bytes), NEW b \in Seq(Bytes), NEW at \in Nat,
         at <= Len(d)
  PROVE  /\ Overwrite(d, at, b) \in Seq(Bytes)
         /\ Len(Overwrite(d, at, b)) = Larger(Len(d), at + Len(b))
         /\ \A i \in 1 .. at : Overwrite(d, at, b)[i] = d[i]
         /\ \A i \in 1 .. Len(b) : Overwrite(d, at, b)[at + i] = b[i]
<1> DEFINE m == Larger(Len(d), at + Len(b))
           o == Overwrite(d, at, b)
<1>1. m \in Nat /\ m >= Len(d) /\ m >= at + Len(b) /\ (m = Len(d) \/ m = at + Len(b))
  BY DEF Larger
<1>2. o = [i \in 1 .. m |->
             IF i \in at + 1 .. at + Len(b) THEN b[i - at] ELSE d[i]]
  BY DEF Overwrite
<1>3. ASSUME NEW i \in 1 .. m
      PROVE  o[i] \in Bytes
  <2>1. CASE i \in at + 1 .. at + Len(b)
    <3>1. i - at \in 1 .. Len(b)
      BY <2>1
    <3>2. b[i - at] \in Bytes
      BY <3>1
    <3> QED
      BY <2>1, <3>2, <1>2
  <2>2. CASE i \notin at + 1 .. at + Len(b)
    <3>1. i \in 1 .. Len(d)
      BY <2>2, <1>1
    <3>2. d[i] \in Bytes
      BY <3>1
    <3> QED
      BY <2>2, <3>2, <1>2
  <2> QED
    BY <2>1, <2>2
<1> HIDE DEF m
<1>4. o \in [1 .. m -> Bytes]
  BY <1>2, <1>3 DEF o
<1>5. o \in Seq(Bytes) /\ Len(o) = m
  BY <1>4, <1>1, SeqDef, LenProperties
<1>6. \A i \in 1 .. at : o[i] = d[i]
  BY <1>1, <1>2
<1>7. \A i \in 1 .. Len(b) : o[at + i] = b[i]
  <2>1. ASSUME NEW i \in 1 .. Len(b)
        PROVE  o[at + i] = b[i]
    <3>1. at + i \in 1 .. m /\ at + i \in at + 1 .. at + Len(b) /\ (at + i) - at = i
      BY <1>1
    <3> QED
      BY <3>1, <1>2
  <2> QED
    BY <2>1
<1> QED
  BY <1>5, <1>6, <1>7 DEF m, o

-----------------------------------------------------------------------------
(* The invariant holds when main starts.                                    *)
LEMMA InitIInv == Init => IInv
<1> SUFFICES ASSUME Init
             PROVE  IInv
  OBVIOUS
<1>1. TypeOK
  <2>1. PICK n \in OldLengths : dst \in [1 .. n -> StaleBytes]
    BY DEF Init
  <2>2. dst \in Seq(Bytes)
    BY <2>1, RingCopyAssumption, SeqDef DEF Bytes
  <2>3. cqes \in [0 .. CQ_ENTRIES - 1 ->
                    [data : {"none", "read", "write"}, res : Nat \cup {Error}]]
    BY DEF Init
  <2> QED
    BY <2>2, <2>3, RingCopyAssumption DEF Init, TypeOK, Labels, Bytes
<1>2. FileInv /\ BlockInv /\ RequestInv /\ AnswerInv
  BY DEF Init, FileInv, BlockInv, RequestInv, AnswerInv, Copying, Waiting, Ended,
         Completed
<1> QED
  BY <1>1, <1>2 DEF IInv

(* What TypeOK says of the numbers, for the arithmetic on them.             *)
LEMMA Numbers ==
  ASSUME TypeOK
  PROVE  /\ fileSize \in Nat /\ srcLen \in Nat /\ offset \in Nat
         /\ bytesRead \in Nat /\ iovLen \in Nat /\ iovLen <= FILE_BLOCK_SIZE
         /\ sqTail \in Nat /\ sqTail \in 0 .. SQ_ENTRIES - 1
         /\ sqHead \in 0 .. WRAP - 1 /\ cqHead \in 0 .. WRAP - 1
         /\ cqTail \in 0 .. WRAP - 1 /\ cqHead \in Nat /\ cqTail \in Nat
         /\ Len(dst) \in Nat /\ Len(buffer) \in Nat
  BY RingCopyAssumption DEF TypeOK

(* The completion the program looks at is one.                              *)
LEMMA Answer ==
  ASSUME TypeOK
  PROVE  /\ Cqe.data \in {"none", "read", "write"}
         /\ Cqe.res \in Nat \cup {Error}
         /\ Cqe.res \in Int /\ (Cqe.res >= 0 => Cqe.res \in Nat)
<1>1. cqHead % CQ_ENTRIES \in 0 .. CQ_ENTRIES - 1
  BY Numbers, Indices
<1>2. Cqe \in [data : {"none", "read", "write"}, res : Nat \cup {Error}]
  BY <1>1 DEF TypeOK, Cqe
<1>3. Cqe.data \in {"none", "read", "write"} /\ Cqe.res \in Nat \cup {Error}
  BY <1>2
<1> QED
  BY <1>3 DEF Error

(* Opening the files and setting up the ring.                               *)
LEMMA OpeningKeeps ==
  ASSUME IInv, OpenSource \/ OpenTarget \/ SetupRing
  PROVE  IInv'
<1> USE DEF IInv, fileVars, blockVars, sqVars, cqVars, Die
<1>1. TypeOK'
  <2>1. CASE OpenSource
    BY <2>1, RingCopyAssumption DEF OpenSource, TypeOK, Labels, Ended
  <2>2. CASE OpenTarget
    <3>1. dst' \in Seq(Bytes)
      <4>1. <<>> \in Seq(Bytes)
        OBVIOUS
      <4> QED
        BY <2>2, <4>1 DEF OpenTarget, TypeOK, Truncated
    <3> QED
      BY <2>2, <3>1 DEF OpenTarget, TypeOK, Labels, Ended
  <2>3. CASE SetupRing
    <3>1. buffer' \in Seq(Bytes)
      <4>1. CASE buffer' \in [1 .. FILE_BLOCK_SIZE -> StaleBytes]
        <5>1. buffer' \in [1 .. FILE_BLOCK_SIZE -> Bytes]
          BY <4>1 DEF Bytes
        <5> QED
          BY <5>1, RingCopyAssumption, SeqDef
      <4> QED
        BY <2>3, <4>1 DEF SetupRing, TypeOK
    <3> QED
      BY <2>3, <3>1 DEF SetupRing, TypeOK, Labels, Ended, Copying
  <2> QED
    BY <2>1, <2>2, <2>3
<1>2. FileInv'
  <2>1. CASE OpenSource
    <3>1. /\ pc = "source" /\ pc' \in {"target", "failed"} /\ offset = 0
          /\ UNCHANGED <<dst, offset>>
      BY <2>1 DEF OpenSource, FileInv
    <3> QED
      BY <3>1 DEF FileInv, Copying
  <2>2. CASE OpenTarget
    <3>1. /\ pc = "target" /\ offset = 0 /\ offset' = offset
          /\ pc' = "failed" \/ (pc' = "ring" /\ dst' = <<>>)
      BY <2>2 DEF OpenTarget, FileInv, Truncated
    <3> QED
      BY <3>1 DEF FileInv, Copying
  <2>3. CASE SetupRing
    <3>1. /\ pc = "ring" /\ pc' \in {"loop", "failed"} /\ offset = 0 /\ dst = <<>>
          /\ UNCHANGED <<fileSize, dst, offset>>
      BY <2>3 DEF SetupRing, FileInv
    <3>2. Len(dst) = 0 /\ fileSize \in Nat
      BY <3>1 DEF TypeOK
    <3> QED
      BY <3>1, <3>2 DEF FileInv, Copying
  <2> QED
    BY <2>1, <2>2, <2>3
<1>3. BlockInv'
  <2>1. SetupRing /\ pc' = "loop" => Len(buffer') = FILE_BLOCK_SIZE
    BY RingCopyAssumption DEF SetupRing
  <2> QED
    BY <2>1 DEF OpenSource, OpenTarget, SetupRing, BlockInv, Copying
<1>4. RequestInv' /\ AnswerInv'
  BY DEF OpenSource, OpenTarget, SetupRing, RequestInv, AnswerInv, Completed,
         Cqe, Waiting, Ended
<1> QED
  BY <1>1, <1>2, <1>3, <1>4

(* Handing a request to the kernel.                                         *)
LEMMA SubmittingKeeps ==
  ASSUME IInv, SubmitRead \/ SubmitWrite
  PROVE  IInv'
<1> USE DEF IInv, fileVars, blockVars, sqVars, cqVars
<1>1. iovLen' \in 0 .. FILE_BLOCK_SIZE /\ iovLen' <= fileSize - offset
  <2>1. CASE SubmitRead
    BY <2>1, Numbers, RingCopyAssumption DEF SubmitRead, Smaller
  <2>2. CASE SubmitWrite
    BY <2>2, Numbers, RingCopyAssumption DEF SubmitWrite, BlockInv
  <2> QED
    BY <2>1, <2>2
<1>2. sqTail' \in 0 .. SQ_ENTRIES - 1 /\ sqHead' \in 0 .. WRAP - 1
  <2>1. NextTail \in 0 .. SQ_ENTRIES - 1
    <3>1. sqTail + 1 \in Nat
      BY Numbers
    <3> QED
      BY <3>1, Indices DEF NextTail
  <2>2. (sqHead + 1) % WRAP \in 0 .. WRAP - 1
    BY Numbers, Counting
  <2> QED
    BY <2>1, <2>2, Numbers DEF SubmitRead, SubmitWrite, Submit
<1>3. op' \in {"none", "lost", "read", "write"}
      /\ (op' = "read" => pc' = "waitRead") /\ (op' = "write" => pc' = "waitWrite")
  BY DEF SubmitRead, SubmitWrite, Submit
<1>4. TypeOK'
  BY <1>1, <1>2, <1>3 DEF SubmitRead, SubmitWrite, TypeOK, Labels, Copying
<1>5. FileInv' /\ BlockInv'
  BY <1>1 DEF SubmitRead, SubmitWrite, FileInv, BlockInv, Copying
<1>6. ~Completed'
  BY DEF SubmitRead, SubmitWrite, RequestInv, Completed, Waiting, Ended
<1>7. RequestInv' /\ AnswerInv'
  BY <1>3, <1>6
  DEF SubmitRead, SubmitWrite, RequestInv, AnswerInv, Waiting, Ended
<1> QED
  BY <1>4, <1>5, <1>7

(* Taking the completion of a read.                                         *)
LEMMA ReadDoneKeeps ==
  ASSUME IInv, ReadDone
  PROVE  IInv'
<1> USE DEF IInv, fileVars, blockVars, sqVars, cqVars, Die
<1>1. HeadSeen \in 0 .. WRAP - 1
  BY Numbers, Counting DEF HeadSeen
<1>2. TypeOK'
  BY <1>1, Answer DEF ReadDone, TypeOK, Labels, Ended, Copying
<1>3. FileInv' /\ BlockInv'
  BY DEF ReadDone, FileInv, BlockInv, AnswerInv, Copying
<1>4. op = "none" /\ cqTail = HeadSeen
  BY DEF ReadDone, RequestInv, HeadSeen, Waiting, TypeOK
<1>5. RequestInv' /\ AnswerInv'
  BY <1>4 DEF ReadDone, RequestInv, AnswerInv, Completed, Waiting, Ended
<1> QED
  BY <1>2, <1>3, <1>5

(* Taking the completion of a write: what was read is in the target.        *)
LEMMA WriteDoneKeeps ==
  ASSUME IInv, WriteDone
  PROVE  IInv'
<1> USE DEF IInv, fileVars, blockVars, sqVars, cqVars, Die
<1>1. HeadSeen \in 0 .. WRAP - 1
  BY Numbers, Counting DEF HeadSeen
<1>2. TypeOK'
  BY <1>1, Numbers DEF WriteDone, TypeOK, Labels, Ended, Copying, NextOffset
<1>3. FileInv'
  <2>1. CASE pc' = "failed"
    BY <2>1 DEF WriteDone, FileInv, Copying
  <2>2. CASE pc' = "loop"
    <3>1. /\ offset' = offset + bytesRead /\ ~(Cqe.res < bytesRead)
          /\ UNCHANGED <<dst, fileSize>>
      BY <2>2 DEF WriteDone, WriteShort, NextOffset
    <3>2. bytesRead <= Cqe.res /\ Cqe.res \in Nat
      BY <3>1, Numbers, Answer
    <3>4. /\ iovLen <= fileSize - offset /\ bytesRead <= iovLen
          /\ Len(dst) <= fileSize /\ offset + Cqe.res <= Len(dst)
          /\ \A i \in 1 .. offset : dst[i] = i - 1
          /\ \A i \in 1 .. Cqe.res :
               i <= bytesRead => dst[offset + i] = offset + i - 1
      BY DEF WriteDone, BlockInv, FileInv, AnswerInv, Copying
    <3>5. offset' <= fileSize /\ offset' <= Len(dst) /\ Len(dst) <= fileSize
      <4>1. {fileSize, offset, bytesRead, iovLen, Len(dst), Cqe.res} \subseteq Nat
        BY <3>2, Numbers, LenProperties DEF TypeOK
      <4>2. offset + bytesRead <= fileSize /\ offset + bytesRead <= Len(dst)
        BY <3>2, <3>4, <4>1
      <4> QED
        BY <3>1, <3>4, <4>2
    <3>3. ASSUME NEW i \in 1 .. offset'
          PROVE  dst[i] = i - 1
      <4>0. i \in Nat /\ 1 <= i /\ i <= offset + bytesRead
        BY <3>1, Numbers
      <4>1. CASE i <= offset
        BY <4>0, <4>1, <3>4, Numbers
      <4>2. CASE i > offset
        <5>0. bytesRead \in Nat /\ offset \in Nat
          BY Numbers
        <5>1. PICK j \in 1 .. bytesRead : i = offset + j
          <6>1. i - offset \in 1 .. bytesRead /\ i = offset + (i - offset)
            BY <4>0, <4>2, Numbers
          <6> QED
            BY <6>1
        <5>2. j \in 1 .. Cqe.res /\ j <= bytesRead
          BY <3>2, <5>0
        <5>3. dst[offset + j] = offset + j - 1
          BY <5>2, <3>4
        <5>4. dst[i] = dst[offset + j] /\ offset + j - 1 = i - 1
          BY <5>0, <5>1
        <5> QED
          BY <5>3, <5>4
      <4> QED
        BY <4>0, <4>1, <4>2, Numbers
    <3> QED
      BY <2>2, <3>1, <3>5, <3>3 DEF FileInv, Copying
  <2> QED
    BY <2>1, <2>2 DEF WriteDone
<1>4. BlockInv'
  BY DEF WriteDone, BlockInv, Copying
<1>5. op = "none" /\ cqTail = HeadSeen
  BY DEF WriteDone, RequestInv, HeadSeen, Waiting, TypeOK
<1>6. RequestInv' /\ AnswerInv'
  BY <1>5 DEF WriteDone, RequestInv, AnswerInv, Completed, Waiting, Ended
<1> QED
  BY <1>2, <1>3, <1>4, <1>6

(* What posting a completion makes of the ring.                             *)
LEMMA Posted ==
  ASSUME IInv, NEW n \in Nat \cup {Error}, Post(n), op \in {"read", "write"}
  PROVE  /\ Completed' /\ cqTail' = (cqHead' + 1) % WRAP
         /\ cqTail' \in 0 .. WRAP - 1
         /\ Cqe' = [data |-> op, res |-> n]
         /\ cqes' \in [0 .. CQ_ENTRIES - 1 ->
                         [data : {"none", "read", "write"}, res : Nat \cup {Error}]]
         /\ RequestInv'
<1> USE DEF IInv, Post
<1>1. cqHead = cqTail /\ cqHead' = cqHead /\ cqHead \in 0 .. WRAP - 1
  BY DEF RequestInv, Completed, TypeOK
<1>2. cqTail' = (cqHead' + 1) % WRAP /\ cqTail' \in 0 .. WRAP - 1 /\ Completed'
  BY <1>1, Counting DEF Completed
<1>3. cqHead % CQ_ENTRIES \in 0 .. CQ_ENTRIES - 1
  BY <1>1, Indices
<1>4. Cqe' = [data |-> op, res |-> n]
  BY <1>1, <1>3 DEF Cqe, TypeOK
<1>5. cqes' \in [0 .. CQ_ENTRIES - 1 ->
                  [data : {"none", "read", "write"}, res : Nat \cup {Error}]]
  BY <1>1, <1>3 DEF TypeOK
<1>6. RequestInv'
  BY <1>2 DEF RequestInv, Waiting, Ended
<1> QED
  BY <1>2, <1>4, <1>5, <1>6

(* The kernel reads: what it says it read is in the buffer.                 *)
LEMMA KernelReadKeeps ==
  ASSUME IInv, ReadDoneByKernel
  PROVE  IInv'
<1> USE DEF IInv
<1>1. pc = "waitRead" /\ op = "read" /\ offset \in Nat /\ iovLen \in Nat
      /\ buffer \in Seq(Bytes) /\ Len(buffer) = FILE_BLOCK_SIZE
      /\ iovLen <= FILE_BLOCK_SIZE
  BY Numbers
  DEF ReadDoneByKernel, RequestInv, BlockInv, TypeOK, Copying
<1>2. PICK n \in Nat \cup {Error} :
        /\ Post(n) /\ n <= iovLen /\ buffer' \in Seq(Bytes)
        /\ Len(buffer') = FILE_BLOCK_SIZE
        /\ \A i \in 1 .. n : buffer'[i] = offset + i - 1
  <2>1. CASE \E n \in 0 .. iovLen :
               /\ buffer' = Overwrite(buffer, 0, [i \in 1 .. n |-> offset + i - 1])
               /\ Post(n)
    <3>1. PICK n \in 0 .. iovLen :
            /\ buffer' = Overwrite(buffer, 0, [i \in 1 .. n |-> offset + i - 1])
            /\ Post(n)
      BY <2>1
    <3> DEFINE b == [i \in 1 .. n |-> offset + i - 1]
    <3>2. \A i \in 1 .. n : offset + i - 1 \in Nat
      BY <1>1
    <3>3. b \in [1 .. n -> Bytes]
      BY <3>2 DEF Bytes
    <3>4. b \in Seq(Bytes) /\ Len(b) = n
      <4>1. n \in Nat
        BY <1>1
      <4> QED
        BY <3>3, <4>1, SeqDef, LenProperties
    <3>8. buffer' = Overwrite(buffer, 0, b)
      BY <3>1
    <3>9. \A i \in 1 .. n : b[i] = offset + i - 1
      OBVIOUS
    <3> HIDE DEF b
    <3>5. /\ buffer' \in Seq(Bytes)
          /\ Len(buffer') = Larger(Len(buffer), 0 + Len(b))
          /\ \A i \in 1 .. Len(b) : buffer'[0 + i] = b[i]
      <4>1. buffer \in Seq(Bytes) /\ 0 \in Nat /\ 0 <= Len(buffer)
        BY <1>1
      <4>2. /\ Overwrite(buffer, 0, b) \in Seq(Bytes)
            /\ Len(Overwrite(buffer, 0, b)) = Larger(Len(buffer), 0 + Len(b))
            /\ \A i \in 1 .. Len(b) : Overwrite(buffer, 0, b)[0 + i] = b[i]
        BY <3>4, <4>1, Stored
      <4> QED
        BY <3>8, <4>2
    <3>6. Len(buffer') = FILE_BLOCK_SIZE
      BY <3>4, <3>5, <1>1, RingCopyAssumption DEF Larger
    <3>7. \A i \in 1 .. n : buffer'[i] = offset + i - 1
      BY <3>4, <3>5, <3>9, <1>1
    <3>10. n \in Nat \cup {Error} /\ n <= iovLen
      BY <1>1
    <3> QED
      BY <3>1, <3>5, <3>6, <3>7, <3>10
  <2>2. CASE UNCHANGED buffer /\ Post(Error)
    BY <2>2, <1>1 DEF Error
  <2> QED
    BY <2>1, <2>2 DEF ReadDoneByKernel
<1>3. /\ Completed' /\ cqTail' = (cqHead' + 1) % WRAP
      /\ cqTail' \in 0 .. WRAP - 1
      /\ Cqe' = [data |-> op, res |-> n]
      /\ cqes' \in [0 .. CQ_ENTRIES - 1 ->
                      [data : {"none", "read", "write"}, res : Nat \cup {Error}]]
      /\ RequestInv'
  BY <1>1, <1>2, Posted
<1>4. TypeOK'
  BY <1>2, <1>3 DEF ReadDoneByKernel, Post, TypeOK
<1>5. FileInv' /\ BlockInv'
  BY <1>1, <1>2 DEF ReadDoneByKernel, Post, FileInv, BlockInv, Copying
<1>6. AnswerInv'
  BY <1>1, <1>2, <1>3 DEF Post, AnswerInv
<1> QED
  BY <1>3, <1>4, <1>5, <1>6

(* The kernel writes: what it says it wrote is the buffer's beginning.      *)
LEMMA KernelWriteKeeps ==
  ASSUME IInv, WriteDoneByKernel
  PROVE  IInv'
<1> USE DEF IInv
<1>1. /\ pc = "waitWrite" /\ op = "write" /\ offset \in Nat /\ iovLen \in Nat
      /\ fileSize \in Nat /\ iovLen <= fileSize - offset
      /\ buffer \in Seq(Bytes) /\ Len(buffer) = FILE_BLOCK_SIZE
      /\ iovLen <= FILE_BLOCK_SIZE
      /\ dst \in Seq(Bytes) /\ offset <= Len(dst) /\ Len(dst) <= fileSize
      /\ \A i \in 1 .. offset : dst[i] = i - 1
      /\ bytesRead \in Nat
      /\ \A i \in 1 .. bytesRead : buffer[i] = offset + i - 1
  <2>1. pc = "waitWrite" /\ op = "write"
    BY DEF WriteDoneByKernel, RequestInv
  <2>2. dst \in Seq(Bytes) /\ buffer \in Seq(Bytes)
    BY DEF TypeOK
  <2> QED
    BY <2>1, <2>2, Numbers DEF BlockInv, FileInv, Copying
<1>2. PICK n \in Nat \cup {Error} :
        /\ Post(n) /\ n <= iovLen /\ dst' \in Seq(Bytes)
        /\ Len(dst') <= fileSize /\ offset <= Len(dst') /\ offset + n <= Len(dst')
        /\ \A i \in 1 .. offset : dst'[i] = i - 1
        /\ \A i \in 1 .. n : i <= bytesRead => dst'[offset + i] = offset + i - 1
  <2>1. CASE \E n \in 0 .. iovLen :
               /\ dst' = Overwrite(dst, offset, SubSeq(buffer, 1, n))
               /\ Post(n)
    <3>1. PICK n \in 0 .. iovLen :
            /\ dst' = Overwrite(dst, offset, SubSeq(buffer, 1, n))
            /\ Post(n)
      BY <2>1
    <3> DEFINE b == SubSeq(buffer, 1, n)
    <3>2. n \in Nat /\ n <= Len(buffer)
      BY <1>1, <3>1
    <3>3. /\ b \in Seq(Bytes) /\ Len(b) = n
          /\ \A i \in 1 .. n : b[i] = buffer[i]
      BY <1>1, <3>2
    <3>7. dst' = Overwrite(dst, offset, b)
      BY <3>1
    <3> HIDE DEF b
    <3>4. /\ dst' \in Seq(Bytes)
          /\ Len(dst') = Larger(Len(dst), offset + Len(b))
          /\ \A i \in 1 .. offset : dst'[i] = dst[i]
          /\ \A i \in 1 .. Len(b) : dst'[offset + i] = b[i]
      <4>1. dst \in Seq(Bytes) /\ offset \in Nat /\ offset <= Len(dst)
        BY <1>1
      <4>2. /\ Overwrite(dst, offset, b) \in Seq(Bytes)
            /\ Len(Overwrite(dst, offset, b)) = Larger(Len(dst), offset + Len(b))
            /\ \A i \in 1 .. offset : Overwrite(dst, offset, b)[i] = dst[i]
            /\ \A i \in 1 .. Len(b) : Overwrite(dst, offset, b)[offset + i] = b[i]
        BY <3>3, <4>1, Stored
      <4> QED
        BY <3>7, <4>2
    <3>5. /\ Len(dst') <= fileSize /\ offset <= Len(dst')
          /\ offset + n <= Len(dst')
      BY <3>2, <3>3, <3>4, <1>1 DEF Larger
    <3>6. \A i \in 1 .. n : i <= bytesRead => dst'[offset + i] = offset + i - 1
      <4>1. ASSUME NEW i \in 1 .. n, i <= bytesRead
            PROVE  dst'[offset + i] = offset + i - 1
        <5>1. i \in 1 .. bytesRead
          BY <3>2, <4>1, <1>1
        <5>2. b[i] = buffer[i] /\ buffer[i] = offset + i - 1
          BY <5>1, <3>3, <1>1
        <5> QED
          BY <5>2, <3>3, <3>4
      <4> QED
        BY <4>1
    <3>8. \A i \in 1 .. offset : dst'[i] = i - 1
      BY <3>4, <1>1
    <3>9. n \in Nat \cup {Error} /\ n <= iovLen
      BY <1>1
    <3> QED
      BY <3>1, <3>4, <3>5, <3>6, <3>8, <3>9
  <2>2. CASE UNCHANGED dst /\ Post(Error)
    BY <2>2, <1>1 DEF Error
  <2> QED
    BY <2>1, <2>2 DEF WriteDoneByKernel
<1>3. /\ Completed' /\ cqTail' = (cqHead' + 1) % WRAP
      /\ cqTail' \in 0 .. WRAP - 1
      /\ Cqe' = [data |-> op, res |-> n]
      /\ cqes' \in [0 .. CQ_ENTRIES - 1 ->
                      [data : {"none", "read", "write"}, res : Nat \cup {Error}]]
      /\ RequestInv'
  BY <1>1, <1>2, Posted
<1>4. TypeOK'
  BY <1>2, <1>3 DEF WriteDoneByKernel, Post, TypeOK
<1>5. FileInv' /\ BlockInv'
  BY <1>1, <1>2 DEF WriteDoneByKernel, Post, FileInv, BlockInv, Copying
<1>6. AnswerInv'
  BY <1>1, <1>2, <1>3 DEF Post, AnswerInv
<1> QED
  BY <1>3, <1>4, <1>5, <1>6

(* The end, and what leaves the program alone.                              *)
LEMMA OthersKeep ==
  ASSUME IInv, Finish \/ Shrink \/ UNCHANGED vars
  PROVE  IInv'
<1> USE DEF IInv, vars, fileVars, blockVars, sqVars, cqVars
<1>1. CASE Finish
  BY <1>1 DEF Finish, TypeOK, FileInv, BlockInv, RequestInv, AnswerInv, Labels,
       Copying, Ended, Waiting, Completed, Cqe
<1>2. CASE Shrink
  BY <1>2 DEF Shrink, TypeOK, FileInv, BlockInv, RequestInv, AnswerInv,
       Completed, Cqe
<1>3. CASE UNCHANGED vars
  BY <1>3 DEF TypeOK, FileInv, BlockInv, RequestInv, AnswerInv, Completed, Cqe
<1> QED
  BY <1>1, <1>2, <1>3

(* Every step of program, kernel and the other process keeps the invariant. *)
LEMMA StepIInv == IInv /\ [Next]_vars => IInv'
  BY OpeningKeeps, SubmittingKeeps, ReadDoneKeeps, WriteDoneKeeps,
     KernelReadKeeps, KernelWriteKeeps, OthersKeep
  DEF Next, Program, Kernel, Wait, Exited

(* IInv is an invariant.                                                    *)
THEOREM Invariance == Spec => []IInv
  BY InitIInv, StepIInv, PTL DEF Spec

(* Types and ranges hold; the ring's counters stay in theirs.               *)
THEOREM TypeCorrect == Spec => []TypeOK
<1>1. IInv => TypeOK
  BY DEF IInv
<1> QED
  BY Invariance, <1>1, PTL

(* A copy that ends with success has made the target equal to the source:   *)
(* short reads, short writes and a source that is cut notwithstanding       *)
(* (io_uring_cp.c:92-149).                                                  *)
THEOREM SuccessIsEquality == Spec => []SuccessMeansEqual
<1>1. IInv => SuccessMeansEqual
  <2> SUFFICES ASSUME IInv, pc = "done"
               PROVE  dst = [i \in 1 .. fileSize |-> i - 1]
    BY DEF SuccessMeansEqual
  <2>1. /\ dst \in Seq(Bytes) /\ Len(dst) = fileSize /\ fileSize \in Nat
        /\ \A i \in 1 .. fileSize : dst[i] = i - 1
    BY DEF IInv, FileInv, TypeOK
  <2>2. dst = [i \in 1 .. fileSize |-> dst[i]]
    BY <2>1, LenProperties
  <2> QED
    BY <2>1, <2>2
<1> QED
  BY Invariance, <1>1, PTL

(* No completion is taken for another request's (io_uring_cp.c:113-138).    *)
THEOREM CompletionsAreOwn == Spec => []CompletionIsOwn
<1>1. IInv => CompletionIsOwn
  BY DEF IInv, RequestInv, AnswerInv, CompletionIsOwn, Waiting, Ended
<1> QED
  BY Invariance, <1>1, PTL

-----------------------------------------------------------------------------
(* What RingCopy's states are to FileCopy.                                  *)
Target ==
  IF pc = "done" THEN dst
  ELSE IF pc \in Copying \cup {"failed"} THEN SubSeq(dst, 1, offset)
  ELSE <<>>

Status ==
  CASE pc = "source" -> "new"
    [] pc = "done" -> "ok"
    [] pc = "failed" -> "failed"
    [] OTHER -> "running"

Good(n) == [i \in 1 .. n |-> i - 1]

GoodSoFar ==
  pc \in Copying \cup {"done"} =>
    /\ Target = Good(offset) /\ Len(Target) = offset
    /\ offset \in Nat /\ offset <= fileSize
    /\ pc = "done" => offset = fileSize

(* While it copies, and when it is done, the target is the source so far.   *)
LEMMA TargetIsGood == IInv => GoodSoFar
<1> SUFFICES ASSUME IInv, pc \in Copying \cup {"done"}
             PROVE  /\ Target = Good(offset) /\ Len(Target) = offset
                    /\ offset \in Nat /\ offset <= fileSize
                    /\ pc = "done" => offset = fileSize
  BY DEF GoodSoFar
<1>1. /\ dst \in Seq(Bytes) /\ offset \in Nat /\ offset <= Len(dst)
      /\ Len(dst) <= fileSize /\ fileSize \in Nat /\ offset <= fileSize
      /\ \A i \in 1 .. offset : dst[i] = i - 1
      /\ pc = "done" => offset = fileSize
  BY Numbers DEF IInv, FileInv, TypeOK
<1>2. CASE pc = "done"
  <2>1. Len(dst) = offset
    BY <1>1, <1>2
  <2>2. dst = [i \in 1 .. offset |-> dst[i]]
    BY <1>1, <2>1, LenProperties
  <2> QED
    BY <1>1, <1>2, <2>1, <2>2 DEF Target, Good
<1>3. CASE pc \in Copying
  <2> DEFINE s == SubSeq(dst, 1, offset)
  <2>1. s \in Seq(Bytes) /\ Len(s) = offset /\ \A i \in 1 .. offset : s[i] = dst[i]
    BY <1>1
  <2>2. s = [i \in 1 .. offset |-> s[i]]
    BY <2>1, LenProperties
  <2>3. Target = s
    BY <1>3 DEF Target, Copying
  <2> HIDE DEF s
  <2> QED
    BY <1>1, <1>3, <2>1, <2>2, <2>3 DEF Good, Copying
<1> QED
  BY <1>2, <1>3

(* The copy grows along the source, and its success is success.             *)
THEOREM Copies == Spec => CopySpec
<1>1. Init => Copy!CopyInit
  BY DEF Init, Copy!CopyInit, Copying
<1>2. /\ IInv /\ GoodSoFar /\ GoodSoFar' /\ [Next]_vars
      => [Copy!CopyNext]_(Copy!copyVars)
  <2> SUFFICES ASSUME IInv, GoodSoFar, GoodSoFar', [Next]_vars
               PROVE  \/ Copy!CopyNext
                      \/ UNCHANGED <<fileSize, Target, Status>>
    BY DEF Copy!copyVars, Target, Status
  <2> USE DEF fileVars, blockVars, sqVars, cqVars, Die
  <2>0. ASSUME offset = 0
        PROVE  SubSeq(dst, 1, offset) = <<>>
    BY <2>0
  <2>1. CASE OpenSource
    <3>1. /\ pc = "source" /\ pc' \in {"target", "failed"} /\ offset' = 0
          /\ UNCHANGED dst
      BY <2>1 DEF OpenSource, IInv, FileInv
    <3>2. Target = <<>> /\ Target' = <<>> /\ Status = "new"
      BY <3>1, <2>0 DEF Target, Status, Copying
    <3>3. CASE pc' = "target"
      BY <2>1, <3>1, <3>2, <3>3
      DEF OpenSource, Copy!CopyNext, Copy!Begin, Target, Status
    <3>4. CASE pc' = "failed"
      BY <2>1, <3>1, <3>2, <3>4
      DEF OpenSource, Copy!CopyNext, Copy!Fail, Target, Status
    <3> QED
      BY <3>1, <3>3, <3>4
  <2>2. CASE OpenTarget \/ SetupRing
    <3>1. /\ pc \in {"target", "ring"} /\ pc' \in {"ring", "loop", "failed"}
          /\ offset = 0 /\ offset' = 0 /\ UNCHANGED fileSize
      BY <2>2 DEF OpenTarget, SetupRing, IInv, FileInv
    <3>2. Target = <<>> /\ Target' = <<>> /\ Status = "running"
      BY <3>1 DEF Target, Status, Copying
    <3>3. CASE pc' = "failed"
      BY <3>1, <3>2, <3>3 DEF Copy!CopyNext, Copy!Fail, Target, Status
    <3>4. CASE pc' \in {"ring", "loop"}
      BY <3>1, <3>2, <3>4 DEF Status
    <3> QED
      BY <3>1, <3>3, <3>4
  <2>3. CASE \/ SubmitRead \/ SubmitWrite \/ ReadDone
             \/ (WriteDone /\ pc' = "failed")
    <3>1. /\ pc \in Copying /\ pc' \in Copying \cup {"failed"}
          /\ UNCHANGED <<fileSize, dst, offset>>
      BY <2>3 DEF SubmitRead, SubmitWrite, ReadDone, WriteDone, Copying
    <3>2. Target' = Target /\ Status = "running"
      BY <3>1 DEF Target, Status, Copying
    <3>3. CASE pc' = "failed"
      BY <3>1, <3>2, <3>3 DEF Copy!CopyNext, Copy!Fail, Target, Status
    <3>4. CASE pc' \in Copying
      BY <3>1, <3>2, <3>4 DEF Status, Copying
    <3> QED
      BY <3>1, <3>3, <3>4
  <2>4. CASE WriteDone /\ pc' # "failed"
    <3>1. /\ pc = "waitWrite" /\ pc' = "loop" /\ offset' = offset + bytesRead
          /\ UNCHANGED fileSize
      BY <2>4 DEF WriteDone, NextOffset
    <3>2. /\ Target = Good(offset) /\ Len(Target) = offset /\ offset \in Nat
          /\ Target' = Good(offset') /\ offset' \in Nat /\ offset' <= fileSize
      BY <3>1 DEF Copying, GoodSoFar
    <3>3. Status = "running" /\ Status' = "running"
      BY <3>1 DEF Status
    <3>4. bytesRead \in Nat /\ fileSize \in Nat
      BY Numbers DEF IInv
    <3>5. CASE bytesRead = 0
      BY <3>1, <3>2, <3>3, <3>5
    <3>6. CASE bytesRead > 0
      <4>1. offset' \in Len(Target) + 1 .. fileSize
        BY <3>1, <3>2, <3>4, <3>6
      <4>2. Target' = Copy!Prefix(offset')
        BY <3>2 DEF Good, Copy!Prefix
      <4>3. Copy!Extend
        BY <3>1, <3>3, <4>1, <4>2 DEF Copy!Extend, Target, Status
      <4> QED
        BY <4>3 DEF Copy!CopyNext
    <3> QED
      BY <3>4, <3>5, <3>6
  <2>5. CASE Finish
    <3>1. /\ pc = "loop" /\ pc' = "done"
          /\ UNCHANGED <<fileSize, dst, offset>>
      BY <2>5 DEF Finish
    <3>2. /\ Target = Good(offset) /\ Target' = Good(offset)
          /\ offset = fileSize
      BY <3>1 DEF Copying, GoodSoFar
    <3>3. Status = "running" /\ Status' = "ok"
      BY <3>1 DEF Status
    <3>4. Target = Copy!Prefix(fileSize)
      BY <3>2 DEF Good, Copy!Prefix
    <3>5. Copy!Finish
      BY <3>1, <3>2, <3>3, <3>4 DEF Copy!Finish, Target, Status
    <3> QED
      BY <3>5 DEF Copy!CopyNext
  <2>6. CASE Kernel
    <3>1. pc \in Copying /\ UNCHANGED <<pc, fileSize, offset>>
      BY <2>6 DEF Kernel, ReadDoneByKernel, WriteDoneByKernel, Post, IInv,
           RequestInv, Copying
    <3>2. Target = Good(offset) /\ Target' = Good(offset)
      BY <3>1 DEF GoodSoFar
    <3> QED
      BY <3>1, <3>2 DEF Status
  <2>7. CASE Shrink \/ UNCHANGED vars
    BY <2>7 DEF Shrink, vars, Target, Status
  <2> QED
    BY <2>1, <2>2, <2>3, <2>4, <2>5, <2>6, <2>7 DEF Next, Program, Wait, Exited
<1> QED
  BY <1>1, <1>2, TargetIsGood, Invariance, PTL DEF Spec, CopySpec, Copy!CopySpec

-----------------------------------------------------------------------------
(* The program keeps its tail below SQ_ENTRIES, the kernel its head below    *)
(* WRAP, and still every entry is taken: the two agree modulo SQ_ENTRIES     *)
(* whenever the kernel has been entered.                                    *)
AgreeInv == op # "lost" => sqHead % SQ_ENTRIES = sqTail

(* A multiple leaves no rest. *)
LEMMA MultipleModulo ==
  ASSUME NEW q \in Nat \ {0}, NEW n \in Nat
  PROVE  (n * q) % q = 0
  OBVIOUS

(* The two next values, if the width of the counters is a multiple of q. *)
LEMMA NextModulo ==
  ASSUME NEW q \in Nat \ {0}, NEW k \in Nat, NEW h \in Nat, h < k * q
  PROVE  ((h + 1) % (k * q)) % q = ((h % q) + 1) % q
<1> DEFINE d == h \div q
           m == h % q
<1>1. d \in Nat /\ m \in 0 .. q - 1 /\ h = q * d + m
  BY Z3
<1> HIDE DEF d, m
<1>2. CASE h + 1 < k * q
  <2>1. (h + 1) % (k * q) = h + 1
    <3> DEFINE w == k * q
    <3>1. w \in Nat /\ h + 1 < w
      BY <1>2
    <3> HIDE DEF w
    <3>2. (h + 1) % w = h + 1
      BY <3>1
    <3> QED
      BY <3>2 DEF w
  <2>2. CASE m + 1 < q
    <3>1. (h + 1) % q = m + 1
      BY <1>1, <2>2, Z3
    <3>2. (m + 1) % q = m + 1
      BY <1>1, <2>2
    <3> QED
      BY <2>1, <3>1, <3>2 DEF m
  <2>3. CASE m + 1 = q
    <3>1. h + 1 = (d + 1) * q /\ d + 1 \in Nat
      BY <1>1, <2>3
    <3>2. (h + 1) % q = 0
      BY <3>1, MultipleModulo
    <3>3. (m + 1) % q = 0
      BY <2>3
    <3> QED
      BY <2>1, <3>2, <3>3 DEF m
  <2> QED
    BY <1>1, <2>2, <2>3
<1>3. CASE h + 1 = k * q
  <2>1. (h + 1) % (k * q) = 0
    <3> DEFINE w == k * q
    <3>1. w \in Nat \ {0} /\ h + 1 = w
      BY <1>3
    <3> HIDE DEF w
    <3>2. (h + 1) % w = 0
      BY <3>1
    <3> QED
      BY <3>2 DEF w
  <2>2. m + 1 = q
    <3>1. q * (k - d) = m + 1 /\ k - d \in Int
      BY <1>1, <1>3
    <3>2. k - d >= 1
      <4>1. k - d <= 0 => q * (k - d) <= 0
        BY <3>1
      <4> QED
        BY <1>1, <3>1, <4>1
    <3>3. k - d >= 2 => q * (k - d) >= q * 2
      BY <3>1
    <3> QED
      BY <1>1, <3>1, <3>2, <3>3
  <2>3. (m + 1) % q = 0 /\ 0 % q = 0
    BY <2>2
  <2> QED
    BY <2>1, <2>3 DEF m
<1> QED
  BY <1>2, <1>3

(* So the kernel sees an entry: its head is not the tail that is stored. *)
LEMMA TailIsAhead ==
  ASSUME TypeOK, sqHead % SQ_ENTRIES = sqTail
  PROVE  NextTail # sqHead
<1>1. /\ SQ_ENTRIES \in Nat \ {0, 1} /\ sqHead \in Nat
      /\ sqTail \in 0 .. SQ_ENTRIES - 1
  BY RingCopyAssumption DEF TypeOK
<1>2. CASE sqHead < SQ_ENTRIES
  <2>1. sqTail = sqHead
    BY <1>1, <1>2
  <2>2. CASE sqHead + 1 < SQ_ENTRIES
    BY <1>1, <2>1, <2>2 DEF NextTail
  <2>3. CASE sqHead + 1 = SQ_ENTRIES
    BY <1>1, <2>1, <2>3 DEF NextTail
  <2> QED
    BY <1>1, <1>2, <2>2, <2>3
<1>3. CASE ~(sqHead < SQ_ENTRIES)
  <2>1. NextTail \in 0 .. SQ_ENTRIES - 1
    BY <1>1 DEF NextTail
  <2> QED
    BY <1>1, <1>3, <2>1
<1> QED
  BY <1>2, <1>3

LEMMA AgreeStep ==
  ASSUME NEW k \in Nat, WRAP = k * SQ_ENTRIES, IInv, AgreeInv, [Next]_vars
  PROVE  AgreeInv'
<1>1. /\ SQ_ENTRIES \in Nat \ {0} /\ sqHead \in 0 .. WRAP - 1 /\ WRAP \in Nat
      /\ sqHead \in Nat /\ sqHead < WRAP
  BY RingCopyAssumption DEF IInv, TypeOK
<1>2. CASE SubmitRead \/ SubmitWrite
  <2>1. op = "none" /\ sqHead % SQ_ENTRIES = sqTail
    BY <1>2 DEF SubmitRead, SubmitWrite, IInv, RequestInv, Waiting, AgreeInv
  <2>2. ((sqHead + 1) % WRAP) % SQ_ENTRIES = NextTail
    <3>1. ((sqHead + 1) % (k * SQ_ENTRIES)) % SQ_ENTRIES
            = ((sqHead % SQ_ENTRIES) + 1) % SQ_ENTRIES
      BY <1>1, NextModulo
    <3> QED
      BY <2>1, <3>1 DEF NextTail
  <2>3. NextTail # sqHead
    BY <2>1, TailIsAhead DEF IInv
  <2> QED
    BY <1>2, <2>2, <2>3 DEF SubmitRead, SubmitWrite, Submit, AgreeInv
<1>3. CASE Kernel
  BY <1>3 DEF Kernel, ReadDoneByKernel, WriteDoneByKernel, Post, AgreeInv
<1>4. CASE \/ OpenSource \/ OpenTarget \/ SetupRing \/ ReadDone \/ WriteDone
           \/ Wait \/ Finish \/ Exited \/ Shrink \/ UNCHANGED vars
  BY <1>4 DEF OpenSource, OpenTarget, SetupRing, ReadDone, WriteDone, Wait,
     Finish, Exited, Shrink, vars, sqVars, AgreeInv
<1> QED
  BY <1>2, <1>3, <1>4 DEF Next, Program

LEMMA WaitStep ==
  ASSUME NEW k \in Nat, WRAP = k * SQ_ENTRIES, IInv, AgreeInv,
         NoWaitForNothing, [Next]_vars
  PROVE  NoWaitForNothing'
<1>1. CASE SubmitRead \/ SubmitWrite
  <2>1. op = "none" /\ sqHead % SQ_ENTRIES = sqTail
    BY <1>1 DEF SubmitRead, SubmitWrite, IInv, RequestInv, Waiting, AgreeInv
  <2>2. NextTail # sqHead
    BY <2>1, TailIsAhead DEF IInv
  <2> QED
    BY <1>1, <2>2 DEF SubmitRead, SubmitWrite, Submit, NoWaitForNothing
<1>2. CASE Kernel
  <2>1. op # "none" /\ cqTail' = (cqTail + 1) % WRAP /\ cqHead' = cqHead
    BY <1>2 DEF Kernel, ReadDoneByKernel, WriteDoneByKernel, Post
  <2>2. cqHead = cqTail /\ cqTail \in 0 .. WRAP - 1
    BY <2>1 DEF IInv, RequestInv, Completed, TypeOK
  <2>3. Completed'
    BY <2>1, <2>2, Counting DEF Completed
  <2> QED
    BY <2>3 DEF NoWaitForNothing
<1>3. CASE \/ OpenSource \/ OpenTarget \/ SetupRing \/ ReadDone \/ WriteDone
           \/ Finish
  BY <1>3 DEF OpenSource, OpenTarget, SetupRing, ReadDone, WriteDone, Finish,
     Die, NoWaitForNothing
<1>4. CASE Wait \/ Exited \/ Shrink \/ UNCHANGED vars
  BY <1>4 DEF Wait, Exited, Shrink, vars, sqVars, cqVars, Completed,
     NoWaitForNothing
<1> QED
  BY <1>1, <1>2, <1>3, <1>4 DEF Next, Program

(* Although the program lets its tail wrap at sq_entries and the kernel counts *)
(* on, no request is overlooked, as long as the counters' range is a multiple *)
(* of the ring's length, as 2^32 is of a power of two: what is waited for is  *)
(* done or under way, or its io_uring_enter failed                          *)
(* (io_uring_cp.c:93-141).  This is the safety half of EndsIfUndisturbed.    *)
THEOREM EveryRequestTaken ==
  ASSUME NEW k \in Nat, WRAP = k * SQ_ENTRIES
  PROVE  Spec => []NoWaitForNothing
<1>1. Init => AgreeInv /\ NoWaitForNothing
  <2>1. 0 % SQ_ENTRIES = 0
    BY RingCopyAssumption
  <2> QED
    BY <2>1 DEF Init, AgreeInv, NoWaitForNothing
<1>2. IInv /\ AgreeInv /\ [Next]_vars => AgreeInv'
  BY AgreeStep
<1>3. IInv /\ AgreeInv /\ NoWaitForNothing /\ [Next]_vars => NoWaitForNothing'
  BY WaitStep
<1> QED
  BY <1>1, <1>2, <1>3, Invariance, PTL DEF Spec
=============================================================================
