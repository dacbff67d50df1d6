--------------------------- MODULE EarlyCat_proofs --------------------------
(***************************************************************************)
(* The safety properties of the earlier version of my_cat, proved for every  *)
(* number of files, block and buffer size, set of file sizes, set of faults  *)
(* and limit on descriptors.  As for my_cat all of them follow from one      *)
(* inductive invariant, IInv; here it has to say what is known before and    *)
(* after the wait of a file's first my_fread.                              *)
(***************************************************************************)
EXTENDS EarlyCat, Uring_proofs, SequenceTheorems

Opening == {"submit", "flags", "enter", "buffer"}    (* mf is there         *)
Sent == {"flags", "enter", "buffer"} \cup InCat      (* and the READV sent  *)

(* How far the ring is at each point of the program: only behind the wait    *)
(* of the first my_fread is the completion known to be there.               *)
PhaseInv ==
  /\ pc = "submit" => sqTail = 0
  /\ pc \in Sent => sqTail = 1 /\ want = size
  /\ pc \in InCat /\ (isfirst = 1 \/ pc = "copy") => cqTail = 1
  /\ pc \in {"null"} \cup Opening \cup InCat => arg < NFiles
  /\ pc \in Opening => isfirst = 0
  /\ pc = "spin" => isfirst = 0
  /\ pc \in {"return", "write"} => isfirst = 1

(* The blocks cover the file, and all but the last one are full. *)
BlockInv ==
  pc \in Opening \cup InCat =>
    /\ size \in Sizes
    /\ (blocks - 1) * BLOCK_SZ < size /\ size <= blocks * BLOCK_SZ

(* Before the first visit nothing has moved.  Afterwards the position of mf, *)
(* inside a call that of my_fread's locals, is where the bytes handed over   *)
(* end; a failed read hands over none.                                     *)
PositionInv ==
  /\ pc \in Opening \cup InCat /\ isfirst = 0 =>
       /\ out = <<>> /\ chunk = <<>> /\ cqHead = 0
       /\ curBlock = 0 /\ curOffset = 0
  /\ pc \in InCat =>
       /\ curBlock = blocks => curOffset = 0
       /\ cqRes < 0 => out = <<>> /\ chunk = <<>> /\ pc # "write"
       /\ pc = "fread" =>
            /\ chunk = <<>> /\ Len(out) = curBlock * BLOCK_SZ + curOffset
            /\ cqRes < 0 => isfirst = 0
       /\ pc \in {"spin", "copy", "return"} =>
            /\ index = blocks => offset = 0
            /\ Len(out) + Len(chunk) = index * BLOCK_SZ + offset
       /\ pc \in {"spin", "copy"} =>
            /\ index < blocks /\ Len(chunk) < CHUNK
            /\ cqRes < 0 => isfirst = 0
            /\ isfirst = 0 => head = 0
       /\ pc = "return" /\ cqRes >= 0 =>
            chunk # <<>> /\ (Len(chunk) = CHUNK \/ index = blocks)
       /\ pc = "write" =>
            /\ chunk # <<>> /\ Len(out) + Len(chunk) = curBlock * BLOCK_SZ + curOffset
            /\ Len(chunk) = CHUNK \/ curBlock = blocks
       /\ pc = "end" =>
            /\ chunk = <<>>
            /\ isfirst = 0 => blocks = 0
            /\ (cqRes < 0 /\ isfirst = 1) \/ Len(out) = blocks * BLOCK_SZ

(* The bytes handed over are the buffers', in order. *)
DeliveredInv ==
  pc \in InCat => \A k \in 1 .. Len(Delivered) : Delivered[k] = ByteAt(k - 1)

IInv ==
  /\ TypeOK
  /\ RingInv
  /\ PhaseInv
  /\ BlockInv
  /\ PositionInv
  /\ DeliveredInv
-----------------------------------------------------------------------------
Bytes == Nat \cup {Stale}

(* What TypeOK says, for the arithmetic on it. *)
LEMMA Types ==
  ASSUME TypeOK
  PROVE  /\ RingTypeOK
         /\ arg \in 0 .. NFiles /\ size \in Nat /\ blocks \in Nat
         /\ curBlock \in Nat /\ curBlock <= blocks
         /\ curOffset \in 0 .. BLOCK_SZ - 1
         /\ isfirst \in {0, 1}
         /\ index \in Nat /\ index <= blocks
         /\ offset \in 0 .. BLOCK_SZ - 1 /\ head \in Nat
         /\ chunk \in Seq(Bytes) /\ Len(chunk) \in Nat /\ Len(chunk) <= CHUNK
         /\ out \in Seq(Bytes) /\ Len(out) \in Nat
         /\ filled \in Nat /\ cqHead \in Nat /\ cqTail \in Nat /\ cqRes \in Int
         /\ NFiles \in Nat /\ CHUNK \in Nat \ {0} /\ FdLimit \in Nat
         /\ BLOCK_SZ \in Nat \ {0}
<1>1. RingTypeOK
  BY DEF TypeOK
<1>2. filled \in Nat /\ cqHead \in Nat /\ cqTail \in Nat /\ cqRes \in Int
  BY <1>1 DEF RingTypeOK, Error
<1> USE EarlyCatAssumption, BlocksAssumption DEF TypeOK, Bytes
<1>3. /\ arg \in 0 .. NFiles /\ size \in Nat /\ blocks \in Nat
      /\ curBlock \in Nat /\ curBlock <= blocks
      /\ curOffset \in 0 .. BLOCK_SZ - 1
      /\ isfirst \in {0, 1}
      /\ index \in Nat /\ index <= blocks
      /\ offset \in 0 .. BLOCK_SZ - 1 /\ head \in Nat
  OBVIOUS
<1>4. /\ chunk \in Seq(Bytes) /\ Len(chunk) \in Nat /\ Len(chunk) <= CHUNK
      /\ out \in Seq(Bytes) /\ Len(out) \in Nat
  OBVIOUS
<1>5. /\ NFiles \in Nat /\ CHUNK \in Nat \ {0} /\ FdLimit \in Nat
      /\ BLOCK_SZ \in Nat \ {0}
  OBVIOUS
<1> HIDE EarlyCatAssumption, BlocksAssumption DEF TypeOK, Bytes
<1> QED
  BY <1>1, <1>2, <1>3, <1>4, <1>5

(* Who writes the ring, and how. *)
LEMMA RingTouched ==
  ASSUME [Next]_vars
  PROVE  \/ UNCHANGED ringVars
         \/ RingSetup
         \/ pc = "submit" /\ StoreTail(size, blocks)
         \/ WakePoller
         \/ FreadReturn
         \/ KernelStep
<1>1. CASE FopenFile
  BY <1>1 DEF FopenFile, SetupRing
<1>2. CASE FopenSubmit
  BY <1>2 DEF FopenSubmit
<1>3. CASE FopenEnter
  BY <1>3 DEF FopenEnter
<1>4. CASE Kernel
  BY <1>4 DEF Kernel
<1>5. CASE UNCHANGED vars
  BY <1>5 DEF vars
<1>6. CASE \/ FopenFileFails \/ FopenOverrun \/ FopenCheckFlags \/ CatBuffer
           \/ FreadEof \/ FreadBegin \/ FreadSpin \/ FreadStop \/ FreadCopy
           \/ CatWrite \/ CatEnd \/ MainExit
  BY <1>6 DEF FopenFileFails, FopenOverrun, FopenCheckFlags, CatBuffer, FreadEof,
       FreadBegin, FreadSpin, FreadStop, FreadCopy, CatWrite, CatEnd, MainExit
<1> QED
  BY <1>1, <1>2, <1>3, <1>4, <1>5, <1>6
  DEF Next, App, FreadSpinning, Exited

(* The one entry passes the ring's counters in their order, and no step      *)
(* takes any number below 0.                                               *)
LEMMA RingStep ==
  ASSUME IInv, [Next]_vars
  PROVE  RingTypeOK' /\ RingInv'
<1>0. TypeOK /\ RingTypeOK /\ RingInv /\ PhaseInv
  BY Types DEF IInv
<1>1. CASE UNCHANGED ringVars
  BY <1>0, <1>1 DEF ringVars, entryVars, cqVars, RingTypeOK, RingInv
<1>2. CASE RingSetup
  BY <1>2, ResetRing DEF RingSetup, PollerStates
<1>3. CASE pc = "submit" /\ StoreTail(size, blocks)
  BY <1>0, <1>3, Types, StoreRing DEF PhaseInv
<1>4. CASE WakePoller
  BY <1>0, <1>4, WakeRing
<1>5. CASE FreadReturn
  BY <1>0, <1>5, Types DEF FreadReturn, RingTypeOK, RingInv, entryVars
<1>6. CASE KernelStep
  BY <1>0, <1>6, KernelType, KernelRing
<1> QED
  BY <1>1, <1>2, <1>3, <1>4, <1>5, <1>6, RingTouched

(* A byte of the buffers is a byte. *)
LEMMA ByteAtType ==
  ASSUME TypeOK, NEW p \in Nat
  PROVE  ByteAt(p) \in Bytes
  BY DEF ByteAt, Bytes

CopyFrom == index * BLOCK_SZ + offset

(* One round of my_fread's loop copies at least one byte, past the end of    *)
(* neither the block nor the caller's buffer.                              *)
LEMMA CopyBounds ==
  ASSUME IInv, pc = "copy"
  PROVE  /\ ToCopy \in Nat \ {0}
         /\ offset + ToCopy <= BLOCK_SZ
         /\ Len(chunk) + ToCopy <= CHUNK
         /\ index < blocks /\ CopyFrom \in Nat
         /\ Len(out) + Len(chunk) = CopyFrom
<1>1. /\ size \in Nat /\ blocks \in Nat /\ index \in Nat
      /\ offset \in 0 .. BLOCK_SZ - 1 /\ Len(chunk) \in Nat
      /\ BLOCK_SZ \in Nat \ {0} /\ CHUNK \in Nat
  BY Types DEF IInv
<1>2. /\ index < blocks /\ Len(chunk) < CHUNK
      /\ Len(out) + Len(chunk) = index * BLOCK_SZ + offset
      /\ (blocks - 1) * BLOCK_SZ < size
  BY DEF IInv, PositionInv, BlockInv, InCat
<1>3. size - index * BLOCK_SZ \in Nat \ {0}
  <2>1. blocks - 1 - index \in Nat
    BY <1>1, <1>2
  <2>2. (blocks - 1 - index) * BLOCK_SZ \in Nat
    BY <1>1, <2>1
  <2>3. (blocks - 1 - index) * BLOCK_SZ
          = (blocks - 1) * BLOCK_SZ - index * BLOCK_SZ
    BY <1>1
  <2>4. (blocks - 1) * BLOCK_SZ \in Int /\ index * BLOCK_SZ \in Int
    BY <1>1
  <2> QED
    BY <1>1, <1>2, <2>2, <2>3, <2>4
<1>4. IovLen(index) \in 1 .. BLOCK_SZ
  BY <1>1, <1>3 DEF IovLen, Lesser
<1>5. /\ ToCopy \in Nat \ {0} /\ offset + ToCopy <= BLOCK_SZ
      /\ Len(chunk) + ToCopy <= CHUNK
  BY <1>1, <1>2, <1>4 DEF ToCopy, Lesser
<1>6. CopyFrom \in Nat
  BY <1>1 DEF CopyFrom
<1> QED
  BY <1>2, <1>5, <1>6 DEF CopyFrom

(* What a round appends to the caller's buffer. *)
LEMMA CopiedBytes ==
  ASSUME IInv, FreadCopy
  PROVE  /\ chunk' \in Seq(Bytes)
         /\ Len(chunk') = Len(chunk) + ToCopy
         /\ \A k \in 1 .. Len(chunk') :
              chunk'[k] = IF k <= Len(chunk) THEN chunk[k]
                          ELSE ByteAt(CopyFrom + k - Len(chunk) - 1)
<1> DEFINE piece == [i \in 1 .. ToCopy |-> ByteAt(CopyFrom + i - 1)]
<1>0. TypeOK /\ pc = "copy"
  BY DEF IInv, FreadCopy
<1>1. chunk' = chunk \o piece
  BY DEF FreadCopy, CopyFrom
<1>2. chunk \in Seq(Bytes) /\ Len(chunk) \in Nat
  BY <1>0, Types
<1>3. ToCopy \in Nat /\ CopyFrom \in Nat
  BY <1>0, CopyBounds
<1>4. piece \in Seq(Bytes) /\ Len(piece) = ToCopy
  <2>1. ASSUME NEW i \in 1 .. ToCopy PROVE ByteAt(CopyFrom + i - 1) \in Bytes
    <3>1. CopyFrom + i - 1 \in Nat
      BY <1>3
    <3> QED
      BY <1>0, <3>1, ByteAtType
  <2> QED
    BY <1>3, <2>1
<1>5. \A k \in 1 .. ToCopy : piece[k] = ByteAt(CopyFrom + k - 1)
  OBVIOUS
<1> HIDE DEF piece
<1>6. /\ chunk' \in Seq(Bytes) /\ Len(chunk') = Len(chunk) + ToCopy
      /\ \A k \in 1 .. Len(chunk) + ToCopy :
           chunk'[k] = IF k <= Len(chunk) THEN chunk[k] ELSE piece[k - Len(chunk)]
  BY <1>1, <1>2, <1>4, ConcatProperties
<1>7. ASSUME NEW k \in 1 .. Len(chunk'), k > Len(chunk)
      PROVE  chunk'[k] = ByteAt(CopyFrom + k - Len(chunk) - 1)
  <2>1. k - Len(chunk) \in 1 .. ToCopy
    BY <1>2, <1>3, <1>6, <1>7
  <2>2. chunk'[k] = piece[k - Len(chunk)]
    BY <1>2, <1>3, <1>6, <1>7
  <2>3. CopyFrom + (k - Len(chunk)) - 1 = CopyFrom + k - Len(chunk) - 1
    BY <1>2, <1>3
  <2> QED
    BY <1>5, <2>1, <2>2, <2>3
<1> QED
  BY <1>2, <1>6, <1>7

(* A round of the copy loop moves the position by what it copied. *)
LEMMA CopyMoves ==
  ASSUME IInv, FreadCopy
  PROVE  /\ index' \in 0 .. blocks /\ offset' \in 0 .. BLOCK_SZ - 1
         /\ head' \in Nat /\ (index' = blocks => offset' = 0)
         /\ Len(out) + Len(chunk') = index' * BLOCK_SZ + offset'
         /\ chunk' # <<>> /\ Len(chunk') <= CHUNK
         /\ pc' = "copy" => index' < blocks /\ Len(chunk') < CHUNK
         /\ pc' = "return" => Len(chunk') = CHUNK \/ index' = blocks
<1>1. /\ index \in Nat /\ blocks \in Nat /\ head \in Nat
      /\ offset \in 0 .. BLOCK_SZ - 1 /\ Len(chunk) \in Nat /\ Len(out) \in Nat
      /\ BLOCK_SZ \in Nat \ {0} /\ CHUNK \in Nat \ {0}
  BY Types DEF IInv
<1>2. /\ ToCopy \in Nat \ {0} /\ offset + ToCopy <= BLOCK_SZ
      /\ Len(chunk) + ToCopy <= CHUNK /\ index < blocks
      /\ Len(out) + Len(chunk) = index * BLOCK_SZ + offset
  BY CopyBounds DEF FreadCopy, CopyFrom
<1>3. chunk' \in Seq(Bytes) /\ Len(chunk') = Len(chunk) + ToCopy
  BY CopiedBytes
<1>4. chunk' # <<>> /\ Len(chunk') \in Nat /\ Len(chunk') <= CHUNK
  BY <1>1, <1>2, <1>3
<1>5. ASSUME offset + ToCopy >= BLOCK_SZ
      PROVE  /\ index' \in 0 .. blocks /\ offset' \in 0 .. BLOCK_SZ - 1
             /\ head' \in Nat /\ (index' = blocks => offset' = 0)
             /\ Len(out) + Len(chunk') = index' * BLOCK_SZ + offset'
  <2>1. /\ index' = index + 1 /\ offset' = 0 /\ head' = head + 1
        /\ offset + ToCopy = BLOCK_SZ
    BY <1>1, <1>2, <1>5 DEF FreadCopy
  <2>2. (index + 1) * BLOCK_SZ = index * BLOCK_SZ + BLOCK_SZ
        /\ index * BLOCK_SZ \in Nat
    BY <1>1
  <2>3. Len(out) + Len(chunk') = index * BLOCK_SZ + (offset + ToCopy)
    BY <1>1, <1>2, <1>3, <2>2
  <2>4. Len(out) + Len(chunk') = index' * BLOCK_SZ + offset'
    BY <2>1, <2>2, <2>3
  <2> QED
    BY <1>1, <1>2, <2>1, <2>4
<1>6. ASSUME ~(offset + ToCopy >= BLOCK_SZ)
      PROVE  /\ index' \in 0 .. blocks /\ offset' \in 0 .. BLOCK_SZ - 1
             /\ head' \in Nat /\ (index' = blocks => offset' = 0)
             /\ Len(out) + Len(chunk') = index' * BLOCK_SZ + offset'
  <2>1. index' = index /\ offset' = offset + ToCopy /\ head' = head
    BY <1>6 DEF FreadCopy
  <2>2. index * BLOCK_SZ \in Nat
    BY <1>1
  <2>3. Len(out) + Len(chunk') = index' * BLOCK_SZ + offset'
    BY <1>1, <1>2, <1>3, <2>1, <2>2
  <2> QED
    BY <1>1, <1>2, <1>6, <2>1, <2>3
<1>7. /\ index' \in 0 .. blocks /\ offset' \in 0 .. BLOCK_SZ - 1
      /\ head' \in Nat /\ (index' = blocks => offset' = 0)
      /\ Len(out) + Len(chunk') = index' * BLOCK_SZ + offset'
  BY <1>5, <1>6
<1>8. /\ pc' = "copy" => index' < blocks /\ Len(chunk') < CHUNK
      /\ pc' = "return" => Len(chunk') = CHUNK \/ index' = blocks
  <2>1. pc' = IF Len(chunk') < CHUNK /\ index' < blocks THEN "copy" ELSE "return"
    BY <1>3 DEF FreadCopy
  <2>2. CASE Len(chunk') < CHUNK /\ index' < blocks
    BY <2>1, <2>2
  <2>3. CASE ~(Len(chunk') < CHUNK /\ index' < blocks)
    BY <1>1, <1>4, <1>7, <2>1, <2>3
  <2> QED
    BY <2>2, <2>3
<1> QED
  BY <1>4, <1>7, <1>8

(* Types are kept; the position stays inside the file's blocks. *)
LEMMA TypeStep ==
  ASSUME IInv, [Next]_vars
  PROVE  TypeOK'
<1> USE EarlyCatAssumption, BlocksAssumption
    DEF fileVars, posVars, callVars, InCat, Ended
<1>1. RingTypeOK'
  BY RingStep
<1>2. TypeOK /\ PhaseInv /\ PositionInv
  BY DEF IInv
<1> USE DEF TypeOK
<1>a. CASE FopenFile
  <2>1. PICK n \in Sizes : /\ n <= BlockCount(n) * BLOCK_SZ
                            /\ size' = n /\ blocks' = BlockCount(n)
    BY <1>a DEF FopenFile
  <2>2. n \in Nat /\ BlockCount(n) \in Nat
    BY <2>1, CountThatHolds
  <2>3. size' \in Nat /\ blocks' \in Nat
    BY <2>1, <2>2
  <2>4. /\ fds' \in 0 .. FdLimit /\ pc' = "submit"
        /\ curBlock' = 0 /\ curOffset' = 0 /\ isfirst' = 0
        /\ index' = 0 /\ offset' = 0 /\ head' = 0 /\ overtaken' = FALSE
        /\ UNCHANGED arg
    BY <1>2, <1>a DEF FopenFile
  <2>5. chunk' = <<>> /\ out' = <<>>
    BY <1>a DEF FopenFile
  <2>6. chunk' \in Seq(Nat \cup {Stale}) /\ Len(chunk') <= CHUNK
        /\ out' \in Seq(Nat \cup {Stale})
    BY <2>5, EmptySeq
  <2>7. /\ curBlock' \in 0 .. blocks' /\ curOffset' \in 0 .. BLOCK_SZ - 1
        /\ index' \in 0 .. blocks' /\ offset' \in 0 .. BLOCK_SZ - 1
        /\ isfirst' \in {0, 1} /\ head' \in Nat
    BY <2>3, <2>4
  <2>8. arg' \in 0 .. NFiles
        /\ overtaken' \in BOOLEAN
    BY <1>2, <2>4
  <2> QED
    BY <1>1, <2>3, <2>4, <2>6, <2>7, <2>8
<1>b. CASE FopenOverrun \/ FreadEof \/ FreadSpin \/ MainExit
  BY <1>1, <1>2, <1>b DEF FopenOverrun, FreadEof, FreadSpin, MainExit
<1>m. CASE FopenFileFails
  <2>1. fds' \in 0 .. FdLimit
    BY <1>2, <1>m DEF FopenFileFails
  <2> QED
    BY <1>1, <1>2, <1>m, <2>1 DEF FopenFileFails
<1>n. CASE CatBuffer
  <2>1. arg < NFiles
    BY <1>2, <1>n DEF CatBuffer, PhaseInv, Opening
  <2>2. arg' \in 0 .. NFiles /\ pc' \in {"crashed", "fread", "main"}
    BY <1>2, <1>n, <2>1 DEF CatBuffer
  <2> QED
    BY <1>1, <1>2, <1>n, <2>2 DEF CatBuffer
<1>c. CASE FopenSubmit
  BY <1>1, <1>2, <1>c DEF FopenSubmit
<1>d. CASE FopenCheckFlags
  BY <1>1, <1>2, <1>d DEF FopenCheckFlags
<1>e. CASE FopenEnter
  BY <1>1, <1>2, <1>e DEF FopenEnter
<1>f. CASE FreadBegin
  <2>1. cqHead \in Nat
    BY <1>2, Types
  <2> QED
    BY <1>1, <1>2, <1>f, <2>1 DEF FreadBegin
<1>g. CASE FreadStop
  BY <1>1, <1>2, <1>g DEF FreadStop
<1>h. CASE FreadCopy
  <2>1. /\ index' \in 0 .. blocks /\ offset' \in 0 .. BLOCK_SZ - 1
        /\ head' \in Nat /\ Len(chunk') <= CHUNK
    BY <1>h, CopyMoves DEF IInv
  <2>2. chunk' \in Seq(Nat \cup {Stale})
    BY <1>h, CopiedBytes DEF Bytes
  <2>3. pc' \in {"copy", "return"} /\ isfirst' = 1
        /\ UNCHANGED <<fileVars, curBlock, curOffset, out, overtaken>>
    BY <1>h DEF FreadCopy
  <2> QED
    BY <1>1, <1>2, <2>1, <2>2, <2>3
<1>i. CASE FreadReturn
  BY <1>1, <1>2, <1>i DEF FreadReturn, SavedOffset
<1>j. CASE CatWrite
  <2>1. out' = out \o chunk /\ chunk' = <<>>
    BY <1>j DEF CatWrite
  <2>2. out' \in Seq(Nat \cup {Stale}) /\ chunk' \in Seq(Nat \cup {Stale})
        /\ Len(chunk') <= CHUNK
    BY <1>2, <2>1, EmptySeq, ConcatProperties
  <2>3. pc' = "fread" /\ UNCHANGED <<fileVars, posVars, index, offset, head,
                                     overtaken>>
    BY <1>j DEF CatWrite
  <2> QED
    BY <1>1, <1>2, <2>2, <2>3
<1>k. CASE CatEnd
  <2>1. arg < NFiles
    BY <1>2, <1>k DEF CatEnd, PhaseInv
  <2> QED
    BY <1>1, <1>2, <1>k, <2>1 DEF CatEnd
<1>l. CASE UNCHANGED appVars
  BY <1>1, <1>2, <1>l DEF appVars
<1> QED
  BY <1>a, <1>b, <1>c, <1>d, <1>e, <1>f, <1>g, <1>h, <1>i, <1>j, <1>k, <1>l,
     <1>m, <1>n
  DEF Next, App, FreadSpinning, Exited, Kernel, vars

(* The program's place and the ring's progress stay in step. *)
LEMMA PhaseStep ==
  ASSUME IInv, [Next]_vars
  PROVE  PhaseInv'
<1> USE DEF Opening, Sent, InCat, Ended, fileVars, posVars, callVars
<1>0. TypeOK /\ RingTypeOK /\ RingInv /\ PhaseInv /\ PositionInv
      /\ isfirst \in {0, 1}
  BY Types DEF IInv
<1>a. CASE FopenFile
  BY <1>0, <1>a DEF FopenFile, SetupRing, RingSetup, RingReset, PhaseInv
<1>b. CASE FopenFileFails \/ FopenOverrun \/ CatEnd \/ MainExit
  BY <1>0, <1>b DEF FopenFileFails, FopenOverrun, CatEnd, MainExit, PhaseInv
<1>c. CASE FopenSubmit
  BY <1>0, <1>c DEF FopenSubmit, StoreTail, PhaseInv
<1>d. CASE FopenCheckFlags
  BY <1>0, <1>d DEF FopenCheckFlags, PhaseInv, ringVars, entryVars, cqVars
<1>e. CASE FopenEnter
  BY <1>0, <1>e DEF FopenEnter, WakePoller, PhaseInv, ringVars, entryVars, cqVars
<1>o. CASE CatBuffer
  BY <1>0, <1>o DEF CatBuffer, PhaseInv, ringVars, entryVars, cqVars
<1>f. CASE FreadEof
  BY <1>0, <1>f DEF FreadEof, PhaseInv, ringVars, entryVars, cqVars
<1>g. CASE FreadBegin
  BY <1>0, <1>g DEF FreadBegin, PhaseInv, ringVars, entryVars, cqVars
<1>h. CASE FreadSpin
  <2>1. head = 0
    BY <1>0, <1>h DEF FreadSpin, PhaseInv, PositionInv
  <2>2. cqTail # 0
    BY <1>h, <2>1 DEF FreadSpin, Completed
  <2>3. cqTail = 1
    BY <1>0, <2>2, RingNumbers DEF RingInv
  <2> QED
    BY <1>0, <1>h, <2>3 DEF FreadSpin, PhaseInv, ringVars, entryVars, cqVars
<1>i. CASE FreadStop
  BY <1>0, <1>i DEF FreadStop, PhaseInv, ringVars, entryVars, cqVars
<1>j. CASE FreadCopy
  <2>1. /\ pc = "copy" /\ pc' \in {"copy", "return"} /\ isfirst' = 1
        /\ UNCHANGED <<sqTail, want, size, cqTail, arg>>
    BY <1>j DEF FreadCopy, ringVars, entryVars, cqVars
  <2> QED
    BY <1>0, <2>1 DEF PhaseInv
<1>k. CASE FreadReturn
  BY <1>0, <1>k DEF FreadReturn, PhaseInv, entryVars
<1>l. CASE CatWrite
  BY <1>0, <1>l DEF CatWrite, PhaseInv, ringVars, entryVars, cqVars
<1>m. CASE Kernel
  <2>1. UNCHANGED <<pc, arg, size, isfirst>>
    BY <1>m DEF Kernel, appVars
  <2>2. /\ UNCHANGED <<sqTail, want>>
        /\ cqTail = 1 => cqTail' = 1
    BY <1>0, <1>m, KernelLeaves DEF Kernel
  <2> QED
    BY <1>0, <2>1, <2>2 DEF PhaseInv
<1>n. CASE UNCHANGED vars
  BY <1>0, <1>n DEF PhaseInv, vars, appVars, ringVars, entryVars, cqVars
<1> QED
  BY <1>a, <1>b, <1>c, <1>d, <1>e, <1>f, <1>g, <1>h, <1>i, <1>j, <1>k, <1>l,
     <1>m, <1>n, <1>o
  DEF Next, App, FreadSpinning, Exited

(* The open file's blocks are those of its size. *)
LEMMA BlockStep ==
  ASSUME IInv, [Next]_vars
  PROVE  BlockInv'
<1> USE DEF Opening, InCat, Ended, fileVars
<1>0. BlockInv
  BY DEF IInv
<1>1. CASE FopenFile
  <2>1. PICK n \in Sizes : /\ n <= BlockCount(n) * BLOCK_SZ
                            /\ size' = n /\ blocks' = BlockCount(n)
    BY <1>1 DEF FopenFile
  <2>2. n \in Nat
    BY EarlyCatAssumption
  <2> QED
    BY <2>1, <2>2, CountThatHolds DEF BlockInv
<1>2. CASE FopenFileFails \/ FopenOverrun \/ CatEnd \/ MainExit
  BY <1>2 DEF FopenFileFails, FopenOverrun, CatEnd, MainExit, BlockInv
<1>3. CASE \/ FopenSubmit \/ FopenCheckFlags \/ FopenEnter \/ CatBuffer
           \/ FreadEof \/ FreadBegin \/ FreadSpin \/ FreadStop \/ FreadReturn
           \/ CatWrite
  BY <1>0, <1>3 DEF FopenSubmit, FopenCheckFlags, FopenEnter, CatBuffer, FreadEof,
       FreadBegin, FreadSpin, FreadStop, FreadReturn, CatWrite, BlockInv
<1>4. CASE FreadCopy
  BY <1>0, <1>4 DEF FreadCopy, BlockInv
<1>5. CASE UNCHANGED appVars
  BY <1>0, <1>5 DEF BlockInv, appVars
<1> QED
  BY <1>1, <1>2, <1>3, <1>4, <1>5
  DEF Next, App, FreadSpinning, Exited, Kernel, vars

(* Every byte moves the position by one, in a call or between calls. *)
LEMMA PositionStep ==
  ASSUME IInv, [Next]_vars
  PROVE  PositionInv'
<1> USE DEF Opening, InCat, Ended, fileVars, posVars, callVars
<1>0. /\ TypeOK /\ RingTypeOK /\ RingInv /\ PhaseInv /\ PositionInv
      /\ Len(chunk) \in Nat /\ Len(out) \in Nat /\ cqRes \in Int
      /\ isfirst \in {0, 1} /\ CHUNK \in Nat \ {0}
      /\ curBlock \in Nat /\ curBlock <= blocks /\ blocks \in Nat
  BY Types DEF IInv
<1>a. CASE FopenFile
  <2>1. /\ pc' = "submit" /\ out' = <<>> /\ chunk' = <<>> /\ cqHead' = 0
        /\ curBlock' = 0 /\ curOffset' = 0
    BY <1>a DEF FopenFile, SetupRing, RingSetup, RingReset
  <2> QED
    BY <2>1 DEF PositionInv
<1>b. CASE FopenFileFails \/ FopenOverrun \/ CatEnd \/ MainExit
  BY <1>b DEF FopenFileFails, FopenOverrun, CatEnd, MainExit, PositionInv
<1>c. CASE FopenSubmit
  BY <1>0, <1>c DEF FopenSubmit, StoreTail, cqVars, PhaseInv, PositionInv
<1>n. CASE CatBuffer /\ pc = "null"
  BY <1>n DEF CatBuffer, PositionInv
<1>d. CASE FopenCheckFlags \/ FopenEnter \/ (CatBuffer /\ pc = "buffer")
  <2>1. /\ out = <<>> /\ chunk = <<>> /\ cqHead = 0
        /\ curBlock = 0 /\ curOffset = 0 /\ isfirst = 0
    BY <1>0, <1>d DEF FopenCheckFlags, FopenEnter, PhaseInv, PositionInv
  <2>2. /\ UNCHANGED <<out, chunk, cqHead, curBlock, curOffset, isfirst, blocks>>
        /\ pc' \in {"enter", "buffer", "null", "fread", "main"}
    BY <1>d DEF FopenCheckFlags, FopenEnter, CatBuffer, WakePoller, ringVars,
       cqVars
  <2>3. Len(out) = 0 /\ Len(out) = curBlock * BLOCK_SZ + curOffset
    BY <2>1, BlocksAssumption
  <2> QED
    BY <2>1, <2>2, <2>3 DEF PositionInv
<1>e. CASE FreadEof
  <2>1. /\ pc = "fread" /\ curBlock >= blocks /\ pc' = "end"
        /\ UNCHANGED <<out, chunk, isfirst, curBlock, curOffset, cqHead, cqRes,
                       blocks>>
    BY <1>e DEF FreadEof, ringVars, cqVars
  <2>2. chunk = <<>> /\ Len(out) = curBlock * BLOCK_SZ + curOffset
        /\ (curBlock = blocks => curOffset = 0)
    BY <1>0, <2>1 DEF PositionInv
  <2>3. curBlock = blocks /\ curOffset = 0
    BY <1>0, <2>1, <2>2
  <2>4. Len(out) = blocks * BLOCK_SZ
    BY <1>0, <2>2, <2>3, BlocksAssumption
  <2>5. isfirst = 0 => blocks = 0
    BY <1>0, <2>1, <2>3 DEF PositionInv
  <2> QED
    BY <1>0, <2>1, <2>2, <2>4, <2>5 DEF PositionInv
<1>f. CASE FreadBegin
  <2>1. /\ pc = "fread" /\ curBlock < blocks
        /\ pc' = IF isfirst = 0 THEN "spin" ELSE "copy"
        /\ index' = curBlock /\ offset' = curOffset /\ head' = cqHead
        /\ UNCHANGED <<out, chunk, isfirst, curBlock, curOffset, cqHead, cqRes,
                       blocks>>
    BY <1>f DEF FreadBegin, ringVars, cqVars
  <2>2. chunk = <<>> /\ Len(out) = curBlock * BLOCK_SZ + curOffset
        /\ (cqRes < 0 => isfirst = 0) /\ (isfirst = 0 => cqHead = 0)
    BY <1>0, <2>1 DEF PositionInv
  <2>3. Len(chunk) = 0 /\ Len(out) + Len(chunk) = Len(out)
    BY <1>0, <2>2
  <2> QED
    BY <1>0, <2>1, <2>2, <2>3 DEF PositionInv
<1>g. CASE FreadSpin
  BY <1>0, <1>g DEF FreadSpin, ringVars, cqVars, PhaseInv, PositionInv
<1>h. CASE FreadStop
  <2>1. /\ pc = "copy" /\ isfirst = 0 /\ cqRes < 0 /\ isfirst' = 1 /\ pc' = "return"
        /\ UNCHANGED <<out, chunk, curBlock, curOffset, index, offset, head,
                       cqHead, cqRes, blocks>>
    BY <1>h DEF FreadStop, ringVars, cqVars
  <2>2. ~(cqRes >= 0)
    BY <1>0, <2>1
  <2> QED
    BY <1>0, <2>1, <2>2 DEF PositionInv
<1>i. CASE FreadCopy
  <2>1. /\ pc = "copy" /\ isfirst' = 1 /\ pc' \in {"copy", "return"}
        /\ isfirst = 1 \/ cqRes >= 0
        /\ UNCHANGED <<out, curBlock, curOffset, cqHead, cqRes, blocks>>
    BY <1>i DEF FreadCopy, ringVars, cqVars
  <2>2. ~(cqRes < 0)
    BY <1>0, <2>1 DEF PositionInv
  <2>3. curBlock = blocks => curOffset = 0
    BY <1>0, <2>1 DEF PositionInv
  <2> QED
    BY <1>i, <2>1, <2>2, <2>3, CopyMoves DEF PositionInv
<1>j. CASE FreadReturn
  <2>1. /\ pc = "return" /\ curBlock' = index /\ curOffset' = offset
        /\ pc' = IF chunk = <<>> THEN "end" ELSE "write"
        /\ UNCHANGED <<out, chunk, isfirst, cqRes, blocks>>
    BY <1>j DEF FreadReturn, SavedOffset
  <2>2. isfirst = 1
    BY <1>0, <2>1 DEF PhaseInv
  <2> QED
    BY <1>0, <2>1, <2>2 DEF PositionInv
<1>k. CASE CatWrite
  <2>1. /\ pc = "write" /\ pc' = "fread" /\ out' = out \o chunk /\ chunk' = <<>>
        /\ UNCHANGED <<isfirst, curBlock, curOffset, cqRes, blocks>>
    BY <1>k DEF CatWrite, ringVars, cqVars
  <2>2. Len(out') = Len(out) + Len(chunk)
    BY <1>0, <2>1, ConcatProperties, Types
  <2>3. isfirst = 1
    BY <1>0, <2>1 DEF PhaseInv
  <2> QED
    BY <1>0, <2>1, <2>2, <2>3 DEF PositionInv
<1>l. CASE Kernel
  <2>1. UNCHANGED <<pc, out, chunk, isfirst, curBlock, curOffset, index, offset,
                    head, blocks>>
    BY <1>l DEF Kernel, appVars
  <2>2. /\ UNCHANGED cqHead
        /\ pc \in InCat /\ (isfirst = 1 \/ pc = "copy") => UNCHANGED cqRes
    BY <1>0, <1>l, KernelLeaves DEF Kernel, PhaseInv
  <2>3. CASE isfirst = 1 \/ pc = "copy"
    BY <1>0, <2>1, <2>2, <2>3 DEF PositionInv
  <2>4. CASE isfirst = 0 /\ pc # "copy"
    <3>1. pc \notin {"return", "write"}
      BY <1>0, <2>4 DEF PhaseInv
    <3>2. pc = "end" => Len(out) = blocks * BLOCK_SZ
      BY <1>0, <2>4 DEF PositionInv
    <3> QED
      BY <1>0, <2>1, <2>2, <2>4, <3>1, <3>2 DEF PositionInv
  <2> QED
    BY <1>0, <2>3, <2>4
<1>m. CASE UNCHANGED vars
  BY <1>0, <1>m DEF PositionInv, vars, appVars, ringVars, cqVars
<1> QED
  BY <1>a, <1>b, <1>c, <1>d, <1>e, <1>f, <1>g, <1>h, <1>i, <1>j, <1>k, <1>l,
     <1>m, <1>n DEF Next, App, FreadSpinning, Exited, CatBuffer

(* A byte of the buffers that has been handed over does not change. *)
LEMMA BytesStay ==
  ASSUME IInv, [Next]_vars, pc \in InCat, pc' \in InCat, Delivered # <<>>
  PROVE  /\ UNCHANGED filled
         /\ \A p : ByteAt(p)' = ByteAt(p)
<1> USE DEF InCat, Ended
<1>0. /\ RingTypeOK /\ RingInv /\ PhaseInv /\ PositionInv /\ isfirst \in {0, 1}
      /\ out \in Seq(Bytes) /\ chunk \in Seq(Bytes)
  BY Types DEF IInv
<1>1. isfirst = 1
  <2>1. ~(out = <<>> /\ chunk = <<>>)
    BY DEF Delivered
  <2> QED
    BY <1>0, <2>1 DEF PositionInv
<1>2. UNCHANGED filled
  <2>1. CASE Kernel
    BY <1>0, <1>1, <2>1, KernelLeaves DEF Kernel, PhaseInv
  <2>2. CASE \/ FreadEof \/ FreadBegin \/ FreadSpin \/ FreadStop \/ FreadCopy
             \/ FreadReturn \/ CatWrite \/ UNCHANGED vars
    BY <2>2 DEF FreadEof, FreadBegin, FreadSpin, FreadStop, FreadCopy,
       FreadReturn, CatWrite, vars, ringVars
  <2>3. CASE \/ FopenFile \/ FopenFileFails \/ FopenOverrun \/ FopenSubmit
             \/ FopenCheckFlags \/ FopenEnter \/ CatBuffer \/ CatEnd \/ MainExit
    BY <2>3 DEF FopenFile, FopenFileFails, FopenOverrun, FopenSubmit,
       FopenCheckFlags, FopenEnter, CatBuffer, CatEnd, MainExit
  <2> QED
    BY <2>1, <2>2, <2>3 DEF Next, App, FreadSpinning, Exited
<1> QED
  BY <1>2 DEF ByteAt

(* The steps after which cat has its my_file. *)
LEMMA InCatSteps ==
  ASSUME [Next]_vars, pc' \in InCat
  PROVE  \/ CatBuffer /\ pc = "buffer"
         \/ pc \in InCat /\ \/ FreadEof \/ FreadBegin \/ FreadSpin \/ FreadStop
                            \/ FreadCopy \/ FreadReturn \/ CatWrite
         \/ Kernel \/ UNCHANGED vars
<1> USE DEF InCat, Ended
<1>1. CASE \/ FopenFile \/ FopenFileFails \/ FopenOverrun \/ FopenSubmit
           \/ FopenCheckFlags \/ FopenEnter \/ CatEnd \/ MainExit
  BY <1>1 DEF FopenFile, FopenFileFails, FopenOverrun, FopenSubmit,
     FopenCheckFlags, FopenEnter, CatEnd, MainExit
<1>3. CASE CatBuffer
  BY <1>3 DEF CatBuffer
<1>2. CASE \/ FreadEof \/ FreadBegin \/ FreadSpin \/ FreadStop
           \/ FreadCopy \/ FreadReturn \/ CatWrite
  <2>1. pc \in InCat
    BY <1>2 DEF FreadEof, FreadBegin, FreadSpin, FreadStop, FreadCopy,
       FreadReturn, CatWrite
  <2> QED
    BY <1>2, <2>1
<1> QED
  BY <1>1, <1>2, <1>3 DEF Next, App, FreadSpinning, Exited

(* What has been handed over stays what the buffers hold, in order. *)
LEMMA DeliveredStep ==
  ASSUME IInv, [Next]_vars
  PROVE  DeliveredInv'
<1> USE DEF InCat, Ended, Opening, callVars
<1>0. /\ TypeOK /\ PhaseInv /\ PositionInv /\ DeliveredInv
      /\ out \in Seq(Bytes) /\ chunk \in Seq(Bytes)
      /\ Len(chunk) \in Nat /\ Len(out) \in Nat
  BY Types DEF IInv
<1> SUFFICES ASSUME pc' \in InCat
             PROVE  \A k \in 1 .. Len(Delivered') : Delivered'[k] = ByteAt(k - 1)'
  BY DEF DeliveredInv
<1>1. CASE CatBuffer /\ pc = "buffer"
  <2>1. out' = <<>> /\ chunk' = <<>>
    BY <1>0, <1>1 DEF CatBuffer, PhaseInv, PositionInv
  <2>2. Len(Delivered') = 0
    BY <2>1 DEF Delivered
  <2> QED
    BY <2>2
<1>2. CASE pc \in InCat /\ Delivered' = Delivered
  <2>1. CASE Delivered = <<>>
    BY <1>2, <2>1
  <2>2. CASE Delivered # <<>>
    <3>1. \A k \in 1 .. Len(Delivered) : Delivered[k] = ByteAt(k - 1)
      BY <1>0, <1>2 DEF DeliveredInv
    <3>2. \A p : ByteAt(p)' = ByteAt(p)
      BY <1>2, <2>2, BytesStay
    <3> QED
      BY <1>2, <3>1, <3>2
  <2> QED
    BY <2>1, <2>2
<1>3. CASE FreadCopy
  <2>1. /\ pc = "copy" /\ filled' = filled
        /\ out' = out /\ chunk' \in Seq(Bytes)
        /\ Len(chunk') = Len(chunk) + ToCopy
        /\ \A k \in 1 .. Len(chunk') :
             chunk'[k] = IF k <= Len(chunk) THEN chunk[k]
                         ELSE ByteAt(CopyFrom + k - Len(chunk) - 1)
    BY <1>3, CopiedBytes DEF FreadCopy, ringVars
  <2>2. \A p : ByteAt(p)' = ByteAt(p)
    BY <2>1 DEF ByteAt
  <2>3. \A k \in 1 .. Len(Delivered) : Delivered[k] = ByteAt(k - 1)
    BY <1>0, <2>1 DEF DeliveredInv
  <2>4. ToCopy \in Nat /\ CopyFrom = Len(out) + Len(chunk)
    BY <2>1, CopyBounds
  <2>5. Delivered' = out \o chunk'
    BY <2>1 DEF Delivered
  <2>6. /\ Len(Delivered) = Len(out) + Len(chunk)
        /\ \A k \in 1 .. Len(out) + Len(chunk) :
             Delivered[k] = IF k <= Len(out) THEN out[k] ELSE chunk[k - Len(out)]
    BY <1>0, ConcatProperties DEF Delivered
  <2>7. /\ Len(Delivered') = Len(out) + Len(chunk')
        /\ \A k \in 1 .. Len(out) + Len(chunk') :
             Delivered'[k] = IF k <= Len(out) THEN out[k] ELSE chunk'[k - Len(out)]
    BY <1>0, <2>1, <2>5, ConcatProperties
  <2> SUFFICES ASSUME NEW k \in 1 .. Len(Delivered')
               PROVE  Delivered'[k] = ByteAt(k - 1)
    BY <2>2
  <2>8. CASE k <= Len(Delivered)
    <3>1. k \in 1 .. Len(Delivered)
      BY <1>0, <2>1, <2>4, <2>6, <2>7, <2>8
    <3>2. CASE k <= Len(out)
      BY <2>3, <2>6, <2>7, <3>1, <3>2
    <3>3. CASE ~(k <= Len(out))
      <4>1. k - Len(out) \in 1 .. Len(chunk)
        BY <1>0, <2>6, <3>1, <3>3
      <4>2. k - Len(out) \in 1 .. Len(chunk')
        BY <1>0, <2>1, <2>4, <4>1
      <4>3. chunk'[k - Len(out)] = chunk[k - Len(out)]
        BY <2>1, <4>1, <4>2
      <4> QED
        BY <2>3, <2>6, <2>7, <3>1, <3>3, <4>3
    <3> QED
      BY <3>2, <3>3
  <2>9. CASE k > Len(Delivered)
    <3>1. /\ k - Len(out) \in 1 .. Len(chunk') /\ k - Len(out) > Len(chunk)
          /\ CopyFrom + (k - Len(out)) - Len(chunk) - 1 = k - 1
      BY <1>0, <2>1, <2>4, <2>6, <2>7, <2>9
    <3>2. ~(k <= Len(out)) /\ k \in 1 .. Len(out) + Len(chunk')
      BY <1>0, <2>1, <2>4, <2>6, <2>7, <2>9
    <3>3. Delivered'[k] = chunk'[k - Len(out)]
      BY <2>7, <3>2
    <3>4. chunk'[k - Len(out)]
            = ByteAt(CopyFrom + (k - Len(out)) - Len(chunk) - 1)
      BY <1>0, <2>1, <3>1
    <3> QED
      BY <3>1, <3>3, <3>4
  <2> QED
    BY <1>0, <2>1, <2>4, <2>6, <2>7, <2>8, <2>9
<1>4. CASE pc \in InCat /\ CatWrite
  <2>1. out' = out \o chunk /\ chunk' = <<>>
    BY <1>4 DEF CatWrite
  <2>2. Delivered' = Delivered
    BY <1>0, <2>1, ConcatProperties, ConcatEmptySeq DEF Delivered
  <2> QED
    BY <1>2, <1>4, <2>2
<1>5. CASE pc \in InCat /\ (FreadEof \/ FreadBegin \/ FreadSpin \/ FreadStop
                           \/ FreadReturn)
  BY <1>2, <1>5 DEF FreadEof, FreadBegin, FreadSpin, FreadStop, FreadReturn,
     Delivered
<1>6. CASE Kernel \/ UNCHANGED vars
  BY <1>2, <1>6 DEF Kernel, vars, appVars, Delivered
<1> QED
  BY <1>1, <1>3, <1>4, <1>5, <1>6, InCatSteps

-----------------------------------------------------------------------------
(* The invariant holds when main starts. *)
LEMMA InitIInv ==
  ASSUME Init
  PROVE  IInv
<1> USE EarlyCatAssumption, BlocksAssumption DEF Init, RingInit
<1>1. RingTypeOK /\ RingInv
  BY DEF RingTypeOK, RingInv, PollerStates, Error
<1>2. TypeOK
  <2>1. chunk \in Seq(Nat \cup {Stale}) /\ out \in Seq(Nat \cup {Stale})
        /\ Len(chunk) <= CHUNK
    BY EmptySeq
  <2>2. /\ arg \in 0 .. NFiles /\ fds \in 0 .. FdLimit
        /\ size \in Nat /\ blocks \in Nat /\ head \in Nat
        /\ curBlock \in 0 .. blocks /\ curOffset \in 0 .. BLOCK_SZ - 1
        /\ index \in 0 .. blocks /\ offset \in 0 .. BLOCK_SZ - 1
        /\ isfirst \in {0, 1}
    OBVIOUS
  <2>3. overtaken \in BOOLEAN
    OBVIOUS
  <2> QED
    BY <1>1, <2>1, <2>2, <2>3 DEF TypeOK
<1>3. PhaseInv /\ BlockInv /\ PositionInv /\ DeliveredInv
  BY DEF PhaseInv, BlockInv, PositionInv, DeliveredInv, Opening, Sent, InCat
<1> QED
  BY <1>1, <1>2, <1>3 DEF IInv

(* IInv is an invariant. *)
THEOREM Invariance == Spec => []IInv
<1>1. Init => IInv
  BY InitIInv
<1>2. IInv /\ [Next]_vars => IInv'
  BY TypeStep, RingStep, PhaseStep, BlockStep, PositionStep, DeliveredStep
  DEF IInv
<1> QED
  BY <1>1, <1>2, PTL DEF Spec

(* TypeOK holds: in particular the positions in mf and in my_fread stay      *)
(* inside the file's blocks.                                               *)
THEOREM TypeCorrect == Spec => []TypeOK
<1>1. IInv => TypeOK
  BY DEF IInv
<1> QED
  BY <1>1, Invariance, PTL

(* Although my_fopen does not wait, nothing is handed over before the read   *)
(* is complete: every byte of it is the buffers', once and in order         *)
(* (io_uring_read.c:318-380).                                              *)
THEOREM AlwaysDeliveredAfterCompletion == Spec => []DeliveredAfterCompletion
<1>1. ASSUME IInv PROVE DeliveredAfterCompletion
  <2> SUFFICES ASSUME Delivered # <<>>, pc \in InCat
               PROVE  /\ ~InFlight
                      /\ \A k \in 1 .. Len(Delivered) : Delivered[k] = ByteAt(k - 1)
    BY DEF DeliveredAfterCompletion
  <2>1. ~(out = <<>> /\ chunk = <<>>)
    BY DEF Delivered
  <2>2. isfirst = 1
    BY <1>1, <2>1, Types DEF IInv, PositionInv
  <2>3. cqTail = 1 /\ RingTypeOK /\ RingInv
    BY <1>1, <2>2, Types DEF IInv, PhaseInv
  <2>4. ~InFlight
    BY <2>3, CompletedIsOver
  <2> QED
    BY <1>1, <2>4 DEF IInv, DeliveredInv
<1> QED
  BY <1>1, Invariance, PTL

-----------------------------------------------------------------------------
(* Told of the poller's sleep in time, the program is in cat with the poller *)
(* awake until the entry is taken.                                         *)
WakeInv ==
  /\ pc \in Opening => poller # "none"
  /\ pc \in {"buffer"} \cup InCat /\ Submitted /\ ~overtaken =>
       sqSeen = sqTail /\ poller = "polling"

LEMMA WakeStep ==
  ASSUME IInv, WakeInv, [Next]_vars
  PROVE  WakeInv'
<1> USE DEF Opening, InCat, Submitted, IInv
<1>0. RingTypeOK /\ RingInv /\ PhaseInv
  BY Types
<1>1. CASE FopenFile \/ FopenFileFails \/ FopenOverrun \/ CatEnd \/ MainExit
  BY <1>1 DEF FopenFile, FopenFileFails, FopenOverrun, CatEnd, MainExit,
     SetupRing, RingSetup, RingReset, WakeInv, Ended
<1>8. CASE CatBuffer
  BY <1>8 DEF CatBuffer, WakeInv, ringVars, Ended
<1>2. CASE FopenSubmit
  BY <1>2 DEF FopenSubmit, StoreTail, WakeInv
<1>3. CASE FopenCheckFlags
  <2>1. /\ pc = "flags" /\ UNCHANGED <<sqTail, sqSeen, sqHead, poller>>
        /\ pc' = IF NeedWakeup THEN "enter" ELSE "buffer"
        /\ overtaken' = (~NeedWakeup /\ sqSeen # sqTail)
    BY <1>3 DEF FopenCheckFlags, ringVars
  <2>2. poller # "none" /\ poller \in PollerStates
    BY <1>0, <2>1 DEF WakeInv, RingTypeOK
  <2>3. ~NeedWakeup => poller = "polling"
    BY <2>2 DEF NeedWakeup, PollerStates
  <2> QED
    BY <2>1, <2>2, <2>3 DEF WakeInv
<1>4. CASE FopenEnter
  BY <1>4 DEF FopenEnter, WakePoller, WakeInv
<1>5. CASE \/ FreadEof \/ FreadBegin \/ FreadSpin \/ FreadStop \/ FreadCopy
           \/ FreadReturn \/ CatWrite
  <2>1. pc \in InCat /\ pc' \notin Opening
        /\ UNCHANGED <<sqTail, sqSeen, sqHead, poller, overtaken>>
    BY <1>5 DEF FreadEof, FreadBegin, FreadSpin, FreadStop, FreadCopy, FreadReturn,
       CatWrite, ringVars
  <2> QED
    BY <2>1 DEF WakeInv
<1>6. CASE Kernel
  <2>1. UNCHANGED <<pc, overtaken>> /\ KernelStep
    BY <1>6 DEF Kernel, appVars
  <2>2. sqTail' = sqTail /\ (Submitted' => Submitted)
        /\ (poller # "none" => poller' # "none")
    BY <1>0, <2>1, KernelLeaves
  <2>3. ASSUME pc \in {"buffer"} \cup InCat, Submitted, ~overtaken, Submitted'
        PROVE  sqSeen' = sqTail' /\ poller' = "polling"
    <3>1. sqSeen = sqTail /\ poller = "polling" /\ sqSeen # sqHead
      BY <2>3 DEF WakeInv
    <3> QED
      BY <2>1, <3>1 DEF KernelStep, Drain, PollerFetch, PollerAnnounce,
         PollerRecheck, ReadProgress, PostCompletion
  <2> QED
    BY <2>1, <2>2, <2>3 DEF WakeInv
<1>7. CASE UNCHANGED vars
  BY <1>7 DEF vars, appVars, ringVars, WakeInv
<1> QED
  BY <1>1, <1>2, <1>3, <1>4, <1>5, <1>6, <1>7, <1>8
  DEF Next, App, FreadSpinning, Exited

(* The wait of the first my_fread is for a read that is under way, or for an *)
(* entry that an awake poller sees; or the flags were read while the tail   *)
(* was still in the store buffer (io_uring_read.c:285-296, 318-322).        *)
NoSpinForNothing ==
  pc = "spin" /\ ~Completed =>
    \/ Running
    \/ Submitted /\ poller = "polling" /\ sqSeen = sqTail
    \/ Submitted /\ overtaken

(* The safety half of EndsUnlessWakeupLost: a wake-up is lost in no other    *)
(* way than in my_cat, although the wait comes later.                      *)
THEOREM NeverSpinsForNothing == Spec => []NoSpinForNothing
<1>1. Init => WakeInv
  BY DEF Init, WakeInv, Opening, InCat
<1>2. ASSUME IInv, WakeInv PROVE NoSpinForNothing
  <2> SUFFICES ASSUME pc = "spin", head = cqTail
               PROVE  \/ Running
                      \/ Submitted /\ poller = "polling" /\ sqSeen = sqTail
                      \/ Submitted /\ overtaken
    BY DEF NoSpinForNothing, Completed
  <2>1. isfirst = 0 /\ sqTail = 1
    BY <1>2 DEF IInv, PhaseInv, Sent, InCat
  <2>2. cqTail = 0
    BY <1>2, <2>1 DEF IInv, PositionInv, InCat
  <2>3. Running \/ Submitted
    BY <2>1, <2>2 DEF Running, Submitted
  <2> QED
    BY <1>2, <2>3 DEF WakeInv, InCat
<1> QED
  BY <1>1, <1>2, WakeStep, Invariance, PTL DEF Spec

-----------------------------------------------------------------------------
(* The earlier version implements FileStream. *)

(* A file without a byte has an empty stream, completed or not. *)
LEMMA EmptyImage ==
  ASSUME blocks = 0
  PROVE  Image = <<>>
<1>1. blocks * BLOCK_SZ = 0
  BY BlocksAssumption
<1> QED
  BY <1>1 DEF Image

(* The stream of a file whose read did not fail: all blocks, byte by byte. *)
LEMMA ImageFacts ==
  ASSUME TypeOK, ~(cqRes < 0)
  PROVE  /\ Image \in Seq(Bytes)
         /\ Len(Image) = blocks * BLOCK_SZ /\ Len(Image) \in Nat
         /\ \A i \in 1 .. Len(Image) : Image[i] = ByteAt(i - 1)
<1>1. blocks * BLOCK_SZ \in Nat
  <2>1. blocks \in Nat /\ BLOCK_SZ \in Nat
    BY Types
  <2> QED
    BY <2>1
<1>2. Image = [i \in 1 .. blocks * BLOCK_SZ |-> ByteAt(i - 1)]
  BY DEF Image
<1>3. ASSUME NEW i \in 1 .. blocks * BLOCK_SZ PROVE ByteAt(i - 1) \in Bytes
  BY <1>1, ByteAtType
<1> QED
  BY <1>1, <1>2, <1>3

(* The stream is nothing, or the file in whole blocks. *)
LEMMA ImageShape ==
  ASSUME IInv, pc \in InCat, cqTail = 1
  PROVE  /\ Image \in Seq(Nat \cup {Stale})
         /\ Image = <<>> \/ \E n \in Sizes : Stream!IsImage(Image, n)
<1>1. CASE cqRes < 0
  BY <1>1, EmptySeq DEF Image
<1>2. CASE ~(cqRes < 0)
  <2>1. /\ size \in Sizes /\ size \in Nat /\ blocks \in Nat
        /\ (blocks - 1) * BLOCK_SZ < size /\ size <= blocks * BLOCK_SZ
        /\ want = size /\ TypeOK /\ RingTypeOK /\ RingInv
        /\ BLOCK_SZ \in Nat \ {0}
    BY Types DEF IInv, BlockInv, PhaseInv, Sent
  <2>2. filled \in 0 .. size
    BY <2>1, CompletedIsOver
  <2>3. Len(Image) % BLOCK_SZ = 0
    BY <1>2, <2>1, ImageFacts, MultipleMod
  <2>4. size <= Len(Image) /\ Len(Image) < size + BLOCK_SZ
    <3>1. (blocks - 1) * BLOCK_SZ = blocks * BLOCK_SZ - BLOCK_SZ
          /\ blocks * BLOCK_SZ \in Nat
      BY <2>1
    <3> QED
      BY <1>2, <2>1, <3>1, ImageFacts
  <2>5. ASSUME NEW i \in 1 .. Len(Image)
        PROVE  IF i <= filled THEN Image[i] = i - 1 ELSE Image[i] \in {Stale}
    <3>1. Image[i] = ByteAt(i - 1)
      BY <1>2, <2>1, ImageFacts
    <3>2. i \in Nat /\ filled \in Nat
      BY <1>2, <2>1, <2>2, ImageFacts
    <3>3. i <= filled <=> i - 1 < filled
      BY <3>2
    <3> QED
      BY <3>1, <3>3 DEF ByteAt
  <2>6. Stream!IsImage(Image, size)
    BY <2>2, <2>3, <2>4, <2>5 DEF Stream!IsImage
  <2> QED
    BY <1>2, <2>1, <2>6, ImageFacts DEF Bytes
<1> QED
  BY <1>1, <1>2

(* What has been handed over is a prefix of the stream. *)
LEMMA DeliveredIsPrefix ==
  ASSUME IInv, pc \in {"write", "end"}, ~(cqRes < 0)
  PROVE  /\ Delivered \in Seq(Bytes) /\ Len(Delivered) = Len(out) + Len(chunk)
         /\ Len(Delivered) <= Len(Image)
         /\ \A k \in 1 .. Len(Delivered) : Delivered[k] = Image[k]
<1> USE DEF InCat
<1>1. /\ out \in Seq(Bytes) /\ chunk \in Seq(Bytes)
      /\ Len(out) \in Nat /\ Len(chunk) \in Nat /\ TypeOK
      /\ curBlock \in Nat /\ curBlock <= blocks /\ blocks \in Nat
      /\ curOffset \in 0 .. BLOCK_SZ - 1 /\ BLOCK_SZ \in Nat \ {0}
  BY Types DEF IInv
<1>2. Delivered \in Seq(Bytes) /\ Len(Delivered) = Len(out) + Len(chunk)
  BY <1>1, ConcatProperties DEF Delivered
<1>3. Len(Delivered) <= blocks * BLOCK_SZ
  <2>0. blocks * BLOCK_SZ \in Nat
    BY <1>1
  <2>1. CASE pc = "end"
    <3>1. chunk = <<>> /\ Len(out) = blocks * BLOCK_SZ
      BY <2>1 DEF IInv, PositionInv
    <3>2. Len(chunk) = 0
      BY <3>1
    <3> QED
      BY <1>1, <1>2, <2>0, <3>1, <3>2
  <2>2. CASE pc = "write"
    <3>1. Len(out) + Len(chunk) = curBlock * BLOCK_SZ + curOffset
          /\ (curBlock = blocks => curOffset = 0)
      BY <2>2 DEF IInv, PositionInv
    <3>2. CASE curBlock = blocks
      BY <1>2, <2>0, <3>1, <3>2
    <3>3. CASE curBlock < blocks
      <4>1. curOffset \in 0 .. BLOCK_SZ
        BY <1>1
      <4>2. curBlock * BLOCK_SZ + curOffset <= blocks * BLOCK_SZ
        BY <1>1, <3>3, <4>1, InsideBlocks
      <4> QED
        BY <1>2, <3>1, <4>2
    <3> QED
      BY <1>1, <3>2, <3>3
  <2> QED
    BY <2>1, <2>2
<1>4. Len(Delivered) <= Len(Image)
  BY <1>1, <1>3, ImageFacts
<1>5. ASSUME NEW k \in 1 .. Len(Delivered) PROVE Delivered[k] = Image[k]
  <2>1. k \in 1 .. Len(Image)
    BY <1>1, <1>2, <1>4, ImageFacts
  <2>2. Delivered[k] = ByteAt(k - 1)
    BY DEF IInv, DeliveredInv
  <2> QED
    BY <1>1, <2>1, <2>2, ImageFacts
<1> QED
  BY <1>2, <1>4, <1>5

(* What cat writes is the next piece of the stream. *)
LEMMA WriteSends ==
  ASSUME IInv, CatWrite
  PROVE  out # Image /\ out' = SubSeq(Image, 1, Stream!Piece)
<1> USE DEF InCat
<1>1. pc = "write" /\ out' = Delivered /\ isfirst = 1 /\ TypeOK
  BY DEF CatWrite, Delivered, IInv, PhaseInv
<1>2. /\ ~(cqRes < 0) /\ chunk # <<>> /\ Len(chunk) <= CHUNK
      /\ Len(out) + Len(chunk) = curBlock * BLOCK_SZ + curOffset
      /\ (Len(chunk) = CHUNK \/ curBlock = blocks)
      /\ (curBlock = blocks => curOffset = 0)
  BY <1>1, Types DEF IInv, PositionInv
<1>3. /\ Len(out) \in Nat /\ Len(chunk) \in Nat \ {0} /\ CHUNK \in Nat
      /\ blocks \in Nat
  BY <1>1, <1>2, Types
<1>4. /\ Delivered \in Seq(Bytes) /\ Len(Delivered) = Len(out) + Len(chunk)
      /\ Len(Delivered) <= Len(Image)
      /\ \A k \in 1 .. Len(Delivered) : Delivered[k] = Image[k]
      /\ Image \in Seq(Bytes) /\ Len(Image) \in Nat
      /\ Len(Image) = blocks * BLOCK_SZ
  BY <1>1, <1>2, DeliveredIsPrefix, ImageFacts
<1>5. Len(out) < Len(Image)
  BY <1>3, <1>4
<1>6. Streaming
  BY <1>1 DEF Streaming
<1>7. Stream!Piece = Len(Delivered)
  <2>1. Stream!Piece = IF Len(out) + CHUNK < Len(Image) THEN Len(out) + CHUNK
                       ELSE Len(Image)
    BY <1>6 DEF Stream!Piece
  <2>2. CASE Len(chunk) = CHUNK
    BY <1>3, <1>4, <2>1, <2>2
  <2>3. CASE curBlock = blocks
    <3>1. Len(Delivered) = Len(Image)
      BY <1>2, <1>3, <1>4, <2>3
    <3> QED
      BY <1>2, <1>3, <1>4, <2>1, <3>1
  <2> QED
    BY <1>2, <2>2, <2>3
<1>8. Delivered = SubSeq(Image, 1, Len(Delivered))
  <2> DEFINE front == SubSeq(Image, 1, Len(Delivered))
  <2>1. Len(Delivered) \in Nat
    BY <1>4
  <2>2. \A i \in 1 .. Len(Delivered) : Image[i] \in Bytes
    BY <1>4, <2>1, ElementOfSeq
  <2>3. front \in Seq(Bytes) /\ Len(front) = Len(Delivered)
        /\ \A i \in 1 .. Len(Delivered) : front[i] = Image[i]
    BY <1>4, <2>1, <2>2, SubSeqProperties
  <2> HIDE DEF front
  <2>4. Delivered = front
    BY <1>4, <2>3, SeqEqual
  <2> QED
    BY <2>4 DEF front
<1> QED
  BY <1>1, <1>5, <1>7, <1>8

(* When cat returns, it has all of it. *)
LEMMA EndAtEnd ==
  ASSUME IInv, pc = "end"
  PROVE  Streaming /\ out = Image
<1> USE DEF InCat
<1>1. TypeOK /\ PositionInv /\ isfirst \in {0, 1} /\ out \in Seq(Bytes)
      /\ blocks \in Nat
  BY Types DEF IInv
<1>2. Streaming
  BY <1>1 DEF Streaming, PositionInv
<1>3. CASE cqRes < 0
  <2>1. out = <<>>
    BY <1>1, <1>3 DEF PositionInv
  <2> QED
    BY <1>2, <1>3, <2>1 DEF Image
<1>4. CASE ~(cqRes < 0)
  <2>1. chunk = <<>> /\ Len(out) = blocks * BLOCK_SZ
    BY <1>1, <1>4 DEF PositionInv
  <2>2. Delivered = out
    BY <1>1, <2>1, ConcatEmptySeq DEF Delivered
  <2>3. /\ \A k \in 1 .. Len(out) : out[k] = Image[k]
        /\ Image \in Seq(Bytes) /\ Len(Image) = Len(out)
    BY <1>1, <1>4, <2>1, <2>2, DeliveredIsPrefix, ImageFacts
  <2> QED
    BY <1>1, <1>2, <2>3, SeqEqual
<1> QED
  BY <1>2, <1>3, <1>4

(* A stream starts when the wait of the first my_fread is over, or at once   *)
(* for a file without a byte; without cat's buffer the file is skipped.     *)
LEMMA StreamStarts ==
  ASSUME IInv, [Next]_vars, ~Streaming
  PROVE  /\ \/ arg' = arg
            \/ ~Streaming' /\ arg < NFiles /\ arg' = arg + 1
         /\ Streaming' =>
              /\ arg' = arg /\ arg < NFiles /\ out' = <<>>
              /\ Image' \in Seq(Nat \cup {Stale})
              /\ Image' = <<>> \/ \E n \in Sizes : Stream!IsImage(Image', n)
<1> USE DEF InCat, Ended, Opening, Streaming, fileVars, callVars
<1>0. /\ TypeOK /\ PhaseInv /\ PositionInv /\ isfirst \in {0, 1}
      /\ curBlock \in Nat /\ blocks \in Nat
  BY Types DEF IInv
<1>1. CASE CatBuffer /\ pc' = "fread"
  <2>1. /\ arg < NFiles /\ out = <<>> /\ isfirst = 0
    BY <1>0, <1>1 DEF CatBuffer, PhaseInv, PositionInv
  <2>2. /\ UNCHANGED <<arg, out, isfirst, blocks>> /\ pc' # "copy"
    BY <1>1 DEF CatBuffer, posVars
  <2>3. Streaming' => Image' = <<>>
    <3>1. Streaming' => blocks' * BLOCK_SZ = 0
      BY <2>1, <2>2, BlocksAssumption
    <3> QED
      BY <3>1 DEF Image
  <2> QED
    BY <2>1, <2>2, <2>3, EmptySeq
<1>2. CASE FreadSpin
  <2>1. /\ pc = "spin" /\ arg < NFiles /\ out = <<>> /\ isfirst = 0 /\ head = 0
    BY <1>0, <1>2 DEF FreadSpin, PhaseInv, PositionInv
  <2>2. cqTail = 1
    BY <2>1, <1>2, PhaseStep DEF FreadSpin, ringVars, cqVars, PhaseInv
  <2>3. /\ Image \in Seq(Nat \cup {Stale})
        /\ Image = <<>> \/ \E n \in Sizes : Stream!IsImage(Image, n)
    BY <2>1, <2>2, ImageShape
  <2>4. UNCHANGED <<arg, out, Image>>
    BY <1>2 DEF FreadSpin, ringVars, cqVars, Image, ByteAt
  <2> QED
    BY <2>1, <2>3, <2>4
<1>3. CASE pc \in InCat /\ \/ FreadEof \/ FreadBegin \/ FreadStop
                           \/ FreadCopy \/ FreadReturn \/ CatWrite \/ CatEnd
  <2>1. isfirst = 0 /\ pc # "copy" /\ blocks # 0
    BY <1>0, <1>3
  <2>2. pc \notin {"return", "write", "end"}
    BY <1>0, <2>1 DEF PhaseInv, PositionInv
  <2>3. ~FreadEof
    <3>1. curBlock = 0
      BY <1>0, <1>3, <2>1 DEF PositionInv
    <3>2. curBlock < blocks
      BY <1>0, <2>1, <3>1
    <3> QED
      BY <1>0, <3>2 DEF FreadEof
  <2>4. FreadBegin
    BY <1>3, <2>1, <2>2, <2>3 DEF FreadStop, FreadCopy, FreadReturn, CatWrite,
       CatEnd
  <2> QED
    BY <2>1, <2>4 DEF FreadBegin, posVars
<1>7. CASE CatBuffer /\ pc' # "fread"
  <2>1. arg < NFiles
    BY <1>0, <1>7 DEF CatBuffer, PhaseInv
  <2> QED
    BY <1>7, <2>1 DEF CatBuffer
<1>4. CASE \/ FopenFile \/ FopenFileFails \/ FopenOverrun \/ FopenSubmit
           \/ FopenCheckFlags \/ FopenEnter \/ MainExit
  BY <1>4 DEF FopenFile, FopenFileFails, FopenOverrun, FopenSubmit,
     FopenCheckFlags, FopenEnter, MainExit
<1>5. CASE Kernel \/ UNCHANGED vars
  BY <1>5 DEF Kernel, vars, appVars, posVars
<1>6. CASE FreadEof \/ FreadBegin \/ FreadStop \/ FreadCopy \/ FreadReturn
           \/ CatWrite \/ CatEnd
  <2>1. pc \in InCat
    BY <1>6 DEF FreadEof, FreadBegin, FreadStop, FreadCopy, FreadReturn,
       CatWrite, CatEnd
  <2> QED
    BY <1>3, <1>6, <2>1
<1> QED
  BY <1>1, <1>2, <1>4, <1>5, <1>6, <1>7 DEF Next, App, FreadSpinning, Exited

(* A stream that has started goes on until cat returns, and only a write     *)
(* changes what it is or how far it is.                                    *)
LEMMA StreamGoesOn ==
  ASSUME IInv, [Next]_vars, Streaming, ~CatEnd
  PROVE  /\ Streaming'
         /\ UNCHANGED <<arg, Image>>
         /\ ~CatWrite => UNCHANGED out
<1> USE DEF InCat, Ended, fileVars, posVars
<1>0. /\ RingTypeOK /\ RingInv /\ PhaseInv /\ isfirst \in {0, 1}
      /\ curBlock \in Nat
  BY Types DEF IInv
<1>1. CASE FreadEof \/ FreadBegin \/ FreadSpin \/ FreadReturn \/ CatWrite
  <2>1. UNCHANGED <<arg, blocks, isfirst, filled, cqRes>>
    BY <1>1 DEF FreadEof, FreadBegin, FreadSpin, FreadReturn, CatWrite, ringVars,
       cqVars
  <2>2. UNCHANGED Image
    BY <2>1 DEF Image, ByteAt
  <2>3. pc' \in InCat /\ pc # "copy"
    BY <1>1 DEF FreadEof, FreadBegin, FreadSpin, FreadReturn, CatWrite
  <2>4. ~CatWrite => UNCHANGED out
    BY <1>1 DEF FreadEof, FreadBegin, FreadSpin, FreadReturn
  <2> QED
    BY <2>1, <2>2, <2>3, <2>4 DEF Streaming
<1>2. CASE FreadStop \/ FreadCopy
  <2>1. UNCHANGED <<arg, blocks, filled, cqRes, out>> /\ pc' \in InCat
        /\ isfirst' = 1
    BY <1>2 DEF FreadStop, FreadCopy, ringVars, cqVars
  <2> QED
    BY <2>1 DEF Streaming, Image, ByteAt
<1>3. CASE Kernel
  <2>1. UNCHANGED <<arg, pc, blocks, isfirst, out>>
    BY <1>3 DEF Kernel, appVars
  <2>2. CASE blocks = 0
    <3>1. blocks * BLOCK_SZ = 0 /\ blocks' * BLOCK_SZ = 0
      BY <2>1, <2>2, BlocksAssumption
    <3>2. Image = <<>> /\ Image' = <<>>
      BY <3>1 DEF Image
    <3> QED
      BY <2>1, <3>2 DEF Streaming
  <2>3. CASE blocks # 0
    <3>1. cqTail = 1
      BY <1>0, <2>3 DEF Streaming, PhaseInv
    <3>2. UNCHANGED <<cqRes, filled>>
      BY <1>0, <1>3, <3>1, KernelLeaves DEF Kernel
    <3> QED
      BY <2>1, <3>2 DEF Streaming, Image, ByteAt
  <2> QED
    BY <2>2, <2>3
<1>4. CASE UNCHANGED vars
  BY <1>4 DEF vars, appVars, ringVars, cqVars, Streaming, Image, ByteAt
<1>5. CASE \/ FopenFile \/ FopenFileFails \/ FopenOverrun \/ FopenSubmit
           \/ FopenCheckFlags \/ FopenEnter \/ CatBuffer \/ MainExit
  BY <1>5 DEF FopenFile, FopenFileFails, FopenOverrun, FopenSubmit,
     FopenCheckFlags, FopenEnter, CatBuffer, MainExit, Streaming
<1> QED
  BY <1>1, <1>2, <1>3, <1>4, <1>5 DEF Next, App, FreadSpinning, Exited

(* The earlier version delivers streams, although it waits in another place  *)
(* than my_cat does: every run of it is one of FileStream.                    *)
THEOREM DeliversStreams == Spec => StreamSpec
<1> DEFINE content == IF Streaming THEN Image ELSE <<>>
           sent == IF Streaming THEN out ELSE <<>>
           phase == IF Streaming THEN "open" ELSE "idle"
<1>1. Init => Stream!StreamInit
  BY DEF Init, Stream!StreamInit, Streaming, InCat
<1>2. ASSUME IInv, [Next]_vars
      PROVE  [Stream!StreamNext]_(Stream!streamVars)
  <2> USE <1>2
  <2>1. CASE ~Streaming /\ ~Streaming'
    <3>1. UNCHANGED <<phase, content, sent>> /\ phase = "idle"
      BY <2>1
    <3>2. UNCHANGED arg \/ (arg < NFiles /\ arg' = arg + 1)
      BY <2>1, StreamStarts
    <3> QED
      BY <3>1, <3>2 DEF Stream!streamVars, Stream!StreamNext, Stream!Skip
  <2>2. CASE ~Streaming /\ Streaming'
    <3>1. /\ phase = "idle" /\ phase' = "open" /\ sent = <<>> /\ sent' = out'
          /\ content' = Image'
      BY <2>2
    <3>2. /\ arg' = arg /\ arg < NFiles /\ UNCHANGED sent
          /\ content' \in Seq(Nat \cup {Stale})
          /\ content' = <<>> \/ \E n \in Sizes : Stream!IsImage(content', n)
      <4> HIDE DEF content, sent
      <4> QED
        BY <2>2, <3>1, StreamStarts
    <3> QED
      BY <3>1, <3>2 DEF Stream!StreamNext, Stream!Open
  <2>3. CASE Streaming /\ CatEnd
    <3>1. out = Image
      BY <2>3, EndAtEnd DEF CatEnd
    <3>2. arg' = arg + 1 /\ ~Streaming'
      BY <2>3 DEF CatEnd, Streaming, InCat
    <3>3. /\ phase = "open" /\ phase' = "idle" /\ content' = <<>> /\ sent' = <<>>
          /\ sent = content
      BY <2>3, <3>1, <3>2
    <3> QED
      BY <3>2, <3>3 DEF Stream!StreamNext, Stream!Close
  <2>4. CASE Streaming /\ ~CatEnd
    <3>1. Streaming' /\ UNCHANGED <<arg, Image>> /\ (~CatWrite => UNCHANGED out)
      BY <2>4, StreamGoesOn
    <3>2. CASE CatWrite
      <4>1. out # Image /\ out' = SubSeq(Image, 1, Stream!Piece)
        BY <3>2, WriteSends
      <4>2. /\ phase = "open" /\ UNCHANGED phase /\ UNCHANGED content
            /\ sent # content /\ sent' = SubSeq(content, 1, Stream!Piece)
        BY <2>4, <3>1, <4>1
      <4> QED
        BY <3>1, <4>2 DEF Stream!StreamNext, Stream!Send
    <3>3. CASE ~CatWrite
      BY <2>4, <3>1, <3>3 DEF Stream!streamVars
    <3> QED
      BY <3>2, <3>3
  <2> QED
    BY <2>1, <2>2, <2>3, <2>4
<1>3. Spec => []IInv
  BY Invariance
<1> QED
  BY <1>1, <1>2, <1>3, PTL DEF Spec, StreamSpec, Stream!StreamSpec
=============================================================================
