--------------------------- MODULE MyCat_proofs ----------------------------
(***************************************************************************)
(* The safety properties of MyCat, proved for every number of files, block  *)
(* and buffer size, set of file sizes, set of faults and limit, and that     *)
(* MyCat implements FileStream.  All of it follows from one inductive        *)
(* invariant, IInv.                                                        *)
(***************************************************************************)
EXTENDS MyCat, Uring_proofs, SequenceTheorems

Built == {"iovec", "flags", "enter", "spin"}   (* my_fopen has mf and fi *)
Sent == {"flags", "enter", "spin"}             (* and has submitted      *)
Held == {"s", "fd", "fi", "mf"}

(* How far the ring is at each point of the program.                        *)
PhaseInv ==
  /\ pc \in Opening \ Sent => sqTail = 0
  /\ pc \in Sent \cup Reading => sqTail = 1 /\ want = size
  /\ pc \in Reading => cqTail = 1
  /\ pc \in Opening \cup Reading => arg < NFiles
  /\ pc \in Opening =>
       poller # "none" /\ cqHead = 0 /\ out = <<>> /\ chunk = <<>>
  /\ pc \in Built => isfirst = 0 /\ curBlock = 0 /\ curOffset = 0

(* Told of the poller's sleep in time, my_fopen spins with the poller awake. *)
WakeInv ==
  pc = "spin" /\ ~overtaken /\ Submitted =>
    sqSeen = sqTail /\ poller = "polling"

(* What the open file holds.                                                *)
HoldInv ==
  /\ pc = "open" => live = {"s"}
  /\ pc \in {"stat", "register", "alloc"} => live = {"s", "fd"}
  /\ pc \in Built \cup Reading => live = Held
  /\ InFlight => {"fd", "fi"} \subseteq live
  /\ "fd" \in live => fds >= 1

(* The blocks cover a file an int can measure and fall short of any other;   *)
(* the iovecs filled so far cover what the loop has gone through, and all    *)
(* but the last one are full.                                              *)
BlockInv ==
  /\ pc \in Opening \ Built => iov = <<>> /\ memory = <<>>
  /\ pc \in {"register", "alloc"} =>
       size \in Sizes /\ blocks = BlockCount(size) /\ remaining = size
  /\ pc \in Built \cup Reading =>
       /\ blocks \in Nat /\ size \in Sizes
       /\ size <= INT_MAX =>
            (blocks - 1) * BLOCK_SZ < size /\ size <= blocks * BLOCK_SZ
       /\ size > INT_MAX => blocks * BLOCK_SZ < size
       /\ Len(iov) <= blocks
       /\ Len(memory) = Len(iov) * BLOCK_SZ
       /\ remaining <= size
       /\ (Len(iov) - 1) * BLOCK_SZ < size - remaining
       /\ size - remaining <= Len(iov) * BLOCK_SZ
       /\ remaining > 0 => size - remaining = Len(iov) * BLOCK_SZ
  /\ pc \in Sent \cup Reading =>
       remaining = 0 /\ Len(iov) = blocks /\ size <= INT_MAX
  /\ pc = "overrun" => size > INT_MAX

(* Between calls the position of mf, inside a call that of my_fread's       *)
(* locals, is where the delivered bytes end; a failed read delivers none.   *)
PositionInv ==
  pc \in Reading =>
    /\ curBlock <= blocks /\ (curBlock = blocks => curOffset = 0)
    /\ Len(chunk) <= CHUNK
    /\ cqRes < 0 => out = <<>> /\ chunk = <<>> /\ pc # "write"
    /\ isfirst = 0 => cqHead = 0
    /\ pc = "fread" =>
         /\ chunk = <<>> /\ Len(out) = curBlock * BLOCK_SZ + curOffset
         /\ cqRes < 0 => isfirst = 0
    /\ pc \in Calling =>
         /\ index <= blocks /\ (index = blocks => offset = 0)
         /\ Len(out) + Len(chunk) = index * BLOCK_SZ + offset
    /\ pc = "copy" =>
         /\ index < blocks /\ Len(chunk) < CHUNK
         /\ isfirst = 0 => head = 0
         /\ cqRes < 0 => isfirst = 0
    /\ pc = "return" =>
         /\ isfirst = 1
         /\ cqRes >= 0 => chunk # <<>> /\ (Len(chunk) = CHUNK \/ index = blocks)
    /\ pc = "write" =>
         /\ isfirst = 1 /\ chunk # <<>>
         /\ Len(out) + Len(chunk) = curBlock * BLOCK_SZ + curOffset
         /\ Len(chunk) = CHUNK \/ curBlock = blocks
    /\ pc = "close" =>
         chunk = <<>> /\ (cqRes < 0 \/ Len(out) = blocks * BLOCK_SZ)

IInv ==
  /\ TypeOK
  /\ RingInv
  /\ PhaseInv
  /\ WakeInv
  /\ HoldInv
  /\ BlockInv
  /\ PositionInv
  /\ DeliveredInOrder
-----------------------------------------------------------------------------

(* Who writes the ring, and how. *)
LEMMA RingTouched ==
  ASSUME [Next]_vars
  PROVE  \/ UNCHANGED ringVars
         \/ RingSetup \/ NoRing
         \/ pc = "iovec" /\ StoreTail(size, blocks)
         \/ WakePoller
         \/ FreadReturn
         \/ KernelStep
<1>1. CASE FopenSetup
  BY <1>1 DEF FopenSetup
<1>2. CASE FopenSubmit
  BY <1>2 DEF FopenSubmit
<1>3. CASE FopenEnter
  BY <1>3 DEF FopenEnter
<1>4. CASE Kernel
  BY <1>4 DEF Kernel
<1>5. CASE UNCHANGED vars
  BY <1>5 DEF vars
<1>6. CASE \/ FopenOpen \/ FopenStat \/ FopenRegister \/ FopenAlloc \/ FopenIovec
           \/ FopenOverrun \/ FopenCheckFlags \/ FopenSpin \/ FreadEof
           \/ FreadBegin \/ FreadStop \/ FreadCopy \/ CatWrite \/ CatClose
           \/ MainExit
  BY <1>6 DEF FopenOpen, FopenStat, FopenRegister, FopenAlloc, FopenIovec,
       FopenOverrun, FopenCheckFlags, FopenSpin, FreadEof, FreadBegin, FreadStop, FreadCopy,
       CatWrite, CatClose, MainExit
<1> QED
  BY <1>1, <1>2, <1>3, <1>4, <1>5, <1>6
  DEF Next, App, Fopen, Fread, FopenPause, Exited

(* The one entry passes the ring's counters in their order, and no step      *)
(* takes any number below 0.                                               *)
LEMMA RingStep ==
  ASSUME IInv, [Next]_vars
  PROVE  RingTypeOK' /\ RingInv'
<1>0. RingTypeOK /\ RingInv /\ PhaseInv /\ TypeOK
  BY DEF IInv, TypeOK
<1>1. CASE UNCHANGED ringVars
  BY <1>0, <1>1 DEF ringVars, entryVars, cqVars, RingTypeOK, RingInv
<1>2. CASE RingSetup \/ NoRing
  BY <1>2, ResetRing DEF RingSetup, NoRing, PollerStates
<1>3. CASE pc = "iovec" /\ StoreTail(size, blocks)
  <2>1. sqTail = 0
    BY <1>0, <1>3 DEF PhaseInv, Opening, Sent
  <2>2. size \in Nat /\ blocks \in Nat
    BY <1>0, <1>3 DEF IInv, TypeOK, BlockInv, Built
  <2> QED
    BY <1>0, <1>3, <2>1, <2>2, StoreRing
<1>4. CASE WakePoller
  BY <1>0, <1>4, WakeRing
<1>5. CASE FreadReturn
  BY <1>0, <1>5 DEF FreadReturn, TypeOK, RingTypeOK, RingInv, entryVars
<1>6. CASE KernelStep
  BY <1>0, <1>6, KernelType, KernelRing
<1> QED
  BY <1>1, <1>2, <1>3, <1>4, <1>5, <1>6, RingTouched

(* A byte of the buffers is a byte.                                         *)
LEMMA ByteAtType ==
  ASSUME IInv, pc \in Sent \cup Reading, NEW p \in 0 .. blocks * BLOCK_SZ - 1
  PROVE  ByteAt(p) \in Bytes
<1>1. memory \in Seq(StaleBytes) /\ Len(memory) = blocks * BLOCK_SZ
  BY DEF IInv, TypeOK, BlockInv, Built, Sent
<1>2. blocks \in Nat /\ blocks * BLOCK_SZ \in Nat
  BY BlocksAssumption DEF IInv, BlockInv, Built, Sent
<1>3. p + 1 \in 1 .. Len(memory)
  BY <1>1, <1>2
<1>4. memory[p + 1] \in StaleBytes
  BY <1>1, <1>3, ElementOfSeq
<1> QED
  BY <1>4 DEF ByteAt, Bytes

(* One round of my_fread's loop copies at least one byte, past the end of   *)
(* neither the block nor the caller's buffer.                               *)
LEMMA CopyBounds ==
  ASSUME IInv, pc = "copy"
  PROVE  /\ ToCopy \in Nat \ {0}
         /\ offset + ToCopy <= BLOCK_SZ
         /\ Len(chunk) + ToCopy <= CHUNK
         /\ index < Len(iov)
         /\ CopyFrom \in Nat
         /\ CopyFrom + ToCopy <= blocks * BLOCK_SZ
         /\ Len(out) + Len(chunk) = CopyFrom
<1> USE MyCatAssumption, BlocksAssumption
<1>1. /\ iov \in Seq(1 .. BLOCK_SZ) /\ chunk \in Seq(Bytes) /\ out \in Seq(Bytes)
      /\ index \in Nat /\ offset \in 0 .. BLOCK_SZ - 1
      /\ Len(iov) = blocks /\ blocks \in Nat
      /\ index < blocks /\ Len(chunk) < CHUNK
      /\ Len(out) + Len(chunk) = index * BLOCK_SZ + offset
  BY DEF IInv, TypeOK, BlockInv, PositionInv, Reading, Calling
<1>2. iov[index + 1] \in 1 .. BLOCK_SZ
  <2>1. index + 1 \in 1 .. Len(iov)
    BY <1>1
  <2> QED
    BY <1>1, <2>1, ElementOfSeq
<1>3. Len(chunk) \in Nat
  BY <1>1
<1>4. /\ ToCopy \in Nat \ {0} /\ offset + ToCopy <= BLOCK_SZ
      /\ Len(chunk) + ToCopy <= CHUNK
  BY <1>1, <1>2, <1>3 DEF ToCopy, Lesser
<1>5. CopyFrom \in Nat /\ Len(out) + Len(chunk) = CopyFrom
  BY <1>1 DEF CopyFrom
<1>6. CopyFrom + ToCopy <= blocks * BLOCK_SZ
  <2>1. offset + ToCopy \in 0 .. BLOCK_SZ
    BY <1>1, <1>4
  <2>2. index * BLOCK_SZ \in Nat
        /\ index * BLOCK_SZ + (offset + ToCopy) <= blocks * BLOCK_SZ
    BY <1>1, <2>1, InsideBlocks
  <2> QED
    BY <1>1, <1>4, <2>2 DEF CopyFrom
<1> QED
  BY <1>1, <1>4, <1>5, <1>6

(* What a round appends to the caller's buffer.                             *)
LEMMA CopiedBytes ==
  ASSUME IInv, pc = "copy", FreadCopy
  PROVE  /\ chunk' \in Seq(Bytes)
         /\ Len(chunk') = Len(chunk) + ToCopy
         /\ \A k \in 1 .. Len(chunk') :
              chunk'[k] = IF k <= Len(chunk) THEN chunk[k]
                          ELSE ByteAt(CopyFrom + k - Len(chunk) - 1)
<1> DEFINE piece == [i \in 1 .. ToCopy |-> ByteAt(CopyFrom + i - 1)]
<1>1. chunk' = chunk \o piece
  BY DEF FreadCopy
<1>2. chunk \in Seq(Bytes) /\ Len(chunk) \in Nat
  BY DEF IInv, TypeOK
<1>3. piece \in Seq(Bytes) /\ Len(piece) = ToCopy
  <2>1. ASSUME NEW i \in 1 .. ToCopy PROVE ByteAt(CopyFrom + i - 1) \in Bytes
    <3>1. CopyFrom + i - 1 \in 0 .. blocks * BLOCK_SZ - 1
      <4>1. blocks * BLOCK_SZ \in Nat
        BY BlocksAssumption DEF IInv, BlockInv, Reading, Calling
      <4> QED
        BY <4>1, CopyBounds
    <3> QED
      BY <3>1, ByteAtType DEF Reading, Calling
  <2>2. ToCopy \in Nat
    BY CopyBounds
  <2> QED
    BY <2>1, <2>2
<1>4. \A k \in 1 .. ToCopy : piece[k] = ByteAt(CopyFrom + k - 1)
  OBVIOUS
<1>5. ToCopy \in Nat /\ CopyFrom \in Nat
  BY CopyBounds
<1> HIDE DEF piece
<1>6. /\ chunk' \in Seq(Bytes) /\ Len(chunk') = Len(chunk) + ToCopy
      /\ \A k \in 1 .. Len(chunk) + ToCopy :
           chunk'[k] = IF k <= Len(chunk) THEN chunk[k] ELSE piece[k - Len(chunk)]
  BY <1>1, <1>2, <1>3, ConcatProperties
<1>7. ASSUME NEW k \in 1 .. Len(chunk'), k > Len(chunk)
      PROVE  chunk'[k] = ByteAt(CopyFrom + k - Len(chunk) - 1)
  <2>1. k - Len(chunk) \in 1 .. ToCopy
    BY <1>2, <1>5, <1>6, <1>7
  <2>2. chunk'[k] = piece[k - Len(chunk)]
    BY <1>2, <1>5, <1>6, <1>7
  <2>3. CopyFrom + (k - Len(chunk)) - 1 = CopyFrom + k - Len(chunk) - 1
    BY <1>2, <1>5
  <2> QED
    BY <1>4, <2>1, <2>2, <2>3
<1> QED
  BY <1>2, <1>6, <1>7

(* Types are kept; the position stays inside a block. *)
LEMMA TypeStep ==
  ASSUME IInv, [Next]_vars
  PROVE  TypeOK'
<1> USE MyCatAssumption, BlocksAssumption
    DEF IInv, TypeOK, openVars, posVars, callVars, holdVars
<1>1. RingTypeOK'
  BY RingStep
<1> HIDE DEF IInv
<1> USE DEF Bytes, Labels, Opening, Reading, Calling, GiveUp
<1>2. TypeOK /\ PhaseInv /\ HoldInv /\ BlockInv /\ PositionInv
  BY DEF IInv
<1>a. CASE FopenSetup
  <2>1. iov' = <<>> /\ memory' = <<>> /\ chunk' = <<>> /\ out' = <<>>
    BY <1>a DEF FopenSetup, ForgetFile
  <2>2. arg' \in 0 .. NFiles /\ pc' \in Labels /\ fds' \in 0 .. FdLimit
    BY <1>a, <1>2 DEF FopenSetup
  <2>3. live' \subseteq {"s", "fd", "fi", "mf"}
    BY <1>a, <1>2 DEF FopenSetup
  <2>4. iov' \in Seq(1 .. BLOCK_SZ) /\ memory' \in Seq(StaleBytes)
        /\ chunk' \in Seq(Bytes) /\ out' \in Seq(Bytes)
    BY <2>1, EmptySeq
  <2>5. /\ size' \in Nat /\ blocks' \in Int /\ remaining' \in Nat
        /\ curBlock' \in Nat /\ curOffset' \in 0 .. BLOCK_SZ - 1
        /\ isfirst' \in {0, 1} /\ index' \in Nat
        /\ offset' \in 0 .. BLOCK_SZ - 1 /\ head' \in Nat
    <3>1. /\ size' = 0 /\ blocks' = 0 /\ remaining' = 0 /\ curBlock' = 0
          /\ curOffset' = 0 /\ isfirst' = 0 /\ index' = 0 /\ offset' = 0
          /\ head' = 0
      BY <1>a DEF FopenSetup, ForgetFile
    <3> QED
      BY <3>1
  <2>6. overtaken' \in BOOLEAN
    BY <1>a DEF FopenSetup, ForgetFile
  <2> QED
    BY <1>1, <2>2, <2>3, <2>4, <2>5, <2>6
<1>b. CASE FopenOpen
  <2>1. arg' \in 0 .. NFiles /\ pc' \in Labels
    BY <1>b, <1>2 DEF FopenOpen, PhaseInv
  <2>2. fds' \in 0 .. FdLimit /\ live' \subseteq {"s", "fd", "fi", "mf"}
    <3>1. CASE UNCHANGED holdVars
      BY <1>2, <3>1
    <3>2. CASE fds < FdLimit /\ fds' = fds + 1 /\ live' = live \cup {"fd"}
      BY <1>2, <3>2
    <3> QED
      BY <1>b, <3>1, <3>2 DEF FopenOpen
  <2> QED
    BY <1>b, <1>1, <1>2, <2>1, <2>2 DEF FopenOpen
<1>c. CASE FopenStat
  <2>1. arg' \in 0 .. NFiles /\ pc' \in Labels
    BY <1>c, <1>2 DEF FopenStat, PhaseInv
  <2>2. size' \in Nat /\ remaining' \in Nat /\ blocks' \in Int
    <3>1. ASSUME NEW n \in Sizes PROVE n \in Nat /\ BlockCount(n) \in Int
      BY BlockCountType
    <3> QED
      BY <1>c, <1>2, <3>1 DEF FopenStat
  <2> QED
    BY <1>c, <1>1, <1>2, <2>1, <2>2 DEF FopenStat
<1>d. CASE FopenRegister
  BY <1>d, <1>1, <1>2 DEF FopenRegister, PhaseInv, HoldInv
<1>e. CASE FopenAlloc
  <2>1. arg' \in 0 .. NFiles /\ pc' \in Labels
    BY <1>e, <1>2 DEF FopenAlloc, PhaseInv
  <2>2. live' \subseteq {"s", "fd", "fi", "mf"}
    BY <1>e, <1>2 DEF FopenAlloc
  <2>3. curBlock' \in Nat /\ curOffset' \in 0 .. BLOCK_SZ - 1
        /\ isfirst' \in {0, 1}
    BY <1>e, <1>2 DEF FopenAlloc
  <2> QED
    BY <1>e, <1>1, <1>2, <2>1, <2>2, <2>3 DEF FopenAlloc
<1>f. CASE FopenIovec
  <2>1. arg' \in 0 .. NFiles /\ pc' \in Labels
    BY <1>f, <1>2 DEF FopenIovec, PhaseInv
  <2>2. Lesser(remaining, BLOCK_SZ) \in 1 .. BLOCK_SZ
        /\ remaining - Lesser(remaining, BLOCK_SZ) \in Nat
    BY <1>f, <1>2 DEF FopenIovec, Lesser
  <2>3. iov' \in Seq(1 .. BLOCK_SZ) /\ remaining' \in Nat
    <3>1. Append(iov, Lesser(remaining, BLOCK_SZ)) \in Seq(1 .. BLOCK_SZ)
      BY <1>2, <2>2, AppendProperties
    <3> QED
      BY <1>f, <1>2, <2>2, <3>1 DEF FopenIovec
  <2>4. memory' \in Seq(StaleBytes)
    <3>1. ASSUME NEW was \in [1 .. BLOCK_SZ -> StaleBytes]
          PROVE  memory \o was \in Seq(StaleBytes)
      BY <1>2, ConcatProperties
    <3> QED
      BY <1>f, <1>2, <3>1 DEF FopenIovec
  <2> QED
    BY <1>f, <1>1, <1>2, <2>1, <2>3, <2>4 DEF FopenIovec
<1>g. CASE FopenSubmit
  BY <1>g, <1>1, <1>2 DEF FopenSubmit
<1>h. CASE FopenCheckFlags
  BY <1>h, <1>1, <1>2 DEF FopenCheckFlags
<1>i. CASE FopenEnter
  BY <1>i, <1>1, <1>2 DEF FopenEnter, PhaseInv
<1>j. CASE FopenOverrun \/ FopenSpin \/ FreadEof \/ FreadStop \/ MainExit
  BY <1>j, <1>1, <1>2 DEF FopenOverrun, FopenSpin, FreadEof, FreadStop, MainExit,
       Ended
<1>k. CASE FreadBegin
  BY <1>k, <1>1, <1>2 DEF FreadBegin, RingTypeOK
<1>l. CASE FreadCopy
  <2>1. pc' \in Labels /\ index' \in Nat /\ head' \in Nat
    BY <1>l, <1>2 DEF FreadCopy
  <2>2. offset' \in 0 .. BLOCK_SZ - 1
    <3>1. ToCopy \in Nat /\ offset + ToCopy <= BLOCK_SZ
      BY <1>l, CopyBounds DEF FreadCopy
    <3> QED
      BY <1>l, <1>2, <3>1 DEF FreadCopy, BlockDone
  <2>3. chunk' \in Seq(Bytes)
    BY <1>l, CopiedBytes DEF FreadCopy
  <2> QED
    BY <1>l, <1>1, <1>2, <2>1, <2>2, <2>3 DEF FreadCopy
<1>m. CASE FreadReturn
  BY <1>m, <1>1, <1>2 DEF FreadReturn
<1>n. CASE CatWrite
  <2>1. out' \in Seq(Bytes) /\ chunk' \in Seq(Bytes)
    BY <1>n, <1>2 DEF CatWrite
  <2> QED
    BY <1>n, <1>1, <1>2, <2>1 DEF CatWrite
<1>o. CASE CatClose
  BY <1>o, <1>1, <1>2 DEF CatClose, PhaseInv, HoldInv, Held
<1>p. CASE UNCHANGED appVars
  BY <1>p, <1>1, <1>2 DEF appVars
<1> QED
  BY <1>a, <1>b, <1>c, <1>d, <1>e, <1>f, <1>g, <1>h, <1>i, <1>j, <1>k, <1>l,
     <1>m, <1>n, <1>o, <1>p
  DEF Next, App, Fopen, Fread, Kernel, FopenPause, Exited, vars

-----------------------------------------------------------------------------
(* The program's place and the ring's progress stay in step. *)
LEMMA PhaseStep ==
  ASSUME IInv, [Next]_vars
  PROVE  PhaseInv'
<1> USE DEF Opening, Reading, Calling, Built, Sent
<1>0. TypeOK /\ RingTypeOK /\ RingInv /\ PhaseInv
  BY DEF IInv, TypeOK
<1>a. CASE FopenSetup
  BY <1>0, <1>a DEF FopenSetup, ForgetFile, RingSetup, NoRing, RingReset, GiveUp,
       PhaseInv
<1>b. CASE FopenOpen \/ FopenStat \/ FopenRegister
  BY <1>0, <1>b DEF FopenOpen, FopenStat, FopenRegister, GiveUp, PhaseInv,
       ringVars, entryVars, cqVars, posVars, callVars
<1>c. CASE FopenAlloc
  BY <1>0, <1>c DEF FopenAlloc, GiveUp, PhaseInv, ringVars, entryVars, cqVars,
       callVars
<1>d. CASE FopenIovec
  BY <1>0, <1>d DEF FopenIovec, GiveUp, PhaseInv, ringVars, entryVars, cqVars,
       callVars, posVars
<1>e. CASE FopenSubmit
  BY <1>0, <1>e DEF FopenSubmit, StoreTail, PhaseInv, cqVars, callVars, posVars,
       openVars
<1>f. CASE FopenCheckFlags
  BY <1>0, <1>f DEF FopenCheckFlags, PhaseInv, ringVars, entryVars, cqVars,
       callVars, posVars, openVars
<1>g. CASE FopenEnter
  BY <1>0, <1>g DEF FopenEnter, WakePoller, GiveUp, PhaseInv, ringVars,
       entryVars, cqVars, callVars, posVars, openVars
<1>p. CASE FopenOverrun
  BY <1>p DEF FopenOverrun, PhaseInv
<1>h. CASE FopenSpin
  <2>1. cqTail = 1
    BY <1>0, <1>h, RingNumbers DEF FopenSpin, Completed, PhaseInv, RingInv
  <2> QED
    BY <1>0, <1>h, <2>1 DEF FopenSpin, PhaseInv, ringVars, entryVars, cqVars,
         callVars, posVars, openVars
<1>i. CASE FreadEof \/ FreadBegin \/ FreadStop
  BY <1>0, <1>i DEF FreadEof, FreadBegin, FreadStop, PhaseInv, ringVars,
       entryVars, cqVars, openVars
<1>j. CASE FreadCopy
  BY <1>0, <1>j DEF FreadCopy, PhaseInv, ringVars, entryVars, cqVars, openVars
<1>k. CASE FreadReturn
  BY <1>0, <1>k DEF FreadReturn, PhaseInv, ringVars, entryVars, cqVars, openVars
<1>l. CASE CatWrite
  BY <1>0, <1>l DEF CatWrite, PhaseInv, ringVars, entryVars, cqVars, openVars
<1>m. CASE CatClose \/ MainExit
  BY <1>0, <1>m DEF CatClose, MainExit, PhaseInv
<1>n. CASE Kernel
  <2>1. UNCHANGED <<pc, arg, size, out, chunk, isfirst, curBlock, curOffset>>
    BY <1>n DEF Kernel, appVars, openVars, posVars, callVars
  <2>2. /\ UNCHANGED <<sqTail, want, cqHead>>
        /\ cqTail = 1 => cqTail' = 1
        /\ poller # "none" => poller' # "none"
    BY <1>0, <1>n, KernelLeaves DEF Kernel
  <2> QED
    BY <1>0, <2>1, <2>2 DEF PhaseInv
<1>o. CASE UNCHANGED vars
  BY <1>0, <1>o DEF PhaseInv, vars, ringVars, entryVars, cqVars, appVars,
       openVars, posVars, callVars
<1> QED
  BY <1>a, <1>b, <1>c, <1>d, <1>e, <1>f, <1>g, <1>h, <1>i, <1>j, <1>k, <1>l,
     <1>m, <1>n, <1>o, <1>p
  DEF Next, App, Fopen, Fread, FopenPause, Exited

(* The steps after which my_fopen spins. *)
LEMMA SpinEntered ==
  ASSUME [Next]_vars, pc' = "spin"
  PROVE  FopenCheckFlags \/ FopenEnter \/ Kernel \/ UNCHANGED vars
<1>1. CASE FopenSetup \/ FopenOpen \/ FopenStat \/ FopenRegister \/ FopenAlloc
           \/ FopenOverrun \/ FopenSubmit
  BY <1>1 DEF FopenSetup, FopenOpen, FopenStat, FopenRegister, FopenAlloc,
       FopenOverrun, FopenSubmit, GiveUp
<1>2. CASE FopenIovec
  BY <1>2 DEF FopenIovec, GiveUp
<1>3. CASE \/ FopenSpin \/ FreadEof \/ FreadBegin \/ FreadStop \/ FreadReturn
           \/ CatWrite \/ CatClose \/ MainExit
  BY <1>3 DEF FopenSpin, FreadEof, FreadBegin, FreadStop, FreadReturn, CatWrite,
       CatClose, MainExit
<1>4. CASE FreadCopy
  BY <1>4 DEF FreadCopy
<1> QED
  BY <1>1, <1>2, <1>3, <1>4
  DEF Next, App, Fopen, Fread, FopenPause, Exited

(* A wake-up told of in time stays effective. *)
LEMMA WakeStep ==
  ASSUME IInv, [Next]_vars
  PROVE  WakeInv'
<1> USE DEF Submitted
<1>0. TypeOK /\ RingTypeOK /\ RingInv /\ PhaseInv /\ WakeInv
  BY DEF IInv, TypeOK
<1> SUFFICES ASSUME pc' = "spin", ~overtaken', Submitted'
             PROVE  sqSeen' = sqTail' /\ poller' = "polling"
  BY DEF WakeInv
<1>1. CASE FopenCheckFlags
  <2>1. ~NeedWakeup /\ sqSeen = sqTail
    BY <1>1 DEF FopenCheckFlags
  <2>2. poller # "none"
    BY <1>0, <1>1 DEF FopenCheckFlags, PhaseInv, Opening
  <2> QED
    BY <1>0, <1>1, <2>1, <2>2 DEF FopenCheckFlags, NeedWakeup, TypeOK, RingTypeOK,
         PollerStates, ringVars
<1>2. CASE FopenEnter
  BY <1>2 DEF FopenEnter, WakePoller, GiveUp
<1>3. CASE Kernel
  <2>1. UNCHANGED <<pc, overtaken>>
    BY <1>3 DEF Kernel, appVars
  <2>2. sqTail' = sqTail /\ Submitted
    BY <1>0, <1>3, KernelLeaves DEF Kernel
  <2>3. sqSeen = sqTail /\ poller = "polling"
    BY <1>0, <2>1, <2>2 DEF WakeInv
  <2>4. sqSeen # sqHead
    BY <2>2, <2>3
  <2> QED
    BY <1>3, <2>3, <2>4 DEF Kernel, KernelStep, Drain, PollerFetch,
         PollerAnnounce, PollerRecheck, ReadProgress, PostCompletion
<1>4. CASE UNCHANGED vars
  BY <1>0, <1>4 DEF vars, appVars, ringVars, WakeInv
<1>5. CASE pc' # "spin"
  BY <1>5
<1> QED
  BY <1>1, <1>2, <1>3, <1>4, <1>5, SpinEntered

(* The steps after which cat has its my_file. *)
LEMMA ReadingSteps ==
  ASSUME [Next]_vars, pc' \in Reading
  PROVE  \/ FopenSpin \/ FreadEof \/ FreadBegin \/ FreadStop \/ FreadCopy
         \/ FreadReturn \/ CatWrite \/ Kernel \/ UNCHANGED vars
<1> USE DEF Reading, Calling
<1>1. CASE FopenSetup \/ FopenOpen \/ FopenStat \/ FopenRegister \/ FopenAlloc
           \/ FopenOverrun \/ FopenSubmit \/ FopenCheckFlags \/ FopenEnter
  BY <1>1 DEF FopenSetup, FopenOpen, FopenStat, FopenRegister, FopenAlloc,
       FopenOverrun, FopenSubmit, FopenCheckFlags, FopenEnter, GiveUp
<1>2. CASE FopenIovec
  BY <1>2 DEF FopenIovec, GiveUp
<1>3. CASE CatClose \/ MainExit
  BY <1>3 DEF CatClose, MainExit
<1> QED
  BY <1>1, <1>2, <1>3 DEF Next, App, Fopen, Fread, FopenPause, Exited

(* What the open file holds is released by my_fclose alone. *)
LEMMA HoldStep ==
  ASSUME IInv, [Next]_vars
  PROVE  HoldInv'
<1> USE DEF Opening, Reading, Calling, Built, Held, InFlight, Submitted, Running
<1>0. TypeOK /\ RingTypeOK /\ RingInv /\ PhaseInv /\ HoldInv
  BY DEF IInv, TypeOK
<1>a. CASE FopenSetup
  BY <1>0, <1>a DEF FopenSetup, RingSetup, NoRing, RingReset, GiveUp, HoldInv
<1>b. CASE FopenOpen
  <2>1. ~InFlight'
    BY <1>0, <1>b, RingNumbers DEF FopenOpen, PhaseInv, Sent, RingInv, ringVars,
         cqVars
  <2> QED
    BY <1>0, <1>b, <2>1 DEF FopenOpen, GiveUp, HoldInv, TypeOK, holdVars
<1>c. CASE FopenStat
  BY <1>0, <1>c DEF FopenStat, GiveUp, HoldInv, holdVars, ringVars, cqVars
<1>d. CASE FopenRegister
  <2>1. ~InFlight'
    BY <1>0, <1>d, RingNumbers DEF FopenRegister, PhaseInv, Sent, RingInv,
         ringVars, cqVars
  <2> QED
    BY <1>0, <1>d, <2>1 DEF FopenRegister, GiveUp, HoldInv, holdVars
<1>e. CASE FopenAlloc
  BY <1>0, <1>e DEF FopenAlloc, GiveUp, HoldInv, ringVars, cqVars
<1>f. CASE FopenIovec \/ FopenOverrun
  BY <1>0, <1>f DEF FopenIovec, FopenOverrun, GiveUp, HoldInv, holdVars, ringVars,
       cqVars
<1>g. CASE FopenSubmit
  BY <1>0, <1>g DEF FopenSubmit, StoreTail, HoldInv, holdVars
<1>h. CASE FopenCheckFlags \/ FopenSpin
  BY <1>0, <1>h DEF FopenCheckFlags, FopenSpin, HoldInv, holdVars, ringVars,
       cqVars
<1>i. CASE FopenEnter
  BY <1>0, <1>i DEF FopenEnter, WakePoller, GiveUp, HoldInv, holdVars, ringVars,
       cqVars
<1>j. CASE FreadEof \/ FreadBegin \/ FreadStop
  BY <1>0, <1>j DEF FreadEof, FreadBegin, FreadStop, HoldInv, holdVars, ringVars,
       cqVars
<1>k. CASE FreadCopy
  BY <1>0, <1>k DEF FreadCopy, HoldInv, holdVars, ringVars, cqVars
<1>l. CASE FreadReturn
  BY <1>0, <1>l DEF FreadReturn, HoldInv, holdVars
<1>m. CASE CatWrite
  BY <1>0, <1>m DEF CatWrite, HoldInv, holdVars, ringVars, cqVars
<1>n. CASE CatClose
  <2>1. ~InFlight'
    BY <1>0, <1>n, RingNumbers DEF CatClose, PhaseInv, RingInv, ringVars, cqVars
  <2> QED
    BY <1>n, <2>1 DEF CatClose, HoldInv
<1>o. CASE MainExit
  BY <1>0, <1>o DEF MainExit, HoldInv, holdVars, ringVars, cqVars
<1>p. CASE Kernel
  <2>1. UNCHANGED <<pc, live, fds>>
    BY <1>p DEF Kernel, appVars, holdVars
  <2>2. InFlight' => InFlight
    BY <1>0, <1>p, KernelLeaves DEF Kernel
  <2> QED
    BY <1>0, <2>1, <2>2 DEF HoldInv
<1>q. CASE UNCHANGED vars
  BY <1>0, <1>q DEF HoldInv, vars, ringVars, cqVars, appVars, holdVars
<1> QED
  BY <1>a, <1>b, <1>c, <1>d, <1>e, <1>f, <1>g, <1>h, <1>i, <1>j, <1>k, <1>l,
     <1>m, <1>n, <1>o, <1>p, <1>q
  DEF Next, App, Fopen, Fread, FopenPause, Exited

(* The open file's buffers are all there, and end where the file's blocks do. *)
LEMMA BlockStep ==
  ASSUME IInv, [Next]_vars
  PROVE  BlockInv'
<1> USE BlocksAssumption DEF Opening, Reading, Calling, Built, Sent
<1>0. TypeOK /\ BlockInv
  BY DEF IInv
<1>a. CASE FopenSetup
  BY <1>0, <1>a DEF FopenSetup, ForgetFile, GiveUp, BlockInv
<1>b. CASE FopenOpen \/ FopenRegister
  BY <1>0, <1>b DEF FopenOpen, FopenRegister, GiveUp, BlockInv, openVars
<1>c. CASE FopenStat
  BY <1>0, <1>c DEF FopenStat, GiveUp, BlockInv
<1>d. CASE FopenAlloc
  <2>1. CASE pc' = "main"
    BY <2>1 DEF BlockInv
  <2>2. CASE pc' = "iovec"
    <3>1. /\ blocks \in Nat /\ size \in Sizes /\ blocks = BlockCount(size)
          /\ remaining = size /\ iov = <<>> /\ memory = <<>>
      BY <1>0, <1>d, <2>2 DEF FopenAlloc, GiveUp, BlockInv, TypeOK
    <3>2. /\ size <= INT_MAX =>
               (blocks - 1) * BLOCK_SZ < size /\ size <= blocks * BLOCK_SZ
          /\ size > INT_MAX => blocks * BLOCK_SZ < size
      <4>1. size \in Nat /\ INT_MAX \in Nat
        BY <3>1, MyCatAssumption
      <4>2. CASE size \in 0 .. INT_MAX
        BY <3>1, <4>1, <4>2, BlockCountRoundsUp
      <4>3. CASE size > INT_MAX
        <5>1. BlockCount(size) >= 0
          BY <3>1
        <5> QED
          BY <3>1, <4>1, <4>3, <5>1, BlockCountFallsShort
      <4> QED
        BY <4>1, <4>2, <4>3
    <3>3. UNCHANGED <<size, blocks, remaining, iov, memory>>
      BY <1>d DEF FopenAlloc, openVars
    <3>4. Len(iov) = 0 /\ Len(memory) = 0
      BY <3>1
    <3>5. size \in Nat
      BY <1>0 DEF TypeOK
    <3>6. /\ Len(memory) = Len(iov) * BLOCK_SZ
          /\ (Len(iov) - 1) * BLOCK_SZ < size - remaining
          /\ size - remaining = Len(iov) * BLOCK_SZ
      BY <3>1, <3>4, <3>5
    <3> QED
      BY <2>2, <3>1, <3>2, <3>3, <3>5, <3>6 DEF BlockInv
  <2> QED
    BY <1>d, <2>1, <2>2 DEF FopenAlloc, GiveUp
<1>e. CASE FopenIovec
  <2>1. CASE pc' = "main"
    BY <2>1 DEF BlockInv
  <2>2. CASE pc' = "iovec"
    <3> DEFINE n == Lesser(remaining, BLOCK_SZ)
    <3>1. /\ pc = "iovec" /\ remaining > 0
          /\ iov' = Append(iov, n) /\ remaining' = remaining - n
          /\ \E was \in [1 .. BLOCK_SZ -> StaleBytes] : memory' = memory \o was
          /\ UNCHANGED <<size, blocks>>
          /\ Len(iov) < blocks
      BY <1>e, <2>2 DEF FopenIovec, GiveUp
    <3>2. /\ n \in 1 .. BLOCK_SZ /\ n <= remaining
          /\ remaining' > 0 => n = BLOCK_SZ
          /\ remaining' \in Nat
      BY <1>0, <3>1 DEF TypeOK, Lesser
    <3> HIDE DEF n
    <3>3. Len(iov') = Len(iov) + 1 /\ Len(iov) \in Nat
      BY <1>0, <3>1, AppendProperties DEF TypeOK
    <3>4. Len(memory') = Len(memory) + BLOCK_SZ /\ Len(memory) \in Nat
      <4>1. ASSUME NEW was \in [1 .. BLOCK_SZ -> StaleBytes]
            PROVE  Len(memory \o was) = Len(memory) + BLOCK_SZ
        <5>1. was \in Seq(StaleBytes) /\ Len(was) = BLOCK_SZ
          OBVIOUS
        <5> QED
          BY <1>0, <5>1, ConcatProperties DEF TypeOK
      <4> QED
        BY <1>0, <3>1, <4>1 DEF TypeOK
    <3>5. /\ blocks \in Nat /\ size \in Sizes /\ size \in Nat
          /\ Len(memory) = Len(iov) * BLOCK_SZ
          /\ remaining <= size /\ remaining \in Nat
          /\ size - remaining = Len(iov) * BLOCK_SZ
      BY <1>0, <3>1 DEF BlockInv, TypeOK
    <3>6. (Len(iov) + 1) * BLOCK_SZ = Len(iov) * BLOCK_SZ + BLOCK_SZ
      BY <3>3
    <3>7. (Len(iov) + 1 - 1) * BLOCK_SZ = Len(iov) * BLOCK_SZ
      BY <3>3
    <3>8. /\ Len(memory') = Len(iov') * BLOCK_SZ
          /\ remaining' <= size
          /\ (Len(iov') - 1) * BLOCK_SZ < size - remaining'
          /\ size - remaining' <= Len(iov') * BLOCK_SZ
          /\ remaining' > 0 => size - remaining' = Len(iov') * BLOCK_SZ
      <4> DEFINE done == Len(iov) * BLOCK_SZ
      <4>1. done \in Nat /\ size - remaining = done
        BY <3>3, <3>5
      <4>2. Len(iov') * BLOCK_SZ = done + BLOCK_SZ
            /\ (Len(iov') - 1) * BLOCK_SZ = done
        BY <3>3, <3>6, <3>7
      <4>3. Len(memory') = done + BLOCK_SZ
        BY <3>4, <3>5
      <4> HIDE DEF done
      <4>4. /\ remaining' <= size /\ done < size - remaining'
            /\ size - remaining' <= done + BLOCK_SZ
            /\ remaining' > 0 => size - remaining' = done + BLOCK_SZ
        <5>1. size \in Nat /\ remaining \in Nat /\ remaining' = remaining - n
          BY <3>1, <3>5
        <5> QED
          BY <3>2, <4>1, <5>1
      <4> QED
        BY <4>2, <4>3, <4>4
    <3>9. Len(iov') <= blocks
      BY <3>1, <3>3, <3>5
    <3> QED
      BY <1>0, <2>2, <3>1, <3>5, <3>8, <3>9 DEF BlockInv
  <2> QED
    BY <1>e, <2>1, <2>2 DEF FopenIovec, GiveUp
<1>f. CASE FopenSubmit
  <2>1. /\ pc = "iovec" /\ remaining = 0 /\ pc' = "flags"
        /\ UNCHANGED <<size, blocks, remaining, iov, memory>>
    BY <1>f DEF FopenSubmit, openVars
  <2>2. /\ blocks \in Nat /\ size \in Nat /\ Len(iov) \in Nat
        /\ Len(iov) <= blocks
        /\ (Len(iov) - 1) * BLOCK_SZ < size /\ size <= Len(iov) * BLOCK_SZ
    BY <1>0, <2>1 DEF BlockInv, TypeOK
  <2>3. size <= INT_MAX
    <3>1. ~(blocks * BLOCK_SZ < size)
      BY <2>2, FewerBlocks
    <3> QED
      BY <1>0, <2>1, <2>2, <3>1 DEF BlockInv
  <2>4. Len(iov) = blocks
    <3>1. (blocks - 1) * BLOCK_SZ < size
      BY <1>0, <2>1, <2>3 DEF BlockInv
    <3>2. blocks <= Len(iov)
      BY <2>2, <3>1, CountsCompare
    <3> QED
      BY <2>2, <3>2
  <2> QED
    BY <1>0, <2>1, <2>3, <2>4 DEF BlockInv
<1>l. CASE FopenOverrun
  <2>1. /\ pc = "iovec" /\ remaining > 0 /\ Len(iov) >= blocks
        /\ pc' = "overrun" /\ UNCHANGED size
    BY <1>l DEF FopenOverrun, openVars
  <2>2. /\ blocks \in Nat /\ Len(iov) \in Nat /\ Len(iov) <= blocks
        /\ size \in Nat /\ remaining \in Nat
        /\ size - remaining = Len(iov) * BLOCK_SZ
    BY <1>0, <2>1 DEF BlockInv, TypeOK
  <2>3. Len(iov) = blocks
    BY <2>1, <2>2
  <2>4. ~(size <= blocks * BLOCK_SZ)
    <3>1. size - remaining = blocks * BLOCK_SZ
      BY <2>2, <2>3
    <3>2. blocks * BLOCK_SZ \in Nat
      BY <2>2
    <3> QED
      BY <2>1, <2>2, <3>1, <3>2
  <2>5. size > INT_MAX
    BY <1>0, <2>1, <2>2, <2>4 DEF BlockInv
  <2> QED
    BY <2>1, <2>5 DEF BlockInv
<1>g. CASE \/ FopenCheckFlags \/ FopenSpin \/ FreadEof \/ FreadBegin \/ FreadStop
           \/ FreadReturn \/ CatClose \/ MainExit
  BY <1>0, <1>g DEF FopenCheckFlags, FopenSpin, FreadEof, FreadBegin, FreadStop,
       FreadReturn, CatClose, MainExit, BlockInv, openVars
<1>h. CASE FopenEnter
  BY <1>0, <1>h DEF FopenEnter, GiveUp, BlockInv, openVars
<1>i. CASE FreadCopy
  BY <1>0, <1>i DEF FreadCopy, BlockInv, openVars
<1>j. CASE CatWrite
  BY <1>0, <1>j DEF CatWrite, BlockInv, openVars
<1>k. CASE UNCHANGED appVars
  BY <1>0, <1>k DEF BlockInv, appVars, openVars
<1> QED
  BY <1>a, <1>b, <1>c, <1>d, <1>e, <1>f, <1>g, <1>h, <1>i, <1>j, <1>k, <1>l
  DEF Next, App, Fopen, Fread, Kernel, FopenPause, Exited, vars

(* A round of the copy loop moves the position by what it copied.           *)
LEMMA CopyMoves ==
  ASSUME IInv, FreadCopy
  PROVE  /\ index' <= blocks /\ (index' = blocks => offset' = 0)
         /\ Len(out) + Len(chunk') = index' * BLOCK_SZ + offset'
         /\ chunk' # <<>> /\ Len(chunk') <= CHUNK
         /\ pc' = "copy" => index' < blocks /\ Len(chunk') < CHUNK
         /\ pc' = "return" => Len(chunk') = CHUNK \/ index' = blocks
<1> USE BlocksAssumption, MyCatAssumption
<1>1. pc = "copy"
  BY DEF FreadCopy
<1>2. /\ index \in Nat /\ blocks \in Nat /\ index < blocks
      /\ offset \in 0 .. BLOCK_SZ - 1
      /\ chunk \in Seq(Bytes) /\ Len(chunk) \in Nat
      /\ out \in Seq(Bytes) /\ Len(out) \in Nat
  BY <1>1 DEF IInv, TypeOK, BlockInv, PositionInv, Reading, Calling
<1>3. /\ ToCopy \in Nat \ {0} /\ offset + ToCopy <= BLOCK_SZ
      /\ Len(chunk) + ToCopy <= CHUNK
      /\ Len(out) + Len(chunk) = CopyFrom
  BY <1>1, CopyBounds
<1>4. chunk' \in Seq(Bytes) /\ Len(chunk') = Len(chunk) + ToCopy
  BY <1>1, CopiedBytes
<1>5. chunk' # <<>> /\ Len(chunk') \in Nat /\ Len(chunk') <= CHUNK
  BY <1>2, <1>3, <1>4
<1>6. pc' = IF Len(chunk) + ToCopy < CHUNK /\ index' < blocks
            THEN "copy" ELSE "return"
  BY DEF FreadCopy
<1>7. ASSUME offset + ToCopy >= BLOCK_SZ
      PROVE  /\ index' \in Nat /\ index' <= blocks
             /\ index' = blocks => offset' = 0
             /\ Len(out) + Len(chunk') = index' * BLOCK_SZ + offset'
  <2>1. index' = index + 1 /\ offset' = 0 /\ offset + ToCopy = BLOCK_SZ
    BY <1>2, <1>3, <1>7 DEF FreadCopy, BlockDone
  <2>2. (index + 1) * BLOCK_SZ = index * BLOCK_SZ + BLOCK_SZ
    BY <1>2
  <2>3. index * BLOCK_SZ \in Nat
    BY <1>2
  <2>4. Len(out) + Len(chunk') = index * BLOCK_SZ + (offset + ToCopy)
    BY <1>2, <1>3, <1>4, <2>3 DEF CopyFrom
  <2>5. Len(out) + Len(chunk') = index' * BLOCK_SZ + offset'
    BY <2>1, <2>2, <2>3, <2>4
  <2> QED
    BY <1>2, <2>1, <2>5
<1>8. ASSUME ~(offset + ToCopy >= BLOCK_SZ)
      PROVE  /\ index' \in Nat /\ index' <= blocks
             /\ index' = blocks => offset' = 0
             /\ Len(out) + Len(chunk') = index' * BLOCK_SZ + offset'
  <2>1. index' = index /\ offset' = offset + ToCopy
    BY <1>8 DEF FreadCopy, BlockDone
  <2>2. index * BLOCK_SZ \in Nat
    BY <1>2
  <2>3. Len(out) + Len(chunk') = index' * BLOCK_SZ + offset'
    BY <1>2, <1>3, <1>4, <2>1, <2>2 DEF CopyFrom
  <2> QED
    BY <1>2, <2>1, <2>3
<1>9. /\ index' \in Nat /\ index' <= blocks
      /\ index' = blocks => offset' = 0
      /\ Len(out) + Len(chunk') = index' * BLOCK_SZ + offset'
  BY <1>7, <1>8
<1>10. /\ pc' = "copy" => index' < blocks /\ Len(chunk') < CHUNK
       /\ pc' = "return" => Len(chunk') = CHUNK \/ index' = blocks
  <2>1. pc' = IF Len(chunk') < CHUNK /\ index' < blocks THEN "copy" ELSE "return"
    BY <1>4, <1>6
  <2>2. CASE Len(chunk') < CHUNK /\ index' < blocks
    BY <2>1, <2>2
  <2>3. CASE ~(Len(chunk') < CHUNK /\ index' < blocks)
    BY <1>2, <1>5, <1>9, <2>1, <2>3
  <2> QED
    BY <2>2, <2>3
<1> QED
  BY <1>5, <1>9, <1>10

(* Every byte moves the position by one, in a call or between calls. *)
LEMMA PositionStep ==
  ASSUME IInv, [Next]_vars
  PROVE  PositionInv'
<1> USE DEF Reading, Calling
<1>0. /\ TypeOK /\ RingInv /\ PhaseInv /\ BlockInv /\ PositionInv
      /\ Len(chunk) \in Nat /\ Len(out) \in Nat /\ RingTypeOK
  BY DEF IInv, TypeOK
<1>a. CASE FopenSpin
  <2>1. /\ out = <<>> /\ chunk = <<>> /\ isfirst = 0 /\ curBlock = 0
        /\ curOffset = 0 /\ cqHead = 0 /\ blocks \in Nat
    BY <1>0, <1>a DEF FopenSpin, PhaseInv, Opening, Built, BlockInv
  <2>2. /\ Len(out) = 0 /\ Len(chunk) = 0
        /\ Len(out) = curBlock * BLOCK_SZ + curOffset
    BY <2>1, BlocksAssumption
  <2>3. pc' = "fread" /\ UNCHANGED <<out, chunk, isfirst, curBlock, curOffset,
                                     cqHead, blocks>>
    BY <1>a DEF FopenSpin, ringVars, cqVars, openVars, posVars, callVars
  <2> QED
    BY <2>1, <2>2, <2>3, MyCatAssumption DEF PositionInv
<1>b. CASE FreadEof
  <2>1. /\ pc = "fread" /\ curBlock >= blocks /\ pc' = "close"
        /\ UNCHANGED <<out, chunk, isfirst, curBlock, curOffset, cqHead, cqRes,
                       blocks>>
    BY <1>b DEF FreadEof, AllRead, ringVars, cqVars, openVars, posVars, callVars
  <2>2. /\ curBlock <= blocks /\ (curBlock = blocks => curOffset = 0)
        /\ chunk = <<>> /\ Len(out) = curBlock * BLOCK_SZ + curOffset
        /\ curBlock \in Nat /\ blocks \in Nat
    BY <1>0, <2>1 DEF PositionInv, TypeOK, BlockInv
  <2>3. curBlock = blocks /\ curOffset = 0
    BY <2>1, <2>2
  <2>4. Len(out) = blocks * BLOCK_SZ
    BY <2>2, <2>3, BlocksAssumption
  <2> QED
    BY <1>0, <2>1, <2>2, <2>4 DEF PositionInv
<1>c. CASE FreadBegin
  <2>1. /\ pc = "fread" /\ ~(curBlock >= blocks) /\ pc' = "copy"
        /\ index' = curBlock /\ offset' = curOffset /\ head' = cqHead
        /\ chunk' = <<>>
        /\ UNCHANGED <<out, isfirst, curBlock, curOffset, cqHead, cqRes, blocks>>
    BY <1>c DEF FreadBegin, AllRead, ringVars, cqVars, openVars, posVars
  <2>2. curBlock < blocks /\ Len(chunk') = 0 /\ CHUNK > 0
        /\ Len(out') + Len(chunk') = Len(out)
    BY <1>0, <2>1, MyCatAssumption DEF TypeOK
  <2> QED
    BY <1>0, <2>1, <2>2, MyCatAssumption DEF PositionInv
<1>d. CASE FreadStop
  <2>1. /\ pc = "copy" /\ isfirst = 0 /\ (head = cqTail \/ cqRes < 0)
        /\ isfirst' = (IF head = cqTail THEN 0 ELSE 1) /\ pc' = "return"
        /\ UNCHANGED <<out, chunk, curBlock, curOffset, index, offset, head,
                       cqHead, cqTail, cqRes, blocks>>
    BY <1>d DEF FreadStop, ReadFailed, ringVars, cqVars, openVars, callVars
  <2>2. head = 0 /\ cqTail = 1
    BY <1>0, <2>1 DEF PositionInv, PhaseInv
  <2>3. cqRes < 0 /\ isfirst' = 1
    BY <2>1, <2>2
  <2>4. ~(cqRes >= 0)
    BY <1>0, <2>3 DEF TypeOK, RingTypeOK, Error
  <2> QED
    BY <1>0, <2>1, <2>3, <2>4 DEF PositionInv
<1>e. CASE FreadCopy
  <2>1. /\ pc = "copy" /\ isfirst' = 1 /\ pc' \in {"copy", "return"}
        /\ isfirst = 1 \/ ~(cqRes < 0)
        /\ UNCHANGED <<out, curBlock, curOffset, cqHead, cqRes, blocks>>
    BY <1>e DEF FreadCopy, ReadFailed, ringVars, cqVars, openVars
  <2>2. ~(cqRes < 0)
    BY <1>0, <2>1 DEF PositionInv
  <2> QED
    BY <1>0, <1>e, <2>1, <2>2, CopyMoves DEF PositionInv
<1>f. CASE FreadReturn
  <2>1. /\ pc = "return" /\ curBlock' = index /\ curOffset' = offset
        /\ cqHead' = head
        /\ pc' = IF chunk = <<>> THEN "close" ELSE "write"
        /\ UNCHANGED <<out, chunk, isfirst, index, offset, cqRes, blocks>>
    BY <1>f DEF FreadReturn, openVars, callVars
  <2>2. isfirst = 1
    BY <1>0, <2>1 DEF PositionInv
  <2>3. cqRes \in Int
    <3>1. RingTypeOK
      BY <1>0 DEF TypeOK
    <3> QED
      BY <3>1 DEF RingTypeOK, Error
  <2> QED
    BY <1>0, <2>1, <2>2, <2>3 DEF PositionInv
<1>g. CASE CatWrite
  <2>1. /\ pc = "write" /\ pc' = "fread" /\ out' = out \o chunk /\ chunk' = <<>>
        /\ UNCHANGED <<isfirst, curBlock, curOffset, cqHead, cqRes, blocks>>
    BY <1>g DEF CatWrite, ringVars, cqVars, openVars, posVars
  <2>2. Len(out') = Len(out) + Len(chunk) /\ Len(chunk') = 0
    BY <1>0, <2>1, ConcatProperties DEF TypeOK
  <2> QED
    BY <1>0, <2>1, <2>2, MyCatAssumption DEF PositionInv
<1>h. CASE Kernel
  <2>1. /\ UNCHANGED <<pc, out, chunk, isfirst, curBlock, curOffset, index,
                       offset, head, blocks>>
    BY <1>h DEF Kernel, appVars, openVars, posVars, callVars
  <2>2. pc \in Reading => UNCHANGED <<cqRes, cqHead>>
    BY <1>0, <1>h, KernelLeaves DEF Kernel, PhaseInv
  <2> QED
    BY <1>0, <2>1, <2>2 DEF PositionInv
<1>i. CASE UNCHANGED vars
  BY <1>0, <1>i DEF PositionInv, vars, ringVars, cqVars, appVars, openVars,
       posVars, callVars
<1>j. CASE pc' \notin Reading
  BY <1>j DEF PositionInv
<1> QED
  BY <1>a, <1>b, <1>c, <1>d, <1>e, <1>f, <1>g, <1>h, <1>i, <1>j, ReadingSteps

(* What is delivered stays what the buffers hold, in order. *)
LEMMA DeliveredStep ==
  ASSUME IInv, [Next]_vars
  PROVE  DeliveredInOrder'
<1> USE DEF Reading, Calling
<1>0. /\ TypeOK /\ RingInv /\ PhaseInv /\ PositionInv /\ DeliveredInOrder
      /\ out \in Seq(Bytes) /\ chunk \in Seq(Bytes)
      /\ Len(chunk) \in Nat /\ Len(out) \in Nat /\ RingTypeOK
  BY DEF IInv, TypeOK
<1>1. ASSUME pc' \in Reading PROVE ~InFlight'
  <2>1. cqTail' = 1
    BY <1>1, PhaseStep DEF PhaseInv
  <2>2. RingTypeOK' /\ RingInv'
    BY RingStep
  <2>3. sqHead' = 1 /\ sqTail' = 1
    BY <2>1, <2>2 DEF RingTypeOK, RingInv
  <2> QED
    BY <2>1, <2>3 DEF InFlight, Submitted, Running
<1> SUFFICES ASSUME pc' \in Reading
             PROVE  \A k \in 1 .. Len(Delivered') : Delivered'[k] = ByteAt(k - 1)'
  BY <1>1 DEF DeliveredInOrder
<1>2. CASE FopenSpin
  <2>1. out' = <<>> /\ chunk' = <<>>
    BY <1>0, <1>2 DEF FopenSpin, PhaseInv, Opening, callVars
  <2>2. Len(Delivered') = 0
    BY <2>1 DEF Delivered
  <2> QED
    BY <2>2
<1>3. CASE pc \in Reading
  <2>1. UNCHANGED <<filled, memory>>
    <3>1. CASE Kernel
      BY <1>0, <1>3, <3>1, KernelLeaves DEF Kernel, PhaseInv, appVars, openVars
    <3>2. CASE \/ FreadEof \/ FreadBegin \/ FreadStop \/ FreadCopy \/ FreadReturn
               \/ CatWrite
      BY <3>2 DEF FreadEof, FreadBegin, FreadStop, FreadCopy, FreadReturn,
           CatWrite, ringVars, openVars
    <3>3. CASE UNCHANGED vars
      BY <3>3 DEF vars, appVars, ringVars, openVars
    <3> QED
      BY <1>3, <3>1, <3>2, <3>3, ReadingSteps DEF FopenSpin
  <2>2. \A p : ByteAt(p)' = ByteAt(p)
    BY <2>1 DEF ByteAt
  <2>3. \A k \in 1 .. Len(Delivered) : Delivered[k] = ByteAt(k - 1)
    BY <1>0, <1>3 DEF DeliveredInOrder
  <2>4. CASE Delivered' = Delivered
    BY <2>2, <2>3, <2>4
  <2>5. CASE FreadCopy
    <3>1. /\ chunk' \in Seq(Bytes) /\ Len(chunk') = Len(chunk) + ToCopy
          /\ \A k \in 1 .. Len(chunk') :
               chunk'[k] = IF k <= Len(chunk) THEN chunk[k]
                           ELSE ByteAt(CopyFrom + k - Len(chunk) - 1)
      BY <2>5, CopiedBytes DEF FreadCopy
    <3>2. ToCopy \in Nat /\ CopyFrom = Len(out) + Len(chunk)
      BY <2>5, CopyBounds DEF FreadCopy
    <3>3. Delivered' = out \o chunk'
      BY <2>5 DEF FreadCopy, Delivered
    <3>4. /\ Len(Delivered) = Len(out) + Len(chunk)
          /\ \A k \in 1 .. Len(out) + Len(chunk) :
               Delivered[k] = IF k <= Len(out) THEN out[k] ELSE chunk[k - Len(out)]
      BY <1>0, ConcatProperties DEF Delivered
    <3>5. /\ Len(Delivered') = Len(out) + Len(chunk')
          /\ \A k \in 1 .. Len(out) + Len(chunk') :
               Delivered'[k] = IF k <= Len(out) THEN out[k] ELSE chunk'[k - Len(out)]
      BY <1>0, <3>1, <3>3, ConcatProperties
    <3> SUFFICES ASSUME NEW k \in 1 .. Len(Delivered')
                 PROVE  Delivered'[k] = ByteAt(k - 1)
      BY <2>2
    <3>6. CASE k <= Len(Delivered)
      <4>1. k \in 1 .. Len(Delivered)
        BY <1>0, <3>1, <3>2, <3>4, <3>5, <3>6
      <4>2. Delivered'[k] = Delivered[k]
        <5>1. CASE k <= Len(out)
          BY <3>4, <3>5, <4>1, <5>1
        <5>2. CASE ~(k <= Len(out))
          <6>1. k - Len(out) \in 1 .. Len(chunk)
            BY <1>0, <3>4, <4>1, <5>2
          <6>2. k - Len(out) \in 1 .. Len(chunk')
            BY <1>0, <3>1, <3>2, <6>1
          <6>3. chunk'[k - Len(out)] = chunk[k - Len(out)]
            BY <3>1, <6>1, <6>2
          <6> QED
            BY <3>4, <3>5, <4>1, <5>2, <6>3
        <5> QED
          BY <5>1, <5>2
      <4> QED
        BY <2>3, <4>1, <4>2
    <3>7. CASE k > Len(Delivered)
      <4>1. /\ k - Len(out) \in 1 .. Len(chunk') /\ k - Len(out) > Len(chunk)
            /\ CopyFrom + (k - Len(out)) - Len(chunk) - 1 = k - 1
        BY <1>0, <3>1, <3>2, <3>4, <3>5, <3>7
      <4>2. Delivered'[k] = chunk'[k - Len(out)]
        BY <1>0, <3>1, <3>2, <3>4, <3>5, <3>7
      <4>3. chunk'[k - Len(out)]
              = ByteAt(CopyFrom + (k - Len(out)) - Len(chunk) - 1)
        BY <1>0, <3>1, <4>1
      <4> QED
        BY <4>1, <4>2, <4>3
    <3> QED
      BY <1>0, <3>1, <3>2, <3>4, <3>5, <3>6, <3>7
  <2>6. CASE FreadBegin
    <3>1. chunk = <<>> /\ chunk' = <<>> /\ out' = out
      BY <1>0, <2>6 DEF FreadBegin, PositionInv
    <3> QED
      BY <2>4, <3>1 DEF Delivered
  <2>7. CASE CatWrite
    <3>1. out' = out \o chunk /\ chunk' = <<>>
      BY <2>7 DEF CatWrite
    <3>2. Delivered' = Delivered
      BY <1>0, <3>1, ConcatProperties, ConcatEmptySeq DEF Delivered
    <3> QED
      BY <2>4, <3>2
  <2>8. CASE \/ FreadEof \/ FreadStop \/ FreadReturn \/ Kernel \/ UNCHANGED vars
    BY <2>4, <2>8 DEF FreadEof, FreadStop, FreadReturn, Kernel, vars, appVars,
         callVars, Delivered
  <2> QED
    BY <1>3, <2>5, <2>6, <2>7, <2>8, ReadingSteps DEF FopenSpin
<1> QED
  BY <1>2, <1>3, ReadingSteps DEF FreadEof, FreadBegin, FreadStop, FreadCopy,
     FreadReturn, CatWrite, Kernel, vars, appVars

-----------------------------------------------------------------------------
(* The invariant holds when main starts. *)
LEMMA InitIInv ==
  ASSUME Init
  PROVE  IInv
<1> USE MyCatAssumption, BlocksAssumption DEF Init, RingInit
<1>1. <<>> \in Seq(1 .. BLOCK_SZ) /\ <<>> \in Seq(StaleBytes)
      /\ <<>> \in Seq(Bytes)
  BY EmptySeq
<1>2. TypeOK
  <2>1. RingTypeOK
    BY DEF RingTypeOK, PollerStates, Error
  <2>2. pc \in Labels
    BY DEF Labels
  <2>3. /\ arg \in 0 .. NFiles /\ fds \in 0 .. FdLimit
        /\ curOffset \in 0 .. BLOCK_SZ - 1 /\ offset \in 0 .. BLOCK_SZ - 1
    OBVIOUS
  <2>4. overtaken \in BOOLEAN /\ isfirst \in {0, 1} /\ live = {}
    OBVIOUS
  <2>5. /\ size \in Nat /\ blocks \in Int /\ remaining \in Nat
        /\ curBlock \in Nat /\ index \in Nat /\ head \in Nat
    OBVIOUS
  <2> QED
    BY <1>1, <2>1, <2>2, <2>3, <2>4, <2>5 DEF TypeOK
<1>3. RingInv
  BY DEF RingInv
<1>4. PhaseInv /\ WakeInv /\ BlockInv /\ PositionInv /\ DeliveredInOrder
  BY DEF PhaseInv, WakeInv, BlockInv, PositionInv, DeliveredInOrder, Opening,
         Reading, Calling, Built, Sent
<1>5. HoldInv
  BY DEF HoldInv, Built, Reading, Calling, InFlight, Submitted, Running
<1> QED
  BY <1>2, <1>3, <1>4, <1>5 DEF IInv

(* Every step of the program and of the kernel keeps it. *)
LEMMA StepIInv ==
  ASSUME IInv, [Next]_vars
  PROVE  IInv'
  BY TypeStep, RingStep, PhaseStep, WakeStep, HoldStep, BlockStep, PositionStep,
     DeliveredStep DEF IInv

(* IInv is an invariant.                                                    *)
THEOREM Invariance ==
  Spec => []IInv
<1>1. Init => IInv
  BY InitIInv
<1>2. IInv /\ [Next]_vars => IInv'
  BY StepIInv
<1> QED
  BY <1>1, <1>2, PTL DEF Spec

(* TypeOK holds: in particular the position saved in mf stays inside a      *)
(* block and no more descriptors are closed than were opened.               *)
THEOREM TypeCorrect ==
  Spec => []TypeOK
<1>1. IInv => TypeOK
  BY DEF IInv
<1> QED
  BY <1>1, Invariance, PTL

(* fi is overrun by no file an int can measure, and any other file that the  *)
(* allocation does not refuse overruns it before it is submitted; what is    *)
(* submitted names exactly the filled iovecs (host.cpp:81-139).             *)
THEOREM OverrunsOnlyPastIntMax ==
  Spec => []OverrunOnlyPastIntMax
<1>1. ASSUME IInv PROVE OverrunOnlyPastIntMax
  <2> USE <1>1 DEF IInv
  <2>1. pc = "overrun" => size > INT_MAX
    BY DEF BlockInv
  <2>2. ASSUME pc \in Sent \cup Reading
        PROVE  /\ size <= INT_MAX /\ Len(iov) = blocks
               /\ (blocks - 1) * BLOCK_SZ < size /\ size <= blocks * BLOCK_SZ
    BY <2>2 DEF BlockInv, Built, Sent
  <2> QED
    BY <2>1, <2>2 DEF OverrunOnlyPastIntMax, Sent
<1> QED
  BY <1>1, Invariance, PTL

(* my_fread copies inside the block and inside the caller's buffer.         *)
THEOREM CopiesInBounds ==
  Spec => []CopyInBounds
<1>1. ASSUME IInv PROVE CopyInBounds
  <2> SUFFICES ASSUME pc = "copy"
               PROVE  /\ index < Len(iov) /\ Len(chunk) < CHUNK
                      /\ offset + ToCopy <= BLOCK_SZ
                      /\ Len(chunk) + ToCopy <= CHUNK
    BY DEF CopyInBounds
  <2>1. Len(chunk) < CHUNK
    BY <1>1 DEF IInv, PositionInv, Reading, Calling
  <2> QED
    BY <1>1, <2>1, CopyBounds
<1> QED
  BY <1>1, Invariance, PTL

(* Nothing that the kernel or cat still needs is closed or freed, although  *)
(* only the spin at the end of my_fopen keeps my_fclose from racing the     *)
(* read (host.cpp:160-166, 171-200).                                        *)
THEOREM NeededIsHeld ==
  Spec => []NothingNeededIsReleased
<1>1. IInv => NothingNeededIsReleased
  BY DEF IInv, HoldInv, Held, NothingNeededIsReleased
<1> QED
  BY <1>1, Invariance, PTL

(* The wake-up is lost only if the load of the flags overtook the store of  *)
(* the tail (host.cpp:145-152).                                            *)
THEOREM WakeupLostOnlyIfOvertaken ==
  Spec => []LostWakeupOnlyIfOvertaken
<1>1. IInv => LostWakeupOnlyIfOvertaken
  BY DEF IInv, WakeInv, TypeOK, LostWakeupOnlyIfOvertaken, LostWakeup
<1> QED
  BY <1>1, Invariance, PTL

(* my_fopen spins while its read is under way, or its entry is seen by an    *)
(* awake poller; or it read the flags while the tail was still in the store *)
(* buffer (host.cpp:145-166).                                               *)
NoSpinForNothing ==
  pc = "spin" /\ ~Completed =>
    \/ Running
    \/ Submitted /\ poller = "polling" /\ sqSeen = sqTail
    \/ Submitted /\ overtaken

(* The safety half of ExitsUnlessWakeupLost. *)
THEOREM NeverSpinsForNothing ==
  Spec => []NoSpinForNothing
<1>1. ASSUME IInv PROVE NoSpinForNothing
  <2> SUFFICES ASSUME pc = "spin", ~Completed
               PROVE  \/ Running
                      \/ Submitted /\ poller = "polling" /\ sqSeen = sqTail
                      \/ Submitted /\ overtaken
    BY DEF NoSpinForNothing
  <2>1. sqTail = 1 /\ cqHead = 0
    BY <1>1 DEF IInv, PhaseInv, Sent, Opening
  <2>2. cqTail = 0
    BY <2>1 DEF Completed
  <2>3. Running \/ Submitted
    BY <2>1, <2>2 DEF Running, Submitted
  <2> QED
    BY <1>1, <2>3 DEF IInv, WakeInv
<1> QED
  BY <1>1, Invariance, PTL

(* The bytes delivered are the buffers', in order, each once, and none was  *)
(* read before the kernel was done (device.cpp:173-225).                    *)
THEOREM AlwaysDeliveredInOrder ==
  Spec => []DeliveredInOrder
<1>1. IInv => DeliveredInOrder
  BY DEF IInv
<1> QED
  BY <1>1, Invariance, PTL

(* A file whose read was complete is delivered whole before it is closed.   *)
THEOREM AlwaysWholeFile ==
  Spec => []WholeFileDelivered
<1>1. ASSUME IInv PROVE WholeFileDelivered
  <2> USE <1>1 DEF IInv
  <2> SUFFICES ASSUME pc = "close", cqRes = size
               PROVE  /\ size <= Len(out) /\ Len(out) < size + BLOCK_SZ
                      /\ \A k \in 1 .. size : out[k] = k - 1
    BY DEF WholeFileDelivered
  <2>1. size \in Nat /\ blocks \in Nat /\ out \in Seq(Bytes) /\ filled \in Nat
    BY DEF TypeOK, RingTypeOK, BlockInv, Reading
  <2>2. chunk = <<>> /\ Len(out) = blocks * BLOCK_SZ
    <3>1. ~(cqRes < 0)
      BY <2>1
    <3> QED
      BY <3>1 DEF PositionInv, Reading
  <2>3. filled = size
    <3>1. cqTail = 1
      BY DEF PhaseInv, Reading
    <3>2. cqRes = filled \/ cqRes = -1
      BY <3>1 DEF RingInv, Error
    <3> QED
      BY <2>1, <3>2
  <2>4. size <= Len(out) /\ Len(out) < size + BLOCK_SZ
    <3>1. (blocks - 1) * BLOCK_SZ < size /\ size <= blocks * BLOCK_SZ
      BY DEF BlockInv, Reading
    <3>2. (blocks - 1) * BLOCK_SZ = blocks * BLOCK_SZ - BLOCK_SZ
      BY <2>1, BlocksAssumption
    <3>3. blocks * BLOCK_SZ \in Nat
      BY <2>1, BlocksAssumption
    <3> QED
      BY <2>1, <2>2, <3>1, <3>2, <3>3, BlocksAssumption
  <2>5. Delivered = out
    BY <2>1, <2>2, ConcatEmptySeq DEF Delivered
  <2>6. ASSUME NEW k \in 1 .. size PROVE out[k] = k - 1
    <3>1. k \in 1 .. Len(out) /\ k - 1 < filled
      BY <2>1, <2>3, <2>4
    <3>2. out[k] = ByteAt(k - 1)
      BY <2>5, <3>1 DEF DeliveredInOrder, Reading
    <3> QED
      BY <3>1, <3>2 DEF ByteAt
  <2> QED
    BY <2>4, <2>6
<1> QED
  BY <1>1, Invariance, PTL
-----------------------------------------------------------------------------
(* my_cat implements FileStream: to whoever reads its output, it delivers   *)
(* the stream of one file after the other, piece by piece and in order,     *)
(* whatever the rings, pollers and blocks below do.                        *)

(* Only my_fclose ends the reading of a file. *)
LEMMA ReadingLeft ==
  ASSUME IInv, [Next]_vars, pc \in Reading, pc' \notin Reading
  PROVE  CatClose
<1> USE DEF Reading, Calling
<1>1. CASE FopenSetup \/ FopenOpen \/ FopenStat \/ FopenRegister \/ FopenAlloc
           \/ FopenIovec \/ FopenOverrun \/ FopenSubmit \/ FopenCheckFlags
           \/ FopenEnter \/ FopenSpin \/ MainExit
  BY <1>1 DEF FopenSetup, FopenOpen, FopenStat, FopenRegister, FopenAlloc,
       FopenIovec, FopenOverrun, FopenSubmit, FopenCheckFlags, FopenEnter, FopenSpin, MainExit
<1>2. CASE FreadEof \/ FreadBegin \/ FreadStop \/ FreadReturn \/ CatWrite
  BY <1>2 DEF FreadEof, FreadBegin, FreadStop, FreadReturn, CatWrite
<1>3. CASE FreadCopy
  BY <1>3 DEF FreadCopy
<1>4. CASE UNCHANGED appVars
  BY <1>4 DEF appVars
<1> QED
  BY <1>1, <1>2, <1>3, <1>4
  DEF Next, App, Fopen, Fread, Kernel, FopenPause, Exited, vars

(* The bounds IInv gives for a file that is being read. *)
LEMMA ImageFacts ==
  ASSUME IInv, pc \in Sent \cup Reading, ~(cqRes < 0)
  PROVE  /\ Image \in Seq(Bytes)
         /\ Len(Image) = blocks * BLOCK_SZ /\ Len(Image) \in Nat
         /\ \A i \in 1 .. Len(Image) : Image[i] = ByteAt(i - 1)
<1>1. blocks * BLOCK_SZ \in Nat
  BY BlocksAssumption DEF IInv, BlockInv, Built, Sent
<1>2. Image = [i \in 1 .. blocks * BLOCK_SZ |-> ByteAt(i - 1)]
  BY DEF Image
<1>3. ASSUME NEW i \in 1 .. blocks * BLOCK_SZ PROVE ByteAt(i - 1) \in Bytes
  <2>1. i - 1 \in 0 .. blocks * BLOCK_SZ - 1
    BY <1>1
  <2> QED
    BY <2>1, ByteAtType
<1> QED
  BY <1>1, <1>2, <1>3

(* The stream is nothing, or the file in whole blocks. *)
LEMMA ImageShape ==
  ASSUME IInv, pc \in Sent \cup Reading
  PROVE  /\ Image \in Seq(Nat \cup StaleBytes)
         /\ Image = <<>> \/ \E n \in Sizes : Stream!IsImage(Image, n)
<1>1. CASE cqRes < 0
  BY <1>1, EmptySeq DEF Image
<1>2. CASE ~(cqRes < 0)
  <2>1. /\ size \in Sizes /\ size \in Nat /\ blocks \in Nat /\ filled \in Nat
        /\ (blocks - 1) * BLOCK_SZ < size /\ size <= blocks * BLOCK_SZ
        /\ memory \in Seq(StaleBytes) /\ Len(memory) = blocks * BLOCK_SZ
    BY DEF IInv, BlockInv, TypeOK, RingTypeOK, Built, Sent
  <2>2. filled \in 0 .. size
    BY <2>1 DEF IInv, RingInv, PhaseInv
  <2>3. Len(Image) % BLOCK_SZ = 0
    BY <1>2, <2>1, ImageFacts, MultipleMod
  <2>4. size <= Len(Image) /\ Len(Image) < size + BLOCK_SZ
    <3>1. (blocks - 1) * BLOCK_SZ = blocks * BLOCK_SZ - BLOCK_SZ
      BY <2>1, BlocksAssumption
    <3> QED
      BY <1>2, <2>1, <3>1, ImageFacts, BlocksAssumption
  <2>5. ASSUME NEW i \in 1 .. Len(Image)
        PROVE  IF i <= filled THEN Image[i] = i - 1 ELSE Image[i] \in StaleBytes
    <3>1. Image[i] = ByteAt(i - 1) /\ i \in 1 .. Len(memory)
      BY <1>2, <2>1, ImageFacts
    <3>2. CASE i <= filled
      BY <2>1, <3>1, <3>2 DEF ByteAt
    <3>3. CASE ~(i <= filled)
      <4>1. memory[i] \in StaleBytes
        BY <2>1, <3>1, ElementOfSeq
      <4>2. ByteAt(i - 1) = memory[i]
        BY <2>1, <3>1, <3>3 DEF ByteAt
      <4> QED
        BY <3>1, <3>3, <4>1, <4>2
    <3> QED
      BY <3>2, <3>3
  <2>6. Stream!IsImage(Image, size)
    BY <2>2, <2>3, <2>4, <2>5 DEF Stream!IsImage
  <2> QED
    BY <1>2, <2>1, <2>6, ImageFacts DEF Bytes
<1> QED
  BY <1>1, <1>2

(* What has been delivered is a prefix of the stream. *)
LEMMA DeliveredIsPrefix ==
  ASSUME IInv, pc \in {"fread", "write", "close"}, ~(cqRes < 0)
  PROVE  /\ Delivered \in Seq(Bytes) /\ Len(Delivered) = Len(out) + Len(chunk)
         /\ Len(Delivered) <= Len(Image)
         /\ \A k \in 1 .. Len(Delivered) : Delivered[k] = Image[k]
<1> USE DEF Reading
<1>1. /\ out \in Seq(Bytes) /\ chunk \in Seq(Bytes)
      /\ Len(out) \in Nat /\ Len(chunk) \in Nat
      /\ curBlock \in Nat /\ curOffset \in 0 .. BLOCK_SZ - 1 /\ blocks \in Nat
  BY DEF IInv, TypeOK, BlockInv
<1>2. Delivered \in Seq(Bytes) /\ Len(Delivered) = Len(out) + Len(chunk)
  BY <1>1, ConcatProperties DEF Delivered
<1>3. Len(Delivered) <= blocks * BLOCK_SZ
  <2>1. CASE pc = "close"
    <3>1. chunk = <<>> /\ Len(out) = blocks * BLOCK_SZ
      BY <2>1 DEF IInv, PositionInv
    <3>2. Len(chunk) = 0 /\ blocks * BLOCK_SZ \in Nat
      BY <1>1, <3>1, BlocksAssumption
    <3> QED
      BY <1>1, <1>2, <3>1, <3>2
  <2>2. CASE pc # "close"
    <3>1. Len(out) + Len(chunk) = curBlock * BLOCK_SZ + curOffset
      <4>1. CASE pc = "fread"
        <5>1. chunk = <<>> /\ Len(out) = curBlock * BLOCK_SZ + curOffset
          BY <4>1 DEF IInv, PositionInv
        <5>2. Len(chunk) = 0
          BY <5>1
        <5> QED
          BY <1>1, <5>1, <5>2
      <4>2. CASE pc = "write"
        BY <4>2 DEF IInv, PositionInv
      <4> QED
        BY <2>2, <4>1, <4>2
    <3>2. curBlock <= blocks /\ (curBlock = blocks => curOffset = 0)
      BY DEF IInv, PositionInv
    <3>3. CASE curBlock = blocks
      <4>1. curOffset = 0 /\ blocks * BLOCK_SZ \in Nat
        BY <1>1, <3>2, <3>3, BlocksAssumption
      <4> QED
        BY <1>2, <3>1, <3>3, <4>1
    <3>4. CASE curBlock < blocks
      <4>1. curBlock * BLOCK_SZ + curOffset <= blocks * BLOCK_SZ
        <5>1. curOffset \in 0 .. BLOCK_SZ
          BY <1>1, BlocksAssumption
        <5> QED
          BY <1>1, <3>4, <5>1, InsideBlocks
      <4> QED
        BY <1>2, <3>1, <4>1
    <3> QED
      BY <1>1, <3>2, <3>3, <3>4
  <2> QED
    BY <2>1, <2>2
<1>4. Len(Delivered) <= Len(Image)
  BY <1>3, ImageFacts
<1>5. ASSUME NEW k \in 1 .. Len(Delivered) PROVE Delivered[k] = Image[k]
  <2>1. k \in 1 .. Len(Image)
    BY <1>1, <1>2, <1>4, ImageFacts
  <2>2. Delivered[k] = ByteAt(k - 1)
    BY DEF IInv, DeliveredInOrder
  <2> QED
    BY <2>1, <2>2, ImageFacts
<1> QED
  BY <1>2, <1>4, <1>5

(* A write delivers the next piece of the stream. *)
LEMMA WriteSends ==
  ASSUME IInv, CatWrite
  PROVE  out # Image /\ out' = SubSeq(Image, 1, Stream!Piece)
<1> USE DEF Reading
<1>1. pc = "write" /\ out' = Delivered
  BY DEF CatWrite, Delivered
<1>2. ~(cqRes < 0) /\ chunk # <<>> /\ Len(chunk) <= CHUNK
      /\ Len(out) + Len(chunk) = curBlock * BLOCK_SZ + curOffset
      /\ (Len(chunk) = CHUNK \/ curBlock = blocks)
      /\ (curBlock = blocks => curOffset = 0)
  BY <1>1 DEF IInv, PositionInv
<1>3. /\ Len(out) \in Nat /\ Len(chunk) \in Nat \ {0} /\ CHUNK \in Nat
      /\ blocks \in Nat
  BY <1>1, <1>2, MyCatAssumption DEF IInv, TypeOK, BlockInv
<1>4. /\ Delivered \in Seq(Bytes) /\ Len(Delivered) = Len(out) + Len(chunk)
      /\ Len(Delivered) <= Len(Image)
      /\ \A k \in 1 .. Len(Delivered) : Delivered[k] = Image[k]
      /\ Image \in Seq(Bytes) /\ Len(Image) \in Nat
      /\ Len(Image) = blocks * BLOCK_SZ
  BY <1>1, <1>2, DeliveredIsPrefix, ImageFacts
<1>5. Len(out) < Len(Image)
  BY <1>3, <1>4
<1>6. Stream!Piece = Len(Delivered)
  <2>1. Stream!Piece = IF Len(out) + CHUNK < Len(Image) THEN Len(out) + CHUNK
                       ELSE Len(Image)
    BY <1>1 DEF Stream!Piece
  <2>2. CASE Len(chunk) = CHUNK
    BY <1>3, <1>4, <2>1, <2>2
  <2>3. CASE curBlock = blocks
    <3>1. Len(Delivered) = Len(Image)
      BY <1>2, <1>3, <1>4, <2>3
    <3> QED
      BY <1>2, <1>3, <1>4, <2>1, <3>1
  <2> QED
    BY <1>2, <2>2, <2>3
<1>7. Delivered = SubSeq(Image, 1, Len(Delivered))
  <2> DEFINE front == SubSeq(Image, 1, Len(Delivered))
  <2>1. Len(Delivered) \in Nat
    BY <1>4
  <2>2. \A i \in 1 .. Len(Delivered) : Image[i] \in Bytes
    BY <1>4, <2>1, ElementOfSeq
  <2>3. front \in Seq(Bytes) /\ Len(front) = Len(Delivered)
        /\ \A i \in 1 .. Len(Delivered) : front[i] = Image[i]
    BY <1>4, <2>1, <2>2, SubSeqProperties
  <2> HIDE DEF front
  <2>4. Delivered = front
    BY <1>4, <2>3, SeqEqual
  <2> QED
    BY <2>4 DEF front
<1> QED
  BY <1>1, <1>5, <1>6, <1>7

(* At the close, all of it has been delivered. *)
LEMMA CloseAtEnd ==
  ASSUME IInv, pc = "close"
  PROVE  out = Image
<1> USE DEF Reading
<1>1. CASE cqRes < 0
  BY <1>1 DEF IInv, PositionInv, Image
<1>2. CASE ~(cqRes < 0)
  <2>1. chunk = <<>> /\ Len(out) = blocks * BLOCK_SZ /\ out \in Seq(Bytes)
    BY <1>2 DEF IInv, PositionInv, TypeOK
  <2>2. Delivered = out
    BY <2>1, ConcatEmptySeq DEF Delivered
  <2>3. /\ \A k \in 1 .. Len(out) : out[k] = Image[k]
        /\ Image \in Seq(Bytes) /\ Len(Image) = Len(out)
    BY <1>2, <2>1, <2>2, DeliveredIsPrefix, ImageFacts
  <2> QED
    BY <2>1, <2>3, SeqEqual
<1> QED
  BY <1>1, <1>2

(* While cat reads, only a write changes what the stream and out are. *)
LEMMA ReadingKeeps ==
  ASSUME IInv, [Next]_vars, pc \in Reading, pc' \in Reading, ~CatWrite
  PROVE  UNCHANGED <<arg, out, Image>>
<1> USE DEF Reading, Calling
<1>2. CASE \/ FreadEof \/ FreadBegin \/ FreadStop \/ FreadCopy \/ FreadReturn
  <2>1. UNCHANGED <<arg, out, cqRes, blocks, filled, memory>>
    BY <1>2 DEF FreadEof, FreadBegin, FreadStop, FreadCopy, FreadReturn,
         ringVars, cqVars, openVars
  <2> QED
    BY <2>1 DEF Image, ByteAt
<1>3. CASE Kernel
  <2>1. UNCHANGED <<arg, out, blocks, memory>>
    BY <1>3 DEF Kernel, appVars, openVars
  <2>2. UNCHANGED <<cqRes, filled>>
    BY <1>3, KernelLeaves DEF Kernel, IInv, TypeOK, PhaseInv
  <2> QED
    BY <2>1, <2>2 DEF Image, ByteAt
<1>4. CASE UNCHANGED vars
  BY <1>4 DEF vars, ringVars, cqVars, appVars, openVars, Image, ByteAt
<1> QED
  BY <1>2, <1>3, <1>4, ReadingSteps DEF FopenSpin

(* Outside of it, main goes through the arguments one by one. *)
LEMMA ArgMoves ==
  ASSUME IInv, [Next]_vars, pc \notin Reading
  PROVE  arg' = arg \/ (arg < NFiles /\ arg' = arg + 1)
<1> USE DEF Reading, Calling, Opening
<1>0. pc \in Opening => arg < NFiles
  BY DEF IInv, PhaseInv
<1>1. CASE FopenSetup
  BY <1>1 DEF FopenSetup, GiveUp
<1>2. CASE FopenOpen \/ FopenStat \/ FopenRegister \/ FopenAlloc \/ FopenEnter
  BY <1>0, <1>2 DEF FopenOpen, FopenStat, FopenRegister, FopenAlloc, FopenEnter,
       GiveUp
<1>3. CASE FopenIovec
  BY <1>0, <1>3 DEF FopenIovec, GiveUp
<1>4. CASE \/ FopenOverrun \/ FopenSubmit \/ FopenCheckFlags \/ FopenSpin
           \/ MainExit
  BY <1>4 DEF FopenOverrun, FopenSubmit, FopenCheckFlags, FopenSpin, MainExit
<1>5. CASE UNCHANGED appVars
  BY <1>5 DEF appVars
<1>6. CASE \/ FreadEof \/ FreadBegin \/ FreadStop \/ FreadCopy \/ FreadReturn
           \/ CatWrite \/ CatClose
  BY <1>6 DEF FreadEof, FreadBegin, FreadStop, FreadCopy, FreadReturn, CatWrite,
       CatClose
<1> QED
  BY <1>1, <1>2, <1>3, <1>4, <1>5, <1>6
  DEF Next, App, Fopen, Fread, Kernel, FopenPause, Exited, vars

(* my_cat delivers streams: every run of it is one of FileStream.           *)
THEOREM DeliversStreams ==
  Spec => StreamSpec
<1> DEFINE content == IF pc \in Reading THEN Image ELSE <<>>
           sent == IF pc \in Reading THEN out ELSE <<>>
           phase == IF pc \in Reading THEN "open" ELSE "idle"
           abs == <<arg, phase, content, sent>>
<1>1. Init => Stream!StreamInit
  BY DEF Init, RingInit, Stream!StreamInit, Reading, Calling
<1>2. ASSUME IInv, IInv', [Next]_vars
      PROVE  [Stream!StreamNext]_(Stream!streamVars)
  <2> USE <1>2
  <2>1. CASE pc \notin Reading /\ pc' \notin Reading
    <3>1. UNCHANGED <<phase, content, sent>>
      BY <2>1
    <3>2. phase = "idle"
      BY <2>1
    <3>3. arg' = arg => UNCHANGED Stream!streamVars
      BY <3>1 DEF Stream!streamVars
    <3>4. arg < NFiles /\ arg' = arg + 1 => Stream!Skip
      BY <3>1, <3>2 DEF Stream!Skip
    <3> QED
      BY <2>1, <3>3, <3>4, ArgMoves DEF Stream!StreamNext
  <2>2. CASE pc \notin Reading /\ pc' \in Reading
    <3>1. FopenSpin
      BY <2>2, ReadingSteps DEF FreadEof, FreadBegin, FreadStop, FreadCopy,
         FreadReturn, CatWrite, Kernel, vars, appVars, Reading, Calling
    <3>2. UNCHANGED arg /\ out' = <<>> /\ arg < NFiles
      BY <3>1 DEF FopenSpin, IInv, PhaseInv, Opening
    <3>3. /\ content' \in Seq(Nat \cup StaleBytes)
          /\ content' = <<>> \/ \E n \in Sizes : Stream!IsImage(content', n)
      <4>1. /\ Image \in Seq(Nat \cup StaleBytes)
            /\ Image = <<>> \/ \E n \in Sizes : Stream!IsImage(Image, n)
        BY <3>1, ImageShape DEF FopenSpin, Sent
      <4>2. Image' = Image
        BY <3>1 DEF FopenSpin, ringVars, cqVars, openVars, Image, ByteAt
      <4>3. content' = Image
        BY <2>2, <4>2
      <4> QED
        BY <4>1, <4>3
    <3>4. phase = "idle" /\ phase' = "open" /\ UNCHANGED sent
      BY <2>2, <3>2
    <3> QED
      BY <3>2, <3>3, <3>4 DEF Stream!StreamNext, Stream!Open
  <2>3. CASE pc \in Reading /\ pc' \notin Reading
    <3>1. CatClose
      BY <2>3, ReadingLeft
    <3>2. arg' = arg + 1 /\ pc = "close"
      BY <3>1 DEF CatClose
    <3>3. out = Image
      BY <3>2, CloseAtEnd
    <3>4. /\ phase = "open" /\ phase' = "idle" /\ content' = <<>> /\ sent' = <<>>
          /\ sent = content
      BY <2>3, <3>3
    <3> QED
      BY <3>2, <3>4 DEF Stream!StreamNext, Stream!Close
  <2>4. CASE pc \in Reading /\ pc' \in Reading
    <3>1. CASE CatWrite
      <4>1. out # Image /\ out' = SubSeq(Image, 1, Stream!Piece)
        BY <3>1, WriteSends
      <4>2. UNCHANGED <<arg, Image>>
        BY <3>1 DEF CatWrite, ringVars, cqVars, openVars, Image, ByteAt
      <4>3. /\ phase = "open" /\ UNCHANGED phase /\ UNCHANGED content
            /\ sent # content /\ sent' = SubSeq(content, 1, Stream!Piece)
        BY <2>4, <4>1, <4>2
      <4> QED
        BY <4>2, <4>3 DEF Stream!StreamNext, Stream!Send
    <3>2. CASE ~CatWrite
      <4>1. UNCHANGED <<arg, out, Image>>
        BY <2>4, <3>2, ReadingKeeps
      <4> QED
        BY <2>4, <4>1 DEF Stream!streamVars
    <3> QED
      BY <3>1, <3>2
  <2> QED
    BY <2>1, <2>2, <2>3, <2>4
<1>3. Spec => []IInv
  BY Invariance
<1> QED
  BY <1>1, <1>2, <1>3, PTL DEF Spec, StreamSpec, Stream!StreamSpec
=============================================================================
