---------------------------- MODULE Uring_proofs ----------------------------
(***************************************************************************)
(* What every my_cat proof needs: the arithmetic of the blocks a file is cut *)
(* into, for every BLOCK_SZ and INT_MAX, and how far one entry can be on     *)
(* its way through the ring, whatever the kernel does.                      *)
(***************************************************************************)
EXTENDS Uring, Blocks, TLAPS

(* Division with remainder, as the solver needs it.                         *)
LEMMA DivMod ==
  ASSUME NEW a \in Nat, NEW b \in Nat \ {0}
  PROVE  /\ a \div b \in Nat
         /\ a % b \in 0 .. b - 1
         /\ a = b * (a \div b) + (a % b)
  BY Z3

(* Whole blocks leave no rest. *)
LEMMA MultipleMod ==
  ASSUME NEW n \in Nat
  PROVE  (n * BLOCK_SZ) % BLOCK_SZ = 0
  BY BlocksAssumption

(* Blocks make up a natural number of bytes. *)
LEMMA BlockMultiple ==
  ASSUME NEW n \in Nat \ {0}
  PROVE  n * BLOCK_SZ >= BLOCK_SZ
<1>1. (n - 1) * BLOCK_SZ \in Nat
  BY BlocksAssumption
<1> QED
  BY <1>1, BlocksAssumption

(* A size an int can hold survives the conversion (host.cpp:81).            *)
LEMMA ToIntOfInt ==
  ASSUME NEW n \in 0 .. INT_MAX
  PROVE  ToInt(n) = n
<1>1. n % (2 * INT_MAX + 2) = n
  BY BlocksAssumption, SMT
<1> QED
  BY <1>1, BlocksAssumption, SMT DEF ToInt

(* Two counts of blocks that both cover s, one of them without one to spare. *)
LEMMA CountsCompare ==
  ASSUME NEW B \in Nat \ {0}, NEW m \in Int, NEW n \in Int, NEW s \in Int,
         (m - 1) * B < s, s <= n * B
  PROVE  m <= n
<1> SUFFICES ASSUME m > n PROVE FALSE
  BY SMT
<1>1. m - 1 - n \in Nat
  BY SMT
<1>2. (m - 1 - n) * B \in Nat
  BY <1>1, SMT
<1> QED
  BY <1>2, SMT

(* Fewer blocks hold no more. *)
LEMMA FewerBlocks ==
  ASSUME NEW b \in Nat, NEW i \in Nat, i <= b, NEW s \in Nat,
         s <= i * BLOCK_SZ
  PROVE  ~(b * BLOCK_SZ < s)
<1> USE BlocksAssumption
<1>1. (b - i) * BLOCK_SZ \in Nat
  OBVIOUS
<1>2. (b - i) * BLOCK_SZ = b * BLOCK_SZ - i * BLOCK_SZ
  OBVIOUS
<1>3. b * BLOCK_SZ \in Nat /\ i * BLOCK_SZ \in Nat
  OBVIOUS
<1> QED
  BY <1>1, <1>2, <1>3

(* A position inside block i of b ends inside block i, and so inside all b. *)
LEMMA InsideBlocks ==
  ASSUME NEW b \in Nat, NEW i \in Nat, i < b, NEW n \in 0 .. BLOCK_SZ
  PROVE  /\ i * BLOCK_SZ \in Nat /\ b * BLOCK_SZ \in Nat
         /\ i * BLOCK_SZ + n <= b * BLOCK_SZ
<1> USE BlocksAssumption
<1>1. i * BLOCK_SZ \in Nat /\ b * BLOCK_SZ \in Nat
  OBVIOUS
<1>2. (b - i) * BLOCK_SZ >= BLOCK_SZ
  BY BlockMultiple
<1>3. (b - i) * BLOCK_SZ = b * BLOCK_SZ - i * BLOCK_SZ
  OBVIOUS
<1>4. ASSUME NEW x \in Nat, NEW y \in Nat, y - x >= BLOCK_SZ
      PROVE  x + n <= y
  BY <1>4
<1> QED
  BY <1>1, <1>2, <1>3, <1>4

(* The quotient, with one more for a rest, is the size rounded up to blocks: *)
(* they hold the file, and all but the last one are full.                   *)
LEMMA QuotientRoundsUp ==
  ASSUME NEW n \in Nat
  PROVE  LET m == n \div BLOCK_SZ + (IF n % BLOCK_SZ # 0 THEN 1 ELSE 0)
         IN  m \in Nat /\ (m - 1) * BLOCK_SZ < n /\ n <= m * BLOCK_SZ
<1> DEFINE q == n \div BLOCK_SZ
           r == n % BLOCK_SZ
           m == q + (IF r # 0 THEN 1 ELSE 0)
<1>1. BLOCK_SZ \in Nat \ {0}
  BY BlocksAssumption
<1>2. q \in Nat /\ r \in 0 .. BLOCK_SZ - 1 /\ n = BLOCK_SZ * q + r
  BY <1>1, DivMod
<1>3. m = q + (IF r # 0 THEN 1 ELSE 0)
  OBVIOUS
<1>4. SUFFICES m \in Nat /\ (m - 1) * BLOCK_SZ < n /\ n <= m * BLOCK_SZ
  OBVIOUS
<1> HIDE DEF q, r, m
<1>5. CASE r = 0
  <2>1. m = q /\ n = BLOCK_SZ * q
    BY <1>1, <1>2, <1>3, <1>5, SMT
  <2>2. (q - 1) * BLOCK_SZ = BLOCK_SZ * q - BLOCK_SZ
    BY <1>1, <1>2, SMT
  <2> QED
    BY <1>1, <1>2, <2>1, <2>2, SMT
<1>6. CASE r # 0
  <2>1. m = q + 1
    BY <1>2, <1>3, <1>6, SMT
  <2>2. (q + 1) * BLOCK_SZ = BLOCK_SZ * q + BLOCK_SZ
    BY <1>1, <1>2, SMT
  <2>3. (q + 1 - 1) * BLOCK_SZ = BLOCK_SZ * q
    BY <1>1, <1>2, SMT
  <2> QED
    BY <1>1, <1>2, <1>6, <2>1, <2>2, <2>3, SMT
<1> QED
  BY <1>5, <1>6

(* A block count is an integer. *)
LEMMA BlockCountType ==
  ASSUME NEW n \in Nat
  PROVE  BlockCount(n) \in Int
<1> USE BlocksAssumption
<1>1. ToInt(n) \in Int
  BY DEF ToInt
<1>2. ASSUME NEW a \in Int PROVE CDiv(a, BLOCK_SZ) \in Int
  BY <1>2 DEF CDiv
<1> QED
  BY <1>1, <1>2 DEF BlockCount

(* The block count of a size that fits is the size rounded up               *)
(* (host.cpp:81-83).                                                       *)
THEOREM BlockCountRoundsUp ==
  ASSUME NEW n \in 0 .. INT_MAX
  PROVE  /\ BlockCount(n) \in Nat
         /\ (BlockCount(n) - 1) * BLOCK_SZ < n
         /\ n <= BlockCount(n) * BLOCK_SZ
<1>1. n \in Nat
  BY BlocksAssumption
<1>2. BlockCount(n) = n \div BLOCK_SZ + (IF n % BLOCK_SZ # 0 THEN 1 ELSE 0)
  BY <1>1, ToIntOfInt DEF BlockCount, CDiv
<1> QED
  BY <1>1, <1>2, QuotientRoundsUp

(* Narrowed, a size past INT_MAX has lost at least all that an int cannot    *)
(* tell apart.                                                             *)
LEMMA ToIntPastIntMax ==
  ASSUME NEW n \in Nat, n > INT_MAX
  PROVE  ToInt(n) \in Int /\ ToInt(n) <= n - (2 * INT_MAX + 2)
<1> DEFINE W == 2 * INT_MAX + 2
           q == n \div W
           m == n % W
<1>1. INT_MAX \in Nat /\ W \in Nat \ {0} /\ W = 2 * INT_MAX + 2
  BY BlocksAssumption
<1>2. q \in Nat /\ m \in 0 .. W - 1 /\ n = W * q + m
  BY <1>1, DivMod
<1>3. ToInt(n) = IF m > INT_MAX THEN m - W ELSE m
  BY DEF ToInt
<1> HIDE DEF W, q, m
<1>4. CASE q = 0
  BY <1>1, <1>2, <1>3, <1>4, SMT
<1>5. CASE q # 0
  <2>1. W * (q - 1) \in Nat /\ W * (q - 1) = W * q - W
    BY <1>1, <1>2, <1>5, SMT
  <2>2. m <= n - W
    BY <1>1, <1>2, <2>1, SMT
  <2> QED
    BY <1>1, <1>2, <1>3, <2>2, SMT
<1> QED
  BY <1>4, <1>5

(* A size past INT_MAX whose block count is not negative has a count that is *)
(* too small: the iovecs of those blocks do not hold the file              *)
(* (host.cpp:81-83).                                                       *)
THEOREM BlockCountFallsShort ==
  ASSUME NEW n \in Nat, n > INT_MAX, BlockCount(n) >= 0
  PROVE  BlockCount(n) \in Nat /\ BlockCount(n) * BLOCK_SZ < n
<1> DEFINE t == ToInt(n)
           up == IF n % BLOCK_SZ # 0 THEN 1 ELSE 0
           count == BlockCount(n)
<1>1. /\ BLOCK_SZ \in Nat \ {0} /\ INT_MAX \in Nat /\ BLOCK_SZ <= INT_MAX
      /\ t \in Int /\ t <= n - (2 * INT_MAX + 2) /\ up \in {0, 1}
  BY BlocksAssumption, ToIntPastIntMax
<1>2. count = CDiv(t, BLOCK_SZ) + up
  BY DEF BlockCount
<1>3. count >= 0
  OBVIOUS
<1> SUFFICES count \in Nat /\ count * BLOCK_SZ < n
  OBVIOUS
<1> HIDE DEF t, up, count
<1>4. CASE t >= 0
  <2> DEFINE q == t \div BLOCK_SZ
  <2>1. count = q + up
    BY <1>2, <1>4 DEF CDiv
  <2>2. q \in Nat /\ BLOCK_SZ * q <= t
    <3>1. t \in Nat
      BY <1>1, <1>4
    <3>2. /\ q \in Nat /\ t % BLOCK_SZ \in 0 .. BLOCK_SZ - 1
          /\ t = BLOCK_SZ * q + (t % BLOCK_SZ)
      BY <1>1, <3>1, DivMod
    <3> HIDE DEF q
    <3> QED
      BY <1>1, <3>1, <3>2, SMT
  <2> HIDE DEF q
  <2>3. (q + up) * BLOCK_SZ = BLOCK_SZ * q + up * BLOCK_SZ
    BY <1>1, <2>2, SMT
  <2>4. up * BLOCK_SZ <= BLOCK_SZ
    BY <1>1, SMT
  <2> QED
    BY <1>1, <2>1, <2>2, <2>3, <2>4, SMT
<1>5. CASE ~(t >= 0)
  <2> DEFINE q == (-t) \div BLOCK_SZ
  <2>1. count = -q + up
    BY <1>2, <1>5 DEF CDiv
  <2>2. q \in Nat
    <3>1. -t \in Nat
      BY <1>1, <1>5
    <3> QED
      BY <1>1, <3>1, DivMod
  <2> HIDE DEF q
  <2>3. count \in {0, 1}
    BY <1>1, <1>3, <2>1, <2>2, SMT
  <2> QED
    BY <1>1, <2>3, SMT
<1> QED
  BY <1>4, <1>5

(* So a count whose blocks hold the file is the right one, and the file is   *)
(* no longer than an int can tell.                                         *)
LEMMA CountThatHolds ==
  ASSUME NEW n \in Nat, n <= BlockCount(n) * BLOCK_SZ
  PROVE  /\ BlockCount(n) \in Nat
         /\ (BlockCount(n) - 1) * BLOCK_SZ < n
<1>1. BlockCount(n) \in Int /\ BLOCK_SZ \in Nat \ {0} /\ INT_MAX \in Nat
  BY BlockCountType, BlocksAssumption
<1>2. BlockCount(n) >= 0
  <2> SUFFICES ASSUME -BlockCount(n) \in Nat \ {0} PROVE FALSE
    BY <1>1
  <2>1. (-BlockCount(n)) * BLOCK_SZ >= BLOCK_SZ
    BY BlockMultiple
  <2>2. (-BlockCount(n)) * BLOCK_SZ = -(BlockCount(n) * BLOCK_SZ)
        /\ BlockCount(n) * BLOCK_SZ \in Int
    BY <1>1
  <2> QED
    BY <1>1, <2>1, <2>2
<1>3. ~(n > INT_MAX)
  <2>1. BlockCount(n) * BLOCK_SZ \in Int
    BY <1>1
  <2> QED
    BY <1>2, <2>1, BlockCountFallsShort
<1> QED
  BY <1>1, <1>3, BlockCountRoundsUp

-----------------------------------------------------------------------------
(* One entry goes through the ring: stored, seen, taken, completed.  Bytes   *)
(* are stored for a taken entry only, and a result reports all of them.     *)
RingInv ==
  /\ cqTail <= sqHead /\ sqHead <= sqSeen /\ sqSeen <= sqTail /\ sqTail <= 1
  /\ sqHead = 0 => filled = 0
  /\ filled <= want
  /\ cqTail = 0 => cqRes = 0
  /\ cqTail = 1 => cqRes = filled \/ cqRes = Error

(* What RingTypeOK says, for the arithmetic on it. *)
LEMMA RingNumbers ==
  ASSUME RingTypeOK
  PROVE  /\ {sqTail, sqSeen, sqHead, want, sqeLen} \subseteq Nat
         /\ {filled, cqHead, cqTail} \subseteq Nat
  BY DEF RingTypeOK

(* A ring is set up, or given up, empty. *)
LEMMA ResetRing ==
  ASSUME NEW p \in PollerStates, RingReset(p)
  PROVE  RingTypeOK' /\ RingInv'
  BY DEF RingReset, RingTypeOK, RingInv

(* The application stores its one entry. *)
LEMMA StoreRing ==
  ASSUME RingTypeOK, RingInv, sqTail = 0, NEW b \in Nat, NEW n \in Nat,
         StoreTail(b, n)
  PROVE  RingTypeOK' /\ RingInv'
<1> USE DEF StoreTail, cqVars
<1>1. RingTypeOK'
  BY DEF RingTypeOK
<1>2. RingInv'
  BY RingNumbers DEF RingInv
<1> QED
  BY <1>1, <1>2

(* io_uring_enter lets the poller see what there is. *)
LEMMA WakeRing ==
  ASSUME RingTypeOK, RingInv, WakePoller
  PROVE  RingTypeOK' /\ RingInv'
<1> USE DEF WakePoller, entryVars, cqVars
<1>1. RingTypeOK'
  BY DEF RingTypeOK, PollerStates
<1>2. RingInv'
  BY RingNumbers DEF RingInv
<1> QED
  BY <1>1, <1>2

(* Every step of the kernel keeps the ring's types... *)
LEMMA KernelType ==
  ASSUME RingTypeOK, KernelStep
  PROVE  RingTypeOK'
<1> USE UringAssumption DEF RingTypeOK, PollerStates, Error, entryVars, cqVars
<1>1. CASE Drain
  BY <1>1 DEF Drain
<1>2. CASE PollerFetch
  BY <1>2 DEF PollerFetch
<1>3. CASE PollerAnnounce
  BY <1>3 DEF PollerAnnounce
<1>4. CASE PollerRecheck
  BY <1>4 DEF PollerRecheck
<1>5. CASE ReadProgress
  BY <1>5 DEF ReadProgress
<1>6. CASE PostCompletion
  BY <1>6 DEF PostCompletion
<1> QED
  BY <1>1, <1>2, <1>3, <1>4, <1>5, <1>6 DEF KernelStep

(* ...and moves the entry on in order. *)
LEMMA KernelRing ==
  ASSUME RingTypeOK, RingInv, KernelStep
  PROVE  RingInv'
<1> USE RingNumbers DEF RingInv, entryVars, cqVars
<1>1. CASE Drain
  BY <1>1 DEF Drain
<1>2. CASE PollerFetch
  BY <1>2 DEF PollerFetch
<1>3. CASE PollerAnnounce \/ PollerRecheck
  BY <1>3 DEF PollerAnnounce, PollerRecheck
<1>4. CASE ReadProgress
  BY <1>4 DEF ReadProgress, Running
<1>5. CASE PostCompletion
  BY <1>5 DEF PostCompletion, Running
<1> QED
  BY <1>1, <1>2, <1>3, <1>4, <1>5 DEF KernelStep

(* What the kernel leaves to the application, and what is final once the     *)
(* completion is there.                                                    *)
LEMMA KernelLeaves ==
  ASSUME RingTypeOK, RingInv, KernelStep
  PROVE  /\ UNCHANGED <<sqTail, want, sqeLen, cqHead>>
         /\ cqTail = 1 => UNCHANGED <<cqTail, cqRes, filled>>
         /\ poller # "none" => poller' # "none"
         /\ Submitted' => Submitted
         /\ InFlight' => InFlight
<1> USE RingNumbers DEF RingInv, entryVars, cqVars, Submitted, Running, InFlight
<1>1. CASE Drain
  BY <1>1 DEF Drain
<1>2. CASE PollerFetch
  BY <1>2 DEF PollerFetch
<1>3. CASE PollerAnnounce \/ PollerRecheck
  BY <1>3 DEF PollerAnnounce, PollerRecheck
<1>4. CASE ReadProgress
  BY <1>4 DEF ReadProgress
<1>5. CASE PostCompletion
  BY <1>5 DEF PostCompletion
<1> QED
  BY <1>1, <1>2, <1>3, <1>4, <1>5 DEF KernelStep

(* A completed entry is in flight no more. *)
LEMMA CompletedIsOver ==
  ASSUME RingTypeOK, RingInv, cqTail = 1
  PROVE  ~InFlight /\ ~Running /\ filled \in 0 .. want
         /\ (cqRes < 0 \/ cqRes = filled)
<1>1. sqHead = 1 /\ sqTail = 1
  BY RingNumbers DEF RingInv
<1>2. ~InFlight /\ ~Running
  BY <1>1 DEF InFlight, Submitted, Running
<1>3. filled \in 0 .. want /\ (cqRes < 0 \/ cqRes = filled)
  BY RingNumbers DEF RingInv, Error
<1> QED
  BY <1>2, <1>3
=============================================================================
