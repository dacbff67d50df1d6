-------------------------- MODULE ManualRing_proofs --------------------------
(***************************************************************************)
(* The safety of ManualRing, for any number of files, any sizes, rings of   *)
(* any length, whatever fails and however late the kernel is.               *)
(***************************************************************************)
EXTENDS ManualRing, SequenceTheorems, FiniteSetTheorems, TLAPS

Printouts == [req : Nat, file : Files, res : Nat \cup {Error},
              own : SUBSET Nat, foreign : SUBSET Nat]

Reading == arg # WRITE

(* Where the program is, in either command.                                 *)
ModeInv ==
  /\ pc \in {"start", "command"} => arg = 0 /\ sqTail = 0
  /\ pc \in {"target", "wait", "written"} => ~Reading
  /\ pc \in {"open", "enter", "reap", "done"} => Reading
  /\ pc \in {"open", "store", "enter", "reap"} => arg <= NFiles
  /\ Reading /\ pc \in {"open", "store", "done"} => sqTail = arg - 1
  /\ Reading /\ pc \in {"enter", "reap"} => sqTail = arg
  /\ ~Reading => sqTail <= 1 /\ (pc \in {"target", "store"} => sqTail = 0)
  /\ pc \notin {"reap", "overrun"} => cqHead = head
  /\ Len(taken) <= sqTail /\ Len(printed) = head

(* The read command's entries are its files', the write command's the       *)
(* write's.  While none was overwritten the poller has seen one version of   *)
(* the entry it is reading.                                                *)
Kind == IF Reading THEN Files ELSE {WRITE}

EntryInv ==
  /\ \A n \in 0 .. sqTail - 1 : sqes[Slot(n)] \in Kind
  /\ seen \subseteq Kind
  /\ \A k \in 1 .. Len(taken) : taken[k] \in Fields(Kind)
  /\ seen # {} => Len(taken) < sqTail
  /\ ~overwritten => seen \subseteq {sqes[Slot(Len(taken))]}
  /\ \A k \in 1 .. Len(taken) : ~Intact(taken[k]) => overwritten

(* Without that they are in their order, in the ring and in the kernel.     *)
LineInv ==
  Reading /\ ~overwritten =>
    /\ sqTail - Len(taken) <= SQ_ENTRIES
    /\ \A n \in Len(taken) .. sqTail - 1 : sqes[Slot(n)] = n + 1
    /\ \A k \in 1 .. Len(taken) : taken[k] = Entry(k)

(* Each entry that was taken is running or answered, once; an answer says    *)
(* no more than the request stored.                                        *)
AnswerInv ==
  /\ IsFiniteSet(running) /\ Cardinality(running) + Len(posted) = Len(taken)
  /\ \A c \in 1 .. Len(posted) :
       posted[c].req \in (1 .. Len(taken)) \ running
  /\ \A c, d \in 1 .. Len(posted) : posted[c].req = posted[d].req => c = d
  /\ \A k \in (1 .. Len(taken)) \ running :
       \E c \in 1 .. Len(posted) : posted[c].req = k
  /\ \A c \in 1 .. Len(posted) :
       taken[posted[c].req].into # WRITE => posted[c].res <= got[posted[c].req]

PrintInv ==
  \A i \in 1 .. Len(printed) :
    LET p == printed[i]
    IN  /\ p.req \in 1 .. Len(taken)
        /\ Intact(taken[p.req]) => 1 .. p.res \subseteq p.own
        /\ p.foreign # {} => overwritten

(* While every round finds its completion there is one request at a time.   *)
LateInv ==
  ~late =>
    /\ ~overwritten /\ Len(posted) >= sqTail - 1
    /\ \A c \in 1 .. Len(posted) : posted[c].req = c
    /\ pc \in {"target", "open", "store", "done"} => head = sqTail
    /\ \A i \in 1 .. Len(printed) : printed[i].file = i

IInv ==
  /\ TypeOK /\ ModeInv /\ EntryInv /\ LineInv /\ AnswerInv /\ PrintInv /\ LateInv

-----------------------------------------------------------------------------
(* Places in a ring: within N of each other they differ.                    *)
LEMMA Division ==
  ASSUME NEW N \in Nat \ {0}, NEW n \in Nat
  PROVE  /\ n % N \in 0 .. N - 1 /\ n \div N \in Nat
         /\ n = N * (n \div N) + (n % N)
  OBVIOUS

LEMMA Multiples ==
  ASSUME NEW N \in Nat \ {0}, NEW p \in Nat, NEW q \in Nat, p < q
  PROVE  N * p + N <= N * q
<1>1. PICK d \in Nat : q = p + 1 + d
  OBVIOUS
<1>2. N * q = N * p + N + N * d
  BY <1>1
<1>3. N * d \in Nat /\ N * p \in Nat /\ N * q \in Nat
  OBVIOUS
<1> QED
  BY <1>2, <1>3

LEMMA Apart ==
  ASSUME NEW N \in Nat \ {0}, NEW m \in Nat, NEW n \in Nat, m < n, n - m < N
  PROVE  m % N # n % N
<1> SUFFICES ASSUME m % N = n % N
             PROVE  FALSE
  OBVIOUS
<1> DEFINE p == m \div N
           q == n \div N
           r == m % N
<1>1. p \in Nat /\ q \in Nat /\ m = N * p + r /\ n = N * q + r /\ r \in 0 .. N - 1
  BY Division
<1> HIDE DEF p, q, r
<1>2. CASE p < q
  BY <1>1, <1>2, Multiples
<1>3. CASE q < p
  BY <1>1, <1>3, Multiples
<1> QED
  BY <1>1, <1>2, <1>3

LEMMA Appended ==
  ASSUME NEW S, NEW s \in Seq(S), NEW e \in S
  PROVE  /\ Append(s, e) \in Seq(S)
         /\ Len(s) \in Nat /\ Len(Append(s, e)) = Len(s) + 1
         /\ \A n \in 1 .. Len(s) : Append(s, e)[n] = s[n]
         /\ Append(s, e)[Len(s) + 1] = e
         /\ \A n \in 1 .. Len(s) + 1 : n \in 1 .. Len(s) \/ n = Len(s) + 1
<1>1. Len(s) \in Nat
  BY LenProperties
<1>2. /\ Append(s, e) \in Seq(S) /\ Len(Append(s, e)) = Len(s) + 1
      /\ \A n \in 1 .. Len(s) : Append(s, e)[n] = s[n]
      /\ Append(s, e)[Len(s) + 1] = e
  BY AppendProperties
<1> QED
  BY <1>1, <1>2

(* The types of the state, in a form the steps below use.                   *)
LEMMA Types ==
  ASSUME TypeOK
  PROVE  /\ NFiles \in Nat \ {0} /\ SQ_ENTRIES \in Nat \ {0}
         /\ CQ_ENTRIES \in Nat \ {0}
         /\ arg \in Nat /\ sqTail \in Nat /\ cqTail \in Nat /\ head \in Nat
         /\ cqHead \in Nat /\ cqHead <= head /\ head <= cqTail
         /\ cqTail <= Len(posted)
         /\ size \in [Files -> Nat] /\ got \in Seq(Nat) /\ Len(got) = Len(taken)
         /\ sqes \in [0 .. SQ_ENTRIES - 1 -> Requests] /\ seen \subseteq Requests
         /\ taken \in Seq(Entries) /\ Len(taken) \in Nat
         /\ posted \in Seq(Completion) /\ Len(posted) \in Nat
         /\ printed \in Seq(Printouts) /\ Len(printed) \in Nat
         /\ running \subseteq 1 .. Len(taken)
         /\ \A k \in 1 .. Len(taken) : taken[k] \in Entries /\ got[k] \in Nat
         /\ \A c \in 1 .. Len(posted) :
              posted[c].req \in Nat /\ posted[c].res \in Nat \cup {Error}
         /\ \A n \in Nat : Slot(n) \in 0 .. SQ_ENTRIES - 1
<1>1. /\ NFiles \in Nat \ {0} /\ SQ_ENTRIES \in Nat \ {0}
      /\ CQ_ENTRIES \in Nat \ {0}
  BY ManualRingAssumption
<1>2. /\ arg \in 0 .. NFiles + 1 /\ sqTail \in Nat
      /\ cqTail \in 0 .. Len(posted) /\ head \in 0 .. cqTail
      /\ cqHead \in 0 .. head
      /\ size \in [Files -> Nat] /\ got \in Seq(Nat) /\ Len(got) = Len(taken)
      /\ sqes \in [0 .. SQ_ENTRIES - 1 -> Requests] /\ seen \subseteq Requests
      /\ taken \in Seq(Entries) /\ posted \in Seq(Completion)
      /\ printed \in Seq(Printouts)
      /\ running \subseteq 1 .. Len(taken)
  BY DEF TypeOK, Printouts
<1>3. Len(taken) \in Nat /\ Len(posted) \in Nat /\ Len(printed) \in Nat
  BY <1>2, LenProperties
<1>4. \A k \in 1 .. Len(taken) : taken[k] \in Entries /\ got[k] \in Nat
  BY <1>2, ElementOfSeq
<1>5. \A c \in 1 .. Len(posted) :
        posted[c].req \in Nat /\ posted[c].res \in Nat \cup {Error}
  <2>1. \A c \in 1 .. Len(posted) : posted[c] \in Completion
    BY <1>2, ElementOfSeq
  <2> QED
    BY <2>1 DEF Completion
<1>6. \A n \in Nat : Slot(n) \in 0 .. SQ_ENTRIES - 1
  BY <1>1, Division DEF Slot
<1>7. /\ arg \in Nat /\ cqTail \in Nat /\ head \in Nat /\ cqHead \in Nat
      /\ cqHead <= head /\ head <= cqTail /\ cqTail <= Len(posted)
  BY <1>1, <1>2, <1>3
<1> QED
  BY <1>1, <1>2, <1>3, <1>4, <1>5, <1>6, <1>7

(* No more is answered than taken.                                          *)
LEMMA Counts ==
  ASSUME IInv
  PROVE  /\ Cardinality(running) \in Nat /\ Len(posted) <= Len(taken)
         /\ Len(taken) <= sqTail /\ head <= Len(posted)
         /\ Len(printed) = head
<1>1. Cardinality(running) \in Nat
  BY FS_CardinalityType DEF IInv, AnswerInv
<1>2. Cardinality(running) + Len(posted) = Len(taken)
  BY DEF IInv, AnswerInv
<1>3. Len(taken) <= sqTail /\ Len(printed) = head
  BY DEF IInv, ModeInv
<1>4. /\ Len(posted) \in Nat /\ Len(taken) \in Nat /\ head \in Nat /\ cqTail \in Nat
      /\ head <= cqTail /\ cqTail <= Len(posted)
  BY Types DEF IInv
<1> QED
  BY <1>1, <1>2, <1>3, <1>4

LEMMA InitIInv == Init => IInv
<1> SUFFICES ASSUME Init
             PROVE  IInv
  OBVIOUS
<1>1. /\ <<>> \in Seq(Entries) /\ <<>> \in Seq(Completion)
      /\ <<>> \in Seq(Printouts) /\ <<>> \in Seq(Nat) /\ Len(<<>>) = 0
  BY EmptySeq
<1>2. NFiles \in Nat \ {0} /\ SQ_ENTRIES \in Nat \ {0}
  BY ManualRingAssumption
<1>3. WRITE \in Requests
  BY DEF Requests
<1>4. TypeOK
  <2>1. /\ sqes \in [0 .. SQ_ENTRIES - 1 -> Requests]
        /\ size \in [Files -> Nat]
    BY <1>3 DEF Init
  <2>2. /\ arg \in 0 .. NFiles + 1 /\ cqTail \in 0 .. Len(posted)
        /\ head \in 0 .. cqTail /\ cqHead \in 0 .. head /\ sqTail \in Nat
    BY <1>1, <1>2 DEF Init
  <2>3. /\ taken \in Seq(Entries) /\ posted \in Seq(Completion)
        /\ printed \in Seq(Printouts) /\ got \in Seq(Nat) /\ Len(got) = Len(taken)
    BY <1>1 DEF Init
  <2> QED
    BY <2>1, <2>2, <2>3 DEF Init, TypeOK, Printouts
<1>5. ModeInv
  BY <1>1 DEF Init, ModeInv, Reading, WRITE
<1>6. EntryInv /\ LineInv
  BY <1>1, <1>3 DEF Init, EntryInv, LineInv, Reading, WRITE
<1>7. AnswerInv
  <2>1. IsFiniteSet(running) /\ Cardinality(running) = 0
    BY FS_EmptySet DEF Init
  <2> QED
    BY <1>1, <2>1 DEF Init, AnswerInv
<1>8. PrintInv /\ LateInv
  BY <1>1 DEF Init, PrintInv, LateInv
<1> QED
  BY <1>4, <1>5, <1>6, <1>7, <1>8 DEF IInv

-----------------------------------------------------------------------------
(* The steps that change neither the entries nor the answers.               *)
LEMMA Frame ==
  ASSUME IInv, TypeOK', ModeInv',
         UNCHANGED <<sqTail, sqes, taken, running, got, posted, printed,
                     overwritten, late>>,
         seen' = seen \/ (sqHead # sqTail /\ seen' = {sqes[Slot(sqHead)]}),
         Reading' = Reading \/ sqTail = 0,
         ~late /\ pc' \in {"target", "open", "store", "done"} => head' = sqTail
  PROVE  IInv'
<1> USE DEF IInv
<1>1. EntryInv' /\ LineInv'
  <2>1. Len(taken) \in Nat /\ Len(taken) <= sqTail /\ SQ_ENTRIES \in Nat \ {0}
        /\ sqTail \in Nat
    BY Types DEF ModeInv
  <2>2. CASE Reading' = Reading
    <3>1. Kind' = Kind
      BY <2>2 DEF Kind
    <3>2. ASSUME sqHead # sqTail, seen' = {sqes[Slot(sqHead)]}
          PROVE  /\ seen' \subseteq Kind /\ Len(taken) < sqTail
                 /\ seen' \subseteq {sqes[Slot(Len(taken))]}
      <4>1. sqHead = Len(taken) /\ Len(taken) \in 0 .. sqTail - 1
            /\ Len(taken) < sqTail
        BY <2>1, <3>2 DEF sqHead
      <4> QED
        BY <3>2, <4>1 DEF EntryInv
    <3>3. EntryInv'
      BY <3>1, <3>2 DEF EntryInv
    <3> QED
      BY <2>2, <3>3 DEF LineInv
  <2>3. CASE sqTail = 0
    <3>1. Len(taken) = 0 /\ seen = {}
      BY <2>1, <2>3 DEF EntryInv
    <3>2. seen' = {}
      BY <2>3, <3>1 DEF sqHead
    <3> QED
      BY <2>1, <2>3, <3>1, <3>2 DEF EntryInv, LineInv
  <2> QED
    BY <2>2, <2>3
<1>2. AnswerInv'
  BY DEF AnswerInv
<1>3. PrintInv' /\ LateInv'
  BY DEF PrintInv, LateInv, Intact
<1> QED
  BY <1>1, <1>2, <1>3

LEMMA CommandSteps ==
  ASSUME IInv, Setup \/ Command \/ OpenFile \/ OpenTarget
  PROVE  IInv'
<1> USE DEF IInv
<1>1. CASE Setup
  <2>1. TypeOK'
    BY <1>1 DEF Setup, Fail, TypeOK, Ended, queueVars, outputVars
  <2>2. ModeInv'
    BY <1>1 DEF Setup, Fail, ModeInv, Reading, queueVars, outputVars, WRITE
  <2> QED
    BY <1>1, <2>1, <2>2, Frame
    DEF Setup, Fail, Reading, queueVars, outputVars
<1>2. CASE Command
  <2>1. arg = 0 /\ sqTail = 0 /\ head = 0
    <3>1. arg = 0 /\ sqTail = 0
      BY <1>2 DEF Command, ModeInv
    <3> QED
      BY <3>1, Counts, Types
  <2>2. TypeOK'
    <3>1. arg' \in 0 .. NFiles + 1
      <4>1. arg' = 0 \/ arg' = 1
        BY <1>2, <2>1 DEF Command, Fail
      <4>2. NFiles \in Nat \ {0}
        BY Types
      <4> QED
        BY <4>1, <4>2
    <3> QED
      BY <1>2, <3>1 DEF Command, Fail, TypeOK, Ended, queueVars, kernelVars,
                        outputVars
  <2>3. ModeInv'
    <3>1. NFiles \in Nat \ {0}
      BY Types
    <3>2. /\ UNCHANGED <<sqTail, taken, printed, head, cqHead>>
          /\ \/ pc' = "target" /\ arg' = 0
             \/ pc' = "open" /\ arg' = 1
             \/ pc' = "failed" /\ arg' = 0
      BY <1>2, <2>1 DEF Command, Fail, queueVars, kernelVars, outputVars
    <3>3. pc = "command" /\ Len(taken) <= sqTail /\ Len(printed) = head /\ cqHead = head
      BY <1>2 DEF Command, ModeInv
    <3> QED
      BY <2>1, <3>1, <3>2, <3>3 DEF ModeInv, Reading, WRITE
  <2> QED
    BY <1>2, <2>1, <2>2, <2>3, Frame
    DEF Command, Fail, Reading, queueVars, kernelVars, outputVars
<1>3. CASE OpenFile
  <2>1. /\ pc = "open" /\ pc' \in {"store", "failed"}
        /\ UNCHANGED <<arg, sqTail, sqes, poller, seen, taken, running, got,
                       posted, cqTail, cqHead, head, printed, overwritten, late>>
    BY <1>3 DEF OpenFile, Fail, queueVars, kernelVars, outputVars
  <2>2. size' \in [Files -> Nat]
    <3>1. Sizes \subseteq Nat
      BY ManualRingAssumption, BlocksAssumption
    <3>2. size' = size \/ \E n \in Sizes : size' = [size EXCEPT ![arg] = n]
      BY <1>3 DEF OpenFile
    <3> QED
      BY <3>1, <3>2, Types
  <2>3. TypeOK'
    BY <2>1, <2>2 DEF TypeOK, Ended
  <2>4. ModeInv'
    BY <2>1 DEF ModeInv, Reading
  <2> QED
    BY <2>1, <2>3, <2>4, Frame DEF Reading, LateInv
<1>4. CASE OpenTarget
  <2>1. /\ pc = "target" /\ pc' \in {"store", "failed"}
        /\ UNCHANGED <<arg, size, sqTail, sqes, poller, seen, taken, running,
                       got, posted, cqTail, cqHead, head, printed,
                       overwritten, late>>
    BY <1>4 DEF OpenTarget, Fail, queueVars, kernelVars, outputVars
  <2>2. TypeOK'
    BY <2>1 DEF TypeOK, Ended
  <2>3. ModeInv'
    <3>1. arg = 0 /\ arg <= NFiles
      BY <2>1, Types DEF ModeInv, Reading, WRITE
    <3> QED
      BY <2>1, <3>1 DEF ModeInv, Reading, WRITE
  <2> QED
    BY <2>1, <2>2, <2>3, Frame DEF Reading, LateInv
<1> QED
  BY <1>1, <1>2, <1>3, <1>4

LEMMA QuietSteps ==
  ASSUME IInv, \/ Enter \/ EnterWrite \/ EnterWriteFails \/ PollerBegin
               \/ PollerSleep \/ FlushOverflow \/ UNCHANGED vars
               \/ \E k \in running : Overrun(k)
  PROVE  IInv'
<1> USE DEF IInv
<1>1. CASE Enter
  <2>1. /\ pc = "enter" /\ pc' \in {"reap", "failed"} /\ head' \in {cqHead, head}
        /\ poller' \in {poller, "polling"}
        /\ UNCHANGED <<arg, size, sqTail, sqes, seen, taken, running, got,
                       posted, cqTail, cqHead, printed, overwritten, late>>
    BY <1>1 DEF Enter, HeadLoaded, Fail, queueVars
  <2>2. head' = head /\ cqHead = head
    BY <2>1 DEF ModeInv
  <2>3. TypeOK'
    BY <2>1, <2>2 DEF TypeOK, Ended
  <2>4. ModeInv'
    BY <2>1, <2>2 DEF ModeInv, Reading
  <2> QED
    BY <2>1, <2>3, <2>4, Frame DEF Reading
<1>2. CASE EnterWrite \/ EnterWriteFails
  <2>1. /\ pc = "wait" /\ pc' \in {"written", "failed"}
        /\ UNCHANGED <<arg, size, sqTail, sqes, poller, seen, taken, running,
                       got, posted, cqTail, cqHead, head, printed,
                       overwritten, late>>
    BY <1>2 DEF EnterWrite, EnterWriteFails, Fail, queueVars, kernelVars,
                outputVars
  <2>2. TypeOK'
    BY <2>1 DEF TypeOK, Ended
  <2>3. ModeInv'
    BY <2>1 DEF ModeInv, Reading
  <2> QED
    BY <2>1, <2>2, <2>3, Frame DEF Reading
<1>3. CASE PollerBegin \/ PollerSleep \/ FlushOverflow \/ UNCHANGED vars
  <2>1. /\ poller' \in {poller, "asleep"}
        /\ seen' = seen \/ (sqHead # sqTail /\ seen' = {sqes[Slot(sqHead)]})
        /\ cqTail' = cqTail \/ (cqTail < Len(posted) /\ cqTail' = cqTail + 1)
        /\ UNCHANGED <<pc, arg, size, sqTail, sqes, taken, running, got, posted,
                       cqHead, head, printed, overwritten, late>>
    BY <1>3 DEF PollerBegin, PollerSleep, FlushOverflow, vars, queueVars,
                kernelVars, outputVars
  <2>2. TypeOK'
    <3>1. cqTail' \in 0 .. Len(posted) /\ head \in 0 .. cqTail'
      <4>1. /\ cqTail \in Nat /\ head \in Nat /\ Len(posted) \in Nat
            /\ head <= cqTail /\ cqTail <= Len(posted)
        BY Types
      <4>2. CASE cqTail' = cqTail
        BY <4>1, <4>2
      <4>3. CASE cqTail < Len(posted) /\ cqTail' = cqTail + 1
        BY <4>1, <4>3
      <4> QED
        BY <2>1, <4>2, <4>3
    <3>2. seen' \subseteq Requests
      <4>1. Slot(sqHead) \in 0 .. SQ_ENTRIES - 1
            /\ sqes \in [0 .. SQ_ENTRIES - 1 -> Requests]
        <5>1. sqHead \in Nat
          BY Types DEF sqHead
        <5> QED
          BY <5>1, Types
      <4>2. sqes[Slot(sqHead)] \in Requests /\ seen \subseteq Requests
        BY <4>1, Types
      <4> QED
        BY <2>1, <4>2
    <3> QED
      BY <2>1, <3>1, <3>2 DEF TypeOK, Ended
  <2>3. ModeInv'
    BY <2>1 DEF ModeInv, Reading
  <2> QED
    BY <2>1, <2>2, <2>3, Frame DEF Reading, LateInv
<1>4. ASSUME NEW k \in running, Overrun(k)
      PROVE  IInv'
  <2>1. /\ pc' = "overrun"
        /\ UNCHANGED <<arg, size, sqTail, sqes, poller, seen, taken, running,
                       got, posted, cqTail, cqHead, head, printed, overwritten,
                       late>>
    BY <1>4 DEF Overrun, queueVars, kernelVars, outputVars
  <2>2. TypeOK'
    BY <2>1 DEF TypeOK, Ended
  <2>3. ModeInv'
    BY <2>1 DEF ModeInv, Reading
  <2> QED
    BY <2>1, <2>2, <2>3, Frame DEF Reading
<1> QED
  BY <1>1, <1>2, <1>3, <1>4

(* What the program may be writing an entry for.                            *)
LEMMA Target ==
  ASSUME IInv, pc = "store"
  PROVE  arg \in Requests /\ arg \in Kind /\ (Reading => arg \in Files)
<1>1. arg \in Nat /\ arg <= NFiles /\ NFiles \in Nat
  BY Types DEF IInv, ModeInv
<1>2. Reading => arg \in Files
  BY <1>1 DEF Reading, WRITE, Files
<1> QED
  BY <1>2 DEF Reading, Requests, Kind

-----------------------------------------------------------------------------
(* An entry is written behind the others, or over one of them.              *)
LEMMA StoreStep ==
  ASSUME IInv, Store
  PROVE  IInv'
<1> USE DEF IInv
<1>1. /\ pc = "store" /\ sqTail' = sqTail + 1
      /\ sqes' = [sqes EXCEPT ![Slot(sqTail)] = arg]
      /\ seen' = IF seen # {} /\ Slot(sqTail) = Slot(sqHead) THEN seen \cup {arg}
                 ELSE seen
      /\ pc' = IF arg = WRITE THEN "wait" ELSE "enter"
      /\ UNCHANGED <<arg, size, poller, taken, running, got, posted, cqTail,
                     cqHead, head, printed, late>>
  BY DEF Store, NextTail, outputVars
<1>2. overwritten' = (overwritten \/ sqTail - Len(taken) >= SQ_ENTRIES)
  BY DEF Store, sqHead
<1>3. /\ arg \in Requests /\ arg \in Kind
      /\ Reading' = Reading /\ Kind' = Kind /\ Slot(sqTail) \in 0 .. SQ_ENTRIES - 1
      /\ sqTail \in Nat /\ Len(taken) \in Nat /\ SQ_ENTRIES \in Nat \ {0}
      /\ Len(taken) <= sqTail
  <2>1. arg \in Requests /\ arg \in Kind /\ Reading' = Reading /\ Kind' = Kind
    BY <1>1, Target DEF Reading, Kind
  <2> QED
    BY <2>1, Types, Counts
<1>4. seen' \subseteq seen \cup {arg}
  BY <1>1
<1>5. /\ sqes' \in [0 .. SQ_ENTRIES - 1 -> Requests]
      /\ \A s \in 0 .. SQ_ENTRIES - 1 :
           sqes'[s] = IF s = Slot(sqTail) THEN arg ELSE sqes[s]
  <2>1. sqes \in [0 .. SQ_ENTRIES - 1 -> Requests]
    BY Types
  <2> QED
    BY <1>1, <1>3, <2>1
<1>6. \A n \in 0 .. sqTail' - 1 : n \in 0 .. sqTail - 1 \/ n = sqTail
  BY <1>1, <1>3
<1>7. TypeOK'
  <2>1. overwritten' \in BOOLEAN
    BY <1>2
  <2>2. sqTail' \in Nat
    BY <1>1, <1>3
  <2>3. pc' \in {"enter", "wait"}
    BY <1>1
  <2>4. sqes' \in [0 .. SQ_ENTRIES - 1 -> Requests] /\ seen' \subseteq Requests
    BY <1>3, <1>4, <1>5, Types
  <2> QED
    BY <1>1, <2>1, <2>2, <2>3, <2>4 DEF TypeOK
<1>8. ModeInv'
  <2>1. Len(taken') <= sqTail'
    BY <1>1, <1>3
  <2>2. ~Reading => sqTail' <= 1
    BY <1>1, <1>3 DEF ModeInv
  <2>3. Reading => sqTail' = arg
    <3>1. Reading => sqTail = arg - 1 /\ arg \in Nat
      BY <1>1, Types DEF ModeInv
    <3> QED
      BY <1>1, <3>1
  <2> QED
    BY <1>1, <2>1, <2>2, <2>3 DEF ModeInv, Reading
<1>9. EntryInv'
  <2>1. ASSUME seen # {}, ~overwritten'
        PROVE  seen' \subseteq {sqes'[Slot(Len(taken))]}
    <3>1. ~overwritten /\ ~(sqTail - Len(taken) >= SQ_ENTRIES)
      BY <1>2, <2>1, Zenon
    <3>2. Len(taken) < sqTail
      BY <2>1 DEF EntryInv
    <3>3. sqTail - Len(taken) < SQ_ENTRIES
      BY <1>3, <3>1
    <3>4. Slot(Len(taken)) # Slot(sqTail)
      BY <1>3, <3>2, <3>3, Apart DEF Slot
    <3>5. seen' = seen /\ seen \subseteq {sqes[Slot(Len(taken))]}
      BY <1>1, <3>1, <3>4 DEF EntryInv, sqHead
    <3>6. Slot(Len(taken)) \in 0 .. SQ_ENTRIES - 1
      BY Types
    <3> QED
      BY <1>5, <3>4, <3>5, <3>6
  <2>2. \A n \in 0 .. sqTail' - 1 : sqes'[Slot(n)] \in Kind
    <3> SUFFICES ASSUME NEW n \in 0 .. sqTail' - 1
                 PROVE  sqes'[Slot(n)] \in Kind
      OBVIOUS
    <3> n \in Nat
      BY <1>1, <1>3
    <3>1. Slot(n) \in 0 .. SQ_ENTRIES - 1
      BY Types
    <3>2. CASE Slot(n) = Slot(sqTail)
      BY <1>3, <1>5, <3>1, <3>2
    <3>3. CASE Slot(n) # Slot(sqTail)
      BY <1>5, <1>6, <3>1, <3>3 DEF EntryInv
    <3> QED
      BY <3>2, <3>3
  <2>3. overwritten => overwritten'
    BY <1>2
  <2>4. seen' \subseteq Kind /\ (seen = {} => seen' = {})
    BY <1>1, <1>3, <1>4 DEF EntryInv
  <2>5. seen' # {} => Len(taken) < sqTail'
    <3>1. seen' # {} => Len(taken) < sqTail
      BY <2>4 DEF EntryInv
    <3> QED
      BY <1>1, <1>3, <3>1
  <2>6. ~overwritten' => seen' \subseteq {sqes'[Slot(Len(taken))]}
    BY <2>1, <2>4
  <2>7. \A k \in 1 .. Len(taken) : ~Intact(taken[k]) => overwritten'
    BY <2>3 DEF EntryInv
  <2> QED
    BY <1>1, <1>3, <2>2, <2>4, <2>5, <2>6, <2>7 DEF EntryInv, Intact
<1>10. LineInv'
  <2> SUFFICES ASSUME Reading, ~overwritten'
               PROVE  /\ sqTail' - Len(taken) <= SQ_ENTRIES
                      /\ \A n \in Len(taken) .. sqTail' - 1 :
                           sqes'[Slot(n)] = n + 1
                      /\ \A k \in 1 .. Len(taken) : taken[k] = Entry(k)
    BY <1>1, <1>3 DEF LineInv
  <2>1. ~overwritten /\ sqTail - Len(taken) < SQ_ENTRIES
    <3>1. ~overwritten /\ ~(sqTail - Len(taken) >= SQ_ENTRIES)
      BY <1>2, Zenon
    <3> QED
      BY <1>3, <3>1
  <2>2. sqTail' - Len(taken) <= SQ_ENTRIES
    BY <1>1, <1>3, <2>1
  <2>3. ASSUME NEW n \in Len(taken) .. sqTail' - 1
        PROVE  sqes'[Slot(n)] = n + 1
    <3>1. n \in Nat /\ Slot(n) \in 0 .. SQ_ENTRIES - 1
          /\ (n = sqTail \/ (n < sqTail /\ n \in Len(taken) .. sqTail - 1
                              /\ sqTail - n < SQ_ENTRIES))
      <4>1. n \in Nat
        BY <1>1, <1>3
      <4>2. Slot(n) \in 0 .. SQ_ENTRIES - 1
        BY <4>1, Types
      <4>3. Len(taken) <= n /\ n <= sqTail
        BY <1>1, <1>3
      <4>4. n = sqTail \/ n < sqTail
        BY <1>3, <4>1, <4>3
      <4>5. ASSUME n < sqTail
            PROVE  n \in Len(taken) .. sqTail - 1 /\ sqTail - n < SQ_ENTRIES
        BY <1>3, <2>1, <4>1, <4>3, <4>5
      <4> QED
        BY <4>1, <4>2, <4>4, <4>5
    <3>2. CASE n = sqTail
      <4>1. n + 1 = arg
        <5>1. sqTail = arg - 1
          BY <1>1 DEF ModeInv
        <5>2. arg \in Nat
          BY Types
        <5> QED
          BY <3>2, <5>1, <5>2
      <4> QED
        BY <1>5, <3>1, <3>2, <4>1
    <3>3. CASE n < sqTail /\ n \in Len(taken) .. sqTail - 1 /\ sqTail - n < SQ_ENTRIES
      <4>1. Slot(n) # Slot(sqTail)
        BY <1>3, <3>1, <3>3, Apart DEF Slot
      <4> QED
        BY <1>5, <2>1, <3>1, <3>3, <4>1 DEF LineInv
    <3> QED
      BY <3>1, <3>2, <3>3
  <2> QED
    BY <2>1, <2>2, <2>3 DEF LineInv
<1>11. AnswerInv'
  BY <1>1 DEF AnswerInv
<1>12. PrintInv'
  BY <1>1, <1>2 DEF PrintInv, Intact
<1>13. LateInv'
  <2> SUFFICES ASSUME ~late
               PROVE  ~overwritten' /\ Len(posted) >= sqTail' - 1
    BY <1>1 DEF LateInv
  <2>1. ~overwritten /\ head = sqTail
    BY <1>1 DEF LateInv
  <2>2. /\ head <= Len(posted) /\ Len(posted) <= Len(taken)
        /\ Len(posted) \in Nat
    BY Counts, Types
  <2>3. sqTail - Len(taken) < SQ_ENTRIES
    BY <1>3, <2>1, <2>2
  <2>4. ~(sqTail - Len(taken) >= SQ_ENTRIES) /\ Len(posted) >= sqTail' - 1
    BY <1>1, <1>3, <2>1, <2>2, <2>3
  <2> QED
    BY <1>2, <2>1, <2>4, Zenon
<1> QED
  BY <1>7, <1>8, <1>9, <1>10, <1>11, <1>12, <1>13

-----------------------------------------------------------------------------
(* The bytes in a file's buffers are numbered.                              *)
LEMMA StoredBytes ==
  ASSUME IInv, NEW ks \in SUBSET (1 .. Len(taken))
  PROVE  Stored(ks) \subseteq Nat
<1>1. \A k \in ks : 1 .. got[k] \subseteq Nat
  BY Types DEF IInv
<1> QED
  BY <1>1 DEF Stored

(* What an intact request stored is the file's own, and only one that is not *)
(* intact stores another file's.                                           *)
LEMMA WhoseBytes ==
  ASSUME IInv, NEW r \in 1 .. Len(taken)
  PROVE  /\ Intact(taken[r]) => 1 .. got[r] \subseteq Own(taken[r].data)
         /\ \A f \in Files : Foreign(f) # {} => overwritten
<1>1. ASSUME NEW k \in 1 .. Len(taken), Intact(taken[k])
      PROVE  taken[k].into = taken[k].data /\ taken[k].from = taken[k].data
  <2> DEFINE d == taken[k].data
  <2>1. taken[k] = Entry(d)
    BY <1>1 DEF Intact
  <2>2. Entry(d).into = d /\ Entry(d).from = d
    BY DEF Entry
  <2> HIDE DEF d
  <2>3. taken[k].into = d /\ taken[k].from = d
    BY <2>1, <2>2
  <2> QED
    BY <2>3 DEF d
<1>2. Intact(taken[r]) => 1 .. got[r] \subseteq Own(taken[r].data)
  BY <1>1 DEF Own, ReadInto, Stored
<1>3. ASSUME NEW f \in Files, Foreign(f) # {}
      PROVE  overwritten
  <2>1. PICK k \in 1 .. Len(taken) : taken[k].into = f /\ taken[k].from # f
    BY <1>3 DEF Foreign, ReadInto, Stored
  <2>2. ~Intact(taken[k])
    BY <1>1, <2>1
  <2> QED
    BY <2>2 DEF IInv, EntryInv
<1> QED
  BY <1>2, <1>3

(* A completion is printed, for the file_info it names.                     *)
LEMMA ReapStep ==
  ASSUME IInv, Reap
  PROVE  IInv'
<1> USE DEF IInv
<1> DEFINE p == Printout(Cqe)
           r == Cqe.req
           f == taken[r].data
<1>1. /\ pc = "reap" /\ head # cqTail /\ head' = head + 1
      /\ printed' = Append(printed, p)
      /\ UNCHANGED <<pc, arg, size, sqTail, sqes, poller, seen, taken, running,
                     got, posted, cqTail, cqHead, overwritten, late>>
  BY DEF Reap, queueVars, kernelVars
<1>2. /\ head \in Nat /\ cqTail \in Nat /\ cqHead \in Nat /\ Len(posted) \in Nat
      /\ head <= cqTail /\ cqTail <= Len(posted) /\ cqHead <= head
      /\ Len(printed) = head
  BY Types, Counts
<1>3. head + 1 \in 1 .. Len(posted) /\ head + 1 <= cqTail
  BY <1>1, <1>2
<1>4. r \in (1 .. Len(taken)) \ running /\ Cqe.res \in Nat \cup {Error}
      /\ r \in Nat
  BY <1>3, Types DEF Cqe, AnswerInv
<1>5. f \in Files /\ taken[r].into \in Files /\ taken[r].into # WRITE
  <2>1. taken[r] \in Fields(Files)
    BY <1>1, <1>4 DEF ModeInv, EntryInv, Kind
  <2> QED
    BY <2>1 DEF Fields, Files, WRITE
<1>6. Cqe.res <= got[r]
  BY <1>3, <1>5 DEF Cqe, AnswerInv
<1>7. /\ p.req = r /\ p.file = f /\ p.res = Cqe.res /\ p.own = Own(f)
      /\ p.foreign = Foreign(f)
  BY DEF Printout, PrintoutOf
<1>8. p \in Printouts
  <2>1. Own(f) \subseteq Nat /\ Foreign(f) \subseteq Nat
    BY StoredBytes DEF Own, Foreign, ReadInto
  <2> QED
    BY <1>4, <1>5, <2>1 DEF Printout, PrintoutOf, Printouts
<1> HIDE DEF p, r, f
<1>9. /\ printed' \in Seq(Printouts) /\ Len(printed') = head + 1
      /\ \A n \in 1 .. head : printed'[n] = printed[n]
      /\ printed'[head + 1] = p
      /\ \A n \in 1 .. head + 1 : n \in 1 .. head \/ n = head + 1
  <2>1. printed \in Seq(Printouts)
    BY Types
  <2>2. /\ Append(printed, p) \in Seq(Printouts)
        /\ Len(Append(printed, p)) = Len(printed) + 1
        /\ \A n \in 1 .. Len(printed) : Append(printed, p)[n] = printed[n]
        /\ Append(printed, p)[Len(printed) + 1] = p
    BY <1>8, <2>1, Appended
  <2> QED
    BY <1>1, <1>2, <2>2
<1>10. TypeOK'
  <2>1. head' \in 0 .. cqTail /\ cqHead \in 0 .. head'
    BY <1>1, <1>2, <1>3
  <2> QED
    BY <1>1, <1>9, <2>1 DEF TypeOK, Printouts
<1>11. ModeInv'
  BY <1>1, <1>9 DEF ModeInv, Reading
<1>12. EntryInv' /\ LineInv'
  BY <1>1 DEF EntryInv, LineInv, Reading, Kind, Intact
<1>13. AnswerInv'
  BY <1>1 DEF AnswerInv
<1>14. PrintInv'
  <2>1. p.foreign # {} => overwritten
    BY <1>4, <1>5, <1>7, WhoseBytes
  <2>2. ASSUME Intact(taken[r])
        PROVE  1 .. p.res \subseteq p.own
    <3>1. 1 .. got[r] \subseteq p.own
      <4>1. 1 .. got[r] \subseteq Own(taken[r].data)
        BY <1>4, <2>2, WhoseBytes
      <4> QED
        BY <1>7, <4>1 DEF f
    <3>2. got[r] \in Nat /\ p.res \in Nat \cup {Error} /\ p.res <= got[r]
      BY <1>4, <1>6, <1>7, Types
    <3>3. 1 .. p.res \subseteq 1 .. got[r]
      BY <3>2 DEF Error
    <3> QED
      BY <3>1, <3>3
  <2>3. p.req \in 1 .. Len(taken) /\ p.req = r
    BY <1>4, <1>7
  <2> QED
    BY <1>1, <1>2, <1>9, <2>1, <2>2, <2>3 DEF PrintInv, Intact
<1>15. LateInv'
  <2>1. ASSUME ~late
        PROVE  p.file = head + 1
    <3>1. r = head + 1 /\ ~overwritten
      BY <1>3, <2>1 DEF r, Cqe, LateInv
    <3>2. taken[r] = Entry(r)
      BY <1>1, <1>4, <3>1 DEF ModeInv, LineInv
    <3>3. Entry(r).data = r
      BY DEF Entry
    <3> QED
      BY <1>7, <3>1, <3>2, <3>3 DEF f
  <2> QED
    BY <1>1, <1>2, <1>9, <2>1 DEF LateInv
<1> QED
  BY <1>10, <1>11, <1>12, <1>13, <1>14, <1>15

(* A round ends; if it found all answered, it is not late.                  *)
LEMMA ReapEndStep ==
  ASSUME IInv, ReapEnd
  PROVE  IInv'
<1> USE DEF IInv
<1>1. /\ pc = "reap" /\ head = cqTail /\ cqHead' = head /\ arg' = arg + 1
      /\ late' = (late \/ head # sqTail)
      /\ pc' = IF arg = NFiles THEN "done" ELSE "open"
      /\ UNCHANGED <<size, sqTail, sqes, poller, seen, taken, running, got,
                     posted, cqTail, head, printed, overwritten>>
  BY DEF ReapEnd, HeadStored, queueVars, kernelVars
<1>2. /\ Reading /\ arg \in Nat /\ arg # 0 /\ arg <= NFiles /\ NFiles \in Nat
      /\ sqTail = arg
  BY <1>1, Types DEF ModeInv, Reading, WRITE
<1>3. Reading'
  BY <1>1, <1>2 DEF Reading, WRITE
<1>4. TypeOK'
  <2>1. arg' \in 0 .. NFiles + 1
    BY <1>1, <1>2
  <2>2. cqHead' \in 0 .. head /\ late' \in BOOLEAN
    BY <1>1, Types
  <2> QED
    BY <1>1, <2>1, <2>2 DEF TypeOK, Ended
<1>5. ModeInv'
  <2>1. pc' = "open" => arg' <= NFiles
    BY <1>1, <1>2
  <2>2. sqTail = arg' - 1
    BY <1>1, <1>2
  <2> QED
    BY <1>1, <1>3, <2>1, <2>2 DEF ModeInv
<1>6. EntryInv' /\ LineInv'
  BY <1>1, <1>2, <1>3 DEF EntryInv, LineInv, Kind, Intact
<1>7. AnswerInv'
  BY <1>1 DEF AnswerInv
<1>8. PrintInv' /\ LateInv'
  BY <1>1 DEF PrintInv, LateInv, Intact
<1> QED
  BY <1>4, <1>5, <1>6, <1>7, <1>8

-----------------------------------------------------------------------------
(* The poller takes the entry it has read, whole or of several versions.    *)
LEMMA FetchStep ==
  ASSUME IInv, PollerFetch
  PROVE  IInv'
<1> USE DEF IInv
<1> DEFINE old == sqes[Slot(sqHead)]
           k == Len(taken) + 1
<1>1. /\ seen # {} /\ seen' = {} /\ running' = running \cup {k}
      /\ got' = Append(got, 0)
      /\ UNCHANGED <<pc, arg, size, sqTail, sqes, poller, posted, cqTail, cqHead,
                     head, printed, overwritten, late>>
  BY DEF PollerFetch, queueVars, outputVars, sqHead
<1>2. PICK e \in Fields(seen) : taken' = Append(taken, e)
  BY DEF PollerFetch
<1>3. /\ Len(taken) \in Nat /\ sqTail \in Nat /\ sqHead = Len(taken)
      /\ Len(taken) < sqTail /\ k \in Nat /\ k <= sqTail
      /\ sqHead \in 0 .. sqTail - 1
  <2>1. Len(taken) \in Nat /\ sqTail \in Nat /\ sqHead = Len(taken)
    BY Types DEF sqHead
  <2>2. Len(taken) < sqTail
    BY <1>1 DEF EntryInv
  <2> QED
    BY <2>1, <2>2
<1>4. e \in Fields(Kind) /\ e \in Entries
  <2>1. seen \subseteq Kind /\ seen \subseteq Requests
    BY Types DEF EntryInv
  <2> QED
    BY <2>1 DEF Fields, Entries
<1>5. ASSUME ~overwritten
      PROVE  e = Entry(old) /\ Intact(e)
  <2>1. seen \subseteq {old}
    BY <1>3, <1>5 DEF EntryInv
  <2> HIDE DEF old
  <2>2. e = Entry(old)
    BY <2>1 DEF Fields, Entry
  <2> QED
    BY <2>2 DEF Intact, Entry
<1> HIDE DEF old
<1>6. /\ taken' \in Seq(Entries) /\ Len(taken') = k
      /\ \A n \in 1 .. Len(taken) : taken'[n] = taken[n]
      /\ taken'[k] = e
  <2>1. taken \in Seq(Entries)
    BY Types
  <2>2. /\ Append(taken, e) \in Seq(Entries) /\ Len(Append(taken, e)) = k
        /\ \A n \in 1 .. Len(taken) : Append(taken, e)[n] = taken[n]
        /\ Append(taken, e)[k] = e
    BY <1>4, <2>1, Appended
  <2>3. taken' = Append(taken, e)
    BY <1>2
  <2> HIDE DEF k
  <2> QED
    BY <2>2, <2>3
<1>7. /\ got' \in Seq(Nat) /\ Len(got') = k
      /\ \A n \in 1 .. Len(taken) : got'[n] = got[n]
  <2>1. got \in Seq(Nat) /\ Len(got) = Len(taken) /\ 0 \in Nat
    BY Types
  <2>2. /\ Append(got, 0) \in Seq(Nat) /\ Len(Append(got, 0)) = k
        /\ \A n \in 1 .. Len(taken) : Append(got, 0)[n] = got[n]
    BY <2>1, Appended
  <2> HIDE DEF k
  <2> QED
    BY <1>1, <2>2
<1>8. running \subseteq 1 .. Len(taken) /\ k \notin running
  <2>1. running \subseteq 1 .. Len(taken)
    BY Types
  <2>2. k \notin 1 .. Len(taken)
    BY <1>3
  <2> QED
    BY <2>1, <2>2
<1> HIDE DEF k
<1>9. 1 .. Len(taken') = (1 .. Len(taken)) \cup {k} /\ k \notin 1 .. Len(taken)
  BY <1>3, <1>6 DEF k
<1>10. TypeOK'
  <2>1. running' \subseteq 1 .. Len(taken')
    BY <1>1, <1>8, <1>9
  <2>2. seen' \subseteq Requests /\ Len(got') = Len(taken')
    BY <1>1, <1>6, <1>7
  <2> QED
    BY <1>1, <1>6, <1>7, <2>1, <2>2 DEF TypeOK, Ended
<1>11. ModeInv'
  <2>1. Len(taken') <= sqTail'
    BY <1>1, <1>3, <1>6
  <2> QED
    BY <1>1, <2>1 DEF ModeInv, Reading
<1>12. EntryInv'
  <2>1. Kind' = Kind
    BY <1>1 DEF Kind, Reading
  <2>2. \A n \in 1 .. Len(taken') : taken'[n] \in Fields(Kind)
    BY <1>4, <1>6, <1>9 DEF EntryInv
  <2>3. \A n \in 1 .. Len(taken') : ~Intact(taken'[n]) => overwritten
    BY <1>5, <1>6, <1>9 DEF EntryInv
  <2> QED
    BY <1>1, <2>1, <2>2, <2>3 DEF EntryInv, Intact
<1>13. LineInv'
  <2> SUFFICES ASSUME Reading, ~overwritten
               PROVE  /\ sqTail - Len(taken') <= SQ_ENTRIES
                      /\ \A n \in Len(taken') .. sqTail - 1 :
                           sqes[Slot(n)] = n + 1
                      /\ \A n \in 1 .. Len(taken') : taken'[n] = Entry(n)
    BY <1>1 DEF LineInv, Reading
  <2>1. /\ sqTail - Len(taken) <= SQ_ENTRIES
        /\ \A n \in Len(taken) .. sqTail - 1 : sqes[Slot(n)] = n + 1
        /\ \A n \in 1 .. Len(taken) : taken[n] = Entry(n)
    BY DEF LineInv
  <2>2. old = k
    BY <1>3, <2>1 DEF old, k
  <2>3. e = Entry(k)
    BY <1>5, <2>2
  <2>4. sqTail - Len(taken') <= SQ_ENTRIES
    <3>1. SQ_ENTRIES \in Nat
      BY Types
    <3> QED
      BY <1>3, <1>6, <2>1, <3>1 DEF k
  <2>5. \A n \in Len(taken') .. sqTail - 1 : n \in Len(taken) .. sqTail - 1
    BY <1>3, <1>6 DEF k
  <2> QED
    BY <1>6, <1>9, <2>1, <2>3, <2>4, <2>5
<1>14. AnswerInv'
  <2>1. IsFiniteSet(running') /\ Cardinality(running') = Cardinality(running) + 1
    BY <1>1, <1>8, FS_AddElement DEF AnswerInv
  <2>2. Cardinality(running') + Len(posted) = Len(taken')
    <3>1. Cardinality(running) \in Nat /\ Len(posted) \in Nat
      BY Types, Counts
    <3> QED
      BY <1>3, <1>6, <2>1, <3>1 DEF AnswerInv, k
  <2>3. \A c \in 1 .. Len(posted) :
          /\ posted[c].req \in (1 .. Len(taken')) \ running'
          /\ taken'[posted[c].req] = taken[posted[c].req]
          /\ got'[posted[c].req] = got[posted[c].req]
    BY <1>1, <1>6, <1>7, <1>9 DEF AnswerInv
  <2>4. (1 .. Len(taken')) \ running' = (1 .. Len(taken)) \ running
    BY <1>1, <1>8, <1>9
  <2> QED
    BY <1>1, <2>1, <2>2, <2>3, <2>4 DEF AnswerInv
<1>15. PrintInv'
  <2>1. \A i \in 1 .. Len(printed) :
          /\ printed[i].req \in 1 .. Len(taken)
          /\ printed[i].req \in 1 .. Len(taken')
          /\ taken'[printed[i].req] = taken[printed[i].req]
    BY <1>6, <1>9 DEF PrintInv
  <2> QED
    BY <1>1, <2>1 DEF PrintInv, Intact
<1>16. LateInv'
  BY <1>1 DEF LateInv
<1> QED
  BY <1>10, <1>11, <1>12, <1>13, <1>14, <1>15, <1>16

(* A request that is not the write's names files.                           *)
LEMMA ReadingRequest ==
  ASSUME IInv, NEW k \in 1 .. Len(taken), taken[k].into # WRITE
  PROVE  Reading /\ taken[k] \in Fields(Files)
<1>1. taken[k] \in Fields(Kind)
  BY DEF IInv, EntryInv
<1>2. taken[k].into \in Kind
  BY <1>1 DEF Fields
<1> QED
  BY <1>1, <1>2 DEF Kind

(* A block count is an integer. *)
LEMMA BlockCountType ==
  ASSUME NEW n \in Nat
  PROVE  BlockCount(n) \in Int
<1> USE BlocksAssumption
<1>1. ToInt(n) \in Int
  BY DEF ToInt
<1>2. ASSUME NEW a \in Int PROVE CDiv(a, BLOCK_SZ) \in Int
  BY <1>2 DEF CDiv
<1> QED
  BY <1>1, <1>2 DEF BlockCount

LEMMA LimitType ==
  ASSUME IInv, NEW k \in 1 .. Len(taken), taken[k].into # WRITE
  PROVE  Limit(k) \in Int
<1>1. /\ taken[k].into \in Files /\ taken[k].from \in Files
      /\ taken[k].len \in Files
  BY ReadingRequest DEF Fields
<1>2. size \in [Files -> Nat]
  BY Types DEF IInv
<1>3. /\ size[taken[k].into] \in Nat /\ size[taken[k].from] \in Nat
      /\ Iovecs(k) \in Int
  BY <1>1, <1>2, BlockCountType DEF Iovecs
<1>4. Iovecs(k) * BLOCK_SZ \in Int
  BY <1>3, BlocksAssumption
<1> QED
  BY <1>3, <1>4 DEF Limit, Lesser

(* A request has stored more.                                               *)
LEMMA ProgressStep ==
  ASSUME IInv, NEW k \in running, ReadProgress(k)
  PROVE  IInv'
<1> USE DEF IInv
<1>1. /\ taken[k].into # WRITE
      /\ UNCHANGED <<pc, arg, size, sqTail, sqes, poller, seen, taken, running,
                     posted, cqTail, cqHead, head, printed, overwritten, late>>
  BY DEF ReadProgress, queueVars, outputVars
<1>2. PICK n \in got[k] + 1 .. Limit(k) : got' = [got EXCEPT ![k] = n]
  BY DEF ReadProgress
<1>3. /\ k \in 1 .. Len(taken) /\ Len(taken) \in Nat /\ got \in Seq(Nat)
      /\ Len(got) = Len(taken) /\ got[k] \in Nat
  BY Types
<1>4. n \in Nat /\ got[k] <= n
  <2>1. Limit(k) \in Int
    BY <1>1, <1>3, LimitType
  <2> QED
    BY <1>3, <2>1
<1>5. /\ got' \in Seq(Nat) /\ Len(got') = Len(taken)
      /\ \A j \in 1 .. Len(taken) :
           got[j] \in Nat /\ got'[j] \in Nat /\ got[j] <= got'[j]
  <2>1. got' \in Seq(Nat) /\ Len(got') = Len(got)
        /\ \A j \in 1 .. Len(got) : got'[j] = IF j = k THEN n ELSE got[j]
    BY <1>2, <1>3, <1>4
  <2>2. \A j \in 1 .. Len(taken) : got[j] \in Nat
    BY Types
  <2>3. ASSUME NEW j \in 1 .. Len(taken)
        PROVE  got[j] \in Nat /\ got'[j] \in Nat /\ got[j] <= got'[j]
    <3>1. CASE j = k
      <4>1. got'[j] = n
        BY <1>3, <2>1, <3>1
      <4> QED
        BY <1>3, <1>4, <3>1, <4>1
    <3>2. CASE j # k
      <4>1. got'[j] = got[j] /\ got[j] \in Nat
        BY <1>3, <2>1, <2>2, <3>2
      <4> QED
        BY <4>1
    <3> QED
      BY <3>1, <3>2
  <2> QED
    BY <1>3, <2>1, <2>3
<1>6. TypeOK'
  BY <1>1, <1>5 DEF TypeOK, Ended
<1>7. ModeInv' /\ LineInv' /\ EntryInv'
  BY <1>1 DEF ModeInv, LineInv, EntryInv, Reading, Kind, Intact
<1>8. AnswerInv'
  <2>1. ASSUME NEW c \in 1 .. Len(posted), taken[posted[c].req].into # WRITE
        PROVE  posted[c].res <= got'[posted[c].req]
    <3>1. posted[c].res <= got[posted[c].req] /\ posted[c].res \in Nat \cup {Error}
          /\ posted[c].req \in 1 .. Len(taken)
      BY <2>1, Types DEF AnswerInv
    <3> DEFINE old == got[posted[c].req]
               new == got'[posted[c].req]
    <3>2. old \in Nat /\ new \in Nat /\ old <= new
      BY <1>5, <3>1
    <3>3. posted[c].res <= old
      BY <3>1
    <3> HIDE DEF old, new
    <3>4. posted[c].res <= new
      BY <3>1, <3>2, <3>3 DEF Error
    <3> QED
      BY <3>4 DEF new
  <2> QED
    BY <1>1, <2>1 DEF AnswerInv
<1>9. PrintInv' /\ LateInv'
  BY <1>1 DEF PrintInv, LateInv, Intact
<1> QED
  BY <1>6, <1>7, <1>8, <1>9

(* A request is answered with no more than was read.                        *)
LEMMA PostStep ==
  ASSUME IInv, NEW k \in running, Post(k)
  PROVE  IInv'
<1> USE DEF IInv
<1> DEFINE f == taken[k].into
           m == Len(posted) + 1
<1>1. /\ running' = running \ {k}
      /\ cqTail' = IF cqTail = Len(posted) /\ Room THEN cqTail + 1 ELSE cqTail
      /\ UNCHANGED <<pc, arg, size, sqTail, sqes, poller, seen, taken, got,
                     cqHead, head, printed, overwritten, late>>
  BY DEF Post, queueVars, outputVars
<1>2. PICK r \in IF f = WRITE THEN WriteResults ELSE ReadResults(k) :
        posted' = Append(posted, [req |-> k, res |-> r])
  BY DEF Post
<1>3. k \in 1 .. Len(taken) /\ Len(posted) \in Nat /\ Len(taken) \in Nat
      /\ got[k] \in Nat
  BY Types
<1>4. r \in Nat \cup {Error} /\ (f # WRITE => r <= got[k])
  <2>1. CASE f = WRITE
    BY <1>2, <2>1 DEF WriteResults
  <2>2. CASE f # WRITE
    <3>1. r \in {got[k], Error}
      BY <1>2, <2>2 DEF ReadResults
    <3> QED
      BY <1>3, <3>1 DEF Error
  <2> QED
    BY <2>1, <2>2
<1> DEFINE a == [req |-> k, res |-> r]
<1>5. a \in Completion /\ a.req = k /\ a.res = r
  BY <1>3, <1>4 DEF Completion
<1>6. posted' = Append(posted, a)
  BY <1>2
<1> HIDE DEF a, f
<1>7. /\ posted' \in Seq(Completion) /\ Len(posted') = m
      /\ \A n \in 1 .. Len(posted) : posted'[n] = posted[n]
      /\ posted'[m] = a
  <2>1. posted \in Seq(Completion)
    BY Types
  <2>2. /\ Append(posted, a) \in Seq(Completion) /\ Len(Append(posted, a)) = m
        /\ \A n \in 1 .. Len(posted) : Append(posted, a)[n] = posted[n]
        /\ Append(posted, a)[m] = a
    BY <1>5, <2>1, Appended
  <2> QED
    BY <1>6, <2>2
<1> HIDE DEF m
<1>8. 1 .. Len(posted') = (1 .. Len(posted)) \cup {m} /\ m \notin 1 .. Len(posted)
  BY <1>3, <1>7 DEF m
<1>9. TypeOK'
  <2>1. cqTail' \in 0 .. Len(posted') /\ head \in 0 .. cqTail'
    <3>1. /\ cqTail \in Nat /\ head \in Nat /\ head <= cqTail
          /\ cqTail <= Len(posted) /\ Len(posted) \in Nat
      BY Types
    <3>2. cqTail' = cqTail \/ cqTail' = cqTail + 1
      BY <1>1
    <3> QED
      BY <1>7, <3>1, <3>2 DEF m
  <2>2. running' \subseteq 1 .. Len(taken)
    BY <1>1, Types
  <2> QED
    BY <1>1, <1>7, <2>1, <2>2 DEF TypeOK, Ended
<1>10. ModeInv' /\ EntryInv' /\ LineInv'
  BY <1>1 DEF ModeInv, EntryInv, LineInv, Reading, Kind, Intact
<1>11. Cardinality(running) \in Nat /\ IsFiniteSet(running')
       /\ Cardinality(running') = Cardinality(running) - 1
       /\ Cardinality(running') \in Nat
  <2>1. IsFiniteSet(running)
    BY DEF AnswerInv
  <2>2. IsFiniteSet(running') /\ Cardinality(running') = Cardinality(running) - 1
    BY <1>1, <2>1, FS_RemoveElement
  <2> QED
    BY <2>1, <2>2, FS_CardinalityType
<1>12. AnswerInv'
  <2>1. Cardinality(running') + Len(posted') = Len(taken)
    BY <1>3, <1>7, <1>11 DEF AnswerInv, m
  <2>2. \A c \in 1 .. Len(posted) : posted[c].req \in (1 .. Len(taken)) \ running
    BY DEF AnswerInv
  <2>3. \A c \in 1 .. Len(posted') : posted'[c].req \in (1 .. Len(taken)) \ running'
    BY <1>1, <1>3, <1>5, <1>7, <1>8, <2>2
  <2>4. \A c, d \in 1 .. Len(posted') : posted'[c].req = posted'[d].req => c = d
    BY <1>5, <1>7, <1>8, <2>2 DEF AnswerInv
  <2>5. ASSUME NEW j \in (1 .. Len(taken)) \ running'
        PROVE  \E c \in 1 .. Len(posted') : posted'[c].req = j
    <3>1. CASE j = k
      BY <1>5, <1>7, <1>8, <3>1
    <3>2. CASE j # k
      BY <1>1, <1>7, <1>8, <3>2 DEF AnswerInv
    <3> QED
      BY <3>1, <3>2
  <2>6. \A c \in 1 .. Len(posted') :
          taken[posted'[c].req].into # WRITE =>
            posted'[c].res <= got[posted'[c].req]
    BY <1>4, <1>5, <1>7, <1>8 DEF AnswerInv, f
  <2> QED
    BY <1>1, <1>11, <2>1, <2>3, <2>4, <2>5, <2>6 DEF AnswerInv
<1>13. PrintInv'
  BY <1>1 DEF PrintInv, Intact
<1>14. LateInv'
  <2>1. ASSUME ~late
        PROVE  k = m
    (* What was taken before was answered before. *)
    <3>1. /\ Len(posted) >= sqTail - 1 /\ Len(taken) <= sqTail
          /\ sqTail \in Nat
          /\ \A c \in 1 .. Len(posted) : posted[c].req = c
      BY <2>1, Types, Counts DEF LateInv
    <3>2. \A c \in 1 .. Len(posted) : c \notin running
      <4>1. \A c \in 1 .. Len(posted) :
              posted[c].req \in (1 .. Len(taken)) \ running
        BY DEF AnswerInv
      <4> HIDE DEF IInv
      <4> QED
        BY <3>1, <4>1
    <3>3. k \notin 1 .. Len(posted)
      BY <3>2
    <3>4. /\ k \in Nat /\ k >= 1 /\ k <= Len(taken) /\ Len(taken) \in Nat
          /\ Len(posted) \in Nat
      BY <1>3
    <3> HIDE DEF IInv
    <3>5. k > Len(posted)
      BY <3>3, <3>4
    <3> QED
      BY <3>1, <3>4, <3>5 DEF m
  <2>2. ~late => \A c \in 1 .. Len(posted') : posted'[c].req = c
    BY <1>5, <1>7, <1>8, <2>1 DEF LateInv
  <2>3. ASSUME ~late
        PROVE  Len(posted') >= sqTail - 1
    <3>1. Len(posted) >= sqTail - 1 /\ sqTail \in Nat
      BY <2>3, Types DEF LateInv
    <3> QED
      BY <1>3, <1>7, <3>1 DEF m
  <2> QED
    BY <1>1, <2>2, <2>3 DEF LateInv
<1> QED
  BY <1>9, <1>10, <1>12, <1>13, <1>14

-----------------------------------------------------------------------------
(* The invariant holds in every reachable state.                            *)
THEOREM Invariance == Spec => []IInv
<1>1. ASSUME IInv, [Next]_vars
      PROVE  IInv'
  <2>1. CASE Program \/ EnterWriteFails
    BY <1>1, <2>1, CommandSteps, QuietSteps, StoreStep, ReapStep, ReapEndStep
    DEF Program, Exited
  <2>2. CASE Kernel
    BY <1>1, <2>2, QuietSteps, FetchStep, ProgressStep, PostStep
    DEF Kernel, Poll, Work, Answer
  <2>3. CASE UNCHANGED vars
    BY <1>1, <2>3, QuietSteps
  <2> QED
    BY <1>1, <2>1, <2>2, <2>3 DEF Next
<1> QED
  BY <1>1, InitIInv, PTL DEF Spec

(* The state keeps its type, and the queues' heads do not pass their tails. *)
THEOREM TypeCorrect == Spec => []TypeOK
<1>1. IInv => TypeOK
  BY DEF IInv
<1> QED
  BY <1>1, Invariance, PTL

(* However late a completion is found, what it says was read is printed if  *)
(* its entry was taken intact, and entries are torn and other files' bytes   *)
(* printed only after an entry was overwritten.                             *)
THEOREM PrintedBytesRead == Spec => []PrintedWasRead
<1>1. IInv => PrintedWasRead
  BY DEF IInv, PrintInv, EntryInv, PrintedWasRead
<1> QED
  BY <1>1, Invariance, PTL

(* Without an overwritten entry each file submitted is in the ring, with    *)
(* the kernel, or answered once.                                           *)
THEOREM EachReadOnce == Spec => []ReadOnce
<1>1. ASSUME IInv
      PROVE  ReadOnce
  <2> SUFFICES ASSUME ~overwritten, arg # WRITE, NEW f \in 1 .. sqTail
               PROVE  \/ f > sqHead /\ Answers(f) = {}
                      \/ f <= sqHead /\ f \in running /\ Answers(f) = {}
                      \/ /\ f <= sqHead /\ f \notin running
                         /\ \E c \in 1 .. Len(posted) : Answers(f) = {c}
    BY DEF ReadOnce
  <2>1. f \in Nat /\ f >= 1 /\ Len(taken) \in Nat /\ sqHead = Len(taken)
    BY <1>1, Types DEF IInv, sqHead
  <2>2. \A c \in 1 .. Len(posted) :
          /\ posted[c].req \in 1 .. Len(taken) /\ posted[c].req \notin running
          /\ taken[posted[c].req].data = posted[c].req
    <3>1. \A j \in 1 .. Len(taken) : taken[j] = Entry(j)
      BY <1>1 DEF IInv, LineInv, Reading
    <3>2. ASSUME NEW j \in 1 .. Len(taken)
          PROVE  taken[j].data = j
      <4>1. Entry(j).data = j
        BY DEF Entry
      <4> QED
        BY <3>1, <4>1
    <3> QED
      BY <1>1, <3>2 DEF IInv, AnswerInv
  <2>3. Answers(f) = {c \in 1 .. Len(posted) : posted[c].req = f}
    BY <2>2 DEF Answers
  <2>4. CASE f > Len(taken)
    <3>1. f \notin 1 .. Len(taken)
      BY <2>1, <2>4
    <3> QED
      BY <2>1, <2>2, <2>3, <2>4, <3>1
  <2>5. CASE f <= Len(taken) /\ f \in running
    BY <2>1, <2>2, <2>3, <2>5
  <2>6. CASE f <= Len(taken) /\ f \notin running
    <3>1. f \in (1 .. Len(taken)) \ running
      BY <2>1, <2>6
    <3>2. PICK c \in 1 .. Len(posted) : posted[c].req = f
      BY <1>1, <3>1 DEF IInv, AnswerInv
    <3>3. Answers(f) = {c}
      BY <1>1, <2>3, <3>2 DEF IInv, AnswerInv
    <3> QED
      BY <2>1, <2>6, <3>3
  <2> QED
    BY <2>1, <2>4, <2>5, <2>6
<1> QED
  BY <1>1, Invariance, PTL

(* While every round finds its completion, files are printed in the order   *)
(* of the command line, and no entry is overwritten.                       *)
THEOREM PrintedInOrder == Spec => []InOrderUnlessLate
<1>1. ASSUME IInv
      PROVE  InOrderUnlessLate
  <2>1. overwritten => late
    BY <1>1 DEF IInv, LateInv
  <2>2. ASSUME ~late, pc \in {"open", "done"}
        PROVE  /\ Len(printed) = arg - 1
               /\ \A i \in 1 .. Len(printed) : printed[i].file = i
    BY <1>1, <2>2 DEF IInv, LateInv, ModeInv
  <2> QED
    BY <2>1, <2>2 DEF InOrderUnlessLate
<1> QED
  BY <1>1, Invariance, PTL

-----------------------------------------------------------------------------
(* The write command has one request, whose completion finds room.          *)
WriteInv ==
  /\ ~Reading => head = 0 /\ cqTail = Len(posted)
  /\ pc = "wait" => sqTail = 1
  /\ pc \notin {"start", "failed", "overrun"} => poller # "none"

LEMMA WriteStep ==
  ASSUME IInv, WriteInv, [Next]_vars
  PROVE  WriteInv'
<1> USE DEF IInv
<1>1. /\ Len(posted) \in Nat /\ CQ_ENTRIES \in Nat \ {0}
      /\ arg \in Nat /\ sqTail \in Nat
  BY Types
<1>2. CASE Setup \/ Command \/ OpenFile \/ OpenTarget \/ EnterWrite
           \/ EnterWriteFails \/ Exited \/ UNCHANGED vars
  BY <1>2 DEF Setup, Command, OpenFile, OpenTarget, EnterWrite, EnterWriteFails,
     Exited, Fail, Reading, WRITE, ModeInv, WriteInv, queueVars, kernelVars,
     outputVars, vars
<1>3. CASE Store
  <2>1. /\ UNCHANGED <<arg, poller, head, cqTail, posted>>
        /\ pc = "store" /\ sqTail' = sqTail + 1
        /\ pc' = IF arg = WRITE THEN "wait" ELSE "enter"
    BY <1>3 DEF Store, NextTail, outputVars
  <2>2. arg = WRITE => sqTail = 0
    BY <2>1 DEF ModeInv, Reading
  <2> QED
    BY <2>1, <2>2 DEF WriteInv, Reading
<1>4. CASE Enter \/ Reap \/ ReapEnd
  <2>1. Reading /\ pc # "start" /\ arg \in Nat \ {0}
    BY <1>1, <1>4 DEF Enter, Reap, ReapEnd, ModeInv, Reading, WRITE
  <2>2. arg' \in {arg, arg + 1} /\ pc' # "wait" /\ (poller' = poller \/ poller' = "polling")
        /\ pc # "failed" /\ pc # "overrun"
    BY <1>4 DEF Enter, Reap, ReapEnd, Fail, kernelVars
  <2>3. arg' # WRITE
    BY <2>1, <2>2 DEF WRITE
  <2> QED
    BY <2>1, <2>2, <2>3 DEF WriteInv, Reading
<1>5. CASE \/ PollerBegin \/ PollerFetch \/ PollerSleep
           \/ \E k \in running : ReadProgress(k)
  <2>1. /\ UNCHANGED <<pc, arg, sqTail, head, cqTail, posted>>
        /\ poller' = poller \/ poller' = "asleep"
    BY <1>5 DEF PollerBegin, PollerFetch, PollerSleep, ReadProgress, queueVars,
                outputVars
  <2> QED
    BY <2>1 DEF WriteInv, Reading
<1>6. ASSUME NEW k \in running, Post(k)
      PROVE  WriteInv'
  <2>1. /\ UNCHANGED <<pc, arg, sqTail, head, poller>>
        /\ cqTail' = IF cqTail = Len(posted) /\ Room THEN cqTail + 1 ELSE cqTail
    BY <1>6 DEF Post, queueVars, outputVars
  <2>2. Len(posted') = Len(posted) + 1
    <3>1. PICK e : posted' = Append(posted, e)
      BY <1>6 DEF Post
    <3>2. e \in {e} /\ posted \in Seq(Completion \cup {e})
      BY Types
    <3> QED
      BY <3>1, <3>2, AppendProperties
  <2>3. ASSUME ~Reading
        PROVE  cqTail = Len(posted) /\ Room
    <3>1. cqTail = Len(posted) /\ head = 0
      BY <2>3 DEF WriteInv
    <3>2. Len(posted) = 0
      <4>1. Cardinality(running) # 0
        BY FS_EmptySet DEF AnswerInv
      <4>2. Cardinality(running) + Len(posted) = Len(taken)
        BY DEF AnswerInv
      <4>3. Len(taken) <= sqTail /\ sqTail <= 1
        BY <2>3 DEF ModeInv
      <4>4. Len(taken) \in Nat
        BY Types
      <4> QED
        BY <1>1, <4>1, <4>2, <4>3, <4>4, Counts
    <3>3. cqHead = 0
      BY <3>1, Types
    <3> QED
      BY <1>1, <3>1, <3>2, <3>3 DEF Room
  <2> QED
    BY <2>1, <2>2, <2>3 DEF WriteInv, Reading
<1>7. CASE FlushOverflow
  <2>1. UNCHANGED <<pc, arg, sqTail, head, poller>> /\ cqTail # Len(posted)
    BY <1>1, <1>7 DEF FlushOverflow, queueVars, outputVars
  <2>2. Reading
    BY <2>1 DEF WriteInv
  <2> QED
    BY <2>1, <2>2 DEF WriteInv, Reading
<1>8. CASE \E k \in running : Overrun(k)
  <2>1. UNCHANGED <<arg, poller, head, cqTail, posted>> /\ pc' = "overrun"
    BY <1>8 DEF Overrun, kernelVars, outputVars
  <2> QED
    BY <2>1 DEF WriteInv, Reading
<1> QED
  BY <1>2, <1>3, <1>4, <1>5, <1>6, <1>7, <1>8
  DEF Next, Program, Kernel, Poll, Work, Answer

(* The write command waits for its entry to be taken, for the kernel, or for  *)
(* a completion that is in the ring: no completion of it is held back for    *)
(* want of room (omp_io_uring_manual.c:281-289).                            *)
NoWaitForNothing ==
  pc = "wait" =>
    \/ sqHead # sqTail /\ poller \in {"polling", "asleep"}
    \/ running # {}
    \/ cqTail - cqHead >= MinComplete

(* The safety half of EndsUnlessAsleep: of what the command can wait for,   *)
(* only an entry that a sleeping poller has not taken need never come.      *)
THEOREM NeverWaitsForNothing == Spec => []NoWaitForNothing
<1>1. Init => WriteInv
  BY EmptySeq DEF Init, WriteInv
<1>2. ASSUME IInv, WriteInv PROVE NoWaitForNothing
  <2> SUFFICES ASSUME pc = "wait", sqHead = sqTail, running = {}
               PROVE  cqTail - cqHead >= MinComplete
    BY <1>2 DEF NoWaitForNothing, WriteInv, IInv, TypeOK
  <2>1. ~Reading /\ cqHead = head
    BY <1>2 DEF IInv, ModeInv
  <2>2. head = 0 /\ cqTail = Len(posted) /\ sqTail = 1
    BY <1>2, <2>1 DEF WriteInv
  <2>3. Len(taken) = 1
    BY <2>2 DEF sqHead
  <2>4. Cardinality(running) = 0
    BY FS_EmptySet
  <2>5. Cardinality(running) + Len(posted) = Len(taken) /\ Len(posted) \in Nat
    BY <1>2, Types DEF IInv, AnswerInv
  <2> QED
    BY <2>1, <2>2, <2>3, <2>4, <2>5 DEF MinComplete
<1> QED
  BY <1>1, <1>2, WriteStep, Invariance, PTL DEF Spec
=============================================================================
