---------------------------- MODULE PollAll_proofs ----------------------------
(***************************************************************************)
(* The safety of PollAll, for any number of files that the ring has room    *)
(* for, any sizes, and whatever fails.                                      *)
(***************************************************************************)
EXTENDS PollAll, SequenceTheorems, FiniteSetTheorems, TLAPS

(* The files a sequence of requests or completions names, each once.        *)
Of(s) == {s[k].file : k \in 1 .. Len(s)}
Single(s) == \A j, k \in 1 .. Len(s) : s[j].file = s[k].file => j = k
InKernel == {r.file : r \in running}
Waiting == Of(prepared) \cup Of(sq) \cup InKernel \cup Of(cq)

(* A file's read is in one place. *)
PlaceInv ==
  /\ Single(prepared) /\ Single(sq) /\ Single(cq)
  /\ \A q, r \in running : q.file = r.file => q = r
  /\ Of(prepared) \cap Of(sq) = {} /\ Of(prepared) \cap InKernel = {}
  /\ Of(prepared) \cap Of(cq) = {} /\ Of(sq) \cap InKernel = {}
  /\ Of(sq) \cap Of(cq) = {} /\ InKernel \cap Of(cq) = {}
  /\ Waiting \subseteq fds

(* It goes on where the file was left, and so do its bytes when they come.  *)
OffsetInv ==
  /\ \A k \in 1 .. Len(prepared) : prepared[k].off = offset[prepared[k].file]
  /\ \A k \in 1 .. Len(sq) : sq[k].off = offset[sq[k].file]
  /\ \A r \in running : r.off = offset[r.file]
  /\ \A k \in 1 .. Len(cq) :
       cq[k].res # Error =>
         buf[cq[k].file] =
           [n \in 1 .. cq[k].res |-> offset[cq[k].file] + n]
  /\ \A f \in Files : out[f] = [n \in 1 .. offset[f] |-> n]

PhaseInv ==
  /\ pc \in {"init", "open", "failed"} =>
       /\ sq = <<>> /\ running = {} /\ cq = <<>>
       /\ \A f \in Files : offset[f] = 0 /\ out[f] = <<>>
  /\ pc = "init" => i = 1 /\ fds = {} /\ prepared = <<>>
  /\ pc = "open" =>
       fds \subseteq 1 .. i - 1 /\ Of(prepared) = fds /\ numFiles = NFiles

(* numFiles counts the files that are read and those that were not opened.  *)
CountInv ==
  /\ pc = "read" =>
       /\ numFiles + Cardinality(fds \ Waiting) = NFiles
       /\ \A f \in Files : out[f] # <<>> => f \in Of(prepared)
  /\ pc = "close" => numFiles = 0
  /\ pc \in {"close", "done"} => fds = Files /\ \A f \in Files : out[f] = <<>>

IInv == TypeOK /\ PlaceInv /\ OffsetInv /\ PhaseInv /\ CountInv

-----------------------------------------------------------------------------
(* What Append and Tail make of a sequence and of the files it names.       *)
LEMMA Appended ==
  ASSUME NEW S, NEW s \in Seq(S), NEW e \in S
  PROVE  /\ Append(s, e) \in Seq(S)
         /\ Len(s) \in Nat /\ Len(Append(s, e)) = Len(s) + 1
         /\ \A n \in 1 .. Len(s) + 1 :
              Append(s, e)[n] = IF n <= Len(s) THEN s[n] ELSE e
         /\ Of(Append(s, e)) = Of(s) \cup {e.file}
         /\ Single(s) /\ e.file \notin Of(s) => Single(Append(s, e))
<1>1. Len(s) \in Nat
  BY LenProperties
<1>2. /\ Append(s, e) \in Seq(S) /\ Len(Append(s, e)) = Len(s) + 1
      /\ \A n \in 1 .. Len(s) : Append(s, e)[n] = s[n]
      /\ Append(s, e)[Len(s) + 1] = e
  BY AppendProperties
<1>3. \A n \in 1 .. Len(s) + 1 :
        Append(s, e)[n] = IF n <= Len(s) THEN s[n] ELSE e
  BY <1>1, <1>2
<1> DEFINE t == Append(s, e)
<1> HIDE DEF t
<1>4. /\ Len(t) = Len(s) + 1 /\ t[Len(s) + 1] = e
      /\ \A n \in 1 .. Len(s) : t[n] = s[n]
  BY <1>2 DEF t
<1>5. Of(t) = Of(s) \cup {e.file}
  <2>1. \A n \in 1 .. Len(t) : n \in 1 .. Len(s) \/ n = Len(s) + 1
    BY <1>1, <1>4
  <2>2. 1 .. Len(s) \subseteq 1 .. Len(t) /\ Len(s) + 1 \in 1 .. Len(t)
    BY <1>1, <1>4
  <2> QED
    BY <1>4, <2>1, <2>2 DEF Of
<1>6. Single(s) /\ e.file \notin Of(s) => Single(t)
  BY <1>1, <1>4 DEF Of, Single
<1> QED
  BY <1>1, <1>2, <1>3, <1>5, <1>6 DEF t

LEMMA Shortened ==
  ASSUME NEW S, NEW s \in Seq(S), s # <<>>
  PROVE  /\ Tail(s) \in Seq(S) /\ Head(s) \in S /\ Head(s) = s[1]
         /\ Len(s) \in Nat \ {0} /\ Len(Tail(s)) = Len(s) - 1
         /\ \A n \in 1 .. Len(s) - 1 : Tail(s)[n] = s[n + 1]
         /\ Head(s).file \in Of(s)
         /\ Single(s) => /\ Of(Tail(s)) = Of(s) \ {Head(s).file}
                         /\ Single(Tail(s))
<1>1. Len(s) \in Nat \ {0}
  BY EmptySeq
<1>2. /\ Tail(s) \in Seq(S) /\ Head(s) \in S /\ Len(Tail(s)) = Len(s) - 1
      /\ \A n \in 1 .. Len(Tail(s)) : Tail(s)[n] = s[n + 1]
  BY HeadTailProperties
<1>3. Head(s) = s[1]
  BY <1>1, HeadTailProperties
<1>4. Head(s).file \in Of(s)
  BY <1>1, <1>3 DEF Of
<1> DEFINE t == Tail(s)
           h == Head(s)
<1> HIDE DEF t, h
<1>5. /\ Len(t) = Len(s) - 1 /\ h = s[1]
      /\ \A n \in 1 .. Len(s) - 1 : t[n] = s[n + 1]
  BY <1>2, <1>3 DEF t, h
<1>6. ASSUME Single(s)
      PROVE  Of(t) = Of(s) \ {h.file} /\ Single(t)
  <2>1. \A n \in 1 .. Len(t) : n + 1 \in 1 .. Len(s) /\ n + 1 # 1
    BY <1>1, <1>5
  <2>2. \A n \in 1 .. Len(s) : n = 1 \/ (n - 1 \in 1 .. Len(t) /\ t[n - 1] = s[n])
    BY <1>1, <1>5
  <2>3. 1 \in 1 .. Len(s)
    BY <1>1
  <2>4. \A x \in Of(t) : x \in Of(s) /\ x # h.file
    BY <1>5, <1>6, <2>1, <2>3 DEF Of, Single
  <2>5. \A x \in Of(s) : x # h.file => x \in Of(t)
    BY <1>5, <2>2 DEF Of
  <2>6. Single(t)
    BY <1>1, <1>5, <1>6, <2>1 DEF Single
  <2> QED
    BY <2>4, <2>5, <2>6
<1> QED
  BY <1>1, <1>2, <1>3, <1>4, <1>6 DEF t, h

(* A sequence that names each file once is as long as it names files.       *)
LEMMA CountedFiles ==
  ASSUME NEW S, NEW s \in Seq(S), Single(s)
  PROVE  IsFiniteSet(Of(s)) /\ Cardinality(Of(s)) = Len(s)
<1> DEFINE g == [k \in 1 .. Len(s) |-> s[k].file]
<1>1. Len(s) \in Nat
  BY LenProperties
<1>2. IsFiniteSet(1 .. Len(s)) /\ Cardinality(1 .. Len(s)) = Len(s)
  BY <1>1, FS_Interval
<1>3. g \in Surjection(1 .. Len(s), Of(s))
  BY DEF Of, Surjection
<1>4. g \in Injection(1 .. Len(s), Of(s))
  BY DEF Of, Injection, IsInjective, Single
<1> HIDE DEF g
<1> QED
  BY <1>2, <1>3, <1>4, FS_Surjection

(* There are NFiles files. *)
LEMMA FilesCounted == IsFiniteSet(Files) /\ Cardinality(Files) = NFiles
<1>1. NFiles \in Nat \ {0}
  BY PollAllAssumption
<1>2. /\ IsFiniteSet(1 .. NFiles)
      /\ Cardinality(1 .. NFiles) = IF 1 > NFiles THEN 0 ELSE NFiles - 1 + 1
  BY <1>1, FS_Interval
<1> QED
  BY <1>1, <1>2 DEF Files

(* n bytes from an offset on are a sequence; and they extend what ends there. *)
LEMMA BytesAreSeq ==
  ASSUME NEW o \in Nat, NEW n \in Nat
  PROVE  [k \in 1 .. n |-> o + k] \in Seq(Nat) /\ Len([k \in 1 .. n |-> o + k]) = n
<1>1. \A k \in 1 .. n : o + k \in Nat
  OBVIOUS
<1> QED
  BY <1>1

LEMMA BytesExtend ==
  ASSUME NEW o \in Nat, NEW n \in Nat
  PROVE  [k \in 1 .. o |-> k] \o [k \in 1 .. n |-> o + k] = [k \in 1 .. o + n |-> k]
<1> DEFINE a == [k \in 1 .. o |-> k]
           b == [k \in 1 .. n |-> o + k]
           c == [k \in 1 .. o + n |-> k]
<1>1. a \in Seq(Nat) /\ Len(a) = o /\ b \in Seq(Nat) /\ Len(b) = n
      /\ c \in Seq(Nat) /\ Len(c) = o + n
  OBVIOUS
<1>2. /\ \A k \in 1 .. o : a[k] = k
      /\ \A k \in 1 .. n : b[k] = o + k
      /\ \A k \in 1 .. o + n : c[k] = k
  OBVIOUS
<1> HIDE DEF a, b, c
<1>3. /\ a \o b \in Seq(Nat) /\ Len(a \o b) = o + n
      /\ \A k \in 1 .. o + n :
           (a \o b)[k] = IF k <= o THEN a[k] ELSE b[k - o]
  BY <1>1, ConcatProperties
<1>4. \A k \in 1 .. o + n : (a \o b)[k] = c[k]
  BY <1>2, <1>3
<1>5. a \o b = c
  BY <1>1, <1>3, <1>4, SeqEqual
<1> QED
  BY <1>5 DEF a, b, c

-----------------------------------------------------------------------------
Completions == [file : Files, res : Nat \cup {Error}]

(* The types of the state, in a form the steps below use.                   *)
LEMMA Types ==
  ASSUME TypeOK
  PROVE  /\ QUEUE_DEPTH \in Nat /\ NFiles \in Nat \ {0}
         /\ NFiles <= QUEUE_DEPTH /\ Sizes \subseteq Nat
         /\ BUFFER_SIZE \in Nat \ {0}
         /\ i \in Nat \ {0} /\ i <= NFiles + 1 /\ fds \subseteq Files
         /\ size \in [Files -> Nat] /\ offset \in [Files -> Nat]
         /\ numFiles \in Nat /\ numFiles <= NFiles
         /\ prepared \in Seq(Requests) /\ sq \in Seq(Requests)
         /\ running \subseteq Requests /\ cq \in Seq(Completions)
         /\ buf \in [Files -> Seq(Nat)] /\ out \in [Files -> Seq(Nat)]
         /\ Of(prepared) \subseteq Files /\ Of(sq) \subseteq Files
         /\ Of(cq) \subseteq Files /\ InKernel \subseteq Files
         /\ Len(prepared) \in Nat /\ Len(sq) \in Nat /\ Len(cq) \in Nat
<1>1. /\ QUEUE_DEPTH \in Nat /\ NFiles \in Nat \ {0} /\ NFiles <= QUEUE_DEPTH
      /\ Sizes \subseteq Nat /\ BUFFER_SIZE \in Nat \ {0}
  BY PollAllAssumption
<1>2. /\ i \in 1 .. NFiles + 1 /\ fds \subseteq Files /\ size \in [Files -> Nat]
      /\ offset \in [Files -> Nat] /\ numFiles \in 0 .. NFiles
      /\ prepared \in Seq(Requests) /\ sq \in Seq(Requests)
      /\ running \subseteq Requests /\ cq \in Seq(Completions)
      /\ buf \in [Files -> Seq(Nat)] /\ out \in [Files -> Seq(Nat)]
  BY DEF TypeOK, Completions
<1>3. /\ \A k \in 1 .. Len(prepared) : prepared[k] \in Requests
      /\ \A k \in 1 .. Len(sq) : sq[k] \in Requests
      /\ \A k \in 1 .. Len(cq) : cq[k] \in Completions
  BY <1>2, ElementOfSeq
<1>4. /\ Of(prepared) \subseteq Files /\ Of(sq) \subseteq Files
      /\ Of(cq) \subseteq Files /\ InKernel \subseteq Files
  <2>1. \A r \in Requests : r.file \in Files
    BY DEF Requests
  <2>2. \A c \in Completions : c.file \in Files
    BY DEF Completions
  <2>3. Of(prepared) \subseteq Files /\ Of(sq) \subseteq Files
    BY <1>3, <2>1 DEF Of
  <2>4. Of(cq) \subseteq Files
    BY <1>3, <2>2 DEF Of
  <2>5. InKernel \subseteq Files
    BY <1>2, <2>1 DEF InKernel
  <2> QED
    BY <2>3, <2>4, <2>5
<1>5. Len(prepared) \in Nat /\ Len(sq) \in Nat /\ Len(cq) \in Nat
  BY <1>2, LenProperties
<1> QED
  BY <1>1, <1>2, <1>4, <1>5

LEMMA OfNothing == Of(<<>>) = {} /\ Single(<<>>)
<1>1. Len(<<>>) = 0
  BY EmptySeq
<1> QED
  BY <1>1 DEF Of, Single

LEMMA InitIInv == Init => IInv
<1> SUFFICES ASSUME Init
             PROVE  IInv
  OBVIOUS
<1>1. /\ <<>> \in Seq(Requests) /\ <<>> \in Seq(Completions)
      /\ <<>> \in Seq(Nat) /\ Len(<<>>) = 0
  BY EmptySeq
<1>2. /\ NFiles \in Nat \ {0} /\ Sizes \subseteq Nat
  BY PollAllAssumption
<1>3. TypeOK
  <2>1. /\ i \in 1 .. NFiles + 1 /\ fds \subseteq Files /\ size \in [Files -> Nat]
        /\ offset \in [Files -> Nat] /\ numFiles \in 0 .. NFiles
    <3>1. size \in [Files -> Nat]
      BY <1>2 DEF Init
    <3>2. i \in 1 .. NFiles + 1 /\ numFiles \in 0 .. NFiles /\ fds = {}
      BY <1>2 DEF Init
    <3>3. offset \in [Files -> Nat]
      BY DEF Init
    <3> QED
      BY <3>1, <3>2, <3>3
  <2>2. /\ prepared \in Seq(Requests) /\ sq \in Seq(Requests)
        /\ running \subseteq Requests /\ cq \in Seq(Completions)
        /\ buf \in [Files -> Seq(Nat)] /\ out \in [Files -> Seq(Nat)]
    BY <1>1 DEF Init
  <2> QED
    BY <2>1, <2>2 DEF Init, TypeOK, Completions
<1>4. PlaceInv
  BY OfNothing DEF Init, PlaceInv, Waiting, InKernel
<1>5. OffsetInv
  <2>1. [n \in 1 .. 0 |-> n] = <<>>
    OBVIOUS
  <2> QED
    BY <1>1, <2>1 DEF Init, OffsetInv
<1>6. PhaseInv /\ CountInv
  BY DEF Init, PhaseInv, CountInv
<1> QED
  BY <1>3, <1>4, <1>5, <1>6 DEF IInv

-----------------------------------------------------------------------------
(* The steps that move no request.                                          *)
LEMMA QuietSteps ==
  ASSUME IInv, InitQueue \/ FreadReturns \/ Close \/ UNCHANGED vars
  PROVE  IInv'
<1> USE DEF IInv
<1>1. CASE InitQueue
  <2>1. TypeOK'
    BY <1>1, Types DEF InitQueue, TypeOK, Ended, fileVars, kernelVars
  <2>2. PlaceInv' /\ OffsetInv'
    BY <1>1 DEF InitQueue, PlaceInv, OffsetInv, Waiting, InKernel, fileVars,
                kernelVars
  <2>3. PhaseInv'
    <3>1. Of(prepared) = {}
      BY <1>1, OfNothing DEF InitQueue, PhaseInv
    <3> QED
      BY <1>1, <3>1 DEF InitQueue, PhaseInv, fileVars, kernelVars
  <2>4. CountInv'
    BY <1>1 DEF InitQueue, CountInv, fileVars, kernelVars
  <2> QED
    BY <2>1, <2>2, <2>3, <2>4
<1>2. CASE FreadReturns
  <2>1. TypeOK'
    BY <1>2, Types DEF FreadReturns, TypeOK, fileVars, kernelVars
  <2>2. PlaceInv' /\ OffsetInv' /\ PhaseInv'
    BY <1>2 DEF FreadReturns, PlaceInv, OffsetInv, PhaseInv, Waiting, InKernel,
                fileVars, kernelVars
  <2>3. fds \ Waiting = Files
    <3>1. IsFiniteSet(Files) /\ Cardinality(Files) = NFiles
      BY FilesCounted
    <3>2. fds \ Waiting \in SUBSET Files
      BY Types
    <3>3. Cardinality(fds \ Waiting) = NFiles
      <4>1. 0 + Cardinality(fds \ Waiting) = NFiles
        BY <1>2 DEF FreadReturns, CountInv
      <4>2. Cardinality(fds \ Waiting) \in Nat
        BY <3>1, <3>2, FS_Subset, FS_CardinalityType
      <4> QED
        BY <4>1, <4>2
    <3> QED
      BY <3>1, <3>2, <3>3, FS_Subset
  <2>4. Of(prepared) = {} /\ fds = Files
    BY <2>3, Types DEF Waiting
  <2>5. CountInv'
    BY <1>2, <2>4 DEF FreadReturns, CountInv, fileVars
  <2> QED
    BY <2>1, <2>2, <2>5
<1>3. CASE Close
  <2>1. fds' = fds
    <3>1. fds' = fds \ (1 .. 0)
      BY <1>3 DEF Close, CountInv
    <3>2. 1 .. 0 = {}
      OBVIOUS
    <3> QED
      BY <3>1, <3>2
  <2>2. TypeOK'
    BY <1>3, <2>1, Types DEF Close, TypeOK, Ended, kernelVars
  <2>3. PlaceInv' /\ OffsetInv'
    <3>1. UNCHANGED <<fds, offset, prepared, sq, running, cq, buf, out>>
      BY <1>3, <2>1 DEF Close, kernelVars
    <3>2. PlaceInv'
      BY <3>1 DEF PlaceInv, Waiting, InKernel
    <3>3. OffsetInv'
      BY <3>1 DEF OffsetInv
    <3> QED
      BY <3>2, <3>3
  <2>4. PhaseInv' /\ CountInv'
    BY <1>3, <2>1 DEF Close, PhaseInv, CountInv
  <2> QED
    BY <2>2, <2>3, <2>4
<1>4. CASE UNCHANGED vars
  <2>1. TypeOK'
    BY <1>4 DEF vars, TypeOK, fileVars, kernelVars
  <2>2. PlaceInv' /\ OffsetInv' /\ PhaseInv' /\ CountInv'
    BY <1>4 DEF vars, PlaceInv, OffsetInv, PhaseInv, CountInv, Waiting,
                InKernel, fileVars, kernelVars
  <2> QED
    BY <2>1, <2>2
<1> QED
  BY <1>1, <1>2, <1>3, <1>4

-----------------------------------------------------------------------------
(* A file that is opened has not been prepared, and there is room for it.   *)
LEMMA OpenStep ==
  ASSUME IInv, OpenFile
  PROVE  IInv'
<1> USE DEF IInv
<1>1. /\ pc = "open" /\ i \in Files /\ i \notin fds /\ Of(prepared) = fds
      /\ sq = <<>> /\ cq = <<>> /\ running = {} /\ numFiles = NFiles
      /\ fds \subseteq 1 .. i - 1
  <2>1. /\ pc = "open" /\ i <= NFiles /\ Of(prepared) = fds
        /\ sq = <<>> /\ cq = <<>> /\ running = {} /\ numFiles = NFiles
        /\ fds \subseteq 1 .. i - 1
    BY DEF OpenFile, PhaseInv
  <2>2. i \in Nat \ {0} /\ NFiles \in Nat
    BY Types
  <2>3. i \notin 1 .. i - 1 /\ i \in Files
    BY <2>1, <2>2 DEF Files
  <2> QED
    BY <2>1, <2>3
<1>2. UNCHANGED <<pc, size, offset, sq, running, buf, cq, numFiles, out>>
      /\ i' = i + 1 /\ i' \in 1 .. NFiles + 1
  BY Types DEF OpenFile, kernelVars
<1>3. CASE fds' = fds /\ prepared' = prepared
  <2>1. TypeOK'
    BY <1>2, <1>3 DEF TypeOK
  <2>2. PlaceInv'
    BY <1>2, <1>3 DEF PlaceInv, Waiting, InKernel
  <2>3. OffsetInv'
    BY <1>2, <1>3 DEF OffsetInv
  <2>4. fds \subseteq 1 .. (i + 1) - 1
    <3>1. i \in Nat \ {0}
      BY Types
    <3>2. \A f \in 1 .. i - 1 : f \in 1 .. (i + 1) - 1
      BY <3>1
    <3> QED
      BY <1>1, <3>2
  <2>5. PhaseInv' /\ CountInv'
    BY <1>1, <1>2, <1>3, <2>4 DEF PhaseInv, CountInv
  <2> QED
    BY <2>1, <2>2, <2>3, <2>5
<1>4. CASE fds' = fds \cup {i} /\ SetupRead(i, 0)
  <2> DEFINE e == [file |-> i, off |-> 0]
  <2>1. SqeLeft
    <3>1. IsFiniteSet(1 .. i - 1) /\ Cardinality(1 .. i - 1) = i - 1
      <4>1. i \in Nat \ {0}
        BY Types
      <4>2. 1 \in Int /\ i - 1 \in Int /\ (1 > i - 1 => i - 1 = 0)
        BY <4>1
      <4>3. /\ IsFiniteSet(1 .. i - 1)
            /\ Cardinality(1 .. i - 1) =
                 IF 1 > i - 1 THEN 0 ELSE (i - 1) - 1 + 1
        BY <4>2, FS_Interval
      <4> QED
        BY <4>1, <4>2, <4>3
    <3>2. Cardinality(Of(prepared)) <= i - 1
      <4>1. Of(prepared) \in SUBSET (1 .. i - 1)
        BY <1>1
      <4>2. Cardinality(Of(prepared)) <= Cardinality(1 .. i - 1)
        BY <3>1, <4>1, FS_Subset
      <4> QED
        BY <3>1, <4>2
    <3>3. Len(prepared) <= i - 1
      BY <3>2, Types, CountedFiles DEF PlaceInv
    <3>4. Len(sq) = 0
      BY <1>1, EmptySeq
    <3>5. i <= NFiles
      BY <1>1 DEF Files
    <3> QED
      BY <3>3, <3>4, <3>5, Types DEF SqeLeft
  <2>2. prepared' = Append(prepared, e) /\ e \in Requests /\ e.file = i /\ e.off = 0
    BY <1>1, <1>4, <2>1 DEF SetupRead, Requests
  <2> HIDE DEF e
  <2>3. /\ prepared' \in Seq(Requests) /\ Len(prepared') = Len(prepared) + 1
        /\ Len(prepared) \in Nat
        /\ \A n \in 1 .. Len(prepared) + 1 :
             prepared'[n] = IF n <= Len(prepared) THEN prepared[n] ELSE e
        /\ Of(prepared') = Of(prepared) \cup {i} /\ Single(prepared')
    BY <1>1, <2>2, Types, Appended DEF PlaceInv
  <2>4. TypeOK'
    BY <1>1, <1>2, <1>4, <2>3 DEF TypeOK
  <2>5. PlaceInv'
    BY <1>1, <1>2, <1>4, <2>3, OfNothing DEF PlaceInv, Waiting, InKernel
  <2>6. OffsetInv'
    <3>1. \A k \in 1 .. Len(prepared') : prepared'[k].off = offset[prepared'[k].file]
      BY <1>1, <2>2, <2>3 DEF OffsetInv, PhaseInv
    <3> QED
      BY <1>2, <3>1 DEF OffsetInv
  <2>7. PhaseInv'
    <3>1. fds' \subseteq 1 .. (i + 1) - 1
      <4>1. i \in Nat \ {0}
        BY Types
      <4>2. \A f \in (1 .. i - 1) \cup {i} : f \in 1 .. (i + 1) - 1
        BY <4>1
      <4> QED
        BY <1>1, <1>4, <4>2
    <3> QED
      BY <1>1, <1>2, <1>4, <2>3, <3>1 DEF PhaseInv
  <2>8. CountInv'
    BY <1>1, <1>2 DEF CountInv
  <2> QED
    BY <2>4, <2>5, <2>6, <2>7, <2>8
<1> QED
  BY <1>3, <1>4 DEF OpenFile

(* All that was prepared is handed over.                                    *)
LEMMA SubmitStep ==
  ASSUME IInv, Submit
  PROVE  IInv'
<1> USE DEF IInv
<1>1. /\ pc = "open" /\ pc' = "read" /\ Of(prepared) = fds
      /\ sq = <<>> /\ cq = <<>> /\ running = {} /\ numFiles = NFiles
      /\ \A f \in Files : out[f] = <<>>
  BY DEF Submit, PhaseInv
<1>2. sq' = prepared /\ prepared' = <<>>
  BY <1>1, Types, ConcatEmptySeq DEF Submit
<1>3. UNCHANGED <<i, fds, size, offset, running, buf, cq, numFiles, out>>
  BY DEF Submit, fileVars
<1>4. TypeOK'
  <2>1. <<>> \in Seq(Requests)
    OBVIOUS
  <2> QED
    BY <1>1, <1>2, <1>3, <2>1 DEF TypeOK
<1>5. PlaceInv'
  BY <1>1, <1>2, <1>3, OfNothing DEF PlaceInv, Waiting, InKernel
<1>6. OffsetInv'
  <2>1. Len(<<>>) = 0
    OBVIOUS
  <2> QED
    BY <1>2, <1>3, <2>1 DEF OffsetInv
<1>7. PhaseInv'
  BY <1>1 DEF PhaseInv
<1>8. CountInv'
  <2>1. fds' \ Waiting' = {}
    BY <1>1, <1>2, <1>3 DEF Waiting
  <2>2. Cardinality(fds' \ Waiting') = 0
    BY <2>1, FS_EmptySet
  <2>3. numFiles' + 0 = NFiles
    BY <1>1, <1>3, Types
  <2> QED
    BY <1>1, <1>3, <2>2, <2>3 DEF CountInv
<1> QED
  BY <1>4, <1>5, <1>6, <1>7, <1>8

-----------------------------------------------------------------------------
(* What the steps of my_fread take from the completion queue.               *)
LEMMA OldestCqe ==
  ASSUME IInv, cq # <<>>, cq' = Tail(cq)
  PROVE  /\ Cqe \in Completions /\ Cqe = cq[1] /\ 1 \in 1 .. Len(cq)
         /\ Cqe.file \in Files /\ (Cqe.res \in Nat \/ Cqe.res = Error)
         /\ cq' \in Seq(Completions) /\ Len(cq') = Len(cq) - 1
         /\ \A n \in 1 .. Len(cq) - 1 :
              cq'[n] = cq[n + 1] /\ n + 1 \in 1 .. Len(cq)
         /\ Cqe.file \in Of(cq) /\ Of(cq') = Of(cq) \ {Cqe.file} /\ Single(cq')
         /\ Cqe.file \in fds /\ Cqe.file \notin Of(prepared)
         /\ Cqe.file \notin Of(sq) /\ Cqe.file \notin InKernel
<1>1. cq \in Seq(Completions) /\ Single(cq) /\ Len(cq) \in Nat
  BY Types DEF IInv, PlaceInv
<1>2. /\ cq' \in Seq(Completions) /\ Cqe \in Completions /\ Cqe = cq[1]
      /\ Len(cq) \in Nat \ {0} /\ Len(cq') = Len(cq) - 1
      /\ \A n \in 1 .. Len(cq) - 1 : cq'[n] = cq[n + 1]
      /\ Cqe.file \in Of(cq)
      /\ Of(cq') = Of(cq) \ {Cqe.file} /\ Single(cq')
  BY <1>1, Shortened DEF Cqe
<1>3. /\ 1 \in 1 .. Len(cq)
      /\ \A n \in 1 .. Len(cq) - 1 : n + 1 \in 1 .. Len(cq)
  BY <1>2
<1>4. Cqe.file \in Files /\ (Cqe.res \in Nat \/ Cqe.res = Error)
  BY <1>2 DEF Completions
<1>5. /\ Cqe.file \in fds /\ Cqe.file \notin Of(prepared)
      /\ Cqe.file \notin Of(sq) /\ Cqe.file \notin InKernel
  BY <1>2 DEF IInv, PlaceInv, Waiting
<1> QED
  BY <1>2, <1>3, <1>4, <1>5

LEMMA FileDoneStep ==
  ASSUME IInv, FileDone
  PROVE  IInv'
<1> USE DEF IInv
<1>1. /\ pc = "read" /\ cq # <<>> /\ cq' = Tail(cq) /\ numFiles > 0
      /\ numFiles' = numFiles - 1
      /\ UNCHANGED <<pc, i, fds, size, offset, prepared, sq, running, buf, out>>
  BY DEF FileDone, OneDone, AfterCqe, fileVars, kernelVars
<1>2. TypeOK'
  <2>1. numFiles' \in 0 .. NFiles
    BY <1>1, Types
  <2> QED
    BY <1>1, <2>1, OldestCqe DEF TypeOK, Completions
<1>3. PlaceInv'
  BY <1>1, OldestCqe DEF PlaceInv, Waiting, InKernel
<1>4. OffsetInv'
  <2>1. \A k \in 1 .. Len(cq') :
          cq'[k].res # Error =>
            buf[cq'[k].file] =
              [n \in 1 .. cq'[k].res |-> offset[cq'[k].file] + n]
    BY <1>1, OldestCqe DEF OffsetInv
  <2> QED
    BY <1>1, <2>1 DEF OffsetInv
<1>5. PhaseInv'
  BY <1>1 DEF PhaseInv
<1>6. CountInv'
  <2>1. fds' \ Waiting' = (fds \ Waiting) \cup {Cqe.file}
    BY <1>1, OldestCqe DEF Waiting, InKernel
  <2>2. Cqe.file \notin fds \ Waiting
    BY <1>1, OldestCqe DEF Waiting
  <2>3. IsFiniteSet(fds \ Waiting) /\ Cardinality(fds \ Waiting) \in Nat
    <3>1. IsFiniteSet(Files)
      BY Types, FS_Interval DEF Files
    <3>2. fds \ Waiting \in SUBSET Files
      BY Types
    <3> QED
      BY <3>1, <3>2, FS_Subset, FS_CardinalityType
  <2>4. Cardinality(fds' \ Waiting') = Cardinality(fds \ Waiting) + 1
    BY <2>1, <2>2, <2>3, FS_AddElement
  <2>5. numFiles' + Cardinality(fds' \ Waiting') = NFiles
    BY <1>1, <2>3, <2>4, Types DEF CountInv
  <2> QED
    BY <1>1, <2>5 DEF CountInv
<1> QED
  BY <1>2, <1>3, <1>4, <1>5, <1>6

(* A file whose completion is handled leaves room for its next request.     *)
LEMMA RoomForNext ==
  ASSUME IInv, cq # <<>>, cq' = Tail(cq)
  PROVE  SqeLeft
<1> DEFINE P == Of(prepared)
           Q == Of(sq)
           R == Files \ {Cqe.file}
<1>1. /\ IsFiniteSet(P) /\ Cardinality(P) = Len(prepared)
      /\ IsFiniteSet(Q) /\ Cardinality(Q) = Len(sq)
  BY Types, CountedFiles DEF IInv, PlaceInv
<1>2. P \cap Q = {} /\ P \cup Q \in SUBSET R
  <2>1. Cqe.file \notin P /\ Cqe.file \notin Q
    BY OldestCqe
  <2>2. P \subseteq Files /\ Q \subseteq Files
    BY Types DEF IInv
  <2>3. P \cap Q = {}
    BY DEF IInv, PlaceInv
  <2> HIDE DEF P, Q
  <2> QED
    BY <2>1, <2>2, <2>3
<1>3. IsFiniteSet(R) /\ Cardinality(R) = NFiles - 1
  <2>1. IsFiniteSet(Files) /\ Cardinality(Files) = NFiles
    BY FilesCounted
  <2>2. Cqe.file \in Files
    BY OldestCqe
  <2> QED
    BY <2>1, <2>2, FS_RemoveElement
<1> HIDE DEF P, Q, R
<1>4. Cardinality(P \cup Q) <= NFiles - 1
  BY <1>2, <1>3, FS_Subset
<1>5. Cardinality(P \cap Q) = 0
  BY <1>2, FS_EmptySet
<1>6. Cardinality(P \cup Q) = Cardinality(P) + Cardinality(Q) - Cardinality(P \cap Q)
  BY <1>1, FS_Union
<1> QED
  BY <1>1, <1>4, <1>5, <1>6, Types DEF IInv, SqeLeft

LEMMA FileReadStep ==
  ASSUME IInv, FileRead
  PROVE  IInv'
<1> USE DEF IInv
<1> DEFINE f == Cqe.file
           o == offset[f] + Cqe.res
           e == [file |-> f, off |-> o]
<1>1. /\ pc = "read" /\ cq # <<>> /\ cq' = Tail(cq) /\ numFiles' = numFiles
      /\ UNCHANGED <<pc, i, fds, size, sq, running, buf>>
      /\ out' = [out EXCEPT ![f] = @ \o buf[f]]
      /\ offset' = [offset EXCEPT ![f] = o]
  BY DEF FileRead, AfterCqe, StillReading, OffsetAfter, fileVars, kernelVars
<1>2. f \in Files /\ Cqe.res \in Nat /\ offset[f] \in Nat /\ o \in Nat
  <2>1. Cqe.res > 0
    BY DEF FileRead
  <2>2. Cqe.res # Error
    BY <2>1 DEF Error
  <2>3. f \in Files /\ Cqe.res \in Nat
    BY <1>1, <2>2, OldestCqe
  <2>4. offset[f] \in Nat
    BY <2>3, Types
  <2> QED
    BY <2>3, <2>4
<1>3. prepared' = Append(prepared, e)
  BY <1>1, RoomForNext DEF FileRead, SetupRead, OffsetAfter
<1>4. e \in Requests /\ e.file = f /\ e.off = o
  BY <1>2 DEF Requests
<1>5. buf[f] = [n \in 1 .. Cqe.res |-> offset[f] + n]
  <2>1. Cqe.res # Error
    BY <1>2 DEF Error
  <2>2. Cqe = cq[1] /\ 1 \in 1 .. Len(cq)
    BY <1>1, OldestCqe
  <2> QED
    BY <2>1, <2>2 DEF OffsetInv
<1>6. out[f] \o buf[f] = [n \in 1 .. o |-> n]
  <2>1. out[f] = [n \in 1 .. offset[f] |-> n]
    BY <1>2 DEF OffsetInv
  <2> QED
    BY <1>2, <1>5, <2>1, BytesExtend
<1>7. out[f] \o buf[f] \in Seq(Nat)
  BY <1>2, Types, ConcatProperties
<1>8. /\ f \notin Of(prepared) /\ f \notin Of(sq) /\ f \notin InKernel
      /\ f \in Of(cq) /\ f \in fds
      /\ Of(cq') = Of(cq) \ {f} /\ Single(cq') /\ cq' \in Seq(Completions)
      /\ Len(cq') = Len(cq) - 1
      /\ \A n \in 1 .. Len(cq) - 1 :
           cq'[n] = cq[n + 1] /\ n + 1 \in 1 .. Len(cq)
  BY <1>1, OldestCqe
<1> HIDE DEF e, o, f
<1>9. /\ prepared' \in Seq(Requests) /\ Len(prepared') = Len(prepared) + 1
      /\ Len(prepared) \in Nat
      /\ \A n \in 1 .. Len(prepared) + 1 :
           prepared'[n] = IF n <= Len(prepared) THEN prepared[n] ELSE e
      /\ Of(prepared') = Of(prepared) \cup {f} /\ Single(prepared')
  <2>1. prepared \in Seq(Requests) /\ Single(prepared)
    BY Types DEF PlaceInv
  <2> QED
    BY <1>3, <1>4, <1>8, <2>1, Appended
<1>10. offset' \in [Files -> Nat] /\ out' \in [Files -> Seq(Nat)]
  BY <1>1, <1>2, <1>7, Types
<1>11. \A g \in Files : /\ offset'[g] = IF g = f THEN o ELSE offset[g]
                        /\ out'[g] = IF g = f THEN out[f] \o buf[f] ELSE out[g]
  BY <1>1, Types
<1>12. TypeOK'
  BY <1>1, <1>8, <1>9, <1>10 DEF TypeOK, Completions
<1>13. PlaceInv'
  BY <1>1, <1>8, <1>9 DEF PlaceInv, Waiting, InKernel
<1>14. OffsetInv'
  <2>1. \A k \in 1 .. Len(prepared') : prepared'[k].off = offset'[prepared'[k].file]
    <3>1. \A k \in 1 .. Len(prepared) :
            prepared[k].file \in Files /\ prepared[k].file # f
      BY <1>8, Types DEF Of
    <3>2. \A k \in 1 .. Len(prepared) : prepared[k].off = offset'[prepared[k].file]
      BY <1>11, <3>1 DEF OffsetInv
    <3>3. e.off = offset'[e.file]
      BY <1>2, <1>4, <1>11
    <3> QED
      BY <1>9, <3>2, <3>3
  <2>2. \A k \in 1 .. Len(sq') : sq'[k].off = offset'[sq'[k].file]
    <3>1. \A k \in 1 .. Len(sq) : sq[k].file \in Files /\ sq[k].file # f
      BY <1>8, Types DEF Of
    <3> QED
      BY <1>1, <1>11, <3>1 DEF OffsetInv
  <2>3. \A r \in running' : r.off = offset'[r.file]
    <3>1. \A r \in running : r.file \in Files /\ r.file # f
      BY <1>8, Types DEF InKernel
    <3> QED
      BY <1>1, <1>11, <3>1 DEF OffsetInv
  <2>4. \A k \in 1 .. Len(cq') :
          cq'[k].res # Error =>
            buf[cq'[k].file] =
              [n \in 1 .. cq'[k].res |-> offset'[cq'[k].file] + n]
    <3>1. ASSUME NEW k \in 1 .. Len(cq')
          PROVE  cq'[k].file \in Files /\ cq'[k].file # f /\ cq'[k] = cq[k + 1]
                 /\ k + 1 \in 1 .. Len(cq)
      <4>1. cq'[k].file \in Of(cq')
        BY DEF Of
      <4>2. k \in 1 .. Len(cq) - 1
        BY <1>8
      <4> QED
        BY <1>8, <4>1, <4>2, Types
    <3> QED
      BY <1>11, <3>1 DEF OffsetInv
  <2>5. \A g \in Files : out'[g] = [n \in 1 .. offset'[g] |-> n]
    BY <1>6, <1>11 DEF OffsetInv
  <2> QED
    BY <1>1, <2>1, <2>2, <2>3, <2>4, <2>5 DEF OffsetInv
<1>15. PhaseInv'
  BY <1>1 DEF PhaseInv
<1>16. CountInv'
  <2>1. Waiting' = Waiting
    BY <1>1, <1>8, <1>9 DEF Waiting, InKernel
  <2>2. \A g \in Files : out'[g] # <<>> => g \in Of(prepared')
    BY <1>1, <1>9, <1>11 DEF CountInv
  <2> QED
    BY <1>1, <2>1, <2>2 DEF CountInv
<1> QED
  BY <1>12, <1>13, <1>14, <1>15, <1>16

-----------------------------------------------------------------------------
(* The kernel's steps.                                                      *)
LEMMA TakeStep ==
  ASSUME IInv, Take
  PROVE  IInv'
<1> USE DEF IInv
<1>1. /\ sq # <<>> /\ sq' = Tail(sq) /\ running' = running \cup {Head(sq)}
      /\ UNCHANGED <<pc, i, fds, size, offset, prepared, buf, cq, numFiles, out>>
  BY DEF Take, fileVars
<1>2. /\ sq \in Seq(Requests) /\ Single(sq)
  BY Types DEF PlaceInv
<1>3. /\ sq' \in Seq(Requests) /\ Head(sq) \in Requests /\ Head(sq) = sq[1]
      /\ Len(sq) \in Nat \ {0} /\ Len(sq') = Len(sq) - 1
      /\ \A n \in 1 .. Len(sq) - 1 : sq'[n] = sq[n + 1]
      /\ Head(sq).file \in Of(sq)
      /\ Of(sq') = Of(sq) \ {Head(sq).file} /\ Single(sq')
  BY <1>1, <1>2, Shortened
<1>4. InKernel' = InKernel \cup {Head(sq).file}
  BY <1>1 DEF InKernel
<1>5. TypeOK'
  BY <1>1, <1>3 DEF TypeOK
<1>6. PlaceInv'
  <2>1. \A q, r \in running' : q.file = r.file => q = r
    BY <1>1, <1>3 DEF PlaceInv, InKernel
  <2> QED
    BY <1>1, <1>3, <1>4, <2>1 DEF PlaceInv, Waiting
<1>7. OffsetInv'
  <2>1. \A n \in 1 .. Len(sq) - 1 : n + 1 \in 1 .. Len(sq)
    BY <1>3
  <2>2. \A k \in 1 .. Len(sq') : sq'[k].off = offset[sq'[k].file]
    BY <1>3, <2>1 DEF OffsetInv
  <2>3. \A r \in running' : r.off = offset[r.file]
    BY <1>1, <1>3 DEF OffsetInv
  <2> QED
    BY <1>1, <2>2, <2>3 DEF OffsetInv
<1>8. PhaseInv'
  BY <1>1 DEF PhaseInv
<1>9. CountInv'
  <2>1. Waiting' = Waiting
    BY <1>1, <1>3, <1>4 DEF Waiting
  <2> QED
    BY <1>1, <2>1 DEF CountInv
<1> QED
  BY <1>5, <1>6, <1>7, <1>8, <1>9

(* What a read leaves in the buffer is what its completion says.            *)
LEMMA CompleteStep ==
  ASSUME IInv, NEW r \in running, Complete(r)
  PROVE  IInv'
<1> USE DEF IInv
<1>1. PICK n \in Nat \cup {Error} :
        /\ Post(r, n)
        /\ \/ n \in Nat /\ buf' = [buf EXCEPT ![r.file] = [k \in 1 .. n |-> r.off + k]]
           \/ n = Error /\ buf' = buf
  <2>1. Left(r) \in Nat
    <3>1. r.off \in Nat /\ r.file \in Files /\ size[r.file] \in Nat
      BY Types DEF Requests
    <3> QED
      BY <3>1, Types DEF Left, Smaller
  <2>2. \A n \in 0 .. Left(r) : n \in Nat
    BY <2>1
  <2> QED
    BY <2>2 DEF Complete
<1> DEFINE c == [file |-> r.file, res |-> n]
<1>2. /\ cq' = Append(cq, c) /\ running' = running \ {r}
      /\ UNCHANGED <<pc, i, fds, size, offset, prepared, sq, numFiles, out>>
  BY <1>1 DEF Post, fileVars
<1>3. /\ r \in Requests /\ r.file \in Files /\ r.off \in Nat
      /\ r.file \in InKernel /\ r.off = offset[r.file]
  BY Types DEF Requests, InKernel, OffsetInv
<1>4. c \in Completions /\ c.file = r.file /\ c.res = n
  BY <1>3 DEF Completions
<1> HIDE DEF c
<1>5. r.file \notin Of(cq) /\ cq \in Seq(Completions) /\ Single(cq)
  BY <1>3, Types DEF PlaceInv
<1>6. /\ cq' \in Seq(Completions) /\ Len(cq') = Len(cq) + 1
      /\ Len(cq) \in Nat
      /\ \A m \in 1 .. Len(cq) + 1 : cq'[m] = IF m <= Len(cq) THEN cq[m] ELSE c
      /\ Of(cq') = Of(cq) \cup {r.file} /\ Single(cq')
  BY <1>2, <1>4, <1>5, Appended
<1>7. InKernel' = InKernel \ {r.file}
  BY <1>2 DEF InKernel, PlaceInv
<1>8. buf' \in [Files -> Seq(Nat)]
  <2>1. CASE n \in Nat /\ buf' = [buf EXCEPT ![r.file] = [k \in 1 .. n |-> r.off + k]]
    <3>1. [k \in 1 .. n |-> r.off + k] \in Seq(Nat)
      BY <1>3, <2>1, BytesAreSeq
    <3> QED
      BY <2>1, <3>1, Types
  <2>2. CASE buf' = buf
    BY <2>2, Types
  <2> QED
    BY <1>1, <2>1, <2>2
<1>9. TypeOK'
  BY <1>2, <1>6, <1>8 DEF TypeOK, Completions
<1>10. PlaceInv'
  <2>1. \A p, q \in running' : p.file = q.file => p = q
    BY <1>2 DEF PlaceInv
  <2> QED
    BY <1>2, <1>3, <1>6, <1>7, <2>1 DEF PlaceInv, Waiting
<1>11. OffsetInv'
  <2>1. \A k \in 1 .. Len(cq) : cq[k].file \in Files /\ cq[k].file # r.file
    BY <1>5, Types DEF Of
  <2>2. \A f \in Files : f # r.file => buf'[f] = buf[f]
    <3> DEFINE bytes == [k \in 1 .. n |-> r.off + k]
    <3>1. buf' = [buf EXCEPT ![r.file] = bytes] \/ buf' = buf
      BY <1>1
    <3> HIDE DEF bytes
    <3> QED
      BY <3>1, Types
  <2>3. c.res # Error => buf'[c.file] = [m \in 1 .. c.res |-> offset[c.file] + m]
    <3>1. ASSUME n # Error
          PROVE  buf'[r.file] = [m \in 1 .. n |-> offset[r.file] + m]
      <4>1. buf' = [buf EXCEPT ![r.file] = [k \in 1 .. n |-> r.off + k]]
        BY <1>1, <3>1
      <4>2. buf'[r.file] = [k \in 1 .. n |-> r.off + k]
        BY <1>3, <4>1, Types
      <4> QED
        BY <1>3, <4>2
    <3> QED
      BY <1>4, <3>1
  <2>4. \A k \in 1 .. Len(cq) :
          cq[k].res # Error =>
            buf'[cq[k].file] = [m \in 1 .. cq[k].res |-> offset[cq[k].file] + m]
    BY <2>1, <2>2 DEF OffsetInv
  <2>5. \A k \in 1 .. Len(cq') :
          cq'[k].res # Error =>
            buf'[cq'[k].file] = [m \in 1 .. cq'[k].res |-> offset[cq'[k].file] + m]
    <3> SUFFICES ASSUME NEW k \in 1 .. Len(cq'), cq'[k].res # Error
                 PROVE  buf'[cq'[k].file] =
                          [m \in 1 .. cq'[k].res |-> offset[cq'[k].file] + m]
      OBVIOUS
    <3>1. CASE k \in 1 .. Len(cq)
      <4>1. cq'[k] = cq[k]
        BY <1>6, <3>1
      <4> QED
        BY <2>4, <3>1, <4>1
    <3>2. CASE k = Len(cq) + 1
      <4>1. cq'[k] = c
        BY <1>6, <3>2
      <4> QED
        BY <2>3, <4>1
    <3> QED
      BY <1>6, <3>1, <3>2
  <2> QED
    BY <1>2, <2>5 DEF OffsetInv
<1>12. PhaseInv'
  BY <1>2 DEF PhaseInv
<1>13. CountInv'
  <2>1. Waiting' = Waiting
    BY <1>2, <1>3, <1>6, <1>7 DEF Waiting
  <2> QED
    BY <1>2, <2>1 DEF CountInv
<1> QED
  BY <1>9, <1>10, <1>11, <1>12, <1>13

-----------------------------------------------------------------------------
LEMMA StepIInv == IInv /\ [Next]_vars => IInv'
<1> SUFFICES ASSUME IInv, [Next]_vars
             PROVE  IInv'
  OBVIOUS
<1>1. CASE InitQueue \/ FreadReturns \/ Close \/ Poll \/ Exited \/ UNCHANGED vars
  BY <1>1, QuietSteps DEF Poll, Exited
<1>2. CASE OpenFile
  BY <1>2, OpenStep
<1>3. CASE Submit
  BY <1>3, SubmitStep
<1>4. CASE FileDone
  BY <1>4, FileDoneStep
<1>5. CASE FileRead
  BY <1>5, FileReadStep
<1>6. CASE Kernel
  BY <1>6, TakeStep, CompleteStep DEF Kernel
<1> QED
  BY <1>1, <1>2, <1>3, <1>4, <1>5, <1>6 DEF Next, Program

(* The state of the program is always one IInv describes: each file's one   *)
(* read goes on where the file was left, and numFiles counts what is read.  *)
THEOREM Invariance == Spec => []IInv
  BY InitIInv, StepIInv, PTL DEF Spec

(* Types and ranges; numFiles never runs below 0 (polling.c:76-92).         *)
THEOREM TypeCorrect == Spec => []TypeOK
<1>1. IInv => TypeOK
  BY DEF IInv
<1> QED
  BY <1>1, Invariance, PTL

(* What is written of a file is its beginning, up to its offset             *)
(* (polling.c:85-88).                                                       *)
THEOREM WrittenInOrder == Spec => []WrittenFromStart
<1>1. IInv => WrittenFromStart
  BY DEF IInv, OffsetInv, WrittenFromStart
<1> QED
  BY <1>1, Invariance, PTL

(* A file's read is never dropped for want of an entry, and never made      *)
(* twice at a time (polling.c:21-23, 59-70, 88).                            *)
THEOREM ReadsAreSingle == Spec => []OneReadPerFile
<1>1. ASSUME IInv
      PROVE  OneReadPerFile
  <2>1. ASSUME NEW f \in Files, NEW p \in EntriesOf(f), NEW q \in EntriesOf(f)
        PROVE  p = q
    <3> DEFINE InP(x) == \E k \in 1 .. Len(prepared) :
                           prepared[k].file = f /\ x = <<"prepared", k>>
               InS(x) == \E k \in 1 .. Len(sq) : sq[k].file = f /\ x = <<"sq", k>>
               InR(x) == \E r \in running : r.file = f /\ x = <<"running", r>>
               InC(x) == \E k \in 1 .. Len(cq) : cq[k].file = f /\ x = <<"cq", k>>
    <3>1. \A x \in EntriesOf(f) : InP(x) \/ InS(x) \/ InR(x) \/ InC(x)
      BY DEF EntriesOf
    <3>2. \A x : /\ InP(x) => f \in Of(prepared)
                 /\ InS(x) => f \in Of(sq)
                 /\ InR(x) => f \in InKernel
                 /\ InC(x) => f \in Of(cq)
      BY DEF Of, InKernel
    <3> DEFINE Together(x, y) == \/ InP(x) /\ InP(y)
                                 \/ InS(x) /\ InS(y)
                                 \/ InR(x) /\ InR(y)
                                 \/ InC(x) /\ InC(y)
    <3>3. \A x, y : Together(x, y) => x = y
      BY <1>1 DEF IInv, PlaceInv, Single
    <3> HIDE DEF InP, InS, InR, InC
    <3>4. Together(p, q)
      BY <1>1, <3>1, <3>2 DEF IInv, PlaceInv
    <3> QED
      BY <3>3, <3>4
  <2>2. pc = "read" => \A f \in fds :
          out[f] # <<>> => \E k \in 1 .. Len(prepared) : prepared[k].file = f
    BY <1>1, Types DEF IInv, CountInv, Of
  <2> QED
    BY <2>1, <2>2 DEF OneReadPerFile
<1> QED
  BY <1>1, Invariance, PTL

(* my_fread returns only when every file was opened and none gave a byte    *)
(* (polling.c:61-63, 76-98).                                                *)
THEOREM ReturnsWithNothing == Spec => []ReturnsOnlyEmptyHanded
<1>1. IInv => ReturnsOnlyEmptyHanded
  BY DEF IInv, CountInv, ReturnsOnlyEmptyHanded
<1> QED
  BY <1>1, Invariance, PTL

-----------------------------------------------------------------------------
(* Once my_fopen has submitted, only a file that gave bytes has a read that  *)
(* is prepared and not submitted.                                           *)
LaterInv == pc = "read" => \A f \in Of(prepared) : out[f] # <<>>

LEMMA LaterRead ==
  ASSUME IInv, LaterInv, FileRead
  PROVE  LaterInv'
<1> USE DEF IInv
<1> DEFINE f == Cqe.file
           o == offset[f] + Cqe.res
           e == [file |-> f, off |-> o]
           w == out[f] \o buf[f]
<1>1. /\ pc = "read" /\ cq # <<>> /\ cq' = Tail(cq) /\ Cqe.res > 0
      /\ out' = [out EXCEPT ![f] = @ \o buf[f]]
  BY DEF FileRead, AfterCqe
<1>2. f \in Files /\ Cqe.res \in Nat /\ offset[f] \in Nat /\ o \in Nat
      /\ Cqe = cq[1] /\ 1 \in 1 .. Len(cq) /\ Cqe.res # Error
  <2>1. Cqe.res # Error
    BY <1>1 DEF Error
  <2>2. f \in Files /\ Cqe.res \in Nat /\ Cqe = cq[1] /\ 1 \in 1 .. Len(cq)
    BY <1>1, <2>1, OldestCqe
  <2>3. offset[f] \in Nat
    BY <2>2, Types
  <2> QED
    BY <2>1, <2>2, <2>3
<1>3. prepared' = Append(prepared, e)
  BY <1>1, RoomForNext DEF FileRead, SetupRead, OffsetAfter
<1>4. e \in Requests /\ e.file = f
  BY <1>2 DEF Requests
<1>5. Of(prepared') = Of(prepared) \cup {f}
  <2>1. prepared \in Seq(Requests)
    BY Types
  <2> HIDE DEF e, f
  <2> QED
    BY <1>3, <1>4, <2>1, Appended
<1>6. w # <<>>
  <2>1. buf[f] = [n \in 1 .. Cqe.res |-> offset[f] + n]
    BY <1>2 DEF OffsetInv
  <2>2. out[f] \in Seq(Nat) /\ buf[f] \in Seq(Nat)
    BY <1>2, Types
  <2>3. Len(buf[f]) = Cqe.res
    BY <1>2, <2>1, BytesAreSeq
  <2>4. Len(w) = Len(out[f]) + Len(buf[f]) /\ Len(out[f]) \in Nat
    BY <2>2, ConcatProperties, LenProperties
  <2>5. Len(w) # 0
    BY <1>1, <1>2, <2>3, <2>4
  <2> HIDE DEF w
  <2> QED
    BY <2>5, EmptySeq
<1> HIDE DEF w
<1>7. /\ f \in DOMAIN out /\ Of(prepared) \subseteq DOMAIN out
      /\ out' = [out EXCEPT ![f] = w]
  BY <1>1, <1>2, Types DEF w
<1> HIDE DEF f, o, e
<1>8. \A g \in Of(prepared) \cup {f} : out'[g] # <<>>
  BY <1>1, <1>6, <1>7 DEF LaterInv
<1> QED
  BY <1>5, <1>8 DEF LaterInv

LEMMA LaterStep ==
  ASSUME IInv, LaterInv, [Next]_vars
  PROVE  LaterInv'
<1>1. CASE Submit
  <2>1. prepared' = <<>>
    BY <1>1 DEF Submit
  <2>2. Of(prepared') = {}
    BY <2>1, OfNothing
  <2> QED
    BY <2>2 DEF LaterInv
<1>2. CASE FileRead
  BY <1>2, LaterRead
<1>3. CASE \/ InitQueue \/ OpenFile \/ FileDone \/ Poll \/ FreadReturns
           \/ Close \/ Exited \/ Kernel \/ UNCHANGED vars
  <2>1. pc' = "read" => pc = "read" /\ UNCHANGED <<prepared, out>>
    BY <1>3 DEF InitQueue, OpenFile, FileDone, Poll, FreadReturns, Close, Exited,
       Ended, Kernel, Take, Complete, Post, vars
  <2>2. UNCHANGED prepared => Of(prepared') = Of(prepared)
    BY DEF Of
  <2> QED
    BY <2>1, <2>2 DEF LaterInv
<1> QED
  BY <1>1, <1>2, <1>3 DEF Next, Program

(* As long as every file was opened and none gave a byte, my_fread's loop    *)
(* has a completion to take or one to come (polling.c:76-98).               *)
NoPollForNothing ==
  /\ pc = "read" /\ numFiles > 0 /\ fds = Files
  /\ \A f \in Files : out[f] = <<>>
  => sq # <<>> \/ running # {} \/ cq # <<>>

(* The safety half of ReturnsIfEmptyHanded: numFiles counts no file whose    *)
(* read is over (polling.c:76-98).                                          *)
THEOREM NeverPollsForNothing == Spec => []NoPollForNothing
<1>1. Init => LaterInv
  BY DEF Init, LaterInv
<1>2. ASSUME IInv, LaterInv PROVE NoPollForNothing
  <2> SUFFICES ASSUME pc = "read", numFiles > 0, fds = Files,
                      \A f \in Files : out[f] = <<>>,
                      sq = <<>>, running = {}, cq = <<>>
               PROVE  FALSE
    BY DEF NoPollForNothing
  <2>1. Of(sq) = {} /\ Of(cq) = {}
    BY OfNothing
  <2>2. InKernel = {}
    BY DEF InKernel
  <2>3. Of(prepared) = {}
    BY <1>2, Types DEF IInv, LaterInv
  <2>4. fds \ Waiting = Files
    BY <2>1, <2>2, <2>3 DEF Waiting
  <2>5. NFiles \in Nat \ {0} /\ numFiles \in Nat
    BY <1>2, Types DEF IInv
  <2>6. numFiles + Cardinality(fds \ Waiting) = NFiles
    BY <1>2 DEF IInv, CountInv
  <2>7. numFiles + NFiles = NFiles
    BY <2>4, <2>6, FilesCounted
  <2> QED
    BY <2>5, <2>7
<1> QED
  BY <1>1, <1>2, LaterStep, Invariance, PTL DEF Spec
=============================================================================
