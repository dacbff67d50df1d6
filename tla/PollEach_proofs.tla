--------------------------- MODULE PollEach_proofs ---------------------------
(***************************************************************************)
(* The safety of PollEach, for any number of files, any sizes, any length   *)
(* of the submission queue, and whatever fails.                             *)
(***************************************************************************)
EXTENDS PollEach, SequenceTheorems, FiniteSetTheorems, TLAPS

(* The last file submitted. *)
Last == IF pc = "wait" THEN arg ELSE arg - 1

Completions == [file : Files, res : Nat \cup {Error}]
Printouts == [file : Files, res : Nat, bytes : Nat]

InCq(f) == \E c \in 1 .. Len(cq) : cq[c].file = f
InPrinted(f) == \E i \in 1 .. Len(printed) : printed[i].file = f

ArgInv == arg <= NFiles \/ (pc = "done" /\ arg = NFiles + 1)

(* The submission queue holds the last submissions, one after the other;    *)
(* the kernel has taken those before them.                                 *)
LineInv ==
  /\ Len(sq) <= Last
  /\ \A i \in 1 .. Len(sq) : sq[i] = Last - Len(sq) + i
  /\ \A f \in Files :
       f <= Last - Len(sq) <=> f \in running \/ InCq(f) \/ InPrinted(f)

OnceInv ==
  /\ \A f \in running : ~InCq(f) /\ ~InPrinted(f)
  /\ \A c \in 1 .. Len(cq) : ~InPrinted(cq[c].file)
  /\ \A c, d \in 1 .. Len(cq) : cq[c].file = cq[d].file => c = d
  /\ \A i, j \in 1 .. Len(printed) : printed[i].file = printed[j].file => i = j

(* What a completion or a printout says was read is what is in the buffers. *)
ResInv ==
  /\ \A c \in 1 .. Len(cq) : cq[c].res # Error => cq[c].res = filled[cq[c].file]
  /\ \A i \in 1 .. Len(printed) : printed[i].res = printed[i].bytes

StuckInv == stuck => cq # <<>> /\ cq[1].res = Error

OrderInv ==
  ~missed =>
    /\ \A i \in 1 .. Len(printed) : printed[i].file = i
    /\ ~stuck => Len(printed) = arg - 1
    /\ stuck => cq[1].file = Len(printed) + 1

IInv ==
  /\ TypeOK /\ ArgInv /\ LineInv /\ OnceInv /\ ResInv /\ StuckInv /\ OrderInv

-----------------------------------------------------------------------------
(* What Append and Tail make of a sequence.                                 *)
LEMMA Appended ==
  ASSUME NEW S, NEW s \in Seq(S), NEW e \in S
  PROVE  /\ Append(s, e) \in Seq(S) /\ Append(s, e) # <<>>
         /\ Len(s) \in Nat /\ Len(Append(s, e)) = Len(s) + 1
         /\ \A i \in 1 .. Len(s) + 1 :
              Append(s, e)[i] = IF i <= Len(s) THEN s[i] ELSE e
<1>1. Len(s) \in Nat
  BY LenProperties
<1>2. /\ Append(s, e) \in Seq(S) /\ Append(s, e) # <<>>
      /\ Len(Append(s, e)) = Len(s) + 1
      /\ \A i \in 1 .. Len(s) : Append(s, e)[i] = s[i]
      /\ Append(s, e)[Len(s) + 1] = e
  BY AppendProperties
<1> QED
  BY <1>1, <1>2

LEMMA Shortened ==
  ASSUME NEW S, NEW s \in Seq(S), s # <<>>
  PROVE  /\ Tail(s) \in Seq(S) /\ Head(s) \in S /\ Head(s) = s[1]
         /\ Len(s) \in Nat \ {0} /\ Len(Tail(s)) = Len(s) - 1
         /\ \A i \in 1 .. Len(s) - 1 : Tail(s)[i] = s[i + 1]
<1>1. Len(s) \in Nat \ {0}
  BY EmptySeq
<1>2. /\ Tail(s) \in Seq(S) /\ Head(s) \in S /\ Len(Tail(s)) = Len(s) - 1
      /\ \A i \in 1 .. Len(Tail(s)) : Tail(s)[i] = s[i + 1]
  BY HeadTailProperties
<1>3. Head(s) = s[1]
  BY <1>1, HeadTailProperties
<1> QED
  BY <1>1, <1>2, <1>3

(* The types of the state, in a form the steps below use.                   *)
LEMMA Types ==
  ASSUME TypeOK
  PROVE  /\ NFiles \in Nat \ {0} /\ arg \in Nat \ {0} /\ arg <= NFiles + 1
         /\ sq \in Seq(Files) /\ Len(sq) \in Nat /\ Len(sq) <= SQ_ENTRIES
         /\ SQ_ENTRIES \in Nat \ {0}
         /\ cq \in Seq(Completions) /\ Len(cq) \in Nat
         /\ printed \in Seq(Printouts) /\ Len(printed) \in Nat
         /\ running \subseteq Files /\ filled \in [Files -> Nat]
         /\ size \in [Files -> Nat \cup {NotRegular}]
         /\ \A c \in 1 .. Len(cq) :
              cq[c].file \in Files /\ (cq[c].res \in Nat \/ cq[c].res = Error)
         /\ \A i \in 1 .. Len(printed) : printed[i].file \in Files
<1>1. /\ sq \in Seq(Files) /\ cq \in Seq(Completions)
      /\ printed \in Seq(Printouts)
  BY DEF TypeOK, Completions, Printouts
<1>2. Len(sq) \in Nat /\ Len(cq) \in Nat /\ Len(printed) \in Nat
  BY <1>1, LenProperties
<1>3. \A c \in 1 .. Len(cq) : cq[c] \in Completions
  BY <1>1, ElementOfSeq
<1>4. \A i \in 1 .. Len(printed) : printed[i] \in Printouts
  BY <1>1, ElementOfSeq
<1>5. /\ NFiles \in Nat \ {0} /\ arg \in 1 .. NFiles + 1
      /\ SQ_ENTRIES \in Nat \ {0} /\ Len(sq) <= SQ_ENTRIES
      /\ running \subseteq Files /\ filled \in [Files -> Nat]
      /\ size \in [Files -> Nat \cup {NotRegular}]
  BY PollEachAssumption DEF TypeOK
<1>6. \A c \in 1 .. Len(cq) :
        cq[c].file \in Files /\ (cq[c].res \in Nat \/ cq[c].res = Error)
  BY <1>3 DEF Completions
<1>7. \A i \in 1 .. Len(printed) : printed[i].file \in Files
  BY <1>4 DEF Printouts
<1> QED
  BY <1>1, <1>2, <1>5, <1>6, <1>7

(* Nothing has been submitted at the start.                                 *)
LEMMA InitIInv == Init => IInv
<1> SUFFICES ASSUME Init
             PROVE  IInv
  OBVIOUS
<1>1. /\ <<>> \in Seq(Files) /\ <<>> \in Seq(Completions)
      /\ <<>> \in Seq(Printouts) /\ Len(<<>>) = 0
  BY EmptySeq
<1>2. NFiles \in Nat \ {0} /\ SQ_ENTRIES \in Nat \ {0}
  BY PollEachAssumption
<1>3. TypeOK
  <2>1. /\ arg \in 1 .. NFiles + 1 /\ size \in [Files -> Nat \cup {NotRegular}]
        /\ filled \in [Files -> Nat]
    BY <1>2 DEF Init
  <2>2. /\ sq \in Seq(Files) /\ Len(sq) <= SQ_ENTRIES /\ running \subseteq Files
        /\ cq \in Seq(Completions) /\ printed \in Seq(Printouts)
    BY <1>1, <1>2 DEF Init
  <2> QED
    BY <2>1, <2>2 DEF Init, TypeOK, Completions, Printouts
<1>4. ArgInv /\ LineInv
  <2>1. Last = 0 /\ Len(sq) = 0 /\ Len(cq) = 0 /\ Len(printed) = 0
    BY <1>1 DEF Init, Last
  <2>2. \A f \in Files :
          ~(f <= 0) /\ f \notin running /\ ~InCq(f) /\ ~InPrinted(f)
    BY <1>2, <2>1 DEF Init, Files, InCq, InPrinted
  <2>3. ArgInv
    BY <1>2 DEF Init, ArgInv
  <2> QED
    BY <2>1, <2>2, <2>3 DEF LineInv
<1>5. OnceInv /\ ResInv /\ StuckInv /\ OrderInv
  BY <1>1 DEF Init, OnceInv, ResInv, StuckInv, OrderInv, InCq, InPrinted
<1> QED
  BY <1>3, <1>4, <1>5 DEF IInv

-----------------------------------------------------------------------------
(* The steps that change nothing but pc and the sizes.                      *)
LEMMA Frame ==
  ASSUME IInv, TypeOK', ArgInv', Last' = Last, arg' = arg,
         UNCHANGED <<sq, running, filled, cq, printed, missed, stuck>>
  PROVE  IInv'
<1>1. LineInv' /\ OnceInv'
  BY DEF IInv, LineInv, OnceInv, InCq, InPrinted
<1>2. ResInv' /\ StuckInv' /\ OrderInv'
  BY DEF IInv, ResInv, StuckInv, OrderInv
<1> QED
  BY <1>1, <1>2 DEF IInv

LEMMA QuietSteps ==
  ASSUME IInv, InitQueue \/ OpenFile \/ SqringWaitFails \/ UNCHANGED vars
  PROVE  IInv'
<1> USE DEF IInv
<1>1. CASE InitQueue
  <2>1. TypeOK' /\ ArgInv' /\ Last' = Last /\ arg' = arg
    BY <1>1 DEF InitQueue, Fail, TypeOK, ArgInv, Last, Ended, kernelVars
  <2> QED
    BY <1>1, <2>1, Frame DEF InitQueue, kernelVars
<1>2. CASE OpenFile
  <2>1. size' \in [Files -> Nat \cup {NotRegular}]
    <3>1. Sizes \subseteq Nat \cup {NotRegular}
      BY PollEachAssumption, BlocksAssumption
    <3>2. size' = size \/ \E n \in Sizes : size' = [size EXCEPT ![arg] = n]
      BY <1>2 DEF OpenFile
    <3>3. size \in [Files -> Nat \cup {NotRegular}]
      BY DEF TypeOK
    <3> QED
      BY <3>1, <3>2, <3>3
  <2>2. TypeOK' /\ ArgInv' /\ Last' = Last /\ arg' = arg
    BY <1>2, <2>1 DEF OpenFile, Fail, TypeOK, ArgInv, Last, Ended, kernelVars
  <2> QED
    BY <1>2, <2>2, Frame DEF OpenFile, kernelVars
<1>3. CASE SqringWaitFails
  <2>1. TypeOK' /\ ArgInv' /\ Last' = Last /\ arg' = arg
    BY <1>3 DEF SqringWaitFails, Fail, TypeOK, ArgInv, Last, Ended, kernelVars
  <2> QED
    BY <1>3, <2>1, Frame DEF SqringWaitFails, kernelVars
<1>4. CASE UNCHANGED vars
  <2>1. TypeOK' /\ ArgInv' /\ Last' = Last /\ arg' = arg
    BY <1>4 DEF vars, TypeOK, ArgInv, Last, kernelVars
  <2> QED
    BY <1>4, <2>1, Frame DEF vars, kernelVars
<1> QED
  BY <1>1, <1>2, <1>3, <1>4

(* The queue grows at its end, by the next file.                            *)
LEMMA SubmitStep ==
  ASSUME IInv, Submit
  PROVE  IInv'
<1> USE DEF IInv
<1>1. arg \in Files /\ Last = arg - 1 /\ Last' = arg
  BY Types DEF Submit, ArgInv, Last, Files
<1>2. /\ sq' \in Seq(Files) /\ Len(sq') = Len(sq) + 1
      /\ \A i \in 1 .. Len(sq) + 1 :
           sq'[i] = IF i <= Len(sq) THEN sq[i] ELSE arg
  BY <1>1, Types, Appended DEF Submit, Submitted
<1>3. TypeOK'
  <2>1. Len(sq') <= SQ_ENTRIES
    BY <1>2, Types DEF Submit, Room
  <2> QED
    BY <1>2, <2>1 DEF Submit, TypeOK
<1>4. ArgInv'
  BY DEF Submit, ArgInv
<1>5. LineInv'
  <2>1. Last' - Len(sq') = Last - Len(sq) /\ Len(sq') <= Last'
    BY <1>1, <1>2, Types DEF LineInv
  <2>2. ASSUME NEW i \in 1 .. Len(sq')
        PROVE  sq'[i] = Last' - Len(sq') + i
    <3>1. arg \in Nat /\ Len(sq) \in Nat
      BY Types
    <3>2. CASE i <= Len(sq)
      <4>1. i \in 1 .. Len(sq) /\ sq'[i] = sq[i]
        BY <1>2, <3>1, <3>2
      <4> QED
        BY <1>1, <1>2, <2>1, <3>1, <4>1 DEF LineInv
    <3>3. CASE i = Len(sq) + 1
      BY <1>1, <1>2, <3>1, <3>3
    <3> QED
      BY <1>2, <3>1, <3>2, <3>3
  <2>3. \A f \in Files : (InCq(f)' <=> InCq(f)) /\ (InPrinted(f)' <=> InPrinted(f))
    BY DEF Submit, InCq, InPrinted
  <2> QED
    BY <2>1, <2>2, <2>3 DEF LineInv, Submit
<1>6. OnceInv'
  BY DEF Submit, OnceInv, InCq, InPrinted
<1>7. ResInv' /\ StuckInv' /\ OrderInv'
  BY DEF Submit, ResInv, StuckInv, OrderInv
<1> QED
  BY <1>3, <1>4, <1>5, <1>6, <1>7

-----------------------------------------------------------------------------
(* The next file's turn: it has not been submitted yet.                     *)
LEMMA NextTurn ==
  ASSUME IInv, pc = "wait", NextFile
  PROVE  /\ arg \in Files /\ arg' = arg + 1 /\ Last' = Last /\ Last = arg
         /\ arg' \in 1 .. NFiles + 1 /\ pc' \in {"done", "open"} /\ ArgInv'
<1>1. arg \in Files /\ Last = arg
  BY Types DEF IInv, ArgInv, Last, Files
<1>2. arg' = arg + 1 /\ pc' \in {"done", "open"} /\ (arg = NFiles <=> pc' = "done")
  BY DEF NextFile
<1>3. Last' = Last
  <2>1. arg \in Nat /\ pc' # "wait"
    BY <1>2, Types DEF IInv
  <2>2. Last' = arg' - 1
    BY <2>1 DEF Last
  <2> QED
    BY <1>1, <1>2, <2>1, <2>2
<1>4. arg' \in 1 .. NFiles + 1 /\ ArgInv'
  BY <1>1, <1>2, Types DEF ArgInv, IInv, Files
<1> QED
  BY <1>1, <1>2, <1>3, <1>4

(* If no wait has failed and no read, the completion is the last file's.    *)
LEMMA OwnCompletion ==
  ASSUME IInv, pc = "wait", cq # <<>>, ~missed, ~stuck
  PROVE  cq[1].file = arg /\ Len(printed) = arg - 1
<1> USE DEF IInv
<1>1. 1 \in 1 .. Len(cq) /\ cq[1].file \in Files
  BY Types, Shortened
<1>2. Len(printed) = arg - 1 /\ \A i \in 1 .. Len(printed) : printed[i].file = i
  BY DEF OrderInv
<1>3. cq[1].file <= arg
  <2>1. InCq(cq[1].file)
    BY <1>1 DEF InCq
  <2> QED
    BY <1>1, <2>1, Types DEF LineInv, Last, Files
<1>4. ASSUME cq[1].file <= arg - 1
      PROVE  FALSE
  <2>1. cq[1].file \in 1 .. Len(printed)
    BY <1>1, <1>2, <1>4, Types DEF Files
  <2>2. InPrinted(cq[1].file)
    BY <1>2, <2>1 DEF InPrinted
  <2> QED
    BY <1>1, <2>2 DEF OnceInv
<1> QED
  BY <1>1, <1>2, <1>3, <1>4, Types DEF Files

LEMMA WaitFailsStep ==
  ASSUME IInv, WaitFails
  PROVE  IInv'
<1> USE DEF IInv
<1>1. /\ arg \in Files /\ arg' = arg + 1 /\ Last' = Last
      /\ arg' \in 1 .. NFiles + 1 /\ pc' \in {"done", "open"} /\ ArgInv'
  BY NextTurn DEF WaitFails
<1>2. TypeOK'
  BY <1>1 DEF WaitFails, TypeOK, kernelVars, Ended
<1>3. LineInv' /\ OnceInv'
  BY <1>1 DEF WaitFails, LineInv, OnceInv, InCq, InPrinted, kernelVars
<1>4. ResInv' /\ StuckInv' /\ OrderInv'
  BY DEF WaitFails, ResInv, StuckInv, OrderInv, kernelVars
<1> QED
  BY <1>1, <1>2, <1>3, <1>4

(* A failed read is reported: nothing else changes.                         *)
LEMMA ErrorStep ==
  ASSUME IInv, GetCompletionAndPrint, Head(cq).res < 0
  PROVE  IInv'
<1> USE DEF IInv
<1>1. /\ arg \in Files /\ arg' = arg + 1 /\ Last' = Last
      /\ arg' \in 1 .. NFiles + 1 /\ pc' \in {"done", "open"} /\ ArgInv'
  BY NextTurn DEF GetCompletionAndPrint
<1>2. /\ Head(cq) = cq[1] /\ cq # <<>> /\ 1 \in 1 .. Len(cq)
      /\ cq[1].res \in Nat \/ cq[1].res = Error
  BY Types, Shortened DEF GetCompletionAndPrint
<1>3. cq[1].res = Error
  BY <1>2
<1>4. /\ stuck' = TRUE /\ cq' = cq /\ printed' = printed
      /\ UNCHANGED <<size, kernelVars, missed>>
  BY <1>2, <1>3 DEF GetCompletionAndPrint, AfterError, Error
<1>5. TypeOK'
  BY <1>1, <1>4 DEF TypeOK, kernelVars, Ended
<1>6. LineInv' /\ OnceInv'
  BY <1>1, <1>4 DEF LineInv, OnceInv, InCq, InPrinted, kernelVars
<1>7. ResInv' /\ StuckInv'
  BY <1>2, <1>3, <1>4 DEF ResInv, StuckInv, kernelVars
<1>8. OrderInv'
  <2>1. CASE ~missed /\ ~stuck
    BY <1>2, <1>4, <2>1, OwnCompletion, Types
    DEF OrderInv, GetCompletionAndPrint, kernelVars
  <2>2. CASE missed \/ stuck
    BY <1>4, <2>2 DEF OrderInv, kernelVars
  <2> QED
    BY <2>1, <2>2
<1> QED
  BY <1>1, <1>5, <1>6, <1>7, <1>8

(* A completion is printed and given back.                                  *)
LEMMA PrintStep ==
  ASSUME IInv, GetCompletionAndPrint, ~(Head(cq).res < 0)
  PROVE  IInv'
<1> USE DEF IInv
<1>1. /\ arg \in Files /\ arg' = arg + 1 /\ Last' = Last
      /\ arg' \in 1 .. NFiles + 1 /\ pc' \in {"done", "open"} /\ ArgInv'
  BY NextTurn DEF GetCompletionAndPrint
<1> DEFINE g == cq[1].file
           e == [file |-> g, res |-> cq[1].res, bytes |-> filled[g]]
<1>2. /\ Head(cq) = cq[1] /\ cq # <<>> /\ 1 \in 1 .. Len(cq)
      /\ cq[1].res \in Nat \/ cq[1].res = Error
      /\ g \in Files
  BY Types, Shortened DEF GetCompletionAndPrint
<1>3. cq[1].res \in Nat /\ cq[1].res # Error
  BY <1>2 DEF Error
<1>4. /\ printed' = Append(printed, e) /\ cq' = Tail(cq) /\ stuck' = stuck
      /\ UNCHANGED <<size, kernelVars, missed>>
  BY <1>2, <1>3 DEF GetCompletionAndPrint, AfterPrint, Printout
<1>5. e \in Printouts
  BY <1>2, <1>3, Types DEF Printouts
<1>6. /\ printed' \in Seq(Printouts) /\ Len(printed') = Len(printed) + 1
      /\ \A i \in 1 .. Len(printed) + 1 :
           printed'[i] = IF i <= Len(printed) THEN printed[i] ELSE e
  BY <1>4, <1>5, Types, Appended
<1>7. /\ cq' \in Seq(Completions) /\ Len(cq') = Len(cq) - 1
      /\ \A c \in 1 .. Len(cq) - 1 : cq'[c] = cq[c + 1]
  BY <1>2, <1>4, Types, Shortened
<1> HIDE DEF g
<1>8. TypeOK'
  BY <1>1, <1>4, <1>6, <1>7
  DEF TypeOK, kernelVars, Ended, Completions, Printouts
<1>9. /\ Len(cq) \in Nat \ {0} /\ Len(printed) \in Nat
      /\ e.file = g /\ e.res = cq[1].res /\ e.bytes = filled[g]
  BY <1>2, Types DEF g
<1> HIDE DEF e
<1>10. ASSUME NEW f \in Files
       PROVE  /\ InPrinted(f)' <=> InPrinted(f) \/ f = g
              /\ InCq(f)' <=> InCq(f) /\ f # g
  <2>1. InPrinted(f)' <=> InPrinted(f) \/ f = g
    <3>1. ASSUME NEW i \in 1 .. Len(printed')
          PROVE  printed'[i].file = f => InPrinted(f) \/ f = g
      BY <1>6, <1>9 DEF InPrinted
    <3>2. ASSUME NEW i \in 1 .. Len(printed), printed[i].file = f
          PROVE  InPrinted(f)'
      <4>1. i \in 1 .. Len(printed') /\ printed'[i].file = f
        BY <1>6, <1>9, <3>2
      <4> QED
        BY <4>1 DEF InPrinted
    <3>3. ASSUME f = g
          PROVE  InPrinted(f)'
      <4>1. /\ Len(printed) + 1 \in 1 .. Len(printed')
            /\ printed'[Len(printed) + 1].file = f
        BY <1>6, <1>9, <3>3
      <4> QED
        BY <4>1 DEF InPrinted
    <3> QED
      BY <3>1, <3>2, <3>3 DEF InPrinted
  <2>2. InCq(f)' <=> InCq(f) /\ f # g
    <3>1. ASSUME NEW c \in 1 .. Len(cq'), cq'[c].file = f
          PROVE  InCq(f) /\ f # g
      <4>1. c + 1 \in 1 .. Len(cq) /\ cq[c + 1].file = f /\ c + 1 # 1
        BY <1>7, <1>9, <3>1
      <4>2. f # g
        BY <1>2, <4>1 DEF OnceInv, g
      <4> QED
        BY <4>1, <4>2 DEF InCq
    <3>2. ASSUME NEW c \in 1 .. Len(cq), cq[c].file = f, f # g
          PROVE  InCq(f)'
      <4>1. c # 1
        BY <3>2 DEF g
      <4>2. c - 1 \in 1 .. Len(cq') /\ cq'[c - 1].file = f
        BY <1>7, <1>9, <3>2, <4>1
      <4> QED
        BY <4>2 DEF InCq
    <3> QED
      BY <3>1, <3>2 DEF InCq
  <2> QED
    BY <2>1, <2>2
<1>11. InCq(g) /\ ~InPrinted(g) /\ g \notin running
  BY <1>2 DEF InCq, OnceInv, g
<1>12. LineInv'
  BY <1>1, <1>2, <1>4, <1>10, <1>11 DEF LineInv, kernelVars
<1>13. OnceInv'
  <2>1. \A f \in running' : ~InCq(f)' /\ ~InPrinted(f)'
    BY <1>4, <1>10, <1>11, Types DEF OnceInv, kernelVars
  <2>2. ASSUME NEW c \in 1 .. Len(cq')
        PROVE  (~InPrinted(cq[c].file))'
    <3>1. c + 1 \in 1 .. Len(cq) /\ cq'[c] = cq[c + 1] /\ c + 1 # 1
      BY <1>7, <1>9
    <3>2. cq[c + 1].file \in Files /\ cq[c + 1].file # g /\ ~InPrinted(cq[c + 1].file)
      BY <1>2, <3>1, Types DEF OnceInv, g
    <3>3. \A i \in 1 .. Len(printed') : printed'[i].file # cq[c + 1].file
      BY <1>10, <3>2 DEF InPrinted
    <3> QED
      BY <3>1, <3>3 DEF InPrinted
  <2>3. ASSUME NEW c \in 1 .. Len(cq'), NEW d \in 1 .. Len(cq'),
               cq'[c].file = cq'[d].file
        PROVE  c = d
    <3>1. /\ c + 1 \in 1 .. Len(cq) /\ d + 1 \in 1 .. Len(cq)
          /\ cq'[c] = cq[c + 1] /\ cq'[d] = cq[d + 1]
      BY <1>7, <1>9
    <3>2. c + 1 = d + 1
      BY <2>3, <3>1 DEF OnceInv
    <3> QED
      BY <1>7, <1>9, <3>2
  <2>4. ASSUME NEW i \in 1 .. Len(printed'), NEW j \in 1 .. Len(printed'),
               printed'[i].file = printed'[j].file
        PROVE  i = j
    <3>1. \A k \in 1 .. Len(printed) : printed[k].file # g
      BY <1>11 DEF InPrinted
    <3>2. \A k \in 1 .. Len(printed') :
            \/ k \in 1 .. Len(printed) /\ printed'[k] = printed[k]
            \/ k = Len(printed) + 1 /\ printed'[k] = e
      BY <1>6, <1>9
    <3> QED
      BY <1>9, <2>4, <3>1, <3>2 DEF OnceInv
  <2> QED
    BY <2>1, <2>2, <2>3, <2>4 DEF OnceInv, InCq, InPrinted
<1>14. ResInv'
  <2>1. ASSUME NEW c \in 1 .. Len(cq')
        PROVE  cq'[c].res # Error => cq'[c].res = filled'[cq'[c].file]
    <3>1. c + 1 \in 1 .. Len(cq) /\ cq'[c] = cq[c + 1]
      BY <1>7, <1>9
    <3> QED
      BY <1>4, <3>1 DEF ResInv, kernelVars
  <2>2. e.res = e.bytes
    BY <1>2, <1>3, <1>9 DEF ResInv, g
  <2>3. ASSUME NEW i \in 1 .. Len(printed')
        PROVE  printed'[i].res = printed'[i].bytes
    BY <1>6, <1>9, <2>2 DEF ResInv
  <2> QED
    BY <2>1, <2>3 DEF ResInv
<1>15. ~stuck
  BY <1>3 DEF StuckInv
<1>16. OrderInv'
  <2>1. ASSUME ~missed
        PROVE  /\ g = arg /\ Len(printed) = arg - 1
               /\ \A i \in 1 .. Len(printed) : printed[i].file = i
    BY <1>2, <1>15, <2>1, OwnCompletion DEF OrderInv, GetCompletionAndPrint, g
  <2>2. ASSUME ~missed
        PROVE  \A i \in 1 .. Len(printed') : printed'[i].file = i
    <3>1. \A i \in 1 .. Len(printed') :
            \/ i \in 1 .. Len(printed) /\ printed'[i] = printed[i]
            \/ i = Len(printed) + 1 /\ printed'[i] = e
      BY <1>6, <1>9
    <3>2. e.file = Len(printed) + 1
      BY <1>9, <2>1, <2>2, Types
    <3> QED
      BY <2>1, <2>2, <3>1, <3>2
  <2>3. ASSUME ~missed
        PROVE  Len(printed') = arg' - 1
    <3>1. arg \in Nat
      BY Types
    <3>2. Len(printed') = Len(printed) + 1 /\ Len(printed) = arg - 1
      BY <1>6, <2>1, <2>3
    <3> QED
      BY <1>1, <3>1, <3>2
  <2> QED
    BY <1>4, <1>15, <2>2, <2>3 DEF OrderInv
<1>17. StuckInv'
  BY <1>4, <1>15 DEF StuckInv
<1> QED
  BY <1>1, <1>8, <1>12, <1>13, <1>14, <1>16, <1>17

-----------------------------------------------------------------------------
(* The kernel takes the oldest entry.                                       *)
LEMMA TakeStep ==
  ASSUME IInv, Take
  PROVE  IInv'
<1> USE DEF IInv
<1>1. /\ sq # <<>> /\ sq' = Tail(sq) /\ running' = running \cup {Head(sq)}
      /\ UNCHANGED <<pc, arg, size, filled, cq, printed, missed, stuck>>
  BY DEF Take
<1>2. /\ sq' \in Seq(Files) /\ Head(sq) = sq[1] /\ sq[1] \in Files
      /\ Len(sq) \in Nat \ {0} /\ Len(sq') = Len(sq) - 1
      /\ \A i \in 1 .. Len(sq) - 1 : sq'[i] = sq[i + 1]
  BY <1>1, Types, Shortened
<1>3. Last \in Nat /\ Last' = Last /\ sq[1] = Last - Len(sq) + 1
  <2>1. Last \in Nat /\ Last' = Last
    BY <1>1, Types DEF Last
  <2> QED
    BY <1>2, <2>1 DEF LineInv
<1>4. TypeOK'
  BY <1>1, <1>2, Types DEF TypeOK
<1>5. \A f \in Files : (InCq(f)' <=> InCq(f)) /\ (InPrinted(f)' <=> InPrinted(f))
  BY <1>1 DEF InCq, InPrinted
<1>6. sq[1] \notin running /\ ~InCq(sq[1]) /\ ~InPrinted(sq[1])
  BY <1>2, <1>3 DEF LineInv
<1>7. LineInv'
  <2>1. Len(sq') <= Last'
    BY <1>2, <1>3 DEF LineInv
  <2>2. ASSUME NEW i \in 1 .. Len(sq')
        PROVE  sq'[i] = Last' - Len(sq') + i
    <3>1. i + 1 \in 1 .. Len(sq) /\ sq'[i] = sq[i + 1]
      BY <1>2
    <3> QED
      BY <1>2, <1>3, <3>1 DEF LineInv
  <2>3. ASSUME NEW f \in Files
        PROVE  f <= Last' - Len(sq') <=>
                 f \in running' \/ InCq(f)' \/ InPrinted(f)'
    <3>1. f <= Last' - Len(sq') <=> f <= Last - Len(sq) \/ f = sq[1]
      <4>1. f \in Nat
        BY Types DEF Files
      <4>2. Last' - Len(sq') = Last - Len(sq) + 1
        BY <1>2, <1>3
      <4> QED
        BY <1>2, <1>3, <4>1, <4>2
    <3> QED
      BY <1>1, <1>2, <1>5, <3>1 DEF LineInv
  <2> QED
    BY <2>1, <2>2, <2>3 DEF LineInv
<1>8. OnceInv'
  BY <1>1, <1>2, <1>6 DEF OnceInv, InCq, InPrinted
<1>9. ArgInv' /\ ResInv' /\ StuckInv' /\ OrderInv'
  BY <1>1 DEF ArgInv, ResInv, StuckInv, OrderInv
<1> QED
  BY <1>4, <1>7, <1>8, <1>9

(* Only a file that is neither among the completions nor printed is read.   *)
LEMMA ReadStep ==
  ASSUME IInv, NEW f \in running, ReadProgress(f)
  PROVE  IInv'
<1> USE DEF IInv
<1>1. /\ filled' \in [Files -> Nat]
      /\ \A g \in Files : g # f => filled'[g] = filled[g]
      /\ UNCHANGED <<pc, arg, size, sq, running, cq, printed, missed, stuck>>
  <2>1. f \in Files /\ size[f] \in Nat \cup {NotRegular} /\ filled[f] \in Nat
    BY Types
  <2>2. PICK n \in filled[f] + 1 .. size[f] : filled' = [filled EXCEPT ![f] = n]
    BY DEF ReadProgress
  <2>3. n \in Nat
    BY <2>1, <2>2 DEF NotRegular
  <2> QED
    BY <2>1, <2>2, <2>3, Types DEF ReadProgress
<1>2. TypeOK'
  BY <1>1 DEF TypeOK
<1>3. ArgInv' /\ LineInv' /\ OnceInv' /\ StuckInv' /\ OrderInv'
  BY <1>1 DEF ArgInv, LineInv, OnceInv, StuckInv, OrderInv, Last, InCq, InPrinted
<1>4. ResInv'
  <2>1. \A c \in 1 .. Len(cq) : cq[c].file \in Files /\ cq[c].file # f
    BY Types DEF OnceInv, InCq
  <2> QED
    BY <1>1, <2>1 DEF ResInv
<1> QED
  BY <1>2, <1>3, <1>4

(* A file leaves the reads in progress and joins the completions.           *)
LEMMA PostStep ==
  ASSUME IInv, NEW f \in running, Post(f)
  PROVE  IInv'
<1> USE DEF IInv
<1>1. PICK r \in {filled[f], Error} : cq' = Append(cq, [file |-> f, res |-> r])
  BY DEF Post
<1> DEFINE e == [file |-> f, res |-> r]
<1>2. /\ running' = running \ {f}
      /\ UNCHANGED <<pc, arg, size, sq, filled, printed, missed, stuck>>
  BY DEF Post
<1>3. f \in Files /\ e \in Completions /\ e.file = f /\ e.res = r
  BY Types DEF Completions
<1>4. /\ cq' \in Seq(Completions) /\ cq' # <<>> /\ Len(cq') = Len(cq) + 1
      /\ Len(cq) \in Nat
      /\ \A c \in 1 .. Len(cq) + 1 :
           cq'[c] = IF c <= Len(cq) THEN cq[c] ELSE e
  <2>1. cq' = Append(cq, e) /\ cq \in Seq(Completions)
    BY <1>1, Types
  <2> HIDE DEF e
  <2> QED
    BY <1>3, <2>1, Appended
<1> HIDE DEF e
<1>5. \A c \in 1 .. Len(cq') :
        \/ c \in 1 .. Len(cq) /\ cq'[c] = cq[c]
        \/ c = Len(cq) + 1 /\ cq'[c] = e
  BY <1>4
<1>6. \A c \in 1 .. Len(cq) : c \in 1 .. Len(cq') /\ cq'[c] = cq[c]
  BY <1>4
<1>7. Len(cq) + 1 \in 1 .. Len(cq') /\ cq'[Len(cq) + 1] = e
  BY <1>4
<1>8. TypeOK'
  BY <1>2, <1>4 DEF TypeOK, Completions
<1>9. ~InCq(f) /\ ~InPrinted(f)
  BY DEF OnceInv
<1>10. \A g \in Files : /\ InCq(g)' <=> InCq(g) \/ g = f
                        /\ InPrinted(g)' <=> InPrinted(g)
  BY <1>2, <1>3, <1>5, <1>6, <1>7 DEF InCq, InPrinted
<1>11. LineInv'
  <2>1. Last' = Last
    BY <1>2 DEF Last
  <2> QED
    BY <1>2, <1>3, <1>10, <2>1 DEF LineInv
<1>12. OnceInv'
  <2>1. \A g \in running' : ~InCq(g)' /\ ~InPrinted(g)'
    BY <1>2, <1>10, Types DEF OnceInv
  <2>2. \A c \in 1 .. Len(cq') :
          \A i \in 1 .. Len(printed') : printed'[i].file # cq'[c].file
    BY <1>2, <1>3, <1>5, <1>9 DEF OnceInv, InPrinted
  <2>3. \A c, d \in 1 .. Len(cq') : cq'[c].file = cq'[d].file => c = d
    BY <1>3, <1>4, <1>5, <1>9 DEF OnceInv, InCq
  <2>4. \A i, j \in 1 .. Len(printed') :
          printed'[i].file = printed'[j].file => i = j
    BY <1>2 DEF OnceInv
  <2> QED
    BY <2>1, <2>2, <2>3, <2>4 DEF OnceInv, InCq, InPrinted
<1>13. ResInv'
  BY <1>2, <1>3, <1>5 DEF ResInv
<1>14. stuck => cq'[1] = cq[1]
  BY <1>6, Types, Shortened DEF StuckInv
<1>15. ArgInv' /\ StuckInv' /\ OrderInv'
  BY <1>2, <1>4, <1>14 DEF ArgInv, StuckInv, OrderInv
<1> QED
  BY <1>8, <1>11, <1>12, <1>13, <1>15

-----------------------------------------------------------------------------
LEMMA StepIInv == IInv /\ [Next]_vars => IInv'
<1> SUFFICES ASSUME IInv, [Next]_vars
             PROVE  IInv'
  OBVIOUS
<1>1. CASE InitQueue \/ OpenFile \/ SqringWaitFails \/ Exited \/ UNCHANGED vars
  BY <1>1, QuietSteps DEF Exited
<1>2. CASE Submit
  BY <1>2, SubmitStep
<1>3. CASE GetCompletionAndPrint
  BY <1>3, ErrorStep, PrintStep
<1>4. CASE WaitFails
  BY <1>4, WaitFailsStep
<1>5. CASE Kernel
  BY <1>5, TakeStep, ReadStep, PostStep DEF Kernel
<1> QED
  BY <1>1, <1>2, <1>3, <1>4, <1>5 DEF Next, Program, Interrupts

(* The state of the program is always one IInv describes: submissions in    *)
(* their order, each with the kernel, answered, or printed.                 *)
THEOREM Invariance == Spec => []IInv
  BY InitIInv, StepIInv, PTL DEF Spec

(* Types and ranges; the submission queue is never overfilled               *)
(* (omp_io_uring_polling.c:128-150).                                        *)
THEOREM TypeCorrect == Spec => []TypeOK
<1>1. IInv => TypeOK
  BY DEF IInv
<1> QED
  BY <1>1, Invariance, PTL

(* No file is printed twice, and what was reported read is printed          *)
(* (omp_io_uring_polling.c:67-77).                                          *)
THEOREM EachPrintedOnce == Spec => []PrintedOnce
<1>1. IInv => PrintedOnce
  BY DEF IInv, ResInv, OnceInv, PrintedOnce
<1> QED
  BY <1>1, Invariance, PTL

(* Unless a wait failed files are printed in order, up to the first whose   *)
(* read failed (omp_io_uring_polling.c:62-78, 180-187).                     *)
THEOREM PrintedInOrder == Spec => []InOrderUnlessMissed
<1>1. ASSUME IInv
      PROVE  InOrderUnlessMissed
  <2>1. stuck => cq # <<>> /\ Head(cq) = cq[1]
    BY <1>1, Types, Shortened DEF IInv, StuckInv
  <2> QED
    BY <1>1, <2>1 DEF IInv, OrderInv, InOrderUnlessMissed
<1> QED
  BY <1>1, Invariance, PTL

(* After a reported error nothing is printed                                *)
(* (omp_io_uring_polling.c:67-70, 186).                                     *)
THEOREM SilentAfterError == Spec => NothingAfterError
<1>1. ASSUME IInv, [Next]_vars, stuck
      PROVE  printed' = printed
  <2>1. cq # <<>> /\ Head(cq).res = Error
    BY <1>1, Types, Shortened DEF IInv, StuckInv
  <2>2. ~(Head(cq).res >= 0)
    BY <2>1 DEF Error
  <2> QED
    BY <1>1, <2>2
    DEF Next, Program, Interrupts, Kernel, InitQueue, OpenFile, Submit,
        GetCompletionAndPrint, SqringWaitFails, WaitFails, Exited, Take,
        ReadProgress, Post, vars
<1>2. IInv /\ [Next]_vars => [stuck => printed' = printed]_vars
  BY <1>1
<1> QED
  BY <1>2, Invariance, PTL DEF Spec, NothingAfterError

(* A file submitted is at one place, the others are at none                 *)
(* (omp_io_uring_polling.c:129-150, 77).                                    *)
THEOREM EachAtOnePlace == Spec => []AtOnePlace
<1>1. ASSUME IInv
      PROVE  AtOnePlace
  <2> SUFFICES ASSUME NEW f \in Files
               PROVE  IF f \in Submissions THEN \E p \in Places(f) : Places(f) = {p}
                                           ELSE Places(f) = {}
    BY DEF AtOnePlace
  <2> DEFINE inSq == {j \in 1 .. Len(sq) : sq[j] = f}
             inRun == running \cap {f}
             inCq == {j \in 1 .. Len(cq) : cq[j].file = f}
             inOut == {j \in 1 .. Len(printed) : printed[j].file = f}
  <2>1. Places(f) = {<<"sq", i>> : i \in inSq} \cup {<<"running", g>> : g \in inRun}
                      \cup {<<"cq", i>> : i \in inCq}
                      \cup {<<"printed", i>> : i \in inOut}
    BY DEF Places
  <2>2. f \in Nat /\ f >= 1 /\ Len(sq) \in Nat /\ Last \in Nat /\ Len(sq) <= Last
    BY <1>1, Types DEF IInv, Files, LineInv, Last
  <2>3. f \in Submissions <=> f <= Last
    BY <2>2, <1>1, Types DEF Submissions, Last, IInv
  <2>4. f <= Last - Len(sq) <=> f \in running \/ InCq(f) \/ InPrinted(f)
    BY <1>1 DEF IInv, LineInv
  <2>5. \A i \in 1 .. Len(sq) : sq[i] = Last - Len(sq) + i
    BY <1>1 DEF IInv, LineInv
  <2>6. /\ (f \in running <=> inRun = {f}) /\ (f \notin running <=> inRun = {})
        /\ (InCq(f) <=> inCq # {}) /\ (InPrinted(f) <=> inOut # {})
    BY DEF InCq, InPrinted
  <2>7. /\ \A c, d \in inCq : c = d
        /\ \A c, d \in inOut : c = d
    BY <1>1 DEF IInv, OnceInv
  <2>8. /\ f \in running => ~InCq(f) /\ ~InPrinted(f)
        /\ InCq(f) => ~InPrinted(f)
    BY <1>1 DEF IInv, OnceInv, InCq
  <2>9. CASE f > Last
    <3>1. inSq = {} /\ ~(f <= Last - Len(sq))
      BY <2>2, <2>5, <2>9
    <3>2. inRun = {} /\ inCq = {} /\ inOut = {}
      BY <2>4, <2>6, <3>1
    <3> HIDE DEF inSq, inRun, inCq, inOut
    <3>3. Places(f) = {}
      BY <2>1, <3>1, <3>2
    <3> QED
      BY <2>2, <2>3, <2>9, <3>3
  <2>10. CASE f <= Last /\ f > Last - Len(sq)
    <3> DEFINE n == f - Last + Len(sq)
    <3>1. n \in 1 .. Len(sq) /\ sq[n] = f
      BY <2>2, <2>5, <2>10
    <3>2. ASSUME NEW j \in inSq
          PROVE  j = n
      <4>1. j \in 1 .. Len(sq) /\ sq[j] = f
        OBVIOUS
      <4>2. sq[j] = Last - Len(sq) + j
        BY <2>5, <4>1
      <4>3. j \in Nat
        BY <2>2, <4>1
      <4>4. f = Last - Len(sq) + j
        BY <4>1, <4>2
      <4> QED
        BY <2>2, <4>3, <4>4
    <3>3. inSq = {n}
      BY <3>1, <3>2
    <3>4. inRun = {} /\ inCq = {} /\ inOut = {}
      BY <2>2, <2>4, <2>6, <2>10
    <3> HIDE DEF inSq, inRun, inCq, inOut, n
    <3>5. Places(f) = {<<"sq", n>>}
      BY <2>1, <3>3, <3>4
    <3> QED
      BY <2>3, <2>10, <3>5
  <2>11. CASE f <= Last /\ f <= Last - Len(sq)
    <3>1. inSq = {}
      BY <2>2, <2>5, <2>11
    <3>2. f \in running \/ InCq(f) \/ InPrinted(f)
      BY <2>4, <2>11
    <3>3. \/ inRun = {f} /\ inCq = {} /\ inOut = {}
          \/ inRun = {} /\ (\E c : inCq = {c}) /\ inOut = {}
          \/ inRun = {} /\ inCq = {} /\ (\E c : inOut = {c})
      <4>1. inCq # {} => \E c : inCq = {c}
        BY <2>7
      <4>2. inOut # {} => \E c : inOut = {c}
        BY <2>7
      <4> QED
        BY <2>6, <2>8, <3>2, <4>1, <4>2
    <3> HIDE DEF inSq, inRun, inCq, inOut
    <3>4. CASE inRun = {f} /\ inCq = {} /\ inOut = {}
      <4>1. Places(f) = {<<"running", f>>}
        BY <2>1, <3>1, <3>4
      <4> QED
        BY <2>3, <2>11, <4>1
    <3>5. ASSUME NEW c, inRun = {}, inCq = {c}, inOut = {}
          PROVE  Places(f) = {<<"cq", c>>}
      BY <2>1, <3>1, <3>5
    <3>6. ASSUME NEW c, inRun = {}, inCq = {}, inOut = {c}
          PROVE  Places(f) = {<<"printed", c>>}
      BY <2>1, <3>1, <3>6
    <3> QED
      BY <2>3, <2>11, <3>3, <3>4, <3>5, <3>6
  <2> QED
    BY <2>2, <2>9, <2>10, <2>11
<1> QED
  BY <1>1, Invariance, PTL

-----------------------------------------------------------------------------
(* Every wait is answered, also when earlier ones were interrupted and the   *)
(* program is behind: no more is printed than was waited for, so that one    *)
(* of the submitted files is left to wait for.                              *)
CountInv == Len(printed) < arg

LEMMA CountStep ==
  ASSUME IInv, CountInv, [Next]_vars
  PROVE  CountInv'
<1>1. /\ arg \in Nat /\ Len(printed) \in Nat /\ printed \in Seq(Printouts)
      /\ cq \in Seq(Completions) /\ filled \in [Files -> Nat]
      /\ \A c \in 1 .. Len(cq) :
           cq[c].file \in Files /\ (cq[c].res \in Nat \/ cq[c].res = Error)
  BY Types DEF IInv
<1>2. CASE GetCompletionAndPrint
  <2>1. arg' = arg + 1
    BY <1>2 DEF GetCompletionAndPrint, NextFile
  <2>2. CASE printed' = printed
    BY <1>1, <2>1, <2>2 DEF CountInv
  <2>3. CASE Head(cq).res >= 0 /\ printed' = Append(printed, Printout(Head(cq)))
    <3>1. Head(cq) = cq[1] /\ 1 \in 1 .. Len(cq)
      BY <1>1, <1>2, Shortened DEF GetCompletionAndPrint
    <3>2. Printout(Head(cq)) \in Printouts
      <4>1. Head(cq).file \in Files /\ Head(cq).res \in Nat
        BY <1>1, <2>3, <3>1 DEF Error
      <4> QED
        BY <1>1, <4>1 DEF Printout, Printouts
    <3>3. Len(printed') = Len(printed) + 1
      BY <1>1, <2>3, <3>2, Appended
    <3> QED
      BY <1>1, <2>1, <3>3 DEF CountInv
  <2> QED
    BY <1>2, <2>2, <2>3 DEF GetCompletionAndPrint
<1>3. CASE WaitFails
  BY <1>1, <1>3 DEF WaitFails, NextFile, CountInv
<1>4. CASE \/ InitQueue \/ OpenFile \/ Submit \/ SqringWaitFails \/ Exited
           \/ Kernel \/ UNCHANGED vars
  <2>1. UNCHANGED <<arg, printed>>
    BY <1>4 DEF InitQueue, OpenFile, Submit, SqringWaitFails, Exited, Kernel,
       Take, ReadProgress, Post, vars
  <2> QED
    BY <2>1 DEF CountInv
<1> QED
  BY <1>2, <1>3, <1>4 DEF Next, Program, Interrupts

(* The numbers from 1 to n are n. *)
LEMMA UpTo ==
  ASSUME NEW n \in Nat
  PROVE  IsFiniteSet(1 .. n) /\ Cardinality(1 .. n) = n
  BY FS_Interval

(* io_uring_wait_cqe is called only with a completion in the queue or one    *)
(* to come (omp_io_uring_polling.c:62, 150, 180-191).                       *)
NoWaitForNothing == pc = "wait" => sq # <<>> \/ running # {} \/ cq # <<>>

(* The safety half of Ends: no wait is for ever but by the kernel's fault.   *)
THEOREM NeverWaitsForNothing == Spec => []NoWaitForNothing
<1>1. Init => CountInv
  <2>1. Len(<<>>) = 0
    BY EmptySeq
  <2> QED
    BY <2>1 DEF Init, CountInv
<1>2. ASSUME IInv, CountInv PROVE NoWaitForNothing
  <2> SUFFICES ASSUME pc = "wait", sq = <<>>, running = {}, cq = <<>>
               PROVE  FALSE
    BY DEF NoWaitForNothing
  <2>1. arg \in Nat /\ Len(printed) \in Nat /\ arg <= NFiles /\ Last = arg
    BY <1>2, Types DEF IInv, ArgInv, Last
  <2>2. Len(sq) = 0 /\ Len(cq) = 0
    BY EmptySeq
  <2> DEFINE S == 1 .. arg
             T == 1 .. Len(printed)
             At == [f \in S |-> CHOOSE n \in T : printed[n].file = f]
  <2>3. ASSUME NEW f \in S PROVE \E n \in T : printed[n].file = f
    <3>1. f \in Files /\ f <= Last - Len(sq)
      <4>1. f \in 1 .. arg /\ NFiles \in Nat
        BY PollEachAssumption
      <4> QED
        BY <2>1, <2>2, <4>1 DEF Files
    <3>2. ~InCq(f)
      BY <2>2 DEF InCq
    <3>3. InPrinted(f)
      BY <1>2, <3>1, <3>2 DEF IInv, LineInv
    <3> QED
      BY <3>3 DEF InPrinted
  <2>4. \A f \in S : At[f] \in T /\ printed[At[f]].file = f
    BY <2>3
  <2>5. At \in [S -> T]
    BY <2>4
  <2>6. /\ IsFiniteSet(S) /\ Cardinality(S) = arg
        /\ IsFiniteSet(T) /\ Cardinality(T) = Len(printed)
    BY <2>1, UpTo
  <2>7. Cardinality(T) < Cardinality(S)
    BY <1>2, <2>6 DEF CountInv
  <2> HIDE DEF S, T, At
  <2>8. \E f, g \in S : f # g /\ At[f] = At[g]
    BY <2>5, <2>6, <2>7, FS_PigeonHole
  <2> QED
    BY <2>4, <2>8
<1> QED
  BY <1>1, <1>2, CountStep, Invariance, PTL DEF Spec
=============================================================================
