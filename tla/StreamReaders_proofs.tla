-------------------------- MODULE StreamReaders_proofs --------------------------
(***************************************************************************)
(* The safety of StreamReaders, for any size of the file and of the buffer, *)
(* any number of calls, and whatever fails.                                 *)
(***************************************************************************)
EXTENDS StreamReaders, SequenceTheorems, TLAPS

Most == Smaller(size, BUFFER_SIZE)

StartsOf(d) == {k \in 1 .. Len(d) : d[k] = 1}
Chain(d) ==
  \A k \in 1 .. Len(d) : d[k] = 1 \/ (k > 1 /\ d[k] = d[k - 1] + 1)

(* What my_fopen has made so far; the buffer is there while it is used.     *)
HeldInv ==
  /\ pc = "init" => held = {}
  /\ pc = "fopen" => held \subseteq {"ring"}
  /\ pc \in {"fileno", "register"} => held \subseteq {"ring", "stream"}
  /\ pc = "file" => held \subseteq {"ring", "stream", "registration"}
  /\ pc = "alloc" => held \subseteq {"ring", "stream", "registration", "file"}
  /\ pc \in {"fread", "wait", "sync", "return", "close"} => "buffer" \in held
  /\ pc \in Ended => held = {}

(* A read is only left behind by a wait that was interrupted.               *)
FlightInv ==
  /\ ~disturbed =>
       IF pc = "wait" THEN inFlight + Len(cq) = 1 ELSE inFlight = 0 /\ cq = <<>>
  /\ \A c \in 1 .. Len(cq) : cq[c] # Error => cq[c] <= Most

PollInv ==
  prog = "poll" =>
    /\ pc # "sync"
    /\ \A k \in 1 .. Len(Delivered) : Delivered[k] <= Most

(* The stream is where the last byte was; but for a last, short piece.      *)
ChainInv ==
  /\ prog = "poll" \/ ~disturbed => Chain(Delivered)
  /\ prog = "polling" /\ ~disturbed =>
       \/ spos \in {0, size}
       \/ Len(Delivered) > 0 /\ Delivered[Len(Delivered)] = spos

(* One beginning is from the ring, one from the stream.                     *)
StartInv ==
  prog = "polling" =>
    /\ pc \in {"wait", "sync"} => initiated
    /\ ~initiated \/ pc = "wait" => Delivered = <<>> /\ spos = 0
    /\ spos = 0 => StartsOf(Delivered) \subseteq {1}
    /\ \E m \in Nat : StartsOf(Delivered) \subseteq {1, m}

TimesInv == pc \in {"close", "done", "failed"} \/ times < TIMES

CallInv ==
  /\ TypeOK /\ HeldInv /\ FlightInv /\ PollInv /\ ChainInv /\ StartInv
  /\ TimesInv

(* What is waited for is on its way, and only an empty file is read as empty. *)
WaitInv ==
  /\ pc = "wait" => inFlight + Len(cq) > 0
  /\ \A c \in 1 .. Len(cq) : cq[c] = 0 => size = 0

(* A call that came back has submitted the ring's read, now or earlier. *)
CalledInv ==
  prog = "polling" /\ pc \in {"return", "close", "done"} => initiated

(* The stream is at its end, and no full call is left behind byte m. *)
AtEnd(m) == spos = size /\ size - m < BUFFER_SIZE

(* A call brought nothing, or main has ended for that reason. *)
Finished ==
  \/ pc = "return" /\ buffer = <<>>
  \/ pc \in {"close", "done"} /\ times < TIMES

(* Two beginnings of n and m bytes are delivered. *)
TwoBeginnings(n, m) ==
  /\ Delivered = Bytes(0, n) \o Bytes(0, m)
  /\ n = 0 => size = 0
  /\ spos = m \/ AtEnd(m)
  /\ Finished => AtEnd(m)

(* io_uring_polling.c, left alone. *)
ShapeInv ==
  prog = "polling" /\ ~disturbed /\ initiated /\ pc # "wait" =>
    \E n \in 0 .. Most, m \in 0 .. size : TwoBeginnings(n, m)

IInv == CallInv /\ WaitInv /\ CalledInv /\ ShapeInv

-----------------------------------------------------------------------------
(* The types of the state, in a form the steps below use.                   *)
LEMMA Types ==
  ASSUME TypeOK
  PROVE  /\ BUFFER_SIZE \in Nat \ {0} /\ TIMES \in Nat \ {0}
         /\ size \in Nat /\ inFlight \in Nat /\ cq \in Seq(Nat \cup {Error})
         /\ spos \in Nat /\ spos <= size /\ times \in Nat /\ times <= TIMES
         /\ buffer \in Seq(Nat) /\ out \in Seq(Nat)
         /\ Len(buffer) \in Nat /\ Len(buffer) <= BUFFER_SIZE
         /\ Total \in Nat /\ Most \in Nat /\ Len(cq) \in Nat
         /\ Delivered \in Seq(Nat) /\ Len(Delivered) \in Nat
         /\ prog \in {"poll", "polling"}
<1>1. /\ BUFFER_SIZE \in Nat \ {0} /\ TIMES \in Nat \ {0}
      /\ size \in Nat /\ inFlight \in Nat /\ cq \in Seq(Nat \cup {Error})
      /\ spos \in 0 .. size /\ times \in 0 .. TIMES
      /\ buffer \in Seq(Nat) /\ out \in Seq(Nat) /\ Len(buffer) <= BUFFER_SIZE
      /\ prog \in {"poll", "polling"}
  BY StreamReadersAssumption DEF TypeOK
<1>2. Len(buffer) \in Nat /\ Len(cq) \in Nat
  BY <1>1, LenProperties
<1>3. Total \in Nat /\ Most \in Nat
  BY <1>1, <1>2 DEF Total, Most, Smaller
<1>4. Delivered \in Seq(Nat)
  BY <1>1, ConcatProperties DEF Delivered
<1>5. Len(Delivered) \in Nat
  BY <1>4, LenProperties
<1> QED
  BY <1>1, <1>2, <1>3, <1>4, <1>5

(* Bytes of the file are a sequence of positions.                           *)
LEMMA BytesType ==
  ASSUME NEW p \in Nat, NEW n \in Nat
  PROVE  Bytes(p, n) \in Seq(Nat) /\ Len(Bytes(p, n)) = n
<1>1. \A k \in 1 .. n : p + k \in Nat
  OBVIOUS
<1> QED
  BY <1>1 DEF Bytes

(* Bytes of the file put behind what is there.                              *)
LEMMA Extended ==
  ASSUME NEW d \in Seq(Nat), NEW p \in Nat, NEW n \in Nat
  PROVE  /\ Bytes(p, n) \in Seq(Nat) /\ Len(Bytes(p, n)) = n
         /\ d \o Bytes(p, n) \in Seq(Nat) /\ Len(d \o Bytes(p, n)) = Len(d) + n
         /\ Len(d) \in Nat
         /\ \A k \in 1 .. Len(d) + n :
              (d \o Bytes(p, n))[k] = IF k <= Len(d) THEN d[k] ELSE p + (k - Len(d))
<1>1. Bytes(p, n) \in Seq(Nat) /\ Len(Bytes(p, n)) = n
  BY BytesType
<1>2. \A k \in 1 .. n : Bytes(p, n)[k] = p + k
  BY DEF Bytes
<1>3. Len(d) \in Nat
  BY LenProperties
<1> DEFINE b == Bytes(p, n)
<1> HIDE DEF b
<1>4. /\ d \o b \in Seq(Nat) /\ Len(d \o b) = Len(d) + n
      /\ \A k \in 1 .. Len(d) + n :
           (d \o b)[k] = IF k <= Len(d) THEN d[k] ELSE b[k - Len(d)]
  <2>1. b \in Seq(Nat) /\ Len(b) = n
    BY <1>1 DEF b
  <2> QED
    BY <2>1, ConcatProperties
<1>5. \A k \in 1 .. n : b[k] = p + k
  BY <1>2 DEF b
<1>6. \A k \in 1 .. Len(d) + n :
        (d \o b)[k] = IF k <= Len(d) THEN d[k] ELSE p + (k - Len(d))
  <2>1. ASSUME NEW k \in 1 .. Len(d) + n, ~(k <= Len(d))
        PROVE  (d \o b)[k] = p + (k - Len(d))
    <3>1. k - Len(d) \in 1 .. n
      BY <1>3, <2>1
    <3> QED
      BY <1>4, <1>5, <2>1, <3>1
  <2> QED
    BY <1>4, <2>1
<1> QED
  BY <1>1, <1>3, <1>4, <1>6 DEF b

(* They keep a chain if they go on from its end, or from the beginning.     *)
LEMMA ChainGrows ==
  ASSUME NEW d \in Seq(Nat), NEW p \in Nat, NEW n \in Nat, Chain(d),
         p = 0 \/ (Len(d) > 0 /\ d[Len(d)] = p)
  PROVE  Chain(d \o Bytes(p, n))
<1> DEFINE e == d \o Bytes(p, n)
<1>1. /\ Len(e) = Len(d) + n /\ Len(d) \in Nat
      /\ \A k \in 1 .. Len(d) + n :
           e[k] = IF k <= Len(d) THEN d[k] ELSE p + (k - Len(d))
  BY Extended
<1> HIDE DEF e
<1>2. ASSUME NEW k \in 1 .. Len(e)
      PROVE  e[k] = 1 \/ (k > 1 /\ e[k] = e[k - 1] + 1)
  <2>1. CASE k <= Len(d)
    <3>1. k \in 1 .. Len(d) /\ e[k] = d[k]
      BY <1>1, <2>1
    <3>2. d[k] = 1 \/ (k > 1 /\ d[k] = d[k - 1] + 1)
      BY <3>1 DEF Chain
    <3>3. ASSUME k > 1
          PROVE  e[k - 1] = d[k - 1]
      <4>1. k - 1 \in 1 .. Len(d) + n /\ k - 1 <= Len(d)
        BY <1>1, <3>1, <3>3
      <4> QED
        BY <1>1, <4>1
    <3> QED
      BY <3>1, <3>2, <3>3
  <2>2. CASE k = Len(d) + 1
    <3>1. e[k] = p + 1
      BY <1>1, <2>2
    <3>2. Len(d) > 0 => e[k - 1] = d[Len(d)] /\ k > 1
      <4>1. k - 1 = Len(d)
        BY <1>1, <2>2
      <4>2. Len(d) > 0 => k - 1 \in 1 .. Len(d) + n /\ k > 1
        BY <1>1, <4>1
      <4> QED
        BY <1>1, <4>1, <4>2
    <3> QED
      BY <3>1, <3>2
  <2>3. CASE k > Len(d) + 1
    <3>1. k > 1 /\ k - 1 \in 1 .. Len(d) + n /\ ~(k - 1 <= Len(d)) /\ ~(k <= Len(d))
      BY <1>1, <2>3
    <3>2. e[k] = p + (k - Len(d)) /\ e[k - 1] = p + ((k - 1) - Len(d))
      BY <1>1, <3>1
    <3> QED
      BY <1>1, <3>1, <3>2
  <2> QED
    BY <1>1, <2>1, <2>2, <2>3
<1> QED
  BY <1>2 DEF Chain, e

(* They bring a start only if they are from the beginning.                  *)
LEMMA StartsGrow ==
  ASSUME NEW d \in Seq(Nat), NEW p \in Nat, NEW n \in Nat
  PROVE  /\ StartsOf(d \o Bytes(p, n)) \subseteq StartsOf(d) \cup {Len(d) + 1}
         /\ p > 0 => StartsOf(d \o Bytes(p, n)) = StartsOf(d)
<1> DEFINE e == d \o Bytes(p, n)
<1>1. /\ Len(e) = Len(d) + n /\ Len(d) \in Nat
      /\ \A k \in 1 .. Len(d) + n :
           e[k] = IF k <= Len(d) THEN d[k] ELSE p + (k - Len(d))
  BY Extended
<1> HIDE DEF e
<1>2. \A k \in 1 .. Len(e) :
        \/ k \in 1 .. Len(d) /\ e[k] = d[k]
        \/ k = Len(d) + 1 /\ e[k] = p + 1
        \/ e[k] # 1
  BY <1>1
<1>3. \A k \in 1 .. Len(d) : k \in 1 .. Len(e) /\ e[k] = d[k]
  BY <1>1
<1> QED
  BY <1>2, <1>3 DEF StartsOf, e

-----------------------------------------------------------------------------
LEMMA InitCallInv == Init => CallInv
<1> SUFFICES ASSUME Init
             PROVE  CallInv
  OBVIOUS
<1>1. <<>> \in Seq(Nat) /\ <<>> \in Seq(Nat \cup {Error}) /\ Len(<<>>) = 0
  BY EmptySeq
<1>2. Delivered = <<>>
  BY <1>1, ConcatEmptySeq DEF Init, Delivered
<1>3. TypeOK
  <2>1. size \in Nat /\ 0 \in 0 .. size /\ 0 \in 0 .. TIMES /\ 0 <= BUFFER_SIZE
    BY StreamReadersAssumption DEF Init
  <2> QED
    BY <1>1, <2>1 DEF Init, TypeOK
<1>4. HeldInv /\ FlightInv
  BY <1>1 DEF Init, HeldInv, FlightInv, Ended
<1>5. Chain(<<>>) /\ StartsOf(<<>>) = {}
  BY <1>1 DEF Chain, StartsOf
<1>6. PollInv /\ ChainInv /\ StartInv
  BY <1>1, <1>2, <1>5 DEF Init, PollInv, ChainInv, StartInv
<1>7. TimesInv
  BY StreamReadersAssumption DEF Init, TimesInv
<1> QED
  BY <1>3, <1>4, <1>6, <1>7 DEF CallInv

(* Steps that deliver nothing: what CallInv says of the delivered bytes stays. *)
Quiet ==
  /\ Delivered' = Delivered /\ prog' = prog /\ size' = size /\ spos' = spos
  /\ disturbed' = disturbed \/ disturbed' = TRUE
  /\ initiated' = initiated \/ initiated' = TRUE
  /\ pc' = "sync" => pc = "sync" \/ (prog = "polling" /\ initiated' = TRUE)
  /\ pc' = "wait" =>
       \/ pc = "wait"
       \/ initiated' = TRUE /\ (prog = "poll" \/ initiated = FALSE)

LEMMA DeliveryKept ==
  ASSUME CallInv, TypeOK', Quiet
  PROVE  PollInv' /\ ChainInv' /\ StartInv'
<1> USE DEF CallInv
<1>1. disturbed' \in BOOLEAN /\ disturbed \in BOOLEAN /\ initiated \in BOOLEAN
      /\ initiated' \in BOOLEAN /\ prog \in {"poll", "polling"}
  BY DEF TypeOK
<1>2. PollInv'
  BY <1>1 DEF PollInv, Most, Quiet
<1>3. ChainInv'
  BY <1>1 DEF ChainInv, Quiet
<1>4. StartInv'
  BY <1>1 DEF StartInv, Quiet
<1> QED
  BY <1>2, <1>3, <1>4

(* my_fopen and my_fclose. *)
LEMMA HoldingSteps ==
  ASSUME CallInv, Fopen \/ Fclose
  PROVE  CallInv'
<1> USE DEF CallInv
<1>1. /\ UNCHANGED <<prog, size, inFlight, cq, initiated, spos, buffer, disturbed,
                     times, out>>
      /\ pc' \in {"fopen", "fileno", "register", "file", "alloc", "fread", "done",
                 "failed"}
      /\ pc \in {"init", "fopen", "fileno", "register", "file", "alloc", "close"}
      /\ pc = "close" => pc' = "done"
  BY DEF Fopen, FopenRing, FopenStream, FopenFileno, FopenRegister,
         FopenFile, FopenAlloc, Fclose, Open,
         ringVars, callVars
<1>2. HeldInv' /\ held' \subseteq {"ring", "stream", "registration", "file",
                                         "buffer"}
  BY DEF Fopen, FopenRing, FopenStream, FopenFileno, FopenRegister,
         FopenFile, FopenAlloc, Fclose, Open,
         Released, UndoFopen, UndoFileno, UndoRegister, UndoFile, UndoAlloc,
         HeldInv, Ended, TypeOK
<1>3. TypeOK'
  BY <1>1, <1>2 DEF TypeOK, Ended
<1>4. FlightInv'
  BY <1>1 DEF FlightInv, Most
<1>5. PollInv' /\ ChainInv' /\ StartInv'
  <2>1. Delivered' = Delivered
    BY <1>1 DEF Delivered
  <2>2. Quiet
    BY <1>1, <2>1 DEF Quiet
  <2> QED
    BY <1>3, <2>2, DeliveryKept
<1>6. TimesInv'
  BY <1>1 DEF TimesInv
<1> QED
  BY <1>2, <1>3, <1>4, <1>5, <1>6

(* The steps of the ring, the kernel and main that deliver nothing new.     *)
LEMMA RingSteps ==
  ASSUME CallInv, SubmitRead \/ WaitFails \/ Complete
  PROVE  CallInv'
<1> USE DEF CallInv
<1>1. CASE SubmitRead
  <2>1. /\ pc = "fread" /\ pc' = "wait" /\ inFlight' = inFlight + 1
        /\ initiated' = TRUE /\ (initiated => prog = "poll")
        /\ UNCHANGED <<prog, held, size, cq, spos, buffer, times, out, disturbed>>
    BY <1>1, Types DEF SubmitRead, NowInitiated, fileVars
  <2>2. TypeOK'
    BY <2>1, Types DEF TypeOK
  <2>3. FlightInv'
    <3>1. Len(<<>>) = 0
      OBVIOUS
    <3> QED
      BY <2>1, <3>1, Types DEF FlightInv, Most
  <2>4. HeldInv'
    BY <2>1 DEF HeldInv, Ended
  <2>5. Delivered' = Delivered
    BY <2>1 DEF Delivered
  <2>6. Quiet
    BY <2>1, <2>5 DEF Quiet, TypeOK
  <2>7. TimesInv'
    BY <2>1 DEF TimesInv
  <2> QED
    BY <2>2, <2>3, <2>4, <2>6, <2>7, DeliveryKept
<1>2. CASE WaitFails
  <2>1. /\ pc = "wait" /\ pc' = "return" /\ disturbed' = TRUE
        /\ UNCHANGED <<prog, held, size, inFlight, cq, initiated, spos, buffer,
                       times, out>>
    BY <1>2 DEF WaitFails, fileVars, ringVars
  <2>2. TypeOK'
    BY <2>1 DEF TypeOK
  <2>3. FlightInv' /\ HeldInv'
    BY <2>1 DEF FlightInv, HeldInv, Most, Ended
  <2>4. Delivered' = Delivered
    BY <2>1 DEF Delivered
  <2>5. Quiet
    BY <2>1, <2>4 DEF Quiet, TypeOK
  <2>6. TimesInv'
    BY <2>1 DEF TimesInv
  <2> QED
    BY <2>2, <2>3, <2>5, <2>6, DeliveryKept
<1>3. CASE Complete
  <2>1. PICK n \in {Error} \cup 0 .. Most : cq' = Append(cq, n)
    BY <1>3 DEF Complete, Most
  <2>2. /\ inFlight > 0 /\ inFlight' = inFlight - 1
        /\ UNCHANGED <<pc, prog, held, size, initiated, spos, buffer, disturbed,
                       times, out>>
    BY <1>3 DEF Complete, fileVars, callVars
  <2>3. /\ n \in Nat \cup {Error} /\ (n # Error => n <= Most)
        /\ cq \in Seq(Nat \cup {Error}) /\ Len(cq) \in Nat
    BY <2>1, Types DEF Error
  <2>4. /\ cq' \in Seq(Nat \cup {Error}) /\ Len(cq') = Len(cq) + 1
        /\ cq'[Len(cq) + 1] = n /\ \A c \in 1 .. Len(cq) : cq'[c] = cq[c]
    BY <2>1, <2>3, AppendProperties
  <2>5. TypeOK'
    BY <2>2, <2>4, Types DEF TypeOK
  <2>6. FlightInv'
    <3>1. ~disturbed => pc = "wait"
      BY <2>2, Types DEF FlightInv
    <3>2. ~disturbed => inFlight' + Len(cq') = 1
      BY <2>2, <2>4, <3>1, Types DEF FlightInv
    <3>3. \A c \in 1 .. Len(cq') : c \in 1 .. Len(cq) \/ c = Len(cq) + 1
      BY <2>3, <2>4
    <3>4. \A c \in 1 .. Len(cq') : cq'[c] # Error => cq'[c] <= Most
      BY <2>3, <2>4, <3>3 DEF FlightInv
    <3> QED
      BY <2>2, <3>1, <3>2, <3>4 DEF FlightInv, Most
  <2>7. HeldInv'
    BY <2>2 DEF HeldInv
  <2>8. Delivered' = Delivered
    BY <2>2 DEF Delivered
  <2>9. Quiet
    BY <2>2, <2>8 DEF Quiet
  <2>10. TimesInv'
    BY <2>2 DEF TimesInv
  <2> QED
    BY <2>5, <2>6, <2>7, <2>9, <2>10, DeliveryKept
<1> QED
  BY <1>1, <1>2, <1>3

LEMMA PlainSteps ==
  ASSUME CallInv,
         Initiated \/ FreadDone \/ MainPrint \/ MainEnd \/ UNCHANGED vars
  PROVE  CallInv'
<1> USE DEF CallInv
<1>1. CASE Initiated \/ FreadDone \/ MainEnd \/ UNCHANGED vars
  <2>1. /\ UNCHANGED <<prog, held, size, inFlight, cq, initiated, spos, buffer,
                       disturbed, times, out>>
        /\ \/ pc = "fread" /\ pc' = "sync" /\ prog = "polling" /\ initiated
           \/ pc \in {"fread", "sync"} /\ pc' = "return"
           \/ pc = "return" /\ pc' = "close"
           \/ pc' = pc
    BY <1>1 DEF Initiated, FreadDone, MainEnd, vars, fileVars, ringVars, callVars
  <2>2. TypeOK'
    BY <2>1 DEF TypeOK
  <2>3. FlightInv'
    BY <2>1 DEF FlightInv, Most
  <2>4. HeldInv'
    BY <2>1 DEF HeldInv, Ended
  <2>5. Delivered' = Delivered
    BY <2>1 DEF Delivered
  <2>6. Quiet
    BY <2>1, <2>5 DEF Quiet, TypeOK
  <2>7. TimesInv'
    BY <2>1 DEF TimesInv
  <2> QED
    BY <2>2, <2>3, <2>4, <2>6, <2>7, DeliveryKept
<1>2. CASE MainPrint
  <2>1. /\ pc = "return" /\ pc' \in {"close", "fread"}
        /\ out' = out \o buffer /\ buffer' = <<>> /\ times' = times + 1
        /\ pc' = "close" \/ times' # TIMES
        /\ UNCHANGED <<prog, held, size, inFlight, cq, initiated, spos, disturbed>>
    BY <1>2 DEF MainPrint, fileVars, ringVars
  <2>2. TypeOK'
    <3>1. times < TIMES
      BY <2>1 DEF TimesInv
    <3>2. <<>> \in Seq(Nat) /\ Len(<<>>) = 0
      BY EmptySeq
    <3>3. out' \in Seq(Nat)
      BY <2>1, Types, ConcatProperties
    <3>4. times' \in 0 .. TIMES
      BY <2>1, <3>1, Types
    <3> QED
      BY <2>1, <3>2, <3>3, <3>4, Types DEF TypeOK
  <2>3. FlightInv' /\ HeldInv'
    BY <2>1 DEF FlightInv, HeldInv, Most, Ended
  <2>4. Delivered' = Delivered
    <3>1. Delivered \in Seq(Nat)
      BY Types
    <3>2. Delivered' = Delivered \o <<>>
      BY <2>1 DEF Delivered
    <3> QED
      BY <3>1, <3>2, ConcatEmptySeq
  <2>5. Quiet
    BY <2>1, <2>4 DEF Quiet, TypeOK
  <2>6. TimesInv'
    BY <2>1, Types DEF TimesInv
  <2> QED
    BY <2>2, <2>3, <2>5, <2>6, DeliveryKept
<1> QED
  BY <1>1, <1>2

-----------------------------------------------------------------------------
LEMMA Joined ==
  ASSUME NEW s \in Seq(Nat), NEW t \in Seq(Nat)
  PROVE  /\ s \o t \in Seq(Nat) /\ Len(s \o t) = Len(s) + Len(t)
         /\ Len(s) \in Nat /\ Len(t) \in Nat
         /\ \A k \in 1 .. Len(s) + Len(t) :
              (s \o t)[k] = IF k <= Len(s) THEN s[k] ELSE t[k - Len(s)]
  BY ConcatProperties, LenProperties

LEMMA Regrouped ==
  ASSUME NEW s \in Seq(Nat), NEW t \in Seq(Nat), NEW u \in Seq(Nat)
  PROVE  (s \o t) \o u = s \o (t \o u)
<1> DEFINE x == s \o t
           y == t \o u
<1>1. /\ x \in Seq(Nat) /\ Len(x) = Len(s) + Len(t)
      /\ Len(s) \in Nat /\ Len(t) \in Nat /\ Len(u) \in Nat
      /\ \A k \in 1 .. Len(s) + Len(t) :
           x[k] = IF k <= Len(s) THEN s[k] ELSE t[k - Len(s)]
  BY Joined
<1>2. /\ y \in Seq(Nat) /\ Len(y) = Len(t) + Len(u)
      /\ \A k \in 1 .. Len(t) + Len(u) :
           y[k] = IF k <= Len(t) THEN t[k] ELSE u[k - Len(t)]
  BY Joined
<1> HIDE DEF x, y
<1> DEFINE v == x \o u
           w == s \o y
<1>3. /\ v \in Seq(Nat) /\ Len(v) = Len(x) + Len(u)
      /\ \A k \in 1 .. Len(x) + Len(u) :
           v[k] = IF k <= Len(x) THEN x[k] ELSE u[k - Len(x)]
  BY <1>1, Joined
<1>4. /\ w \in Seq(Nat) /\ Len(w) = Len(s) + Len(y)
      /\ \A k \in 1 .. Len(s) + Len(y) :
           w[k] = IF k <= Len(s) THEN s[k] ELSE y[k - Len(s)]
  BY <1>2, Joined
<1> HIDE DEF v, w
<1>5. Len(v) = Len(s) + Len(t) + Len(u) /\ Len(w) = Len(v)
  BY <1>1, <1>2, <1>3, <1>4
<1>6. ASSUME NEW k \in 1 .. Len(v)
      PROVE  v[k] = w[k]
  <2>1. CASE k <= Len(s)
    <3>1. k \in 1 .. Len(s) + Len(t) /\ k <= Len(x)
      BY <1>1, <1>5, <2>1
    <3>2. v[k] = s[k]
      BY <1>1, <1>3, <2>1, <3>1
    <3> QED
      BY <1>1, <1>4, <1>5, <2>1, <3>2
  <2>2. CASE ~(k <= Len(s)) /\ k <= Len(s) + Len(t)
    <3>1. k \in 1 .. Len(s) + Len(t) /\ k - Len(s) \in 1 .. Len(t) + Len(u)
          /\ k - Len(s) <= Len(t)
      BY <1>1, <1>5, <2>2
    <3>2. v[k] = t[k - Len(s)]
      BY <1>1, <1>3, <1>5, <2>2, <3>1
    <3>3. w[k] = y[k - Len(s)]
      BY <1>4, <1>5, <2>2
    <3> QED
      BY <1>2, <3>1, <3>2, <3>3
  <2>3. CASE ~(k <= Len(s)) /\ ~(k <= Len(s) + Len(t))
    <3>1. /\ k - Len(s) \in 1 .. Len(t) + Len(u) /\ ~(k - Len(s) <= Len(t))
          /\ (k - Len(s)) - Len(t) = k - Len(x)
      BY <1>1, <1>5, <2>3
    <3>2. v[k] = u[k - Len(x)]
      BY <1>1, <1>3, <1>5, <2>3
    <3>3. w[k] = y[k - Len(s)]
      BY <1>4, <1>5, <2>3
    <3> QED
      BY <1>2, <3>1, <3>2, <3>3
  <2> QED
    BY <2>1, <2>2, <2>3
<1>7. v = w
  BY <1>3, <1>4, <1>5, <1>6, SeqEqual
<1> QED
  BY <1>7 DEF v, w, x, y

(* What a step that puts n bytes from p on into the buffer does.            *)
LEMMA BufferGrows ==
  ASSUME TypeOK, NEW p \in Nat, NEW n \in Nat, n <= Total,
         buffer' = buffer \o Bytes(p, n), out' = out
  PROVE  /\ buffer' \in Seq(Nat) /\ Len(buffer') <= BUFFER_SIZE
         /\ Delivered' = Delivered \o Bytes(p, n)
<1>1. buffer \in Seq(Nat) /\ out \in Seq(Nat) /\ Bytes(p, n) \in Seq(Nat)
  BY Types, Extended
<1>2. buffer' \in Seq(Nat) /\ Len(buffer') = Len(buffer) + n
  BY <1>1, Extended
<1>3. Delivered' = Delivered \o Bytes(p, n)
  <2> DEFINE b == Bytes(p, n)
  <2>1. b \in Seq(Nat)
    BY <1>1
  <2> HIDE DEF b
  <2>2. (out \o buffer) \o b = out \o (buffer \o b)
    <3>1. out \in Seq(Nat) /\ buffer \in Seq(Nat)
      BY <1>1
    <3> QED
      BY <2>1, <3>1, Regrouped
  <2>3. Delivered' = out \o (buffer \o b)
    BY DEF Delivered, b
  <2> QED
    BY <2>2, <2>3 DEF Delivered, b
<1>4. Len(buffer) \in Nat /\ BUFFER_SIZE \in Nat
  BY Types
<1> QED
  BY <1>2, <1>3, <1>4 DEF Total

(* A completed read brings a beginning of the file.                         *)
LEMMA WaitDoneStep ==
  ASSUME CallInv, WaitDone
  PROVE  CallInv'
<1> USE DEF CallInv
<1> DEFINE res == Head(cq)
<1>1. /\ pc = "wait" /\ cq # <<>> /\ cq' = Tail(cq)
      /\ UNCHANGED <<prog, held, size, inFlight, initiated, spos, times, out>>
  BY DEF WaitDone, fileVars
<1>2. /\ cq' \in Seq(Nat \cup {Error}) /\ res \in Nat \cup {Error}
      /\ res = cq[1] /\ Len(cq) \in Nat \ {0} /\ Len(cq') = Len(cq) - 1
      /\ \A c \in 1 .. Len(cq) - 1 : cq'[c] = cq[c + 1]
  <2>1. cq \in Seq(Nat \cup {Error}) /\ Len(cq) \in Nat
    BY Types
  <2>2. Len(cq) # 0
    BY <1>1, <2>1, EmptySeq
  <2>3. cq' \in Seq(Nat \cup {Error}) /\ res \in Nat \cup {Error}
        /\ Len(cq') = Len(cq) - 1
        /\ \A c \in 1 .. Len(cq') : cq'[c] = cq[c + 1]
    BY <1>1, <2>1, HeadTailProperties
  <2>4. res = cq[1]
    BY <2>1, <2>2, HeadTailProperties
  <2> QED
    BY <2>1, <2>2, <2>3, <2>4
<1>3. /\ res # Error => res <= Most
      /\ \A c \in 1 .. Len(cq') : cq'[c] # Error => cq'[c] <= Most
  <2>1. 1 \in 1 .. Len(cq) /\ \A c \in 1 .. Len(cq') : c + 1 \in 1 .. Len(cq)
    BY <1>2
  <2> QED
    BY <1>2, <2>1 DEF FlightInv
<1>4. ~disturbed => inFlight = 0 /\ cq' = <<>>
  <2>1. ~disturbed => inFlight + Len(cq) = 1
    BY <1>1 DEF FlightInv
  <2>2. ~disturbed => inFlight = 0 /\ Len(cq') = 0
    BY <1>2, <2>1, Types
  <2> QED
    BY <1>2, <2>2, EmptySeq
<1>5. CASE /\ res >= 0
           /\ buffer' = buffer \o Bytes(0, Copied(res))
           /\ pc' = IF prog = "poll" THEN "fread" ELSE "sync"
           /\ UNCHANGED disturbed
  <2>1. res \in Nat /\ res <= Most
    BY <1>2, <1>3, <1>5 DEF Error
  <2> DEFINE n == Copied(res)
  <2>2. n \in Nat /\ n <= Total /\ n <= Most
    BY <2>1, Types DEF Copied, Smaller
  <2>3. buffer' = buffer \o Bytes(0, n)
    BY <1>5
  <2> HIDE DEF n
  <2>4. /\ buffer' \in Seq(Nat) /\ Len(buffer') <= BUFFER_SIZE
        /\ Delivered' = Delivered \o Bytes(0, n)
    BY <1>1, <2>2, <2>3, BufferGrows
  <2>5. Delivered \in Seq(Nat) /\ Len(Delivered) \in Nat /\ size \in Nat
    BY Types
  <2>6. /\ Len(Delivered') = Len(Delivered) + n
        /\ \A k \in 1 .. Len(Delivered) + n :
             Delivered'[k] = IF k <= Len(Delivered) THEN Delivered[k]
                             ELSE 0 + (k - Len(Delivered))
    <3>1. LET e == Delivered \o Bytes(0, n)
          IN  /\ Len(e) = Len(Delivered) + n
              /\ \A k \in 1 .. Len(Delivered) + n :
                   e[k] = IF k <= Len(Delivered) THEN Delivered[k]
                          ELSE 0 + (k - Len(Delivered))
      <4>1. 0 \in Nat /\ n \in Nat /\ Delivered \in Seq(Nat)
        BY <2>2, <2>5
      <4> QED
        BY <4>1, Extended, Zenon
    <3> QED
      BY <2>4, <3>1
  <2>7. TypeOK'
    BY <1>1, <1>2, <1>5, <2>4 DEF TypeOK
  <2>8. HeldInv'
    BY <1>1, <1>5 DEF HeldInv, Ended
  <2>9. FlightInv'
    BY <1>1, <1>3, <1>4, <1>5 DEF FlightInv, Most
  <2>10. PollInv'
    <3>1. ASSUME prog = "poll", NEW k \in 1 .. Len(Delivered')
          PROVE  Delivered'[k] <= Most
      <4>1. CASE k <= Len(Delivered)
        <5>1. k \in 1 .. Len(Delivered) /\ Delivered'[k] = Delivered[k]
          BY <2>5, <2>6, <4>1
        <5> QED
          BY <3>1, <5>1 DEF PollInv
      <4>2. CASE ~(k <= Len(Delivered))
        <5>1. Delivered'[k] = k - Len(Delivered) /\ k - Len(Delivered) <= n
          BY <2>2, <2>5, <2>6, <4>2
        <5>2. Most \in Nat
          BY Types
        <5> QED
          BY <2>2, <2>5, <5>1, <5>2
      <4> QED
        BY <4>1, <4>2
    <3> QED
      BY <1>1, <1>5, <3>1 DEF PollInv, Most
  <2>11. ChainInv'
    <3>1. prog = "poll" \/ ~disturbed => Chain(Delivered')
      BY <2>2, <2>4, <2>5, ChainGrows DEF ChainInv
    <3>2. prog = "polling" => spos = 0
      BY <1>1 DEF StartInv
    <3> QED
      BY <1>1, <1>5, <3>1, <3>2 DEF ChainInv
  <2>12. StartInv'
    <3>1. ASSUME prog = "polling"
          PROVE  StartsOf(Delivered') \subseteq {1}
      <4>1. Delivered = <<>>
        BY <1>1, <3>1 DEF StartInv
      <4>2. Len(Delivered) = 0
        BY <4>1, EmptySeq
      <4>3. StartsOf(Delivered) = {}
        BY <4>2 DEF StartsOf
      <4>4. StartsOf(Delivered') \subseteq StartsOf(Delivered) \cup {Len(Delivered) + 1}
        BY <2>2, <2>4, <2>5, StartsGrow
      <4> QED
        BY <4>2, <4>3, <4>4
    <3>2. prog = "polling" => initiated
      BY <1>1 DEF StartInv
    <3> QED
      BY <1>1, <1>5, <3>1, <3>2 DEF StartInv, TypeOK
  <2>13. TimesInv'
    BY <1>1 DEF TimesInv
  <2> QED
    BY <2>7, <2>8, <2>9, <2>10, <2>11, <2>12, <2>13
<1>6. CASE pc' = "return" /\ disturbed' = TRUE /\ UNCHANGED buffer
  <2>1. TypeOK'
    BY <1>1, <1>2, <1>6 DEF TypeOK
  <2>2. HeldInv' /\ TimesInv'
    BY <1>1, <1>6 DEF HeldInv, TimesInv, Ended
  <2>3. FlightInv'
    BY <1>1, <1>3, <1>6 DEF FlightInv, Most
  <2>4. Quiet
    BY <1>1, <1>6 DEF Quiet, Delivered
  <2> QED
    BY <2>1, <2>2, <2>3, <2>4, DeliveryKept
<1> QED
  BY <1>5, <1>6 DEF WaitDone

-----------------------------------------------------------------------------
(* fread goes on from the stream's position.                                *)
LEMMA SyncFullStep ==
  ASSUME CallInv, SyncFull
  PROVE  CallInv'
<1> USE DEF CallInv
<1>1. /\ pc = "sync" /\ Total > 0 /\ spos + Total <= size
      /\ buffer' = buffer \o Bytes(spos, Total) /\ spos' = spos + Total
      /\ UNCHANGED <<pc, prog, held, size, inFlight, cq, initiated, times, out,
                     disturbed>>
  BY DEF SyncFull, PieceKept, fileVars, ringVars
<1> DEFINE n == Total
<1>2. n \in Nat /\ n > 0 /\ n <= Total /\ spos \in Nat /\ size \in Nat
      /\ Delivered \in Seq(Nat) /\ Len(Delivered) \in Nat
  BY <1>1, Types
<1>3. buffer' = buffer \o Bytes(spos, n) /\ spos' = spos + n /\ spos + n <= size
  BY <1>1
<1> HIDE DEF n
<1>4. /\ buffer' \in Seq(Nat) /\ Len(buffer') <= BUFFER_SIZE
      /\ Delivered' = Delivered \o Bytes(spos, n)
  BY <1>1, <1>2, <1>3, BufferGrows
<1>5. /\ Len(Delivered') = Len(Delivered) + n
      /\ \A k \in 1 .. Len(Delivered) + n :
           Delivered'[k] = IF k <= Len(Delivered) THEN Delivered[k]
                           ELSE spos + (k - Len(Delivered))
  <2> DEFINE d == Delivered
             e == d \o Bytes(spos, n)
  <2>0. d \in Seq(Nat) /\ spos \in Nat /\ n \in Nat
    BY <1>2
  <2> HIDE DEF d
  <2>1. /\ Len(e) = Len(d) + n
        /\ \A k \in 1 .. Len(d) + n :
             e[k] = IF k <= Len(d) THEN d[k]
                    ELSE spos + (k - Len(d))
    BY <2>0, Extended
  <2>2. Delivered' = e
    BY <1>4 DEF d
  <2> HIDE DEF e
  <2> QED
    BY <2>1, <2>2 DEF d
<1>6. prog = "polling" /\ initiated /\ initiated' = initiated
  BY <1>1, Types DEF PollInv, StartInv
<1>7. TypeOK'
  <2>1. spos' \in 0 .. size
    BY <1>2, <1>3
  <2> QED
    BY <1>1, <1>4, <2>1 DEF TypeOK
<1>8. HeldInv' /\ FlightInv' /\ TimesInv'
  BY <1>1 DEF HeldInv, FlightInv, TimesInv, Most
<1>9. PollInv'
  BY <1>1, <1>6 DEF PollInv
<1>10. ChainInv'
  <2>1. ASSUME ~disturbed
        PROVE  Chain(Delivered')
    <3>1. spos # size
      BY <1>2, <1>3
    <3>2. spos = 0 \/ (Len(Delivered) > 0 /\ Delivered[Len(Delivered)] = spos)
      BY <1>6, <2>1, <3>1 DEF ChainInv
    <3> QED
      BY <1>2, <1>4, <2>1, <3>2, ChainGrows DEF ChainInv
  <2>2. Len(Delivered') > 0 /\ Delivered'[Len(Delivered')] = spos'
    <3>1. /\ Len(Delivered') \in 1 .. Len(Delivered) + n
          /\ ~(Len(Delivered') <= Len(Delivered))
      BY <1>2, <1>5
    <3>2. Delivered'[Len(Delivered')] = spos + (Len(Delivered') - Len(Delivered))
      BY <1>5, <3>1
    <3> QED
      BY <1>2, <1>3, <1>5, <3>2
  <2> QED
    BY <1>1, <1>6, <2>1, <2>2 DEF ChainInv
<1>11. StartInv'
  <2>1. spos' # 0
    BY <1>2, <1>3
  <2>2. \E m \in Nat : StartsOf(Delivered') \subseteq {1, m}
    <3>1. CASE spos = 0
      <4>1. StartsOf(Delivered') \subseteq {1} \cup {Len(Delivered) + 1}
        BY <1>2, <1>4, <1>6, <3>1, StartsGrow DEF StartInv
      <4>2. Len(Delivered) + 1 \in Nat
        BY <1>2
      <4> QED
        BY <4>1, <4>2
    <3>2. CASE spos > 0
      BY <1>2, <1>4, <1>6, <3>2, StartsGrow DEF StartInv
    <3> QED
      BY <1>2, <3>1, <3>2
  <2> QED
    BY <1>1, <1>6, <2>1, <2>2 DEF StartInv
<1> QED
  BY <1>7, <1>8, <1>9, <1>10, <1>11

LEMMA SyncShortStep ==
  ASSUME CallInv, SyncShort
  PROVE  CallInv'
<1> USE DEF CallInv
<1>1. PICK n \in 0 .. Total - 1 :
        /\ spos + n <= size /\ spos' = spos + n
        /\ (spos + n = size /\ disturbed' = disturbed) \/ disturbed' = TRUE
  BY DEF SyncShort
<1>2. /\ pc = "sync" /\ pc' = "return"
      /\ UNCHANGED <<prog, held, size, inFlight, cq, initiated, buffer, times, out>>
  BY DEF SyncShort, LeaveLoop, fileVars, ringVars
<1>3. n \in Nat /\ spos \in Nat /\ size \in Nat
  BY <1>1, Types
<1>4. Delivered' = Delivered
  BY <1>2 DEF Delivered
<1>5. prog = "polling" /\ initiated /\ initiated' = initiated
  BY <1>2, Types DEF PollInv, StartInv
<1>6. TypeOK'
  <2>1. spos' \in 0 .. size
    BY <1>1, <1>3
  <2>2. disturbed' \in BOOLEAN
    BY <1>1 DEF TypeOK
  <2> QED
    BY <1>2, <2>1, <2>2 DEF TypeOK
<1>7. HeldInv' /\ TimesInv'
  BY <1>2 DEF HeldInv, TimesInv, Ended
<1>8. FlightInv'
  BY <1>1, <1>2 DEF FlightInv, Most
<1>9. PollInv'
  BY <1>2, <1>5 DEF PollInv
<1>10. ChainInv'
  BY <1>1, <1>2, <1>4, <1>5 DEF ChainInv
<1>11. StartInv'
  <2>1. spos' = 0 => spos = 0
    BY <1>1, <1>3
  <2> QED
    BY <1>2, <1>4, <1>5, <2>1 DEF StartInv
<1> QED
  BY <1>6, <1>7, <1>8, <1>9, <1>10, <1>11

-----------------------------------------------------------------------------
LEMMA StepCallInv == CallInv /\ [Next]_vars => CallInv'
<1> SUFFICES ASSUME CallInv, [Next]_vars
             PROVE  CallInv'
  OBVIOUS
<1>1. CASE Fopen \/ Fclose
  BY <1>1, HoldingSteps
<1>2. CASE SubmitRead \/ WaitFails \/ Complete
  BY <1>2, RingSteps
<1>3. CASE Initiated \/ FreadDone \/ MainPrint \/ MainEnd \/ Exited
           \/ UNCHANGED vars
  BY <1>3, PlainSteps DEF Exited
<1>4. CASE WaitDone
  BY <1>4, WaitDoneStep
<1>5. CASE SyncFull
  BY <1>5, SyncFullStep
<1>6. CASE SyncShort
  BY <1>6, SyncShortStep
<1> QED
  BY <1>1, <1>2, <1>3, <1>4, <1>5, <1>6 DEF Next, Program

-----------------------------------------------------------------------------
(* A wait has a read in flight or a completion to take, after interrupted    *)
(* waits too.                                                               *)
LEMMA WaitStep ==
  ASSUME CallInv, WaitInv, [Next]_vars
  PROVE  WaitInv'
<1>1. /\ cq \in Seq(Nat \cup {Error}) /\ Len(cq) \in Nat /\ inFlight \in Nat
      /\ size \in Nat /\ BUFFER_SIZE \in Nat \ {0}
  BY Types DEF CallInv
<1>2. CASE SubmitRead
  BY <1>1, <1>2 DEF SubmitRead, fileVars, WaitInv
<1>3. CASE WaitDone
  <2>1. pc' # "wait" /\ cq' = Tail(cq) /\ cq # <<>> /\ UNCHANGED size
    BY <1>3 DEF WaitDone, fileVars
  <2>2. /\ Len(cq') = Len(cq) - 1
        /\ \A c \in 1 .. Len(cq') : cq'[c] = cq[c + 1]
    BY <1>1, <2>1, HeadTailProperties
  <2>3. \A c \in 1 .. Len(cq') : c + 1 \in 1 .. Len(cq)
    BY <1>1, <2>2
  <2> QED
    BY <2>1, <2>2, <2>3 DEF WaitInv
<1>4. CASE Complete
  <2>1. PICK n \in {Error} \cup 0 .. Smaller(size, BUFFER_SIZE) :
          /\ n = Smaller(size, BUFFER_SIZE) \/ n = Error \/ n > 0
          /\ cq' = Append(cq, n)
    BY <1>4 DEF Complete
  <2>2. inFlight' = inFlight - 1 /\ UNCHANGED <<pc, size>>
    BY <1>4 DEF Complete, fileVars
  <2>3. n \in Nat \cup {Error} /\ (n = 0 => size = 0)
    BY <1>1, <2>1 DEF Smaller, Error
  <2>4. /\ Len(cq') = Len(cq) + 1 /\ cq'[Len(cq) + 1] = n
        /\ \A c \in 1 .. Len(cq) : cq'[c] = cq[c]
    BY <1>1, <2>1, <2>3, AppendProperties
  <2>5. \A c \in 1 .. Len(cq') : c \in 1 .. Len(cq) \/ c = Len(cq) + 1
    BY <1>1, <2>4
  <2>6. \A c \in 1 .. Len(cq') : cq'[c] = 0 => size' = 0
    BY <2>2, <2>3, <2>4, <2>5 DEF WaitInv
  <2>7. pc' = "wait" => inFlight' + Len(cq') > 0
    BY <1>1, <2>2, <2>4 DEF WaitInv
  <2> QED
    BY <2>6, <2>7 DEF WaitInv
<1>5. CASE \/ Fopen
           \/ Initiated \/ SyncFull \/ SyncShort \/ FreadDone \/ MainPrint
           \/ MainEnd \/ Fclose \/ Exited \/ WaitFails \/ UNCHANGED vars
  <2>1. UNCHANGED <<size, inFlight, cq>> /\ (pc' = "wait" => pc = "wait")
    BY <1>5 DEF Fopen, FopenRing, FopenStream, FopenFileno, FopenRegister,
       FopenFile, FopenAlloc, Open,
       Initiated, SyncFull, SyncShort, LeaveLoop, FreadDone, MainPrint, MainEnd,
       Fclose, Exited, WaitFails, vars, fileVars, ringVars
  <2> QED
    BY <2>1 DEF WaitInv
<1> QED
  BY <1>2, <1>3, <1>4, <1>5 DEF Next, Program

-----------------------------------------------------------------------------
(* The beginnings io_uring_polling.c delivers while it is left alone.       *)

(* No call comes back without the ring's read having been submitted. *)
LEMMA CalledStep ==
  ASSUME CallInv, CalledInv, [Next]_vars
  PROVE  CalledInv'
<1> USE DEF CalledInv
<1>1. CASE WaitDone \/ WaitFails \/ SyncShort
  BY <1>1 DEF WaitDone, WaitFails, SyncShort, fileVars, CallInv, StartInv
<1>2. CASE FreadDone
  <2>1. Total = 0 /\ UNCHANGED <<prog, initiated>>
    BY <1>2 DEF FreadDone, fileVars, callVars
  <2>2. /\ out \in Seq(Nat) /\ buffer \in Seq(Nat) /\ Len(buffer) \in Nat
        /\ BUFFER_SIZE \in Nat \ {0}
    BY Types DEF CallInv
  <2>3. Delivered # <<>>
    <3>1. Len(out \o buffer) = Len(out) + Len(buffer) /\ Len(out) \in Nat
      BY <2>2, Joined
    <3>2. Len(buffer) > 0
      BY <2>1, <2>2 DEF Total
    <3>3. Len(out \o buffer) # 0
      BY <2>2, <3>1, <3>2
    <3> QED
      BY <3>3 DEF Delivered
  <2> QED
    BY <2>1, <2>3 DEF CallInv, StartInv
<1>3. CASE \/ Fopen
           \/ SubmitRead \/ Initiated \/ SyncFull \/ MainPrint \/ MainEnd
           \/ Fclose \/ Exited \/ Complete \/ UNCHANGED vars
  BY <1>3 DEF Fopen, FopenRing, FopenStream, FopenFileno, FopenRegister,
     FopenFile, FopenAlloc, Open,
     SubmitRead, NowInitiated, Initiated, SyncFull, MainPrint, MainEnd, Fclose,
     Exited, Complete, vars, fileVars, callVars
<1> QED
  BY <1>1, <1>2, <1>3 DEF Next, Program

(* A beginning that is continued is a longer beginning. *)
LEMMA Continued ==
  ASSUME NEW m \in Nat, NEW t \in Nat
  PROVE  Bytes(0, m) \o Bytes(m, t) = Bytes(0, m + t)
<1> DEFINE d == Bytes(0, m)
           g == Bytes(m, t)
           e == d \o g
           f == Bytes(0, m + t)
<1>1. /\ d \in Seq(Nat) /\ Len(d) = m /\ f \in Seq(Nat) /\ Len(f) = m + t
  <2>1. 0 \in Nat /\ m + t \in Nat
    OBVIOUS
  <2> QED
    BY <2>1, BytesType
<1>2. /\ \A k \in 1 .. m : d[k] = k
      /\ \A k \in 1 .. m + t : f[k] = k
  BY DEF Bytes
<1> HIDE DEF d, f
<1>3. /\ e \in Seq(Nat) /\ Len(e) = m + t
      /\ \A k \in 1 .. m + t : e[k] = IF k <= m THEN d[k] ELSE m + (k - m)
  <2>1. /\ d \o g \in Seq(Nat) /\ Len(d \o g) = Len(d) + t
        /\ \A k \in 1 .. Len(d) + t :
             (d \o g)[k] = IF k <= Len(d) THEN d[k] ELSE m + (k - Len(d))
    BY <1>1, Extended
  <2> QED
    BY <1>1, <2>1
<1> HIDE DEF e, g
<1>4. ASSUME NEW k \in 1 .. m + t PROVE e[k] = f[k]
  <2>1. k <= m => k \in 1 .. m
    OBVIOUS
  <2> QED
    BY <1>2, <1>3, <2>1
<1>5. e = f
  BY <1>1, <1>3, <1>4, SeqEqual
<1> QED
  BY <1>5 DEF d, e, f, g

(* Steps that deliver nothing and do not end a call. *)
LEMMA ShapeKept ==
  ASSUME ShapeInv, Delivered' = Delivered, UNCHANGED <<prog, size, spos>>,
         ~disturbed' => ~disturbed, initiated' => initiated,
         pc' # "wait" => pc # "wait",
         Finished' => Finished
  PROVE  ShapeInv'
<1> SUFFICES ASSUME prog' = "polling", ~disturbed', initiated', pc' # "wait"
             PROVE  \E n \in 0 .. Most', m \in 0 .. size' : TwoBeginnings(n, m)'
  BY DEF ShapeInv
<1>1. PICK n \in 0 .. Most, m \in 0 .. size : TwoBeginnings(n, m)
  BY DEF ShapeInv
<1>2. TwoBeginnings(n, m)'
  BY <1>1 DEF TwoBeginnings, AtEnd
<1> QED
  BY <1>1, <1>2 DEF Most

(* The ring's read is the first beginning. *)
LEMMA ShapeStarts ==
  ASSUME CallInv, WaitInv, WaitDone
  PROVE  ShapeInv'
<1> SUFFICES ASSUME prog' = "polling", ~disturbed'
             PROVE  \E n \in 0 .. Most', m \in 0 .. size' : TwoBeginnings(n, m)'
  BY DEF ShapeInv
<1> DEFINE res == Head(cq)
<1>0. PICK n \in Nat : n = Copied(res)
  <2>1. cq # <<>> /\ res >= 0 /\ cq \in Seq(Nat \cup {Error}) /\ Total \in Nat
    BY Types DEF WaitDone, CallInv
  <2>2. res \in Nat
    <3>1. res \in Nat \cup {Error}
      BY <2>1, HeadTailProperties
    <3> QED
      BY <2>1, <3>1 DEF Error
  <2> QED
    BY <2>1, <2>2 DEF Copied, Smaller
<1>1. /\ pc = "wait" /\ cq # <<>> /\ res >= 0 /\ pc' = "sync" /\ out' = out
      /\ buffer' = buffer \o Bytes(0, n) /\ UNCHANGED <<prog, size, spos>>
  BY <1>0 DEF WaitDone, fileVars
<1>2. /\ TypeOK /\ Delivered = <<>> /\ spos = 0
  BY <1>1 DEF CallInv, StartInv
<1>3. /\ cq \in Seq(Nat \cup {Error}) /\ Len(cq) \in Nat /\ size \in Nat
      /\ BUFFER_SIZE \in Nat \ {0} /\ Len(buffer) \in Nat /\ out \in Seq(Nat)
      /\ buffer \in Seq(Nat) /\ Total \in Nat /\ Most \in Nat
  BY <1>2, Types
<1>4. res = cq[1] /\ 1 \in 1 .. Len(cq)
  <2>1. Len(cq) # 0
    BY <1>1, <1>3, EmptySeq
  <2>2. cq[1] = res
    BY <1>1, <1>3, HeadTailProperties
  <2> QED
    BY <1>3, <2>1, <2>2
<1>5. res \in Nat /\ res <= Most /\ (res = 0 => size = 0)
  <2>1. res \in Nat
    <3>1. res \in Nat \cup {Error}
      BY <1>3, <1>4, ElementOfSeq
    <3> QED
      BY <1>1, <3>1 DEF Error
  <2>2. res # Error
    BY <2>1 DEF Error
  <2> QED
    BY <1>4, <2>1, <2>2 DEF CallInv, FlightInv, WaitInv
<1>6. Len(buffer) = 0
  <2>1. Len(out \o buffer) = Len(out) + Len(buffer) /\ Len(out) \in Nat
    BY <1>3, Joined
  <2>2. Len(out \o buffer) = 0
    BY <1>2 DEF Delivered
  <2> QED
    BY <1>3, <2>1, <2>2
<1>7. n \in 0 .. Most /\ (n = 0 => size = 0) /\ n <= Total
  BY <1>0, <1>3, <1>5, <1>6 DEF Copied, Smaller, Total
<1>8. Delivered' = Bytes(0, n) \o Bytes(0, 0)
  <2>1. Delivered' = Delivered \o Bytes(0, n)
    <3>1. 0 \in Nat /\ n \in Nat /\ n <= Total
      BY <1>7
    <3> QED
      BY <1>1, <1>2, <3>1, BufferGrows
  <2>2. Bytes(0, n) \in Seq(Nat) /\ Bytes(0, 0) = <<>>
    <3>1. Bytes(0, n) \in Seq(Nat)
      BY <1>7, BytesType
    <3> QED
      BY <3>1 DEF Bytes
  <2> DEFINE b == Bytes(0, n)
  <2> HIDE DEF b
  <2>3. <<>> \o b = b /\ b \o <<>> = b
    BY <2>2, ConcatEmptySeq DEF b
  <2> QED
    BY <1>2, <2>1, <2>2, <2>3 DEF b
<1>9. TwoBeginnings(n, 0)'
  BY <1>1, <1>2, <1>7, <1>8 DEF TwoBeginnings, Finished
<1>10. Most' = Most /\ 0 \in 0 .. size'
  BY <1>1, <1>3 DEF Most
<1> QED
  BY <1>7, <1>9, <1>10

(* fread continues the second one. *)
LEMMA ShapeGrows ==
  ASSUME CallInv, ShapeInv, SyncFull
  PROVE  ShapeInv'
<1> SUFFICES ASSUME prog' = "polling", ~disturbed', initiated'
             PROVE  \E n \in 0 .. Most', m \in 0 .. size' : TwoBeginnings(n, m)'
  BY DEF ShapeInv
<1>0. PICK t \in Nat : t = Total
  BY Types DEF CallInv
<1>1. /\ pc = "sync" /\ t > 0 /\ spos + t <= size /\ spos' = spos + t
      /\ buffer' = buffer \o Bytes(spos, t)
      /\ UNCHANGED <<pc, prog, size, initiated, out, disturbed>>
  BY <1>0 DEF SyncFull, PieceKept, fileVars
<1>2. PICK n \in 0 .. Most, m \in 0 .. size : TwoBeginnings(n, m)
  BY <1>1 DEF ShapeInv
<1>3. /\ TypeOK /\ t \in Nat /\ t <= Total /\ spos \in Nat /\ size \in Nat
      /\ Most \in Nat
  BY <1>0, Types DEF CallInv
<1>4. spos = m /\ m \in Nat /\ n \in Nat
  BY <1>1, <1>2, <1>3 DEF TwoBeginnings, AtEnd
<1>5. Delivered' = Bytes(0, n) \o Bytes(0, m + t)
  <2> DEFINE b == Bytes(0, n)
             c == Bytes(0, m)
             d == Bytes(m, t)
  <2>1. b \in Seq(Nat) /\ c \in Seq(Nat) /\ d \in Seq(Nat)
    BY <1>3, <1>4, BytesType
  <2>2. Delivered' = (b \o c) \o d
    <3>1. Delivered' = Delivered \o Bytes(spos, t)
      BY <1>1, <1>3, BufferGrows
    <3> QED
      BY <1>2, <1>4, <3>1 DEF TwoBeginnings
  <2>3. c \o d = Bytes(0, m + t)
    BY <1>3, <1>4, Continued
  <2> HIDE DEF b, c, d
  <2>4. (b \o c) \o d = b \o (c \o d)
    BY <2>1, Regrouped
  <2> QED
    BY <2>2, <2>3, <2>4 DEF b
<1>6. ~Finished'
  BY <1>1 DEF Finished
<1>7. TwoBeginnings(n, m + t)'
  BY <1>1, <1>2, <1>4, <1>5, <1>6 DEF TwoBeginnings
<1>8. m + t \in 0 .. size' /\ Most' = Most
  BY <1>1, <1>3, <1>4 DEF Most
<1> QED
  BY <1>2, <1>7, <1>8

(* At the end of the file a last piece shorter than the call is left out.   *)
LEMMA ShapeEnds ==
  ASSUME CallInv, ShapeInv, SyncShort
  PROVE  ShapeInv'
<1> SUFFICES ASSUME prog' = "polling", ~disturbed', initiated'
             PROVE  \E n \in 0 .. Most', m \in 0 .. size' : TwoBeginnings(n, m)'
  BY DEF ShapeInv
<1>1. PICK l \in 0 .. Total - 1 :
        spos + l <= size /\ spos' = spos + l /\ spos + l = size /\ ~disturbed
  BY DEF SyncShort
<1>2. /\ pc = "sync" /\ UNCHANGED <<prog, size, initiated, buffer, out>>
  BY DEF SyncShort, fileVars
<1>3. PICK n \in 0 .. Most, m \in 0 .. size : TwoBeginnings(n, m)
  BY <1>1, <1>2 DEF ShapeInv
<1>4. /\ Len(buffer) \in Nat /\ BUFFER_SIZE \in Nat /\ spos \in Nat
      /\ size \in Nat /\ Total \in Nat
  BY Types DEF CallInv
<1>5. l < BUFFER_SIZE /\ l \in Nat /\ m \in Nat
  BY <1>1, <1>4 DEF Total
<1>6. AtEnd(m)'
  <2>1. size - m < BUFFER_SIZE
    BY <1>1, <1>3, <1>4, <1>5 DEF TwoBeginnings, AtEnd
  <2> QED
    BY <1>1, <1>2, <2>1 DEF AtEnd
<1>7. TwoBeginnings(n, m)'
  BY <1>2, <1>3, <1>6 DEF TwoBeginnings, Delivered
<1>8. size' = size /\ Most' = Most
  BY <1>2 DEF Most
<1> QED
  BY <1>3, <1>7, <1>8

LEMMA ShapeStep ==
  ASSUME CallInv, WaitInv, ShapeInv, [Next]_vars
  PROVE  ShapeInv'
<1>1. CASE WaitDone
  BY <1>1, ShapeStarts
<1>2. CASE SyncFull
  BY <1>2, ShapeGrows
<1>3. CASE SyncShort
  BY <1>3, ShapeEnds
<1>4. CASE SubmitRead
  BY <1>4 DEF SubmitRead, ShapeInv
<1>5. CASE WaitFails
  BY <1>5 DEF WaitFails, ShapeInv
<1>6. CASE Complete
  <2>1. UNCHANGED <<pc, prog, size, spos, disturbed, initiated, out, buffer, times>>
    BY <1>6 DEF Complete, fileVars, callVars
  <2>2. Delivered' = Delivered /\ (Finished' => Finished)
    BY <2>1 DEF Delivered, Finished
  <2> QED
    BY <2>1, <2>2, ShapeKept
<1>7. CASE Fopen \/ Fclose
  <2>1. UNCHANGED <<prog, size, spos, disturbed, initiated, out, buffer, times>>
        /\ pc # "wait"
    BY <1>7 DEF Fopen, FopenRing, FopenStream, FopenFileno, FopenRegister,
       FopenFile, FopenAlloc, Fclose, Open, callVars
  <2>2. pc' \in {"return", "close", "done"} => pc = "close" /\ pc' = "done"
    BY <1>7 DEF Fopen, FopenRing, FopenStream, FopenFileno, FopenRegister,
       FopenFile, FopenAlloc, Fclose, Open
  <2>3. Delivered' = Delivered /\ (Finished' => Finished)
    BY <2>1, <2>2 DEF Delivered, Finished
  <2> QED
    BY <2>1, <2>3, ShapeKept
<1>8. CASE FreadDone
  <2>1. UNCHANGED <<prog, size, spos, disturbed, initiated, out, buffer>>
        /\ pc # "wait" /\ pc' = "return" /\ Total = 0
    BY <1>8 DEF FreadDone, fileVars, callVars
  <2>2. buffer # <<>>
    <3>1. Len(<<>>) = 0 /\ BUFFER_SIZE \in Nat \ {0}
      BY StreamReadersAssumption
    <3> QED
      BY <2>1, <3>1 DEF Total
  <2>3. Delivered' = Delivered /\ ~Finished'
    BY <2>1, <2>2 DEF Delivered, Finished
  <2> QED
    BY <2>1, <2>3, ShapeKept
<1>9. CASE MainPrint
  <2>1. /\ UNCHANGED <<prog, size, spos, disturbed, initiated>>
        /\ pc = "return" /\ out' = out \o buffer /\ buffer' = <<>>
        /\ \/ pc' = "close" /\ times' = TIMES
           \/ pc' = "fread"
    BY <1>9 DEF MainPrint, fileVars
  <2>2. Delivered' = Delivered
    <3>1. Delivered \in Seq(Nat)
      BY Types DEF CallInv
    <3>2. Delivered' = Delivered \o <<>>
      BY <2>1 DEF Delivered
    <3> QED
      BY <3>1, <3>2, ConcatEmptySeq
  <2>3. ~Finished'
    BY <2>1, StreamReadersAssumption DEF Finished
  <2> QED
    BY <2>1, <2>2, <2>3, ShapeKept
<1>10. CASE Initiated \/ MainEnd \/ Exited \/ UNCHANGED vars
  <2>1. /\ UNCHANGED <<prog, size, spos, disturbed, initiated, out, buffer, times>>
        /\ \/ pc = "fread" /\ pc' = "sync"
           \/ pc = "return" /\ buffer = <<>> /\ pc' = "close"
           \/ pc' = pc
    BY <1>10 DEF Initiated, MainEnd, Exited, vars, fileVars, callVars
  <2>2. Delivered' = Delivered /\ (Finished' => Finished)
    BY <2>1 DEF Delivered, Finished
  <2> QED
    BY <2>1, <2>2, ShapeKept
<1> QED
  BY <1>1, <1>2, <1>3, <1>4, <1>5, <1>6, <1>7, <1>8, <1>9, <1>10
     DEF Next, Program

-----------------------------------------------------------------------------
LEMMA InitIInv == Init => IInv
<1>1. ASSUME Init PROVE WaitInv /\ CalledInv /\ ShapeInv
  <2>1. Len(cq) = 0 /\ pc # "wait" /\ initiated = FALSE
    BY <1>1, EmptySeq DEF Init
  <2> QED
    BY <1>1, <2>1 DEF Init, WaitInv, CalledInv, ShapeInv
<1> QED
  BY <1>1, InitCallInv DEF IInv

LEMMA StepIInv == IInv /\ [Next]_vars => IInv'
  BY StepCallInv, WaitStep, CalledStep, ShapeStep DEF IInv

(* The state of either program is always one IInv describes: what is held,  *)
(* what is in flight, how the delivered bytes and the stream's position     *)
(* belong together, and which two beginnings of the file they are.          *)
THEOREM Invariance == Spec => []IInv
  BY InitIInv, StepIInv, PTL DEF Spec

(* Types and ranges; no call puts more than BUFFER_SIZE bytes into the      *)
(* caller's buffer (io_uring_poll.cpp:103-161, io_uring_polling.c:105-150). *)
THEOREM TypeCorrect == Spec => []TypeOK
<1>1. IInv => TypeOK
  BY DEF IInv, CallInv
<1> QED
  BY <1>1, Invariance, PTL

(* Callers get beginnings of the file: from io_uring_poll.cpp never more    *)
(* than its first BUFFER_SIZE bytes, from io_uring_polling.c two at most    *)
(* (io_uring_poll.cpp:103-161, io_uring_polling.c:105-150).                 *)
THEOREM BeginningsDelivered == Spec => []BeginningsOnly
<1>1. ASSUME IInv
      PROVE  BeginningsOnly
  <2>1. Starts = StartsOf(Delivered)
    BY DEF Starts, StartsOf
  <2>2. prog = "poll" \/ ~disturbed =>
          \A k \in 1 .. Len(Delivered) :
            \/ k \in Starts
            \/ k > 1 /\ Delivered[k] = Delivered[k - 1] + 1
    BY <1>1 DEF IInv, CallInv, ChainInv, Chain, Starts
  <2>3. prog = "poll" =>
          \A k \in 1 .. Len(Delivered) : Delivered[k] <= Smaller(size, BUFFER_SIZE)
    BY <1>1 DEF IInv, CallInv, PollInv, Most
  <2>4. ASSUME prog = "polling", NEW j \in Starts, NEW k \in Starts,
               NEW l \in Starts, j < k
        PROVE  l \in {j, k}
    <3>1. PICK m \in Nat : Starts \subseteq {1, m}
      BY <1>1, <2>1, <2>4 DEF IInv, CallInv, StartInv
    <3>2. j \in Int /\ k \in Int /\ j # k
      BY <2>4, <3>1
    <3> QED
      BY <3>1, <3>2
  <2> QED
    BY <2>2, <2>3, <2>4 DEF BeginningsOnly
<1> QED
  BY <1>1, Invariance, PTL

(* All is released, however my_fopen fails; and no read is in flight        *)
(* outside a wait but after an interrupted one                              *)
(* (io_uring_poll.cpp:57-92, 129-133, 167-176).                             *)
THEOREM EverythingReleased == Spec => []NothingHeldAtEnd
<1>1. ASSUME IInv
      PROVE  NothingHeldAtEnd
  <2>1. pc \in Ended => held = {}
    BY <1>1 DEF IInv, CallInv, HeldInv
  <2>2. inFlight > 0 /\ ~disturbed => pc = "wait"
    BY <1>1 DEF IInv, CallInv, FlightInv
  <2>3. pc = "wait" => "buffer" \in held
    BY <1>1 DEF IInv, CallInv, HeldInv
  <2> QED
    BY <2>1, <2>2, <2>3 DEF NothingHeldAtEnd
<1> QED
  BY <1>1, Invariance, PTL

(* io_uring_polling.c, left alone, prints two beginnings of the file: the    *)
(* second one lacks at most a last piece that does not fill a call           *)
(* (io_uring_polling.c:136-150).                                            *)
THEOREM LastPieceOnly == Spec => []OnlyLastPieceLost
<1>1. ASSUME IInv PROVE OnlyLastPieceLost
  <2> SUFFICES ASSUME prog = "polling", pc \in {"close", "done"}, ~disturbed,
                      times < TIMES
               PROVE  \/ size = 0 /\ Delivered = <<>>
                      \/ \E n \in 1 .. BUFFER_SIZE, m \in 0 .. size :
                           /\ Delivered = Bytes(0, n) \o Bytes(0, m)
                           /\ size - m < BUFFER_SIZE
    BY DEF OnlyLastPieceLost
  <2>1. CASE initiated
    <3>1. PICK n \in 0 .. Most, m \in 0 .. size : TwoBeginnings(n, m)
      BY <1>1, <2>1 DEF IInv, ShapeInv
    <3>2. /\ Delivered = Bytes(0, n) \o Bytes(0, m) /\ size - m < BUFFER_SIZE
          /\ n = 0 => size = 0
      BY <3>1 DEF TwoBeginnings, Finished, AtEnd
    <3>3. size \in Nat /\ BUFFER_SIZE \in Nat /\ Most \in Nat
      BY <1>1, Types DEF IInv, CallInv
    <3>4. CASE n = 0
      <4>1. size = 0 /\ m = 0
        BY <3>1, <3>2, <3>3, <3>4
      <4>2. Bytes(0, 0) = <<>>
        BY DEF Bytes
      <4> QED
        BY <3>2, <3>4, <4>1, <4>2
    <3>5. CASE n # 0
      <4>1. n \in 1 .. BUFFER_SIZE
        BY <3>1, <3>3, <3>5 DEF Most, Smaller
      <4> QED
        BY <3>1, <3>2, <4>1
    <3> QED
      BY <3>4, <3>5
  <2>2. CASE ~initiated
    BY <1>1, <2>2 DEF IInv, CalledInv
  <2> QED
    BY <2>1, <2>2
<1> QED
  BY <1>1, Invariance, PTL

(* Nobody waits in vain: io_uring_wait_cqe is only called with a read the    *)
(* kernel has yet to complete or a completion in the queue, even behind an   *)
(* interrupted wait (io_uring_poll.cpp:118-133, io_uring_polling.c:118-124). *)
NoWaitForNothing == pc = "wait" => inFlight > 0 \/ cq # <<>>

(* The safety half of EndsUnlessEmpty: the rest is fairness. *)
THEOREM NeverWaitsForNothing == Spec => []NoWaitForNothing
<1>1. ASSUME IInv PROVE NoWaitForNothing
  <2>1. pc = "wait" => inFlight + Len(cq) > 0
    BY <1>1 DEF IInv, WaitInv
  <2>2. inFlight \in Nat /\ Len(cq) \in Nat /\ (cq = <<>> => Len(cq) = 0)
    BY <1>1, Types DEF IInv, CallInv
  <2> QED
    BY <2>1, <2>2 DEF NoWaitForNothing
<1> QED
  BY <1>1, Invariance, PTL
=============================================================================
