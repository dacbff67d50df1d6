---------------------------- MODULE StreamReaders ----------------------------
(***************************************************************************)
(* example/io_uring_poll.cpp and example/io_uring_polling.c: the same       *)
(* my_fopen, my_fclose and main around two my_freads.  The first one makes  *)
(* every read through the ring, at offset 0 each; the second one makes its  *)
(* first read through the ring and the others with fread, on a stream that  *)
(* the first one has not moved.                                            *)
(*                                                                         *)
(* A byte of the file is named by its position 1, 2, ...  main stores a     *)
(* terminator behind what a call returned, past the buffer when it is full; *)
(* what that overwrites is not modelled.                                   *)
(***************************************************************************)
EXTENDS Integers, Sequences

CONSTANTS
  Sizes,         (* the sizes the file may have            *)
  BUFFER_SIZE,
  TIMES,         (* calls main makes at most: 10           *)
  Faults         (* the calls that may fail in this run    *)

ASSUME StreamReadersAssumption ==
  /\ Sizes \subseteq Nat
  /\ BUFFER_SIZE \in Nat \ {0} /\ TIMES \in Nat \ {0}

May(f) == f \in Faults

VARIABLES
  prog,       (* which of the two programs                            *)
  pc,
  held,       (* what my_fopen has made and nothing has released      *)
  size,       (* the file's size                                      *)
  inFlight,   (* reads the kernel has not completed                   *)
  cq,         (* res of the completions                               *)
  initiated,  (* mf->async_initiated                                  *)
  spos,       (* position of mf->stream                               *)
  buffer,     (* what this call has put into the caller's buffer      *)
  times,
  out,        (* what was printed                                     *)
  disturbed   (* history: a wait was interrupted or a read failed     *)

fileVars == <<prog, held, size>>
ringVars == <<inFlight, cq>>
callVars == <<initiated, spos, buffer, disturbed>>
vars == <<pc, fileVars, ringVars, callVars, times, out>>

Error == -1   (* any negative res *)
Ended == {"done", "failed"}
Smaller(a, b) == IF a < b THEN a ELSE b

(* total_bytes: what the call still has to bring. *)
Total == BUFFER_SIZE - Len(buffer)

(* n bytes of the file from position p on. *)
Bytes(p, n) == [k \in 1 .. n |-> p + k]

-----------------------------------------------------------------------------
(* my_fopen *)

Init ==
  /\ prog \in {"poll", "polling"} /\ size \in Sizes
  /\ pc = "init" /\ held = {} /\ inFlight = 0 /\ cq = <<>>
  /\ initiated = FALSE /\ spos = 0 /\ buffer = <<>> /\ times = 0 /\ out = <<>>
  /\ disturbed = FALSE

(* What giving back undo releases: the ring keeps the registration.         *)
Released(undo) ==
  undo \cup (IF "ring" \in undo THEN {"registration"} ELSE {})

(* A step of my_fopen: a call makes something, or it fails and what is in    *)
(* undo is given back.                                                     *)
Open(from, to, call, made, undo) ==
  /\ pc = from
  /\ \/ pc' = to /\ held' = held \cup made
     \/ May(call) /\ pc' = "failed" /\ held' = held \ Released(undo)
  /\ UNCHANGED <<prog, size, ringVars, callVars, times, out>>

(* Each failure has a list of its own. *)
UndoFopen == {"ring"}
UndoFileno == {"stream", "ring"}

(* Mutant: the ring is forgotten. *)
UndoRegisterStream == {"stream"}

UndoRegister == {"stream", "ring"}
UndoFile == {"stream", "ring"}
UndoAlloc == {"stream", "ring", "file"}

FopenRing == Open("init", "fopen", "ring", {"ring"}, {})
FopenStream == Open("fopen", "fileno", "stream", {"stream"}, UndoFopen)
FopenFileno == Open("fileno", "register", "fileno", {}, UndoFileno)

(* The descriptor is registered with the ring, which keeps it until its end. *)
FopenRegister ==
  Open("register", "file", "registration", {"registration"}, UndoRegister)

(* mf itself.  In io_uring_poll.cpp new does not come back without it.       *)
FopenFile ==
  /\ Open("file", "alloc", "file", {"file"}, UndoFile)
  /\ prog = "poll" => pc' # "failed"

FopenAlloc == Open("alloc", "fread", "buffer", {"buffer"}, UndoAlloc)

Fopen ==
  \/ FopenRing \/ FopenStream \/ FopenFileno \/ FopenRegister \/ FopenFile
  \/ FopenAlloc

-----------------------------------------------------------------------------
(* my_fread *)

(* Mutant: mf->async_initiated is never set. *)
NotInitiated == FALSE

NowInitiated == TRUE

(* A READV of BUFFER_SIZE bytes at offset 0.  There is always an entry for   *)
(* it: the ring has 64 and each is waited for.                             *)
SubmitRead ==
  /\ pc = "fread"
  /\ IF prog = "poll" THEN Total > 0 ELSE ~initiated
  /\ inFlight' = inFlight + 1
  /\ initiated' = NowInitiated
  /\ pc' = "wait"
  /\ UNCHANGED <<fileVars, cq, spos, buffer, times, out, disturbed>>

(* Mutant: the caller's buffer is taken to be empty. *)
WholeRes(res) == res

Copied(res) == Smaller(res, Total)

WaitDone ==
  /\ pc = "wait" /\ cq # <<>>
  /\ LET res == Head(cq)
     IN  \/ /\ res >= 0
            /\ buffer' = buffer \o Bytes(0, Copied(res))
            /\ pc' = IF prog = "poll" THEN "fread" ELSE "sync"
            /\ UNCHANGED disturbed
         \/ /\ res < 0
            /\ pc' = "return" /\ disturbed' = TRUE
            /\ UNCHANGED buffer
  /\ cq' = Tail(cq)
  /\ UNCHANGED <<fileVars, inFlight, initiated, spos, times, out>>

(* io_uring_wait_cqe is interrupted: its read stays behind. *)
WaitFails ==
  /\ pc = "wait" /\ May("wait")
  /\ pc' = "return" /\ disturbed' = TRUE
  /\ UNCHANGED <<fileVars, ringVars, initiated, spos, buffer, times, out>>

(* io_uring_polling.c goes on with its stream. *)
Initiated ==
  /\ pc = "fread" /\ prog = "polling" /\ initiated
  /\ pc' = "sync"
  /\ UNCHANGED <<fileVars, ringVars, callVars, times, out>>

(* Mutant: what fread brought is not counted. *)
PieceDropped(n) == buffer

PieceKept(n) == buffer \o Bytes(spos, n)

(* A piece that fills the buffer is kept... *)
SyncFull ==
  /\ pc = "sync" /\ Total > 0 /\ spos + Total <= size
  /\ buffer' = PieceKept(Total)
  /\ spos' = spos + Total
  /\ UNCHANGED <<pc, fileVars, ringVars, initiated, times, out, disturbed>>

(* Mutant: the end of the file is not looked for. *)
ReadAgain == "sync"

LeaveLoop == "return"

(* ...a shorter one, at the end of the file or after an error, is read and  *)
(* not counted.                                                            *)
SyncShort ==
  /\ pc = "sync" /\ Total > 0
  /\ \E n \in 0 .. Total - 1 :
       /\ spos + n <= size
       /\ \/ spos + n = size /\ UNCHANGED disturbed
          \/ May("fread") /\ disturbed' = TRUE
       /\ spos' = spos + n
  /\ pc' = LeaveLoop
  /\ UNCHANGED <<fileVars, ringVars, initiated, buffer, times, out>>

FreadDone ==
  /\ pc \in {"fread", "sync"} /\ Total = 0
  /\ pc' = "return"
  /\ UNCHANGED <<fileVars, ringVars, callVars, times, out>>

-----------------------------------------------------------------------------
(* main prints a call's bytes and makes the next call, until one brings     *)
(* nothing or it has made TIMES of them.                                   *)
MainPrint ==
  /\ pc = "return" /\ buffer # <<>>
  /\ out' = out \o buffer
  /\ times' = times + 1
  /\ buffer' = <<>>
  /\ pc' = IF times + 1 = TIMES THEN "close" ELSE "fread"
  /\ UNCHANGED <<fileVars, ringVars, initiated, spos, disturbed>>

MainEnd ==
  /\ pc = "return" /\ buffer = <<>>
  /\ pc' = "close"
  /\ UNCHANGED <<fileVars, ringVars, callVars, times, out>>

(* my_fclose releases everything, a read in flight or not. *)
Fclose ==
  /\ pc = "close"
  /\ held' = {} /\ pc' = "done"
  /\ UNCHANGED <<prog, size, ringVars, callVars, times, out>>

Exited == pc \in Ended /\ UNCHANGED vars

(* The kernel completes a read. *)
Complete ==
  /\ inFlight > 0 /\ pc \notin Ended
  /\ \E n \in {Error} \cup 0 .. Smaller(size, BUFFER_SIZE) :
       /\ \/ n = Smaller(size, BUFFER_SIZE)
          \/ n = Error /\ May("readv")
          \/ n > 0 /\ May("short")
       /\ cq' = Append(cq, n)
  /\ inFlight' = inFlight - 1
  /\ UNCHANGED <<pc, fileVars, callVars, times, out>>

Program ==
  \/ Fopen
  \/ SubmitRead \/ WaitDone \/ Initiated \/ SyncFull \/ SyncShort \/ FreadDone
  \/ MainPrint \/ MainEnd \/ Fclose \/ Exited

Next == Program \/ WaitFails \/ Complete

Spec == Init /\ [][Next]_vars

(* The program runs, a wait need not be interrupted, reads are completed.   *)
FairSpec == Spec /\ WF_vars(Program) /\ WF_vars(Complete)

-----------------------------------------------------------------------------
TypeOK ==
  /\ prog \in {"poll", "polling"}
  /\ pc \in {"init", "fopen", "fileno", "register", "file", "alloc", "fread",
             "wait", "sync", "return", "close"} \cup Ended
  /\ held \subseteq {"ring", "stream", "registration", "file", "buffer"}
  /\ size \in Nat /\ inFlight \in Nat /\ cq \in Seq(Nat \cup {Error})
  /\ initiated \in BOOLEAN /\ disturbed \in BOOLEAN
  /\ spos \in 0 .. size /\ times \in 0 .. TIMES
  /\ buffer \in Seq(Nat) /\ Len(buffer) <= BUFFER_SIZE
  /\ out \in Seq(Nat)

(* Where delivery starts again from the beginning of the file.              *)
Delivered == out \o buffer
Starts == {k \in 1 .. Len(Delivered) : Delivered[k] = 1}

(* What the caller gets are beginnings of the file, one after the other:    *)
(* no byte follows one that is not its predecessor, or is the first.  With  *)
(* io_uring_poll.cpp none of them goes past the first BUFFER_SIZE bytes;    *)
(* with io_uring_polling.c there are two at most, and the second has a gap  *)
(* only where fread failed and what it had read was not counted            *)
(* (io_uring_poll.cpp:103-161, io_uring_polling.c:105-150).                *)
BeginningsOnly ==
  /\ prog = "poll" \/ ~disturbed =>
       \A k \in 1 .. Len(Delivered) :
         \/ k \in Starts
         \/ k > 1 /\ Delivered[k] = Delivered[k - 1] + 1
  /\ prog = "poll" =>
       \A k \in 1 .. Len(Delivered) :
         Delivered[k] <= Smaller(size, BUFFER_SIZE)
  /\ prog = "polling" =>
       \A j, k, l \in Starts : j < k => l \in {j, k}

(* io_uring_polling.c, left alone, loses nothing of its second beginning    *)
(* but a last piece that does not fill a call (io_uring_polling.c:136-150). *)
OnlyLastPieceLost ==
  prog = "polling" /\ pc \in {"close", "done"} /\ ~disturbed /\ times < TIMES =>
    \/ size = 0 /\ Delivered = <<>>
    \/ \E n \in 1 .. BUFFER_SIZE, m \in 0 .. size :
         /\ Delivered = Bytes(0, n) \o Bytes(0, m)
         /\ size - m < BUFFER_SIZE

(* However my_fopen fails, and at the end, nothing is held; and my_fclose   *)
(* frees the buffer under a read only after a wait that was interrupted     *)
(* (io_uring_poll.cpp:57-92, 129-133, 167-176).                            *)
NothingHeldAtEnd ==
  /\ pc \in Ended => held = {}
  /\ inFlight > 0 /\ ~disturbed => pc = "wait" /\ "buffer" \in held

(* Both programs end, io_uring_poll.cpp not on an empty file: it asks for   *)
(* the missing bytes again and again (io_uring_poll.cpp:103-161).          *)
EndsUnlessEmpty == <>(pc \in Ended \/ (prog = "poll" /\ size = 0))
=============================================================================
