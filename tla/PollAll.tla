------------------------------- MODULE PollAll -------------------------------
(***************************************************************************)
(* example/polling.c: opens all its files, submits a first read of each in  *)
(* one go, and polls: a read that brought bytes is written out and the next *)
(* one of that file prepared, a read that brought none counts the file as   *)
(* done.                                                                   *)
(*                                                                         *)
(* What is prepared in my_fread is submitted by nobody.  liburing and the   *)
(* kernel thread behind it are taken to do what they are documented to.     *)
(***************************************************************************)
EXTENDS Integers, Sequences, FiniteSets

CONSTANTS
  NFiles,        (* argc - 1                                    *)
  Sizes,         (* the sizes the files may have                *)
  BUFFER_SIZE,
  QUEUE_DEPTH,   (* entries of the ring, and of files[]         *)
  Faults         (* the calls that may fail in this run         *)

(* With more files than QUEUE_DEPTH, files[] is overrun: not modelled. *)
ASSUME PollAllAssumption ==
  /\ QUEUE_DEPTH \in Nat /\ NFiles \in 1 .. QUEUE_DEPTH
  /\ Sizes \subseteq Nat /\ BUFFER_SIZE \in Nat \ {0}

May(f) == f \in Faults

Files == 1 .. NFiles

VARIABLES
  pc,
  i,         (* i of my_fopen's loop                                  *)
  fds,       (* files with an open descriptor                         *)
  size,      (* their sizes                                           *)
  offset,    (* files[].offset                                        *)
  prepared,  (* entries prepared and not submitted                    *)
  sq,        (* entries submitted and not taken by the kernel's thread *)
  running,   (* reads the kernel has                                  *)
  buf,       (* how many bytes are in files[].buf, from which offset  *)
  cq,        (* completions                                           *)
  numFiles,  (* *num_files                                            *)
  out        (* bytes of each file written to stdout                  *)

fileVars == <<fds, size>>
kernelVars == <<sq, running, buf>>
vars == <<pc, i, fileVars, offset, prepared, kernelVars, cq, numFiles, out>>

Error == -1   (* any negative res *)
Ended == {"done", "failed"}
Smaller(a, b) == IF a < b THEN a ELSE b

-----------------------------------------------------------------------------
Init ==
  /\ pc = "init" /\ i = 1 /\ fds = {} /\ size \in [Files -> Sizes]
  /\ offset = [f \in Files |-> 0] /\ out = [f \in Files |-> <<>>]
  /\ buf = [f \in Files |-> <<>>]
  /\ prepared = <<>> /\ sq = <<>> /\ running = {} /\ cq = <<>>
  /\ numFiles = 0

(* setup_read: io_uring_get_sqe gives no entry when all are used, and then  *)
(* nothing is done.                                                        *)
SqeLeft == Len(prepared) + Len(sq) < QUEUE_DEPTH

SetupRead(f, off) ==
  prepared' = IF SqeLeft THEN Append(prepared, [file |-> f, off |-> off])
                         ELSE prepared

InitQueue ==
  /\ pc = "init"
  /\ \/ pc' = "open" /\ numFiles' = NFiles
     \/ May("init") /\ pc' = "failed" /\ UNCHANGED numFiles
  /\ UNCHANGED <<i, fileVars, offset, prepared, kernelVars, cq, out>>

(* A file that cannot be opened is left out, and still counted. *)
OpenFile ==
  /\ pc = "open" /\ i <= NFiles
  /\ \/ fds' = fds \cup {i} /\ SetupRead(i, 0)
     \/ May("open") /\ UNCHANGED <<fds, prepared>>
  /\ i' = i + 1
  /\ UNCHANGED <<pc, size, offset, kernelVars, cq, numFiles, out>>

Submit ==
  /\ pc = "open" /\ i > NFiles
  /\ sq' = sq \o prepared /\ prepared' = <<>>
  /\ pc' = "read"
  /\ UNCHANGED <<i, fileVars, offset, running, buf, cq, numFiles, out>>

Cqe == Head(cq)

(* Mutants: the offset stays; the completion too; an empty read is not       *)
(* counted, or twice; a file that brought bytes is.                        *)
OffsetStays(off, res) == off
CqeStays == cq
NoneDone == numFiles
DoneTwice == numFiles - 2
DoneAnyway == numFiles - 1

OffsetAfter(off, res) == off + res
AfterCqe == Tail(cq)
OneDone == numFiles - 1
StillReading == numFiles

(* One completion: nothing read, or an error, ends the file... *)
FileDone ==
  /\ pc = "read" /\ numFiles > 0 /\ cq # <<>> /\ Cqe.res <= 0
  /\ numFiles' = OneDone
  /\ cq' = AfterCqe
  /\ UNCHANGED <<pc, i, fileVars, offset, prepared, kernelVars, out>>

(* ...bytes are written out, and the next read is prepared. *)
FileRead ==
  /\ pc = "read" /\ numFiles > 0 /\ cq # <<>> /\ Cqe.res > 0
  /\ LET f == Cqe.file
     IN  /\ out' = [out EXCEPT ![f] = @ \o buf[f]]
         /\ offset' = [offset EXCEPT ![f] = OffsetAfter(@, Cqe.res)]
         /\ SetupRead(f, OffsetAfter(offset[f], Cqe.res))
  /\ cq' = AfterCqe
  /\ numFiles' = StillReading
  /\ UNCHANGED <<pc, i, fileVars, kernelVars>>

(* io_uring_peek_cqe finds nothing: usleep. *)
Poll == pc = "read" /\ numFiles > 0 /\ cq = <<>> /\ UNCHANGED vars

FreadReturns ==
  /\ pc = "read" /\ numFiles = 0
  /\ pc' = "close"
  /\ UNCHANGED <<i, fileVars, offset, prepared, kernelVars, cq, numFiles, out>>

(* my_close goes through the files that numFiles still counts. *)
Close ==
  /\ pc = "close"
  /\ fds' = fds \ (1 .. numFiles)
  /\ pc' = "done"
  /\ UNCHANGED <<i, size, offset, prepared, kernelVars, cq, numFiles, out>>

Exited == pc \in Ended /\ UNCHANGED vars

-----------------------------------------------------------------------------
(* The kernel *)

Take ==
  /\ sq # <<>>
  /\ sq' = Tail(sq)
  /\ running' = running \cup {Head(sq)}
  /\ UNCHANGED <<pc, i, fileVars, offset, prepared, buf, cq, numFiles, out>>

(* READ: what there is from the offset on, up to BUFFER_SIZE; some of it;   *)
(* or an error.                                                            *)
Left(r) == IF r.off < size[r.file]
           THEN Smaller(size[r.file] - r.off, BUFFER_SIZE) ELSE 0

Post(r, n) ==
  /\ cq' = Append(cq, [file |-> r.file, res |-> n])
  /\ running' = running \ {r}
  /\ UNCHANGED <<pc, i, fileVars, offset, prepared, sq, numFiles, out>>

Complete(r) ==
  \/ \E n \in 0 .. Left(r) :
       /\ n = Left(r) \/ (n > 0 /\ May("short"))
       /\ buf' = [buf EXCEPT ![r.file] = [k \in 1 .. n |-> r.off + k]]
       /\ Post(r, n)
  \/ May("read") /\ UNCHANGED buf /\ Post(r, Error)

Kernel == Take \/ \E r \in running : Complete(r)

Program ==
  \/ InitQueue \/ OpenFile \/ Submit \/ FileDone \/ FileRead \/ Poll
  \/ FreadReturns \/ Close \/ Exited

Next == Program \/ Kernel

Spec == Init /\ [][Next]_vars

(* The program runs and the kernel takes and completes what is submitted.   *)
FairSpec == Spec /\ WF_vars(Program) /\ WF_vars(Kernel)

-----------------------------------------------------------------------------
Requests == [file : Files, off : Nat]

TypeOK ==
  /\ pc \in {"init", "open", "read", "close"} \cup Ended
  /\ i \in 1 .. NFiles + 1 /\ fds \subseteq Files /\ size \in [Files -> Nat]
  /\ offset \in [Files -> Nat] /\ numFiles \in 0 .. NFiles
  /\ prepared \in Seq(Requests) /\ sq \in Seq(Requests)
  /\ running \subseteq Requests
  /\ cq \in Seq([file : Files, res : Nat \cup {Error}])
  /\ buf \in [Files -> Seq(Nat)] /\ out \in [Files -> Seq(Nat)]

(* What is written of a file is its beginning, and offset is where it ends; *)
(* a read that was prepared goes on from there (polling.c:85-88).           *)
WrittenFromStart ==
  /\ \A f \in Files : out[f] = [k \in 1 .. offset[f] |-> k]
  /\ \A k \in 1 .. Len(prepared) : prepared[k].off = offset[prepared[k].file]

(* my_fread never runs out of submission entries, so that none of its reads *)
(* is dropped by setup_read: each file has at most one, prepared, submitted, *)
(* in the kernel or among the completions (polling.c:21-23, 59-70, 88).     *)
EntriesOf(f) ==
  {<<"prepared", k>> : k \in {j \in 1 .. Len(prepared) : prepared[j].file = f}}
    \cup {<<"sq", k>> : k \in {j \in 1 .. Len(sq) : sq[j].file = f}}
    \cup {<<"running", r>> : r \in {q \in running : q.file = f}}
    \cup {<<"cq", k>> : k \in {j \in 1 .. Len(cq) : cq[j].file = f}}

OneReadPerFile ==
  /\ \A f \in Files : \A p, q \in EntriesOf(f) : p = q
  /\ pc = "read" => \A f \in fds :
       out[f] # <<>> => \E k \in 1 .. Len(prepared) : prepared[k].file = f

(* my_fread returns only if it has written nothing at all: every file was    *)
(* opened, and every one was empty or could not be read.  With any byte     *)
(* written, or a file not opened, it polls for ever (polling.c:61-63,       *)
(* 76-98).                                                                 *)
ReturnsOnlyEmptyHanded ==
  pc \in {"close", "done"} => fds = Files /\ \A f \in Files : out[f] = <<>>

(* And it does return then; every failed or empty read is counted once      *)
(* (polling.c:82-92).                                                      *)
ReturnsIfEmptyHanded ==
  <>(pc \in Ended \/ (i > NFiles /\ fds # Files) \/ \E f \in Files : out[f] # <<>>)
=============================================================================
