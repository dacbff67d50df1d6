------------------------------ MODULE PollEach ------------------------------
(***************************************************************************)
(* example/omp_io_uring_polling.c: file after file, submit one READV on a   *)
(* shared liburing ring, wait for a completion, print the file it names.    *)
(*                                                                         *)
(* main looks at no result of get_completion_and_print, so a wait that      *)
(* fails leaves its completion to the next file, and a completion with an   *)
(* error is not given back and is the oldest one ever after.  liburing and  *)
(* the kernel thread behind it are taken to do what they are documented to: *)
(* a submitted entry is taken, and completions wait in line, in the ring or *)
(* held back by the kernel when it is full.                                *)
(***************************************************************************)
EXTENDS Blocks, Sequences

CONSTANTS
  NFiles,
  Sizes,        (* what get_file_size may return: sizes, and NotRegular *)
  IOV_MAX,      (* the most iovecs the kernel takes in one READV        *)
  SQ_ENTRIES,   (* QUEUE_DEPTH                                          *)
  Faults        (* the calls that may fail in this run                  *)

NotRegular == -1
Error == -1   (* any negative res *)

ASSUME PollEachAssumption ==
  /\ NFiles \in Nat \ {0} /\ IOV_MAX \in Nat /\ SQ_ENTRIES \in Nat \ {0}
  /\ Sizes \subseteq (0 .. INT_MAX) \cup {NotRegular}
  /\ BLOCK_SZ > 1

May(f) == f \in Faults

VARIABLES
  pc,
  arg,      (* i in main                                              *)
  size,     (* fi->file_sz of each file                               *)
  sq,       (* files submitted and not taken by the kernel's thread   *)
  running,  (* files being read                                       *)
  filled,   (* bytes stored into each file's buffers                  *)
  cq,       (* completions, the oldest first, not marked as seen      *)
  printed,  (* what was printed                                       *)
  missed,   (* history: a wait has failed                             *)
  stuck     (* history: a failed read was reported                    *)

kernelVars == <<sq, running, filled>>
vars == <<pc, arg, size, kernelVars, cq, printed, missed, stuck>>

Files == 1 .. NFiles
Ended == {"done", "failed"}

-----------------------------------------------------------------------------
Init ==
  /\ pc = "init" /\ arg = 1 /\ size = [f \in Files |-> 0]
  /\ sq = <<>> /\ running = {} /\ filled = [f \in Files |-> 0]
  /\ cq = <<>> /\ printed = <<>> /\ missed = FALSE /\ stuck = FALSE

Fail == pc' = "failed"

InitQueue ==
  /\ pc = "init"
  /\ \/ pc' = "open"
     \/ May("init") /\ Fail
  /\ UNCHANGED <<arg, size, kernelVars, cq, printed, missed, stuck>>

(* The size is used whatever it is: for -1 there is one iovec, of length -1. *)
OpenFile ==
  /\ pc = "open"
  /\ \/ \E n \in Sizes : size' = [size EXCEPT ![arg] = n] /\ pc' = "sqe"
     \/ May("open") /\ Fail /\ UNCHANGED size
  /\ UNCHANGED <<arg, kernelVars, cq, printed, missed, stuck>>

(* Mutant: the entry is prepared and not submitted. *)
NotSubmitted == sq

(* io_uring_get_sqe finds room, and the entry is submitted. *)
Submitted == Append(sq, arg)

(* Mutant: one entry too many. *)
RoomOffByOne == Len(sq) <= SQ_ENTRIES

Room == Len(sq) < SQ_ENTRIES

Submit ==
  /\ pc = "sqe" /\ Room
  /\ sq' = Submitted
  /\ pc' = "wait"
  /\ UNCHANGED <<arg, size, running, filled, cq, printed, missed, stuck>>

(* There is no room, and io_uring_sqring_wait fails; else it waits for room. *)
SqringWaitFails ==
  /\ pc = "sqe" /\ ~Room /\ May("sqwait")
  /\ Fail
  /\ UNCHANGED <<arg, size, kernelVars, cq, printed, missed, stuck>>

NextFile ==
  /\ arg' = arg + 1
  /\ pc' = IF arg = NFiles THEN "done" ELSE "open"

(* Mutants: printed is the file just submitted; an error is given back; the *)
(* completion is not given back; two of them are.                          *)
PrintoutCurrent(c) ==
  [file |-> arg, res |-> c.res, bytes |-> filled[arg]]
ErrorGivenBack == Tail(cq)
NotGivenBack == cq

(* All the file's blocks are printed, however many bytes res says it read.  *)
Printout(c) ==
  [file |-> c.file, res |-> c.res, bytes |-> filled[c.file]]

AfterError == cq
AfterPrint == Tail(cq)

GetCompletionAndPrint ==
  /\ pc = "wait" /\ cq # <<>>
  /\ \/ /\ Head(cq).res >= 0
        /\ printed' = Append(printed, Printout(Head(cq)))
        /\ cq' = AfterPrint
        /\ UNCHANGED stuck
     \/ /\ Head(cq).res < 0
        /\ stuck' = TRUE
        /\ cq' = AfterError
        /\ UNCHANGED printed
  /\ NextFile
  /\ UNCHANGED <<size, kernelVars, missed>>

(* io_uring_wait_cqe is interrupted. *)
WaitFails ==
  /\ pc = "wait" /\ May("wait")
  /\ missed' = TRUE
  /\ NextFile
  /\ UNCHANGED <<size, kernelVars, cq, printed, stuck>>

Exited == pc \in Ended /\ UNCHANGED vars

-----------------------------------------------------------------------------
(* The kernel *)

Take ==
  /\ sq # <<>>
  /\ sq' = Tail(sq)
  /\ running' = running \cup {Head(sq)}
  /\ UNCHANGED <<pc, arg, size, filled, cq, printed, missed, stuck>>

(* A READV of too many iovecs, or of one of length -1, is refused. *)
Readable(f) == size[f] >= 0 /\ BlockCount(size[f]) <= IOV_MAX

ReadProgress(f) ==
  /\ Readable(f)
  /\ \E n \in filled[f] + 1 .. size[f] : filled' = [filled EXCEPT ![f] = n]
  /\ UNCHANGED <<pc, arg, size, sq, running, cq, printed, missed, stuck>>

Post(f) ==
  /\ \E r \in {filled[f], Error} :
       /\ IF r = Error THEN ~Readable(f) \/ May("readv")
          ELSE Readable(f) /\ (r = size[f] \/ May("short"))
       /\ cq' = Append(cq, [file |-> f, res |-> r])
  /\ running' = running \ {f}
  /\ UNCHANGED <<pc, arg, size, sq, filled, printed, missed, stuck>>

Kernel == Take \/ \E f \in running : ReadProgress(f) \/ Post(f)

Program ==
  InitQueue \/ OpenFile \/ Submit \/ GetCompletionAndPrint \/ Exited

Interrupts == SqringWaitFails \/ WaitFails

Next == Program \/ Interrupts \/ Kernel

Spec == Init /\ [][Next]_vars

(* The program runs, no call need be interrupted, and the kernel works on.  *)
FairSpec == Spec /\ WF_vars(Program) /\ WF_vars(Kernel)

-----------------------------------------------------------------------------
TypeOK ==
  /\ pc \in {"init", "open", "sqe", "wait"} \cup Ended
  /\ arg \in 1 .. NFiles + 1
  /\ size \in [Files -> Nat \cup {NotRegular}] /\ filled \in [Files -> Nat]
  /\ sq \in Seq(Files) /\ Len(sq) <= SQ_ENTRIES /\ running \subseteq Files
  /\ cq \in Seq([file : Files, res : Nat \cup {Error}])
  /\ printed \in Seq([file : Files, res : Nat, bytes : Nat])
  /\ missed \in BOOLEAN /\ stuck \in BOOLEAN

(* What the kernel said it had read of a file is what is printed first of   *)
(* it, and no file is printed twice, also when waits failed and the         *)
(* program is behind (omp_io_uring_polling.c:67-77, 180-187).              *)
PrintedOnce ==
  /\ \A i \in 1 .. Len(printed) : printed[i].res = printed[i].bytes
  /\ \A i, j \in 1 .. Len(printed) : i # j => printed[i].file # printed[j].file

(* While no wait has failed the files are printed in their order, and the   *)
(* first one that is not printed is one whose read failed                  *)
(* (omp_io_uring_polling.c:62-78, 180-187).                                *)
InOrderUnlessMissed ==
  ~missed =>
    /\ \A i \in 1 .. Len(printed) : printed[i].file = i
    /\ pc \in {"open", "done"} =>
         IF stuck THEN cq # <<>> /\ Head(cq).file = Len(printed) + 1
                 ELSE Len(printed) = arg - 1

(* A file that was submitted is at one place: with the kernel, among the    *)
(* completions, or printed (omp_io_uring_polling.c:129-150, 77).           *)
Places(f) ==
  {<<"sq", i>> : i \in {j \in 1 .. Len(sq) : sq[j] = f}}
    \cup {<<"running", g>> : g \in running \cap {f}}
    \cup {<<"cq", i>> : i \in {j \in 1 .. Len(cq) : cq[j].file = f}}
    \cup {<<"printed", i>> : i \in {j \in 1 .. Len(printed) :
                                      printed[j].file = f}}

Submissions == IF pc = "wait" THEN 1 .. arg ELSE 1 .. arg - 1

AtOnePlace ==
  \A f \in Files :
    IF f \in Submissions THEN \E p \in Places(f) : Places(f) = {p}
                         ELSE Places(f) = {}

(* Once a failed read was reported nothing is printed any more, of any      *)
(* file: its completion is found again by every later wait                 *)
(* (omp_io_uring_polling.c:67-70, 186).                                    *)
NothingAfterError == [][stuck => printed' = printed]_vars

(* Every wait is answered and the program ends, whatever failed before it   *)
(* (omp_io_uring_polling.c:62, 128-143, 180-191).                          *)
Ends == <>(pc \in Ended)
=============================================================================
