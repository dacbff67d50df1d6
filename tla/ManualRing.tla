----------------------------- MODULE ManualRing -----------------------------
(***************************************************************************)
(* example/omp_io_uring_manual.c: one SQPOLL ring made by hand, with room   *)
(* for one entry.  The read command submits a READV per file, sleeps for a  *)
(* millisecond and prints what the completion queue holds by then; the      *)
(* write command submits one WRITEV and waits for it inside the kernel.     *)
(*                                                                         *)
(* Nothing checks that the poller has taken an entry before the next one is *)
(* written over it, and no step waits for a read: an entry taken meanwhile  *)
(* may have fields of several files.  A file is named by its number on the  *)
(* command line, the write by WRITE; so are its descriptor, its iovecs,     *)
(* their number and its file_info.                                         *)
(***************************************************************************)
EXTENDS Blocks, Sequences

CONSTANTS
  NFiles,
  Sizes,        (* the sizes the files may have                      *)
  IOV_MAX,      (* the most iovecs the kernel takes in one READV      *)
  SQ_ENTRIES,   (* params.sq_entries: QUEUE_DEPTH, 1                  *)
  CQ_ENTRIES,   (* params.cq_entries: 2                               *)
  Faults        (* the calls that may fail in this run                *)

ASSUME ManualRingAssumption ==
  /\ NFiles \in Nat \ {0} /\ IOV_MAX \in Nat
  /\ Sizes \subseteq 0 .. INT_MAX
  /\ SQ_ENTRIES \in Nat \ {0} /\ CQ_ENTRIES \in Nat \ {0}

May(f) == f \in Faults

VARIABLES
  pc,
  arg,          (* i in main                                          *)
  size,         (* fi->file_sz of each file                           *)
  sqTail,       (* *sring->tail                                       *)
  sqes,         (* the ring's entries: what each was written for      *)
  poller,       (* the submission thread                              *)
  seen,         (* what the entry it is reading was written for, from *)
                (* when it began to read it; {} when it reads none    *)
  taken,        (* the entries as the poller has read them, in order  *)
  running,      (* those of them that are not completed               *)
  got,          (* bytes each of them has stored                      *)
  posted,       (* all completions, in order                          *)
  cqTail,       (* *cring->tail: those of them put into the ring      *)
  cqHead,       (* *cring->head                                       *)
  head,         (* head of read_from_cq                               *)
  printed,      (* what was printed                                   *)
  overwritten,  (* history: an entry was changed before it was taken  *)
  late          (* history: a round ended with a request unanswered   *)

queueVars == <<sqTail, sqes>>
kernelVars == <<poller, seen, taken, running, got, posted, cqTail>>
outputVars == <<cqHead, head, printed>>

vars == <<pc, arg, size, queueVars, kernelVars, outputVars, overwritten, late>>

Files == 1 .. NFiles
WRITE == 0
Requests == Files \cup {WRITE}
Error == -1   (* any negative res *)
Ended == {"done", "written", "failed", "overrun"}

(* An entry as the poller takes it: the file to read (fd), the iovecs to    *)
(* read it into (addr), the file whose number of blocks they are said to    *)
(* be (len), and the file_info the completion is to name (user_data).      *)
Entry(r) == [from |-> r, into |-> r, len |-> r, data |-> r]
Fields(R) == [from : R, into : R, len : R, data : R]
Entries == Fields(Requests)

Slot(n) == n % SQ_ENTRIES
sqHead == Len(taken)

-----------------------------------------------------------------------------
Init ==
  /\ pc = "start" /\ arg = 0 /\ size = [f \in Files |-> 0]
  /\ sqTail = 0 /\ sqes = [s \in 0 .. SQ_ENTRIES - 1 |-> WRITE]
  /\ poller = "none" /\ seen = {} /\ taken = <<>> /\ running = {} /\ got = <<>>
  /\ posted = <<>> /\ cqTail = 0 /\ cqHead = 0 /\ head = 0 /\ printed = <<>>
  /\ overwritten = FALSE /\ late = FALSE

Fail == pc' = "failed"

(* app_setup_uring: the ring with its poller, and three mappings.           *)
Setup ==
  /\ pc = "start"
  /\ \/ pc' = "command" /\ poller' = "polling"
     \/ May("setup") /\ Fail /\ UNCHANGED poller
  /\ UNCHANGED <<arg, size, queueVars, seen, taken, running, got, posted, cqTail,
                 outputVars, overwritten, late>>

(* 1 writes, 2 reads, anything else is refused. *)
Command ==
  /\ pc = "command"
  /\ \/ pc' = "target" /\ arg' = 0
     \/ pc' = "open" /\ arg' = 1
     \/ Fail /\ UNCHANGED arg
  /\ UNCHANGED <<size, queueVars, kernelVars, outputVars, overwritten, late>>

(* submit_to_sq up to its entry: open, size, fi and its buffers.  Whatever  *)
(* fails, main returns.                                                    *)
OpenFile ==
  /\ pc = "open" /\ arg <= NFiles
  /\ \/ \E n \in Sizes :
          /\ pc' = "store"
          /\ size' = [size EXCEPT ![arg] = n]
     \/ May("open") /\ Fail /\ UNCHANGED size
  /\ UNCHANGED <<arg, queueVars, kernelVars, outputVars, overwritten, late>>

OpenTarget ==
  /\ pc = "target"
  /\ \/ pc' = "store"
     \/ May("open") /\ Fail
  /\ UNCHANGED <<arg, size, queueVars, kernelVars, outputVars, overwritten,
                 late>>

(* Mutant: the tail is advanced twice. *)
TailTwice == sqTail + 2

NextTail == sqTail + 1

(* The entry is written and the tail advanced, by read and write command     *)
(* alike.  The code does not ask whether the ring has room, nor whether the *)
(* poller is reading what the entry held.                                  *)
Store ==
  /\ pc = "store"
  /\ sqes' = [sqes EXCEPT ![Slot(sqTail)] = arg]
  /\ seen' = IF seen # {} /\ Slot(sqTail) = Slot(sqHead) THEN seen \cup {arg}
             ELSE seen
  /\ sqTail' = NextTail
  /\ overwritten' = (overwritten \/ sqTail - sqHead >= SQ_ENTRIES)
  /\ pc' = IF arg = WRITE THEN "wait" ELSE "enter"
  /\ UNCHANGED <<arg, size, poller, taken, running, got, posted, cqTail,
                 outputVars, late>>

(* Mutant: every round begins at the first completion. *)
HeadFromZero == 0

HeadLoaded == cqHead

(* Wake the poller; do not wait for the read.  Then usleep, in which the    *)
(* kernel may get as far as it likes, and read_from_cq.                    *)
Enter ==
  /\ pc = "enter"
  /\ \/ /\ poller' = "polling"
        /\ pc' = "reap" /\ head' = HeadLoaded
     \/ /\ May("enter") /\ Fail
        /\ UNCHANGED <<poller, head>>
  /\ UNCHANGED <<arg, size, queueVars, seen, taken, running, got, posted, cqTail,
                 cqHead, printed, overwritten, late>>

(* Mutant *)
MinCompleteTwo == 2

MinComplete == 1

(* The write is waited for, and the poller not woken.  main reports success *)
(* without a look at the completion.                                       *)
EnterWrite ==
  /\ pc = "wait"
  /\ cqTail - cqHead >= MinComplete
  /\ pc' = "written"
  /\ UNCHANGED <<arg, size, queueVars, kernelVars, outputVars, overwritten,
                 late>>

(* io_uring_enter fails, or a signal ends the wait. *)
EnterWriteFails ==
  /\ pc = "wait" /\ May("enter")
  /\ Fail
  /\ UNCHANGED <<arg, size, queueVars, kernelVars, outputVars, overwritten,
                 late>>

(* The bytes that file g, or any other than g, left in the buffers of f.    *)
Stored(ks) == UNION {1 .. got[k] : k \in ks}
ReadInto(f) == {k \in 1 .. Len(taken) : taken[k].into = f}
Own(f) == Stored({k \in ReadInto(f) : taken[k].from = f})
Foreign(f) == Stored({k \in ReadInto(f) : taken[k].from # f})

PrintoutOf(c, f) ==
  [req |-> c.req, file |-> f, res |-> c.res, own |-> Own(f),
   foreign |-> Foreign(f)]

(* Mutant: the completion is taken for the file just submitted. *)
PrintoutCurrent(c) == PrintoutOf(c, arg)

(* All blocks of the file that user_data names are printed, whatever res    *)
(* says: what was read into them, and before that what they held before.   *)
Printout(c) == PrintoutOf(c, taken[c.req].data)

(* Mutant: the head is stored once too far. *)
HeadTooFar == head + 1

Cqe == posted[head + 1]

Reap ==
  /\ pc = "reap" /\ head # cqTail
  /\ printed' = Append(printed, Printout(Cqe))
  /\ head' = head + 1
  /\ UNCHANGED <<pc, arg, size, queueVars, kernelVars, cqHead, overwritten,
                 late>>

HeadStored == head

ReapEnd ==
  /\ pc = "reap" /\ head = cqTail
  /\ cqHead' = HeadStored
  /\ late' = (late \/ head # sqTail)
  /\ arg' = arg + 1
  /\ pc' = IF arg = NFiles THEN "done" ELSE "open"
  /\ UNCHANGED <<size, queueVars, kernelVars, head, printed, overwritten>>

Exited == pc \in Ended /\ UNCHANGED vars

-----------------------------------------------------------------------------
(* The kernel *)

(* The poller begins to read the entry at the ring's head.                  *)
PollerBegin ==
  /\ poller = "polling" /\ sqHead # sqTail /\ seen = {}
  /\ seen' = {sqes[Slot(sqHead)]}
  /\ UNCHANGED <<pc, arg, size, queueVars, poller, taken, running, got, posted,
                 cqTail, outputVars, overwritten, late>>

(* It has read it: each field as it was when it came to that field, if the  *)
(* program has written over the entry meanwhile.                           *)
PollerFetch ==
  /\ seen # {}
  /\ \E e \in Fields(seen) : taken' = Append(taken, e)
  /\ seen' = {} /\ got' = Append(got, 0)
  /\ running' = running \cup {sqHead + 1}
  /\ UNCHANGED <<pc, arg, size, queueVars, poller, posted, cqTail, outputVars,
                 overwritten, late>>

(* sq_thread_idle has passed with nothing to take. *)
PollerSleep ==
  /\ poller = "polling" /\ sqHead = sqTail
  /\ poller' = "asleep"
  /\ UNCHANGED <<pc, arg, size, queueVars, seen, taken, running, got, posted,
                 cqTail, outputVars, overwritten, late>>

(* The number of iovecs a request names; READV takes that many or none.     *)
Iovecs(k) == BlockCount(size[taken[k].len])
Readable(k) == Iovecs(k) <= IOV_MAX

(* They are more than the file_info holds: what lies behind them is taken   *)
(* for iovecs.                                                             *)
Overlong(k) == Iovecs(k) > BlockCount(size[taken[k].into])

(* What the request can store without those. *)
Limit(k) ==
  LET f == taken[k].into
      room == IF Iovecs(k) < BlockCount(size[f]) THEN Iovecs(k) * BLOCK_SZ
              ELSE size[f]
  IN  Lesser(room, size[taken[k].from])

ReadProgress(k) ==
  /\ taken[k].into # WRITE /\ Readable(k)
  /\ \E n \in got[k] + 1 .. Limit(k) : got' = [got EXCEPT ![k] = n]
  /\ UNCHANGED <<pc, arg, size, queueVars, poller, seen, taken, running, posted,
                 cqTail, outputVars, overwritten, late>>

(* There is more to read, and something behind the iovecs to read it into:  *)
(* the kernel writes there, and what the program does then is undefined.   *)
Overrun(k) ==
  /\ taken[k].into # WRITE /\ Readable(k) /\ Overlong(k)
  /\ got[k] = Limit(k) /\ Limit(k) < size[taken[k].from]
  /\ pc' = "overrun"
  /\ UNCHANGED <<arg, size, queueVars, kernelVars, outputVars, overwritten,
                 late>>

(* All that could be read; less if the file was cut; or an error.           *)
ReadResults(k) ==
  {r \in {got[k], Error} :
     IF r = Error THEN May("readv") \/ ~Readable(k) \/ Overlong(k)
     ELSE Readable(k) /\ (got[k] = Limit(k) \/ May("short"))}

(* 1 stands for all of the text. *)
WriteResults ==
  {1} \cup (IF May("short") THEN {0} ELSE {})
      \cup (IF May("writev") THEN {Error} ELSE {})

Room == cqTail - cqHead < CQ_ENTRIES

(* A completion goes into the ring, or behind others that found it full. *)
Post(k) ==
  /\ \E r \in IF taken[k].into = WRITE THEN WriteResults ELSE ReadResults(k) :
       posted' = Append(posted, [req |-> k, res |-> r])
  /\ running' = running \ {k}
  /\ cqTail' = IF cqTail = Len(posted) /\ Room THEN cqTail + 1 ELSE cqTail
  /\ UNCHANGED <<pc, arg, size, queueVars, poller, seen, taken, got, outputVars,
                 overwritten, late>>

(* When there is room again.  Kernels differ in when they do this. *)
FlushOverflow ==
  /\ cqTail < Len(posted) /\ Room
  /\ cqTail' = cqTail + 1
  /\ UNCHANGED <<pc, arg, size, queueVars, poller, seen, taken, running, got,
                 posted, outputVars, overwritten, late>>

(* When the process ends its ring is released, with what is in it.          *)
Alive == pc \notin Ended

Poll == Alive /\ (PollerBegin \/ PollerFetch)

Answer(k) == ReadProgress(k) \/ Overrun(k) \/ Post(k)

Work == Alive /\ \E k \in running : Answer(k)

Program ==
  \/ Setup \/ Command \/ OpenFile \/ OpenTarget \/ Store \/ Enter \/ EnterWrite
  \/ Reap \/ ReapEnd \/ Exited

Kernel == Poll \/ Work \/ (Alive /\ (PollerSleep \/ FlushOverflow))

Next == Program \/ EnterWriteFails \/ Kernel

Spec == Init /\ [][Next]_vars

(* The program runs (a signal need not come), a poller that is awake takes  *)
(* what it sees, and what it has taken is completed.                       *)
FairSpec ==
  Spec /\ WF_vars(Program) /\ WF_vars(Poll) /\ WF_vars(Work)

-----------------------------------------------------------------------------
Completion == [req : Nat, res : Nat \cup {Error}]

TypeOK ==
  /\ pc \in {"start", "command", "target", "open", "store", "enter", "wait",
             "reap"} \cup Ended
  /\ arg \in 0 .. NFiles + 1
  /\ size \in [Files -> Nat] /\ got \in Seq(Nat) /\ Len(got) = Len(taken)
  /\ sqTail \in Nat /\ cqTail \in 0 .. Len(posted)
  /\ head \in 0 .. cqTail /\ cqHead \in 0 .. head
  /\ sqes \in [0 .. SQ_ENTRIES - 1 -> Requests] /\ taken \in Seq(Entries)
  /\ poller \in {"none", "polling", "asleep"} /\ seen \subseteq Requests
  /\ running \subseteq 1 .. Len(taken)
  /\ posted \in Seq(Completion)
  /\ printed \in Seq([req : Nat, file : Files, res : Nat \cup {Error},
                      own : SUBSET Nat, foreign : SUBSET Nat])
  /\ overwritten \in BOOLEAN /\ late \in BOOLEAN

(* All fields of the entry are of one file. *)
Intact(e) == e = Entry(e.data)

(* If the entry was taken intact, what the kernel said it had read is in    *)
(* what was printed, however late the completion came.  An entry is only    *)
(* torn, and other files' bytes are only printed, if one was overwritten    *)
(* before the poller had taken it (omp_io_uring_manual.c:239-256, 354-374). *)
PrintedWasRead ==
  \A i \in 1 .. Len(printed) :
    LET p == printed[i]
    IN  /\ Intact(taken[p.req]) => 1 .. p.res \subseteq p.own
        /\ p.foreign # {} \/ ~Intact(taken[p.req]) => overwritten

(* The places of file f's read among the completions.                      *)
Answers(f) == {c \in 1 .. Len(posted) : taken[posted[c].req].data = f}

(* As long as no entry is overwritten, no read is lost and none is done     *)
(* twice: each file that was submitted is in the ring, with the kernel, or  *)
(* among the completions once (omp_io_uring_manual.c:354-384).             *)
ReadOnce ==
  ~overwritten /\ pc \notin {"start", "command"} /\ arg # WRITE =>
    \A f \in 1 .. sqTail :
      \/ f > sqHead /\ Answers(f) = {}
      \/ f <= sqHead /\ f \in running /\ Answers(f) = {}
      \/ f <= sqHead /\ f \notin running /\ \E c \in 1 .. Len(posted) : Answers(f) = {c}

(* If every round found its completion, the files were printed in their     *)
(* order, each once.  An entry is only overwritten after a round that did   *)
(* not (omp_io_uring_manual.c:438-446).                                    *)
InOrderUnlessLate ==
  /\ overwritten => late
  /\ ~late /\ pc \in {"open", "done"} =>
       /\ Len(printed) = arg - 1
       /\ \A i \in 1 .. Len(printed) : printed[i].file = i

(* Either command ends, but for a write whose entry the poller, asleep, is  *)
(* not told of (omp_io_uring_manual.c:286-287).                            *)
EndsUnlessAsleep ==
  <>(pc \in Ended \/ (pc = "wait" /\ poller = "asleep" /\ sqHead # sqTail))

(* "Notify the kernel and wait for at least one event to complete"          *)
(* (omp_io_uring_manual.c:286): the write command ends.                     *)
WriteEnds == <>(pc \in Ended)
=============================================================================
