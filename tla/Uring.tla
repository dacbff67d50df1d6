------------------------------- MODULE Uring --------------------------------
(***************************************************************************)
(* One io_uring created with IORING_SETUP_SQPOLL, as a my_file uses it: one *)
(* READV is submitted on it and one completion comes back.  The application *)
(* and the kernel's submission thread (the poller) share the ring's memory. *)
(*                                                                         *)
(* The application runs on x86, where a store waits in the CPU's store      *)
(* buffer and a later load may overtake it.  write_barrier() is a release   *)
(* fence, which compiles to nothing there, so it does not empty the buffer. *)
(* sqTail is the submission tail as the application's CPU sees it, sqSeen   *)
(* as memory holds it; they differ while the store is in the buffer.        *)
(***************************************************************************)
EXTENDS Integers

CONSTANTS
  Faults,    (* the calls that may fail in this run                     *)
  IOV_MAX    (* the most iovecs the kernel takes in one READV: UIO_MAXIOV *)

ASSUME UringAssumption == IOV_MAX \in Nat

May(f) == f \in Faults

VARIABLES
  sqTail,    (* *sring->tail, store buffer included          *)
  sqSeen,    (* *sring->tail in memory: what the poller reads *)
  sqHead,    (* entries the poller has taken                  *)
  want,      (* bytes the iovecs of the submitted READV hold  *)
  sqeLen,    (* sqe->len: how many iovecs it has              *)
  poller,    (* the submission thread                         *)
  filled,    (* bytes the kernel has stored through the iovecs *)
  cqHead,    (* *cring->head, written by the application      *)
  cqTail,    (* *cring->tail, written by the kernel           *)
  cqRes      (* res of the completion entry                   *)

entryVars == <<want, sqeLen>>
cqVars == <<cqHead, cqTail, cqRes>>

ringVars == <<sqTail, sqSeen, sqHead, entryVars, poller, filled, cqVars>>

Error == -1   (* any negative res *)

(* none: no ring; polling: looking at the tail; announced: it has set        *)
(* IORING_SQ_NEED_WAKEUP and is to look once more; asleep: until woken.      *)
PollerStates == {"none", "polling", "announced", "asleep"}

(* Mutant: the poller is expected never to sleep. *)
WakeupIgnored == FALSE

(* IORING_SQ_NEED_WAKEUP in *sring->flags: set by the poller before its last *)
(* look at the tail, cleared when it is awake again.                        *)
NeedWakeup == poller \in {"announced", "asleep"}

RingTypeOK ==
  /\ {sqTail, sqSeen, sqHead, want, sqeLen} \subseteq Nat
  /\ {filled, cqHead, cqTail} \subseteq Nat
  /\ poller \in PollerStates
  /\ cqRes \in Nat \cup {Error}

(* No ring yet. *)
RingInit ==
  /\ sqTail = 0 /\ sqSeen = 0 /\ sqHead = 0 /\ want = 0 /\ sqeLen = 0
  /\ poller = "none" /\ filled = 0
  /\ cqHead = 0 /\ cqTail = 0 /\ cqRes = 0

(* The my_file has a ring of its own, empty and with its poller running, or *)
(* none.  Whatever ring the variables described before is left behind.     *)
RingReset(p) ==
  /\ sqTail' = 0 /\ sqSeen' = 0 /\ sqHead' = 0 /\ want' = 0 /\ sqeLen' = 0
  /\ poller' = p /\ filled' = 0
  /\ cqHead' = 0 /\ cqTail' = 0 /\ cqRes' = 0

RingSetup == RingReset("polling")

NoRing == RingReset("none")

(* Fill the submission entry and advance the tail: a plain store. *)
StoreTail(bytes, iovecs) ==
  /\ sqTail' = sqTail + 1
  /\ want' = bytes
  /\ sqeLen' = iovecs
  /\ UNCHANGED <<sqSeen, sqHead, poller, filled, cqVars>>

(* io_uring_enter with IORING_ENTER_SQ_WAKEUP.  Without GETEVENTS it does   *)
(* not wait for a completion.  Entering the kernel empties the store buffer.*)
WakePoller ==
  /\ sqSeen' = sqTail
  /\ poller' = "polling"
  /\ UNCHANGED <<sqTail, sqHead, entryVars, filled, cqVars>>

(* The store buffer reaches memory. *)
Drain ==
  /\ sqSeen # sqTail
  /\ sqSeen' = sqTail
  /\ UNCHANGED <<sqTail, sqHead, entryVars, poller, filled, cqVars>>

Submitted == sqTail # sqHead        (* published, not yet taken    *)
Running == sqHead # cqTail          (* taken, not yet completed    *)
InFlight == Submitted \/ Running

(* The poller takes the entry it sees. *)
PollerFetch ==
  /\ poller = "polling"
  /\ sqSeen # sqHead
  /\ sqHead' = sqHead + 1
  /\ UNCHANGED <<sqTail, sqSeen, entryVars, poller, filled, cqVars>>

(* sq_thread_idle has passed with no entry to see: ask to be woken... *)
PollerAnnounce ==
  /\ poller = "polling"
  /\ sqSeen = sqHead
  /\ poller' = "announced"
  /\ UNCHANGED <<sqTail, sqSeen, sqHead, entryVars, filled, cqVars>>

(* ...and look once more, after a full barrier, before sleeping. *)
PollerRecheck ==
  /\ poller = "announced"
  /\ \/ /\ sqSeen = sqHead
        /\ poller' = "asleep"
     \/ /\ sqSeen # sqHead
        /\ poller' = "polling"
  /\ UNCHANGED <<sqTail, sqSeen, sqHead, entryVars, filled, cqVars>>

(* The read stores some more bytes of the file through the iovecs. *)
ReadProgress ==
  /\ Running
  /\ sqeLen <= IOV_MAX
  /\ \E n \in (filled + 1) .. want : filled' = n
  /\ UNCHANGED <<sqTail, sqSeen, sqHead, entryVars, poller, cqVars>>

(* The completion is posted: everything asked for, fewer bytes when the file *)
(* has shrunk since fstat, or an error with nothing read: always when there *)
(* are more iovecs than the kernel takes.                                  *)
PostCompletion ==
  /\ Running
  /\ \/ /\ sqeLen <= IOV_MAX
        /\ filled = want \/ May("short")
        /\ cqRes' = filled
     \/ /\ sqeLen > IOV_MAX \/ May("readv")
        /\ filled = 0
        /\ cqRes' = Error
  /\ cqTail' = cqTail + 1
  /\ UNCHANGED <<sqTail, sqSeen, sqHead, entryVars, poller, filled, cqHead>>

KernelStep ==
  \/ Drain
  \/ PollerFetch
  \/ PollerAnnounce
  \/ PollerRecheck
  \/ ReadProgress
  \/ PostCompletion
=============================================================================
