----------------------------- MODULE FileStream -----------------------------
(***************************************************************************)
(* What my_cat promises of its arguments, whatever happens underneath: one  *)
(* file at a time, in order, each either skipped or delivered as a stream.  *)
(* A stream is the file rounded up to whole blocks -- a prefix of its bytes, *)
(* then stale ones -- or nothing when the read failed; it is delivered in    *)
(* pieces of CHUNK bytes, without a gap or a repetition, and to its end.     *)
(***************************************************************************)
EXTENDS Integers, Sequences

CONSTANTS NFiles, CHUNK, BLOCK_SZ, Sizes, StaleBytes

VARIABLES
  file,      (* files dealt with            *)
  phase,     (* "idle", or "open"           *)
  content,   (* the stream of the open file *)
  sent       (* what of it is delivered     *)

streamVars == <<file, phase, content, sent>>

(* c is a file of n bytes in whole blocks, of which some prefix was read.   *)
IsImage(c, n) ==
  /\ Len(c) % BLOCK_SZ = 0 /\ n <= Len(c) /\ Len(c) < n + BLOCK_SZ
  /\ \E k \in 0 .. n : \A i \in 1 .. Len(c) :
       IF i <= k THEN c[i] = i - 1 ELSE c[i] \in StaleBytes

StreamInit == file = 0 /\ phase = "idle" /\ content = <<>> /\ sent = <<>>

Skip ==
  /\ phase = "idle" /\ file < NFiles
  /\ file' = file + 1
  /\ UNCHANGED <<phase, content, sent>>

Open ==
  /\ phase = "idle" /\ file < NFiles
  /\ phase' = "open"
  /\ content' \in Seq(Nat \cup StaleBytes)
  /\ content' = <<>> \/ \E n \in Sizes : IsImage(content', n)
  /\ UNCHANGED <<file, sent>>

Piece ==
  LET next == Len(sent) + CHUNK
  IN  IF next < Len(content) THEN next ELSE Len(content)

Send ==
  /\ phase = "open" /\ sent # content
  /\ sent' = SubSeq(content, 1, Piece)
  /\ UNCHANGED <<file, phase, content>>

Close ==
  /\ phase = "open" /\ sent = content
  /\ phase' = "idle" /\ file' = file + 1
  /\ content' = <<>> /\ sent' = <<>>

StreamNext == Skip \/ Open \/ Send \/ Close

StreamSpec == StreamInit /\ [][StreamNext]_streamVars
=============================================================================
