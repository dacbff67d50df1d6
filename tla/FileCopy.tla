------------------------------ MODULE FileCopy ------------------------------
(***************************************************************************)
(* What a copy promises: the good part of the target is a prefix of the     *)
(* source that only grows, and success means that it is all of it and all   *)
(* there is in the target.                                                 *)
(***************************************************************************)
EXTENDS Integers, Sequences

CONSTANTS Sizes

VARIABLES
  length,   (* bytes in the source, once it is looked at             *)
  target,   (* the bytes copied; on success, all bytes of the target *)
  status    (* "new", "running", "ok" or "failed"                    *)

copyVars == <<length, target, status>>

(* The first n bytes of the source. *)
Prefix(n) == [i \in 1 .. n |-> i - 1]

CopyInit == length = 0 /\ target = <<>> /\ status = "new"

Begin ==
  /\ status = "new" /\ status' = "running"
  /\ length' \in Sizes /\ UNCHANGED target

Extend ==
  /\ status = "running"
  /\ \E n \in Len(target) + 1 .. length : target' = Prefix(n)
  /\ UNCHANGED <<length, status>>

Finish ==
  /\ status = "running" /\ target = Prefix(length)
  /\ status' = "ok" /\ UNCHANGED <<length, target>>

Fail ==
  /\ status \in {"new", "running"}
  /\ status' = "failed" /\ UNCHANGED <<length, target>>

CopyNext == Begin \/ Extend \/ Finish \/ Fail

CopySpec == CopyInit /\ [][CopyNext]_copyVars
=============================================================================
