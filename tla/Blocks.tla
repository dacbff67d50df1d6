------------------------------- MODULE Blocks -------------------------------
(***************************************************************************)
(* The arithmetic my_fopen uses to cut a file into blocks.  The block count *)
(* is computed from the file size narrowed to int; the loop that fills the  *)
(* iovecs runs on the full off_t.  INT_MAX is the width of int: 2^31 - 1 in *)
(* the program, any natural number here.                                   *)
(***************************************************************************)
EXTENDS Integers

CONSTANTS
  BLOCK_SZ,   (* bytes per block, 4096 in my_io.h *)
  INT_MAX     (* the largest int *)

ASSUME BlocksAssumption ==
  /\ INT_MAX \in Nat
  /\ BLOCK_SZ \in 1 .. INT_MAX   (* an int itself *)

Lesser(a, b) == IF a < b THEN a ELSE b

(* The C conversion (int) n: the value modulo 2 * (INT_MAX + 1), signed. *)
ToInt(n) ==
  LET m == n % (2 * INT_MAX + 2)
  IN  IF m > INT_MAX THEN m - (2 * INT_MAX + 2) ELSE m

(* C division truncates toward zero. *)
CDiv(a, b) == IF a >= 0 THEN a \div b ELSE -((-a) \div b)

(* A plausible slip: the partial block at the end is not counted. *)
BlockCountNoPartial(sz) == CDiv(ToInt(sz), BLOCK_SZ)

(* blocks = (int) file_sz / BLOCK_SZ, plus one for a partial last block. *)
BlockCount(sz) ==
  CDiv(ToInt(sz), BLOCK_SZ) + (IF sz % BLOCK_SZ # 0 THEN 1 ELSE 0)
=============================================================================
