----------------------------- MODULE MCRingCopy -----------------------------
(* Values for the constants of RingCopy: blocks of 2 bytes, counters that   *)
(* wrap within a copy, sizes of no block to three.                         *)
EXTENDS RingCopy

CONSTANTS Stale

MCSizes == 0 .. 5
MCOld == {0, 3, 6}
MCStale == {Stale}
MCFaults == {"source", "target", "ring", "enter", "read", "write", "short",
             "shrink"}
=============================================================================
