------------------------------ MODULE MCMyCat ------------------------------
(* Values for the constants of MyCat: blocks of 2 bytes and calls of 3, so  *)
(* that calls and blocks cross; sizes on both sides of what one READV takes *)
(* and of INT_MAX, those included that narrow to a block count of 0 or 1.   *)
EXTENDS MyCat

CONSTANTS Nul, Word   (* stale bytes testPerformance.py strips, or keeps *)

MCSizes == 0 .. 13
MCFaults == {"setup", "mmap", "open", "fstat", "register", "fi", "memalign",
             "enter", "readv", "short"}
MCStale == {Nul}
EitherStale == {Nul, Word}
NoFaults == {}
OneBlock == 1 .. 4
UpToFour == 0 .. 4

(* The content a test run of testPerformance.py compares; see MyCat.        *)
TestContentMatches == ContentMatches(Nul)
=============================================================================
