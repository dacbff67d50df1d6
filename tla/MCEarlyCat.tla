----------------------------- MODULE MCEarlyCat -----------------------------
(* Values for the constants of EarlyCat: as for MyCat.  Descriptors are      *)
(* enough for three files, or one too few; 5 bytes are more than one READV  *)
(* takes, 6 and 7 more than an int, and 13 narrow to 1.                     *)
EXTENDS EarlyCat

MCSizes == {0, 1, 2, 3, 4, 5, 6, 7, 13}
MCInherited == {0, 1}
MCFaults == {"fopen", "enter", "buffer", "readv", "short"}
=============================================================================
