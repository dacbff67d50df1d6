---------------------------- MODULE MCManualRing ----------------------------
(* Values for the constants of ManualRing: a submission ring of one entry   *)
(* as in the program, a completion ring that one completion fills, and      *)
(* files of one, two and three blocks, the last of them not full; three are  *)
(* more than one READV takes here.                                          *)
EXTENDS ManualRing

MCSizes == {1, 3, 5}
MCFaults == {"setup", "open", "enter", "readv", "writev", "short"}
NoFaults == {}
=============================================================================
