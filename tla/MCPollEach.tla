----------------------------- MODULE MCPollEach -----------------------------
(* Values for the constants of PollEach: a ring of two entries, files of no  *)
(* block, of one and of two, which are more than one READV takes here, and   *)
(* one that is no regular file.                                            *)
EXTENDS PollEach

MCSizes == {NotRegular, 0, 1, 3}
MCFaults == {"init", "open", "sqwait", "wait", "readv", "short"}
=============================================================================
