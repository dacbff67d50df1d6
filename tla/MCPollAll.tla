----------------------------- MODULE MCPollAll ------------------------------
(* Values for the constants of PollAll: buffers of 2 bytes, files of none,   *)
(* one and more than one bufferful, and a ring with no entry to spare.      *)
EXTENDS PollAll

MCSizes == {0, 1, 3}
MCFaults == {"init", "open", "read", "short"}
=============================================================================
