--------------------------- MODULE MCStreamReaders ---------------------------
(* Values for the constants of StreamReaders: an empty file, half a buffer,  *)
(* a full one, and a file that ends inside the second one.                   *)
EXTENDS StreamReaders

MCSizes == {0, 2, 4, 7}
MCFaults == {"ring", "stream", "fileno", "registration", "file", "buffer",
             "wait", "readv", "short", "fread"}
=============================================================================
