---------------------------- MODULE MCFileSender ----------------------------
(* Values for checking FileSender: one client, three workers, a file whose  *)
(* last chunk is short, then an empty file.                                 *)
EXTENDS FileSender

CONSTANTS c1, t1

mcFiles == [c \in Client |-> <<[path |-> "a", size |-> 5], [path |-> "b", size |-> 0]>>]
=============================================================================
