------------------------------ MODULE Transfer -----------------------------
(***************************************************************************)
(* What fcopy promises to somebody who watches the files: while a client   *)
(* uploads a file, the copies of that file on its targets are emptied,     *)
(* receive chunks of the client's file and are cut to its size, in any     *)
(* order; nothing else is ever written.  It may report success only when   *)
(* every copy is exactly the file, and once it has reported, success or    *)
(* not, the upload touches no copy any more.                               *)
(***************************************************************************)
EXTENDS Disk, Sequences

CONSTANTS Client, Server, N, Dest, Files, FileOf, Before, ChunkSize

VARIABLES
  upload,  \* upload[c]: the file client c is at, and what it reported
  disk     \* disk[s][p]: the contents of the files of the servers

transferVars == <<upload, disk>>

Running(c) == upload[c].st = "run"
Current(c) == Files[c][upload[c].file]
Me(c)      == <<c, upload[c].file>>

TransferInit ==
  /\ upload = [c \in Client |-> [file |-> 1, st |-> "run"]]
  /\ disk = [s \in Server |-> Before]

Change(c, i, f) ==
  /\ Running(c)
  /\ disk' = [disk EXCEPT ![Dest[c][i]][FileOf[Current(c).name]] = f]
  /\ UNCHANGED upload

Copy(c, i) == disk[Dest[c][i]][FileOf[Current(c).name]]

Wipe(c, i)  == Change(c, i, Truncated(Copy(c, i), 0))
Store(c, i) == \E o \in Offset, len \in 1..ChunkSize :
                 /\ o + len <= Current(c).size
                 /\ Change(c, i, Written(Copy(c, i), o, len, Me(c)))
Trim(c, i)  == Change(c, i, Truncated(Copy(c, i), Current(c).size))

Complete(c) ==
  \A i \in 0..N-1 : Copy(c, i) = Exact(Me(c), Current(c).size, ChunkSize)

Report(c) ==
  /\ Running(c)
  /\ \/ Complete(c) /\ upload' = [upload EXCEPT ![c].st = "ok"]
     \/ upload' = [upload EXCEPT ![c].st = "fail"]
  /\ UNCHANGED disk

Proceed(c) ==
  /\ upload[c].st = "ok" /\ upload[c].file < Len(Files[c])
  /\ upload' = [upload EXCEPT ![c] = [file |-> @.file + 1, st |-> "run"]]
  /\ UNCHANGED disk

TransferNext ==
  \E c \in Client :
    \/ \E i \in 0..N-1 : Wipe(c, i) \/ Store(c, i) \/ Trim(c, i)
    \/ Report(c) \/ Proceed(c)

TransferSpec == TransferInit /\ [][TransferNext]_transferVars
=============================================================================
