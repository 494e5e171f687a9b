-------------------------------- MODULE Disk --------------------------------
(***************************************************************************)
(* The contents of a file of a server, as far as an upload tells contents  *)
(* apart: its size, and for each chunk offset whose bytes are there.  The  *)
(* operators are the effects of the system calls the server makes: pwrite  *)
(* of a chunk (service.cpp, write_file) and ftruncate (file_manager.cpp).  *)
(***************************************************************************)
EXTENDS Integers

CONSTANTS
  Path,     \* the files of a server
  Offset,   \* the offsets of chunks
  Source,   \* local files: whose bytes a chunk may hold
  Hole,     \* not all bytes of the chunk are of one source
  Base      \* FCOPY_CHUNK_BASE; every chunk size is a multiple of it

ASSUME DiskAssumption ==
  /\ Offset \subseteq Nat
  /\ Hole \notin Source
  /\ Base \in Nat \ {0}

FileState == [size : Nat, data : [Offset -> Source \cup {Hole}]]

Empty == [size |-> 0, data |-> [o \in Offset |-> Hole]]

\* A chunk that is no multiple of Base is padded with zeros.
PadTo(len) ==
  IF len % Base # 0 THEN ((len + Base) \div Base) * Base ELSE len

Grown(f, n) == IF f.size < n THEN n ELSE f.size

\* pwrite: the file grows to the end of the padded chunk.
Written(f, o, len, src) ==
  IF len = 0 THEN f
  ELSE [size |-> Grown(f, o + PadTo(len)), data |-> [f.data EXCEPT ![o] = src]]

\* pwrite writes the first n bytes of the padded chunk only.
PartWritten(f, o, n, src) ==
  [size |-> IF n = 0 THEN f.size ELSE Grown(f, o + n),
   data |-> [f.data EXCEPT ![o] = IF @ = src THEN @ ELSE Hole]]

\* ftruncate: cut off, or extended with a hole.
Truncated(f, n) ==
  [size |-> n, data |-> [o \in Offset |-> IF o < n THEN f.data[o] ELSE Hole]]

\* The whole content of source src, of n bytes in chunks of chunk bytes.
Exact(src, n, chunk) ==
  [size |-> n,
   data |-> [o \in Offset |-> IF o < n /\ o % chunk = 0 THEN src ELSE Hole]]
=============================================================================
