------------------------------ MODULE MCFcopy -------------------------------
(* Values for checking Fcopy.  Targets, servers and tokens are few; chunks   *)
(* have ChunkSize = Base = 2 bytes, so a file of 3 bytes ends in a padded    *)
(* chunk and a file of 4 bytes does not.                                     *)
EXTENDS Fcopy, TLC

CONSTANTS c1, c2, s1, s2, s3, a, b, na, nb, ta, tb

mcFileOf  == [n \in Name |-> IF n = na THEN a ELSE b]
mcTokenOf == [n \in Name |-> IF n = na THEN ta ELSE tb]
mcSource  == Client \X (0..2)

\* On every server there is an older, longer file of the same name.
mcBefore == [p \in Path |-> [size |-> 5, data |-> [o \in Offset |-> <<c1, 0>>]]]

File3 == [name |-> na, size |-> 3]
File1 == [name |-> nb, size |-> 1]

\* No action prefers one descriptor to another that is closed.
FdSymmetry == Permutations(Fd)

\* One upload of a full chunk and a padded one, or of a padded one only.
mcPadded == [c \in Client |-> <<File3>>]
mcShort  == [c \in Client |-> <<[File3 EXCEPT !.size = 1]>>]
\* Two files, one after the other.
mcTwo    == [c \in Client |-> <<File3, File1>>]

\* The same name, with another size at c1: a full chunk there, else a padded one.
mcUneven == [c \in Client |-> <<[File3 EXCEPT !.size = IF c = c1 THEN 2 ELSE 1]>>]

\* Every client its own files, the second of c1 replacing the first.
mcApart  == [c \in Client |->
               IF c = c1 THEN <<File3, [File3 EXCEPT !.size = 2]>> ELSE <<File1>>]

\* The targets of every client in the same order, or of c2 in reverse.
mcDest   == [c \in Client |-> [i \in Target |-> <<s1, s2, s3>>[i + 1]]]
mcCross  == [c \in Client |-> [i \in Target |->
               IF c = c2 THEN <<s1, s2>>[N - i] ELSE <<s1, s2>>[i + 1]]]
=============================================================================
