---------------------------- MODULE MessageProofs ---------------------------
(***************************************************************************)
(* Proofs about module Message: whatever the fragments, what the receiver  *)
(* has is a cut of the cells of the message being sent.                    *)
(***************************************************************************)
EXTENDS Message, SequenceTheorems, TLAPS

-----------------------------------------------------------------------------
(* Cuts of a sequence.                                                     *)

\* The smaller of two numbers, as Fill takes it.
LEMMA MinOfTwo ==
  ASSUME NEW a \in Int, NEW b \in Int
  PROVE  Min({a, b}) = IF a < b THEN a ELSE b
<1> DEFINE x == IF a < b THEN a ELSE b
<1>1. x \in {a, b} /\ \A y \in {a, b} : x <= y
  OBVIOUS
<1>2. \A z \in {a, b} : (\A y \in {a, b} : z <= y) => z = x
  OBVIOUS
<1> HIDE DEF x
<1>3. Min({a, b}) = x
  BY <1>1, <1>2 DEF Min
<1> QED
  BY <1>3 DEF x

\* A cut of a cut.
LEMMA CutOfCut ==
  ASSUME NEW S, NEW W \in Seq(S), NEW q \in Nat, NEW c \in 0..Len(W), q <= c,
         NEW i \in Nat \ {0}, NEW j \in Int, j <= c - q
  PROVE  SubSeq(SubSeq(W, q + 1, c), i, j) = SubSeq(W, q + i, q + j)
<1>1. \A k \in (q+1)..c : W[k] \in S
  BY ElementOfSeq
<1>2. PICK V : V = SubSeq(W, q + 1, c)
  OBVIOUS
<1>3. /\ V \in Seq(S) /\ Len(V) = c - q
      /\ \A k \in 1..(c - q) : V[k] = W[q + k]
  <2>1. /\ SubSeq(W, q + 1, c) \in Seq(S)
        /\ Len(SubSeq(W, q + 1, c)) = IF q + 1 <= c THEN c - (q + 1) + 1 ELSE 0
        /\ \A k \in 1..(c - (q + 1) + 1) : SubSeq(W, q + 1, c)[k] = W[q + 1 + k - 1]
    BY <1>1, SubSeqProperties
  <2> QED
    BY <2>1, <1>2
<1>4. \A k \in i..j : V[k] \in S
  BY <1>3, ElementOfSeq
<1>5. /\ SubSeq(V, i, j) \in Seq(S)
      /\ Len(SubSeq(V, i, j)) = IF i <= j THEN j - i + 1 ELSE 0
      /\ \A k \in 1..(j - i + 1) : SubSeq(V, i, j)[k] = V[i + k - 1]
  BY <1>4, SubSeqProperties
<1>6. \A k \in (q+i)..(q+j) : W[k] \in S
  BY ElementOfSeq
<1>7. /\ SubSeq(W, q + i, q + j) \in Seq(S)
      /\ Len(SubSeq(W, q + i, q + j)) = IF q + i <= q + j THEN q + j - (q + i) + 1 ELSE 0
      /\ \A k \in 1..(q + j - (q + i) + 1) : SubSeq(W, q + i, q + j)[k] = W[q + i + k - 1]
  BY <1>6, SubSeqProperties
<1>8. PICK x : x = SubSeq(V, i, j)
  OBVIOUS
<1>9. PICK y : y = SubSeq(W, q + i, q + j)
  OBVIOUS
<1>10. /\ x \in Seq(S) /\ y \in Seq(S) /\ Len(x) = Len(y)
       /\ \A k \in 1..Len(x) : x[k] = y[k]
  <2>1. Len(x) = (IF i <= j THEN j - i + 1 ELSE 0) /\ Len(y) = Len(x)
    BY <1>5, <1>7, <1>8, <1>9
  <2>2. ASSUME NEW k \in 1..Len(x) PROVE x[k] = y[k]
    <3>1. k \in 1..(j - i + 1) /\ k \in 1..(q + j - (q + i) + 1) /\ i + k - 1 \in 1..(c - q)
      BY <2>1
    <3>2. x[k] = V[i + k - 1] /\ y[k] = W[q + i + k - 1]
      BY <3>1, <1>5, <1>7, <1>8, <1>9
    <3>3. V[i + k - 1] = W[q + (i + k - 1)]
      BY <3>1, <1>3
    <3>4. q + (i + k - 1) = q + i + k - 1
      OBVIOUS
    <3> QED
      BY <3>2, <3>3, <3>4
  <2> QED
    BY <1>5, <1>7, <1>8, <1>9, <2>1, <2>2
<1>11. x = y
  BY <1>10, SeqEqual
<1> QED
  BY <1>2, <1>8, <1>9, <1>11

\* Two cuts that meet make one.
LEMMA CutsJoin ==
  ASSUME NEW S, NEW W \in Seq(S), NEW a \in Nat \ {0}, NEW p \in Nat, NEW d \in Int,
         a <= p + 1, p <= Len(W), d <= Len(W)
  PROVE  SubSeq(W, a, p) \o SubSeq(W, p + 1, d) = SubSeq(W, a, IF d < p THEN p ELSE d)
<1> DEFINE e == IF d < p THEN p ELSE d
<1>e. e \in Nat /\ p <= e /\ e <= Len(W) /\ (d < p => e = p) /\ (p <= d => e = d)
  OBVIOUS
<1> HIDE DEF e
<1>1. /\ \A k \in a..p : W[k] \in S
      /\ \A k \in (p+1)..d : W[k] \in S
      /\ \A k \in a..e : W[k] \in S
  BY <1>e, ElementOfSeq
<1>2. PICK x : x = SubSeq(W, a, p)
  OBVIOUS
<1>3. PICK y : y = SubSeq(W, p + 1, d)
  OBVIOUS
<1>4. PICK z : z = SubSeq(W, a, e)
  OBVIOUS
<1>5. /\ x \in Seq(S) /\ Len(x) = (IF a <= p THEN p - a + 1 ELSE 0)
      /\ \A k \in 1..(p - a + 1) : x[k] = W[a + k - 1]
  BY <1>1, <1>2, SubSeqProperties
<1>6. /\ y \in Seq(S) /\ Len(y) = (IF p + 1 <= d THEN d - (p + 1) + 1 ELSE 0)
      /\ \A k \in 1..(d - (p + 1) + 1) : y[k] = W[p + 1 + k - 1]
  BY <1>1, <1>3, SubSeqProperties
<1>7. /\ z \in Seq(S) /\ Len(z) = (IF a <= e THEN e - a + 1 ELSE 0)
      /\ \A k \in 1..(e - a + 1) : z[k] = W[a + k - 1]
  BY <1>1, <1>4, <1>e, SubSeqProperties
<1>8. /\ x \o y \in Seq(S) /\ Len(x \o y) = Len(x) + Len(y)
      /\ \A k \in 1..Len(x) + Len(y) :
           (x \o y)[k] = IF k <= Len(x) THEN x[k] ELSE y[k - Len(x)]
  BY <1>5, <1>6, ConcatProperties
<1>9. PICK w : w = x \o y
  OBVIOUS
<1>10. Len(x) = p - a + 1 /\ Len(y) = e - p /\ Len(z) = e - a + 1
  <2>1. PICK lx, ly, lz : lx = Len(x) /\ ly = Len(y) /\ lz = Len(z)
    OBVIOUS
  <2>2. /\ lx = (IF a <= p THEN p - a + 1 ELSE 0)
        /\ ly = (IF p + 1 <= d THEN d - (p + 1) + 1 ELSE 0)
        /\ lz = (IF a <= e THEN e - a + 1 ELSE 0)
    BY <1>5, <1>6, <1>7, <2>1, Zenon
  <2>3. lx = p - a + 1 /\ ly = e - p /\ lz = e - a + 1
    BY <2>2, <1>e
  <2> QED BY <2>1, <2>3
<1>11. Len(w) = Len(z)
  <2>1. Len(w) = Len(x) + Len(y)
    BY <1>8, <1>9, Zenon
  <2>2. (p - a + 1) + (e - p) = e - a + 1
    BY <1>e
  <2> QED BY <1>10, <2>1, <2>2, Zenon
<1>12. ASSUME NEW k \in 1..Len(w) PROVE w[k] = z[k]
  <2>0. k \in 1..(e - a + 1) /\ k \in 1..Len(x) + Len(y)
    BY <1>11, <1>10, <1>8, <1>9
  <2>1. z[k] = W[a + k - 1]
    BY <2>0, <1>7
  <2>2. CASE k <= Len(x)
    <3>1. k \in 1..(p - a + 1)
      BY <2>2, <1>10, <2>0
    <3> QED
      BY <3>1, <2>0, <2>1, <2>2, <1>5, <1>8, <1>9
  <2>3. CASE ~(k <= Len(x))
    <3>1. k - Len(x) \in 1..(d - (p + 1) + 1) /\ k - Len(x) = k - (p - a + 1)
      BY <2>0, <2>3, <1>10, <1>e
    <3>2. w[k] = y[k - Len(x)]
      BY <2>0, <2>3, <1>8, <1>9
    <3>3. y[k - Len(x)] = W[p + 1 + (k - Len(x)) - 1]
      BY <3>1, <1>6
    <3>4. p + 1 + (k - Len(x)) - 1 = a + k - 1
      BY <3>1
    <3> QED
      BY <3>2, <3>3, <3>4, <2>1
  <2> QED
    BY <2>2, <2>3
<1>13. w = z
  BY <1>5, <1>6, <1>7, <1>8, <1>9, <1>11, <1>12, SeqEqual
<1> QED
  BY <1>2, <1>3, <1>4, <1>9, <1>13 DEF e

\* Len of a cut.
LEMMA LenOfCut ==
  ASSUME NEW S, NEW W \in Seq(S), NEW a \in Nat \ {0}, NEW p \in Nat, a <= p + 1, p <= Len(W)
  PROVE  Len(SubSeq(W, a, p)) = p - a + 1 /\ SubSeq(W, a, p) \in Seq(S)
<1>1. \A k \in a..p : W[k] \in S
  BY ElementOfSeq
<1>2. /\ SubSeq(W, a, p) \in Seq(S)
      /\ Len(SubSeq(W, a, p)) = IF a <= p THEN p - a + 1 ELSE 0
  BY <1>1, SubSeqProperties
<1> QED
  BY <1>2

\* Fill and Left, for a part of N cells of W that starts at a and is there up
\* to cell p, and a fragment with the cells q+1..c: the part grows by what
\* the fragment has of its cells, and the rest of the fragment is left.
Grows(W, a, N, p, q, c) ==
  /\ Fill(SubSeq(W, a, p), N, SubSeq(W, q + 1, c))
       = SubSeq(W, a, IF c < a + N - 1 THEN c ELSE a + N - 1)
  /\ Left(SubSeq(W, a, p), N, SubSeq(W, q + 1, c))
       = SubSeq(W, (IF q < a + N - 1 THEN a + N - 1 ELSE q) + 1, c)

\* It is so when the fragment begins where the part ends, or the part is
\* complete.
LEMMA FillCuts ==
  ASSUME NEW S, NEW W \in Seq(S), NEW a \in Nat \ {0}, NEW p \in Nat, NEW q \in Nat,
         NEW c \in Nat, NEW N \in Nat,
         a <= p + 1, p <= a + N - 1, p <= q, q <= c, c <= Len(W),
         p = q \/ p = a + N - 1
  PROVE  Grows(W, a, N, p, q, c)
<1>1. PICK x : x = SubSeq(W, a, p)
  OBVIOUS
<1>2. PICK y : y = SubSeq(W, q + 1, c)
  OBVIOUS
<1>3. Len(x) = p - a + 1 /\ Len(y) = c - q
  <2>1. Len(SubSeq(W, a, p)) = p - a + 1
    BY LenOfCut
  <2>2. Len(SubSeq(W, q + 1, c)) = c - (q + 1) + 1
    <3>1. q + 1 \in Nat \ {0} /\ q + 1 <= c + 1
      OBVIOUS
    <3> QED
      BY <3>1, LenOfCut
  <2> QED
    BY <2>1, <2>2, <1>1, <1>2
<1>4. PICK l \in Int : l = N - Len(x)
  BY <1>3
<1>j. (IF l < c - q THEN l ELSE c - q) \in Int
  OBVIOUS
<1>5. PICK j \in Int : j = IF l < c - q THEN l ELSE c - q
  BY <1>j
<1>6. Min({N - Len(x), Len(y)}) = j
  BY <1>3, <1>4, <1>5, MinOfTwo
<1>7. SubSeq(y, 1, j) = SubSeq(W, q + 1, q + j)
  <2>1. c \in 0..Len(W) /\ j <= c - q /\ 1 \in Nat \ {0}
    BY <1>5
  <2> QED
    BY <2>1, <1>2, CutOfCut
<1>8. Fill(x, N, y) = SubSeq(W, a, IF c < a + N - 1 THEN c ELSE a + N - 1)
  <2>1. Fill(x, N, y) = SubSeq(W, a, p) \o SubSeq(W, q + 1, q + j)
    BY <1>1, <1>6, <1>7 DEF Fill
  <2>2. CASE p = q
    <3>1. PICK d \in Int : d = q + j
      OBVIOUS
    <3>2. d <= Len(W) /\ p <= d
      BY <3>1, <2>2, <1>3, <1>4, <1>5
    <3>3. (IF d < p THEN p ELSE d) = IF c < a + N - 1 THEN c ELSE a + N - 1
      BY <3>1, <2>2, <1>3, <1>4, <1>5
    <3>4. SubSeq(W, a, p) \o SubSeq(W, p + 1, d) = SubSeq(W, a, IF d < p THEN p ELSE d)
      BY <3>2, CutsJoin
    <3> QED
      BY <2>1, <2>2, <3>1, <3>3, <3>4
  <2>3. CASE p = a + N - 1 /\ p # q
    <3>1. j = 0 /\ l = 0
      BY <2>3, <1>3, <1>4, <1>5
    <3>2. SubSeq(W, q + 1, q + j) = <<>>
      <4>1. q + 1 \in Int /\ q + j \in Int /\ q + j < q + 1
        BY <3>1
      <4> QED
        BY <4>1, SubSeqEmpty
    <3>3. SubSeq(W, a, p) \in Seq(S)
      BY LenOfCut
    <3>4. SubSeq(W, a, p) \o <<>> = SubSeq(W, a, p)
      BY <3>3, ConcatEmptySeq
    <3>5. (IF c < a + N - 1 THEN c ELSE a + N - 1) = p
      BY <2>3
    <3> QED
      BY <2>1, <3>2, <3>4, <3>5
  <2> QED
    BY <2>2, <2>3
<1>9. Left(x, N, y) = SubSeq(W, (IF q < a + N - 1 THEN a + N - 1 ELSE q) + 1, c)
  <2>1. Left(x, N, y) = SubSeq(y, l + 1, c - q)
    BY <1>3, <1>4 DEF Left
  <2>2. l \in Nat
    BY <1>3, <1>4
  <2>3. SubSeq(y, l + 1, c - q) = SubSeq(W, q + (l + 1), q + (c - q))
    <3>1. l + 1 \in Nat \ {0} /\ c - q \in Int /\ c - q <= c - q /\ c \in 0..Len(W)
      BY <2>2
    <3> QED
      BY <3>1, <1>2, CutOfCut
  <2>4. q + (l + 1) = (IF q < a + N - 1 THEN a + N - 1 ELSE q) + 1
    BY <1>3, <1>4
  <2>5. q + (c - q) = c
    OBVIOUS
  <2> QED
    BY <2>1, <2>3, <2>4, <2>5
<1> QED
  BY <1>1, <1>2, <1>8, <1>9 DEF Grows
-----------------------------------------------------------------------------
(* The cells of a message.                                                 *)

Cells(m)   == Encode(m, <<>>).wire
BodyLen(m) == Len(EncodeBody(m.cmd, m.f))

\* Places in the list of targets.
LEMMA ThreeEach ==
  ASSUME NEW k \in Nat \ {0}
  PROVE  /\ (((3*k - 2) - 1) \div 3) + 1 = k /\ (((3*k - 2) - 1) % 3) + 1 = 1
         /\ (((3*k - 1) - 1) \div 3) + 1 = k /\ (((3*k - 1) - 1) % 3) + 1 = 2
         /\ ((3*k - 1) \div 3) + 1 = k /\ ((3*k - 1) % 3) + 1 = 3
OBVIOUS

\* The targets of a message as cells, three for each.
LEMMA TargetCells ==
  ASSUME NEW T, NEW ts \in Seq(T),
         \A t \in T : t = [n \in {"host", "port", "file_token"} |-> t[n]]
  PROVE  /\ \E S : EncodeTargets(ts) \in Seq(S)
         /\ Len(EncodeTargets(ts)) = 3 * Len(ts)
         /\ \A k \in 1..Len(ts) :
              [host |-> EncodeTargets(ts)[3*k - 2], port |-> EncodeTargets(ts)[3*k - 1],
               file_token |-> EncodeTargets(ts)[3*k]] = ts[k]
<1> DEFINE e == EncodeTargets(ts)
           val(j) == EncodeTarget(ts[((j-1) \div 3) + 1])[((j-1) % 3) + 1]
           n == 3 * Len(ts)
<1>1. e = [j \in 1..n |-> val(j)]
  BY DEF EncodeTargets
<1>2. n \in Nat
  OBVIOUS
<1> HIDE DEF val, n, e
<1>3. e \in Seq({val(j) : j \in 1..n}) /\ Len(e) = n
  BY <1>1, <1>2
<1>4. ASSUME NEW k \in 1..Len(ts)
      PROVE  [host |-> e[3*k - 2], port |-> e[3*k - 1], file_token |-> e[3*k]] = ts[k]
  <2>1. 3*k - 2 \in 1..n /\ 3*k - 1 \in 1..n /\ 3*k \in 1..n
    BY DEF n
  <2>2. e[3*k - 2] = val(3*k - 2) /\ e[3*k - 1] = val(3*k - 1) /\ e[3*k] = val(3*k)
    BY <1>1, <2>1
  <2>3. /\ (((3*k - 2) - 1) \div 3) + 1 = k /\ (((3*k - 2) - 1) % 3) + 1 = 1
        /\ (((3*k - 1) - 1) \div 3) + 1 = k /\ (((3*k - 1) - 1) % 3) + 1 = 2
        /\ ((3*k - 1) \div 3) + 1 = k /\ ((3*k - 1) % 3) + 1 = 3
    <3>1. k \in Nat \ {0}
      OBVIOUS
    <3> QED
      BY <3>1, ThreeEach
  <2>4. /\ val(3*k - 2) = EncodeTarget(ts[k])[1]
        /\ val(3*k - 1) = EncodeTarget(ts[k])[2]
        /\ val(3*k) = EncodeTarget(ts[k])[3]
    BY <2>3 DEF val
  <2>5. /\ e[3*k - 2] = ts[k].host /\ e[3*k - 1] = ts[k].port
        /\ e[3*k] = ts[k].file_token
    BY <2>2, <2>4 DEF EncodeTarget
  <2>6. ts[k] = [x \in {"host", "port", "file_token"} |-> ts[k][x]]
    BY ElementOfSeq
  <2>7. [host |-> ts[k].host, port |-> ts[k].port, file_token |-> ts[k].file_token]
          = [x \in {"host", "port", "file_token"} |-> ts[k][x]]
    OBVIOUS
  <2> QED
    BY <2>5, <2>6, <2>7
<1> QED
  BY <1>3, <1>4 DEF n, e

\* The fields of a message come out of its body as they went in.
LEMMA BodyDecodes ==
  ASSUME NEW m \in Messages
  PROVE  /\ m.cmd \in Commands
         /\ m.f # NoFields
         /\ DecodeBody(m.cmd, EncodeBody(m.cmd, m.f)) = m.f
         /\ \E S : EncodeBody(m.cmd, m.f) \in Seq(S)
<1> DEFINE f == m.f
           b == EncodeBody(m.cmd, m.f)
<1>1. IsMessage(m)
  BY MessageAssumption
<1>2. f = [n \in FieldsOf[m.cmd] |-> f[n]] /\ m.cmd \in Commands
  BY <1>1 DEF IsMessage
<1>3. f # NoFields
  <2>1. DOMAIN f = FieldsOf[m.cmd]
    BY <1>2
  <2>2. "bad" \notin FieldsOf[m.cmd]
    BY <1>2 DEF FieldsOf, Commands
  <2>3. DOMAIN NoFields = {"bad"}
    BY DEF NoFields
  <2> QED
    BY <2>1, <2>2, <2>3
<1>4. CASE m.cmd = "create"
  <2>1. FieldsOf[m.cmd] = {"chunk_size", "file_perm", "file_size", "partition",
                           "relative_path", "file_name"}
    BY <1>4 DEF FieldsOf
  <2>2. f = [chunk_size |-> f.chunk_size, file_perm |-> f.file_perm,
             file_size |-> f.file_size, partition |-> f.partition,
             relative_path |-> f.relative_path, file_name |-> f.file_name]
    BY <1>2, <2>1
  <2>3. b = <<f.chunk_size, f.file_perm, f.file_size, f.partition, f.relative_path,
              f.file_name>>
    BY <1>4 DEF EncodeBody
  <2>4. Len(b) = 6
    BY <2>3
  <2>5. DecodeBody(m.cmd, b) = f
    <3> HIDE DEF b
    <3> QED
      BY <1>4, <2>2, <2>3, <2>4 DEF DecodeBody
  <2>6. b \in Seq({f.chunk_size, f.file_perm, f.file_size, f.partition, f.relative_path,
                   f.file_name})
    BY <2>3
  <2> QED
    BY <1>2, <1>3, <2>5, <2>6
<1>5. CASE m.cmd = "send"
  <2>1. FieldsOf[m.cmd] = {"max_chain_len", "compress_type", "origin_size", "crc32",
                           "offset", "file_token"}
    BY <1>5 DEF FieldsOf
  <2>2. f = [max_chain_len |-> f.max_chain_len, compress_type |-> f.compress_type,
             origin_size |-> f.origin_size, crc32 |-> f.crc32, offset |-> f.offset,
             file_token |-> f.file_token]
    BY <1>2, <2>1
  <2>3. b = <<f.max_chain_len, f.compress_type, f.origin_size, f.crc32, f.offset,
              f.file_token>>
    BY <1>5 DEF EncodeBody
  <2>4. Len(b) = 6
    BY <2>3
  <2>5. DecodeBody(m.cmd, b) = f
    <3> HIDE DEF b
    <3> QED
      BY <1>5, <2>2, <2>3, <2>4 DEF DecodeBody
  <2>6. b \in Seq({f.max_chain_len, f.compress_type, f.origin_size, f.crc32, f.offset,
                   f.file_token})
    BY <2>3
  <2> QED
    BY <1>2, <1>3, <2>5, <2>6
<1>6. CASE m.cmd = "close"
  <2>1. FieldsOf[m.cmd] = {"wait_close", "file_token"}
    BY <1>6 DEF FieldsOf
  <2>2. f = [wait_close |-> f.wait_close, file_token |-> f.file_token]
    BY <1>2, <2>1
  <2>3. b = <<f.wait_close, f.file_token>> /\ Len(b) = 2
    BY <1>6 DEF EncodeBody
  <2>4. b \in Seq({f.wait_close, f.file_token})
    BY <2>3
  <2>5. DecodeBody(m.cmd, b) = f
    <3> HIDE DEF b
    <3> QED
      BY <1>6, <2>2, <2>3 DEF DecodeBody
  <2> QED
    BY <1>2, <1>3, <2>4, <2>5
<1>7. CASE m.cmd \in {"create_resp", "delete"}
  <2>1. FieldsOf[m.cmd] = {"file_token"}
    BY <1>7 DEF FieldsOf
  <2>2. f = [file_token |-> f.file_token]
    BY <1>2, <2>1
  <2>3. b = <<f.file_token>> /\ Len(b) = 1
    BY <1>7 DEF EncodeBody
  <2>4. b \in Seq({f.file_token})
    BY <2>3
  <2>5. DecodeBody(m.cmd, b) = f
    <3> HIDE DEF b
    <3> QED
      BY <1>7, <2>2, <2>3 DEF DecodeBody
  <2> QED
    BY <1>2, <1>3, <2>4, <2>5
<1>8. CASE m.cmd = "resp"
  <2>1. FieldsOf[m.cmd] = {}
    BY <1>8 DEF FieldsOf
  <2>2. f = <<>>
    <3>1. f = [n \in {} |-> f[n]]
      BY <1>2, <2>1
    <3> QED
      BY <3>1
  <2>3. b = <<>> /\ b \in Seq({})
    BY <1>8 DEF EncodeBody
  <2>4. DecodeBody(m.cmd, b) = f
    <3> HIDE DEF b
    <3> QED
      BY <1>8, <2>2, <2>3 DEF DecodeBody
  <2> QED
    BY <1>2, <1>3, <2>3, <2>4
<1>9. CASE m.cmd = "chain"
  <2> DEFINE ts == f.targets
             T == ToSet(ts)
             e == EncodeTargets(ts)
  <2>1. FieldsOf[m.cmd] = {"file_token", "targets"}
    BY <1>9 DEF FieldsOf
  <2>2. f = [file_token |-> f.file_token, targets |-> ts]
    BY <1>2, <2>1
  <2>3. /\ ts \in Seq(T)
        /\ \A t \in T : t = [n \in {"host", "port", "file_token"} |-> t[n]]
    BY <1>1, <1>9 DEF IsMessage
  <2> HIDE DEF T
  <2>4. /\ \E S : e \in Seq(S)
        /\ Len(e) = 3 * Len(ts)
        /\ \A k \in 1..Len(ts) :
             [host |-> e[3*k - 2], port |-> e[3*k - 1], file_token |-> e[3*k]] = ts[k]
    BY <2>3, TargetCells
  <2>5. b = <<f.file_token, Len(ts)>> \o e
    BY <1>9 DEF EncodeBody
  <2> HIDE DEF ts, e, b
  <2>6. PICK S : e \in Seq(S)
    BY <2>4
  <2> DEFINE R == S \cup {f.file_token, Len(ts)}
             h == <<f.file_token, Len(ts)>>
  <2>7. e \in Seq(R) /\ h \in Seq(R) /\ Len(h) = 2
    <3>1. S \subseteq R
      OBVIOUS
    <3> QED
      BY <2>6, <3>1, SeqMonotonic
  <2>h. h[1] = f.file_token /\ h[2] = Len(ts)
    OBVIOUS
  <2> HIDE DEF R, h
  <2>8. /\ h \o e \in Seq(R) /\ Len(h \o e) = Len(h) + Len(e)
        /\ \A i \in 1..Len(h) + Len(e) :
             (h \o e)[i] = IF i <= Len(h) THEN h[i] ELSE e[i - Len(h)]
    BY <2>7, ConcatProperties
  <2>9. b = h \o e
    BY <2>5 DEF h
  <2>l. Len(ts) \in Nat
    BY <2>3
  <2>10. /\ Len(b) = 2 + 3 * Len(ts) /\ b \in Seq(R)
         /\ b[1] = f.file_token /\ b[2] = Len(ts)
         /\ \A i \in 1..(3 * Len(ts)) : b[i + 2] = e[i]
    BY <2>4, <2>7, <2>8, <2>9, <2>h, <2>l
  <2>11. ASSUME NEW k \in 1..Len(ts)
         PROVE  [host |-> b[3*k], port |-> b[3*k + 1], file_token |-> b[3*k + 2]] = ts[k]
    <3>1. /\ 3*k - 2 \in 1..(3 * Len(ts)) /\ 3*k - 1 \in 1..(3 * Len(ts))
          /\ 3*k \in 1..(3 * Len(ts))
          /\ (3*k - 2) + 2 = 3*k /\ (3*k - 1) + 2 = 3*k + 1
      BY <2>l
    <3>2. b[3*k] = e[3*k - 2] /\ b[3*k + 1] = e[3*k - 1] /\ b[3*k + 2] = e[3*k]
      BY <2>10, <3>1
    <3> QED
      BY <2>4, <3>2
  <2> DEFINE d == [k \in 1..Len(ts) |->
                     [host |-> b[3*k], port |-> b[3*k + 1], file_token |-> b[3*k + 2]]]
  <2>12. d = ts
    <3>1. ts = [k \in 1..Len(ts) |-> ts[k]]
      BY <2>3
    <3> QED
      BY <2>11, <3>1
  <2>13. DecodeBody(m.cmd, b) = [file_token |-> b[1],
               targets |-> [k \in 1..b[2] |->
                              [host |-> b[3*k], port |-> b[3*k + 1],
                               file_token |-> b[3*k + 2]]]]
    <3>1. ~(Len(b) < 2 \/ Len(b) # 2 + 3 * b[2])
      BY <2>10, <2>l
    <3> QED
      BY <1>9, <3>1 DEF DecodeBody
  <2>14. DecodeBody(m.cmd, b) = [file_token |-> f.file_token, targets |-> d]
    BY <2>13, <2>10
  <2>15. DecodeBody(m.cmd, b) = f
    BY <2>2, <2>12, <2>14
  <2> QED
    BY <1>2, <1>3, <2>10, <2>15 DEF b
<1> QED
  BY <1>2, <1>4, <1>5, <1>6, <1>7, <1>8, <1>9 DEF Commands, FieldsOf

\* The cells and the parts of three sequences in a row.
LEMMA ThreeParts ==
  ASSUME NEW R, NEW h \in Seq(R), NEW b \in Seq(R), NEW d \in Seq(R)
  PROVE  /\ (h \o b) \o d \in Seq(R)
         /\ Len((h \o b) \o d) = Len(h) + Len(b) + Len(d)
         /\ \A i \in 1..Len(h) : ((h \o b) \o d)[i] = h[i]
         /\ SubSeq((h \o b) \o d, Len(h) + 1, Len(h) + Len(b)) = b
         /\ SubSeq((h \o b) \o d, Len(h) + Len(b) + 1, Len(h) + Len(b) + Len(d)) = d
<1>1. PICK W : W = (h \o b) \o d
  OBVIOUS
<1>2. PICK H, B, D : H = Len(h) /\ B = Len(b) /\ D = Len(d)
  OBVIOUS
<1>7. H \in Nat /\ B \in Nat /\ D \in Nat
  BY <1>2
<1>8. PICK x : x = h \o b
  OBVIOUS
<1>9. /\ x \in Seq(R) /\ Len(x) = H + B
      /\ \A i \in 1..(H + B) : x[i] = IF i <= H THEN h[i] ELSE b[i - H]
  BY <1>2, <1>8, ConcatProperties
<1>10. /\ W \in Seq(R) /\ Len(W) = H + B + D
       /\ \A i \in 1..(H + B + D) : W[i] = IF i <= H + B THEN x[i] ELSE d[i - (H + B)]
  BY <1>1, <1>2, <1>8, <1>9, ConcatProperties
<1>11. \A i \in 1..H : W[i] = h[i]
  BY <1>7, <1>9, <1>10
<1>12. ASSUME NEW i \in 1..B PROVE W[H + i] = b[i]
  <2>1. /\ H + i \in 1..(H + B + D) /\ H + i \in 1..(H + B) /\ ~(H + i <= H)
        /\ H + i <= H + B /\ (H + i) - H = i
    BY <1>7
  <2> QED
    BY <2>1, <1>9, <1>10
<1>13. ASSUME NEW i \in 1..D PROVE W[H + B + i] = d[i]
  <2>1. /\ H + B + i \in 1..(H + B + D) /\ ~(H + B + i <= H + B)
        /\ (H + B + i) - (H + B) = i
    BY <1>7
  <2> QED
    BY <2>1, <1>10
<1>14. \A i \in 1..Len(W) : W[i] \in R
  BY <1>10, ElementOfSeq
<1>15. SubSeq(W, H + 1, H + B) = b
  <2>1. PICK y : y = SubSeq(W, H + 1, H + B)
    OBVIOUS
  <2>2. \A i \in (H + 1)..(H + B) : W[i] \in R
    BY <1>7, <1>10, <1>14
  <2>3. /\ y \in Seq(R) /\ Len(y) = (IF H + 1 <= H + B THEN H + B - (H + 1) + 1 ELSE 0)
        /\ \A i \in 1..(H + B - (H + 1) + 1) : y[i] = W[H + 1 + i - 1]
    BY <1>7, <2>1, <2>2, SubSeqProperties
  <2>4. Len(y) = Len(b)
    BY <1>2, <1>7, <2>3
  <2>5. ASSUME NEW i \in 1..Len(b) PROVE y[i] = b[i]
    <3>1. /\ i \in 1..B /\ i \in 1..(H + B - (H + 1) + 1)
          /\ H + 1 + i - 1 = H + i
      BY <1>2, <1>7
    <3> QED
      BY <3>1, <2>3, <1>12
  <2>6. \A i \in 1..Len(y) : y[i] = b[i]
    BY <2>4, <2>5
  <2> QED
    BY <2>1, <2>3, <2>4, <2>6, SeqEqual
<1>16. SubSeq(W, H + B + 1, H + B + D) = d
  <2>0. PICK a, e \in Nat : a = H + B + 1 /\ e = H + B + D
    BY <1>7
  <2>1. PICK y : y = SubSeq(W, a, e)
    OBVIOUS
  <2>2. \A i \in a..e : W[i] \in R
    BY <1>7, <1>10, <1>14, <2>0
  <2>3. /\ y \in Seq(R) /\ Len(y) = (IF a <= e THEN e - a + 1 ELSE 0)
        /\ \A i \in 1..(e - a + 1) : y[i] = W[a + i - 1]
    BY <2>1, <2>2, SubSeqProperties
  <2>4. Len(y) = Len(d)
    BY <1>2, <1>7, <2>0, <2>3
  <2>5. ASSUME NEW i \in 1..Len(d) PROVE y[i] = d[i]
    <3>1. i \in 1..D /\ i \in 1..(e - a + 1) /\ a + i - 1 = H + B + i
      BY <1>2, <1>7, <2>0
    <3> QED
      BY <3>1, <2>3, <1>13
  <2>6. \A i \in 1..Len(y) : y[i] = d[i]
    BY <2>4, <2>5
  <2> QED
    BY <2>0, <2>1, <2>3, <2>4, <2>6, SeqEqual
<1> QED
  BY <1>1, <1>2, <1>10, <1>11, <1>15, <1>16

\* What an encoded message is made of, when no body of an earlier try is in
\* the way: six cells of header, the body, the data.
LEMMA CellsOf ==
  ASSUME NEW m \in Messages
  PROVE  /\ \E S : Cells(m) \in Seq(S)
         /\ BodyLen(m) \in Nat /\ Len(m.data) \in Nat
         /\ Len(Cells(m)) = HeaderSize + BodyLen(m) + Len(m.data)
         /\ Cells(m)[1] = "MAGIC" /\ Cells(m)[2] = "VERSION"
         /\ Cells(m)[3] = m.cmd /\ Cells(m)[4] = m.error
         /\ Cells(m)[5] = BodyLen(m) /\ Cells(m)[6] = Len(m.data)
         /\ SubSeq(Cells(m), HeaderSize + 1, HeaderSize + BodyLen(m))
              = EncodeBody(m.cmd, m.f)
         /\ SubSeq(Cells(m), HeaderSize + BodyLen(m) + 1, Len(Cells(m))) = m.data
<1>0. PICK b : b = EncodeBody(m.cmd, m.f)
  OBVIOUS
<1>1. PICK S : b \in Seq(S)
  BY <1>0, BodyDecodes
<1>2. PICK T : m.data \in Seq(T)
  BY MessageAssumption DEF IsMessage
<1> DEFINE h == <<"MAGIC", "VERSION", m.cmd, m.error, Len(b), Len(m.data)>>
           R == {"MAGIC", "VERSION", m.cmd, m.error, Len(b), Len(m.data)} \cup S \cup T
<1>3. BodyLen(m) = Len(b) /\ HeaderSize = 6
  BY <1>0 DEF BodyLen, HeaderSize
<1>4. Cells(m) = (h \o b) \o m.data
  BY <1>0 DEF Cells, Encode
<1>5. /\ Len(h) = 6 /\ h \in Seq(R) /\ h[1] = "MAGIC" /\ h[2] = "VERSION" /\ h[3] = m.cmd
      /\ h[4] = m.error /\ h[5] = Len(b) /\ h[6] = Len(m.data)
  OBVIOUS
<1>6. b \in Seq(R) /\ m.data \in Seq(R)
  <2>1. S \subseteq R /\ T \subseteq R
    OBVIOUS
  <2> QED
    BY <1>1, <1>2, <2>1, SeqMonotonic
<1>7. Len(b) \in Nat /\ Len(m.data) \in Nat
  BY <1>1, <1>2
<1> HIDE DEF h, R
<1>w. PICK g, Q, d, W : g = h /\ Q = R /\ d = m.data /\ W = (g \o b) \o d
  OBVIOUS
<1>c. W = Cells(m)
  BY <1>4, <1>w
<1>8. /\ W \in Seq(Q) /\ Len(W) = Len(g) + Len(b) + Len(d)
      /\ \A i \in 1..Len(g) : W[i] = g[i]
      /\ SubSeq(W, Len(g) + 1, Len(g) + Len(b)) = b
      /\ SubSeq(W, Len(g) + Len(b) + 1, Len(g) + Len(b) + Len(d)) = d
  <2>1. g \in Seq(Q) /\ b \in Seq(Q) /\ d \in Seq(Q)
    BY <1>5, <1>6, <1>w
  <2>2. /\ (g \o b) \o d \in Seq(Q)
        /\ Len((g \o b) \o d) = Len(g) + Len(b) + Len(d)
        /\ \A i \in 1..Len(g) : ((g \o b) \o d)[i] = g[i]
        /\ SubSeq((g \o b) \o d, Len(g) + 1, Len(g) + Len(b)) = b
        /\ SubSeq((g \o b) \o d, Len(g) + Len(b) + 1, Len(g) + Len(b) + Len(d)) = d
    BY <2>1, ThreeParts
  <2> QED
    BY <2>2, <1>w
<1>l. Len(g) = 6
  BY <1>5, <1>w
<1>9. /\ W[1] = g[1] /\ W[2] = g[2] /\ W[3] = g[3] /\ W[4] = g[4] /\ W[5] = g[5]
      /\ W[6] = g[6]
  BY <1>8, <1>l
<1>10. \E P : Cells(m) \in Seq(P)
  BY <1>8, <1>c
<1> QED
  BY <1>0, <1>3, <1>5, <1>7, <1>8, <1>9, <1>10, <1>w, <1>c, <1>l
-----------------------------------------------------------------------------
(* What the receiver has of a message.                                     *)

DataStart(m) == HeaderSize + BodyLen(m)

\* The receiver after the first k cells of m, k less than all of them; h is
\* what it has of the header.
PartialWith(m, k, h) ==
  [head |-> h,
   body |-> SubSeq(Cells(m), HeaderSize + 1, IF k < DataStart(m) THEN k ELSE DataStart(m)),
   data |-> SubSeq(Cells(m), DataStart(m) + 1, k), f |-> NoFields, st |-> "more"]

Partial(m, k) ==
  PartialWith(m, k, SubSeq(Cells(m), 1, IF k < HeaderSize THEN k ELSE HeaderSize))

TooLong(m) == ((BodyLen(m) + Len(m.data)) % LenWidth) + HeaderSize > SizeLimit

\* Before the first cell nothing is there.
LEMMA NothingYet ==
  ASSUME NEW m \in Messages
  PROVE  Partial(m, 0) = Fresh
<1>1. BodyLen(m) \in Nat /\ HeaderSize = 6 /\ DataStart(m) = 6 + BodyLen(m)
  BY CellsOf DEF HeaderSize, DataStart
<1>2. PICK e \in Nat : e = DataStart(m) /\ e >= 6
  BY <1>1
<1>3. /\ SubSeq(Cells(m), 1, 0) = <<>> /\ SubSeq(Cells(m), 6 + 1, 0) = <<>>
      /\ SubSeq(Cells(m), e + 1, 0) = <<>>
  BY <1>2, SubSeqEmpty
<1> QED
  BY <1>1, <1>2, <1>3 DEF Partial, PartialWith, Fresh

\* The header of a whole message.
LEMMA HeadOf ==
  ASSUME NEW m \in Messages, NEW h, h = SubSeq(Cells(m), 1, 6)
  PROVE  /\ Len(h) = 6 /\ h[3] = m.cmd /\ h[4] = m.error /\ h[5] = BodyLen(m)
         /\ h[6] = Len(m.data)
         /\ HeadRefused(h) <=> TooLong(m)
<1>1. PICK S : Cells(m) \in Seq(S)
  BY CellsOf
<1>2. PICK W : W = Cells(m)
  OBVIOUS
<1>3. /\ BodyLen(m) \in Nat /\ Len(m.data) \in Nat /\ HeaderSize = 6
      /\ Len(W) = 6 + BodyLen(m) + Len(m.data)
      /\ W[1] = "MAGIC" /\ W[2] = "VERSION" /\ W[3] = m.cmd /\ W[4] = m.error
      /\ W[5] = BodyLen(m) /\ W[6] = Len(m.data)
  BY <1>2, CellsOf DEF HeaderSize
<1>4. \A i \in 1..6 : W[i] \in S
  <2>1. \A i \in 1..6 : i \in 1..Len(W)
    BY <1>3
  <2> QED
    BY <1>1, <1>2, <2>1, ElementOfSeq
<1>5. /\ Len(SubSeq(W, 1, 6)) = (IF 1 <= 6 THEN 6 - 1 + 1 ELSE 0)
      /\ \A i \in 1..(6 - 1 + 1) : SubSeq(W, 1, 6)[i] = W[1 + i - 1]
  BY <1>4, SubSeqProperties
<1>6. Len(h) = 6 /\ \A i \in 1..6 : h[i] = W[i]
  <2>1. Len(h) = 6
    BY <1>2, <1>5
  <2>2. ASSUME NEW i \in 1..6 PROVE h[i] = W[i]
    <3>1. i \in 1..(6 - 1 + 1) /\ 1 + i - 1 = i
      OBVIOUS
    <3> QED
      BY <1>2, <1>5, <3>1
  <2> QED
    BY <2>1, <2>2
<1>7. /\ h[1] = W[1] /\ h[2] = W[2] /\ h[3] = W[3] /\ h[4] = W[4] /\ h[5] = W[5]
      /\ h[6] = W[6]
  BY <1>6
<1>8. HeadRefused(h) <=> TooLong(m)
  BY <1>3, <1>7, BodyDecodes DEF HeadRefused, TooLong
<1> QED
  BY <1>3, <1>6, <1>7, <1>8

\* The receiver after all cells of m.
Whole(m) ==
  [head |-> SubSeq(Cells(m), 1, HeaderSize), body |-> EncodeBody(m.cmd, m.f),
   data |-> m.data, f |-> m.f, st |-> "done"]

\* What append_body makes of the cells it has of the body and of the data,
\* called with the header complete and what the fragment has behind it.
Filled(W, B, D, E, k, c, j) ==
  LET b == SubSeq(W, 7, IF k < E THEN k ELSE E)
      buf == SubSeq(W, j + 1, c)
  IN /\ Fill(b, B, buf) = SubSeq(W, 7, IF c < E THEN c ELSE E)
     /\ Len(Fill(b, B, buf)) = (IF c < E THEN c ELSE E) - 6
     /\ E <= c => /\ Fill(SubSeq(W, E + 1, k), D, Left(b, B, buf)) = SubSeq(W, E + 1, c)
                  /\ Len(SubSeq(W, E + 1, c)) = c - E

\* Both grow by the cells of the fragment.
LEMMA PartsFilled ==
  ASSUME NEW S, NEW W \in Seq(S), NEW B \in Nat, NEW D \in Nat, NEW E \in Nat,
         NEW k \in Nat, NEW c \in Nat, NEW j \in Nat,
         E = 6 + B, Len(W) = E + D, k < c, 6 <= c, c <= E + D,
         j = IF k < 6 THEN 6 ELSE k
  PROVE  Filled(W, B, D, E, k, c, j)
<1>0. PICK L, bd, dt, buf :
        /\ L = E + D /\ buf = SubSeq(W, j + 1, c)
        /\ bd = SubSeq(W, 7, IF k < E THEN k ELSE E) /\ dt = SubSeq(W, E + 1, k)
  OBVIOUS
<1>l. L = Len(W) /\ L \in Nat /\ L = E + D /\ c <= L
  BY <1>0
<1>1. PICK i, p, u \in Nat : /\ i = (IF j < E THEN E ELSE j) /\ p = (IF j < E THEN j ELSE E)
                             /\ u = (IF c < E THEN c ELSE E)
  <2>1. /\ (IF j < E THEN E ELSE j) \in Nat /\ (IF j < E THEN j ELSE E) \in Nat
        /\ (IF c < E THEN c ELSE E) \in Nat
    OBVIOUS
  <2> QED
    BY <2>1
<1>2. PICK a, s \in Nat \ {0} : a = E + 1 /\ s = 7
  OBVIOUS
<1>3. /\ s <= p + 1 /\ p <= s + B - 1 /\ p <= j /\ (p = j \/ p = s + B - 1) /\ j <= c
      /\ c <= L /\ s + B - 1 = E
  BY <1>1, <1>2, <1>l
<1>4. bd = SubSeq(W, s, p)
  <2>1. CASE k < 6
    <3>1. k < s /\ 6 < s /\ k < E /\ p = 6 /\ s \in Int /\ k \in Int
      BY <2>1, <1>1, <1>2
    <3>2. SubSeq(W, s, k) = <<>> /\ SubSeq(W, s, p) = <<>>
      BY <3>1, SubSeqEmpty
    <3>3. bd = SubSeq(W, s, k)
      BY <3>1, <1>0, <1>2
    <3> QED
      BY <3>2, <3>3
  <2>2. CASE ~(k < 6)
    <3>1. p = IF k < E THEN k ELSE E
      BY <2>2, <1>1
    <3> QED
      BY <3>1, <1>0, <1>2
  <2> QED
    BY <2>1, <2>2
<1>5. /\ Fill(bd, B, buf) = SubSeq(W, s, u)
      /\ Left(bd, B, buf) = SubSeq(W, i + 1, c)
  <2>1. /\ Fill(SubSeq(W, s, p), B, SubSeq(W, j + 1, c))
              = SubSeq(W, s, IF c < s + B - 1 THEN c ELSE s + B - 1)
        /\ Left(SubSeq(W, s, p), B, SubSeq(W, j + 1, c))
              = SubSeq(W, (IF j < s + B - 1 THEN s + B - 1 ELSE j) + 1, c)
    <3>1. Grows(W, s, B, p, j, c)
      BY <1>3, <1>l, FillCuts
    <3> QED
      BY <3>1, Zenon DEF Grows
  <2>2. /\ u = (IF c < s + B - 1 THEN c ELSE s + B - 1)
        /\ i = (IF j < s + B - 1 THEN s + B - 1 ELSE j)
    BY <1>1, <1>3
  <2> QED
    BY <2>1, <2>2, <1>0, <1>4
<1>6. Len(SubSeq(W, s, u)) = u - 6
  <2>1. s <= u + 1 /\ u <= Len(W)
    BY <1>1, <1>2, <1>l
  <2>2. Len(SubSeq(W, s, u)) = u - s + 1
    BY <2>1, LenOfCut
  <2> QED
    BY <2>2, <1>2
<1>7. ASSUME E <= c
      PROVE  /\ Fill(dt, D, SubSeq(W, i + 1, c)) = SubSeq(W, a, c)
             /\ Len(SubSeq(W, a, c)) = c - E
  <2>1. /\ i <= c /\ a <= i + 1 /\ i <= a + D - 1 /\ i <= i /\ c <= Len(W)
        /\ a + D - 1 = L /\ a <= c + 1
    BY <1>1, <1>2, <1>3, <1>7, <1>l
  <2>2. dt = SubSeq(W, a, i)
    <3>1. CASE k < E
      <4>1. k < a /\ i < a /\ a \in Int
        BY <3>1, <1>1, <1>2
      <4>2. SubSeq(W, a, k) = <<>> /\ SubSeq(W, a, i) = <<>>
        BY <4>1, SubSeqEmpty
      <4> QED
        BY <4>2, <1>0, <1>2
    <3>2. CASE ~(k < E)
      <4>1. i = k
        BY <3>2, <1>1
      <4> QED
        BY <4>1, <1>0, <1>2
    <3> QED
      BY <3>1, <3>2
  <2>3. Fill(SubSeq(W, a, i), D, SubSeq(W, i + 1, c))
          = SubSeq(W, a, IF c < a + D - 1 THEN c ELSE a + D - 1)
    <3>1. Grows(W, a, D, i, i, c)
      BY <2>1, FillCuts
    <3> QED
      BY <3>1, Zenon DEF Grows
  <2>4. (IF c < a + D - 1 THEN c ELSE a + D - 1) = c
    BY <2>1, <1>3
  <2>5. Len(SubSeq(W, a, c)) = c - a + 1
    BY <2>1, LenOfCut
  <2>6. c - a + 1 = c - E
    BY <1>2
  <2> QED
    BY <2>2, <2>3, <2>4, <2>5, <2>6
<1> QED
  <2>1. /\ Fill(bd, B, buf) = SubSeq(W, 7, IF c < E THEN c ELSE E)
        /\ Len(Fill(bd, B, buf)) = (IF c < E THEN c ELSE E) - 6
        /\ E <= c => /\ Fill(dt, D, Left(bd, B, buf)) = SubSeq(W, E + 1, c)
                     /\ Len(SubSeq(W, E + 1, c)) = c - E
    BY <1>1, <1>2, <1>5, <1>6, <1>7
  <2> QED
    BY <2>1, <1>0, Zenon DEF Filled

\* append_body, called with the header complete.
LEMMA BodyAppended ==
  ASSUME NEW m \in Messages, NEW k \in Nat, NEW c \in Nat, NEW j \in Nat,
         k < c, 6 <= c, c <= Len(Cells(m)), j = IF k < 6 THEN 6 ELSE k
  PROVE  AppendBody(PartialWith(m, k, SubSeq(Cells(m), 1, 6)), SubSeq(Cells(m), j + 1, c))
           = IF c < Len(Cells(m)) THEN Partial(m, c) ELSE Whole(m)
<1>1. PICK S : Cells(m) \in Seq(S)
  BY CellsOf
<1>2. PICK W, B, D, E, L, buf :
        /\ W = Cells(m) /\ B = BodyLen(m) /\ D = Len(m.data) /\ E = 6 + B /\ L = Len(W)
        /\ buf = SubSeq(W, j + 1, c)
  OBVIOUS
<1>3. B \in Nat /\ D \in Nat /\ E \in Nat /\ L \in Nat /\ L = E + D /\ c <= L
  <2>1. B \in Nat /\ D \in Nat /\ L = 6 + B + D
    BY <1>2, CellsOf DEF HeaderSize
  <2>2. c <= L
    BY <1>2
  <2> QED
    BY <2>1, <2>2, <1>2
<1>4. /\ SubSeq(W, 7, E) = EncodeBody(m.cmd, m.f)
      /\ SubSeq(W, E + 1, L) = m.data
  <2>1. /\ SubSeq(W, 6 + 1, 6 + B) = EncodeBody(m.cmd, m.f)
        /\ SubSeq(W, 6 + B + 1, L) = m.data
    BY <1>2, CellsOf DEF HeaderSize
  <2> QED
    BY <2>1, <1>2
<1>5. HeaderSize = 6 /\ DataStart(m) = E
  BY <1>2 DEF HeaderSize, DataStart
<1>6. PICK h : h = SubSeq(W, 1, 6)
  OBVIOUS
<1>7. h[3] = m.cmd /\ h[5] = B /\ h[6] = D
  BY <1>2, <1>6, HeadOf
<1>8. PICK bd, dt : bd = SubSeq(W, 7, IF k < E THEN k ELSE E) /\ dt = SubSeq(W, E + 1, k)
  OBVIOUS
<1>r. PICK r : r = PartialWith(m, k, SubSeq(Cells(m), 1, 6))
  OBVIOUS
<1>9. r = [head |-> h, body |-> bd, data |-> dt, f |-> NoFields, st |-> "more"]
  BY <1>r, <1>2, <1>5, <1>6, <1>8 DEF PartialWith
<1>10. /\ Fill(bd, B, buf) = SubSeq(W, 7, IF c < E THEN c ELSE E)
       /\ Len(Fill(bd, B, buf)) = (IF c < E THEN c ELSE E) - 6
       /\ E <= c => /\ Fill(dt, D, Left(bd, B, buf)) = SubSeq(W, E + 1, c)
                    /\ Len(SubSeq(W, E + 1, c)) = c - E
  <2>1. W \in Seq(S) /\ E = 6 + B /\ Len(W) = E + D /\ c <= E + D
    BY <1>1, <1>2, <1>3
  <2>2. Filled(W, B, D, E, k, c, j)
    BY <2>1, <1>3, PartsFilled
  <2> QED
    BY <2>2, <1>2, <1>8, Zenon DEF Filled
<1>11. PICK b, d, l : b = Fill(bd, B, buf) /\ l = Left(bd, B, buf) /\ d = Fill(dt, D, l)
  OBVIOUS
<1>12. AppendBody(r, buf) =
         IF Len(b) < B THEN [r EXCEPT !.body = b]
         ELSE IF Len(d) < D THEN [r EXCEPT !.body = b, !.data = d]
         ELSE [r EXCEPT !.body = b, !.data = d, !.f = DecodeBody(m.cmd, b),
                        !.st = IF DecodeBody(m.cmd, b) = NoFields THEN "bad" ELSE "done"]
  <2>1. /\ r.head[5] = B /\ r.head[6] = D /\ r.head[3] = m.cmd /\ r.body = bd
        /\ r.data = dt
    BY <1>7, <1>9
  <2>2. /\ Fill(r.body, r.head[5], buf) = b /\ Left(r.body, r.head[5], buf) = l
        /\ Fill(r.data, r.head[6], l) = d
    BY <2>1, <1>11
  <2> QED
    BY <2>1, <2>2, Zenon DEF AppendBody
<1>e. /\ [r EXCEPT !.body = b]
           = [head |-> h, body |-> b, data |-> dt, f |-> NoFields, st |-> "more"]
      /\ [r EXCEPT !.body = b, !.data = d]
           = [head |-> h, body |-> b, data |-> d, f |-> NoFields, st |-> "more"]
      /\ [r EXCEPT !.body = b, !.data = d, !.f = m.f, !.st = "done"]
           = [head |-> h, body |-> b, data |-> d, f |-> m.f, st |-> "done"]
  <2>1. [r EXCEPT !.body = b]
           = [head |-> h, body |-> b, data |-> dt, f |-> NoFields, st |-> "more"]
    BY <1>9
  <2>2. [r EXCEPT !.body = b, !.data = d]
           = [head |-> h, body |-> b, data |-> d, f |-> NoFields, st |-> "more"]
    <3>1. PICK x : x = [r EXCEPT !.body = b, !.data = d]
      OBVIOUS
    <3>2. x = [n \in {"head", "body", "data", "f", "st"} |->
                 IF n = "body" THEN b ELSE IF n = "data" THEN d ELSE r[n]]
      BY <3>1, <1>9
    <3> QED
      BY <3>1, <3>2, <1>9
  <2>3. [r EXCEPT !.body = b, !.data = d, !.f = m.f, !.st = "done"]
           = [head |-> h, body |-> b, data |-> d, f |-> m.f, st |-> "done"]
    <3>1. PICK x : x = [r EXCEPT !.body = b, !.data = d, !.f = m.f, !.st = "done"]
      OBVIOUS
    <3>2. x = [n \in {"head", "body", "data", "f", "st"} |->
                 IF n = "body" THEN b ELSE IF n = "data" THEN d
                 ELSE IF n = "f" THEN m.f ELSE IF n = "st" THEN "done" ELSE r[n]]
      BY <3>1, <1>9
    <3> QED
      BY <3>1, <3>2, <1>9
  <2> QED
    BY <2>1, <2>2, <2>3
<1>13. CASE c < E
  <2>1. b = SubSeq(W, 7, c) /\ Len(b) < B
    <3>1. Len(b) = c - 6
      BY <1>10, <1>11, <1>13
    <3>2. c - 6 < B
      BY <1>2, <1>3, <1>13
    <3>3. b = SubSeq(W, 7, c)
      BY <1>10, <1>11, <1>13
    <3> QED
      BY <3>1, <3>2, <3>3
  <2>2. AppendBody(r, buf) = [head |-> h, body |-> b, data |-> dt, f |-> NoFields, st |-> "more"]
    BY <2>1, <1>e, <1>12, Zenon
  <2>3. dt = SubSeq(W, E + 1, c)
    <3>1. k < E + 1 /\ c < E + 1 /\ E + 1 \in Int
      BY <1>3, <1>13
    <3>2. SubSeq(W, E + 1, k) = <<>> /\ SubSeq(W, E + 1, c) = <<>>
      BY <3>1, SubSeqEmpty
    <3> QED
      BY <3>2, <1>8
  <2>4. Partial(m, c) = [head |-> h, body |-> b, data |-> dt, f |-> NoFields, st |-> "more"]
    <3>1. ~(c < 6)
      OBVIOUS
    <3> QED
      BY <3>1, <2>1, <2>3, <1>2, <1>5, <1>6, <1>13 DEF Partial, PartialWith
  <2>5. c < L
    BY <1>3, <1>13
  <2> QED
    BY <2>2, <2>4, <2>5, <1>2, <1>r
<1>14. CASE E <= c
  <2>0. ~(c < E) /\ ~(c < 6)
    BY <1>3, <1>14
  <2>1. b = EncodeBody(m.cmd, m.f)
    BY <2>0, <1>4, <1>10, <1>11
  <2>2. Len(b) = B
    BY <2>1, <1>2 DEF BodyLen
  <2>3. d = SubSeq(W, E + 1, c) /\ Len(d) = c - E
    BY <1>10, <1>11, <1>14
  <2>4. DecodeBody(m.cmd, b) = m.f /\ m.f # NoFields
    BY <2>1, BodyDecodes
  <2>5. ~(Len(b) < B)
    BY <2>2, <1>3
  <2>6. Len(d) < D <=> c < L
    BY <2>3, <1>3
  <2>7. b = SubSeq(W, 7, E)
    BY <2>1, <1>4
  <2>8. CASE c < L
    <3>1. AppendBody(r, buf) = [head |-> h, body |-> b, data |-> d, f |-> NoFields, st |-> "more"]
      BY <2>5, <2>6, <2>8, <1>e, <1>12, Zenon
    <3>2. Partial(m, c) = [head |-> h, body |-> b, data |-> d, f |-> NoFields, st |-> "more"]
      BY <2>0, <2>3, <2>7, <1>2, <1>5, <1>6 DEF Partial, PartialWith
    <3> QED
      BY <3>1, <3>2, <2>8, <1>2, <1>r
  <2>9. CASE ~(c < L)
    <3>1. AppendBody(r, buf) = [head |-> h, body |-> b, data |-> d, f |-> m.f, st |-> "done"]
      BY <2>4, <2>5, <2>6, <2>9, <1>e, <1>12, Zenon
    <3>2. c = L
      BY <2>9, <1>3
    <3>3. d = m.data
      BY <3>2, <2>3, <1>4
    <3>4. Whole(m) = [head |-> h, body |-> b, data |-> d, f |-> m.f, st |-> "done"]
      BY <3>3, <2>1, <1>2, <1>5, <1>6 DEF Whole
    <3> QED
      BY <3>1, <3>4, <2>9, <1>2, <1>r
  <2> QED
    BY <2>8, <2>9
<1> QED
  BY <1>3, <1>13, <1>14

\* append: the receiver with k cells is given the next ones, up to cell c.
\* It refuses the message only at the end of the header and only a message
\* above the limit.
LEMMA Received ==
  ASSUME NEW m \in Messages, NEW k \in Nat, NEW c \in Nat,
         k < c, c <= Len(Cells(m))
  PROVE  LET r == Receive(Partial(m, k), SubSeq(Cells(m), k + 1, c))
         IN IF k < 6 /\ 6 <= c /\ TooLong(m) THEN r.st = "bad"
            ELSE r = IF c < Len(Cells(m)) THEN Partial(m, c) ELSE Whole(m)
<1>1. PICK S : Cells(m) \in Seq(S)
  BY CellsOf
<1>2. PICK W, q, buf, L, E : /\ W = Cells(m) /\ q = Partial(m, k) /\ buf = SubSeq(W, k + 1, c)
                          /\ L = Len(W) /\ E = DataStart(m)
  OBVIOUS
<1>3. HeaderSize = 6 /\ L \in Nat /\ 6 <= L /\ c <= L /\ W \in Seq(S) /\ E \in Nat /\ 6 <= E
  <2>1. BodyLen(m) \in Nat /\ Len(m.data) \in Nat /\ L = 6 + BodyLen(m) + Len(m.data)
    BY <1>2, CellsOf DEF HeaderSize
  <2>2. c <= L /\ W \in Seq(S)
    BY <1>1, <1>2
  <2>3. HeaderSize = 6 /\ E = 6 + BodyLen(m)
    BY <1>2 DEF HeaderSize, DataStart
  <2> QED
    BY <2>1, <2>2, <2>3
<1>4. PICK p, j, a \in Nat : /\ p = (IF k < 6 THEN k ELSE 6) /\ j = (IF k < 6 THEN 6 ELSE k)
                              /\ a = (IF c < 6 THEN c ELSE 6)
  <2>1. /\ (IF k < 6 THEN k ELSE 6) \in Nat /\ (IF k < 6 THEN 6 ELSE k) \in Nat
        /\ (IF c < 6 THEN c ELSE 6) \in Nat
    OBVIOUS
  <2> QED
    BY <2>1
<1>5. PICK bd, dt : /\ bd = SubSeq(W, 7, IF k < E THEN k ELSE E)
                   /\ dt = SubSeq(W, E + 1, k)
  OBVIOUS
<1>6. \A x : PartialWith(m, k, x)
               = [head |-> x, body |-> bd, data |-> dt, f |-> NoFields, st |-> "more"]
  BY <1>2, <1>3, <1>5 DEF PartialWith
<1>7. q = [head |-> SubSeq(W, 1, p), body |-> bd, data |-> dt, f |-> NoFields, st |-> "more"]
  <2>1. q = PartialWith(m, k, SubSeq(W, 1, p))
    BY <1>2, <1>3, <1>4 DEF Partial
  <2> QED
    BY <2>1, <1>6
<1>8. /\ Fill(q.head, HeaderSize, buf) = SubSeq(W, 1, a)
      /\ Left(q.head, HeaderSize, buf) = SubSeq(W, j + 1, c)
  <2>1. Grows(W, 1, 6, p, k, c)
    <3>1. PICK s \in Nat \ {0} : s = 1
      OBVIOUS
    <3>2. PICK n \in Nat : n = 6
      OBVIOUS
    <3>3. s <= p + 1 /\ p <= s + n - 1 /\ p <= k /\ k <= c /\ (p = k \/ p = s + n - 1)
      BY <3>1, <3>2, <1>4
    <3>4. c <= Len(W)
      BY <1>2, <1>3
    <3>5. Grows(W, s, n, p, k, c)
      BY <3>3, <3>4, <1>3, FillCuts
    <3> QED
      BY <3>1, <3>2, <3>5
  <2>2. /\ Fill(SubSeq(W, 1, p), 6, buf) = SubSeq(W, 1, IF c < 1 + 6 - 1 THEN c ELSE 1 + 6 - 1)
        /\ Left(SubSeq(W, 1, p), 6, buf)
              = SubSeq(W, (IF k < 1 + 6 - 1 THEN 1 + 6 - 1 ELSE k) + 1, c)
    BY <2>1, <1>2, Zenon DEF Grows
  <2>3. /\ (IF c < 1 + 6 - 1 THEN c ELSE 1 + 6 - 1) = a
        /\ (IF k < 1 + 6 - 1 THEN 1 + 6 - 1 ELSE k) = j
    BY <1>4
  <2>4. q.head = SubSeq(W, 1, p)
    BY <1>7
  <2> QED
    BY <2>2, <2>3, <2>4, <1>3
<1>9. PICK h, l : h = SubSeq(W, 1, a) /\ l = SubSeq(W, j + 1, c)
  OBVIOUS
<1>10. Len(h) = a /\ Len(q.head) = p
  <2>1. PICK s \in Nat \ {0} : s = 1
    OBVIOUS
  <2>2. s <= a + 1 /\ a <= Len(W) /\ s <= p + 1 /\ p <= Len(W)
    BY <2>1, <1>2, <1>3, <1>4
  <2>3. Len(SubSeq(W, s, a)) = a - s + 1 /\ Len(SubSeq(W, s, p)) = p - s + 1
    BY <2>2, <1>3, LenOfCut
  <2>4. q.head = SubSeq(W, 1, p)
    BY <1>7
  <2> QED
    BY <2>1, <2>3, <2>4, <1>9
<1>11. Receive(q, buf) =
         IF a < 6 THEN [q EXCEPT !.head = h]
         ELSE IF p < 6 /\ HeadRefused(h) THEN [q EXCEPT !.head = h, !.st = "bad"]
         ELSE AppendBody([q EXCEPT !.head = h], l)
  BY <1>3, <1>8, <1>9, <1>10, Zenon DEF Receive
<1>12. [q EXCEPT !.head = h] = PartialWith(m, k, h)
  BY <1>6, <1>7
<1>13. CASE c < 6
  <2>1. a < 6 /\ a = c /\ ~(6 <= c) /\ c < L /\ k < 6 /\ k < E /\ c < E
    BY <1>3, <1>4, <1>13
  <2>2. Receive(q, buf) = PartialWith(m, k, h)
    BY <2>1, <1>11, <1>12
  <2>3. /\ SubSeq(W, 7, k) = <<>> /\ SubSeq(W, 7, c) = <<>>
        /\ SubSeq(W, E + 1, k) = <<>> /\ SubSeq(W, E + 1, c) = <<>>
    <3>1. PICK s, e \in Int : s = 7 /\ e = E + 1
      BY <1>3
    <3>2. k < s /\ c < s /\ k < e /\ c < e /\ k \in Int /\ c \in Int
      BY <3>1, <2>1, <1>3
    <3>3. /\ SubSeq(W, s, k) = <<>> /\ SubSeq(W, s, c) = <<>>
          /\ SubSeq(W, e, k) = <<>> /\ SubSeq(W, e, c) = <<>>
      BY <3>2, SubSeqEmpty
    <3> QED
      BY <3>1, <3>3
  <2>4. PartialWith(m, k, h) = PartialWith(m, c, h)
    <3>1. PartialWith(m, k, h) = [head |-> h, body |-> <<>>, data |-> <<>>, f |-> NoFields, st |-> "more"]
      BY <2>1, <2>3, <1>5, <1>6
    <3>2. PartialWith(m, c, h) = [head |-> h, body |-> <<>>, data |-> <<>>, f |-> NoFields, st |-> "more"]
      BY <2>1, <2>3, <1>2, <1>3 DEF PartialWith
    <3> QED
      BY <3>1, <3>2
  <2>5. Partial(m, c) = PartialWith(m, c, h)
    BY <2>1, <1>2, <1>3, <1>9 DEF Partial
  <2> QED
    BY <2>1, <2>2, <2>4, <2>5, <1>2
<1>14. CASE 6 <= c
  <2>1. a = 6 /\ ~(a < 6) /\ (p < 6 <=> k < 6)
    BY <1>3, <1>4, <1>14
  <2>2. h = SubSeq(Cells(m), 1, 6)
    BY <2>1, <1>2, <1>9
  <2>3. HeadRefused(h) <=> TooLong(m)
    BY <2>2, HeadOf
  <2>4. CASE k < 6 /\ TooLong(m)
    <3>1. Receive(q, buf) = [q EXCEPT !.head = h, !.st = "bad"]
      BY <2>1, <2>3, <2>4, <1>11
    <3>2. Receive(q, buf).st = "bad"
      BY <3>1, <1>7
    <3> QED
      BY <3>2, <2>4, <1>2, <1>14
  <2>5. CASE ~(k < 6 /\ TooLong(m))
    <3>1. Receive(q, buf) = AppendBody(PartialWith(m, k, h), l)
      BY <2>1, <2>3, <2>5, <1>11, <1>12
    <3>2. AppendBody(PartialWith(m, k, SubSeq(Cells(m), 1, 6)), SubSeq(Cells(m), j + 1, c))
            = IF c < Len(Cells(m)) THEN Partial(m, c) ELSE Whole(m)
      BY <1>4, <1>14, BodyAppended
    <3> QED
      BY <3>1, <3>2, <2>2, <2>5, <1>2, <1>9
  <2> QED
    BY <2>4, <2>5
<1> QED
  BY <1>13, <1>14
-----------------------------------------------------------------------------
(* The invariant.                                                          *)

\* While the connection is up, the wire has the cells that the receiver has
\* not; a receiver is done with all cells and bad only for a reason.
MessageInv ==
  /\ msg \in Messages
  /\ st \in {"send", "sent", "broken", "failed"}
  /\ st = "send" => \E k \in Nat : /\ k < Len(Cells(msg)) /\ rcv = Partial(msg, k)
                                   /\ wire = SubSeq(Cells(msg), k + 1, Len(Cells(msg)))
  /\ st = "sent" => rcv = Whole(msg) /\ wire = <<>>
  /\ rcv.st = "bad" => TooLong(msg)

\* Encoding does not depend on the body left by an earlier try.
LEMMA EncodesAnew ==
  ASSUME NEW m, NEW old
  PROVE  Encode(m, old).wire = Cells(m)
BY DEF Encode, Cells

\* A new try begins with nothing delivered.
LEMMA TryBegins ==
  ASSUME NEW m \in Messages
  PROVE  /\ 0 < Len(Cells(m)) /\ Fresh = Partial(m, 0)
         /\ Cells(m) = SubSeq(Cells(m), 0 + 1, Len(Cells(m)))
         /\ Fresh.st = "more"
<1>1. PICK S : Cells(m) \in Seq(S)
  BY CellsOf
<1>2. 0 < Len(Cells(m))
  BY CellsOf DEF HeaderSize
<1>3. PICK W, L : W = Cells(m) /\ L = Len(W)
  OBVIOUS
<1>4. W \in Seq(S) /\ L \in Nat /\ 0 < L
  BY <1>1, <1>2, <1>3
<1>5. \A i \in 1..L : W[i] \in S
  BY <1>3, <1>4, ElementOfSeq
<1>6. PICK y : y = SubSeq(W, 1, L)
  OBVIOUS
<1>7. /\ y \in Seq(S) /\ Len(y) = (IF 1 <= L THEN L - 1 + 1 ELSE 0)
      /\ \A i \in 1..(L - 1 + 1) : y[i] = W[1 + i - 1]
  BY <1>4, <1>5, <1>6, SubSeqProperties
<1>8. Len(y) = Len(W)
  BY <1>3, <1>4, <1>7
<1>9. ASSUME NEW i \in 1..Len(y) PROVE y[i] = W[i]
  <2>1. i \in 1..(L - 1 + 1) /\ 1 + i - 1 = i
    BY <1>3, <1>4, <1>8
  <2> QED
    BY <2>1, <1>7
<1>10. y = W
  BY <1>4, <1>7, <1>8, <1>9, SeqEqual
<1>11. SubSeq(W, 0 + 1, L) = y
  BY <1>6
<1> QED
  BY <1>2, <1>3, <1>10, <1>11, NothingYet DEF Fresh

\* The states of a receiver.
LEMMA ReceiverStates ==
  ASSUME NEW m, NEW k
  PROVE  Partial(m, k).st = "more" /\ Whole(m).st = "done"
BY DEF Partial, PartialWith, Whole

\* Deliver: n cells more.
LEMMA Delivered ==
  ASSUME MessageInv, Deliver
  PROVE  MessageInv'
<1>1. msg \in Messages /\ msg' = msg /\ st = "send"
  BY DEF MessageInv, Deliver
<1>2. PICK m \in Messages : m = msg /\ m = msg'
  BY <1>1
<1>3. PICK k \in Nat : /\ k < Len(Cells(m)) /\ rcv = Partial(m, k)
                       /\ wire = SubSeq(Cells(m), k + 1, Len(Cells(m)))
  BY <1>1, <1>2 DEF MessageInv
<1>4. PICK W, L : W = Cells(m) /\ L = Len(W)
  OBVIOUS
<1>5. PICK S : W \in Seq(S)
  BY <1>4, CellsOf
<1>6. L \in Nat /\ k < L
  BY <1>3, <1>4, <1>5
<1>7. Len(wire) = L - k
  <2>1. PICK a \in Nat \ {0} : a = k + 1
    OBVIOUS
  <2>2. Len(SubSeq(W, a, L)) = L - a + 1
    <3>1. a <= L + 1 /\ L <= Len(W)
      BY <2>1, <1>4, <1>6
    <3> QED
      BY <3>1, <1>5, <1>6, LenOfCut
  <2>3. L - a + 1 = L - k
    BY <2>1, <1>6
  <2> QED
    BY <2>1, <2>2, <2>3, <1>3, <1>4
<1>8. PICK n \in 1..Len(wire) : /\ rcv' = Receive(rcv, SubSeq(wire, 1, n))
                                /\ wire' = SubSeq(wire, n + 1, Len(wire))
  BY DEF Deliver
<1>9. PICK c \in Nat : c = k + n
  BY <1>6, <1>7
<1>10. k < c /\ c <= L
  BY <1>6, <1>7, <1>9
<1>11. SubSeq(wire, 1, n) = SubSeq(W, k + 1, c) /\ wire' = SubSeq(W, c + 1, L)
  <2>1. PICK i, j \in Nat \ {0} : i = 1 /\ j = n + 1
    BY <1>7, <1>6
  <2>2. PICK x, y \in Int : x = n /\ y = L - k
    BY <1>6, <1>7
  <2>3. x <= L - k /\ y <= L - k /\ L \in 0..Len(W) /\ k <= L
    BY <2>2, <1>4, <1>6, <1>7
  <2>4. /\ SubSeq(SubSeq(W, k + 1, L), i, x) = SubSeq(W, k + i, k + x)
        /\ SubSeq(SubSeq(W, k + 1, L), j, y) = SubSeq(W, k + j, k + y)
    BY <2>3, <1>5, CutOfCut
  <2>5. k + i = k + 1 /\ k + x = c /\ k + j = c + 1 /\ k + y = L
    BY <2>1, <2>2, <1>6, <1>9
  <2>6. wire = SubSeq(W, k + 1, L) /\ Len(wire) = y
    BY <2>2, <1>3, <1>4, <1>7
  <2> QED
    BY <2>1, <2>2, <2>4, <2>5, <2>6, <1>8
<1>12. IF k < 6 /\ 6 <= c /\ TooLong(m) THEN rcv'.st = "bad"
       ELSE rcv' = IF c < L THEN Partial(m, c) ELSE Whole(m)
  <2>1. rcv' = Receive(Partial(m, k), SubSeq(Cells(m), k + 1, c))
    BY <1>3, <1>4, <1>8, <1>11
  <2> QED
    BY <2>1, <1>4, <1>10, Received
<1>13. st' = CASE rcv'.st = "done" -> "sent"
               [] rcv'.st = "bad"  -> "broken"
               [] rcv'.st = "more" -> "send"
  BY DEF Deliver
<1>14. CASE k < 6 /\ 6 <= c /\ TooLong(m)
  <2>1. rcv'.st = "bad"
    BY <1>12, <1>14
  <2>2. st' = "broken"
    BY <2>1, <1>13
  <2> QED
    BY <2>2, <1>2, <1>14 DEF MessageInv
<1>15. CASE ~(k < 6 /\ 6 <= c /\ TooLong(m)) /\ c < L
  <2>1. rcv' = Partial(m, c)
    BY <1>12, <1>15
  <2>2. rcv'.st = "more"
    BY <2>1, ReceiverStates
  <2>3. st' = "send"
    BY <2>2, <1>13
  <2>4. c < Len(Cells(m)) /\ wire' = SubSeq(Cells(m), c + 1, Len(Cells(m)))
    BY <1>4, <1>11, <1>15
  <2> QED
    BY <2>1, <2>2, <2>3, <2>4, <1>2 DEF MessageInv
<1>16. CASE ~(k < 6 /\ 6 <= c /\ TooLong(m)) /\ ~(c < L)
  <2>1. rcv' = Whole(m)
    BY <1>12, <1>16
  <2>2. rcv'.st = "done"
    BY <2>1, ReceiverStates
  <2>3. st' = "sent"
    BY <2>2, <1>13
  <2>4. wire' = <<>>
    <3>1. PICK a \in Int : a = c + 1
      OBVIOUS
    <3>2. L < a
      BY <3>1, <1>6, <1>16
    <3>3. SubSeq(W, a, L) = <<>>
      BY <3>2, <1>6, SubSeqEmpty
    <3> QED
      BY <3>1, <3>3, <1>11
  <2> QED
    BY <2>1, <2>2, <2>3, <2>4, <1>2 DEF MessageInv
<1> QED
  BY <1>14, <1>15, <1>16

\* Every step keeps the invariant.
LEMMA MessageInvStep ==
  ASSUME MessageInv, [MessageNext]_messageVars
  PROVE  MessageInv'
<1>1. CASE Deliver
  BY <1>1, Delivered
<1>2. CASE Break
  <2>1. /\ msg' = msg /\ rcv' = rcv /\ st' = "broken"
    BY <1>2 DEF Break
  <2> QED
    BY <2>1 DEF MessageInv
<1>3. CASE Retry
  <2>1. msg' = msg /\ msg \in Messages
    BY <1>3 DEF Retry, MessageInv
  <2>2. PICK m \in Messages : m = msg /\ m = msg'
    BY <2>1
  <2>3. CASE rcv' = Fresh /\ st' = "send" /\ wire' = Encode(msg, body).wire
    <3>1. wire' = Cells(m)
      BY <2>2, <2>3, EncodesAnew
    <3>2. /\ 0 < Len(Cells(m)) /\ rcv' = Partial(m, 0)
          /\ wire' = SubSeq(Cells(m), 0 + 1, Len(Cells(m)))
          /\ rcv'.st = "more"
      BY <2>3, <3>1, TryBegins
    <3>3. 0 \in Nat
      OBVIOUS
    <3> QED
      BY <2>2, <2>3, <3>2, <3>3 DEF MessageInv
  <2>4. CASE st' = "failed" /\ rcv' = rcv
    BY <2>1, <2>4 DEF MessageInv
  <2> QED
    BY <1>3, <2>3, <2>4 DEF Retry
<1>4. CASE UNCHANGED messageVars
  BY <1>4 DEF messageVars, MessageInv
<1> QED
  BY <1>1, <1>2, <1>3, <1>4 DEF MessageNext

\* At any time the receiver has a cut of the message being sent and the wire
\* the rest of it (FcopyMessage::encode, append).
THEOREM MessageKeepsInv == MessageSpec => []MessageInv
<1>1. MessageInit => MessageInv
  <2> SUFFICES ASSUME MessageInit PROVE MessageInv
    OBVIOUS
  <2>1. msg \in Messages /\ rcv = Fresh /\ st = "send" /\ wire = Encode(msg, <<>>).wire
    BY DEF MessageInit
  <2>2. wire = Cells(msg)
    BY <2>1, EncodesAnew
  <2>3. /\ 0 < Len(Cells(msg)) /\ rcv = Partial(msg, 0)
        /\ wire = SubSeq(Cells(msg), 0 + 1, Len(Cells(msg)))
        /\ rcv.st = "more"
    BY <2>1, <2>2, TryBegins
  <2>4. 0 \in Nat
    OBVIOUS
  <2> QED
    BY <2>1, <2>3, <2>4 DEF MessageInv
<1>2. MessageInv /\ [MessageNext]_messageVars => MessageInv'
  BY MessageInvStep
<1> QED
  BY <1>1, <1>2, PTL DEF MessageSpec

\* Whatever the fragments and the tries, what is received is what was sent.
THEOREM WhatIsSentArrives == MessageSpec => []RoundTrip
<1>1. MessageInv => RoundTrip
  <2> SUFFICES ASSUME MessageInv, st = "sent" 
               PROVE  /\ rcv.head[3] = msg.cmd /\ rcv.head[4] = msg.error
                      /\ rcv.f = msg.f /\ rcv.data = msg.data
    BY DEF RoundTrip
  <2>1. msg \in Messages /\ rcv = Whole(msg)
    BY DEF MessageInv
  <2>2. rcv.head = SubSeq(Cells(msg), 1, 6) /\ rcv.f = msg.f /\ rcv.data = msg.data
    BY <2>1 DEF Whole, HeaderSize
  <2>3. rcv.head[3] = msg.cmd /\ rcv.head[4] = msg.error
    BY <2>1, <2>2, HeadOf
  <2> QED
    BY <2>2, <2>3
<1> QED
  BY <1>1, MessageKeepsInv, PTL

\* A message is complete with its last cell and no earlier.
THEOREM CompleteWithLastCell == MessageSpec => []CompleteAtEnd
<1>1. MessageInv => CompleteAtEnd
  <2> SUFFICES ASSUME MessageInv, st \in {"send", "sent"} PROVE st = "sent" <=> wire = <<>>
    BY DEF CompleteAtEnd
  <2>1. CASE st = "sent"
    BY <2>1 DEF MessageInv
  <2>2. CASE st = "send"
    <3>1. msg \in Messages
      BY DEF MessageInv
    <3>2. PICK k \in Nat : /\ k < Len(Cells(msg))
                           /\ wire = SubSeq(Cells(msg), k + 1, Len(Cells(msg)))
      BY <2>2 DEF MessageInv
    <3>3. PICK S : Cells(msg) \in Seq(S)
      BY <3>1, CellsOf
    <3>4. PICK W, L, a : W = Cells(msg) /\ L = Len(W) /\ a = k + 1
      OBVIOUS
    <3>5. W \in Seq(S) /\ L \in Nat /\ a \in Nat \ {0} /\ a <= L + 1 /\ L <= Len(W) /\ a <= L
      BY <3>2, <3>3, <3>4
    <3>6. Len(SubSeq(W, a, L)) = L - a + 1
      BY <3>5, LenOfCut
    <3>7. Len(wire) # 0
      BY <3>2, <3>4, <3>5, <3>6
    <3>8. wire # <<>>
      BY <3>7
    <3> QED
      BY <2>2, <3>8
  <2> QED
    BY <2>1, <2>2
<1> QED
  BY <1>1, MessageKeepsInv, PTL

\* A receiver refuses a message only because of its length.
THEOREM RefusedIsLong == MessageSpec => []RefusesOnlyLong
<1>1. ASSUME MessageInv PROVE RefusesOnlyLong
  <2>1. SUFFICES ASSUME rcv.st = "bad"
                 PROVE  BodyLen(msg) + Len(msg.data) + HeaderSize > SizeLimit
    BY DEF RefusesOnlyLong, BodyLen
  <2>2. PICK n \in Nat : n = BodyLen(msg) + Len(msg.data)
    BY <1>1, CellsOf DEF MessageInv
  <2>3. n % LenWidth \in Int /\ n % LenWidth <= n /\ HeaderSize \in Int /\ SizeLimit \in Int
    BY <2>2, MessageAssumption DEF HeaderSize
  <2>4. (n % LenWidth) + HeaderSize > SizeLimit
    BY <1>1, <2>1, <2>2 DEF MessageInv, TooLong
  <2> QED BY <2>2, <2>3, <2>4
<1> QED
  BY <1>1, MessageKeepsInv, PTL
=============================================================================
