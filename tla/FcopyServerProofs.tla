------------------------- MODULE FcopyServerProofs --------------------------
(***************************************************************************)
(* What the steps of the handlers keep: types, one owner per descriptor,   *)
(* and an entry that is open on a file its token names.  AnyClientProofs   *)
(* and FcopyProofs combine these lemmas for the servers under arbitrary    *)
(* clients and for the whole system.                                       *)
(***************************************************************************)
EXTENDS FcopyServer, SequenceTheorems, WellFoundedInduction, TLAPS

-----------------------------------------------------------------------------
(* Functions that are updated in one place.                                *)

\* A function, updated in one place.
LEMMA Update ==
  ASSUME NEW B, NEW T, NEW f \in [B -> T], NEW b, NEW t \in T
  PROVE  /\ [f EXCEPT ![b] = t] \in [B -> T]
         /\ \A y \in B : [f EXCEPT ![b] = t][y] = IF y = b THEN t ELSE f[y]
<1>1. [f EXCEPT ![b] = t] = [y \in B |-> IF y = b THEN t ELSE f[y]]
  OBVIOUS
<1>2. [y \in B |-> IF y = b THEN t ELSE f[y]] \in [B -> T]
  OBVIOUS
<1> QED BY <1>1, <1>2

\* A function of functions, updated in one place.
LEMMA Update2 ==
  ASSUME NEW A, NEW B, NEW T, NEW f \in [A -> [B -> T]],
         NEW a \in A, NEW b, NEW t \in T, NEW g, g = [f EXCEPT ![a][b] = t]
  PROVE  /\ g \in [A -> [B -> T]]
         /\ \A x \in A \ {a} : g[x] = f[x]
         /\ \A y \in B : g[a][y] = IF y = b THEN t ELSE f[a][y]
<1> DEFINE r == [f[a] EXCEPT ![b] = t]
<1>1. r \in [B -> T] /\ \A y \in B : r[y] = IF y = b THEN t ELSE f[a][y]
  BY Update
<1>2. g = [f EXCEPT ![a] = r]
  OBVIOUS
<1> HIDE DEF r
<1>3. /\ [f EXCEPT ![a] = r] \in [A -> [B -> T]]
      /\ \A x \in A : [f EXCEPT ![a] = r][x] = IF x = a THEN r ELSE f[x]
  BY <1>1, Update
<1> QED BY <1>1, <1>2, <1>3

-----------------------------------------------------------------------------
(* The handlers.                                                           *)

\* What the place of a handler says about its request and its descriptor.
Shaped(v) ==
  /\ v.pc \in {"open", "insert"} => v.req.op = "create"
  /\ v.pc = "chain" => v.req.op = "chain"
  /\ v.pc \in {"getfd", "work"} => v.req.op = "send"
  /\ v.pc \in {"has", "erase", "trunc", "close"} => v.req.op = "close"
  /\ v.pc \in {"insert", "work", "trunc", "close"} => v.fd \in Fd
  /\ v.pc = "work" => DOMAIN v.fwd = DOMAIN v.to /\ (v.to # <<>> => v.req.budget > 1)

GoodJob == {v \in Job : Shaped(v)}

TypeInv ==
  /\ fmap \in [Server -> [Token -> Entry \cup {NoEntry}]]
  /\ fds \in [Server -> [Fd -> Path \cup {Closed}]]
  /\ disk \in [Server -> [Path -> FileState]]
  /\ job \in [Slot -> GoodJob \cup {NoJob}]

-----------------------------------------------------------------------------
(* Records and functions.                                                  *)

\* One job changes.
LEMMA JobUpdate ==
  ASSUME TypeInv, NEW j \in Slot, NEW r \in GoodJob \cup {NoJob}, job' = [job EXCEPT ![j] = r]
  PROVE  /\ job' \in [Slot -> GoodJob \cup {NoJob}]
         /\ job'[j] = r
         /\ \A i \in Slot \ {j} : job'[i] = job[i]
<1>1. job \in [Slot -> GoodJob \cup {NoJob}]
  BY DEF TypeInv
<1>2. \A i \in Slot : job'[i] = IF i = j THEN r ELSE job[i]
  BY <1>1, Update
<1> QED BY <1>1, <1>2, Update

\* One entry of a table changes.
LEMMA TableUpdate ==
  ASSUME TypeInv, NEW s \in Server, NEW t \in Token, NEW x \in Entry \cup {NoEntry},
         fmap' = [fmap EXCEPT ![s][t] = x]
  PROVE  /\ fmap' \in [Server -> [Token -> Entry \cup {NoEntry}]]
         /\ \A y \in Server \ {s} : fmap'[y] = fmap[y]
         /\ \A u \in Token : fmap'[s][u] = IF u = t THEN x ELSE fmap[s][u]
<1>1. x \in Entry \cup {NoEntry} /\ fmap \in [Server -> [Token -> Entry \cup {NoEntry}]]
  BY DEF TypeInv
<1> QED BY <1>1, Update2

\* A request of each operation.
LEMMA RequestFields ==
  ASSUME NEW r \in Request
  PROVE  /\ r.op = "create" => r.name \in Name /\ r.size \in Nat
         /\ r.op = "chain" => /\ r.tok \in Token
                              /\ r.targets \in Seq([srv : Server, tok : Token])
         /\ r.op = "send" => /\ r.tok \in Token /\ r.off \in Offset /\ r.len \in Nat
                             /\ r.src \in Source \cup {Hole} /\ r.budget \in Nat
         /\ r.op = "close" => r.tok \in Token
BY Zenon DEF Request

\* The job of a handler that is somewhere.
LEMMA AtJob ==
  ASSUME TypeInv, NEW j \in Slot, ~At(j, "free")
  PROVE  /\ job[j] \in GoodJob /\ job[j] \in Job /\ Shaped(job[j])
         /\ job[j].srv \in Server /\ job[j].req \in Request /\ job[j].pc \in JobPc
         /\ job[j].size \in Nat /\ job[j].err \in Err
         /\ job[j].fwd \in Seq(Err \cup Pending)
<1>1. job[j] \in GoodJob
  BY DEF TypeInv, NoJob, At
<1> QED BY <1>1 DEF GoodJob, Job

-----------------------------------------------------------------------------
(* What a file holds.                                                      *)

\* Padding gives a number.
LEMMA PadIsNat == ASSUME NEW n \in Nat PROVE PadTo(n) \in Nat
<1>1. Base \in Nat \ {0}
  BY DiskAssumption
<1>2. (n + Base) \div Base \in Nat
  BY <1>1
<1>3. \A x, y \in Nat : x * y \in Nat
  OBVIOUS
<1> QED BY <1>1, <1>2, <1>3 DEF PadTo

\* Cutting leaves the contents of a file.
LEMMA TruncatedType ==
  ASSUME NEW f \in FileState, NEW n \in Nat
  PROVE  Truncated(f, n) \in FileState
<1>1. f.data \in [Offset -> Source \cup {Hole}]
  BY DEF FileState
<1>2. [p \in Offset |-> IF p < n THEN f.data[p] ELSE Hole] \in [Offset -> Source \cup {Hole}]
  BY <1>1
<1> QED BY <1>2 DEF Truncated, FileState

\* A write of a whole chunk or of a part leaves the contents of a file.
LEMMA WrittenType ==
  ASSUME NEW f \in FileState, NEW n \in Nat, NEW o \in Offset, NEW x \in Source \cup {Hole}
  PROVE  /\ Written(f, o, n, x) \in FileState
         /\ PartWritten(f, o, n, x) \in FileState
<1>f. f.size \in Nat /\ f.data \in [Offset -> Source \cup {Hole}] /\ o \in Nat
  BY DiskAssumption DEF FileState
<1>1. \A m \in Nat : Grown(f, m) \in Nat
  BY <1>f DEF Grown
<1>2. Written(f, o, n, x) \in FileState
  <2>1. Grown(f, o + PadTo(n)) \in Nat
    BY <1>f, <1>1, PadIsNat
  <2>2. [f.data EXCEPT ![o] = x] \in [Offset -> Source \cup {Hole}]
    BY <1>f, Update
  <2> QED BY <2>1, <2>2 DEF Written, FileState
<1>3. PartWritten(f, o, n, x) \in FileState
  <2> DEFINE y == IF f.data[o] = x THEN f.data[o] ELSE Hole
  <2>1. (IF n = 0 THEN f.size ELSE Grown(f, o + n)) \in Nat
    BY <1>f, <1>1
  <2>2. y \in Source \cup {Hole}
    OBVIOUS
  <2>3. [f.data EXCEPT ![o] = IF @ = x THEN @ ELSE Hole] = [f.data EXCEPT ![o] = y]
    OBVIOUS
  <2> HIDE DEF y
  <2>4. [f.data EXCEPT ![o] = y] \in [Offset -> Source \cup {Hole}]
    BY <1>f, <2>2, Update
  <2> QED BY <2>1, <2>3, <2>4 DEF PartWritten, FileState
<1> QED BY <1>2, <1>3

-----------------------------------------------------------------------------
\* The handler responds.
LEMMA Responding ==
  ASSUME NEW v \in Job, NEW e \in Err
  PROVE  [v EXCEPT !.pc = "reply", !.err = e] \in GoodJob
<1> DEFINE r == [v EXCEPT !.pc = "reply", !.err = e]
<1>1. "reply" \in JobPc
  BY DEF JobPc
<1>2. r \in Job
  BY <1>1, Zenon DEF Job
<1>3. r.pc = "reply"
  BY Zenon DEF Job
<1> HIDE DEF r
<1>4. Shaped(r)
  BY <1>3 DEF Shaped
<1>5. r \in GoodJob
  BY <1>2, <1>4 DEF GoodJob
<1> QED BY <1>5 DEF r

\* The handler goes from one place to another.
LEMMA Going ==
  ASSUME NEW v \in Job, NEW pc \in JobPc
  PROVE  LET r == [v EXCEPT !.pc = pc]
         IN r \in Job /\ r.pc = pc /\ r.srv = v.srv /\ r.fd = v.fd /\ r.req = v.req
BY Zenon DEF Job

\* The parts of a send return.
LEMMA Sending ==
  ASSUME NEW v \in Job, NEW w \in Err \cup {"todo"}
  PROVE  LET r == [v EXCEPT !.wr = w]
         IN /\ r \in Job /\ r.pc = v.pc /\ r.srv = v.srv /\ r.fd = v.fd
            /\ r.req = v.req /\ r.to = v.to /\ r.fwd = v.fwd
BY Zenon DEF Job

LEMMA JobMarked ==
  ASSUME NEW v \in Job, NEW g \in Seq(Err \cup Pending)
  PROVE  LET r == [v EXCEPT !.fwd = g]
         IN /\ r \in Job /\ r.pc = v.pc /\ r.srv = v.srv /\ r.fd = v.fd
            /\ r.req = v.req /\ r.to = v.to /\ r.fwd = g
BY Zenon DEF Job

-----------------------------------------------------------------------------
(* The inductive invariant.                                                *)

\* A handler that is about to enter its file has it open.
InsertNamesFile ==
  \A j \in Slot : At(j, "insert") =>
    fds[job[j].srv][job[j].fd] = FileOf[job[j].req.name]

ServerInv == TypeInv /\ FdOwned /\ EntryNamesFile /\ InsertNamesFile

\* FdOwned, for one descriptor.
Owned(s, f) ==
  /\ fds[s][f] # Closed =>
       (\E t \in Token : EntryHolds(s, t, f)) \/ (\E j \in Slot : JobHolds(j, s, f))
  /\ \A t \in Token : EntryHolds(s, t, f) =>
       /\ fds[s][f] # Closed
       /\ \A u \in Token : EntryHolds(s, u, f) => u = t
       /\ \A j \in Slot : ~JobHolds(j, s, f)
  /\ \A j \in Slot : JobHolds(j, s, f) =>
       /\ fds[s][f] # Closed
       /\ \A i \in Slot : JobHolds(i, s, f) => i = j

Holds(v, s, f) == v.pc \in {"insert", "trunc", "close"} /\ v.srv = s /\ v.fd = f

\* A step that changes no descriptor and no owner of one.
LEMMA QuietJobs ==
  ASSUME ServerInv, UNCHANGED fds, job' \in [Slot -> GoodJob \cup {NoJob}],
         \A i \in Slot, s \in Server, f \in Fd : JobHolds(i, s, f)' <=> JobHolds(i, s, f),
         \A i \in Slot : job'[i].pc = "insert" => job'[i] = job[i],
         fmap' \in [Server -> [Token -> Entry \cup {NoEntry}]],
         \A s \in Server, t \in Token :
           /\ fmap'[s][t] = NoEntry <=> fmap[s][t] = NoEntry
           /\ fmap[s][t] # NoEntry => fmap'[s][t].fd = fmap[s][t].fd,
         disk' \in [Server -> [Path -> FileState]]
  PROVE  ServerInv'
<1>1. \A s \in Server, t \in Token, f \in Fd : EntryHolds(s, t, f)' <=> EntryHolds(s, t, f)
  BY DEF EntryHolds
<1>2. FdOwned'
  <2>1. FdOwned
    BY DEF ServerInv
  <2>2. fds' = fds
    OBVIOUS
  <2>3. SUFFICES ASSUME NEW s \in Server, NEW f \in Fd
                 PROVE  Owned(s, f)'
    BY DEF FdOwned, Owned
  <2>4. Owned(s, f)
    BY <2>1 DEF FdOwned, Owned
  <2>5. \A t \in Token : EntryHolds(s, t, f)' <=> EntryHolds(s, t, f)
    BY <1>1
  <2>6. \A i \in Slot : JobHolds(i, s, f)' <=> JobHolds(i, s, f)
    OBVIOUS
  <2> QED BY <2>2, <2>4, <2>5, <2>6 DEF Owned
<1>3. EntryNamesFile'
  <2> SUFFICES ASSUME NEW s \in Server, NEW t \in Token, fmap'[s][t] # NoEntry
               PROVE  \E n \in Name : FileOf[n] = fds'[s][fmap'[s][t].fd] /\ TokenOf[n] = t
    BY DEF EntryNamesFile
  <2>1. fmap[s][t] # NoEntry /\ fmap'[s][t].fd = fmap[s][t].fd /\ fds' = fds
    OBVIOUS
  <2>2. \E n \in Name : FileOf[n] = fds[s][fmap[s][t].fd] /\ TokenOf[n] = t
    BY <2>1 DEF ServerInv, EntryNamesFile
  <2> QED BY <2>1, <2>2
<1>4. InsertNamesFile'
  BY DEF InsertNamesFile, ServerInv, At
<1>5. TypeInv'
  BY DEF ServerInv, TypeInv
<1> QED BY <1>2, <1>3, <1>4, <1>5 DEF ServerInv

\* One job changes, and what it owns does not.
LEMMA QuietStep ==
  ASSUME ServerInv, UNCHANGED fds, NEW j \in Slot, NEW r \in GoodJob \cup {NoJob},
         job' = [job EXCEPT ![j] = r], r.pc # "insert",
         \A s \in Server, f \in Fd : Holds(r, s, f) <=> Holds(job[j], s, f),
         fmap' \in [Server -> [Token -> Entry \cup {NoEntry}]],
         \A s \in Server, t \in Token :
           /\ fmap'[s][t] = NoEntry <=> fmap[s][t] = NoEntry
           /\ fmap[s][t] # NoEntry => fmap'[s][t].fd = fmap[s][t].fd,
         disk' \in [Server -> [Path -> FileState]]
  PROVE  ServerInv'
<1>1. /\ job' \in [Slot -> GoodJob \cup {NoJob}]
      /\ job'[j] = r
      /\ \A i \in Slot \ {j} : job'[i] = job[i]
  BY JobUpdate DEF ServerInv
<1>2. \A i \in Slot, s \in Server, f \in Fd : JobHolds(i, s, f)' <=> JobHolds(i, s, f)
  <2> SUFFICES ASSUME NEW i \in Slot, NEW s \in Server, NEW f \in Fd
               PROVE  JobHolds(i, s, f)' <=> JobHolds(i, s, f)
    OBVIOUS
  <2>1. CASE i = j
    BY <2>1, <1>1 DEF Holds, JobHolds
  <2>2. CASE i # j
    BY <2>2, <1>1 DEF JobHolds
  <2> QED BY <2>1, <2>2
<1>3. \A i \in Slot : job'[i].pc = "insert" => job'[i] = job[i]
  BY <1>1
<1> QED BY <1>1, <1>2, <1>3, QuietJobs

\* Some jobs change that own no descriptor before or after.
LEMMA HandsOff ==
  ASSUME ServerInv, UNCHANGED <<fmap, fds, disk>>,
         job' \in [Slot -> GoodJob \cup {NoJob}],
         \A i \in Slot : \/ job'[i] = job[i]
                         \/ /\ job[i].pc \notin {"insert", "trunc", "close"}
                            /\ job'[i].pc \notin {"insert", "trunc", "close"}
  PROVE  ServerInv'
<1>1. \A i \in Slot, s \in Server, f \in Fd : JobHolds(i, s, f)' <=> JobHolds(i, s, f)
  BY DEF JobHolds
<1>2. /\ fmap' \in [Server -> [Token -> Entry \cup {NoEntry}]]
      /\ disk' \in [Server -> [Path -> FileState]]
  BY DEF ServerInv, TypeInv
<1> QED BY <1>1, <1>2, QuietJobs

\* A handler that owns no descriptor goes on, the table stays as it is.
LEMMA FreeHands ==
  ASSUME ServerInv, UNCHANGED <<fmap, fds>>, NEW j \in Slot, NEW r \in GoodJob \cup {NoJob},
         job' = [job EXCEPT ![j] = r],
         job[j].pc \notin {"insert", "trunc", "close"},
         r.pc \notin {"insert", "trunc", "close"},
         disk' \in [Server -> [Path -> FileState]]
  PROVE  ServerInv'
<1>1. \A s \in Server, f \in Fd : Holds(r, s, f) <=> Holds(job[j], s, f)
  BY DEF Holds
<1>2. fmap' \in [Server -> [Token -> Entry \cup {NoEntry}]]
  BY DEF ServerInv, TypeInv
<1> QED BY <1>1, <1>2, QuietStep

\* A handler that owns no descriptor gets ready to reply.
LEMMA RespondStep ==
  ASSUME ServerInv, UNCHANGED <<fmap, fds, disk>>, NEW j \in Slot, NEW e \in Err,
         job[j].pc \notin {"free", "insert", "trunc", "close"}, Respond(j, e)
  PROVE  ServerInv'
<1> DEFINE r == [job[j] EXCEPT !.pc = "reply", !.err = e]
<1>1. job[j] \in Job
  BY AtJob DEF ServerInv, At
<1>2. r \in GoodJob /\ r.pc = "reply"
  <2>1. r \in GoodJob
    BY <1>1, Responding
  <2>2. r.pc = "reply"
    BY <1>1, Zenon DEF Job
  <2> QED BY <2>1, <2>2
<1>3. job' = [job EXCEPT ![j] = r]
  BY DEF Respond
<1>4. disk' \in [Server -> [Path -> FileState]]
  BY DEF ServerInv, TypeInv
<1> HIDE DEF r
<1> QED BY <1>2, <1>3, <1>4, FreeHands

\* A handler that works on a send: its job changes in wr or fwd only.
LEMMA WorkStep ==
  ASSUME ServerInv, UNCHANGED <<fmap, fds>>, NEW j \in Slot, At(j, "work"),
         NEW r \in Job, job' = [job EXCEPT ![j] = r],
         r.pc = job[j].pc, r.fd = job[j].fd, r.req = job[j].req, r.to = job[j].to,
         DOMAIN r.fwd = DOMAIN job[j].fwd,
         disk' \in [Server -> [Path -> FileState]]
  PROVE  ServerInv'
<1>1. Shaped(job[j])
  BY AtJob DEF ServerInv, At
<1>2. r \in GoodJob
  BY <1>1 DEF GoodJob, Shaped
<1> QED BY <1>2, FreeHands DEF At

\* A write, whole, short or failing, leaves the descriptors as they are.
LEMMA WriteStep ==
  ASSUME ServerInv, NEW j \in Slot,
         SendWrite(j) \/ SendWriteFails(j) \/ SendWriteShort(j)
  PROVE  ServerInv'
<1> DEFINE v == job[j]
           p == fds[v.srv][v.fd]
<1>1. At(j, "work") /\ UNCHANGED <<fmap, fds>>
  BY DEF SendWrite, SendWriteFails, SendWriteShort
<1>2. v \in Job /\ Shaped(v) /\ v.srv \in Server /\ v.req \in Request
  BY <1>1, AtJob DEF ServerInv, At
<1>3. /\ v.req.op = "send" /\ v.fd \in Fd
      /\ v.req.off \in Offset /\ v.req.len \in Nat /\ v.req.src \in Source \cup {Hole}
  <2>1. v.req.op = "send" /\ v.fd \in Fd
    BY <1>1, <1>2 DEF Shaped, At
  <2> QED BY <1>2, <2>1, RequestFields
<1>4. p \in Path \cup {Closed} /\ disk \in [Server -> [Path -> FileState]]
  BY <1>2, <1>3 DEF ServerInv, TypeInv
<1>w. ASSUME NEW w \in {"ok", "EIO"}, job' = [job EXCEPT ![j].wr = w],
             disk' \in [Server -> [Path -> FileState]]
      PROVE  ServerInv'
  <2> DEFINE r == [v EXCEPT !.wr = w]
  <2>1. w \in Err \cup {"todo"} /\ v.fwd \in Seq(Err \cup Pending)
    BY <1>1, AtJob DEF ServerInv, At, Err
  <2>2. /\ r \in Job /\ r.pc = v.pc /\ r.fd = v.fd /\ r.req = v.req
        /\ r.to = v.to /\ r.fwd = v.fwd
    BY <1>2, <2>1, Sending
  <2>3. job' = [job EXCEPT ![j] = r]
    BY <1>w
  <2> HIDE DEF r
  <2> QED BY <1>1, <1>w, <2>2, <2>3, WorkStep
<1>d. ASSUME NEW x \in FileState, p # Closed, disk' = [disk EXCEPT ![v.srv][p] = x]
      PROVE  disk' \in [Server -> [Path -> FileState]]
  BY <1>2, <1>4, <1>d, Update2
<1>5. CASE SendWrite(j)
  <2>1. CASE p = Closed
    <3>1. job' = [job EXCEPT ![j].wr = "EIO"] /\ UNCHANGED disk
      BY <1>5, <2>1 DEF SendWrite
    <3> QED BY <3>1, <1>4, <1>w
  <2>2. CASE p # Closed
    <3> DEFINE x == Written(disk[v.srv][p], v.req.off, v.req.len, v.req.src)
    <3>1. job' = [job EXCEPT ![j].wr = "ok"] /\ disk' = [disk EXCEPT ![v.srv][p] = x]
      BY <1>5, <2>2 DEF SendWrite
    <3>2. disk[v.srv][p] \in FileState
      BY <1>2, <1>4, <2>2
    <3>3. x \in FileState
      BY <1>3, <3>2, WrittenType
    <3> HIDE DEF x
    <3>4. disk' \in [Server -> [Path -> FileState]]
      BY <1>d, <2>2, <3>1, <3>3
    <3> QED BY <1>w, <3>1, <3>4
  <2> QED BY <2>1, <2>2
<1>6. CASE SendWriteFails(j)
  <2>1. job' = [job EXCEPT ![j].wr = "EIO"] /\ UNCHANGED disk
    BY <1>6 DEF SendWriteFails
  <2> QED BY <2>1, <1>4, <1>w
<1>7. CASE SendWriteShort(j)
  <2>1. PICK n \in 0..PadTo(v.req.len)-1 :
          disk' = [disk EXCEPT ![v.srv][p] =
                     PartWritten(disk[v.srv][p], v.req.off, n, v.req.src)]
    BY <1>7 DEF SendWriteShort
  <2>2. job' = [job EXCEPT ![j].wr = "ok"] /\ p # Closed
    BY <1>7 DEF SendWriteShort
  <2> DEFINE x == PartWritten(disk[v.srv][p], v.req.off, n, v.req.src)
  <2>3. n \in Nat
    BY <1>3, PadIsNat
  <2>4. disk[v.srv][p] \in FileState
    BY <1>2, <1>4, <2>2
  <2>5. x \in FileState
    BY <1>3, <2>3, <2>4, WrittenType
  <2>6. disk' = [disk EXCEPT ![v.srv][p] = x]
    BY <2>1
  <2> HIDE DEF x
  <2>7. disk' \in [Server -> [Path -> FileState]]
    BY <1>d, <2>2, <2>5, <2>6
  <2> QED BY <1>w, <2>2, <2>7
<1> QED BY <1>5, <1>6, <1>7

\* A send finds its entry, or none, or has no hops left.
LEMMA LookupStep ==
  ASSUME ServerInv, NEW j \in Slot, SendLookup(j)
  PROVE  ServerInv'
<1> DEFINE v == job[j]
           e == fmap[v.srv][v.req.tok]
<1>1. At(j, "getfd") /\ UNCHANGED <<fmap, fds, disk>>
  BY DEF SendLookup
<1>2. v \in Job /\ Shaped(v) /\ v.srv \in Server /\ v.req \in Request
  BY <1>1, AtJob DEF ServerInv, At
<1>3. v.req.op = "send" /\ v.req.tok \in Token /\ v.req.budget \in Nat
  <2>1. v.req.op = "send"
    BY <1>1, <1>2 DEF Shaped, At
  <2> QED BY <1>2, <2>1, RequestFields
<1>4. e \in Entry \cup {NoEntry}
  BY <1>2, <1>3 DEF ServerInv, TypeInv
<1>5. ASSUME NEW err \in Err, Respond(j, err) PROVE ServerInv'
  BY <1>1, <1>5, RespondStep DEF At
<1>6. CASE e = NoEntry \/ (e # NoEntry /\ e.to # <<>> /\ v.req.budget <= 1)
  <2>1. v.req.budget <= 1 => ~(v.req.budget > 1)
    BY <1>3
  <2>2. Respond(j, "ENOENT") \/ Respond(j, "ECANCELED")
    BY <1>6, <2>1, Zenon DEF SendLookup
  <2> QED BY <1>5, <2>2 DEF Err
<1>7. CASE e # NoEntry /\ ~(e.to # <<>> /\ v.req.budget <= 1)
  <2> DEFINE g == [k \in 1..Len(e.to) |-> "todo"]
             r == [v EXCEPT !.pc = "work", !.fd = e.fd, !.to = e.to, !.fwd = g]
  <2>1. job' = [job EXCEPT ![j] = r]
    BY <1>7 DEF SendLookup
  <2>2. e.fd \in Fd /\ e.to \in Seq([srv : Server, tok : Token])
    BY <1>4, <1>7 DEF Entry
  <2>3. g \in Seq(Err \cup Pending) /\ DOMAIN g = DOMAIN e.to
    <3>1. Len(e.to) \in Nat
      BY <2>2, LenProperties
    <3>2. \A k \in 1..Len(e.to) : "todo" \in Err \cup Pending
      BY DEF Pending
    <3>3. DOMAIN g = DOMAIN e.to
      BY <2>2, LenProperties
    <3>4. g \in Seq(Err \cup Pending)
      BY <3>1, <3>2, SMT
    <3> QED BY <3>3, <3>4
  <2> HIDE DEF g
  <2>4. r \in Job /\ r.pc = "work" /\ r.fd = e.fd /\ r.req = v.req /\ r.to = e.to /\ r.fwd = g
    BY <1>2, <2>2, <2>3, Zenon DEF Job, JobPc
  <2> HIDE DEF r
  <2>5. e.to # <<>> => v.req.budget > 1
    BY <1>3, <1>7
  <2>6. r \in GoodJob
    BY <1>3, <2>2, <2>3, <2>4, <2>5 DEF GoodJob, Shaped
  <2>7. disk' \in [Server -> [Path -> FileState]]
    BY <1>1 DEF ServerInv, TypeInv
  <2> QED BY <1>1, <2>1, <2>4, <2>6, <2>7, FreeHands DEF At
<1> QED BY <1>6, <1>7

\* What a send reports is the outcome of one of its parts.
LEMMA ChainErrorIsOne ==
  ASSUME NEW errs \in Seq(Err \cup Pending), NEW wr
  PROVE  \/ ChainError(errs, wr) = wr
         \/ \E k \in DOMAIN errs : ChainError(errs, wr) = errs[k]
<1> DEFINE Bad == {k \in 1..Len(errs) : errs[k] # "ok"}
<1>1. Len(errs) \in Nat /\ DOMAIN errs = 1..Len(errs)
  BY LenProperties
<1>2. CASE \E k \in DOMAIN errs : errs[k] # "ok"
  <2>1. Bad # {} /\ Bad \subseteq Nat
    BY <1>1, <1>2
  <2> HIDE DEF Bad
  <2>2. PICK m \in Bad : \A k \in Bad : <<k, m>> \notin OpToRel(<, Nat)
    BY <2>1, WFMin, NatLessThanWellFounded, Zenon
  <2>3. m \in Bad /\ \A k \in Bad : ~(k < m)
    BY <2>1, <2>2, Zenon DEF OpToRel
  <2> USE DEF Bad
  <2>4. m \in DOMAIN errs /\ errs[m] # "ok" /\ \A i \in 1..m-1 : errs[i] = "ok"
    BY <1>1, <2>3
  <2>5. (CHOOSE k \in DOMAIN errs : errs[k] # "ok" /\ \A i \in 1..k-1 : errs[i] = "ok")
          \in DOMAIN errs
    BY <2>4
  <2> QED BY <1>2, <2>5 DEF ChainError
<1>3. CASE ~ \E k \in DOMAIN errs : errs[k] # "ok"
  BY <1>3 DEF ChainError
<1> QED BY <1>2, <1>3

\* So it is an error code when all parts have returned.
LEMMA ChainErrorType ==
  ASSUME NEW errs \in Seq(Err \cup Pending), NEW wr \in Err,
         \A k \in DOMAIN errs : errs[k] \in Err
  PROVE  ChainError(errs, wr) \in Err
BY ChainErrorIsOne

\* A handler that owns nothing gets ready to reply.
LEMMA ReplyingSteps ==
  ASSUME ServerInv, NEW j \in Slot, CreateRejected(j) \/ SendJoin(j) \/ CloseHas(j)
  PROVE  ServerInv'
<1> DEFINE v == job[j]
<1>1. CASE CreateRejected(j)
  BY <1>1, RespondStep DEF CreateRejected, At, Err
<1>2. CASE CloseHas(j)
  <2>1. PICK e \in {"ENOENT", "ok"} : Respond(j, e)
    BY <1>2 DEF CloseHas
  <2> QED BY <1>2, <2>1, RespondStep DEF CloseHas, At, Err
<1>3. CASE SendJoin(j)
  <2>1. At(j, "work") /\ UNCHANGED <<fmap, fds, disk>> /\ Respond(j, ChainError(v.fwd, v.wr))
    BY <1>3 DEF SendJoin
  <2>2. v \in Job
    BY <2>1, AtJob DEF ServerInv, At
  <2>3. v.fwd \in Seq(Err \cup Pending) /\ v.wr \in Err \cup {"todo"}
    BY <2>2 DEF Job
  <2>4. \A k \in DOMAIN v.fwd : v.fwd[k] \in Err
    BY <1>3, <2>3, ElementOfSeq, LenProperties DEF SendJoin
  <2>5. v.wr \in Err
    BY <1>3, <2>3 DEF SendJoin
  <2>6. ChainError(v.fwd, v.wr) \in Err
    BY <2>3, <2>4, <2>5, ChainErrorType
  <2> QED BY <2>1, <2>6, RespondStep DEF At
<1> QED BY <1>1, <1>2, <1>3

\* The targets of an entry change, its descriptor does not.
LEMMA SetChainStep ==
  ASSUME ServerInv, NEW j \in Slot, SetChain(j)
  PROVE  ServerInv'
<1> DEFINE v == job[j]
           s == v.srv
           t == v.req.tok
<1>1. At(j, "chain") /\ UNCHANGED <<fds, disk>>
  BY DEF SetChain
<1>2. v \in Job /\ Shaped(v) /\ s \in Server /\ v.req \in Request
  BY <1>1, AtJob DEF ServerInv, At
<1>3. v.req.op = "chain" /\ t \in Token /\ v.req.targets \in Seq([srv : Server, tok : Token])
  <2>1. v.req.op = "chain"
    BY <1>1, <1>2 DEF Shaped, At
  <2> QED BY <1>2, <2>1, RequestFields
<1>4. CASE fmap[s][t] = NoEntry
  <2>1. Respond(j, "EIO") /\ UNCHANGED fmap
    BY <1>4, Zenon DEF SetChain
  <2> QED BY <1>1, <2>1, RespondStep DEF At, Err
<1>5. CASE fmap[s][t] # NoEntry
  <2> DEFINE r == [v EXCEPT !.pc = "reply", !.err = "ok"]
             x == [fmap[s][t] EXCEPT !.to = v.req.targets]
  <2>1. job' = [job EXCEPT ![j] = r] /\ fmap' = [fmap EXCEPT ![s][t] = x]
    BY <1>5, Zenon DEF SetChain, Respond
  <2>2. "ok" \in Err
    BY DEF Err
  <2>3. r \in GoodJob /\ r.pc = "reply"
    <3>1. r \in GoodJob
      BY <1>2, <2>2, Responding
    <3>2. r.pc = "reply"
      BY <1>2, Zenon DEF Job
    <3> QED BY <3>1, <3>2
  <2>4. fmap \in [Server -> [Token -> Entry \cup {NoEntry}]]
    BY DEF ServerInv, TypeInv
  <2>5. fmap[s][t] \in Entry
    BY <1>2, <1>3, <1>5, <2>4
  <2>6. x \in Entry /\ x.fd = fmap[s][t].fd
    BY <1>3, <2>5, Zenon DEF Entry
  <2> HIDE DEF r, x
  <2>x. x \in Entry \cup {NoEntry}
    BY <2>6
  <2>7. /\ fmap' \in [Server -> [Token -> Entry \cup {NoEntry}]]
        /\ \A y \in Server \ {s} : fmap'[y] = fmap[y]
        /\ \A u \in Token : fmap'[s][u] = IF u = t THEN x ELSE fmap[s][u]
    <3>1. fmap' = [fmap EXCEPT ![s][t] = x] /\ s \in Server
      BY <1>2, <2>1
    <3> QED BY <2>4, <2>x, <3>1, Update2
  <2>8. x # NoEntry
    BY <2>6, ServerAssumption
  <2>9. \A y \in Server, u \in Token :
          /\ fmap'[y][u] = NoEntry <=> fmap[y][u] = NoEntry
          /\ fmap[y][u] # NoEntry => fmap'[y][u].fd = fmap[y][u].fd
    BY <1>5, <2>6, <2>7, <2>8
  <2>10. \A y \in Server, f \in Fd : Holds(r, y, f) <=> Holds(v, y, f)
    BY <1>1, <2>3 DEF Holds, At
  <2>11. disk' \in [Server -> [Path -> FileState]]
    BY <1>1 DEF ServerInv, TypeInv
  <2>12. r \in GoodJob \cup {NoJob} /\ r.pc # "insert"
    BY <2>3
  <2> QED BY <1>1, <2>1, <2>7, <2>9, <2>10, <2>11, <2>12, QuietStep, Zenon
<1> QED BY <1>4, <1>5

\* The file is cut, its descriptor stays with the handler.
LEMMA TruncateStep ==
  ASSUME ServerInv, NEW j \in Slot, CloseTruncate(j)
  PROVE  ServerInv'
<1> DEFINE v == job[j]
           p == fds[v.srv][v.fd]
           r == [v EXCEPT !.pc = "close"]
           x == Truncated(disk[v.srv][p], v.size)
<1>1. At(j, "trunc") /\ UNCHANGED <<fmap, fds>> /\ job' = [job EXCEPT ![j] = r]
  BY DEF CloseTruncate
<1>2. v \in Job /\ Shaped(v) /\ v.srv \in Server /\ v.size \in Nat
  BY <1>1, AtJob DEF ServerInv, At
<1>3. v.fd \in Fd /\ v.req.op = "close"
  BY <1>1, <1>2 DEF Shaped, At
<1>4. r \in Job /\ r.pc = "close" /\ r.srv = v.srv /\ r.fd = v.fd /\ r.req = v.req
  BY <1>2, Going DEF JobPc
<1>5. disk \in [Server -> [Path -> FileState]] /\ p \in Path \cup {Closed}
  BY <1>2, <1>3 DEF ServerInv, TypeInv
<1>6. disk' \in [Server -> [Path -> FileState]]
  <2>1. CASE p = Closed
    BY <1>5, <2>1 DEF CloseTruncate
  <2>2. CASE p # Closed
    <3>1. x \in FileState
      <4>1. disk[v.srv][p] \in FileState
        BY <1>2, <1>5, <2>2
      <4> QED BY <1>2, <4>1, TruncatedType
    <3>2. disk' = [disk EXCEPT ![v.srv][p] = x]
      BY <2>2 DEF CloseTruncate
    <3> HIDE DEF x, p
    <3> QED BY <1>2, <1>5, <3>1, <3>2, Update2
  <2> QED BY <2>1, <2>2
<1> HIDE DEF r
<1>7. r \in GoodJob
  BY <1>3, <1>4 DEF GoodJob, Shaped
<1>8. \A s \in Server, f \in Fd : Holds(r, s, f) <=> Holds(v, s, f)
  BY <1>1, <1>4 DEF Holds, At
<1>9. fmap' \in [Server -> [Token -> Entry \cup {NoEntry}]]
  BY <1>1 DEF ServerInv, TypeInv
<1> QED BY <1>1, <1>4, <1>6, <1>7, <1>8, <1>9, QuietStep

-----------------------------------------------------------------------------
(* Steps that give a descriptor to another owner.                          *)

\* What job j holds after its step, and that the others hold what they held.
LEMMA HoldsUpdate ==
  ASSUME ServerInv, NEW j \in Slot, NEW r \in GoodJob \cup {NoJob},
         job' = [job EXCEPT ![j] = r]
  PROVE  \A i \in Slot, s \in Server, f \in Fd :
           JobHolds(i, s, f)' <=> IF i = j THEN Holds(r, s, f) ELSE JobHolds(i, s, f)
<1>1. job'[j] = r /\ \A i \in Slot \ {j} : job'[i] = job[i]
  BY JobUpdate DEF ServerInv
<1> SUFFICES ASSUME NEW i \in Slot, NEW s \in Server, NEW f \in Fd
             PROVE  JobHolds(i, s, f)' <=>
                      IF i = j THEN Holds(r, s, f) ELSE JobHolds(i, s, f)
  OBVIOUS
<1>2. CASE i = j
  BY <1>1, <1>2 DEF Holds, JobHolds
<1>3. CASE i # j
  BY <1>1, <1>3 DEF JobHolds
<1> QED BY <1>2, <1>3

\* A descriptor that keeps its state and its owners.
LEMMA SameOwner ==
  ASSUME NEW s \in Server, NEW f \in Fd, Owned(s, f), fds'[s][f] = fds[s][f],
         \A t \in Token : EntryHolds(s, t, f)' <=> EntryHolds(s, t, f),
         \A i \in Slot : JobHolds(i, s, f)' <=> JobHolds(i, s, f)
  PROVE  Owned(s, f)'
BY DEF Owned

\* FdOwned is about one descriptor at a time.
LEMMA AllOwned == FdOwned <=> \A s \in Server, f \in Fd : Owned(s, f)
BY DEF FdOwned, Owned

\* The file is opened on a descriptor that nobody had.
LEMMA OpenStep ==
  ASSUME ServerInv, NEW j \in Slot, CreateOpen(j)
  PROVE  ServerInv'
<1> DEFINE v == job[j]
           p == FileOf[v.req.name]
           x == Truncated(disk[v.srv][p], 0)
<1>1. At(j, "open") /\ UNCHANGED fmap
  BY DEF CreateOpen
<1>2. PICK f \in Fd : /\ fds[v.srv][f] = Closed
                      /\ fds' = [fds EXCEPT ![v.srv][f] = p]
                      /\ job' = [job EXCEPT ![j].pc = "insert", ![j].fd = f]
  BY DEF CreateOpen
<1> DEFINE r == [v EXCEPT !.pc = "insert", !.fd = f]
<1>3. v \in Job /\ Shaped(v) /\ v.srv \in Server /\ v.req \in Request
  BY <1>1, AtJob DEF ServerInv, At
<1>4. v.req.op = "create" /\ v.req.name \in Name /\ p \in Path
  <2>1. v.req.op = "create"
    BY <1>1, <1>3 DEF Shaped, At
  <2> QED BY <1>3, <2>1, RequestFields, ServerAssumption
<1>5. r \in Job /\ r.pc = "insert" /\ r.srv = v.srv /\ r.fd = f /\ r.req = v.req
  BY <1>3, Zenon DEF Job, JobPc
<1>6. job' = [job EXCEPT ![j] = r]
  BY <1>2
<1> HIDE DEF r
<1>7. r \in GoodJob
  BY <1>4, <1>5 DEF GoodJob, Shaped
<1>8. /\ job' \in [Slot -> GoodJob \cup {NoJob}]
      /\ job'[j] = r
      /\ \A i \in Slot \ {j} : job'[i] = job[i]
  BY <1>6, <1>7, JobUpdate DEF ServerInv
<1>9. /\ fds' \in [Server -> [Fd -> Path \cup {Closed}]]
      /\ \A s \in Server \ {v.srv} : fds'[s] = fds[s]
      /\ \A g \in Fd : fds'[v.srv][g] = IF g = f THEN p ELSE fds[v.srv][g]
  <2>1. p \in Path \cup {Closed} /\ fds \in [Server -> [Fd -> Path \cup {Closed}]]
    BY <1>4 DEF ServerInv, TypeInv
  <2> QED BY <1>2, <1>3, <2>1, Update2
<1>10. disk' \in [Server -> [Path -> FileState]]
  <2>1. disk \in [Server -> [Path -> FileState]]
    BY DEF ServerInv, TypeInv
  <2>2. x \in FileState
    <3>1. disk[v.srv][p] \in FileState
      BY <1>3, <1>4, <2>1
    <3> QED BY <3>1, TruncatedType
  <2>3. disk' = [disk EXCEPT ![v.srv][p] = x]
    BY DEF CreateOpen
  <2> HIDE DEF x
  <2> QED BY <1>3, <2>1, <2>2, <2>3, Update2
<1>11. TypeInv'
  BY <1>1, <1>8, <1>9, <1>10 DEF ServerInv, TypeInv
<1>12. /\ \A s \in Server, t \in Token, g \in Fd : EntryHolds(s, t, g)' <=> EntryHolds(s, t, g)
       /\ \A i \in Slot, s \in Server, g \in Fd :
            JobHolds(i, s, g)' <=> \/ JobHolds(i, s, g)
                                   \/ i = j /\ s = v.srv /\ g = f
  <2>1. \A s \in Server, g \in Fd : ~JobHolds(j, s, g)
    BY <1>1 DEF JobHolds, At
  <2>2. \A s \in Server, g \in Fd : Holds(r, s, g) <=> s = v.srv /\ g = f
    BY <1>5 DEF Holds
  <2>3. \A i \in Slot, s \in Server, g \in Fd :
          JobHolds(i, s, g)' <=> IF i = j THEN Holds(r, s, g) ELSE JobHolds(i, s, g)
    BY <1>6, <1>7, HoldsUpdate
  <2>4. \A s \in Server, t \in Token, g \in Fd : EntryHolds(s, t, g)' <=> EntryHolds(s, t, g)
    BY <1>1 DEF EntryHolds
  <2> QED BY <2>1, <2>2, <2>3, <2>4
<1>13. \A s \in Server, g \in Fd : Owned(s, g)
  BY AllOwned DEF ServerInv
<1>14. /\ \A t \in Token : ~EntryHolds(v.srv, t, f)
       /\ \A i \in Slot : ~JobHolds(i, v.srv, f)
  BY <1>2, <1>3, <1>13 DEF Owned
<1>15. FdOwned'
  <2> SUFFICES ASSUME NEW s \in Server, NEW g \in Fd PROVE Owned(s, g)'
    BY DEF FdOwned, Owned
  <2>1. CASE s = v.srv /\ g = f
    <3>1. fds'[s][g] # Closed
      BY <1>4, <1>9, <2>1, ServerAssumption
    <3> QED BY <1>12, <1>14, <2>1, <3>1 DEF Owned
  <2>2. CASE ~(s = v.srv /\ g = f)
    <3>1. fds'[s][g] = fds[s][g]
      BY <1>9, <2>2
    <3> QED BY <1>12, <1>13, <2>2, <3>1, SameOwner
  <2> QED BY <2>1, <2>2
<1>16. EntryNamesFile'
  <2> SUFFICES ASSUME NEW s \in Server, NEW t \in Token, fmap[s][t] # NoEntry
               PROVE  \E n \in Name : FileOf[n] = fds'[s][fmap[s][t].fd] /\ TokenOf[n] = t
    BY <1>1 DEF EntryNamesFile
  <2>1. fmap[s][t].fd \in Fd
    BY DEF ServerInv, TypeInv, Entry
  <2>2. ~(s = v.srv /\ fmap[s][t].fd = f)
    BY <1>14 DEF EntryHolds
  <2>3. fds'[s][fmap[s][t].fd] = fds[s][fmap[s][t].fd]
    BY <1>9, <2>1, <2>2
  <2> QED BY <2>3 DEF ServerInv, EntryNamesFile
<1>17. InsertNamesFile'
  <2> SUFFICES ASSUME NEW i \in Slot, job'[i].pc = "insert"
               PROVE  fds'[job'[i].srv][job'[i].fd] = FileOf[job'[i].req.name]
    BY DEF InsertNamesFile, At
  <2>1. CASE i = j
    BY <1>3, <1>5, <1>8, <1>9, <2>1
  <2>2. CASE i # j
    <3>1. job'[i] = job[i] /\ At(i, "insert") /\ ~At(i, "free")
      BY <1>8, <2>2 DEF At
    <3>2. job[i].srv \in Server /\ job[i].fd \in Fd
      BY <3>1, AtJob DEF ServerInv, Shaped, At
    <3>3. JobHolds(i, job[i].srv, job[i].fd)
      BY <3>1 DEF JobHolds, At
    <3>4. ~(job[i].srv = v.srv /\ job[i].fd = f)
      BY <1>14, <3>3
    <3>5. fds'[job[i].srv][job[i].fd] = fds[job[i].srv][job[i].fd]
      BY <1>9, <3>2, <3>4
    <3> QED BY <3>1, <3>5 DEF ServerInv, InsertNamesFile
  <2> QED BY <2>1, <2>2
<1> QED BY <1>11, <1>15, <1>16, <1>17 DEF ServerInv

\* A handler closes the descriptor it holds, and ends or gets ready to reply.
LEMMA GiveBack ==
  ASSUME ServerInv, UNCHANGED <<fmap, disk>>, NEW j \in Slot,
         job[j].pc \in {"insert", "close"},
         fds' = [fds EXCEPT ![job[j].srv][job[j].fd] = Closed],
         NEW r \in GoodJob \cup {NoJob}, job' = [job EXCEPT ![j] = r],
         r.pc \in {"reply", "free"}
  PROVE  ServerInv'
<1> DEFINE v == job[j]
<1>1. v \in Job /\ Shaped(v) /\ v.srv \in Server /\ v.fd \in Fd
  BY AtJob DEF ServerInv, At, Shaped
<1>2. /\ job' \in [Slot -> GoodJob \cup {NoJob}]
      /\ job'[j] = r
      /\ \A i \in Slot \ {j} : job'[i] = job[i]
  BY JobUpdate DEF ServerInv
<1>3. /\ fds' \in [Server -> [Fd -> Path \cup {Closed}]]
      /\ \A s \in Server \ {v.srv} : fds'[s] = fds[s]
      /\ \A g \in Fd : fds'[v.srv][g] = IF g = v.fd THEN Closed ELSE fds[v.srv][g]
  <2>1. Closed \in Path \cup {Closed} /\ fds \in [Server -> [Fd -> Path \cup {Closed}]]
    BY DEF ServerInv, TypeInv
  <2> QED BY <1>1, <2>1, Update2
<1>4. TypeInv'
  BY <1>2, <1>3 DEF ServerInv, TypeInv
<1>5. /\ \A s \in Server, t \in Token, g \in Fd : EntryHolds(s, t, g)' <=> EntryHolds(s, t, g)
      /\ \A i \in Slot, s \in Server, g \in Fd :
           JobHolds(i, s, g)' <=> i # j /\ JobHolds(i, s, g)
  <2>1. \A s \in Server, g \in Fd : ~Holds(r, s, g)
    BY DEF Holds
  <2>2. \A i \in Slot, s \in Server, g \in Fd :
          JobHolds(i, s, g)' <=> IF i = j THEN Holds(r, s, g) ELSE JobHolds(i, s, g)
    BY HoldsUpdate
  <2>3. \A s \in Server, t \in Token, g \in Fd : EntryHolds(s, t, g)' <=> EntryHolds(s, t, g)
    BY DEF EntryHolds
  <2> QED BY <2>1, <2>2, <2>3
<1>6. \A s \in Server, g \in Fd : Owned(s, g)
  BY AllOwned DEF ServerInv
<1>7. JobHolds(j, v.srv, v.fd)
  BY DEF JobHolds
<1>8. /\ \A t \in Token : ~EntryHolds(v.srv, t, v.fd)
      /\ \A i \in Slot : JobHolds(i, v.srv, v.fd) => i = j
  BY <1>1, <1>6, <1>7 DEF Owned
<1>9. FdOwned'
  <2> SUFFICES ASSUME NEW s \in Server, NEW g \in Fd PROVE Owned(s, g)'
    BY DEF FdOwned, Owned
  <2>1. CASE s = v.srv /\ g = v.fd
    <3>1. fds'[s][g] = Closed
      BY <1>3, <2>1
    <3> QED BY <1>5, <1>8, <2>1, <3>1 DEF Owned
  <2>2. CASE ~(s = v.srv /\ g = v.fd)
    <3>1. fds'[s][g] = fds[s][g]
      BY <1>3, <2>2
    <3>2. ~JobHolds(j, s, g)
      BY <2>2 DEF JobHolds
    <3>3. \A i \in Slot : JobHolds(i, s, g)' <=> JobHolds(i, s, g)
      BY <1>5, <3>2
    <3> QED BY <1>5, <1>6, <3>1, <3>3, SameOwner
  <2> QED BY <2>1, <2>2
<1>10. EntryNamesFile'
  <2> SUFFICES ASSUME NEW s \in Server, NEW t \in Token, fmap[s][t] # NoEntry
               PROVE  \E n \in Name : FileOf[n] = fds'[s][fmap[s][t].fd] /\ TokenOf[n] = t
    BY DEF EntryNamesFile
  <2>1. fmap[s][t].fd \in Fd
    BY DEF ServerInv, TypeInv, Entry
  <2>2. ~(s = v.srv /\ fmap[s][t].fd = v.fd)
    BY <1>8 DEF EntryHolds
  <2>3. fds'[s][fmap[s][t].fd] = fds[s][fmap[s][t].fd]
    BY <1>3, <2>1, <2>2
  <2> QED BY <2>3 DEF ServerInv, EntryNamesFile
<1>11. InsertNamesFile'
  <2> SUFFICES ASSUME NEW i \in Slot, job'[i].pc = "insert"
               PROVE  fds'[job'[i].srv][job'[i].fd] = FileOf[job'[i].req.name]
    BY DEF InsertNamesFile, At
  <2>1. i # j
    BY <1>2
  <2>2. job'[i] = job[i] /\ At(i, "insert") /\ ~At(i, "free")
    BY <1>2, <2>1 DEF At
  <2>3. job[i].srv \in Server /\ job[i].fd \in Fd
    BY <2>2, AtJob DEF ServerInv, Shaped, At
  <2>4. JobHolds(i, job[i].srv, job[i].fd)
    BY <2>2 DEF JobHolds, At
  <2>5. ~(job[i].srv = v.srv /\ job[i].fd = v.fd)
    BY <1>8, <2>1, <2>4
  <2>6. fds'[job[i].srv][job[i].fd] = fds[job[i].srv][job[i].fd]
    BY <1>3, <2>3, <2>5
  <2> QED BY <2>2, <2>6 DEF ServerInv, InsertNamesFile
<1> QED BY <1>4, <1>9, <1>10, <1>11 DEF ServerInv

\* The end of a close: a reply, or nothing more.
LEMMA EndCloseJob ==
  ASSUME ServerInv, NEW j \in Slot, ~At(j, "free"), NEW e \in Err, EndClose(j, e)
  PROVE  \E r \in GoodJob \cup {NoJob} :
           job' = [job EXCEPT ![j] = r] /\ r.pc \in {"reply", "free"}
<1> DEFINE r == [job[j] EXCEPT !.pc = "reply", !.err = e]
<1>1. job[j] \in Job
  BY AtJob DEF ServerInv
<1>2. CASE job[j].req.wait
  <2>1. job' = [job EXCEPT ![j] = r]
    BY <1>2, Zenon DEF EndClose, Respond
  <2>2. r \in GoodJob
    BY <1>1, Responding
  <2>3. r.pc = "reply"
    BY <1>1, Zenon DEF Job
  <2> HIDE DEF r
  <2> QED BY <2>1, <2>2, <2>3
<1>3. CASE ~job[j].req.wait
  <2>1. job' = [job EXCEPT ![j] = NoJob]
    BY <1>3, Zenon DEF EndClose
  <2>2. NoJob.pc = "free" /\ NoJob \in GoodJob \cup {NoJob}
    BY DEF NoJob
  <2> QED BY <2>1, <2>2, Zenon
<1> QED BY <1>2, <1>3

\* The handler closes the descriptor it took out of the table.
LEMMA CloseFdStep ==
  ASSUME ServerInv, NEW j \in Slot, CloseFd(j)
  PROVE  ServerInv'
<1>1. /\ At(j, "close") /\ UNCHANGED <<fmap, disk>> /\ EndClose(j, "ok")
      /\ fds' = [fds EXCEPT ![job[j].srv][job[j].fd] = Closed]
  BY DEF CloseFd
<1>2. ~At(j, "free") /\ "ok" \in Err
  BY <1>1 DEF At, Err
<1>3. PICK r \in GoodJob \cup {NoJob} :
        job' = [job EXCEPT ![j] = r] /\ r.pc \in {"reply", "free"}
  BY <1>1, <1>2, EndCloseJob
<1> QED BY <1>1, <1>3, GiveBack DEF At

\* A duplicate is turned away, or the file is entered: then the table owns it.
LEMMA InsertStep ==
  ASSUME ServerInv, NEW j \in Slot, CreateInsert(j)
  PROVE  ServerInv'
<1> DEFINE v == job[j]
           s == v.srv
           t == TokenOf[v.req.name]
           x == [fd |-> v.fd, size |-> v.req.size, to |-> <<>>]
<1>1. At(j, "insert") /\ UNCHANGED disk
  BY DEF CreateInsert
<1>2. v \in Job /\ Shaped(v) /\ s \in Server /\ v.req \in Request /\ v.fd \in Fd
  BY <1>1, AtJob DEF ServerInv, At, Shaped
<1>3. v.req.op = "create" /\ v.req.name \in Name /\ v.req.size \in Nat /\ t \in Token
  <2>1. v.req.op = "create"
    BY <1>1, <1>2 DEF Shaped, At
  <2> QED BY <1>2, <2>1, RequestFields, ServerAssumption
<1>r. ASSUME NEW e \in Err, Respond(j, e)
      PROVE  \E r \in GoodJob : job' = [job EXCEPT ![j] = r] /\ r.pc = "reply"
  <2> DEFINE r == [v EXCEPT !.pc = "reply", !.err = e]
  <2>1. job' = [job EXCEPT ![j] = r]
    BY <1>r DEF Respond
  <2>2. r \in GoodJob
    BY <1>2, Responding
  <2>3. r.pc = "reply"
    BY <1>2, Zenon DEF Job
  <2> HIDE DEF r
  <2> QED BY <2>1, <2>2, <2>3
<1>4. CASE fmap[s][t] # NoEntry
  <2>1. fds' = [fds EXCEPT ![s][v.fd] = Closed] /\ Respond(j, "EEXIST") /\ UNCHANGED fmap
    BY <1>4, Zenon DEF CreateInsert
  <2>2. PICK r \in GoodJob : job' = [job EXCEPT ![j] = r] /\ r.pc = "reply"
    BY <1>r, <2>1 DEF Err
  <2> QED BY <1>1, <2>1, <2>2, GiveBack DEF At
<1>5. CASE fmap[s][t] = NoEntry
  <2>1. fmap' = [fmap EXCEPT ![s][t] = x] /\ Respond(j, "ok") /\ UNCHANGED fds
    BY <1>5, Zenon DEF CreateInsert
  <2>2. PICK r \in GoodJob : job' = [job EXCEPT ![j] = r] /\ r.pc = "reply"
    BY <1>r, <2>1 DEF Err
  <2>3. /\ job' \in [Slot -> GoodJob \cup {NoJob}]
        /\ job'[j] = r
        /\ \A i \in Slot \ {j} : job'[i] = job[i]
    BY <2>2, JobUpdate DEF ServerInv
  <2>4. x \in Entry /\ x.fd = v.fd
    <3>1. <<>> \in Seq([srv : Server, tok : Token])
      OBVIOUS
    <3>2. x \in Entry
      BY <1>2, <1>3, <3>1, Zenon DEF Entry
    <3> QED BY <3>2
  <2> HIDE DEF x
  <2>5. x # NoEntry /\ x \in Entry \cup {NoEntry}
    BY <2>4, ServerAssumption
  <2>6. /\ fmap' \in [Server -> [Token -> Entry \cup {NoEntry}]]
        /\ \A y \in Server \ {s} : fmap'[y] = fmap[y]
        /\ \A u \in Token : fmap'[s][u] = IF u = t THEN x ELSE fmap[s][u]
    <3>1. /\ fmap' = [fmap EXCEPT ![s][t] = x]
          /\ s \in Server /\ t \in Token /\ x \in Entry \cup {NoEntry}
      BY <1>2, <1>3, <2>1, <2>5
    <3> QED BY <3>1, TableUpdate DEF ServerInv
  <2>7. TypeInv'
    BY <1>1, <2>1, <2>3, <2>6 DEF ServerInv, TypeInv
  <2>8. JobHolds(j, s, v.fd)
    BY <1>1 DEF JobHolds, At
  <2>9. \A y \in Server, f \in Fd : Owned(y, f)
    BY AllOwned DEF ServerInv
  <2>10. /\ fds[s][v.fd] # Closed
         /\ \A u \in Token : ~EntryHolds(s, u, v.fd)
         /\ \A i \in Slot : JobHolds(i, s, v.fd) => i = j
    BY <1>2, <2>8, <2>9 DEF Owned
  <2>11. \A i \in Slot, y \in Server, f \in Fd :
           JobHolds(i, y, f)' <=> i # j /\ JobHolds(i, y, f)
    <3>1. \A y \in Server, f \in Fd : ~Holds(r, y, f)
      BY <2>2 DEF Holds
    <3>2. \A i \in Slot, y \in Server, f \in Fd :
            JobHolds(i, y, f)' <=> IF i = j THEN Holds(r, y, f) ELSE JobHolds(i, y, f)
      BY <2>2, HoldsUpdate
    <3> QED BY <3>1, <3>2
  <2>12. \A y \in Server, u \in Token, f \in Fd :
           EntryHolds(y, u, f)' <=> \/ EntryHolds(y, u, f)
                                    \/ y = s /\ u = t /\ f = v.fd
    <3> SUFFICES ASSUME NEW y \in Server, NEW u \in Token, NEW f \in Fd
                 PROVE  EntryHolds(y, u, f)' <=> \/ EntryHolds(y, u, f)
                                                 \/ y = s /\ u = t /\ f = v.fd
      OBVIOUS
    <3>1. CASE y = s /\ u = t
      <4>1. fmap'[y][u] = x /\ fmap[y][u] = NoEntry
        BY <1>3, <1>5, <2>6, <3>1
      <4>2. EntryHolds(y, u, f)' <=> f = v.fd
        BY <2>4, <2>5, <4>1, Zenon DEF EntryHolds
      <4> QED BY <3>1, <4>1, <4>2 DEF EntryHolds
    <3>2. CASE ~(y = s /\ u = t)
      <4>1. fmap'[y][u] = fmap[y][u]
        BY <2>6, <3>2
      <4> QED BY <3>2, <4>1 DEF EntryHolds
    <3> QED BY <3>1, <3>2
  <2>13. FdOwned'
    <3> SUFFICES ASSUME NEW y \in Server, NEW f \in Fd PROVE Owned(y, f)'
      BY DEF FdOwned, Owned
    <3>1. CASE y = s /\ f = v.fd
      <4>1. fds'[y][f] # Closed
        BY <2>1, <2>10, <3>1
      <4> QED BY <1>3, <2>10, <2>11, <2>12, <3>1, <4>1 DEF Owned
    <3>2. CASE ~(y = s /\ f = v.fd)
      <4>1. ~JobHolds(j, y, f)
        BY <3>2 DEF JobHolds
      <4>2. \A i \in Slot : JobHolds(i, y, f)' <=> JobHolds(i, y, f)
        BY <2>11, <4>1
      <4>3. \A u \in Token : EntryHolds(y, u, f)' <=> EntryHolds(y, u, f)
        BY <2>12, <3>2
      <4> QED BY <2>1, <2>9, <4>2, <4>3, SameOwner
    <3> QED BY <3>1, <3>2
  <2>14. EntryNamesFile'
    <3> SUFFICES ASSUME NEW y \in Server, NEW u \in Token, fmap'[y][u] # NoEntry
                 PROVE  \E n \in Name : FileOf[n] = fds[y][fmap'[y][u].fd] /\ TokenOf[n] = u
      BY <2>1 DEF EntryNamesFile
    <3>1. CASE y = s /\ u = t
      <4>1. fds[s][v.fd] = FileOf[v.req.name]
        BY <1>1 DEF ServerInv, InsertNamesFile
      <4> QED BY <1>3, <2>4, <2>6, <3>1, <4>1
    <3>2. CASE ~(y = s /\ u = t)
      <4>1. fmap'[y][u] = fmap[y][u]
        BY <2>6, <3>2
      <4> QED BY <4>1 DEF ServerInv, EntryNamesFile
    <3> QED BY <3>1, <3>2
  <2>15. InsertNamesFile'
    BY <2>1, <2>2, <2>3 DEF ServerInv, InsertNamesFile, At
  <2> QED BY <2>7, <2>13, <2>14, <2>15 DEF ServerInv
<1> QED BY <1>4, <1>5

\* The entry is taken out of the table: the handler owns its descriptor now.
LEMMA EraseStep ==
  ASSUME ServerInv, NEW j \in Slot, CloseErase(j)
  PROVE  ServerInv'
<1> DEFINE v == job[j]
           s == v.srv
           t == v.req.tok
           e == fmap[s][t]
           r == [v EXCEPT !.pc = "trunc", !.fd = e.fd, !.size = e.size]
<1>1. At(j, "erase") /\ ~At(j, "free") /\ UNCHANGED <<fds, disk>>
  BY DEF CloseErase, At
<1>2. v \in Job /\ Shaped(v) /\ s \in Server /\ v.req \in Request
  BY <1>1, AtJob DEF ServerInv
<1>3. v.req.op = "close" /\ t \in Token
  <2>1. v.req.op = "close"
    BY <1>1, <1>2 DEF Shaped, At
  <2> QED BY <1>2, <2>1, RequestFields
<1>4. disk' \in [Server -> [Path -> FileState]]
  BY <1>1 DEF ServerInv, TypeInv
<1>5. CASE e = NoEntry
  <2>1. EndClose(j, "ENOENT") /\ UNCHANGED fmap
    BY <1>5, Zenon DEF CloseErase
  <2>2. PICK q \in GoodJob \cup {NoJob} :
          job' = [job EXCEPT ![j] = q] /\ q.pc \in {"reply", "free"}
    BY <1>1, <2>1, EndCloseJob DEF Err
  <2> QED BY <1>1, <1>4, <2>1, <2>2, FreeHands DEF At
<1>6. CASE e # NoEntry
  <2>1. job' = [job EXCEPT ![j] = r] /\ fmap' = [fmap EXCEPT ![s][t] = NoEntry]
    BY <1>6, Zenon DEF CloseErase
  <2>2. e.fd \in Fd /\ e.size \in Nat
    BY <1>2, <1>3, <1>6 DEF ServerInv, TypeInv, Entry
  <2>3. r \in Job /\ r.pc = "trunc" /\ r.srv = s /\ r.fd = e.fd /\ r.req = v.req
    BY <1>2, <2>2, Zenon DEF Job, JobPc
  <2> HIDE DEF r
  <2>4. r \in GoodJob
    BY <1>3, <2>2, <2>3 DEF GoodJob, Shaped
  <2>5. /\ job' \in [Slot -> GoodJob \cup {NoJob}]
        /\ job'[j] = r
        /\ \A i \in Slot \ {j} : job'[i] = job[i]
    BY <2>1, <2>4, JobUpdate DEF ServerInv
  <2>6. /\ fmap' \in [Server -> [Token -> Entry \cup {NoEntry}]]
        /\ \A y \in Server \ {s} : fmap'[y] = fmap[y]
        /\ \A u \in Token : fmap'[s][u] = IF u = t THEN NoEntry ELSE fmap[s][u]
    <3>1. /\ fmap' = [fmap EXCEPT ![s][t] = NoEntry]
          /\ s \in Server /\ t \in Token /\ NoEntry \in Entry \cup {NoEntry}
      BY <1>2, <1>3, <2>1
    <3> QED BY <3>1, TableUpdate DEF ServerInv
  <2>7. TypeInv'
    BY <1>1, <2>5, <2>6 DEF ServerInv, TypeInv
  <2>8. \A y \in Server, f \in Fd : Owned(y, f)
    BY AllOwned DEF ServerInv
  <2>9. /\ fds[s][e.fd] # Closed
        /\ \A u \in Token : EntryHolds(s, u, e.fd) <=> u = t
        /\ \A i \in Slot : ~JobHolds(i, s, e.fd)
    <3>1. EntryHolds(s, t, e.fd)
      BY <1>6 DEF EntryHolds
    <3>2. Owned(s, e.fd)
      BY <1>2, <2>2, <2>8
    <3> QED BY <1>3, <3>1, <3>2 DEF Owned
  <2>10. \A y \in Server, u \in Token, f \in Fd :
           EntryHolds(y, u, f)' <=> EntryHolds(y, u, f) /\ ~(y = s /\ u = t)
    <3> SUFFICES ASSUME NEW y \in Server, NEW u \in Token, NEW f \in Fd
                 PROVE  EntryHolds(y, u, f)' <=> EntryHolds(y, u, f) /\ ~(y = s /\ u = t)
      OBVIOUS
    <3>1. CASE y = s /\ u = t
      <4>1. fmap'[y][u] = NoEntry
        BY <1>3, <2>6, <3>1
      <4> QED BY <3>1, <4>1 DEF EntryHolds
    <3>2. CASE ~(y = s /\ u = t)
      <4>1. fmap'[y][u] = fmap[y][u]
        BY <2>6, <3>2
      <4> QED BY <3>2, <4>1 DEF EntryHolds
    <3> QED BY <3>1, <3>2
  <2>11. \A i \in Slot, y \in Server, f \in Fd :
           JobHolds(i, y, f)' <=> \/ JobHolds(i, y, f)
                                  \/ i = j /\ y = s /\ f = e.fd
    <3>1. \A y \in Server, f \in Fd : ~JobHolds(j, y, f)
      BY <1>1 DEF JobHolds, At
    <3>2. \A y \in Server, f \in Fd : Holds(r, y, f) <=> y = s /\ f = e.fd
      BY <2>3 DEF Holds
    <3>3. \A i \in Slot, y \in Server, f \in Fd :
            JobHolds(i, y, f)' <=> IF i = j THEN Holds(r, y, f) ELSE JobHolds(i, y, f)
      BY <2>1, <2>4, HoldsUpdate
    <3> QED BY <3>1, <3>2, <3>3
  <2>12. FdOwned'
    <3> SUFFICES ASSUME NEW y \in Server, NEW f \in Fd PROVE Owned(y, f)'
      BY DEF FdOwned, Owned
    <3>1. CASE y = s /\ f = e.fd
      <4>1. fds'[y][f] # Closed
        BY <1>1, <2>9, <3>1
      <4>2. \A u \in Token : ~EntryHolds(y, u, f)'
        BY <2>9, <2>10, <3>1
      <4>3. \A i \in Slot : JobHolds(i, y, f)' <=> i = j
        BY <2>9, <2>11, <3>1
      <4> QED BY <4>1, <4>2, <4>3 DEF Owned
    <3>2. CASE ~(y = s /\ f = e.fd)
      <4>1. \A i \in Slot : JobHolds(i, y, f)' <=> JobHolds(i, y, f)
        BY <2>11, <3>2
      <4>2. \A u \in Token : EntryHolds(y, u, f)' <=> EntryHolds(y, u, f)
        BY <2>10, <3>2 DEF EntryHolds
      <4>3. fds'[y][f] = fds[y][f]
        BY <1>1
      <4> QED BY <2>8, <4>1, <4>2, <4>3, SameOwner
    <3> QED BY <3>1, <3>2
  <2>13. EntryNamesFile'
    <3> SUFFICES ASSUME NEW y \in Server, NEW u \in Token, fmap'[y][u] # NoEntry
                 PROVE  \E n \in Name : FileOf[n] = fds[y][fmap'[y][u].fd] /\ TokenOf[n] = u
      BY <1>1 DEF EntryNamesFile
    <3>1. fmap'[y][u] = fmap[y][u]
      BY <2>6
    <3> QED BY <3>1 DEF ServerInv, EntryNamesFile
  <2>14. InsertNamesFile'
    BY <1>1, <2>3, <2>5 DEF ServerInv, InsertNamesFile, At
  <2> QED BY <2>7, <2>12, <2>13, <2>14 DEF ServerInv
<1> QED BY <1>5, <1>6

\* A server is started again: nothing is open on it, and no handler is left.
LEMMA CrashStep ==
  ASSUME ServerInv, NEW s \in Server, Restart(s),
         job' = [i \in Slot |-> IF i \in Lost(s) THEN NoJob ELSE job[i]]
  PROVE  ServerInv'
<1>1. /\ fmap' = [fmap EXCEPT ![s] = [t \in Token |-> NoEntry]]
      /\ fds' = [fds EXCEPT ![s] = [f \in Fd |-> Closed]]
      /\ UNCHANGED disk
      /\ job' = [i \in Slot |-> IF i \in Lost(s) THEN NoJob ELSE job[i]]
  BY DEF Restart
<1>2. TypeInv
  BY DEF ServerInv
<1>3. /\ fmap' \in [Server -> [Token -> Entry \cup {NoEntry}]]
      /\ \A y \in Server \ {s} : fmap'[y] = fmap[y]
      /\ \A t \in Token : fmap'[s][t] = NoEntry
  BY <1>1, <1>2 DEF TypeInv
<1>4. /\ fds' \in [Server -> [Fd -> Path \cup {Closed}]]
      /\ \A y \in Server \ {s} : fds'[y] = fds[y]
      /\ \A f \in Fd : fds'[s][f] = Closed
  BY <1>1, <1>2 DEF TypeInv
<1>5. job' \in [Slot -> GoodJob \cup {NoJob}]
  BY <1>1, <1>2 DEF TypeInv
<1>6. TypeInv'
  BY <1>1, <1>2, <1>3, <1>4, <1>5 DEF TypeInv
<1>7. \A i \in Slot : /\ i \in Lost(s) => job'[i] = NoJob
                      /\ i \notin Lost(s) => job'[i] = job[i]
  BY <1>1
<1>8. \A i \in Slot, f \in Fd : ~JobHolds(i, s, f)'
  <2> SUFFICES ASSUME NEW i \in Slot, NEW f \in Fd, JobHolds(i, s, f)'
               PROVE  FALSE
    OBVIOUS
  <2>1. CASE i \in Lost(s)
    BY <1>7, <2>1 DEF JobHolds, NoJob
  <2>2. CASE i \notin Lost(s)
    BY <1>7, <2>2 DEF JobHolds, Lost
  <2> QED BY <2>1, <2>2
<1>9. \A i \in Slot, y \in Server \ {s}, f \in Fd : JobHolds(i, y, f)' <=> JobHolds(i, y, f)
  <2> SUFFICES ASSUME NEW i \in Slot, NEW y \in Server \ {s}, NEW f \in Fd
               PROVE  JobHolds(i, y, f)' <=> JobHolds(i, y, f)
    OBVIOUS
  <2>1. CASE i \in Lost(s)
    BY <1>7, <2>1 DEF JobHolds, NoJob, Lost
  <2>2. CASE i \notin Lost(s)
    BY <1>7, <2>2 DEF JobHolds
  <2> QED BY <2>1, <2>2
<1>10. FdOwned'
  <2> SUFFICES ASSUME NEW y \in Server, NEW f \in Fd PROVE Owned(y, f)'
    BY DEF FdOwned, Owned
  <2>1. CASE y = s
    BY <1>3, <1>4, <1>8, <2>1 DEF Owned, EntryHolds
  <2>2. CASE y # s
    <3>1. Owned(y, f)
      BY AllOwned DEF ServerInv
    <3>2. fds'[y][f] = fds[y][f] /\ fmap'[y] = fmap[y]
      BY <1>3, <1>4, <2>2
    <3>3. \A t \in Token : EntryHolds(y, t, f)' <=> EntryHolds(y, t, f)
      BY <3>2 DEF EntryHolds
    <3>4. \A i \in Slot : JobHolds(i, y, f)' <=> JobHolds(i, y, f)
      BY <1>9, <2>2
    <3> QED BY <3>1, <3>2, <3>3, <3>4, SameOwner
  <2> QED BY <2>1, <2>2
<1>11. EntryNamesFile'
  <2> SUFFICES ASSUME NEW y \in Server, NEW t \in Token, fmap'[y][t] # NoEntry
               PROVE  \E n \in Name : FileOf[n] = fds'[y][fmap'[y][t].fd] /\ TokenOf[n] = t
    BY DEF EntryNamesFile
  <2>1. fmap'[y] = fmap[y] /\ fds'[y] = fds[y]
    BY <1>3, <1>4
  <2> QED BY <2>1 DEF ServerInv, EntryNamesFile
<1>12. InsertNamesFile'
  <2> SUFFICES ASSUME NEW i \in Slot, job'[i].pc = "insert"
               PROVE  fds'[job'[i].srv][job'[i].fd] = FileOf[job'[i].req.name]
    BY DEF InsertNamesFile, At
  <2>1. i \notin Lost(s)
    BY <1>7 DEF NoJob
  <2>2. job'[i] = job[i] /\ At(i, "insert") /\ ~At(i, "free")
    BY <1>7, <2>1 DEF At
  <2>3. job[i].srv \in Server /\ job[i].srv # s
    BY <2>1, <2>2, <1>2, AtJob DEF Lost, At
  <2>4. fds'[job[i].srv] = fds[job[i].srv]
    BY <1>4, <2>3
  <2> QED BY <2>2, <2>4 DEF ServerInv, InsertNamesFile
<1> QED BY <1>6, <1>10, <1>11, <1>12 DEF ServerInv

\* A step of one handler, or a system call that fails under it.
LEMMA JobKeepsInv ==
  ASSUME ServerInv, NEW j \in Slot, JobStep(j) \/ JobFails(j) \/ SendWriteShort(j)
  PROVE  ServerInv'
<1>1. CASE JobStep(j)
  <2>1. CASE CreateOpen(j)
    BY <2>1, OpenStep
  <2>2. CASE CreateInsert(j)
    BY <2>2, InsertStep
  <2>3. CASE SetChain(j)
    BY <2>3, SetChainStep
  <2>4. CASE SendLookup(j)
    BY <2>4, LookupStep
  <2>5. CASE SendWrite(j)
    BY <2>5, WriteStep
  <2>6. CASE SendJoin(j) \/ CloseHas(j)
    BY <2>6, ReplyingSteps
  <2>7. CASE CloseErase(j)
    BY <2>7, EraseStep
  <2>8. CASE CloseTruncate(j)
    BY <2>8, TruncateStep
  <2>9. CASE CloseFd(j)
    BY <2>9, CloseFdStep
  <2> QED BY <1>1, <2>1, <2>2, <2>3, <2>4, <2>5, <2>6, <2>7, <2>8, <2>9 DEF JobStep
<1>2. CASE JobFails(j)
  BY <1>2, ReplyingSteps, WriteStep DEF JobFails
<1>3. CASE SendWriteShort(j)
  BY <1>3, WriteStep
<1> QED BY <1>1, <1>2, <1>3

-----------------------------------------------------------------------------
(* Requests and replies.                                                   *)

\* A request that arrives.
LEMMA NewJobGood ==
  ASSUME NEW s \in Server, NEW q \in Request
  PROVE  /\ NewJob(s, q) \in GoodJob
         /\ NewJob(s, q).pc \in {"open", "chain", "getfd", "erase", "has"}
         /\ NewJob(s, q).pc = "erase" => q.wait
         /\ NewJob(s, q).req = q
<1> DEFINE r == NewJob(s, q)
<1>1. q.op \in {"create", "chain", "send", "close"}
  BY Zenon DEF Request
<1>2. /\ FirstPc(q) \in {"open", "chain", "getfd", "erase", "has"}
      /\ FirstPc(q) = "open" => q.op = "create"
      /\ FirstPc(q) = "chain" => q.op = "chain"
      /\ FirstPc(q) = "getfd" => q.op = "send"
      /\ FirstPc(q) \in {"erase", "has"} => q.op = "close"
      /\ FirstPc(q) = "erase" => q.wait
  BY <1>1 DEF FirstPc
<1>3. /\ FirstPc(q) \in JobPc /\ NoFd \in Fd \cup {NoFd} /\ 0 \in Nat
      /\ <<>> \in Seq([srv : Server, tok : Token]) /\ <<>> \in Seq(Err \cup Pending)
      /\ "todo" \in Err \cup {"todo"} /\ "ok" \in Err
  BY <1>2 DEF JobPc, Err, Pending
<1>4. r \in Job /\ r.pc = FirstPc(q) /\ r.req = q
  BY <1>3, Zenon DEF NewJob, Job
<1> HIDE DEF r
<1>5. r \in GoodJob
  BY <1>2, <1>4 DEF GoodJob, Shaped
<1> QED BY <1>2, <1>4, <1>5 DEF r

\* A forwarded request is sent, or returns.
LEMMA MarkForward ==
  ASSUME NEW v \in GoodJob, v.pc = "work", NEW k \in DOMAIN v.fwd, NEW x \in Err \cup Pending
  PROVE  LET r == [v EXCEPT !.fwd[k] = x]
         IN /\ r \in GoodJob /\ r.pc = "work" /\ r.req = v.req
            /\ r.srv = v.srv /\ r.fd = v.fd /\ r.to = v.to
            /\ r.fwd = [v.fwd EXCEPT ![k] = x]
<1> DEFINE g == [v.fwd EXCEPT ![k] = x]
           r == [v EXCEPT !.fwd = g]
<1>1. v \in Job /\ Shaped(v)
  BY DEF GoodJob
<1>2. v.fwd \in Seq(Err \cup Pending) /\ v.wr \in Err \cup {"todo"}
  BY <1>1 DEF Job
<1>3. g \in Seq(Err \cup Pending) /\ DOMAIN g = DOMAIN v.fwd
  <2>1. k \in 1..Len(v.fwd)
    BY <1>2, LenProperties
  <2> QED BY <1>2, <2>1, ExceptSeq
<1>4. [v EXCEPT !.fwd[k] = x] = r
  OBVIOUS
<1> HIDE DEF g
<1>5. /\ r \in Job /\ r.pc = v.pc /\ r.srv = v.srv /\ r.fd = v.fd /\ r.req = v.req
      /\ r.to = v.to /\ r.fwd = g
  BY <1>1, <1>3, JobMarked
<1> HIDE DEF r
<1>6. r \in GoodJob
  BY <1>1, <1>3, <1>5 DEF GoodJob, Shaped
<1> QED BY <1>4, <1>5, <1>6 DEF g

\* The handler ends with its reply, or goes on to a late close.
LEMMA AfterReplyGood ==
  ASSUME NEW j \in Slot, job[j] \in Job
  PROVE  /\ AfterReply(j) \in GoodJob \cup {NoJob}
         /\ AfterReply(j).pc \in {"erase", "free"}
<1> DEFINE r == AfterReply(j)
<1>1. CASE IsLateClose(j)
  <2>1. "erase" \in JobPc
    BY DEF JobPc
  <2>2. r = [job[j] EXCEPT !.pc = "erase"]
    BY <1>1 DEF AfterReply
  <2>3. r \in Job /\ r.pc = "erase" /\ r.req = job[j].req
    BY <2>1, <2>2, Going
  <2>4. r.req.op = "close"
    BY <1>1, <2>3 DEF IsLateClose
  <2> QED BY <2>3, <2>4 DEF GoodJob, Shaped
<1>2. CASE ~IsLateClose(j)
  BY <1>2 DEF AfterReply, NoJob
<1> QED BY <1>1, <1>2

-----------------------------------------------------------------------------
(* The start, and steps elsewhere.                                         *)

\* Nothing is open when the servers start.
LEMMA ServerInvInit == ServerInit => ServerInv
<1> SUFFICES ASSUME ServerInit PROVE ServerInv
  OBVIOUS
<1>1. /\ \A s \in Server, t \in Token : fmap[s][t] = NoEntry
      /\ \A s \in Server, f \in Fd : fds[s][f] = Closed
      /\ \A j \in Slot : job[j] = NoJob
  BY DEF ServerInit
<1>2. TypeInv
  <2>1. disk \in [Server -> [Path -> FileState]]
    BY ServerAssumption DEF ServerInit
  <2>2. fmap \in [Server -> [Token -> Entry \cup {NoEntry}]]
    BY DEF ServerInit
  <2>3. fds \in [Server -> [Fd -> Path \cup {Closed}]]
    BY DEF ServerInit
  <2>4. job \in [Slot -> GoodJob \cup {NoJob}]
    BY DEF ServerInit
  <2> QED BY <2>1, <2>2, <2>3, <2>4 DEF TypeInv
<1>3. \A j \in Slot : job[j].pc = "free"
  BY <1>1 DEF NoJob
<1>4. FdOwned
  BY <1>1, <1>3 DEF FdOwned, EntryHolds, JobHolds
<1>5. EntryNamesFile
  BY <1>1 DEF EntryNamesFile
<1>6. InsertNamesFile
  BY <1>3 DEF InsertNamesFile, At
<1> QED BY <1>2, <1>4, <1>5, <1>6 DEF ServerInv

\* A step that leaves everything as it is.
LEMMA ServerInvStutter == ServerInv /\ UNCHANGED serverVars => ServerInv'
<1> SUFFICES ASSUME ServerInv, UNCHANGED serverVars PROVE ServerInv'
  OBVIOUS
<1>1. fmap' = fmap /\ fds' = fds /\ disk' = disk /\ job' = job
  BY DEF serverVars
<1> QED BY <1>1 DEF ServerInv, TypeInv, FdOwned, EntryNamesFile, InsertNamesFile,
               EntryHolds, JobHolds, At

\* The invariant contains what the runs check.
LEMMA ServerInvTypes == ServerInv => ServerTypeOK
<1> SUFFICES ASSUME ServerInv PROVE ServerTypeOK
  OBVIOUS
<1>1. job \in [Slot -> Job \cup {NoJob}]
  BY DEF ServerInv, TypeInv, GoodJob
<1>2. ASSUME NEW j \in Slot
      PROVE  /\ At(j, "open") \/ At(j, "insert") => job[j].req.op = "create"
             /\ At(j, "insert") \/ At(j, "trunc") \/ At(j, "close") => job[j].fd \in Fd
  <2>1. CASE At(j, "free")
    BY <2>1 DEF At
  <2>2. CASE ~At(j, "free")
    BY <2>2, AtJob DEF ServerInv, Shaped, At
  <2> QED BY <2>1, <2>2
<1> QED BY <1>1, <1>2 DEF ServerInv, TypeInv, ServerTypeOK
=============================================================================
