-------------------------- MODULE AnyClientProofs ---------------------------
(***************************************************************************)
(* What the servers keep under arbitrary requests.  The steps of the       *)
(* handlers are those of FcopyServerProofs.                                *)
(***************************************************************************)
EXTENDS AnyClient, FcopyServerProofs

\* A step of the clients: one job changes that owns no descriptor.
LEMMA OneJob ==
  ASSUME ServerInv, UNCHANGED <<fmap, fds, disk>>, NEW j \in Slot,
         NEW r \in GoodJob \cup {NoJob}, job' = [job EXCEPT ![j] = r],
         job[j].pc \notin {"insert", "trunc", "close"},
         r.pc \notin {"insert", "trunc", "close"}
  PROVE  ServerInv'
<1>1. disk' \in [Server -> [Path -> FileState]]
  BY DEF ServerInv, TypeInv
<1> QED BY <1>1, FreeHands

\* A request arrives.
LEMMA ArriveStep ==
  ASSUME ServerInv, NEW j \in Slot, NEW s \in Server, NEW q \in Requests, Arrives(j, s, q)
  PROVE  ServerInv'
<1>1. q \in Request
  BY RequestsAssumption
<1>2. /\ job' = [job EXCEPT ![j] = NewJob(s, q)] /\ job[j].pc = "free"
      /\ UNCHANGED <<fmap, fds, disk>>
  BY DEF Arrives, Submit, At
<1>3. /\ NewJob(s, q) \in GoodJob
      /\ NewJob(s, q).pc \in {"open", "chain", "getfd", "erase", "has"}
  BY <1>1, NewJobGood
<1> QED BY <1>2, <1>3, OneJob

\* A forwarded request is sent, or returns.
LEMMA ForwardingStep ==
  ASSUME ServerInv, NEW j \in Slot, At(j, "work"), ForwardStep(j)
  PROVE  ServerInv'
<1> DEFINE v == job[j]
<1>1. PICK k \in DOMAIN v.fwd : ForwardSent(j, k) \/ \E e \in ForwardErr : ForwardReturns(j, k, e)
  BY DEF ForwardStep
<1>2. PICK x \in Err \cup Pending : job' = [job EXCEPT ![j].fwd[k] = x]
  BY <1>1, RequestsAssumption DEF ForwardSent, ForwardReturns, Forwarded, Pending
<1>3. UNCHANGED <<fmap, fds, disk>>
  BY <1>1 DEF ForwardSent, ForwardReturns, Forwarded
<1> DEFINE r == [v EXCEPT !.fwd[k] = x]
<1>4. job' = [job EXCEPT ![j] = r]
  BY <1>2
<1>5. v \in GoodJob /\ v.pc = "work"
  BY AtJob DEF ServerInv, At
<1>6. r \in GoodJob /\ r.pc = "work"
  BY <1>5, MarkForward
<1> HIDE DEF r
<1> QED BY <1>3, <1>4, <1>5, <1>6, OneJob

\* The reply is sent.
LEMMA ReplyStep ==
  ASSUME ServerInv, NEW j \in Slot, Reply(j)
  PROVE  ServerInv'
<1>1. /\ At(j, "reply") /\ job' = [job EXCEPT ![j] = AfterReply(j)]
      /\ UNCHANGED <<fmap, fds, disk>>
  BY DEF Reply
<1>2. job[j] \in Job
  BY <1>1, AtJob DEF ServerInv, At
<1>3. AfterReply(j) \in GoodJob \cup {NoJob} /\ AfterReply(j).pc \in {"erase", "free"}
  BY <1>2, AfterReplyGood
<1> QED BY <1>1, <1>3, OneJob DEF At

\* Every step of the servers keeps the invariant.
LEMMA InvNext == ServerInv /\ [ServerNext]_serverVars => ServerInv'
<1> SUFFICES ASSUME ServerInv, [ServerNext]_serverVars PROVE ServerInv'
  OBVIOUS
<1>1. ASSUME NEW j \in Slot, NEW s \in Server, NEW r \in Requests, Arrives(j, s, r)
      PROVE  ServerInv'
  BY <1>1, ArriveStep
<1>2. ASSUME NEW j \in Slot, ServerStep(j) PROVE ServerInv'
  <2>1. CASE JobStep(j) \/ JobFails(j) \/ SendWriteShort(j)
    BY <2>1, JobKeepsInv
  <2>2. CASE At(j, "work") /\ ForwardStep(j)
    BY <2>2, ForwardingStep
  <2>3. CASE Reply(j)
    BY <2>3, ReplyStep
  <2> QED BY <1>2, <2>1, <2>2, <2>3 DEF ServerStep
<1>3. ASSUME NEW s \in Server, Crash(s) PROVE ServerInv'
  BY <1>3, CrashStep DEF Crash
<1>4. CASE UNCHANGED serverVars
  BY <1>4, ServerInvStutter
<1> QED BY <1>1, <1>2, <1>3, <1>4 DEF ServerNext

\* The inductive invariant of the servers, whatever requests arrive, in whatever
\* order their handlers go on, and whenever a server is restarted.
THEOREM ServersKeepInv == ServerSpec => []ServerInv
BY ServerInvInit, InvNext, PTL DEF ServerSpec

\* ServerTypeOK: the tables, the files and the jobs are well formed, and a handler
\* that enters, cuts or closes a file has a descriptor.
THEOREM ServerTypes == ServerSpec => []ServerTypeOK
BY ServerInvTypes, ServersKeepInv, PTL

\* FdOwned: no descriptor leaks and none is closed twice, for any number of
\* servers, files, requests and handlers, collisions of tokens included.
THEOREM DescriptorsOwned == ServerSpec => []FdOwned
<1>1. ServerInv => FdOwned
  BY DEF ServerInv
<1> QED BY <1>1, ServersKeepInv, PTL

\* EntryNamesFile: the descriptor of an entry is open on a file that its token
\* names: a request that finds an entry gets the descriptor of a file of its own.
THEOREM EntriesNameFiles == ServerSpec => []EntryNamesFile
<1>1. ServerInv => EntryNamesFile
  BY DEF ServerInv
<1> QED BY <1>1, ServersKeepInv, PTL
=============================================================================

