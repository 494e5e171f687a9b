----------------------------- MODULE SendsProofs ------------------------------
(***************************************************************************)
(* Where chunks go.                                                        *)
(*                                                                         *)
(* A server forwards a chunk to what its table says, and writes it to the  *)
(* descriptor that the table had when the handler looked.  Both are right  *)
(* only because of what the clients do: each asks for the chain of its own *)
(* entries, the chain leads from a target to later ones, and a client has  *)
(* its files closed after the last of its chunks was answered.  RouteInv   *)
(* and SendsInv say so; OwnInv says that nobody else interferes.  PlacesInv *)
(* is what remains of it when connections break and servers go down.       *)
(* CareInv says that each entry has somebody who will close it, SizesInv   *)
(* that each file has somebody who will cut it to its size.                *)
(***************************************************************************)
EXTENDS FcopyProofs

-----------------------------------------------------------------------------
(* What a step does to one job.                                            *)

\* Who asks server s for r in this step.
Asks(who, s, r) ==
  \/ \E c \in Client : /\ who = <<"main", c>> /\ Call(c)
                       /\ s = Dest[c][main[c].i] /\ r = MainReq(c)
  \/ \E c \in Client, w \in Worker : /\ who = <<"work", c, w>> /\ main[c].ph = "send"
                                     /\ work[c][w].pc = "read"
                                     /\ s = Dest[c][0] /\ r \in WorkReqs(c, w)
                                     /\ (r = ChunkReq(c, w) \/ "shrink" \in FaultKinds)
  \/ \E i \in Slot, k \in Nat : /\ who = <<"fwd", i, k>> /\ Forward(i, k)
                                /\ s = job[i].to[k].srv /\ r = ForwardReq(i, k)
  \/ \E l \in lost : who = l.who /\ s = l.srv /\ r = l.req

Starts(j) ==
  /\ At(j, "free")
  /\ \E who \in Who, s \in Server, r \in Request :
       /\ Asks(who, s, r) /\ who # <<"none">> /\ caller'[j].who = who
       /\ job'[j] = NewJob(s, r) /\ job'[j].pc = FirstPc(r)
       /\ job'[j].srv = s /\ job'[j].req = r

Rests(j) == job'[j] = job[j] /\ caller'[j] = caller[j]

\* The connection of its caller breaks, or the server of its caller goes down.
CutOff(j) ==
  /\ job'[j] = job[j] /\ caller'[j] = Nobody
  /\ \/ "crash" \in FaultKinds /\ caller[j].who[1] = "fwd"
     \/ job[j].req.op \in FaultKinds

\* It is answered, its request is lost, or its server goes down.
Ends(j) ==
  /\ job'[j] = NoJob
  /\ \/ Reply(j) /\ ~IsLateClose(j)
     \/ job[j].req.op \in FaultKinds
     \/ \E s \in Server : Crash(s) /\ s = job[j].srv

Handles(j) ==
  /\ \/ JobStep(j) \/ JobFails(j)
     \/ SendWriteShort(j) /\ "short" \in FaultKinds
  /\ UNCHANGED <<senderVars, caller, lost>>

\* One of its forwarded requests begins or ends.
Forwards(j) ==
  /\ caller'[j] = caller[j]
  /\ \E k \in Nat, e \in Err \cup {"call"} :
       /\ Marks(j, k, e)
       /\ \/ e \in {"call", "EIO"}
          \/ \E i \in Slot : /\ At(i, "reply") /\ e = job[i].err
                            /\ caller[i].who = <<"fwd", j, k>>

\* A late close, after its reply.
Lingers(j) == IsLateClose(j) /\ At(j, "reply") /\ At(j, "erase")' /\ KeepsAsk(j)

Moves(j) ==
  \/ Rests(j) \/ CutOff(j) \/ Ends(j) \/ Starts(j)
  \/ Handles(j) \/ Forwards(j) \/ Lingers(j)

\* A request that is sent starts one job.
LEMMA SentMoves ==
  ASSUME FcopyInv, NEW who \in Who, who # <<"none">>, NEW s \in Server, NEW r \in Request,
         NEW n, Send(who, s, r, n), Asks(who, s, r)
  PROVE  \A j \in Slot : Moves(j)
<1>1. PICK k \in Slot :
        /\ At(k, "free") /\ OthersKept(k)
        /\ job'[k] = NewJob(s, r) /\ job'[k].pc = FirstPc(r)
        /\ job'[k].srv = s /\ job'[k].req = r
        /\ caller'[k].who = who /\ \A i \in Slot \ {k} : caller'[i] = caller[i]
  BY Sent DEF FcopyInv, ServerInv
<1>2. Starts(k)
  BY <1>1 DEF Starts
<1>3. \A j \in Slot \ {k} : Rests(j)
  BY <1>1 DEF Rests, OthersKept
<1> QED BY <1>2, <1>3 DEF Moves

\* Every step moves each job in one of these ways.
LEMMA JobsMove ==
  ASSUME FcopyInv, [Next]_vars
  PROVE  \A j \in Slot : Moves(j)
<1>i. SenderInv /\ ServerInv /\ CallInv /\ TypeInv
  BY DEF FcopyInv, ServerInv
<1>e. Err \subseteq Err \cup {"call"} /\ "EIO" \in Err
  BY DEF Err
<1>0. ASSUME UNCHANGED <<job, caller>> PROVE \A j \in Slot : Moves(j)
  BY <1>0 DEF Moves, Rests
<1>1. ASSUME NEW c \in Client, MainCalls(c) PROVE \A j \in Slot : Moves(j)
  <2>1. /\ Call(c) /\ main[c].at = "go" /\ Calls(c)
        /\ Send(<<"main", c>>, Dest[c][main[c].i], MainReq(c), 0)
    BY <1>1 DEF MainCalls, Call
  <2>2. MainReq(c) \in Request /\ main[c].i \in Target
    BY <1>i, <2>1, MainReqType DEF FcopyInv
  <2>3. PICK s \in Server : s = Dest[c][main[c].i]
    BY <2>2, FcopyAssumption
  <2>4. PICK r \in Request : r = MainReq(c)
    BY <2>2
  <2>5. PICK who \in Who : who = <<"main", c>> /\ who # <<"none">>
    BY WhoSets
  <2>6. Send(who, s, r, 0) /\ Asks(who, s, r)
    BY <2>1, <2>3, <2>4, <2>5 DEF Asks
  <2> QED BY <2>5, <2>6, SentMoves
<1>2. ASSUME NEW c \in Client, NEW w \in Worker, WorkerCalls(c, w)
      PROVE  \A j \in Slot : Moves(j)
  <2>1. WorkerRead(c, w) /\ work[c][w].pc = "read"
    BY <1>2 DEF WorkerCalls, WorkerRead
  <2>2. /\ ChunkReq(c, w) \in Request /\ 0 \in Target
        /\ \A n \in 0..ChunkReq(c, w).len-1 : ShortReq(c, w, n) \in Request
    BY <1>i, <2>1, ChunkReqType DEF FcopyInv
  <2>3. PICK s \in Server : s = Dest[c][0]
    BY <2>2, FcopyAssumption
  <2>4. PICK who \in Who : who = <<"work", c, w>> /\ who # <<"none">>
    BY WhoSets
  <2>5. main[c].ph = "send"
    BY <1>i, <2>1, ActiveWorker DEF SenderInv
  <2> DEFINE Sends(r) == /\ r \in WorkReqs(c, w) /\ r \in Request /\ Send(who, s, r, 0)
                         /\ (r = ChunkReq(c, w) \/ "shrink" \in FaultKinds)
  <2>6. CASE \E r : Sends(r)
    <3>1. PICK r \in Request :
            /\ r \in WorkReqs(c, w) /\ (r = ChunkReq(c, w) \/ "shrink" \in FaultKinds)
            /\ Send(who, s, r, 0)
      BY <2>6
    <3>2. Asks(who, s, r)
      BY <2>1, <2>3, <2>4, <2>5, <3>1, Zenon DEF Asks
    <3> QED BY <2>4, <3>1, <3>2, SentMoves
  <2>7. CASE UNCHANGED <<job, caller>>
    BY <1>0, <2>7
  <2>8. ChunkReq(c, w) \in WorkReqs(c, w)
        /\ \A n \in 0..ChunkReq(c, w).len-1 : ShortReq(c, w, n) \in WorkReqs(c, w)
    BY DEF WorkReqs
  <2>9. CASE Send(who, s, ChunkReq(c, w), 0)
    BY <2>2, <2>6, <2>8, <2>9
  <2>10. CASE /\ \E n \in 0..ChunkReq(c, w).len-1 : Send(who, s, ShortReq(c, w, n), 0)
              /\ Fault("shrink")
    <3>1. PICK n \in 0..ChunkReq(c, w).len-1 : Send(who, s, ShortReq(c, w, n), 0)
      BY <2>10
    <3>2. "shrink" \in FaultKinds
      BY <2>10 DEF Fault
    <3>3. Sends(ShortReq(c, w, n))
      BY <2>2, <2>8, <3>1, <3>2
    <3> QED BY <2>6, <3>3
  <2> QED BY <1>2, <2>3, <2>4, <2>7, <2>9, <2>10, Zenon DEF WorkerCalls
<1>3. ASSUME NEW j \in Slot, UNCHANGED <<senderVars, caller, lost>>,
             \/ JobStep(j) \/ JobFails(j)
             \/ SendWriteShort(j) /\ "short" \in FaultKinds
      PROVE  \A i \in Slot : Moves(i)
  <2>1. PICK r : job' = [job EXCEPT ![j] = r]
    BY <1>i, <1>3, HandlerGoesOn DEF GoesOn
  <2>2. OthersKept(j)
    BY <1>i, <2>1, Becomes
  <2>3. \A i \in Slot \ {j} : Rests(i)
    BY <1>3, <2>2 DEF Rests, OthersKept
  <2>4. Handles(j)
    BY <1>3 DEF Handles
  <2> QED BY <2>3, <2>4 DEF Moves
<1>4. ASSUME NEW j \in Slot, NEW k, Forward(j, k) PROVE \A i \in Slot : Moves(i)
  <2>1. PICK q \in Slot \ {j} :
          /\ At(q, "free") /\ job'[q] = NewJob(job[j].to[k].srv, ForwardReq(j, k))
          /\ job'[q].pc = "getfd" /\ job'[q].srv = job[j].to[k].srv
          /\ job'[q].req = ForwardReq(j, k) /\ job'[q].req.op = "send"
          /\ caller'[q].who = <<"fwd", j, k>>
          /\ \A i \in Slot \ {j, q} : job'[i] = job[i]
          /\ \A i \in Slot \ {q} : caller'[i] = caller[i]
    BY <1>4, ForwardSent
  <2>2. Forwarding(j, k)
    BY <1>4 DEF Forward
  <2>3. ForwardReq(j, k) \in Request /\ job[j].to[k].srv \in Server /\ k \in Nat
    BY <1>i, <2>2, ForwardReqType
  <2>4. Forwards(j)
    BY <1>4, <2>1, <2>3, ForwardSent DEF Forwards
  <2>5. Starts(q)
    <3>1. PICK s \in Server : s = job[j].to[k].srv
      BY <2>3
    <3>2. PICK r \in Request : r = ForwardReq(j, k)
      BY <2>3
    <3>3. PICK who \in Who : who = <<"fwd", j, k>> /\ who # <<"none">>
      BY <2>3, WhoSets
    <3>4. Asks(who, s, r)
      BY <1>4, <2>3, <3>1, <3>2, <3>3 DEF Asks
    <3>5. FirstPc(r) = "getfd"
      BY <2>1, <3>2 DEF FirstPc
    <3> QED BY <2>1, <3>1, <3>2, <3>3, <3>4, <3>5 DEF Starts
  <2>6. \A i \in Slot \ {j, q} : Rests(i)
    BY <2>1 DEF Rests
  <2> QED BY <2>4, <2>5, <2>6 DEF Moves
<1>5. ASSUME NEW j \in Slot, Reply(j) PROVE \A i \in Slot : Moves(i)
  <2>1. /\ At(j, "reply") /\ \A i \in Slot \ {j} : caller'[i] = caller[i]
        /\ Lingers(j) \/ Ends(j)
    BY <1>5, Replied DEF Lingers, Ends
  <2>2. \A i \in Slot \ {j} :
          \/ job'[i] = job[i]
          \/ \E k \in Nat : caller[j].who = <<"fwd", i, k>> /\ Marks(i, k, job[j].err)
    BY <1>5, Replied
  <2>3. job[j].err \in Err
    BY <1>i, <2>1, AtJob DEF At
  <2>4. \A i \in Slot \ {j} : Rests(i) \/ Forwards(i)
    BY <2>1, <2>2, <2>3 DEF Rests, Forwards
  <2> QED BY <2>1, <2>4 DEF Moves
<1>6. ASSUME NEW j \in Slot, Disconnect(j) PROVE \A i \in Slot : Moves(i)
  <2>1. /\ job[j].req.op \in FaultKinds
        /\ caller' = [caller EXCEPT ![j] = Nobody]
        /\ job' = [job EXCEPT ![j] = NoJob] \/ job' = job
    BY <1>6 DEF Disconnect, Fault
  <2>2. caller'[j] = Nobody /\ \A i \in Slot \ {j} : caller'[i] = caller[i]
    BY <1>i, <2>1 DEF CallInv, CallerInv
  <2>3. /\ job'[j] = job[j] \/ job'[j] = NoJob
        /\ \A i \in Slot \ {j} : job'[i] = job[i]
    BY <1>i, <2>1 DEF TypeInv
  <2> QED BY <2>1, <2>2, <2>3 DEF Moves, Rests, CutOff, Ends
<1>7. ASSUME NEW l \in lost, Redial(l) PROVE \A j \in Slot : Moves(j)
  <2>1. Send(l.who, l.srv, l.req, l.try + 1)
    BY <1>7 DEF Redial
  <2>2. l.who \in Who /\ l.who # <<"none">> /\ l.srv \in Server /\ l.req \in Request
    BY <1>i DEF CallInv, LostInv
  <2>3. Asks(l.who, l.srv, l.req)
    BY DEF Asks
  <2> QED BY <2>1, <2>2, <2>3, SentMoves
<1>8. ASSUME NEW l \in lost, GiveUpCall(l) PROVE \A j \in Slot : Moves(j)
  <2>1. \A i \in Slot : job'[i] = job[i] \/ \E k \in Nat : Marks(i, k, "EIO")
    BY <1>8, GaveUp
  <2>2. caller' = caller
    BY <1>8 DEF GiveUpCall
  <2> QED BY <1>e, <2>1, <2>2 DEF Moves, Rests, Forwards
<1>9. ASSUME NEW s \in Server, Crash(s) PROVE \A j \in Slot : Moves(j)
  <2>1. "crash" \in FaultKinds
    BY <1>9 DEF Crash, Fault
  <2>2. ASSUME NEW j \in Slot, j \in Lost(s) PROVE Ends(j)
    BY <1>9, <2>2, Zenon DEF Crash, Ends, Lost
  <2>3. ASSUME NEW j \in Slot, j \notin Lost(s) PROVE Rests(j) \/ CutOff(j)
    <3>1. /\ job'[j] = job[j]
          /\ \/ caller'[j] = caller[j]
             \/ caller'[j] = Nobody /\ (caller[j] = Nobody \/ caller[j].who[1] = "fwd")
      BY <1>9, <2>3, Zenon DEF Crash
    <3> QED BY <2>1, <3>1 DEF Rests, CutOff
  <2> QED BY <2>2, <2>3 DEF Moves
<1>10. ASSUME NEW j \in Slot, ServerStep(j) \/ ServerFails(j) \/ Disconnect(j)
       PROVE  \A i \in Slot : Moves(i)
  <2>1. CASE ServerFails(j)
    BY <1>3, <2>1 DEF ServerFails, Fault
  <2>2. CASE ServerStep(j)
    BY <1>3, <1>4, <1>5, <2>2 DEF ServerStep, netVars
  <2> QED BY <1>6, <1>10, <2>1, <2>2
<1>11. ASSUME NEW c \in Client, ClientMain(c) \/ ClientFails(c) PROVE \A j \in Slot : Moves(j)
  BY <1>0, <1>1, <1>11 DEF ClientMain, ClientFails, ServersIdle, serverVars
<1>12. ASSUME NEW c \in Client, NEW w \in Worker, ClientWorker(c, w)
       PROVE  \A j \in Slot : Moves(j)
  BY <1>0, <1>2, <1>12 DEF ClientWorker, ServersIdle, serverVars
<1>13. CASE UNCHANGED vars
  BY <1>0, <1>13 DEF vars, serverVars, netVars
<1> QED BY <1>7, <1>8, <1>9, <1>10, <1>11, <1>12, <1>13 DEF Next, RetryStep

-----------------------------------------------------------------------------
(* What a step does to one client.                                         *)

\* The client goes on without a new token.  It is in the transfer only if it has been
\* there or in the chain before, and leaves it only when all its workers have left.
Onward(c) ==
  /\ \A i \in Target : ClientKeeps(c, i)
  /\ main'[c].ph = "open" =>
       main[c].ph = "open" \/ \A i \in Target : tokens'[c][i] = NoToken
  /\ main'[c].ph \in {"chain", "send"} =>
       main[c].ph \in {"chain", "send"} /\ tokens'[c] = tokens[c]
         /\ main'[c].file = main[c].file
  /\ main[c].ph = "send" /\ main'[c].ph # "send" => \A w \in Worker : work[c][w].pc = "exit"

\* The client gets the token of its target.
Receives(c) ==
  \E j \in Slot : /\ Reply(j) /\ caller[j].who = <<"main", c>> /\ job[j].err = "ok"
                  /\ Answer(j) \in Token /\ OpenReturns(c, "ok", Answer(j))

\* A client that stands still goes onward.
LEMMA StillOnward ==
  ASSUME NEW c \in Client, main'[c] = main[c], tokens'[c] = tokens[c]
  PROVE  Onward(c)
BY StandsStill DEF Onward

\* A call that returns without a token.
LEMMA ReturnOnward ==
  ASSUME SenderInv, NEW c \in Client, NEW e, NEW t,
         \/ e # "ok" /\ OpenReturns(c, e, t)
         \/ ChainReturns(c, e)
         \/ CloseReturns(c, e),
         main[c].ph = "close" => e = "ok"
  PROVE  \A d \in Client : Onward(d)
<1>t. main \in [Client -> MainState]
  BY DEF SenderInv, SenderTypeOK
<1>1. \A d \in Client, i \in Target : ClientKeeps(d, i)
  BY ReturnHolds
<1>2. \A d \in Client \ {c} : main'[d] = main[d] /\ tokens'[d] = tokens[d]
  <2>1. tokens \in [Client -> [Target -> Token \cup {NoToken}]]
    BY DEF SenderInv, SenderTypeOK
  <2> QED BY <1>t, <2>1 DEF OpenReturns, ChainReturns, CloseReturns, GiveUp
<1>3. /\ main[c].ph \in {"open", "chain", "close"}
      /\ main'[c].file = main[c].file
      /\ main'[c].ph \in {"chain", "close"}
      /\ main'[c].ph = "chain" => main[c].ph = "chain" /\ tokens' = tokens
  BY <1>t, SMT DEF OpenReturns, ChainReturns, CloseReturns, GiveUp, Waits, MainState
<1>4. Onward(c)
  BY <1>1, <1>3 DEF Onward
<1> QED BY <1>2, <1>4, StillOnward

\* Every step of the system takes each client onward, or brings it a token.
LEMMA ClientsGo ==
  ASSUME FcopyInv, OwnInv, [Next]_vars
  PROVE  \A c \in Client : Onward(c) \/ Receives(c)
<1>i. SenderInv /\ CallInv
  BY DEF FcopyInv
<1>t. main \in [Client -> MainState] /\ tokens \in [Client -> [Target -> Token \cup {NoToken}]]
  BY <1>i DEF SenderInv, SenderTypeOK
<1>0. ASSUME main' = main, tokens' = tokens PROVE \A c \in Client : Onward(c)
  BY <1>0, StillOnward
<1>1. ASSUME NEW c \in Client, MainCalls(c) PROVE \A d \in Client : Onward(d)
  <2>1. /\ main[c].at = "go" /\ main'[c].at = "await" /\ main'[c].ph = main[c].ph
        /\ main'[c].i = main[c].i /\ main'[c].file = main[c].file /\ tokens' = tokens
        /\ \A d \in Client \ {c} : main'[d] = main[d]
    BY <1>i, <1>1, CallMade DEF MainCalls
  <2>2. Onward(c)
    BY <2>1 DEF Onward, ClientKeeps, ClientHolds, Waits
  <2> QED BY <2>1, <2>2, StillOnward
<1>2. ASSUME NEW c \in Client, MainInternal(c) \/ LocalOpenFails(c)
      PROVE  \A d \in Client : Onward(d)
  <2>1. \A d \in Client, i \in Target : ClientKeeps(d, i)
    BY <1>i, <1>2, AloneKeeps
  <2>2. \A d \in Client \ {c} : main'[d] = main[d] /\ tokens'[d] = tokens[d]
    BY <1>i, <1>2, OthersSame DEF SenderInv, MainStep, Same
  <2>3. CASE StartSend(c)
    <3>1. /\ main[c].ph = "chain" /\ main'[c].ph = "send" /\ main'[c].file = main[c].file
          /\ tokens' = tokens
      BY <1>t, <2>3, SMT DEF StartSend, MainState
    <3>2. Onward(c)
      BY <2>1, <3>1 DEF Onward
    <3> QED BY <2>2, <3>2, StillOnward
  <2>4. CASE JoinSend(c) \/ CloseSkips(c) \/ Finish(c) \/ LocalOpenFails(c)
    <3>1. /\ main'[c].ph \in {"close", "done"}
          /\ main[c].ph = "send" => \A w \in Worker : work[c][w].pc = "exit"
      BY <1>t, <2>4, SMT DEF JoinSend, CloseSkips, Finish, LocalOpenFails, GiveUp, MainState
    <3>2. Onward(c)
      BY <2>1, <3>1 DEF Onward
    <3> QED BY <2>2, <3>2, StillOnward
  <2>5. CASE NextFile(c)
    <3>1. /\ main[c].ph = "done" /\ main'[c].ph = "open"
          /\ \A i \in Target : tokens'[c][i] = NoToken
      BY <1>t, <2>5 DEF NextFile, NoTokens, FreshMain
    <3>2. Onward(c)
      BY <2>1, <3>1 DEF Onward
    <3> QED BY <2>2, <3>2, StillOnward
  <2> QED BY <1>2, <2>3, <2>4, <2>5 DEF MainInternal
<1>3. ASSUME NEW j \in Slot, Reply(j) PROVE \A c \in Client : Onward(c) \/ Receives(c)
  <2>1. PICK who \in Who : who = caller[j].who
    BY <1>i DEF CallInv, CallerInv
  <2>2. PICK e, t : e = job[j].err /\ t = Answer(j)
    OBVIOUS
  <2>3. UNCHANGED senderVars \/ Resume(who, e, t)
    BY <1>3, <2>1, <2>2 DEF Reply
  <2>4. CASE who[1] # "main" \/ UNCHANGED senderVars
    <3>1. main' = main /\ tokens' = tokens
      BY <2>3, <2>4 DEF Resume, SendReturns, senderVars
    <3> QED BY <1>0, <3>1
  <2>5. CASE who[1] = "main" /\ Resume(who, e, t)
    <3>1. PICK c \in Client : who = <<"main", c>>
      BY <2>5, WhoForms
    <3>2. OpenReturns(c, e, t) \/ ChainReturns(c, e) \/ CloseReturns(c, e)
      BY <2>5, <3>1 DEF Resume
    <3>3. CASE e = "ok" /\ OpenReturns(c, e, t)
      <4>1. t \in Token
        BY <2>1, <2>2, <3>1, <3>3, CreateAnswers DEF OpenReturns, Waits
      <4>2. Receives(c)
        BY <1>3, <2>1, <2>2, <3>1, <3>3, <4>1 DEF Receives
      <4>3. OpenReturns(c, "ok", t)
        BY <3>3
      <4>4. \A d \in Client \ {c} : main'[d] = main[d] /\ tokens'[d] = tokens[d]
        BY <1>i, <4>1, <4>3, OpenGives
      <4> QED BY <4>2, <4>4, StillOnward
    <3>4. CASE ~(e = "ok" /\ OpenReturns(c, e, t))
      <4>1. main[c].ph = "close" => e = "ok"
        <5> SUFFICES ASSUME main[c].ph = "close" PROVE e = "ok"
          OBVIOUS
        <5>1. job[j].req = MainReq(c)
          BY <1>i, <2>1, <3>1, RepliesTo
        <5>2. job[j].req.op = "close" /\ At(j, "reply")
          BY <1>3, <5>1 DEF MainReq, CloseReq, Reply
        <5> QED BY <2>2, <5>2 DEF OwnInv
      <4> QED BY <1>i, <3>2, <3>4, <4>1, ReturnOnward
    <3> QED BY <3>3, <3>4
  <2> QED BY <2>3, <2>4, <2>5
<1>4. ASSUME NEW l \in lost, GiveUpCall(l) PROVE \A c \in Client : Onward(c)
  <2>1. PICK who \in Who : who = l.who
    BY <1>i DEF CallInv, LostInv
  <2>2. UNCHANGED senderVars \/ Resume(who, "EIO", NoToken)
    BY <1>4, <2>1 DEF GiveUpCall
  <2>3. CASE who[1] # "main" \/ UNCHANGED senderVars
    <3>1. main' = main /\ tokens' = tokens
      BY <2>2, <2>3 DEF Resume, SendReturns, senderVars
    <3> QED BY <1>0, <3>1
  <2>4. CASE who[1] = "main" /\ Resume(who, "EIO", NoToken)
    <3>1. PICK c \in Client : who = <<"main", c>>
      BY <2>4, WhoForms
    <3>2. \/ OpenReturns(c, "EIO", NoToken) \/ ChainReturns(c, "EIO")
          \/ CloseReturns(c, "EIO")
      BY <2>4, <3>1 DEF Resume
    <3>3. main[c].ph # "close"
      <4> SUFFICES ASSUME main[c].ph = "close" PROVE FALSE
        OBVIOUS
      <4>1. Awaits(who, l.srv, l.req)
        BY <1>i, <2>1 DEF CallInv, LostInv
      <4>2. l.req = MainReq(c)
        BY <3>1, <4>1 DEF Awaits
      <4>3. l.req.op = "close"
        BY <4>2 DEF MainReq, CloseReq
      <4> QED BY <4>3 DEF OwnInv
    <3> QED BY <1>i, <3>2, <3>3, ReturnOnward
  <2> QED BY <2>2, <2>3, <2>4
<1>5. ASSUME NEW c \in Client, NEW w \in Worker, ClientWorker(c, w)
      PROVE  \A d \in Client : Onward(d)
  <2>1. main' = main /\ tokens' = tokens
    BY <1>5 DEF ClientWorker, WorkerCalls, WorkerRead, WorkerCheck, WorkerClaim, WorkerFail,
                WorkerAlloc
  <2> QED BY <1>0, <2>1
<1>6. ASSUME NEW j \in Slot, ServerStep(j) \/ ServerFails(j) \/ Disconnect(j)
      PROVE  \A c \in Client : Onward(c) \/ Receives(c)
  <2>1. UNCHANGED senderVars \/ Reply(j)
    BY <1>6 DEF ServerStep, ServerFails, Disconnect, Forward
  <2> QED BY <1>0, <1>3, <2>1 DEF senderVars
<1>7. CASE \/ \E l \in lost : Redial(l)
           \/ \E s \in Server : Crash(s)
           \/ UNCHANGED vars
  BY <1>0, <1>7 DEF Redial, Crash, vars, senderVars
<1>8. ASSUME NEW c \in Client, ClientMain(c) \/ ClientFails(c)
      PROVE  \A d \in Client : Onward(d)
  BY <1>1, <1>2, <1>8 DEF ClientMain, ClientFails
<1> QED BY <1>4, <1>5, <1>6, <1>7, <1>8 DEF Next, RetryStep

-----------------------------------------------------------------------------
(* Who waits for a chain or a send.                                        *)

\* No connection breaks under a chain or a send, so each has its caller.
Attended ==
  /\ \A j \in Slot : ~At(j, "free") /\ job[j].req.op \in {"chain", "send"} => Called(j)
  /\ \A l \in lost : l.req.op = "create"

\* A call that somebody waits for.
LEMMA CallerWaits ==
  ASSUME CallInv, NEW j \in Slot, Called(j)
  PROVE  \E who \in Who : /\ who = caller[j].who /\ who # <<"none">>
                          /\ Awaits(who, job[j].srv, job[j].req)
BY DEF CallInv, CallerInv, Called

\* The requests of a worker.
LEMMA WorkReqFields ==
  ASSUME NEW c \in Client, NEW w \in Worker, NEW r \in WorkReqs(c, w)
  PROVE  /\ r.op = "send" /\ r.tok = tokens[c][0]
         /\ r.off = work[c][w].off
         /\ r.src \in {Hole, <<c, main[c].file>>} /\ r.budget = ChainLen(N)
<1> DEFINE q == ChunkReq(c, w)
<1>1. /\ q.op = "send" /\ q.tok = tokens[c][0] /\ q.src = <<c, main[c].file>>
      /\ q.off = work[c][w].off /\ q.budget = ChainLen(N)
  BY DEF ChunkReq, SendReq
<1>2. ASSUME NEW n, r = ShortReq(c, w, n)
      PROVE  /\ r.op = "send" /\ r.tok = tokens[c][0] /\ r.off = work[c][w].off
             /\ r.src = Hole /\ r.budget = ChainLen(N)
  BY <1>2 DEF ShortReq, ChunkReq, SendReq
<1>3. r = q \/ \E n : r = ShortReq(c, w, n)
  BY DEF WorkReqs
<1> HIDE DEF q
<1> QED BY <1>1, <1>2, <1>3

\* What a handler forwards: the same chunk, for its next server, with one hop less.
LEMMA ForwardFields ==
  ASSUME NEW j \in Slot, NEW k, job[j].req \in Request, job[j].req.op = "send"
  PROVE  LET r == ForwardReq(j, k)
         IN /\ r.op = "send" /\ r.tok = job[j].to[k].tok /\ r.src = job[j].req.src
            /\ r.budget = job[j].req.budget - 1 /\ job[j].req.budget \in Nat
<1>1. job[j].req \in [op : {"send"}, tok : Token, off : Offset, len : Nat,
                      src : Source \cup {Hole}, budget : Nat]
  BY Zenon DEF Request
<1>2. job[j].req.budget \in Nat
  BY <1>1
<1> QED BY <1>1, <1>2, Zenon DEF ForwardReq

\* The caller of a chain is a client that waits with it.
LEMMA ChainCaller ==
  ASSUME FcopyInv, Attended, NEW j \in Slot, At(j, "chain")
  PROVE  \E c \in Client :
           /\ main[c].ph = "chain" /\ main[c].at = "await" /\ main[c].i \in Target
           /\ job[j].srv = Dest[c][main[c].i] /\ job[j].req.tok = tokens[c][main[c].i]
           /\ job[j].req.targets = ChainTargets(c, main[c].i)
<1>i. TypeInv /\ CallInv /\ SenderInv
  BY DEF FcopyInv, ServerInv
<1>1. ~At(j, "free") /\ job[j].req.op = "chain"
  BY <1>i, AtJob DEF At, Shaped
<1>2. Called(j)
  BY <1>1 DEF Attended
<1>3. PICK who \in Who : who = caller[j].who /\ who # <<"none">>
                         /\ Awaits(who, job[j].srv, job[j].req)
  BY <1>i, <1>2, CallerWaits
<1>4. CASE who[1] = "main"
  <2>1. PICK c \in Client : who = <<"main", c>>
    BY <1>4, WhoForms
  <2>2. main[c].at = "await" /\ job[j].srv = Dest[c][main[c].i] /\ job[j].req = MainReq(c)
    BY <1>3, <2>1 DEF Awaits
  <2>3. main[c].ph \in {"open", "chain", "close"} /\ main[c].i < N /\ main[c].i \in Nat
    <3>1. main \in [Client -> MainState]
      BY <1>i DEF SenderInv, SenderTypeOK
    <3>2. main[c].i \in 0..N /\ N \in Nat
      BY <3>1, SenderAssumption, SMT DEF MainState
    <3> QED BY <1>i, <2>2, <3>2 DEF SenderInv, ClientInv, PlaceInv
  <2>4. main[c].ph = "chain"
    BY <1>1, <2>2, <2>3 DEF MainReq, CreateReq, CloseReq
  <2>5. main[c].i \in Target
    BY <2>3, SenderAssumption DEF Target
  <2> QED BY <2>2, <2>4, <2>5 DEF MainReq, SetChainReq
<1>5. CASE who[1] = "work"
  <2>1. PICK c \in Client, w \in Worker : who = <<"work", c, w>>
    BY <1>5, WhoForms
  <2>2. job[j].req \in WorkReqs(c, w)
    BY <1>3, <2>1 DEF Awaits
  <2> QED BY <1>1, <2>2, WorkReqFields
<1>6. CASE who[1] = "fwd"
  <2>1. PICK i \in Slot, k \in Nat : who = <<"fwd", i, k>>
    BY <1>6, WhoForms
  <2>2. At(i, "work") /\ job[j].req = ForwardReq(i, k)
    BY <1>3, <2>1 DEF Awaits
  <2>3. job[i].req \in Request /\ job[i].req.op = "send"
    BY <1>i, <2>2, AtJob DEF At, Shaped
  <2>4. ForwardReq(i, k).op = "send"
    BY <2>3, ForwardFields
  <2> QED BY <1>1, <2>2, <2>4
<1> QED BY <1>3, <1>4, <1>5, <1>6, WhoForms

\* The caller of a send is a worker, or the handler that forwards the chunk.
LEMMA SendCaller ==
  ASSUME FcopyInv, Attended, NEW j \in Slot, ~At(j, "free"), job[j].req.op = "send"
  PROVE  \/ \E c \in Client, w \in Worker :
              /\ work[c][w].pc = "call" /\ main[c].ph = "send"
              /\ job[j].srv = Dest[c][0] /\ job[j].req.tok = tokens[c][0]
         \/ \E i \in Slot, k \in Nat :
              /\ At(i, "work") /\ k \in DOMAIN job[i].to /\ job[i].req.op = "send"
              /\ job[j].srv = job[i].to[k].srv /\ job[j].req.tok = job[i].to[k].tok
<1>i. TypeInv /\ CallInv /\ SenderInv
  BY DEF FcopyInv, ServerInv
<1>1. Called(j)
  BY DEF Attended
<1>2. PICK who \in Who : who = caller[j].who /\ who # <<"none">>
                         /\ Awaits(who, job[j].srv, job[j].req)
  BY <1>i, <1>1, CallerWaits
<1>3. CASE who[1] = "main"
  <2>1. PICK c \in Client : who = <<"main", c>>
    BY <1>3, WhoForms
  <2>2. main[c].at = "await" /\ job[j].req = MainReq(c)
    BY <1>2, <2>1 DEF Awaits
  <2>3. main[c].ph \in {"open", "chain", "close"}
    BY <1>i, <2>2 DEF SenderInv, ClientInv, PlaceInv
  <2>4. job[j].req.op \in {"create", "chain", "close"}
    BY <2>2, <2>3 DEF MainReq, CreateReq, SetChainReq, CloseReq
  <2> QED BY <2>4
<1>4. CASE who[1] = "work"
  <2>1. PICK c \in Client, w \in Worker : who = <<"work", c, w>>
    BY <1>4, WhoForms
  <2>2. work[c][w].pc = "call" /\ job[j].srv = Dest[c][0] /\ job[j].req \in WorkReqs(c, w)
    BY <1>2, <2>1 DEF Awaits
  <2>3. main[c].ph = "send"
    BY <1>i, <2>2, ActiveWorker DEF SenderInv
  <2>4. job[j].req.tok = tokens[c][0]
    BY <2>2, WorkReqFields
  <2> QED BY <2>2, <2>3, <2>4
<1>5. CASE who[1] = "fwd"
  <2>1. PICK i \in Slot, k \in Nat : who = <<"fwd", i, k>>
    BY <1>5, WhoForms
  <2>2. /\ At(i, "work") /\ k \in DOMAIN job[i].fwd
        /\ job[j].srv = job[i].to[k].srv /\ job[j].req = ForwardReq(i, k)
    BY <1>2, <2>1 DEF Awaits
  <2>3. /\ job[i].req \in Request /\ job[i].req.op = "send" /\ k \in DOMAIN job[i].to
    BY <1>i, <2>2, AtJob DEF At, Shaped
  <2>4. ForwardReq(i, k).tok = job[i].to[k].tok
    BY <2>3, ForwardFields
  <2> QED BY <2>2, <2>3, <2>4
<1> QED BY <1>2, <1>3, <1>4, <1>5, WhoForms

\* A job that goes on keeps what it was asked.
LEMMA HandledAsk ==
  ASSUME ServerInv, NEW j \in Slot, Handles(j)
  PROVE  /\ ~At(j, "free") /\ OthersKept(j) /\ ~At(j, "has")'
         /\ KeepsAsk(j) \/ job'[j] = NoJob
<1>0. PICK r : job' = [job EXCEPT ![j] = r]
  BY HandlerGoesOn DEF GoesOn, Handles
<1>o. OthersKept(j)
  BY <1>0, Becomes DEF ServerInv
<1>n. NoJob.pc # "has"
  BY DEF NoJob
<1>1. ASSUME NEW e, Respond(j, e), ~At(j, "free") PROVE KeepsAsk(j) /\ ~At(j, "has")'
  BY <1>1, Responded DEF At
<1>2. CASE CreateOpen(j) \/ CreateRejected(j) \/ CreateInsert(j)
  <2>1. ~At(j, "free")
    BY <1>2, Zenon DEF CreateOpen, CreateRejected, CreateInsert, At
  <2> QED BY <1>o, <1>1, <1>2, <2>1, Opened DEF CreateRejected, CreateInsert, At
<1>3. CASE SetChain(j) \/ SendJoin(j) \/ CloseHas(j)
  <2>1. ~At(j, "free")
    BY <1>3, Zenon DEF SetChain, SendJoin, CloseHas, At
  <2> QED BY <1>o, <1>1, <1>3, <2>1, Zenon DEF SetChain, SendJoin, CloseHas
<1>4. CASE SendLookup(j)
  <2>1. ~At(j, "free")
    BY <1>4, Zenon DEF SendLookup, At
  <2> QED BY <1>o, <1>4, <2>1, LookedUp DEF At
<1>5. CASE SendWrite(j) \/ SendWriteFails(j) \/ SendWriteShort(j)
  BY <1>5, <1>o, Wrote DEF At
<1>6. CASE CloseErase(j) \/ CloseFd(j)
  <2>1. ~At(j, "free")
    BY <1>6, Zenon DEF CloseErase, CloseFd, At
  <2>2. CASE \E e : EndClose(j, e)
    BY <1>n, <2>1, <2>2, <1>o, Ended DEF At
  <2>3. CASE KeepsAsk(j) /\ At(j, "trunc")'
    BY <2>1, <2>3, <1>o DEF At
  <2> QED BY <1>6, <2>2, <2>3, Erased DEF CloseFd
<1>7. CASE CloseTruncate(j)
  BY <1>7, <1>o, Cut DEF At
<1> QED BY <1>2, <1>3, <1>4, <1>5, <1>6, <1>7 DEF Handles, JobStep, JobFails

\* Calls are lost when a connection breaks or a server goes down.
LEMMA LossesMove ==
  ASSUME [Next]_vars
  PROVE  \/ lost' \subseteq lost
         \/ \E j \in Slot : Disconnect(j)
         \/ \E s \in Server : Crash(s)
<1>1. ASSUME NEW c \in Client, ClientMain(c) \/ ClientFails(c) PROVE lost' = lost
  BY <1>1, Zenon DEF ClientMain, ClientFails, MainCalls, ServersIdle
<1>2. ASSUME NEW c \in Client, NEW w \in Worker, ClientWorker(c, w) PROVE lost' = lost
  BY <1>2, Zenon DEF ClientWorker, WorkerCalls, ServersIdle
<1>3. ASSUME NEW j \in Slot, ServerStep(j) \/ ServerFails(j) PROVE lost' = lost
  BY <1>3, Zenon DEF ServerStep, ServerFails, Forward, Reply, netVars
<1>4. CASE RetryStep
  <2>1. PICK l \in lost : lost' = lost \ {l}
    BY <1>4, Zenon DEF RetryStep, Redial, GiveUpCall
  <2> QED BY <2>1
<1>5. CASE UNCHANGED vars
  BY <1>5, Zenon DEF vars, netVars
<1>6. CASE lost' = lost
  BY <1>6
<1> QED BY <1>1, <1>2, <1>3, <1>4, <1>5, <1>6, Zenon DEF Next

\* Every step leaves each chain and each send with its caller.
LEMMA AttendedNext ==
  ASSUME Unbroken({"close", "crash", "chain", "send"}), FcopyInv, OwnInv, Attended,
         [Next]_vars
  PROVE  Attended'
<1>i. ServerInv /\ CallInv /\ TypeInv
  BY DEF FcopyInv, ServerInv
<1>1. ASSUME NEW j \in Slot, job'[j].pc # "free", job'[j].req.op \in {"chain", "send"}
      PROVE  caller'[j].who # <<"none">>
  <2>1. CASE Rests(j)
    BY <1>1, <2>1 DEF Rests, Attended, Called, At
  <2>2. CASE CutOff(j)
    BY <1>1, <2>2 DEF CutOff, Unbroken
  <2>3. CASE job'[j] = NoJob
    BY <1>1, <2>3 DEF NoJob
  <2>4. CASE Starts(j)
    BY <2>4 DEF Starts
  <2>5. CASE Handles(j)
    <3>1. ~At(j, "free") /\ KeepsAsk(j) /\ caller' = caller
      BY <1>i, <1>1, <2>5, HandledAsk DEF Handles, NoJob
    <3> QED BY <1>1, <3>1 DEF KeepsAsk, Attended, Called
  <2>6. CASE Forwards(j)
    BY <1>1, <2>6 DEF Forwards, Marks, KeepsAsk, Attended, Called, At
  <2>7. CASE Lingers(j)
    BY <1>1, <2>7 DEF Lingers, IsLateClose, KeepsAsk
  <2> QED BY <2>1, <2>2, <2>3, <2>4, <2>5, <2>6, <2>7, JobsMove DEF Moves, Ends
<1>2. ASSUME NEW l \in lost' PROVE l.req.op = "create"
  <2>1. CASE l \in lost
    BY <2>1 DEF Attended
  <2>2. CASE l \notin lost
    <3>1. PICK j \in Slot : Disconnect(j)
      <4>1. ~(\E s \in Server : Crash(s))
        BY DEF Crash, Fault, Unbroken
      <4> QED BY <2>2, <4>1, LossesMove
    <3>2. l.req = job[j].req /\ job[j].req.op \in FaultKinds /\ ~At(j, "free")
      BY <2>2, <3>1 DEF Disconnect, Fault, LostCall
    <3>3. job[j].req \in Request
      BY <1>i, <3>2, AtJob
    <3>4. job[j].req.op \in {"create", "chain", "send", "close"}
      BY <3>3 DEF Request
    <3> QED BY <3>2, <3>4 DEF Unbroken
  <2> QED BY <2>1, <2>2
<1> QED BY <1>1, <1>2 DEF Attended, At, Called

-----------------------------------------------------------------------------
(* The entries of the clients, and where they lead.                        *)

\* The entry of target i of client c.
EntryOf(c, i) == fmap[Dest[c][i]][tokens[c][i]]

\* The targets of a server for client c, at its target i, are later ones of c.
Inward(c, i, to) ==
  \A k \in DOMAIN to : \E m \in Target : m > i /\ to[k] = ChainTarget(c, m)

\* A create that has made an entry and not yet told.
Made(j) == At(j, "reply") /\ job[j].req.op = "create" /\ job[j].err = "ok" /\ Called(j)

RouteInv ==
  /\ \A c \in Client, i \in Target : ClientHolds(c, i) =>
       /\ main[c].ph = "open" => EntryOf(c, i).to = <<>>
       /\ main[c].ph \in {"chain", "send"} => Inward(c, i, EntryOf(c, i).to)
  /\ \A j \in Slot : Made(j) => fmap[job[j].srv][JobTok(j)].to = <<>>

\* An entry that leads nowhere leads inward.
LEMMA NowhereInward == ASSUME NEW c, NEW i PROVE Inward(c, i, <<>>)
BY DEF Inward

\* The targets that the client asks for lead inward.
LEMMA TargetsInward ==
  ASSUME NEW c \in Client, NEW i \in Nat
  PROVE  Inward(c, i, ChainTargets(c, i))
<1> DEFINE sons == Children(Method, i, N)
<1>n. N \in Nat
  BY SenderAssumption
<1>1. \A k \in DOMAIN sons : sons[k] \in Target /\ sons[k] > i
  <2>2. CASE Method = "tree" /\ 2*i + 2 < N
    <3>1. /\ 2*i + 1 \in Target /\ 2*i + 2 \in Target /\ 2*i + 1 > i /\ 2*i + 2 > i
      BY <1>n, <2>2 DEF Target
    <3>2. sons = <<2*i + 1, 2*i + 2>>
      BY <2>2 DEF Children
    <3> HIDE DEF sons
    <3> QED BY <3>1, <3>2
  <2>3. CASE ~(Method = "tree" /\ 2*i + 2 < N)
    <3>1. FirstChild(Method, i) \in Nat /\ FirstChild(Method, i) > i
      BY DEF FirstChild
    <3>2. FirstChild(Method, i) < N => FirstChild(Method, i) \in Target
      BY <1>n, <3>1 DEF Target
    <3>3. sons = IF FirstChild(Method, i) < N THEN <<FirstChild(Method, i)>> ELSE <<>>
      BY <2>3, Zenon DEF Children
    <3> HIDE DEF sons
    <3> QED BY <3>1, <3>2, <3>3
  <2> QED BY <2>2, <2>3
<1>2. /\ DOMAIN ChainTargets(c, i) = DOMAIN sons
      /\ \A k \in DOMAIN sons : ChainTargets(c, i)[k] = ChainTarget(c, sons[k])
  BY DEF ChainTargets
<1> HIDE DEF sons
<1> QED BY <1>1, <1>2 DEF Inward

\* What a client holds is the token of an entry.
LEMMA HeldEntry ==
  ASSUME FcopyInv, OwnInv, NEW c \in Client, NEW i \in Target, ClientHolds(c, i)
  PROVE  /\ Dest[c][i] \in Server /\ tokens[c][i] \in Token
         /\ EntryOf(c, i) \in Entry /\ EntryOf(c, i) # NoEntry
         /\ Owns(<<"client", c, i>>, Dest[c][i], tokens[c][i])
<1>1. Dest[c][i] \in Server
  BY FcopyAssumption
<1>2. tokens[c][i] \in Token
  BY DEF ClientHolds, FcopyInv, SenderInv, SenderTypeOK
<1>3. Owns(<<"client", c, i>>, Dest[c][i], tokens[c][i])
  BY OwnerForms
<1>4. PICK h \in Owner : h = <<"client", c, i>>
  BY OwnerForms
<1>5. EntryOf(c, i) # NoEntry
  BY <1>1, <1>2, <1>3, <1>4 DEF OwnInv, Exclusive, EntryOf
<1>6. EntryOf(c, i) \in Entry
  BY <1>1, <1>2, <1>5 DEF EntryOf, FcopyInv, ServerInv, TypeInv
<1> QED BY <1>1, <1>2, <1>3, <1>5, <1>6

\* A client past its creates holds all its entries.
LEMMA AllHeld ==
  ASSUME FcopyInv, NEW c \in Client, main[c].ph \in {"chain", "send"}, NEW i \in Target
  PROVE  ClientHolds(c, i)
BY DEF FcopyInv, TokenInv, ClientHolds, Waits

\* A server and a token name one target of one client.
LEMMA OneHolder ==
  ASSUME FcopyInv, OwnInv, NEW c \in Client, NEW i \in Target, NEW d \in Client, NEW k \in Target,
         ClientHolds(c, i), ClientHolds(d, k),
         Dest[c][i] = Dest[d][k], tokens[c][i] = tokens[d][k]
  PROVE  c = d /\ i = k
<1>1. PICK g \in Owner, h \in Owner : g = <<"client", c, i>> /\ h = <<"client", d, k>>
  BY OwnerForms
<1>2. PICK s \in Server, t \in Token : s = Dest[c][i] /\ t = tokens[c][i]
  BY HeldEntry
<1>3. Owns(g, s, t) /\ Owns(h, s, t)
  BY <1>1, <1>2, OwnerForms
<1>4. g = h
  BY <1>2, <1>3 DEF OwnInv, Exclusive
<1> QED BY <1>1, <1>4

\* The steps that change a table.
LEMMA TablesMove ==
  ASSUME [Next]_vars
  PROVE  \/ fmap' = fmap
         \/ \E j \in Slot : /\ CreateInsert(j) \/ SetChain(j) \/ CloseErase(j)
                            /\ UNCHANGED <<senderVars, caller, lost>>
         \/ \E s \in Server : Crash(s)
<1>1. ASSUME NEW j \in Slot, JobStep(j)
      PROVE  fmap' = fmap \/ CreateInsert(j) \/ SetChain(j) \/ CloseErase(j)
  BY <1>1, Zenon DEF JobStep, CreateOpen, SendLookup, SendWrite, SendJoin, CloseHas,
                     CloseTruncate, CloseFd
<1>2. ASSUME NEW j \in Slot, ServerStep(j)
      PROVE  \/ fmap' = fmap
             \/ /\ CreateInsert(j) \/ SetChain(j) \/ CloseErase(j)
                /\ UNCHANGED <<senderVars, caller, lost>>
  BY <1>1, <1>2, Zenon DEF ServerStep, netVars, Forward, Reply
<1>3. ASSUME NEW j \in Slot, ServerFails(j) \/ Disconnect(j) PROVE fmap' = fmap
  BY <1>3, Zenon DEF ServerFails, JobFails, CreateRejected, SendWriteFails, SendWriteShort,
                     Disconnect
<1> QED BY <1>2, <1>3, Zenon
        DEF Next, ClientMain, ClientFails, MainCalls, ServersIdle, ClientWorker, WorkerCalls,
            RetryStep, Redial, GiveUpCall, vars, serverVars

\* An entry that has an owner stays as it is, unless the owner is a client that has its
\* chain set, or the handler that erases it.
LEMMA EntryMoves ==
  ASSUME Unbroken({"close", "crash", "chain", "send"}), FcopyInv, OwnInv, Attended,
         [Next]_vars, NEW h \in Owner, NEW s \in Server, NEW t \in Token, Owns(h, s, t)
  PROVE  \/ fmap'[s][t] = fmap[s][t]
         \/ \E c \in Client :
              /\ h = <<"client", c, main[c].i>> /\ main[c].ph = "chain" /\ main[c].i \in Target
              /\ fmap'[s][t].to = ChainTargets(c, main[c].i)
              /\ UNCHANGED senderVars
         \/ \E j \in Slot : h = <<"job", j>> /\ At(j, "erase")
<1>i. TypeInv /\ ServerInv
  BY DEF FcopyInv, ServerInv
<1>e. fmap[s][t] # NoEntry /\ \A g \in Owner : Owns(g, s, t) => g = h
  BY DEF OwnInv, Exclusive
<1>1. CASE fmap' = fmap
  BY <1>1
<1>2. ASSUME NEW j \in Slot, CreateInsert(j) PROVE fmap'[s][t] = fmap[s][t]
  <2> DEFINE x == job[j].srv
             y == TokenOf[job[j].req.name]
             r == [fd |-> job[j].fd, size |-> job[j].req.size, to |-> <<>>]
  <2>1. CASE fmap' = fmap
    BY <2>1
  <2>2. CASE fmap[x][y] = NoEntry /\ fmap' = [fmap EXCEPT ![x][y] = r]
    <3>1. x # s \/ y # t
      BY <1>e, <2>2
    <3> HIDE DEF x, y, r
    <3> QED BY <1>i, <2>2, <3>1 DEF TypeInv
  <2> QED BY <1>2, <2>1, <2>2, Zenon DEF CreateInsert
<1>3. ASSUME NEW j \in Slot, SetChain(j), UNCHANGED senderVars, fmap' # fmap
      PROVE  \/ fmap'[s][t] = fmap[s][t]
             \/ \E c \in Client :
                  /\ h = <<"client", c, main[c].i>> /\ main[c].ph = "chain"
                  /\ main[c].i \in Target
                  /\ fmap'[s][t].to = ChainTargets(c, main[c].i)
  <2> DEFINE x == job[j].srv
             y == job[j].req.tok
             r == [fmap[x][y] EXCEPT !.to = job[j].req.targets]
  <2>1. At(j, "chain") /\ fmap[x][y] # NoEntry /\ fmap' = [fmap EXCEPT ![x][y] = r]
    BY <1>3 DEF SetChain
  <2>2. PICK c \in Client :
          /\ main[c].ph = "chain" /\ main[c].at = "await" /\ main[c].i \in Target
          /\ x = Dest[c][main[c].i] /\ y = tokens[c][main[c].i]
          /\ job[j].req.targets = ChainTargets(c, main[c].i)
    BY <2>1, ChainCaller
  <2>3. CASE s = x /\ t = y
    <3>1. PICK i \in Target : i = main[c].i
      BY <2>2
    <3>2. ClientHolds(c, i)
      BY <2>2, AllHeld
    <3>3. Owns(<<"client", c, i>>, s, t) /\ <<"client", c, i>> \in Owner
      BY <2>2, <2>3, <3>1, <3>2, OwnerForms
    <3>4. h = <<"client", c, i>>
      BY <1>e, <3>3
    <3>5. fmap[s][t] \in Entry
      BY <1>i, <1>e DEF TypeInv
    <3>6. r.to = job[j].req.targets
      BY <2>3, <3>5, Zenon DEF Entry
    <3>7. fmap'[s][t] = r
      <4> HIDE DEF r
      <4> QED BY <1>i, <2>1, <2>3 DEF TypeInv
    <3> QED BY <2>2, <3>1, <3>4, <3>6, <3>7
  <2>4. CASE ~(s = x /\ t = y)
    <3> HIDE DEF x, y, r
    <3> QED BY <1>i, <2>1, <2>4 DEF TypeInv
  <2> QED BY <2>3, <2>4
<1>4. ASSUME NEW j \in Slot, CloseErase(j)
      PROVE  fmap'[s][t] = fmap[s][t] \/ (h = <<"job", j>> /\ At(j, "erase"))
  <2>1. At(j, "erase")
    BY <1>4, Zenon DEF CloseErase
  <2>2. CASE s = job[j].srv /\ t = job[j].req.tok
    <3>1. job[j].req.op = "close"
      BY <1>i, <2>1, AtJob DEF At, Shaped
    <3>2. HoldsEntry(j) /\ JobTok(j) = t
      BY <2>1, <2>2, <3>1 DEF HoldsEntry, JobTok
    <3>3. Owns(<<"job", j>>, s, t) /\ <<"job", j>> \in Owner
      BY <2>2, <3>2, OwnerForms
    <3> QED BY <1>e, <2>1, <3>3
  <2>3. CASE ~(s = job[j].srv /\ t = job[j].req.tok)
    <3> DEFINE x == job[j].srv
               y == job[j].req.tok
    <3>1. fmap' = fmap \/ fmap' = [fmap EXCEPT ![x][y] = NoEntry]
      BY <1>4, Zenon DEF CloseErase
    <3>2. s # x \/ t # y
      BY <2>3
    <3> HIDE DEF x, y
    <3> QED BY <1>i, <3>1, <3>2 DEF TypeInv
  <2> QED BY <2>2, <2>3
<1>5. ASSUME NEW r \in Server PROVE ~Crash(r)
  BY DEF Crash, Fault, Unbroken
<1> QED BY <1>1, <1>2, <1>3, <1>4, <1>5, TablesMove DEF senderVars

\* The handler of a create leaves the entry that it makes without targets.
LEMMA CreatesBare ==
  ASSUME ServerInv, NEW j \in Slot, Handles(j), ~(At(j, "reply")),
         (At(j, "reply") /\ job[j].req.op = "create" /\ job[j].err = "ok")'
  PROVE  fmap'[job'[j].srv][JobTok(j)'].to = <<>>
<1>i. TypeInv
  BY DEF ServerInv
<1>1. ~At(j, "free") /\ KeepsAsk(j)
  BY HandledAsk DEF NoJob, At
<1>2. /\ job[j].req.op = "create" /\ job[j].req \in Request /\ job[j].srv \in Server
      /\ Shaped(job[j])
  BY <1>i, <1>1, AtJob DEF KeepsAsk
<1>3. CreateOpen(j) \/ CreateRejected(j) \/ CreateInsert(j)
  <2>1. job[j].pc \in {"open", "insert"} \/ ~(JobStep(j) \/ JobFails(j) \/ SendWriteShort(j))
    <3>1. job[j].pc \in {"chain", "getfd", "work", "has", "erase", "trunc", "close"}
            => job[j].req.op # "create"
      BY <1>2 DEF Shaped
    <3> QED BY <1>2, <3>1, Zenon
            DEF JobStep, JobFails, At, CreateOpen, CreateInsert, SetChain, SendLookup,
                SendWrite, SendJoin, CloseHas, CloseErase, CloseTruncate, CloseFd,
                CreateRejected, SendWriteFails, SendWriteShort
  <2>2. job[j].pc \in {"open", "insert"}
    BY <2>1 DEF Handles
  <2> QED BY <2>2, Zenon
          DEF Handles, JobStep, JobFails, At, SetChain, SendLookup, SendWrite, SendJoin,
              CloseHas, CloseErase, CloseTruncate, CloseFd, SendWriteFails, SendWriteShort
<1>4. ASSUME NEW e, Respond(j, e) PROVE e = "ok"
  BY <1>1, <1>4, Responded
<1>5. ~CreateOpen(j) /\ ~CreateRejected(j)
  <2>1. ~CreateRejected(j)
    BY <1>4 DEF CreateRejected
  <2>2. ~CreateOpen(j)
    BY Opened DEF At
  <2> QED BY <2>1, <2>2
<1> DEFINE s == job[j].srv
           t == TokenOf[job[j].req.name]
           r == [fd |-> job[j].fd, size |-> job[j].req.size, to |-> <<>>]
<1>6. At(j, "insert") /\ fmap' = [fmap EXCEPT ![s][t] = r]
  <2>1. ~Respond(j, "EEXIST")
    BY <1>4
  <2> QED BY <1>3, <1>5, <2>1, Zenon DEF CreateInsert
<1>7. t \in Token /\ s \in Server
  BY <1>2, RequestFields, ServerAssumption
<1>8. job'[j].srv = s /\ JobTok(j)' = t
  BY <1>1, <1>2 DEF KeepsAsk, JobTok
<1>9. r.to = <<>>
  OBVIOUS
<1>10. fmap'[s][t] = r
  <2> HIDE DEF r, s, t
  <2> QED BY <1>i, <1>6, <1>7 DEF TypeInv
<1> QED BY <1>8, <1>9, <1>10

\* An entry keeps leading nowhere until its client knows of it.
LEMMA MadeNext ==
  ASSUME Unbroken({"close", "crash", "chain", "send"}), FcopyInv, OwnInv, Attended,
         RouteInv, [Next]_vars, NEW j \in Slot, Made(j)'
  PROVE  fmap'[job'[j].srv][JobTok(j)'].to = <<>>
<1>i. ServerInv /\ TypeInv
  BY DEF FcopyInv, ServerInv
<1>0. /\ job'[j].pc = "reply" /\ job'[j].req.op = "create" /\ job'[j].err = "ok"
      /\ caller'[j].who # <<"none">>
  BY DEF Made, At, Called
<1>1. CASE Rests(j)
  <2>1. Made(j) /\ job'[j] = job[j]
    BY <1>0, <1>1 DEF Made, Rests, At, Called
  <2>2. HoldsEntry(j) /\ ~At(j, "free") /\ ~At(j, "erase")
    BY <2>1 DEF Made, HoldsEntry, At
  <2>3. PICK s \in Server : s = job[j].srv
    BY <1>i, <2>2, AtJob
  <2>4. PICK t \in Token : t = JobTok(j)
    <3>1. job[j].req \in Request /\ job[j].req.op = "create"
      BY <1>i, <2>1, <2>2, AtJob DEF Made
    <3> QED BY <3>1, RequestFields, ServerAssumption DEF JobTok
  <2>5. PICK h \in Owner : h = <<"job", j>>
    BY OwnerForms
  <2>6. Owns(h, s, t)
    BY <2>2, <2>3, <2>4, <2>5, OwnerForms
  <2>7. fmap'[s][t] = fmap[s][t]
    BY <2>2, <2>5, <2>6, EntryMoves
  <2>8. JobTok(j)' = JobTok(j)
    BY <2>1 DEF JobTok
  <2> QED BY <2>1, <2>3, <2>4, <2>7, <2>8 DEF RouteInv
<1>2. ~CutOff(j)
  BY <1>0 DEF CutOff, Nobody
<1>3. job'[j] # NoJob
  BY <1>0 DEF NoJob
<1>4. ~Starts(j)
  <2>1. ASSUME NEW r \in Request PROVE FirstPc(r) # "reply"
    <3>1. r.op \in {"create", "chain", "send", "close"}
      BY DEF Request
    <3> QED BY <3>1 DEF FirstPc
  <2> QED BY <1>0, <2>1 DEF Starts
<1>5. CASE Handles(j)
  <2>1. ~At(j, "reply")
    BY <1>5, Zenon
       DEF Handles, JobStep, JobFails, At, CreateOpen, CreateInsert, SetChain, SendLookup,
           SendWrite, SendJoin, CloseHas, CloseErase, CloseTruncate, CloseFd,
           CreateRejected, SendWriteFails, SendWriteShort
  <2> QED BY <1>i, <1>0, <1>5, <2>1, CreatesBare DEF At
<1>6. ~Forwards(j) /\ ~Lingers(j)
  BY <1>0 DEF Forwards, Marks, Lingers, At
<1> QED BY <1>1, <1>2, <1>3, <1>4, <1>5, <1>6, JobsMove DEF Moves, Ends

\* The entries a client goes on with lead where they should.
LEMMA OnwardRoute ==
  ASSUME Unbroken({"close", "crash", "chain", "send"}), FcopyInv, OwnInv, Attended,
         RouteInv, [Next]_vars,
         NEW c \in Client, Onward(c), NEW i \in Target, ClientHolds(c, i)'
  PROVE  /\ main'[c].ph = "open" => EntryOf(c, i)'.to = <<>>
         /\ main'[c].ph \in {"chain", "send"} => Inward(c, i, EntryOf(c, i).to)'
<1>1. ClientHolds(c, i) /\ tokens'[c][i] = tokens[c][i]
  BY DEF Onward, ClientKeeps
<1>2. PICK s \in Server, t \in Token : s = Dest[c][i] /\ t = tokens[c][i]
  BY <1>1, HeldEntry
<1>3. PICK h \in Owner : h = <<"client", c, i>>
  BY OwnerForms
<1>4. Owns(h, s, t)
  BY <1>1, <1>2, <1>3, OwnerForms
<1>5. EntryOf(c, i) = fmap[s][t] /\ EntryOf(c, i)' = fmap'[s][t]
  BY <1>1, <1>2 DEF EntryOf
<1>6. main'[c].ph = "open" => main[c].ph = "open"
  BY DEF Onward, ClientHolds
<1>7. main'[c].ph \in {"chain", "send"} =>
        /\ main[c].ph \in {"chain", "send"}
        /\ \A m : ChainTarget(c, m)' = ChainTarget(c, m)
  BY DEF Onward, ChainTarget
<1>8. CASE fmap'[s][t] = fmap[s][t]
  BY <1>1, <1>5, <1>6, <1>7, <1>8 DEF RouteInv, Inward
<1>9. CASE \E d \in Client :
             /\ h = <<"client", d, main[d].i>> /\ main[d].ph = "chain" /\ main[d].i \in Target
             /\ fmap'[s][t].to = ChainTargets(d, main[d].i)
             /\ UNCHANGED senderVars
  <2>1. /\ main[c].ph = "chain" /\ main[c].i = i
        /\ fmap'[s][t].to = ChainTargets(c, i) /\ UNCHANGED senderVars
    BY <1>3, <1>9
  <2>2. main'[c].ph = "chain"
    BY <2>1 DEF senderVars
  <2>3. Inward(c, i, ChainTargets(c, i))
    BY TargetsInward, SenderAssumption DEF Target
  <2> QED BY <1>5, <1>7, <2>1, <2>2, <2>3 DEF Inward
<1>10. ~(\E j \in Slot : h = <<"job", j>>)
  BY <1>3
<1> QED BY <1>4, <1>8, <1>9, <1>10, EntryMoves

\* So does the entry whose token a client gets.
LEMMA ReceivedRoute ==
  ASSUME FcopyInv, OwnInv, RouteInv,
         NEW c \in Client, Receives(c), NEW i \in Target, ClientHolds(c, i)'
  PROVE  /\ main'[c].ph = "open" => EntryOf(c, i)'.to = <<>>
         /\ main'[c].ph \in {"chain", "send"} => Inward(c, i, EntryOf(c, i).to)'
<1>i. SenderInv
  BY DEF FcopyInv
<1>1. PICK j \in Slot : /\ Reply(j) /\ caller[j].who = <<"main", c>> /\ job[j].err = "ok"
                        /\ Answer(j) \in Token /\ OpenReturns(c, "ok", Answer(j))
  BY DEF Receives
<1>2. main[c].ph = "open" /\ At(j, "reply") /\ fmap' = fmap
  BY <1>1 DEF OpenReturns, Waits, Reply
<1>3. /\ Called(j) /\ job[j].srv = Dest[c][main[c].i] /\ job[j].req.op = "create"
      /\ Answer(j) = JobTok(j)
  BY <1>1, <1>2, CreateAnswers DEF Answer, JobTok
<1>4. PICK t \in Token : t = Answer(j)
  BY <1>1
<1>5. /\ main[c].i \in Target /\ tokens'[c][main[c].i] = t
      /\ \A k \in Target \ {main[c].i} : tokens'[c][k] = tokens[c][k]
  BY <1>i, <1>1, <1>4, OpenGives
<1>6. EntryOf(c, i)'.to = <<>>
  <2>1. CASE i = main[c].i
    <3>1. fmap[job[j].srv][JobTok(j)].to = <<>>
      BY <1>1, <1>2, <1>3 DEF RouteInv, Made
    <3> QED BY <1>2, <1>3, <1>4, <1>5, <2>1, <3>1 DEF EntryOf
  <2>2. CASE i # main[c].i
    <3>1. tokens'[c][i] = tokens[c][i] /\ tokens[c][i] # NoToken
      BY <1>5, <2>2 DEF ClientHolds
    <3>2. ClientHolds(c, i)
      BY <1>2, <3>1 DEF ClientHolds, Waits
    <3>3. EntryOf(c, i).to = <<>>
      BY <1>2, <3>2 DEF RouteInv
    <3> QED BY <1>2, <3>1, <3>3 DEF EntryOf
  <2> QED BY <2>1, <2>2
<1>7. Inward(c, i, <<>>)'
  BY DEF Inward
<1> QED BY <1>6, <1>7 DEF Inward

\* Every step keeps the entries leading where they should.
LEMMA RouteNext ==
  ASSUME Unbroken({"close", "crash", "chain", "send"}), FcopyInv, OwnInv, Attended,
         RouteInv, [Next]_vars
  PROVE  RouteInv'
<1>1. ASSUME NEW c \in Client, NEW i \in Target, ClientHolds(c, i)'
      PROVE  /\ main'[c].ph = "open" => EntryOf(c, i)'.to = <<>>
             /\ main'[c].ph \in {"chain", "send"} => Inward(c, i, EntryOf(c, i).to)'
  <2>1. CASE Onward(c)
    BY <1>1, <2>1, OnwardRoute
  <2>2. CASE Receives(c)
    BY <1>1, <2>2, ReceivedRoute
  <2> QED BY <2>1, <2>2, ClientsGo
<1>2. ASSUME NEW j \in Slot, Made(j)'
      PROVE  fmap'[job'[j].srv][JobTok(j)'].to = <<>>
  BY <1>2, MadeNext
<1> QED BY <1>1, <1>2 DEF RouteInv

-----------------------------------------------------------------------------
(* The chunks under way.                                                   *)

\* Job j brings a chunk of client c to its target i.
SendsAt(c, i, j) ==
  /\ main[c].ph = "send"
  /\ job[j].srv = Dest[c][i] /\ job[j].req.tok = tokens[c][i]
  /\ job[j].req.src \in {Hole, <<c, main[c].file>>}
  /\ N < 65536 => job[j].req.budget >= N - i
  /\ At(j, "work") => Inward(c, i, job[j].to) /\ job[j].fd = EntryOf(c, i).fd

IsSend(j) == ~At(j, "free") /\ job[j].req.op = "send"

SendsInv == \A j \in Slot : IsSend(j) => \E c \in Client, i \in Target : SendsAt(c, i, j)

\* A handler that forwards a chunk has it from the same client, for an earlier target.
LEMMA ForwardsInward ==
  ASSUME FcopyInv, SendsInv, NEW p \in Slot, At(p, "work"), NEW k \in DOMAIN job[p].to
  PROVE  \E c \in Client, i \in Target, m \in Target :
           /\ SendsAt(c, i, p) /\ m > i /\ job[p].to[k] = ChainTarget(c, m)
<1>1. IsSend(p)
  BY AtJob DEF FcopyInv, ServerInv, At, Shaped, IsSend
<1>2. PICK c \in Client, i \in Target : SendsAt(c, i, p)
  BY <1>1 DEF SendsInv
<1>3. PICK m \in Target : m > i /\ job[p].to[k] = ChainTarget(c, m)
  BY <1>2 DEF SendsAt, Inward
<1> QED BY <1>2, <1>3

\* While a chunk of a client is under way, some worker of the client waits.
LEMMA WorkerWaits ==
  ASSUME FcopyInv, OwnInv, Attended, SendsInv,
         NEW c \in Client, NEW i0 \in Target, NEW j0 \in Slot, IsSend(j0), SendsAt(c, i0, j0)
  PROVE  \E w \in Worker : work[c][w].pc = "call"
<1> DEFINE S == {i \in Target : \E j \in Slot : IsSend(j) /\ SendsAt(c, i, j)}
<1>1. PICK i \in S : \A n \in S : ~(n < i)
  <2>1. i0 \in S /\ S \subseteq Nat
    BY DEF Target
  <2> HIDE DEF S
  <2>2. PICK i \in S : \A n \in S : <<n, i>> \notin OpToRel(<, Nat)
    BY <2>1, WFMin, NatLessThanWellFounded, Zenon
  <2> QED BY <2>1, <2>2 DEF OpToRel
<1>2. PICK j \in Slot : IsSend(j) /\ SendsAt(c, i, j)
  OBVIOUS
<1>3. /\ i \in Target /\ ClientHolds(c, i)
      /\ job[j].srv = Dest[c][i] /\ job[j].req.tok = tokens[c][i]
  BY <1>2, AllHeld DEF SendsAt
<1>4. CASE \E d \in Client, w \in Worker :
             /\ work[d][w].pc = "call" /\ main[d].ph = "send"
             /\ job[j].srv = Dest[d][0] /\ job[j].req.tok = tokens[d][0]
  <2>1. PICK d \in Client, w \in Worker :
             /\ work[d][w].pc = "call" /\ main[d].ph = "send"
             /\ job[j].srv = Dest[d][0] /\ job[j].req.tok = tokens[d][0]
    BY <1>4
  <2>2. 0 \in Target
    BY SenderAssumption DEF Target
  <2>3. ClientHolds(d, 0)
    BY <2>1, <2>2, AllHeld
  <2>4. c = d
    BY <1>3, <2>1, <2>2, <2>3, OneHolder
  <2> QED BY <2>1, <2>4
<1>5. CASE \E p \in Slot, k \in Nat :
             /\ At(p, "work") /\ k \in DOMAIN job[p].to /\ job[p].req.op = "send"
             /\ job[j].srv = job[p].to[k].srv /\ job[j].req.tok = job[p].to[k].tok
  <2>1. PICK p \in Slot, k \in Nat :
             /\ At(p, "work") /\ k \in DOMAIN job[p].to /\ job[p].req.op = "send"
             /\ job[j].srv = job[p].to[k].srv /\ job[j].req.tok = job[p].to[k].tok
    BY <1>5
  <2>2. PICK d \in Client, n \in Target, m \in Target :
          SendsAt(d, n, p) /\ m > n /\ job[p].to[k] = ChainTarget(d, m)
    BY <2>1, ForwardsInward
  <2>3. job[j].srv = Dest[d][m] /\ job[j].req.tok = tokens[d][m]
    BY <2>1, <2>2 DEF ChainTarget
  <2>4. ClientHolds(d, m)
    BY <2>2, AllHeld DEF SendsAt
  <2>5. c = d /\ i = m
    BY <1>3, <2>3, <2>4, OneHolder
  <2>6. IsSend(p)
    BY <2>1 DEF IsSend, At
  <2>7. n \in S
    BY <2>2, <2>5, <2>6
  <2> QED BY <1>1, <2>2, <2>5, <2>7
<1>6. ~At(j, "free") /\ job[j].req.op = "send"
  BY <1>2 DEF IsSend
<1> QED BY <1>4, <1>5, <1>6, SendCaller

\* A client one of whose workers is not through stays in the transfer.
LEMMA StaysSending ==
  ASSUME FcopyInv, OwnInv, [Next]_vars,
         NEW c \in Client, main[c].ph = "send", NEW w \in Worker, work[c][w].pc # "exit"
  PROVE  main'[c].ph = "send" /\ tokens'[c] = tokens[c] /\ main'[c].file = main[c].file
<1>1. ~Receives(c)
  BY DEF Receives, OpenReturns, Waits
<1>2. Onward(c)
  BY <1>1, ClientsGo
<1> QED BY <1>2 DEF Onward

\* So does one that has a chunk under way, and its entries stay as they are.
LEMMA KeepsSending ==
  ASSUME Unbroken({"close", "crash", "chain", "send"}), FcopyInv, OwnInv, Attended,
         SendsInv, [Next]_vars,
         NEW c \in Client, NEW i \in Target, NEW j \in Slot, IsSend(j), SendsAt(c, i, j)
  PROVE  /\ main'[c].ph = "send" /\ tokens'[c] = tokens[c] /\ main'[c].file = main[c].file
         /\ \A k \in Target : EntryOf(c, k)' = EntryOf(c, k)
<1>1. PICK w \in Worker : work[c][w].pc = "call"
  BY WorkerWaits
<1>2. main[c].ph = "send"
  BY DEF SendsAt
<1>3. main'[c].ph = "send" /\ tokens'[c] = tokens[c] /\ main'[c].file = main[c].file
  BY <1>1, <1>2, StaysSending
<1>4. ASSUME NEW k \in Target PROVE EntryOf(c, k)' = EntryOf(c, k)
  <2>1. ClientHolds(c, k)
    BY <1>2, AllHeld
  <2>2. PICK s \in Server, t \in Token : s = Dest[c][k] /\ t = tokens[c][k]
    BY <2>1, HeldEntry
  <2>3. PICK h \in Owner : h = <<"client", c, k>>
    BY OwnerForms
  <2>4. Owns(h, s, t)
    BY <2>1, <2>2, <2>3, OwnerForms
  <2>5. fmap'[s][t] = fmap[s][t]
    BY <1>2, <2>3, <2>4, EntryMoves
  <2> QED BY <1>3, <2>2, <2>5 DEF EntryOf
<1> QED BY <1>3, <1>4

\* The handler of a chunk is at work when it has looked up the entry, and until it joins.
LEMMA HandledWork ==
  ASSUME ServerInv, NEW j \in Slot, Handles(j), At(j, "work")'
  PROVE  SendLookup(j) \/ (At(j, "work") /\ KeepsWork(j))
<1>f. ~At(j, "free")
  BY HandledAsk
<1>1. ASSUME NEW e, Respond(j, e) PROVE FALSE
  BY <1>1, <1>f, Responded DEF At
<1>2. ASSUME NEW e, EndClose(j, e) PROVE FALSE
  BY <1>2, <1>f, Ended DEF At, NoJob
<1>3. ~CreateOpen(j) /\ ~CreateRejected(j) /\ ~CreateInsert(j)
  <2>1. ~CreateOpen(j)
    BY Opened DEF At
  <2> QED BY <1>1, <2>1, Zenon DEF CreateRejected, CreateInsert
<1>4. ~SetChain(j) /\ ~SendJoin(j) /\ ~CloseHas(j)
  BY <1>1, Zenon DEF SetChain, SendJoin, CloseHas
<1>5. ~CloseErase(j) /\ ~CloseTruncate(j) /\ ~CloseFd(j)
  <2>1. ~CloseErase(j)
    BY <1>2, Erased DEF At
  <2>2. ~CloseTruncate(j)
    BY Cut DEF At
  <2> QED BY <1>2, <2>1, <2>2, Zenon DEF CloseFd
<1>6. ASSUME SendWrite(j) \/ SendWriteFails(j) \/ SendWriteShort(j)
      PROVE  At(j, "work") /\ KeepsWork(j)
  BY <1>6, Wrote
<1> QED BY <1>3, <1>4, <1>5, <1>6 DEF Handles, JobStep, JobFails

\* A new request for a chunk: a worker's, for the first target, or a forwarded one.
LEMMA StartedSend ==
  ASSUME Unbroken({"close", "crash", "chain", "send"}), FcopyInv, OwnInv, Attended,
         SendsInv, [Next]_vars, NEW j \in Slot, Starts(j), IsSend(j)'
  PROVE  \E c \in Client, i \in Target : SendsAt(c, i, j)'
<1>i. SenderInv /\ CallInv /\ ServerInv /\ TypeInv
  BY DEF FcopyInv, ServerInv
<1>1. PICK who \in Who, s \in Server, r \in Request :
        /\ Asks(who, s, r) /\ job'[j].pc = FirstPc(r) /\ job'[j].srv = s /\ job'[j].req = r
  BY DEF Starts
<1>2. r.op = "send" /\ job'[j].pc = "getfd"
  BY <1>1 DEF IsSend, FirstPc
<1>3. CASE \E c \in Client : Call(c) /\ r = MainReq(c)
  BY <1>2, <1>3 DEF Call, Calls, MainReq, CreateReq, SetChainReq, CloseReq
<1>4. ASSUME NEW c \in Client, NEW w \in Worker, main[c].ph = "send", work[c][w].pc = "read",
             s = Dest[c][0], r \in WorkReqs(c, w)
      PROVE  SendsAt(c, 0, j)' /\ 0 \in Target
  <2>1. main'[c].ph = "send" /\ tokens'[c] = tokens[c] /\ main'[c].file = main[c].file
    BY <1>4, StaysSending
  <2>2. /\ r.tok = tokens[c][0] /\ r.src \in {Hole, <<c, main[c].file>>}
        /\ r.budget = ChainLen(N)
    BY <1>4, WorkReqFields
  <2>3. N < 65536 => r.budget >= N - 0
    BY <2>2, SenderAssumption DEF ChainLen
  <2>4. 0 \in Target
    BY SenderAssumption DEF Target
  <2> QED BY <1>1, <1>2, <1>4, <2>1, <2>2, <2>3, <2>4 DEF SendsAt, At
<1>5. ASSUME NEW p \in Slot, NEW k \in Nat, Forward(p, k),
             s = job[p].to[k].srv, r = ForwardReq(p, k)
      PROVE  \E c \in Client, i \in Target : SendsAt(c, i, j)'
  <2>1. At(p, "work") /\ k \in DOMAIN job[p].fwd
    BY <1>5 DEF Forward, Forwarding
  <2>2. k \in DOMAIN job[p].to
    BY <1>5, ForwardSent
  <2>3. PICK c \in Client, i \in Target, m \in Target :
          SendsAt(c, i, p) /\ m > i /\ job[p].to[k] = ChainTarget(c, m)
    BY <2>1, <2>2, ForwardsInward
  <2>4. IsSend(p) /\ job[p].req \in Request
    BY <1>i, <2>1, AtJob DEF IsSend, At, Shaped
  <2>5. main'[c].ph = "send" /\ tokens'[c] = tokens[c] /\ main'[c].file = main[c].file
    BY <2>3, <2>4, KeepsSending
  <2>6. /\ r.tok = job[p].to[k].tok /\ r.src = job[p].req.src
        /\ r.budget = job[p].req.budget - 1 /\ job[p].req.budget \in Nat
    BY <1>5, <2>4, ForwardFields DEF IsSend
  <2>7. job[p].to[k].srv = Dest[c][m] /\ job[p].to[k].tok = tokens[c][m]
    BY <2>3 DEF ChainTarget
  <2>8. N < 65536 => r.budget >= N - m
    <3>1. N \in Nat /\ i \in Nat /\ m \in Nat
      BY SenderAssumption DEF Target
    <3> QED BY <2>3, <2>6, <3>1 DEF SendsAt
  <2>9. r.src \in {Hole, <<c, main[c].file>>}
    BY <2>3, <2>6 DEF SendsAt
  <2>10. SendsAt(c, m, j)'
    BY <1>1, <1>2, <1>5, <2>5, <2>6, <2>7, <2>8, <2>9 DEF SendsAt, At
  <2> QED BY <2>10
<1>6. CASE \E l \in lost : r = l.req
  BY <1>2, <1>6 DEF Attended
<1> QED BY <1>1, <1>3, <1>4, <1>5, <1>6 DEF Asks

\* A chunk that goes on stays with its client and its target.
LEMMA SendStays ==
  ASSUME Unbroken({"close", "crash", "chain", "send"}), FcopyInv, OwnInv, Attended,
         RouteInv, SendsInv, [Next]_vars, NEW j \in Slot, IsSend(j), KeepsAsk(j),
         At(j, "work")' => SendLookup(j) \/ (At(j, "work") /\ KeepsWork(j)),
         NEW c \in Client, NEW i \in Target, SendsAt(c, i, j)
  PROVE  SendsAt(c, i, j)'
<1>i. ServerInv
  BY DEF FcopyInv
<1>1. /\ main'[c].ph = "send" /\ tokens'[c] = tokens[c] /\ main'[c].file = main[c].file
      /\ EntryOf(c, i)' = EntryOf(c, i)
  BY KeepsSending
<1>2. \A m : ChainTarget(c, m)' = ChainTarget(c, m)
  BY <1>1 DEF ChainTarget
<1>3. /\ main[c].ph = "send" /\ job[j].srv = Dest[c][i] /\ job[j].req.tok = tokens[c][i]
      /\ job[j].req.src \in {Hole, <<c, main[c].file>>}
      /\ N < 65536 => job[j].req.budget >= N - i
  BY DEF SendsAt
<1>4. ASSUME At(j, "work")'
      PROVE  Inward(c, i, job'[j].to) /\ job'[j].fd = EntryOf(c, i).fd
  <2>1. CASE At(j, "work") /\ KeepsWork(j)
    BY <2>1 DEF SendsAt, KeepsWork
  <2>2. CASE SendLookup(j)
    <3>1. EntryOf(c, i) = fmap[job[j].srv][job[j].req.tok]
      BY <1>3 DEF EntryOf
    <3>2. job'[j].fd = EntryOf(c, i).fd /\ job'[j].to = EntryOf(c, i).to
      BY <1>i, <1>4, <2>2, <3>1, LookedUp DEF At
    <3>3. ClientHolds(c, i)
      BY <1>3, AllHeld
    <3> QED BY <1>3, <3>2, <3>3 DEF RouteInv
  <2> QED BY <1>4, <2>1, <2>2
<1>5. (Inward(c, i, job[j].to))' <=> Inward(c, i, job'[j].to)
  BY <1>2 DEF Inward
<1> QED BY <1>1, <1>3, <1>4, <1>5 DEF SendsAt, KeepsAsk

\* Every step keeps the chunks with their clients.
LEMMA SendsNext ==
  ASSUME Unbroken({"close", "crash", "chain", "send"}), FcopyInv, OwnInv, Attended,
         RouteInv, SendsInv, [Next]_vars
  PROVE  SendsInv'
<1>i. ServerInv
  BY DEF FcopyInv
<1> SUFFICES ASSUME NEW j \in Slot, IsSend(j)'
             PROVE  \E c \in Client, i \in Target : SendsAt(c, i, j)'
  BY DEF SendsInv
<1>0. job'[j].pc # "free" /\ job'[j].req.op = "send"
  BY DEF IsSend, At
<1>1. ASSUME ~At(j, "free"), KeepsAsk(j),
             At(j, "work")' => SendLookup(j) \/ (At(j, "work") /\ KeepsWork(j))
      PROVE  \E c \in Client, i \in Target : SendsAt(c, i, j)'
  <2>1. IsSend(j)
    BY <1>0, <1>1 DEF IsSend, KeepsAsk
  <2>2. PICK c \in Client, i \in Target : SendsAt(c, i, j)
    BY <2>1 DEF SendsInv
  <2> QED BY <1>1, <2>1, <2>2, SendStays
<1>2. CASE job'[j] = job[j]
  BY <1>0, <1>1, <1>2 DEF At, KeepsAsk, KeepsWork
<1>3. CASE Starts(j)
  BY <1>3, StartedSend
<1>4. CASE Handles(j)
  <2>1. ~At(j, "free") /\ KeepsAsk(j)
    BY <1>i, <1>0, <1>4, HandledAsk DEF NoJob
  <2> QED BY <1>i, <1>1, <1>4, <2>1, HandledWork
<1>5. CASE Forwards(j)
  <2>1. At(j, "work") /\ KeepsAsk(j) /\ KeepsWork(j)
    BY <1>5 DEF Forwards, Marks
  <2> QED BY <1>1, <2>1 DEF At
<1>6. ~Lingers(j)
  BY <1>0 DEF Lingers, IsLateClose, KeepsAsk
<1>7. job'[j] # NoJob
  BY <1>0 DEF NoJob
<1> QED BY <1>2, <1>3, <1>4, <1>5, <1>6, <1>7, JobsMove DEF Moves, Rests, CutOff, Ends

-----------------------------------------------------------------------------
(* What gets into the files.                                               *)

\* A chunk of a file keeps its bytes, or loses them, or a handler writes its own there.
Rewritten(s, p, o) ==
  LET old == disk[s][p].data[o]
      new == disk'[s][p].data[o]
  IN \/ new \in {old, Hole}
     \/ \E j \in Slot : /\ At(j, "work") /\ job[j].wr = "todo"
                        /\ job[j].srv = s /\ fds[s][job[j].fd] = p
                        /\ new = job[j].req.src

\* One file changes.
LEMMA FilePut ==
  ASSUME TypeInv, NEW t \in Server, NEW q \in Path, NEW x, disk' = [disk EXCEPT ![t][q] = x]
  PROVE  /\ disk'[t][q] = x
         /\ \A s \in Server, p \in Path : s # t \/ p # q => disk'[s][p] = disk[s][p]
BY DEF TypeInv

\* The system calls, on one chunk.
LEMMA ChunkOf ==
  ASSUME NEW f \in FileState, NEW o \in Offset, NEW a \in Offset, NEW n, NEW src
  PROVE  /\ Truncated(f, n).data[o] \in {f.data[o], Hole}
         /\ Written(f, a, n, src).data[o] \in {f.data[o], src}
         /\ PartWritten(f, a, n, src).data[o] \in {f.data[o], Hole}
<1>1. f.data \in [Offset -> Source \cup {Hole}]
  BY DEF FileState
<1>2. Truncated(f, n).data[o] \in {f.data[o], Hole}
  BY DEF Truncated
<1>3. Written(f, a, n, src).data[o] \in {f.data[o], src}
  BY <1>1 DEF Written
<1>4. PartWritten(f, a, n, src).data[o] \in {f.data[o], Hole}
  BY <1>1 DEF PartWritten
<1> QED BY <1>2, <1>3, <1>4

\* Every step treats every chunk so.
LEMMA DisksMove ==
  ASSUME FcopyInv, [Next]_vars, NEW s \in Server, NEW p \in Path, NEW o \in Offset
  PROVE  Rewritten(s, p, o)
<1>i. ServerInv /\ TypeInv
  BY DEF FcopyInv, ServerInv
<1>f. disk[s][p] \in FileState
  BY <1>i DEF TypeInv
<1>0. ASSUME disk' = disk PROVE Rewritten(s, p, o)
  BY <1>0 DEF Rewritten
<1>p. ASSUME NEW t \in Server, NEW q \in Path, NEW x, disk' = [disk EXCEPT ![t][q] = x],
             s = t /\ p = q => x.data[o] \in {disk[s][p].data[o], Hole}
      PROVE  Rewritten(s, p, o)
  <2>1. CASE s = t /\ p = q
    BY <1>i, <1>p, <2>1, FilePut DEF Rewritten
  <2>2. CASE s # t \/ p # q
    BY <1>i, <1>p, <2>2, FilePut DEF Rewritten
  <2> QED BY <2>1, <2>2
<1>1. ASSUME NEW j \in Slot, CreateOpen(j) PROVE Rewritten(s, p, o)
  <2>1. At(j, "open")
    BY <1>1, Zenon DEF CreateOpen
  <2>2. job[j].srv \in Server /\ job[j].req \in Request /\ job[j].req.op = "create"
    BY <1>i, <2>1, AtJob DEF At, Shaped
  <2>3. PICK t \in Server, q \in Path : t = job[j].srv /\ q = FileOf[job[j].req.name]
    BY <2>2, RequestFields, ServerAssumption
  <2>4. PICK x : x = Truncated(disk[t][q], 0)
    OBVIOUS
  <2>5. disk' = [disk EXCEPT ![t][q] = x]
    BY <1>1, <2>3, <2>4 DEF CreateOpen
  <2>6. s = t /\ p = q => x.data[o] \in {disk[s][p].data[o], Hole}
    BY <1>f, <2>4, ChunkOf
  <2> QED BY <1>p, <2>5, <2>6
<1>2. ASSUME NEW j \in Slot, CloseTruncate(j) PROVE Rewritten(s, p, o)
  <2>1. At(j, "trunc")
    BY <1>2, Zenon DEF CloseTruncate
  <2>2. job[j].srv \in Server /\ job[j].fd \in Fd
    BY <1>i, <2>1, AtJob DEF At, Shaped
  <2>3. PICK t \in Server, q \in Path \cup {Closed} :
          t = job[j].srv /\ q = fds[job[j].srv][job[j].fd]
    BY <1>i, <2>2 DEF TypeInv
  <2>4. CASE q = Closed
    BY <1>0, <1>2, <2>3, <2>4 DEF CloseTruncate
  <2>5. CASE q # Closed
    <3>1. PICK x : x = Truncated(disk[t][q], job[j].size)
      OBVIOUS
    <3>2. disk' = [disk EXCEPT ![t][q] = x] /\ q \in Path
      BY <1>2, <2>3, <2>5, <3>1 DEF CloseTruncate
    <3>3. s = t /\ p = q => x.data[o] \in {disk[s][p].data[o], Hole}
      BY <1>f, <3>1, ChunkOf
    <3> QED BY <1>p, <3>2, <3>3
  <2> QED BY <2>4, <2>5
<1>3. ASSUME NEW j \in Slot, SendWrite(j) \/ SendWriteShort(j) PROVE Rewritten(s, p, o)
  <2>1. At(j, "work") /\ job[j].wr = "todo"
    BY <1>3, Zenon DEF SendWrite, SendWriteShort
  <2>2. /\ job[j].srv \in Server /\ job[j].fd \in Fd
        /\ job[j].req \in Request /\ job[j].req.op = "send"
    BY <1>i, <2>1, AtJob DEF At, Shaped
  <2>3. PICK t \in Server, q \in Path \cup {Closed} :
          t = job[j].srv /\ q = fds[job[j].srv][job[j].fd]
    BY <1>i, <2>2 DEF TypeInv
  <2>4. PICK a \in Offset, src \in Source \cup {Hole} : a = job[j].req.off /\ src = job[j].req.src
    BY <2>2, RequestFields
  <2>5. CASE disk' = disk
    BY <1>0, <2>5
  <2>6. CASE disk' # disk
    <3>1. /\ q \in Path
          /\ \E n : \/ disk' = [disk EXCEPT ![t][q] = Written(disk[t][q], a, n, src)]
                   \/ disk' = [disk EXCEPT ![t][q] = PartWritten(disk[t][q], a, n, src)]
      BY <1>3, <2>3, <2>4, <2>6 DEF SendWrite, SendWriteShort
    <3>2. PICK x : /\ disk' = [disk EXCEPT ![t][q] = x]
                   /\ \E n : x \in {Written(disk[t][q], a, n, src),
                                    PartWritten(disk[t][q], a, n, src)}
      BY <3>1
    <3>3. CASE s = t /\ p = q
      <4>1. x.data[o] \in {disk[s][p].data[o], src, Hole}
        BY <1>f, <3>2, <3>3, ChunkOf
      <4>2. q \in Path /\ disk' = [disk EXCEPT ![t][q] = x]
        BY <3>1, <3>2
      <4>3. disk'[t][q] = x
        BY <1>i, <4>2 DEF TypeInv
      <4>4. disk'[s][p] = x
        BY <3>3, <4>3
      <4> QED BY <2>1, <2>3, <2>4, <3>3, <4>1, <4>4 DEF Rewritten
    <3>4. CASE ~(s = t /\ p = q)
      BY <1>p, <3>1, <3>2, <3>4
    <3> QED BY <3>3, <3>4
  <2> QED BY <2>5, <2>6
<1>4. ASSUME NEW j \in Slot, ServerStep(j) \/ ServerFails(j) \/ Disconnect(j)
      PROVE  Rewritten(s, p, o)
  <2>1. CASE disk' = disk
    BY <1>0, <2>1
  <2>2. CASE disk' # disk
    <3>1. CreateOpen(j) \/ CloseTruncate(j) \/ SendWrite(j) \/ SendWriteShort(j)
      BY <1>4, <2>2, Zenon
         DEF ServerStep, ServerFails, Disconnect, JobStep, JobFails, CreateInsert,
             SetChain, SendLookup, SendJoin, CloseHas, CloseErase, CloseFd, CreateRejected,
             SendWriteFails, Forward, Reply
    <3> QED BY <1>1, <1>2, <1>3, <3>1
  <2> QED BY <2>1, <2>2
<1>5. disk' = disk \/ \E j \in Slot : ServerStep(j) \/ ServerFails(j) \/ Disconnect(j)
  BY Zenon DEF Next, ClientMain, ClientFails, MainCalls, ServersIdle, ClientWorker,
               WorkerCalls, RetryStep, Redial, GiveUpCall, Crash, Restart, vars, serverVars
<1> QED BY <1>0, <1>4, <1>5

\* At first nothing is under way.
LEMMA RouteInit == Init => Attended /\ RouteInv /\ SendsInv
<1> SUFFICES ASSUME Init PROVE Attended /\ RouteInv /\ SendsInv
  OBVIOUS
<1>1. \A c \in Client, i \in Target : tokens[c][i] = NoToken
  BY DEF Init, SenderInit, NoTokens
<1>2. \A j \in Slot : job[j].pc = "free"
  BY DEF Init, ServerInit, NoJob
<1>3. lost = {}
  BY DEF Init
<1> QED BY <1>1, <1>2, <1>3 DEF Attended, RouteInv, SendsInv, ClientHolds, Made, IsSend, At

-----------------------------------------------------------------------------
(* Theorems.  They hold while no connection breaks under a chain, a send   *)
(* or a close and no server goes down; calls of create may be cut off and  *)
(* repeated, writes and local reads may fail or stop short.                *)

Steady == Unbroken({"close", "crash", "chain", "send"})

\* A chunk that is under way belongs to a client that is still in its transfer, it has
\* come to one of the client's own entries, and from there it goes on only to later
\* targets of the same client.
THEOREM ChunksOnRoute == Steady => (Spec => [](OwnInv /\ Attended /\ RouteInv /\ SendsInv))
<1>1. ASSUME Steady
      PROVE  FcopyInv /\ OwnInv /\ Attended /\ RouteInv /\ SendsInv /\ [Next]_vars
               => (Attended /\ RouteInv /\ SendsInv)'
  BY <1>1, AttendedNext, RouteNext, SendsNext DEF Steady
<1>2. Init => Attended /\ RouteInv /\ SendsInv
  BY RouteInit
<1>3. Steady => Unbroken({"close", "crash"})
  BY DEF Steady, Unbroken
<1>4. ASSUME Steady PROVE Spec => []OwnInv
  BY <1>3, <1>4, EntriesAreOwned
<1>5. ASSUME Steady PROVE Spec => [](OwnInv /\ Attended /\ RouteInv /\ SendsInv)
  BY <1>1, <1>2, <1>4, <1>5, SystemKeepsInv, PTL DEF Spec
<1> QED BY <1>5

\* The file that the handler of a chunk has looked up.
LEMMA DescriptorNames ==
  ASSUME FcopyInv, OwnInv, NEW c \in Client, NEW i \in Target, NEW j \in Slot,
         SendsAt(c, i, j), At(j, "work")
  PROVE  \E n \in Name : /\ FileOf[n] = fds[job[j].srv][job[j].fd]
                         /\ TokenOf[n] = tokens[c][i]
<1>1. ClientHolds(c, i)
  BY AllHeld DEF SendsAt
<1>2. PICK s \in Server, t \in Token : s = Dest[c][i] /\ t = tokens[c][i]
  BY <1>1, HeldEntry
<1>3. fmap[s][t] = EntryOf(c, i) /\ fmap[s][t] # NoEntry
  BY <1>1, <1>2, HeldEntry DEF EntryOf
<1>4. PICK n \in Name : FileOf[n] = fds[s][fmap[s][t].fd] /\ TokenOf[n] = t
  BY <1>3 DEF FcopyInv, ServerInv, EntryNamesFile
<1>5. job[j].srv = s /\ job[j].fd = fmap[s][t].fd
  BY <1>2, <1>3 DEF SendsAt
<1> QED BY <1>2, <1>4, <1>5

\* NoStaleFd: a handler writes through the descriptor that it copied before it released
\* the mutex; the entry is still there then, since its client has no file closed while
\* one of its chunks is under way, and nobody else can.
THEOREM DescriptorsFresh == Steady => (Spec => []NoStaleFd)
<1>1. FcopyInv /\ OwnInv /\ SendsInv => NoStaleFd
  <2> SUFFICES ASSUME FcopyInv, OwnInv, SendsInv, NEW j \in Slot, At(j, "work")
               PROVE  \E n \in Name : /\ FileOf[n] = fds[job[j].srv][job[j].fd]
                                      /\ TokenOf[n] = job[j].req.tok
    BY DEF NoStaleFd
  <2>1. IsSend(j)
    BY AtJob DEF FcopyInv, ServerInv, At, Shaped, IsSend
  <2>2. PICK c \in Client, i \in Target : SendsAt(c, i, j)
    BY <2>1 DEF SendsInv
  <2> QED BY <2>2, DescriptorNames DEF SendsAt
<1>2. ASSUME Steady PROVE Spec => []NoStaleFd
  BY <1>1, <1>2, ChunksOnRoute, SystemKeepsInv, PTL
<1> QED BY <1>2

\* Who spells a file in two ways has two tokens for it.
SpeltOneWay == \A n, m \in Name : FileOf[n] = FileOf[m] => TokenOf[n] = TokenOf[m]

\* NoMixing: what gets into the file of a client that sends is its own chunks, or a hole.
\* A handler that writes there has the descriptor of an entry for the same file, which
\* is the client's own entry if a file is spelt one way only.
THEOREM ChunksDoNotMix == Steady /\ SpeltOneWay => (Spec => NoMixing)
<1> DEFINE A == \A c \in Client, i \in Target : main[c].ph = "send" =>
                  LET p == FileOf[File(c).name]
                      old == disk[Dest[c][i]][p].data
                      new == disk'[Dest[c][i]][p].data
                  IN \A o \in Offset : new[o] \in {old[o], Hole, <<c, main[c].file>>}
<1>1. ASSUME SpeltOneWay, FcopyInv, NamedTokens, OwnInv, SendsInv, [Next]_vars PROVE A
  <2> SUFFICES ASSUME NEW c \in Client, NEW i \in Target, main[c].ph = "send",
                      NEW o \in Offset
               PROVE  disk'[Dest[c][i]][FileOf[File(c).name]].data[o]
                        \in {disk[Dest[c][i]][FileOf[File(c).name]].data[o], Hole,
                             <<c, main[c].file>>}
    OBVIOUS
  <2>1. File(c).name \in Name
    BY <1>1, FileTypes DEF FcopyInv, SenderInv
  <2>2. PICK s \in Server, p \in Path : s = Dest[c][i] /\ p = FileOf[File(c).name]
    BY <2>1, FcopyAssumption, ServerAssumption
  <2>3. ASSUME NEW j \in Slot, At(j, "work"), job[j].srv = s, fds[s][job[j].fd] = p
        PROVE  job[j].req.src \in {Hole, <<c, main[c].file>>}
    <3>1. IsSend(j)
      BY <1>1, <2>3, AtJob DEF FcopyInv, ServerInv, At, Shaped, IsSend
    <3>2. PICK d \in Client, k \in Target : SendsAt(d, k, j)
      BY <1>1, <3>1 DEF SendsInv
    <3>3. PICK n \in Name : FileOf[n] = p /\ TokenOf[n] = tokens[d][k]
      BY <1>1, <2>3, <3>2, DescriptorNames
    <3>4. ClientHolds(c, i) /\ ClientHolds(d, k)
      BY <1>1, <3>2, AllHeld DEF SendsAt
    <3>5. tokens[c][i] = TokenOf[File(c).name]
      BY <1>1, <3>4 DEF NamedTokens, ClientHolds
    <3>6. tokens[d][k] = tokens[c][i]
      BY <1>1, <2>1, <2>2, <3>3, <3>5 DEF SpeltOneWay
    <3>7. Dest[d][k] = Dest[c][i]
      BY <2>2, <2>3, <3>2 DEF SendsAt
    <3>8. d = c
      BY <1>1, <3>4, <3>6, <3>7, OneHolder
    <3> QED BY <3>2, <3>8 DEF SendsAt
  <2>4. Rewritten(s, p, o)
    BY <1>1, DisksMove
  <2> QED BY <2>2, <2>3, <2>4 DEF Rewritten
<1>2. ASSUME SpeltOneWay
      PROVE  FcopyInv /\ NamedTokens /\ OwnInv /\ SendsInv /\ [Next]_vars => [A]_vars
  BY <1>1, <1>2
<1>3. FcopyInv /\ NamedTokens /\ [Next]_vars => NamedTokens'
  BY NamedNext
<1>4. Init => NamedTokens
  BY OwnInit
<1>5. NoMixing <=> [][A]_vars
  BY DEF NoMixing
<1> HIDE DEF A
<1>6. ASSUME Steady, SpeltOneWay PROVE Spec => NoMixing
  BY <1>2, <1>3, <1>4, <1>5, <1>6, ChunksOnRoute, SystemKeepsInv, PTL DEF Spec
<1> QED BY <1>6

-----------------------------------------------------------------------------
(* How far a chunk may go, whatever breaks.  That a chunk never runs out   *)
(* of hops needs neither owners nor unbroken connections, but it does need *)
(* that the clients list the servers in one order: else the chain of one   *)
(* client, found by another one's token after a restart, may lead back.    *)

\* A server has the same place in the list of every client that uploads to it.
SamePlace == \A c, d \in Client, i, k \in Target : Dest[c][i] = Dest[d][k] => i = k

\* From server s on, the targets in to have later places.
Below(s, to) ==
  \A c \in Client, i \in Target : s = Dest[c][i] =>
    \A k \in DOMAIN to : \E d \in Client, m \in Target : m > i /\ to[k].srv = Dest[d][m]

\* A request for a chain leads to later places, and one for a chunk may go on to the last.
Reaches(s, r) ==
  /\ r.op = "chain" => Below(s, r.targets)
  /\ r.op = "send" => \E c \in Client, i \in Target : s = Dest[c][i] /\ r.budget >= N - i

EntriesBelow ==
  \A s \in Server, t \in Token : fmap[s][t] # NoEntry => Below(s, fmap[s][t].to)

JobsReach ==
  \A j \in Slot : /\ ~At(j, "free") => Reaches(job[j].srv, job[j].req)
                  /\ At(j, "work") => Below(job[j].srv, job[j].to)

\* So no handler refuses to forward, and none is told that another one has.
Spared(j) ==
  /\ At(j, "reply") => job[j].err # "ECANCELED"
  /\ At(j, "getfd") \/ At(j, "work") => job[j].wr # "ECANCELED"
  /\ At(j, "work") => \A k \in DOMAIN job[j].fwd : job[j].fwd[k] # "ECANCELED"

Uncancelled == \A j \in Slot : Spared(j)

\* A handler that will find targets to forward to has hops left.
HasHops(j) ==
  LET e == fmap[job[j].srv][job[j].req.tok]
  IN At(j, "getfd") /\ e # NoEntry /\ e.to # <<>> => ~(job[j].req.budget <= 1)

PlacesInv ==
  /\ EntriesBelow /\ JobsReach
  /\ \A l \in lost : Reaches(l.srv, l.req)
  /\ Uncancelled

\* A step enters no other targets than those of a chain.
LEMMA BelowNext ==
  ASSUME FcopyInv, EntriesBelow, JobsReach, [Next]_vars
  PROVE  EntriesBelow'
<1>i. TypeInv /\ ServerInv
  BY DEF FcopyInv, ServerInv
<1> SUFFICES ASSUME NEW s \in Server, NEW t \in Token, fmap'[s][t] # NoEntry
             PROVE  Below(s, fmap'[s][t].to)
  BY DEF EntriesBelow
<1>1. CASE fmap'[s][t] = fmap[s][t]
  BY <1>1 DEF EntriesBelow
<1>2. ASSUME NEW j \in Slot, CreateInsert(j), fmap'[s][t] # fmap[s][t]
      PROVE  Below(s, fmap'[s][t].to)
  <2> DEFINE x == job[j].srv
             y == TokenOf[job[j].req.name]
             r == [fd |-> job[j].fd, size |-> job[j].req.size, to |-> <<>>]
  <2>1. fmap' = [fmap EXCEPT ![x][y] = r]
    BY <1>2, Zenon DEF CreateInsert
  <2>2. r.to = <<>>
    OBVIOUS
  <2>3. fmap'[s][t] = r
    <3> HIDE DEF x, y, r
    <3> QED BY <1>i, <1>2, <2>1 DEF TypeInv
  <2> QED BY <2>2, <2>3 DEF Below
<1>3. ASSUME NEW j \in Slot, SetChain(j), fmap'[s][t] # fmap[s][t]
      PROVE  Below(s, fmap'[s][t].to)
  <2> DEFINE x == job[j].srv
             y == job[j].req.tok
             r == [fmap[x][y] EXCEPT !.to = job[j].req.targets]
  <2>1. At(j, "chain") /\ fmap[x][y] # NoEntry /\ fmap' = [fmap EXCEPT ![x][y] = r]
    BY <1>3 DEF SetChain
  <2>2. x \in Server /\ job[j].req \in Request /\ job[j].req.op = "chain"
    BY <1>i, <2>1, AtJob DEF At, Shaped
  <2>3. fmap[x][y] \in Entry
    <3>1. y \in Token
      BY <2>2, RequestFields
    <3> QED BY <1>i, <2>1, <2>2, <3>1 DEF TypeInv
  <2>4. r.to = job[j].req.targets
    BY <2>3, Zenon DEF Entry
  <2>5. fmap'[s][t] = r /\ s = x
    <3> HIDE DEF x, y, r
    <3> QED BY <1>i, <1>3, <2>1 DEF TypeInv
  <2>6. Below(x, job[j].req.targets)
    BY <2>1, <2>2 DEF JobsReach, Reaches, At
  <2> QED BY <2>4, <2>5, <2>6
<1>4. ASSUME NEW j \in Slot, CloseErase(j), fmap'[s][t] # fmap[s][t]
      PROVE  FALSE
  <2> DEFINE x == job[j].srv
             y == job[j].req.tok
  <2>1. fmap' = [fmap EXCEPT ![x][y] = NoEntry]
    BY <1>4, Zenon DEF CloseErase
  <2> HIDE DEF x, y
  <2> QED BY <1>i, <1>4, <2>1 DEF TypeInv
<1>5. ASSUME NEW x \in Server, Crash(x), fmap'[s][t] # fmap[s][t]
      PROVE  FALSE
  <2>1. fmap' = [fmap EXCEPT ![x] = [u \in Token |-> NoEntry]]
    BY <1>5 DEF Crash, Restart
  <2> QED BY <1>i, <1>5, <2>1 DEF TypeInv
<1> QED BY <1>1, <1>2, <1>3, <1>4, <1>5, TablesMove

\* The requests of a client lead on to later places.
LEMMA AsksReach ==
  ASSUME N < 65536, SamePlace, FcopyInv, PlacesInv, NEW who, NEW s \in Server,
         NEW r \in Request, Asks(who, s, r)
  PROVE  Reaches(s, r)
<1>i. SenderInv /\ CallInv /\ ServerInv /\ TypeInv
  BY DEF FcopyInv, ServerInv
<1>n. N \in Nat \ {0}
  BY SenderAssumption
<1>1. ASSUME NEW c \in Client, Call(c), s = Dest[c][main[c].i], r = MainReq(c)
      PROVE  Reaches(s, r)
  <2>1. main[c].at = "go" /\ Calls(c)
    BY <1>1 DEF Call
  <2>2. main[c].i \in Target
    BY <1>i, <2>1, MainReqType DEF FcopyInv
  <2>3. PICK i \in Target : i = main[c].i
    BY <2>2
  <2>4. CASE main[c].ph = "chain"
    <3>1. r.op = "chain" /\ r.targets = ChainTargets(c, i)
      BY <1>1, <2>3, <2>4 DEF MainReq, SetChainReq
    <3>2. Inward(c, i, ChainTargets(c, i))
      BY <2>3, TargetsInward DEF Target
    <3>3. ASSUME NEW d \in Client, NEW k \in Target, s = Dest[d][k] PROVE k = i
      <4>1. Dest[c][i] = Dest[d][k]
        BY <1>1, <2>3, <3>3
      <4> QED BY <4>1 DEF SamePlace
    <3>4. Below(s, ChainTargets(c, i))
      BY <3>2, <3>3 DEF Below, Inward, ChainTarget
    <3> QED BY <3>1, <3>4 DEF Reaches
  <2>5. CASE main[c].ph # "chain"
    <3>1. r.op \in {"create", "close"}
      BY <1>1, <2>1, <2>5 DEF MainReq, CreateReq, CloseReq, Calls
    <3> QED BY <3>1 DEF Reaches
  <2> QED BY <2>4, <2>5
<1>2. ASSUME NEW c \in Client, NEW w \in Worker, s = Dest[c][0], r \in WorkReqs(c, w)
      PROVE  Reaches(s, r)
  <2>1. r.op = "send" /\ r.budget = ChainLen(N)
    BY <1>2, WorkReqFields
  <2>2. 0 \in Target /\ r.budget >= N - 0
    BY <1>n, <2>1 DEF ChainLen, Target
  <2> QED BY <1>2, <2>1, <2>2 DEF Reaches
<1>3. ASSUME NEW p \in Slot, NEW k \in Nat, Forward(p, k),
             s = job[p].to[k].srv, r = ForwardReq(p, k)
      PROVE  Reaches(s, r)
  <2>1. At(p, "work")
    BY <1>3 DEF Forward, Forwarding
  <2>2. k \in DOMAIN job[p].to
    BY <1>3, ForwardSent
  <2>f. ~At(p, "free")
    BY <2>1 DEF At
  <2>3. job[p].req \in Request /\ job[p].req.op = "send"
    BY <1>i, <2>1, AtJob DEF At, Shaped
  <2>4. PICK c \in Client, i \in Target : job[p].srv = Dest[c][i] /\ job[p].req.budget >= N - i
    BY <2>f, <2>3 DEF PlacesInv, JobsReach, Reaches
  <2>5. PICK d \in Client, m \in Target : m > i /\ s = Dest[d][m]
    BY <1>3, <2>1, <2>2, <2>4 DEF PlacesInv, JobsReach, Below
  <2>6. r.op = "send" /\ r.budget = job[p].req.budget - 1 /\ job[p].req.budget \in Nat
    BY <1>3, <2>3, ForwardFields
  <2>7. r.budget >= N - m
    BY <1>n, <2>4, <2>5, <2>6 DEF Target
  <2> QED BY <2>5, <2>6, <2>7 DEF Reaches
<1>4. CASE \E l \in lost : s = l.srv /\ r = l.req
  BY <1>4 DEF PlacesInv
<1> QED BY <1>1, <1>2, <1>3, <1>4 DEF Asks

\* A handler that has found its entry goes on with the targets of that.
LEMMA Found ==
  ASSUME ServerInv, NEW j \in Slot, SendLookup(j), At(j, "work")'
  PROVE  /\ ~At(j, "free") /\ KeepsAsk(j)
         /\ \E s \in Server, t \in Token :
              /\ s = job[j].srv /\ fmap[s][t] # NoEntry
              /\ job'[j].to = fmap[s][t].to
<1>1. At(j, "getfd")
  BY Zenon DEF SendLookup, At
<1>2. ~At(j, "free") /\ ~At(j, "reply")'
  BY <1>1 DEF At
<1>3. job[j].req \in Request /\ job[j].req.op = "send" /\ job[j].srv \in Server
  BY <1>1, <1>2, AtJob DEF ServerInv, At, Shaped
<1>4. job[j].req.tok \in Token
  BY <1>3, RequestFields
<1>5. /\ fmap[job[j].srv][job[j].req.tok] # NoEntry /\ KeepsAsk(j)
      /\ job'[j].to = fmap[job[j].srv][job[j].req.tok].to
  BY <1>2, LookedUp
<1> QED BY <1>2, <1>3, <1>4, <1>5

\* The targets that a job at work has copied lead to later places.
LEMMA JobsReachNext ==
  ASSUME N < 65536, SamePlace, FcopyInv, PlacesInv, [Next]_vars
  PROVE  JobsReach'
<1>i. TypeInv /\ ServerInv /\ EntriesBelow /\ JobsReach
  BY DEF FcopyInv, ServerInv, PlacesInv
<1> SUFFICES ASSUME NEW j \in Slot
             PROVE  /\ job'[j].pc # "free" => Reaches(job'[j].srv, job'[j].req)
                    /\ job'[j].pc = "work" => Below(job'[j].srv, job'[j].to)
  BY DEF JobsReach, At
<1>1. ASSUME ~At(j, "free"), KeepsAsk(j), job'[j].pc = "work" => At(j, "work") /\ KeepsWork(j)
      PROVE  /\ Reaches(job'[j].srv, job'[j].req)
             /\ job'[j].pc = "work" => Below(job'[j].srv, job'[j].to)
  BY <1>i, <1>1 DEF KeepsAsk, KeepsWork, JobsReach
<1>2. CASE job'[j] = job[j]
  BY <1>i, <1>2 DEF JobsReach, At
<1>3. CASE job'[j] = NoJob
  BY <1>3 DEF NoJob
<1>4. CASE Starts(j)
  <2>1. PICK who \in Who, s \in Server, r \in Request :
          /\ Asks(who, s, r) /\ job'[j].pc = FirstPc(r)
          /\ job'[j].srv = s /\ job'[j].req = r
    BY <1>4 DEF Starts
  <2>2. Reaches(s, r)
    BY <2>1, AsksReach
  <2>3. FirstPc(r) # "work"
    <3>1. r.op \in {"create", "chain", "send", "close"}
      BY DEF Request
    <3> QED BY <3>1 DEF FirstPc
  <2> QED BY <2>1, <2>2, <2>3
<1>5. CASE Handles(j)
  <2>1. ~At(j, "free") /\ (KeepsAsk(j) \/ job'[j] = NoJob)
    BY <1>i, <1>5, HandledAsk
  <2>2. CASE SendLookup(j) /\ job'[j].pc = "work"
    <3>1. /\ KeepsAsk(j)
          /\ \E s \in Server, t \in Token :
               /\ s = job[j].srv /\ fmap[s][t] # NoEntry
               /\ job'[j].to = fmap[s][t].to
      BY <1>i, <2>2, Found DEF At
    <3>2. Below(job[j].srv, job'[j].to)
      BY <1>i, <3>1 DEF EntriesBelow
    <3>3. Reaches(job[j].srv, job[j].req)
      BY <1>i, <2>1 DEF JobsReach
    <3> QED BY <3>1, <3>2, <3>3 DEF KeepsAsk
  <2>3. CASE ~(SendLookup(j) /\ job'[j].pc = "work")
    <3>1. job'[j].pc = "work" => At(j, "work") /\ KeepsWork(j)
      BY <1>i, <1>5, <2>3, HandledWork DEF At
    <3> QED BY <1>1, <1>3, <2>1, <3>1
  <2> QED BY <2>2, <2>3
<1>6. CASE Forwards(j)
  BY <1>1, <1>6 DEF Forwards, Marks, At
<1>7. CASE Lingers(j)
  <2>1. job[j].req.op = "close" /\ KeepsAsk(j) /\ job'[j].pc = "erase"
    BY <1>7 DEF Lingers, IsLateClose, At
  <2> QED BY <2>1 DEF KeepsAsk, Reaches
<1> QED BY <1>2, <1>3, <1>4, <1>5, <1>6, <1>7, JobsMove DEF Moves, Rests, CutOff, Ends

\* A call that breaks was made by a job.
LEMMA LostNext ==
  ASSUME FcopyInv, [Next]_vars, NEW l \in lost', l \notin lost
  PROVE  \E j \in Slot : ~At(j, "free") /\ l = LostCall(j)
<1>1. ASSUME NEW s \in Server, Crash(s)
      PROVE  \E j \in Slot : ~At(j, "free") /\ l = LostCall(j)
  <2>1. PICK j \in Lost(s) : l = LostCall(j)
    BY <1>1, Zenon DEF Crash
  <2>2. j \in Slot /\ ~At(j, "free")
    BY <2>1 DEF Lost, At
  <2> QED BY <2>1, <2>2
<1>2. ASSUME NEW j \in Slot, Disconnect(j)
      PROVE  ~At(j, "free") /\ l = LostCall(j)
  BY <1>2 DEF Disconnect
<1>3. ASSUME NEW j \in Slot, ServerStep(j) \/ ServerFails(j) PROVE lost' = lost
  BY <1>3 DEF ServerStep, ServerFails, Forward, Reply, netVars
<1>4. ASSUME NEW c \in Client, ClientMain(c) \/ ClientFails(c) PROVE lost' = lost
  BY <1>4 DEF ClientMain, ClientFails, MainCalls, ServersIdle
<1>5. ASSUME NEW c \in Client, NEW w \in Worker, ClientWorker(c, w) PROVE lost' = lost
  BY <1>5 DEF ClientWorker, WorkerCalls, ServersIdle
<1>6. ASSUME RetryStep PROVE lost' \subseteq lost
  BY <1>6 DEF RetryStep, Redial, GiveUpCall
<1>7. CASE UNCHANGED vars
  BY <1>7 DEF vars, netVars
<1> QED BY <1>1, <1>2, <1>3, <1>4, <1>5, <1>6, <1>7 DEF Next


\* Later places need fewer hops.
LEMMA HopsLeft ==
  ASSUME FcopyInv, PlacesInv, NEW j \in Slot
  PROVE  HasHops(j)
<1> SUFFICES ASSUME At(j, "getfd"), fmap[job[j].srv][job[j].req.tok] # NoEntry,
                    fmap[job[j].srv][job[j].req.tok].to # <<>>
             PROVE  ~(job[j].req.budget <= 1)
  BY DEF HasHops
<1>i. TypeInv /\ ServerInv /\ EntriesBelow /\ JobsReach
  BY DEF FcopyInv, ServerInv, PlacesInv
<1>1. ~At(j, "free")
  BY DEF At
<1>2. job[j].req \in Request /\ job[j].req.op = "send" /\ job[j].srv \in Server
  BY <1>i, <1>1, AtJob DEF At, Shaped
<1>3. job[j].req.tok \in Token /\ job[j].req.budget \in Nat
  BY <1>2, RequestFields
<1>4. PICK s \in Server, t \in Token : s = job[j].srv /\ t = job[j].req.tok
  BY <1>2, <1>3
<1>5. PICK c \in Client, i \in Target : s = Dest[c][i] /\ job[j].req.budget >= N - i
  BY <1>i, <1>1, <1>2, <1>4 DEF JobsReach, Reaches
<1>6. fmap[s][t] # NoEntry /\ fmap[s][t].to # <<>>
  BY <1>4
<1>7. fmap[s][t].to \in Seq([srv : Server, tok : Token])
  <2>1. fmap[s][t] \in Entry
    BY <1>i, <1>6 DEF TypeInv
  <2> QED BY <2>1 DEF Entry
<1>8. 1 \in DOMAIN fmap[s][t].to
  BY <1>6, <1>7, LenProperties, EmptySeq
<1>9. PICK d \in Client, m \in Target : m > i
  BY <1>i, <1>5, <1>6, <1>8 DEF EntriesBelow, Below
<1> QED BY <1>3, <1>5, <1>9, SenderAssumption DEF Target

\* No handler refuses to forward, and none reports that another one has.
LEMMA HandledSpared ==
  ASSUME FcopyInv, NEW j \in Slot, Handles(j), Spared(j), HasHops(j)
  PROVE  Spared(j)'
<1>i. ServerInv /\ TypeInv
  BY DEF FcopyInv, ServerInv
<1>f. ~At(j, "free")
  BY <1>i, HandledAsk
<1>1. ASSUME NEW e, Respond(j, e), e # "ECANCELED" PROVE Spared(j)'
  BY <1>i, <1>f, <1>1, Responded DEF Spared, At
<1>2. ASSUME NEW e, EndClose(j, e), e # "ECANCELED" PROVE Spared(j)'
  BY <1>i, <1>f, <1>2, Ended DEF Spared, At, NoJob
<1>3. CASE CreateOpen(j) \/ CreateRejected(j) \/ CreateInsert(j)
  <2>1. CASE CreateOpen(j)
    BY <1>i, <2>1, Opened DEF Spared, At
  <2>2. CASE \E e \in {"EIO", "EEXIST", "ok"} : Respond(j, e)
    BY <1>1, <2>2
  <2> QED BY <1>3, <2>1, <2>2 DEF CreateRejected, CreateInsert
<1>4. CASE SetChain(j) \/ CloseHas(j)
  <2>1. \E e \in {"EIO", "ENOENT", "ok"} : Respond(j, e)
    BY <1>4 DEF SetChain, CloseHas
  <2> QED BY <1>1, <2>1
<1>5. CASE SendLookup(j)
  <2>1. At(j, "getfd")
    BY <1>5, Zenon DEF SendLookup, At
  <2>2. job[j].wr # "ECANCELED"
    BY <2>1 DEF Spared
  <2>3. \/ At(j, "reply")' /\ job'[j].err = "ENOENT"
        \/ /\ At(j, "work")' /\ job'[j].wr = job[j].wr
           /\ \E n : job'[j].fwd = [k \in 1..n |-> "todo"]
    BY <1>i, <1>5, <2>1, LookedUp DEF HasHops
  <2> QED BY <2>2, <2>3 DEF Spared, At
<1>6. CASE SendWrite(j) \/ SendWriteFails(j) \/ SendWriteShort(j)
  BY <1>i, <1>6, Wrote DEF Spared, At
<1>7. CASE SendJoin(j)
  <2>1. At(j, "work") /\ Respond(j, ChainError(job[j].fwd, job[j].wr))
    BY <1>7 DEF SendJoin
  <2>2. \/ ChainError(job[j].fwd, job[j].wr) = job[j].wr
        \/ \E k \in DOMAIN job[j].fwd : ChainError(job[j].fwd, job[j].wr) = job[j].fwd[k]
    BY <1>i, <1>f, AtJob, ChainErrorIsOne
  <2>3. ChainError(job[j].fwd, job[j].wr) # "ECANCELED"
    BY <2>1, <2>2 DEF Spared
  <2> QED BY <1>1, <2>1, <2>3
<1>8. CASE CloseErase(j) \/ CloseTruncate(j) \/ CloseFd(j)
  <2>1. CASE CloseTruncate(j)
    BY <1>i, <2>1, Cut DEF Spared, At
  <2>2. CASE \E e \in {"ENOENT", "ok"} : EndClose(j, e)
    BY <1>2, <2>2
  <2>3. CASE At(j, "trunc")'
    BY <2>3 DEF Spared, At
  <2>4. CloseErase(j) => EndClose(j, "ENOENT") \/ At(j, "trunc")'
    BY <1>i, Erased
  <2>5. CloseFd(j) => EndClose(j, "ok")
    BY DEF CloseFd
  <2> QED BY <1>8, <2>1, <2>2, <2>3, <2>4, <2>5
<1> QED BY <1>3, <1>4, <1>5, <1>6, <1>7, <1>8 DEF Handles, JobStep, JobFails

\* So nothing is refused as long as hops are left.
LEMMA SparedNext ==
  ASSUME FcopyInv, Uncancelled, \A j \in Slot : HasHops(j), [Next]_vars
  PROVE  Uncancelled'
<1> SUFFICES ASSUME NEW j \in Slot PROVE Spared(j)'
  BY DEF Uncancelled
<1>s. Spared(j)
  BY DEF Uncancelled
<1>1. CASE job'[j] = job[j]
  BY <1>s, <1>1 DEF Spared, At
<1>2. CASE job'[j] = NoJob
  BY <1>2 DEF NoJob, Spared, At
<1>3. CASE Starts(j)
  <2>1. PICK s \in Server, r \in Request : job'[j] = NewJob(s, r) /\ job'[j].pc = FirstPc(r)
    BY <1>3 DEF Starts
  <2>2. job'[j].wr = "todo"
    BY <2>1 DEF NewJob
  <2>3. FirstPc(r) \notin {"reply", "work"}
    <3>1. r.op \in {"create", "chain", "send", "close"}
      BY DEF Request
    <3> QED BY <3>1 DEF FirstPc
  <2> QED BY <2>1, <2>2, <2>3 DEF Spared, At
<1>4. CASE Handles(j)
  BY <1>s, <1>4, HandledSpared
<1>5. CASE Forwards(j)
  <2>1. PICK k \in Nat, e \in Err \cup {"call"} :
          /\ Marks(j, k, e)
          /\ e \in {"call", "EIO"} \/ \E i \in Slot : At(i, "reply") /\ e = job[i].err
    BY <1>5 DEF Forwards
  <2>2. e # "ECANCELED"
    BY <2>1 DEF Uncancelled, Spared
  <2>3. /\ At(j, "work") /\ At(j, "work")' /\ job'[j].wr = job[j].wr
        /\ job'[j].fwd = [job[j].fwd EXCEPT ![k] = e]
    BY <2>1 DEF Marks
  <2>4. \A n \in DOMAIN job'[j].fwd : job'[j].fwd[n] # "ECANCELED"
    BY <1>s, <2>2, <2>3 DEF Spared
  <2> QED BY <1>s, <2>3, <2>4 DEF Spared, At
<1>6. CASE Lingers(j)
  BY <1>6 DEF Lingers, Spared, At
<1> QED BY <1>1, <1>2, <1>3, <1>4, <1>5, <1>6, JobsMove DEF Moves, Rests, CutOff, Ends

\* Every step keeps the places.
LEMMA PlacesNext ==
  ASSUME N < 65536, SamePlace, FcopyInv, PlacesInv, [Next]_vars
  PROVE  PlacesInv'
<1>i. JobsReach /\ Uncancelled
  BY DEF PlacesInv
<1>1. EntriesBelow' /\ JobsReach'
  BY BelowNext, JobsReachNext DEF PlacesInv
<1>2. ASSUME NEW l \in lost' PROVE Reaches(l.srv, l.req)
  <2>1. CASE l \in lost
    BY <2>1 DEF PlacesInv
  <2>2. CASE l \notin lost
    <3>1. PICK j \in Slot : ~At(j, "free") /\ l = LostCall(j)
      BY <2>2, LostNext
    <3>2. l.srv = job[j].srv /\ l.req = job[j].req
      BY <3>1 DEF LostCall
    <3> QED BY <1>i, <3>1, <3>2 DEF JobsReach
  <2> QED BY <2>1, <2>2
<1>3. Uncancelled'
  BY <1>i, HopsLeft, SparedNext
<1> QED BY <1>1, <1>2, <1>3 DEF PlacesInv

\* In the beginning nothing is under way.
LEMMA PlacesInit == Init => PlacesInv
<1> SUFFICES ASSUME Init PROVE PlacesInv
  OBVIOUS
<1>1. \A j \in Slot : job[j].pc = "free"
  BY DEF Init, ServerInit, NoJob
<1>2. lost = {} /\ \A s \in Server, t \in Token : fmap[s][t] = NoEntry
  BY DEF Init, ServerInit
<1> QED BY <1>1, <1>2 DEF PlacesInv, EntriesBelow, JobsReach, Uncancelled, Spared, At

\* NeverCancelled: whatever breaks, max_chain_len, the number of targets, is enough for
\* the longest way that a chunk can take, provided that it fits its 16 bits and that
\* the clients list the servers in one order.
THEOREM NeverOutOfHops == N < 65536 /\ SamePlace => (Spec => []NeverCancelled)
<1>1. ASSUME N < 65536, SamePlace PROVE FcopyInv /\ PlacesInv /\ [Next]_vars => PlacesInv'
  BY <1>1, PlacesNext
<1>2. PlacesInv => NeverCancelled
  BY DEF PlacesInv, Uncancelled, Spared, NeverCancelled
<1>3. ASSUME N < 65536, SamePlace PROVE Spec => []NeverCancelled
  BY <1>1, <1>2, <1>3, PlacesInit, SystemKeepsInv, PTL DEF Spec
<1> QED BY <1>3

\* From an entry with targets the chain leads to a later one.
LEMMA LaterOnes ==
  ASSUME FcopyInv, OwnInv, RouteInv, NEW c \in Client, NEW i \in Target,
         main[c].ph = "send", EntryOf(c, i).to # <<>>
  PROVE  \E m \in Target : m > i
<1>1. ClientHolds(c, i)
  BY AllHeld
<1>2. PICK e \in Entry : e = EntryOf(c, i)
  BY <1>1, HeldEntry
<1>3. e.to \in Seq([srv : Server, tok : Token]) /\ e.to # <<>>
  BY <1>2 DEF Entry
<1>4. 1 \in DOMAIN e.to
  BY <1>3, LenProperties, EmptySeq
<1>5. Inward(c, i, e.to)
  BY <1>1, <1>2 DEF RouteInv
<1> QED BY <1>4, <1>5 DEF Inward

\* While no connection breaks a chunk follows the chain of its own client.
LEMMA HopsOnRoute ==
  ASSUME N < 65536, FcopyInv, OwnInv, RouteInv, SendsInv, NEW j \in Slot
  PROVE  HasHops(j)
<1>1. ASSUME At(j, "getfd") PROVE IsSend(j) /\ job[j].req \in Request
  BY <1>1, AtJob DEF FcopyInv, ServerInv, At, Shaped, IsSend
<1>2. ASSUME NEW c \in Client, NEW i \in Target, SendsAt(c, i, j), EntryOf(c, i).to # <<>>,
             job[j].req.budget \in Nat
      PROVE  ~(job[j].req.budget <= 1)
  <2>1. job[j].req.budget >= N - i /\ main[c].ph = "send"
    BY <1>2 DEF SendsAt
  <2>2. PICK m \in Target : m > i
    BY <1>2, <2>1, LaterOnes
  <2> QED BY <1>2, <2>1, <2>2, SenderAssumption DEF Target
<1>3. ASSUME At(j, "getfd"), fmap[job[j].srv][job[j].req.tok].to # <<>>
      PROVE  ~(job[j].req.budget <= 1)
  <2>1. job[j].req.budget \in Nat
    BY <1>1, <1>3, RequestFields DEF IsSend
  <2>2. PICK c \in Client, i \in Target : SendsAt(c, i, j)
    BY <1>1, <1>3 DEF SendsInv
  <2>3. EntryOf(c, i) = fmap[job[j].srv][job[j].req.tok]
    BY <2>2 DEF SendsAt, EntryOf
  <2> QED BY <1>2, <1>3, <2>1, <2>2, <2>3
<1> QED BY <1>3 DEF HasHops

\* The same in whatever order the clients list the servers, while no connection breaks
\* under a chain, a send or a close.
THEOREM NeverOutOfHopsSteady == N < 65536 /\ Steady => (Spec => []NeverCancelled)
<1>1. ASSUME N < 65536
      PROVE  FcopyInv /\ OwnInv /\ RouteInv /\ SendsInv /\ Uncancelled /\ [Next]_vars
               => Uncancelled'
  BY <1>1, HopsOnRoute, SparedNext
<1>2. Init => Uncancelled
  BY PlacesInit DEF PlacesInv
<1>3. Uncancelled => NeverCancelled
  BY DEF Uncancelled, Spared, NeverCancelled
<1>4. ASSUME N < 65536, Steady PROVE Spec => []NeverCancelled
  BY <1>1, <1>2, <1>3, <1>4, ChunksOnRoute, SystemKeepsInv, PTL DEF Spec
<1> QED BY <1>4

-----------------------------------------------------------------------------
(* Every entry is closed.  An entry is in somebody's care: of a client     *)
(* that has its token and is not past closing it, or of a handler that is  *)
(* about to report the entry or to erase it.  That needs no single owner:  *)
(* two may care for one entry.                                             *)

\* Client c will ask target i to close, unless it is asked to do so already.
WillClose(c, i) ==
  /\ tokens[c][i] # NoToken
  /\ \/ main[c].ph \in {"open", "chain", "send"}
     \/ main[c].ph = "close" /\ (main[c].i < i \/ (main[c].i = i /\ main[c].at = "go"))

InCare(s, t) ==
  \/ \E c \in Client, i \in Target : WillClose(c, i) /\ s = Dest[c][i] /\ t = tokens[c][i]
  \/ \E j \in Slot : HoldsEntry(j) /\ s = job[j].srv /\ t = JobTok(j)

CareInv ==
  /\ \A j \in Slot : At(j, "has") => IsLateClose(j)
  /\ \A j \in Slot : ~At(j, "free") /\ job[j].req.op = "create" => Called(j)
  /\ \A s \in Server, t \in Token : fmap[s][t] # NoEntry => InCare(s, t)

\* The caller of a create is a client that opens.
LEMMA CreateCaller ==
  ASSUME FcopyInv, NEW j \in Slot, ~At(j, "free"), job[j].req.op = "create", Called(j)
  PROVE  \E c \in Client : caller[j].who = <<"main", c>> /\ main[c].ph = "open"
<1>i. TypeInv /\ CallInv /\ SenderInv
  BY DEF FcopyInv, ServerInv
<1>1. PICK who \in Who : who = caller[j].who /\ who # <<"none">>
                         /\ Awaits(who, job[j].srv, job[j].req)
  BY <1>i, CallerWaits
<1>2. CASE who[1] = "main"
  <2>1. PICK c \in Client : who = <<"main", c>>
    BY <1>2, WhoForms
  <2>2. main[c].at = "await" /\ job[j].req = MainReq(c)
    BY <1>1, <2>1 DEF Awaits
  <2>3. main[c].ph \in {"open", "chain", "close"}
    BY <1>i, <2>2 DEF SenderInv, ClientInv, PlaceInv
  <2>4. main[c].ph = "open"
    BY <2>2, <2>3 DEF MainReq, SetChainReq, CloseReq
  <2> QED BY <1>1, <2>1, <2>4
<1>3. CASE who[1] = "work"
  <2>1. PICK c \in Client, w \in Worker : who = <<"work", c, w>>
    BY <1>3, WhoForms
  <2>2. job[j].req \in WorkReqs(c, w)
    BY <1>1, <2>1 DEF Awaits
  <2> QED BY <2>2, WorkReqFields
<1>4. CASE who[1] = "fwd"
  <2>1. PICK i \in Slot, k \in Nat : who = <<"fwd", i, k>>
    BY <1>4, WhoForms
  <2>2. At(i, "work") /\ job[j].req = ForwardReq(i, k)
    BY <1>1, <2>1 DEF Awaits
  <2>3. job[i].req \in Request /\ job[i].req.op = "send"
    BY <1>i, <2>2, AtJob DEF At, Shaped
  <2>4. ForwardReq(i, k).op = "send"
    BY <2>3, ForwardFields
  <2> QED BY <2>2, <2>4
<1> QED BY <1>1, <1>2, <1>3, <1>4, WhoForms

\* A handler that stands at one of these places goes on from there.
LEMMA HolderHandles ==
  ASSUME ServerInv, NEW j \in Slot, HoldsEntry(j), Handles(j),
         At(j, "has") => IsLateClose(j)
  PROVE  \/ HoldsEntry(j)' /\ KeepsAsk(j)
         \/ fmap'[job[j].srv][JobTok(j)] = NoEntry
<1>i. TypeInv
  BY DEF ServerInv
<1>1. At(j, "has") \/ At(j, "erase")
  <2>1. ~At(j, "reply")
    BY Zenon
       DEF Handles, JobStep, JobFails, At, CreateOpen, CreateInsert, SetChain, SendLookup,
           SendWrite, SendJoin, CloseHas, CloseErase, CloseTruncate, CloseFd,
           CreateRejected, SendWriteFails, SendWriteShort
  <2> QED BY <2>1 DEF HoldsEntry
<1>2. ~At(j, "free") /\ job[j].req.op = "close" /\ job[j].req \in Request /\ job[j].srv \in Server
  BY <1>i, <1>1, AtJob DEF At, Shaped
<1>3. CASE At(j, "has")
  <2>1. CloseHas(j)
    BY <1>3, Zenon
       DEF Handles, JobStep, JobFails, At, CreateOpen, CreateInsert, SetChain, SendLookup,
           SendWrite, SendJoin, CloseErase, CloseTruncate, CloseFd,
           CreateRejected, SendWriteFails, SendWriteShort
  <2>2. At(j, "reply")' /\ KeepsAsk(j)
    BY <1>2, <2>1, Responded DEF CloseHas
  <2> QED BY <1>3, <2>2 DEF HoldsEntry, IsLateClose, KeepsAsk
<1>4. CASE At(j, "erase")
  <2>1. CloseErase(j)
    BY <1>4, Zenon
       DEF Handles, JobStep, JobFails, At, CreateOpen, CreateInsert, SetChain, SendLookup,
           SendWrite, SendJoin, CloseHas, CloseTruncate, CloseFd,
           CreateRejected, SendWriteFails, SendWriteShort
  <2> DEFINE s == job[j].srv
             t == job[j].req.tok
  <2>2. \/ fmap[s][t] = NoEntry /\ fmap' = fmap
        \/ fmap' = [fmap EXCEPT ![s][t] = NoEntry]
    BY <2>1, Zenon DEF CloseErase
  <2>3. s \in Server /\ t \in Token
    BY <1>2, RequestFields
  <2>4. fmap'[s][t] = NoEntry
    <3> HIDE DEF s, t
    <3> QED BY <1>i, <2>2, <2>3 DEF TypeInv
  <2> QED BY <1>2, <2>4 DEF JobTok
<1> QED BY <1>1, <1>3, <1>4

\* The care of a handler ends when the entry is gone, or its client knows of it.
LEMMA HolderStays ==
  ASSUME Unbroken({"create", "close"}), FcopyInv, CareInv, [Next]_vars,
         NEW j \in Slot, HoldsEntry(j)
  PROVE  \/ HoldsEntry(j)' /\ KeepsAsk(j)
         \/ fmap'[job[j].srv][JobTok(j)] = NoEntry
         \/ /\ Reply(j) /\ job[j].req.op = "create" /\ job[j].err = "ok"
            /\ \E c \in Client : caller[j].who = <<"main", c>> /\ main[c].ph = "open"
<1>i. TypeInv /\ ServerInv /\ CallInv
  BY DEF FcopyInv, ServerInv
<1>1. /\ ~At(j, "free") /\ ~At(j, "work")
      /\ job[j].srv \in Server /\ job[j].req \in Request
      /\ job[j].req.op \in {"create", "close"}
  BY <1>i, AtJob DEF HoldsEntry, At, Shaped, IsLateClose
<1>2. JobTok(j) \in Token
  BY <1>1, RequestFields, ServerAssumption DEF JobTok
<1>3. job[j].req.op = "create" =>
        \E c \in Client : caller[j].who = <<"main", c>> /\ main[c].ph = "open"
  BY <1>1, CreateCaller DEF CareInv
<1>4. job[j].req.op \notin FaultKinds
  BY <1>1 DEF Unbroken
<1>5. CASE Rests(j)
  BY <1>5 DEF Rests, HoldsEntry, KeepsAsk, At, Called, IsLateClose
<1>6. CASE CutOff(j)
  <2>1. job[j].req.op # "create"
    <3> SUFFICES ASSUME job[j].req.op = "create" PROVE FALSE
      OBVIOUS
    <3>1. PICK c \in Client : caller[j].who = <<"main", c>>
      BY <1>3
    <3> QED BY <1>4, <1>6, <3>1 DEF CutOff
  <2> QED BY <1>6, <2>1 DEF CutOff, HoldsEntry, KeepsAsk, At, IsLateClose
<1>7. CASE Ends(j)
  <2>1. CASE Reply(j) /\ ~IsLateClose(j)
    <3>1. At(j, "reply")
      BY <2>1 DEF Reply
    <3>2. job[j].req.op = "create" /\ job[j].err = "ok"
      BY <2>1, <3>1 DEF HoldsEntry, At
    <3> QED BY <1>3, <2>1, <3>2
  <2>2. CASE \E s \in Server : Crash(s) /\ s = job[j].srv
    <3>1. PICK s \in Server : Crash(s) /\ s = job[j].srv
      BY <2>2
    <3>2. fmap' = [fmap EXCEPT ![s] = [t \in Token |-> NoEntry]]
      BY <3>1 DEF Crash, Restart
    <3>3. fmap'[s] = [t \in Token |-> NoEntry]
      BY <1>i, <3>2 DEF TypeInv
    <3> QED BY <1>2, <3>1, <3>3
  <2> QED BY <1>4, <1>7, <2>1, <2>2 DEF Ends
<1>8. CASE Handles(j)
  BY <1>i, <1>8, HolderHandles DEF CareInv
<1>9. ~Starts(j) /\ ~Forwards(j)
  BY <1>1 DEF Starts, Forwards, Marks
<1>10. CASE Lingers(j)
  BY <1>10 DEF Lingers, HoldsEntry
<1> QED BY <1>5, <1>6, <1>7, <1>8, <1>9, <1>10, JobsMove DEF Moves

\* The client that hears of its entry takes care of it.
LEMMA CareReceived ==
  ASSUME FcopyInv, NEW j \in Slot, Reply(j), job[j].req.op = "create", job[j].err = "ok",
         NEW c \in Client, caller[j].who = <<"main", c>>, main[c].ph = "open"
  PROVE  \E i \in Target : /\ WillClose(c, i)' /\ Dest[c][i] = job[j].srv
                           /\ tokens'[c][i] = JobTok(j)
<1>i. SenderInv /\ CallInv
  BY DEF FcopyInv
<1>t. main \in [Client -> MainState]
  BY <1>i DEF SenderInv, SenderTypeOK
<1>1. job[j].srv = Dest[c][main[c].i] /\ Answer(j) = JobTok(j) /\ Answer(j) \in Token
  BY CreateAnswers DEF Answer, JobTok
<1>2. PICK who : who = caller[j].who
  OBVIOUS
<1>3. PICK t \in Token : t = Answer(j)
  BY <1>1
<1>4. Resume(who, "ok", t) /\ who[1] = "main" /\ who[2] = c
  BY <1>2, <1>3 DEF Reply
<1>5. OpenReturns(c, "ok", t)
  BY <1>4 DEF Resume, ChainReturns, CloseReturns, Waits
<1>6. PICK i : i = main[c].i
  OBVIOUS
<1>7. i \in Target /\ tokens'[c][i] = t
  BY <1>i, <1>5, <1>6, OpenGives
<1>8. main'[c].ph \in {"open", "chain"}
  BY <1>t, <1>5, SMT DEF OpenReturns, MainState
<1>9. t # NoToken
  BY SenderAssumption
<1> QED BY <1>1, <1>3, <1>6, <1>7, <1>8, <1>9 DEF WillClose

\* Of the places of a client that waits for a call, all but that of the close are still
\* to be closed when the call returns.
LEMMA CareReturned ==
  ASSUME SenderInv, NamedTokens, NEW c \in Client, NEW e, NEW t,
         e = "ok" /\ OpenReturns(c, e, t) => t = TokenOf[File(c).name],
         OpenReturns(c, e, t) \/ ChainReturns(c, e) \/ CloseReturns(c, e),
         NEW i \in Target, WillClose(c, i)
  PROVE  WillClose(c, i)' /\ tokens'[c][i] = tokens[c][i]
<1>t. /\ main \in [Client -> MainState] /\ main[c].i \in Nat /\ N \in Nat
      /\ tokens \in [Client -> [Target -> Token \cup {NoToken}]]
  BY SenderAssumption, SMT DEF SenderInv, SenderTypeOK, MainState
<1>i. i \in Nat /\ i < N
  BY <1>t DEF Target
<1>1. CASE OpenReturns(c, e, t) /\ e = "ok"
  <2>1. main'[c].ph \in {"open", "chain"}
    BY <1>t, <1>1, SMT DEF OpenReturns, MainState
  <2>2. PICK k : k = main[c].i
    OBVIOUS
  <2>3. k \in Target
    <3>1. k < N
      BY <1>1, <2>2 DEF SenderInv, ClientInv, PlaceInv, OpenReturns, Waits
    <3> QED BY <1>t, <2>2, <3>1 DEF Target
  <2>4. tokens' = [tokens EXCEPT ![c][k] = t]
    BY <1>1, <2>2 DEF OpenReturns
  <2>5. tokens'[c][i] = IF i = k THEN t ELSE tokens[c][i]
    BY <1>t, <2>3, <2>4
  <2>6. tokens[c][i] # NoToken /\ tokens[c][i] = TokenOf[File(c).name]
    BY DEF WillClose, NamedTokens
  <2> QED BY <1>1, <2>1, <2>5, <2>6 DEF WillClose
<1>2. CASE GiveUp(c, e) /\ tokens' = tokens
  <2>1. main'[c].ph = "close" /\ main'[c].i = 0 /\ main'[c].at = "go"
    BY <1>t, <1>2, SMT DEF GiveUp, MainState
  <2> QED BY <1>i, <1>2, <2>1 DEF WillClose
<1>3. CASE ChainReturns(c, e) /\ e = "ok"
  <2>1. main'[c].ph = "chain" /\ tokens' = tokens
    BY <1>t, <1>3, SMT DEF ChainReturns, Waits, MainState
  <2> QED BY <2>1 DEF WillClose
<1>4. CASE CloseReturns(c, e)
  <2>1. /\ main[c].ph = "close" /\ main[c].at = "await"
        /\ main'[c].ph = "close" /\ main'[c].i = main[c].i + 1 /\ main'[c].at = "go"
    BY <1>t, <1>4, SMT DEF CloseReturns, Waits, MainState
  <2>2. PICK k : k = main[c].i
    OBVIOUS
  <2>3. k < i
    BY <2>1, <2>2 DEF WillClose
  <2>4. tokens' = [tokens EXCEPT ![c][k] = NoToken] \/ tokens' = tokens
    BY <1>4, <2>2 DEF CloseReturns
  <2>5. tokens'[c][i] = tokens[c][i]
    <3>1. i # k
      BY <1>t, <1>i, <2>2, <2>3
    <3> QED BY <1>t, <2>4, <3>1
  <2>6. main'[c].i < i \/ main'[c].i = i
    BY <1>t, <1>i, <2>1, <2>2, <2>3
  <2> QED BY <2>1, <2>5, <2>6 DEF WillClose
<1> QED BY <1>1, <1>2, <1>3, <1>4 DEF OpenReturns, ChainReturns

\* So they are when it goes on by itself.
LEMMA CareAlone ==
  ASSUME SenderInv, NEW c \in Client, MainInternal(c) \/ LocalOpenFails(c),
         NEW i \in Target, WillClose(c, i)
  PROVE  WillClose(c, i)' /\ tokens'[c][i] = tokens[c][i]
<1>t. main \in [Client -> MainState] /\ main[c].i \in Nat /\ N \in Nat /\ i \in Nat /\ i < N
  BY SenderAssumption, SMT DEF SenderInv, SenderTypeOK, MainState, Target
<1>1. CASE StartSend(c)
  <2>1. main'[c].ph = "send" /\ tokens' = tokens
    BY <1>t, <1>1, SMT DEF StartSend, MainState
  <2> QED BY <2>1 DEF WillClose
<1>2. CASE JoinSend(c)
  <2>1. /\ main'[c].ph = "close" /\ main'[c].i = 0 /\ main'[c].at = main[c].at
        /\ main[c].ph = "send" /\ tokens' = tokens
    BY <1>t, <1>2, SMT DEF JoinSend, MainState
  <2>2. main[c].at = "go"
    <3>1. main[c].at \in {"go", "await"}
      BY <1>t DEF MainState
    <3> QED BY <2>1, <3>1 DEF SenderInv, ClientInv, PlaceInv
  <2> QED BY <1>t, <2>1, <2>2 DEF WillClose
<1>3. CASE LocalOpenFails(c)
  <2>1. main'[c].ph = "close" /\ main'[c].i = 0 /\ main'[c].at = "go" /\ tokens' = tokens
    BY <1>t, <1>3, SMT DEF LocalOpenFails, GiveUp, MainState
  <2> QED BY <1>t, <2>1 DEF WillClose
<1>4. CASE CloseSkips(c)
  <2>1. /\ main[c].ph = "close" /\ tokens[c][main[c].i] = NoToken /\ tokens' = tokens
        /\ main'[c].ph = "close" /\ main'[c].i = main[c].i + 1 /\ main'[c].at = "go"
    BY <1>t, <1>4, SMT DEF CloseSkips, MainState
  <2>2. main[c].i < i
    BY <2>1 DEF WillClose
  <2>3. main'[c].i < i \/ main'[c].i = i
    BY <1>t, <2>1, <2>2
  <2> QED BY <2>1, <2>3 DEF WillClose
<1>5. ~Finish(c) /\ ~NextFile(c)
  BY <1>t DEF Finish, NextFile, WillClose
<1> QED BY <1>1, <1>2, <1>3, <1>4, <1>5 DEF MainInternal

\* With the request to close, the care goes over to its handler.
LEMMA CareSent ==
  ASSUME FcopyInv, NEW c \in Client, MainCalls(c), NEW i \in Target, WillClose(c, i)
  PROVE  \/ WillClose(c, i)' /\ tokens'[c][i] = tokens[c][i]
         \/ \E j \in Slot : /\ HoldsEntry(j)' /\ job'[j].srv = Dest[c][i]
                            /\ JobTok(j)' = tokens[c][i]
<1>i. SenderInv /\ CallInv /\ TypeInv /\ TokenInv(c)
  BY DEF FcopyInv, ServerInv
<1>1. /\ Call(c) /\ Send(<<"main", c>>, Dest[c][main[c].i], MainReq(c), 0)
  BY DEF MainCalls
<1>2. /\ main[c].at = "go" /\ main'[c].at = "await" /\ main'[c].ph = main[c].ph
      /\ main'[c].i = main[c].i /\ tokens' = tokens
  BY <1>i, <1>1, CallMade
<1>3. CASE main[c].ph = "close" /\ main[c].i = i
  <2>1. PICK s \in Server : s = Dest[c][i]
    BY FcopyAssumption
  <2>2. PICK r \in Request : r = MainReq(c)
    BY <1>i, <1>1, MainReqType DEF Call
  <2>3. r.op = "close" /\ r.tok = tokens[c][i]
    BY <1>3, <2>2 DEF MainReq, CloseReq
  <2>4. Send(<<"main", c>>, s, r, 0)
    BY <1>1, <1>3, <2>1, <2>2
  <2>5. PICK k \in Slot : job'[k].pc = FirstPc(r) /\ job'[k].srv = s /\ job'[k].req = r
    BY <1>i, <2>4, Sent
  <2>6. job'[k].pc \in {"has", "erase"}
    BY <2>3, <2>5 DEF FirstPc
  <2> QED BY <2>1, <2>3, <2>5, <2>6 DEF HoldsEntry, JobTok, At
<1>4. CASE ~(main[c].ph = "close" /\ main[c].i = i)
  BY <1>2, <1>4 DEF WillClose
<1> QED BY <1>3, <1>4

\* The care of a client goes on, or over to the handler of its close.
LEMMA CareStays ==
  ASSUME FcopyInv, NamedTokens, [Next]_vars, NEW c \in Client, NEW i \in Target, WillClose(c, i)
  PROVE  \/ WillClose(c, i)' /\ tokens'[c][i] = tokens[c][i]
         \/ \E j \in Slot : /\ HoldsEntry(j)' /\ job'[j].srv = Dest[c][i]
                            /\ JobTok(j)' = tokens[c][i]
<1>i. SenderInv /\ CallInv
  BY DEF FcopyInv
<1>t. main \in [Client -> MainState] /\ tokens \in [Client -> [Target -> Token \cup {NoToken}]]
  BY <1>i DEF SenderInv, SenderTypeOK
<1>0. ASSUME main'[c] = main[c], tokens'[c] = tokens[c]
      PROVE  WillClose(c, i)' /\ tokens'[c][i] = tokens[c][i]
  BY <1>0 DEF WillClose
<1>1. ASSUME NEW d \in Client, MainCalls(d)
      PROVE  \/ WillClose(c, i)' /\ tokens'[c][i] = tokens[c][i]
             \/ \E j \in Slot : /\ HoldsEntry(j)' /\ job'[j].srv = Dest[c][i]
                                /\ JobTok(j)' = tokens[c][i]
  <2>1. CASE d = c
    BY <1>1, <2>1, CareSent
  <2>2. CASE d # c
    <3>1. main'[c] = main[c] /\ tokens' = tokens
      BY <1>i, <1>1, <2>2, CallMade DEF MainCalls
    <3> QED BY <1>0, <3>1
  <2> QED BY <2>1, <2>2
<1>2. ASSUME NEW d \in Client, MainInternal(d) \/ LocalOpenFails(d)
      PROVE  WillClose(c, i)' /\ tokens'[c][i] = tokens[c][i]
  <2>1. CASE d = c
    BY <1>i, <1>2, <2>1, CareAlone
  <2>2. CASE d # c
    <3>1. Same(c)
      BY <1>i, <1>2, <2>2, OthersSame DEF SenderInv, MainStep
    <3> QED BY <1>0, <3>1 DEF Same
  <2> QED BY <2>1, <2>2
<1>3. ASSUME NEW who \in Who, NEW e, NEW t, Resume(who, e, t) \/ UNCHANGED senderVars,
             \A d \in Client : who = <<"main", d>> /\ main[d].ph = "open" /\ e = "ok"
                                 => t = TokenOf[File(d).name]
      PROVE  WillClose(c, i)' /\ tokens'[c][i] = tokens[c][i]
  <2>1. CASE who[1] # "main" \/ UNCHANGED senderVars
    <3>1. main' = main /\ tokens' = tokens
      BY <1>3, <2>1 DEF Resume, SendReturns, senderVars
    <3> QED BY <1>0, <3>1
  <2>2. CASE who[1] = "main" /\ Resume(who, e, t)
    <3>1. PICK d \in Client : who = <<"main", d>>
      BY <2>2, WhoForms
    <3>2. OpenReturns(d, e, t) \/ ChainReturns(d, e) \/ CloseReturns(d, e)
      BY <2>2, <3>1 DEF Resume
    <3>3. e = "ok" /\ OpenReturns(d, e, t) => t = TokenOf[File(d).name]
      BY <1>3, <3>1 DEF OpenReturns, Waits
    <3>4. CASE d = c
      BY <1>i, <3>2, <3>3, <3>4, CareReturned
    <3>5. CASE d # c
      <4>1. main'[c] = main[c] /\ tokens'[c] = tokens[c]
        BY <1>t, <3>2, <3>5 DEF OpenReturns, ChainReturns, CloseReturns, GiveUp
      <4> QED BY <1>0, <4>1
    <3> QED BY <3>4, <3>5
  <2> QED BY <1>3, <2>1, <2>2
<1>4. ASSUME NEW j \in Slot, Reply(j) PROVE WillClose(c, i)' /\ tokens'[c][i] = tokens[c][i]
  <2>1. PICK who \in Who : who = caller[j].who
    BY <1>i DEF CallInv, CallerInv
  <2>2. PICK e, t : e = job[j].err /\ t = Answer(j)
    OBVIOUS
  <2>3. UNCHANGED senderVars \/ Resume(who, e, t)
    BY <1>4, <2>1, <2>2 DEF Reply
  <2>4. \A d \in Client : who = <<"main", d>> /\ main[d].ph = "open" /\ e = "ok"
                            => t = TokenOf[File(d).name]
    BY <2>1, <2>2, CreateAnswers
  <2> QED BY <1>3, <2>3, <2>4
<1>5. ASSUME NEW l \in lost, GiveUpCall(l)
      PROVE  WillClose(c, i)' /\ tokens'[c][i] = tokens[c][i]
  <2>1. PICK who \in Who : who = l.who
    BY <1>i DEF CallInv, LostInv
  <2>2. UNCHANGED senderVars \/ Resume(who, "EIO", NoToken)
    BY <1>5, <2>1 DEF GiveUpCall
  <2> QED BY <1>3, <2>2
<1>6. ASSUME NEW d \in Client, NEW w \in Worker, ClientWorker(d, w)
      PROVE  WillClose(c, i)' /\ tokens'[c][i] = tokens[c][i]
  <2>1. main' = main /\ tokens' = tokens
    BY <1>6 DEF ClientWorker, WorkerCalls, WorkerRead, WorkerCheck, WorkerClaim, WorkerFail,
                WorkerAlloc
  <2> QED BY <1>0, <2>1
<1>7. ASSUME NEW j \in Slot, ServerStep(j) \/ ServerFails(j) \/ Disconnect(j)
      PROVE  WillClose(c, i)' /\ tokens'[c][i] = tokens[c][i]
  <2>1. UNCHANGED senderVars \/ Reply(j)
    BY <1>7 DEF ServerStep, ServerFails, Disconnect, Forward
  <2> QED BY <1>0, <1>4, <2>1 DEF senderVars
<1>8. CASE \/ \E l \in lost : Redial(l)
           \/ \E s \in Server : Crash(s)
           \/ UNCHANGED vars
  BY <1>0, <1>8 DEF Redial, Crash, vars, senderVars
<1> QED BY <1>1, <1>2, <1>5, <1>6, <1>7, <1>8
        DEF Next, RetryStep, ClientMain, ClientFails

\* An entry that is made is in the care of the handler that made it.
LEMMA MadeInCare ==
  ASSUME FcopyInv, CareInv, [Next]_vars, NEW s \in Server, NEW t \in Token,
         fmap[s][t] = NoEntry, fmap'[s][t] # NoEntry
  PROVE  InCare(s, t)'
<1>i. TypeInv /\ ServerInv
  BY DEF FcopyInv, ServerInv
<1>1. PICK j \in Slot : /\ CreateInsert(j) \/ SetChain(j) \/ CloseErase(j)
                        /\ UNCHANGED <<senderVars, caller, lost>>
  <2>1. ASSUME NEW r \in Server, Crash(r) PROVE FALSE
    <3>1. fmap' = [fmap EXCEPT ![r] = [u \in Token |-> NoEntry]]
      BY <2>1 DEF Crash, Restart
    <3> QED BY <1>i, <3>1 DEF TypeInv
  <2> QED BY <2>1, TablesMove
<1>2. ~CloseErase(j)
  <2> DEFINE x == job[j].srv
             y == job[j].req.tok
  <2> SUFFICES ASSUME CloseErase(j) PROVE FALSE
    OBVIOUS
  <2>1. fmap' = fmap \/ fmap' = [fmap EXCEPT ![x][y] = NoEntry]
    BY Zenon DEF CloseErase
  <2> HIDE DEF x, y
  <2> QED BY <1>i, <2>1 DEF TypeInv
<1>3. ~SetChain(j)
  <2> DEFINE x == job[j].srv
             y == job[j].req.tok
             r == [fmap[x][y] EXCEPT !.to = job[j].req.targets]
  <2> SUFFICES ASSUME SetChain(j) PROVE FALSE
    OBVIOUS
  <2>1. fmap' = fmap \/ (fmap[x][y] # NoEntry /\ fmap' = [fmap EXCEPT ![x][y] = r])
    BY DEF SetChain
  <2> HIDE DEF x, y, r
  <2>2. ASSUME fmap[x][y] # NoEntry, fmap' = [fmap EXCEPT ![x][y] = r] PROVE FALSE
    <3>1. s = x /\ t = y
      BY <1>i, <2>2 DEF TypeInv
    <3> QED BY <2>2, <3>1
  <2> QED BY <2>1, <2>2
<1>4. CreateInsert(j) /\ At(j, "insert")
  BY <1>1, <1>2, <1>3, Zenon DEF CreateInsert
<1>5. ~At(j, "free") /\ job[j].req.op = "create"
  BY <1>i, <1>4, AtJob DEF At, Shaped
<1> DEFINE x == job[j].srv
           y == TokenOf[job[j].req.name]
           r == [fd |-> job[j].fd, size |-> job[j].req.size, to |-> <<>>]
<1>6. fmap' = [fmap EXCEPT ![x][y] = r] /\ Respond(j, "ok")
  <2>1. fmap' # fmap
    OBVIOUS
  <2> QED BY <1>4, <2>1, Zenon DEF CreateInsert
<1>7. /\ job'[j].pc = "reply" /\ job'[j].err = "ok"
      /\ job'[j].srv = x /\ job'[j].req = job[j].req
  BY <1>i, <1>5, <1>6, Responded DEF At, KeepsAsk
<1>8. JobTok(j)' = y
  BY <1>5, <1>7 DEF JobTok
<1>9. HoldsEntry(j)'
  <2>1. caller'[j].who # <<"none">>
    BY <1>1, <1>5 DEF CareInv, Called
  <2> QED BY <1>5, <1>7, <2>1 DEF HoldsEntry, At, Called
<1>10. x = s /\ y = t
  <2> HIDE DEF x, y, r
  <2> QED BY <1>i, <1>6 DEF TypeInv
<1> QED BY <1>7, <1>8, <1>9, <1>10 DEF InCare

\* Every step leaves each entry in somebody's care.
LEMMA CareNext ==
  ASSUME Unbroken({"create", "close"}), FcopyInv, NamedTokens, CareInv, [Next]_vars
  PROVE  CareInv'
<1>i. TypeInv /\ ServerInv /\ CallInv
  BY DEF FcopyInv, ServerInv
<1>1. ASSUME NEW j \in Slot
      PROVE  /\ job'[j].pc = "has" => job'[j].req.op = "close" /\ ~job'[j].req.wait
             /\ job'[j].pc # "free" /\ job'[j].req.op = "create" => caller'[j].who # <<"none">>
  <2>1. CASE Rests(j)
    BY <2>1 DEF Rests, CareInv, At, Called, IsLateClose
  <2>2. CASE CutOff(j)
    <3>1. ~At(j, "free") /\ job[j].req.op = "create" => FALSE
      <4> SUFFICES ASSUME ~At(j, "free"), job[j].req.op = "create" PROVE FALSE
        OBVIOUS
      <4>1. PICK c \in Client : caller[j].who = <<"main", c>>
        BY CreateCaller DEF CareInv
      <4> QED BY <2>2, <4>1 DEF CutOff, Unbroken
    <3> QED BY <2>2, <3>1 DEF CutOff, CareInv, At, IsLateClose
  <2>3. CASE Ends(j)
    BY <2>3 DEF Ends, NoJob
  <2>4. CASE Starts(j)
    <3>1. PICK who \in Who, s \in Server, r \in Request :
            /\ who # <<"none">> /\ caller'[j].who = who
            /\ job'[j].pc = FirstPc(r) /\ job'[j].req = r
      BY <2>4 DEF Starts
    <3>2. r.op \in {"create", "chain", "send", "close"}
      BY DEF Request
    <3>3. FirstPc(r) = "has" => r.op = "close" /\ ~r.wait
      BY <3>2 DEF FirstPc
    <3> QED BY <3>1, <3>3
  <2>5. CASE Handles(j)
    <3>1. ~At(j, "free") /\ ~At(j, "has")' /\ (KeepsAsk(j) \/ job'[j] = NoJob)
      BY <1>i, <2>5, HandledAsk
    <3>2. job'[j].pc # "free" => job'[j].req = job[j].req
      BY <3>1 DEF KeepsAsk, NoJob
    <3> QED BY <2>5, <3>1, <3>2 DEF Handles, CareInv, At, Called
  <2>6. CASE Forwards(j)
    BY <2>6 DEF Forwards, Marks, KeepsAsk, CareInv, At, Called
  <2>7. CASE Lingers(j)
    BY <2>7 DEF Lingers, IsLateClose, KeepsAsk, At
  <2> QED BY <2>1, <2>2, <2>3, <2>4, <2>5, <2>6, <2>7, JobsMove DEF Moves
<1>2. ASSUME NEW s \in Server, NEW t \in Token, fmap'[s][t] # NoEntry
      PROVE  InCare(s, t)'
  <2>1. CASE fmap[s][t] = NoEntry
    BY <1>2, <2>1, MadeInCare
  <2>2. ASSUME NEW c \in Client, NEW i \in Target,
               WillClose(c, i), s = Dest[c][i], t = tokens[c][i]
        PROVE  InCare(s, t)'
    BY <2>2, CareStays DEF InCare
  <2>3. ASSUME NEW j \in Slot, HoldsEntry(j), s = job[j].srv, t = JobTok(j)
        PROVE  InCare(s, t)'
    <3>1. CASE HoldsEntry(j)' /\ KeepsAsk(j)
      <4>1. JobTok(j)' = t /\ job'[j].srv = s
        BY <2>3, <3>1 DEF JobTok, KeepsAsk
      <4> QED BY <3>1, <4>1 DEF InCare
    <3>2. CASE /\ Reply(j) /\ job[j].req.op = "create" /\ job[j].err = "ok"
               /\ \E c \in Client : caller[j].who = <<"main", c>> /\ main[c].ph = "open"
      <4>1. PICK c \in Client, i \in Target : /\ WillClose(c, i)' /\ Dest[c][i] = job[j].srv
                                              /\ tokens'[c][i] = JobTok(j)
        BY <3>2, CareReceived
      <4> QED BY <2>3, <4>1 DEF InCare
    <3> QED BY <1>2, <2>3, <3>1, <3>2, HolderStays
  <2> QED BY <2>1, <2>2, <2>3 DEF CareInv, InCare
<1> QED BY <1>1, <1>2 DEF CareInv, At, Called, IsLateClose

\* NothingLeftOpen: when all has come to rest no entry is in anybody's care, so there is
\* none, and every descriptor was that of an entry or of a handler.
THEOREM NothingStaysOpen == Unbroken({"create", "close"}) => (Spec => []NothingLeftOpen)
<1>1. Init => NamedTokens /\ CareInv
  <2> SUFFICES ASSUME Init PROVE NamedTokens /\ CareInv
    OBVIOUS
  <2>1. \A c \in Client, i \in Target : tokens[c][i] = NoToken
    BY DEF Init, SenderInit, NoTokens
  <2>2. \A j \in Slot : job[j].pc = "free"
    BY DEF Init, ServerInit, NoJob
  <2>3. \A s \in Server, t \in Token : fmap[s][t] = NoEntry
    BY DEF Init, ServerInit
  <2> QED BY <2>1, <2>2, <2>3 DEF NamedTokens, CareInv, At
<1>2. ASSUME Unbroken({"create", "close"})
      PROVE  FcopyInv /\ NamedTokens /\ CareInv /\ [Next]_vars => (NamedTokens /\ CareInv)'
  BY <1>2, NamedNext, CareNext
<1>3. FcopyInv /\ CareInv => NothingLeftOpen
  <2> SUFFICES ASSUME FcopyInv, CareInv, AllOver
               PROVE  \A s \in Server : /\ \A t \in Token : fmap[s][t] = NoEntry
                                        /\ \A f \in Fd : fds[s][f] = Closed
    BY DEF NothingLeftOpen
  <2>1. \A j \in Slot : job[j].pc = "free"
    BY DEF AllOver, At
  <2>2. \A c \in Client : main[c].ph = "done"
    BY DEF AllOver, Over
  <2>3. \A s, t : ~InCare(s, t)
    BY <2>1, <2>2 DEF InCare, WillClose, HoldsEntry, At
  <2>4. \A s \in Server, t \in Token : fmap[s][t] = NoEntry
    BY <2>3 DEF CareInv
  <2>5. ASSUME NEW s \in Server, NEW f \in Fd PROVE fds[s][f] = Closed
    <3>1. FdOwned
      BY DEF FcopyInv, ServerInv
    <3>2. \A t \in Token : ~EntryHolds(s, t, f)
      BY <2>4 DEF EntryHolds
    <3>3. \A j \in Slot : ~JobHolds(j, s, f)
      BY <2>1 DEF JobHolds
    <3> QED BY <3>1, <3>2, <3>3 DEF FdOwned
  <2> QED BY <2>4, <2>5
<1>4. ASSUME Unbroken({"create", "close"}) PROVE Spec => []NothingLeftOpen
  BY <1>1, <1>2, <1>3, <1>4, SystemKeepsInv, PTL DEF Spec
<1> QED BY <1>4

-----------------------------------------------------------------------------
(* The size a file is left with.  A file changes only while a descriptor   *)
(* is open on it that will still be cut off: by the entry that it belongs  *)
(* to, or by the handler of a close that has not got to ftruncate.         *)

\* No two names of different files have one token.
OneFilePerToken == \A n, m \in Name : TokenOf[n] = TokenOf[m] => FileOf[n] = FileOf[m]

\* Some upload announces n bytes for file p.
Announced(p, n) ==
  \E c \in Client : \E k \in DOMAIN Files[c] :
    FileOf[Files[c][k].name] = p /\ n = Files[c][k].size

\* A create announces what its client has.
Wanted(r) ==
  r.op = "create" =>
    \E c \in Client : \E k \in DOMAIN Files[c] :
      r.name = Files[c][k].name /\ r.size = Files[c][k].size

\* No handler has cut off descriptor f and not closed it yet.
Uncut(s, f) == \A j \in Slot : ~(At(j, "close") /\ job[j].srv = s /\ job[j].fd = f)

Sized(s, p) ==
  \/ disk[s][p] = Before[p]
  \/ Announced(p, disk[s][p].size)
  \/ \E f \in Fd : fds[s][f] = p /\ Uncut(s, f)

AnnounceInv ==
  /\ \A j \in Slot : ~At(j, "free") => Wanted(job[j].req)
  /\ \A l \in lost : Wanted(l.req)
  /\ \A s \in Server, t \in Token :
       fmap[s][t] # NoEntry => Announced(fds[s][fmap[s][t].fd], fmap[s][t].size)
  /\ \A j \in Slot : At(j, "trunc") => Announced(fds[job[j].srv][job[j].fd], job[j].size)

SizesInv == AnnounceInv /\ \A s \in Server, p \in Path : Sized(s, p)

\* Only a client asks for a create, and with the name and the size of its file.
LEMMA AsksWanted ==
  ASSUME FcopyInv, \A l \in lost : Wanted(l.req),
         NEW who, NEW s, NEW r \in Request, Asks(who, s, r)
  PROVE  Wanted(r)
<1>i. SenderInv /\ ServerInv /\ TypeInv
  BY DEF FcopyInv, ServerInv
<1>1. ASSUME NEW c \in Client, Call(c), r = MainReq(c) PROVE Wanted(r)
  <2>1. Calls(c)
    BY <1>1 DEF Call
  <2>2. CASE main[c].ph = "open"
    <3>1. r.name = File(c).name /\ r.size = Size(c)
      BY <1>1, <2>2 DEF MainReq, CreateReq
    <3>2. main[c].file \in DOMAIN Files[c]
      BY <1>i, FileTypes DEF SenderInv
    <3> QED BY <3>1, <3>2 DEF Wanted, File, Size
  <2>3. CASE main[c].ph # "open"
    <3>1. r.op \in {"chain", "close"}
      BY <1>1, <2>1, <2>3 DEF MainReq, SetChainReq, CloseReq, Calls
    <3> QED BY <3>1 DEF Wanted
  <2> QED BY <2>2, <2>3
<1>2. ASSUME NEW c \in Client, NEW w \in Worker, r \in WorkReqs(c, w) PROVE Wanted(r)
  BY <1>2, WorkReqFields DEF Wanted
<1>3. ASSUME NEW i \in Slot, NEW k \in Nat, Forward(i, k), r = ForwardReq(i, k)
      PROVE  Wanted(r)
  <2>1. At(i, "work")
    BY <1>3 DEF Forward, Forwarding
  <2>2. job[i].req \in Request /\ job[i].req.op = "send"
    BY <1>i, <2>1, AtJob DEF At, Shaped
  <2> QED BY <1>3, <2>2, ForwardFields DEF Wanted
<1> QED BY <1>1, <1>2, <1>3 DEF Asks

\* So all requests are of that kind.
LEMMA WantedNext ==
  ASSUME FcopyInv, AnnounceInv, [Next]_vars
  PROVE  /\ \A j \in Slot : job'[j].pc # "free" => Wanted(job'[j].req)
         /\ \A l \in lost' : Wanted(l.req)
<1>i. /\ ServerInv
      /\ \A j \in Slot : ~At(j, "free") => Wanted(job[j].req)
      /\ \A l \in lost : Wanted(l.req)
  BY DEF FcopyInv, AnnounceInv
<1>1. ASSUME NEW j \in Slot, job'[j].pc # "free" PROVE Wanted(job'[j].req)
  <2>1. ASSUME ~At(j, "free"), KeepsAsk(j) PROVE Wanted(job'[j].req)
    BY <1>i, <2>1 DEF KeepsAsk
  <2>2. CASE job'[j] = job[j]
    BY <1>1, <2>1, <2>2 DEF At, KeepsAsk
  <2>3. job'[j] # NoJob
    BY <1>1 DEF NoJob
  <2>4. CASE Starts(j)
    <3>1. PICK who \in Who, s \in Server, r \in Request : Asks(who, s, r) /\ job'[j].req = r
      BY <2>4 DEF Starts
    <3> QED BY <1>i, <3>1, AsksWanted
  <2>5. CASE Handles(j)
    BY <1>i, <2>1, <2>3, <2>5, HandledAsk
  <2>6. CASE Forwards(j)
    BY <2>1, <2>6 DEF Forwards, Marks, At
  <2>7. CASE Lingers(j)
    BY <2>7 DEF Lingers, IsLateClose, KeepsAsk, Wanted
  <2> QED BY <2>2, <2>3, <2>4, <2>5, <2>6, <2>7, JobsMove DEF Moves, Rests, CutOff, Ends
<1>2. ASSUME NEW l \in lost' PROVE Wanted(l.req)
  <2>1. CASE l \notin lost
    <3>1. PICK j \in Slot : ~At(j, "free") /\ l = LostCall(j)
      BY <2>1, LostNext
    <3>2. l.req = job[j].req
      BY <3>1 DEF LostCall
    <3> QED BY <1>i, <3>1, <3>2
  <2> QED BY <1>i, <2>1
<1> QED BY <1>1, <1>2

\* Where no server may go down, none does.
LEMMA NoneCrashes == ASSUME Unbroken({"crash"}) PROVE \A s \in Server : ~Crash(s)
BY DEF Unbroken, Crash, Fault

\* The steps that change a descriptor or a file.
LEMMA FilesMove ==
  ASSUME \A s \in Server : ~Crash(s), [Next]_vars
  PROVE  \/ UNCHANGED <<fds, disk>>
         \/ \E j \in Slot : \/ CreateOpen(j) \/ CreateInsert(j) \/ CloseTruncate(j)
                            \/ CloseFd(j) \/ SendWrite(j)
                            \/ SendWriteShort(j) /\ "short" \in FaultKinds
<1>1. ASSUME NEW s \in Server PROVE ~Crash(s)
  OBVIOUS
<1>2. ASSUME NEW c \in Client, ClientMain(c) \/ ClientFails(c) PROVE UNCHANGED <<fds, disk>>
  BY <1>2, Zenon DEF ClientMain, ClientFails, MainCalls, ServersIdle, serverVars
<1>3. ASSUME NEW c \in Client, NEW w \in Worker, ClientWorker(c, w)
      PROVE  UNCHANGED <<fds, disk>>
  BY <1>3, Zenon DEF ClientWorker, WorkerCalls, ServersIdle, serverVars
<1>4. ASSUME NEW j \in Slot, ServerStep(j) \/ ServerFails(j) \/ Disconnect(j)
      PROVE  \/ UNCHANGED <<fds, disk>>
             \/ CreateOpen(j) \/ CreateInsert(j) \/ CloseTruncate(j)
             \/ CloseFd(j) \/ SendWrite(j)
             \/ SendWriteShort(j) /\ "short" \in FaultKinds
  BY <1>4, Zenon DEF ServerStep, ServerFails, Disconnect, Fault, JobStep, JobFails, SetChain,
                     SendLookup, SendJoin, CloseHas, CloseErase, CreateRejected,
                     SendWriteFails, Forward, Reply
<1>5. ASSUME RetryStep PROVE UNCHANGED <<fds, disk>>
  BY <1>5, Zenon DEF RetryStep, Redial, GiveUpCall
<1>6. CASE UNCHANGED vars
  BY <1>6, Zenon DEF vars, serverVars
<1> QED BY <1>1, <1>2, <1>3, <1>4, <1>5, <1>6, Zenon DEF Next

\* The handler of a close gets to ftruncate with what it has taken out of the table, and
\* past it by ftruncate.
LEMMA HandledClose ==
  ASSUME ServerInv, NEW j \in Slot, Handles(j)
  PROVE  /\ At(j, "trunc")' =>
              LET e == fmap[job[j].srv][job[j].req.tok]
              IN /\ e # NoEntry /\ UNCHANGED fds
                 /\ job'[j].srv = job[j].srv /\ job'[j].fd = e.fd /\ job'[j].size = e.size
                 /\ job[j].srv \in Server /\ job[j].req.tok \in Token
         /\ At(j, "close")' => CloseTruncate(j) /\ KeepsAsk(j) /\ job'[j].fd = job[j].fd
<1>f. ~At(j, "free")
  BY HandledAsk
<1>1. ASSUME NEW e, Respond(j, e) PROVE ~At(j, "trunc")' /\ ~At(j, "close")'
  BY <1>1, <1>f, Responded DEF At
<1>2. ASSUME NEW e, EndClose(j, e) PROVE ~At(j, "trunc")' /\ ~At(j, "close")'
  BY <1>2, <1>f, Ended DEF At, NoJob
<1>3. CASE CreateOpen(j)
  BY <1>3, Opened DEF At
<1>4. CASE \/ CreateRejected(j) \/ CreateInsert(j) \/ SetChain(j) \/ SendJoin(j) \/ CloseHas(j)
  BY <1>1, <1>4, Zenon DEF CreateRejected, CreateInsert, SetChain, SendJoin, CloseHas
<1>5. CASE SendLookup(j)
  BY <1>5, LookedUp DEF At
<1>6. CASE SendWrite(j) \/ SendWriteFails(j) \/ SendWriteShort(j)
  BY <1>6, Wrote DEF At
<1>7. CASE CloseErase(j)
  <2>1. At(j, "erase")
    BY <1>7, Erased
  <2>2. job[j].srv \in Server /\ job[j].req.tok \in Token
    BY <1>f, <2>1, AtJob, RequestFields DEF ServerInv, At, Shaped
  <2> QED BY <1>2, <1>7, <2>2, Erased DEF At, KeepsAsk
<1>8. CASE CloseTruncate(j)
  BY <1>8, Cut DEF At
<1>9. CASE CloseFd(j)
  BY <1>2, <1>9, Zenon DEF CloseFd
<1> QED BY <1>3, <1>4, <1>5, <1>6, <1>7, <1>8, <1>9 DEF Handles, JobStep, JobFails

\* So a handler that is about to cut a file was there before, or has just taken it out.
LEMMA CloseStands ==
  ASSUME FcopyInv, [Next]_vars, NEW j \in Slot
  PROVE  /\ At(j, "trunc")' => job'[j] = job[j] \/ Handles(j)
         /\ At(j, "close")' => job'[j] = job[j] \/ Handles(j)
<1>1. ASSUME Starts(j) PROVE ~At(j, "trunc")' /\ ~At(j, "close")'
  <2>1. PICK r \in Request : job'[j].pc = FirstPc(r)
    BY <1>1 DEF Starts
  <2>2. r.op \in {"create", "chain", "send", "close"}
    BY DEF Request
  <2> QED BY <2>1, <2>2 DEF FirstPc, At
<1>2. ASSUME Forwards(j) \/ Lingers(j) PROVE ~At(j, "trunc")' /\ ~At(j, "close")'
  BY <1>2 DEF Forwards, Marks, Lingers, At
<1>3. ASSUME job'[j] = NoJob PROVE ~At(j, "trunc")' /\ ~At(j, "close")'
  BY <1>3 DEF NoJob, At
<1> QED BY <1>1, <1>2, <1>3, JobsMove DEF Moves, Rests, CutOff, Ends

\* A descriptor that is not cut off stays so until a handler cuts it off.
LEMMA StaysUncut ==
  ASSUME FcopyInv, [Next]_vars, NEW s, NEW f, Uncut(s, f),
         \A j \in Slot : ~(CloseTruncate(j) /\ job[j].srv = s /\ job[j].fd = f)
  PROVE  Uncut(s, f)'
<1> SUFFICES ASSUME NEW j \in Slot, At(j, "close")', job'[j].srv = s, job'[j].fd = f
             PROVE  FALSE
  BY DEF Uncut
<1>1. CASE job'[j] = job[j]
  BY <1>1 DEF Uncut, At
<1>2. CASE Handles(j)
  BY <1>2, HandledClose DEF FcopyInv, KeepsAsk
<1> QED BY <1>1, <1>2, CloseStands

\* What an open descriptor is open on, only its owner changes, by closing it.
LEMMA DescriptorsMove ==
  ASSUME \A q \in Server : ~Crash(q), FcopyInv, [Next]_vars, NEW s \in Server, NEW f \in Fd,
         fds[s][f] # Closed
  PROVE  \/ fds'[s][f] = fds[s][f]
         \/ \E j \in Slot : /\ CreateInsert(j) \/ CloseFd(j)
                            /\ fds' = [fds EXCEPT ![s][f] = Closed]
                            /\ JobHolds(j, s, f)
<1>i. TypeInv /\ ServerInv
  BY DEF FcopyInv, ServerInv
<1>1. ASSUME NEW j \in Slot, CreateInsert(j) \/ CloseFd(j), fds' # fds
      PROVE  \E t \in Server, g \in Fd : /\ fds' = [fds EXCEPT ![t][g] = Closed]
                                         /\ JobHolds(j, t, g)
  <2>1. At(j, "insert") \/ At(j, "close")
    BY <1>1, Zenon DEF CreateInsert, CloseFd
  <2>2. job[j].srv \in Server /\ job[j].fd \in Fd
    BY <1>i, <2>1, AtJob DEF At, Shaped
  <2>3. fds' = [fds EXCEPT ![job[j].srv][job[j].fd] = Closed]
    BY <1>1, Zenon DEF CreateInsert, CloseFd
  <2> QED BY <2>1, <2>2, <2>3 DEF JobHolds, At
<1>2. ASSUME NEW j \in Slot, CreateInsert(j) \/ CloseFd(j), fds'[s][f] # fds[s][f]
      PROVE  fds' = [fds EXCEPT ![s][f] = Closed] /\ JobHolds(j, s, f)
  <2>1. PICK t \in Server, g \in Fd : /\ fds' = [fds EXCEPT ![t][g] = Closed]
                                      /\ JobHolds(j, t, g)
    BY <1>1, <1>2
  <2>2. t = s /\ g = f
    BY <1>i, <1>2, <2>1 DEF TypeInv
  <2> QED BY <2>1, <2>2
<1>3. ASSUME NEW j \in Slot, CreateOpen(j) PROVE fds'[s][f] = fds[s][f]
  <2>1. PICK g \in Fd : /\ fds[job[j].srv][g] = Closed
                        /\ fds' = [fds EXCEPT ![job[j].srv][g] = FileOf[job[j].req.name]]
    BY <1>3 DEF CreateOpen
  <2> QED BY <1>i, <2>1 DEF TypeInv
<1>4. ASSUME NEW j \in Slot, CloseTruncate(j) \/ SendWrite(j) \/ SendWriteShort(j)
      PROVE  fds' = fds
  BY <1>4, Zenon DEF CloseTruncate, SendWrite, SendWriteShort
<1> QED BY <1>2, <1>3, <1>4, FilesMove

\* The descriptors of entries stay open on the same file.
LEMMA EntryOpen ==
  ASSUME \A q \in Server : ~Crash(q), FcopyInv, [Next]_vars, NEW s \in Server, NEW t \in Token,
         fmap[s][t] # NoEntry
  PROVE  /\ fmap[s][t].fd \in Fd /\ fds[s][fmap[s][t].fd] \in Path
         /\ fds'[s][fmap[s][t].fd] = fds[s][fmap[s][t].fd]
         /\ Uncut(s, fmap[s][t].fd)
<1>i. TypeInv /\ ServerInv /\ FdOwned
  BY DEF FcopyInv, ServerInv
<1>1. fmap[s][t].fd \in Fd
  <2>1. fmap[s][t] \in Entry
    BY <1>i DEF TypeInv
  <2> QED BY <2>1 DEF Entry
<1>2. PICK f \in Fd : f = fmap[s][t].fd
  BY <1>1
<1>3. EntryHolds(s, t, f)
  BY <1>2 DEF EntryHolds
<1>4. fds[s][f] # Closed /\ \A j \in Slot : ~JobHolds(j, s, f)
  BY <1>i, <1>3 DEF FdOwned
<1>5. fds[s][f] \in Path
  BY <1>i, <1>4 DEF TypeInv
<1>6. fds'[s][f] = fds[s][f]
  BY <1>4, DescriptorsMove
<1>7. Uncut(s, f)
  BY <1>4 DEF Uncut, JobHolds, At
<1> QED BY <1>2, <1>5, <1>6, <1>7

\* The entries and the handlers that cut files have announced sizes.
LEMMA AnnouncedStep ==
  ASSUME \A q \in Server : ~Crash(q), FcopyInv, AnnounceInv, [Next]_vars
  PROVE  /\ \A s \in Server, t \in Token :
              fmap'[s][t] # NoEntry => Announced(fds'[s][fmap'[s][t].fd], fmap'[s][t].size)
         /\ \A j \in Slot : job'[j].pc = "trunc" =>
              Announced(fds'[job'[j].srv][job'[j].fd], job'[j].size)
<1>i. TypeInv /\ ServerInv /\ FdOwned
  BY DEF FcopyInv, ServerInv
<1>e. \A s \in Server, t \in Token :
        fmap[s][t] # NoEntry => Announced(fds[s][fmap[s][t].fd], fmap[s][t].size)
  BY DEF AnnounceInv
<1>1. ASSUME NEW s \in Server, NEW t \in Token, fmap'[s][t] # NoEntry
      PROVE  Announced(fds'[s][fmap'[s][t].fd], fmap'[s][t].size)
  <2>1. ASSUME fmap[s][t] # NoEntry,
               fmap'[s][t].fd = fmap[s][t].fd, fmap'[s][t].size = fmap[s][t].size
        PROVE  Announced(fds'[s][fmap'[s][t].fd], fmap'[s][t].size)
    BY <1>e, <2>1, EntryOpen
  <2>2. CASE fmap'[s][t] = fmap[s][t]
    BY <1>1, <2>1, <2>2
  <2>3. ASSUME NEW j \in Slot, SetChain(j), fmap'[s][t] # fmap[s][t]
        PROVE  Announced(fds'[s][fmap'[s][t].fd], fmap'[s][t].size)
    <3> DEFINE x == job[j].srv
               y == job[j].req.tok
               r == [fmap[x][y] EXCEPT !.to = job[j].req.targets]
    <3>1. fmap[x][y] # NoEntry /\ fmap' = [fmap EXCEPT ![x][y] = r]
      BY <2>3 DEF SetChain
    <3>2. fmap[x][y] \in Entry => r.fd = fmap[x][y].fd /\ r.size = fmap[x][y].size
      BY DEF Entry
    <3> HIDE DEF x, y, r
    <3>3. s = x /\ t = y /\ fmap'[s][t] = r
      BY <1>i, <2>3, <3>1 DEF TypeInv
    <3>4. fmap[s][t] \in Entry
      BY <1>i, <3>1, <3>3 DEF TypeInv
    <3> QED BY <2>1, <3>1, <3>2, <3>3, <3>4
  <2>4. ASSUME NEW j \in Slot, CreateInsert(j), fmap'[s][t] # fmap[s][t]
        PROVE  Announced(fds'[s][fmap'[s][t].fd], fmap'[s][t].size)
    <3> DEFINE x == job[j].srv
               y == TokenOf[job[j].req.name]
               r == [fd |-> job[j].fd, size |-> job[j].req.size, to |-> <<>>]
    <3>1. At(j, "insert") /\ UNCHANGED fds /\ fmap' = [fmap EXCEPT ![x][y] = r]
      <4>1. fmap' # fmap
        BY <2>4
      <4> QED BY <2>4, <4>1, Zenon DEF CreateInsert
    <3>2. r.fd = job[j].fd /\ r.size = job[j].req.size
      OBVIOUS
    <3>3. ~At(j, "free") /\ job[j].req.op = "create"
      BY <1>i, <3>1, AtJob DEF At, Shaped
    <3>4. fds[x][r.fd] = FileOf[job[j].req.name]
      BY <1>i, <3>1, <3>2 DEF ServerInv, InsertNamesFile
    <3>5. Announced(FileOf[job[j].req.name], r.size)
      BY <3>2, <3>3 DEF AnnounceInv, Wanted, Announced
    <3> HIDE DEF x, y, r
    <3>6. s = x /\ fmap'[s][t] = r
      BY <1>i, <2>4, <3>1 DEF TypeInv
    <3> QED BY <3>1, <3>4, <3>5, <3>6
  <2>5. ASSUME NEW j \in Slot, CloseErase(j), fmap'[s][t] # fmap[s][t] PROVE FALSE
    <3> DEFINE x == job[j].srv
               y == job[j].req.tok
    <3>1. fmap' = [fmap EXCEPT ![x][y] = NoEntry]
      <4>1. fmap' # fmap
        BY <2>5
      <4> QED BY <1>i, <2>5, <4>1, Erased
    <3> HIDE DEF x, y
    <3> QED BY <1>i, <1>1, <2>5, <3>1 DEF TypeInv
  <2> QED BY <2>2, <2>3, <2>4, <2>5, TablesMove
<1>2. ASSUME NEW j \in Slot, job'[j].pc = "trunc"
      PROVE  Announced(fds'[job'[j].srv][job'[j].fd], job'[j].size)
  <2>1. CASE Handles(j)
    <3>1. PICK s \in Server, t \in Token : s = job[j].srv /\ t = job[j].req.tok
      BY <1>i, <1>2, <2>1, HandledClose DEF At
    <3>2. /\ fmap[s][t] # NoEntry /\ fds' = fds /\ job'[j].srv = s
          /\ job'[j].fd = fmap[s][t].fd /\ job'[j].size = fmap[s][t].size
      BY <1>i, <1>2, <2>1, <3>1, HandledClose DEF At
    <3> QED BY <1>e, <3>2
  <2>2. CASE job'[j] = job[j]
    <3>1. At(j, "trunc")
      BY <1>2, <2>2 DEF At
    <3>2. PICK s \in Server, f \in Fd : s = job[j].srv /\ f = job[j].fd
      BY <1>i, <3>1, AtJob DEF At, Shaped
    <3>3. JobHolds(j, s, f)
      BY <3>1, <3>2 DEF JobHolds, At
    <3>4. fds[s][f] # Closed /\ \A i \in Slot : JobHolds(i, s, f) => i = j
      BY <1>i, <3>3 DEF FdOwned
    <3>5. ~CreateInsert(j) /\ ~CloseFd(j)
      BY <3>1, Zenon DEF CreateInsert, CloseFd, At
    <3>6. fds'[s][f] = fds[s][f]
      BY <3>4, <3>5, DescriptorsMove
    <3>7. Announced(fds[s][f], job[j].size)
      BY <3>1, <3>2 DEF AnnounceInv
    <3> QED BY <2>2, <3>2, <3>6, <3>7
  <2> QED BY <1>2, <2>1, <2>2, CloseStands DEF At
<1> QED BY <1>1, <1>2

\* A server that goes down has no entries and no handlers any more.
LEMMA AnnouncedCrash ==
  ASSUME FcopyInv, AnnounceInv, NEW q \in Server, Crash(q)
  PROVE  /\ \A s \in Server, t \in Token :
              fmap'[s][t] # NoEntry => Announced(fds'[s][fmap'[s][t].fd], fmap'[s][t].size)
         /\ \A j \in Slot : job'[j].pc = "trunc" =>
              Announced(fds'[job'[j].srv][job'[j].fd], job'[j].size)
<1>i. TypeInv
  BY DEF FcopyInv, ServerInv
<1>1. /\ fmap' = [fmap EXCEPT ![q] = [t \in Token |-> NoEntry]]
      /\ fds' = [fds EXCEPT ![q] = [f \in Fd |-> Closed]]
  BY DEF Crash, Restart
<1>2. \A s \in Server \ {q} : fmap'[s] = fmap[s] /\ fds'[s] = fds[s]
  BY <1>i, <1>1 DEF TypeInv
<1>3. \A t \in Token : fmap'[q][t] = NoEntry
  BY <1>i, <1>1 DEF TypeInv
<1>4. ASSUME NEW j \in Slot, job'[j].pc = "trunc"
      PROVE  job'[j] = job[j] /\ At(j, "trunc") /\ job[j].srv \in Server \ {q}
  <2>1. job' = [i \in Slot |-> IF i \in Lost(q) THEN NoJob ELSE job[i]]
    BY Zenon DEF Crash
  <2>2. job'[j] = job[j] /\ j \notin Lost(q)
    BY <1>4, <2>1 DEF NoJob
  <2>3. At(j, "trunc") /\ job[j].srv # q
    BY <1>4, <2>2 DEF Lost, At
  <2> QED BY <1>i, <2>2, <2>3, AtJob DEF At
<1> QED BY <1>2, <1>3, <1>4 DEF AnnounceInv

\* Every step keeps the sizes announced.
LEMMA AnnounceNext ==
  ASSUME FcopyInv, AnnounceInv, [Next]_vars
  PROVE  AnnounceInv'
<1>1. \A j \in Slot : ~At(j, "free")' => Wanted(job[j].req)'
  BY WantedNext DEF At, Wanted
<1>2. \A l \in lost' : Wanted(l.req)
  BY WantedNext
<1>3. /\ \A s \in Server, t \in Token :
           fmap'[s][t] # NoEntry => Announced(fds'[s][fmap'[s][t].fd], fmap'[s][t].size)
      /\ \A j \in Slot : job'[j].pc = "trunc" =>
           Announced(fds'[job'[j].srv][job'[j].fd], job'[j].size)
  BY AnnouncedStep, AnnouncedCrash
<1> QED BY <1>1, <1>2, <1>3 DEF AnnounceInv, At, Announced, Wanted

\* A write goes to a file whose descriptor will be cut off.
LEMMA WritesUncut ==
  ASSUME FcopyInv, OwnInv, SendsInv, Unbroken({"crash"}), [Next]_vars,
         NEW j \in Slot, At(j, "work")
  PROVE  /\ job[j].srv \in Server /\ job[j].fd \in Fd
         /\ fds[job[j].srv][job[j].fd] \in Path /\ Uncut(job[j].srv, job[j].fd)
<1>1. IsSend(j)
  BY AtJob DEF FcopyInv, ServerInv, At, Shaped, IsSend
<1>2. PICK c \in Client, i \in Target : SendsAt(c, i, j)
  BY <1>1 DEF SendsInv
<1>3. ClientHolds(c, i)
  BY <1>2, AllHeld DEF SendsAt
<1>4. PICK s \in Server, t \in Token : s = Dest[c][i] /\ t = tokens[c][i]
  BY <1>3, HeldEntry
<1>5. fmap[s][t] # NoEntry /\ fmap[s][t] = EntryOf(c, i)
  BY <1>3, <1>4, HeldEntry DEF EntryOf
<1>6. job[j].srv = s /\ job[j].fd = fmap[s][t].fd
  BY <1>2, <1>4, <1>5 DEF SendsAt
<1> QED BY <1>5, <1>6, EntryOpen, NoneCrashes

\* A duplicate create closes its descriptor, but the entry that it has met has another one
\* on the same file.
LEMMA DuplicateLeaves ==
  ASSUME OneFilePerToken, Unbroken({"crash"}), FcopyInv, [Next]_vars,
         NEW j \in Slot, CreateInsert(j), fds' # fds, NEW s \in Server, NEW f \in Fd,
         JobHolds(j, s, f)
  PROVE  \E g \in Fd : /\ fds[s][g] = fds[s][f] /\ fds'[s][g] = fds[s][g] /\ Uncut(s, g)
<1>i. TypeInv /\ ServerInv /\ FdOwned
  BY DEF FcopyInv, ServerInv
<1>1. At(j, "insert") /\ fmap[job[j].srv][TokenOf[job[j].req.name]] # NoEntry
  BY Zenon DEF CreateInsert
<1>2. job[j].srv = s /\ job[j].fd = f
  BY DEF JobHolds
<1>3. job[j].req \in Request /\ job[j].req.op = "create"
  BY <1>i, <1>1, AtJob DEF At, Shaped
<1>4. PICK n \in Name : n = job[j].req.name
  BY <1>3, RequestFields
<1>5. PICK t \in Token : t = TokenOf[n]
  BY ServerAssumption
<1>6. fmap[s][t] # NoEntry
  BY <1>1, <1>2, <1>4, <1>5
<1>7. PICK m \in Name : FileOf[m] = fds[s][fmap[s][t].fd] /\ TokenOf[m] = t
  BY <1>i, <1>6 DEF ServerInv, EntryNamesFile
<1>8. fds[s][f] = FileOf[n]
  BY <1>i, <1>1, <1>2, <1>4 DEF ServerInv, InsertNamesFile
<1>9. FileOf[m] = FileOf[n]
  BY <1>5, <1>7 DEF OneFilePerToken
<1> QED BY <1>6, <1>7, <1>8, <1>9, EntryOpen, NoneCrashes

\* A write changes no file but the one that the descriptor of its handler is open on.
LEMMA WritesOne ==
  ASSUME TypeInv, ServerInv, NEW j \in Slot, SendWrite(j) \/ SendWriteShort(j), disk' # disk,
         NEW t \in Server, NEW f \in Fd, NEW q \in Path,
         t = job[j].srv, f = job[j].fd, q = fds[t][f]
  PROVE  \A u \in Server, v \in Path : u # t \/ v # q => disk'[u][v] = disk[u][v]
<1>1. At(j, "work")
  BY Zenon DEF SendWrite, SendWriteShort
<1>2. job[j].req \in Request /\ job[j].req.op = "send"
  BY <1>1, AtJob DEF At, Shaped
<1>3. PICK a \in Offset, src \in Source \cup {Hole} : a = job[j].req.off /\ src = job[j].req.src
  BY <1>2, RequestFields
<1>4. q = fds[job[j].srv][job[j].fd]
  OBVIOUS
<1>5. \E n : \/ disk' = [disk EXCEPT ![t][q] = Written(disk[t][q], a, n, src)]
             \/ disk' = [disk EXCEPT ![t][q] = PartWritten(disk[t][q], a, n, src)]
  BY <1>3, <1>4 DEF SendWrite, SendWriteShort
<1>6. PICK x : disk' = [disk EXCEPT ![t][q] = x]
  BY <1>5
<1> QED BY <1>6, FilePut

\* Every step leaves each file of an announced size, or open to be cut.
LEMMA SizedNext ==
  ASSUME OneFilePerToken, Unbroken({"crash"}), FcopyInv, OwnInv, SendsInv, SizesInv,
         [Next]_vars, NEW s \in Server, NEW p \in Path
  PROVE  Sized(s, p)'
<1>i. TypeInv /\ ServerInv /\ FdOwned /\ Closed \notin Path
  BY ServerAssumption DEF FcopyInv, ServerInv
<1>0. Sized(s, p)
  BY DEF SizesInv
<1> DEFINE Cuts(j) == CloseTruncate(j) /\ job[j].srv = s /\ fds[s][job[j].fd] = p
<1>c. ASSUME NEW j \in Slot, CloseTruncate(j)
      PROVE  /\ job[j].srv \in Server /\ job[j].fd \in Fd
             /\ fds[job[j].srv][job[j].fd] \in Path
             /\ disk' = [disk EXCEPT ![job[j].srv][fds[job[j].srv][job[j].fd]] =
                                       Truncated(@, job[j].size)]
             /\ At(j, "trunc")
  <2>1. At(j, "trunc")
    BY <1>c, Cut DEF FcopyInv
  <2>2. PICK t \in Server, f \in Fd : t = job[j].srv /\ f = job[j].fd
    BY <1>i, <2>1, AtJob DEF At, Shaped
  <2>3. JobHolds(j, t, f)
    BY <2>1, <2>2 DEF JobHolds, At
  <2>4. fds[t][f] # Closed
    BY <1>i, <2>3 DEF FdOwned
  <2>5. fds[t][f] \in Path
    BY <1>i, <2>4 DEF TypeInv
  <2> QED BY <1>c, <2>1, <2>2, <2>4, <2>5 DEF CloseTruncate
<1>1. ASSUME NEW j \in Slot, Cuts(j) PROVE Sized(s, p)'
  <2>1. disk' = [disk EXCEPT ![s][p] = Truncated(@, job[j].size)] /\ At(j, "trunc")
    BY <1>1, <1>c
  <2>2. disk'[s][p].size = job[j].size
    BY <1>i, <2>1 DEF TypeInv, Truncated
  <2>3. Announced(p, job[j].size)
    BY <1>1, <2>1 DEF SizesInv, AnnounceInv
  <2> QED BY <2>2, <2>3 DEF Sized
<1>2. ASSUME \A j \in Slot : ~Cuts(j) PROVE Sized(s, p)'
  <2>w. ASSUME NEW f \in Fd, fds[s][f] = p \/ fds[s][f] = Closed, fds'[s][f] = p, Uncut(s, f)
        PROVE  Sized(s, p)'
    <3>1. ASSUME NEW j \in Slot, CloseTruncate(j), job[j].srv = s, job[j].fd = f PROVE FALSE
      <4>1. fds[s][f] = p
        BY <1>i, <1>c, <2>w, <3>1
      <4> QED BY <1>2, <3>1, <4>1
    <3>2. Uncut(s, f)'
      BY <2>w, <3>1, StaysUncut
    <3> QED BY <2>w, <3>2 DEF Sized
  <2>d. ASSUME disk'[s][p] = disk[s][p],
               \A f \in Fd : fds[s][f] = p /\ Uncut(s, f) => fds'[s][f] = p
        PROVE  Sized(s, p)'
    BY <1>0, <2>w, <2>d DEF Sized
  <2>1. CASE UNCHANGED <<fds, disk>>
    BY <2>d, <2>1
  <2>2. ASSUME NEW j \in Slot, CreateOpen(j) PROVE Sized(s, p)'
    <3>1. At(j, "open")
      BY <2>2, Zenon DEF CreateOpen
    <3>2. job[j].srv \in Server /\ job[j].req \in Request /\ job[j].req.op = "create"
      BY <1>i, <3>1, AtJob DEF At, Shaped
    <3>3. PICK t \in Server, q \in Path : t = job[j].srv /\ q = FileOf[job[j].req.name]
      BY <3>2, RequestFields, ServerAssumption
    <3>4. PICK g \in Fd : fds[t][g] = Closed /\ fds' = [fds EXCEPT ![t][g] = q]
      BY <2>2, <3>3 DEF CreateOpen
    <3>5. PICK x : disk' = [disk EXCEPT ![t][q] = x]
      BY <2>2, <3>3 DEF CreateOpen
    <3>6. CASE s = t /\ p = q
      <4>1. fds'[s][g] = p /\ fds[s][g] = Closed
        BY <1>i, <3>4, <3>6 DEF TypeInv
      <4>2. \A i \in Slot : ~JobHolds(i, s, g)
        BY <1>i, <4>1 DEF FdOwned
      <4>3. Uncut(s, g)
        BY <4>2 DEF Uncut, JobHolds, At
      <4> QED BY <2>w, <4>1, <4>3
    <3>7. CASE ~(s = t /\ p = q)
      <4>1. disk'[s][p] = disk[s][p]
        BY <1>i, <3>5, <3>7, FilePut
      <4>2. \A f \in Fd : fds[s][f] = p => fds'[s][f] = p
        BY <1>i, <3>4 DEF TypeInv
      <4> QED BY <2>d, <4>1, <4>2
    <3> QED BY <3>6, <3>7
  <2>3. ASSUME NEW j \in Slot, CreateInsert(j) \/ CloseFd(j) PROVE Sized(s, p)'
    <3>1. disk' = disk
      BY <2>3, Zenon DEF CreateInsert, CloseFd
    <3>2. ASSUME NEW f \in Fd, fds[s][f] = p, Uncut(s, f), fds'[s][f] # p
          PROVE  Sized(s, p)'
      <4>1. PICK i \in Slot : /\ CreateInsert(i) \/ CloseFd(i)
                              /\ JobHolds(i, s, f)
        BY <1>i, <3>2, DescriptorsMove, NoneCrashes
      <4>2. ~CloseFd(i)
        BY <3>2, <4>1, Zenon DEF CloseFd, Uncut, JobHolds
      <4>3. fds' # fds
        BY <3>2
      <4>4. PICK g \in Fd : fds[s][g] = fds[s][f] /\ fds'[s][g] = fds[s][g] /\ Uncut(s, g)
        BY <4>1, <4>2, <4>3, DuplicateLeaves
      <4> QED BY <2>w, <3>2, <4>4
    <3> QED BY <2>d, <3>1, <3>2
  <2>4. ASSUME NEW j \in Slot, CloseTruncate(j) PROVE Sized(s, p)'
    <3>1. PICK t \in Server, q \in Path : t = job[j].srv /\ q = fds[t][job[j].fd]
      BY <1>c, <2>4
    <3>2. PICK x : disk' = [disk EXCEPT ![t][q] = x]
      BY <1>c, <2>4, <3>1
    <3>3. s # t \/ p # q
      BY <1>2, <2>4, <3>1
    <3>4. disk'[s][p] = disk[s][p] /\ fds' = fds
      BY <1>i, <2>4, <3>2, <3>3, FilePut, Cut
    <3> QED BY <2>d, <3>4
  <2>5. ASSUME NEW j \in Slot, SendWrite(j) \/ SendWriteShort(j) PROVE Sized(s, p)'
    <3>1. At(j, "work") /\ fds' = fds
      BY <2>5, Zenon DEF SendWrite, SendWriteShort
    <3>2. PICK t \in Server, f \in Fd : /\ t = job[j].srv /\ f = job[j].fd
                                        /\ fds[t][f] \in Path /\ Uncut(t, f)
      BY <3>1, WritesUncut
    <3>3. CASE s = t /\ p = fds[t][f]
      BY <2>w, <3>1, <3>2, <3>3
    <3>4. CASE s # t \/ p # fds[t][f]
      <4>1. PICK q \in Path : q = fds[t][f]
        BY <3>2
      <4>2. CASE disk' = disk
        BY <2>d, <3>1, <4>2
      <4>3. CASE disk' # disk
        <5>1. disk'[s][p] = disk[s][p]
          BY <1>i, <2>5, <3>2, <3>4, <4>1, <4>3, WritesOne
        <5> QED BY <2>d, <3>1, <5>1
      <4> QED BY <4>2, <4>3
    <3> QED BY <3>3, <3>4
  <2> QED BY <2>1, <2>2, <2>3, <2>4, <2>5, FilesMove, NoneCrashes
<1> QED BY <1>1, <1>2

\* The requests, the entries, the handlers and the files, together.
LEMMA SizesNext ==
  ASSUME OneFilePerToken, Unbroken({"crash"}), FcopyInv, OwnInv, SendsInv, SizesInv,
         [Next]_vars
  PROVE  SizesInv'
<1>1. AnnounceInv'
  BY AnnounceNext DEF SizesInv
<1>2. \A s \in Server, p \in Path : Sized(s, p)'
  BY SizedNext
<1> QED BY <1>1, <1>2 DEF SizesInv

\* SizedAtRest, while only creates, files and system calls fail and no two files have one
\* token.  With one token for two files, a create that meets the entry of the other file
\* cuts its own file to nothing and leaves it so; without the first, the connection of a
\* close can break, and chunks that are still on their way be written after it.
THEOREM SizedWhenAtRest == Steady /\ OneFilePerToken => (Spec => []SizedAtRest)
<1>1. Init => SizesInv
  <2> SUFFICES ASSUME Init PROVE SizesInv
    OBVIOUS
  <2>1. \A j \in Slot : job[j].pc = "free"
    BY DEF Init, ServerInit, NoJob
  <2>2. lost = {}
    BY DEF Init
  <2>3. \A s \in Server, t \in Token : fmap[s][t] = NoEntry
    BY DEF Init, ServerInit
  <2>4. \A s \in Server, p \in Path : disk[s][p] = Before[p]
    BY DEF Init, ServerInit
  <2> QED BY <2>1, <2>2, <2>3, <2>4 DEF SizesInv, AnnounceInv, Sized, At
<1>2. ASSUME Steady, OneFilePerToken
      PROVE  FcopyInv /\ OwnInv /\ SendsInv /\ SizesInv /\ [Next]_vars => SizesInv'
  <2>1. Unbroken({"crash"}) /\ OneFilePerToken
    BY <1>2 DEF Steady, Unbroken
  <2> QED BY <2>1, SizesNext
<1>3. SizesInv => SizedAtRest
  BY DEF SizesInv, Sized, Announced, SizedAtRest
<1>4. ASSUME Steady, OneFilePerToken PROVE Spec => []SizedAtRest
  BY <1>1, <1>2, <1>3, <1>4, ChunksOnRoute, SystemKeepsInv, PTL DEF Spec
<1> QED BY <1>4
=============================================================================
