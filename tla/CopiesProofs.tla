---------------------------- MODULE CopiesProofs -----------------------------
(***************************************************************************)
(* What is on the disks.                                                   *)
(*                                                                         *)
(* A chunk is acknowledged by one server, the first target, and stored by  *)
(* all.  That the answer of one speaks for all rests on the whole way down *)
(* the chain: AskedInv says what the requests under way are for, LinkInv   *)
(* that the tables forward as the clients meant, StoreInv that a handler   *)
(* which reports success has its chunk on every target below its own.      *)
(* Here a request is named by the upload and the target it is for, not by  *)
(* its caller, so that requests which are sent twice, and handlers nobody  *)
(* waits for any more, are covered.                                        *)
(*                                                                         *)
(* That a copy is exactly its file takes three more invariants: BlankInv,  *)
(* nothing else was written into it, ClosesInv, a client closes only after *)
(* its last chunk was answered, and CutSized, the close has cut it to the  *)
(* size of the file.  From these the last section derives that each step   *)
(* of the system is one that module Transfer allows.                       *)
(***************************************************************************)
EXTENDS SendsProofs

-----------------------------------------------------------------------------
(* What a step does to a client.                                           *)

\* Its files, its place in the chain and its acknowledged chunks stay.
Stands(c) ==
  /\ main'[c].file = main[c].file /\ acked'[c] = acked[c]
  /\ \A w \in Worker : work'[c][w].pc = "off" <=> work[c][w].pc = "off"
  /\ main'[c].ph = "chain" =>
       main'[c].i = 0 \/ (main[c].ph = "chain" /\ main'[c].i = main[c].i)
  /\ main'[c].ph \in {"close", "done"} /\ main'[c].err = "ok" =>
       \/ main[c].ph = "send"
       \/ main[c].ph \in {"close", "done"} /\ main[c].err = "ok"

\* It starts its workers.
Begins(c) ==
  /\ main[c].ph = "chain" /\ main'[c].ph = "send" /\ main'[c].file = main[c].file
  /\ Children(Method, main[c].i, N) = <<>>
  /\ acked'[c] = acked[c]

\* It goes on to its next file.
Renews(c) ==
  /\ main[c].ph = "done" /\ main[c].err = "ok"
  /\ main'[c].file = main[c].file + 1 /\ main'[c].ph = "open"
  /\ acked'[c] = {} /\ \A w \in Worker : work'[c][w].pc = "off"

\* One of its chains has been installed.
Chained(c) ==
  /\ main[c].ph = "chain" /\ main'[c].ph = "chain" /\ main'[c].i = main[c].i + 1
  /\ main'[c].file = main[c].file /\ acked'[c] = acked[c] /\ work'[c] = work[c]
  /\ \E j \in Slot : At(j, "reply") /\ job[j].err = "ok" /\ caller[j].who = <<"main", c>>

\* One of its chunks has been acknowledged.
Gains(c) ==
  /\ main' = main
  /\ \A w \in Worker : work'[c][w].pc = "off" <=> work[c][w].pc = "off"
  /\ \E w \in Worker, j \in Slot :
       /\ work[c][w].pc = "call" /\ acked'[c] = acked[c] \cup {work[c][w].off}
       /\ At(j, "reply") /\ job[j].err = "ok" /\ caller[j].who = <<"work", c, w>>

\* A client that nothing happens to.
LEMMA StillStands ==
  ASSUME NEW c \in Client,
         main'[c] = main[c], work'[c] = work[c], acked'[c] = acked[c]
  PROVE  Stands(c)
BY DEF Stands

\* What a client does by itself.
LEMMA AloneStands ==
  ASSUME SenderInv, NEW c \in Client, MainInternal(c) \/ LocalOpenFails(c)
  PROVE  \A d \in Client : Stands(d) \/ Begins(d) \/ Renews(d)
<1>t. /\ main \in [Client -> MainState] /\ work \in [Client -> [Worker -> WorkState]]
      /\ acked \in [Client -> SUBSET Nat]
  BY DEF SenderInv, SenderTypeOK
<1>1. \A d \in Client \ {c} : Stands(d)
  BY OthersSame, StillStands DEF SenderInv, MainStep, Same
<1>2. CASE StartSend(c)
  <2>1. Begins(c)
    BY <1>t, <1>2, SMT DEF StartSend, MainState, Begins
  <2> QED BY <1>1, <2>1
<1>3. CASE NextFile(c)
  <2>1. /\ main[c].ph = "done" /\ main[c].err = "ok"
        /\ main'[c] = FreshMain(main[c].file + 1) /\ acked'[c] = {} /\ work'[c] = IdleWorkers
    BY <1>t, <1>3 DEF NextFile
  <2>2. Renews(c)
    BY <2>1, SMT DEF Renews, FreshMain, IdleWorkers
  <2> QED BY <1>1, <2>2
<1>4. CASE JoinSend(c) \/ CloseSkips(c) \/ Finish(c) \/ LocalOpenFails(c)
  <2>1. work' = work /\ acked' = acked
    BY <1>4 DEF JoinSend, CloseSkips, Finish, LocalOpenFails
  <2>2. main'[c].file = main[c].file /\ main'[c].ph \in {"close", "done"}
    BY <1>t, <1>4, SMT DEF JoinSend, CloseSkips, Finish, LocalOpenFails, GiveUp, MainState
  <2>3. main'[c].err = "ok" =>
          \/ main[c].ph = "send"
          \/ main[c].ph \in {"close", "done"} /\ main[c].err = "ok"
    <3>1. CASE JoinSend(c)
      BY <3>1 DEF JoinSend
    <3>2. CASE CloseSkips(c)
      BY <1>t, <3>2, SMT DEF CloseSkips, MainState
    <3>3. CASE Finish(c)
      BY <1>t, <3>3, SMT DEF Finish, FirstError, MainState
    <3>4. CASE LocalOpenFails(c)
      BY <1>t, <3>4, SMT DEF LocalOpenFails, GiveUp, MainState
    <3> QED BY <1>4, <3>1, <3>2, <3>3, <3>4
  <2>4. Stands(c)
    BY <2>1, <2>2, <2>3 DEF Stands
  <2> QED BY <1>1, <2>4
<1> QED BY <1>2, <1>3, <1>4 DEF MainInternal

\* A call of the main coroutine returns.
LEMMA ReturnStands ==
  ASSUME SenderInv, NEW c \in Client, NEW e, NEW t,
         OpenReturns(c, e, t) \/ CloseReturns(c, e) \/ (e # "ok" /\ ChainReturns(c, e))
  PROVE  \A d \in Client : Stands(d)
<1>t. /\ main \in [Client -> MainState] /\ work \in [Client -> [Worker -> WorkState]]
      /\ acked \in [Client -> SUBSET Nat]
  BY DEF SenderInv, SenderTypeOK
<1>1. work' = work /\ acked' = acked
  BY DEF OpenReturns, CloseReturns, ChainReturns
<1>2. \A d \in Client \ {c} : main'[d] = main[d]
  BY <1>t DEF OpenReturns, CloseReturns, ChainReturns, GiveUp
<1>3. CASE OpenReturns(c, e, t)
  <2>1. /\ main'[c].file = main[c].file
        /\ main'[c].ph = "chain" => main'[c].i = 0
        /\ main'[c].ph \in {"chain", "open"} \/ (main'[c].ph = "close" /\ main'[c].err # "ok")
    BY <1>t, <1>3, SMT DEF OpenReturns, GiveUp, MainState
  <2>2. Stands(c)
    BY <1>1, <2>1 DEF Stands
  <2> QED BY <1>1, <1>2, <2>2, StillStands
<1>4. CASE CloseReturns(c, e)
  <2>1. /\ main'[c].file = main[c].file /\ main[c].ph = "close"
        /\ main'[c].ph = "close" /\ main'[c].err = main[c].err
    BY <1>t, <1>4, SMT DEF CloseReturns, Waits, MainState
  <2>2. Stands(c)
    BY <1>1, <2>1 DEF Stands
  <2> QED BY <1>1, <1>2, <2>2, StillStands
<1>5. CASE e # "ok" /\ ChainReturns(c, e)
  <2>1. main'[c].file = main[c].file /\ main'[c].ph = "close" /\ main'[c].err # "ok"
    BY <1>t, <1>5, SMT DEF ChainReturns, GiveUp, MainState
  <2>2. Stands(c)
    BY <1>1, <2>1 DEF Stands
  <2> QED BY <1>1, <1>2, <2>2, StillStands
<1> QED BY <1>3, <1>4, <1>5

\* A send returns.
LEMMA SendStands ==
  ASSUME SenderInv, NEW c \in Client, NEW w \in Worker, NEW e \in Err, SendReturns(c, w, e)
  PROVE  /\ \A d \in Client \ {c} : Stands(d)
         /\ main' = main
         /\ \A v \in Worker : work'[c][v].pc = "off" <=> work[c][v].pc = "off"
         /\ e # "ok" => Stands(c)
         /\ e = "ok" => /\ work[c][w].pc = "call"
                        /\ acked'[c] = acked[c] \cup {work[c][w].off}
<1>t. acked \in [Client -> SUBSET Nat] /\ SenderTypeOK
  BY DEF SenderInv, SenderTypeOK
<1>1. main' = main /\ work[c][w].pc = "call"
  BY DEF SendReturns
<1>2. \A d \in Client \ {c} : Stands(d)
  <2>1. WorkerStep(c, w)
    BY DEF WorkerStep
  <2> QED BY <1>t, <2>1, OthersSame, StillStands DEF Same
<1>3. CASE e = "ok"
  <2>1. Goto(c, w, "check") /\ acked' = [acked EXCEPT ![c] = @ \cup {work[c][w].off}]
    BY <1>3 DEF SendReturns
  <2>2. work'[c][w].pc = "check" /\ \A v \in Worker \ {w} : work'[c][v] = work[c][v]
    BY <1>t, <2>1, GotoUpdate DEF WorkPc
  <2> QED BY <1>t, <1>1, <1>2, <1>3, <2>1, <2>2
<1>4. CASE e # "ok"
  <2>1. /\ Become(c, w, [work[c][w] EXCEPT !.pc = "fail", !.err = e])
        /\ acked' = acked
    BY <1>4 DEF SendReturns
  <2>2. work'[c][w].pc = "fail" /\ \A v \in Worker \ {w} : work'[c][v] = work[c][v]
    BY <1>t, <2>1, FailUpdate
  <2>3. \A v \in Worker : work'[c][v].pc = "off" <=> work[c][v].pc = "off"
    BY <1>1, <2>2
  <2>4. Stands(c)
    BY <1>1, <2>1, <2>3 DEF Stands
  <2> QED BY <1>1, <1>2, <1>4, <2>3, <2>4
<1> QED BY <1>3, <1>4

\* What a step of the system does to each client.
LEMMA ClientsMove ==
  ASSUME FcopyInv, [Next]_vars
  PROVE  \A c \in Client : Stands(c) \/ Begins(c) \/ Renews(c) \/ Chained(c) \/ Gains(c)
<1>i. SenderInv /\ CallInv
  BY DEF FcopyInv
<1>t. SenderTypeOK /\ main \in [Client -> MainState]
  BY <1>i DEF SenderInv, SenderTypeOK
<1> DEFINE Goes(c) == Stands(c) \/ Begins(c) \/ Renews(c) \/ Chained(c) \/ Gains(c)
<1>0. ASSUME UNCHANGED senderVars PROVE \A c \in Client : Goes(c)
  BY <1>0, StillStands DEF senderVars
<1>1. ASSUME NEW c \in Client, MainCalls(c) PROVE \A d \in Client : Goes(d)
  <2>1. /\ main'[c].ph = main[c].ph /\ work' = work
        /\ main'[c].i = main[c].i /\ main'[c].file = main[c].file
        /\ \A d \in Client \ {c} : main'[d] = main[d]
    BY <1>i, <1>1, CallMade DEF MainCalls
  <2>2. acked' = acked /\ main'[c].err = main[c].err
    BY <1>t, <1>1, SMT DEF MainCalls, Call, MainState
  <2>3. Stands(c)
    BY <2>1, <2>2 DEF Stands
  <2> QED BY <2>1, <2>2, <2>3, StillStands
<1>2. ASSUME NEW who \in Who, NEW e \in Err, NEW t, Resume(who, e, t),
             e = "ok" => \E j \in Slot : At(j, "reply") /\ job[j].err = "ok" /\ caller[j].who = who
      PROVE  \A c \in Client : Goes(c)
  <2>1. CASE who[1] = "none"
    BY <1>0, <1>2, <2>1, WhoForms DEF Resume
  <2>2. CASE who[1] = "main"
    <3>1. PICK c \in Client : who = <<"main", c>>
      BY <2>2, WhoForms
    <3>2. OpenReturns(c, e, t) \/ ChainReturns(c, e) \/ CloseReturns(c, e)
      BY <1>2, <2>2, <3>1 DEF Resume
    <3>3. CASE e = "ok" /\ ChainReturns(c, e)
      <4>1. /\ main' = [main EXCEPT ![c].at = "go", ![c].i = @ + 1] /\ main[c].ph = "chain"
            /\ UNCHANGED <<work, acked>>
        BY <3>3 DEF ChainReturns, Waits
      <4>2. /\ main'[c].ph = "chain" /\ main'[c].i = main[c].i + 1
            /\ main'[c].file = main[c].file
            /\ \A d \in Client \ {c} : main'[d] = main[d]
        BY <1>t, <4>1, SMT DEF MainState
      <4>3. Chained(c)
        BY <1>2, <3>1, <3>3, <4>1, <4>2 DEF Chained
      <4> QED BY <4>1, <4>2, <4>3, StillStands
    <3> QED BY <1>i, <3>2, <3>3, ReturnStands
  <2>3. CASE who[1] = "work"
    <3>1. PICK c \in Client, w \in Worker : who = <<"work", c, w>>
      BY <2>3, WhoForms
    <3>2. SendReturns(c, w, e)
      BY <1>2, <2>3, <3>1 DEF Resume
    <3>3. /\ \A d \in Client \ {c} : Stands(d)
          /\ main' = main
          /\ \A v \in Worker : work'[c][v].pc = "off" <=> work[c][v].pc = "off"
          /\ e # "ok" => Stands(c)
          /\ e = "ok" => /\ work[c][w].pc = "call"
                         /\ acked'[c] = acked[c] \cup {work[c][w].off}
      BY <1>i, <3>2, SendStands
    <3>4. CASE e = "ok"
      <4>1. Gains(c)
        BY <1>2, <3>1, <3>3, <3>4 DEF Gains
      <4> QED BY <3>3, <4>1
    <3> QED BY <3>3, <3>4
  <2>4. who[1] # "fwd"
    BY <1>2 DEF Resume
  <2> QED BY <2>1, <2>2, <2>3, <2>4, WhoForms
<1>3. ASSUME NEW j \in Slot, Reply(j) PROVE \A c \in Client : Goes(c)
  <2>1. PICK who \in Who : who = caller[j].who
    BY <1>i DEF CallInv, CallerInv
  <2>2. PICK e, t : e \in Err /\ e = job[j].err /\ t = Answer(j)
    <3>1. At(j, "reply") /\ ~At(j, "free")
      BY <1>3 DEF Reply, At
    <3> QED BY <3>1, AtJob DEF FcopyInv, ServerInv
  <2>3. At(j, "reply") /\ (UNCHANGED senderVars \/ Resume(who, e, t))
    BY <1>3, <2>1, <2>2 DEF Reply
  <2> QED BY <1>0, <1>2, <2>1, <2>2, <2>3
<1>4. ASSUME NEW l \in lost, GiveUpCall(l) PROVE \A c \in Client : Goes(c)
  <2>1. PICK who \in Who : who = l.who
    BY <1>i DEF CallInv, LostInv
  <2>2. UNCHANGED senderVars \/ Resume(who, "EIO", NoToken)
    BY <1>4, <2>1 DEF GiveUpCall
  <2>3. PICK e \in Err : e = "EIO"
    BY DEF Err
  <2> QED BY <1>0, <1>2, <2>2, <2>3
<1>5. ASSUME NEW c \in Client, NEW w \in Worker, ClientWorker(c, w)
      PROVE  \A d \in Client : Goes(d)
  <2>1. main' = main /\ acked' = acked
    BY <1>5 DEF ClientWorker, WorkerCalls, WorkerRead, WorkerCheck, WorkerClaim, WorkerFail,
                WorkerAlloc
  <2>2. \/ WorkerRead(c, w) \/ WorkerCheck(c, w) \/ WorkerClaim(c, w) \/ WorkerFail(c, w)
        \/ WorkerAlloc(c, w)
    BY <1>5 DEF ClientWorker, WorkerCalls
  <2>3. \A d \in Client \ {c} : work'[d] = work[d]
    <3>1. WorkerStep(c, w)
      BY <2>2 DEF WorkerStep, WorkerInternal
    <3> QED BY <1>t, <3>1, OthersSame DEF Same
  <2>4. /\ work[c][w].pc # "off" /\ work'[c][w].pc # "off"
        /\ \A v \in Worker \ {w} : work'[c][v] = work[c][v]
    <3>t. /\ work \in [Client -> [Worker -> WorkState]] /\ cur[c] \in Nat
          /\ work[c] \in [Worker -> WorkState]
      BY <1>t DEF SenderTypeOK
    <3>0. /\ work[c][w].pc # "off"
          /\ \/ \E p \in WorkPc : p # "off" /\ Goto(c, w, p)
             \/ Become(c, w, [work[c][w] EXCEPT !.pc = "read", !.off = cur[c]])
             \/ Become(c, w, [work[c][w] EXCEPT !.pc = "fail", !.err = "EIO"])
      BY <2>2 DEF WorkerRead, WorkerCheck, WorkerClaim, WorkerFail, WorkerAlloc, WorkPc
    <3>1. CASE \E p \in WorkPc : p # "off" /\ Goto(c, w, p)
      BY <1>t, <3>0, <3>1, GotoUpdate
    <3>2. CASE Become(c, w, [work[c][w] EXCEPT !.pc = "fail", !.err = "EIO"])
      <4>1. "EIO" \in Err
        BY DEF Err
      <4> QED BY <1>t, <3>0, <3>2, <4>1, FailUpdate
    <3>3. CASE Become(c, w, [work[c][w] EXCEPT !.pc = "read", !.off = cur[c]])
      <4> DEFINE x == [work[c][w] EXCEPT !.pc = "read", !.off = cur[c]]
      <4>1. work[c][w] \in WorkState
        BY <3>t
      <4>2. x \in WorkState /\ x.pc = "read"
        BY <3>t, <4>1, Zenon DEF WorkState, WorkPc
      <4>3. Become(c, w, x)
        BY <3>3
      <4> HIDE DEF x
      <4> QED BY <1>t, <3>0, <4>2, <4>3, WorkUpdate
    <3> QED BY <3>0, <3>1, <3>2, <3>3
  <2>5. Stands(c)
    BY <2>1, <2>4 DEF Stands
  <2> QED BY <2>1, <2>3, <2>5, StillStands
<1>6. ASSUME NEW j \in Slot, ServerStep(j) \/ ServerFails(j) \/ Disconnect(j)
      PROVE  \A c \in Client : Goes(c)
  <2>1. UNCHANGED senderVars \/ Reply(j)
    BY <1>6 DEF ServerStep, ServerFails, Disconnect, Forward
  <2> QED BY <1>0, <1>3, <2>1
<1>7. CASE \/ \E l \in lost : Redial(l)
           \/ \E s \in Server : Crash(s)
           \/ UNCHANGED vars
  BY <1>0, <1>7 DEF Redial, Crash, vars
<1>8. ASSUME NEW c \in Client, ClientMain(c) \/ ClientFails(c)
      PROVE  \A d \in Client : Goes(d)
  <2>1. MainCalls(c) \/ MainInternal(c) \/ LocalOpenFails(c)
    BY <1>8 DEF ClientMain, ClientFails
  <2> QED BY <1>i, <1>1, <2>1, AloneStands
<1> QED BY <1>4, <1>5, <1>6, <1>7, <1>8 DEF Next, RetryStep

-----------------------------------------------------------------------------
(* Which uploads have begun to send.                                       *)

\* The token and the file of the k-th upload of client c.
TokOf(c, k)  == TokenOf[Files[c][k].name]
PathOf(c, k) == FileOf[Files[c][k].name]

\* The chunks of that file.
ChunksOf(c, k) == {o \in 0..Files[c][k].size-1 : o % ChunkSize = 0}

\* The length of the chunk at offset o of it.
LenOf(c, k, o) ==
  IF o + ChunkSize <= Files[c][k].size THEN ChunkSize ELSE Files[c][k].size - o

\* All its creates are over: its chunks are or have been sent.
Begun(c, k) ==
  k < main[c].file \/ (k = main[c].file /\ \E w \in Worker : work[c][w].pc # "off")

\* Only such an upload has acknowledged chunks, or ends with success.
BegunInv ==
  \A c \in Client :
    /\ acked[c] # {} => Begun(c, main[c].file)
    /\ acked[c] \subseteq ChunksOf(c, main[c].file)
    /\ main[c].ph \in {"close", "done"} /\ main[c].err = "ok" => Begun(c, main[c].file)

\* An upload that has begun stays begun; one begins when its workers are started.
LEMMA BegunStays ==
  ASSUME FcopyInv, BegunInv, [Next]_vars, NEW c \in Client, NEW k \in Nat
  PROVE  /\ Begun(c, k) => Begun(c, k)'
         /\ Begun(c, k)' => Begun(c, k) \/ (Begins(c) /\ k = main[c].file)
<1>1. main[c].file \in Nat
  BY DEF FcopyInv, SenderInv, SenderTypeOK, MainState
<1>2. CASE Stands(c)
  BY <1>2 DEF Stands, Begun
<1>3. CASE Begins(c)
  <2>1. main'[c].file = main[c].file
    BY <1>3 DEF Begins
  <2>2. \A w \in Worker : work'[c][w].pc # "off"
    <3>1. PhaseInv(c)' /\ main'[c].ph = "send"
      BY <1>3, FcopyInvNext DEF Begins, FcopyInv, SenderInv, ClientInv
    <3> QED BY <3>1 DEF PhaseInv
  <2> QED BY <1>3, <2>1, <2>2 DEF Begun
<1>4. CASE Renews(c)
  <2>1. Begun(c, main[c].file)
    BY <1>4 DEF BegunInv, Renews
  <2>2. \E w \in Worker : work[c][w].pc # "off"
    BY <1>1, <2>1 DEF Begun
  <2>3. main'[c].file = main[c].file + 1 /\ \A w \in Worker : work'[c][w].pc = "off"
    BY <1>4 DEF Renews
  <2>4. Begun(c, k)' <=> k < main[c].file + 1
    BY <2>3 DEF Begun
  <2>5. Begun(c, k) <=> k < main[c].file \/ k = main[c].file
    BY <2>2 DEF Begun
  <2> QED BY <1>1, <2>4, <2>5
<1>5. CASE Chained(c) \/ Gains(c)
  BY <1>5 DEF Chained, Gains, Begun
<1> QED BY <1>2, <1>3, <1>4, <1>5, ClientsMove

\* BegunInv is kept by every step.
LEMMA BegunNext ==
  ASSUME FcopyInv, BegunInv, [Next]_vars
  PROVE  BegunInv'
<1> SUFFICES ASSUME NEW c \in Client
             PROVE  /\ acked'[c] # {} => Begun(c, main[c].file)'
                    /\ acked'[c] \subseteq ChunksOf(c, main'[c].file)
                    /\ main'[c].ph \in {"close", "done"} /\ main'[c].err = "ok"
                         => Begun(c, main[c].file)'
  BY DEF BegunInv, ChunksOf
<1>1. PICK k \in Nat : k = main[c].file
  BY DEF FcopyInv, SenderInv, SenderTypeOK, MainState
<1>2. Begun(c, k) => Begun(c, k)'
  BY BegunStays
<1>3. acked[c] # {} => Begun(c, k)
  BY <1>1 DEF BegunInv
<1>4. acked[c] \subseteq ChunksOf(c, k)
  BY <1>1 DEF BegunInv
<1>5. main[c].ph \in {"close", "done"} /\ main[c].err = "ok" => Begun(c, k)
  BY <1>1 DEF BegunInv
<1>6. main[c].ph = "send" => Begun(c, k)
  BY <1>1, SenderAssumption DEF FcopyInv, SenderInv, ClientInv, PhaseInv, Begun
<1>7. CASE Stands(c)
  <2>1. /\ main'[c].file = k /\ acked'[c] = acked[c]
        /\ main'[c].ph \in {"close", "done"} /\ main'[c].err = "ok" =>
             \/ main[c].ph = "send"
             \/ main[c].ph \in {"close", "done"} /\ main[c].err = "ok"
    BY <1>1, <1>7 DEF Stands
  <2>2. Begun(c, main[c].file)' <=> Begun(c, k)'
    BY <2>1 DEF Begun
  <2> QED BY <1>2, <1>3, <1>4, <1>5, <1>6, <2>1, <2>2
<1>8. CASE Begins(c) \/ Chained(c)
  <2>1. /\ main'[c].file = k /\ acked'[c] = acked[c]
        /\ main'[c].ph \in {"send", "chain"}
    BY <1>1, <1>8 DEF Begins, Chained
  <2>2. Begun(c, main[c].file)' <=> Begun(c, k)'
    BY <2>1 DEF Begun
  <2> QED BY <1>2, <1>3, <1>4, <2>1, <2>2
<1>9. CASE Renews(c)
  BY <1>9 DEF Renews
<1>10. CASE Gains(c)
  <2>1. PICK w \in Worker : /\ work[c][w].pc = "call"
                            /\ acked'[c] = acked[c] \cup {work[c][w].off}
    BY <1>10 DEF Gains
  <2>2. main'[c] = main[c]
    BY <1>10 DEF Gains
  <2>3. main[c].ph = "send" /\ work[c][w].off \in Offsets(c)
    <3>1. ClientInv(c) /\ SenderTypeOK
      BY DEF FcopyInv, SenderInv
    <3> QED BY <2>1, <3>1, ActiveWorker DEF ClientInv, ClaimInv, Busy
  <2>4. Offsets(c) = ChunksOf(c, k)
    BY <1>1 DEF Offsets, ChunksOf, Size
  <2>5. Begun(c, main[c].file)' <=> Begun(c, k)'
    BY <1>1, <2>2 DEF Begun
  <2> QED BY <1>1, <1>2, <1>4, <1>6, <2>1, <2>2, <2>3, <2>4, <2>5
<1> QED BY <1>7, <1>8, <1>9, <1>10, ClientsMove

\* No upload has begun at the beginning.
LEMMA BegunInit == ASSUME Init PROVE BegunInv
BY SMT DEF Init, SenderInit, BegunInv, FreshMain

-----------------------------------------------------------------------------
(* What the requests under way ask for.                                    *)

\* Where target i of the k-th upload of client c forwards to.
Sons(c, k, i) ==
  LET sons == Children(Method, i, N)
  IN [n \in DOMAIN sons |-> [srv |-> Dest[c][sons[n]], tok |-> TokOf(c, k)]]

\* r asks server s, as target i of that upload, to forward as it should.
ForChain(c, k, i, s, r) ==
  r.op = "chain" /\ s = Dest[c][i] /\ r.tok = TokOf(c, k) /\ r.targets = Sons(c, k, i)

\* r brings s, as target i of that upload, one of its chunks.
ForSend(c, k, i, s, r) ==
  /\ r.op = "send" /\ s = Dest[c][i] /\ r.tok = TokOf(c, k) /\ r.src = <<c, k>>
  /\ r.off \in ChunksOf(c, k) /\ r.len = LenOf(c, k, r.off)

\* Each chain and each chunk is for an upload, each chunk for one that has begun.
Proper(s, r) ==
  /\ r.op = "chain" =>
       \E c \in Client, i \in Target : \E k \in DOMAIN Files[c] : ForChain(c, k, i, s, r)
  /\ r.op = "send" =>
       \E c \in Client, i \in Target : \E k \in DOMAIN Files[c] :
         ForSend(c, k, i, s, r) /\ Begun(c, k)

\* So is all that is under way, and a chunk is forwarded where it should.
AskedInv ==
  /\ \A j \in Slot : ~At(j, "free") => Proper(job[j].srv, job[j].req)
  /\ \A l \in lost : Proper(l.srv, l.req)

TargetsInv ==
  \A j \in Slot, c \in Client, i \in Target : \A k \in DOMAIN Files[c] :
    At(j, "work") /\ ForSend(c, k, i, job[j].srv, job[j].req) => job[j].to = Sons(c, k, i)

\* A target forwards to later ones.
LEMMA ChildrenLater ==
  ASSUME NEW i \in Nat
  PROVE  \A n \in DOMAIN Children(Method, i, N) :
           Children(Method, i, N)[n] \in Target /\ Children(Method, i, N)[n] > i
<1> DEFINE sons == Children(Method, i, N)
<1> SUFFICES \A n \in DOMAIN sons : sons[n] \in Target /\ sons[n] > i
  OBVIOUS
<1>n. N \in Nat
  BY SenderAssumption
<1>1. CASE Method = "tree" /\ 2*i + 2 < N
  <2>1. /\ 2*i + 1 \in Target /\ 2*i + 2 \in Target /\ 2*i + 1 > i /\ 2*i + 2 > i
    BY <1>n, <1>1 DEF Target
  <2>2. sons = <<2*i + 1, 2*i + 2>>
    BY <1>1 DEF Children
  <2> HIDE DEF sons
  <2> QED BY <2>1, <2>2
<1>2. CASE ~(Method = "tree" /\ 2*i + 2 < N)
  <2>1. FirstChild(Method, i) \in Nat /\ FirstChild(Method, i) > i
    BY DEF FirstChild
  <2>2. FirstChild(Method, i) < N => FirstChild(Method, i) \in Target
    BY <1>n, <2>1 DEF Target
  <2>3. sons = IF FirstChild(Method, i) < N THEN <<FirstChild(Method, i)>> ELSE <<>>
    BY <1>2, Zenon DEF Children
  <2> HIDE DEF sons
  <2> QED BY <2>1, <2>2, <2>3
<1> QED BY <1>1, <1>2

\* The fields of what it forwards to.
LEMMA SonsAre ==
  ASSUME NEW c, NEW k, NEW i
  PROVE  /\ DOMAIN Sons(c, k, i) = DOMAIN Children(Method, i, N)
         /\ \A n \in DOMAIN Children(Method, i, N) :
              /\ Sons(c, k, i)[n].srv = Dest[c][Children(Method, i, N)[n]]
              /\ Sons(c, k, i)[n].tok = TokOf(c, k)
BY DEF Sons

\* A client asks for the chain of its upload, target by target.
LEMMA ChainAsks ==
  ASSUME FcopyInv, NamedTokens, NEW c \in Client, main[c].ph = "chain",
         NEW i \in Target, i = main[c].i, NEW k \in DOMAIN Files[c], k = main[c].file
  PROVE  ForChain(c, k, i, Dest[c][i], MainReq(c))
<1>1. /\ MainReq(c).op = "chain" /\ MainReq(c).tok = tokens[c][i]
      /\ MainReq(c).targets = ChainTargets(c, i)
  BY DEF MainReq, SetChainReq
<1>2. \A m \in Target : tokens[c][m] = TokOf(c, k)
  BY DEF NamedTokens, TokOf, File, FcopyInv, TokenInv
<1>3. \A n \in DOMAIN Children(Method, i, N) : Children(Method, i, N)[n] \in Target
  BY ChildrenLater DEF Target
<1>4. ChainTargets(c, i) = Sons(c, k, i)
  BY <1>2, <1>3, Zenon DEF ChainTargets, ChainTarget, Sons
<1> QED BY <1>1, <1>2, <1>4 DEF ForChain

\* What a client asks for is what its upload needs.
LEMMA MainAsks ==
  ASSUME FcopyInv, NamedTokens, NEW c \in Client, Call(c)
  PROVE  Proper(Dest[c][main[c].i], MainReq(c))
<1>1. main[c].at = "go" /\ Calls(c)
  BY DEF Call
<1>2. main[c].i \in Target
  BY <1>1, MainReqType DEF FcopyInv
<1>3. PICK i \in Target : i = main[c].i
  BY <1>2
<1>4. PICK k \in DOMAIN Files[c] : k = main[c].file
  BY FileTypes DEF FcopyInv, SenderInv
<1>5. CASE main[c].ph = "chain"
  <2>1. ForChain(c, k, i, Dest[c][i], MainReq(c))
    BY <1>3, <1>4, <1>5, ChainAsks
  <2>2. MainReq(c).op = "chain"
    BY <2>1 DEF ForChain
  <2> QED BY <1>3, <2>1, <2>2 DEF Proper
<1>6. CASE main[c].ph # "chain"
  <2>1. MainReq(c).op \in {"create", "close"}
    BY <1>1, <1>6 DEF MainReq, CreateReq, CloseReq, Calls
  <2> QED BY <2>1 DEF Proper
<1> QED BY <1>5, <1>6

\* What a worker asks for is that its chunk be stored.
LEMMA WorkerAsks ==
  ASSUME FcopyInv, NamedTokens, NEW c \in Client, NEW w \in Worker, work[c][w].pc = "read"
  PROVE  Proper(Dest[c][0], ChunkReq(c, w))
<1>1. PICK k \in DOMAIN Files[c] : k = main[c].file
  BY FileTypes DEF FcopyInv, SenderInv
<1>2. main[c].ph = "send" /\ work[c][w].off \in Offsets(c)
  <2>1. ClientInv(c) /\ SenderTypeOK
    BY DEF FcopyInv, SenderInv
  <2> QED BY <2>1, ActiveWorker DEF ClientInv, ClaimInv, Busy
<1>3. PICK o : o = work[c][w].off
  OBVIOUS
<1>4. o \in ChunksOf(c, k)
  BY <1>1, <1>2, <1>3 DEF Offsets, ChunksOf, Size
<1>5. 0 \in Target
  BY SenderAssumption DEF Target
<1>6. tokens[c][0] = TokOf(c, k)
  BY <1>1, <1>2, <1>5 DEF NamedTokens, TokOf, File, FcopyInv, TokenInv
<1>7. /\ ChunkReq(c, w).op = "send" /\ ChunkReq(c, w).tok = tokens[c][0]
      /\ ChunkReq(c, w).src = <<c, k>> /\ ChunkReq(c, w).off = o
      /\ ChunkReq(c, w).len = ChunkLen(c, o)
  BY <1>1, <1>3 DEF ChunkReq, SendReq
<1>8. ChunkLen(c, o) = LenOf(c, k, o)
  BY <1>1 DEF ChunkLen, LenOf, Size
<1>9. Begun(c, k)
  BY <1>1 DEF Begun
<1> QED BY <1>1, <1>4, <1>5, <1>6, <1>7, <1>8, <1>9 DEF Proper, ForSend

\* What a handler forwards is the chunk that its next target needs.
LEMMA ForwardAsks ==
  ASSUME ServerInv, TargetsInv, NEW j \in Slot, NEW n, At(j, "work"), n \in DOMAIN job[j].to,
         NEW c \in Client, NEW i \in Target, NEW k \in DOMAIN Files[c],
         ForSend(c, k, i, job[j].srv, job[j].req)
  PROVE  /\ n \in DOMAIN Children(Method, i, N) /\ Children(Method, i, N)[n] \in Target
         /\ ForSend(c, k, Children(Method, i, N)[n], job[j].to[n].srv, ForwardReq(j, n))
         /\ ForwardReq(j, n).off = job[j].req.off
<1>1. job[j].to = Sons(c, k, i)
  BY DEF TargetsInv
<1>2. n \in DOMAIN Children(Method, i, N)
  BY <1>1, SonsAre
<1>3. PICK m : m = Children(Method, i, N)[n]
  OBVIOUS
<1>4. m \in Target
  BY <1>2, <1>3, ChildrenLater DEF Target
<1>5. job[j].to[n].srv = Dest[c][m] /\ job[j].to[n].tok = TokOf(c, k)
  BY <1>1, <1>2, <1>3, SonsAre
<1>6. ~At(j, "free")
  BY DEF At
<1>7. job[j].req \in Request /\ job[j].req.op = "send"
  BY <1>6, AtJob DEF ServerInv, ForSend
<1>8. job[j].req \in [op : {"send"}, tok : Token, off : Offset, len : Nat,
                      src : Source \cup {Hole}, budget : Nat]
  BY <1>7, Zenon DEF Request
<1>9. PICK r : r = ForwardReq(j, n)
  OBVIOUS
<1>10. /\ r.op = "send" /\ r.tok = job[j].to[n].tok /\ r.src = job[j].req.src
       /\ r.off = job[j].req.off /\ r.len = job[j].req.len
  BY <1>8, <1>9, Zenon DEF ForwardReq
<1>11. ForSend(c, k, m, job[j].to[n].srv, r)
  BY <1>5, <1>10 DEF ForSend
<1> QED BY <1>2, <1>3, <1>4, <1>9, <1>10, <1>11

\* All that is asked for is proper.
LEMMA AsksProper ==
  ASSUME Unbroken({"shrink"}), FcopyInv, NamedTokens, AskedInv, TargetsInv,
         NEW who, NEW s \in Server, NEW r \in Request, Asks(who, s, r)
  PROVE  Proper(s, r)
<1>1. ASSUME NEW c \in Client, Call(c), s = Dest[c][main[c].i], r = MainReq(c)
      PROVE  Proper(s, r)
  BY <1>1, MainAsks
<1>2. ASSUME NEW c \in Client, NEW w \in Worker, work[c][w].pc = "read", s = Dest[c][0],
             r = ChunkReq(c, w) \/ "shrink" \in FaultKinds
      PROVE  Proper(s, r)
  BY <1>2, WorkerAsks DEF Unbroken
<1>3. ASSUME NEW p \in Slot, NEW n \in Nat, Forward(p, n),
             s = job[p].to[n].srv, r = ForwardReq(p, n)
      PROVE  Proper(s, r)
  <2>1. At(p, "work") /\ n \in DOMAIN job[p].to
    BY <1>3, ForwardSent DEF Forward, Forwarding
  <2>2. ~At(p, "free") /\ job[p].req.op = "send"
    BY <2>1, AtJob DEF FcopyInv, ServerInv, At, Shaped
  <2>3. PICK c \in Client, i \in Target : \E k \in DOMAIN Files[c] :
          ForSend(c, k, i, job[p].srv, job[p].req) /\ Begun(c, k)
    BY <2>2 DEF AskedInv, Proper
  <2>4. PICK k \in DOMAIN Files[c] :
          ForSend(c, k, i, job[p].srv, job[p].req) /\ Begun(c, k)
    BY <2>3
  <2>5. PICK m \in Target : ForSend(c, k, m, s, r)
    BY <1>3, <2>1, <2>4, ForwardAsks DEF FcopyInv
  <2>6. r.op = "send"
    BY <2>5 DEF ForSend
  <2> QED BY <2>4, <2>5, <2>6 DEF Proper
<1>4. CASE \E l \in lost : s = l.srv /\ r = l.req
  BY <1>4 DEF AskedInv
<1> QED BY <1>1, <1>2, <1>3, <1>4 DEF Asks

\* Who creates a file waits for it.
CreatesInv == \A j \in Slot : ~At(j, "free") /\ job[j].req.op = "create" => Called(j)

\* The upload of a file has its number in the list of its client.
LEMMA UploadNumber ==
  ASSUME NEW c \in Client, NEW k \in DOMAIN Files[c]
  PROVE  k \in Nat /\ Files[c][k].name \in Name /\ Files[c][k].size \in Nat
<1>1. Files[c] \in Seq([name : Name, size : Nat])
  BY FcopyAssumption
<1>2. k \in 1..Len(Files[c]) /\ Len(Files[c]) \in Nat
  BY <1>1, LenProperties
<1>3. Files[c][k] \in [name : Name, size : Nat]
  BY <1>1, <1>2, ElementOfSeq
<1> QED BY <1>2, <1>3

\* A chunk of it has bytes, as many as are left or as a request takes.
LEMMA LenFits ==
  ASSUME NEW c \in Client, NEW k \in DOMAIN Files[c], NEW o \in ChunksOf(c, k)
  PROVE  /\ o \in Offset /\ LenOf(c, k, o) \in 1..ChunkSize
         /\ o + LenOf(c, k, o) <= Files[c][k].size
         /\ LenOf(c, k, o) = ChunkSize \/ o + LenOf(c, k, o) = Files[c][k].size
<1>1. Files[c][k].size \in Nat /\ ChunkSize \in Nat \ {0}
  BY UploadNumber, SenderAssumption
<1>2. o \in 0..Files[c][k].size-1 /\ o % ChunkSize = 0
  BY DEF ChunksOf
<1>3. o \in Offset
  BY <1>2, FcopyAssumption
<1> QED BY <1>1, <1>2, <1>3 DEF LenOf

\* A proper request stays proper.
LEMMA ProperStays ==
  ASSUME FcopyInv, BegunInv, [Next]_vars, NEW s, NEW r, Proper(s, r)
  PROVE  Proper(s, r)'
<1>1. ASSUME NEW c \in Client, NEW k \in DOMAIN Files[c], Begun(c, k)
      PROVE  Begun(c, k)'
  BY <1>1, UploadNumber, BegunStays
<1>2. \A c \in Client, i \in Target : \A k \in DOMAIN Files[c] :
        ForChain(c, k, i, s, r)' = ForChain(c, k, i, s, r)
  BY DEF ForChain, Sons, TokOf
<1>3. \A c \in Client, i \in Target : \A k \in DOMAIN Files[c] :
        ForSend(c, k, i, s, r)' = ForSend(c, k, i, s, r)
  BY DEF ForSend, ChunksOf, TokOf
<1> QED BY <1>1, <1>2, <1>3 DEF Proper

\* All that is under way stays proper.
LEMMA AskedNext ==
  ASSUME Unbroken({"shrink"}), FcopyInv, NamedTokens, BegunInv, AskedInv, TargetsInv, [Next]_vars
  PROVE  AskedInv'
<1>i. /\ ServerInv
      /\ \A j \in Slot : ~At(j, "free") => Proper(job[j].srv, job[j].req)
      /\ \A l \in lost : Proper(l.srv, l.req)
  BY DEF FcopyInv, AskedInv
<1>1. ASSUME NEW j \in Slot, job'[j].pc # "free" PROVE Proper(job[j].srv, job[j].req)'
  <2>1. PICK s, r : s = job'[j].srv /\ r = job'[j].req
    OBVIOUS
  <2>2. SUFFICES Proper(s, r)
    <3>1. ASSUME Proper(s, r) PROVE Proper(s, r)'
      BY <3>1, ProperStays
    <3> QED BY <2>1, <3>1 DEF Proper, ForSend, ForChain
  <2>3. ASSUME ~At(j, "free"), KeepsAsk(j) PROVE Proper(s, r)
    BY <1>i, <2>1, <2>3 DEF KeepsAsk
  <2>4. CASE job'[j] = job[j]
    BY <1>1, <2>3, <2>4 DEF At, KeepsAsk
  <2>5. job'[j] # NoJob
    BY <1>1 DEF NoJob
  <2>6. CASE Starts(j)
    <3>1. PICK who \in Who, x \in Server, q \in Request :
            Asks(who, x, q) /\ job'[j].srv = x /\ job'[j].req = q
      BY <2>6 DEF Starts
    <3> QED BY <2>1, <3>1, AsksProper
  <2>7. CASE Handles(j)
    BY <1>i, <2>3, <2>5, <2>7, HandledAsk
  <2>8. CASE Forwards(j)
    BY <2>3, <2>8 DEF Forwards, Marks, At
  <2>9. CASE Lingers(j)
    BY <2>1, <2>9 DEF Lingers, IsLateClose, KeepsAsk, Proper
  <2> QED BY <2>4, <2>5, <2>6, <2>7, <2>8, <2>9, JobsMove DEF Moves, Rests, CutOff, Ends
<1>2. ASSUME NEW l \in lost' PROVE Proper(l.srv, l.req)'
  <2>1. PICK s, r : s = l.srv /\ r = l.req
    OBVIOUS
  <2>2. Proper(s, r)
    <3>1. CASE l \notin lost
      <4>1. PICK j \in Slot : ~At(j, "free") /\ l = LostCall(j)
        BY <3>1, LostNext
      <4>2. s = job[j].srv /\ r = job[j].req
        BY <2>1, <4>1 DEF LostCall
      <4> QED BY <1>i, <4>1, <4>2
    <3> QED BY <1>i, <2>1, <3>1
  <2>3. Proper(s, r)'
    BY <2>2, ProperStays
  <2> QED BY <2>1, <2>3
<1> QED BY <1>1, <1>2 DEF AskedInv, At

\* Who creates a file waits for it until it is answered.
LEMMA CreatesNext ==
  ASSUME Unbroken({"create"}), FcopyInv, CreatesInv, [Next]_vars
  PROVE  CreatesInv'
<1>i. ServerInv
  BY DEF FcopyInv
<1> SUFFICES ASSUME NEW j \in Slot, job'[j].pc # "free", job'[j].req.op = "create"
             PROVE  caller'[j].who # <<"none">>
  BY DEF CreatesInv, At, Called
<1>1. job'[j] # NoJob
  BY DEF NoJob
<1>2. CASE Rests(j)
  BY <1>2 DEF Rests, CreatesInv, At, Called
<1>3. CASE CutOff(j)
  <2>1. ~At(j, "free") /\ job[j].req.op = "create"
    BY <1>3 DEF CutOff, At
  <2>2. PICK c \in Client : caller[j].who = <<"main", c>>
    BY <2>1, CreateCaller DEF CreatesInv
  <2> QED BY <1>3, <2>1, <2>2 DEF CutOff, Unbroken
<1>4. CASE Starts(j)
  BY <1>4 DEF Starts
<1>5. CASE Handles(j)
  <2>1. ~At(j, "free") /\ KeepsAsk(j)
    BY <1>i, <1>1, <1>5, HandledAsk
  <2> QED BY <1>5, <2>1 DEF Handles, KeepsAsk, CreatesInv, Called
<1>6. CASE Forwards(j)
  BY <1>6 DEF Forwards, Marks, KeepsAsk, CreatesInv, At, Called
<1>7. CASE Lingers(j)
  BY <1>7 DEF Lingers, IsLateClose, KeepsAsk
<1> QED BY <1>1, <1>2, <1>3, <1>4, <1>5, <1>6, <1>7, JobsMove DEF Moves, Ends

-----------------------------------------------------------------------------
(* The entries of an upload.                                               *)

\* The handler of a chain puts it into the entry, or reports that there is none.
LEMMA ChainSet ==
  ASSUME TypeInv, NEW j \in Slot, SetChain(j), NEW x, NEW y, x = job[j].srv, y = job[j].req.tok
  PROVE  /\ At(j, "chain")
         /\ \/ fmap' = fmap /\ fmap[x][y] = NoEntry /\ Respond(j, "EIO")
            \/ /\ fmap[x][y] # NoEntry /\ fmap'[x][y].to = job[j].req.targets
               /\ Respond(j, "ok")
               /\ \A s \in Server, t \in Token : s # x \/ t # y => fmap'[s][t] = fmap[s][t]
<1> DEFINE r == [fmap[x][y] EXCEPT !.to = job[j].req.targets]
<1>1. /\ At(j, "chain")
      /\ \/ fmap' = fmap /\ fmap[x][y] = NoEntry /\ Respond(j, "EIO")
         \/ fmap[x][y] # NoEntry /\ fmap' = [fmap EXCEPT ![x][y] = r] /\ Respond(j, "ok")
  BY DEF SetChain
<1>2. x \in Server /\ job[j].req \in Request /\ job[j].req.op = "chain"
  BY <1>1, AtJob DEF At, Shaped
<1>3. y \in Token
  BY <1>2, RequestFields
<1>4. fmap[x][y] # NoEntry => r.to = job[j].req.targets
  <2>1. fmap[x][y] # NoEntry => fmap[x][y] \in Entry
    BY <1>2, <1>3 DEF TypeInv
  <2> QED BY <2>1, Zenon DEF Entry
<1> HIDE DEF r
<1>5. CASE fmap' = [fmap EXCEPT ![x][y] = r]
  <2>1. fmap'[x][y] = r /\ \A s \in Server, t \in Token : s # x \/ t # y => fmap'[s][t] = fmap[s][t]
    BY <1>2, <1>3, <1>5 DEF TypeInv
  <2> QED BY <1>1, <1>4, <2>1
<1> QED BY <1>1, <1>5

\* What a step does to an entry.
LEMMA EntryChanges ==
  ASSUME TypeInv, [Next]_vars, NEW s \in Server, NEW t \in Token
  PROVE  \/ fmap'[s][t] \in {fmap[s][t], NoEntry}
         \/ \E j \in Slot : /\ CreateInsert(j) /\ At(j, "insert")
                            /\ s = job[j].srv /\ t = TokenOf[job[j].req.name]
                            /\ fmap'[s][t].to = <<>>
         \/ \E j \in Slot : /\ SetChain(j) /\ At(j, "chain") /\ fmap[s][t] # NoEntry
                            /\ s = job[j].srv /\ t = job[j].req.tok
                            /\ fmap'[s][t].to = job[j].req.targets
<1>2. ASSUME NEW j \in Slot, CreateInsert(j), fmap'[s][t] # fmap[s][t]
      PROVE  /\ s = job[j].srv /\ t = TokenOf[job[j].req.name] /\ At(j, "insert")
             /\ fmap'[s][t].to = <<>>
  <2> DEFINE x == job[j].srv
             y == TokenOf[job[j].req.name]
             r == [fd |-> job[j].fd, size |-> job[j].req.size, to |-> <<>>]
  <2>1. fmap' = [fmap EXCEPT ![x][y] = r] /\ At(j, "insert")
    BY <1>2, Zenon DEF CreateInsert
  <2>2. r.to = <<>>
    OBVIOUS
  <2>3. fmap'[s][t] = r /\ s = x /\ t = y
    <3> HIDE DEF x, y, r
    <3> QED BY <1>2, <2>1 DEF TypeInv
  <2> QED BY <2>1, <2>2, <2>3
<1>3. ASSUME NEW j \in Slot, SetChain(j), fmap'[s][t] # fmap[s][t]
      PROVE  /\ s = job[j].srv /\ t = job[j].req.tok /\ At(j, "chain")
             /\ fmap[s][t] # NoEntry /\ fmap'[s][t].to = job[j].req.targets
  <2>1. PICK x, y : x = job[j].srv /\ y = job[j].req.tok
    OBVIOUS
  <2> QED BY <1>3, <2>1, ChainSet
<1>4. ASSUME NEW j \in Slot, CloseErase(j)
      PROVE  fmap'[s][t] \in {fmap[s][t], NoEntry}
  <2> DEFINE x == job[j].srv
             y == job[j].req.tok
  <2>1. fmap' = fmap \/ fmap' = [fmap EXCEPT ![x][y] = NoEntry]
    BY <1>4, Zenon DEF CloseErase
  <2> HIDE DEF x, y
  <2> QED BY <2>1 DEF TypeInv
<1>5. ASSUME NEW x \in Server, Crash(x) PROVE fmap'[s][t] \in {fmap[s][t], NoEntry}
  <2>1. fmap' = [fmap EXCEPT ![x] = [u \in Token |-> NoEntry]]
    BY <1>5, Zenon DEF Crash, Restart
  <2> QED BY <2>1 DEF TypeInv
<1> QED BY <1>2, <1>3, <1>4, <1>5, TablesMove

\* No two uploads write the same file, or use the same token.
UploadsApart ==
  \A c, d \in Client : \A k \in DOMAIN Files[c], l \in DOMAIN Files[d] :
    PathOf(c, k) = PathOf(d, l) \/ TokOf(c, k) = TokOf(d, l) => c = d /\ k = l

\* The entry of target i of the k-th upload of client c.
EntryAt(c, k, i) == fmap[Dest[c][i]][TokOf(c, k)]

\* If there is one, it forwards to where it should.
Linked(c, k, i) == EntryAt(c, k, i) # NoEntry => EntryAt(c, k, i).to = Sons(c, k, i)

\* The entries of an upload that has begun are linked; its client has the chains
\* installed one by one before it begins.
Installed(c, k, i, j) ==
  /\ At(j, "reply") /\ job[j].err = "ok" /\ Called(j)
  /\ ForChain(c, k, i, job[j].srv, job[j].req)

LinkInv ==
  \A c \in Client, i \in Target : \A k \in DOMAIN Files[c] :
    /\ EntryAt(c, k, i) # NoEntry => EntryAt(c, k, i).to \in {<<>>, Sons(c, k, i)}
    /\ Begun(c, k) => Linked(c, k, i)
    /\ main[c].ph = "chain" /\ k = main[c].file /\ i < main[c].i => Linked(c, k, i)
    /\ \A j \in Slot : Installed(c, k, i, j) => Linked(c, k, i)

\* While it opens its files, an upload has not begun.
Opening(c, k) == main[c].ph = "open" /\ main[c].file = k

\* For once it has begun, it opens no file any more.
LEMMA BegunIsOpened ==
  ASSUME FcopyInv, NEW c \in Client, NEW k, Begun(c, k)
  PROVE  ~Opening(c, k)
<1>1. main[c].file \in Nat
  BY DEF FcopyInv, SenderInv, SenderTypeOK, MainState
<1>2. main[c].ph = "open" => \A w \in Worker : work[c][w].pc = "off"
  BY DEF FcopyInv, SenderInv, ClientInv, PhaseInv
<1> QED BY <1>1, <1>2 DEF Begun, Opening

\* A token tells which upload it is of.
LEMMA TokenTells ==
  ASSUME UploadsApart,
         NEW c \in Client, NEW k \in DOMAIN Files[c], NEW d \in Client, NEW l \in DOMAIN Files[d],
         TokOf(c, k) = TokOf(d, l)
  PROVE  c = d /\ k = l
BY UploadNumber DEF UploadsApart, TokOf, PathOf

\* A server is one target of a client.
LEMMA TargetTells ==
  ASSUME NEW c \in Client, NEW i \in Target, NEW m \in Target, Dest[c][i] = Dest[c][m]
  PROVE  i = m
BY FcopyAssumption

\* Who waits with a chain is the client whose turn it is.
LEMMA ChainReplier ==
  ASSUME UploadsApart, FcopyInv, NamedTokens,
         NEW c \in Client, NEW i \in Target, NEW k \in DOMAIN Files[c], NEW j \in Slot,
         Called(j), ForChain(c, k, i, job[j].srv, job[j].req)
  PROVE  ~Opening(c, k)
<1>i. TypeInv /\ CallInv /\ SenderInv
  BY DEF FcopyInv, ServerInv
<1>0. job[j].req.op = "chain" /\ job[j].req.tok = TokOf(c, k)
  BY DEF ForChain
<1>1. PICK who \in Who : who = caller[j].who /\ who # <<"none">>
                         /\ Awaits(who, job[j].srv, job[j].req)
  BY <1>i, CallerWaits
<1>2. CASE who[1] = "main"
  <2>1. PICK d \in Client : who = <<"main", d>>
    BY <1>2, WhoForms
  <2>2. main[d].at = "await" /\ job[j].req = MainReq(d)
    BY <1>1, <2>1 DEF Awaits
  <2>3. main[d].ph \in {"open", "chain", "close"} /\ main[d].i < N
    BY <1>i, <2>2 DEF SenderInv, ClientInv, PlaceInv
  <2>4. main[d].ph = "chain"
    BY <1>0, <2>2, <2>3 DEF MainReq, CreateReq, CloseReq
  <2>5. job[j].req.tok = tokens[d][main[d].i]
    BY <2>2, <2>4 DEF MainReq, SetChainReq
  <2>6. main[d].i \in Target
    BY <1>i, <2>3, SenderAssumption DEF Target, SenderInv, SenderTypeOK, MainState
  <2>7. PICK l \in DOMAIN Files[d] : l = main[d].file
    BY <1>i, FileTypes DEF SenderInv
  <2>8. tokens[d][main[d].i] = TokOf(d, l)
    BY <2>4, <2>6, <2>7 DEF NamedTokens, TokOf, File, FcopyInv, TokenInv
  <2>9. c = d
    BY <1>0, <2>5, <2>8, TokenTells
  <2> QED BY <2>4, <2>9 DEF Opening
<1>3. CASE who[1] = "work"
  <2>1. PICK d \in Client, w \in Worker : who = <<"work", d, w>>
    BY <1>3, WhoForms
  <2>2. job[j].req \in WorkReqs(d, w)
    BY <1>1, <2>1 DEF Awaits
  <2> QED BY <1>0, <2>2, WorkReqFields
<1>4. CASE who[1] = "fwd"
  <2>1. PICK p \in Slot, n \in Nat : who = <<"fwd", p, n>>
    BY <1>4, WhoForms
  <2>2. At(p, "work") /\ job[j].req = ForwardReq(p, n)
    BY <1>1, <2>1 DEF Awaits
  <2>3. job[p].req \in Request /\ job[p].req.op = "send"
    BY <1>i, <2>2, AtJob DEF At, Shaped
  <2> QED BY <1>0, <2>2, <2>3, ForwardFields
<1> QED BY <1>1, <1>2, <1>3, <1>4, WhoForms

\* An entry of an upload is made while the upload opens its files, and its chain
\* is installed as it should be.
LEMMA EntryGoes ==
  ASSUME UploadsApart, FcopyInv, CreatesInv, AskedInv, [Next]_vars,
         NEW c \in Client, NEW i \in Target, NEW k \in DOMAIN Files[c]
  PROVE  \/ EntryAt(c, k, i)' \in {EntryAt(c, k, i), NoEntry}
         \/ Opening(c, k) /\ EntryAt(c, k, i)'.to = <<>>
         \/ EntryAt(c, k, i) # NoEntry /\ EntryAt(c, k, i)'.to = Sons(c, k, i)
<1>i. ServerInv /\ TypeInv /\ CallInv
  BY DEF FcopyInv, ServerInv
<1>1. PICK s \in Server, t \in Token : s = Dest[c][i] /\ t = TokOf(c, k)
  BY UploadNumber, FcopyAssumption, ServerAssumption DEF TokOf
<1>2. EntryAt(c, k, i) = fmap[s][t] /\ EntryAt(c, k, i)' = fmap'[s][t]
  BY <1>1 DEF EntryAt, TokOf
<1>3. ASSUME NEW j \in Slot, CreateInsert(j), At(j, "insert"),
             s = job[j].srv, t = TokenOf[job[j].req.name]
      PROVE  Opening(c, k)
  <2>1. ~At(j, "free") /\ job[j].req.op = "create"
    BY <1>i, <1>3, AtJob DEF At, Shaped
  <2>2. Called(j)
    BY <2>1 DEF CreatesInv
  <2>3. PICK d \in Client : caller[j].who = <<"main", d>> /\ main[d].ph = "open"
    BY <2>1, <2>2, CreateCaller
  <2>4. PICK l \in DOMAIN Files[d] : l = main[d].file
    BY FileTypes DEF FcopyInv, SenderInv
  <2>5. job[j].req.name = File(d).name
    BY <2>3, CreateAnswers
  <2>6. TokOf(c, k) = TokOf(d, l)
    BY <1>1, <1>3, <2>4, <2>5 DEF TokOf, File
  <2>7. c = d /\ k = l
    BY <2>6, TokenTells
  <2> QED BY <2>3, <2>4, <2>7 DEF Opening
<1>4. ASSUME NEW j \in Slot, At(j, "chain"), s = job[j].srv, t = job[j].req.tok
      PROVE  job[j].req.targets = Sons(c, k, i)
  <2>1. ~At(j, "free") /\ job[j].req.op = "chain"
    BY <1>i, <1>4, AtJob DEF At, Shaped
  <2>2. PICK d \in Client, m \in Target : \E l \in DOMAIN Files[d] :
          ForChain(d, l, m, job[j].srv, job[j].req)
    BY <2>1 DEF AskedInv, Proper
  <2>3. PICK l \in DOMAIN Files[d] : ForChain(d, l, m, job[j].srv, job[j].req)
    BY <2>2
  <2>4. TokOf(c, k) = TokOf(d, l) /\ Dest[c][i] = Dest[d][m]
    BY <1>1, <1>4, <2>3 DEF ForChain
  <2>5. c = d /\ k = l
    BY <2>4, TokenTells
  <2>6. i = m
    BY <2>4, <2>5, TargetTells
  <2> QED BY <2>3, <2>5, <2>6 DEF ForChain
<1> QED BY <1>i, <1>2, <1>3, <1>4, EntryChanges

\* A linked entry stays linked.
LEMMA LinkedStays ==
  ASSUME UploadsApart, FcopyInv, CreatesInv, AskedInv, [Next]_vars,
         NEW c \in Client, NEW i \in Target, NEW k \in DOMAIN Files[c],
         ~Opening(c, k), Linked(c, k, i)
  PROVE  Linked(c, k, i)'
<1>1. Sons(c, k, i)' = Sons(c, k, i)
  BY DEF Sons, TokOf
<1>2. \/ EntryAt(c, k, i)' \in {EntryAt(c, k, i), NoEntry}
      \/ EntryAt(c, k, i) # NoEntry /\ EntryAt(c, k, i)'.to = Sons(c, k, i)
  BY EntryGoes
<1> QED BY <1>1, <1>2 DEF Linked

\* Behind the first target without children there are no others.
LEMMA LeavesLast ==
  ASSUME NEW i \in Nat, NEW m \in Nat, i <= m, Children(Method, i, N) = <<>>
  PROVE  Children(Method, m, N) = <<>>
<1>n. N \in Nat
  BY SenderAssumption
<1>1. FirstChild(Method, i) >= N
  <2>1. CASE Method = "tree" /\ 2*i + 2 < N
    BY <2>1 DEF Children
  <2>2. CASE ~(Method = "tree" /\ 2*i + 2 < N)
    <3>1. FirstChild(Method, i) \in Nat
      BY DEF FirstChild
    <3>2. Children(Method, i, N) = IF FirstChild(Method, i) < N THEN <<FirstChild(Method, i)>> ELSE <<>>
      BY <2>2, Zenon DEF Children
    <3> QED BY <1>n, <3>1, <3>2
  <2> QED BY <2>1, <2>2
<1>2. FirstChild(Method, m) >= FirstChild(Method, i)
  BY DEF FirstChild
<1>3. ~(2*m + 2 < N /\ Method = "tree") /\ ~(FirstChild(Method, m) < N)
  BY <1>n, <1>1, <1>2 DEF FirstChild
<1> QED BY <1>3, Zenon DEF Children

\* A chain is installed by its handler.
LEMMA InstalledLinks ==
  ASSUME ServerInv, NEW c \in Client, NEW i \in Target, NEW k \in DOMAIN Files[c],
         NEW j \in Slot, Handles(j), Installed(c, k, i, j)'
  PROVE  Linked(c, k, i)'
<1>i. TypeInv
  BY DEF ServerInv
<1>1. ~At(j, "free") /\ (KeepsAsk(j) \/ job'[j] = NoJob)
  BY HandledAsk
<1>2. job'[j] # NoJob
  BY DEF Installed, At, NoJob
<1>3. KeepsAsk(j)
  BY <1>1, <1>2
<1>4. ForChain(c, k, i, job[j].srv, job[j].req)
  <2>1. ForChain(c, k, i, job'[j].srv, job'[j].req)
    BY DEF Installed, ForChain, Sons, TokOf
  <2> QED BY <1>3, <2>1 DEF KeepsAsk
<1>5. job[j].pc \in {"chain", "reply"}
  <2>1. job[j].req.op = "chain" /\ Shaped(job[j]) /\ job[j].pc \in JobPc
    BY <1>i, <1>1, <1>4, AtJob DEF ForChain
  <2> QED BY <2>1 DEF Shaped, JobPc
<1>6. SetChain(j)
  <2>1. At(j, "reply") \/ At(j, "chain")
    BY <1>5 DEF At
  <2> QED BY <2>1 DEF At, Handles, JobStep, JobFails, CreateOpen, CreateInsert, SendLookup, SendWrite,
                SendJoin, CloseHas, CloseErase, CloseTruncate, CloseFd, CreateRejected,
                SendWriteFails, SendWriteShort
<1>7. job'[j].err = "ok"
  BY DEF Installed
<1>8. ~Respond(j, "EIO")
  BY <1>1, <1>7, Responded
<1>9. PICK x, y : x = job[j].srv /\ y = job[j].req.tok
  OBVIOUS
<1>10. fmap'[x][y].to = job[j].req.targets
  BY <1>i, <1>6, <1>8, <1>9, ChainSet
<1>11. EntryAt(c, k, i)' = fmap'[x][y] /\ Sons(c, k, i)' = job[j].req.targets
  BY <1>4, <1>9 DEF ForChain, EntryAt, Sons, TokOf
<1> QED BY <1>10, <1>11 DEF Linked

\* LinkInv is kept by every step.
LEMMA LinkNext ==
  ASSUME UploadsApart, FcopyInv, NamedTokens, BegunInv, CreatesInv, AskedInv,
         LinkInv, [Next]_vars
  PROVE  LinkInv'
<1>i. ServerInv /\ SenderInv /\ CallInv
  BY DEF FcopyInv
<1> SUFFICES ASSUME NEW c \in Client, NEW i \in Target, NEW k \in DOMAIN Files[c]
             PROVE  /\ EntryAt(c, k, i)' # NoEntry
                         => EntryAt(c, k, i)'.to \in {<<>>, Sons(c, k, i)'}
                    /\ Begun(c, k)' => Linked(c, k, i)'
                    /\ main'[c].ph = "chain" /\ k = main'[c].file /\ i < main'[c].i
                         => Linked(c, k, i)'
                    /\ \A j \in Slot : Installed(c, k, i, j)' => Linked(c, k, i)'
  BY DEF LinkInv
<1>s. Sons(c, k, i)' = Sons(c, k, i)
  BY DEF Sons, TokOf
<1>n. main[c].file \in Nat /\ main[c].i \in Nat /\ k \in Nat /\ i \in Nat
  BY <1>i, UploadNumber DEF SenderInv, SenderTypeOK, MainState, Target
<1>1. EntryAt(c, k, i)' # NoEntry => EntryAt(c, k, i)'.to \in {<<>>, Sons(c, k, i)'}
  BY <1>s, EntryGoes DEF LinkInv
<1>2. ~Opening(c, k) /\ Linked(c, k, i) => Linked(c, k, i)'
  BY LinkedStays
<1>3. Begun(c, k) => Linked(c, k, i)'
  BY <1>2, <1>i, BegunIsOpened DEF LinkInv
<1>4. ASSUME main[c].ph = "chain", k = main[c].file, i < main[c].i
      PROVE  Linked(c, k, i)'
  BY <1>2, <1>4 DEF LinkInv, Opening
<1>5. ASSUME Begins(c), k = main[c].file PROVE Linked(c, k, i)'
  <2>1. CASE i < main[c].i
    BY <1>4, <1>5, <2>1 DEF Begins
  <2>2. CASE ~(i < main[c].i)
    <3>1. Children(Method, i, N) = <<>>
      BY <1>n, <1>5, <2>2, LeavesLast DEF Begins
    <3>2. Sons(c, k, i) = <<>>
      BY <3>1 DEF Sons
    <3> QED BY <1>1, <1>s, <3>2 DEF Linked
  <2> QED BY <2>1, <2>2
<1>6. Begun(c, k)' => Linked(c, k, i)'
  BY <1>n, <1>3, <1>5, BegunStays
<1>7. ASSUME Chained(c), k = main[c].file, i = main[c].i PROVE Linked(c, k, i)'
  <2>1. PICK j \in Slot : At(j, "reply") /\ job[j].err = "ok" /\ caller[j].who = <<"main", c>>
    BY <1>7 DEF Chained
  <2>2. Called(j)
    BY <2>1 DEF Called
  <2>3. job[j].srv = Dest[c][i] /\ job[j].req = MainReq(c)
    BY <1>i, <1>7, <2>1, <2>2, CallerWaits DEF Awaits
  <2>4. main[c].ph = "chain"
    BY <1>7 DEF Chained
  <2>5. Installed(c, k, i, j)
    BY <1>7, <2>1, <2>2, <2>3, <2>4, ChainAsks DEF Installed
  <2>6. Linked(c, k, i)
    BY <2>5 DEF LinkInv
  <2> QED BY <1>2, <2>4, <2>6 DEF Opening
<1>8. ASSUME main'[c].ph = "chain", k = main'[c].file, i < main'[c].i
      PROVE  Linked(c, k, i)'
  <2>1. CASE Stands(c)
    BY <1>n, <1>4, <1>8, <2>1 DEF Stands
  <2>2. CASE Chained(c)
    <3>1. main[c].ph = "chain" /\ main'[c].i = main[c].i + 1 /\ main'[c].file = main[c].file
      BY <2>2 DEF Chained
    <3> QED BY <1>n, <1>4, <1>7, <1>8, <2>2, <3>1
  <2>3. CASE Begins(c) \/ Renews(c)
    BY <1>8, <2>3 DEF Begins, Renews
  <2>4. CASE Gains(c)
    BY <1>4, <1>8, <2>4 DEF Gains
  <2> QED BY <2>1, <2>2, <2>3, <2>4, ClientsMove
<1>9. ASSUME NEW j \in Slot, Installed(c, k, i, j)' PROVE Linked(c, k, i)'
  <2>1. At(j, "reply")' /\ Called(j)' /\ job'[j].req.op = "chain"
    BY <1>9 DEF Installed, ForChain
  <2>2. CASE Rests(j)
    <3>1. Installed(c, k, i, j)
      BY <1>9, <2>2 DEF Rests, Installed, At, Called, ForChain, Sons, TokOf
    <3>2. Linked(c, k, i)
      BY <3>1 DEF LinkInv
    <3>3. ~Opening(c, k)
      BY <3>1, ChainReplier DEF Installed
    <3> QED BY <1>2, <3>2, <3>3
  <2>3. CASE Handles(j)
    BY <1>i, <1>9, <2>3, InstalledLinks
  <2>4. CASE CutOff(j)
    BY <2>1, <2>4 DEF CutOff, Called, Nobody
  <2>5. CASE Ends(j)
    BY <2>1, <2>5 DEF Ends, At, NoJob
  <2>6. CASE Starts(j)
    <3>1. PICK r \in Request : job'[j].pc = FirstPc(r)
      BY <2>6 DEF Starts
    <3>2. r.op \in {"create", "chain", "send", "close"}
      BY DEF Request
    <3> QED BY <2>1, <3>1, <3>2 DEF FirstPc, At
  <2>7. CASE Forwards(j) \/ Lingers(j)
    BY <2>1, <2>7 DEF Forwards, Marks, Lingers, At
  <2> QED BY <2>2, <2>3, <2>4, <2>5, <2>6, <2>7, JobsMove DEF Moves
<1> QED BY <1>1, <1>6, <1>8, <1>9

\* No chain is installed at the beginning.
LEMMA LinkInit == ASSUME Init PROVE LinkInv /\ AskedInv /\ CreatesInv /\ TargetsInv
<1>1. \A j \in Slot : job[j].pc = "free"
  BY DEF Init, ServerInit, NoJob
<1>2. \A c \in Client : main[c].ph = "open" /\ main[c].file = 1 /\ \A w \in Worker : work[c][w].pc = "off"
  BY DEF Init, SenderInit, FreshMain, IdleWorkers
<1>3. \A c \in Client, i \in Target : \A k \in DOMAIN Files[c] :
        EntryAt(c, k, i) = NoEntry /\ ~Begun(c, k)
  <2> SUFFICES ASSUME NEW c \in Client, NEW i \in Target, NEW k \in DOMAIN Files[c]
               PROVE  EntryAt(c, k, i) = NoEntry /\ ~Begun(c, k)
    OBVIOUS
  <2>1. Dest[c][i] \in Server /\ TokOf(c, k) \in Token
    BY UploadNumber, FcopyAssumption, ServerAssumption DEF TokOf
  <2>2. k \in 1..Len(Files[c])
    BY FcopyAssumption, LenProperties
  <2> QED BY <1>2, <2>1, <2>2 DEF Init, ServerInit, EntryAt, Begun
<1> QED BY <1>1, <1>2, <1>3 DEF LinkInv, Linked, Installed, AskedInv, CreatesInv, TargetsInv, At, Init

-----------------------------------------------------------------------------
(* The chunks on the disks.                                                *)

\* The chunk at offset o of the k-th upload of client c is on its target i.
Stored(c, k, i, o) == disk[Dest[c][i]][PathOf(c, k)].data[o] = <<c, k>>

\* The descriptor of a handler that has a chunk to write is open on no other file.
Fresh ==
  \A j \in Slot, c \in Client, i \in Target : \A k \in DOMAIN Files[c] :
    At(j, "work") /\ ForSend(c, k, i, job[j].srv, job[j].req) =>
      fds[job[j].srv][job[j].fd] \in {Closed, PathOf(c, k)}

\* A file that is cut behind a chunk keeps it.
LEMMA ChunkKept ==
  ASSUME NEW f \in FileState, NEW o \in Offset, NEW v, f.data[o] = v, NEW n \in Nat, o < n
  PROVE  Truncated(f, n).data[o] = v
BY DEF Truncated

\* To write a chunk again, all of it or less, changes nothing.
LEMMA ChunkAgain ==
  ASSUME NEW f \in FileState, NEW o \in Offset, NEW v, f.data[o] = v, NEW a, NEW n
  PROVE  Written(f, a, n, v).data[o] = v /\ PartWritten(f, a, n, v).data[o] = v
<1>1. f.data \in [Offset -> Source \cup {Hole}]
  BY DEF FileState
<1>2. Written(f, a, n, v).data[o] = v
  BY <1>1 DEF Written
<1>3. PartWritten(f, a, n, v).data[o] = v
  BY <1>1 DEF PartWritten
<1> QED BY <1>2, <1>3

\* A file tells which upload writes it.
LEMMA PathTells ==
  ASSUME UploadsApart,
         NEW c \in Client, NEW k \in DOMAIN Files[c], NEW d \in Client, NEW l \in DOMAIN Files[d],
         PathOf(c, k) = PathOf(d, l)
  PROVE  c = d /\ k = l
BY DEF UploadsApart

\* The chunk of a proper send that is at work.
LEMMA AtWork ==
  ASSUME ServerInv, AskedInv, NEW j \in Slot, At(j, "work")
  PROVE  /\ job[j].srv \in Server /\ job[j].fd \in Fd /\ job[j].req \in Request
         /\ job[j].req.op = "send"
         /\ \E c \in Client, i \in Target : \E k \in DOMAIN Files[c] :
              ForSend(c, k, i, job[j].srv, job[j].req) /\ Begun(c, k)
<1>1. ~At(j, "free")
  BY DEF At
<1>2. /\ job[j].srv \in Server /\ job[j].fd \in Fd /\ job[j].req \in Request
      /\ job[j].req.op = "send"
  BY <1>1, AtJob DEF ServerInv, Shaped, At
<1> QED BY <1>1, <1>2 DEF AskedInv, Proper

\* What the steps on the disks do to a chunk that is stored.
LEMMA StoredStays ==
  ASSUME UploadsApart, FcopyInv, AnnounceInv, CreatesInv, AskedInv, Fresh, [Next]_vars,
         NEW c \in Client, NEW i \in Target, NEW k \in DOMAIN Files[c], NEW o \in ChunksOf(c, k),
         Begun(c, k), Stored(c, k, i, o)
  PROVE  Stored(c, k, i, o)'
<1>i. ServerInv /\ TypeInv /\ SenderInv
  BY DEF FcopyInv, ServerInv
<1>1. PICK s \in Server, p \in Path : s = Dest[c][i] /\ p = PathOf(c, k)
  BY UploadNumber, FcopyAssumption, ServerAssumption DEF PathOf
<1>2. PICK v : v = <<c, k>>
  OBVIOUS
<1>o. o \in Offset /\ o \in Nat /\ o < Files[c][k].size /\ Files[c][k].size \in Nat
  <2>1. PICK n \in Nat : n = Files[c][k].size
    BY UploadNumber
  <2>2. o \in 0..n-1 /\ o % ChunkSize = 0
    BY <2>1 DEF ChunksOf
  <2>3. o \in Offset
    BY <2>1, <2>2, FcopyAssumption
  <2> QED BY <2>1, <2>2, <2>3
<1>f. disk[s][p] \in FileState /\ disk[s][p].data[o] = v
  BY <1>i, <1>1, <1>2 DEF TypeInv, Stored
<1>3. SUFFICES disk'[s][p].data[o] = v
  BY <1>1, <1>2 DEF Stored, PathOf
<1>4. ASSUME NEW j \in Slot, CreateOpen(j) PROVE disk'[s][p].data[o] = v
  <2>1. At(j, "open") /\ ~At(j, "free")
    BY <1>4, Zenon DEF CreateOpen, At
  <2>2. job[j].srv \in Server /\ job[j].req.op = "create" /\ job[j].req.name \in Name
    BY <1>i, <2>1, AtJob, RequestFields DEF At, Shaped
  <2>3. PICK t \in Server, q \in Path : t = job[j].srv /\ q = FileOf[job[j].req.name]
    BY <2>2, ServerAssumption
  <2>4. disk' = [disk EXCEPT ![t][q] = Truncated(disk[t][q], 0)]
    BY <1>4, <2>3 DEF CreateOpen
  <2>5. p # q
    <3>1. PICK d \in Client : caller[j].who = <<"main", d>> /\ main[d].ph = "open"
      BY <2>1, <2>2, CreateCaller DEF CreatesInv
    <3>2. PICK l \in DOMAIN Files[d] : l = main[d].file
      BY <1>i, FileTypes DEF SenderInv
    <3>3. q = PathOf(d, l)
      BY <2>3, <3>1, <3>2, CreateAnswers DEF PathOf, File
    <3>4. ASSUME p = q PROVE FALSE
      <4>1. c = d /\ k = l
        BY <1>1, <3>3, <3>4, PathTells
      <4> QED BY <3>1, <3>2, <4>1, BegunIsOpened DEF Opening
    <3> QED BY <3>4
  <2> QED BY <1>i, <1>f, <2>4, <2>5, FilePut
<1>5. ASSUME NEW j \in Slot, CloseTruncate(j) PROVE disk'[s][p].data[o] = v
  <2>1. At(j, "trunc") /\ ~At(j, "free")
    BY <1>5, Zenon DEF CloseTruncate, At
  <2>2. job[j].srv \in Server /\ job[j].fd \in Fd /\ job[j].size \in Nat
    BY <1>i, <2>1, AtJob DEF At, Shaped
  <2>3. PICK t \in Server, f \in Fd : t = job[j].srv /\ f = job[j].fd
    BY <2>2
  <2>4. CASE fds[t][f] = Closed
    BY <1>5, <1>f, <2>3, <2>4 DEF CloseTruncate
  <2>5. CASE fds[t][f] # Closed
    <3>1. PICK q \in Path : q = fds[t][f]
      BY <1>i, <2>5 DEF TypeInv
    <3>2. PICK n \in Nat : n = job[j].size
      BY <2>2
    <3>3. disk' = [disk EXCEPT ![t][q] = Truncated(disk[t][q], n)]
      BY <1>5, <2>3, <2>5, <3>1, <3>2 DEF CloseTruncate
    <3>4. p = q => n = Files[c][k].size
      <4>1. Announced(q, n)
        BY <2>1, <2>3, <3>1, <3>2 DEF AnnounceInv
      <4>2. PICK d \in Client : \E l \in DOMAIN Files[d] : PathOf(d, l) = q /\ n = Files[d][l].size
        BY <4>1 DEF Announced, PathOf
      <4>3. PICK l \in DOMAIN Files[d] : PathOf(d, l) = q /\ n = Files[d][l].size
        BY <4>2
      <4> QED BY <1>1, <4>3, PathTells
    <3>5. p = q => Truncated(disk[s][p], n).data[o] = v
      <4>1. PICK g \in FileState : g = disk[s][p] /\ g.data[o] = v
        BY <1>f
      <4>2. o < n => Truncated(g, n).data[o] = v
        BY <1>o, <4>1, ChunkKept
      <4> QED BY <1>o, <3>4, <4>1, <4>2
    <3> QED BY <1>i, <1>f, <3>3, <3>5, FilePut
  <2> QED BY <2>4, <2>5
<1>6. ASSUME NEW j \in Slot, SendWrite(j) \/ SendWriteShort(j) PROVE disk'[s][p].data[o] = v
  <2>1. At(j, "work")
    BY <1>6, Zenon DEF SendWrite, SendWriteShort
  <2>2. PICK t \in Server, f \in Fd : t = job[j].srv /\ f = job[j].fd
    BY <1>i, <2>1, AtWork
  <2>3. PICK q : q = fds[t][f]
    OBVIOUS
  <2>4. CASE disk' = disk
    BY <1>f, <2>4
  <2>5. CASE disk' # disk
    <3>1. q \in Path
      <4>1. q # Closed
        BY <1>6, <2>2, <2>3, <2>5 DEF SendWrite, SendWriteShort
      <4> QED BY <1>i, <2>3, <4>1 DEF TypeInv
    <3>2. PICK a, src : a = job[j].req.off /\ src = job[j].req.src
      OBVIOUS
    <3>3. \E n : \/ disk' = [disk EXCEPT ![t][q] = Written(disk[t][q], a, n, src)]
                 \/ disk' = [disk EXCEPT ![t][q] = PartWritten(disk[t][q], a, n, src)]
      BY <1>6, <2>2, <2>3, <2>5, <3>2 DEF SendWrite, SendWriteShort
    <3>4. PICK n : \/ disk' = [disk EXCEPT ![t][q] = Written(disk[t][q], a, n, src)]
                   \/ disk' = [disk EXCEPT ![t][q] = PartWritten(disk[t][q], a, n, src)]
      BY <3>3
    <3>5. p = q => src = v
      <4>1. PICK d \in Client, m \in Target : \E l \in DOMAIN Files[d] :
              ForSend(d, l, m, job[j].srv, job[j].req)
        BY <1>i, <2>1, AtWork
      <4>2. PICK l \in DOMAIN Files[d] : ForSend(d, l, m, job[j].srv, job[j].req)
        BY <4>1
      <4>3. fds[job[j].srv][job[j].fd] \in {Closed, PathOf(d, l)}
        BY <2>1, <4>2 DEF Fresh
      <4>4. q = PathOf(d, l)
        BY <2>2, <2>3, <3>1, <4>3, ServerAssumption
      <4>5. p = q => c = d /\ k = l
        BY <1>1, <4>4, PathTells
      <4> QED BY <1>2, <3>2, <4>2, <4>5 DEF ForSend
    <3>6. p = q => /\ Written(disk[s][p], a, n, src).data[o] = v
                   /\ PartWritten(disk[s][p], a, n, src).data[o] = v
      <4>1. PICK g \in FileState : g = disk[s][p] /\ g.data[o] = v
        BY <1>f
      <4>2. Written(g, a, n, v).data[o] = v /\ PartWritten(g, a, n, v).data[o] = v
        BY <1>o, <4>1, ChunkAgain
      <4> QED BY <3>5, <4>1, <4>2
    <3>7. CASE disk' = [disk EXCEPT ![t][q] = Written(disk[t][q], a, n, src)]
      BY <1>i, <1>f, <3>1, <3>6, <3>7, FilePut
    <3>8. CASE disk' = [disk EXCEPT ![t][q] = PartWritten(disk[t][q], a, n, src)]
      BY <1>i, <1>f, <3>1, <3>6, <3>8, FilePut
    <3> QED BY <3>4, <3>7, <3>8
  <2> QED BY <2>4, <2>5
<1>7. ASSUME NEW j \in Slot, CreateInsert(j) \/ CloseFd(j) PROVE disk'[s][p].data[o] = v
  BY <1>f, <1>7, Zenon DEF CreateInsert, CloseFd
<1>8. ASSUME NEW x \in Server, Crash(x) PROVE disk'[s][p].data[o] = v
  BY <1>f, <1>8 DEF Crash, Restart
<1> QED BY <1>f, <1>4, <1>5, <1>6, <1>7, <1>8, FilesMove

\* If descriptors are not closed under a handler, its own is the one of its token.
LEMMA FreshSteady ==
  ASSUME OneFilePerToken, FcopyInv, OwnInv, SendsInv
  PROVE  Fresh
<1> SUFFICES ASSUME NEW j \in Slot, NEW c \in Client, NEW i \in Target, NEW k \in DOMAIN Files[c],
                    At(j, "work"), ForSend(c, k, i, job[j].srv, job[j].req)
             PROVE  fds[job[j].srv][job[j].fd] = PathOf(c, k)
  BY DEF Fresh
<1>1. IsSend(j)
  BY DEF IsSend, ForSend, At
<1>2. PICK d \in Client, m \in Target : SendsAt(d, m, j)
  BY <1>1 DEF SendsInv
<1>3. PICK n \in Name : FileOf[n] = fds[job[j].srv][job[j].fd] /\ TokenOf[n] = tokens[d][m]
  BY <1>2, DescriptorNames
<1>4. TokenOf[n] = TokenOf[Files[c][k].name]
  BY <1>2, <1>3 DEF SendsAt, ForSend, TokOf
<1>5. FileOf[n] = FileOf[Files[c][k].name]
  BY <1>4, UploadNumber DEF OneFilePerToken
<1> QED BY <1>3, <1>5 DEF PathOf

\* There is one upload, of one file.
OneUpload ==
  \A c, d \in Client : \A k \in DOMAIN Files[c], l \in DOMAIN Files[d] : c = d /\ k = l

\* Descriptors are open on files that are uploaded.
OpenedInv ==
  \A s \in Server, f \in Fd : fds[s][f] # Closed =>
    \E c \in Client : \E k \in DOMAIN Files[c] : fds[s][f] = PathOf(c, k)

\* Only a create opens a descriptor.
LEMMA OpenedNext ==
  ASSUME FcopyInv, AnnounceInv, OpenedInv, [Next]_vars
  PROVE  OpenedInv'
<1>i. ServerInv /\ TypeInv
  BY DEF FcopyInv, ServerInv
<1> SUFFICES ASSUME NEW s \in Server, NEW f \in Fd, fds'[s][f] # Closed
             PROVE  \E c \in Client : \E k \in DOMAIN Files[c] : fds'[s][f] = PathOf(c, k)
  BY DEF OpenedInv, PathOf
<1>1. CASE fds'[s][f] = fds[s][f]
  BY <1>1 DEF OpenedInv
<1>2. ASSUME NEW j \in Slot, CreateOpen(j), fds'[s][f] # fds[s][f]
      PROVE  \E c \in Client : \E k \in DOMAIN Files[c] : fds'[s][f] = PathOf(c, k)
  <2>1. ~At(j, "free") /\ job[j].srv \in Server /\ job[j].req.op = "create"
    <3>1. At(j, "open")
      BY <1>2, Zenon DEF CreateOpen
    <3> QED BY <1>i, <3>1, AtJob DEF At, Shaped
  <2>2. PICK c \in Client : \E k \in DOMAIN Files[c] : job[j].req.name = Files[c][k].name
    BY <2>1 DEF AnnounceInv, Wanted
  <2>3. PICK k \in DOMAIN Files[c] : job[j].req.name = Files[c][k].name
    BY <2>2
  <2>4. PICK g \in Fd : fds' = [fds EXCEPT ![job[j].srv][g] = FileOf[job[j].req.name]]
    BY <1>2 DEF CreateOpen
  <2>5. fds'[s][f] \in {fds[s][f], FileOf[job[j].req.name]}
    BY <1>i, <2>1, <2>4 DEF TypeInv
  <2> QED BY <1>2, <2>3, <2>5 DEF PathOf
<1>3. ASSUME NEW j \in Slot, CreateInsert(j) \/ CloseFd(j)
      PROVE  fds'[s][f] \in {fds[s][f], Closed}
  <2>1. PICK t, g : t = job[j].srv /\ g = job[j].fd
    OBVIOUS
  <2>2. fds' = fds \/ fds' = [fds EXCEPT ![t][g] = Closed]
    BY <1>3, <2>1 DEF CreateInsert, CloseFd
  <2> QED BY <1>i, <2>2 DEF TypeInv
<1>4. ASSUME NEW x \in Server, Crash(x) PROVE fds'[s][f] \in {fds[s][f], Closed}
  <2>1. fds' = [fds EXCEPT ![x] = [g \in Fd |-> Closed]]
    BY <1>4, Zenon DEF Crash, Restart
  <2> QED BY <1>i, <2>1 DEF TypeInv
<1>5. ASSUME NEW j \in Slot, CloseTruncate(j) \/ SendWrite(j) \/ SendWriteShort(j)
      PROVE  fds' = fds
  BY <1>5, Zenon DEF CloseTruncate, SendWrite, SendWriteShort
<1> QED BY <1>1, <1>2, <1>3, <1>4, <1>5, FilesMove

\* If there is one upload, every open descriptor is open on its file.
LEMMA FreshAlone ==
  ASSUME OneUpload, ServerInv, OpenedInv
  PROVE  Fresh
<1> SUFFICES ASSUME NEW j \in Slot, NEW c \in Client, NEW i \in Target, NEW k \in DOMAIN Files[c],
                    At(j, "work")
             PROVE  fds[job[j].srv][job[j].fd] \in {Closed, PathOf(c, k)}
  BY DEF Fresh
<1>1. PICK s \in Server, f \in Fd : s = job[j].srv /\ f = job[j].fd
  <2>1. ~At(j, "free")
    BY DEF At
  <2> QED BY <2>1, AtJob DEF ServerInv, Shaped, At
<1>2. ASSUME fds[s][f] # Closed PROVE fds[s][f] = PathOf(c, k)
  <2>1. PICK d \in Client : \E l \in DOMAIN Files[d] : fds[s][f] = PathOf(d, l)
    BY <1>2 DEF OpenedInv
  <2>2. PICK l \in DOMAIN Files[d] : fds[s][f] = PathOf(d, l)
    BY <2>1
  <2>3. c = d /\ k = l
    BY DEF OneUpload
  <2> QED BY <2>2, <2>3
<1> QED BY <1>1, <1>2

-----------------------------------------------------------------------------
(* Where a handler forwards its chunk.                                     *)

\* A chunk tells which upload and which target it is for.
LEMMA SendTells ==
  ASSUME NEW c \in Client, NEW i \in Target, NEW k, NEW d \in Client, NEW m \in Target, NEW l,
         NEW s, NEW r, ForSend(c, k, i, s, r), ForSend(d, l, m, s, r)
  PROVE  c = d /\ k = l /\ i = m
<1>1. c = d /\ k = l
  BY DEF ForSend
<1> QED BY <1>1, TargetTells DEF ForSend

\* The upload of a chunk under way has begun.
LEMMA SendsBegun ==
  ASSUME AskedInv, NEW j \in Slot, ~At(j, "free"), NEW c \in Client, NEW i \in Target, NEW k,
         ForSend(c, k, i, job[j].srv, job[j].req)
  PROVE  Begun(c, k)
<1>1. job[j].req.op = "send"
  BY DEF ForSend
<1>2. PICK d \in Client, m \in Target : \E l \in DOMAIN Files[d] :
        ForSend(d, l, m, job[j].srv, job[j].req) /\ Begun(d, l)
  BY <1>1 DEF AskedInv, Proper
<1>3. PICK l \in DOMAIN Files[d] : ForSend(d, l, m, job[j].srv, job[j].req) /\ Begun(d, l)
  BY <1>2
<1> QED BY <1>3, SendTells

\* A handler takes the targets of its chunk from an entry that is linked.
LEMMA TargetsNext ==
  ASSUME FcopyInv, AskedInv, LinkInv, TargetsInv, [Next]_vars
  PROVE  TargetsInv'
<1>i. ServerInv /\ TypeInv
  BY DEF FcopyInv, ServerInv
<1> SUFFICES ASSUME NEW j \in Slot, NEW c \in Client, NEW i \in Target, NEW k \in DOMAIN Files[c],
                    At(j, "work")', ForSend(c, k, i, job'[j].srv, job'[j].req)
             PROVE  job'[j].to = Sons(c, k, i)
  <2>1. \A c \in Client, i \in Target : \A k \in DOMAIN Files[c] :
          Sons(c, k, i)' = Sons(c, k, i)
    BY DEF Sons, TokOf
  <2>2. \A j \in Slot, c \in Client, i \in Target : \A k \in DOMAIN Files[c] :
          ForSend(c, k, i, job[j].srv, job[j].req)' <=> ForSend(c, k, i, job'[j].srv, job'[j].req)
    BY DEF ForSend, ChunksOf, TokOf
  <2> QED BY <2>1, <2>2 DEF TargetsInv
<1>1. ASSUME At(j, "work"), KeepsAsk(j), job'[j].to = job[j].to
      PROVE  job'[j].to = Sons(c, k, i)
  BY <1>1 DEF KeepsAsk, TargetsInv
<1>2. CASE job'[j] = job[j]
  BY <1>1, <1>2 DEF At, KeepsAsk
<1>3. CASE Ends(j)
  BY <1>3 DEF Ends, At, NoJob
<1>4. CASE Starts(j)
  <2>1. PICK r \in Request : job'[j].pc = FirstPc(r)
    BY <1>4 DEF Starts
  <2>2. r.op \in {"create", "chain", "send", "close"}
    BY DEF Request
  <2> QED BY <2>1, <2>2 DEF FirstPc, At
<1>5. CASE Handles(j)
  <2>1. ~At(j, "free") /\ KeepsAsk(j)
    BY <1>i, <1>5, HandledAsk DEF At, NoJob
  <2>2. CASE At(j, "work") /\ KeepsWork(j)
    BY <1>1, <2>1, <2>2 DEF KeepsWork
  <2>3. CASE SendLookup(j)
    <3>1. PICK e : e = fmap[job[j].srv][job[j].req.tok]
      OBVIOUS
    <3>2. e # NoEntry /\ job'[j].to = e.to
      BY <1>i, <2>3, <3>1, LookedUp DEF At
    <3>3. ForSend(c, k, i, job[j].srv, job[j].req)
      BY <2>1 DEF KeepsAsk
    <3>4. Linked(c, k, i)
      BY <2>1, <3>3, SendsBegun DEF LinkInv
    <3>5. e = EntryAt(c, k, i)
      BY <3>1, <3>3 DEF ForSend, EntryAt
    <3> QED BY <3>2, <3>4, <3>5 DEF Linked
  <2> QED BY <1>i, <1>5, <2>2, <2>3, HandledWork
<1>6. CASE Forwards(j)
  BY <1>1, <1>6 DEF Forwards, Marks, KeepsWork
<1>7. CASE Lingers(j)
  BY <1>7 DEF Lingers, At
<1> QED BY <1>2, <1>3, <1>4, <1>5, <1>6, <1>7, JobsMove DEF Moves, Rests, CutOff

-----------------------------------------------------------------------------
(* Where a chunk has been delivered.                                       *)

\* From its members D forwards to its members.
Downward(D) ==
  \A m \in D : \A n \in DOMAIN Children(Method, m, N) : Children(Method, m, N)[n] \in D

\* The chunk is on target i and on all that are reached from it.
Delivered(c, k, i, o) ==
  \E D \in SUBSET Target : i \in D /\ Downward(D) /\ \A m \in D : Stored(c, k, m, o)

\* Every target but the first is forwarded to by an earlier one.
LEMMA HasParent ==
  ASSUME NEW m \in Target, m # 0
  PROVE  \E p \in Target : /\ p < m
                           /\ \E n \in DOMAIN Children(Method, p, N) : Children(Method, p, N)[n] = m
<1>n. N \in Nat /\ m \in Nat /\ m < N /\ m > 0
  BY SenderAssumption DEF Target
<1>1. CASE Method = "tree"
  <2>1. PICK p \in Nat : p < m /\ (m = 2*p + 1 \/ m = 2*p + 2)
    <3>1. (m - 1) \div 2 \in Nat /\ (m - 1) \div 2 < m
          /\ (m = 2*((m - 1) \div 2) + 1 \/ m = 2*((m - 1) \div 2) + 2)
      BY <1>n
    <3> QED BY <3>1
  <2>2. p \in Target
    BY <1>n, <2>1 DEF Target
  <2>3. CASE 2*p + 2 < N
    <3>1. Children(Method, p, N) = <<2*p + 1, 2*p + 2>>
      BY <1>1, <2>3 DEF Children
    <3>2. /\ 1 \in DOMAIN Children(Method, p, N) /\ Children(Method, p, N)[1] = 2*p + 1
          /\ 2 \in DOMAIN Children(Method, p, N) /\ Children(Method, p, N)[2] = 2*p + 2
      BY <3>1
    <3> QED BY <2>1, <2>2, <3>2
  <2>4. CASE ~(2*p + 2 < N)
    <3>1. m = 2*p + 1
      BY <1>n, <2>1, <2>4
    <3>2. Children(Method, p, N) = <<m>>
      BY <1>n, <1>1, <2>4, <3>1 DEF Children, FirstChild
    <3>3. 1 \in DOMAIN Children(Method, p, N) /\ Children(Method, p, N)[1] = m
      BY <3>2
    <3> QED BY <2>1, <2>2, <3>3
  <2> QED BY <2>3, <2>4
<1>2. CASE Method # "tree"
  <2>1. PICK p \in Nat : p + 1 = m
    <3>1. m - 1 \in Nat /\ (m - 1) + 1 = m
      BY <1>n
    <3> QED BY <3>1
  <2>2. p \in Target /\ p < m
    BY <1>n, <2>1 DEF Target
  <2>3. Children(Method, p, N) = <<m>>
    BY <1>n, <1>2, <2>1 DEF Children, FirstChild
  <2>4. 1 \in DOMAIN Children(Method, p, N) /\ Children(Method, p, N)[1] = m
    BY <2>3
  <2> QED BY <2>2, <2>4
<1> QED BY <1>1, <1>2

\* So what reaches the first target and is forwarded reaches all of them.
LEMMA DownwardIsAll ==
  ASSUME NEW D \in SUBSET Target, 0 \in D, Downward(D)
  PROVE  D = Target
<1> DEFINE Bad == Target \ D
<1> SUFFICES ASSUME Bad # {} PROVE FALSE
  OBVIOUS
<1>1. Bad # {} /\ Bad \subseteq Nat
  BY DEF Target
<1> HIDE DEF Bad
<1>2. PICK m \in Bad : \A k \in Bad : <<k, m>> \notin OpToRel(<, Nat)
  BY <1>1, WFMin, NatLessThanWellFounded, Zenon
<1>3. m \in Bad /\ \A k \in Bad : ~(k < m)
  BY <1>1, <1>2, Zenon DEF OpToRel
<1> USE DEF Bad
<1>4. PICK p \in Target : /\ p < m
                          /\ \E n \in DOMAIN Children(Method, p, N) : Children(Method, p, N)[n] = m
  BY <1>3, HasParent
<1>5. p \in D
  BY <1>3, <1>4
<1>6. m \in D
  BY <1>4, <1>5 DEF Downward
<1> QED BY <1>3, <1>6

\* A chunk delivered at the first target is on every target.
LEMMA DeliveredAll ==
  ASSUME NEW c, NEW k, NEW o, Delivered(c, k, 0, o)
  PROVE  \A i \in Target : Stored(c, k, i, o)
<1>1. PICK D \in SUBSET Target : 0 \in D /\ Downward(D) /\ \A m \in D : Stored(c, k, m, o)
  BY DEF Delivered
<1> QED BY <1>1, DownwardIsAll

\* What is on a target and delivered at those it forwards to is delivered there.
LEMMA DeliveredJoins ==
  ASSUME NEW c, NEW k, NEW o, NEW i \in Target, Stored(c, k, i, o),
         \A n \in DOMAIN Children(Method, i, N) : Delivered(c, k, Children(Method, i, N)[n], o)
  PROVE  Delivered(c, k, i, o)
<1> DEFINE Good == {D \in SUBSET Target : Downward(D) /\ \A m \in D : Stored(c, k, m, o)}
           W == (UNION Good) \cup {i}
<1>1. W \in SUBSET Target /\ i \in W
  OBVIOUS
<1>2. \A m \in W : Stored(c, k, m, o)
  OBVIOUS
<1>3. ASSUME NEW n \in DOMAIN Children(Method, i, N) PROVE Children(Method, i, N)[n] \in W
  <2>1. Delivered(c, k, Children(Method, i, N)[n], o)
    BY <1>3
  <2>2. PICK D \in SUBSET Target : /\ Children(Method, i, N)[n] \in D /\ Downward(D)
                                   /\ \A m \in D : Stored(c, k, m, o)
    BY <2>1 DEF Delivered
  <2> QED BY <2>2
<1>4. ASSUME NEW D \in Good, NEW m \in D, NEW n \in DOMAIN Children(Method, m, N)
      PROVE  Children(Method, m, N)[n] \in W
  <2>1. Children(Method, m, N)[n] \in D
    BY <1>4 DEF Downward
  <2> QED BY <2>1
<1>5. Downward(W)
  <2> SUFFICES ASSUME NEW m \in W, NEW n \in DOMAIN Children(Method, m, N)
               PROVE  Children(Method, m, N)[n] \in W
    BY DEF Downward
  <2>1. CASE m = i
    BY <1>3, <2>1
  <2>2. CASE m # i
    <3>1. PICK D \in Good : m \in D
      BY <2>2
    <3> HIDE DEF Good, W
    <3> QED BY <1>4, <3>1
  <2> QED BY <2>1, <2>2
<1> HIDE DEF W
<1> QED BY <1>1, <1>2, <1>5 DEF Delivered

\* What is delivered stays so.
LEMMA DeliveredStays ==
  ASSUME UploadsApart, FcopyInv, AnnounceInv, CreatesInv, AskedInv, Fresh, [Next]_vars,
         NEW c \in Client, NEW k \in DOMAIN Files[c], NEW o \in ChunksOf(c, k),
         Begun(c, k), NEW i, Delivered(c, k, i, o)
  PROVE  Delivered(c, k, i, o)'
<1>1. PICK D \in SUBSET Target : i \in D /\ Downward(D) /\ \A m \in D : Stored(c, k, m, o)
  BY DEF Delivered
<1>2. \A m \in D : Stored(c, k, m, o)'
  BY <1>1, StoredStays
<1> QED BY <1>1, <1>2 DEF Delivered, Downward

\* All parts of a send that reports success were successful.
LEMMA ChainErrorOk ==
  ASSUME NEW errs \in Seq(Err \cup Pending), NEW wr, ChainError(errs, wr) = "ok"
  PROVE  wr = "ok" /\ \A k \in DOMAIN errs : errs[k] = "ok"
<1> DEFINE Bad == {k \in 1..Len(errs) : errs[k] # "ok"}
<1>1. Len(errs) \in Nat /\ DOMAIN errs = 1..Len(errs)
  BY LenProperties
<1>2. ASSUME \E k \in DOMAIN errs : errs[k] # "ok" PROVE FALSE
  <2>1. Bad # {} /\ Bad \subseteq Nat
    BY <1>1, <1>2
  <2> HIDE DEF Bad
  <2>2. PICK m \in Bad : \A k \in Bad : <<k, m>> \notin OpToRel(<, Nat)
    BY <2>1, WFMin, NatLessThanWellFounded, Zenon
  <2>3. m \in Bad /\ \A k \in Bad : ~(k < m)
    BY <2>1, <2>2, Zenon DEF OpToRel
  <2> USE DEF Bad
  <2>4. m \in DOMAIN errs /\ errs[m] # "ok" /\ \A i \in 1..m-1 : errs[i] = "ok"
    BY <1>1, <2>3
  <2>5. errs[CHOOSE k \in DOMAIN errs : errs[k] # "ok" /\ \A i \in 1..k-1 : errs[i] = "ok"] # "ok"
    BY <2>4
  <2> QED BY <1>2, <2>5 DEF ChainError
<1> QED BY <1>2 DEF ChainError

-----------------------------------------------------------------------------
(* What the handlers of a chunk have done.                                 *)

\* Job j, which brings a chunk to target i, has stored what it reports as
\* written, and its chunk is delivered where it was forwarded with success.
Brought(c, k, i, j) ==
  /\ At(j, "getfd") => job[j].wr = "todo"
  /\ At(j, "work") =>
       /\ job[j].wr = "ok" => Stored(c, k, i, job[j].req.off)
       /\ \A n \in DOMAIN job[j].fwd : job[j].fwd[n] = "ok" =>
            Delivered(c, k, Children(Method, i, N)[n], job[j].req.off)
  /\ At(j, "reply") /\ job[j].err = "ok" => Delivered(c, k, i, job[j].req.off)

StoreInv ==
  \A j \in Slot, c \in Client, i \in Target : \A k \in DOMAIN Files[c] :
    ~At(j, "free") /\ ForSend(c, k, i, job[j].srv, job[j].req) => Brought(c, k, i, j)

\* A handler that handles a chunk.
LEMMA HandlesSend ==
  ASSUME ServerInv, NEW j \in Slot, Handles(j), job[j].req.op = "send"
  PROVE  \/ SendLookup(j) \/ SendWrite(j) \/ SendWriteFails(j) \/ SendJoin(j)
         \/ SendWriteShort(j) /\ "short" \in FaultKinds
<1>1. ~At(j, "free")
  BY HandledAsk
<1>2. Shaped(job[j])
  BY <1>1, AtJob DEF ServerInv
<1>3. job[j].pc \notin {"open", "insert", "chain", "has", "erase", "trunc", "close"}
  BY <1>2 DEF Shaped
<1>4. /\ ~CreateOpen(j) /\ ~CreateRejected(j) /\ ~CreateInsert(j) /\ ~SetChain(j)
      /\ ~CloseHas(j) /\ ~CloseErase(j) /\ ~CloseTruncate(j) /\ ~CloseFd(j)
  BY <1>3 DEF CreateOpen, CreateRejected, CreateInsert, SetChain, CloseHas, CloseErase,
              CloseTruncate, CloseFd, At
<1> QED BY <1>4, Zenon DEF Handles, JobStep, JobFails

\* A write that succeeds writes the chunk.
LEMMA WroteChunk ==
  ASSUME ServerInv, NEW j \in Slot, SendWrite(j), job'[j].wr = "ok",
         job[j].req.off \in Offset, job[j].req.len # 0
  PROVE  \E s \in Server, p \in Path :
           /\ s = job[j].srv /\ p = fds[s][job[j].fd]
           /\ disk'[s][p].data[job[j].req.off] = job[j].req.src
<1>i. TypeInv
  BY DEF ServerInv
<1>s. PICK s \in Server, f \in Fd : s = job[j].srv /\ f = job[j].fd
  <2>1. At(j, "work") /\ ~At(j, "free")
    BY Zenon DEF SendWrite, At
  <2> QED BY <1>i, <2>1, AtJob DEF Shaped, At
<1>p. PICK p : p = fds[s][f]
  OBVIOUS
<1>v. PICK v, o : v = job[j].req.src /\ o = job[j].req.off
  OBVIOUS
<1>1. ASSUME p = Closed PROVE FALSE
  <2>1. job' = [job EXCEPT ![j].wr = "EIO"] /\ At(j, "work")
    BY <1>1, <1>s, <1>p DEF SendWrite
  <2>2. job[j] \in Job
    BY <1>i, <2>1, AtJob DEF At
  <2>3. job'[j] = [job[j] EXCEPT !.wr = "EIO"]
    BY <1>i, <2>1, Becomes
  <2>4. job'[j].wr = "EIO"
    BY <2>2, <2>3, Zenon DEF Job
  <2> QED BY <2>4
<1>2. p \in Path
  BY <1>i, <1>1, <1>p DEF TypeInv
<1>3. PICK n : n = job[j].req.len
  OBVIOUS
<1>4. disk' = [disk EXCEPT ![s][p] = Written(disk[s][p], o, n, v)]
  BY <1>1, <1>3, <1>s, <1>p, <1>v DEF SendWrite
<1>5. PICK g \in FileState : g = disk[s][p]
  BY <1>i, <1>2 DEF TypeInv
<1>6. g.data \in [Offset -> Source \cup {Hole}]
  BY DEF FileState
<1>7. Written(g, o, n, v).data[o] = v
  BY <1>3, <1>6, <1>v DEF Written
<1>8. PICK x : x = Written(disk[s][p], o, n, v)
  OBVIOUS
<1>9. disk'[s][p] = x
  <2>1. disk' = [disk EXCEPT ![s][p] = x]
    BY <1>4, <1>8
  <2> QED BY <1>i, <1>2, <2>1 DEF TypeInv
<1>10. x.data[o] = v
  BY <1>5, <1>7, <1>8
<1> QED BY <1>2, <1>9, <1>10, <1>s, <1>p, <1>v

\* A write that fails says so.
LEMMA WriteFailed ==
  ASSUME ServerInv, NEW j \in Slot, SendWriteFails(j)
  PROVE  job'[j].wr = "EIO"
<1>i. TypeInv
  BY DEF ServerInv
<1>1. job' = [job EXCEPT ![j].wr = "EIO"] /\ At(j, "work")
  BY DEF SendWriteFails
<1>2. job[j] \in Job
  BY <1>i, <1>1, AtJob DEF At
<1>3. job'[j] = [job[j] EXCEPT !.wr = "EIO"]
  BY <1>i, <1>1, Becomes
<1> QED BY <1>2, <1>3, Zenon DEF Job

\* What a handler joins has been delivered.
LEMMA Joined ==
  ASSUME ServerInv, TargetsInv, NEW j \in Slot, SendJoin(j),
         NEW c \in Client, NEW i \in Target, NEW k \in DOMAIN Files[c],
         ForSend(c, k, i, job[j].srv, job[j].req), Brought(c, k, i, j),
         job'[j].err = "ok"
  PROVE  Delivered(c, k, i, job[j].req.off)
<1>1. At(j, "work") /\ ~At(j, "free")
  BY Zenon DEF SendJoin, At
<1>2. Respond(j, ChainError(job[j].fwd, job[j].wr))
  BY DEF SendJoin
<1>3. PICK e : e = ChainError(job[j].fwd, job[j].wr)
  OBVIOUS
<1>4. e = "ok"
  BY <1>1, <1>2, <1>3, Responded
<1>5. job[j].fwd \in Seq(Err \cup Pending) /\ DOMAIN job[j].fwd = DOMAIN job[j].to
  BY <1>1, AtJob DEF ServerInv, Shaped, At
<1>6. job[j].wr = "ok" /\ \A n \in DOMAIN job[j].fwd : job[j].fwd[n] = "ok"
  BY <1>3, <1>4, <1>5, ChainErrorOk
<1>7. DOMAIN job[j].fwd = DOMAIN Children(Method, i, N)
  BY <1>1, <1>5, SonsAre DEF TargetsInv
<1>8. PICK o : o = job[j].req.off
  OBVIOUS
<1>9. /\ Stored(c, k, i, o)
      /\ \A n \in DOMAIN Children(Method, i, N) : Delivered(c, k, Children(Method, i, N)[n], o)
  BY <1>1, <1>6, <1>7, <1>8 DEF Brought
<1> QED BY <1>8, <1>9, DeliveredJoins

\* The handlers of chunks keep to it.
LEMMA StoreNext ==
  ASSUME Unbroken({"short"}), UploadsApart, FcopyInv, AnnounceInv, CreatesInv, AskedInv,
         TargetsInv, StoreInv, Fresh, [Next]_vars
  PROVE  StoreInv'
<1>i. ServerInv /\ TypeInv /\ CallInv
  BY DEF FcopyInv, ServerInv
<1> SUFFICES ASSUME NEW j \in Slot, NEW c \in Client, NEW i \in Target, NEW k \in DOMAIN Files[c],
                    ~At(j, "free")', ForSend(c, k, i, job'[j].srv, job'[j].req)
             PROVE  Brought(c, k, i, j)'
  <2>1. \A j \in Slot, c \in Client, i \in Target : \A k \in DOMAIN Files[c] :
          ForSend(c, k, i, job[j].srv, job[j].req)' <=> ForSend(c, k, i, job'[j].srv, job'[j].req)
    BY DEF ForSend, ChunksOf, TokOf
  <2> QED BY <2>1 DEF StoreInv
<1>o. PICK o \in ChunksOf(c, k) : o = job'[j].req.off
  BY DEF ForSend
<1> DEFINE Comes == /\ ForSend(c, k, i, job[j].srv, job[j].req) /\ Brought(c, k, i, j)
                   /\ job[j].req.off = o /\ Begun(c, k)
<1>k. ASSUME ~At(j, "free"), KeepsAsk(j) PROVE Comes
  <2>1. ForSend(c, k, i, job[j].srv, job[j].req) /\ job[j].req.off = o
    BY <1>o, <1>k DEF KeepsAsk
  <2> QED BY <1>k, <2>1, SendsBegun DEF StoreInv
<1>s. ASSUME Comes, Stored(c, k, i, o) PROVE Stored(c, k, i, o)'
  BY <1>s, StoredStays
<1>d. ASSUME Comes, NEW m, Delivered(c, k, m, o) PROVE Delivered(c, k, m, o)'
  BY <1>d, DeliveredStays
<1> HIDE DEF Comes
<1>b. SUFFICES /\ job'[j].pc = "getfd" => job'[j].wr = "todo"
               /\ job'[j].pc = "work" =>
                    /\ job'[j].wr = "ok" => Stored(c, k, i, o)'
                    /\ \A n \in DOMAIN job'[j].fwd : job'[j].fwd[n] = "ok" =>
                         Delivered(c, k, Children(Method, i, N)[n], o)'
               /\ job'[j].pc = "reply" /\ job'[j].err = "ok" => Delivered(c, k, i, o)'
  BY <1>o DEF Brought, At, Stored, PathOf, Delivered
<1>a. ASSUME Comes
      PROVE  /\ job[j].pc = "getfd" => job[j].wr = "todo"
             /\ job[j].pc = "work" =>
                  /\ job[j].wr = "ok" => Stored(c, k, i, o)
                  /\ \A n \in DOMAIN job[j].fwd : job[j].fwd[n] = "ok" =>
                       Delivered(c, k, Children(Method, i, N)[n], o)
             /\ job[j].pc = "reply" /\ job[j].err = "ok" => Delivered(c, k, i, o)
  BY <1>a DEF Comes, Brought, At
<1>1. CASE Rests(j) \/ CutOff(j)
  <2>1. job'[j] = job[j] /\ ~At(j, "free") /\ KeepsAsk(j)
    BY <1>1 DEF Rests, CutOff, At, KeepsAsk
  <2>2. Comes
    BY <1>k, <2>1
  <2> QED BY <1>a, <1>s, <1>d, <2>1, <2>2
<1>2. CASE Ends(j)
  BY <1>2 DEF Ends, At, NoJob
<1>3. CASE Starts(j)
  <2>1. PICK s \in Server, r \in Request : job'[j] = NewJob(s, r) /\ job'[j].pc = FirstPc(r)
                                         /\ job'[j].req = r
    BY <1>3 DEF Starts
  <2>2. r.op = "send"
    BY <2>1 DEF ForSend
  <2>3. job'[j].pc = "getfd" /\ job'[j].wr = "todo"
    BY <2>1, <2>2 DEF FirstPc, NewJob
  <2> QED BY <2>3
<1>4. CASE Handles(j)
  <2>1. ~At(j, "free") /\ KeepsAsk(j)
    BY <1>i, <1>4, HandledAsk DEF At, NoJob
  <2>2. Comes
    BY <1>k, <2>1
  <2>3. job[j].req.op = "send"
    BY <2>2 DEF Comes, ForSend
  <2>4. CASE SendLookup(j)
    <3>1. job[j].pc = "getfd"
      BY <2>4, Zenon DEF SendLookup, At
    <3>2. PICK e : e = fmap[job[j].srv][job[j].req.tok]
      OBVIOUS
    <3>3. \/ job'[j].pc = "reply" /\ job'[j].err \in {"ENOENT", "ECANCELED"}
          \/ job'[j].pc = "work" /\ job'[j].fwd = [n \in 1..Len(e.to) |-> "todo"]
             /\ job'[j].wr = job[j].wr
      BY <1>i, <2>4, <3>2, LookedUp DEF At
    <3>4. job[j].wr = "todo"
      BY <1>a, <2>2, <3>1
    <3> QED BY <3>3, <3>4
  <2>5. CASE SendWrite(j)
    <3>1. /\ job[j].pc = "work" /\ job'[j].pc = "work" /\ job'[j].fwd = job[j].fwd
      BY <1>i, <2>5, Wrote DEF At
    <3>2. ASSUME job'[j].wr = "ok" PROVE Stored(c, k, i, o)'
      <4>1. PICK v : v = <<c, k>>
        OBVIOUS
      <4>2. /\ job[j].req.src = v /\ job[j].req.off = o /\ job[j].req.len # 0
            /\ job[j].srv = Dest[c][i]
        BY <2>2, <4>1, LenFits DEF Comes, ForSend
      <4>3. o \in Offset
        BY UploadNumber, FcopyAssumption DEF ChunksOf
      <4>4. PICK s \in Server, p \in Path :
              s = job[j].srv /\ p = fds[s][job[j].fd] /\ disk'[s][p].data[o] = v
        BY <1>i, <2>5, <3>2, <4>2, <4>3, WroteChunk
      <4>5. fds[job[j].srv][job[j].fd] \in {Closed, PathOf(c, k)}
        BY <2>2, <3>1 DEF Fresh, Comes, At
      <4>6. p = PathOf(c, k)
        BY <4>4, <4>5, ServerAssumption
      <4> QED BY <4>1, <4>2, <4>4, <4>6 DEF Stored, PathOf
    <3> QED BY <1>a, <1>d, <2>2, <3>1, <3>2
  <2>6. CASE SendWriteFails(j)
    <3>1. job[j].pc = "work" /\ job'[j].pc = "work" /\ job'[j].fwd = job[j].fwd
      BY <1>i, <2>6, Wrote DEF At
    <3>2. job'[j].wr = "EIO"
      BY <1>i, <2>6, WriteFailed
    <3> QED BY <1>a, <1>d, <2>2, <3>1, <3>2
  <2>7. CASE SendJoin(j)
    <3>1. job'[j].pc = "reply"
      BY <1>i, <2>1, <2>7, Responded DEF SendJoin, At
    <3>2. ASSUME job'[j].err = "ok" PROVE Delivered(c, k, i, o)'
      <4>1. Delivered(c, k, i, o)
        BY <1>i, <2>2, <2>7, <3>2, Joined DEF Comes
      <4> QED BY <1>d, <2>2, <4>1
    <3> QED BY <3>1, <3>2
  <2> QED BY <1>i, <1>4, <2>3, <2>4, <2>5, <2>6, <2>7, HandlesSend DEF Unbroken
<1>5. CASE Forwards(j)
  <2>1. PICK q \in Nat, e \in Err \cup {"call"} :
          /\ Marks(j, q, e)
          /\ \/ e \in {"call", "EIO"}
             \/ \E p \in Slot : /\ At(p, "reply") /\ e = job[p].err
                               /\ caller[p].who = <<"fwd", j, q>>
    BY <1>5 DEF Forwards
  <2>2. /\ At(j, "work") /\ ~At(j, "free") /\ KeepsAsk(j) /\ job'[j].pc = "work"
        /\ job'[j].wr = job[j].wr /\ job'[j].fwd = [job[j].fwd EXCEPT ![q] = e]
    BY <2>1 DEF Marks, At
  <2>3. Comes
    BY <1>k, <2>2
  <2>4. ASSUME q \in DOMAIN job[j].fwd, e = "ok"
        PROVE  Delivered(c, k, Children(Method, i, N)[q], o)'
    <3>1. PICK p \in Slot : At(p, "reply") /\ job[p].err = "ok" /\ caller[p].who = <<"fwd", j, q>>
      BY <2>1, <2>4
    <3>2. Called(p) /\ ~At(p, "free")
      BY <3>1 DEF Called, At
    <3>3. job[p].srv = job[j].to[q].srv /\ job[p].req = ForwardReq(j, q)
      BY <1>i, <3>1, <3>2, CallerWaits DEF Awaits
    <3>4. q \in DOMAIN job[j].to
      BY <1>i, <2>2, <2>4, AtJob DEF Shaped, At
    <3>5. PICK m : m = Children(Method, i, N)[q]
      OBVIOUS
    <3>6. m \in Target /\ ForSend(c, k, m, job[p].srv, job[p].req) /\ job[p].req.off = o
      BY <1>i, <2>2, <2>3, <3>3, <3>4, <3>5, ForwardAsks DEF Comes
    <3>7. Delivered(c, k, m, o)
      BY <3>1, <3>2, <3>6 DEF StoreInv, Brought
    <3> QED BY <1>d, <2>3, <3>5, <3>7
  <2>5. ASSUME NEW n \in DOMAIN job'[j].fwd, job'[j].fwd[n] = "ok"
        PROVE  Delivered(c, k, Children(Method, i, N)[n], o)'
    <3>1. CASE n = q
      BY <2>2, <2>4, <2>5, <3>1
    <3>2. CASE n # q
      <4>1. n \in DOMAIN job[j].fwd /\ job[j].fwd[n] = "ok"
        BY <2>2, <2>5, <3>2
      <4> QED BY <1>a, <1>d, <2>2, <2>3, <4>1 DEF At
    <3> QED BY <3>1, <3>2
  <2> QED BY <1>a, <1>s, <2>2, <2>3, <2>5 DEF At
<1>6. CASE Lingers(j)
  BY <1>6 DEF Lingers, IsLateClose, KeepsAsk, ForSend
<1> QED BY <1>1, <1>2, <1>3, <1>4, <1>5, <1>6, JobsMove DEF Moves

-----------------------------------------------------------------------------
(* What is acknowledged is stored.                                         *)

\* A worker is told that its chunk was stored when it is on every target.
LEMMA GainedAll ==
  ASSUME FcopyInv, AskedInv, StoreInv, NEW c \in Client, NEW w \in Worker, NEW j \in Slot,
         At(j, "reply"), job[j].err = "ok", caller[j].who = <<"work", c, w>>,
         NEW k \in DOMAIN Files[c], k = main[c].file
  PROVE  \A i \in Target : Stored(c, k, i, work[c][w].off)
<1>1. Called(j) /\ ~At(j, "free")
  BY DEF Called, At
<1>2. job[j].srv = Dest[c][0] /\ job[j].req \in WorkReqs(c, w)
  BY <1>1, CallerWaits DEF Awaits, FcopyInv
<1>3. /\ job[j].req.op = "send" /\ job[j].req.off = work[c][w].off
      /\ job[j].req.src \in {Hole, <<c, k>>}
  BY <1>2, WorkReqFields
<1>4. PICK d \in Client, m \in Target : \E l \in DOMAIN Files[d] :
        ForSend(d, l, m, job[j].srv, job[j].req)
  BY <1>1, <1>3 DEF AskedInv, Proper
<1>5. PICK l \in DOMAIN Files[d] : ForSend(d, l, m, job[j].srv, job[j].req)
  BY <1>4
<1>6. d = c /\ l = k
  <2>1. <<d, l>> # Hole
    BY FcopyAssumption, DiskAssumption
  <2> QED BY <1>3, <1>5, <2>1 DEF ForSend
<1>7. 0 \in Target
  BY SenderAssumption DEF Target
<1>8. m = 0
  BY <1>2, <1>5, <1>6, <1>7, TargetTells DEF ForSend
<1>9. Delivered(c, k, 0, job[j].req.off)
  BY <1>1, <1>5, <1>6, <1>8 DEF StoreInv, Brought
<1> QED BY <1>3, <1>9, DeliveredAll

\* AckedIsStored is kept.
LEMMA AckedNext ==
  ASSUME UploadsApart, FcopyInv, AnnounceInv, BegunInv, CreatesInv, AskedInv, StoreInv, Fresh,
         AckedIsStored, [Next]_vars
  PROVE  AckedIsStored'
<1>i. SenderInv
  BY DEF FcopyInv
<1> SUFFICES ASSUME NEW c \in Client, NEW i \in Target, NEW o \in acked'[c]
             PROVE  disk'[Dest[c][i]][FileOf[Files[c][main'[c].file].name]].data[o]
                      = <<c, main'[c].file>>
  BY DEF AckedIsStored, File
<1>k. PICK k : k = main'[c].file
  OBVIOUS
<1> SUFFICES Stored(c, k, i, o)'
  BY <1>k DEF Stored, PathOf
<1>1. PICK n \in DOMAIN Files[c] : n = main[c].file
  BY <1>i, FileTypes DEF SenderInv
<1>2. ASSUME o \in ChunksOf(c, n), Begun(c, n), Stored(c, n, i, o), n = k
      PROVE  Stored(c, k, i, o)'
  BY <1>2, StoredStays
<1>3. ASSUME o \in acked[c], n = k PROVE Stored(c, k, i, o)'
  <2>1. Begun(c, n) /\ o \in ChunksOf(c, n)
    BY <1>1, <1>3 DEF BegunInv
  <2>2. Stored(c, n, i, o)
    BY <1>1, <1>3 DEF AckedIsStored, Stored, PathOf, File
  <2> QED BY <1>2, <1>3, <2>1, <2>2
<1>4. CASE Stands(c) \/ Begins(c) \/ Chained(c)
  BY <1>k, <1>1, <1>3, <1>4 DEF Stands, Begins, Chained
<1>5. CASE Renews(c)
  BY <1>5 DEF Renews
<1>6. CASE Gains(c)
  <2>1. PICK w \in Worker, j \in Slot :
          /\ work[c][w].pc = "call" /\ acked'[c] = acked[c] \cup {work[c][w].off}
          /\ At(j, "reply") /\ job[j].err = "ok" /\ caller[j].who = <<"work", c, w>>
    BY <1>6 DEF Gains
  <2>2. n = k
    BY <1>k, <1>1, <1>6 DEF Gains
  <2>3. CASE o \in acked[c]
    BY <1>3, <2>2, <2>3
  <2>4. CASE o = work[c][w].off
    <3>1. Stored(c, n, i, o)
      BY <1>1, <2>1, <2>4, GainedAll
    <3>2. Begun(c, n)
      BY <1>1, <2>1 DEF Begun
    <3>3. o \in ChunksOf(c, n)
      <4>1. main[c].ph = "send" /\ work[c][w].off \in Offsets(c)
        <5>1. ClientInv(c) /\ SenderTypeOK
          BY <1>i DEF SenderInv
        <5> QED BY <2>1, <5>1, ActiveWorker DEF ClientInv, ClaimInv, Busy
      <4> QED BY <1>1, <2>4, <4>1 DEF Offsets, ChunksOf, Size
    <3> QED BY <1>2, <2>2, <3>1, <3>2, <3>3
  <2> QED BY <2>1, <2>3, <2>4
<1> QED BY <1>4, <1>5, <1>6, ClientsMove

\* All that has been said of the uploads, together.
CopiesInv ==
  /\ NamedTokens /\ AnnounceInv /\ BegunInv /\ CreatesInv /\ AskedInv
  /\ LinkInv /\ TargetsInv /\ StoreInv /\ AckedIsStored

\* They hold at the beginning.
LEMMA CopiesInit == Init => CopiesInv
<1> SUFFICES ASSUME Init PROVE CopiesInv
  OBVIOUS
<1>1. (\A j \in Slot : job[j].pc = "free") /\ lost = {}
  BY DEF Init, ServerInit, NoJob
<1>2. AnnounceInv
  <2>1. \A s \in Server, t \in Token : fmap[s][t] = NoEntry
    BY DEF Init, ServerInit
  <2> QED BY <1>1, <2>1 DEF AnnounceInv, At
<1>3. StoreInv
  BY <1>1 DEF StoreInv, At
<1>4. AckedIsStored
  BY DEF Init, SenderInit, AckedIsStored
<1> QED BY <1>2, <1>3, <1>4, OwnInit, BegunInit, LinkInit DEF CopiesInv

\* Each is kept because of the others.
LEMMA CopiesNext ==
  ASSUME Unbroken({"create", "short", "shrink"}), UploadsApart, FcopyInv, CopiesInv, Fresh,
         [Next]_vars
  PROVE  CopiesInv'
<1>1. /\ Unbroken({"create"}) /\ Unbroken({"short"}) /\ Unbroken({"shrink"})
  BY DEF Unbroken
<1>2. /\ NamedTokens /\ AnnounceInv /\ BegunInv /\ CreatesInv /\ AskedInv
      /\ LinkInv /\ TargetsInv /\ StoreInv /\ AckedIsStored
  BY DEF CopiesInv
<1>3. NamedTokens' /\ AnnounceInv' /\ BegunInv'
  BY <1>2, NamedNext, AnnounceNext, BegunNext
<1>4. CreatesInv' /\ AskedInv'
  BY <1>1, <1>2, CreatesNext, AskedNext
<1>5. LinkInv' /\ TargetsInv'
  BY <1>2, LinkNext, TargetsNext
<1>6. StoreInv' /\ AckedIsStored'
  BY <1>1, <1>2, StoreNext, AckedNext
<1> QED BY <1>3, <1>4, <1>5, <1>6 DEF CopiesInv

\* No descriptor is open at the beginning.
LEMMA OpenedInit == Init => OpenedInv
BY DEF Init, ServerInit, OpenedInv

\* The uploads that are proved to be stored: a single one, whatever happens to
\* it, or several ones whose descriptors nobody closes early.
Sheltered == OneUpload \/ (Steady /\ OneFilePerToken /\ UploadsApart)

\* AckedIsStored, with any number of targets, workers and chunks, for the chain
\* and the tree, also when writes and local calls fail and, in a single upload,
\* when connections break after the creates and servers go down.
THEOREM AckedChunksAreStored ==
  Unbroken({"create", "short", "shrink"}) /\ Sheltered => (Spec => []AckedIsStored)
<1>1. CopiesInv => AckedIsStored
  BY DEF CopiesInv
<1>2. ASSUME Unbroken({"create", "short", "shrink"}), Steady, OneFilePerToken, UploadsApart
      PROVE  Spec => []AckedIsStored
  <2>1. FcopyInv /\ OwnInv /\ SendsInv /\ CopiesInv /\ [Next]_vars => CopiesInv'
    BY <1>2, FreshSteady, CopiesNext
  <2> QED BY <1>1, <1>2, <2>1, CopiesInit, ChunksOnRoute, SystemKeepsInv, PTL DEF Spec
<1>3. ASSUME Unbroken({"create", "short", "shrink"}), OneUpload
      PROVE  Spec => []AckedIsStored
  <2>1. UploadsApart
    BY <1>3 DEF OneUpload, UploadsApart
  <2>2. FcopyInv /\ OpenedInv /\ CopiesInv => Fresh
    BY <1>3, FreshAlone DEF FcopyInv
  <2>3. FcopyInv /\ OpenedInv /\ CopiesInv /\ [Next]_vars => CopiesInv' /\ OpenedInv'
    BY <1>3, <2>1, <2>2, CopiesNext, OpenedNext DEF CopiesInv
  <2> QED BY <1>1, <2>3, CopiesInit, OpenedInit, SystemKeepsInv, PTL DEF Spec
<1> QED BY <1>2, <1>3 DEF Sheltered

-----------------------------------------------------------------------------
(* What a step does to the tokens of a client.                             *)

\* They stay, with the file that they are for, and a client that closes goes on.
Retains(c) ==
  /\ main'[c].file = main[c].file /\ \A i \in Target : tokens'[c][i] = tokens[c][i]
  /\ main[c].ph \in {"close", "done"} => main'[c].ph \in {"close", "done"}

\* All but that of its target stay, which is told of a success in its phase ph.
Turns(c, ph) ==
  /\ main[c].ph = ph /\ main'[c].file = main[c].file /\ main[c].i \in Target
  /\ \A i \in Target \ {main[c].i} : tokens'[c][i] = tokens[c][i]
  /\ \E j \in Slot : At(j, "reply") /\ job[j].err = "ok" /\ caller[j].who = <<"main", c>>

\* It goes on to its next file without any.
Resets(c) ==
  /\ main[c].ph = "done" /\ main[c].err = "ok" /\ main'[c].ph = "open"
  /\ main'[c].file = main[c].file + 1 /\ \A i \in Target : tokens'[c][i] = NoToken

TokensMove(c) ==
  \/ Retains(c) \/ Resets(c)
  \/ Turns(c, "open") /\ main'[c].ph \in {"open", "chain"}
  \/ Turns(c, "close") /\ main'[c].ph = "close" /\ tokens'[c][main[c].i] = NoToken

\* A client that nothing happens to.
LEMMA StillRetains ==
  ASSUME NEW c \in Client, main'[c] = main[c], tokens'[c] = tokens[c]
  PROVE  TokensMove(c)
BY DEF TokensMove, Retains

\* Its main coroutine goes on by itself.
LEMMA AloneRetains ==
  ASSUME SenderInv, NEW c \in Client, MainInternal(c) \/ LocalOpenFails(c)
  PROVE  \A d \in Client : TokensMove(d)
<1>t. main \in [Client -> MainState] /\ tokens \in [Client -> [Target -> Token \cup {NoToken}]]
  BY DEF SenderInv, SenderTypeOK
<1>1. \A d \in Client \ {c} : TokensMove(d)
  BY OthersSame, StillRetains DEF SenderInv, MainStep, Same
<1>2. CASE NextFile(c)
  <2>1. /\ main[c].ph = "done" /\ main[c].err = "ok"
        /\ main'[c] = FreshMain(main[c].file + 1) /\ tokens'[c] = NoTokens
    BY <1>t, <1>2 DEF NextFile
  <2>2. Resets(c)
    BY <2>1, SMT DEF FreshMain, NoTokens, Resets
  <2> QED BY <1>1, <2>2 DEF TokensMove
<1>3. CASE StartSend(c) \/ JoinSend(c) \/ CloseSkips(c) \/ Finish(c) \/ LocalOpenFails(c)
  <2>1. tokens' = tokens
    BY <1>3 DEF StartSend, JoinSend, CloseSkips, Finish, LocalOpenFails
  <2>2. main'[c].file = main[c].file
        /\ (main[c].ph \in {"close", "done"} => main'[c].ph \in {"close", "done"})
    BY <1>t, <1>3, SMT DEF StartSend, JoinSend, CloseSkips, Finish, LocalOpenFails, GiveUp,
                          MainState
  <2>3. Retains(c)
    BY <2>1, <2>2 DEF Retains
  <2> QED BY <1>1, <2>3 DEF TokensMove
<1> QED BY <1>2, <1>3 DEF MainInternal

\* A call of its main coroutine returns.
LEMMA ReturnRetains ==
  ASSUME SenderInv, NEW c \in Client, NEW e, NEW t,
         OpenReturns(c, e, t) \/ ChainReturns(c, e) \/ CloseReturns(c, e),
         e = "ok" => \E j \in Slot : /\ At(j, "reply") /\ job[j].err = "ok"
                                     /\ caller[j].who = <<"main", c>>
  PROVE  \A d \in Client : TokensMove(d)
<1>t. main \in [Client -> MainState] /\ tokens \in [Client -> [Target -> Token \cup {NoToken}]]
  BY DEF SenderInv, SenderTypeOK
<1>1. \A d \in Client \ {c} : TokensMove(d)
  <2>1. \A d \in Client \ {c} : main'[d] = main[d] /\ tokens'[d] = tokens[d]
    BY <1>t DEF OpenReturns, ChainReturns, CloseReturns, GiveUp
  <2> QED BY <2>1, StillRetains
<1>2. main'[c].file = main[c].file
  BY <1>t, SMT DEF OpenReturns, ChainReturns, CloseReturns, GiveUp, MainState
<1>3. main[c].i \in Target
  <2>1. main[c].i \in 0..N /\ main[c].i < N
    BY <1>t, SMT DEF SenderInv, ClientInv, PlaceInv, OpenReturns, ChainReturns, CloseReturns,
                     Waits, MainState
  <2> QED BY <2>1, SenderAssumption DEF Target
<1>4. CASE tokens' = tokens
  <2>1. main[c].ph \in {"close", "done"} => main'[c].ph \in {"close", "done"}
    BY <1>t, SMT DEF OpenReturns, ChainReturns, CloseReturns, Waits, MainState
  <2> QED BY <1>1, <1>2, <1>4, <2>1 DEF TokensMove, Retains
<1>5. CASE e = "ok" /\ OpenReturns(c, e, t)
  <2>1. /\ main[c].ph = "open" /\ tokens' = [tokens EXCEPT ![c][main[c].i] = t]
        /\ main'[c].ph \in {"open", "chain"}
    BY <1>t, <1>5, SMT DEF OpenReturns, Waits, MainState
  <2>2. \A i \in Target \ {main[c].i} : tokens'[c][i] = tokens[c][i]
    BY <1>t, <2>1
  <2> QED BY <1>1, <1>2, <1>3, <1>5, <2>1, <2>2 DEF TokensMove, Turns
<1>6. CASE e = "ok" /\ CloseReturns(c, e)
  <2>1. /\ main[c].ph = "close" /\ tokens' = [tokens EXCEPT ![c][main[c].i] = NoToken]
        /\ main'[c].ph = "close"
    BY <1>t, <1>6, SMT DEF CloseReturns, Waits, MainState
  <2>2. /\ \A i \in Target \ {main[c].i} : tokens'[c][i] = tokens[c][i]
        /\ tokens'[c][main[c].i] = NoToken
    BY <1>t, <1>3, <2>1
  <2> QED BY <1>1, <1>2, <1>3, <1>6, <2>1, <2>2 DEF TokensMove, Turns
<1> QED BY <1>4, <1>5, <1>6 DEF OpenReturns, ChainReturns, CloseReturns

\* Every step does one of these to each client.
LEMMA AllTokensMove ==
  ASSUME FcopyInv, [Next]_vars
  PROVE  \A c \in Client : TokensMove(c)
<1>i. SenderInv /\ CallInv
  BY DEF FcopyInv
<1>0. ASSUME main' = main, tokens' = tokens PROVE \A c \in Client : TokensMove(c)
  BY <1>0, StillRetains
<1>1. ASSUME NEW c \in Client, MainCalls(c) PROVE \A d \in Client : TokensMove(d)
  <2>1. /\ main'[c].ph = main[c].ph /\ main'[c].file = main[c].file /\ tokens' = tokens
        /\ \A d \in Client \ {c} : main'[d] = main[d]
    BY <1>i, <1>1, CallMade DEF MainCalls
  <2>2. Retains(c)
    BY <2>1 DEF Retains
  <2> QED BY <2>1, <2>2, StillRetains DEF TokensMove
<1>2. ASSUME NEW who \in Who, NEW e, NEW t, Resume(who, e, t),
             e = "ok" => \E j \in Slot : At(j, "reply") /\ job[j].err = "ok" /\ caller[j].who = who
      PROVE  \A c \in Client : TokensMove(c)
  <2>1. CASE who[1] = "main"
    <3>1. PICK c \in Client : who = <<"main", c>>
      BY <2>1, WhoForms
    <3>2. OpenReturns(c, e, t) \/ ChainReturns(c, e) \/ CloseReturns(c, e)
      BY <1>2, <2>1, <3>1 DEF Resume
    <3>3. e = "ok" => \E j \in Slot : /\ At(j, "reply") /\ job[j].err = "ok"
                                      /\ caller[j].who = <<"main", c>>
      BY <1>2, <3>1
    <3> QED BY <1>i, <3>2, <3>3, ReturnRetains
  <2>2. CASE who[1] # "main"
    <3>1. main' = main /\ tokens' = tokens
      BY <1>2, <2>2 DEF Resume, SendReturns, senderVars
    <3> QED BY <1>0, <3>1
  <2> QED BY <2>1, <2>2
<1>3. ASSUME NEW j \in Slot, Reply(j) PROVE \A c \in Client : TokensMove(c)
  <2>1. PICK who \in Who : who = caller[j].who
    BY <1>i DEF CallInv, CallerInv
  <2>2. PICK e, t : e = job[j].err /\ t = Answer(j)
    OBVIOUS
  <2>3. At(j, "reply") /\ (UNCHANGED senderVars \/ Resume(who, e, t))
    BY <1>3, <2>1, <2>2 DEF Reply
  <2> QED BY <1>0, <1>2, <2>1, <2>2, <2>3 DEF senderVars
<1>4. ASSUME NEW l \in lost, GiveUpCall(l) PROVE \A c \in Client : TokensMove(c)
  <2>1. PICK who \in Who : who = l.who
    BY <1>i DEF CallInv, LostInv
  <2>2. UNCHANGED senderVars \/ Resume(who, "EIO", NoToken)
    BY <1>4, <2>1 DEF GiveUpCall
  <2>3. PICK e : e = "EIO" /\ e # "ok"
    OBVIOUS
  <2> QED BY <1>0, <1>2, <2>2, <2>3 DEF senderVars
<1>5. ASSUME NEW c \in Client, NEW w \in Worker, ClientWorker(c, w)
      PROVE  main' = main /\ tokens' = tokens
  BY <1>5 DEF ClientWorker, WorkerCalls, WorkerRead, WorkerCheck, WorkerClaim, WorkerFail,
              WorkerAlloc
<1>6. ASSUME NEW j \in Slot, ServerStep(j) \/ ServerFails(j) \/ Disconnect(j)
      PROVE  \A c \in Client : TokensMove(c)
  <2>1. UNCHANGED senderVars \/ Reply(j)
    BY <1>6 DEF ServerStep, ServerFails, Disconnect, Forward
  <2> QED BY <1>0, <1>3, <2>1 DEF senderVars
<1>7. CASE \/ \E l \in lost : Redial(l)
           \/ \E s \in Server : Crash(s)
           \/ UNCHANGED vars
  BY <1>0, <1>7 DEF Redial, Crash, vars, senderVars
<1>8. ASSUME NEW c \in Client, ClientMain(c) \/ ClientFails(c)
      PROVE  \A d \in Client : TokensMove(d)
  <2>1. MainCalls(c) \/ MainInternal(c) \/ LocalOpenFails(c)
    BY <1>8 DEF ClientMain, ClientFails
  <2> QED BY <1>i, <1>1, <2>1, AloneRetains
<1> QED BY <1>0, <1>4, <1>5, <1>6, <1>7, <1>8 DEF Next, RetryStep

-----------------------------------------------------------------------------
(* What the closes under way are for.                                      *)

\* The k-th upload of client c sends no chunk any more.
Past(c, k) ==
  k < main[c].file \/ (k = main[c].file /\ main[c].ph \in {"close", "done"})

\* r asks server s, as target i of that upload, to close its copy.
ForClose(c, k, i, s, r) == r.op = "close" /\ s = Dest[c][i] /\ r.tok = TokOf(c, k)

\* Each close is for an upload that is past its transfer.
Due(s, r) ==
  r.op = "close" =>
    /\ r.wait = WaitClose
    /\ \E c \in Client, i \in Target : \E k \in DOMAIN Files[c] :
         ForClose(c, k, i, s, r) /\ Past(c, k)

\* All closes are, those of calls that broke included.
ClosesInv ==
  /\ \A j \in Slot : ~At(j, "free") => Due(job[j].srv, job[j].req)
  /\ \A l \in lost : Due(l.srv, l.req)

\* An upload that is past its transfer stays so.
LEMMA PastStays ==
  ASSUME FcopyInv, [Next]_vars, NEW c \in Client, NEW k \in Nat, Past(c, k)
  PROVE  Past(c, k)'
<1>1. main[c].file \in Nat
  BY DEF FcopyInv, SenderInv, SenderTypeOK, MainState
<1>2. CASE Retains(c)
  BY <1>2 DEF Retains, Past
<1>3. CASE Resets(c)
  BY <1>1, <1>3 DEF Resets, Past
<1>4. CASE Turns(c, "open")
  BY <1>4 DEF Turns, Past
<1>5. CASE Turns(c, "close") /\ main'[c].ph = "close"
  BY <1>5 DEF Turns, Past
<1> QED BY <1>2, <1>3, <1>4, <1>5, AllTokensMove DEF TokensMove

\* So does the request.
LEMMA DueStays ==
  ASSUME FcopyInv, [Next]_vars, NEW s, NEW r, Due(s, r)
  PROVE  Due(s, r)'
<1>1. ASSUME NEW c \in Client, NEW k \in DOMAIN Files[c], Past(c, k)
      PROVE  Past(c, k)'
  BY <1>1, UploadNumber, PastStays
<1>2. \A c \in Client, i \in Target : \A k \in DOMAIN Files[c] :
        ForClose(c, k, i, s, r)' = ForClose(c, k, i, s, r)
  BY DEF ForClose, TokOf
<1> QED BY <1>1, <1>2 DEF Due

\* A client asks to close what it has opened, after its transfer.
LEMMA AsksDue ==
  ASSUME FcopyInv, NamedTokens, ClosesInv,
         NEW who, NEW s \in Server, NEW r \in Request, Asks(who, s, r)
  PROVE  Due(s, r)
<1>i. SenderInv /\ ServerInv /\ TypeInv
  BY DEF FcopyInv, ServerInv
<1>1. ASSUME NEW c \in Client, Call(c), s = Dest[c][main[c].i], r = MainReq(c)
      PROVE  Due(s, r)
  <2>1. main[c].at = "go" /\ Calls(c)
    BY <1>1 DEF Call
  <2>2. CASE main[c].ph = "close"
    <3>1. PICK i \in Target : i = main[c].i
      BY <1>i, <2>1, MainReqType DEF FcopyInv
    <3>2. PICK k \in DOMAIN Files[c] : k = main[c].file
      BY <1>i, FileTypes DEF SenderInv
    <3>3. r.op = "close" /\ r.tok = tokens[c][i] /\ r.wait = WaitClose
      BY <1>1, <2>2, <3>1 DEF MainReq, CloseReq
    <3>4. tokens[c][i] = TokOf(c, k)
      BY <2>1, <2>2, <3>1, <3>2 DEF Calls, NamedTokens, TokOf, File
    <3>5. Past(c, k)
      BY <2>2, <3>2 DEF Past
    <3> QED BY <1>1, <3>1, <3>3, <3>4, <3>5 DEF Due, ForClose
  <2>3. CASE main[c].ph # "close"
    <3>1. r.op \in {"create", "chain"}
      BY <1>1, <2>1, <2>3 DEF MainReq, CreateReq, SetChainReq, Calls
    <3> QED BY <3>1 DEF Due
  <2> QED BY <2>2, <2>3
<1>2. ASSUME NEW c \in Client, NEW w \in Worker, r \in WorkReqs(c, w) PROVE Due(s, r)
  BY <1>2, WorkReqFields DEF Due
<1>3. ASSUME NEW i \in Slot, NEW k \in Nat, Forward(i, k), r = ForwardReq(i, k)
      PROVE  Due(s, r)
  <2>1. At(i, "work")
    BY <1>3 DEF Forward, Forwarding
  <2>2. job[i].req \in Request /\ job[i].req.op = "send"
    BY <1>i, <2>1, AtJob DEF At, Shaped
  <2> QED BY <1>3, <2>2, ForwardFields DEF Due
<1>4. CASE \E l \in lost : s = l.srv /\ r = l.req
  BY <1>4 DEF ClosesInv
<1> QED BY <1>1, <1>2, <1>3, <1>4 DEF Asks

\* All closes under way stay due.
LEMMA ClosesNext ==
  ASSUME FcopyInv, NamedTokens, ClosesInv, [Next]_vars
  PROVE  ClosesInv'
<1>i. /\ ServerInv
      /\ \A j \in Slot : ~At(j, "free") => Due(job[j].srv, job[j].req)
      /\ \A l \in lost : Due(l.srv, l.req)
  BY DEF FcopyInv, ClosesInv
<1>1. ASSUME NEW j \in Slot, job'[j].pc # "free" PROVE Due(job[j].srv, job[j].req)'
  <2>1. PICK s, r : s = job'[j].srv /\ r = job'[j].req
    OBVIOUS
  <2>2. SUFFICES Due(s, r)
    <3>1. ASSUME Due(s, r) PROVE Due(s, r)'
      BY <3>1, DueStays
    <3> QED BY <2>1, <3>1 DEF Due, ForClose
  <2>3. ASSUME ~At(j, "free"), KeepsAsk(j) PROVE Due(s, r)
    BY <1>i, <2>1, <2>3 DEF KeepsAsk
  <2>4. CASE job'[j] = job[j]
    BY <1>1, <2>3, <2>4 DEF At, KeepsAsk
  <2>5. job'[j] # NoJob
    BY <1>1 DEF NoJob
  <2>6. CASE Starts(j)
    <3>1. PICK who \in Who, x \in Server, q \in Request :
            Asks(who, x, q) /\ job'[j].srv = x /\ job'[j].req = q
      BY <2>6 DEF Starts
    <3> QED BY <2>1, <3>1, AsksDue
  <2>7. CASE Handles(j)
    BY <1>i, <2>3, <2>5, <2>7, HandledAsk
  <2>8. CASE Forwards(j)
    BY <2>3, <2>8 DEF Forwards, Marks, At
  <2>9. CASE Lingers(j)
    <3>1. ~At(j, "free")
      BY <2>9 DEF Lingers, At
    <3> QED BY <2>3, <2>9, <3>1 DEF Lingers
  <2> QED BY <2>4, <2>5, <2>6, <2>7, <2>8, <2>9, JobsMove DEF Moves, Rests, CutOff, Ends
<1>2. ASSUME NEW l \in lost' PROVE Due(l.srv, l.req)'
  <2>1. PICK s, r : s = l.srv /\ r = l.req
    OBVIOUS
  <2>2. Due(s, r)
    <3>1. CASE l \notin lost
      <4>1. PICK j \in Slot : ~At(j, "free") /\ l = LostCall(j)
        BY <3>1, LostNext
      <4>2. s = job[j].srv /\ r = job[j].req
        BY <2>1, <4>1 DEF LostCall
      <4> QED BY <1>i, <4>1, <4>2
    <3> QED BY <1>i, <2>1, <3>1
  <2>3. Due(s, r)'
    BY <2>2, DueStays
  <2> QED BY <2>1, <2>3
<1> QED BY <1>1, <1>2 DEF ClosesInv, At

-----------------------------------------------------------------------------
(* Which file a close cuts.                                                *)

\* The descriptor of a handler that is about to cut a file is open on a file with its token.
CutInv ==
  \A j \in Slot : At(j, "trunc") =>
    \E n \in Name : FileOf[n] = fds[job[j].srv][job[j].fd] /\ TokenOf[n] = job[j].req.tok

\* It is that of the entry which the handler has taken out, and nobody else closes it.
LEMMA CutNext ==
  ASSUME \A q \in Server : ~Crash(q), FcopyInv, CutInv, [Next]_vars
  PROVE  CutInv'
<1>i. TypeInv /\ ServerInv /\ FdOwned /\ EntryNamesFile
  BY DEF FcopyInv, ServerInv
<1> SUFFICES ASSUME NEW j \in Slot, job'[j].pc = "trunc"
             PROVE  \E n \in Name : /\ FileOf[n] = fds'[job'[j].srv][job'[j].fd]
                                    /\ TokenOf[n] = job'[j].req.tok
  BY DEF CutInv, At
<1>1. CASE Handles(j)
  <2>1. PICK s \in Server, t \in Token : s = job[j].srv /\ t = job[j].req.tok
    BY <1>i, <1>1, HandledClose DEF At
  <2>2. /\ fmap[s][t] # NoEntry /\ fds' = fds /\ job'[j].srv = s
        /\ job'[j].fd = fmap[s][t].fd
    BY <1>i, <1>1, <2>1, HandledClose DEF At
  <2>3. job'[j].req.tok = t
    <3>1. job'[j] # NoJob
      BY DEF NoJob
    <3> QED BY <1>i, <1>1, <2>1, <3>1, HandledAsk DEF KeepsAsk
  <2>4. PICK n \in Name : FileOf[n] = fds[s][fmap[s][t].fd] /\ TokenOf[n] = t
    BY <1>i, <2>2 DEF EntryNamesFile
  <2> QED BY <2>2, <2>3, <2>4
<1>2. CASE job'[j] = job[j]
  <2>1. At(j, "trunc")
    BY <1>2 DEF At
  <2>2. PICK s \in Server, f \in Fd : s = job[j].srv /\ f = job[j].fd
    BY <1>i, <2>1, AtJob DEF At, Shaped
  <2>3. JobHolds(j, s, f)
    BY <2>1, <2>2 DEF JobHolds, At
  <2>4. fds[s][f] # Closed /\ \A i \in Slot : JobHolds(i, s, f) => i = j
    BY <1>i, <2>3 DEF FdOwned
  <2>5. ~CreateInsert(j) /\ ~CloseFd(j)
    BY <2>1, Zenon DEF CreateInsert, CloseFd, At
  <2>6. fds'[s][f] = fds[s][f]
    BY <2>4, <2>5, DescriptorsMove
  <2> QED BY <1>2, <2>1, <2>2, <2>6 DEF CutInv
<1> QED BY <1>1, <1>2, CloseStands DEF At

\* A close cuts the copy that it is for.
Aimed ==
  \A j \in Slot, c \in Client, i \in Target : \A k \in DOMAIN Files[c] :
    At(j, "trunc") /\ ForClose(c, k, i, job[j].srv, job[j].req) =>
      fds[job[j].srv][job[j].fd] = PathOf(c, k)

\* So it is if a token names one file,
LEMMA AimedSteady == ASSUME OneFilePerToken, CutInv PROVE Aimed
<1> SUFFICES ASSUME NEW j \in Slot, NEW c \in Client, NEW i \in Target, NEW k \in DOMAIN Files[c],
                    At(j, "trunc"), ForClose(c, k, i, job[j].srv, job[j].req)
             PROVE  fds[job[j].srv][job[j].fd] = PathOf(c, k)
  BY DEF Aimed
<1>1. PICK n \in Name : FileOf[n] = fds[job[j].srv][job[j].fd] /\ TokenOf[n] = job[j].req.tok
  BY DEF CutInv
<1>2. TokenOf[n] = TokenOf[Files[c][k].name]
  BY <1>1 DEF ForClose, TokOf
<1>3. FileOf[n] = FileOf[Files[c][k].name]
  BY <1>2, UploadNumber DEF OneFilePerToken
<1> QED BY <1>1, <1>3 DEF PathOf

\* and if there is one upload.
LEMMA AimedAlone == ASSUME OneUpload, ServerInv, OpenedInv PROVE Aimed
<1> SUFFICES ASSUME NEW j \in Slot, NEW c \in Client, NEW i \in Target, NEW k \in DOMAIN Files[c],
                    At(j, "trunc")
             PROVE  fds[job[j].srv][job[j].fd] = PathOf(c, k)
  BY DEF Aimed
<1>1. PICK s \in Server, f \in Fd : s = job[j].srv /\ f = job[j].fd
  BY AtJob DEF ServerInv, Shaped, At
<1>2. fds[s][f] # Closed
  BY <1>1 DEF ServerInv, FdOwned, JobHolds, At
<1>3. PICK d \in Client : \E l \in DOMAIN Files[d] : fds[s][f] = PathOf(d, l)
  BY <1>2 DEF OpenedInv
<1>4. PICK l \in DOMAIN Files[d] : fds[s][f] = PathOf(d, l)
  BY <1>3
<1>5. c = d /\ k = l
  BY DEF OneUpload
<1> QED BY <1>1, <1>4, <1>5

-----------------------------------------------------------------------------
(* What a step does to the copies.                                         *)

CopyOf(c, k, i) == disk[Dest[c][i]][PathOf(c, k)]

\* It is emptied while its client opens it,
Wiped(c, k, i, x) == Opening(c, k) /\ x = Truncated(CopyOf(c, k, i), 0)

\* gets one of its chunks,
Filled(c, k, i, x) ==
  \E j \in Slot : LET o == job[j].req.off IN
    /\ At(j, "work") /\ ForSend(c, k, i, job[j].srv, job[j].req)
    /\ x = Written(CopyOf(c, k, i), o, LenOf(c, k, o), <<c, k>>)

\* and is cut to its size when its client is past the transfer.
Trimmed(c, k, i, x) ==
  /\ \E j \in Slot : CloseTruncate(j) /\ ForClose(c, k, i, job[j].srv, job[j].req)
  /\ Past(c, k) /\ x = Truncated(CopyOf(c, k, i), Files[c][k].size)

Changed(c, k, i, x) == Wiped(c, k, i, x) \/ Filled(c, k, i, x) \/ Trimmed(c, k, i, x)

Changes(c, k, i) ==
  \E x : disk' = [disk EXCEPT ![Dest[c][i]][PathOf(c, k)] = x] /\ Changed(c, k, i, x)

\* Where the copies are, and what they are.
LEMMA CopyTypes ==
  ASSUME TypeInv, NEW c \in Client, NEW i \in Target, NEW k \in DOMAIN Files[c]
  PROVE  Dest[c][i] \in Server /\ PathOf(c, k) \in Path /\ CopyOf(c, k, i) \in FileState
<1>1. Dest[c][i] \in Server /\ PathOf(c, k) \in Path
  BY UploadNumber, FcopyAssumption, ServerAssumption DEF PathOf
<1> QED BY <1>1 DEF TypeInv, CopyOf

\* A create empties the copy of its client.
LEMMA OpenWipes ==
  ASSUME FcopyInv, CreatesInv, NEW j \in Slot, CreateOpen(j)
  PROVE  \E c \in Client, i \in Target : \E k \in DOMAIN Files[c] : Changes(c, k, i)
<1>i. SenderInv
  BY DEF FcopyInv
<1>1. At(j, "open") /\ ~At(j, "free")
  BY Zenon DEF CreateOpen, At
<1>2. job[j].req.op = "create"
  BY <1>1, AtJob DEF FcopyInv, ServerInv, Shaped, At
<1>3. PICK c \in Client : caller[j].who = <<"main", c>> /\ main[c].ph = "open"
  BY <1>1, <1>2, CreateCaller DEF CreatesInv
<1>4. PICK k \in DOMAIN Files[c] : k = main[c].file
  BY <1>i, FileTypes DEF SenderInv
<1>5. main[c].i \in Target
  <2>1. main[c].i \in 0..N /\ main[c].i < N
    BY <1>i, <1>3 DEF SenderInv, SenderTypeOK, MainState, ClientInv, PlaceInv
  <2> QED BY <2>1, SenderAssumption DEF Target
<1>6. PICK i \in Target : i = main[c].i
  BY <1>5
<1>7. job[j].srv = Dest[c][i] /\ FileOf[job[j].req.name] = PathOf(c, k)
  BY <1>3, <1>4, <1>6, CreateAnswers DEF PathOf, File
<1>8. PICK x : x = Truncated(CopyOf(c, k, i), 0)
  OBVIOUS
<1>9. disk' = [disk EXCEPT ![Dest[c][i]][PathOf(c, k)] = x]
  BY <1>7, <1>8 DEF CreateOpen, CopyOf
<1>10. Wiped(c, k, i, x)
  BY <1>3, <1>4, <1>8 DEF Wiped, Opening
<1> QED BY <1>9, <1>10 DEF Changes, Changed

\* A close cuts the copy that it is for to the size of the file.
LEMMA CloseTrims ==
  ASSUME UploadsApart, FcopyInv, AnnounceInv, Aimed, NEW j \in Slot, CloseTruncate(j),
         NEW c \in Client, NEW i \in Target, NEW k \in DOMAIN Files[c],
         ForClose(c, k, i, job[j].srv, job[j].req)
  PROVE  disk' = [disk EXCEPT ![Dest[c][i]][PathOf(c, k)] =
                                Truncated(CopyOf(c, k, i), Files[c][k].size)]
<1>1. At(j, "trunc")
  BY Zenon DEF CloseTruncate
<1>2. job[j].srv = Dest[c][i] /\ fds[job[j].srv][job[j].fd] = PathOf(c, k)
  BY <1>1 DEF Aimed, ForClose
<1>3. PathOf(c, k) # Closed
  BY CopyTypes, ServerAssumption DEF FcopyInv, ServerInv
<1>4. job[j].size = Files[c][k].size
  <2>1. Announced(PathOf(c, k), job[j].size)
    BY <1>1, <1>2 DEF AnnounceInv
  <2>2. PICK d \in Client : \E l \in DOMAIN Files[d] :
          PathOf(d, l) = PathOf(c, k) /\ job[j].size = Files[d][l].size
    BY <2>1 DEF Announced, PathOf
  <2>3. PICK l \in DOMAIN Files[d] : PathOf(d, l) = PathOf(c, k) /\ job[j].size = Files[d][l].size
    BY <2>2
  <2>4. c = d /\ k = l
    BY <2>3, PathTells
  <2> QED BY <2>3, <2>4
<1> QED BY <1>2, <1>3, <1>4 DEF CloseTruncate, CopyOf

\* A write puts the chunk into the copy that it is for.
LEMMA WriteFills ==
  ASSUME FcopyInv, AskedInv, Fresh, NEW j \in Slot, SendWrite(j), disk' # disk
  PROVE  \E c \in Client, i \in Target : \E k \in DOMAIN Files[c] : Changes(c, k, i)
<1>1. At(j, "work")
  BY Zenon DEF SendWrite
<1>2. PICK c \in Client, i \in Target : \E k \in DOMAIN Files[c] :
        ForSend(c, k, i, job[j].srv, job[j].req)
  BY <1>1, AtWork DEF FcopyInv
<1>3. PICK k \in DOMAIN Files[c] : ForSend(c, k, i, job[j].srv, job[j].req)
  BY <1>2
<1>4. fds[job[j].srv][job[j].fd] \in {Closed, PathOf(c, k)}
  BY <1>1, <1>3 DEF Fresh
<1>5. fds[job[j].srv][job[j].fd] # Closed
  BY DEF SendWrite
<1>6. PICK o : o = job[j].req.off
  OBVIOUS
<1>7. job[j].srv = Dest[c][i] /\ job[j].req.len = LenOf(c, k, o) /\ job[j].req.src = <<c, k>>
  BY <1>3, <1>6 DEF ForSend
<1>8. PICK x : x = Written(CopyOf(c, k, i), o, LenOf(c, k, o), <<c, k>>)
  OBVIOUS
<1>9. disk' = [disk EXCEPT ![Dest[c][i]][PathOf(c, k)] = x]
  BY <1>4, <1>5, <1>6, <1>7, <1>8 DEF SendWrite, CopyOf
<1>10. Filled(c, k, i, x)
  BY <1>1, <1>3, <1>6, <1>8 DEF Filled
<1> QED BY <1>9, <1>10 DEF Changes, Changed

\* Nothing else changes a file.
LEMMA CopiesMove ==
  ASSUME Unbroken({"short"}), UploadsApart, FcopyInv, AnnounceInv, CreatesInv, AskedInv,
         ClosesInv, Fresh, Aimed, [Next]_vars, disk' # disk
  PROVE  \E c \in Client, i \in Target : \E k \in DOMAIN Files[c] : Changes(c, k, i)
<1>1. ASSUME NEW j \in Slot, CloseTruncate(j)
      PROVE  \E c \in Client, i \in Target : \E k \in DOMAIN Files[c] : Changes(c, k, i)
  <2>1. At(j, "trunc") /\ ~At(j, "free")
    BY <1>1, Zenon DEF CloseTruncate, At
  <2>2. job[j].req.op = "close"
    BY <2>1, AtJob DEF FcopyInv, ServerInv, Shaped, At
  <2>3. PICK c \in Client, i \in Target : \E k \in DOMAIN Files[c] :
          ForClose(c, k, i, job[j].srv, job[j].req) /\ Past(c, k)
    BY <2>1, <2>2 DEF ClosesInv, Due
  <2>4. PICK k \in DOMAIN Files[c] : ForClose(c, k, i, job[j].srv, job[j].req) /\ Past(c, k)
    BY <2>3
  <2>5. PICK x : x = Truncated(CopyOf(c, k, i), Files[c][k].size)
    OBVIOUS
  <2>6. disk' = [disk EXCEPT ![Dest[c][i]][PathOf(c, k)] = x]
    BY <1>1, <2>4, <2>5, CloseTrims
  <2>7. Trimmed(c, k, i, x)
    BY <1>1, <2>4, <2>5 DEF Trimmed
  <2> QED BY <2>6, <2>7 DEF Changes, Changed
<1>2. ASSUME NEW j \in Slot, CreateInsert(j) \/ CloseFd(j) PROVE FALSE
  BY <1>2, Zenon DEF CreateInsert, CloseFd
<1>3. ASSUME NEW s \in Server, Crash(s) PROVE FALSE
  BY <1>3, Zenon DEF Crash, Restart
<1>4. "short" \notin FaultKinds
  BY DEF Unbroken
<1>5. \/ \E j \in Slot : CreateOpen(j)
      \/ \E j \in Slot : CloseTruncate(j)
      \/ \E j \in Slot : SendWrite(j)
  BY <1>2, <1>3, <1>4, FilesMove
<1> QED BY <1>1, <1>5, OpenWipes, WriteFills

\* A copy changes as its own upload does it.
LEMMA CopyMoves ==
  ASSUME Unbroken({"short"}), UploadsApart, FcopyInv, AnnounceInv, CreatesInv, AskedInv,
         ClosesInv, Fresh, Aimed, [Next]_vars,
         NEW c \in Client, NEW i \in Target, NEW k \in DOMAIN Files[c]
  PROVE  \/ CopyOf(c, k, i)' = CopyOf(c, k, i)
         \/ \E x : CopyOf(c, k, i)' = x /\ Changed(c, k, i, x)
<1>i. TypeInv
  BY DEF FcopyInv, ServerInv
<1>1. PICK s \in Server, p \in Path : s = Dest[c][i] /\ p = PathOf(c, k)
  BY <1>i, CopyTypes
<1>2. CopyOf(c, k, i) = disk[s][p] /\ CopyOf(c, k, i)' = disk'[s][p]
  BY <1>1 DEF CopyOf, PathOf
<1>3. CASE disk' = disk
  BY <1>2, <1>3
<1>4. CASE disk' # disk
  <2>1. PICK d \in Client, m \in Target : \E l \in DOMAIN Files[d] : Changes(d, l, m)
    BY <1>4, CopiesMove
  <2>2. PICK l \in DOMAIN Files[d] : Changes(d, l, m)
    BY <2>1
  <2>x. PICK x :
          disk' = [disk EXCEPT ![Dest[d][m]][PathOf(d, l)] = x] /\ Changed(d, l, m, x)
    BY <2>2 DEF Changes
  <2>3. PICK t \in Server, q \in Path : t = Dest[d][m] /\ q = PathOf(d, l)
    BY <1>i, CopyTypes
  <2>4. disk' = [disk EXCEPT ![t][q] = x]
    BY <2>x, <2>3
  <2>5. CASE s # t \/ p # q
    <3>1. disk'[s][p] = disk[s][p]
      BY <1>i, <2>4, <2>5, FilePut
    <3> QED BY <1>2, <3>1
  <2>6. CASE s = t /\ p = q
    <3>p. PathOf(c, k) = PathOf(d, l)
      BY <1>1, <2>3, <2>6
    <3>1. c = d /\ k = l
      BY <3>p, PathTells
    <3>2. i = m
      BY <1>1, <2>3, <2>6, <3>1, TargetTells
    <3>4. disk'[t][q] = x
      BY <1>i, <2>4 DEF TypeInv
    <3>3. disk'[s][p] = x
      BY <2>6, <3>4
    <3> QED BY <1>2, <2>x, <3>1, <3>2, <3>3
  <2> QED BY <2>5, <2>6
<1> QED BY <1>3, <1>4

-----------------------------------------------------------------------------
(* What is not a chunk of a copy is empty.                                 *)

Blank(c, k, i) == \A o \in Offset \ ChunksOf(c, k) : CopyOf(c, k, i).data[o] = Hole

\* The copy was opened for this upload: the create is answered or about to be.
Emptied(c, k, i, j) ==
  /\ At(j, "insert") \/ (At(j, "reply") /\ job[j].err = "ok")
  /\ job[j].req.op = "create" /\ job[j].srv = Dest[c][i]
  /\ FileOf[job[j].req.name] = PathOf(c, k)

\* It is so once the client has its token, and as long as the upload lasts.
BlankInv ==
  \A c \in Client, i \in Target : \A k \in DOMAIN Files[c] :
    /\ k = main[c].file /\ tokens[c][i] # NoToken => Blank(c, k, i)
    /\ Begun(c, k) => Blank(c, k, i)
    /\ \A j \in Slot : Emptied(c, k, i, j) => Blank(c, k, i)

\* An empty file has no chunk,
LEMMA WipedBlank ==
  ASSUME NEW c \in Client, NEW k, NEW i, NEW x, CopyOf(c, k, i)' = x, Wiped(c, k, i, x)
  PROVE  Blank(c, k, i)'
<1>1. ASSUME NEW o \in Offset PROVE x.data[o] = Hole
  <2>1. o \in Nat
    BY DiskAssumption
  <2> QED BY <2>1 DEF Wiped, Truncated
<1> QED BY <1>1 DEF Blank, ChunksOf

\* and the changes of a copy keep to its chunks.
LEMMA ChangedBlank ==
  ASSUME TypeInv, NEW c \in Client, NEW i \in Target, NEW k \in DOMAIN Files[c],
         NEW x, CopyOf(c, k, i)' = x, Changed(c, k, i, x), Blank(c, k, i)
  PROVE  Blank(c, k, i)'
<1>1. PICK f \in FileState : f = CopyOf(c, k, i)
  BY CopyTypes
<1>2. \A o \in Offset \ ChunksOf(c, k) : f.data[o] = Hole
  BY <1>1 DEF Blank
<1>3. CASE Wiped(c, k, i, x)
  BY <1>3, WipedBlank
<1>4. CASE Filled(c, k, i, x)
  <2>1. PICK j \in Slot : /\ ForSend(c, k, i, job[j].srv, job[j].req)
                          /\ x = Written(f, job[j].req.off, LenOf(c, k, job[j].req.off), <<c, k>>)
    BY <1>1, <1>4 DEF Filled
  <2>2. PICK a \in ChunksOf(c, k) : a = job[j].req.off
    BY <2>1 DEF ForSend
  <2>3. x = Written(f, a, LenOf(c, k, a), <<c, k>>)
    BY <2>1, <2>2
  <2>4. ASSUME NEW o \in Offset, o # a PROVE x.data[o] = f.data[o]
    BY <2>3, <2>4 DEF Written, FileState
  <2>5. ASSUME NEW o \in Offset \ ChunksOf(c, k) PROVE x.data[o] = Hole
    BY <1>2, <2>2, <2>4
  <2> QED BY <2>5 DEF Blank, ChunksOf
<1>5. CASE Trimmed(c, k, i, x)
  <2>1. x = Truncated(f, Files[c][k].size)
    BY <1>1, <1>5 DEF Trimmed
  <2>2. ASSUME NEW o \in Offset \ ChunksOf(c, k) PROVE x.data[o] = Hole
    BY <1>2, <2>1 DEF Truncated
  <2> QED BY <2>2 DEF Blank, ChunksOf
<1> QED BY <1>3, <1>4, <1>5 DEF Changed

\* So a step keeps them blank.
LEMMA BlankStays ==
  ASSUME Unbroken({"short"}), UploadsApart, FcopyInv, AnnounceInv, CreatesInv, AskedInv,
         ClosesInv, Fresh, Aimed, [Next]_vars,
         NEW c \in Client, NEW i \in Target, NEW k \in DOMAIN Files[c], Blank(c, k, i)
  PROVE  Blank(c, k, i)'
<1>i. TypeInv
  BY DEF FcopyInv, ServerInv
<1>1. CASE CopyOf(c, k, i)' = CopyOf(c, k, i)
  BY <1>1 DEF Blank, ChunksOf
<1>2. CASE CopyOf(c, k, i)' # CopyOf(c, k, i)
  <2>1. PICK x : CopyOf(c, k, i)' = x /\ Changed(c, k, i, x)
    BY <1>2, CopyMoves
  <2> QED BY <1>i, <2>1, ChangedBlank
<1> QED BY <1>1, <1>2

\* A create empties the copy that it opens.
LEMMA OpenBlanks ==
  ASSUME ServerInv, NEW j \in Slot, CreateOpen(j),
         NEW c \in Client, NEW i \in Target, NEW k \in DOMAIN Files[c],
         job[j].srv = Dest[c][i], FileOf[job[j].req.name] = PathOf(c, k)
  PROVE  Blank(c, k, i)'
<1>i. TypeInv
  BY DEF ServerInv
<1>1. PICK s \in Server, p \in Path : s = Dest[c][i] /\ p = PathOf(c, k)
  BY <1>i, CopyTypes
<1>2. PICK x : x = Truncated(disk[s][p], 0)
  OBVIOUS
<1>3. disk' = [disk EXCEPT ![s][p] = x]
  BY <1>1, <1>2 DEF CreateOpen
<1>4. disk'[s][p] = x
  BY <1>i, <1>3 DEF TypeInv
<1>5. CopyOf(c, k, i)' = x
  BY <1>1, <1>4 DEF CopyOf, PathOf
<1>6. ASSUME NEW o \in Offset PROVE x.data[o] = Hole
  <2>1. o \in Nat
    BY DiskAssumption
  <2> QED BY <1>2, <2>1 DEF Truncated
<1> QED BY <1>5, <1>6 DEF Blank, ChunksOf

\* A handler has opened the copy before it answers.
LEMMA HandledOpen ==
  ASSUME ServerInv, NEW j \in Slot, Handles(j),
         NEW c \in Client, NEW i \in Target, NEW k \in DOMAIN Files[c], Emptied(c, k, i, j)'
  PROVE  \/ Emptied(c, k, i, j)
         \/ /\ CreateOpen(j) /\ job[j].srv = Dest[c][i]
            /\ FileOf[job[j].req.name] = PathOf(c, k)
<1>i. TypeInv
  BY DEF ServerInv
<1>0. job'[j].pc \in {"insert", "reply"} /\ (job'[j].pc = "reply" => job'[j].err = "ok")
  BY DEF Emptied, At
<1>1. ~At(j, "free") /\ KeepsAsk(j)
  BY <1>0, HandledAsk DEF NoJob
<1>2. /\ job[j].req.op = "create" /\ job[j].srv = Dest[c][i]
      /\ FileOf[job[j].req.name] = PathOf(c, k)
  BY <1>1 DEF Emptied, KeepsAsk, PathOf
<1>3. CreateOpen(j) \/ CreateRejected(j) \/ CreateInsert(j)
  <2>1. job[j].pc \in {"open", "insert"} \/ ~(JobStep(j) \/ JobFails(j) \/ SendWriteShort(j))
    <3>1. Shaped(job[j])
      BY <1>i, <1>1, AtJob
    <3>2. job[j].pc \in {"chain", "getfd", "work", "has", "erase", "trunc", "close"}
            => job[j].req.op # "create"
      BY <3>1 DEF Shaped
    <3> QED BY <1>2, <3>2, Zenon
            DEF JobStep, JobFails, At, CreateOpen, CreateInsert, SetChain, SendLookup,
                SendWrite, SendJoin, CloseHas, CloseErase, CloseTruncate, CloseFd,
                CreateRejected, SendWriteFails, SendWriteShort
  <2>2. job[j].pc \in {"open", "insert"}
    BY <2>1 DEF Handles
  <2> QED BY <2>2, Zenon
          DEF Handles, JobStep, JobFails, At, SetChain, SendLookup, SendWrite, SendJoin,
              CloseHas, CloseErase, CloseTruncate, CloseFd, SendWriteFails, SendWriteShort
<1>4. ~CreateRejected(j)
  <2>1. ASSUME Respond(j, "EIO") PROVE FALSE
    <3>1. job'[j].pc = "reply" /\ job'[j].err = "EIO"
      BY <1>1, <2>1, Responded DEF At
    <3> QED BY <1>0, <3>1
  <2> QED BY <2>1 DEF CreateRejected
<1>5. CASE CreateInsert(j)
  <2>1. At(j, "insert")
    BY <1>5, Zenon DEF CreateInsert
  <2> QED BY <1>2, <2>1 DEF Emptied
<1> QED BY <1>2, <1>3, <1>4, <1>5

\* BlankInv is kept by every step.
LEMMA BlankNext ==
  ASSUME Unbroken({"short"}), UploadsApart, FcopyInv, NamedTokens, AnnounceInv, BegunInv,
         CreatesInv, AskedInv, ClosesInv, Fresh, Aimed, BlankInv, [Next]_vars
  PROVE  BlankInv'
<1>i. ServerInv /\ SenderInv /\ CallInv
  BY DEF FcopyInv
<1> SUFFICES ASSUME NEW c \in Client, NEW i \in Target, NEW k \in DOMAIN Files[c]
             PROVE  /\ k = main'[c].file /\ tokens'[c][i] # NoToken => Blank(c, k, i)'
                    /\ Begun(c, k)' => Blank(c, k, i)'
                    /\ \A j \in Slot : Emptied(c, k, i, j)' => Blank(c, k, i)'
  BY DEF BlankInv
<1>1. Blank(c, k, i) => Blank(c, k, i)'
  BY BlankStays
<1>2. ASSUME k = main'[c].file, tokens'[c][i] # NoToken PROVE Blank(c, k, i)'
  <2>1. CASE k = main[c].file /\ tokens[c][i] # NoToken
    BY <1>1, <2>1 DEF BlankInv
  <2>2. CASE Retains(c)
    BY <1>2, <2>1, <2>2 DEF Retains
  <2>3. CASE Resets(c)
    BY <1>2, <2>3 DEF Resets
  <2>4. CASE Turns(c, "open")
    <3>1. k = main[c].file /\ (i # main[c].i => tokens'[c][i] = tokens[c][i])
      BY <1>2, <2>4 DEF Turns
    <3>2. CASE i = main[c].i
      <4>1. PICK j \in Slot : At(j, "reply") /\ job[j].err = "ok" /\ caller[j].who = <<"main", c>>
        BY <2>4 DEF Turns
      <4>2. main[c].ph = "open"
        BY <2>4 DEF Turns
      <4>3. /\ job[j].srv = Dest[c][i] /\ job[j].req.op = "create"
            /\ FileOf[job[j].req.name] = PathOf(c, k)
        BY <3>1, <3>2, <4>1, <4>2, CreateAnswers DEF PathOf, File
      <4>4. Emptied(c, k, i, j)
        BY <4>1, <4>3 DEF Emptied
      <4> QED BY <1>1, <4>4 DEF BlankInv
    <3> QED BY <1>2, <2>1, <3>1, <3>2
  <2>5. CASE Turns(c, "close") /\ tokens'[c][main[c].i] = NoToken
    BY <1>2, <2>1, <2>5 DEF Turns
  <2> QED BY <2>2, <2>3, <2>4, <2>5, AllTokensMove DEF TokensMove
<1>3. ASSUME Begun(c, k)' PROVE Blank(c, k, i)'
  <2>1. CASE Begun(c, k)
    BY <1>1, <2>1 DEF BlankInv
  <2>2. CASE Begins(c) /\ k = main[c].file
    <3>1. main[c].ph = "chain"
      BY <2>2 DEF Begins
    <3>2. tokens[c][i] # NoToken
      BY <3>1 DEF FcopyInv, TokenInv
    <3> QED BY <1>1, <2>2, <3>2 DEF BlankInv
  <2> QED BY <1>3, <2>1, <2>2, BegunStays, UploadNumber
<1>4. ASSUME NEW j \in Slot, Emptied(c, k, i, j)' PROVE Blank(c, k, i)'
  <2>0. job'[j].pc \in {"insert", "reply"} /\ job'[j].req.op = "create"
    BY <1>4 DEF Emptied, At
  <2>1. CASE job'[j] = job[j]
    <3>1. Emptied(c, k, i, j)
      BY <1>4, <2>1 DEF Emptied, At, PathOf
    <3> QED BY <1>1, <3>1 DEF BlankInv
  <2>2. CASE Handles(j)
    <3>1. CASE Emptied(c, k, i, j)
      BY <1>1, <3>1 DEF BlankInv
    <3>2. CASE /\ CreateOpen(j) /\ job[j].srv = Dest[c][i]
               /\ FileOf[job[j].req.name] = PathOf(c, k)
      BY <1>i, <3>2, OpenBlanks
    <3> QED BY <1>i, <1>4, <2>2, <3>1, <3>2, HandledOpen
  <2>3. CASE Ends(j)
    BY <2>0, <2>3 DEF Ends, NoJob
  <2>4. CASE Starts(j)
    <3>1. PICK r \in Request : job'[j].pc = FirstPc(r)
      BY <2>4 DEF Starts
    <3>2. r.op \in {"create", "chain", "send", "close"}
      BY DEF Request
    <3> QED BY <2>0, <3>1, <3>2 DEF FirstPc
  <2>5. CASE Forwards(j) \/ Lingers(j)
    BY <2>0, <2>5 DEF Forwards, Marks, Lingers, At
  <2> QED BY <2>1, <2>2, <2>3, <2>4, <2>5, JobsMove DEF Moves, Rests, CutOff
<1> QED BY <1>2, <1>3, <1>4

\* Nothing is open at the beginning.
LEMMA BlankInit == ASSUME Init PROVE BlankInv
<1>1. \A j \in Slot : ~At(j, "insert") /\ ~At(j, "reply")
  BY DEF Init, ServerInit, NoJob, At
<1>2. \A c \in Client, i \in Target : tokens[c][i] = NoToken
  BY DEF Init, SenderInit, NoTokens
<1>3. \A c \in Client : \A k \in DOMAIN Files[c] : ~Begun(c, k)
  <2> SUFFICES ASSUME NEW c \in Client, NEW k \in DOMAIN Files[c] PROVE ~Begun(c, k)
    OBVIOUS
  <2>1. main[c].file = 1 /\ \A w \in Worker : work[c][w].pc = "off"
    BY DEF Init, SenderInit, FreshMain, IdleWorkers
  <2>2. k \in 1..Len(Files[c])
    BY FcopyAssumption
  <2> QED BY <2>1, <2>2, SMT DEF Begun
<1> QED BY <1>1, <1>2, <1>3 DEF BlankInv, Emptied

-----------------------------------------------------------------------------
(* The size of a copy that was closed.                                     *)

\* Division with remainder.
LEMMA Divides ==
  ASSUME NEW b \in Nat \ {0}, NEW q \in Int, NEW r \in 0..b-1
  PROVE  (b*q + r) \div b = q /\ (b*q + r) % b = r
<1> DEFINE a == b*q + r
           d == a \div b
           e == a % b
<1>1. a \in Int /\ d \in Int /\ e \in 0..b-1 /\ a = b*d + e
  OBVIOUS
<1>2. b*(d - q) = r - e
  BY <1>1
<1>3. r - e < b /\ e - r < b
  BY <1>1
<1>4. d - q < 1
  <2>1. SUFFICES ASSUME d - q >= 1 PROVE FALSE
    BY <1>1
  <2>2. b*(d - q) >= b
    BY <1>1, <2>1
  <2> QED BY <1>1, <1>2, <1>3, <2>2
<1>5. d - q > -1
  <2>1. SUFFICES ASSUME d - q <= -1 PROVE FALSE
    BY <1>1
  <2>2. b*(d - q) <= -b
    BY <1>1, <2>1
  <2> QED BY <1>1, <1>2, <1>3, <2>2
<1>6. d = q
  BY <1>1, <1>4, <1>5
<1> QED BY <1>1, <1>2, <1>6

\* The offset of a chunk is a multiple of Base.
LEMMA OffsetsAligned ==
  ASSUME NEW o \in Nat, o % ChunkSize = 0
  PROVE  \E q \in Nat : o = Base * q
<1>1. ChunkSize \in Nat \ {0} /\ Base \in Nat \ {0} /\ ChunkSize % Base = 0
  BY SenderAssumption, DiskAssumption, FcopyAssumption
<1>2. PICK u \in Nat : o = ChunkSize * u
  BY <1>1, Multiple
<1>3. PICK v \in Nat : ChunkSize = Base * v
  BY <1>1, Multiple
<1>4. o = Base * (v * u) /\ v * u \in Nat
  BY <1>1, <1>2, <1>3
<1> QED BY <1>4

\* So the padding of a chunk is that of the file up to its end.
LEMMA PadShifts ==
  ASSUME NEW o \in Nat, o % ChunkSize = 0, NEW n \in Nat
  PROVE  PadTo(o + n) = o + PadTo(n)
<1>1. PICK b \in Nat \ {0} : b = Base
  BY DiskAssumption
<1>2. PICK q \in Nat : o = b * q
  BY <1>1, OffsetsAligned
<1>3. PICK m \in Nat, r \in 0..b-1 : n = b * m + r
  <2>1. n \div b \in Nat /\ n % b \in 0..b-1
    BY SMT
  <2>2. n = (b * (n \div b)) + (n % b)
    BY SMT
  <2>3. PICK m, r : m = n \div b /\ r = n % b
    OBVIOUS
  <2> QED BY <2>1, <2>2, <2>3, Z3
<1>4. n % b = r /\ (n + b) \div b = m + 1
  <2>1. n % b = r
    BY <1>3, Divides
  <2>2. n + b = b * (m + 1) + r
    BY <1>3
  <2>3. m + 1 \in Int
    OBVIOUS
  <2>4. (b * (m + 1) + r) \div b = m + 1
    BY <2>3, Divides
  <2> QED BY <2>1, <2>2, <2>4
<1>5. (o + n) % b = r /\ (o + n + b) \div b = q + m + 1
  <2>1. o + n = b * (q + m) + r /\ o + n + b = b * (q + m + 1) + r
    BY <1>2, <1>3
  <2>2. q + m \in Int /\ q + m + 1 \in Int
    OBVIOUS
  <2>3. (b * (q + m) + r) % b = r
    BY <2>2, Divides
  <2>4. (b * (q + m + 1) + r) \div b = q + m + 1
    BY <2>2, Divides
  <2> QED BY <2>1, <2>3, <2>4
<1>6. (q + m + 1) * b = o + (m + 1) * b
  BY <1>2
<1> QED BY <1>1, <1>4, <1>5, <1>6 DEF PadTo

\* Padding never cuts, and adds nothing to a whole chunk.
LEMMA PadGrows == ASSUME NEW n \in Nat PROVE PadTo(n) \in Nat /\ n <= PadTo(n)
<1>1. PICK b \in Nat \ {0} : b = Base
  BY DiskAssumption
<1>2. PICK d, e : d = (n + b) \div b /\ e = (n + b) % b
  OBVIOUS
<1>3. d \in Nat /\ e \in 0..b-1 /\ n + b = b * d + e
  BY <1>2
<1>4. d * b \in Nat /\ d * b = b * d /\ n <= d * b
  BY <1>3
<1> QED BY <1>1, <1>2, <1>4 DEF PadTo

\* A full chunk needs no padding.
LEMMA PadChunk == PadTo(ChunkSize) = ChunkSize
BY FcopyAssumption DEF PadTo

\* The copy has the size of the file, or is padded by the late write of a request that
\* was sent again.
HasSize(c, k, i) ==
  \/ CopyOf(c, k, i).size = Files[c][k].size
  \/ ~Steady /\ CopyOf(c, k, i).size = PadTo(Files[c][k].size)

\* A chunk takes a copy to its padded size at most.
LEMMA ChunkEnds ==
  ASSUME NEW c \in Client, NEW k \in DOMAIN Files[c], NEW o \in ChunksOf(c, k)
  PROVE  \/ o + PadTo(LenOf(c, k, o)) <= Files[c][k].size
         \/ o + PadTo(LenOf(c, k, o)) = PadTo(Files[c][k].size)
<1>1. PICK n \in Nat : n = LenOf(c, k, o)
  BY LenFits, SenderAssumption
<1>2. o \in Nat /\ o % ChunkSize = 0 /\ Files[c][k].size \in Nat
  BY UploadNumber DEF ChunksOf
<1>3. n = ChunkSize \/ o + n = Files[c][k].size
  BY <1>1, LenFits
<1>4. o + n <= Files[c][k].size
  BY <1>1, LenFits
<1>5. CASE n = ChunkSize
  BY <1>1, <1>4, <1>5, PadChunk
<1>6. CASE o + n = Files[c][k].size
  <2>1. PadTo(o + n) = o + PadTo(n)
    BY <1>2, PadShifts
  <2> QED BY <1>1, <1>6, <2>1
<1> QED BY <1>3, <1>5, <1>6

\* An upload that is past its transfer has no chunk under way, unless a call broke.
LEMMA PastQuiet ==
  ASSUME Steady, SendsInv, NEW j \in Slot, At(j, "work"),
         NEW c \in Client, NEW i \in Target, NEW k \in DOMAIN Files[c],
         ForSend(c, k, i, job[j].srv, job[j].req), main[c].file \in Nat
  PROVE  ~Past(c, k) /\ main[c].ph = "send" /\ main[c].file = k
<1>1. IsSend(j)
  BY DEF IsSend, ForSend, At
<1>2. PICK d \in Client, m \in Target : SendsAt(d, m, j)
  BY <1>1 DEF SendsInv
<1>3. main[d].ph = "send" /\ job[j].req.src \in {Hole, <<d, main[d].file>>}
  BY <1>2 DEF SendsAt
<1>4. job[j].req.src = <<c, k>> /\ <<c, k>> \in Source
  BY FcopyAssumption DEF ForSend
<1>5. d = c /\ main[c].file = k
  BY <1>3, <1>4, DiskAssumption
<1> QED BY <1>3, <1>5 DEF Past

\* The size stays once the upload is past its transfer.
LEMMA SizeStays ==
  ASSUME Unbroken({"short"}), UploadsApart, FcopyInv, AnnounceInv, CreatesInv, AskedInv,
         ClosesInv, Fresh, Aimed, Steady => SendsInv, [Next]_vars,
         NEW c \in Client, NEW i \in Target, NEW k \in DOMAIN Files[c],
         Past(c, k), HasSize(c, k, i)
  PROVE  HasSize(c, k, i)'
<1>i. TypeInv /\ main[c].file \in Nat /\ k \in Nat
  BY UploadNumber DEF FcopyInv, ServerInv, SenderInv, SenderTypeOK, MainState
<1>1. CASE CopyOf(c, k, i)' = CopyOf(c, k, i)
  BY <1>1 DEF HasSize
<1>2. ASSUME NEW x, CopyOf(c, k, i)' = x, Changed(c, k, i, x) PROVE HasSize(c, k, i)'
  <2>1. CASE Wiped(c, k, i, x)
    BY <1>i, <2>1 DEF Wiped, Opening, Past
  <2>2. CASE Trimmed(c, k, i, x)
    <3>1. x.size = Files[c][k].size
      BY <2>2 DEF Trimmed, Truncated
    <3> QED BY <1>2, <3>1 DEF HasSize
  <2>3. CASE Filled(c, k, i, x)
    <3>1. PICK j \in Slot :
            /\ At(j, "work") /\ ForSend(c, k, i, job[j].srv, job[j].req)
            /\ x = Written(CopyOf(c, k, i), job[j].req.off, LenOf(c, k, job[j].req.off), <<c, k>>)
      BY <2>3 DEF Filled
    <3>2. ~Steady
      BY <1>i, <3>1, PastQuiet
    <3>3. PICK o \in ChunksOf(c, k) : o = job[j].req.off
      BY <3>1 DEF ForSend
    <3>4. PICK e, s, p, z : /\ e = o + PadTo(LenOf(c, k, o)) /\ s = Files[c][k].size
                            /\ p = PadTo(s) /\ z = CopyOf(c, k, i).size
      OBVIOUS
    <3>5. e <= s \/ e = p
      BY <3>4, ChunkEnds
    <3>6. s \in Nat /\ p \in Nat /\ s <= p /\ e \in Nat
      <4>1. LenOf(c, k, o) \in Nat /\ o \in Nat
        BY LenFits, SenderAssumption DEF ChunksOf
      <4>2. s \in Nat
        BY <3>4, UploadNumber
      <4> QED BY <3>4, <4>1, <4>2, PadGrows
    <3>7. z = s \/ z = p
      BY <3>4 DEF HasSize
    <3>8. x.size = z \/ (x.size = e /\ z < e)
      <4>1. LenOf(c, k, o) # 0 /\ x = Written(CopyOf(c, k, i), o, LenOf(c, k, o), <<c, k>>)
        BY <3>1, <3>3, LenFits
      <4>2. x.size = Grown(CopyOf(c, k, i), e)
        BY <3>4, <4>1 DEF Written
      <4> QED BY <3>4, <3>6, <3>7, <4>2 DEF Grown
    <3>9. x.size = s \/ x.size = p
      BY <3>5, <3>6, <3>7, <3>8
    <3> QED BY <1>2, <3>2, <3>4, <3>9 DEF HasSize
  <2> QED BY <1>2, <2>1, <2>2, <2>3 DEF Changed
<1>3. CASE \E x : CopyOf(c, k, i)' = x /\ Changed(c, k, i, x)
  BY <1>2, <1>3
<1> QED BY <1>1, <1>3, CopyMoves

\* The copy was closed: the close is answered or about to be.
CutFor(c, k, i, j) ==
  /\ At(j, "close") \/ (At(j, "reply") /\ job[j].err = "ok")
  /\ ForClose(c, k, i, job[j].srv, job[j].req)

\* The client has given the token back after its transfer.
GivenBack(c, k, i) ==
  /\ k = main[c].file /\ main[c].ph \in {"close", "done"} /\ Begun(c, k)
  /\ tokens[c][i] = NoToken

\* What was closed for an upload, in good time, has the size of its file.
CutSized ==
  /\ \A j \in Slot : ~At(j, "has")
  /\ \A c \in Client, i \in Target : \A k \in DOMAIN Files[c] :
       /\ \A j \in Slot : CutFor(c, k, i, j) => HasSize(c, k, i)
       /\ GivenBack(c, k, i) => HasSize(c, k, i)

\* The upload that a close is for is past its transfer.
LEMMA CutPast ==
  ASSUME UploadsApart, ClosesInv, NEW j \in Slot, ~At(j, "free"),
         NEW c \in Client, NEW i \in Target, NEW k \in DOMAIN Files[c],
         ForClose(c, k, i, job[j].srv, job[j].req)
  PROVE  Past(c, k)
<1>1. Due(job[j].srv, job[j].req) /\ job[j].req.op = "close"
  BY DEF ClosesInv, ForClose
<1>2. PICK d \in Client, m \in Target : \E l \in DOMAIN Files[d] :
        ForClose(d, l, m, job[j].srv, job[j].req) /\ Past(d, l)
  BY <1>1 DEF Due
<1>3. PICK l \in DOMAIN Files[d] : ForClose(d, l, m, job[j].srv, job[j].req) /\ Past(d, l)
  BY <1>2
<1>4. TokOf(c, k) = TokOf(d, l)
  BY <1>3 DEF ForClose
<1>5. c = d /\ k = l
  BY <1>4, TokenTells
<1> QED BY <1>3, <1>5

\* A handler cuts the copy before it answers.
LEMMA HandledCut ==
  ASSUME ServerInv, NEW j \in Slot, Handles(j), ~At(j, "has"),
         job[j].req.op = "close" => job[j].req.wait,
         NEW c \in Client, NEW i \in Target, NEW k \in DOMAIN Files[c], CutFor(c, k, i, j)'
  PROVE  \/ CutFor(c, k, i, j)
         \/ CloseTruncate(j) /\ ForClose(c, k, i, job[j].srv, job[j].req)
<1>i. TypeInv
  BY DEF ServerInv
<1>0. job'[j].pc \in {"close", "reply"} /\ (job'[j].pc = "reply" => job'[j].err = "ok")
  BY DEF CutFor, At
<1>1. ~At(j, "free") /\ KeepsAsk(j)
  BY <1>0, HandledAsk DEF NoJob
<1>2. ForClose(c, k, i, job[j].srv, job[j].req)
  <2>1. ForClose(c, k, i, job'[j].srv, job'[j].req)
    BY DEF CutFor, ForClose, TokOf
  <2> QED BY <1>1, <2>1 DEF KeepsAsk
<1>3. CloseErase(j) \/ CloseTruncate(j) \/ CloseFd(j)
  <2>1. \/ job[j].pc \in {"erase", "trunc", "close"}
        \/ ~(JobStep(j) \/ JobFails(j) \/ SendWriteShort(j))
    <3>1. Shaped(job[j])
      BY <1>i, <1>1, AtJob
    <3>2. job[j].pc \in {"open", "insert", "chain", "getfd", "work"} => job[j].req.op # "close"
      BY <3>1 DEF Shaped
    <3>3. job[j].req.op = "close" /\ job[j].pc # "has"
      BY <1>2 DEF ForClose, At
    <3> QED BY <3>2, <3>3, Zenon
            DEF JobStep, JobFails, At, CreateOpen, CreateInsert, SetChain, SendLookup,
                SendWrite, SendJoin, CloseHas, CloseErase, CloseTruncate, CloseFd,
                CreateRejected, SendWriteFails, SendWriteShort
  <2>2. job[j].pc \in {"erase", "trunc", "close"}
    BY <2>1 DEF Handles
  <2> QED BY <2>2, Zenon
          DEF Handles, JobStep, JobFails, At, CreateOpen, CreateInsert, SetChain, SendLookup,
              SendWrite, SendJoin, CloseHas, CreateRejected, SendWriteFails, SendWriteShort
<1>4. CASE CloseErase(j)
  <2>1. ASSUME EndClose(j, "ENOENT") PROVE FALSE
    <3>1. Respond(j, "ENOENT")
      BY <1>2, <2>1 DEF EndClose, ForClose
    <3>2. job'[j].pc = "reply" /\ job'[j].err = "ENOENT"
      BY <1>1, <3>1, Responded DEF At
    <3> QED BY <1>0, <3>2
  <2>2. ~At(j, "trunc")'
    BY <1>0 DEF At
  <2> QED BY <1>4, <2>1, <2>2, Erased
<1>5. CASE CloseFd(j)
  <2>1. At(j, "close")
    BY <1>5, Zenon DEF CloseFd
  <2> QED BY <1>2, <2>1 DEF CutFor
<1> QED BY <1>2, <1>3, <1>4, <1>5

\* CutSized is kept by every step.
LEMMA CutSizedNext ==
  ASSUME Unbroken({"short"}), WaitClose, UploadsApart, FcopyInv, NamedTokens, AnnounceInv,
         BegunInv, CreatesInv, AskedInv, ClosesInv, Fresh, Aimed, Steady => SendsInv,
         CutSized, [Next]_vars
  PROVE  CutSized'
<1>i. ServerInv /\ SenderInv /\ CallInv /\ TypeInv
  BY DEF FcopyInv, ServerInv
<1>0. ASSUME NEW j \in Slot, Starts(j)
      PROVE  job'[j].pc \notin {"free", "has", "close", "reply"}
  <2>1. PICK who \in Who, s \in Server, r \in Request : Asks(who, s, r) /\ job'[j].pc = FirstPc(r)
    BY <1>0 DEF Starts
  <2>2. r.op = "close" => r.wait
    BY <2>1, AsksDue DEF Due
  <2>3. r.op \in {"create", "chain", "send", "close"}
    BY DEF Request
  <2> QED BY <2>1, <2>2, <2>3 DEF FirstPc
<1>1. ASSUME NEW j \in Slot PROVE ~At(j, "has")'
  <2>1. CASE job'[j] = job[j]
    BY <2>1 DEF CutSized, At
  <2>2. CASE Handles(j)
    BY <1>i, <2>2, HandledAsk
  <2>3. CASE Ends(j)
    BY <2>3 DEF Ends, NoJob, At
  <2>4. CASE Starts(j)
    BY <1>0, <2>4 DEF At
  <2>5. CASE Forwards(j) \/ Lingers(j)
    BY <2>5 DEF Forwards, Marks, Lingers, At
  <2> QED BY <2>1, <2>2, <2>3, <2>4, <2>5, JobsMove DEF Moves, Rests, CutOff
<1>2. ASSUME NEW c \in Client, NEW i \in Target, NEW k \in DOMAIN Files[c], NEW j \in Slot,
             CutFor(c, k, i, j)'
      PROVE  HasSize(c, k, i)'
  <2>0. job'[j].pc \in {"close", "reply"}
    BY <1>2 DEF CutFor, At
  <2>1. ASSUME CutFor(c, k, i, j) PROVE HasSize(c, k, i)'
    <3>1. ~At(j, "free")
      BY <2>1 DEF CutFor, At
    <3>2. Past(c, k)
      BY <2>1, <3>1, CutPast DEF CutFor
    <3>3. HasSize(c, k, i)
      BY <2>1 DEF CutSized
    <3> QED BY <3>2, <3>3, SizeStays
  <2>2. CASE job'[j] = job[j]
    <3>1. CutFor(c, k, i, j)
      BY <1>2, <2>2 DEF CutFor, At, ForClose, TokOf
    <3> QED BY <2>1, <3>1
  <2>3. CASE Handles(j)
    <3>1. ~At(j, "free")
      BY <1>i, <2>3, HandledAsk
    <3>2. job[j].req.op = "close" => job[j].req.wait
      BY <3>1 DEF ClosesInv, Due
    <3>3. CASE CloseTruncate(j) /\ ForClose(c, k, i, job[j].srv, job[j].req)
      <4>1. PICK s \in Server, p \in Path : s = Dest[c][i] /\ p = PathOf(c, k)
        BY <1>i, CopyTypes
      <4>2. PICK x : x = Truncated(CopyOf(c, k, i), Files[c][k].size)
        OBVIOUS
      <4>3. disk' = [disk EXCEPT ![s][p] = x]
        BY <3>3, <4>1, <4>2, CloseTrims
      <4>4. disk'[s][p] = x
        BY <1>i, <4>3 DEF TypeInv
      <4>5. CopyOf(c, k, i)' = x
        BY <4>1, <4>4 DEF CopyOf, PathOf
      <4>6. x.size = Files[c][k].size
        BY <4>2 DEF Truncated
      <4> QED BY <4>5, <4>6 DEF HasSize
    <3>4. ~At(j, "has")
      BY DEF CutSized
    <3> QED BY <1>i, <1>2, <2>1, <2>3, <3>2, <3>3, <3>4, HandledCut
  <2>4. CASE Ends(j)
    BY <2>0, <2>4 DEF Ends, NoJob
  <2>5. CASE Starts(j)
    BY <1>0, <2>0, <2>5
  <2>6. CASE Forwards(j)
    BY <2>0, <2>6 DEF Forwards, Marks, At
  <2>7. CASE Lingers(j)
    BY <2>0, <2>7 DEF Lingers, At
  <2> QED BY <2>2, <2>3, <2>4, <2>5, <2>6, <2>7, JobsMove DEF Moves, Rests, CutOff
<1>3. ASSUME NEW c \in Client, NEW i \in Target, NEW k \in DOMAIN Files[c],
             k = main'[c].file, main'[c].ph \in {"close", "done"}, Begun(c, k)',
             tokens'[c][i] = NoToken
      PROVE  HasSize(c, k, i)'
  <2>1. k \in Nat /\ ~Resets(c)
    BY <1>3, UploadNumber DEF Resets
  <2>2. k = main[c].file
    BY <1>3, <2>1, AllTokensMove DEF TokensMove, Retains, Turns
  <2>3. Begun(c, k)
    BY <1>3, <2>1, BegunStays DEF Begins
  <2>4. main[c].ph \in {"send", "close", "done"}
    <3>1. \E w \in Worker : work[c][w].pc # "off"
      BY <2>1, <2>2, <2>3 DEF Begun
    <3>2. main[c].ph \in Phase
      BY <1>i DEF SenderInv, SenderTypeOK, MainState
    <3>3. main[c].ph \notin {"open", "chain"}
      BY <1>i, <3>1 DEF SenderInv, ClientInv, PhaseInv
    <3> QED BY <3>2, <3>3 DEF Phase
  <2>5. ASSUME HasSize(c, k, i), main[c].ph \in {"close", "done"} PROVE HasSize(c, k, i)'
    BY <2>2, <2>5, SizeStays DEF Past
  <2>6. CASE tokens[c][i] = NoToken
    <3>1. main[c].ph # "send"
      BY <2>6 DEF FcopyInv, TokenInv
    <3>2. GivenBack(c, k, i)
      BY <2>2, <2>3, <2>4, <2>6, <3>1 DEF GivenBack
    <3> QED BY <2>5, <3>2 DEF CutSized, GivenBack
  <2>7. CASE tokens[c][i] # NoToken
    <3>1. Turns(c, "close") /\ i = main[c].i
      BY <1>3, <2>1, <2>7, AllTokensMove DEF TokensMove, Retains, Turns
    <3>2. PICK j \in Slot : At(j, "reply") /\ job[j].err = "ok" /\ caller[j].who = <<"main", c>>
      BY <3>1 DEF Turns
    <3>3. job[j].srv = Dest[c][i] /\ job[j].req = MainReq(c)
      BY <1>i, <3>1, <3>2, RepliesTo
    <3>4. job[j].req.op = "close" /\ job[j].req.tok = tokens[c][i]
      BY <3>1, <3>3 DEF Turns, MainReq, CloseReq
    <3>5. tokens[c][i] = TokOf(c, k)
      BY <2>2, <2>7 DEF NamedTokens, TokOf, File
    <3>6. CutFor(c, k, i, j)
      BY <3>2, <3>3, <3>4, <3>5 DEF CutFor, ForClose
    <3>7. HasSize(c, k, i)
      BY <3>6 DEF CutSized
    <3> QED BY <2>5, <3>1, <3>7 DEF Turns
  <2> QED BY <2>6, <2>7
<1>4. ASSUME NEW c \in Client, NEW i \in Target, NEW k \in DOMAIN Files[c], GivenBack(c, k, i)'
      PROVE  HasSize(c, k, i)'
  BY <1>3, <1>4 DEF GivenBack
<1> QED BY <1>1, <1>2, <1>4 DEF CutSized

\* Nothing has been closed at the beginning.
LEMMA CutSizedInit == ASSUME Init PROVE CutSized /\ ClosesInv
<1>1. \A j \in Slot : job[j].pc = "free"
  BY DEF Init, ServerInit, NoJob
<1>2. \A c \in Client : main[c].ph = "open"
  BY DEF Init, SenderInit, FreshMain
<1>3. lost = {}
  BY DEF Init
<1>4. \A j \in Slot : ~At(j, "has") /\ ~At(j, "close") /\ ~At(j, "reply")
  BY <1>1 DEF At
<1>5. CutSized
  BY <1>2, <1>4 DEF CutSized, CutFor, GivenBack
<1> QED BY <1>1, <1>3, <1>5 DEF ClosesInv, At

-----------------------------------------------------------------------------
(* What a success says of the copies.                                      *)

\* The chunks of a file are the offsets that its client sends.
LEMMA OffsetsAreChunks ==
  ASSUME NEW c \in Client, NEW k, k = main[c].file
  PROVE  Offsets(c) = ChunksOf(c, k) /\ Size(c) = Files[c][k].size
BY DEF Offsets, ChunksOf, Size

\* Every copy of a file that was reported holds it.
LEMMA SuccessHolds ==
  ASSUME FcopyInv, BegunInv, AckedIsStored, BlankInv, CutSized,
         NEW c \in Client, Succeeded(c), NEW i \in Target, NEW k \in DOMAIN Files[c],
         k = main[c].file
  PROVE  /\ CopyOf(c, k, i).data = Exact(<<c, k>>, Files[c][k].size, ChunkSize).data
         /\ HasSize(c, k, i)
<1>i. SenderInv /\ TypeInv
  BY DEF FcopyInv, ServerInv
<1>1. Begun(c, k) /\ main[c].ph = "done"
  BY DEF BegunInv, Succeeded
<1>2. acked[c] = ChunksOf(c, k)
  BY <1>i, OffsetsAreChunks DEF SenderInv, ClientInv, ResultInv, Succeeded
<1>3. tokens[c][i] = NoToken
  BY <1>i DEF SenderInv, ClientInv, ResultInv, Succeeded
<1>4. GivenBack(c, k, i)
  BY <1>1, <1>3 DEF GivenBack
<1>5. HasSize(c, k, i)
  BY <1>4 DEF CutSized
<1>6. PICK d : d = CopyOf(c, k, i).data
  OBVIOUS
<1>7. d \in [Offset -> Source \cup {Hole}]
  BY <1>i, <1>6, CopyTypes DEF FileState
<1>8. ASSUME NEW o \in Offset
      PROVE  d[o] = IF o < Files[c][k].size /\ o % ChunkSize = 0 THEN <<c, k>> ELSE Hole
  <2>1. o \in Nat /\ Files[c][k].size \in Nat
    BY UploadNumber, DiskAssumption
  <2>2. CASE o \in ChunksOf(c, k)
    <3>1. disk[Dest[c][i]][FileOf[File(c).name]].data[o] = <<c, main[c].file>>
      BY <1>2, <2>2 DEF AckedIsStored
    <3>2. d[o] = <<c, k>>
      BY <1>6, <3>1 DEF CopyOf, PathOf, File
    <3>3. o < Files[c][k].size /\ o % ChunkSize = 0
      BY <2>1, <2>2 DEF ChunksOf
    <3> QED BY <3>2, <3>3
  <2>3. CASE o \notin ChunksOf(c, k)
    <3>1. d[o] = Hole
      BY <1>1, <1>6, <2>3 DEF BlankInv, Blank
    <3>2. ~(o < Files[c][k].size /\ o % ChunkSize = 0)
      BY <2>1, <2>3 DEF ChunksOf
    <3> QED BY <3>1, <3>2
  <2> QED BY <2>2, <2>3
<1>9. d = [o \in Offset |-> IF o < Files[c][k].size /\ o % ChunkSize = 0 THEN <<c, k>> ELSE Hole]
  BY <1>7, <1>8
<1> QED BY <1>5, <1>6, <1>9 DEF Exact

\* So it does what is promised of it.
LEMMA SuccessIsComplete ==
  ASSUME FcopyInv, BegunInv, AckedIsStored, BlankInv, CutSized
  PROVE  UploadComplete /\ (Steady => UploadExact)
<1>i. SenderInv /\ TypeInv
  BY DEF FcopyInv, ServerInv
<1>0. ASSUME NEW c \in Client, NEW i \in Target, Succeeded(c)
      PROVE  \E k \in DOMAIN Files[c] :
               /\ k = main[c].file /\ Size(c) = Files[c][k].size
               /\ disk[Dest[c][i]][FileOf[File(c).name]] = CopyOf(c, k, i)
               /\ CopyOf(c, k, i).data = Exact(<<c, k>>, Files[c][k].size, ChunkSize).data
               /\ HasSize(c, k, i)
  <2>1. PICK k \in DOMAIN Files[c] : k = main[c].file
    BY <1>i, FileTypes DEF SenderInv
  <2>2. disk[Dest[c][i]][FileOf[File(c).name]] = CopyOf(c, k, i) /\ Size(c) = Files[c][k].size
    BY <2>1 DEF CopyOf, PathOf, File, Size
  <2> QED BY <1>0, <2>1, <2>2, SuccessHolds
<1>1. UploadComplete
  BY <1>0 DEF UploadComplete, HasSize
<1>2. ASSUME Steady PROVE UploadExact
  <2> SUFFICES ASSUME NEW c \in Client, NEW i \in Target, Succeeded(c)
               PROVE  HasFile(Dest[c][i], c, main[c].file)
    BY DEF UploadExact
  <2>1. PICK k \in DOMAIN Files[c] :
          /\ k = main[c].file
          /\ CopyOf(c, k, i).data = Exact(<<c, k>>, Files[c][k].size, ChunkSize).data
          /\ HasSize(c, k, i)
    BY <1>0
  <2>2. PICK f \in FileState : f = CopyOf(c, k, i)
    BY <1>i, CopyTypes
  <2>3. f.size = Files[c][k].size
    BY <1>2, <2>1, <2>2 DEF HasSize
  <2>4. f = [size |-> f.size, data |-> f.data]
    BY DEF FileState
  <2>5. f = Exact(<<c, k>>, Files[c][k].size, ChunkSize)
    BY <2>1, <2>2, <2>3, <2>4 DEF Exact
  <2> QED BY <2>1, <2>2, <2>5 DEF HasFile, CopyOf, PathOf
<1> QED BY <1>1, <1>2

\* All that it rests on is kept together.
CompleteInv == CopiesInv /\ ClosesInv /\ BlankInv /\ CutSized

\* A step keeps them.
LEMMA CompleteNext ==
  ASSUME Unbroken({"create", "short", "shrink"}), WaitClose, UploadsApart, FcopyInv,
         CompleteInv, Fresh, Aimed, Steady => SendsInv, [Next]_vars
  PROVE  CompleteInv'
<1>1. Unbroken({"short"})
  BY DEF Unbroken
<1>2. /\ CopiesInv /\ ClosesInv /\ BlankInv /\ CutSized
      /\ NamedTokens /\ AnnounceInv /\ BegunInv /\ CreatesInv /\ AskedInv
  BY DEF CompleteInv, CopiesInv
<1>3. CopiesInv'
  BY <1>2, CopiesNext
<1>4. ClosesInv'
  BY <1>2, ClosesNext
<1>5. BlankInv'
  BY <1>1, <1>2, BlankNext
<1>6. CutSized'
  BY <1>1, <1>2, CutSizedNext
<1> QED BY <1>3, <1>4, <1>5, <1>6 DEF CompleteInv

\* All of this holds throughout.
LEMMA CompleteKept ==
  ASSUME Unbroken({"create", "short", "shrink"}), Sheltered, WaitClose
  PROVE  Spec => [](CompleteInv /\ Fresh /\ Aimed)
<1>2. Init => CompleteInv
  BY CopiesInit, BlankInit, CutSizedInit DEF CompleteInv
<1>3. ASSUME Steady, OneFilePerToken, UploadsApart
      PROVE  Spec => [](CompleteInv /\ Fresh /\ Aimed)
  <2>0. Init => CutInv
    BY DEF Init, ServerInit, NoJob, CutInv, At
  <2>1. [Next]_vars => \A q \in Server : ~Crash(q)
    <3>1. "crash" \notin FaultKinds
      BY <1>3 DEF Steady, Unbroken
    <3> QED BY <3>1 DEF Crash, Fault
  <2>2. FcopyInv /\ OwnInv /\ SendsInv /\ CutInv /\ CompleteInv => Fresh /\ Aimed
    BY <1>3, FreshSteady, AimedSteady
  <2>3. /\ FcopyInv /\ OwnInv /\ SendsInv /\ CutInv /\ CompleteInv /\ [Next]_vars
        => CompleteInv' /\ CutInv'
    <3> SUFFICES ASSUME FcopyInv, OwnInv, SendsInv, CutInv, CompleteInv, [Next]_vars
                 PROVE  CompleteInv' /\ CutInv'
      OBVIOUS
    <3>1. CutInv'
      BY <2>1, CutNext
    <3> QED BY <1>3, <2>2, <3>1, CompleteNext
  <2> QED BY <1>2, <1>3, <2>0, <2>2, <2>3, ChunksOnRoute, SystemKeepsInv, PTL DEF Spec
<1>4. ASSUME OneUpload PROVE FcopyInv /\ OpenedInv /\ CompleteInv => Fresh /\ Aimed
  BY <1>4, FreshAlone, AimedAlone DEF FcopyInv
<1>5. ASSUME OneUpload
      PROVE  /\ FcopyInv /\ (Steady => SendsInv) /\ OpenedInv /\ CompleteInv /\ [Next]_vars
             => CompleteInv' /\ OpenedInv'
  <2> SUFFICES ASSUME FcopyInv, Steady => SendsInv, OpenedInv, CompleteInv, [Next]_vars
               PROVE  CompleteInv' /\ OpenedInv'
    OBVIOUS
  <2>1. UploadsApart
    BY <1>5 DEF OneUpload, UploadsApart
  <2>2. OpenedInv'
    BY OpenedNext DEF CompleteInv, CopiesInv
  <2> QED BY <1>4, <1>5, <2>1, <2>2, CompleteNext
<1>6. ASSUME OneUpload, ~Steady PROVE Spec => [](CompleteInv /\ Fresh /\ Aimed)
  BY <1>2, <1>4, <1>5, <1>6, OpenedInit, SystemKeepsInv, PTL DEF Spec
<1>7. ASSUME OneUpload, Steady PROVE Spec => [](CompleteInv /\ Fresh /\ Aimed)
  BY <1>2, <1>4, <1>5, <1>7, OpenedInit, ChunksOnRoute, SystemKeepsInv, PTL DEF Spec
<1> QED BY <1>3, <1>6, <1>7 DEF Sheltered

\* UploadComplete, under the hypotheses of AckedIsStored, if a close replies last: an
\* upload that reports success, with any number of targets, workers and chunks, for the
\* chain and the tree, also when writes, closes and local calls fail, has every chunk
\* of its file in every copy.
THEOREM UploadsAreComplete ==
  Unbroken({"create", "short", "shrink"}) /\ Sheltered /\ WaitClose => (Spec => []UploadComplete)
<1> SUFFICES ASSUME Unbroken({"create", "short", "shrink"}), Sheltered, WaitClose
             PROVE  Spec => []UploadComplete
  OBVIOUS
<1>1. FcopyInv /\ CompleteInv => UploadComplete
  BY SuccessIsComplete DEF CompleteInv, CopiesInv
<1>2. Spec => [](CompleteInv /\ Fresh /\ Aimed)
  BY CompleteKept
<1> QED BY <1>1, <1>2, SystemKeepsInv, PTL

\* UploadExact, if besides no connection breaks and no server goes down: then the copies
\* are the file, to the byte, and stay so while the client reports its success.
THEOREM UploadsAreExact ==
  Unbroken({"create", "short", "shrink"}) /\ Steady /\ Sheltered /\ WaitClose
    => (Spec => []UploadExact)
<1> SUFFICES ASSUME Unbroken({"create", "short", "shrink"}), Steady, Sheltered, WaitClose
             PROVE  Spec => []UploadExact
  OBVIOUS
<1>1. FcopyInv /\ CompleteInv => UploadExact
  BY SuccessIsComplete DEF CompleteInv, CopiesInv
<1>2. Spec => [](CompleteInv /\ Fresh /\ Aimed)
  BY CompleteKept
<1> QED BY <1>1, <1>2, SystemKeepsInv, PTL

-----------------------------------------------------------------------------
(* The promise of module Transfer.                                         *)

\* A client waits for each of its closes, if they reply last and no call breaks.
AwaitedCloses == \A j \in Slot : ~At(j, "free") /\ job[j].req.op = "close" => Called(j)

\* Only a client sends a close, and it stays until it is answered.
LEMMA AwaitedClosesNext ==
  ASSUME Unbroken({"close", "crash"}), WaitClose, FcopyInv, ClosesInv, AwaitedCloses, [Next]_vars
  PROVE  AwaitedCloses'
<1>i. ServerInv
  BY DEF FcopyInv
<1> SUFFICES ASSUME NEW j \in Slot, job'[j].pc # "free", job'[j].req.op = "close"
             PROVE  caller'[j].who # <<"none">>
  BY DEF AwaitedCloses, At, Called
<1>1. job'[j] # NoJob
  BY DEF NoJob
<1>2. CASE Rests(j)
  BY <1>2 DEF Rests, AwaitedCloses, At, Called
<1>3. CASE CutOff(j)
  BY <1>3 DEF CutOff, Unbroken
<1>4. CASE Starts(j)
  BY <1>4 DEF Starts
<1>5. CASE Handles(j)
  <2>1. ~At(j, "free") /\ KeepsAsk(j)
    BY <1>i, <1>1, <1>5, HandledAsk
  <2> QED BY <1>5, <2>1 DEF Handles, KeepsAsk, AwaitedCloses, Called
<1>6. CASE Forwards(j)
  BY <1>6 DEF Forwards, Marks, KeepsAsk, AwaitedCloses, At, Called
<1>7. CASE Lingers(j)
  <2>1. IsLateClose(j) /\ ~At(j, "free")
    BY <1>7 DEF Lingers, At
  <2>2. job[j].req.wait
    BY <2>1 DEF ClosesInv, Due, IsLateClose
  <2> QED BY <2>1, <2>2 DEF IsLateClose
<1> QED BY <1>1, <1>2, <1>3, <1>4, <1>5, <1>6, <1>7, JobsMove DEF Moves, Ends

\* Who waits for a close is a client that closes its files.
LEMMA CloseCaller ==
  ASSUME UploadsApart, FcopyInv, NamedTokens, NEW j \in Slot, ~At(j, "free"), Called(j),
         NEW c \in Client, NEW i \in Target, NEW k \in DOMAIN Files[c],
         ForClose(c, k, i, job[j].srv, job[j].req)
  PROVE  main[c].ph = "close" /\ main[c].file = k
<1>i. TypeInv /\ CallInv /\ SenderInv
  BY DEF FcopyInv, ServerInv
<1>0. job[j].req.op = "close" /\ job[j].req.tok = TokOf(c, k) /\ job[j].req \in Request
  BY <1>i, AtJob DEF ForClose
<1>1. PICK who \in Who : who = caller[j].who /\ who # <<"none">>
                         /\ Awaits(who, job[j].srv, job[j].req)
  BY <1>i, CallerWaits
<1>2. CASE who[1] = "main"
  <2>1. PICK d \in Client : who = <<"main", d>>
    BY <1>2, WhoForms
  <2>2. main[d].at = "await" /\ job[j].req = MainReq(d) /\ main[d].i < N
    BY <1>1, <1>i, <2>1 DEF Awaits, SenderInv, ClientInv, PlaceInv
  <2>3. main[d].ph = "close"
    <3>1. main[d].ph \in {"open", "chain", "close"}
      BY <1>i, <2>2 DEF SenderInv, ClientInv, PlaceInv
    <3> QED BY <1>0, <2>2, <3>1 DEF MainReq, CreateReq, SetChainReq
  <2>4. PICK m \in Target : m = main[d].i
    <3>1. main[d].i \in 0..N
      BY <1>i DEF SenderInv, SenderTypeOK, MainState
    <3> QED BY <2>2, <3>1, SenderAssumption DEF Target
  <2>5. job[j].req.tok = tokens[d][m]
    BY <2>2, <2>3, <2>4 DEF MainReq, CloseReq
  <2>6. tokens[d][m] # NoToken
    <3>1. TokOf(c, k) \in Token
      BY UploadNumber, ServerAssumption DEF TokOf
    <3> QED BY <1>0, <2>5, <3>1, SenderAssumption
  <2>7. PICK l \in DOMAIN Files[d] : l = main[d].file
    BY <1>i, FileTypes DEF SenderInv
  <2>8. TokOf(c, k) = TokOf(d, l)
    BY <1>0, <2>5, <2>6, <2>7 DEF NamedTokens, TokOf, File
  <2>9. c = d /\ k = l
    BY <2>8, TokenTells
  <2> QED BY <2>3, <2>7, <2>9
<1>3. CASE who[1] = "work"
  <2>1. PICK d \in Client, w \in Worker : who = <<"work", d, w>>
    BY <1>3, WhoForms
  <2>2. job[j].req \in WorkReqs(d, w)
    BY <1>1, <2>1 DEF Awaits
  <2> QED BY <1>0, <2>2, WorkReqFields
<1>4. CASE who[1] = "fwd"
  <2>1. PICK p \in Slot, q \in Nat : who = <<"fwd", p, q>>
    BY <1>4, WhoForms
  <2>2. At(p, "work") /\ job[j].req = ForwardReq(p, q)
    BY <1>1, <2>1 DEF Awaits
  <2>3. job[p].req \in Request /\ job[p].req.op = "send"
    BY <1>i, <2>2, AtJob DEF At, Shaped
  <2>4. ForwardReq(p, q).op = "send"
    BY <2>3, ForwardFields
  <2> QED BY <1>0, <2>2, <2>4
<1> QED BY <1>1, <1>2, <1>3, <1>4, WhoForms

\* What a client shows of its upload.
Shows(c) ==
  [file |-> main[c].file,
   st   |-> IF main[c].ph # "done" THEN "run" ELSE IF main[c].err = "ok" THEN "ok" ELSE "fail"]

\* A client that does not end, and one that nothing happens to, shows the same.
LEMMA ShowsSame ==
  ASSUME NEW c \in Client,
         \/ main'[c] = main[c]
         \/ /\ main'[c].file = main[c].file
            /\ main[c].ph # "done" /\ main'[c].ph # "done"
  PROVE  Shows(c)' = Shows(c)
BY DEF Shows

\* A step that changes what they show is the end of an upload or the beginning of the next.
ShowsMove ==
  \/ \A d \in Client : Shows(d)' = Shows(d)
  \/ \E c \in Client : Finish(c) \/ NextFile(c)

\* An answer ends no upload,
LEMMA ReturnShows ==
  ASSUME SenderInv, NEW c \in Client, NEW e, NEW t,
         OpenReturns(c, e, t) \/ ChainReturns(c, e) \/ CloseReturns(c, e)
  PROVE  \A d \in Client : Shows(d)' = Shows(d)
<1>t. main \in [Client -> MainState]
  BY DEF SenderInv, SenderTypeOK
<1>1. \A d \in Client \ {c} : main'[d] = main[d]
  BY <1>t DEF OpenReturns, ChainReturns, CloseReturns, GiveUp
<1>2. /\ main'[c].file = main[c].file
      /\ main[c].ph # "done" /\ main'[c].ph # "done"
  BY <1>t, SMT DEF OpenReturns, ChainReturns, CloseReturns, GiveUp, Waits, MainState
<1> QED BY <1>1, <1>2, ShowsSame

\* and neither does any other step.
LEMMA AllShowsMove ==
  ASSUME FcopyInv, [Next]_vars
  PROVE  ShowsMove
<1>i. SenderInv /\ CallInv
  BY DEF FcopyInv
<1>t. main \in [Client -> MainState]
  BY <1>i DEF SenderInv, SenderTypeOK
<1>0. ASSUME main' = main PROVE ShowsMove
  BY <1>0, ShowsSame DEF ShowsMove
<1>1. ASSUME NEW c \in Client, MainCalls(c) PROVE ShowsMove
  <2>1. /\ main'[c].ph = main[c].ph /\ main'[c].file = main[c].file
        /\ \A d \in Client \ {c} : main'[d] = main[d]
    BY <1>i, <1>1, CallMade DEF MainCalls
  <2>2. main[c].ph # "done"
    BY <1>1 DEF MainCalls, Call, Calls
  <2> QED BY <2>1, <2>2, ShowsSame DEF ShowsMove
<1>2. ASSUME NEW c \in Client,
             StartSend(c) \/ JoinSend(c) \/ CloseSkips(c) \/ LocalOpenFails(c)
      PROVE  ShowsMove
  <2>1. \A d \in Client \ {c} : main'[d] = main[d]
    BY <1>t, <1>2 DEF StartSend, JoinSend, CloseSkips, LocalOpenFails, GiveUp
  <2>2. /\ main'[c].file = main[c].file
        /\ main[c].ph # "done" /\ main'[c].ph # "done"
    BY <1>t, <1>2, SMT DEF StartSend, JoinSend, CloseSkips, LocalOpenFails, GiveUp, MainState
  <2> QED BY <2>1, <2>2, ShowsSame DEF ShowsMove
<1>3. ASSUME NEW who \in Who, NEW e, NEW t, Resume(who, e, t) PROVE ShowsMove
  <2>1. CASE who[1] = "main"
    <3>1. PICK c \in Client : who = <<"main", c>>
      BY <2>1, WhoForms
    <3>2. OpenReturns(c, e, t) \/ ChainReturns(c, e) \/ CloseReturns(c, e)
      BY <1>3, <2>1, <3>1 DEF Resume
    <3> QED BY <1>i, <3>2, ReturnShows DEF ShowsMove
  <2>2. CASE who[1] # "main"
    <3>1. main' = main
      BY <1>3, <2>2 DEF Resume, SendReturns, senderVars
    <3> QED BY <1>0, <3>1
  <2> QED BY <2>1, <2>2
<1>4. ASSUME NEW j \in Slot, Reply(j) PROVE ShowsMove
  <2>1. PICK who \in Who : who = caller[j].who
    BY <1>i DEF CallInv, CallerInv
  <2>2. PICK e, t : e = job[j].err /\ t = Answer(j)
    OBVIOUS
  <2>3. UNCHANGED senderVars \/ Resume(who, e, t)
    BY <1>4, <2>1, <2>2 DEF Reply
  <2> QED BY <1>0, <1>3, <2>3 DEF senderVars
<1>5. ASSUME NEW l \in lost, GiveUpCall(l) PROVE ShowsMove
  <2>1. PICK who \in Who : who = l.who
    BY <1>i DEF CallInv, LostInv
  <2>2. UNCHANGED senderVars \/ Resume(who, "EIO", NoToken)
    BY <1>5, <2>1 DEF GiveUpCall
  <2> QED BY <1>0, <1>3, <2>2 DEF senderVars
<1>6. ASSUME NEW c \in Client, NEW w \in Worker, ClientWorker(c, w) PROVE main' = main
  BY <1>6 DEF ClientWorker, WorkerCalls, WorkerRead, WorkerCheck, WorkerClaim, WorkerFail,
              WorkerAlloc
<1>7. ASSUME NEW j \in Slot, ServerStep(j) \/ ServerFails(j) \/ Disconnect(j) PROVE ShowsMove
  <2>1. UNCHANGED senderVars \/ Reply(j)
    BY <1>7 DEF ServerStep, ServerFails, Disconnect, Forward
  <2> QED BY <1>0, <1>4, <2>1 DEF senderVars
<1>8. CASE \/ \E l \in lost : Redial(l)
           \/ \E s \in Server : Crash(s)
           \/ UNCHANGED vars
  BY <1>0, <1>8 DEF Redial, Crash, vars, senderVars
<1>9. ASSUME NEW c \in Client, ClientMain(c) \/ ClientFails(c) PROVE ShowsMove
  <2>1. \/ MainCalls(c) \/ Finish(c) \/ NextFile(c)
        \/ StartSend(c) \/ JoinSend(c) \/ CloseSkips(c) \/ LocalOpenFails(c)
    BY <1>9 DEF ClientMain, ClientFails, MainInternal
  <2> QED BY <1>1, <1>2, <2>1 DEF ShowsMove
<1> QED BY <1>0, <1>4, <1>5, <1>6, <1>7, <1>8, <1>9 DEF Next, RetryStep

\* A step that writes a file is one of a handler.
LEMMA WritersQuiet == ASSUME [Next]_vars, disk' # disk PROVE UNCHANGED senderVars
<1>1. ASSUME NEW s \in Server, Crash(s) PROVE FALSE
  BY <1>1, Zenon DEF Crash, Restart
<1>2. ASSUME NEW c \in Client, ClientMain(c) \/ ClientFails(c) PROVE FALSE
  BY <1>2, Zenon DEF ClientMain, ClientFails, MainCalls, ServersIdle, serverVars
<1>3. ASSUME NEW c \in Client, NEW w \in Worker, ClientWorker(c, w) PROVE FALSE
  BY <1>3, Zenon DEF ClientWorker, WorkerCalls, ServersIdle, serverVars
<1>4. ASSUME NEW j \in Slot, ServerStep(j) \/ ServerFails(j) \/ Disconnect(j)
      PROVE  UNCHANGED senderVars
  BY <1>4, Zenon DEF ServerStep, ServerFails, Disconnect, Forward, Reply
<1>5. ASSUME RetryStep PROVE FALSE
  BY <1>5, Zenon DEF RetryStep, Redial, GiveUpCall
<1>6. CASE UNCHANGED vars
  BY <1>6, Zenon DEF vars, serverVars
<1> QED BY <1>1, <1>2, <1>3, <1>4, <1>5, <1>6, Zenon DEF Next

\* A change of a copy is one that its client may make while it uploads the file.
LEMMA ChangeAllowed ==
  ASSUME UploadsApart, FcopyInv, NamedTokens, ClosesInv, AwaitedCloses, Steady, SendsInv,
         NEW c \in Client, NEW i \in Target, NEW k \in DOMAIN Files[c], NEW x,
         Changed(c, k, i, x)
  PROVE  /\ main[c].file = k /\ main[c].ph # "done"
         /\ \/ x = Truncated(CopyOf(c, k, i), 0)
            \/ x = Truncated(CopyOf(c, k, i), Files[c][k].size)
            \/ \E o \in Offset, n \in 1..ChunkSize :
                 o + n <= Files[c][k].size /\ x = Written(CopyOf(c, k, i), o, n, <<c, k>>)
<1>i. TypeInv /\ main[c].file \in Nat
  BY DEF FcopyInv, ServerInv, SenderInv, SenderTypeOK, MainState
<1>1. CASE Wiped(c, k, i, x)
  BY <1>1 DEF Wiped, Opening
<1>2. CASE Filled(c, k, i, x)
  <2>1. PICK j \in Slot :
          /\ At(j, "work") /\ ForSend(c, k, i, job[j].srv, job[j].req)
          /\ x = Written(CopyOf(c, k, i), job[j].req.off, LenOf(c, k, job[j].req.off), <<c, k>>)
    BY <1>2 DEF Filled
  <2>2. main[c].ph = "send" /\ main[c].file = k
    BY <1>i, <2>1, PastQuiet
  <2>3. PICK o \in ChunksOf(c, k) : o = job[j].req.off
    BY <2>1 DEF ForSend
  <2>4. /\ o \in Offset /\ LenOf(c, k, o) \in 1..ChunkSize
        /\ o + LenOf(c, k, o) <= Files[c][k].size
    BY LenFits
  <2>5. x = Written(CopyOf(c, k, i), o, LenOf(c, k, o), <<c, k>>)
    BY <2>1, <2>3
  <2> QED BY <2>2, <2>4, <2>5
<1>3. CASE Trimmed(c, k, i, x)
  <2>1. PICK j \in Slot : CloseTruncate(j) /\ ForClose(c, k, i, job[j].srv, job[j].req)
    BY <1>3 DEF Trimmed
  <2>2. At(j, "trunc") /\ ~At(j, "free")
    BY <2>1, Zenon DEF CloseTruncate, At
  <2>3. Called(j)
    BY <2>1, <2>2 DEF AwaitedCloses, ForClose
  <2>4. main[c].ph = "close" /\ main[c].file = k
    BY <2>1, <2>2, <2>3, CloseCaller
  <2> QED BY <1>3, <2>4 DEF Trimmed
<1> QED BY <1>1, <1>2, <1>3 DEF Changed

\* So it is a step of Transfer,
LEMMA WriteIsTransfer ==
  ASSUME Unbroken({"short"}), UploadsApart, FcopyInv, NamedTokens, AnnounceInv, CreatesInv,
         AskedInv, ClosesInv, AwaitedCloses, Steady, SendsInv, Fresh, Aimed,
         [Next]_vars, disk' # disk
  PROVE  T!TransferNext
<1>1. PICK c \in Client, i \in Target : \E k \in DOMAIN Files[c] : Changes(c, k, i)
  BY CopiesMove
<1>2. PICK k \in DOMAIN Files[c] : Changes(c, k, i)
  BY <1>1
<1>3. PICK x : /\ disk' = [disk EXCEPT ![Dest[c][i]][PathOf(c, k)] = x]
               /\ Changed(c, k, i, x)
  BY <1>2 DEF Changes
<1>4. main[c].file = k /\ main[c].ph # "done"
  BY <1>3, ChangeAllowed
<1>5. main' = main
  BY WritersQuiet DEF senderVars
<1>6. T!Running(c) /\ T!Current(c) = Files[c][k] /\ T!Me(c) = <<c, k>>
  BY <1>4 DEF T!Running, T!Current, T!Me
<1>7. T!Copy(c, i) = CopyOf(c, k, i)
  BY <1>6 DEF T!Copy, CopyOf, PathOf
<1>8. T!Change(c, i, x)
  BY <1>3, <1>5, <1>6 DEF T!Change, PathOf
<1>9. T!Wipe(c, i) \/ T!Trim(c, i) \/ T!Store(c, i)
  <2>1. CASE x = Truncated(CopyOf(c, k, i), 0)
    BY <1>7, <1>8, <2>1 DEF T!Wipe, T!Truncated, Truncated
  <2>2. CASE x = Truncated(CopyOf(c, k, i), Files[c][k].size)
    BY <1>6, <1>7, <1>8, <2>2 DEF T!Trim, T!Truncated, Truncated
  <2>3. CASE \E o \in Offset, n \in 1..ChunkSize :
               o + n <= Files[c][k].size /\ x = Written(CopyOf(c, k, i), o, n, <<c, k>>)
    <3>1. PICK o \in Offset, n \in 1..ChunkSize :
            o + n <= Files[c][k].size /\ x = Written(CopyOf(c, k, i), o, n, <<c, k>>)
      BY <2>3
    <3>2. x = T!Written(T!Copy(c, i), o, n, T!Me(c))
      BY <1>6, <1>7, <3>1 DEF T!Written, Written, T!Grown, Grown, T!PadTo, PadTo
    <3> QED BY <1>6, <1>8, <3>1, <3>2 DEF T!Store
  <2> QED BY <1>3, <2>1, <2>2, <2>3, ChangeAllowed
<1>10. i \in 0..N-1
  BY DEF Target
<1> QED BY <1>9, <1>10 DEF T!TransferNext

\* What one client shows is all that a report changes.
LEMMA OneReports ==
  ASSUME NEW c \in Client, NEW st, Shows(c)' = [file |-> Shows(c).file, st |-> st],
         \A d \in Client \ {c} : Shows(d)' = Shows(d)
  PROVE  [d \in Client |-> Shows(d)]' = [[d \in Client |-> Shows(d)] EXCEPT ![c].st = st]
<1>1. Shows(c) = [file |-> Shows(c).file, st |-> Shows(c).st]
  BY DEF Shows
<1> HIDE DEF Shows
<1>2. [Shows(c) EXCEPT !.st = st] = [file |-> Shows(c).file, st |-> st]
  BY <1>1
<1> QED BY <1>2

\* The end of an upload reports it, and the next one proceeds.
LEMMA EndIsTransfer ==
  ASSUME FcopyInv, UploadExact', disk' = disk, NEW c \in Client, Finish(c) \/ NextFile(c)
  PROVE  T!TransferNext
<1>t. main \in [Client -> MainState]
  BY DEF FcopyInv, SenderInv, SenderTypeOK
<1>1. CASE Finish(c)
  <2>1. /\ main[c].ph = "close" /\ main'[c].ph = "done" /\ main'[c].file = main[c].file
        /\ \A d \in Client \ {c} : main'[d] = main[d]
    BY <1>t, <1>1, SMT DEF Finish, MainState
  <2>2. Shows(c).st = "run" /\ Shows(c)' = [file |-> main[c].file,
                                            st |-> IF main'[c].err = "ok" THEN "ok" ELSE "fail"]
    BY <2>1 DEF Shows
  <2>a. \A d \in Client \ {c} : Shows(d)' = Shows(d)
    BY <2>1, ShowsSame
  <2>b. Shows(c).file = main[c].file
    BY DEF Shows
  <2>3. CASE main'[c].err = "ok"
    <3>1. Succeeded(c)'
      BY <2>1, <2>3 DEF Succeeded
    <3>2. \A i \in Target : HasFile(Dest[c][i], c, main[c].file)
      BY <2>1, <3>1 DEF UploadExact, HasFile
    <3>3. T!Complete(c)
      BY <3>2 DEF T!Complete, T!Copy, T!Current, T!Me, T!Exact, HasFile, Exact, Target
    <3>4. [d \in Client |-> Shows(d)]' = [[d \in Client |-> Shows(d)] EXCEPT ![c].st = "ok"]
      BY <2>2, <2>3, <2>a, <2>b, OneReports
    <3>5. [d \in Client |-> Shows(d)][c].st = "run"
      BY <2>2
    <3> QED BY <3>3, <3>4, <3>5 DEF T!TransferNext, T!Report, T!Running, Shows
  <2>4. CASE main'[c].err # "ok"
    <3>4. [d \in Client |-> Shows(d)]' = [[d \in Client |-> Shows(d)] EXCEPT ![c].st = "fail"]
      BY <2>2, <2>4, <2>a, <2>b, OneReports
    <3>5. [d \in Client |-> Shows(d)][c].st = "run"
      BY <2>2
    <3> QED BY <3>4, <3>5 DEF T!TransferNext, T!Report, T!Running, Shows
  <2> QED BY <2>3, <2>4
<1>2. CASE NextFile(c)
  <2>1. /\ main[c].ph = "done" /\ main[c].err = "ok" /\ main[c].file < Len(Files[c])
        /\ main'[c].ph = "open" /\ main'[c].file = main[c].file + 1
        /\ \A d \in Client \ {c} : main'[d] = main[d]
    BY <1>t, <1>2, SMT DEF NextFile, FreshMain
  <2> QED BY <2>1 DEF T!TransferNext, T!Proceed
<1> QED BY <1>1, <1>2

\* It begins as Transfer does,
LEMMA TransferBegins == ASSUME Init PROVE T!TransferInit
BY DEF Init, SenderInit, FreshMain, ServerInit, T!TransferInit

\* and each step is one of Transfer or changes nothing that Transfer shows.
LEMMA StepIsTransfer ==
  ASSUME Unbroken({"short"}), Steady, UploadsApart, FcopyInv, SendsInv, CompleteInv, Fresh,
         Aimed, AwaitedCloses, UploadExact', [Next]_vars
  PROVE  [T!TransferNext]_(T!transferVars)
<1>1. CASE disk' # disk
  <2>1. T!TransferNext
    BY <1>1, WriteIsTransfer DEF CompleteInv, CopiesInv
  <2> QED BY <2>1
<1>2. CASE disk' = disk /\ \E c \in Client : Finish(c) \/ NextFile(c)
  <2>1. T!TransferNext
    BY <1>2, EndIsTransfer
  <2> QED BY <2>1
<1>3. CASE disk' = disk /\ \A d \in Client : Shows(d)' = Shows(d)
  <2>1. [d \in Client |-> Shows(d)]' = [d \in Client |-> Shows(d)]
    BY <1>3
  <2> QED BY <1>3, <2>1 DEF T!transferVars, Shows
<1> QED BY <1>1, <1>2, <1>3, AllShowsMove DEF ShowsMove

\* The system keeps the promise of Transfer: if the creates agree, no file is cut short
\* while it is read, no write is short, no connection breaks and no server goes down, each
\* step of it is, on the copies and on what the clients have reported, one that Transfer
\* allows or none.
THEOREM SystemIsTransfer ==
  Unbroken({"create", "short", "shrink"}) /\ Steady /\ Sheltered /\ WaitClose
    => (Spec => ImplementsTransfer)
<1> SUFFICES ASSUME Unbroken({"create", "short", "shrink"}), Steady, Sheltered, WaitClose
             PROVE  Spec => ImplementsTransfer
  OBVIOUS
<1>1. Unbroken({"short"}) /\ Unbroken({"close", "crash"})
  BY DEF Steady, Unbroken
<1>2. UploadsApart
  BY DEF Sheltered, OneUpload, UploadsApart
<1>3. Init => AwaitedCloses
  BY DEF Init, ServerInit, NoJob, AwaitedCloses, At
<1>4. Spec => [](CompleteInv /\ Fresh /\ Aimed)
  BY CompleteKept
<1>5. Spec => []UploadExact
  BY UploadsAreExact
<1>6. FcopyInv /\ CompleteInv /\ AwaitedCloses /\ [Next]_vars => AwaitedCloses'
  BY <1>1, AwaitedClosesNext DEF CompleteInv
<1>7. /\ FcopyInv /\ SendsInv /\ CompleteInv /\ Fresh /\ Aimed /\ AwaitedCloses
      /\ UploadExact' /\ [Next]_vars
      => [T!TransferNext]_(T!transferVars)
  BY <1>1, <1>2, StepIsTransfer
<1>8. Spec => []SendsInv
  BY ChunksOnRoute, PTL
<1>9. Init => T!TransferInit
  BY TransferBegins
<1> QED BY <1>3, <1>4, <1>5, <1>6, <1>7, <1>8, <1>9, SystemKeepsInv, PTL
        DEF Spec, ImplementsTransfer, T!TransferSpec
=============================================================================
