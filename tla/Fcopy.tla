------------------------------- MODULE Fcopy --------------------------------
(***************************************************************************)
(* The whole system: the clients of module FileSender and the servers of   *)
(* module FcopyServer, connected by the requests they send                 *)
(* (common/co_fcopy.cpp).  A request is a job of the server it was sent    *)
(* to; the caller of a job is the coroutine that awaits its reply:         *)
(*                                                                         *)
(*   <<"main", c>>     the main coroutine of client c                      *)
(*   <<"work", c, w>>  worker w of client c                                *)
(*   <<"fwd", j, k>>   the k-th forwarded request of job j                 *)
(*                                                                         *)
(* A connection may break at any time before the reply.  The server does   *)
(* not notice and finishes the job for nobody; the task of the caller      *)
(* sends the same request again, RetryMax times, and then fails.           *)
(***************************************************************************)
EXTENDS FileSender, FcopyServer

CONSTANTS
  Dest,        \* Dest[c][i]: the server that is target i of client c
  WaitClose,   \* SenderParams::wait_close
  RetryMax,    \* FcopyClientParams::retry_max
  FaultKinds,  \* the faults that may happen
  MaxFaults    \* and how many of them, in all

ASSUME FcopyAssumption ==
  /\ ChunkSize % Base = 0
  /\ Slot \subseteq Nat
  /\ \A c \in Client : Files[c] \in Seq([name : Name, size : Nat])
  /\ \A c \in Client : \A k \in DOMAIN Files[c] :
       /\ <<c, k>> \in Source
       /\ \A o \in 0..Files[c][k].size-1 : o % ChunkSize = 0 => o \in Offset
  /\ Dest \in [Client -> [Target -> Server]]
  /\ \A c \in Client : \A i, k \in Target : Dest[c][i] = Dest[c][k] => i = k
  /\ WaitClose \in BOOLEAN
  /\ RetryMax \in Nat /\ MaxFaults \in Nat

VARIABLES
  caller,  \* caller[j]: who awaits the reply of job j, and which try it is
  lost,    \* the calls whose connection broke
  faults   \* the number of faults so far

netVars == <<caller, lost, faults>>
vars    == <<senderVars, serverVars, netVars>>

\* The caller of a job nobody waits for any more.
Nobody == [who |-> <<"none">>, try |-> 0]

Who == {<<"none">>} \cup {<<"main", c>> : c \in Client} \cup ({"work"} \X Client \X Worker)
         \cup ({"fwd"} \X Slot \X Nat)

FcopyTypeOK ==
  /\ SenderTypeOK
  /\ ServerTypeOK
  /\ caller \in [Slot -> [who : Who, try : 0..RetryMax]]
  /\ \A l \in lost : /\ l.who \in Who /\ l.srv \in Server
                     /\ l.req \in Request /\ l.try \in 0..RetryMax
  /\ faults \in 0..MaxFaults

Init ==
  /\ SenderInit /\ ServerInit
  /\ caller = [j \in Slot |-> Nobody]
  /\ lost = {}
  /\ faults = 0

\* One of the faults allowed happens.
Fault(kind) == kind \in FaultKinds /\ faults < MaxFaults /\ faults' = faults + 1

-----------------------------------------------------------------------------
(* Requests.                                                               *)

FreeSlots == {j \in Slot : At(j, "free")}
NextSlot  == CHOOSE j \in FreeSlots : \A i \in FreeSlots : j <= i

Send(who, s, r, try) ==
  /\ FreeSlots # {}
  /\ Submit(NextSlot, s, r)
  /\ caller' = [caller EXCEPT ![NextSlot] = [who |-> who, try |-> try]]

File(c) == Files[c][main[c].file]

\* The token and the address of target i, as the chain of another one has it.
ChainTarget(c, i) == [srv |-> Dest[c][i], tok |-> tokens[c][i]]

ChainTargets(c, i) ==
  LET sons == Children(Method, i, N)
  IN [k \in DOMAIN sons |-> ChainTarget(c, sons[k])]

MainReq(c) ==
  LET i == main[c].i
  IN CASE main[c].ph = "open"  -> CreateReq(File(c).name, Size(c))
       [] main[c].ph = "chain" -> SetChainReq(tokens[c][i], ChainTargets(c, i))
       [] main[c].ph = "close" -> CloseReq(tokens[c][i], WaitClose)

MainCalls(c) ==
  /\ Call(c)
  /\ Send(<<"main", c>>, Dest[c][main[c].i], MainReq(c), 0)
  /\ UNCHANGED <<fmap, fds, disk, lost, faults>>

\* The chunks go to the first target.
ChunkReq(c, w) ==
  SendReq(tokens[c][0], work[c][w].off, ChunkLen(c, work[c][w].off),
          <<c, main[c].file>>, ChainLen(N))

\* pread finds n bytes: the file has shrunk since its size was announced.
ShortReq(c, w, n) == [ChunkReq(c, w) EXCEPT !.len = n, !.src = Hole]

WorkerCalls(c, w) ==
  /\ WorkerRead(c, w)
  /\ \/ /\ work'[c][w].pc = "call"
        /\ \/ /\ Send(<<"work", c, w>>, Dest[c][0], ChunkReq(c, w), 0)
              /\ UNCHANGED faults
           \/ /\ \E n \in 0..ChunkReq(c, w).len-1 :
                   Send(<<"work", c, w>>, Dest[c][0], ShortReq(c, w, n), 0)
              /\ Fault("shrink")
     \/ /\ work'[c][w].pc = "fail"
        /\ Fault("local")
        /\ UNCHANGED <<job, caller>>
  /\ UNCHANGED <<fmap, fds, disk, lost>>

\* A server forwards a chunk to its k-th target.
Forward(j, k) ==
  /\ Forwarding(j, k) /\ FreeSlots # {}
  /\ job' = [job EXCEPT ![j].fwd[k] = "call",
                        ![NextSlot] = NewJob(job[j].to[k].srv, ForwardReq(j, k))]
  /\ caller' = [caller EXCEPT ![NextSlot] = [who |-> <<"fwd", j, k>>, try |-> 0]]
  /\ UNCHANGED <<senderVars, fmap, fds, disk, lost, faults>>

-----------------------------------------------------------------------------
(* Replies.                                                                *)

\* A client's coroutine, if one waits, is resumed with the outcome of its call.
Resume(who, e, t) ==
  \/ who[1] = "none" /\ UNCHANGED senderVars
  \/ who[1] = "main" /\ \/ OpenReturns(who[2], e, t)
                        \/ ChainReturns(who[2], e)
                        \/ CloseReturns(who[2], e)
  \/ who[1] = "work" /\ SendReturns(who[2], who[3], e)

\* The token in the reply to a create.
Answer(j) == IF job[j].req.op = "create" THEN TokenOf[job[j].req.name] ELSE NoToken

Reply(j) ==
  LET who == caller[j].who
  IN /\ At(j, "reply")
     /\ \/ /\ who[1] = "fwd"
           /\ job' = [job EXCEPT ![j] = AfterReply(j),
                                 ![who[2]].fwd[who[3]] = job[j].err]
           /\ UNCHANGED senderVars
        \/ /\ who[1] # "fwd"
           /\ job' = [job EXCEPT ![j] = AfterReply(j)]
           /\ Resume(who, job[j].err, Answer(j))
     /\ caller' = [caller EXCEPT ![j] = Nobody]
     /\ UNCHANGED <<fmap, fds, disk, lost, faults>>

-----------------------------------------------------------------------------
(* Broken connections, retries and restarts.                               *)

LostCall(j) == [who |-> caller[j].who, srv |-> job[j].srv, req |-> job[j].req,
                try |-> caller[j].try]

\* The request is lost, or else the reply will be.
Disconnect(j) ==
  /\ ~At(j, "free") /\ caller[j] # Nobody
  /\ Fault(job[j].req.op)
  /\ lost' = lost \cup {LostCall(j)}
  /\ caller' = [caller EXCEPT ![j] = Nobody]
  /\ \/ At(j, FirstPc(job[j].req)) /\ job' = [job EXCEPT ![j] = NoJob]
     \/ UNCHANGED job
  /\ UNCHANGED <<senderVars, fmap, fds, disk>>

\* The task of the call connects anew and sends the request again.
Redial(l) ==
  /\ l.try < RetryMax
  /\ Send(l.who, l.srv, l.req, l.try + 1)
  /\ lost' = lost \ {l}
  /\ UNCHANGED <<senderVars, fmap, fds, disk, faults>>

\* A plausible bug: the state of a task that failed is not looked at.
GiveUpCall_Silent(l) ==
  /\ lost' = lost \ {l}
  /\ \/ /\ l.who[1] = "fwd"
        /\ job' = [job EXCEPT ![l.who[2]].fwd[l.who[3]] = "ok"]
        /\ UNCHANGED senderVars
     \/ l.who[1] # "fwd" /\ Resume(l.who, "ok", NoToken) /\ UNCHANGED job
  /\ UNCHANGED <<fmap, fds, disk, caller, faults>>

\* A plausible bug: a forwarding handler is not told that its call failed.
GiveUpCall_NoFwd(l) ==
  /\ lost' = lost \ {l}
  /\ \/ l.who[1] = "fwd" /\ UNCHANGED senderVars
     \/ l.who[1] # "fwd" /\ Resume(l.who, "EIO", NoToken)
  /\ UNCHANGED <<job, fmap, fds, disk, caller, faults>>

\* The tries are used up, or the ones left fail to connect.
GiveUpCall(l) ==
  /\ lost' = lost \ {l}
  /\ \/ /\ l.who[1] = "fwd"
        /\ job' = [job EXCEPT ![l.who[2]].fwd[l.who[3]] = "EIO"]
        /\ UNCHANGED senderVars
     \/ l.who[1] # "fwd" /\ Resume(l.who, "EIO", NoToken) /\ UNCHANGED job
  /\ UNCHANGED <<fmap, fds, disk, caller, faults>>

\* A server goes down with its jobs: their callers see a broken connection,
\* and nobody awaits what they had forwarded.  It is up again at once.
Crash(s) ==
  LET dead      == Lost(s)
      OfDead(w) == w[1] = "fwd" /\ w[2] \in dead
      Awaited(j) == caller[j] # Nobody /\ ~OfDead(caller[j].who)
  IN /\ Fault("crash")
     /\ Restart(s)
     /\ job' = [j \in Slot |-> IF j \in dead THEN NoJob ELSE job[j]]
     /\ lost' = {l \in lost : ~OfDead(l.who)}
                  \cup {LostCall(j) : j \in {i \in dead : Awaited(i)}}
     /\ caller' = [j \in Slot |-> IF Awaited(j) /\ j \notin dead THEN caller[j]
                                  ELSE Nobody]
     /\ UNCHANGED senderVars

-----------------------------------------------------------------------------
ServersIdle == UNCHANGED <<serverVars, caller, lost>>

ClientMain(c) == MainCalls(c) \/ (MainInternal(c) /\ ServersIdle /\ UNCHANGED faults)

ClientWorker(c, w) ==
  \/ WorkerCalls(c, w)
  \/ /\ WorkerCheck(c, w) \/ WorkerClaim(c, w) \/ WorkerFail(c, w)
     /\ ServersIdle /\ UNCHANGED faults
  \/ /\ WorkerAlloc(c, w) /\ ServersIdle
     /\ IF work'[c][w].pc = "exit" THEN Fault("local") ELSE UNCHANGED faults

ClientFails(c) == LocalOpenFails(c) /\ Fault("local") /\ ServersIdle

ServerStep(j) ==
  \/ JobStep(j) /\ UNCHANGED <<senderVars, netVars>>
  \/ At(j, "work") /\ \E k \in DOMAIN job[j].fwd : Forward(j, k)
  \/ Reply(j)

ServerFails(j) ==
  /\ \/ JobFails(j) /\ Fault("disk")
     \/ SendWriteShort(j) /\ Fault("short")
  /\ UNCHANGED <<senderVars, caller, lost>>

RetryStep == \E l \in lost : Redial(l) \/ GiveUpCall(l)

\* Every client has ended and every server is at rest.
AllOver == (\A c \in Client : Over(c)) /\ \A j \in Slot : At(j, "free")

Next ==
  \/ \E c \in Client : ClientMain(c) \/ ClientFails(c)
  \/ \E c \in Client, w \in Worker : ClientWorker(c, w)
  \/ \E j \in Slot : ServerStep(j) \/ ServerFails(j) \/ Disconnect(j)
  \/ RetryStep
  \/ \E s \in Server : Crash(s)
  \/ AllOver /\ UNCHANGED vars

Spec == Init /\ [][Next]_vars

\* Every coroutine, of a client or of a handler, that can go on is resumed,
\* and the task of a broken call retries or fails.
FairSpec ==
  /\ Spec
  /\ \A c \in Client : WF_vars(ClientMain(c))
  /\ \A c \in Client, w \in Worker : WF_vars(ClientWorker(c, w))
  /\ \A j \in Slot : WF_vars(ServerStep(j))
  /\ WF_vars(RetryStep)

-----------------------------------------------------------------------------
(* Properties.                                                             *)

Succeeded(c) == main[c].ph = "done" /\ main[c].err = "ok"

\* The k-th file of client c, complete on server s.
HasFile(s, c, k) ==
  disk[s][FileOf[Files[c][k].name]] = Exact(<<c, k>>, Files[c][k].size, ChunkSize)

\* When a client reports that a file was copied, the copy on every target has
\* the file's size and holds every chunk of it: parallel workers, forwarding,
\* padding and truncation together leave no gap and no excess.
UploadExact ==
  \A c \in Client, i \in Target :
    Succeeded(c) => HasFile(Dest[c][i], c, main[c].file)

\* What remains of it when requests are sent again: the first try of a send may
\* still write when the file is cut to its size, so the padding may come back,
\* but every chunk is there and nothing else.
UploadComplete ==
  \A c \in Client, i \in Target :
    Succeeded(c) =>
      LET f == disk[Dest[c][i]][FileOf[File(c).name]]
      IN /\ f.data = Exact(<<c, main[c].file>>, Size(c), ChunkSize).data
         /\ f.size \in {Size(c), PadTo(Size(c))}

\* A chunk that was acknowledged to the client is on every target, also on
\* those the client never sent it to.
AckedIsStored ==
  \A c \in Client, i \in Target : \A o \in acked[c] :
    disk[Dest[c][i]][FileOf[File(c).name]].data[o] = <<c, main[c].file>>

\* A handler uses its descriptor after the mutex was released; when it writes,
\* the descriptor is still open on the file its token names.
NoStaleFd ==
  \A j \in Slot :
    (At(j, "work") /\ job[j].wr = "todo")
      => LET p == fds[job[j].srv][job[j].fd]
         IN \E n \in Name : FileOf[n] = p /\ TokenOf[n] = job[j].req.tok

\* max_chain_len, the number of targets, is enough for the longest way down
\* the chain or the tree: no server refuses to forward.
NeverCancelled == \A j \in Slot : At(j, "reply") => job[j].err # "ECANCELED"

\* When all has come to rest no server has a file open: every create that
\* entered a file was followed by its close, also after errors.
NothingLeftOpen ==
  AllOver => \A s \in Server : /\ \A t \in Token : fmap[s][t] = NoEntry
                               /\ \A f \in Fd : fds[s][f] = Closed

\* Of two clients that upload under the same name, one at most gets past the
\* creates: a name is open on a server for one client at a time.
OneUploader ==
  \A c, d \in Client :
    (/\ c # d
     /\ main[c].ph \in {"chain", "send"} /\ main[d].ph \in {"chain", "send"}
     /\ \E i, k \in Target : Dest[c][i] = Dest[d][k])
      => File(c).name # File(d).name

\* While a client sends, no chunk of another client gets into its file on any of
\* its targets, whatever the other one, which may have opened the file before it,
\* still has under way.  (The open of the other one does truncate the file.)
NoMixing ==
  [][\A c \in Client, i \in Target : main[c].ph = "send" =>
       LET p == FileOf[File(c).name]
           old == disk[Dest[c][i]][p].data
           new == disk'[Dest[c][i]][p].data
       IN \A o \in Offset : new[o] \in {old[o], Hole, <<c, main[c].file>>}]_vars

\* When all has come to rest, a file that is not open and that an upload has
\* touched has the size announced for it, also if less than that was read or
\* written, or if a create ran twice: the last close cuts or extends the file.
SizedAtRest ==
  AllOver => \A s \in Server, p \in Path :
    \/ \E f \in Fd : fds[s][f] = p
    \/ disk[s][p] = Before[p]
    \/ \E c \in Client : \E k \in DOMAIN Files[c] :
         FileOf[Files[c][k].name] = p /\ disk[s][p].size = Files[c][k].size

\* Without wait_close the copies become exact after the success was reported.
EventuallyExact ==
  \A c \in Client, i \in Target, k \in 1..2 :
    (Succeeded(c) /\ main[c].file = k) ~> HasFile(Dest[c][i], c, k)

\* Every client ends, and every handler too.
EverythingEnds == <>[]AllOver

\* The system implements the promise of module Transfer.
T == INSTANCE Transfer WITH
       upload <- [c \in Client |->
                    [file |-> main[c].file,
                     st   |-> IF main[c].ph # "done" THEN "run"
                              ELSE IF main[c].err = "ok" THEN "ok" ELSE "fail"]]

ImplementsTransfer == T!TransferSpec
=============================================================================
