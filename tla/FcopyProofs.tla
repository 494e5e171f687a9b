---------------------------- MODULE FcopyProofs ------------------------------
(***************************************************************************)
(* The client alone, and the whole system, which keeps what its parts      *)
(* keep.                                                                   *)
(*                                                                         *)
(* The safety properties of FileSender hold for every number of clients,   *)
(* workers, targets and files, and every size of file and chunk.  None of  *)
(* them is inductive.  SenderInv says where a coroutine can be in each     *)
(* phase of its client, and how the offsets below cur are accounted for:   *)
(* acknowledged, or held by a worker, unless an error was published.       *)
(*                                                                         *)
(* In the system, whatever the servers, the connections and the retries    *)
(* do, each client sees calls that return, as FileSender describes it; and *)
(* whatever the clients send are requests as FcopyServer describes them.   *)
(* Neither follows from the shape of the steps.  A reply resumes the       *)
(* coroutine of its caller, so it has to be known that this coroutine      *)
(* still waits, and for this very call: CallerInv, LostInv and OneCall.    *)
(***************************************************************************)
EXTENDS Fcopy, FcopyServerProofs

-----------------------------------------------------------------------------
(* The client: module FileSender.                                          *)

\* The target the main coroutine is at, and when it waits for a call.
PlaceInv(c) ==
  /\ main[c].ph = "open" => main[c].i < N
  /\ main[c].at = "await" => main[c].i < N /\ main[c].ph \in {"open", "chain", "close"}

\* Workers exist between StartSend and JoinSend.
PhaseInv(c) ==
  /\ main[c].ph \in {"open", "chain"} =>
       acked[c] = {} /\ \A w \in Worker : work[c][w].pc = "off"
  /\ main[c].ph = "send" => \A w \in Worker : work[c][w].pc # "off"
  /\ main[c].ph \in {"close", "done"} =>
       \A w \in Worker : work[c][w].pc \in {"off", "exit"}

\* A chunk below cur is acknowledged or held by one worker.
ClaimInv(c) ==
  /\ cur[c] % ChunkSize = 0
  /\ \A o \in acked[c] : o \in Offsets(c) /\ o < cur[c]
  /\ \A w \in Worker : Busy(c, w) =>
       /\ work[c][w].off \in Offsets(c)
       /\ work[c][w].off < cur[c]
       /\ work[c][w].off \notin acked[c]
       /\ \A v \in Worker \ {w} : Busy(c, v) => work[c][v].off # work[c][w].off

\* As long as no error is published no chunk is forgotten, and a worker that
\* has left has seen the end of the file.
CoverInv(c) ==
  /\ \A w \in Worker : work[c][w].pc = "fail" => work[c][w].err # "ok"
  /\ (main[c].ph = "send" /\ error[c] = "ok") =>
       /\ \A o \in Offsets(c) : o < cur[c] =>
            \/ o \in acked[c]
            \/ \E w \in Worker : Busy(c, w) /\ work[c][w].off = o
       /\ \A w \in Worker : work[c][w].pc = "exit" => Size(c) <= cur[c]

\* What has been established when the workers are joined, and the closes
\* since then.
ResultInv(c) ==
  /\ (main[c].ph \in {"close", "done"} /\ main[c].err = "ok") =>
       acked[c] = Offsets(c)
  /\ (main[c].ph = "close" /\ main[c].cerr = "ok") =>
       \A k \in Target : k < main[c].i => tokens[c][k] = NoToken
  /\ (main[c].ph = "done" /\ main[c].err = "ok") =>
       \A k \in Target : tokens[c][k] = NoToken

ClientInv(c) ==
  PlaceInv(c) /\ PhaseInv(c) /\ ClaimInv(c) /\ CoverInv(c) /\ ResultInv(c)

SenderInv == SenderTypeOK /\ \A c \in Client : ClientInv(c)

-----------------------------------------------------------------------------
(* The multiples of the chunk size.                                        *)

\* A number without remainder is a multiple.
LEMMA Multiple ==
  ASSUME NEW n \in Nat \ {0}, NEW a \in Nat, a % n = 0
  PROVE  \E q \in Nat : a = n * q
<1>1. a = (n * (a \div n)) + (a % n)
  BY SMT
<1>2. a \div n \in Nat
  BY SMT
<1> QED BY <1>1, <1>2, Z3

\* The next offset after a is a + n: no offset lies between them.
LEMMA NextMultiple ==
  ASSUME NEW n \in Nat \ {0}, NEW a \in Nat, a % n = 0
  PROVE  /\ (a + n) % n = 0
         /\ \A b \in Nat : b % n = 0 /\ b < a + n => b <= a
<1>1. PICK p \in Nat : a = n * p
  BY Multiple
<1>2. (a + n) % n = 0
  <2>1. a + n = n * (p + 1)
    BY <1>1, Z3
  <2>2. (n * (p + 1)) % n = 0
    BY SMT
  <2> QED BY <2>1, <2>2
<1>3. ASSUME NEW b \in Nat, b % n = 0, b < a + n PROVE b <= a
  <2>1. PICK q \in Nat : b = n * q
    BY <1>3, Multiple
  <2>2. q < p + 1
    <3>1. SUFFICES ASSUME q >= p + 1 PROVE FALSE
      BY Z3
    <3>2. n * q >= n * (p + 1)
      BY <3>1, Z3
    <3>3. n * (p + 1) = n * p + n
      BY Z3
    <3> QED BY <1>1, <1>3, <2>1, <3>2, <3>3, Z3
  <2> QED BY <1>1, <2>1, <2>2, Z3
<1> QED BY <1>2, <1>3

\* Only targets above the first half of the tree forward: they exist.
LEMMA ForwardingTarget ==
  ASSUME SenderAssumption, NEW i \in Nat, Children(Method, i, N) # <<>>
  PROVE  i < N
BY SMT DEF SenderAssumption, Children, FirstChild

-----------------------------------------------------------------------------
(* Type correctness.                                                       *)

\* The current file has a size.
LEMMA SizeIsNat ==
  ASSUME SenderAssumption, SenderTypeOK, NEW c \in Client
  PROVE  Size(c) \in Nat
BY SMT DEF SenderAssumption, SenderTypeOK, Size

\* What a new FileSender starts with.
LEMMA FreshTypes ==
  ASSUME SenderAssumption
  PROVE  /\ \A f \in Nat \ {0} : FreshMain(f) \in MainState /\ FreshMain(f).file = f
         /\ IdleWorkers \in [Worker -> WorkState]
         /\ NoTokens \in [Target -> Token \cup {NoToken}]
<1>1. 0 \in 0..N
  BY SMT DEF SenderAssumption
<1>2. \A f \in Nat \ {0} : FreshMain(f) \in MainState /\ FreshMain(f).file = f
  BY <1>1, Zenon DEF FreshMain, MainState, Phase, Err
<1>3. IdleWorkers \in [Worker -> WorkState]
  BY SMT DEF IdleWorkers, WorkState, WorkPc, Err
<1> QED BY <1>2, <1>3, SMT DEF NoTokens

\* The types hold at first.
LEMMA TypeInit ==
  ASSUME SenderAssumption, SenderInit
  PROVE  SenderTypeOK
BY FreshTypes, SMT DEF SenderAssumption, SenderInit, SenderTypeOK, Err

\* A step of a main coroutine keeps the types.
LEMMA TypeMain ==
  ASSUME SenderAssumption, SenderTypeOK, NEW c \in Client, PlaceInv(c),
         MainStep(c) \/ LocalOpenFails(c)
  PROVE  SenderTypeOK'
<1> DEFINE m == main[c]
<1>m. m \in MainState /\ m.i \in 0..N /\ m.file \in 1..Len(Files[c])
  BY SMT DEF SenderTypeOK, MainState
<1>1. CASE Call(c)
  <2>1. [m EXCEPT !.at = "await"] \in MainState
    BY <1>m, Zenon DEF MainState
  <2> QED BY <1>1, <2>1, SMT DEF Call, SenderTypeOK
<1>g. ASSUME NEW e \in Err, GiveUp(c, e), UNCHANGED <<tokens, cur, error, work, acked>>
      PROVE  SenderTypeOK'
  <2>1. [m EXCEPT !.ph = "close", !.i = 0, !.at = "go", !.err = e] \in MainState
    <3>1. 0 \in 0..N /\ "close" \in Phase /\ "go" \in {"go", "await"}
      BY SMT DEF SenderAssumption, Phase
    <3> QED BY <1>m, <1>g, <3>1, Zenon DEF MainState
  <2>2. /\ main' \in [Client -> MainState]
        /\ \A d \in Client : main'[d].file = main[d].file
    BY <1>g, <2>1, SMT DEF GiveUp, SenderTypeOK, MainState
  <2> QED BY <1>g, <2>2, SMT DEF SenderTypeOK
<1>2. ASSUME NEW e \in Err, NEW t \in Token, OpenReturns(c, e, t) PROVE SenderTypeOK'
  <2>1. CASE e = "ok"
    <3> DEFINE last == m.i + 1 = N
               p == IF last THEN "chain" ELSE "open"
               k == IF last THEN 0 ELSE m.i + 1
    <3>1. p \in Phase /\ k \in 0..N /\ "go" \in {"go", "await"}
      BY <1>2, <1>m, SMT DEF OpenReturns, Waits, PlaceInv, SenderAssumption, Phase
    <3> HIDE DEF p, k
    <3>2. [m EXCEPT !.at = "go", !.ph = p, !.i = k] \in MainState
      BY <1>m, <3>1, Zenon DEF MainState
    <3>3. main' = [main EXCEPT ![c] = [m EXCEPT !.at = "go", !.ph = p, !.i = k]]
      BY <1>2, <2>1 DEF OpenReturns, p, k
    <3>4. [m EXCEPT !.at = "go", !.ph = p, !.i = k].file = m.file
      BY <1>m, Zenon DEF MainState
    <3>5. tokens' = [tokens EXCEPT ![c][m.i] = t]
      BY <1>2, <2>1 DEF OpenReturns
    <3>6. tokens' \in [Client -> [Target -> Token \cup {NoToken}]]
      <4>1. tokens \in [Client -> [Target -> Token \cup {NoToken}]]
        BY DEF SenderTypeOK
      <4> QED BY <3>5, <4>1, Update2
    <3>7. main' \in [Client -> MainState] /\ \A d \in Client : main'[d].file = main[d].file
      BY <3>2, <3>3, <3>4, SMT DEF SenderTypeOK
    <3>8. UNCHANGED <<cur, error, work, acked>>
      BY <1>2 DEF OpenReturns
    <3>9. \A d \in Client : main'[d].file \in 1..Len(Files[d])
      BY <3>7 DEF SenderTypeOK
    <3> QED BY <3>6, <3>7, <3>8, <3>9, Zenon DEF SenderTypeOK
  <2>2. CASE e # "ok"
    <3>1. GiveUp(c, e) /\ UNCHANGED <<tokens, cur, error, work, acked>>
      BY <1>2, <2>2 DEF OpenReturns
    <3> QED BY <1>g, <3>1
  <2> QED BY <2>1, <2>2
<1>3. ASSUME NEW e \in Err, ChainReturns(c, e) PROVE SenderTypeOK'
  <2>1. CASE e = "ok"
    <3>1. m.i + 1 \in 0..N /\ "go" \in {"go", "await"}
      BY <1>3, <1>m, SMT DEF ChainReturns, Waits, PlaceInv, SenderAssumption
    <3>2. [m EXCEPT !.at = "go", !.i = m.i + 1] \in MainState
      BY <1>m, <3>1, Zenon DEF MainState
    <3>3. main' = [main EXCEPT ![c] = [m EXCEPT !.at = "go", !.i = m.i + 1]]
      BY <1>3, <2>1 DEF ChainReturns
    <3> QED BY <1>3, <3>2, <3>3, SMT DEF ChainReturns, SenderTypeOK
  <2>2. CASE e # "ok"
    <3>1. GiveUp(c, e) /\ UNCHANGED <<tokens, cur, error, work, acked>>
      BY <1>3, <2>2 DEF ChainReturns
    <3> QED BY <1>g, <3>1
  <2> QED BY <2>1, <2>2
<1>4. ASSUME NEW e \in Err, CloseReturns(c, e) PROVE SenderTypeOK'
  <2>1. /\ m.i + 1 \in 0..N /\ "go" \in {"go", "await"}
        /\ FirstError(m.cerr, e) \in Err
    BY <1>4, <1>m, SMT DEF CloseReturns, Waits, PlaceInv, FirstError, MainState,
                           SenderAssumption
  <2>2. [m EXCEPT !.at = "go", !.i = m.i + 1, !.cerr = FirstError(m.cerr, e)]
          \in MainState
    BY <1>m, <2>1, Zenon DEF MainState
  <2>3. tokens' \in {tokens, [tokens EXCEPT ![c][m.i] = NoToken]}
    BY <1>4 DEF CloseReturns
  <2>4. tokens' \in [Client -> [Target -> Token \cup {NoToken}]]
    <3>1. tokens \in [Client -> [Target -> Token \cup {NoToken}]]
      BY DEF SenderTypeOK
    <3>2. NoToken \in Token \cup {NoToken}
      OBVIOUS
    <3>3. [tokens EXCEPT ![c][m.i] = NoToken] \in [Client -> [Target -> Token \cup {NoToken}]]
      BY <3>1, <3>2, Update2
    <3> QED BY <2>3, <3>1, <3>3
  <2> QED BY <1>4, <2>2, <2>4, SMT DEF CloseReturns, SenderTypeOK
<1>5. CASE StartSend(c)
  <2>1. [m EXCEPT !.ph = "send"] \in MainState
    BY <1>m, Zenon DEF MainState, Phase
  <2>2. \A w \in Worker : [work[c][w] EXCEPT !.pc = "start"] \in WorkState
    <3>1. \A w \in Worker : work[c][w] \in WorkState
      BY SMT DEF SenderTypeOK
    <3> QED BY <3>1, Zenon DEF WorkState, WorkPc
  <2> QED BY <1>5, <2>1, <2>2, SMT DEF StartSend, SenderTypeOK, Err
<1>6. CASE JoinSend(c)
  <2>1. [m EXCEPT !.ph = "close", !.i = 0, !.err = error[c]] \in MainState
    <3>1. 0 \in 0..N /\ "close" \in Phase /\ error[c] \in Err
      BY SMT DEF SenderAssumption, Phase, SenderTypeOK
    <3> QED BY <1>m, <3>1, Zenon DEF MainState
  <2> QED BY <1>6, <2>1, SMT DEF JoinSend, SenderTypeOK
<1>7. CASE CloseSkips(c)
  <2>1. m.i + 1 \in 0..N
    BY <1>7, <1>m, SMT DEF CloseSkips, SenderAssumption
  <2>2. [m EXCEPT !.i = m.i + 1] \in MainState
    BY <1>m, <2>1, Zenon DEF MainState
  <2> QED BY <1>7, <2>2, SMT DEF CloseSkips, SenderTypeOK
<1>8. CASE Finish(c)
  <2>1. FirstError(m.err, m.cerr) \in Err
    BY <1>m, SMT DEF FirstError, MainState
  <2>2. [m EXCEPT !.ph = "done", !.err = FirstError(m.err, m.cerr)] \in MainState
    BY <1>m, <2>1, Zenon DEF MainState, Phase
  <2> QED BY <1>8, <2>2, SMT DEF Finish, SenderTypeOK
<1>9. CASE NextFile(c)
  <2>1. m.file + 1 \in Nat \ {0} /\ m.file + 1 \in 1..Len(Files[c])
    BY <1>9, <1>m, SMT DEF NextFile, SenderAssumption, MainState
  <2> QED BY <1>9, <2>1, FreshTypes, SMT DEF NextFile, SenderTypeOK, Err
<1>10. CASE LocalOpenFails(c)
  BY <1>10, <1>g DEF LocalOpenFails, Err
<1> QED
  BY <1>1, <1>2, <1>3, <1>4, <1>5, <1>6, <1>7, <1>8, <1>9, <1>10
  DEF MainStep, MainReturns, MainInternal

\* A step of a worker keeps the types.
LEMMA TypeWorker ==
  ASSUME SenderAssumption, SenderTypeOK, NEW c \in Client, NEW w \in Worker,
         WorkerStep(c, w)
  PROVE  SenderTypeOK'
<1> DEFINE r == work[c][w]
           WorkType == [Client -> [Worker -> WorkState]]
<1>r. /\ work \in WorkType /\ r \in WorkState
      /\ cur[c] \in Nat /\ r.off \in Nat /\ r.err \in Err
  BY SMT DEF SenderTypeOK, WorkState
<1>w. ASSUME NEW x \in WorkState, Become(c, w, x)
      PROVE  work' \in WorkType
  BY <1>r, <1>w, Update2 DEF Become
<1>pc. ASSUME NEW p \in WorkPc, Goto(c, w, p) PROVE work' \in WorkType
  <2>1. [r EXCEPT !.pc = p] \in WorkState
    BY <1>r, Zenon DEF WorkState
  <2> QED BY <1>w, <1>pc, <2>1 DEF Goto
<1>err. ASSUME NEW e \in Err, Become(c, w, [work[c][w] EXCEPT !.pc = "fail", !.err = e])
        PROVE  work' \in WorkType
  <2>1. [r EXCEPT !.pc = "fail", !.err = e] \in WorkState
    BY <1>r, Zenon DEF WorkState, WorkPc
  <2> QED BY <1>w, <1>err, <2>1
<1>1. CASE WorkerAlloc(c, w)
  <2>1. work' \in WorkType
    BY <1>1, <1>pc DEF WorkerAlloc, WorkPc
  <2>2. error' \in [Client -> Err]
    BY <1>1, Update DEF WorkerAlloc, SenderTypeOK, Err
  <2>3. UNCHANGED <<main, tokens, cur, acked>>
    BY <1>1 DEF WorkerAlloc
  <2> QED BY <2>1, <2>2, <2>3, SMT DEF SenderTypeOK
<1>2. CASE WorkerCheck(c, w)
  <2>1. work' \in WorkType
    BY <1>2, <1>pc DEF WorkerCheck, WorkPc
  <2>2. UNCHANGED <<main, tokens, cur, error, acked>>
    BY <1>2 DEF WorkerCheck
  <2> QED BY <2>1, <2>2, SMT DEF SenderTypeOK
<1>3. CASE WorkerClaim(c, w)
  <2>1. work' \in WorkType
    <3>1. CASE cur[c] < Size(c)
      <4>1. [r EXCEPT !.pc = "read", !.off = cur[c]] \in WorkState
        BY <1>r, Zenon DEF WorkState, WorkPc
      <4> QED BY <1>3, <1>w, <3>1, <4>1 DEF WorkerClaim
    <3>2. CASE ~(cur[c] < Size(c))
      BY <1>3, <1>pc, <3>2 DEF WorkerClaim, WorkPc
    <3> QED BY <3>1, <3>2
  <2>2. cur' \in [Client -> Nat]
    <3>1. cur[c] + ChunkSize \in Nat
      BY <1>r, SMT DEF SenderAssumption
    <3>2. cur' = cur \/ cur' = [cur EXCEPT ![c] = cur[c] + ChunkSize]
      BY <1>3 DEF WorkerClaim
    <3> QED BY <3>1, <3>2, Update DEF SenderTypeOK
  <2>3. UNCHANGED <<main, tokens, error, acked>>
    BY <1>3 DEF WorkerClaim
  <2> QED BY <2>1, <2>2, <2>3, SMT DEF SenderTypeOK
<1>4. CASE WorkerRead(c, w)
  <2>1. work' \in WorkType
    BY <1>4, <1>pc, <1>err DEF WorkerRead, WorkPc, Err
  <2>2. UNCHANGED <<main, tokens, cur, error, acked>>
    BY <1>4 DEF WorkerRead
  <2> QED BY <2>1, <2>2, SMT DEF SenderTypeOK
<1>5. CASE WorkerFail(c, w)
  <2>1. work' \in WorkType
    BY <1>5, <1>pc DEF WorkerFail, WorkPc
  <2>2. error' \in [Client -> Err]
    BY <1>5, <1>r, SMT DEF WorkerFail, SenderTypeOK
  <2>3. UNCHANGED <<main, tokens, cur, acked>>
    BY <1>5 DEF WorkerFail
  <2> QED BY <2>1, <2>2, <2>3, SMT DEF SenderTypeOK
<1>6. ASSUME NEW e \in Err, SendReturns(c, w, e) PROVE SenderTypeOK'
  <2>1. work' \in WorkType
    BY <1>6, <1>pc, <1>err DEF SendReturns, WorkPc
  <2>2. acked' \in [Client -> SUBSET Nat]
    <3>1. acked \in [Client -> SUBSET Nat] /\ acked[c] \cup {r.off} \in SUBSET Nat
      BY <1>r DEF SenderTypeOK
    <3>2. acked' = acked \/ acked' = [acked EXCEPT ![c] = acked[c] \cup {r.off}]
      BY <1>6 DEF SendReturns
    <3> QED BY <3>1, <3>2, Update
  <2>3. UNCHANGED <<main, tokens, cur, error>>
    BY <1>6 DEF SendReturns
  <2> QED BY <2>1, <2>2, <2>3, SMT DEF SenderTypeOK
<1> QED
  BY <1>1, <1>2, <1>3, <1>4, <1>5, <1>6 DEF WorkerStep, WorkerInternal

-----------------------------------------------------------------------------
(* A step of one client leaves the others as they are.                     *)

Same(d) == /\ main'[d] = main[d] /\ tokens'[d] = tokens[d] /\ cur'[d] = cur[d]
           /\ error'[d] = error[d] /\ work'[d] = work[d] /\ acked'[d] = acked[d]

\* A step of one client leaves the other clients as they are.
LEMMA OthersSame ==
  ASSUME SenderTypeOK, NEW c \in Client, NEW d \in Client \ {c},
         \/ MainStep(c) \/ LocalOpenFails(c)
         \/ \E w \in Worker : WorkerStep(c, w)
  PROVE  Same(d)
<1>t. main \in [Client -> MainState] /\ DOMAIN tokens = Client /\ DOMAIN cur = Client
        /\ DOMAIN error = Client /\ DOMAIN work = Client /\ DOMAIN acked = Client
  BY DEF SenderTypeOK
<1>1. CASE MainStep(c) \/ LocalOpenFails(c)
  <2>1. CASE Call(c)
    BY <1>t, <2>1 DEF Call, Same
  <2>2. CASE LocalOpenFails(c)
    BY <1>t, <2>2 DEF LocalOpenFails, GiveUp, Same
  <2>3. ASSUME NEW e \in Err, NEW t \in Token, OpenReturns(c, e, t) PROVE Same(d)
    BY <1>t, <2>3 DEF OpenReturns, GiveUp, Same
  <2>4. ASSUME NEW e \in Err, ChainReturns(c, e) PROVE Same(d)
    BY <1>t, <2>4 DEF ChainReturns, GiveUp, Same
  <2>5. ASSUME NEW e \in Err, CloseReturns(c, e) PROVE Same(d)
    BY <1>t, <2>5 DEF CloseReturns, Same
  <2>6. CASE StartSend(c)
    BY <1>t, <2>6 DEF StartSend, Same
  <2>7. CASE JoinSend(c)
    BY <1>t, <2>7 DEF JoinSend, Same
  <2>8. CASE CloseSkips(c) \/ Finish(c)
    BY <1>t, <2>8 DEF CloseSkips, Finish, Same
  <2>9. CASE NextFile(c)
    BY <1>t, <2>9 DEF NextFile, Same
  <2> QED
    BY <1>1, <2>1, <2>2, <2>3, <2>4, <2>5, <2>6, <2>7, <2>8, <2>9
    DEF MainStep, MainReturns, MainInternal
<1>2. ASSUME NEW w \in Worker, WorkerStep(c, w) PROVE Same(d)
  <2>1. CASE WorkerAlloc(c, w)
    BY <1>t, <2>1 DEF WorkerAlloc, Goto, Become, Same
  <2>2. CASE WorkerCheck(c, w)
    BY <1>t, <2>2 DEF WorkerCheck, Goto, Become, Same
  <2>3. CASE WorkerClaim(c, w)
    BY <1>t, <2>3 DEF WorkerClaim, Goto, Become, Same
  <2>4. CASE WorkerRead(c, w)
    BY <1>t, <2>4 DEF WorkerRead, Goto, Become, Same
  <2>5. CASE WorkerFail(c, w)
    BY <1>t, <2>5 DEF WorkerFail, Goto, Become, Same
  <2>6. ASSUME NEW e \in Err, SendReturns(c, w, e) PROVE Same(d)
    BY <1>t, <2>6 DEF SendReturns, Goto, Become, Same
  <2> QED BY <1>2, <2>1, <2>2, <2>3, <2>4, <2>5, <2>6 DEF WorkerStep, WorkerInternal
<1> QED BY <1>1, <1>2

\* A client that is left as it is keeps its invariant.
LEMMA SameInv ==
  ASSUME NEW d \in Client, ClientInv(d), Same(d)
  PROVE  ClientInv(d)'
BY DEF ClientInv, PlaceInv, PhaseInv, ClaimInv, CoverInv, ResultInv, Same, Busy,
       Offsets, Size

-----------------------------------------------------------------------------
(* Steps of the main coroutine.                                            *)

\* The step leaves the claims and the workers of client c alone.
KeepWorkers(c) == /\ main'[c].file = main[c].file /\ cur'[c] = cur[c]
                  /\ work'[c] = work[c] /\ acked'[c] = acked[c]

\* A step that leaves the workers alone keeps the account of the chunks.
LEMMA KeepClaims ==
  ASSUME NEW c \in Client, ClientInv(c), KeepWorkers(c)
  PROVE  /\ ClaimInv(c)'
         /\ \A w \in Worker : work'[c][w].pc = "fail" => work'[c][w].err # "ok"
         /\ Offsets(c)' = Offsets(c)
         /\ Size(c)' = Size(c)
<1>1. Size(c)' = Size(c) /\ Offsets(c)' = Offsets(c)
  BY DEF KeepWorkers, Size, Offsets
<1> QED BY <1>1 DEF ClientInv, ClaimInv, CoverInv, KeepWorkers, Busy

\* An error before the transfer leads to the close.
LEMMA GiveUpInv ==
  ASSUME SenderAssumption, SenderTypeOK, NEW c \in Client, ClientInv(c),
         main[c].ph \in {"open", "chain"},
         NEW e \in Err, e # "ok", GiveUp(c, e), UNCHANGED <<cur, error, work, acked>>
  PROVE  ClientInv(c)'
<1>1. /\ main'[c].ph = "close" /\ main'[c].i = 0 /\ main'[c].at = "go"
      /\ main'[c].err = e /\ main'[c].file = main[c].file
  BY SMT DEF GiveUp, SenderTypeOK, MainState
<1>2. KeepWorkers(c)
  BY <1>1 DEF KeepWorkers
<1>3. PlaceInv(c)'
  BY <1>1, SMT DEF PlaceInv
<1>4. PhaseInv(c)'
  BY <1>1 DEF ClientInv, PhaseInv
<1>5. ResultInv(c)'
  BY <1>1, SMT DEF ResultInv, Target
<1>6. CoverInv(c)'
  BY <1>1, <1>2, KeepClaims DEF CoverInv
<1> QED BY <1>2, <1>3, <1>4, <1>5, <1>6, KeepClaims DEF ClientInv

\* The state of a client that begins a file.
LEMMA FreshInv ==
  ASSUME SenderAssumption, NEW c \in Client, NEW f,
         main'[c] = FreshMain(f), cur'[c] = 0, acked'[c] = {},
         work'[c] = IdleWorkers
  PROVE  ClientInv(c)'
<1>1. /\ main'[c].ph = "open" /\ main'[c].i = 0 /\ main'[c].at = "go"
      /\ \A w \in Worker : work'[c][w].pc = "off"
  BY DEF FreshMain, IdleWorkers
<1>2. 0 < N /\ 0 % ChunkSize = 0
  BY SMT DEF SenderAssumption
<1>3. PlaceInv(c)' /\ PhaseInv(c)'
  BY <1>1, <1>2 DEF PlaceInv, PhaseInv
<1>4. ClaimInv(c)' /\ CoverInv(c)' /\ ResultInv(c)'
  BY <1>1, <1>2 DEF ClaimInv, CoverInv, ResultInv, Busy
<1> QED BY <1>3, <1>4 DEF ClientInv

\* A step of a main coroutine keeps the invariant of its client.
LEMMA MainInv ==
  ASSUME SenderAssumption, SenderTypeOK, NEW c \in Client, ClientInv(c),
         MainStep(c) \/ LocalOpenFails(c)
  PROVE  ClientInv(c)'
<1> DEFINE m == main[c]
<1>m. /\ m \in MainState /\ m.i \in Nat /\ m.ph \in Phase
      /\ m.err \in Err /\ m.cerr \in Err
      /\ N \in Nat \ {0} /\ tokens \in [Client -> [Target -> Token \cup {NoToken}]]
  BY SMT DEF SenderTypeOK, SenderAssumption, MainState
<1>1. CASE Call(c)
  <2>1. /\ main'[c].ph = m.ph /\ main'[c].i = m.i /\ main'[c].at = "await"
        /\ main'[c].err = m.err /\ main'[c].cerr = m.cerr /\ main'[c].file = m.file
    BY <1>1, SMT DEF Call, SenderTypeOK, MainState
  <2>2. UNCHANGED <<tokens, cur, error, work, acked>>
    BY <1>1 DEF Call
  <2>3. KeepWorkers(c)
    BY <2>1, <2>2 DEF KeepWorkers
  <2>4. PlaceInv(c)'
    <3>1. m.i < N /\ m.ph \in {"open", "chain", "close"}
      BY <1>1, <1>m, ForwardingTarget DEF Call, Calls, ClientInv, PlaceInv
    <3> QED BY <2>1, <3>1, SMT DEF PlaceInv
  <2>5. PhaseInv(c)'
    BY <2>1, <2>2 DEF ClientInv, PhaseInv
  <2>6. ResultInv(c)'
    BY <2>1, <2>2, <2>3, KeepClaims DEF ClientInv, ResultInv
  <2>7. CoverInv(c)'
    BY <2>1, <2>2, <2>3, KeepClaims DEF ClientInv, CoverInv, Busy
  <2> QED BY <2>3, <2>4, <2>5, <2>6, <2>7, KeepClaims DEF ClientInv
<1>2. ASSUME NEW e \in Err, NEW t \in Token, OpenReturns(c, e, t) PROVE ClientInv(c)'
  <2>1. CASE e = "ok"
    <3>1. /\ main'[c].ph = IF m.i + 1 = N THEN "chain" ELSE "open"
          /\ main'[c].i = IF m.i + 1 = N THEN 0 ELSE m.i + 1
          /\ main'[c].at = "go" /\ main'[c].file = m.file
          /\ m.i < N /\ m.ph = "open"
      BY <1>2, <2>1, SMT DEF OpenReturns, Waits, ClientInv, PlaceInv, SenderTypeOK, MainState
    <3>2. UNCHANGED <<cur, error, work, acked>>
      BY <1>2 DEF OpenReturns
    <3>3. KeepWorkers(c)
      BY <3>1, <3>2 DEF KeepWorkers
    <3>4. PlaceInv(c)'
      BY <3>1, <1>m, SMT DEF PlaceInv
    <3>5. main'[c].ph \in {"open", "chain"}
      BY <3>1
    <3>6. PhaseInv(c)'
      BY <3>1, <3>2, <3>5 DEF ClientInv, PhaseInv
    <3>7. ResultInv(c)' /\ CoverInv(c)'
      BY <3>3, <3>5, KeepClaims DEF ResultInv, CoverInv
    <3> QED BY <3>3, <3>4, <3>6, <3>7, KeepClaims DEF ClientInv
  <2>2. CASE e # "ok"
    BY <1>2, <2>2, GiveUpInv DEF OpenReturns, Waits
  <2> QED BY <2>1, <2>2
<1>3. ASSUME NEW e \in Err, ChainReturns(c, e) PROVE ClientInv(c)'
  <2>1. CASE e = "ok"
    <3>1. /\ main'[c].ph = "chain" /\ main'[c].at = "go" /\ main'[c].file = m.file
          /\ m.ph = "chain"
      BY <1>3, <2>1, SMT DEF ChainReturns, Waits, SenderTypeOK, MainState
    <3>2. UNCHANGED <<tokens, cur, error, work, acked>>
      BY <1>3 DEF ChainReturns
    <3>3. KeepWorkers(c)
      BY <3>1, <3>2 DEF KeepWorkers
    <3>4. PlaceInv(c)'
      BY <3>1, SMT DEF PlaceInv
    <3>5. PhaseInv(c)'
      BY <3>1, <3>2 DEF ClientInv, PhaseInv
    <3>6. ResultInv(c)' /\ CoverInv(c)'
      BY <3>1, <3>3, KeepClaims DEF ResultInv, CoverInv
    <3> QED BY <3>3, <3>4, <3>5, <3>6, KeepClaims DEF ClientInv
  <2>2. CASE e # "ok"
    BY <1>3, <2>2, GiveUpInv DEF ChainReturns, Waits
  <2> QED BY <2>1, <2>2
<1>4. CASE LocalOpenFails(c)
  <2>1. /\ main[c].ph = "open" /\ GiveUp(c, "EIO") /\ "EIO" \in Err
        /\ UNCHANGED <<cur, error, work, acked>>
    BY <1>4 DEF LocalOpenFails, Err
  <2>2. "EIO" # "ok"
    OBVIOUS
  <2> QED BY <2>1, <2>2, GiveUpInv
<1>5. ASSUME NEW e \in Err, CloseReturns(c, e) PROVE ClientInv(c)'
  <2>1. /\ main'[c].ph = "close" /\ main'[c].i = m.i + 1 /\ main'[c].at = "go"
        /\ main'[c].err = m.err /\ main'[c].cerr = FirstError(m.cerr, e)
        /\ main'[c].file = m.file /\ m.ph = "close" /\ m.i < N
    BY <1>5, SMT DEF CloseReturns, Waits, ClientInv, PlaceInv, SenderTypeOK, MainState
  <2>2. UNCHANGED <<cur, error, work, acked>>
    BY <1>5 DEF CloseReturns
  <2>3. KeepWorkers(c)
    BY <2>1, <2>2 DEF KeepWorkers
  <2>4. PlaceInv(c)'
    BY <2>1, SMT DEF PlaceInv
  <2>5. PhaseInv(c)'
    BY <2>1, <2>2 DEF ClientInv, PhaseInv
  <2>6. ASSUME main'[c].cerr = "ok", NEW k \in Target, k < m.i + 1
        PROVE  tokens'[c][k] = NoToken
    <3>1. m.cerr = "ok" /\ e = "ok"
      BY <2>1, <2>6 DEF FirstError
    <3>2. tokens' = [tokens EXCEPT ![c][m.i] = NoToken]
      BY <1>5, <3>1 DEF CloseReturns
    <3>3. k < m.i => tokens[c][k] = NoToken
      BY <2>1, <3>1 DEF ClientInv, ResultInv
    <3>4. k = m.i \/ k < m.i
      BY <1>m, <2>6, SMT DEF Target
    <3>5. tokens'[c][k] = IF k = m.i THEN NoToken ELSE tokens[c][k]
      BY <1>m, <3>2, SMT
    <3> QED BY <3>3, <3>4, <3>5
  <2>7. ResultInv(c)'
    BY <2>1, <2>2, <2>3, <2>6, KeepClaims DEF ClientInv, ResultInv
  <2>8. CoverInv(c)'
    BY <2>1, <2>3, KeepClaims DEF CoverInv
  <2> QED BY <2>3, <2>4, <2>5, <2>7, <2>8, KeepClaims DEF ClientInv
<1>6. CASE StartSend(c)
  <2>1. /\ main'[c].ph = "send" /\ main'[c].at = "go" /\ main'[c].file = m.file
        /\ m.ph = "chain"
    BY <1>6, SMT DEF StartSend, SenderTypeOK, MainState
  <2>2. \A w \in Worker : work'[c][w].pc = "start"
    BY <1>6, SMT DEF StartSend, SenderTypeOK, WorkState
  <2>3. cur'[c] = 0 /\ acked'[c] = {}
    BY <1>6, <2>1 DEF StartSend, SenderTypeOK, ClientInv, PhaseInv
  <2>4. PlaceInv(c)' /\ ResultInv(c)'
    BY <2>1 DEF PlaceInv, ResultInv
  <2>5. PhaseInv(c)'
    BY <2>1, <2>2 DEF PhaseInv
  <2>6. 0 % ChunkSize = 0
    BY SMT DEF SenderAssumption
  <2>7. ClaimInv(c)'
    BY <2>2, <2>3, <2>6 DEF ClaimInv, Busy
  <2>8. \A o \in Offsets(c)' : ~(o < cur'[c])
    BY <2>3, SMT DEF Offsets
  <2>9. CoverInv(c)'
    BY <2>2, <2>8 DEF CoverInv
  <2> QED BY <2>4, <2>5, <2>7, <2>9 DEF ClientInv
<1>7. CASE JoinSend(c)
  <2>1. /\ main'[c].ph = "close" /\ main'[c].i = 0 /\ main'[c].err = error[c]
        /\ main'[c].at = m.at /\ main'[c].file = m.file /\ m.ph = "send"
    BY <1>7, SMT DEF JoinSend, SenderTypeOK, MainState
  <2>2. UNCHANGED <<tokens, cur, error, work, acked>>
    BY <1>7 DEF JoinSend
  <2>3. KeepWorkers(c)
    BY <2>1, <2>2 DEF KeepWorkers
  <2>4. PlaceInv(c)'
    BY <1>m, <2>1 DEF ClientInv, PlaceInv
  <2>5. PhaseInv(c)'
    BY <1>7, <2>1, <2>2 DEF JoinSend, PhaseInv
  <2>6. ASSUME error[c] = "ok" PROVE acked[c] = Offsets(c)
    <3>1. PICK w \in Worker : work[c][w].pc = "exit"
      BY <1>7 DEF JoinSend, SenderAssumption
    <3>2. Size(c) <= cur[c]
      BY <2>1, <2>6, <3>1 DEF ClientInv, CoverInv
    <3>3. \A o \in Offsets(c) : o < cur[c]
      BY <3>2, SizeIsNat, SMT DEF Offsets, SenderTypeOK
    <3>4. \A v \in Worker : ~Busy(c, v)
      BY <1>7 DEF JoinSend, Busy
    <3>5. Offsets(c) \subseteq acked[c]
      BY <2>1, <2>6, <3>3, <3>4 DEF ClientInv, CoverInv
    <3>6. acked[c] \subseteq Offsets(c)
      BY DEF ClientInv, ClaimInv
    <3> QED BY <3>5, <3>6
  <2>7. ResultInv(c)'
    <3>1. \A k \in Target : ~(k < 0)
      BY SMT DEF Target
    <3> QED BY <2>1, <2>2, <2>3, <2>6, <3>1, KeepClaims DEF ResultInv
  <2>8. CoverInv(c)'
    BY <2>1, <2>3, KeepClaims DEF CoverInv
  <2> QED BY <2>3, <2>4, <2>5, <2>7, <2>8, KeepClaims DEF ClientInv
<1>8. CASE CloseSkips(c)
  <2>1. /\ main'[c].ph = "close" /\ main'[c].i = m.i + 1 /\ main'[c].at = "go"
        /\ main'[c].err = m.err /\ main'[c].cerr = m.cerr
        /\ main'[c].file = m.file /\ m.ph = "close"
    BY <1>8, SMT DEF CloseSkips, SenderTypeOK, MainState
  <2>2. UNCHANGED <<tokens, cur, error, work, acked>> /\ tokens[c][m.i] = NoToken
    BY <1>8 DEF CloseSkips
  <2>3. KeepWorkers(c)
    BY <2>1, <2>2 DEF KeepWorkers
  <2>4. PlaceInv(c)'
    BY <2>1, SMT DEF PlaceInv
  <2>5. PhaseInv(c)'
    BY <2>1, <2>2 DEF ClientInv, PhaseInv
  <2>6. \A k \in Target : k < m.i + 1 => k = m.i \/ k < m.i
    BY <1>m, SMT DEF Target
  <2>7. ResultInv(c)'
    BY <2>1, <2>2, <2>3, <2>6, KeepClaims DEF ClientInv, ResultInv
  <2>8. CoverInv(c)'
    BY <2>1, <2>3, KeepClaims DEF CoverInv
  <2> QED BY <2>3, <2>4, <2>5, <2>7, <2>8, KeepClaims DEF ClientInv
<1>9. CASE Finish(c)
  <2>1. /\ main'[c].ph = "done" /\ main'[c].err = FirstError(m.err, m.cerr)
        /\ main'[c].at = "go" /\ main'[c].file = m.file
        /\ m.ph = "close" /\ m.i = N
    BY <1>9, SMT DEF Finish, SenderTypeOK, MainState
  <2>2. UNCHANGED <<tokens, cur, error, work, acked>>
    BY <1>9 DEF Finish
  <2>3. KeepWorkers(c)
    BY <2>1, <2>2 DEF KeepWorkers
  <2>4. PlaceInv(c)'
    BY <2>1, SMT DEF PlaceInv
  <2>5. PhaseInv(c)'
    BY <2>1, <2>2 DEF ClientInv, PhaseInv
  <2>6. \A k \in Target : k < N
    BY <1>m, SMT DEF Target
  <2>7. main'[c].err = "ok" => m.err = "ok" /\ m.cerr = "ok"
    BY <2>1 DEF FirstError
  <2>8. ResultInv(c)'
    BY <2>1, <2>2, <2>3, <2>6, <2>7, KeepClaims DEF ClientInv, ResultInv
  <2>9. CoverInv(c)'
    BY <2>1, <2>3, KeepClaims DEF CoverInv
  <2> QED BY <2>3, <2>4, <2>5, <2>8, <2>9, KeepClaims DEF ClientInv
<1>10. CASE NextFile(c)
  <2>1. main'[c] = FreshMain(m.file + 1) /\ cur'[c] = 0 /\ acked'[c] = {}
        /\ work'[c] = IdleWorkers
    BY <1>10 DEF NextFile, SenderTypeOK
  <2> QED BY <2>1, FreshInv
<1> QED
  BY <1>1, <1>2, <1>3, <1>4, <1>5, <1>6, <1>7, <1>8, <1>9, <1>10
  DEF MainStep, MainReturns, MainInternal

-----------------------------------------------------------------------------
(* Steps of a worker.                                                      *)

\* An active worker is in a client that sends.
LEMMA ActiveWorker ==
  ASSUME SenderTypeOK, NEW c \in Client, NEW w \in Worker, ClientInv(c),
         work[c][w].pc \notin {"off", "exit"}
  PROVE  main[c].ph = "send"
<1>1. main[c].ph \in Phase
  BY SMT DEF SenderTypeOK, MainState
<1> QED BY <1>1 DEF ClientInv, PhaseInv, Phase

\* One worker changes.
LEMMA WorkUpdate ==
  ASSUME SenderTypeOK, NEW c \in Client, NEW w \in Worker, NEW x \in WorkState,
         Become(c, w, x)
  PROVE  work'[c][w] = x /\ \A v \in Worker \ {w} : work'[c][v] = work[c][v]
<1>1. work \in [Client -> [Worker -> WorkState]]
  BY DEF SenderTypeOK
<1>2. \A v \in Worker : work'[c][v] = IF v = w THEN x ELSE work[c][v]
  BY <1>1, Update2 DEF Become
<1> QED BY <1>2

\* One worker moves.
LEMMA GotoUpdate ==
  ASSUME SenderTypeOK, NEW c \in Client, NEW w \in Worker, NEW p \in WorkPc,
         Goto(c, w, p)
  PROVE  /\ work'[c][w].pc = p /\ work'[c][w].off = work[c][w].off
         /\ work'[c][w].err = work[c][w].err
         /\ \A v \in Worker \ {w} : work'[c][v] = work[c][v]
<1> DEFINE x == [work[c][w] EXCEPT !.pc = p]
<1>1. work[c][w] \in WorkState
  BY SMT DEF SenderTypeOK
<1>2. /\ x \in WorkState /\ x.pc = p /\ x.off = work[c][w].off
      /\ x.err = work[c][w].err
  BY <1>1, Zenon DEF WorkState
<1>3. Become(c, w, x)
  BY DEF Goto
<1> HIDE DEF x
<1>4. work'[c][w] = x /\ \A v \in Worker \ {w} : work'[c][v] = work[c][v]
  BY <1>2, <1>3, WorkUpdate
<1> QED BY <1>2, <1>4

\* One worker records its error.
LEMMA FailUpdate ==
  ASSUME SenderTypeOK, NEW c \in Client, NEW w \in Worker, NEW e \in Err,
         Become(c, w, [work[c][w] EXCEPT !.pc = "fail", !.err = e])
  PROVE  /\ work'[c][w].pc = "fail" /\ work'[c][w].off = work[c][w].off
         /\ work'[c][w].err = e
         /\ \A v \in Worker \ {w} : work'[c][v] = work[c][v]
<1> DEFINE x == [work[c][w] EXCEPT !.pc = "fail", !.err = e]
<1>1. work[c][w] \in WorkState
  BY SMT DEF SenderTypeOK
<1>2. /\ x \in WorkState /\ x.pc = "fail" /\ x.off = work[c][w].off
      /\ x.err = e
  BY <1>1, Zenon DEF WorkState, WorkPc
<1>3. Become(c, w, x)
  OBVIOUS
<1> HIDE DEF x
<1>4. work'[c][w] = x /\ \A v \in Worker \ {w} : work'[c][v] = work[c][v]
  BY <1>2, <1>3, WorkUpdate
<1> QED BY <1>2, <1>4

\* A step of worker w that neither claims nor acknowledges a chunk: it keeps
\* the one it holds, or publishes an error, or held none.
LEMMA QuietWorker ==
  ASSUME NEW c \in Client, NEW w \in Worker, ClientInv(c),
         main[c].ph = "send", UNCHANGED <<main, tokens, cur, acked>>,
         \A v \in Worker \ {w} : work'[c][v] = work[c][v],
         work'[c][w].off = work[c][w].off,
         work'[c][w].pc \in {"check", "claim", "call", "fail", "exit"},
         Busy(c, w)' => Busy(c, w),
         work'[c][w].pc = "fail" => work'[c][w].err # "ok",
         error'[c] = "ok" => /\ error[c] = "ok"
                             /\ Busy(c, w) => Busy(c, w)'
                             /\ work'[c][w].pc = "exit" => Size(c) <= cur[c]
  PROVE  ClientInv(c)'
<1>1. Size(c)' = Size(c) /\ Offsets(c)' = Offsets(c)
  BY DEF Size, Offsets
<1>2. \A v \in Worker \ {w} : Busy(c, v)' <=> Busy(c, v)
  BY DEF Busy
<1>3. PlaceInv(c)' /\ ResultInv(c)'
  BY DEF ClientInv, PlaceInv, ResultInv
<1>4. PhaseInv(c)'
  BY DEF ClientInv, PhaseInv
<1>5. \A v \in Worker : work'[c][v].off = work[c][v].off /\ (Busy(c, v)' => Busy(c, v))
  BY <1>2
<1>6. ClaimInv(c)'
  BY <1>1, <1>5 DEF ClientInv, ClaimInv
<1>7. error'[c] = "ok" => \A v \in Worker : Busy(c, v) => Busy(c, v)'
  BY <1>2
<1>8. CoverInv(c)'
  BY <1>1, <1>5, <1>7 DEF ClientInv, CoverInv
<1> QED BY <1>3, <1>4, <1>6, <1>8 DEF ClientInv

\* The claim: the next offset is free, and none lies between it and cur'.
LEMMA ClaimChunk ==
  ASSUME SenderAssumption, SenderTypeOK, NEW c \in Client, NEW w \in Worker,
         ClientInv(c), main[c].ph = "send", ~Busy(c, w), cur[c] < Size(c),
         UNCHANGED <<main, tokens, error, acked>>,
         Become(c, w, [work[c][w] EXCEPT !.pc = "read", !.off = cur[c]]),
         cur' = [cur EXCEPT ![c] = @ + ChunkSize]
  PROVE  ClientInv(c)'
<1>c. cur[c] \in Nat /\ Size(c) \in Nat /\ cur[c] % ChunkSize = 0
        /\ cur'[c] = cur[c] + ChunkSize
  BY SizeIsNat DEF SenderTypeOK, ClientInv, ClaimInv
<1>w. /\ work'[c][w].pc = "read" /\ work'[c][w].off = cur[c]
      /\ \A v \in Worker \ {w} : work'[c][v] = work[c][v]
  <2> DEFINE x == [work[c][w] EXCEPT !.pc = "read", !.off = cur[c]]
  <2>1. work[c][w] \in WorkState
    BY SMT DEF SenderTypeOK
  <2>2. x \in WorkState /\ x.pc = "read" /\ x.off = cur[c]
    BY <1>c, <2>1, Zenon DEF WorkState, WorkPc
  <2>3. Become(c, w, x)
    OBVIOUS
  <2> HIDE DEF x
  <2>4. work'[c][w] = x /\ \A v \in Worker \ {w} : work'[c][v] = work[c][v]
    BY <2>2, <2>3, WorkUpdate
  <2> QED BY <2>2, <2>4
<1>1. Size(c)' = Size(c) /\ Offsets(c)' = Offsets(c)
  BY DEF Size, Offsets
<1>2. cur[c] \in Offsets(c)
  BY <1>c, SMT DEF Offsets
<1>3. /\ cur'[c] % ChunkSize = 0 /\ cur[c] < cur'[c]
      /\ \A o \in Offsets(c) : o < cur[c] => o < cur'[c]
      /\ \A o \in Offsets(c) : o < cur'[c] => o = cur[c] \/ o < cur[c]
  <2>1. cur'[c] % ChunkSize = 0
    BY <1>c, NextMultiple DEF SenderAssumption
  <2>2. \A o \in Offsets(c) : o \in Nat /\ o % ChunkSize = 0
    BY <1>c, SMT DEF Offsets
  <2>3. \A o \in Nat : o % ChunkSize = 0 /\ o < cur[c] + ChunkSize => o <= cur[c]
    BY <1>c, NextMultiple DEF SenderAssumption
  <2> QED BY <1>c, <2>1, <2>2, <2>3, SMT DEF SenderAssumption
<1>4. /\ Busy(c, w)' /\ \A v \in Worker \ {w} : Busy(c, v)' <=> Busy(c, v)
  BY <1>w DEF Busy
<1>5. ~(cur[c] < cur[c])
  BY <1>c, SMT
<1>6. PlaceInv(c)' /\ ResultInv(c)' /\ PhaseInv(c)'
  BY <1>w DEF ClientInv, PlaceInv, ResultInv, PhaseInv
<1>7. ClaimInv(c)'
  <2>1. \A o \in acked[c] : o \in Offsets(c) /\ o < cur'[c] /\ o # cur[c]
    BY <1>3, <1>5 DEF ClientInv, ClaimInv
  <2>2. \A v \in Worker \ {w} : Busy(c, v)' =>
          /\ work'[c][v].off \in Offsets(c) /\ work'[c][v].off < cur'[c]
          /\ work'[c][v].off # cur[c] /\ work'[c][v].off \notin acked[c]
    BY <1>w, <1>3, <1>4, <1>5 DEF ClientInv, ClaimInv
  <2>3. \A v, u \in Worker \ {w} : Busy(c, v)' /\ Busy(c, u)' /\ u # v
           => work'[c][u].off # work'[c][v].off
    BY <1>w, <1>4 DEF ClientInv, ClaimInv
  <2> QED BY <1>w, <1>1, <1>2, <1>3, <2>1, <2>2, <2>3 DEF ClaimInv
<1>8. CoverInv(c)'
  <2>1. \A v \in Worker : work'[c][v].pc = "fail" => work'[c][v].err # "ok"
    BY <1>w DEF ClientInv, CoverInv
  <2>2. ASSUME error[c] = "ok", NEW o \in Offsets(c), o < cur'[c]
        PROVE  o \in acked[c] \/ \E v \in Worker : Busy(c, v)' /\ work'[c][v].off = o
    <3>1. CASE o = cur[c]
      BY <1>w, <1>4, <3>1
    <3>2. CASE o < cur[c]
      <4>1. o \in acked[c] \/ \E v \in Worker : Busy(c, v) /\ work[c][v].off = o
        BY <2>2, <3>2 DEF ClientInv, CoverInv
      <4> QED BY <1>w, <1>4, <4>1
    <3> QED BY <1>3, <2>2, <3>1, <3>2
  <2>3. error[c] = "ok" => \A v \in Worker : work'[c][v].pc # "exit"
    <3>1. error[c] = "ok" => \A v \in Worker : work[c][v].pc = "exit" => Size(c) <= cur[c]
      BY DEF ClientInv, CoverInv
    <3>2. ~(Size(c) <= cur[c])
      BY <1>c, SMT
    <3> QED BY <1>w, <3>1, <3>2
  <2> QED BY <1>1, <2>1, <2>2, <2>3 DEF CoverInv
<1> QED BY <1>6, <1>7, <1>8 DEF ClientInv

\* The answer "ok": the chunk passes from the worker to the acknowledged ones.
LEMMA AckChunk ==
  ASSUME SenderTypeOK, NEW c \in Client, NEW w \in Worker,
         ClientInv(c), work[c][w].pc = "call", Goto(c, w, "check"),
         UNCHANGED <<main, tokens, cur, error>>,
         acked' = [acked EXCEPT ![c] = @ \cup {work[c][w].off}]
  PROVE  ClientInv(c)'
<1>w. /\ work'[c][w].pc = "check"
      /\ \A v \in Worker \ {w} : work'[c][v] = work[c][v]
  BY GotoUpdate DEF WorkPc
<1>a. acked'[c] = acked[c] \cup {work[c][w].off}
  BY DEF SenderTypeOK
<1>1. Size(c)' = Size(c) /\ Offsets(c)' = Offsets(c)
  BY DEF Size, Offsets
<1>2. /\ Busy(c, w) /\ ~Busy(c, w)'
      /\ \A v \in Worker \ {w} : Busy(c, v)' <=> Busy(c, v)
  BY <1>w DEF Busy
<1>3. main[c].ph = "send"
  BY ActiveWorker
<1>4. PlaceInv(c)' /\ ResultInv(c)' /\ PhaseInv(c)'
  BY <1>w, <1>3 DEF ClientInv, PlaceInv, ResultInv, PhaseInv
<1>5. ClaimInv(c)'
  <2>1. \A o \in acked'[c] : o \in Offsets(c) /\ o < cur[c]
    BY <1>a, <1>2 DEF ClientInv, ClaimInv
  <2>2. \A v \in Worker \ {w} : Busy(c, v) => work[c][v].off # work[c][w].off
    BY <1>2 DEF ClientInv, ClaimInv
  <2>3. \A v \in Worker \ {w} : Busy(c, v)' =>
          /\ work'[c][v].off \in Offsets(c) /\ work'[c][v].off < cur[c]
          /\ work'[c][v].off \notin acked'[c]
    BY <1>w, <1>a, <1>2, <2>2 DEF ClientInv, ClaimInv
  <2>4. \A v, u \in Worker \ {w} : Busy(c, v)' /\ Busy(c, u)' /\ u # v
           => work'[c][u].off # work'[c][v].off
    BY <1>w, <1>2 DEF ClientInv, ClaimInv
  <2>5. cur'[c] % ChunkSize = 0
    BY DEF ClientInv, ClaimInv
  <2> QED BY <1>1, <1>2, <2>1, <2>3, <2>4, <2>5 DEF ClaimInv
<1>6. CoverInv(c)'
  <2>1. \A v \in Worker : work'[c][v].pc = "fail" => work'[c][v].err # "ok"
    BY <1>w DEF ClientInv, CoverInv
  <2>2. ASSUME error[c] = "ok", NEW o \in Offsets(c), o < cur[c]
        PROVE  o \in acked'[c] \/ \E v \in Worker : Busy(c, v)' /\ work'[c][v].off = o
    <3>1. o \in acked[c] \/ \E v \in Worker : Busy(c, v) /\ work[c][v].off = o
      BY <1>3, <2>2 DEF ClientInv, CoverInv
    <3> QED BY <1>w, <1>a, <1>2, <3>1
  <2>3. error[c] = "ok" => \A v \in Worker : work'[c][v].pc = "exit" => Size(c) <= cur[c]
    BY <1>w, <1>3 DEF ClientInv, CoverInv
  <2> QED BY <1>1, <2>1, <2>2, <2>3 DEF CoverInv
<1> QED BY <1>4, <1>5, <1>6 DEF ClientInv

\* A step of a worker keeps the invariant of its client.
LEMMA WorkerInv ==
  ASSUME SenderAssumption, SenderTypeOK, NEW c \in Client, NEW w \in Worker,
         ClientInv(c), WorkerStep(c, w)
  PROVE  ClientInv(c)'
<1>1. CASE WorkerAlloc(c, w)
  <2>1. /\ UNCHANGED <<main, tokens, cur, acked>> /\ work[c][w].pc = "start"
        /\ \/ Goto(c, w, "check") /\ error' = error
           \/ Goto(c, w, "exit") /\ error' = [error EXCEPT ![c] = "EIO"]
    BY <1>1 DEF WorkerAlloc
  <2>2. main[c].ph = "send"
    BY <2>1, ActiveWorker
  <2>3. CASE Goto(c, w, "check") /\ error' = error
    <3>1. "check" \in WorkPc
      BY DEF WorkPc
    <3>2. /\ work'[c][w].pc = "check" /\ work'[c][w].off = work[c][w].off
          /\ \A v \in Worker \ {w} : work'[c][v] = work[c][v]
      BY <2>3, <3>1, GotoUpdate
    <3>3. ~Busy(c, w) /\ ~Busy(c, w)'
      BY <2>1, <3>2 DEF Busy
    <3> QED BY <2>1, <2>2, <2>3, <3>2, <3>3, QuietWorker
  <2>4. CASE Goto(c, w, "exit") /\ error' = [error EXCEPT ![c] = "EIO"]
    <3>1. "exit" \in WorkPc
      BY DEF WorkPc
    <3>2. /\ work'[c][w].pc = "exit" /\ work'[c][w].off = work[c][w].off
          /\ \A v \in Worker \ {w} : work'[c][v] = work[c][v]
      BY <2>4, <3>1, GotoUpdate
    <3>3. ~Busy(c, w)' /\ error'[c] # "ok"
      BY <2>4, <3>2 DEF Busy, SenderTypeOK
    <3> QED BY <2>1, <2>2, <3>2, <3>3, QuietWorker
  <2> QED BY <2>1, <2>3, <2>4
<1>2. CASE WorkerCheck(c, w)
  <2>1. /\ UNCHANGED <<main, tokens, cur, error, acked>> /\ work[c][w].pc = "check"
        /\ Goto(c, w, IF error[c] = "ok" THEN "claim" ELSE "exit")
    BY <1>2 DEF WorkerCheck
  <2>2. main[c].ph = "send"
    BY <2>1, ActiveWorker
  <2> DEFINE p == IF error[c] = "ok" THEN "claim" ELSE "exit"
  <2>3. p \in WorkPc
    BY DEF WorkPc
  <2>4. /\ work'[c][w].pc = p /\ work'[c][w].off = work[c][w].off
        /\ \A v \in Worker \ {w} : work'[c][v] = work[c][v]
    BY <2>1, <2>3, GotoUpdate
  <2>5. /\ p \in {"claim", "exit"} /\ (error[c] = "ok" => p = "claim")
    OBVIOUS
  <2> HIDE DEF p
  <2>6. ~Busy(c, w) /\ ~Busy(c, w)'
    BY <2>1, <2>4, <2>5 DEF Busy
  <2> QED BY <2>1, <2>2, <2>4, <2>5, <2>6, QuietWorker
<1>3. CASE WorkerClaim(c, w)
  <2>1. /\ UNCHANGED <<main, tokens, error, acked>> /\ work[c][w].pc = "claim"
    BY <1>3 DEF WorkerClaim
  <2>2. main[c].ph = "send" /\ ~Busy(c, w)
    BY <2>1, ActiveWorker DEF Busy
  <2>3. CASE ~(cur[c] < Size(c))
    <3>1. "exit" \in WorkPc /\ Goto(c, w, "exit") /\ cur' = cur
      BY <1>3, <2>3 DEF WorkPc, WorkerClaim
    <3>2. /\ work'[c][w].pc = "exit" /\ work'[c][w].off = work[c][w].off
          /\ \A v \in Worker \ {w} : work'[c][v] = work[c][v]
      BY <3>1, GotoUpdate
    <3>3. ~Busy(c, w)'
      BY <3>2 DEF Busy
    <3>4. Size(c) <= cur[c]
      BY <2>3, SizeIsNat, SMT DEF SenderTypeOK
    <3> QED BY <2>1, <2>2, <3>1, <3>2, <3>3, <3>4, QuietWorker
  <2>4. CASE cur[c] < Size(c)
    BY <2>1, <2>2, <2>4, <1>3, ClaimChunk DEF WorkerClaim
  <2> QED BY <2>3, <2>4
<1>4. CASE WorkerRead(c, w)
  <2>1. /\ UNCHANGED <<main, tokens, cur, error, acked>> /\ work[c][w].pc = "read"
        /\ \/ Goto(c, w, "call")
           \/ Become(c, w, [work[c][w] EXCEPT !.pc = "fail", !.err = "EIO"])
    BY <1>4 DEF WorkerRead
  <2>2. /\ work'[c][w].pc \in {"call", "fail"} /\ work'[c][w].off = work[c][w].off
        /\ work'[c][w].pc = "fail" => work'[c][w].err # "ok"
        /\ \A v \in Worker \ {w} : work'[c][v] = work[c][v]
    BY <2>1, GotoUpdate, FailUpdate DEF WorkPc, Err
  <2>3. main[c].ph = "send" /\ Busy(c, w) /\ Busy(c, w)'
    BY <2>1, <2>2, ActiveWorker DEF Busy
  <2> QED BY <2>1, <2>2, <2>3, QuietWorker
<1>5. CASE WorkerFail(c, w)
  <2>1. /\ UNCHANGED <<main, tokens, cur, acked>> /\ work[c][w].pc = "fail"
        /\ Goto(c, w, "exit") /\ error' = [error EXCEPT ![c] = work[c][w].err]
    BY <1>5 DEF WorkerFail
  <2>2. /\ work'[c][w].pc = "exit" /\ work'[c][w].off = work[c][w].off
        /\ \A v \in Worker \ {w} : work'[c][v] = work[c][v]
    BY <2>1, GotoUpdate DEF WorkPc
  <2>3. error'[c] # "ok"
    BY <2>1 DEF ClientInv, CoverInv, SenderTypeOK
  <2>4. main[c].ph = "send" /\ ~Busy(c, w)'
    BY <2>1, <2>2, ActiveWorker DEF Busy
  <2> QED BY <2>1, <2>2, <2>3, <2>4, QuietWorker
<1>6. ASSUME NEW e \in Err, SendReturns(c, w, e) PROVE ClientInv(c)'
  <2>1. UNCHANGED <<main, tokens, cur, error>> /\ work[c][w].pc = "call"
    BY <1>6 DEF SendReturns
  <2>2. CASE e = "ok"
    BY <1>6, <2>1, <2>2, AckChunk DEF SendReturns
  <2>3. CASE e # "ok"
    <3>1. /\ Become(c, w, [work[c][w] EXCEPT !.pc = "fail", !.err = e])
          /\ acked' = acked
      BY <1>6, <2>3 DEF SendReturns
    <3>2. /\ work'[c][w].pc = "fail" /\ work'[c][w].off = work[c][w].off
          /\ work'[c][w].err = e
          /\ \A v \in Worker \ {w} : work'[c][v] = work[c][v]
      BY <3>1, FailUpdate
    <3>3. main[c].ph = "send" /\ Busy(c, w) /\ Busy(c, w)'
      BY <2>1, <3>2, ActiveWorker DEF Busy
    <3> QED BY <2>1, <2>3, <3>1, <3>2, <3>3, QuietWorker
  <2> QED BY <2>2, <2>3
<1> QED
  BY <1>1, <1>2, <1>3, <1>4, <1>5, <1>6 DEF WorkerStep, WorkerInternal

-----------------------------------------------------------------------------
(* The inductive invariant and what follows from it.                       *)

\* The invariant holds at first.
LEMMA SenderInvInit ==
  ASSUME SenderAssumption, SenderInit
  PROVE  SenderInv
<1>1. SenderTypeOK
  BY TypeInit
<1>2. ASSUME NEW c \in Client PROVE ClientInv(c)
  <2>1. main[c] = FreshMain(1) /\ cur[c] = 0 /\ acked[c] = {} /\ work[c] = IdleWorkers
    BY DEF SenderInit
  <2>2. /\ main[c].ph = "open" /\ main[c].i = 0 /\ main[c].at = "go"
        /\ \A w \in Worker : work[c][w].pc = "off"
    BY <2>1 DEF FreshMain, IdleWorkers
  <2>3. 0 < N /\ 0 % ChunkSize = 0
    BY SMT DEF SenderAssumption
  <2>4. PlaceInv(c) /\ PhaseInv(c)
    BY <2>1, <2>2, <2>3 DEF PlaceInv, PhaseInv
  <2>5. ClaimInv(c) /\ CoverInv(c) /\ ResultInv(c)
    BY <2>1, <2>2, <2>3 DEF ClaimInv, CoverInv, ResultInv, Busy
  <2> QED BY <2>4, <2>5 DEF ClientInv
<1> QED BY <1>1, <1>2 DEF SenderInv

\* Every step keeps the invariant.
LEMMA SenderInvNext ==
  ASSUME SenderAssumption, SenderInv, [SenderNext]_senderVars
  PROVE  SenderInv'
<1>1. CASE UNCHANGED senderVars
  <2>1. SenderTypeOK'
    BY <1>1 DEF SenderInv, SenderTypeOK, senderVars
  <2>2. \A d \in Client : Same(d)
    BY <1>1 DEF Same, senderVars
  <2> QED BY <2>1, <2>2, SameInv DEF SenderInv
<1>2. ASSUME NEW c \in Client, MainStep(c) \/ LocalOpenFails(c) PROVE SenderInv'
  <2>1. SenderTypeOK' /\ ClientInv(c)'
    BY <1>2, TypeMain, MainInv DEF SenderInv, ClientInv
  <2>2. \A d \in Client \ {c} : ClientInv(d)'
    BY <1>2, OthersSame, SameInv DEF SenderInv
  <2> QED BY <2>1, <2>2 DEF SenderInv
<1>3. ASSUME NEW c \in Client, NEW w \in Worker, WorkerStep(c, w) PROVE SenderInv'
  <2>1. SenderTypeOK' /\ ClientInv(c)'
    BY <1>3, TypeWorker, WorkerInv DEF SenderInv
  <2>2. \A d \in Client \ {c} : ClientInv(d)'
    BY <1>3, OthersSame, SameInv DEF SenderInv
  <2> QED BY <2>1, <2>2 DEF SenderInv
<1> QED BY <1>1, <1>2, <1>3 DEF SenderNext, Terminated

\* A client that sends, or sets the chain, has the token of every target, and one
\* that opens has those of the targets before.
TokenInv(c) ==
  /\ main[c].ph = "open" => \A k \in Target : k < main[c].i => tokens[c][k] # NoToken
  /\ main[c].ph \in {"chain", "send"} => \A k \in Target : tokens[c][k] # NoToken

\* A step of a main coroutine keeps the account of its tokens.
LEMMA TokenStep ==
  ASSUME SenderAssumption, SenderInv, NEW c \in Client, TokenInv(c),
         MainStep(c) \/ LocalOpenFails(c)
  PROVE  TokenInv(c)'
<1> DEFINE m == main[c]
<1>m. /\ m \in MainState /\ m.i \in Nat /\ main \in [Client -> MainState]
      /\ N \in Nat \ {0} /\ tokens \in [Client -> [Target -> Token \cup {NoToken}]]
  BY SMT DEF SenderInv, SenderTypeOK, SenderAssumption, MainState
<1>g. ASSUME NEW e \in Err, GiveUp(c, e) PROVE TokenInv(c)'
  <2>1. main'[c].ph = "close"
    BY <1>m, <1>g, SMT DEF GiveUp, MainState
  <2> QED BY <2>1 DEF TokenInv
<1>1. CASE Call(c)
  <2>1. main'[c].ph = m.ph /\ main'[c].i = m.i /\ tokens' = tokens
    BY <1>m, <1>1, SMT DEF Call, MainState
  <2> QED BY <2>1 DEF TokenInv
<1>2. ASSUME NEW e \in Err, NEW t \in Token, OpenReturns(c, e, t) PROVE TokenInv(c)'
  <2>1. CASE e = "ok"
    <3>1. /\ main'[c].ph = IF m.i + 1 = N THEN "chain" ELSE "open"
          /\ main'[c].i = IF m.i + 1 = N THEN 0 ELSE m.i + 1
          /\ m.ph = "open"
      BY <1>m, <1>2, <2>1, SMT DEF OpenReturns, Waits, MainState
    <3>2. tokens' = [tokens EXCEPT ![c][m.i] = t]
      BY <1>2, <2>1 DEF OpenReturns
    <3>3. \A k \in Target : tokens'[c][k] = IF k = m.i THEN t ELSE tokens[c][k]
      BY <1>m, <3>2, SMT
    <3>4. t # NoToken
      BY DEF SenderAssumption
    <3>5. \A k \in Target : k < m.i + 1 => tokens'[c][k] # NoToken
      <4>1. \A k \in Target : k < m.i + 1 => k = m.i \/ k < m.i
        BY <1>m, SMT DEF Target
      <4> QED BY <3>1, <3>3, <3>4, <4>1 DEF TokenInv
    <3>6. m.i + 1 = N => \A k \in Target : k < m.i + 1
      BY <1>m, SMT DEF Target
    <3> QED BY <3>1, <3>5, <3>6 DEF TokenInv
  <2>2. CASE e # "ok"
    BY <1>2, <1>g, <2>2 DEF OpenReturns
  <2> QED BY <2>1, <2>2
<1>3. ASSUME NEW e \in Err, ChainReturns(c, e) PROVE TokenInv(c)'
  <2>1. CASE e = "ok"
    <3>1. main'[c].ph = "chain" /\ m.ph = "chain" /\ tokens' = tokens
      BY <1>m, <1>3, <2>1, SMT DEF ChainReturns, Waits, MainState
    <3> QED BY <3>1 DEF TokenInv
  <2>2. CASE e # "ok"
    BY <1>3, <1>g, <2>2 DEF ChainReturns
  <2> QED BY <2>1, <2>2
<1>4. CASE StartSend(c)
  <2>1. main'[c].ph = "send" /\ m.ph = "chain" /\ tokens' = tokens
    BY <1>m, <1>4, SMT DEF StartSend, MainState
  <2> QED BY <2>1 DEF TokenInv
<1>5. CASE NextFile(c)
  <2>1. main'[c] = FreshMain(m.file + 1)
    BY <1>m, <1>5 DEF NextFile
  <2>2. main'[c].ph = "open" /\ main'[c].i = 0
    BY <2>1 DEF FreshMain
  <2>3. \A k \in Target : ~(k < 0)
    BY SMT DEF Target
  <2> QED BY <2>2, <2>3 DEF TokenInv
<1>6. CASE JoinSend(c) \/ CloseSkips(c) \/ Finish(c) \/ \E e \in Err : CloseReturns(c, e)
  <2>1. main'[c].ph \in {"close", "done"}
    BY <1>m, <1>6, SMT DEF JoinSend, CloseSkips, Finish, CloseReturns, Waits, MainState
  <2> QED BY <2>1 DEF TokenInv
<1>7. CASE LocalOpenFails(c)
  BY <1>7, <1>g DEF LocalOpenFails, Err
<1> QED
  BY <1>1, <1>2, <1>3, <1>4, <1>5, <1>6, <1>7 DEF MainStep, MainReturns, MainInternal

\* So does every step of the clients.
LEMMA TokensKept ==
  ASSUME SenderAssumption, SenderInv, \A c \in Client : TokenInv(c), [SenderNext]_senderVars
  PROVE  \A c \in Client : TokenInv(c)'
<1>s. ASSUME NEW d \in Client, main'[d] = main[d], tokens'[d] = tokens[d]
      PROVE  TokenInv(d)'
  BY <1>s DEF TokenInv
<1>1. CASE UNCHANGED senderVars \/ Terminated
  BY <1>1, <1>s DEF senderVars, Terminated
<1>2. ASSUME NEW c \in Client, MainStep(c) \/ LocalOpenFails(c),
             NEW d \in Client
      PROVE  TokenInv(d)'
  <2>1. CASE d = c
    BY <1>2, <2>1, TokenStep
  <2>2. CASE d # c
    BY <1>2, <2>2, <1>s, OthersSame DEF SenderInv, Same
  <2> QED BY <2>1, <2>2
<1>3. ASSUME NEW c \in Client, NEW w \in Worker, WorkerStep(c, w) PROVE UNCHANGED <<main, tokens>>
  BY <1>3 DEF WorkerStep, WorkerInternal, WorkerAlloc, WorkerCheck, WorkerClaim,
              WorkerRead, WorkerFail, SendReturns
<1> QED BY <1>1, <1>2, <1>3, <1>s DEF SenderNext

\* SenderInv holds in every state the client alone can reach.
THEOREM Invariance == SenderSpec => []SenderInv
<1>1. SenderInit => SenderInv
  BY SenderInvInit, SenderAssumption
<1>2. SenderInv /\ [SenderNext]_senderVars => SenderInv'
  BY SenderInvNext, SenderAssumption
<1> QED BY <1>1, <1>2, PTL DEF SenderSpec

\* The coroutines keep their variables in the expected sets, in particular
\* the index of the target and of the file within bounds.
THEOREM TypeCorrect == SenderSpec => []SenderTypeOK
<1>1. SenderInv => SenderTypeOK
  BY DEF SenderInv
<1> QED BY <1>1, Invariance, PTL

\* send_file reports success only if every chunk of the file was acknowledged.
THEOREM SendIsComplete == SenderSpec => []SendComplete
<1>1. SenderInv => SendComplete
  BY DEF SenderInv, ClientInv, ResultInv, SendComplete
<1> QED BY <1>1, Invariance, PTL

\* The claim under the mutex hands out every offset once.
THEOREM EachChunkClaimedOnce == SenderSpec => []ClaimedOnce
<1>1. SenderInv => ClaimedOnce
  BY DEF SenderInv, ClientInv, ClaimInv, ClaimedOnce
<1> QED BY <1>1, Invariance, PTL

\* No request is under way when the targets are asked to close.
THEOREM NoSendDuringClose == SenderSpec => []CloseAfterJoin
<1>1. SenderInv => CloseAfterJoin
  BY DEF SenderInv, ClientInv, PhaseInv, CloseAfterJoin, Busy
<1> QED BY <1>1, Invariance, PTL

\* A success has given back the token of every target.
THEOREM SuccessIsClosed == SenderSpec => []SuccessClosesAll
<1>1. SenderInv => SuccessClosesAll
  <2> SUFFICES ASSUME SenderInv, NEW c \in Client, main[c].ph = "done",
                      main[c].err = "ok"
               PROVE  tokens[c] = NoTokens
    BY DEF SuccessClosesAll
  <2>1. \A k \in Target : tokens[c][k] = NoToken
    BY DEF SenderInv, ClientInv, ResultInv
  <2>2. tokens[c] \in [Target -> Token \cup {NoToken}]
    BY DEF SenderInv, SenderTypeOK
  <2> QED BY <2>1, <2>2 DEF NoTokens
<1> QED BY <1>1, Invariance, PTL

-----------------------------------------------------------------------------
(* The system: module Fcopy.                                               *)

\* Somebody awaits the reply of job j.
Called(j) == caller[j].who # <<"none">>

\* What a worker may send for the chunk it holds.
WorkReqs(c, w) ==
  {ChunkReq(c, w)} \cup {ShortReq(c, w, n) : n \in 0..ChunkReq(c, w).len-1}

\* The caller's coroutine stands where it waits for the reply of server s to
\* request r, and r is what it asks for there.
Awaits(who, s, r) ==
  /\ who[1] = "main" => /\ main[who[2]].at = "await"
                        /\ s = Dest[who[2]][main[who[2]].i]
                        /\ r = MainReq(who[2])
  /\ who[1] = "work" => /\ work[who[2]][who[3]].pc = "call"
                        /\ s = Dest[who[2]][0]
                        /\ r \in WorkReqs(who[2], who[3])
  /\ who[1] = "fwd"  => /\ At(who[2], "work")
                        /\ who[3] \in DOMAIN job[who[2]].fwd
                        /\ job[who[2]].fwd[who[3]] = "call"
                        /\ s = job[who[2]].to[who[3]].srv
                        /\ r = ForwardReq(who[2], who[3])

\* A handler that closes the file after its reply.
PastReply(j) == job[j].pc \in {"erase", "trunc", "close"} /\ ~job[j].req.wait

CallerInv ==
  /\ caller \in [Slot -> [who : Who, try : 0..RetryMax]]
  /\ \A j \in Slot : Called(j) => /\ ~At(j, "free") /\ ~PastReply(j)
                                  /\ Awaits(caller[j].who, job[j].srv, job[j].req)
  /\ \A j \in Slot : ~Called(j) => caller[j] = Nobody

LostInv ==
  \A l \in lost : /\ l \in [who : Who, srv : Server, req : Request, try : 0..RetryMax]
                  /\ l.who # <<"none">>
                  /\ Awaits(l.who, l.srv, l.req)

\* A coroutine awaits one call at a time.
OneCall ==
  /\ \A i, j \in Slot : Called(i) /\ caller[i].who = caller[j].who => i = j
  /\ \A l, m \in lost : l.who = m.who => l = m
  /\ \A j \in Slot, l \in lost : caller[j].who # l.who

CallInv == CallerInv /\ LostInv /\ OneCall

FcopyInv ==
  /\ SenderInv /\ \A c \in Client : TokenInv(c)
  /\ ServerInv
  /\ CallInv
  /\ faults \in 0..MaxFaults

-----------------------------------------------------------------------------
(* Callers.                                                                *)

\* The four forms of a caller, and what they name.
LEMMA WhoForms ==
  ASSUME NEW who \in Who
  PROVE  /\ who[1] \in {"none", "main", "work", "fwd"}
         /\ who[1] = "none" <=> who = <<"none">>
         /\ who[1] = "main" => who[2] \in Client /\ who = <<"main", who[2]>>
         /\ who[1] = "work" => /\ who[2] \in Client /\ who[3] \in Worker
                               /\ who = <<"work", who[2], who[3]>>
         /\ who[1] = "fwd"  => /\ who[2] \in Slot /\ who[3] \in Nat
                               /\ who = <<"fwd", who[2], who[3]>>
<1>1. CASE who = <<"none">>
  BY <1>1
<1>2. ASSUME NEW c \in Client, who = <<"main", c>>
      PROVE  /\ who[1] = "main" /\ who[2] \in Client /\ who = <<"main", who[2]>>
             /\ who # <<"none">>
  BY <1>2
<1>3. ASSUME NEW c \in Client, NEW w \in Worker, who = <<"work", c, w>>
      PROVE  /\ who[1] = "work" /\ who[2] \in Client /\ who[3] \in Worker
             /\ who = <<"work", who[2], who[3]>> /\ who # <<"none">>
  BY <1>3
<1>4. ASSUME NEW j \in Slot, NEW k \in Nat, who = <<"fwd", j, k>>
      PROVE  /\ who[1] = "fwd" /\ who[2] \in Slot /\ who[3] \in Nat
             /\ who = <<"fwd", who[2], who[3]>> /\ who # <<"none">>
  BY <1>4
<1>5. \/ who = <<"none">> \/ \E c \in Client : who = <<"main", c>>
      \/ \E c \in Client, w \in Worker : who = <<"work", c, w>>
      \/ \E j \in Slot, k \in Nat : who = <<"fwd", j, k>>
  BY DEF Who
<1> QED BY <1>1, <1>2, <1>3, <1>4, <1>5

\* Each of them is a caller.
LEMMA WhoSets ==
  /\ <<"none">> \in Who
  /\ \A c \in Client : <<"main", c>> \in Who
  /\ \A c \in Client, w \in Worker : <<"work", c, w>> \in Who
  /\ \A j \in Slot, k \in Nat : <<"fwd", j, k>> \in Who
BY DEF Who

-----------------------------------------------------------------------------
(* What a step may do to the calls under way.                              *)

\* The coroutines of the clients that wait, except those in W, go on waiting.
SenderKeeps(W) ==
  /\ \A c \in Client : (main[c].at = "await" /\ <<"main", c>> \notin W) =>
       main'[c] = main[c] /\ tokens'[c] = tokens[c]
  /\ \A c \in Client, w \in Worker :
       (work[c][w].pc = "call" /\ <<"work", c, w>> \notin W) =>
         work'[c][w] = work[c][w] /\ main'[c] = main[c] /\ tokens'[c] = tokens[c]

\* So do the forwarded requests of the handlers.
JobsKeep(W) ==
  \A j \in Slot, k \in Nat :
    (/\ At(j, "work") /\ k \in DOMAIN job[j].fwd /\ job[j].fwd[k] = "call"
     /\ <<"fwd", j, k>> \notin W) =>
      /\ job'[j].pc = "work" /\ k \in DOMAIN job'[j].fwd /\ job'[j].fwd[k] = "call"
      /\ job'[j].to = job[j].to /\ job'[j].req = job[j].req

\* A coroutine that the step does not resume awaits what it awaited before.
LEMMA StillAwaits ==
  ASSUME NEW W, SenderKeeps(W), JobsKeep(W), NEW who \in Who, who \notin W,
         NEW s, NEW r, Awaits(who, s, r)
  PROVE  Awaits(who, s, r)'
<1>1. ASSUME who[1] = "main" PROVE Awaits(who, s, r)'
  <2>1. PICK c \in Client : c = who[2] /\ <<"main", c>> \notin W
    BY <1>1, WhoForms
  <2>2. main'[c] = main[c] /\ tokens'[c] = tokens[c]
    BY <1>1, <2>1 DEF Awaits, SenderKeeps
  <2>3. MainReq(c)' = MainReq(c)
    BY <2>2 DEF MainReq, File, Size, ChainTargets, ChainTarget
  <2> QED BY <1>1, <2>1, <2>2, <2>3 DEF Awaits
<1>2. ASSUME who[1] = "work" PROVE Awaits(who, s, r)'
  <2>1. PICK c \in Client : c = who[2]
    BY <1>2, WhoForms
  <2>2. PICK w \in Worker : w = who[3] /\ <<"work", c, w>> \notin W
    BY <1>2, <2>1, WhoForms
  <2>3. work'[c][w] = work[c][w] /\ main'[c] = main[c] /\ tokens'[c] = tokens[c]
    BY <1>2, <2>1, <2>2 DEF Awaits, SenderKeeps
  <2>4. ChunkReq(c, w)' = ChunkReq(c, w)
    BY <2>3 DEF ChunkReq, ChunkLen, Size
  <2>5. WorkReqs(c, w)' = WorkReqs(c, w)
    BY <2>4 DEF WorkReqs, ShortReq
  <2> QED BY <1>2, <2>1, <2>2, <2>3, <2>5 DEF Awaits
<1>3. ASSUME who[1] = "fwd" PROVE Awaits(who, s, r)'
  <2>1. PICK i \in Slot : i = who[2]
    BY <1>3, WhoForms
  <2>2. PICK k \in Nat : k = who[3] /\ <<"fwd", i, k>> \notin W
    BY <1>3, <2>1, WhoForms
  <2>3. /\ job'[i].pc = "work" /\ k \in DOMAIN job'[i].fwd /\ job'[i].fwd[k] = "call"
        /\ job'[i].to = job[i].to /\ job'[i].req = job[i].req
    BY <1>3, <2>1, <2>2 DEF Awaits, JobsKeep
  <2>4. ForwardReq(i, k)' = ForwardReq(i, k)
    BY <2>3 DEF ForwardReq
  <2> QED BY <1>3, <2>1, <2>2, <2>3, <2>4 DEF Awaits, At
<1>4. ASSUME who[1] = "none" PROVE Awaits(who, s, r)'
  BY <1>4 DEF Awaits
<1> QED BY <1>1, <1>2, <1>3, <1>4, WhoForms

\* The handler of a job whose reply is awaited goes on with the same request.
Proceeds(j) ==
  /\ job'[j].req = job[j].req /\ job'[j].srv = job[j].srv
  /\ job'[j].pc # "free" /\ ~PastReply(j)'

\* A step that begins no call: a job may lose its caller, and its call may then
\* be one whose connection broke.
LEMMA FewerCalls ==
  ASSUME CallInv, NEW W, SenderKeeps(W), JobsKeep(W),
         \A j \in Slot : caller[j].who \in W => caller'[j] = Nobody,
         \A l \in lost : l.who \in W => l \notin lost',
         caller' \in [Slot -> [who : Who, try : 0..RetryMax]],
         \A j \in Slot : caller'[j] \in {caller[j], Nobody},
         \A j \in Slot : Called(j) /\ caller'[j] # Nobody => Proceeds(j),
         \A l \in lost' : \/ l \in lost
                          \/ \E j \in Slot :
                               /\ Called(j) /\ caller[j].who \notin W /\ caller'[j] = Nobody
                               /\ l = LostCall(j)
                               /\ job[j].srv \in Server /\ job[j].req \in Request
  PROVE  CallInv'
<1> USE DEF Called
<1>n. Nobody.who = <<"none">>
  BY DEF Nobody
<1>1. CallerInv'
  <2>1. ASSUME NEW j \in Slot, caller'[j].who # <<"none">>
        PROVE  /\ ~At(j, "free")' /\ ~PastReply(j)'
               /\ Awaits(caller[j].who, job[j].srv, job[j].req)'
    <3>1. caller'[j] = caller[j] /\ Called(j) /\ caller'[j] # Nobody
      BY <1>n, <2>1
    <3>2. Proceeds(j)
      BY <3>1
    <3>3. PICK who \in Who : who = caller[j].who
      BY DEF CallInv, CallerInv
    <3>4. PICK s, r : s = job[j].srv /\ r = job[j].req
      OBVIOUS
    <3>5. Awaits(who, s, r) /\ who \notin W
      BY <3>1, <3>3, <3>4 DEF CallInv, CallerInv
    <3>6. Awaits(who, s, r)'
      BY <3>5, StillAwaits
    <3>7. who = caller'[j].who /\ s = job'[j].srv /\ r = job'[j].req
      BY <3>1, <3>2, <3>3, <3>4 DEF Proceeds
    <3>8. Awaits(caller[j].who, job[j].srv, job[j].req)'
      BY <3>6, <3>7
    <3> QED BY <3>2, <3>8 DEF Proceeds, At
  <2>2. ASSUME NEW j \in Slot, caller'[j].who = <<"none">> PROVE caller'[j] = Nobody
    BY <2>2 DEF CallInv, CallerInv
  <2> QED BY <2>1, <2>2 DEF CallerInv
<1>2. LostInv'
  <2> SUFFICES ASSUME NEW l \in lost'
               PROVE  /\ l \in [who : Who, srv : Server, req : Request, try : 0..RetryMax]
                      /\ l.who # <<"none">>
                      /\ Awaits(l.who, l.srv, l.req)'
    BY DEF LostInv
  <2>1. CASE l \in lost
    <3>1. /\ l \in [who : Who, srv : Server, req : Request, try : 0..RetryMax]
          /\ l.who # <<"none">> /\ Awaits(l.who, l.srv, l.req)
      BY <2>1 DEF CallInv, LostInv
    <3>2. l.who \in Who /\ l.who \notin W
      BY <2>1, <3>1
    <3> QED BY <3>1, <3>2, StillAwaits
  <2>2. ASSUME NEW j \in Slot, Called(j), caller[j].who \notin W, l = LostCall(j),
               job[j].srv \in Server, job[j].req \in Request
        PROVE  /\ l \in [who : Who, srv : Server, req : Request, try : 0..RetryMax]
               /\ l.who # <<"none">>
               /\ Awaits(l.who, l.srv, l.req)'
    <3>1. /\ caller[j] \in [who : Who, try : 0..RetryMax]
          /\ Awaits(caller[j].who, job[j].srv, job[j].req)
      BY <2>2 DEF CallInv, CallerInv
    <3>2. l \in [who : Who, srv : Server, req : Request, try : 0..RetryMax]
      BY <2>2, <3>1 DEF LostCall
    <3>3. l.who = caller[j].who /\ l.srv = job[j].srv /\ l.req = job[j].req
      BY <2>2 DEF LostCall
    <3>4. l.who \in Who /\ l.who \notin W /\ Awaits(l.who, l.srv, l.req)
      BY <2>2, <3>1, <3>3
    <3>5. Awaits(l.who, l.srv, l.req)'
      BY <3>4, StillAwaits
    <3> QED BY <2>2, <3>2, <3>3, <3>5
  <2> QED BY <2>1, <2>2
<1>3. OneCall'
  <2>o. OneCall
    BY DEF CallInv
  <2>1. \A j \in Slot : caller'[j].who # <<"none">> => caller'[j] = caller[j] /\ Called(j)
    BY <1>n
  <2>2. ASSUME NEW i \in Slot, NEW j \in Slot, caller'[i].who # <<"none">>,
               caller'[i].who = caller'[j].who
        PROVE  i = j
    <3>1. caller'[i] = caller[i] /\ caller'[j] = caller[j] /\ Called(i)
      BY <2>1, <2>2
    <3> QED BY <2>2, <2>o, <3>1 DEF OneCall
  <2>3. \A l \in lost' : \/ l \in lost
                         \/ \E j \in Slot : /\ Called(j) /\ caller'[j] = Nobody
                                            /\ l.who = caller[j].who /\ l = LostCall(j)
    BY DEF LostCall
  <2>4. ASSUME NEW l \in lost', NEW m \in lost', l.who = m.who PROVE l = m
    <3>1. CASE l \in lost /\ m \in lost
      BY <2>4, <2>o, <3>1 DEF OneCall
    <3>2. CASE l \in lost /\ m \notin lost
      BY <2>3, <2>4, <2>o, <3>2 DEF OneCall
    <3>3. CASE l \notin lost /\ m \in lost
      BY <2>3, <2>4, <2>o, <3>3 DEF OneCall
    <3>4. CASE l \notin lost /\ m \notin lost
      <4>1. PICK i \in Slot : Called(i) /\ l.who = caller[i].who /\ l = LostCall(i)
        BY <2>3, <3>4
      <4>2. PICK j \in Slot : Called(j) /\ m.who = caller[j].who /\ m = LostCall(j)
        BY <2>3, <3>4
      <4>3. i = j
        BY <2>4, <2>o, <4>1, <4>2 DEF OneCall
      <4> QED BY <4>1, <4>2, <4>3
    <3> QED BY <3>1, <3>2, <3>3, <3>4
  <2>5. ASSUME NEW j \in Slot, NEW l \in lost' PROVE caller'[j].who # l.who
    <3>1. CASE caller'[j].who = <<"none">>
      BY <1>2, <3>1 DEF LostInv
    <3>2. CASE caller'[j].who # <<"none">> /\ l \in lost
      BY <2>1, <2>o, <3>2 DEF OneCall
    <3>3. CASE caller'[j].who # <<"none">> /\ l \notin lost
      <4>1. PICK i \in Slot : Called(i) /\ caller'[i] = Nobody /\ l.who = caller[i].who
        BY <2>3, <3>3
      <4>2. caller'[j] = caller[j] /\ Called(j)
        BY <2>1, <3>3
      <4>3. i # j
        BY <1>n, <3>3, <4>1
      <4> QED BY <2>o, <4>1, <4>2, <4>3 DEF OneCall
    <3> QED BY <3>1, <3>2, <3>3
  <2> QED BY <2>2, <2>4, <2>5 DEF OneCall
<1> QED BY <1>1, <1>2, <1>3 DEF CallInv

\* A step that sends a request for a coroutine that awaits no other.
LEMMA NewCall ==
  ASSUME CallInv, SenderKeeps({}), JobsKeep({}),
         NEW j \in Slot, At(j, "free"), NEW who \in Who, who # <<"none">>,
         NEW n \in 0..RetryMax, NEW s \in Server, NEW r \in Request,
         job'[j] = NewJob(s, r),
         caller' = [caller EXCEPT ![j] = [who |-> who, try |-> n]],
         \A i \in Slot : Called(i) => caller[i].who # who,
         lost' \subseteq lost, \A l \in lost' : l.who # who,
         \A i \in Slot : Called(i) => Proceeds(i),
         Awaits(who, s, r)'
  PROVE  CallInv'
<1> USE DEF Called
<1>1. /\ caller' \in [Slot -> [who : Who, try : 0..RetryMax]]
      /\ caller'[j].who = who /\ \A i \in Slot \ {j} : caller'[i] = caller[i]
  BY DEF CallInv, CallerInv
<1>2. ~Called(j)
  BY DEF CallInv, CallerInv
<1>3. CallerInv'
  <2>1. ASSUME NEW i \in Slot, caller'[i].who # <<"none">>
        PROVE  /\ ~At(i, "free")' /\ ~PastReply(i)'
               /\ Awaits(caller[i].who, job[i].srv, job[i].req)'
    <3>1. CASE i = j
      <4>1. /\ job'[j].pc \in {"open", "chain", "getfd", "erase", "has"}
            /\ job'[j].pc = "erase" => r.wait
            /\ job'[j].req = r /\ job'[j].srv = s
        BY NewJobGood DEF NewJob
      <4>2. ~At(i, "free")' /\ ~PastReply(i)'
        BY <3>1, <4>1 DEF At, PastReply
      <4> QED BY <1>1, <3>1, <4>1, <4>2
    <3>2. CASE i # j
      <4>1. caller'[i] = caller[i] /\ Called(i)
        BY <1>1, <2>1, <3>2
      <4>2. PICK v \in Who : v = caller[i].who
        BY DEF CallInv, CallerInv
      <4>3. PICK z, q : z = job[i].srv /\ q = job[i].req
        OBVIOUS
      <4>4. Awaits(v, z, q)
        BY <4>1, <4>2, <4>3 DEF CallInv, CallerInv
      <4>5. Awaits(v, z, q)'
        BY <4>4, StillAwaits
      <4>6. v = caller'[i].who /\ z = job'[i].srv /\ q = job'[i].req
        BY <4>1, <4>2, <4>3 DEF Proceeds
      <4> QED BY <4>1, <4>5, <4>6 DEF Proceeds, At
    <3> QED BY <3>1, <3>2
  <2>2. ASSUME NEW i \in Slot, caller'[i].who = <<"none">> PROVE caller'[i] = Nobody
    BY <1>1, <2>2 DEF CallInv, CallerInv
  <2> QED BY <1>1, <2>1, <2>2 DEF CallerInv
<1>4. LostInv'
  <2> SUFFICES ASSUME NEW l \in lost'
               PROVE  /\ l \in [who : Who, srv : Server, req : Request, try : 0..RetryMax]
                      /\ l.who # <<"none">>
                      /\ Awaits(l.who, l.srv, l.req)'
    BY DEF LostInv
  <2>1. /\ l \in [who : Who, srv : Server, req : Request, try : 0..RetryMax]
        /\ l.who # <<"none">> /\ Awaits(l.who, l.srv, l.req)
    BY DEF CallInv, LostInv
  <2> QED BY <2>1, StillAwaits
<1>5. OneCall'
  <2>o. OneCall
    BY DEF CallInv
  <2>1. ASSUME NEW i \in Slot, NEW k \in Slot, caller'[i].who # <<"none">>,
               caller'[i].who = caller'[k].who
        PROVE  i = k
    <3>1. CASE i = j \/ k = j
      BY <1>1, <2>1, <3>1
    <3>2. CASE i # j /\ k # j
      BY <1>1, <2>1, <2>o, <3>2 DEF OneCall
    <3> QED BY <3>1, <3>2
  <2>2. \A l, m \in lost' : l.who = m.who => l = m
    BY <2>o DEF OneCall
  <2>3. \A i \in Slot, l \in lost' : caller'[i].who # l.who
    <3> SUFFICES ASSUME NEW i \in Slot, NEW l \in lost' PROVE caller'[i].who # l.who
      OBVIOUS
    <3>1. CASE i = j
      BY <1>1, <3>1
    <3>2. CASE i # j
      BY <1>1, <2>o, <3>2 DEF OneCall
    <3> QED BY <3>1, <3>2
  <2> QED BY <2>1, <2>2, <2>3 DEF OneCall
<1> QED BY <1>3, <1>4, <1>5 DEF CallInv

-----------------------------------------------------------------------------
(* The coroutines of the clients.                                          *)

\* No step of a client but the return of its call ends its waiting.
LEMMA MainKeeps ==
  ASSUME SenderInv, NEW c \in Client, MainInternal(c) \/ LocalOpenFails(c)
  PROVE  SenderKeeps({})
<1>t. /\ main \in [Client -> MainState] /\ work \in [Client -> [Worker -> WorkState]]
      /\ main[c].ph \in Phase
  BY SMT DEF SenderInv, SenderTypeOK, MainState
<1>1. ASSUME NEW d \in Client, d # c
      PROVE  main'[d] = main[d] /\ work'[d] = work[d] /\ tokens'[d] = tokens[d]
  BY <1>1, OthersSame DEF SenderInv, Same, MainStep
<1>2. main[c].at # "await"
  <2>1. CASE JoinSend(c) \/ NextFile(c)
    BY <2>1 DEF JoinSend, NextFile, SenderInv, ClientInv, PlaceInv
  <2>2. CASE ~(JoinSend(c) \/ NextFile(c))
    BY <2>2 DEF MainInternal, StartSend, CloseSkips, Finish, LocalOpenFails
  <2> QED BY <2>1, <2>2
<1>3. ASSUME NEW w \in Worker PROVE work[c][w].pc # "call"
  <2> SUFFICES ASSUME work[c][w].pc = "call" PROVE FALSE
    OBVIOUS
  <2>1. main[c].ph = "send"
    BY ActiveWorker DEF SenderInv
  <2> QED BY <2>1 DEF MainInternal, StartSend, JoinSend, CloseSkips, Finish, NextFile,
                      LocalOpenFails
<1> QED BY <1>1, <1>2, <1>3 DEF SenderKeeps

\* Nor does a step of a worker, which acts only while it awaits nothing.
LEMMA WorkerKeeps ==
  ASSUME SenderInv, NEW c \in Client, NEW w \in Worker, WorkerInternal(c, w)
  PROVE  SenderKeeps({})
<1>t. work \in [Client -> [Worker -> WorkState]]
  BY DEF SenderInv, SenderTypeOK
<1>1. main' = main /\ tokens' = tokens /\ work[c][w].pc # "call"
  BY DEF WorkerInternal, WorkerAlloc, WorkerCheck, WorkerClaim, WorkerRead, WorkerFail
<1>2. PICK x : work' = [work EXCEPT ![c][w] = x]
  BY Zenon DEF WorkerInternal, WorkerAlloc, WorkerCheck, WorkerClaim, WorkerRead, WorkerFail,
               Goto, Become
<1>3. \A d \in Client, v \in Worker : work[d][v].pc = "call" => work'[d][v] = work[d][v]
  BY <1>t, <1>1, <1>2
<1> QED BY <1>1, <1>3 DEF SenderKeeps

\* A call that returns ends the waiting of its own coroutine only.
LEMMA ReturnKeeps ==
  ASSUME SenderInv, NEW who \in Who, NEW e, NEW t, Resume(who, e, t)
  PROVE  SenderKeeps({who})
<1>t. /\ main \in [Client -> MainState] /\ work \in [Client -> [Worker -> WorkState]]
      /\ tokens \in [Client -> [Target -> Token \cup {NoToken}]]
  BY DEF SenderInv, SenderTypeOK
<1>1. CASE UNCHANGED senderVars
  BY <1>1 DEF SenderKeeps, senderVars
<1>2. CASE /\ who[1] = "main"
           /\ \/ OpenReturns(who[2], e, t) \/ ChainReturns(who[2], e)
              \/ CloseReturns(who[2], e)
  <2>1. who = <<"main", who[2]>> /\ who[2] \in Client
    BY <1>2, WhoForms
  <2>2. PICK c \in Client : c = who[2]
    BY <2>1
  <2>3. PICK x : main' = [main EXCEPT ![c] = x]
    BY <1>2, <2>2 DEF OpenReturns, ChainReturns, CloseReturns, GiveUp
  <2>4. work' = work /\ main[c].ph # "send"
    BY <1>2, <2>2 DEF OpenReturns, ChainReturns, CloseReturns, Waits
  <2>5. \A d \in Client : d # c => tokens'[d] = tokens[d]
    BY <1>t, <1>2, <2>2 DEF OpenReturns, ChainReturns, CloseReturns
  <2>6. \A d \in Client : d # c => main'[d] = main[d]
    BY <1>t, <2>3
  <2>7. \A w \in Worker : work[c][w].pc # "call"
    BY <2>4, ActiveWorker DEF SenderInv
  <2> QED BY <2>1, <2>2, <2>4, <2>5, <2>6, <2>7 DEF SenderKeeps
<1>3. CASE who[1] = "work" /\ SendReturns(who[2], who[3], e)
  <2>1. who = <<"work", who[2], who[3]>> /\ who[2] \in Client /\ who[3] \in Worker
    BY <1>3, WhoForms
  <2>2. main' = main /\ tokens' = tokens
    BY <1>3 DEF SendReturns
  <2>3. PICK x : work' = [work EXCEPT ![who[2]][who[3]] = x]
    BY <1>3 DEF SendReturns, Goto, Become
  <2>4. \A d \in Client, v \in Worker :
          ~(d = who[2] /\ v = who[3]) => work'[d][v] = work[d][v]
    BY <1>t, <2>3
  <2>5. \A d \in Client, v \in Worker :
          <<"work", d, v>> # who => ~(d = who[2] /\ v = who[3])
    BY <2>1
  <2> QED BY <2>2, <2>4, <2>5 DEF SenderKeeps
<1> QED BY <1>1, <1>2, <1>3 DEF Resume

\* A resumed coroutine takes a step of FileSender, if the first create to succeed
\* brings a token.
LEMMA ReturnsAsSender ==
  ASSUME NEW who \in Who, NEW e \in Err, NEW t, Resume(who, e, t),
         (e = "ok" /\ who[1] = "main" /\ main[who[2]].ph = "open") => t \in Token
  PROVE  [SenderNext]_senderVars
<1>1. CASE who[1] = "main" /\ OpenReturns(who[2], e, t)
  <2>1. who[2] \in Client
    BY <1>1, WhoForms
  <2>2. CASE e = "ok"
    <3>1. main[who[2]].ph = "open"
      BY <1>1 DEF OpenReturns, Waits
    <3> QED BY <1>1, <2>1, <2>2, <3>1 DEF SenderNext, MainStep, MainReturns
  <2>3. CASE e # "ok"
    <3>1. PICK u : u \in Token
      <4>1. PICK f : f = Files[who[2]]
        OBVIOUS
      <4>2. f \in Seq([name : Name, size : Nat]) /\ Len(f) \in Nat \ {0}
        BY <2>1, <4>1, FcopyAssumption, SenderAssumption
      <4>3. f[1] \in [name : Name, size : Nat]
        <5>1. 1 \in 1..Len(f)
          BY <4>2
        <5> QED BY <4>2, <5>1, ElementOfSeq
      <4>4. f[1].name \in Name
        BY <4>3
      <4> QED BY <4>4, ServerAssumption
    <3>2. OpenReturns(who[2], e, u)
      BY <1>1, <2>3 DEF OpenReturns
    <3> QED BY <2>1, <3>1, <3>2 DEF SenderNext, MainStep, MainReturns
  <2> QED BY <2>2, <2>3
<1>2. CASE who[1] = "main" /\ (ChainReturns(who[2], e) \/ CloseReturns(who[2], e))
  BY <1>2, WhoForms DEF SenderNext, MainStep, MainReturns
<1>3. CASE who[1] = "work" /\ SendReturns(who[2], who[3], e)
  BY <1>3, WhoForms DEF SenderNext, WorkerStep
<1>4. CASE UNCHANGED senderVars
  BY <1>4
<1> QED BY <1>1, <1>2, <1>3, <1>4 DEF Resume

-----------------------------------------------------------------------------
(* The handlers.                                                           *)

\* Job j becomes r: a handler whose forwarded requests are not all back stays,
\* and one whose reply is to come keeps its request.
GoesOn(j, r) ==
  /\ job' = [job EXCEPT ![j] = r]
  /\ (At(j, "work") /\ \E k \in DOMAIN job[j].fwd : job[j].fwd[k] = "call") =>
       r.pc = "work" /\ r.fwd = job[j].fwd /\ r.to = job[j].to /\ r.req = job[j].req
  /\ ~PastReply(j) => /\ r.req = job[j].req /\ r.srv = job[j].srv /\ r.pc # "free"
                      /\ ~(r.pc \in {"erase", "trunc", "close"} /\ ~r.req.wait)

\* A handler that gets ready to reply keeps its request.
LEMMA Responds ==
  ASSUME NEW j \in Slot, job[j] \in Job, NEW e, Respond(j, e),
         At(j, "work") => \A k \in DOMAIN job[j].fwd : job[j].fwd[k] \notin Pending
  PROVE  \E r : GoesOn(j, r)
<1> DEFINE r == [job[j] EXCEPT !.pc = "reply", !.err = e]
<1>1. r.pc = "reply" /\ r.req = job[j].req /\ r.srv = job[j].srv
  BY Zenon DEF Job
<1>2. job' = [job EXCEPT ![j] = r]
  BY DEF Respond
<1> HIDE DEF r
<1> QED BY <1>1, <1>2 DEF GoesOn, Pending

\* A close ends with a reply if it is to be waited for; else the reply came before.
LEMMA EndsClose ==
  ASSUME NEW j \in Slot, job[j] \in Job, job[j].pc \in {"erase", "close"}, NEW e,
         EndClose(j, e)
  PROVE  \E r : GoesOn(j, r)
<1>1. CASE job[j].req.wait
  <2>1. Respond(j, e)
    BY <1>1, Zenon DEF EndClose
  <2> QED BY <2>1, Responds DEF At
<1>2. CASE ~job[j].req.wait
  <2>1. PastReply(j) /\ ~At(j, "work")
    BY <1>2 DEF PastReply, At
  <2>2. job' = [job EXCEPT ![j] = NoJob]
    BY <1>2, Zenon DEF EndClose
  <2> QED BY <2>1, <2>2 DEF GoesOn
<1> QED BY <1>1, <1>2

\* Every step of a handler, failing system calls included, is of this kind.
LEMMA HandlerGoesOn ==
  ASSUME ServerInv, NEW j \in Slot, JobStep(j) \/ JobFails(j) \/ SendWriteShort(j)
  PROVE  \E r : GoesOn(j, r)
<1> DEFINE v == job[j]
<1>0. v.pc # "free"
  BY DEF JobStep, JobFails, SendWriteShort, CreateOpen, CreateInsert, SetChain, SendLookup,
         SendWrite, SendJoin, CloseHas, CloseErase, CloseTruncate, CloseFd, CreateRejected,
         SendWriteFails, At
<1>v. v \in Job
  BY <1>0, AtJob DEF ServerInv, At
<1>1. ASSUME NEW e, Respond(j, e), ~At(j, "work") PROVE \E r : GoesOn(j, r)
  BY <1>v, <1>1, Responds
<1>2. CASE CreateRejected(j) \/ CreateInsert(j) \/ SetChain(j) \/ CloseHas(j)
  <2>1. ~At(j, "work")
    BY <1>2 DEF CreateRejected, CreateInsert, SetChain, CloseHas, At
  <2>2. \E e : Respond(j, e)
    BY <1>2, Zenon DEF CreateRejected, CreateInsert, SetChain, CloseHas
  <2> QED BY <1>1, <2>1, <2>2
<1>3. CASE CreateOpen(j)
  <2>1. PICK f \in Fd : job' = [job EXCEPT ![j].pc = "insert", ![j].fd = f]
    BY <1>3 DEF CreateOpen
  <2> DEFINE r == [v EXCEPT !.pc = "insert", !.fd = f]
  <2>2. job' = [job EXCEPT ![j] = r]
    BY <2>1
  <2>3. r.pc = "insert" /\ r.req = v.req /\ r.srv = v.srv
    BY <1>v, Zenon DEF Job
  <2> HIDE DEF r
  <2>4. ~At(j, "work")
    BY <1>3 DEF CreateOpen, At
  <2> QED BY <2>2, <2>3, <2>4 DEF GoesOn
<1>4. CASE SendLookup(j)
  <2> DEFINE e == fmap[v.srv][v.req.tok]
             r == [v EXCEPT !.pc = "work", !.fd = e.fd, !.to = e.to,
                            !.fwd = [k \in 1..Len(e.to) |-> "todo"]]
  <2>1. ~At(j, "work")
    BY <1>4 DEF SendLookup, At
  <2>2. (\E x : Respond(j, x)) \/ job' = [job EXCEPT ![j] = r]
    BY <1>4 DEF SendLookup
  <2>3. r.pc = "work" /\ r.req = v.req /\ r.srv = v.srv
    BY <1>v, Zenon DEF Job
  <2> HIDE DEF r
  <2> QED BY <1>1, <2>1, <2>2, <2>3 DEF GoesOn
<1>5. CASE SendWrite(j) \/ SendWriteFails(j) \/ SendWriteShort(j)
  <2>1. PICK w : job' = [job EXCEPT ![j].wr = w]
    BY <1>5 DEF SendWrite, SendWriteFails, SendWriteShort
  <2> DEFINE r == [v EXCEPT !.wr = w]
  <2>2. job' = [job EXCEPT ![j] = r]
    BY <2>1
  <2>3. /\ r.pc = v.pc /\ r.req = v.req /\ r.srv = v.srv
        /\ r.fwd = v.fwd /\ r.to = v.to
    BY <1>v, Zenon DEF Job
  <2> HIDE DEF r
  <2>4. v.pc = "work"
    BY <1>5 DEF SendWrite, SendWriteFails, SendWriteShort, At
  <2> QED BY <2>2, <2>3, <2>4 DEF GoesOn
<1>6. CASE SendJoin(j)
  BY <1>v, <1>6, Responds DEF SendJoin
<1>7. CASE CloseErase(j)
  <2> DEFINE e == fmap[v.srv][v.req.tok]
             r == [v EXCEPT !.pc = "trunc", !.fd = e.fd, !.size = e.size]
  <2>1. v.pc = "erase"
    BY <1>7 DEF CloseErase, At
  <2>2. EndClose(j, "ENOENT") \/ job' = [job EXCEPT ![j] = r]
    BY <1>7, Zenon DEF CloseErase
  <2>3. r.pc = "trunc" /\ r.req = v.req /\ r.srv = v.srv
    BY <1>v, Zenon DEF Job
  <2> HIDE DEF r
  <2>4. CASE EndClose(j, "ENOENT")
    BY <1>v, <2>1, <2>4, EndsClose
  <2>5. CASE job' = [job EXCEPT ![j] = r]
    <3>1. ~PastReply(j) => r.req.wait
      BY <2>1, <2>3, Zenon DEF PastReply
    <3> QED BY <2>1, <2>3, <2>5, <3>1 DEF GoesOn, At
  <2> QED BY <2>2, <2>4, <2>5
<1>8. CASE CloseTruncate(j)
  <2> DEFINE r == [v EXCEPT !.pc = "close"]
  <2>1. v.pc = "trunc" /\ job' = [job EXCEPT ![j] = r]
    BY <1>8 DEF CloseTruncate, At
  <2>2. r.pc = "close" /\ r.req = v.req /\ r.srv = v.srv
    BY <1>v, Zenon DEF Job
  <2> HIDE DEF r
  <2>3. ~PastReply(j) => r.req.wait
    BY <2>1, <2>2, Zenon DEF PastReply
  <2> QED BY <2>1, <2>2, <2>3 DEF GoesOn, At
<1>9. CASE CloseFd(j)
  BY <1>v, <1>9, EndsClose DEF CloseFd, At
<1> QED BY <1>2, <1>3, <1>4, <1>5, <1>6, <1>7, <1>8, <1>9 DEF JobStep, JobFails

\* So no call is disturbed by a handler.
LEMMA HandlersKeep ==
  ASSUME ServerInv, CallInv, NEW j \in Slot, NEW r, GoesOn(j, r)
  PROVE  JobsKeep({}) /\ \A i \in Slot : Called(i) => Proceeds(i)
<1>1. job'[j] = r /\ \A i \in Slot \ {j} : job'[i] = job[i]
  BY DEF GoesOn, ServerInv, TypeInv
<1>2. ASSUME NEW i \in Slot, NEW k \in Nat, At(i, "work"), k \in DOMAIN job[i].fwd,
             job[i].fwd[k] = "call"
      PROVE  /\ job'[i].pc = "work" /\ k \in DOMAIN job'[i].fwd /\ job'[i].fwd[k] = "call"
             /\ job'[i].to = job[i].to /\ job'[i].req = job[i].req
  <2>1. CASE i = j
    BY <1>1, <1>2, <2>1 DEF GoesOn
  <2>2. CASE i # j
    BY <1>1, <1>2, <2>2 DEF At
  <2> QED BY <2>1, <2>2
<1>3. ASSUME NEW i \in Slot, Called(i) PROVE Proceeds(i)
  <2>1. job[i].pc # "free" /\ ~PastReply(i)
    BY <1>3 DEF CallInv, CallerInv, At
  <2>2. CASE i = j
    BY <1>1, <2>1, <2>2 DEF GoesOn, Proceeds, PastReply
  <2>3. CASE i # j
    BY <1>1, <2>1, <2>3 DEF Proceeds, PastReply
  <2> QED BY <2>2, <2>3
<1> QED BY <1>2, <1>3 DEF JobsKeep

-----------------------------------------------------------------------------
(* The requests.                                                           *)

\* There is a least free slot, if there is any.
LEMMA FreeSlot ==
  ASSUME FreeSlots # {}
  PROVE  NextSlot \in Slot /\ At(NextSlot, "free")
<1>1. FreeSlots \subseteq Nat
  BY FcopyAssumption DEF FreeSlots
<1>2. PICK j \in FreeSlots : \A i \in FreeSlots : <<i, j>> \notin OpToRel(<, Nat)
  BY <1>1, NatLessThanWellFounded, WFMin, Zenon
<1>d. \A i \in FreeSlots : ~(i < j)
  BY <1>1, <1>2, Zenon DEF OpToRel
<1>3. \A i \in FreeSlots : j <= i
  BY <1>1, <1>d
<1>4. NextSlot \in FreeSlots
  BY <1>2, <1>3 DEF NextSlot
<1> QED BY <1>4 DEF FreeSlots

\* The file a client works on.
LEMMA FileTypes ==
  ASSUME SenderTypeOK, NEW c \in Client
  PROVE  /\ main[c].file \in DOMAIN Files[c] /\ File(c).name \in Name
         /\ Size(c) \in Nat /\ <<c, main[c].file>> \in Source
         /\ \A o \in Offsets(c) : o \in Offset
<1>1. PICK f : f = Files[c]
  OBVIOUS
<1>2. PICK k : k = main[c].file
  OBVIOUS
<1>3. f \in Seq([name : Name, size : Nat]) /\ k \in 1..Len(f)
  BY <1>1, <1>2, FcopyAssumption DEF SenderTypeOK
<1>4. f[k] \in [name : Name, size : Nat] /\ k \in DOMAIN f
  BY <1>3, ElementOfSeq, LenProperties
<1>5. f[k].name \in Name /\ f[k].size \in Nat
  BY <1>4
<1>6. <<c, k>> \in Source /\ \A o \in 0..f[k].size-1 : o % ChunkSize = 0 => o \in Offset
  BY <1>1, <1>4, FcopyAssumption
<1> QED BY <1>1, <1>2, <1>4, <1>5, <1>6 DEF File, Size, Offsets

\* The targets that a target forwards to.
LEMMA ChainTargetsType ==
  ASSUME SenderInv, NEW c \in Client, TokenInv(c), main[c].ph = "chain", NEW i \in Nat
  PROVE  ChainTargets(c, i) \in Seq([srv : Server, tok : Token])
<1> DEFINE sons == Children(Method, i, N)
<1>1. sons \in Seq(Target)
  <2>1. N \in Nat
    BY SenderAssumption
  <2>2. CASE Method = "tree" /\ 2*i + 2 < N
    <3>1. 2*i + 1 \in Target /\ 2*i + 2 \in Target
      BY <2>1, <2>2 DEF Target
    <3>2. sons = <<2*i + 1, 2*i + 2>>
      BY <2>2 DEF Children
    <3> QED BY <3>1, <3>2
  <2>3. CASE ~(Method = "tree" /\ 2*i + 2 < N)
    <3>1. FirstChild(Method, i) \in Nat
      BY DEF FirstChild
    <3>2. FirstChild(Method, i) < N => FirstChild(Method, i) \in Target
      BY <2>1, <3>1 DEF Target
    <3>3. sons = IF FirstChild(Method, i) < N THEN <<FirstChild(Method, i)>> ELSE <<>>
      BY <2>3, Zenon DEF Children
    <3> HIDE DEF sons
    <3> QED BY <3>2, <3>3
  <2> QED BY <2>2, <2>3
<1>2. \A k \in Target : ChainTarget(c, k) \in [srv : Server, tok : Token]
  <2> SUFFICES ASSUME NEW k \in Target PROVE ChainTarget(c, k) \in [srv : Server, tok : Token]
    OBVIOUS
  <2>1. tokens[c][k] \in Token
    BY DEF TokenInv, SenderInv, SenderTypeOK
  <2>2. Dest[c][k] \in Server
    BY FcopyAssumption
  <2> QED BY <2>1, <2>2 DEF ChainTarget
<1> HIDE DEF sons
<1>3. /\ Len(sons) \in Nat /\ DOMAIN sons = 1..Len(sons)
      /\ \A k \in 1..Len(sons) : sons[k] \in Target
  BY <1>1, LenProperties, ElementOfSeq
<1>4. [k \in 1..Len(sons) |-> ChainTarget(c, sons[k])] \in Seq([srv : Server, tok : Token])
  BY <1>2, <1>3
<1> QED BY <1>3, <1>4 DEF ChainTargets, sons

\* What the main coroutine asks for.
LEMMA MainReqType ==
  ASSUME SenderInv, NEW c \in Client, TokenInv(c), Calls(c), main[c].at = "go"
  PROVE  /\ MainReq(c) \in Request /\ main[c].i \in Target
         /\ main[c].ph = "open" => MainReq(c).op = "create"
<1>1. main[c].i \in Nat /\ N \in Nat \ {0}
  BY SenderAssumption DEF SenderInv, SenderTypeOK, MainState
<1>2. ASSUME main[c].i \in Target, tokens[c][main[c].i] # NoToken
      PROVE  tokens[c][main[c].i] \in Token
  BY <1>2 DEF SenderInv, SenderTypeOK
<1>3. CASE main[c].ph = "open"
  <2>1. main[c].i \in Target
    BY <1>1, <1>3 DEF SenderInv, ClientInv, PlaceInv, Target
  <2>2. CreateReq(File(c).name, Size(c)) \in [op : {"create"}, name : Name, size : Nat]
    BY FileTypes DEF CreateReq, SenderInv
  <2>3. MainReq(c) = CreateReq(File(c).name, Size(c)) /\ MainReq(c).op = "create"
    BY <1>3 DEF MainReq, CreateReq
  <2> QED BY <1>3, <2>1, <2>2, <2>3 DEF Request
<1>4. CASE main[c].ph = "chain"
  <2>1. main[c].i \in Target
    BY <1>1, <1>4, ForwardingTarget, SenderAssumption DEF Calls, Target
  <2>2. tokens[c][main[c].i] \in Token
    BY <1>2, <1>4, <2>1 DEF TokenInv
  <2>3. MainReq(c) = SetChainReq(tokens[c][main[c].i], ChainTargets(c, main[c].i))
    BY <1>4 DEF MainReq
  <2>4. SetChainReq(tokens[c][main[c].i], ChainTargets(c, main[c].i)) \in
          [op : {"chain"}, tok : Token, targets : Seq([srv : Server, tok : Token])]
    BY <1>1, <1>4, <2>2, ChainTargetsType DEF SetChainReq
  <2> QED BY <1>4, <2>1, <2>3, <2>4 DEF Request
<1>5. CASE main[c].ph = "close"
  <2>1. main[c].i \in Target /\ tokens[c][main[c].i] # NoToken
    BY <1>1, <1>5 DEF Calls, Target
  <2>2. MainReq(c) = CloseReq(tokens[c][main[c].i], WaitClose)
    BY <1>5 DEF MainReq
  <2>3. CloseReq(tokens[c][main[c].i], WaitClose) \in
          [op : {"close"}, tok : Token, wait : BOOLEAN]
    BY <1>2, <2>1, FcopyAssumption DEF CloseReq
  <2> QED BY <1>5, <2>1, <2>2, <2>3 DEF Request
<1> QED BY <1>3, <1>4, <1>5 DEF Calls

\* What a worker sends.
LEMMA ChunkReqType ==
  ASSUME SenderInv, NEW c \in Client, TokenInv(c), NEW w \in Worker, work[c][w].pc = "read"
  PROVE  /\ ChunkReq(c, w) \in Request /\ ChunkReq(c, w).len \in Nat /\ 0 \in Target
         /\ \A n \in 0..ChunkReq(c, w).len-1 : ShortReq(c, w, n) \in Request
<1> DEFINE o == work[c][w].off
           S == [op : {"send"}, tok : Token, off : Offset, len : Nat,
                 src : Source \cup {Hole}, budget : Nat]
<1>1. 0 \in Target
  BY SenderAssumption DEF Target
<1>2. tokens[c][0] \in Token
  <2>1. main[c].ph = "send"
    BY ActiveWorker DEF SenderInv
  <2> QED BY <1>1, <2>1 DEF TokenInv, SenderInv, SenderTypeOK
<1>3. o \in Offsets(c)
  BY DEF SenderInv, ClientInv, ClaimInv, Busy
<1>4. /\ o \in Offset /\ Size(c) \in Nat /\ o \in 0..Size(c)-1
      /\ <<c, main[c].file>> \in Source
  <2>1. o \in 0..Size(c)-1
    BY <1>3 DEF Offsets
  <2> QED BY <1>3, <2>1, FileTypes DEF SenderInv
<1>5. ChunkLen(c, o) \in Nat
  BY <1>4, SenderAssumption DEF ChunkLen
<1>6. ChainLen(N) \in Nat
  BY SenderAssumption DEF ChainLen
<1>7. ChunkReq(c, w) \in S
  BY <1>2, <1>4, <1>5, <1>6 DEF ChunkReq, SendReq
<1>8. \A n \in Nat : ShortReq(c, w, n) \in S
  BY <1>7, Zenon DEF ShortReq
<1>9. ChunkReq(c, w).len \in Nat
  BY <1>7
<1> HIDE DEF S
<1>10. S \subseteq Request
  BY DEF S, Request
<1>11. \A n \in 0..ChunkReq(c, w).len-1 : n \in Nat
  BY <1>9
<1> QED BY <1>1, <1>7, <1>8, <1>9, <1>10, <1>11

\* What a handler forwards: it has found targets, so its request may go on.
LEMMA ForwardReqType ==
  ASSUME ServerInv, NEW j \in Slot, NEW k, Forwarding(j, k)
  PROVE  /\ ForwardReq(j, k) \in Request /\ job[j].to[k].srv \in Server /\ k \in Nat
<1> DEFINE v == job[j]
<1>1. v \in Job /\ Shaped(v) /\ v.req \in Request /\ v.pc = "work" /\ k \in DOMAIN v.fwd
  BY AtJob DEF ServerInv, Forwarding, At
<1>2. k \in DOMAIN v.to /\ v.req.op = "send" /\ v.to \in Seq([srv : Server, tok : Token])
  BY <1>1 DEF Shaped, Job
<1>3. k \in 1..Len(v.to) /\ v.to # <<>> /\ k \in Nat
  BY <1>2, LenProperties
<1>4. v.to[k] \in [srv : Server, tok : Token]
  BY <1>2, <1>3, ElementOfSeq
<1>5. v.to[k].srv \in Server /\ v.to[k].tok \in Token
  BY <1>4
<1>6. v.req.budget \in Nat /\ v.req.budget > 1
  BY <1>1, <1>2, <1>3, RequestFields DEF Shaped
<1>7. v.req.budget - 1 \in Nat
  BY <1>6
<1>8. v.req \in [op : {"send"}, tok : Token, off : Offset, len : Nat,
                 src : Source \cup {Hole}, budget : Nat]
  BY <1>1, <1>2, Zenon DEF Request
<1>9. ForwardReq(j, k) \in [op : {"send"}, tok : Token, off : Offset, len : Nat,
                            src : Source \cup {Hole}, budget : Nat]
  BY <1>5, <1>7, <1>8, Zenon DEF ForwardReq
<1> QED BY <1>3, <1>5, <1>9 DEF Request

\* The servers and the connections stand still while a client goes on.
LEMMA IdleServers ==
  ASSUME ServerInv, CallInv, UNCHANGED <<fmap, fds, disk, job, caller, lost>>,
         SenderKeeps({})
  PROVE  ServerInv' /\ CallInv'
<1>1. ServerInv'
  BY ServerInvStutter DEF serverVars
<1>2. JobsKeep({})
  BY DEF JobsKeep, At
<1>3. \A j \in Slot : Called(j) => Proceeds(j)
  BY DEF CallInv, CallerInv, Proceeds, PastReply, At
<1>4. caller \in [Slot -> [who : Who, try : 0..RetryMax]]
  BY DEF CallInv, CallerInv
<1>5. CallInv'
  BY <1>2, <1>3, <1>4, FewerCalls
<1> QED BY <1>1, <1>5

-----------------------------------------------------------------------------
(* The steps that begin a call.                                            *)

\* A request is sent for a coroutine that awaits no other.
LEMMA SendKeeps ==
  ASSUME ServerInv, CallInv, NEW who \in Who, who # <<"none">>, NEW n \in 0..RetryMax,
         NEW s \in Server, NEW r \in Request, Send(who, s, r, n),
         UNCHANGED <<fmap, fds, disk>>, SenderKeeps({}),
         \A i \in Slot : Called(i) => caller[i].who # who,
         lost' \subseteq lost, \A l \in lost' : l.who # who,
         Awaits(who, s, r) \/ Awaits(who, s, r)'
  PROVE  ServerInv' /\ CallInv'
<1> DEFINE j == NextSlot
<1>1. j \in Slot /\ At(j, "free") /\ job' = [job EXCEPT ![j] = NewJob(s, r)]
  BY FreeSlot DEF Send, Submit
<1>2. caller' = [caller EXCEPT ![j] = [who |-> who, try |-> n]]
  BY DEF Send
<1>0. PICK k \in Slot : k = j
  BY <1>1
<1> HIDE DEF j
<1>3. /\ NewJob(s, r) \in GoodJob
      /\ NewJob(s, r).pc \in {"open", "chain", "getfd", "erase", "has"}
  BY NewJobGood
<1>4. /\ job' \in [Slot -> GoodJob \cup {NoJob}] /\ job'[k] = NewJob(s, r)
      /\ \A i \in Slot \ {k} : job'[i] = job[i]
  BY <1>0, <1>1, <1>3, JobUpdate DEF ServerInv
<1>5. ServerInv'
  <2>1. \A i \in Slot : \/ job'[i] = job[i]
                        \/ /\ job[i].pc \notin {"insert", "trunc", "close"}
                           /\ job'[i].pc \notin {"insert", "trunc", "close"}
    BY <1>0, <1>1, <1>3, <1>4 DEF At
  <2> QED BY <1>4, <2>1, HandsOff
<1>6. JobsKeep({})
  BY <1>0, <1>1, <1>4 DEF JobsKeep, At
<1>7. \A i \in Slot : Called(i) => Proceeds(i)
  <2> SUFFICES ASSUME NEW i \in Slot, Called(i) PROVE Proceeds(i)
    OBVIOUS
  <2>1. job[i].pc # "free" /\ ~PastReply(i)
    BY DEF CallInv, CallerInv, At
  <2>2. job'[i] = job[i]
    BY <1>0, <1>1, <1>4, <2>1 DEF At
  <2> QED BY <2>1, <2>2 DEF Proceeds, PastReply
<1>8. Awaits(who, s, r)'
  BY <1>6, StillAwaits
<1>9. CallInv'
  <2>1. At(k, "free") /\ caller' = [caller EXCEPT ![k] = [who |-> who, try |-> n]]
    BY <1>0, <1>1, <1>2
  <2> QED BY <1>4, <1>6, <1>7, <1>8, <2>1, NewCall
<1> QED BY <1>5, <1>9

\* No call is under way for a coroutine that awaits none.
LEMMA Unheard ==
  ASSUME CallInv, NEW who, \A z, q : ~Awaits(who, z, q)
  PROVE  /\ \A i \in Slot : Called(i) => caller[i].who # who
         /\ \A l \in lost : l.who # who
BY DEF CallInv, CallerInv, LostInv

\* The main coroutine creates, sets the chain, or closes.
LEMMA MainCallsStep ==
  ASSUME FcopyInv, NEW c \in Client, MainCalls(c)
  PROVE  ServerInv' /\ CallInv'
<1>t. main \in [Client -> MainState]
  BY DEF FcopyInv, SenderInv, SenderTypeOK
<1>1. /\ main[c].at = "go" /\ Calls(c)
      /\ main' = [main EXCEPT ![c].at = "await"] /\ work' = work
      /\ Send(<<"main", c>>, Dest[c][main[c].i], MainReq(c), 0)
      /\ UNCHANGED <<fmap, fds, disk, lost, faults>>
  BY DEF MainCalls, Call
<1>2. PICK r : r = MainReq(c)
  OBVIOUS
<1>3. PICK s : s = Dest[c][main[c].i]
  OBVIOUS
<1>4. PICK who \in Who : who = <<"main", c>>
  BY WhoSets
<1>5. who # <<"none">> /\ who[1] = "main" /\ who[2] = c
  BY <1>4
<1>6. r \in Request /\ s \in Server /\ (main[c].ph = "open" => r.op = "create")
  BY <1>1, <1>2, <1>3, MainReqType, FcopyAssumption DEF FcopyInv
<1>7. SenderKeeps({})
  <2>1. \A w \in Worker : work[c][w].pc # "call"
    BY <1>1, ActiveWorker DEF Calls, FcopyInv, SenderInv
  <2>2. tokens' = tokens
    BY DEF MainCalls, Call
  <2> QED BY <1>t, <1>1, <2>1, <2>2 DEF SenderKeeps
<1>8. \A z, q : ~Awaits(who, z, q)
  BY <1>1, <1>5 DEF Awaits
<1>9. Awaits(who, s, r)'
  <2>1. /\ main'[c].at = "await" /\ main'[c].ph = main[c].ph
        /\ main'[c].i = main[c].i /\ main'[c].file = main[c].file
    BY <1>t, <1>1, Zenon DEF MainState
  <2>2. tokens' = tokens
    BY DEF MainCalls, Call
  <2>3. MainReq(c)' = MainReq(c)
    BY <2>1, <2>2 DEF MainReq, File, Size, ChainTargets, ChainTarget
  <2> QED BY <1>2, <1>3, <1>5, <2>1, <2>3 DEF Awaits
<1>10. Send(who, s, r, 0) /\ 0 \in 0..RetryMax
  BY <1>1, <1>2, <1>3, <1>4, FcopyAssumption
<1>11. CallInv /\ ServerInv
  BY DEF FcopyInv
<1>12. /\ \A i \in Slot : Called(i) => caller[i].who # who
       /\ \A l \in lost : l.who # who
  BY <1>8, <1>11, Unheard
<1> QED BY <1>1, <1>5, <1>6, <1>7, <1>9, <1>10, <1>11, <1>12, SendKeeps

\* A worker sends a chunk, or as much as it could read of it, or finds it cannot read.
LEMMA WorkerCallsStep ==
  ASSUME FcopyInv, NEW c \in Client, NEW w \in Worker, WorkerCalls(c, w)
  PROVE  ServerInv' /\ CallInv'
<1>t. work \in [Client -> [Worker -> WorkState]]
  BY DEF FcopyInv, SenderInv, SenderTypeOK
<1>1. /\ work[c][w].pc = "read" /\ WorkerInternal(c, w)
      /\ UNCHANGED <<fmap, fds, disk, lost>>
  BY DEF WorkerCalls, WorkerRead, WorkerInternal
<1>2. SenderKeeps({})
  BY <1>1, WorkerKeeps DEF FcopyInv
<1>3. CallInv /\ ServerInv
  BY DEF FcopyInv
<1>4. CASE UNCHANGED <<job, caller>>
  BY <1>1, <1>2, <1>3, <1>4, IdleServers
<1>5. CASE work'[c][w].pc = "call" /\ ~UNCHANGED <<job, caller>>
  <2>1. PICK r \in Request : Send(<<"work", c, w>>, Dest[c][0], r, 0) /\ r \in WorkReqs(c, w)
    <3>1. \/ Send(<<"work", c, w>>, Dest[c][0], ChunkReq(c, w), 0)
          \/ \E n \in 0..ChunkReq(c, w).len-1 :
               Send(<<"work", c, w>>, Dest[c][0], ShortReq(c, w, n), 0)
      BY <1>5 DEF WorkerCalls
    <3> QED BY <1>1, <3>1, ChunkReqType DEF FcopyInv, WorkReqs
  <2>2. PICK s : s = Dest[c][0]
    OBVIOUS
  <2>3. PICK who \in Who : who = <<"work", c, w>>
    BY WhoSets
  <2>4. who # <<"none">> /\ who[1] = "work" /\ who[2] = c /\ who[3] = w
    BY <2>3
  <2>5. s \in Server
    BY <1>1, <2>2, ChunkReqType, FcopyAssumption DEF FcopyInv
  <2>6. \A z, q : ~Awaits(who, z, q)
    BY <1>1, <2>4 DEF Awaits
  <2>7. Awaits(who, s, r)'
    <3>1. /\ work'[c][w].pc = "call" /\ work'[c][w].off = work[c][w].off
          /\ UNCHANGED <<main, tokens>>
      <4>1. Goto(c, w, "call") \/ Become(c, w, [work[c][w] EXCEPT !.pc = "fail", !.err = "EIO"])
        BY DEF WorkerCalls, WorkerRead
      <4>2. "call" \in WorkPc /\ "EIO" \in Err /\ SenderTypeOK
        BY DEF WorkPc, Err, FcopyInv, SenderInv
      <4>3. UNCHANGED <<main, tokens>>
        BY DEF WorkerCalls, WorkerRead
      <4>4. work'[c][w].off = work[c][w].off
        <5>1. CASE Goto(c, w, "call")
          BY <4>2, <5>1, GotoUpdate
        <5>2. CASE Become(c, w, [work[c][w] EXCEPT !.pc = "fail", !.err = "EIO"])
          BY <4>2, <5>2, FailUpdate
        <5> QED BY <4>1, <5>1, <5>2
      <4> QED BY <1>5, <4>3, <4>4
    <3>2. ChunkReq(c, w)' = ChunkReq(c, w)
      BY <3>1 DEF ChunkReq, ChunkLen, Size
    <3>3. WorkReqs(c, w)' = WorkReqs(c, w)
      BY <3>2 DEF WorkReqs, ShortReq
    <3> QED BY <2>1, <2>2, <2>4, <3>1, <3>3 DEF Awaits
  <2>8. Send(who, s, r, 0) /\ 0 \in 0..RetryMax
    BY <2>1, <2>2, <2>3, FcopyAssumption
  <2>9. /\ \A i \in Slot : Called(i) => caller[i].who # who
        /\ \A l \in lost : l.who # who
    BY <1>3, <2>6, Unheard
  <2> QED BY <1>1, <1>2, <1>3, <2>4, <2>5, <2>7, <2>8, <2>9, SendKeeps
<1> QED BY <1>4, <1>5 DEF WorkerCalls

\* Two jobs change.
LEMMA TwoJobs ==
  ASSUME TypeInv, NEW i \in Slot, NEW j \in Slot, i # j,
         NEW r \in GoodJob \cup {NoJob}, NEW x \in GoodJob \cup {NoJob},
         job' = [job EXCEPT ![i] = r, ![j] = x]
  PROVE  /\ job' \in [Slot -> GoodJob \cup {NoJob}]
         /\ job'[i] = r /\ job'[j] = x
         /\ \A k \in Slot \ {i, j} : job'[k] = job[k]
<1> DEFINE f == [job EXCEPT ![i] = r]
<1>1. job \in [Slot -> GoodJob \cup {NoJob}]
  BY DEF TypeInv
<1>2. /\ f \in [Slot -> GoodJob \cup {NoJob}]
      /\ \A k \in Slot : f[k] = IF k = i THEN r ELSE job[k]
  BY <1>1, Update
<1>3. job' = [f EXCEPT ![j] = x]
  OBVIOUS
<1> HIDE DEF f
<1>4. /\ [f EXCEPT ![j] = x] \in [Slot -> GoodJob \cup {NoJob}]
      /\ \A k \in Slot : [f EXCEPT ![j] = x][k] = IF k = j THEN x ELSE f[k]
  BY <1>2, Update
<1> QED BY <1>2, <1>3, <1>4

\* A handler forwards: it waits for the new job, and for its others.
LEMMA ForwardStep ==
  ASSUME FcopyInv, NEW j \in Slot, NEW k, Forward(j, k)
  PROVE  ServerInv' /\ CallInv'
<1>0. /\ Forwarding(j, k) /\ FreeSlots # {}
      /\ UNCHANGED <<senderVars, fmap, fds, disk, lost, faults>>
  BY DEF Forward
<1>1. PICK q \in Slot : q = NextSlot /\ At(q, "free")
  BY <1>0, FreeSlot
<1>2. ServerInv /\ CallInv /\ TypeInv
  BY DEF FcopyInv, ServerInv
<1>3. PICK s : s = job[j].to[k].srv
  OBVIOUS
<1>4. PICK r : r = ForwardReq(j, k)
  OBVIOUS
<1>5. r \in Request /\ s \in Server /\ k \in Nat
  BY <1>0, <1>2, <1>3, <1>4, ForwardReqType
<1>6. job[j] \in GoodJob /\ job[j].pc = "work" /\ k \in DOMAIN job[j].fwd
        /\ job[j].fwd[k] = "todo" /\ j # q
  BY <1>0, <1>1, <1>2, AtJob DEF Forwarding, At
<1> DEFINE x == [job[j] EXCEPT !.fwd[k] = "call"]
<1>7. /\ x \in GoodJob /\ x.pc = "work" /\ x.req = job[j].req
      /\ x.to = job[j].to /\ x.srv = job[j].srv
      /\ x.fwd = [job[j].fwd EXCEPT ![k] = "call"]
  BY <1>6, MarkForward DEF Pending
<1>8. job' = [job EXCEPT ![j] = x, ![q] = NewJob(s, r)]
  BY <1>1, <1>3, <1>4 DEF Forward
<1> HIDE DEF x
<1>9. /\ NewJob(s, r) \in GoodJob
      /\ NewJob(s, r).pc \in {"open", "chain", "getfd", "erase", "has"}
  BY <1>5, NewJobGood
<1>10. /\ job' \in [Slot -> GoodJob \cup {NoJob}]
       /\ job'[j] = x /\ job'[q] = NewJob(s, r)
       /\ \A i \in Slot \ {j, q} : job'[i] = job[i]
  BY <1>2, <1>6, <1>7, <1>8, <1>9, TwoJobs
<1>11. ServerInv'
  <2>1. \A i \in Slot : \/ job'[i] = job[i]
                        \/ /\ job[i].pc \notin {"insert", "trunc", "close"}
                           /\ job'[i].pc \notin {"insert", "trunc", "close"}
    BY <1>1, <1>6, <1>7, <1>9, <1>10 DEF At
  <2> QED BY <1>0, <1>2, <1>10, <2>1, HandsOff
<1>12. JobsKeep({})
  <2> SUFFICES ASSUME NEW i \in Slot, NEW n \in Nat, At(i, "work"), n \in DOMAIN job[i].fwd,
                      job[i].fwd[n] = "call"
               PROVE  /\ job'[i].pc = "work" /\ n \in DOMAIN job'[i].fwd
                      /\ job'[i].fwd[n] = "call"
                      /\ job'[i].to = job[i].to /\ job'[i].req = job[i].req
    BY DEF JobsKeep
  <2>1. i # q
    BY <1>1 DEF At
  <2>2. CASE i = j
    BY <1>6, <1>7, <1>10, <2>2
  <2>3. CASE i # j
    BY <1>10, <2>1, <2>3 DEF At
  <2> QED BY <2>2, <2>3
<1>13. \A i \in Slot : Called(i) => Proceeds(i)
  <2> SUFFICES ASSUME NEW i \in Slot, Called(i) PROVE Proceeds(i)
    OBVIOUS
  <2>1. job[i].pc # "free" /\ ~PastReply(i) /\ i # q
    BY <1>1, <1>2 DEF CallInv, CallerInv, At
  <2>2. CASE i = j
    BY <1>7, <1>10, <2>2 DEF Proceeds, PastReply
  <2>3. CASE i # j
    BY <1>10, <2>1, <2>3 DEF Proceeds, PastReply
  <2> QED BY <2>2, <2>3
<1>14. SenderKeeps({})
  BY <1>0 DEF SenderKeeps, senderVars
<1>15. PICK who \in Who : who = <<"fwd", j, k>>
  BY <1>5, WhoSets
<1>16. who # <<"none">> /\ who[1] = "fwd" /\ who[2] = j /\ who[3] = k
  BY <1>15
<1>17. \A z, p : ~Awaits(who, z, p)
  BY <1>6, <1>16 DEF Awaits
<1>18. Awaits(who, s, r)'
  <2>1. job'[j].to = job[j].to /\ job'[j].req = job[j].req
    BY <1>7, <1>10
  <2>2. ForwardReq(j, k)' = r /\ job'[j].to[k].srv = s
    BY <1>3, <1>4, <2>1 DEF ForwardReq
  <2> QED BY <1>6, <1>7, <1>10, <1>16, <2>2 DEF Awaits, At
<1>19. caller' = [caller EXCEPT ![q] = [who |-> who, try |-> 0]] /\ 0 \in 0..RetryMax
  BY <1>1, <1>15, FcopyAssumption DEF Forward
<1>20. /\ \A i \in Slot : Called(i) => caller[i].who # who
       /\ \A l \in lost : l.who # who
  BY <1>2, <1>17, Unheard
<1>21. CallInv'
  BY <1>0, <1>1, <1>2, <1>5, <1>10, <1>12, <1>13, <1>14, <1>16, <1>18, <1>19, <1>20, NewCall
<1> QED BY <1>11, <1>21

\* A call is made again.
LEMMA RedialStep ==
  ASSUME FcopyInv, NEW l \in lost, Redial(l)
  PROVE  ServerInv' /\ CallInv'
<1>1. /\ l.try < RetryMax /\ Send(l.who, l.srv, l.req, l.try + 1)
      /\ lost' = lost \ {l}
      /\ UNCHANGED <<senderVars, fmap, fds, disk, faults>>
  BY DEF Redial
<1>2. ServerInv /\ CallInv
  BY DEF FcopyInv
<1>3. /\ l \in [who : Who, srv : Server, req : Request, try : 0..RetryMax]
      /\ l.who # <<"none">> /\ Awaits(l.who, l.srv, l.req)
  BY <1>2 DEF CallInv, LostInv
<1>4. l.who \in Who /\ l.srv \in Server /\ l.req \in Request /\ l.try + 1 \in 0..RetryMax
  BY <1>1, <1>3, FcopyAssumption
<1>5. /\ \A i \in Slot : Called(i) => caller[i].who # l.who
      /\ \A m \in lost' : m.who # l.who
  BY <1>1, <1>2 DEF CallInv, OneCall
<1>6. SenderKeeps({})
  BY <1>1 DEF SenderKeeps, senderVars
<1> QED BY <1>1, <1>2, <1>3, <1>4, <1>5, <1>6, SendKeeps

-----------------------------------------------------------------------------
(* The steps that end a call.                                              *)

\* The k-th forwarded request of handler i returns; job j, if it is another one,
\* has become x.
LEMMA ForwardEnds ==
  ASSUME ServerInv, NEW who \in Who, who[1] = "fwd", NEW s, NEW r, Awaits(who, s, r),
         NEW e \in Err
  PROVE  LET i == who[2]
             v == [job[i] EXCEPT !.fwd[who[3]] = e]
         IN /\ i \in Slot /\ At(i, "work") /\ v \in GoodJob /\ v.pc = "work"
            /\ v.req = job[i].req /\ v.to = job[i].to /\ v.srv = job[i].srv
            /\ \A n \in Nat : n \in DOMAIN job[i].fwd /\ n # who[3] =>
                 n \in DOMAIN v.fwd /\ v.fwd[n] = job[i].fwd[n]
<1> DEFINE i == who[2]
           k == who[3]
           v == [job[i] EXCEPT !.fwd[k] = e]
<1>1. i \in Slot /\ At(i, "work") /\ k \in DOMAIN job[i].fwd
  BY WhoForms DEF Awaits
<1>2. job[i] \in GoodJob /\ job[i].pc = "work"
  BY <1>1, AtJob DEF ServerInv, At
<1>3. /\ v \in GoodJob /\ v.pc = "work" /\ v.req = job[i].req
      /\ v.to = job[i].to /\ v.srv = job[i].srv
      /\ v.fwd = [job[i].fwd EXCEPT ![k] = e]
  BY <1>1, <1>2, MarkForward
<1> HIDE DEF v
<1>4. \A n \in Nat : n \in DOMAIN job[i].fwd /\ n # k =>
        n \in DOMAIN v.fwd /\ v.fwd[n] = job[i].fwd[n]
  BY <1>3
<1> QED BY <1>1, <1>3, <1>4 DEF v

\* The coroutine of a call goes on, nobody awaits job j any more.
LEMMA ReplyStep ==
  ASSUME FcopyInv, NEW j \in Slot, Reply(j)
  PROVE  ServerInv' /\ CallInv'
<1>1. PICK who \in Who : who = caller[j].who
  BY DEF FcopyInv, CallInv, CallerInv
<1>2. ServerInv /\ CallInv /\ TypeInv /\ SenderInv
  BY DEF FcopyInv, ServerInv
<1>3. /\ At(j, "reply") /\ UNCHANGED <<fmap, fds, disk, lost>>
      /\ caller' = [caller EXCEPT ![j] = Nobody]
  BY DEF Reply
<1>4. job[j] \in Job /\ job[j].err \in Err
  BY <1>2, <1>3, AtJob DEF At
<1> DEFINE x == AfterReply(j)
<1>5. x \in GoodJob \cup {NoJob} /\ x.pc \in {"erase", "free"}
  BY <1>4, AfterReplyGood
<1> HIDE DEF x
<1>6. /\ caller' \in [Slot -> [who : Who, try : 0..RetryMax]]
      /\ caller'[j] = Nobody /\ \A i \in Slot \ {j} : caller'[i] = caller[i]
  <2>1. Nobody \in [who : Who, try : 0..RetryMax]
    BY WhoSets, FcopyAssumption DEF Nobody
  <2>2. caller \in [Slot -> [who : Who, try : 0..RetryMax]]
    BY <1>2 DEF CallInv, CallerInv
  <2> QED BY <1>3, <2>1, <2>2, Update
<1>7. ASSUME job' \in [Slot -> GoodJob \cup {NoJob}], job'[j] = x,
             \A i \in Slot \ {j} : \/ job'[i] = job[i]
                                   \/ /\ job[i].pc = "work" /\ job'[i].pc = "work"
                                      /\ job'[i].req = job[i].req /\ job'[i].srv = job[i].srv,
             SenderKeeps({who}), JobsKeep({who})
      PROVE  ServerInv' /\ CallInv'
  <2>1. \A i \in Slot : \/ job'[i] = job[i]
                        \/ /\ job[i].pc \notin {"insert", "trunc", "close"}
                           /\ job'[i].pc \notin {"insert", "trunc", "close"}
    BY <1>3, <1>5, <1>7 DEF At
  <2>2. ServerInv'
    BY <1>2, <1>3, <1>7, <2>1, HandsOff
  <2>3. \A i \in Slot : Called(i) /\ caller'[i] # Nobody => Proceeds(i)
    <3> SUFFICES ASSUME NEW i \in Slot, Called(i), caller'[i] # Nobody PROVE Proceeds(i)
      OBVIOUS
    <3>1. i # j /\ job[i].pc # "free" /\ ~PastReply(i)
      BY <1>2, <1>6 DEF CallInv, CallerInv, At
    <3>2. CASE job'[i] = job[i]
      BY <3>1, <3>2 DEF Proceeds, PastReply
    <3>3. CASE job'[i].pc = "work" /\ job'[i].req = job[i].req /\ job'[i].srv = job[i].srv
      BY <3>3 DEF Proceeds, PastReply
    <3> QED BY <1>7, <3>1, <3>2, <3>3
  <2>4. \A i \in Slot : caller[i].who \in {who} => caller'[i] = Nobody
    <3> SUFFICES ASSUME NEW i \in Slot, caller[i].who = who PROVE caller'[i] = Nobody
      OBVIOUS
    <3>1. CASE Called(i)
      BY <1>1, <1>2, <1>6, <3>1 DEF CallInv, OneCall
    <3>2. CASE ~Called(i)
      BY <1>2, <1>6, <3>2 DEF CallInv, CallerInv
    <3> QED BY <3>1, <3>2
  <2>5. \A l \in lost : l.who \notin {who}
    BY <1>1, <1>2 DEF CallInv, OneCall
  <2>6. \A i \in Slot : caller'[i] \in {caller[i], Nobody}
    BY <1>6
  <2>7. CallInv'
    BY <1>2, <1>3, <1>6, <1>7, <2>3, <2>4, <2>5, <2>6, FewerCalls
  <2> QED BY <2>2, <2>7
<1>8. CASE who[1] = "fwd"
  <2>1. Called(j)
    BY <1>1, <1>8, WhoForms DEF Called
  <2>2. PICK i : i = who[2]
    OBVIOUS
  <2>3. PICK s, r : s = job[j].srv /\ r = job[j].req
    OBVIOUS
  <2>4. Awaits(who, s, r)
    BY <1>1, <1>2, <2>1, <2>3 DEF CallInv, CallerInv
  <2> DEFINE v == [job[i] EXCEPT !.fwd[who[3]] = job[j].err]
  <2>5. /\ i \in Slot /\ At(i, "work") /\ v \in GoodJob /\ v.pc = "work"
        /\ v.req = job[i].req /\ v.to = job[i].to /\ v.srv = job[i].srv
        /\ \A n \in Nat : n \in DOMAIN job[i].fwd /\ n # who[3] =>
             n \in DOMAIN v.fwd /\ v.fwd[n] = job[i].fwd[n]
    BY <1>2, <1>4, <1>8, <2>2, <2>4, ForwardEnds
  <2>6. job' = [job EXCEPT ![j] = x, ![i].fwd[who[3]] = job[j].err]
    BY <1>1, <1>8, <2>2 DEF Reply, x
  <2>7. i # j
    BY <1>3, <2>5 DEF At
  <2>8. job' = [job EXCEPT ![j] = x, ![i] = v]
    BY <2>6, <2>7
  <2> HIDE DEF v
  <2>9. /\ job' \in [Slot -> GoodJob \cup {NoJob}] /\ job'[j] = x /\ job'[i] = v
        /\ \A n \in Slot \ {j, i} : job'[n] = job[n]
    BY <1>2, <1>5, <2>5, <2>7, <2>8, TwoJobs
  <2>10. UNCHANGED senderVars
    BY <1>1, <1>8 DEF Reply
  <2>11. SenderKeeps({who})
    BY <2>10 DEF SenderKeeps, senderVars
  <2>12. JobsKeep({who})
    <3> SUFFICES ASSUME NEW m \in Slot, NEW n \in Nat, At(m, "work"), n \in DOMAIN job[m].fwd,
                        job[m].fwd[n] = "call", <<"fwd", m, n>> # who
                 PROVE  /\ job'[m].pc = "work" /\ n \in DOMAIN job'[m].fwd
                        /\ job'[m].fwd[n] = "call"
                        /\ job'[m].to = job[m].to /\ job'[m].req = job[m].req
      BY DEF JobsKeep
    <3>1. m # j
      BY <1>3 DEF At
    <3>2. CASE m = i
      <4>1. n # who[3]
        BY <1>8, <2>2, <3>2, WhoForms
      <4> QED BY <2>5, <2>9, <3>2, <4>1
    <3>3. CASE m # i
      BY <2>9, <3>1, <3>3 DEF At
    <3> QED BY <3>2, <3>3
  <2>13. \A n \in Slot \ {j} : \/ job'[n] = job[n]
                               \/ /\ job[n].pc = "work" /\ job'[n].pc = "work"
                                  /\ job'[n].req = job[n].req /\ job'[n].srv = job[n].srv
    BY <2>5, <2>9 DEF At
  <2> QED BY <1>7, <2>9, <2>11, <2>12, <2>13
<1>9. CASE who[1] # "fwd"
  <2>1. /\ job' = [job EXCEPT ![j] = x]
        /\ Resume(who, job[j].err, Answer(j))
    BY <1>1, <1>9 DEF Reply, x
  <2>2. SenderKeeps({who})
    BY <1>2, <2>1, ReturnKeeps
  <2>3. /\ job' \in [Slot -> GoodJob \cup {NoJob}] /\ job'[j] = x
        /\ \A i \in Slot \ {j} : job'[i] = job[i]
    BY <1>2, <1>5, <2>1, JobUpdate
  <2>4. JobsKeep({who})
    BY <1>3, <2>3 DEF JobsKeep, At
  <2> QED BY <1>7, <2>2, <2>3, <2>4
<1> QED BY <1>8, <1>9

\* A connection breaks: nobody awaits the reply, the call is lost.
LEMMA DisconnectStep ==
  ASSUME FcopyInv, NEW j \in Slot, Disconnect(j)
  PROVE  ServerInv' /\ CallInv'
<1>1. /\ ~At(j, "free") /\ caller[j] # Nobody
      /\ lost' = lost \cup {LostCall(j)}
      /\ caller' = [caller EXCEPT ![j] = Nobody]
      /\ (At(j, FirstPc(job[j].req)) /\ job' = [job EXCEPT ![j] = NoJob]) \/ UNCHANGED job
      /\ UNCHANGED <<senderVars, fmap, fds, disk>>
  BY DEF Disconnect
<1>2. ServerInv /\ CallInv /\ TypeInv
  BY DEF FcopyInv, ServerInv
<1>3. Called(j) /\ job[j].srv \in Server /\ job[j].req \in Request
  BY <1>1, <1>2, AtJob DEF CallInv, CallerInv
<1>4. /\ caller' \in [Slot -> [who : Who, try : 0..RetryMax]]
      /\ caller'[j] = Nobody /\ \A i \in Slot \ {j} : caller'[i] = caller[i]
  <2>1. Nobody \in [who : Who, try : 0..RetryMax]
    BY WhoSets, FcopyAssumption DEF Nobody
  <2>2. caller \in [Slot -> [who : Who, try : 0..RetryMax]]
    BY <1>2 DEF CallInv, CallerInv
  <2> QED BY <1>1, <2>1, <2>2, Update
<1>5. /\ job' \in [Slot -> GoodJob \cup {NoJob}]
      /\ \A i \in Slot \ {j} : job'[i] = job[i]
      /\ \/ job'[j] = job[j]
         \/ job[j].pc \in {"open", "chain", "getfd", "erase", "has"} /\ job'[j] = NoJob
  <2>1. CASE UNCHANGED job
    BY <1>2, <2>1 DEF TypeInv
  <2>2. CASE At(j, FirstPc(job[j].req)) /\ job' = [job EXCEPT ![j] = NoJob]
    <3>1. FirstPc(job[j].req) \in {"open", "chain", "getfd", "erase", "has"}
      <4>1. NewJob(job[j].srv, job[j].req).pc \in {"open", "chain", "getfd", "erase", "has"}
        BY <1>3, NewJobGood
      <4> QED BY <4>1 DEF NewJob
    <3> QED BY <1>2, <2>2, <3>1, JobUpdate DEF At
  <2> QED BY <1>1, <2>1, <2>2
<1>6. ServerInv'
  <2>1. \A i \in Slot : \/ job'[i] = job[i]
                        \/ /\ job[i].pc \notin {"insert", "trunc", "close"}
                           /\ job'[i].pc \notin {"insert", "trunc", "close"}
    BY <1>5 DEF NoJob
  <2> QED BY <1>1, <1>2, <1>5, <2>1, HandsOff
<1>7. SenderKeeps({})
  BY <1>1 DEF SenderKeeps, senderVars
<1>8. JobsKeep({})
  <2> SUFFICES ASSUME NEW m \in Slot, NEW n \in Nat, At(m, "work"), n \in DOMAIN job[m].fwd,
                      job[m].fwd[n] = "call"
               PROVE  /\ job'[m].pc = "work" /\ n \in DOMAIN job'[m].fwd
                      /\ job'[m].fwd[n] = "call"
                      /\ job'[m].to = job[m].to /\ job'[m].req = job[m].req
    BY DEF JobsKeep
  <2>1. job'[m] = job[m]
    BY <1>5 DEF At
  <2> QED BY <2>1 DEF At
<1>9. \A i \in Slot : Called(i) /\ caller'[i] # Nobody => Proceeds(i)
  <2> SUFFICES ASSUME NEW i \in Slot, Called(i), caller'[i] # Nobody PROVE Proceeds(i)
    OBVIOUS
  <2>1. i # j /\ job[i].pc # "free" /\ ~PastReply(i)
    BY <1>2, <1>4 DEF CallInv, CallerInv, At
  <2> QED BY <1>5, <2>1 DEF Proceeds, PastReply
<1>10. \A i \in Slot : caller'[i] \in {caller[i], Nobody}
  BY <1>4
<1>11. \A l \in lost' : \/ l \in lost
                        \/ \E i \in Slot :
                             /\ Called(i) /\ caller[i].who \notin {} /\ caller'[i] = Nobody
                             /\ l = LostCall(i)
                             /\ job[i].srv \in Server /\ job[i].req \in Request
  BY <1>1, <1>3, <1>4
<1>12. CallInv'
  BY <1>2, <1>4, <1>7, <1>8, <1>9, <1>10, <1>11, FewerCalls
<1> QED BY <1>6, <1>12

\* A call fails for good: its coroutine goes on.
LEMMA GiveUpStep ==
  ASSUME FcopyInv, NEW l \in lost, GiveUpCall(l)
  PROVE  ServerInv' /\ CallInv'
<1>1. lost' = lost \ {l} /\ UNCHANGED <<fmap, fds, disk, caller, faults>>
  BY DEF GiveUpCall
<1>2. ServerInv /\ CallInv /\ TypeInv /\ SenderInv
  BY DEF FcopyInv, ServerInv
<1>3. /\ l \in [who : Who, srv : Server, req : Request, try : 0..RetryMax]
      /\ l.who # <<"none">> /\ Awaits(l.who, l.srv, l.req)
  BY <1>2 DEF CallInv, LostInv
<1>4. PICK who \in Who : who = l.who
  BY <1>3
<1>5. ASSUME job' \in [Slot -> GoodJob \cup {NoJob}],
             \A i \in Slot : \/ job'[i] = job[i]
                             \/ /\ job[i].pc = "work" /\ job'[i].pc = "work"
                                /\ job'[i].req = job[i].req /\ job'[i].srv = job[i].srv,
             SenderKeeps({who}), JobsKeep({who})
      PROVE  ServerInv' /\ CallInv'
  <2>1. \A i \in Slot : \/ job'[i] = job[i]
                        \/ /\ job[i].pc \notin {"insert", "trunc", "close"}
                           /\ job'[i].pc \notin {"insert", "trunc", "close"}
    BY <1>5
  <2>2. ServerInv'
    BY <1>1, <1>2, <1>5, <2>1, HandsOff
  <2>3. \A i \in Slot : Called(i) => Proceeds(i)
    <3> SUFFICES ASSUME NEW i \in Slot, Called(i) PROVE Proceeds(i)
      OBVIOUS
    <3>1. job[i].pc # "free" /\ ~PastReply(i)
      BY <1>2 DEF CallInv, CallerInv, At
    <3>2. CASE job'[i] = job[i]
      BY <3>1, <3>2 DEF Proceeds, PastReply
    <3>3. CASE job'[i].pc = "work" /\ job'[i].req = job[i].req /\ job'[i].srv = job[i].srv
      BY <3>3 DEF Proceeds, PastReply
    <3> QED BY <1>5, <3>2, <3>3
  <2>4. \A i \in Slot : caller[i].who \notin {who}
    BY <1>2, <1>4 DEF CallInv, OneCall
  <2>5. \A m \in lost : m.who \in {who} => m \notin lost'
    BY <1>1, <1>2, <1>4 DEF CallInv, OneCall
  <2>6. caller \in [Slot -> [who : Who, try : 0..RetryMax]]
    BY <1>2 DEF CallInv, CallerInv
  <2>7. CallInv'
    BY <1>1, <1>2, <1>5, <2>3, <2>4, <2>5, <2>6, FewerCalls
  <2> QED BY <2>2, <2>7
<1>6. CASE who[1] = "fwd"
  <2>1. PICK i : i = who[2]
    OBVIOUS
  <2>2. PICK s, r : s = l.srv /\ r = l.req
    OBVIOUS
  <2> DEFINE v == [job[i] EXCEPT !.fwd[who[3]] = "EIO"]
  <2>3. /\ i \in Slot /\ At(i, "work") /\ v \in GoodJob /\ v.pc = "work"
        /\ v.req = job[i].req /\ v.to = job[i].to /\ v.srv = job[i].srv
        /\ \A n \in Nat : n \in DOMAIN job[i].fwd /\ n # who[3] =>
             n \in DOMAIN v.fwd /\ v.fwd[n] = job[i].fwd[n]
    <3>1. Awaits(who, s, r) /\ "EIO" \in Err
      BY <1>3, <1>4, <2>2 DEF Err
    <3> QED BY <1>2, <1>6, <2>1, <3>1, ForwardEnds
  <2>4. job' = [job EXCEPT ![i] = v] /\ UNCHANGED senderVars
    BY <1>4, <1>6, <2>1 DEF GiveUpCall
  <2> HIDE DEF v
  <2>5. /\ job' \in [Slot -> GoodJob \cup {NoJob}] /\ job'[i] = v
        /\ \A n \in Slot \ {i} : job'[n] = job[n]
    BY <1>2, <2>3, <2>4, JobUpdate
  <2>6. SenderKeeps({who})
    BY <2>4 DEF SenderKeeps, senderVars
  <2>7. JobsKeep({who})
    <3> SUFFICES ASSUME NEW m \in Slot, NEW n \in Nat, At(m, "work"), n \in DOMAIN job[m].fwd,
                        job[m].fwd[n] = "call", <<"fwd", m, n>> # who
                 PROVE  /\ job'[m].pc = "work" /\ n \in DOMAIN job'[m].fwd
                        /\ job'[m].fwd[n] = "call"
                        /\ job'[m].to = job[m].to /\ job'[m].req = job[m].req
      BY DEF JobsKeep
    <3>1. CASE m = i
      <4>1. n # who[3]
        BY <1>6, <2>1, <3>1, WhoForms
      <4> QED BY <2>3, <2>5, <3>1, <4>1
    <3>2. CASE m # i
      BY <2>5, <3>2 DEF At
    <3> QED BY <3>1, <3>2
  <2>8. \A n \in Slot : \/ job'[n] = job[n]
                        \/ /\ job[n].pc = "work" /\ job'[n].pc = "work"
                           /\ job'[n].req = job[n].req /\ job'[n].srv = job[n].srv
    BY <2>3, <2>5 DEF At
  <2> QED BY <1>5, <2>5, <2>6, <2>7, <2>8
<1>7. CASE who[1] # "fwd"
  <2>1. Resume(who, "EIO", NoToken) /\ job' = job
    BY <1>4, <1>7 DEF GiveUpCall
  <2>2. SenderKeeps({who})
    BY <1>2, <2>1, ReturnKeeps
  <2>3. JobsKeep({who})
    BY <2>1 DEF JobsKeep, At
  <2>4. job' \in [Slot -> GoodJob \cup {NoJob}]
    BY <1>2, <2>1 DEF TypeInv
  <2> QED BY <1>5, <2>1, <2>2, <2>3, <2>4
<1> QED BY <1>6, <1>7

\* A server goes down: its calls are lost, and those its jobs were waiting for have
\* no caller any more.
LEMMA RestartStep ==
  ASSUME FcopyInv, NEW s \in Server, Crash(s)
  PROVE  ServerInv' /\ CallInv'
<1>2. ServerInv /\ CallInv /\ TypeInv
  BY DEF FcopyInv, ServerInv
<1>d. PICK dead : dead = Lost(s)
  OBVIOUS
<1>w. PICK W : W = {w \in Who : w[1] = "fwd" /\ w[2] \in dead}
  OBVIOUS
<1>c. \A j \in Slot : caller[j].who \in Who
  BY <1>2 DEF CallInv, CallerInv
<1> DEFINE Awaited(j) == caller[j] # Nobody /\ caller[j].who \notin W
<1>1. /\ Restart(s) /\ UNCHANGED senderVars
      /\ job' = [j \in Slot |-> IF j \in dead THEN NoJob ELSE job[j]]
      /\ caller' = [j \in Slot |-> IF Awaited(j) /\ j \notin dead THEN caller[j] ELSE Nobody]
  BY <1>c, <1>d, <1>w DEF Crash
<1>3. lost' = {l \in lost : l.who \notin W} \cup {LostCall(j) : j \in {i \in dead : Awaited(i)}}
  <2>1. \A l \in lost : l.who \in Who
    BY <1>2 DEF CallInv, LostInv
  <2>2. dead \subseteq Slot
    BY <1>d DEF Lost
  <2> QED BY <1>c, <1>d, <1>w, <2>1, <2>2 DEF Crash
<1>4. ServerInv'
  BY <1>1, <1>2, <1>d, CrashStep
<1>5. SenderKeeps(W)
  BY <1>1 DEF SenderKeeps, senderVars
<1>6. JobsKeep(W)
  <2> SUFFICES ASSUME NEW m \in Slot, NEW n \in Nat, At(m, "work"), n \in DOMAIN job[m].fwd,
                      job[m].fwd[n] = "call", <<"fwd", m, n>> \notin W
               PROVE  /\ job'[m].pc = "work" /\ n \in DOMAIN job'[m].fwd
                      /\ job'[m].fwd[n] = "call"
                      /\ job'[m].to = job[m].to /\ job'[m].req = job[m].req
    BY DEF JobsKeep
  <2>1. m \notin dead
    <3>1. PICK w \in Who : w = <<"fwd", m, n>>
      BY WhoSets
    <3>2. w[1] = "fwd" /\ w[2] = m
      BY <3>1
    <3> QED BY <1>w, <3>1, <3>2
  <2>2. job'[m] = job[m]
    BY <1>1, <2>1
  <2> QED BY <2>2 DEF At
<1>7. \A j \in Slot : caller[j].who \in W => caller'[j] = Nobody
  BY <1>1
<1>8. \A l \in lost : l.who \in W => l \notin lost'
  BY <1>3 DEF LostCall
<1>9. caller' \in [Slot -> [who : Who, try : 0..RetryMax]]
  <2>1. Nobody \in [who : Who, try : 0..RetryMax]
    BY WhoSets, FcopyAssumption DEF Nobody
  <2>2. \A j \in Slot : caller[j] \in [who : Who, try : 0..RetryMax]
    BY <1>2 DEF CallInv, CallerInv
  <2> QED BY <1>1, <2>1, <2>2
<1>10. \A j \in Slot : caller'[j] \in {caller[j], Nobody}
  BY <1>1
<1>11. \A j \in Slot : Called(j) /\ caller'[j] # Nobody => Proceeds(j)
  <2> SUFFICES ASSUME NEW j \in Slot, Called(j), caller'[j] # Nobody PROVE Proceeds(j)
    OBVIOUS
  <2>1. job'[j] = job[j]
    BY <1>1
  <2>2. job[j].pc # "free" /\ ~PastReply(j)
    BY <1>2 DEF CallInv, CallerInv, At
  <2> QED BY <2>1, <2>2 DEF Proceeds, PastReply
<1>12. \A l \in lost' : \/ l \in lost
                        \/ \E j \in Slot :
                             /\ Called(j) /\ caller[j].who \notin W /\ caller'[j] = Nobody
                             /\ l = LostCall(j)
                             /\ job[j].srv \in Server /\ job[j].req \in Request
  <2> SUFFICES ASSUME NEW l \in lost', l \notin lost
               PROVE  \E j \in Slot :
                        /\ Called(j) /\ caller[j].who \notin W /\ caller'[j] = Nobody
                        /\ l = LostCall(j)
                        /\ job[j].srv \in Server /\ job[j].req \in Request
    OBVIOUS
  <2>1. PICK j \in dead : Awaited(j) /\ l = LostCall(j)
    BY <1>3
  <2>2. j \in Slot /\ ~At(j, "free")
    BY <1>d DEF Lost, At
  <2>3. Called(j)
    BY <1>2, <2>1, <2>2 DEF CallInv, CallerInv
  <2>4. job[j].srv \in Server /\ job[j].req \in Request
    BY <1>2, <2>2, AtJob
  <2>5. caller'[j] = Nobody
    BY <1>1, <2>1, <2>2
  <2> QED BY <2>1, <2>2, <2>3, <2>4, <2>5
<1>13. CallInv'
  <2> HIDE DEF Awaited
  <2> QED BY <1>2, <1>5, <1>6, <1>7, <1>8, <1>9, <1>10, <1>11, <1>12, FewerCalls
<1> QED BY <1>4, <1>13

-----------------------------------------------------------------------------
(* The invariant.                                                          *)

\* What a client sees of a step of the system is a step of FileSender.
LEMMA SenderView ==
  ASSUME FcopyInv, [Next]_vars
  PROVE  [SenderNext]_senderVars
<1>i. ServerInv /\ TypeInv /\ CallInv
  BY DEF FcopyInv, ServerInv
<1>1. ASSUME NEW c \in Client, ClientMain(c) \/ ClientFails(c)
      PROVE  [SenderNext]_senderVars
  <2>1. Call(c) \/ MainInternal(c) \/ LocalOpenFails(c)
    BY <1>1 DEF ClientMain, ClientFails, MainCalls
  <2> QED BY <2>1 DEF SenderNext, MainStep
<1>2. ASSUME NEW c \in Client, NEW w \in Worker, ClientWorker(c, w)
      PROVE  [SenderNext]_senderVars
  <2>1. WorkerInternal(c, w)
    BY <1>2 DEF ClientWorker, WorkerCalls, WorkerInternal
  <2> QED BY <2>1 DEF SenderNext, WorkerStep
<1>3. ASSUME NEW j \in Slot, Reply(j)
      PROVE  [SenderNext]_senderVars
  <2>1. PICK who \in Who : who = caller[j].who
    BY <1>i DEF CallInv, CallerInv
  <2>2. PICK e : e = job[j].err
    OBVIOUS
  <2>3. PICK t : t = Answer(j)
    OBVIOUS
  <2>4. ~At(j, "free") /\ (who[1] = "fwd" \/ Resume(who, e, t) \/ UNCHANGED senderVars)
    BY <1>3, <2>1, <2>2, <2>3 DEF Reply, At
  <2>5. e \in Err /\ job[j].req \in Request
    BY <1>i, <2>2, <2>4, AtJob
  <2>6. CASE who[1] = "fwd" \/ UNCHANGED senderVars
    BY <1>3, <2>1, <2>6 DEF Reply
  <2>7. CASE Resume(who, e, t)
    <3>1. ASSUME who[1] = "main", main[who[2]].ph = "open" PROVE t \in Token
      <4>1. Called(j)
        BY <2>1, <3>1, WhoForms DEF Called
      <4>2. Awaits(who, job[j].srv, job[j].req)
        BY <1>i, <2>1, <4>1 DEF CallInv, CallerInv
      <4>3. job[j].req.op = "create"
        BY <3>1, <4>2 DEF Awaits, MainReq, CreateReq
      <4>4. job[j].req.name \in Name
        BY <2>5, <4>3, RequestFields
      <4> QED BY <2>3, <4>3, <4>4, ServerAssumption DEF Answer
    <3> QED BY <2>5, <2>7, <3>1, ReturnsAsSender
  <2> QED BY <2>4, <2>6, <2>7
<1>4. ASSUME NEW l \in lost, GiveUpCall(l)
      PROVE  [SenderNext]_senderVars
  <2>1. l.who \in Who /\ "EIO" \in Err
    BY <1>i DEF CallInv, LostInv, Err
  <2>2. Resume(l.who, "EIO", NoToken) \/ UNCHANGED senderVars
    BY <1>4 DEF GiveUpCall
  <2> QED BY <2>1, <2>2, ReturnsAsSender
<1>5. CASE UNCHANGED senderVars
  BY <1>5
<1>6. ASSUME NEW j \in Slot, ServerStep(j) \/ ServerFails(j) \/ Disconnect(j)
      PROVE  UNCHANGED senderVars \/ Reply(j)
  BY <1>6 DEF ServerStep, ServerFails, Disconnect, Forward
<1>7. ASSUME NEW s \in Server, Crash(s) PROVE UNCHANGED senderVars
  BY <1>7 DEF Crash
<1>8. ASSUME NEW l \in lost, Redial(l) PROVE UNCHANGED senderVars
  BY <1>8 DEF Redial
<1>9. CASE UNCHANGED vars
  BY <1>9 DEF vars
<1> QED BY <1>1, <1>2, <1>3, <1>4, <1>5, <1>6, <1>7, <1>8, <1>9 DEF Next, RetryStep

\* What the servers and the connections make of it.
LEMMA ServersAndCalls ==
  ASSUME FcopyInv, [Next]_vars
  PROVE  ServerInv' /\ CallInv'
<1>i. ServerInv /\ CallInv /\ SenderInv
  BY DEF FcopyInv
<1>1. ASSUME NEW c \in Client, ClientMain(c) \/ ClientFails(c)
      PROVE  ServerInv' /\ CallInv'
  <2>1. CASE MainCalls(c)
    BY <2>1, MainCallsStep
  <2>2. CASE (MainInternal(c) \/ LocalOpenFails(c)) /\ ServersIdle
    <3>1. SenderKeeps({})
      BY <1>i, <2>2, MainKeeps
    <3> QED BY <1>i, <2>2, <3>1, IdleServers DEF ServersIdle, serverVars
  <2> QED BY <1>1, <2>1, <2>2 DEF ClientMain, ClientFails
<1>2. ASSUME NEW c \in Client, NEW w \in Worker, ClientWorker(c, w)
      PROVE  ServerInv' /\ CallInv'
  <2>1. CASE WorkerCalls(c, w)
    BY <2>1, WorkerCallsStep
  <2>2. CASE WorkerInternal(c, w) /\ ServersIdle
    <3>1. SenderKeeps({})
      BY <1>i, <2>2, WorkerKeeps
    <3> QED BY <1>i, <2>2, <3>1, IdleServers DEF ServersIdle, serverVars
  <2> QED BY <1>2, <2>1, <2>2 DEF ClientWorker, WorkerInternal
<1>3. ASSUME NEW j \in Slot, JobStep(j) \/ JobFails(j) \/ SendWriteShort(j),
             UNCHANGED <<senderVars, caller, lost>>
      PROVE  ServerInv' /\ CallInv'
  <2>1. ServerInv'
    BY <1>i, <1>3, JobKeepsInv
  <2>2. PICK r : GoesOn(j, r)
    BY <1>i, <1>3, HandlerGoesOn
  <2>3. JobsKeep({}) /\ \A i \in Slot : Called(i) => Proceeds(i)
    BY <1>i, <2>2, HandlersKeep
  <2>4. SenderKeeps({})
    BY <1>3 DEF SenderKeeps, senderVars
  <2>5. caller \in [Slot -> [who : Who, try : 0..RetryMax]]
    BY <1>i DEF CallInv, CallerInv
  <2>6. CallInv'
    BY <1>i, <1>3, <2>3, <2>4, <2>5, FewerCalls
  <2> QED BY <2>1, <2>6
<1>4. ASSUME NEW j \in Slot, ServerStep(j) \/ ServerFails(j) \/ Disconnect(j)
      PROVE  ServerInv' /\ CallInv'
  <2>1. CASE \E k \in DOMAIN job[j].fwd : Forward(j, k)
    BY <2>1, ForwardStep
  <2>2. CASE Reply(j)
    BY <2>2, ReplyStep
  <2>3. CASE Disconnect(j)
    BY <2>3, DisconnectStep
  <2> QED BY <1>3, <1>4, <2>1, <2>2, <2>3 DEF ServerStep, ServerFails, netVars
<1>5. CASE RetryStep
  BY <1>5, RedialStep, GiveUpStep DEF RetryStep
<1>6. ASSUME NEW s \in Server, Crash(s) PROVE ServerInv' /\ CallInv'
  BY <1>6, RestartStep
<1>7. CASE UNCHANGED vars
  <2>1. SenderKeeps({})
    BY <1>7 DEF SenderKeeps, vars, senderVars
  <2> QED BY <1>i, <1>7, <2>1, IdleServers DEF vars, serverVars, netVars
<1> QED BY <1>1, <1>2, <1>4, <1>5, <1>6, <1>7 DEF Next

\* No more than MaxFaults faults happen.
LEMMA FaultsCounted ==
  ASSUME faults \in 0..MaxFaults, [Next]_vars
  PROVE  faults' \in 0..MaxFaults
<1>1. ASSUME NEW kind, Fault(kind) PROVE faults' \in 0..MaxFaults
  BY <1>1, FcopyAssumption DEF Fault
<1>2. (\E kind : Fault(kind)) \/ faults' = faults
  BY Zenon DEF Next, ClientMain, ClientFails, ClientWorker, MainCalls, WorkerCalls, ServerStep,
     ServerFails, Forward, Reply, Disconnect, RetryStep, Redial, GiveUpCall, Crash,
     vars, netVars
<1> QED BY <1>1, <1>2

\* At first nobody has called.
LEMMA FcopyInvInit == Init => FcopyInv
<1> SUFFICES ASSUME Init PROVE FcopyInv
  OBVIOUS
<1>1. SenderInv /\ ServerInv
  BY SenderInvInit, ServerInvInit, SenderAssumption DEF Init
<1>2. \A c \in Client : TokenInv(c)
  <2> SUFFICES ASSUME NEW c \in Client PROVE TokenInv(c)
    OBVIOUS
  <2>1. main[c] = FreshMain(1) /\ main[c].ph = "open" /\ main[c].i = 0
    BY DEF Init, SenderInit, FreshMain
  <2> QED BY <2>1, SenderAssumption DEF TokenInv, Target
<1>3. CallInv
  <2>1. Nobody \in [who : Who, try : 0..RetryMax]
    BY WhoSets, FcopyAssumption DEF Nobody
  <2>2. caller = [j \in Slot |-> Nobody] /\ lost = {}
    BY DEF Init
  <2>3. \A j \in Slot : ~Called(j)
    BY <2>2 DEF Called, Nobody
  <2>4. CallerInv
    BY <2>1, <2>2, <2>3 DEF CallerInv
  <2>5. LostInv /\ OneCall
    BY <2>2, <2>3 DEF LostInv, OneCall
  <2> QED BY <2>4, <2>5 DEF CallInv
<1>4. faults \in 0..MaxFaults
  BY FcopyAssumption DEF Init
<1> QED BY <1>1, <1>2, <1>3, <1>4 DEF FcopyInv

\* Every step of the system keeps the invariant.
LEMMA FcopyInvNext == FcopyInv /\ [Next]_vars => FcopyInv'
<1> SUFFICES ASSUME FcopyInv, [Next]_vars PROVE FcopyInv'
  OBVIOUS
<1>1. [SenderNext]_senderVars
  BY SenderView
<1>2. SenderInv' /\ \A c \in Client : TokenInv(c)'
  BY <1>1, SenderInvNext, TokensKept, SenderAssumption DEF FcopyInv
<1>3. ServerInv' /\ CallInv'
  BY ServersAndCalls
<1>4. faults' \in 0..MaxFaults
  BY FaultsCounted DEF FcopyInv
<1> QED BY <1>2, <1>3, <1>4 DEF FcopyInv

-----------------------------------------------------------------------------
(* What follows for the whole system.                                      *)

\* The inductive invariant of the system, whatever connections break, whatever
\* requests are sent again and whenever a server is restarted.
THEOREM SystemKeepsInv == Spec => []FcopyInv
BY FcopyInvInit, FcopyInvNext, PTL DEF Spec

\* Every behaviour of the system is, of the clients, a behaviour of FileSender:
\* what is proved of a client whose calls are answered by anything holds with the
\* servers, the forwarding and the retries that do answer them.
THEOREM ImplementsSender == Spec => SenderSpec
<1>1. Init => SenderInit
  BY DEF Init
<1>2. FcopyInv /\ [Next]_vars => [SenderNext]_senderVars
  BY SenderView
<1> QED BY <1>1, <1>2, SystemKeepsInv, PTL DEF Spec, SenderSpec

\* FcopyTypeOK: besides the types of the parts, who awaits the reply of a job, and
\* which calls are lost; a request is tried RetryMax times more at the most.
THEOREM SystemTypes == Spec => []FcopyTypeOK
<1>1. FcopyInv => FcopyTypeOK
  <2> SUFFICES ASSUME FcopyInv PROVE FcopyTypeOK
    OBVIOUS
  <2>1. SenderTypeOK /\ ServerTypeOK
    BY ServerInvTypes DEF FcopyInv, SenderInv
  <2>2. caller \in [Slot -> [who : Who, try : 0..RetryMax]]
    BY DEF FcopyInv, CallInv, CallerInv
  <2>3. \A l \in lost : /\ l.who \in Who /\ l.srv \in Server
                        /\ l.req \in Request /\ l.try \in 0..RetryMax
    BY DEF FcopyInv, CallInv, LostInv
  <2> QED BY <2>1, <2>2, <2>3 DEF FcopyTypeOK, FcopyInv
<1> QED BY <1>1, SystemKeepsInv, PTL

\* A coroutine that awaits a reply awaits one call: no request is answered twice to
\* it, although a broken connection leaves the first try running beside the next.
THEOREM OneCallAtATime == Spec => []OneCall
<1>1. FcopyInv => OneCall
  BY DEF FcopyInv, CallInv
<1> QED BY <1>1, SystemKeepsInv, PTL

\* FdOwned and EntryNamesFile, with the requests the clients and the servers send.
THEOREM SystemDescriptors == Spec => [](FdOwned /\ EntryNamesFile)
<1>1. FcopyInv => FdOwned /\ EntryNamesFile
  BY DEF FcopyInv, ServerInv
<1> QED BY <1>1, SystemKeepsInv, PTL

\* SendComplete and CloseAfterJoin in the system: a success that a user is told of
\* means that every chunk was acknowledged, and that no request for a chunk of this
\* client was still awaited when the files were closed.
THEOREM SystemSendsAll == Spec => [](SendComplete /\ CloseAfterJoin)
BY ImplementsSender, SendIsComplete, NoSendDuringClose, PTL

-----------------------------------------------------------------------------
(***************************************************************************)
(* Who may use an entry of a server's table of open files.                 *)
(*                                                                         *)
(* The code keeps no owner: an entry is found by its token, which is the   *)
(* hash of a name, and whoever sends the token can write, set the chain or *)
(* close.  That the entry a client works with is still the one it made is  *)
(* a property of the whole protocol.  OwnInv states it: an entry has one   *)
(* owner, a client that holds its token or the handler through which the   *)
(* client is about to get or to give back that token.                      *)
(***************************************************************************)

\* No connection breaks under a request of these kinds, and none of these faults
\* happens.
Unbroken(kinds) == FaultKinds \cap kinds = {}

-----------------------------------------------------------------------------
(* What a step does to the jobs, field by field.                           *)

\* No job but j changes.
OthersKept(j) == \A i \in Slot \ {j} : job'[i] = job[i]

\* Job j stays what it is: where it runs and what was asked for.
KeepsAsk(j) == job'[j].srv = job[j].srv /\ job'[j].req = job[j].req

\* The rest of what a send works with.
KeepsWork(j) == job'[j].fd = job[j].fd /\ job'[j].to = job[j].to

\* One job becomes v.
LEMMA Becomes ==
  ASSUME TypeInv, NEW j \in Slot, NEW v, job' = [job EXCEPT ![j] = v]
  PROVE  job'[j] = v /\ OthersKept(j)
BY DEF TypeInv, OthersKept

\* A handler has its response.
LEMMA Responded ==
  ASSUME ServerInv, NEW j \in Slot, ~At(j, "free"), NEW e, Respond(j, e)
  PROVE  /\ At(j, "reply")' /\ job'[j].err = e /\ KeepsAsk(j) /\ KeepsWork(j)
         /\ job'[j].fwd = job[j].fwd /\ job'[j].wr = job[j].wr
         /\ OthersKept(j)
<1> DEFINE r == [job[j] EXCEPT !.pc = "reply", !.err = e]
<1>1. job[j] \in Job /\ TypeInv
  BY AtJob DEF ServerInv
<1>2. job' = [job EXCEPT ![j] = r]
  BY DEF Respond
<1>3. /\ r.pc = "reply" /\ r.err = e /\ r.srv = job[j].srv /\ r.req = job[j].req
      /\ r.fd = job[j].fd /\ r.to = job[j].to /\ r.fwd = job[j].fwd /\ r.wr = job[j].wr
  BY <1>1, Zenon DEF Job
<1> HIDE DEF r
<1>4. job'[j] = r /\ OthersKept(j)
  BY <1>1, <1>2, Becomes
<1> QED BY <1>3, <1>4 DEF At, KeepsAsk, KeepsWork

\* A create has its descriptor.
LEMMA Opened ==
  ASSUME ServerInv, NEW j \in Slot, CreateOpen(j)
  PROVE  At(j, "insert")' /\ KeepsAsk(j) /\ OthersKept(j) /\ UNCHANGED fmap
<1>1. PICK f \in Fd : job' = [job EXCEPT ![j].pc = "insert", ![j].fd = f]
  BY DEF CreateOpen
<1> DEFINE r == [job[j] EXCEPT !.pc = "insert", !.fd = f]
<1>2. job[j] \in Job /\ TypeInv /\ UNCHANGED fmap
  BY AtJob DEF ServerInv, CreateOpen, At
<1>3. job' = [job EXCEPT ![j] = r]
  BY <1>1
<1>4. r.pc = "insert" /\ r.srv = job[j].srv /\ r.req = job[j].req
  BY <1>2, Zenon DEF Job
<1> HIDE DEF r
<1>5. job'[j] = r /\ OthersKept(j)
  BY <1>2, <1>3, Becomes
<1> QED BY <1>2, <1>4, <1>5 DEF At, KeepsAsk

\* A send has copied the entry, or is refused.
LEMMA LookedUp ==
  ASSUME ServerInv, NEW j \in Slot, SendLookup(j)
  PROVE  LET e == fmap[job[j].srv][job[j].req.tok]
         IN /\ KeepsAsk(j) /\ OthersKept(j) /\ UNCHANGED <<fmap, fds, disk>>
            /\ \/ e = NoEntry /\ At(j, "reply")' /\ job'[j].err = "ENOENT"
               \/ /\ e # NoEntry /\ e.to # <<>> /\ job[j].req.budget <= 1
                  /\ At(j, "reply")' /\ job'[j].err = "ECANCELED"
               \/ /\ e # NoEntry /\ At(j, "work")' /\ job'[j].fd = e.fd /\ job'[j].to = e.to
                  /\ job'[j].fwd = [k \in 1..Len(e.to) |-> "todo"]
                  /\ job'[j].wr = job[j].wr /\ job'[j].err = job[j].err
<1> DEFINE e == fmap[job[j].srv][job[j].req.tok]
           g == [k \in 1..Len(e.to) |-> "todo"]
           r == [job[j] EXCEPT !.pc = "work", !.fd = e.fd, !.to = e.to, !.fwd = g]
<1>1. /\ job[j] \in Job /\ TypeInv /\ ~At(j, "free")
      /\ UNCHANGED <<fmap, fds, disk>>
  BY AtJob DEF ServerInv, SendLookup, At
<1>2. \/ e = NoEntry /\ Respond(j, "ENOENT")
      \/ e # NoEntry /\ e.to # <<>> /\ job[j].req.budget <= 1 /\ Respond(j, "ECANCELED")
      \/ e # NoEntry /\ job' = [job EXCEPT ![j] = r]
  BY DEF SendLookup
<1>3. /\ r.pc = "work" /\ r.srv = job[j].srv /\ r.req = job[j].req /\ r.fd = e.fd
      /\ r.to = e.to /\ r.fwd = g /\ r.wr = job[j].wr /\ r.err = job[j].err
  BY <1>1, Zenon DEF Job
<1> HIDE DEF r, g, e
<1>4. CASE e = NoEntry /\ Respond(j, "ENOENT")
  <2>1. At(j, "reply")' /\ job'[j].err = "ENOENT" /\ KeepsAsk(j) /\ OthersKept(j)
    BY <1>1, <1>4, Responded
  <2> QED BY <1>1, <1>4, <2>1 DEF e
<1>5. CASE e # NoEntry /\ e.to # <<>> /\ job[j].req.budget <= 1 /\ Respond(j, "ECANCELED")
  <2>1. At(j, "reply")' /\ job'[j].err = "ECANCELED" /\ KeepsAsk(j) /\ OthersKept(j)
    BY <1>1, <1>5, Responded
  <2> QED BY <1>1, <1>5, <2>1 DEF e
<1>6. CASE e # NoEntry /\ job' = [job EXCEPT ![j] = r]
  <2>1. job'[j] = r /\ OthersKept(j)
    BY <1>1, <1>6, Becomes
  <2>2. At(j, "work")' /\ KeepsAsk(j)
    BY <1>3, <2>1 DEF At, KeepsAsk
  <2> QED BY <1>1, <1>3, <1>6, <2>1, <2>2 DEF e, g
<1> QED BY <1>2, <1>4, <1>5, <1>6

\* A write has returned, whatever it did to the disk.
LEMMA Wrote ==
  ASSUME ServerInv, NEW j \in Slot, SendWrite(j) \/ SendWriteFails(j) \/ SendWriteShort(j)
  PROVE  /\ At(j, "work") /\ At(j, "work")' /\ KeepsAsk(j) /\ KeepsWork(j)
         /\ job'[j].fwd = job[j].fwd /\ job'[j].wr \in {"ok", "EIO"}
         /\ job'[j].err = job[j].err
         /\ OthersKept(j) /\ UNCHANGED <<fmap, fds>>
<1>1. PICK w \in {"ok", "EIO"} : job' = [job EXCEPT ![j].wr = w]
  BY DEF SendWrite, SendWriteFails, SendWriteShort
<1> DEFINE r == [job[j] EXCEPT !.wr = w]
<1>2. At(j, "work") /\ UNCHANGED <<fmap, fds>>
  BY DEF SendWrite, SendWriteFails, SendWriteShort
<1>3. job[j] \in Job /\ TypeInv
  BY <1>2, AtJob DEF ServerInv, At
<1>4. job' = [job EXCEPT ![j] = r]
  BY <1>1
<1>5. /\ r.pc = job[j].pc /\ r.srv = job[j].srv /\ r.req = job[j].req /\ r.fd = job[j].fd
      /\ r.to = job[j].to /\ r.fwd = job[j].fwd /\ r.wr = w /\ r.err = job[j].err
  BY <1>3, Zenon DEF Job
<1> HIDE DEF r
<1>6. job'[j] = r /\ OthersKept(j)
  BY <1>3, <1>4, Becomes
<1> QED BY <1>2, <1>5, <1>6 DEF At, KeepsAsk, KeepsWork

\* A close is over: with a reply if one is awaited, else with nothing more.
LEMMA Ended ==
  ASSUME ServerInv, NEW j \in Slot, ~At(j, "free"), NEW e, EndClose(j, e)
  PROVE  /\ OthersKept(j)
         /\ \/ job[j].req.wait /\ At(j, "reply")' /\ job'[j].err = e /\ KeepsAsk(j)
            \/ ~job[j].req.wait /\ job'[j] = NoJob
<1>1. CASE job[j].req.wait
  <2>1. Respond(j, e)
    BY <1>1, Zenon DEF EndClose
  <2> QED BY <1>1, <2>1, Responded
<1>2. CASE ~job[j].req.wait
  <2>1. job' = [job EXCEPT ![j] = NoJob]
    BY <1>2, Zenon DEF EndClose
  <2> QED BY <1>2, <2>1, Becomes DEF ServerInv
<1> QED BY <1>1, <1>2

\* A close has taken the entry, if there is one.
LEMMA Erased ==
  ASSUME ServerInv, NEW j \in Slot, CloseErase(j)
  PROVE  LET s == job[j].srv
             t == job[j].req.tok
         IN /\ At(j, "erase") /\ OthersKept(j) /\ UNCHANGED <<fds, disk>>
            /\ \/ fmap[s][t] = NoEntry /\ EndClose(j, "ENOENT") /\ UNCHANGED fmap
               \/ /\ fmap[s][t] # NoEntry /\ fmap' = [fmap EXCEPT ![s][t] = NoEntry]
                  /\ At(j, "trunc")' /\ KeepsAsk(j)
                  /\ job'[j].fd = fmap[s][t].fd /\ job'[j].size = fmap[s][t].size
<1> DEFINE s == job[j].srv
           t == job[j].req.tok
           e == fmap[s][t]
           r == [job[j] EXCEPT !.pc = "trunc", !.fd = e.fd, !.size = e.size]
<1>1. job[j] \in Job /\ TypeInv /\ ~At(j, "free") /\ At(j, "erase") /\ UNCHANGED <<fds, disk>>
  BY AtJob DEF ServerInv, CloseErase, At
<1>2. \/ e = NoEntry /\ EndClose(j, "ENOENT") /\ UNCHANGED fmap
      \/ /\ e # NoEntry /\ fmap' = [fmap EXCEPT ![s][t] = NoEntry]
         /\ job' = [job EXCEPT ![j] = r]
  BY Zenon DEF CloseErase
<1>3. /\ r.pc = "trunc" /\ r.srv = job[j].srv /\ r.req = job[j].req /\ r.fd = e.fd
      /\ r.size = e.size
  BY <1>1, Zenon DEF Job
<1> HIDE DEF r
<1>4. CASE e = NoEntry /\ EndClose(j, "ENOENT") /\ UNCHANGED fmap
  BY <1>1, <1>4, Ended
<1>5. CASE /\ e # NoEntry /\ fmap' = [fmap EXCEPT ![s][t] = NoEntry]
           /\ job' = [job EXCEPT ![j] = r]
  <2>1. job'[j] = r /\ OthersKept(j)
    BY <1>1, <1>5, Becomes
  <2>2. At(j, "trunc")' /\ KeepsAsk(j)
    BY <1>3, <2>1 DEF At, KeepsAsk
  <2> QED BY <1>1, <1>3, <1>5, <2>1, <2>2
<1> QED BY <1>2, <1>4, <1>5

\* A close has cut the file.
LEMMA Cut ==
  ASSUME ServerInv, NEW j \in Slot, CloseTruncate(j)
  PROVE  /\ At(j, "trunc") /\ At(j, "close")' /\ KeepsAsk(j) /\ job'[j].fd = job[j].fd
         /\ OthersKept(j) /\ UNCHANGED <<fmap, fds>>
<1> DEFINE r == [job[j] EXCEPT !.pc = "close"]
<1>1. /\ job[j] \in Job /\ TypeInv /\ At(j, "trunc") /\ UNCHANGED <<fmap, fds>>
      /\ job' = [job EXCEPT ![j] = r]
  BY AtJob DEF ServerInv, CloseTruncate, At
<1>2. r.pc = "close" /\ r.srv = job[j].srv /\ r.req = job[j].req /\ r.fd = job[j].fd
  BY <1>1, Zenon DEF Job
<1> HIDE DEF r
<1>3. job'[j] = r /\ OthersKept(j)
  BY <1>1, Becomes
<1> QED BY <1>1, <1>2, <1>3 DEF At, KeepsAsk
-----------------------------------------------------------------------------
(* What a step of a client does to its tokens.                             *)

\* A token that the client holds, and has not sent away with a close.
ClientHolds(c, i) == tokens[c][i] # NoToken /\ ~(Waits(c, "close") /\ main[c].i = i)

\* What client c holds of target i it held before the step.
ClientKeeps(c, i) ==
  ClientHolds(c, i)' => ClientHolds(c, i) /\ tokens'[c][i] = tokens[c][i]

\* The client has no token that it did not have, and none for its next file.
NoNewToken(c) ==
  /\ \A i \in Target : tokens'[c][i] \in {tokens[c][i], NoToken}
  /\ main'[c].file = main[c].file \/ \A i \in Target : tokens'[c][i] = NoToken

\* A client that stands still keeps what it holds.
LEMMA StandsStill ==
  ASSUME NEW c \in Client, main'[c] = main[c], tokens'[c] = tokens[c]
  PROVE  NoNewToken(c) /\ \A i \in Target : ClientKeeps(c, i)
BY DEF NoNewToken, ClientKeeps, ClientHolds, Waits

\* So does one whose main coroutine goes on, at the most to its next file.
LEMMA AloneKeeps ==
  ASSUME SenderInv, NEW c \in Client, MainInternal(c) \/ LocalOpenFails(c)
  PROVE  \A d \in Client : NoNewToken(d) /\ \A i \in Target : ClientKeeps(d, i)
<1>t. main \in [Client -> MainState] /\ tokens \in [Client -> [Target -> Token \cup {NoToken}]]
  BY DEF SenderInv, SenderTypeOK
<1>1. ASSUME NEW d \in Client, d # c
      PROVE  NoNewToken(d) /\ \A i \in Target : ClientKeeps(d, i)
  <2>1. Same(d)
    BY <1>1, OthersSame DEF SenderInv, MainStep
  <2> QED BY <2>1, StandsStill DEF Same
<1>2. CASE NextFile(c)
  <2>1. \A i \in Target : tokens'[c][i] = NoToken
    BY <1>t, <1>2 DEF NextFile, NoTokens
  <2> QED BY <1>1, <2>1 DEF NoNewToken, ClientKeeps, ClientHolds
<1>3. CASE ~NextFile(c)
  <2>1. tokens' = tokens /\ main[c].at = "go"
    <3>1. main[c].ph = "send" => main[c].at # "await"
      BY DEF SenderInv, ClientInv, PlaceInv
    <3>2. main[c].at \in {"go", "await"}
      BY <1>t DEF MainState
    <3> QED BY <1>3, <3>1, <3>2 DEF MainInternal, StartSend, JoinSend, CloseSkips, Finish,
                                   LocalOpenFails
  <2>2. main'[c].file = main[c].file
    BY <1>t, <1>3, SMT DEF MainInternal, StartSend, JoinSend, CloseSkips, Finish,
                           LocalOpenFails, GiveUp, MainState
  <2>3. NoNewToken(c)
    BY <2>1, <2>2 DEF NoNewToken
  <2>4. \A i \in Target : ClientKeeps(c, i)
    BY <2>1 DEF ClientKeeps, ClientHolds, Waits
  <2> QED BY <1>1, <2>3, <2>4
<1> QED BY <1>1, <1>2, <1>3


\* A call that is made leaves the coroutine at its place.
LEMMA CallMade ==
  ASSUME SenderInv, NEW c \in Client, Call(c)
  PROVE  /\ main[c].at = "go" /\ main'[c].at = "await" /\ main'[c].ph = main[c].ph
         /\ main'[c].i = main[c].i /\ main'[c].file = main[c].file
         /\ tokens' = tokens /\ work' = work
         /\ \A d \in Client \ {c} : main'[d] = main[d]
<1>1. main \in [Client -> MainState]
  BY DEF SenderInv, SenderTypeOK
<1> QED BY <1>1, SMT DEF Call, MainState

\* A create that succeeds brings the token of its target.
LEMMA OpenGives ==
  ASSUME SenderInv, NEW c \in Client, NEW t \in Token, OpenReturns(c, "ok", t)
  PROVE  /\ main[c].i \in Target /\ tokens'[c][main[c].i] = t
         /\ \A i \in Target \ {main[c].i} : tokens'[c][i] = tokens[c][i]
         /\ main'[c].file = main[c].file /\ main'[c].at = "go"
         /\ \A d \in Client \ {c} : main'[d] = main[d] /\ tokens'[d] = tokens[d]
<1>1. /\ main \in [Client -> MainState]
      /\ tokens \in [Client -> [Target -> Token \cup {NoToken}]]
      /\ main[c].i \in 0..N /\ main[c].i < N
  BY SMT DEF SenderInv, SenderTypeOK, ClientInv, PlaceInv, OpenReturns, Waits, MainState
<1>2. main[c].i \in Target
  BY <1>1, SenderAssumption DEF Target
<1>3. main'[c].file = main[c].file /\ main'[c].at = "go"
  BY <1>1, SMT DEF OpenReturns, MainState
<1>4. tokens' = [tokens EXCEPT ![c][main[c].i] = t]
  BY DEF OpenReturns
<1>5. /\ \A d \in Client \ {c} : tokens'[d] = tokens[d]
      /\ \A i \in Target : tokens'[c][i] = IF i = main[c].i THEN t ELSE tokens[c][i]
  BY <1>1, <1>2, <1>4, Update2
<1>6. \A d \in Client \ {c} : main'[d] = main[d]
  BY <1>1 DEF OpenReturns
<1> QED BY <1>2, <1>3, <1>5, <1>6

\* A call that brings no token: a create that fails, a chain, a close.
LEMMA ReturnHolds ==
  ASSUME SenderInv, NEW c \in Client, NEW e, NEW t,
         \/ e # "ok" /\ OpenReturns(c, e, t)
         \/ ChainReturns(c, e)
         \/ CloseReturns(c, e)
  PROVE  /\ \A d \in Client : NoNewToken(d)
         /\ (main[c].ph = "close" => e = "ok")
              => \A d \in Client, i \in Target : ClientKeeps(d, i)
<1>t. /\ main \in [Client -> MainState]
      /\ tokens \in [Client -> [Target -> Token \cup {NoToken}]]
  BY DEF SenderInv, SenderTypeOK
<1>1. ASSUME NEW d \in Client, d # c
      PROVE  NoNewToken(d) /\ \A i \in Target : ClientKeeps(d, i)
  <2>1. main'[d] = main[d] /\ tokens'[d] = tokens[d]
    BY <1>t, <1>1 DEF OpenReturns, ChainReturns, CloseReturns, GiveUp
  <2> QED BY <2>1, StandsStill
<1>2. main'[c].file = main[c].file /\ main'[c].at = "go"
  BY <1>t, SMT DEF OpenReturns, ChainReturns, CloseReturns, GiveUp, MainState
<1>3. CASE tokens' = tokens /\ main[c].ph # "close"
  <2>1. NoNewToken(c) /\ \A i \in Target : ClientKeeps(c, i)
    BY <1>2, <1>3 DEF NoNewToken, ClientKeeps, ClientHolds, Waits
  <2> QED BY <1>1, <2>1
<1>4. CASE CloseReturns(c, e)
  <2>1. main[c].i \in Target /\ main[c].ph = "close" /\ main[c].at = "await"
    <3>1. main[c].i \in 0..N /\ main[c].i < N
      BY <1>t, <1>4, SMT DEF SenderInv, ClientInv, PlaceInv, CloseReturns, Waits, MainState
    <3> QED BY <1>4, <3>1, SenderAssumption DEF Target, CloseReturns, Waits
  <2>2. tokens' = IF e = "ok" THEN [tokens EXCEPT ![c][main[c].i] = NoToken] ELSE tokens
    BY <1>4 DEF CloseReturns
  <2>3. e = "ok" => \A i \in Target :
          tokens'[c][i] = IF i = main[c].i THEN NoToken ELSE tokens[c][i]
    BY <1>t, <2>1, <2>2, Update2
  <2>4. NoNewToken(c)
    BY <1>2, <2>2, <2>3 DEF NoNewToken
  <2>5. e = "ok" => \A i \in Target : ClientKeeps(c, i)
    BY <1>2, <2>3 DEF ClientKeeps, ClientHolds, Waits
  <2> QED BY <1>1, <2>1, <2>4, <2>5
<1> QED BY <1>3, <1>4 DEF OpenReturns, ChainReturns, Waits

-----------------------------------------------------------------------------
(* The tokens of a client are those of its own files.                      *)

\* A client has for a target no token but the hash of the name it uploads under.
NamedTokens ==
  \A c \in Client, i \in Target :
    tokens[c][i] # NoToken => tokens[c][i] = TokenOf[File(c).name]

\* A step that brings no token keeps them so.
LEMMA NamesKept ==
  ASSUME NamedTokens, \A d \in Client : NoNewToken(d)
  PROVE  NamedTokens'
BY DEF NamedTokens, NoNewToken, File

\* The reply to a create answers the request of the client that it resumes.
LEMMA CreateAnswers ==
  ASSUME FcopyInv, NEW j \in Slot, NEW c \in Client, caller[j].who = <<"main", c>>,
         main[c].ph = "open"
  PROVE  /\ Called(j) /\ job[j].srv = Dest[c][main[c].i] /\ job[j].req.op = "create"
         /\ job[j].req.name = File(c).name
         /\ Answer(j) = TokenOf[File(c).name] /\ Answer(j) \in Token
<1>1. Called(j)
  BY DEF Called
<1>2. PICK who : who = caller[j].who
  OBVIOUS
<1>3. Awaits(who, job[j].srv, job[j].req)
  BY <1>1, <1>2 DEF FcopyInv, CallInv, CallerInv
<1>4. who[1] = "main" /\ who[2] = c
  BY <1>2
<1>5. job[j].srv = Dest[c][main[c].i] /\ job[j].req = CreateReq(File(c).name, Size(c))
  BY <1>3, <1>4 DEF Awaits, MainReq
<1>6. File(c).name \in Name
  BY FileTypes DEF FcopyInv, SenderInv
<1> QED BY <1>1, <1>5, <1>6, ServerAssumption DEF Answer, CreateReq

\* Every step keeps them so: the one that brings a token is the reply to the create.
LEMMA NamedNext ==
  ASSUME FcopyInv, NamedTokens, [Next]_vars
  PROVE  NamedTokens'
<1>i. SenderInv /\ CallInv
  BY DEF FcopyInv
<1>1. CASE main' = main /\ tokens' = tokens
  BY <1>1 DEF NamedTokens, File
<1>2. ASSUME NEW c \in Client, ClientMain(c) \/ ClientFails(c) PROVE NamedTokens'
  <2>1. CASE MainCalls(c)
    BY <1>i, <2>1, CallMade DEF MainCalls, NamedTokens, File
  <2>2. CASE MainInternal(c) \/ LocalOpenFails(c)
    BY <1>i, <2>2, AloneKeeps, NamesKept
  <2> QED BY <1>2, <2>1, <2>2 DEF ClientMain, ClientFails
<1>3. ASSUME NEW c \in Client, NEW w \in Worker, ClientWorker(c, w) PROVE NamedTokens'
  <2>1. main' = main /\ tokens' = tokens
    BY <1>3 DEF ClientWorker, WorkerCalls, WorkerRead, WorkerCheck, WorkerClaim, WorkerFail,
                WorkerAlloc
  <2> QED BY <1>1, <2>1
<1>4. ASSUME NEW j \in Slot, Reply(j) PROVE NamedTokens'
  <2>1. PICK who \in Who : who = caller[j].who
    BY <1>i DEF CallInv, CallerInv
  <2>2. PICK e, t : e = job[j].err /\ t = Answer(j)
    OBVIOUS
  <2>3. UNCHANGED senderVars \/ Resume(who, e, t)
    BY <1>4, <2>1, <2>2 DEF Reply
  <2>4. CASE UNCHANGED senderVars
    BY <1>1, <2>4 DEF senderVars
  <2>5. CASE who[1] = "work" /\ SendReturns(who[2], who[3], e)
    BY <1>1, <2>5 DEF SendReturns
  <2>6. ASSUME NEW c \in Client, who = <<"main", c>>,
               OpenReturns(c, e, t) \/ ChainReturns(c, e) \/ CloseReturns(c, e)
        PROVE  NamedTokens'
    <3>1. CASE ~(e = "ok" /\ OpenReturns(c, e, t))
      BY <1>i, <2>6, <3>1, ReturnHolds, NamesKept
    <3>2. CASE e = "ok" /\ OpenReturns(c, e, t)
      <4>1. t \in Token /\ t = TokenOf[File(c).name]
        BY <2>1, <2>2, <2>6, <3>2, CreateAnswers DEF OpenReturns, Waits
      <4>2. OpenReturns(c, "ok", t)
        BY <3>2
      <4>3. /\ main[c].i \in Target /\ tokens'[c][main[c].i] = t
            /\ \A i \in Target \ {main[c].i} : tokens'[c][i] = tokens[c][i]
            /\ main'[c].file = main[c].file
            /\ \A d \in Client \ {c} : main'[d] = main[d] /\ tokens'[d] = tokens[d]
        BY <1>i, <4>1, <4>2, OpenGives
      <4> QED BY <4>1, <4>3 DEF NamedTokens, File
    <3> QED BY <3>1, <3>2
  <2>7. CASE Resume(who, e, t)
    <3>1. CASE who[1] = "main"
      <4>1. PICK c \in Client : who = <<"main", c>>
        BY <3>1, WhoForms
      <4>2. OpenReturns(c, e, t) \/ ChainReturns(c, e) \/ CloseReturns(c, e)
        BY <2>7, <4>1 DEF Resume
      <4> QED BY <2>6, <4>1, <4>2
    <3> QED BY <2>4, <2>5, <2>7, <3>1 DEF Resume
  <2> QED BY <2>3, <2>4, <2>7
<1>5. ASSUME NEW l \in lost, GiveUpCall(l) PROVE NamedTokens'
  <2>1. PICK who \in Who : who = l.who
    BY <1>i DEF CallInv, LostInv
  <2>2. UNCHANGED senderVars \/ Resume(who, "EIO", NoToken)
    BY <1>5, <2>1 DEF GiveUpCall
  <2>3. CASE who[1] = "main" /\ Resume(who, "EIO", NoToken)
    <3>1. PICK c \in Client : who = <<"main", c>>
      BY <2>3, WhoForms
    <3>2. \/ OpenReturns(c, "EIO", NoToken) \/ ChainReturns(c, "EIO")
          \/ CloseReturns(c, "EIO")
      BY <2>3, <3>1 DEF Resume
    <3> QED BY <1>i, <3>2, ReturnHolds, NamesKept
  <2>4. CASE who[1] # "main" \/ UNCHANGED senderVars
    <3>1. main' = main /\ tokens' = tokens
      BY <2>2, <2>4 DEF Resume, SendReturns, senderVars
    <3> QED BY <1>1, <3>1
  <2> QED BY <2>2, <2>3, <2>4
<1>6. ASSUME NEW j \in Slot, ServerStep(j) \/ ServerFails(j) \/ Disconnect(j)
      PROVE  NamedTokens'
  <2>1. UNCHANGED senderVars \/ Reply(j)
    BY <1>6 DEF ServerStep, ServerFails, Disconnect, Forward
  <2> QED BY <1>1, <1>4, <2>1 DEF senderVars
<1>7. CASE \/ \E l \in lost : Redial(l)
           \/ \E s \in Server : Crash(s)
           \/ UNCHANGED vars
  BY <1>1, <1>7 DEF Redial, Crash, vars, senderVars
<1> QED BY <1>2, <1>3, <1>5, <1>6, <1>7 DEF Next, RetryStep

-----------------------------------------------------------------------------
(* The owners of entries.                                                  *)

\* The token a request names or, if it is a create, asks for.
JobTok(j) ==
  IF job[j].req.op = "create" THEN TokenOf[job[j].req.name] ELSE job[j].req.tok

\* Handler j is about to tell a client that it has an entry, or to take away the
\* entry a client has given back.
HoldsEntry(j) ==
  \/ At(j, "has") \/ At(j, "erase")
  \/ /\ At(j, "reply")
     /\ \/ job[j].req.op = "create" /\ job[j].err = "ok" /\ Called(j)
        \/ IsLateClose(j)

\* A client for one of its targets, or a handler.
Owner == ({"client"} \X Client \X Target) \cup ({"job"} \X Slot)

\* Owner h owns the entry of token t on server s.
Owns(h, s, t) ==
  \/ /\ h[1] = "client" /\ ClientHolds(h[2], h[3])
     /\ s = Dest[h[2]][h[3]] /\ t = tokens[h[2]][h[3]]
  \/ /\ h[1] = "job" /\ HoldsEntry(h[2])
     /\ s = job[h[2]].srv /\ t = JobTok(h[2])

\* What is owned is there, and is owned once.
Exclusive ==
  /\ \A h \in Owner, s \in Server, t \in Token : Owns(h, s, t) => fmap[s][t] # NoEntry
  /\ \A g, h \in Owner, s \in Server, t \in Token :
       Owns(g, s, t) /\ Owns(h, s, t) => g = h

\* So every close finds its entry, unless its connection breaks or the server goes
\* down.
OwnInv ==
  /\ Exclusive
  /\ \A j \in Slot : At(j, "reply") /\ job[j].req.op = "close" => job[j].err = "ok"
  /\ \A l \in lost : l.req.op # "close"

\* What handler j holds it held before the step.
JobKeeps(j) ==
  HoldsEntry(j)' => HoldsEntry(j) /\ job'[j].srv = job[j].srv /\ JobTok(j)' = JobTok(j)

\* A handler that stands still keeps what it holds.
LEMMA JobStands ==
  ASSUME NEW j \in Slot, job'[j] = job[j], caller'[j] \in {caller[j], Nobody}
  PROVE  JobKeeps(j)
<1>1. Nobody.who = <<"none">>
  BY DEF Nobody
<1> QED BY <1>1 DEF JobKeeps, HoldsEntry, JobTok, At, Called, IsLateClose

\* A handler that is not where it could hold an entry holds none.
LEMMA JobHoldsNone ==
  ASSUME NEW j \in Slot,
         \/ job'[j].pc \notin {"has", "erase", "reply"}
         \/ job'[j].pc = "reply" /\ job'[j].req.op \notin {"create", "close"}
         \/ job'[j].pc = "reply" /\ job'[j].req.op = "create" /\ job'[j].err # "ok"
  PROVE  ~HoldsEntry(j)' /\ JobKeeps(j)
BY DEF JobKeeps, HoldsEntry, At, IsLateClose

\* The owners, by kind.
LEMMA OwnerForms ==
  /\ \A c \in Client, i \in Target : <<"client", c, i>> \in Owner
  /\ \A j \in Slot : <<"job", j>> \in Owner
  /\ \A h \in Owner : \/ \E c \in Client, i \in Target : h = <<"client", c, i>>
                      \/ \E j \in Slot : h = <<"job", j>>
  /\ \A c \in Client, i \in Target : \A s, t :
       Owns(<<"client", c, i>>, s, t) <=>
         ClientHolds(c, i) /\ s = Dest[c][i] /\ t = tokens[c][i]
  /\ \A j \in Slot : \A s, t :
       Owns(<<"job", j>>, s, t) <=> HoldsEntry(j) /\ s = job[j].srv /\ t = JobTok(j)
<1>1. /\ \A c \in Client, i \in Target : <<"client", c, i>> \in Owner
      /\ \A j \in Slot : <<"job", j>> \in Owner
  BY DEF Owner
<1>2. ASSUME NEW h \in Owner
      PROVE  \/ \E c \in Client, i \in Target : h = <<"client", c, i>>
             \/ \E j \in Slot : h = <<"job", j>>
  BY DEF Owner
<1>3. ASSUME NEW c \in Client, NEW i \in Target, NEW s, NEW t
      PROVE  Owns(<<"client", c, i>>, s, t) <=>
               ClientHolds(c, i) /\ s = Dest[c][i] /\ t = tokens[c][i]
  BY DEF Owns
<1>4. ASSUME NEW j \in Slot, NEW s, NEW t
      PROVE  Owns(<<"job", j>>, s, t) <=> HoldsEntry(j) /\ s = job[j].srv /\ t = JobTok(j)
  BY DEF Owns
<1> QED BY <1>1, <1>2, <1>3, <1>4

\* An owner that keeps what it has.
LEMMA OwnedBefore ==
  ASSUME NEW x \in Owner,
         \A c \in Client, i \in Target : x = <<"client", c, i>> => ClientKeeps(c, i),
         \A j \in Slot : x = <<"job", j>> => JobKeeps(j),
         NEW s, NEW t, Owns(x, s, t)'
  PROVE  Owns(x, s, t)
<1>1. CASE \E c \in Client, i \in Target : x = <<"client", c, i>>
  <2>1. PICK c \in Client, i \in Target : x = <<"client", c, i>>
    BY <1>1
  <2>2. ClientHolds(c, i)' /\ s = Dest[c][i] /\ t = tokens'[c][i]
    BY <2>1 DEF Owns
  <2>3. ClientHolds(c, i) /\ t = tokens[c][i]
    BY <2>1, <2>2 DEF ClientKeeps
  <2> QED BY <2>1, <2>2, <2>3, OwnerForms
<1>2. CASE \E j \in Slot : x = <<"job", j>>
  <2>1. PICK j \in Slot : x = <<"job", j>>
    BY <1>2
  <2>2. HoldsEntry(j)' /\ s = job'[j].srv /\ t = JobTok(j)'
    BY <2>1 DEF Owns
  <2>3. HoldsEntry(j) /\ s = job[j].srv /\ t = JobTok(j)
    BY <2>1, <2>2 DEF JobKeeps
  <2> QED BY <2>1, <2>3, OwnerForms
<1> QED BY <1>1, <1>2, OwnerForms

\* A step in which nobody gets anything, and no entry is erased.
LEMMA OwnersStay ==
  ASSUME Exclusive,
         \A c \in Client, i \in Target : ClientKeeps(c, i),
         \A j \in Slot : JobKeeps(j),
         \A s \in Server, t \in Token : fmap[s][t] # NoEntry => fmap'[s][t] # NoEntry
  PROVE  Exclusive'
<1>1. \A x \in Owner : \A s, t : Owns(x, s, t)' => Owns(x, s, t)
  BY OwnedBefore
<1> QED BY <1>1 DEF Exclusive

\* A step in which owner g gives up what it has and owner h takes it, or takes what
\* was not there; the others have what they had, or less.
LEMMA OwnersMove ==
  ASSUME Exclusive, NEW g \in Owner, NEW h,
         \A c \in Client, i \in Target : <<"client", c, i>> # h => ClientKeeps(c, i),
         \A j \in Slot : <<"job", j>> # h => JobKeeps(j),
         g # h => \A s, t : ~Owns(g, s, t)',
         \A s \in Server, t \in Token :
           Owns(h, s, t)' => Owns(g, s, t) \/ fmap[s][t] = NoEntry,
         \A s \in Server, t \in Token, x \in Owner : Owns(x, s, t)' => fmap'[s][t] # NoEntry
  PROVE  Exclusive'
<1>1. ASSUME NEW x \in Owner, x # h, NEW s \in Server, NEW t \in Token, Owns(x, s, t)'
      PROVE  Owns(x, s, t) /\ x # g
  BY <1>1, OwnedBefore
<1>2. ASSUME NEW x \in Owner, NEW y \in Owner, NEW s \in Server, NEW t \in Token,
             Owns(x, s, t)', Owns(y, s, t)'
      PROVE  x = y
  <2>1. CASE x # h /\ y # h
    BY <1>1, <1>2, <2>1 DEF Exclusive
  <2>2. CASE x = h /\ y # h
    BY <1>1, <1>2, <2>2 DEF Exclusive
  <2>3. CASE x # h /\ y = h
    BY <1>1, <1>2, <2>3 DEF Exclusive
  <2> QED BY <2>1, <2>2, <2>3
<1> QED BY <1>2 DEF Exclusive

-----------------------------------------------------------------------------
(* The steps of the handlers.                                              *)

\* A handler goes on and gets nothing.
LEMMA HandlerQuiet ==
  ASSUME OwnInv, NEW j \in Slot, OthersKept(j), JobKeeps(j),
         UNCHANGED <<senderVars, caller, lost>>,
         \A s \in Server, t \in Token : fmap[s][t] # NoEntry => fmap'[s][t] # NoEntry,
         (At(j, "reply") /\ job[j].req.op = "close")' => job'[j].err = "ok"
  PROVE  OwnInv'
<1>1. \A c \in Client, i \in Target : ClientKeeps(c, i)
  BY StandsStill DEF senderVars
<1>2. \A i \in Slot : JobKeeps(i)
  BY JobStands DEF OthersKept
<1>3. Exclusive'
  BY <1>1, <1>2, OwnersStay DEF OwnInv
<1>4. \A i \in Slot : (At(i, "reply") /\ job[i].req.op = "close")' => job'[i].err = "ok"
  BY DEF OwnInv, OthersKept, At
<1> QED BY <1>3, <1>4 DEF OwnInv

\* A handler takes an entry out of the table, or enters one.
LEMMA HandlerMoves ==
  ASSUME OwnInv, NEW j \in Slot, OthersKept(j),
         UNCHANGED <<senderVars, caller, lost>>,
         \A s \in Server, t \in Token :
           Owns(<<"job", j>>, s, t)' => fmap[s][t] = NoEntry,
         \A s \in Server, t \in Token :
           fmap[s][t] # NoEntry /\ fmap'[s][t] = NoEntry => Owns(<<"job", j>>, s, t),
         \A s \in Server, t \in Token :
           Owns(<<"job", j>>, s, t)' => fmap'[s][t] # NoEntry,
         (At(j, "reply") /\ job[j].req.op = "close")' => job'[j].err = "ok"
  PROVE  OwnInv'
<1> DEFINE h == <<"job", j>>
<1>1. \A c \in Client, i \in Target : ClientKeeps(c, i)
  BY StandsStill DEF senderVars
<1>2. \A i \in Slot : <<"job", i>> # h => JobKeeps(i)
  BY JobStands DEF OthersKept
<1>3. h \in Owner
  BY OwnerForms
<1>4. ASSUME NEW s \in Server, NEW t \in Token, NEW x \in Owner, Owns(x, s, t)'
      PROVE  fmap'[s][t] # NoEntry
  <2>1. CASE x = h
    BY <1>4, <2>1
  <2>2. CASE x # h
    <3>1. Owns(x, s, t)
      BY <1>1, <1>2, <1>4, <2>2, OwnedBefore
    <3>2. fmap[s][t] # NoEntry /\ ~Owns(h, s, t)
      BY <1>3, <2>2, <3>1 DEF OwnInv, Exclusive
    <3> QED BY <3>2
  <2> QED BY <2>1, <2>2
<1>5. \A s \in Server, t \in Token : Owns(h, s, t)' => Owns(h, s, t) \/ fmap[s][t] = NoEntry
  OBVIOUS
<1> HIDE DEF h
<1>6. Exclusive'
  BY <1>1, <1>2, <1>3, <1>4, <1>5, OwnersMove DEF OwnInv
<1>7. \A i \in Slot : (At(i, "reply") /\ job[i].req.op = "close")' => job'[i].err = "ok"
  BY DEF OwnInv, OthersKept, At
<1> QED BY <1>6, <1>7 DEF OwnInv

\* The handler of a create.
LEMMA CreateOwns ==
  ASSUME ServerInv, OwnInv, NEW j \in Slot, UNCHANGED <<senderVars, caller, lost>>,
         CreateRejected(j) \/ CreateOpen(j) \/ CreateInsert(j)
  PROVE  OwnInv'
<1>o. job[j].pc \in {"open", "insert"}
  BY Zenon DEF CreateRejected, CreateOpen, CreateInsert, At
<1>1. /\ TypeInv /\ job[j].req.op = "create" /\ ~At(j, "free")
      /\ job[j].srv \in Server /\ job[j].req \in Request
      /\ job[j].pc = "insert" => job[j].fd \in Fd
  BY <1>o, AtJob DEF ServerInv, At, Shaped
<1>2. ASSUME NEW e, e # "ok", Respond(j, e), fmap' = fmap PROVE OwnInv'
  <2>1. At(j, "reply")' /\ job'[j].err = e /\ KeepsAsk(j) /\ OthersKept(j)
    BY <1>1, <1>2, Responded
  <2>2. job'[j].pc = "reply" /\ job'[j].req.op = "create"
    BY <1>1, <2>1 DEF At, KeepsAsk
  <2>3. JobKeeps(j)
    BY <1>2, <2>1, <2>2, JobHoldsNone
  <2> QED BY <1>2, <2>1, <2>2, <2>3, HandlerQuiet
<1>3. CASE CreateRejected(j)
  BY <1>2, <1>3 DEF CreateRejected
<1>4. CASE CreateOpen(j)
  <2>1. At(j, "insert")' /\ OthersKept(j) /\ fmap' = fmap
    BY <1>4, Opened
  <2>2. JobKeeps(j) /\ ~At(j, "reply")'
    BY <2>1, JobHoldsNone DEF At
  <2> QED BY <2>1, <2>2, HandlerQuiet
<1>5. CASE CreateInsert(j) /\ fmap' = fmap /\ Respond(j, "EEXIST")
  BY <1>2, <1>5
<1>6. CASE CreateInsert(j) /\ ~(fmap' = fmap /\ Respond(j, "EEXIST"))
  <2> DEFINE s == job[j].srv
             t == TokenOf[job[j].req.name]
             r == [fd |-> job[j].fd, size |-> job[j].req.size, to |-> <<>>]
  <2>1. /\ fmap[s][t] = NoEntry /\ fmap' = [fmap EXCEPT ![s][t] = r] /\ Respond(j, "ok")
    BY <1>6, Zenon DEF CreateInsert
  <2>2. t \in Token /\ r \in Entry
    <3>1. job[j].req.name \in Name /\ job[j].req.size \in Nat
      BY <1>1, RequestFields
    <3>2. <<>> \in Seq([srv : Server, tok : Token])
      OBVIOUS
    <3>3. job[j].fd \in Fd
      BY <1>1, <1>6 DEF CreateInsert, At
    <3> QED BY <3>1, <3>2, <3>3, ServerAssumption DEF Entry
  <2>3. /\ At(j, "reply")' /\ KeepsAsk(j) /\ OthersKept(j)
    BY <1>1, <2>1, Responded
  <2>4. job'[j].req.op = "create"
    BY <1>1, <2>3 DEF KeepsAsk
  <2> HIDE DEF r
  <2>5. /\ \A y \in Server \ {s} : fmap'[y] = fmap[y]
        /\ \A u \in Token : fmap'[s][u] = IF u = t THEN r ELSE fmap[s][u]
    BY <1>1, <2>1, <2>2, TableUpdate
  <2>6. r # NoEntry
    BY <2>2, ServerAssumption
  <2>7. ASSUME NEW y, NEW u, Owns(<<"job", j>>, y, u)' PROVE y = s /\ u = t
    <3>1. y = job'[j].srv /\ u = JobTok(j)'
      BY <2>7 DEF Owns
    <3>2. JobTok(j)' = t
      BY <1>1, <2>3, <2>4 DEF JobTok, KeepsAsk
    <3> QED BY <2>3, <3>1, <3>2 DEF KeepsAsk
  <2>8. \A y \in Server, u \in Token : Owns(<<"job", j>>, y, u)' =>
          fmap[y][u] = NoEntry /\ fmap'[y][u] # NoEntry
    BY <1>1, <2>1, <2>2, <2>5, <2>6, <2>7
  <2>9. \A y \in Server, u \in Token : fmap[y][u] # NoEntry => fmap'[y][u] # NoEntry
    BY <1>1, <2>5, <2>6
  <2>10. (At(j, "reply") /\ job[j].req.op = "close")' => job'[j].err = "ok"
    BY <2>4
  <2> HIDE DEF s, t
  <2> QED BY <2>3, <2>8, <2>9, <2>10, HandlerMoves
<1> QED BY <1>3, <1>4, <1>5, <1>6

\* The handlers of a chain and of a send.
LEMMA SendOwns ==
  ASSUME ServerInv, OwnInv, NEW j \in Slot, UNCHANGED <<senderVars, caller, lost>>,
         \/ SetChain(j)
         \/ SendLookup(j) \/ SendJoin(j)
         \/ SendWrite(j) \/ SendWriteFails(j) \/ SendWriteShort(j)
  PROVE  OwnInv'
<1>o. job[j].pc \in {"chain", "getfd", "work"}
  BY Zenon DEF SetChain, SendLookup, SendJoin, SendWrite, SendWriteFails, SendWriteShort, At
<1>1. /\ TypeInv /\ job[j].req.op \in {"chain", "send"} /\ ~At(j, "free")
      /\ job[j].srv \in Server /\ job[j].req \in Request
  BY <1>o, AtJob DEF ServerInv, At, Shaped
<1>2. ASSUME KeepsAsk(j), OthersKept(j), job'[j].pc \in {"work", "reply"},
             \A s \in Server, t \in Token : fmap[s][t] # NoEntry => fmap'[s][t] # NoEntry
      PROVE  OwnInv'
  <2>1. job'[j].req.op \in {"chain", "send"}
    BY <1>1, <1>2 DEF KeepsAsk
  <2>2. JobKeeps(j)
    BY <1>2, <2>1, JobHoldsNone
  <2> QED BY <1>2, <2>1, <2>2, HandlerQuiet
<1>3. ASSUME NEW e, Respond(j, e),
             \A s \in Server, t \in Token : fmap[s][t] # NoEntry => fmap'[s][t] # NoEntry
      PROVE  OwnInv'
  <2>1. At(j, "reply")' /\ KeepsAsk(j) /\ OthersKept(j)
    BY <1>1, <1>3, Responded
  <2> QED BY <1>2, <1>3, <2>1 DEF At
<1>4. CASE SetChain(j)
  <2> DEFINE s == job[j].srv
             t == job[j].req.tok
  <2>1. CASE fmap' = fmap
    <3>1. PICK e : Respond(j, e)
      BY <1>4 DEF SetChain
    <3> QED BY <1>3, <2>1, <3>1
  <2>2. CASE fmap' # fmap
    <3> DEFINE r == [fmap[s][t] EXCEPT !.to = job[j].req.targets]
    <3>1. fmap[s][t] # NoEntry /\ fmap' = [fmap EXCEPT ![s][t] = r] /\ Respond(j, "ok")
      BY <1>4, <2>2 DEF SetChain
    <3>2. job[j].req.op = "chain"
      <4>1. job[j].pc = "chain"
        BY <1>4 DEF SetChain, At
      <4> QED BY <1>1, <4>1, AtJob DEF At, Shaped
    <3>3. t \in Token /\ job[j].req.targets \in Seq([srv : Server, tok : Token])
      BY <1>1, <3>2, RequestFields
    <3>4. fmap[s][t] \in Entry
      BY <1>1, <3>1, <3>3 DEF TypeInv
    <3>5. r \in Entry
      BY <3>3, <3>4, Zenon DEF Entry
    <3> HIDE DEF r
    <3>6. /\ \A y \in Server \ {s} : fmap'[y] = fmap[y]
          /\ \A u \in Token : fmap'[s][u] = IF u = t THEN r ELSE fmap[s][u]
      BY <1>1, <3>1, <3>3, <3>5, TableUpdate
    <3>7. r # NoEntry
      BY <3>5, ServerAssumption
    <3>8. \A y \in Server, u \in Token : fmap[y][u] # NoEntry => fmap'[y][u] # NoEntry
      BY <3>6, <3>7
    <3> QED BY <1>3, <3>1, <3>8
  <2> QED BY <2>1, <2>2
<1>5. CASE SendLookup(j)
  <2>1. KeepsAsk(j) /\ OthersKept(j) /\ fmap' = fmap /\ job'[j].pc \in {"work", "reply"}
    BY <1>5, LookedUp DEF At
  <2> QED BY <1>2, <2>1
<1>6. CASE SendJoin(j)
  <2>1. PICK e : Respond(j, e) /\ fmap' = fmap
    BY <1>6 DEF SendJoin
  <2> QED BY <1>3, <2>1
<1>7. CASE SendWrite(j) \/ SendWriteFails(j) \/ SendWriteShort(j)
  <2>1. KeepsAsk(j) /\ OthersKept(j) /\ fmap' = fmap /\ job'[j].pc = "work"
    BY <1>7, Wrote DEF At
  <2> QED BY <1>2, <2>1
<1> QED BY <1>4, <1>5, <1>6, <1>7

\* The handler of a close: it owns the entry until it erases it.
LEMMA CloseOwns ==
  ASSUME ServerInv, OwnInv, NEW j \in Slot, UNCHANGED <<senderVars, caller, lost>>,
         CloseHas(j) \/ CloseErase(j) \/ CloseTruncate(j) \/ CloseFd(j)
  PROVE  OwnInv'
<1>o. job[j].pc \in {"has", "erase", "trunc", "close"}
  BY Zenon DEF CloseHas, CloseErase, CloseTruncate, CloseFd, At
<1>1. /\ TypeInv /\ job[j].req.op = "close" /\ ~At(j, "free")
      /\ job[j].srv \in Server /\ job[j].req \in Request
  BY <1>o, AtJob DEF ServerInv, At, Shaped
<1> DEFINE s == job[j].srv
           t == job[j].req.tok
           h == <<"job", j>>
<1>2. t \in Token /\ JobTok(j) = t
  BY <1>1, RequestFields DEF JobTok
<1>3. job[j].pc \in {"has", "erase"} => /\ \A y, u : Owns(h, y, u) <=> y = s /\ u = t
                                        /\ fmap[s][t] # NoEntry
  <2> SUFFICES ASSUME job[j].pc \in {"has", "erase"}
               PROVE  /\ \A y, u : Owns(h, y, u) <=> y = s /\ u = t
                      /\ fmap[s][t] # NoEntry
    OBVIOUS
  <2>1. HoldsEntry(j)
    BY DEF HoldsEntry, At
  <2>2. \A y, u : Owns(h, y, u) <=> y = s /\ u = t
    BY <1>2, <2>1, OwnerForms
  <2>3. h \in Owner
    BY OwnerForms
  <2> HIDE DEF h
  <2>4. Owns(h, s, t)
    BY <2>2
  <2> QED BY <1>1, <1>2, <2>2, <2>3, <2>4 DEF OwnInv, Exclusive
<1>4. CASE CloseHas(j)
  <2>1. fmap' = fmap /\ Respond(j, "ok") /\ job[j].pc = "has"
    BY <1>3, <1>4 DEF CloseHas, At
  <2>2. At(j, "reply")' /\ job'[j].err = "ok" /\ KeepsAsk(j) /\ OthersKept(j)
    BY <1>1, <2>1, Responded
  <2>3. JobKeeps(j)
    BY <2>1, <2>2 DEF JobKeeps, HoldsEntry, JobTok, KeepsAsk, At
  <2> QED BY <2>1, <2>2, <2>3, HandlerQuiet
<1>5. CASE CloseErase(j)
  <2>1. /\ fmap[s][t] # NoEntry /\ fmap' = [fmap EXCEPT ![s][t] = NoEntry]
        /\ At(j, "trunc")' /\ OthersKept(j)
    BY <1>3, <1>5, Erased DEF At
  <2>2. /\ \A y \in Server \ {s} : fmap'[y] = fmap[y]
        /\ \A u \in Token : fmap'[s][u] = IF u = t THEN NoEntry ELSE fmap[s][u]
    BY <1>1, <1>2, <2>1, TableUpdate
  <2>3. ~HoldsEntry(j)' /\ ~At(j, "reply")'
    BY <2>1, JobHoldsNone DEF At
  <2>4. \A y, u : ~Owns(h, y, u)'
    BY <2>3 DEF Owns
  <2>5. \A y \in Server, u \in Token :
          fmap[y][u] # NoEntry /\ fmap'[y][u] = NoEntry => Owns(h, y, u)
    <3>1. job[j].pc = "erase"
      BY <1>5, Zenon DEF CloseErase, At
    <3> QED BY <1>3, <2>2, <3>1
  <2> QED BY <2>1, <2>3, <2>4, <2>5, HandlerMoves
<1>6. CASE CloseTruncate(j)
  <2>1. fmap' = fmap /\ At(j, "close")' /\ OthersKept(j)
    BY <1>6, Cut
  <2>2. JobKeeps(j) /\ ~At(j, "reply")'
    BY <2>1, JobHoldsNone DEF At
  <2> QED BY <2>1, <2>2, HandlerQuiet
<1>7. CASE CloseFd(j)
  <2>1. EndClose(j, "ok") /\ fmap' = fmap
    BY <1>7 DEF CloseFd
  <2>2. /\ OthersKept(j)
        /\ \/ job[j].req.wait /\ At(j, "reply")' /\ job'[j].err = "ok" /\ KeepsAsk(j)
           \/ job'[j] = NoJob
    BY <1>1, <2>1, Ended
  <2>3. CASE job'[j] = NoJob
    <3>1. job'[j].pc = "free"
      BY <2>3 DEF NoJob
    <3>2. JobKeeps(j) /\ ~At(j, "reply")'
      BY <3>1, JobHoldsNone DEF At
    <3> QED BY <2>1, <2>2, <3>2, HandlerQuiet
  <2>4. CASE job[j].req.wait /\ At(j, "reply")' /\ job'[j].err = "ok" /\ KeepsAsk(j)
    <3>1. job'[j].req = job[j].req /\ job'[j].pc = "reply"
      BY <2>4 DEF KeepsAsk, At
    <3>2. JobKeeps(j)
      BY <1>1, <2>4, <3>1 DEF JobKeeps, HoldsEntry, At, IsLateClose
    <3> QED BY <2>1, <2>2, <2>4, <3>2, HandlerQuiet
  <2> QED BY <2>2, <2>3, <2>4
<1> QED BY <1>4, <1>5, <1>6, <1>7

-----------------------------------------------------------------------------
(* The steps that begin a call.                                            *)

\* A request becomes a job in a slot that was free.
LEMMA Sent ==
  ASSUME TypeInv, CallInv, NEW who, NEW s \in Server, NEW r \in Request, NEW n, Send(who, s, r, n)
  PROVE  \E k \in Slot :
           /\ At(k, "free") /\ ~Called(k) /\ OthersKept(k)
           /\ job'[k] = NewJob(s, r) /\ job'[k].pc = FirstPc(r)
           /\ job'[k].srv = s /\ job'[k].req = r
           /\ caller'[k].who = who /\ \A i \in Slot \ {k} : caller'[i] = caller[i]
<1>1. PICK k : k = NextSlot
  OBVIOUS
<1>2. /\ k \in Slot /\ At(k, "free")
      /\ job' = [job EXCEPT ![k] = NewJob(s, r)]
      /\ caller' = [caller EXCEPT ![k] = [who |-> who, try |-> n]]
  BY <1>1, FreeSlot DEF Send, Submit
<1>3. job'[k] = NewJob(s, r) /\ OthersKept(k)
  BY <1>2, Becomes
<1>4. caller'[k].who = who /\ \A i \in Slot \ {k} : caller'[i] = caller[i]
  BY <1>2 DEF CallInv, CallerInv
<1>5. ~Called(k)
  BY <1>2 DEF CallInv, CallerInv
<1>6. NewJob(s, r).pc = FirstPc(r) /\ NewJob(s, r).srv = s /\ NewJob(s, r).req = r
  BY DEF NewJob
<1> QED BY <1>2, <1>3, <1>4, <1>5, <1>6

\* A request that is no close gets nothing.
LEMMA SentQuiet ==
  ASSUME TypeInv, CallInv, OwnInv, NEW who, NEW s \in Server, NEW r \in Request, NEW n,
         Send(who, s, r, n), r.op # "close", fmap' = fmap, lost' \subseteq lost,
         \A c \in Client, i \in Target : ClientKeeps(c, i)
  PROVE  OwnInv'
<1>1. PICK k \in Slot :
        /\ OthersKept(k) /\ job'[k].pc = FirstPc(r)
        /\ \A i \in Slot \ {k} : caller'[i] = caller[i]
  BY Sent
<1>2. job'[k].pc \in {"open", "chain", "getfd"}
  <2>1. r.op \in {"create", "chain", "send"}
    BY DEF Request
  <2> QED BY <1>1, <2>1 DEF FirstPc
<1>3. \A i \in Slot : JobKeeps(i)
  BY <1>1, <1>2, JobStands, JobHoldsNone DEF OthersKept
<1>4. Exclusive'
  BY <1>3, OwnersStay DEF OwnInv
<1>5. \A i \in Slot : (At(i, "reply") /\ job[i].req.op = "close")' => job'[i].err = "ok"
  BY <1>1, <1>2 DEF OwnInv, OthersKept, At
<1> QED BY <1>4, <1>5 DEF OwnInv

\* With a close the client gives what it has to the handler.
LEMMA CloseSent ==
  ASSUME FcopyInv, OwnInv, NEW c \in Client, MainCalls(c), main[c].ph = "close"
  PROVE  OwnInv'
<1>i. SenderInv /\ CallInv /\ TypeInv /\ TokenInv(c)
  BY DEF FcopyInv, ServerInv
<1>1. /\ Call(c) /\ UNCHANGED <<fmap, lost>>
      /\ Send(<<"main", c>>, Dest[c][main[c].i], MainReq(c), 0)
  BY DEF MainCalls
<1>2. PICK i \in Target : i = main[c].i
  BY <1>i, <1>1, MainReqType DEF Call
<1>3. PICK s \in Server : s = Dest[c][i]
  BY <1>2, FcopyAssumption
<1>4. PICK r \in Request : r = MainReq(c)
  BY <1>i, <1>1, MainReqType DEF Call
<1>5. r.op = "close" /\ r.tok = tokens[c][i]
  BY <1>2, <1>4 DEF MainReq, CloseReq
<1>6. Send(<<"main", c>>, s, r, 0)
  BY <1>1, <1>2, <1>3, <1>4
<1>7. PICK k \in Slot :
        /\ OthersKept(k) /\ job'[k].pc = FirstPc(r) /\ job'[k].srv = s /\ job'[k].req = r
        /\ \A j \in Slot \ {k} : caller'[j] = caller[j]
  BY <1>i, <1>6, Sent
<1>8. job'[k].pc \in {"has", "erase"}
  BY <1>5, <1>7 DEF FirstPc
<1>9. /\ main[c].at = "go" /\ main'[c].at = "await" /\ main'[c].ph = "close"
      /\ main'[c].i = i /\ tokens' = tokens
      /\ \A d \in Client \ {c} : main'[d] = main[d]
  BY <1>i, <1>1, <1>2, CallMade
<1> DEFINE g == <<"client", c, i>>
           h == <<"job", k>>
<1>10. ClientHolds(c, i)
  BY <1>1, <1>2, <1>9 DEF Call, Calls, ClientHolds, Waits
<1>11. ~ClientHolds(c, i)' /\ \A d \in Client, m \in Target : ClientKeeps(d, m)
  <2>1. ~ClientHolds(c, i)'
    BY <1>9 DEF ClientHolds, Waits
  <2>2. ASSUME NEW d \in Client, NEW m \in Target PROVE ClientKeeps(d, m)
    <3>1. CASE d = c
      BY <1>9, <3>1 DEF ClientKeeps, ClientHolds, Waits
    <3>2. CASE d # c
      BY <1>9, <3>2, StandsStill
    <3> QED BY <3>1, <3>2
  <2> QED BY <2>1, <2>2
<1>12. \A y, u : Owns(h, y, u)' => y = s /\ u = tokens[c][i]
  <2>1. JobTok(k)' = tokens[c][i]
    BY <1>5, <1>7 DEF JobTok
  <2> QED BY <1>7, <2>1 DEF Owns
<1>13. \A y, u : Owns(h, y, u)' => Owns(g, y, u)
  BY <1>3, <1>10, <1>12, OwnerForms
<1>14. \A y, u : ~Owns(g, y, u)'
  BY <1>11 DEF Owns
<1>15. g \in Owner /\ h \in Owner
  BY OwnerForms
<1>16. \A j \in Slot : <<"job", j>> # h => JobKeeps(j)
  BY <1>7, JobStands DEF OthersKept
<1>17. ASSUME NEW x \in Owner, NEW y \in Server, NEW u \in Token, Owns(x, y, u)'
       PROVE  fmap[y][u] # NoEntry
  <2>1. CASE x = h
    <3>1. Owns(g, y, u)
      BY <1>13, <1>17, <2>1
    <3> HIDE DEF g
    <3> QED BY <1>15, <3>1 DEF OwnInv, Exclusive
  <2>2. CASE x # h
    <3>1. Owns(x, y, u)
      BY <1>11, <1>16, <1>17, <2>2, OwnedBefore
    <3> QED BY <3>1 DEF OwnInv, Exclusive
  <2> QED BY <2>1, <2>2
<1> HIDE DEF g, h
<1>18. Exclusive'
  BY <1>1, <1>11, <1>13, <1>14, <1>15, <1>16, <1>17, OwnersMove DEF OwnInv
<1>19. \A j \in Slot : (At(j, "reply") /\ job[j].req.op = "close")' => job'[j].err = "ok"
  BY <1>7, <1>8 DEF OwnInv, OthersKept, At
<1> QED BY <1>1, <1>18, <1>19 DEF OwnInv

-----------------------------------------------------------------------------
(* What the other steps do to the jobs.                                    *)

\* The k-th forwarded request of job j becomes e, nothing else of it changes.
Marks(j, k, e) ==
  /\ At(j, "work") /\ At(j, "work")' /\ KeepsAsk(j) /\ KeepsWork(j)
  /\ job'[j].wr = job[j].wr /\ job'[j].fwd = [job[j].fwd EXCEPT ![k] = e]

\* The mark, made.
LEMMA Marked ==
  ASSUME NEW j \in Slot, job[j] \in GoodJob, At(j, "work"), NEW k \in DOMAIN job[j].fwd,
         NEW e \in Err \cup Pending, job'[j] = [job[j] EXCEPT !.fwd[k] = e]
  PROVE  Marks(j, k, e)
<1> DEFINE g == [job[j].fwd EXCEPT ![k] = e]
           r == [job[j] EXCEPT !.fwd = g]
<1>1. job[j] \in Job
  BY DEF GoodJob
<1>2. job'[j] = r
  OBVIOUS
<1>3. /\ r.pc = job[j].pc /\ r.srv = job[j].srv /\ r.req = job[j].req /\ r.fd = job[j].fd
      /\ r.to = job[j].to /\ r.wr = job[j].wr /\ r.fwd = g
  BY <1>1, Zenon DEF Job
<1> HIDE DEF r
<1> QED BY <1>2, <1>3 DEF Marks, At, KeepsAsk, KeepsWork

\* A handler forwards: the new job has the request of the chunk for the next server.
LEMMA ForwardSent ==
  ASSUME FcopyInv, NEW j \in Slot, NEW k, Forward(j, k)
  PROVE  /\ k \in DOMAIN job[j].to /\ Marks(j, k, "call")
         /\ \E q \in Slot \ {j} :
              /\ At(q, "free") /\ ~Called(q)
              /\ job'[q] = NewJob(job[j].to[k].srv, ForwardReq(j, k))
              /\ job'[q].pc = "getfd" /\ job'[q].srv = job[j].to[k].srv
              /\ job'[q].req = ForwardReq(j, k)
              /\ job'[q].req.op = "send" /\ job'[q].req.tok = job[j].to[k].tok
              /\ job'[q].req.src = job[j].req.src
              /\ job'[q].req.budget = job[j].req.budget - 1
              /\ caller'[q].who = <<"fwd", j, k>>
              /\ \A i \in Slot \ {j, q} : job'[i] = job[i]
              /\ \A i \in Slot \ {q} : caller'[i] = caller[i]
<1>i. ServerInv /\ TypeInv /\ CallInv
  BY DEF FcopyInv, ServerInv
<1>1. Forwarding(j, k) /\ FreeSlots # {}
  BY DEF Forward
<1>2. PICK q \in Slot : q = NextSlot /\ At(q, "free")
  BY <1>1, FreeSlot
<1>3. PICK s, r : s = job[j].to[k].srv /\ r = ForwardReq(j, k)
  OBVIOUS
<1>4. r \in Request /\ s \in Server
  BY <1>i, <1>1, <1>3, ForwardReqType
<1>5. /\ job[j] \in GoodJob /\ At(j, "work") /\ k \in DOMAIN job[j].fwd /\ j # q
      /\ Shaped(job[j]) /\ job[j].req \in Request /\ job[j].req.op = "send"
      /\ k \in DOMAIN job[j].to
  BY <1>i, <1>1, <1>2, AtJob DEF Forwarding, At, Shaped
<1> DEFINE x == [job[j] EXCEPT !.fwd[k] = "call"]
<1>6. x \in GoodJob
  BY <1>5, MarkForward DEF Pending, At
<1>7. job' = [job EXCEPT ![j] = x, ![q] = NewJob(s, r)]
  BY <1>2, <1>3 DEF Forward
<1>8. /\ job'[j] = x /\ job'[q] = NewJob(s, r) /\ \A i \in Slot \ {j, q} : job'[i] = job[i]
  <2> HIDE DEF x
  <2>1. NewJob(s, r) \in GoodJob
    BY <1>4, NewJobGood
  <2> QED BY <1>i, <1>5, <1>6, <1>7, <2>1, TwoJobs
<1>9. Marks(j, k, "call")
  BY <1>5, <1>8, Marked DEF Pending
<1>10. /\ r.op = "send" /\ r.tok = job[j].to[k].tok /\ r.src = job[j].req.src
       /\ r.budget = job[j].req.budget - 1
  <2>1. job[j].req \in [op : {"send"}, tok : Token, off : Offset, len : Nat,
                        src : Source \cup {Hole}, budget : Nat]
    BY <1>5, Zenon DEF Request
  <2> QED BY <1>3, <2>1, Zenon DEF ForwardReq
<1>11. /\ NewJob(s, r).pc = "getfd" /\ NewJob(s, r).srv = s /\ NewJob(s, r).req = r
  BY <1>10 DEF NewJob, FirstPc
<1>12. caller'[q].who = <<"fwd", j, k>> /\ \A i \in Slot \ {q} : caller'[i] = caller[i]
  <2>1. caller' = [caller EXCEPT ![q] = [who |-> <<"fwd", j, k>>, try |-> 0]]
    BY <1>2 DEF Forward
  <2> QED BY <1>i, <2>1 DEF CallInv, CallerInv
<1>13. ~Called(q)
  BY <1>i, <1>2 DEF CallInv, CallerInv
<1> HIDE DEF x
<1> QED BY <1>2, <1>3, <1>5, <1>8, <1>9, <1>10, <1>11, <1>12, <1>13

\* After the reply the handler of a late close goes on, the others have ended.
LEMMA Replied ==
  ASSUME FcopyInv, NEW j \in Slot, Reply(j)
  PROVE  /\ At(j, "reply") /\ UNCHANGED <<fmap, fds, disk, lost>>
         /\ caller'[j] = Nobody /\ \A i \in Slot \ {j} : caller'[i] = caller[i]
         /\ \/ IsLateClose(j) /\ At(j, "erase")' /\ KeepsAsk(j)
            \/ ~IsLateClose(j) /\ job'[j] = NoJob
         /\ \A i \in Slot \ {j} :
              \/ job'[i] = job[i]
              \/ /\ \E k \in Nat : caller[j].who = <<"fwd", i, k>> /\ Marks(i, k, job[j].err)
                 /\ UNCHANGED senderVars
<1>i. ServerInv /\ TypeInv /\ CallInv
  BY DEF FcopyInv, ServerInv
<1>1. /\ At(j, "reply") /\ UNCHANGED <<fmap, fds, disk, lost>>
      /\ caller' = [caller EXCEPT ![j] = Nobody]
  BY DEF Reply
<1>2. caller'[j] = Nobody /\ \A i \in Slot \ {j} : caller'[i] = caller[i]
  BY <1>i, <1>1 DEF CallInv, CallerInv
<1>3. job[j] \in Job /\ job[j].err \in Err
  BY <1>i, <1>1, AtJob DEF At
<1> DEFINE x == AfterReply(j)
           r == [job[j] EXCEPT !.pc = "erase"]
<1>4. x \in GoodJob \cup {NoJob}
  BY <1>3, AfterReplyGood
<1>5. r.pc = "erase" /\ r.srv = job[j].srv /\ r.req = job[j].req
  BY <1>3, Zenon DEF Job
<1>6. x = IF IsLateClose(j) THEN r ELSE NoJob
  BY DEF AfterReply
<1> HIDE DEF x, r
<1>7. job'[j] = x => \/ IsLateClose(j) /\ At(j, "erase")' /\ KeepsAsk(j)
                     \/ ~IsLateClose(j) /\ job'[j] = NoJob
  BY <1>5, <1>6 DEF At, KeepsAsk
<1>8. PICK who \in Who : who = caller[j].who
  BY <1>i DEF CallInv, CallerInv
<1>9. CASE who[1] = "fwd"
  <2>1. PICK i, k : i = who[2] /\ k = who[3]
    OBVIOUS
  <2>2. PICK s, q : s = job[j].srv /\ q = job[j].req
    OBVIOUS
  <2>3. Called(j)
    BY <1>8, <1>9, WhoForms DEF Called
  <2>4. Awaits(who, s, q)
    BY <1>i, <1>8, <2>2, <2>3 DEF CallInv, CallerInv
  <2>5. /\ i \in Slot /\ At(i, "work") /\ k \in DOMAIN job[i].fwd /\ k \in Nat
        /\ who = <<"fwd", i, k>>
    BY <1>9, <2>1, <2>4, WhoForms DEF Awaits
  <2>6. i # j /\ job[i] \in GoodJob /\ job[i].pc = "work"
    BY <1>i, <1>1, <2>5, AtJob DEF At
  <2> DEFINE v == [job[i] EXCEPT !.fwd[k] = job[j].err]
  <2>7. v \in GoodJob
    BY <1>3, <2>5, <2>6, MarkForward
  <2>8. job' = [job EXCEPT ![j] = x, ![i] = v] /\ UNCHANGED senderVars
    <3>1. /\ job' = [job EXCEPT ![j] = x, ![i].fwd[k] = job[j].err]
          /\ UNCHANGED senderVars
      BY <1>8, <1>9, <2>1 DEF Reply, x
    <3> QED BY <2>6, <3>1
  <2>9. job'[j] = x /\ job'[i] = v /\ \A n \in Slot \ {j, i} : job'[n] = job[n]
    <3> HIDE DEF v
    <3> QED BY <1>i, <1>4, <2>5, <2>6, <2>7, <2>8, TwoJobs
  <2>10. Marks(i, k, job[j].err)
    BY <1>3, <2>5, <2>6, <2>9, Marked
  <2> HIDE DEF v
  <2> QED BY <1>1, <1>2, <1>7, <1>8, <2>5, <2>8, <2>9, <2>10
<1>10. CASE who[1] # "fwd"
  <2>1. job' = [job EXCEPT ![j] = x]
    BY <1>8, <1>10 DEF Reply, x
  <2>2. job'[j] = x /\ \A i \in Slot \ {j} : job'[i] = job[i]
    BY <1>i, <1>4, <2>1, JobUpdate
  <2> QED BY <1>1, <1>2, <1>7, <2>2
<1> QED BY <1>9, <1>10

\* A call that fails for good fails at its caller.
LEMMA GaveUp ==
  ASSUME FcopyInv, NEW l \in lost, GiveUpCall(l)
  PROVE  \A i \in Slot :
           \/ job'[i] = job[i]
           \/ /\ \E k \in Nat : l.who = <<"fwd", i, k>> /\ Marks(i, k, "EIO")
              /\ UNCHANGED senderVars
<1>i. ServerInv /\ TypeInv /\ CallInv /\ "EIO" \in Err
  BY DEF FcopyInv, ServerInv, Err
<1>1. PICK who \in Who : who = l.who
  BY <1>i DEF CallInv, LostInv
<1>2. CASE who[1] = "fwd"
  <2>1. PICK i, k : i = who[2] /\ k = who[3]
    OBVIOUS
  <2>2. Awaits(who, l.srv, l.req)
    BY <1>i, <1>1 DEF CallInv, LostInv
  <2>3. /\ i \in Slot /\ At(i, "work") /\ k \in DOMAIN job[i].fwd /\ k \in Nat
        /\ who = <<"fwd", i, k>>
    BY <1>2, <2>1, <2>2, WhoForms DEF Awaits
  <2>4. job[i] \in GoodJob /\ job[i].pc = "work"
    BY <1>i, <2>3, AtJob DEF At
  <2> DEFINE v == [job[i] EXCEPT !.fwd[k] = "EIO"]
  <2>5. v \in GoodJob
    BY <1>i, <2>3, <2>4, MarkForward
  <2>6. job' = [job EXCEPT ![i] = v] /\ UNCHANGED senderVars
    BY <1>1, <1>2, <2>1 DEF GiveUpCall
  <2>7. job'[i] = v /\ \A n \in Slot \ {i} : job'[n] = job[n]
    <3> HIDE DEF v
    <3> QED BY <1>i, <2>3, <2>5, <2>6, JobUpdate
  <2>8. Marks(i, k, "EIO")
    BY <1>i, <2>3, <2>4, <2>7, Marked
  <2> HIDE DEF v
  <2> QED BY <1>1, <2>3, <2>6, <2>7, <2>8
<1>3. CASE who[1] # "fwd"
  BY <1>1, <1>3 DEF GiveUpCall
<1> QED BY <1>2, <1>3

-----------------------------------------------------------------------------
(* Each entry has one owner.                                               *)

\* The request that the reply answers is the one its client waits with.
LEMMA RepliesTo ==
  ASSUME CallInv, NEW j \in Slot, NEW c \in Client, caller[j].who = <<"main", c>>
  PROVE  /\ Called(j) /\ main[c].at = "await"
         /\ job[j].srv = Dest[c][main[c].i] /\ job[j].req = MainReq(c)
<1>1. Called(j)
  BY DEF Called
<1>2. PICK who : who = <<"main", c>>
  OBVIOUS
<1>3. Awaits(who, job[j].srv, job[j].req) /\ who[1] = "main" /\ who[2] = c
  BY <1>1, <1>2 DEF CallInv, CallerInv
<1> QED BY <1>1, <1>3 DEF Awaits

\* With the reply to its create the client gets the entry; with that to its close the
\* handler has it still, or has erased it.
LEMMA ReplyOwns ==
  ASSUME FcopyInv, OwnInv, NEW j \in Slot, Reply(j)
  PROVE  OwnInv'
<1>i. SenderInv /\ CallInv /\ TypeInv
  BY DEF FcopyInv, ServerInv
<1>1. /\ At(j, "reply") /\ fmap' = fmap /\ lost' = lost
      /\ caller'[j] = Nobody /\ \A i \in Slot \ {j} : caller'[i] = caller[i]
      /\ \/ IsLateClose(j) /\ At(j, "erase")' /\ KeepsAsk(j)
         \/ ~IsLateClose(j) /\ job'[j] = NoJob
      /\ \A i \in Slot \ {j} : job'[i] = job[i] \/ \E k : Marks(i, k, job[j].err)
  BY Replied
<1>2. JobKeeps(j) /\ (~IsLateClose(j) => ~HoldsEntry(j)')
  <2>1. CASE IsLateClose(j) /\ At(j, "erase")' /\ KeepsAsk(j)
    BY <1>1, <2>1 DEF JobKeeps, HoldsEntry, JobTok, KeepsAsk
  <2>2. CASE ~IsLateClose(j) /\ job'[j] = NoJob
    <3>1. job'[j].pc = "free"
      BY <2>2 DEF NoJob
    <3> QED BY <3>1, JobHoldsNone
  <2> QED BY <1>1, <2>1, <2>2
<1>3. \A i \in Slot : JobKeeps(i)
  <2> SUFFICES ASSUME NEW i \in Slot, i # j PROVE JobKeeps(i)
    BY <1>2
  <2>1. CASE job'[i] = job[i]
    BY <1>1, <2>1, JobStands
  <2>2. CASE \E k : Marks(i, k, job[j].err)
    BY <2>2, JobHoldsNone DEF Marks, At
  <2> QED BY <1>1, <2>1, <2>2
<1>4. \A i \in Slot : (At(i, "reply") /\ job[i].req.op = "close")' => job'[i].err = "ok"
  <2> SUFFICES ASSUME NEW i \in Slot, job'[i].pc = "reply", job'[i].req.op = "close"
               PROVE  job'[i].err = "ok"
    BY DEF At
  <2>1. i # j
    BY <1>1 DEF At, NoJob
  <2>2. job'[i] = job[i]
    BY <1>1, <2>1 DEF Marks, At
  <2> QED BY <2>2 DEF OwnInv, At
<1>5. ASSUME \A c \in Client, i \in Target : ClientKeeps(c, i) PROVE OwnInv'
  <2>1. Exclusive'
    BY <1>1, <1>3, <1>5, OwnersStay DEF OwnInv
  <2> QED BY <1>1, <1>4, <2>1 DEF OwnInv
<1>6. CASE main' = main /\ tokens' = tokens
  BY <1>5, <1>6, StandsStill
<1>7. PICK who \in Who : who = caller[j].who
  BY <1>i DEF CallInv, CallerInv
<1>8. PICK e, t : e = job[j].err /\ t = Answer(j)
  OBVIOUS
<1>9. ASSUME NEW c \in Client, who = <<"main", c>>,
             OpenReturns(c, e, t) \/ ChainReturns(c, e) \/ CloseReturns(c, e)
      PROVE  OwnInv'
  <2>1. CASE ~(e = "ok" /\ OpenReturns(c, e, t))
    <3>1. main[c].ph = "close" => e = "ok"
      <4> SUFFICES ASSUME main[c].ph = "close" PROVE e = "ok"
        OBVIOUS
      <4>1. job[j].req = MainReq(c)
        BY <1>i, <1>7, <1>9, RepliesTo
      <4>2. job[j].req.op = "close"
        BY <4>1 DEF MainReq, CloseReq
      <4> QED BY <1>1, <1>8, <4>2 DEF OwnInv
    <3>2. \A d \in Client, i \in Target : ClientKeeps(d, i)
      BY <1>i, <1>9, <2>1, <3>1, ReturnHolds
    <3> QED BY <1>5, <3>2
  <2>2. CASE e = "ok" /\ OpenReturns(c, e, t)
    <3>1. /\ Called(j) /\ job[j].srv = Dest[c][main[c].i] /\ job[j].req.op = "create"
          /\ t = TokenOf[job[j].req.name] /\ t \in Token
      BY <1>7, <1>8, <1>9, <2>2, CreateAnswers DEF OpenReturns, Waits
    <3>2. PICK i : i = main[c].i
      OBVIOUS
    <3>3. OpenReturns(c, "ok", t)
      BY <2>2
    <3>4. /\ i \in Target /\ tokens'[c][i] = t
          /\ \A m \in Target \ {i} : tokens'[c][m] = tokens[c][m]
          /\ main'[c].at = "go"
          /\ \A d \in Client \ {c} : main'[d] = main[d] /\ tokens'[d] = tokens[d]
      BY <1>i, <3>1, <3>2, <3>3, OpenGives
    <3>5. main[c].ph = "open"
      BY <3>3 DEF OpenReturns, Waits
    <3> DEFINE g == <<"job", j>>
               h == <<"client", c, i>>
    <3>6. \A d \in Client, m \in Target : <<"client", d, m>> # h => ClientKeeps(d, m)
      <4> SUFFICES ASSUME NEW d \in Client, NEW m \in Target, ~(d = c /\ m = i)
                   PROVE  ClientKeeps(d, m)
        OBVIOUS
      <4>1. CASE d = c
        BY <3>4, <3>5, <4>1 DEF ClientKeeps, ClientHolds, Waits
      <4>2. CASE d # c
        BY <3>4, <4>2, StandsStill
      <4> QED BY <4>1, <4>2
    <3>7. HoldsEntry(j) /\ JobTok(j) = t /\ ~IsLateClose(j)
      BY <1>1, <1>8, <2>2, <3>1 DEF HoldsEntry, JobTok, IsLateClose
    <3>8. \A y, u : ~Owns(g, y, u)'
      BY <1>2, <3>7 DEF Owns
    <3>9. \A y, u : Owns(h, y, u)' => Owns(g, y, u)
      <4> SUFFICES ASSUME NEW y, NEW u, Owns(h, y, u)' PROVE Owns(g, y, u)
        OBVIOUS
      <4>1. y = Dest[c][i] /\ u = t
        BY <3>4 DEF Owns
      <4> QED BY <3>1, <3>2, <3>7, <4>1, OwnerForms
    <3>10. g \in Owner /\ h \in Owner
      BY <3>4, OwnerForms
    <3>11. ASSUME NEW x \in Owner, NEW y \in Server, NEW u \in Token, Owns(x, y, u)'
           PROVE  fmap[y][u] # NoEntry
      <4>1. CASE x = h
        <5>1. Owns(g, y, u)
          BY <3>9, <3>11, <4>1
        <5> HIDE DEF g
        <5> QED BY <3>10, <5>1 DEF OwnInv, Exclusive
      <4>2. CASE x # h
        <5>1. Owns(x, y, u)
          BY <1>3, <3>6, <3>11, <4>2, OwnedBefore
        <5> QED BY <5>1 DEF OwnInv, Exclusive
      <4> QED BY <4>1, <4>2
    <3> HIDE DEF g, h
    <3>12. Exclusive'
      BY <1>1, <1>3, <3>6, <3>8, <3>9, <3>10, <3>11, OwnersMove DEF OwnInv
    <3> QED BY <1>1, <1>4, <3>12 DEF OwnInv
  <2> QED BY <2>1, <2>2
<1>10. UNCHANGED senderVars \/ Resume(who, e, t)
  BY <1>7, <1>8 DEF Reply
<1>11. CASE who[1] = "main" /\ Resume(who, e, t)
  <2>1. PICK c \in Client : who = <<"main", c>>
    BY <1>11, WhoForms
  <2>2. OpenReturns(c, e, t) \/ ChainReturns(c, e) \/ CloseReturns(c, e)
    BY <1>11, <2>1 DEF Resume
  <2> QED BY <1>9, <2>1, <2>2
<1>12. CASE who[1] # "main" \/ UNCHANGED senderVars
  <2>1. main' = main /\ tokens' = tokens
    BY <1>10, <1>12 DEF Resume, SendReturns, senderVars
  <2> QED BY <1>6, <2>1
<1> QED BY <1>10, <1>11, <1>12

\* A call that fails for good was no close: nobody loses what it has.
LEMMA GiveUpOwns ==
  ASSUME FcopyInv, OwnInv, NEW l \in lost, GiveUpCall(l)
  PROVE  OwnInv'
<1>i. SenderInv /\ CallInv
  BY DEF FcopyInv
<1>1. fmap' = fmap /\ caller' = caller /\ lost' \subseteq lost
  BY DEF GiveUpCall
<1>2. \A i \in Slot : job'[i] = job[i] \/ \E k : Marks(i, k, "EIO")
  BY GaveUp
<1>3. \A i \in Slot : JobKeeps(i)
  <2> SUFFICES ASSUME NEW i \in Slot PROVE JobKeeps(i)
    OBVIOUS
  <2>1. CASE job'[i] = job[i]
    BY <1>1, <2>1, JobStands
  <2>2. CASE \E k : Marks(i, k, "EIO")
    BY <2>2, JobHoldsNone DEF Marks, At
  <2> QED BY <1>2, <2>1, <2>2
<1>4. \A i \in Slot : (At(i, "reply") /\ job[i].req.op = "close")' => job'[i].err = "ok"
  BY <1>2 DEF OwnInv, Marks, At
<1>5. PICK who \in Who : who = l.who
  BY <1>i DEF CallInv, LostInv
<1>6. UNCHANGED senderVars \/ Resume(who, "EIO", NoToken)
  BY <1>5 DEF GiveUpCall
<1>7. \A c \in Client, i \in Target : ClientKeeps(c, i)
  <2>1. CASE who[1] = "main" /\ Resume(who, "EIO", NoToken)
    <3>1. PICK c \in Client : who = <<"main", c>>
      BY <2>1, WhoForms
    <3>2. \/ OpenReturns(c, "EIO", NoToken) \/ ChainReturns(c, "EIO")
          \/ CloseReturns(c, "EIO")
      BY <2>1, <3>1 DEF Resume
    <3>3. main[c].ph # "close"
      <4> SUFFICES ASSUME main[c].ph = "close" PROVE FALSE
        OBVIOUS
      <4>1. Awaits(who, l.srv, l.req)
        BY <1>i, <1>5 DEF CallInv, LostInv
      <4>2. l.req = MainReq(c)
        BY <3>1, <4>1 DEF Awaits
      <4>3. l.req.op = "close"
        BY <4>2 DEF MainReq, CloseReq
      <4> QED BY <4>3 DEF OwnInv
    <3>4. main[c].ph = "open" \/ main[c].ph = "chain"
      BY <3>2, <3>3 DEF OpenReturns, ChainReturns, CloseReturns, Waits
    <3> QED BY <1>i, <3>2, <3>3, ReturnHolds
  <2>2. CASE who[1] # "main" \/ UNCHANGED senderVars
    <3>1. main' = main /\ tokens' = tokens
      BY <1>6, <2>2 DEF Resume, SendReturns, senderVars
    <3> QED BY <3>1, StandsStill
  <2> QED BY <1>6, <2>1, <2>2
<1>8. Exclusive'
  BY <1>1, <1>3, <1>7, OwnersStay DEF OwnInv
<1> QED BY <1>1, <1>4, <1>8 DEF OwnInv

\* Every step keeps the entries with their owners, if no connection breaks under a
\* close and no server goes down.
LEMMA OwnNext ==
  ASSUME Unbroken({"close", "crash"}), FcopyInv, OwnInv, [Next]_vars
  PROVE  OwnInv'
<1>i. SenderInv /\ ServerInv /\ CallInv /\ TypeInv
  BY DEF FcopyInv, ServerInv
<1>0. ASSUME UNCHANGED <<serverVars, caller, lost>>,
             \A c \in Client, i \in Target : ClientKeeps(c, i)
      PROVE  OwnInv'
  <2>1. \A j \in Slot : JobKeeps(j)
    BY <1>0, JobStands DEF serverVars
  <2>2. Exclusive'
    BY <1>0, <2>1, OwnersStay DEF OwnInv, serverVars
  <2> QED BY <1>0, <2>2 DEF OwnInv, serverVars, At
<1>1. ASSUME NEW c \in Client, ClientMain(c) \/ ClientFails(c) PROVE OwnInv'
  <2>1. CASE MainCalls(c) /\ main[c].ph = "close"
    BY <2>1, CloseSent
  <2>2. CASE MainCalls(c) /\ main[c].ph # "close"
    <3>1. /\ Call(c) /\ UNCHANGED <<fmap, lost>> /\ main[c].at = "go" /\ Calls(c)
          /\ Send(<<"main", c>>, Dest[c][main[c].i], MainReq(c), 0)
      BY <2>2 DEF MainCalls, Call
    <3>2. MainReq(c) \in Request /\ main[c].i \in Target
      BY <1>i, <3>1, MainReqType DEF FcopyInv
    <3>3. PICK s \in Server : s = Dest[c][main[c].i]
      BY <3>2, FcopyAssumption
    <3>4. PICK r \in Request : r = MainReq(c)
      BY <3>2
    <3>5. main[c].ph \in {"open", "chain"}
      BY <2>2, <3>1 DEF Calls
    <3>6. r.op # "close"
      BY <3>4, <3>5 DEF MainReq, CreateReq, SetChainReq
    <3>7. Send(<<"main", c>>, s, r, 0)
      BY <3>1, <3>3, <3>4
    <3>8. \A d \in Client, i \in Target : ClientKeeps(d, i)
      <4> SUFFICES ASSUME NEW d \in Client, NEW i \in Target PROVE ClientKeeps(d, i)
        OBVIOUS
      <4>1. /\ tokens' = tokens /\ main'[c].ph = main[c].ph
            /\ \A m \in Client \ {c} : main'[m] = main[m]
        BY <1>i, <3>1, CallMade
      <4>2. CASE d = c
        BY <3>5, <4>1, <4>2 DEF ClientKeeps, ClientHolds, Waits
      <4>3. CASE d # c
        BY <4>1, <4>3, StandsStill
      <4> QED BY <4>2, <4>3
    <3> QED BY <1>i, <3>1, <3>6, <3>7, <3>8, SentQuiet
  <2>3. CASE (MainInternal(c) \/ LocalOpenFails(c)) /\ ServersIdle
    BY <1>i, <1>0, <2>3, AloneKeeps DEF ServersIdle
  <2> QED BY <1>1, <2>1, <2>2, <2>3 DEF ClientMain, ClientFails
<1>2. ASSUME NEW c \in Client, NEW w \in Worker, ClientWorker(c, w) PROVE OwnInv'
  <2>1. main' = main /\ tokens' = tokens
    BY <1>2 DEF ClientWorker, WorkerCalls, WorkerRead, WorkerCheck, WorkerClaim, WorkerFail,
                WorkerAlloc
  <2>2. \A d \in Client, i \in Target : ClientKeeps(d, i)
    BY <2>1, StandsStill
  <2>3. CASE ServersIdle
    BY <1>0, <2>2, <2>3 DEF ServersIdle
  <2>4. CASE WorkerCalls(c, w)
    <3>1. WorkerRead(c, w) /\ UNCHANGED <<fmap, fds, disk, lost>>
      BY <2>4 DEF WorkerCalls
    <3>2. /\ ChunkReq(c, w) \in Request /\ 0 \in Target
          /\ \A n \in 0..ChunkReq(c, w).len-1 : ShortReq(c, w, n) \in Request
      BY <1>i, <3>1, ChunkReqType DEF FcopyInv, WorkerRead
    <3>3. PICK s \in Server : s = Dest[c][0]
      BY <3>2, FcopyAssumption
    <3>4. ChunkReq(c, w).op = "send" /\ \A n : ShortReq(c, w, n).op = "send"
      BY DEF ChunkReq, ShortReq, SendReq
    <3>5. CASE \E r \in Request : r.op = "send" /\ Send(<<"work", c, w>>, s, r, 0)
      BY <1>i, <2>2, <3>1, <3>5, SentQuiet
    <3>6. CASE UNCHANGED <<job, caller>>
      BY <1>0, <2>2, <3>1, <3>6 DEF serverVars
    <3> QED BY <2>4, <3>2, <3>3, <3>4, <3>5, <3>6, Zenon DEF WorkerCalls
  <2> QED BY <1>2, <2>3, <2>4 DEF ClientWorker
<1>3. ASSUME NEW j \in Slot, JobStep(j) \/ JobFails(j) \/ SendWriteShort(j),
             UNCHANGED <<senderVars, caller, lost>>
      PROVE  OwnInv'
  BY <1>i, <1>3, CreateOwns, SendOwns, CloseOwns DEF JobStep, JobFails
<1>4. ASSUME NEW j \in Slot, NEW k, Forward(j, k) PROVE OwnInv'
  <2>1. PICK q \in Slot \ {j} :
          /\ job'[q].pc = "getfd"
          /\ \A i \in Slot \ {j, q} : job'[i] = job[i]
          /\ \A i \in Slot \ {q} : caller'[i] = caller[i]
    BY <1>4, ForwardSent
  <2>2. job'[j].pc = "work"
    BY <1>4, ForwardSent DEF Marks, At
  <2>3. \A i \in Slot : JobKeeps(i)
    BY <2>1, <2>2, JobStands, JobHoldsNone
  <2>4. UNCHANGED <<senderVars, fmap, lost>>
    BY <1>4 DEF Forward
  <2>5. Exclusive'
    BY <2>3, <2>4, OwnersStay, StandsStill DEF OwnInv, senderVars
  <2>6. \A i \in Slot : (At(i, "reply") /\ job[i].req.op = "close")' => job'[i].err = "ok"
    BY <2>1, <2>2 DEF OwnInv, At
  <2> QED BY <2>4, <2>5, <2>6 DEF OwnInv
<1>5. ASSUME NEW j \in Slot, Disconnect(j) PROVE OwnInv'
  <2>1. /\ job[j].req.op # "close" /\ lost' = lost \cup {LostCall(j)}
        /\ caller' = [caller EXCEPT ![j] = Nobody] /\ UNCHANGED <<senderVars, fmap>>
        /\ job' = [job EXCEPT ![j] = NoJob] \/ job' = job
    BY <1>5 DEF Disconnect, Fault, Unbroken
  <2>2. \A i \in Slot : caller'[i] \in {caller[i], Nobody}
    BY <1>i, <2>1 DEF CallInv, CallerInv
  <2>3. \A i \in Slot : job'[i] = job[i] \/ job'[i] = NoJob
    BY <1>i, <2>1 DEF TypeInv
  <2>4. NoJob.pc = "free"
    BY DEF NoJob
  <2>5. \A i \in Slot : JobKeeps(i)
    BY <2>2, <2>3, <2>4, JobStands, JobHoldsNone
  <2>6. Exclusive'
    BY <2>1, <2>5, OwnersStay, StandsStill DEF OwnInv, senderVars
  <2>7. \A i \in Slot : (At(i, "reply") /\ job[i].req.op = "close")' => job'[i].err = "ok"
    BY <2>3, <2>4 DEF OwnInv, At
  <2>8. LostCall(j).req.op # "close"
    BY <2>1 DEF LostCall
  <2> QED BY <2>1, <2>6, <2>7, <2>8 DEF OwnInv
<1>6. ASSUME NEW j \in Slot, ServerStep(j) \/ ServerFails(j) \/ Disconnect(j) PROVE OwnInv'
  BY <1>3, <1>4, <1>5, <1>6, ReplyOwns DEF ServerStep, ServerFails, netVars
<1>7. ASSUME NEW l \in lost, Redial(l) PROVE OwnInv'
  <2>1. /\ Send(l.who, l.srv, l.req, l.try + 1) /\ lost' = lost \ {l}
        /\ UNCHANGED <<senderVars, fmap>>
    BY <1>7 DEF Redial
  <2>2. l.srv \in Server /\ l.req \in Request
    BY <1>i DEF CallInv, LostInv
  <2>3. l.req.op # "close" /\ lost' \subseteq lost
    BY <2>1 DEF OwnInv
  <2>4. \A c \in Client, i \in Target : ClientKeeps(c, i)
    BY <2>1, StandsStill DEF senderVars
  <2> QED BY <1>i, <2>1, <2>2, <2>3, <2>4, SentQuiet
<1>8. ASSUME NEW s \in Server, Crash(s) PROVE OwnInv'
  BY <1>8 DEF Crash, Fault, Unbroken
<1>9. CASE UNCHANGED vars
  <2>1. UNCHANGED <<senderVars, serverVars, caller, lost>>
    BY <1>9 DEF vars, netVars
  <2>2. \A c \in Client, i \in Target : ClientKeeps(c, i)
    BY <2>1, StandsStill DEF senderVars
  <2> QED BY <1>0, <2>1, <2>2
<1> QED BY <1>1, <1>2, <1>6, <1>7, <1>8, <1>9, GiveUpOwns DEF Next, RetryStep

\* At first nobody owns anything.
LEMMA OwnInit == Init => NamedTokens /\ OwnInv
<1> SUFFICES ASSUME Init PROVE NamedTokens /\ OwnInv
  OBVIOUS
<1>1. \A c \in Client, i \in Target : tokens[c][i] = NoToken
  BY DEF Init, SenderInit, NoTokens
<1>2. \A j \in Slot : job[j].pc = "free"
  BY DEF Init, ServerInit, NoJob
<1>3. \A c \in Client, i \in Target : ~ClientHolds(c, i)
  BY <1>1 DEF ClientHolds
<1>4. \A j \in Slot : ~HoldsEntry(j)
  BY <1>2 DEF HoldsEntry, At
<1>5. ASSUME NEW h \in Owner, NEW s, NEW t PROVE ~Owns(h, s, t)
  BY <1>3, <1>4, OwnerForms
<1>6. lost = {}
  BY DEF Init
<1> QED BY <1>1, <1>2, <1>5, <1>6 DEF NamedTokens, OwnInv, Exclusive, At

\* While no connection breaks under a close and no server goes down, an entry of a
\* server's table belongs to the one client that made it until that client has it
\* closed, and every close finds the entry it is for.
THEOREM EntriesAreOwned == Unbroken({"close", "crash"}) => (Spec => []OwnInv)
<1>1. ASSUME Unbroken({"close", "crash"}) PROVE FcopyInv /\ OwnInv /\ [Next]_vars => OwnInv'
  BY <1>1, OwnNext
<1>2. Init => OwnInv
  BY OwnInit
<1>3. ASSUME Unbroken({"close", "crash"}) PROVE Spec => []OwnInv
  BY <1>1, <1>2, <1>3, SystemKeepsInv, PTL DEF Spec
<1> QED BY <1>3

\* OneUploader: two clients that are past their creates have no server in common on
\* which they upload under one name.  A client past its creates holds a token for each
\* of its targets (TokenInv), the hash of the name (NamedTokens), so both would own one
\* entry.
THEOREM OneUploaderOnly == Unbroken({"close", "crash"}) => (Spec => []OneUploader)
<1>1. FcopyInv /\ NamedTokens /\ [Next]_vars => NamedTokens'
  BY NamedNext
<1>2. Init => NamedTokens
  BY OwnInit
<1>3. FcopyInv /\ NamedTokens /\ OwnInv => OneUploader
  <2> SUFFICES ASSUME FcopyInv, NamedTokens, OwnInv,
                      NEW c \in Client, NEW d \in Client, c # d,
                      main[c].ph \in {"chain", "send"}, main[d].ph \in {"chain", "send"},
                      NEW i \in Target, NEW k \in Target, Dest[c][i] = Dest[d][k],
                      File(c).name = File(d).name
               PROVE  FALSE
    BY Zenon DEF OneUploader
  <2>1. PICK s, t : s \in Server /\ s = Dest[c][i] /\ t = tokens[c][i]
    BY FcopyAssumption
  <2>2. tokens[c][i] # NoToken /\ tokens[d][k] # NoToken
    BY DEF FcopyInv, TokenInv
  <2>3. t = tokens[d][k] /\ t \in Token
    <3>1. tokens \in [Client -> [Target -> Token \cup {NoToken}]]
      BY DEF FcopyInv, SenderInv, SenderTypeOK
    <3> QED BY <2>1, <2>2, <3>1 DEF NamedTokens
  <2>4. ClientHolds(c, i) /\ ClientHolds(d, k)
    BY <2>2 DEF ClientHolds, Waits
  <2>5. PICK g \in Owner, h \in Owner : g = <<"client", c, i>> /\ h = <<"client", d, k>>
    BY OwnerForms
  <2>6. Owns(g, s, t) /\ Owns(h, s, t) /\ g # h
    BY <2>1, <2>3, <2>4, <2>5, OwnerForms
  <2> QED BY <2>1, <2>3, <2>6 DEF OwnInv, Exclusive
<1> QED BY <1>1, <1>2, <1>3, SystemKeepsInv, EntriesAreOwned, PTL DEF Spec
=============================================================================
