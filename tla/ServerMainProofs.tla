-------------------------- MODULE ServerMainProofs --------------------------
(***************************************************************************)
(* Whatever the command line and the configuration file are, and however   *)
(* many signals and requests there are: while the server serves, nothing   *)
(* takes the parts away that an unanswered request needs, a status of 0 in *)
(* the foreground means that it served until a signal came, and it listens *)
(* only on the port that the file and the options say.                     *)
(***************************************************************************)
EXTENDS ServerMain, SequenceTheorems, FiniteSetTheorems, WellFoundedInduction, TLAPS

\* Where main is while requests may arrive, and while some may be under way.
Accepting == {"cli", "mng", "run", "wait", "sleep", "asleep", "stop"}
Serving == Accepting \cup {"finish"}

\* Where main is once every part has been made.
Complete == {"run", "wait", "sleep", "asleep", "stop", "finish"}

Before == {"find", "load", "args", "port", "daemon", "log", "signals", "make", "listen"}

\* When the parts are made, when requests are let in and when the object goes.
OrderInv ==
  /\ pc \in Before \cup {"cli"} => made = {}
  /\ pc = "mng" => made = {"cli"}
  /\ pc \in Complete => made = Parts
  /\ listening => pc \in Accepting \cup {"killed"}
  /\ freed => pc \in {"quit", "exit", "killed"}

\* A request under way that is not early has found every part, and none is
\* under way before Listen or after WaitFinish.
RequestInv ==
  /\ req \in [Req -> {"none", "begun", "reply", "late"}]
  /\ \A r \in Req : req[r] \in {"begun", "reply"} =>
       /\ r \in early \/ made = Parts
       /\ pc \in Serving \cup {"killed"}

LifeInv == OrderInv /\ RequestInv /\ OnlyRacesKill

-----------------------------------------------------------------------------
\* At first there is no service object and no request.
LEMMA LifeInit == MainInit => LifeInv
BY DEF MainInit, LifeInv, OrderInv, RequestInv, OnlyRacesKill, Complete, Serving,
       Accepting, Before

\* What a step of main leaves alone but pc: enough while no part is made.
LEMMA QuietStep ==
  ASSUME LifeInv, UNCHANGED <<freed, made, listening, req, early, killer>>,
         pc \notin Serving \cup {"killed"}, pc' \notin Serving \cup {"killed"},
         freed => pc' \in {"quit", "exit"}, pc' \in Before => pc \in Before
  PROVE  LifeInv'
<1>1. OrderInv'
  BY DEF LifeInv, OrderInv, Complete, Serving, Accepting, Before
<1>2. RequestInv'
  BY DEF LifeInv, RequestInv, OrderInv, Serving, Accepting, Before
<1>3. OnlyRacesKill'
  BY DEF OnlyRacesKill
<1> QED BY <1>1, <1>2, <1>3 DEF LifeInv

\* Before and after it serves, main changes nothing that requests look at.
LEMMA MainStepInv ==
  ASSUME LifeInv, MainStep
  PROVE  LifeInv'
<1> USE DEF objVars, envVars, cfgVars, Goto, Exit, LifeInv, OrderInv, Serving, Accepting,
            Before, Complete
<1>1. CASE FindConfig
  BY <1>1, QuietStep DEF FindConfig
<1>2. CASE NoConfig \/ ScanLine \/ ApplyLine \/ ConfigDone
  BY <1>2, QuietStep DEF NoConfig, ScanLine, ApplyLine, ConfigDone
<1>3. CASE ApplyArgs
  BY <1>3, QuietStep DEF ApplyArgs
<1>4. CASE CheckPort
  BY <1>4, QuietStep DEF CheckPort
<1>5. CASE Daemonize
  BY <1>5, QuietStep DEF Daemonize
<1>6. CASE OpenLog
  BY <1>6, QuietStep DEF OpenLog
<1>7. CASE InstallHandlers
  BY <1>7, QuietStep DEF InstallHandlers
<1>8. CASE MakeService
  BY <1>8, QuietStep DEF MakeService
<1>9. CASE StartFails
  BY <1>9, QuietStep DEF StartFails
<1>10. CASE Listen
  BY <1>10 DEF Listen, RequestInv, OnlyRacesKill
<1>11. CASE MakePart("cli", "mng")
  BY <1>11 DEF MakePart, Parts, RequestInv, OnlyRacesKill
<1>12. CASE MakePart("mng", "run")
  BY <1>12 DEF MakePart, Parts, RequestInv, OnlyRacesKill
<1>13. CASE SetRunning
  BY <1>13 DEF SetRunning, RequestInv, OnlyRacesKill
<1>14. CASE TestRunning
  BY <1>14 DEF TestRunning, RequestInv, OnlyRacesKill
<1>15. CASE WaitRunning
  BY <1>15 DEF WaitRunning, RequestInv, OnlyRacesKill
<1>16. CASE Shutdown
  BY <1>16 DEF Shutdown, RequestInv, OnlyRacesKill
<1>17. CASE WaitFinish
  <2>1. /\ \A r \in Req : req[r] \notin {"begun", "reply"}
        /\ ~listening /\ made = Parts /\ ~freed
    BY <1>17 DEF WaitFinish, Finished, Answering
  <2> QED
    BY <1>17, <2>1 DEF WaitFinish, RequestInv, OnlyRacesKill
<1>18. CASE Reset
  BY <1>18, QuietStep DEF Reset
<1>19. CASE Destroy
  BY <1>19 DEF Destroy, RequestInv, OnlyRacesKill
<1>20. CASE Quit
  BY <1>20, QuietStep DEF Quit
<1> QED
  BY <1>1, <1>2, <1>3, <1>4, <1>5, <1>6, <1>7, <1>8, <1>9, <1>10, <1>11, <1>12,
     <1>13, <1>14, <1>15, <1>16, <1>17, <1>18, <1>19, <1>20 DEF MainStep

\* A signal handler touches no request and no part, but may find the object gone.
LEMMA SignalInv ==
  ASSUME LifeInv, NEW h \in Sig, SignalArrives(h) \/ SignalStep(h)
  PROVE  LifeInv'
<1> USE DEF mainVars, cfgVars, Dead, Serving, Accepting, Before, Complete
<1>1. CASE SignalArrives(h)
  BY <1>1 DEF SignalArrives, Exit, LifeInv, OrderInv, RequestInv, OnlyRacesKill
<1>2. CASE SignalChecks(h)
  BY <1>2 DEF SignalChecks, LifeInv, OrderInv, RequestInv, OnlyRacesKill
<1>3. CASE SignalStores(h)
  BY <1>3 DEF SignalStores, Killed, LifeInv, OrderInv, RequestInv, OnlyRacesKill
<1>4. CASE SignalWakes(h)
  BY <1>4 DEF SignalWakes, LifeInv, OrderInv, RequestInv, OnlyRacesKill
<1> QED BY <1>1, <1>2, <1>3, <1>4 DEF SignalStep, NotifyStep

\* A request arrives while the parts are being made, and then is early, or after.
LEMMA RequestStepInv ==
  ASSUME LifeInv, NEW r \in Req, RequestArrives(r) \/ RequestStep(r)
  PROVE  LifeInv'
<1> USE DEF mainVars, cfgVars, Dead, Serving, Accepting, Before, Complete
<1>1. CASE RequestArrives(r)
  BY <1>1 DEF RequestArrives, LifeInv, OrderInv, RequestInv, OnlyRacesKill
<1>2. CASE RequestRuns(r)
  <2>1. req[r] = "begun" /\ ~freed /\ (r \in early \/ made = Parts) /\ pc \in Serving
    BY <1>2 DEF RequestRuns, LifeInv, OrderInv, RequestInv
  <2>2. PICK need \in {{}, {"mng"}, Parts} :
          \/ ~(need \subseteq made) /\ Killed(r) /\ UNCHANGED req
          \/ freed /\ Killed(r) /\ UNCHANGED req
          \/ /\ need \subseteq made
             /\ req' = [req EXCEPT ![r] = "reply"]
             /\ UNCHANGED <<pc, shell, killer>>
    BY <1>2 DEF RequestRuns
  <2>3. UNCHANGED <<made, freed, listening, early>>
    BY <1>2 DEF RequestRuns
  <2>4. CASE ~(need \subseteq made) /\ Killed(r) /\ UNCHANGED req
    <3>1. r \in early
      BY <2>1, <2>4 DEF Parts
    <3> QED BY <2>1, <2>3, <2>4, <3>1
            DEF Killed, LifeInv, OrderInv, RequestInv, OnlyRacesKill
  <2>5. CASE req' = [req EXCEPT ![r] = "reply"] /\ UNCHANGED <<pc, shell, killer>>
    BY <2>1, <2>3, <2>5 DEF LifeInv, OrderInv, RequestInv, OnlyRacesKill
  <2> QED BY <2>1, <2>2, <2>4, <2>5
<1>3. CASE RequestReplies(r)
  BY <1>3 DEF RequestReplies, LifeInv, OrderInv, RequestInv, OnlyRacesKill
<1>4. CASE RequestLate(r)
  BY <1>4 DEF RequestLate, Killed, LifeInv, OrderInv, RequestInv, OnlyRacesKill
<1> QED BY <1>1, <1>2, <1>3, <1>4 DEF RequestStep

\* Every step of the process keeps the invariant.
LEMMA LifeNext == LifeInv /\ [MainNext]_vars => LifeInv'
<1> SUFFICES ASSUME LifeInv, [MainNext]_vars PROVE LifeInv'
  OBVIOUS
<1>1. CASE MainStep
  BY <1>1, MainStepInv
<1>2. ASSUME NEW h \in Sig, SignalArrives(h) \/ SignalStep(h) PROVE LifeInv'
  BY <1>2, SignalInv
<1>3. ASSUME NEW r \in Req, RequestArrives(r) \/ RequestStep(r) PROVE LifeInv'
  BY <1>3, RequestStepInv
<1>4. CASE UNCHANGED vars
  BY <1>4 DEF vars, cfgVars, LifeInv, OrderInv, RequestInv, OnlyRacesKill, Serving,
              Accepting, Before, Complete
<1> QED BY <1>1, <1>2, <1>3, <1>4 DEF MainNext

\* The invariant of the life of the service object: it is complete before the
\* first request that is not early, and stays so until the last has been answered.
THEOREM ServiceLife == MainSpec => []LifeInv
BY LifeInit, LifeNext, PTL DEF MainSpec

\* OnlyRacesKill, for every input and any number of signals and requests: a
\* request that came after start() and is unanswered never meets a missing part.
THEOREM OnlyRaces == MainSpec => []OnlyRacesKill
<1>1. LifeInv => OnlyRacesKill
  BY DEF LifeInv
<1> QED BY ServiceLife, <1>1, PTL

-----------------------------------------------------------------------------
(* What the caller of the program is told.                                 *)

\* Where main is before the options are applied, and on its way out.
Reading == {"find", "load", "args"}
Leaving == {"stop", "finish", "reset", "destroy", "quit"}

\* A signal has stored its false in running.
Signalled == \E h \in Sig : sig[h] \in {"wake", "done"}

\* The options are those of the reference until they are applied; a process that lives
\* has been answered for only as a daemon; and main goes to its end with status 0 only
\* when the server was complete and a signal has stopped it.
StatusInv ==
  /\ sig \in [Sig -> {"none", "check", "notify", "wake", "done"}]
  /\ pc \in Reading => (told.help <=> Usage(input, "h"))
  /\ ~Dead /\ shell # NoStatus => conf["daemonize"]
  /\ pc \in Reading => shell = NoStatus
  /\ pc \in {"wait", "sleep", "asleep"} /\ ~running => Signalled
  /\ pc \in Leaving => ret = "-1" \/ (made = Parts /\ Signalled)
  /\ StatusIsTrue

\* At first nobody has been answered.
LEMMA StatusInit == MainInit => StatusInv
<1>1. Reference(input).help = Usage(input, "h")
  BY Zenon DEF Reference
<1>2. MainInit => told.help = Usage(input, "h")
  BY <1>1, Zenon DEF MainInit
<1> QED BY <1>2 DEF MainInit, StatusInv, StatusIsTrue, Reading, Leaving, Dead, NoStatus

\* Main leaves with another status than 0, or for help, or after its whole life.
LEMMA MainStatus ==
  ASSUME LifeInv, StatusInv, MainStep
  PROVE  StatusInv'
<1> USE DEF objVars, envVars, cfgVars, Goto, Exit, StatusInv, StatusIsTrue, Reading, Leaving,
            Dead, Signalled, NoStatus
<1>0. /\ \A h \in Sig : sig'[h] = sig[h]
      /\ sig' = sig /\ told' = told
  BY DEF MainStep, FindConfig, NoConfig, ScanLine, ApplyLine, ConfigDone, ApplyArgs, CheckPort,
         Daemonize, OpenLog, InstallHandlers, MakeService, StartFails, Listen, MakePart,
         SetRunning, TestRunning, WaitRunning, Shutdown, WaitFinish, Reset, Destroy, Quit
<1>1. CASE FindConfig
  BY <1>0, <1>1 DEF FindConfig, Usage
<1>2. CASE NoConfig \/ ScanLine \/ ApplyLine \/ ConfigDone
  BY <1>0, <1>2 DEF NoConfig, ScanLine, ApplyLine, ConfigDone, Usage
<1>3. CASE ApplyArgs
  BY <1>0, <1>3 DEF ApplyArgs
<1>4. CASE CheckPort
  BY <1>0, <1>4 DEF CheckPort
<1>5. CASE Daemonize
  BY <1>0, <1>5 DEF Daemonize
<1>6. CASE OpenLog
  BY <1>0, <1>6 DEF OpenLog
<1>7. CASE InstallHandlers
  BY <1>0, <1>7 DEF InstallHandlers
<1>8. CASE MakeService
  BY <1>0, <1>8 DEF MakeService
<1>9. CASE StartFails
  BY <1>0, <1>9 DEF StartFails, StartError
<1>10. CASE Listen
  BY <1>0, <1>10 DEF Listen
<1>11. CASE MakePart("cli", "mng")
  BY <1>0, <1>11 DEF MakePart
<1>12. CASE MakePart("mng", "run")
  BY <1>0, <1>12 DEF MakePart
<1>13. CASE SetRunning
  BY <1>0, <1>13 DEF SetRunning
<1>14. CASE TestRunning
  <2>1. made = Parts
    BY <1>14 DEF TestRunning, LifeInv, OrderInv, Complete
  <2> QED BY <1>0, <1>14, <2>1 DEF TestRunning
<1>15. CASE WaitRunning
  <2>1. made = Parts
    BY <1>15 DEF WaitRunning, LifeInv, OrderInv, Complete
  <2> QED BY <1>0, <1>15, <2>1 DEF WaitRunning
<1>16. CASE Shutdown
  BY <1>0, <1>16 DEF Shutdown
<1>17. CASE WaitFinish
  BY <1>0, <1>17 DEF WaitFinish
<1>18. CASE Reset
  BY <1>0, <1>18 DEF Reset
<1>19. CASE Destroy
  BY <1>0, <1>19 DEF Destroy
<1>20. CASE Quit
  BY <1>0, <1>20 DEF Quit
<1> QED
  BY <1>1, <1>2, <1>3, <1>4, <1>5, <1>6, <1>7, <1>8, <1>9, <1>10, <1>11, <1>12,
     <1>13, <1>14, <1>15, <1>16, <1>17, <1>18, <1>19, <1>20 DEF MainStep

\* A signal ends the process with a status of its own, or leaves its mark.
LEMMA SignalStatus ==
  ASSUME StatusInv, NEW h \in Sig, SignalArrives(h) \/ SignalStep(h)
  PROVE  StatusInv'
<1> USE DEF mainVars, cfgVars, Exit, StatusInv, StatusIsTrue, Reading, Leaving, Dead,
            Signalled, NoStatus
<1>1. CASE SignalArrives(h)
  BY <1>1 DEF SignalArrives, Usage
<1>2. CASE SignalChecks(h)
  BY <1>2 DEF SignalChecks, Usage
<1>3. CASE SignalStores(h)
  BY <1>3 DEF SignalStores, Killed, Usage
<1>4. CASE SignalWakes(h)
  BY <1>4 DEF SignalWakes, Usage
<1> QED BY <1>1, <1>2, <1>3, <1>4 DEF SignalStep, NotifyStep

\* Requests do not answer for the process; one that kills it ends it.
LEMMA RequestStatus ==
  ASSUME StatusInv, NEW r \in Req, RequestArrives(r) \/ RequestStep(r)
  PROVE  StatusInv'
<1>1. /\ UNCHANGED <<input, told, conf, ret, made, running, sig>>
      /\ UNCHANGED <<pc, shell>> \/ pc' = "killed"
  BY DEF RequestArrives, RequestStep, RequestRuns, RequestReplies, RequestLate, Killed,
         mainVars, cfgVars
<1> QED BY <1>1 DEF StatusInv, StatusIsTrue, Reading, Leaving, Dead, Signalled, NoStatus, Usage

\* Every step of the process keeps what its caller is told.
LEMMA StatusNext == LifeInv /\ StatusInv /\ [MainNext]_vars => StatusInv'
<1> SUFFICES ASSUME LifeInv, StatusInv, [MainNext]_vars PROVE StatusInv'
  OBVIOUS
<1>1. CASE UNCHANGED vars
  BY <1>1 DEF vars, cfgVars, StatusInv, StatusIsTrue, Reading, Leaving, Dead, Signalled,
              Usage
<1> QED BY <1>1, MainStatus, SignalStatus, RequestStatus DEF MainNext

\* StatusIsTrue, for every input: in the foreground a status of 0 means help, or a server
\* that was complete and that a signal has stopped.
THEOREM StatusTrue == MainSpec => []StatusIsTrue
<1>1. StatusInv => StatusIsTrue
  BY DEF StatusInv
<1> QED BY <1>1, StatusInit, StatusNext, ServiceLife, PTL DEF MainSpec

-----------------------------------------------------------------------------
(* A line of the configuration file.                                       *)

\* The lexemes of lines and of words.
Text == STRING \cup {Escaped[c] : c \in DOMAIN Escaped}

Scan == [line : Nat, at : Nat \ {0}, words : Seq(Seq(Text)), inside : BOOLEAN,
         tmp : Seq(Text)]

\* Line l without its comment is its first e lexemes.
CutsAt(l, e) ==
  /\ e \in 0..Len(l)
  /\ Cut(l) = SubSeq(l, 1, e)
  /\ \A k \in 1..e : l[k] # Hash
  /\ e < Len(l) => l[e+1] = Hash

SpansTo(l, e) ==
  {s \in (1..e) \X (1..e) :
     /\ s[1] <= s[2]
     /\ \A k \in s[1]..s[2] : l[k] # Space
     /\ s[1] = 1 \/ l[s[1]-1] = Space
     /\ s[2] = e \/ l[s[2]+1] = Space}

\* The words ws are those at the places b, all that begin before at.
Covers(l, e, at, ws, b) ==
  /\ b \in Seq(SpansTo(l, e)) /\ ws \in Seq(Seq(Text)) /\ Len(ws) = Len(b)
  /\ \A k \in 1..Len(b) : /\ b[k][2] < at /\ l[b[k][1]] # Quote
                          /\ ws[k] = SubSeq(l, b[k][1], b[k][2])
  /\ \A j, k \in 1..Len(b) : j < k => b[j][1] < b[k][1]
  /\ \A s \in SpansTo(l, e) : s[1] < at => \E k \in 1..Len(b) : s = b[k]

\* No word goes on at this place.
Boundary(l, e, at) ==
  at \in 1..e+1 /\ (at = 1 \/ at = e+1 \/ l[at-1] = Space \/ l[at] = Space)

\* Either a quoted word has begun, and parse_line is caught in it for the rest of the
\* line, or the words found are all that begin before this place.
LineInv(l, s) ==
  /\ s \in Scan
  /\ \/ ~Plain(l) /\ (s.inside \/ (s.at \in DOMAIN l /\ l[s.at] = Quote))
     \/ ~s.inside /\ \E e, b : /\ CutsAt(l, e) /\ Boundary(l, e, s.at)
                               /\ Covers(l, e, s.at, s.words, b)

\* A set of numbers that is not empty has a least one.
LEMMA LeastNumber ==
  ASSUME NEW S \in SUBSET Nat, S # {}
  PROVE  \E m \in S : \A n \in S : m <= n
<1>1. PICK m \in S : \A n \in S : <<n, m>> \notin OpToRel(<, Nat)
  BY NatLessThanWellFounded, WFMin, Zenon
<1>2. \A n \in S : ~(n < m)
  BY <1>1, Zenon DEF OpToRel
<1>3. m \in Nat /\ \A n \in S : n \in Nat
  OBVIOUS
<1> QED BY <1>2, <1>3

\* Where the comment begins.
LEMMA CutExists ==
  ASSUME NEW l \in Seq(Text)
  PROVE  \E e : CutsAt(l, e)
<1> DEFINE h == {k \in DOMAIN l : l[k] = Hash}
<1>1. CASE h = {}
  <2>1. Cut(l) = l
    BY <1>1 DEF Cut
  <2>2. SubSeq(l, 1, Len(l)) = l /\ Len(l) \in Nat
    BY SubSeqFull
  <2>3. \A k \in 1..Len(l) : l[k] # Hash
    BY <1>1
  <2>4. CutsAt(l, Len(l))
    BY <2>1, <2>2, <2>3 DEF CutsAt
  <2> QED BY <2>4
<1>2. CASE h # {}
  <2>0. h \in SUBSET Nat
    OBVIOUS
  <2>1. PICK m \in h : \A n \in h : m <= n
    BY <1>2, <2>0, LeastNumber, Zenon
  <2> DEFINE c == CHOOSE k \in h : \A n \in h : k <= n
  <2>2. c \in h /\ \A n \in h : c <= n
    BY <2>1
  <2>3. Cut(l) = SubSeq(l, 1, c - 1)
    BY <1>2 DEF Cut
  <2> HIDE DEF c
  <2>4. CutsAt(l, c - 1)
    BY <2>2, <2>3 DEF CutsAt
  <2> QED BY <2>4
<1> QED BY <1>1, <1>2

\* The line without its comment has the words of the line before it.
LEMMA SpansOfCut ==
  ASSUME NEW l \in Seq(Text), NEW e, CutsAt(l, e)
  PROVE  /\ Spans(Cut(l)) = SpansTo(l, e)
         /\ \A k \in 1..e : Cut(l)[k] = l[k]
         /\ \A s \in SpansTo(l, e) : SubSeq(Cut(l), s[1], s[2]) = SubSeq(l, s[1], s[2])
<1>1. e \in 0..Len(l) /\ Len(l) \in Nat /\ Cut(l) = SubSeq(l, 1, e)
  BY DEF CutsAt
<1>2. \A i \in 1..e : l[i] \in Text
  BY <1>1
<1>3. Len(Cut(l)) = e /\ Cut(l) \in Seq(Text) /\ \A k \in 1..e : Cut(l)[k] = l[k]
  BY <1>1, <1>2, SubSeqProperties
<1>4. DOMAIN Cut(l) = 1..e
  BY <1>3
<1>5. Spans(Cut(l)) = SpansTo(l, e)
  <2>1. ASSUME NEW s \in (1..e) \X (1..e)
        PROVE  s \in Spans(Cut(l)) <=> s \in SpansTo(l, e)
    <3>1. /\ s[1] # 1 => s[1] - 1 \in 1..e
          /\ s[2] # e => s[2] + 1 \in 1..e
          /\ \A k \in s[1]..s[2] : k \in 1..e
      BY <1>1
    <3> QED BY <1>3, <1>4, <3>1 DEF Spans, SpansTo
  <2>2. Spans(Cut(l)) \subseteq (1..e) \X (1..e) /\ SpansTo(l, e) \subseteq (1..e) \X (1..e)
    BY <1>4 DEF Spans, SpansTo
  <2> QED BY <2>1, <2>2
<1>6. ASSUME NEW s \in SpansTo(l, e)
      PROVE  SubSeq(Cut(l), s[1], s[2]) = SubSeq(l, s[1], s[2])
  <2>0. s \in (1..e) \X (1..e)
    BY Zenon DEF SpansTo
  <2>1. PICK i \in 1..e, j \in 1..e : i = s[1] /\ j = s[2]
    BY <2>0
  <2>2. /\ 1 \in 1..Len(l) /\ e \in 1..Len(l) /\ i \in 1..e-1+1 /\ j \in 1..e-1+1
        /\ 1 + i - 1 = i /\ 1 + j - 1 = j
    BY <1>1
  <2>3. SubSeq(SubSeq(l, 1, e), i, j) = SubSeq(l, 1 + i - 1, 1 + j - 1)
    BY <2>2, SubSeqOfSubSeq
  <2> QED BY <1>1, <2>1, <2>2, <2>3, Zenon
<1> QED BY <1>3, <1>5, <1>6

\* A line is not plain if one of its words begins with a quote.
LEMMA PlainWords ==
  ASSUME NEW l \in Seq(Text), NEW e, CutsAt(l, e)
  PROVE  Plain(l) <=> \A s \in SpansTo(l, e) : l[s[1]] # Quote
<1>1. \A s \in SpansTo(l, e) : s[1] \in 1..e
  BY DEF SpansTo
<1> QED BY <1>1, SpansOfCut DEF Plain

\* WordEnd: behind the word, at a space or where the comment begins.
LEMMA WordEnds ==
  ASSUME NEW l \in Seq(Text), NEW e, CutsAt(l, e), NEW i \in 1..e, l[i] # Space
  PROVE  /\ WordEnd(l, i) \in i+1..e+1
         /\ \A k \in i..WordEnd(l, i)-1 : l[k] # Space
         /\ WordEnd(l, i) # e+1 => l[WordEnd(l, i)] = Space
<1> DEFINE stop == {k \in i..Len(l) : l[k] \in {Space, Hash}}
<1>1. e \in 0..Len(l) /\ Len(l) \in Nat /\ \A k \in 1..e : l[k] # Hash
  BY DEF CutsAt
<1>2. CASE stop = {}
  <2>1. WordEnd(l, i) = Len(l) + 1
    BY <1>2 DEF WordEnd
  <2>2. e = Len(l)
    <3>1. SUFFICES ASSUME e < Len(l) PROVE FALSE
      BY <1>1
    <3>2. e + 1 \in stop
      BY <1>1, <3>1 DEF CutsAt
    <3> QED BY <1>2, <3>2
  <2> QED BY <1>1, <1>2, <2>1, <2>2
<1>3. CASE stop # {}
  <2>1. stop \in SUBSET Nat
    BY <1>1
  <2>2. PICK m \in stop : \A n \in stop : m <= n
    BY <1>3, <2>1, LeastNumber
  <2> DEFINE w == CHOOSE k \in stop : \A n \in stop : k <= n
  <2>3. w \in stop /\ \A n \in stop : w <= n
    BY <2>2
  <2>4. WordEnd(l, i) = w
    BY <1>3 DEF WordEnd
  <2> HIDE DEF w
  <2>5. w <= e + 1
    <3>1. CASE e < Len(l)
      <4>1. e + 1 \in stop
        BY <1>1, <3>1 DEF CutsAt
      <4> QED BY <2>3, <4>1
    <3>2. CASE e = Len(l)
      BY <2>3, <3>2
    <3> QED BY <1>1, <3>1, <3>2
  <2>6. w # i
    BY <1>1, <2>3
  <2>7. \A k \in i..w-1 : l[k] # Space
    BY <1>1, <2>3
  <2>8. w # e+1 => l[w] = Space
    BY <1>1, <2>3, <2>5
  <2>9. w \in i+1..e+1
    BY <1>1, <2>3, <2>5, <2>6
  <2> QED BY <2>4, <2>7, <2>8, <2>9
<1> QED BY <1>2, <1>3

\* What a span is.
LEMMA SpanFacts ==
  ASSUME NEW l, NEW e \in Nat, NEW s \in SpansTo(l, e)
  PROVE  /\ s[1] \in 1..e /\ s[2] \in 1..e /\ s[1] <= s[2] /\ s = <<s[1], s[2]>>
         /\ \A k \in s[1]..s[2] : l[k] # Space
         /\ s[1] = 1 \/ l[s[1]-1] = Space
         /\ s[2] = e \/ l[s[2]+1] = Space
<1>1. s \in (1..e) \X (1..e)
  BY Zenon DEF SpansTo
<1> QED BY <1>1 DEF SpansTo

\* A word that begins here is one of the line, and the only one before its end.
LEMMA WordHere ==
  ASSUME NEW l \in Seq(Text), NEW e, CutsAt(l, e), NEW at \in 1..e, Boundary(l, e, at),
         l[at] # Space
  PROVE  /\ <<at, WordEnd(l, at) - 1>> \in SpansTo(l, e)
         /\ \A s \in SpansTo(l, e) :
              at <= s[1] /\ s[1] < WordEnd(l, at) => s = <<at, WordEnd(l, at) - 1>>
<1>1. e \in Nat
  BY DEF CutsAt
<1>2. PICK w \in at+1..e+1 : /\ w = WordEnd(l, at)
                             /\ \A k \in at..w-1 : l[k] # Space
                             /\ w # e+1 => l[w] = Space
  BY WordEnds
<1>3. at = 1 \/ l[at-1] = Space
  BY <1>1 DEF Boundary
<1>4. <<at, w - 1>> \in SpansTo(l, e)
  <2>1. w - 1 \in 1..e /\ at <= w - 1 /\ w - 1 + 1 = w
    BY <1>1, <1>2
  <2>2. w - 1 = e \/ l[w - 1 + 1] = Space
    BY <1>1, <1>2, <2>1
  <2> QED BY <1>2, <1>3, <2>1, <2>2 DEF SpansTo
<1>5. ASSUME NEW s \in SpansTo(l, e), at <= s[1], s[1] < w
      PROVE  s = <<at, w - 1>>
  <2>1. PICK i \in 1..e, j \in 1..e :
          /\ s = <<i, j>> /\ i <= j /\ at <= i /\ i < w
          /\ \A k \in i..j : l[k] # Space
          /\ i = 1 \/ l[i-1] = Space
          /\ j = e \/ l[j+1] = Space
    BY <1>1, <1>5, SpanFacts
  <2>2. i = at
    <3>1. SUFFICES ASSUME i # at PROVE FALSE
      OBVIOUS
    <3>2. i - 1 \in at..w-1 /\ i # 1
      BY <1>1, <2>1, <3>1
    <3> QED BY <1>2, <2>1, <3>2
  <2>3. ~(j < w - 1)
    <3>1. SUFFICES ASSUME j < w - 1 PROVE FALSE
      OBVIOUS
    <3>2. j + 1 \in at..w-1 /\ j # e
      BY <1>1, <2>1, <3>1
    <3> QED BY <1>2, <2>1, <3>2
  <2>4. ~(j > w - 1)
    <3>1. SUFFICES ASSUME j > w - 1 PROVE FALSE
      OBVIOUS
    <3>2. w \in i..j /\ w # e + 1
      BY <1>1, <2>1, <3>1
    <3> QED BY <1>2, <2>1, <3>2
  <2> QED BY <1>1, <1>2, <2>1, <2>2, <2>3, <2>4
<1> QED BY <1>2, <1>4, <1>5

\* A space is passed over.
LEMMA PastSpace ==
  ASSUME NEW l \in Seq(Text), NEW e, CutsAt(l, e), NEW at \in 1..e, l[at] = Space,
         NEW ws, NEW b, Covers(l, e, at, ws, b)
  PROVE  Covers(l, e, at + 1, ws, b) /\ Boundary(l, e, at + 1)
<1>1. e \in Nat
  BY DEF CutsAt
<1>2. Boundary(l, e, at + 1)
  <2>1. at + 1 \in 1..e+1 /\ at + 1 - 1 = at
    BY <1>1
  <2> QED BY <2>1 DEF Boundary
<1>3. ASSUME NEW s \in SpansTo(l, e), s[1] < at + 1
      PROVE  s[1] < at
  <2>1. s[1] \in Nat /\ l[s[1]] # Space
    BY <1>1, SpanFacts
  <2> QED BY <1>3, <2>1
<1>4. ASSUME NEW k \in 1..Len(b) PROVE b[k][2] < at + 1
  <2>1. b[k] \in SpansTo(l, e) /\ b[k][2] < at
    BY DEF Covers
  <2>2. b[k][2] \in Nat
    BY <1>1, <2>1, SpanFacts
  <2> QED BY <2>1, <2>2
<1>5. Covers(l, e, at + 1, ws, b)
  BY <1>3, <1>4 DEF Covers
<1> QED BY <1>2, <1>5

\* A word is taken.
LEMMA PastWord ==
  ASSUME NEW l \in Seq(Text), NEW e, CutsAt(l, e), NEW at \in 1..e, Boundary(l, e, at),
         l[at] # Space, l[at] # Quote, NEW ws, NEW b, Covers(l, e, at, ws, b)
  PROVE  /\ Covers(l, e, WordEnd(l, at), Append(ws, SubSeq(l, at, WordEnd(l, at) - 1)),
                   Append(b, <<at, WordEnd(l, at) - 1>>))
         /\ Boundary(l, e, WordEnd(l, at))
<1>1. e \in Nat /\ e <= Len(l) /\ Len(l) \in Nat
  BY DEF CutsAt
<1>2. PICK w \in at+1..e+1 : w = WordEnd(l, at) /\ (w # e+1 => l[w] = Space)
  BY WordEnds
<1>3. Boundary(l, e, w)
  BY <1>1, <1>2 DEF Boundary
<1>4. PICK new : new = <<at, w - 1>>
  OBVIOUS
<1>5. /\ new \in SpansTo(l, e) /\ new[1] = at /\ new[2] = w - 1
      /\ \A s \in SpansTo(l, e) : at <= s[1] /\ s[1] < w => s = new
  BY <1>2, <1>4, WordHere
<1>6. PICK word : word = SubSeq(l, at, w - 1)
  OBVIOUS
<1>7. word \in Seq(Text)
  <2>1. \A k \in at..w-1 : l[k] \in Text
    BY <1>1
  <2> QED BY <1>6, <2>1, SubSeqProperties
<1>8. /\ b \in Seq(SpansTo(l, e)) /\ ws \in Seq(Seq(Text)) /\ Len(ws) = Len(b)
      /\ Len(b) \in Nat
  BY DEF Covers
<1>9. PICK c : c = Append(b, new)
  OBVIOUS
<1>10. PICK us : us = Append(ws, word)
  OBVIOUS
<1>11. /\ c \in Seq(SpansTo(l, e)) /\ Len(c) = Len(b) + 1 /\ c[Len(b) + 1] = new
       /\ \A k \in 1..Len(b) : c[k] = b[k]
  BY <1>5, <1>8, <1>9, AppendProperties
<1>12. /\ us \in Seq(Seq(Text)) /\ Len(us) = Len(b) + 1 /\ us[Len(b) + 1] = word
       /\ \A k \in 1..Len(b) : us[k] = ws[k]
  BY <1>7, <1>8, <1>10, AppendProperties
<1>13. \A k \in 1..Len(b) : /\ b[k][1] \in Nat /\ b[k][2] \in Nat /\ b[k][1] <= b[k][2]
                             /\ b[k][2] < at
  <2> TAKE k \in 1..Len(b)
  <2>1. b[k] \in SpansTo(l, e) /\ b[k][2] < at
    BY DEF Covers
  <2> QED BY <1>1, <2>1, SpanFacts
<1>14. ASSUME NEW k \in 1..Len(c)
       PROVE  /\ c[k][2] < w /\ l[c[k][1]] # Quote
              /\ us[k] = SubSeq(l, c[k][1], c[k][2])
  <2>1. CASE k \in 1..Len(b)
    <3>1. b[k][2] < w
      BY <1>1, <1>2, <1>13, <2>1
    <3>2. c[k] = b[k] /\ us[k] = ws[k]
      BY <1>11, <1>12, <2>1
    <3>3. l[b[k][1]] # Quote /\ ws[k] = SubSeq(l, b[k][1], b[k][2])
      BY <2>1 DEF Covers
    <3> QED BY <3>1, <3>2, <3>3, Zenon
  <2>2. CASE k = Len(b) + 1
    <3>1. c[k] = new /\ us[k] = word
      BY <1>11, <1>12, <2>2, Zenon
    <3>2. w - 1 < w
      BY <1>1
    <3> QED BY <1>5, <1>6, <3>1, <3>2, Zenon
  <2> QED BY <1>8, <1>11, <2>1, <2>2
<1>15. ASSUME NEW j \in 1..Len(c), NEW k \in 1..Len(c), j < k
       PROVE  c[j][1] < c[k][1]
  <2>1. j \in 1..Len(b) /\ c[j] = b[j]
    BY <1>8, <1>11, <1>15
  <2>2. CASE k \in 1..Len(b)
    <3>1. b[j][1] < b[k][1]
      BY <1>15, <2>1, <2>2 DEF Covers
    <3> QED BY <1>11, <2>1, <2>2, <3>1, Zenon
  <2>3. CASE k = Len(b) + 1
    <3>1. b[j][1] < at
      BY <1>13, <2>1
    <3> QED BY <1>5, <1>11, <2>1, <2>3, <3>1, Zenon
  <2> QED BY <1>8, <1>11, <2>2, <2>3
<1>16. ASSUME NEW s \in SpansTo(l, e), s[1] < w
       PROVE  \E k \in 1..Len(c) : s = c[k]
  <2>1. CASE s[1] < at
    <3>1. PICK k \in 1..Len(b) : s = b[k]
      BY <2>1 DEF Covers
    <3> QED BY <1>8, <1>11, <3>1
  <2>2. CASE ~(s[1] < at)
    <3>0. at <= s[1]
      <4>1. s[1] \in 1..e
        BY <1>1, SpanFacts
      <4> QED BY <1>1, <2>2, <4>1
    <3>1. s = new
      BY <1>5, <1>16, <3>0
    <3>2. Len(b) + 1 \in 1..Len(c)
      BY <1>8, <1>11
    <3> QED BY <1>11, <3>1, <3>2, Zenon
  <2> QED BY <2>1, <2>2
<1>17. Covers(l, e, w, us, c)
  BY <1>8, <1>11, <1>12, <1>14, <1>15, <1>16, Zenon DEF Covers
<1> QED BY <1>2, <1>3, <1>4, <1>6, <1>9, <1>10, <1>17, Zenon

\* Before the first lexeme there is no word.
LEMMA LineBegins ==
  ASSUME NEW l \in Seq(Text), NEW n \in Nat
  PROVE  LineInv(l, NewLine(n))
<1>1. PICK e : CutsAt(l, e)
  BY CutExists
<1>2. e \in Nat
  BY <1>1 DEF CutsAt
<1>3. Boundary(l, e, 1)
  BY <1>2 DEF Boundary
<1>4. ASSUME NEW s \in SpansTo(l, e) PROVE ~(s[1] < 1)
  BY <1>2, SpanFacts
<1>5. Covers(l, e, 1, <<>>, <<>>)
  BY <1>4 DEF Covers
<1>6. NewLine(n) \in Scan /\ NewLine(n).at = 1 /\ NewLine(n).words = <<>> /\ ~NewLine(n).inside
  BY DEF NewLine, Scan
<1> QED BY <1>1, <1>3, <1>5, <1>6 DEF LineInv

\* Where parse_line and unescape go on, there is a lexeme.
LEMMA LexemeHere ==
  ASSUME NEW l \in Seq(Text), NEW s \in Scan, ~ScanOver(l, s), ~ScanFails(l, s)
  PROVE  /\ s.at \in DOMAIN l /\ l[s.at] \in Text
         /\ s.inside /\ l[s.at] = Backslash =>
              s.at + 1 \in DOMAIN l /\ Escaped[l[s.at + 1]] \in Text
         /\ ~s.inside => l[s.at] # Hash
<1>1. /\ s.at \in DOMAIN l
      /\ s.inside /\ l[s.at] = Backslash => s.at + 1 \in DOMAIN l /\ l[s.at + 1] \in DOMAIN Escaped
      /\ ~s.inside => l[s.at] # Hash
  BY DEF ScanOver, ScanFails
<1>2. \A c \in DOMAIN Escaped : Escaped[c] \in Text
  BY DEF Text
<1> QED BY <1>1, <1>2

\* Inside quotes parse_line stays, or goes on at a quote.
LEMMA QuotesStay ==
  ASSUME NEW l \in Seq(Text), NEW s \in Scan, ~ScanOver(l, s), ~ScanFails(l, s), s.inside
  PROVE  /\ ScanNext(l, s) \in Scan /\ ScanNext(l, s).line = s.line
         /\ \/ ScanNext(l, s).inside
            \/ ScanNext(l, s).at \in DOMAIN l /\ l[ScanNext(l, s).at] = Quote
<1>1. /\ s.line \in Nat /\ s.at \in Nat \ {0} /\ s.words \in Seq(Seq(Text))
      /\ s.tmp \in Seq(Text)
      /\ s = [line |-> s.line, at |-> s.at, words |-> s.words, inside |-> s.inside, tmp |-> s.tmp]
  BY DEF Scan
<1>2. ScanNext(l, s) = InQuotes(l, s)
  BY DEF ScanNext
<1>3. CASE l[s.at] = Quote
  <2>1. ScanNext(l, s) = [line |-> s.line, at |-> s.at, words |-> Append(s.words, s.tmp),
                          inside |-> FALSE, tmp |-> s.tmp]
    BY <1>1, <1>2, <1>3 DEF InQuotes, Quote, Backslash
  <2>2. Append(s.words, s.tmp) \in Seq(Seq(Text))
    BY <1>1
  <2> QED BY <1>1, <1>3, <2>1, <2>2, LexemeHere DEF Scan
<1>4. CASE l[s.at] # Quote /\ l[s.at] = Backslash
  <2>1. PICK x \in Text : x = Escaped[l[s.at + 1]]
    BY <1>4, LexemeHere
  <2>2. ScanNext(l, s) = [line |-> s.line, at |-> s.at + 2, words |-> s.words,
                          inside |-> s.inside, tmp |-> Append(s.tmp, x)]
    BY <1>1, <1>2, <1>4, <2>1 DEF InQuotes
  <2>3. Append(s.tmp, x) \in Seq(Text) /\ s.at + 2 \in Nat \ {0}
    BY <1>1
  <2> QED BY <1>1, <2>2, <2>3 DEF Scan
<1>5. CASE l[s.at] # Quote /\ l[s.at] # Backslash
  <2>1. ScanNext(l, s) = [line |-> s.line, at |-> s.at + 1, words |-> s.words,
                          inside |-> s.inside, tmp |-> Append(s.tmp, l[s.at])]
    BY <1>1, <1>2, <1>5 DEF InQuotes
  <2>2. Append(s.tmp, l[s.at]) \in Seq(Text) /\ s.at + 1 \in Nat \ {0}
    BY <1>1, LexemeHere
  <2> QED BY <1>1, <2>1, <2>2 DEF Scan
<1> QED BY <1>3, <1>4, <1>5

\* A quoted word begins.
LEMMA QuotesBegin ==
  ASSUME NEW l \in Seq(Text), NEW s \in Scan, ~s.inside, l[s.at] = Quote
  PROVE  /\ ScanNext(l, s) \in Scan /\ ScanNext(l, s).line = s.line
         /\ ScanNext(l, s).inside
<1>1. /\ s.line \in Nat /\ s.at \in Nat \ {0} /\ s.words \in Seq(Seq(Text))
      /\ s = [line |-> s.line, at |-> s.at, words |-> s.words, inside |-> s.inside, tmp |-> s.tmp]
  BY DEF Scan
<1>2. ScanNext(l, s) = [line |-> s.line, at |-> s.at + 1, words |-> s.words,
                        inside |-> TRUE, tmp |-> <<>>]
  BY <1>1 DEF ScanNext, Outside, Space, Quote
<1> QED BY <1>1, <1>2 DEF Scan

\* A round of the loops keeps the words right, and does not get out of a quoted word.
LEMMA ScanKeeps ==
  ASSUME NEW l \in Seq(Text), NEW s, LineInv(l, s), ~ScanOver(l, s), ~ScanFails(l, s)
  PROVE  LineInv(l, ScanNext(l, s)) /\ ScanNext(l, s).line = s.line
<1>1. s \in Scan
  BY DEF LineInv
<1>2. /\ s.line \in Nat /\ s.at \in Nat \ {0} /\ s.words \in Seq(Seq(Text))
      /\ s.tmp \in Seq(Text)
      /\ s = [line |-> s.line, at |-> s.at, words |-> s.words, inside |-> s.inside, tmp |-> s.tmp]
  BY <1>1 DEF Scan
<1>3. CASE s.inside
  BY <1>1, <1>3, QuotesStay DEF LineInv
<1>4. CASE ~s.inside /\ ~Plain(l) /\ l[s.at] = Quote
  BY <1>1, <1>4, QuotesBegin DEF LineInv
<1>5. ASSUME ~s.inside, NEW e, NEW b, CutsAt(l, e), Boundary(l, e, s.at),
             Covers(l, e, s.at, s.words, b)
      PROVE  LineInv(l, ScanNext(l, s)) /\ ScanNext(l, s).line = s.line
  <2>1. e \in 0..Len(l) /\ Len(l) \in Nat
    BY <1>5 DEF CutsAt
  <2>2. s.at \in 1..e
    <3>1. s.at \in DOMAIN l /\ l[s.at] # Hash
      BY <1>1, <1>5, LexemeHere
    <3>2. s.at # e + 1
      BY <1>5, <2>1, <3>1 DEF CutsAt
    <3> QED BY <1>5, <2>1, <3>2 DEF Boundary
  <2>3. CASE l[s.at] = Space
    <3>1. ScanNext(l, s) = [line |-> s.line, at |-> s.at + 1, words |-> s.words,
                            inside |-> FALSE, tmp |-> s.tmp]
      BY <1>1, <1>2, <1>5, <2>3 DEF ScanNext, Outside, Scan, Space, Quote
    <3>2. Covers(l, e, s.at + 1, s.words, b) /\ Boundary(l, e, s.at + 1)
      BY <1>5, <2>2, <2>3, PastSpace
    <3>3. ScanNext(l, s) \in Scan
      BY <1>2, <3>1 DEF Scan
    <3> QED BY <1>5, <3>1, <3>2, <3>3 DEF LineInv
  <2>4. CASE l[s.at] = Quote
    <3>1. PICK x \in SpansTo(l, e) : x[1] = s.at
      <4>1. l[s.at] # Space
        BY <2>4 DEF Space, Quote
      <4>2. <<s.at, WordEnd(l, s.at) - 1>> \in SpansTo(l, e)
        BY <1>5, <2>2, <4>1, WordHere
      <4> QED BY <4>2
    <3>2. ~Plain(l)
      BY <1>5, <2>4, <3>1, PlainWords
    <3> QED BY <1>1, <1>5, <2>4, <3>2, QuotesBegin DEF LineInv
  <2>5. CASE l[s.at] # Space /\ l[s.at] # Quote
    <3>1. PICK w : w = WordEnd(l, s.at)
      OBVIOUS
    <3>2. PICK us : us = Append(s.words, SubSeq(l, s.at, w - 1))
      OBVIOUS
    <3>3. ScanNext(l, s) = [line |-> s.line, at |-> w, words |-> us, inside |-> FALSE,
                            tmp |-> s.tmp]
      BY <1>1, <1>2, <1>5, <2>5, <3>1, <3>2 DEF ScanNext, Outside, Scan
    <3>4. Covers(l, e, w, us, Append(b, <<s.at, w - 1>>)) /\ Boundary(l, e, w)
      BY <1>5, <2>2, <2>5, <3>1, <3>2, PastWord
    <3>5. w \in Nat \ {0} /\ us \in Seq(Seq(Text))
      BY <2>1, <3>4 DEF Boundary, Covers
    <3>6. ScanNext(l, s) \in Scan
      BY <1>2, <3>3, <3>5 DEF Scan
    <3> QED BY <1>5, <3>3, <3>4, <3>6 DEF LineInv
  <2> QED BY <2>3, <2>4, <2>5
<1> QED BY <1>3, <1>4, <1>5 DEF LineInv

\* At the end of a line, or at its comment, every word has been found.
LEMMA LineEnds ==
  ASSUME NEW l \in Seq(Text), NEW s, LineInv(l, s), ScanOver(l, s)
  PROVE  \E e, b : CutsAt(l, e) /\ Covers(l, e, e + 1, s.words, b)
<1>1. ~s.inside /\ (s.at \in DOMAIN l => l[s.at] = Hash)
  BY DEF ScanOver
<1>2. Quote # Hash
  BY DEF Quote, Hash
<1>3. PICK e, b : CutsAt(l, e) /\ Boundary(l, e, s.at) /\ Covers(l, e, s.at, s.words, b)
  BY <1>1, <1>2 DEF LineInv
<1>4. e \in 0..Len(l) /\ Len(l) \in Nat /\ \A k \in 1..e : l[k] # Hash
  BY <1>3 DEF CutsAt
<1>5. s.at \in 1..e+1
  BY <1>3 DEF Boundary
<1>6. s.at \notin 1..e
  <2>1. SUFFICES ASSUME s.at \in 1..e PROVE FALSE
    OBVIOUS
  <2>2. s.at \in DOMAIN l
    BY <1>4, <2>1
  <2> QED BY <1>1, <1>4, <2>1, <2>2
<1>7. s.at = e + 1
  BY <1>4, <1>5, <1>6
<1> QED BY <1>3, <1>7

\* The words of the reference are ws, at the places b.
WordsFound(l, ws, b) ==
  /\ Spans(Cut(l)) = {b[k] : k \in 1..Len(ws)}
  /\ WordsOf(Cut(l)) = {ws[k] : k \in 1..Len(ws)}
  /\ Cardinality(Spans(Cut(l))) = Len(ws)
  /\ \A k \in 1..Len(ws) : b[k][1] \in Nat /\ SubSeq(Cut(l), b[k][1], b[k][2]) = ws[k]
  /\ \A j, k \in 1..Len(ws) : j < k => b[j][1] < b[k][1]

\* Then the words are, one for one, those of the reference.
LEMMA AllWords ==
  ASSUME NEW l \in Seq(Text), NEW e, NEW ws, NEW b, CutsAt(l, e), Covers(l, e, e + 1, ws, b)
  PROVE  WordsFound(l, ws, b) /\ Len(ws) \in Nat
<1>1. e \in Nat
  BY DEF CutsAt
<1>2. PICK n \in Nat : n = Len(b) /\ n = Len(ws)
  BY DEF Covers
<1>3. /\ b \in Seq(SpansTo(l, e)) /\ \A k \in 1..n : b[k] \in SpansTo(l, e)
      /\ \A k \in 1..n : ws[k] = SubSeq(l, b[k][1], b[k][2])
      /\ DOMAIN b = 1..n
  BY <1>2 DEF Covers
<1>4. \A s \in SpansTo(l, e) : \E k \in 1..n : s = b[k]
  <2> TAKE s \in SpansTo(l, e)
  <2>1. s[1] \in 1..e
    BY <1>1, SpanFacts
  <2>2. s[1] < e + 1
    BY <1>1, <2>1
  <2> QED BY <1>2, <2>2 DEF Covers
<1>5. Spans(Cut(l)) = SpansTo(l, e)
  BY SpansOfCut
<1>6. SpansTo(l, e) = {b[k] : k \in 1..n}
  BY <1>3, <1>4
<1>7. \A k \in 1..n : SubSeq(Cut(l), b[k][1], b[k][2]) = ws[k]
  BY <1>3, SpansOfCut
<1>8. WordsOf(Cut(l)) = {ws[k] : k \in 1..n}
  <2>1. WordsOf(Cut(l)) = {SubSeq(Cut(l), s[1], s[2]) : s \in SpansTo(l, e)}
    BY <1>5 DEF WordsOf
  <2>2. ASSUME NEW x PROVE x \in WordsOf(Cut(l)) <=> x \in {ws[k] : k \in 1..n}
    <3>1. ASSUME x \in WordsOf(Cut(l)) PROVE x \in {ws[k] : k \in 1..n}
      <4>1. PICK s \in SpansTo(l, e) : x = SubSeq(Cut(l), s[1], s[2])
        BY <2>1, <3>1
      <4>2. PICK k \in 1..n : s = b[k]
        BY <1>4
      <4>3. x = ws[k]
        BY <1>7, <4>1, <4>2, Zenon
      <4> QED BY <4>3
    <3>2. ASSUME NEW k \in 1..n, x = ws[k] PROVE x \in WordsOf(Cut(l))
      <4>1. b[k] \in SpansTo(l, e) /\ SubSeq(Cut(l), b[k][1], b[k][2]) = ws[k]
        BY <1>3, <1>7
      <4> QED BY <2>1, <3>2, <4>1
    <3> QED BY <3>1, <3>2
  <2> QED BY <2>2
<1>9. b \in [1..n -> SpansTo(l, e)]
  BY <1>2, <1>3
<1>10. \A j, k \in 1..n : b[j] = b[k] => j = k
  <2> TAKE j, k \in 1..n
  <2>0. b[j] \in SpansTo(l, e) /\ b[k] \in SpansTo(l, e)
    BY <1>3
  <2>1. b[j][1] \in 1..e /\ b[k][1] \in 1..e
    BY <1>1, <2>0, SpanFacts
  <2>2. j < k => b[j][1] < b[k][1]
    BY <1>2 DEF Covers
  <2>3. k < j => b[k][1] < b[j][1]
    BY <1>2 DEF Covers
  <2> QED BY <1>1, <2>1, <2>2, <2>3
<1>11. ExistsBijection(1..n, SpansTo(l, e))
  <2>1. b \in Injection(1..n, SpansTo(l, e))
    BY <1>3, <1>9, <1>10 DEF Injection, IsInjective
  <2>2. b \in Surjection(1..n, SpansTo(l, e))
    BY <1>4, <1>9 DEF Surjection
  <2> QED BY <2>1, <2>2 DEF ExistsBijection, Bijection
<1>12. IsFiniteSet(1..n) /\ Cardinality(1..n) = n
  BY FS_Interval
<1>13. Cardinality(SpansTo(l, e)) = n
  BY <1>11, <1>12, FS_Bijection
<1>14. \A k \in 1..n : b[k][1] \in Nat
  <2> TAKE k \in 1..n
  <2>1. b[k] \in SpansTo(l, e)
    BY <1>3
  <2>2. b[k][1] \in 1..e
    BY <1>1, <2>1, SpanFacts
  <2> QED BY <1>1, <2>2
<1>15. \A j, k \in 1..n : j < k => b[j][1] < b[k][1]
  BY <1>2 DEF Covers
<1> QED BY <1>2, <1>5, <1>6, <1>7, <1>8, <1>13, <1>14, <1>15 DEF WordsFound

\* The first word of the line.
LEMMA FirstWord ==
  ASSUME NEW l \in Seq(Text), NEW e, NEW ws, NEW b, CutsAt(l, e), Covers(l, e, e + 1, ws, b),
         NEW key
  PROVE  FirstIs(l, key) <=> Len(ws) >= 1 /\ ws[1] = <<key>>
<1>1. WordsFound(l, ws, b) /\ Len(ws) \in Nat
  BY AllWords
<1>2. PICK n \in Nat : n = Len(ws)
  BY <1>1
<1>3. \A k \in 1..n : b[k][1] \in Nat /\ SubSeq(Cut(l), b[k][1], b[k][2]) = ws[k]
  BY <1>1, <1>2 DEF WordsFound
<1>4. \A j, k \in 1..n : j < k => b[j][1] < b[k][1]
  BY <1>1, <1>2 DEF WordsFound
<1>5. Spans(Cut(l)) = {b[k] : k \in 1..n}
  BY <1>1, <1>2 DEF WordsFound
<1>6. ASSUME FirstIs(l, key) PROVE n >= 1 /\ ws[1] = <<key>>
  <2>1. PICK k \in 1..n : /\ \A j \in 1..n : b[k][1] <= b[j][1]
                          /\ SubSeq(Cut(l), b[k][1], b[k][2]) = <<key>>
    BY <1>5, <1>6 DEF FirstIs
  <2>2. 1 \in 1..n
    BY <2>1
  <2>3. k = 1
    <3>1. SUFFICES ASSUME 1 < k PROVE FALSE
      BY <2>1
    <3>2. b[1][1] < b[k][1] /\ b[k][1] <= b[1][1]
      BY <1>4, <2>1, <2>2, <3>1
    <3>3. b[1][1] \in Nat /\ b[k][1] \in Nat
      BY <1>3, <2>1, <2>2
    <3> QED BY <3>2, <3>3
  <2>4. ws[1] = <<key>>
    BY <1>3, <2>1, <2>2, <2>3, Zenon
  <2> QED BY <2>2, <2>4
<1>7. ASSUME n >= 1, ws[1] = <<key>> PROVE FirstIs(l, key)
  <2>1. 1 \in 1..n
    BY <1>7
  <2>2. \A j \in 1..n : b[1][1] <= b[j][1]
    BY <1>3, <1>4, <2>1
  <2> QED BY <1>3, <1>5, <1>7, <2>1, <2>2 DEF FirstIs
<1> QED BY <1>2, <1>6, <1>7

\* A line that gives a port, as the words tell it.
LEMMA PortWords ==
  ASSUME NEW l \in Seq(Text), NEW e, NEW ws, NEW b, CutsAt(l, e), Covers(l, e, e + 1, ws, b)
  PROVE  /\ SaysPort(l) <=> /\ Len(ws) = 2 /\ ws[1] = <<"port">> /\ IsNumber(ws[2])
                            /\ NumberOf[ws[2][1]] <= IntMax
         /\ SaysPort(l) => PortOf(l) = NumberOf[ws[2][1]]
<1>0. WordsFound(l, ws, b) /\ Len(ws) \in Nat
  BY AllWords
<1>1. PICK n \in Nat : n = Len(ws)
  BY <1>0
<1>2. PortLine(l) <=> Cardinality(Spans(Cut(l))) = 2 /\ FirstIs(l, "port")
  BY Zenon DEF PortLine, FirstIs
<1>3. PortLine(l) <=> n = 2 /\ ws[1] = <<"port">>
  <2>1. FirstIs(l, "port") <=> n >= 1 /\ ws[1] = <<"port">>
    BY <1>1, FirstWord
  <2>2. Cardinality(Spans(Cut(l))) = n
    BY <1>0, <1>1 DEF WordsFound
  <2> QED BY <1>2, <2>1, <2>2
<1>4. ~IsNumber(<<"port">>)
  BY ConfigAssumption DEF IsNumber
<1>5. ASSUME n = 2, ws[1] = <<"port">>
      PROVE  WordsOf(Cut(l)) = {<<"port">>, ws[2]}
  <2>1. WordsOf(Cut(l)) = {ws[k] : k \in 1..2}
    BY <1>0, <1>1, <1>5 DEF WordsFound
  <2>2. ASSUME NEW x PROVE x \in {ws[k] : k \in 1..2} <=> x = ws[1] \/ x = ws[2]
    <3>1. \A k \in 1..2 : k = 1 \/ k = 2
      OBVIOUS
    <3> QED BY <3>1
  <2> QED BY <1>5, <2>1, <2>2
<1>6. ASSUME SaysPort(l)
      PROVE  /\ n = 2 /\ ws[1] = <<"port">> /\ ws[2] # <<"port">> /\ IsNumber(ws[2])
             /\ NumberOf[ws[2][1]] <= IntMax
  <2>1. PortLine(l)
    BY <1>6 DEF SaysPort
  <2>2. PICK w \in WordsOf(Cut(l)) : /\ w # <<"port">> /\ IsNumber(w)
                                     /\ NumberOf[w[1]] <= IntMax
    BY <1>6, Zenon DEF SaysPort
  <2>3. w = ws[2]
    BY <1>3, <1>5, <2>1, <2>2
  <2> QED BY <1>3, <2>1, <2>2, <2>3
<1>7. n = 2 /\ ws[1] = <<"port">> /\ IsNumber(ws[2]) /\ NumberOf[ws[2][1]] <= IntMax
        => SaysPort(l)
  BY <1>3, <1>4, <1>5 DEF SaysPort
<1>8. ASSUME SaysPort(l) PROVE PortOf(l) = NumberOf[ws[2][1]]
  <2>1. (CHOOSE w \in WordsOf(Cut(l)) : w # <<"port">>) = ws[2]
    BY <1>5, <1>6, <1>8
  <2> QED BY <2>1 DEF PortOf
<1> QED BY <1>1, <1>6, <1>7, <1>8

-----------------------------------------------------------------------------
(* What a line sets.                                                       *)

Keys == DOMAIN FcopyConfig

\* The keys that the server's life depends on are there.
LEMMA KeysThere == "port" \in Keys /\ "daemonize" \in Keys
BY DEF Keys, FcopyConfig, IntKey, BoolKey

\* SetKey sets the key to the value of r, unless r is no value.
KeySets(c, ws, r) ==
  /\ r.ok => SetKey(c, ws) = [ok |-> TRUE, conf |-> [c EXCEPT ![ws[1][1]] = r.val]]
  /\ ~r.ok => SetKey(c, ws) = Failed
  /\ ws[1][1] = "port" => r = ParseSigned(Tail(ws))
  /\ ws[1][1] = "daemonize" => r = ParseBool(Tail(ws))

\* SetKey for a key that is known: the words behind it are parsed as its type tells.
LEMMA KeySet ==
  ASSUME NEW c, NEW ws, Len(ws[1]) = 1, ws[1][1] \in DOMAIN c
  PROVE  \E r : KeySets(c, ws, r)
<1> DEFINE key == ws[1][1]
           args == Tail(ws)
           r == CASE key \in IntKey -> ParseSigned(args)
                  [] key \in SizeKey -> ParseSize(args)
                  [] key \in StrKey -> ParseString(args)
                  [] key \in BoolKey -> ParseBool(args)
                  [] key = "partitions" -> ParsePartition(c["partitions"], args)
<1>1. SetKey(c, ws) = IF Len(ws[1]) # 1 \/ key \notin DOMAIN c THEN [ok |-> TRUE, conf |-> c]
                      ELSE IF r.ok THEN [ok |-> TRUE, conf |-> [c EXCEPT ![key] = r.val]]
                      ELSE Failed
  BY Zenon DEF SetKey
<1>2. key = "port" => r = ParseSigned(args)
  BY DEF IntKey, SizeKey, StrKey, BoolKey
<1>3. key = "daemonize" => r = ParseBool(args)
  BY DEF IntKey, SizeKey, StrKey, BoolKey
<1>4. PICK x : x = r
  OBVIOUS
<1> HIDE DEF r
<1> QED BY <1>1, <1>2, <1>3, <1>4 DEF KeySets

\* ParseBool: yes, no, or refused.
LEMMA BoolParsed ==
  ASSUME NEW args
  PROVE  \/ ParseBool(args) = [ok |-> TRUE, val |-> TRUE]
         \/ ParseBool(args) = [ok |-> TRUE, val |-> FALSE]
         \/ ParseBool(args) = Failed
<1>1. CASE args = <<<<"yes">>>>
  BY <1>1, Zenon DEF ParseBool
<1>2. CASE args # <<<<"yes">>>> /\ args = <<<<"no">>>>
  BY <1>2, Zenon DEF ParseBool
<1>3. CASE args # <<<<"yes">>>> /\ args # <<<<"no">>>>
  BY <1>3, Zenon DEF ParseBool
<1> QED BY <1>1, <1>2, <1>3, Zenon

\* A line without a known key sets nothing.
LEMMA NothingSet ==
  ASSUME NEW c, NEW ws, ws = <<>> \/ Len(ws[1]) # 1 \/ ws[1][1] \notin DOMAIN c
  PROVE  LoadLine(c, ws) = [ok |-> TRUE, conf |-> c]
BY Zenon DEF LoadLine, SetKey

\* What is left of conf when a line has been applied.
LineApplied(l, c, d) ==
  /\ DOMAIN d = Keys /\ d["daemonize"] \in BOOLEAN
  /\ d["port"] = IF SaysPort(l) THEN PortOf(l) ELSE c["port"]
  /\ SaysPort(l) => PortOf(l) \in 0..IntMax
  /\ ~BadPortLine(l) /\ Plain(l)

\* LoadLine sets the port to what the line says, and refuses a bad one.
LEMMA LineLoads ==
  ASSUME NEW l \in Seq(Text), NEW e, NEW ws, NEW b, CutsAt(l, e), Covers(l, e, e + 1, ws, b),
         NEW c, DOMAIN c = Keys, c["daemonize"] \in BOOLEAN, LoadLine(c, ws).ok
  PROVE  LineApplied(l, c, LoadLine(c, ws).conf)
<1>1. ws \in Seq(Seq(Text)) /\ Len(ws) \in Nat
  BY DEF Covers
<1>2. FirstIs(l, "port") <=> Len(ws) >= 1 /\ ws[1] = <<"port">>
  BY FirstWord
<1>3. /\ SaysPort(l) <=> /\ Len(ws) = 2 /\ ws[1] = <<"port">> /\ IsNumber(ws[2])
                         /\ NumberOf[ws[2][1]] <= IntMax
      /\ SaysPort(l) => PortOf(l) = NumberOf[ws[2][1]]
  BY PortWords
<1>4. Plain(l)
  <2>1. \A s \in SpansTo(l, e) : s[1] < e + 1
    <3> TAKE s \in SpansTo(l, e)
    <3>1. e \in Nat
      BY DEF CutsAt
    <3>2. s[1] \in 1..e
      BY <3>1, SpanFacts
    <3> QED BY <3>1, <3>2
  <2>2. \A s \in SpansTo(l, e) : l[s[1]] # Quote
    BY <2>1 DEF Covers
  <2> QED BY <2>2, PlainWords
<1>5. SaysPort(l) => PortOf(l) \in 0..IntMax
  <2>1. IsNumber(ws[2]) => NumberOf[ws[2][1]] \in Nat
    BY ConfigAssumption DEF IsNumber
  <2> QED BY <1>3, <2>1, ConfigAssumption
<1>6. CASE ws = <<>> \/ Len(ws[1]) # 1 \/ ws[1][1] \notin DOMAIN c
  <2>1. LoadLine(c, ws) = [ok |-> TRUE, conf |-> c]
    BY <1>6, NothingSet
  <2>2. ~(Len(ws) >= 1 /\ ws[1] = <<"port">>)
    <3>1. SUFFICES ASSUME Len(ws) >= 1, ws[1] = <<"port">> PROVE FALSE
      OBVIOUS
    <3>2. ws # <<>>
      BY <3>1
    <3>3. Len(ws[1]) = 1 /\ ws[1][1] = "port"
      BY <3>1
    <3> QED BY <1>6, <3>2, <3>3, KeysThere
  <2>3. ~SaysPort(l) /\ ~FirstIs(l, "port")
    BY <1>2, <1>3, <2>2
  <2> QED BY <1>4, <2>1, <2>3 DEF LineApplied, BadPortLine
<1>7. CASE ws # <<>> /\ Len(ws[1]) = 1 /\ ws[1][1] \in DOMAIN c
  <2>1. Len(ws) >= 1 /\ ws[1] \in Seq(Text)
    BY <1>1, <1>7
  <2>2. ws[1] = <<ws[1][1]>>
    BY <1>7, <2>1
  <2>3. PICK r : KeySets(c, ws, r)
    BY <1>7, KeySet
  <2>4. LoadLine(c, ws) = SetKey(c, ws)
    BY <1>7 DEF LoadLine
  <2>5. r.ok /\ LoadLine(c, ws).conf = [c EXCEPT ![ws[1][1]] = r.val]
    <3>1. CASE r.ok
      <4>1. LoadLine(c, ws) = [ok |-> TRUE, conf |-> [c EXCEPT ![ws[1][1]] = r.val]]
        BY <2>3, <2>4, <3>1, Zenon DEF KeySets
      <4>2. PICK x : x = [c EXCEPT ![ws[1][1]] = r.val]
        OBVIOUS
      <4>3. [ok |-> TRUE, conf |-> x].conf = x
        OBVIOUS
      <4> QED BY <3>1, <4>1, <4>2, <4>3, Zenon
    <3>2. CASE ~r.ok
      <4>1. LoadLine(c, ws) = Failed
        BY <2>3, <2>4, <3>2, Zenon DEF KeySets
      <4>2. Failed.ok = FALSE
        BY DEF Failed
      <4>3. Failed.ok
        BY <4>1, Zenon
      <4> QED BY <4>2, <4>3
    <3> QED BY <3>1, <3>2
  <2>6. PICK d : d = LoadLine(c, ws).conf /\ d = [c EXCEPT ![ws[1][1]] = r.val]
    BY <2>5
  <2>7. Len(Tail(ws)) = Len(ws) - 1 /\ (Len(ws) = 2 => Tail(ws)[1] = ws[2])
    BY <1>1, <1>7, HeadTailProperties
  <2>8. DOMAIN d = Keys /\ d[ws[1][1]] = r.val
        /\ \A k \in Keys : k # ws[1][1] => d[k] = c[k]
    BY <1>7, <2>6
  <2>9. d["daemonize"] \in BOOLEAN
    <3>1. CASE ws[1][1] = "daemonize"
      <4>1. r = ParseBool(Tail(ws))
        BY <2>3, <3>1 DEF KeySets
      <4>2. r.val \in BOOLEAN
        <5>1. Failed.ok = FALSE
          BY DEF Failed
        <5>2. \/ ParseBool(Tail(ws)) = [ok |-> TRUE, val |-> TRUE]
              \/ ParseBool(Tail(ws)) = [ok |-> TRUE, val |-> FALSE]
              \/ ParseBool(Tail(ws)) = Failed
          BY BoolParsed
        <5>3. r # Failed
          <6>1. SUFFICES ASSUME r = Failed PROVE FALSE
            OBVIOUS
          <6> QED BY <2>5, <5>1, <6>1, Zenon
        <5>4. CASE r = [ok |-> TRUE, val |-> TRUE]
          BY <5>4
        <5>5. CASE r = [ok |-> TRUE, val |-> FALSE]
          BY <5>5
        <5> QED BY <4>1, <5>2, <5>3, <5>4, <5>5, Zenon
      <4> QED BY <2>8, <3>1, <4>2
    <3>2. CASE ws[1][1] # "daemonize"
      <4>1. d["daemonize"] = c["daemonize"]
        BY <2>8, <3>2, KeysThere, Zenon
      <4> QED BY <4>1
    <3> QED BY <3>1, <3>2
  <2>10. CASE ws[1][1] = "port"
    <3>1. r = ParseSigned(Tail(ws))
      BY <2>3, <2>10 DEF KeySets
    <3>2. /\ Len(Tail(ws)) = 1 /\ IsNumber(Tail(ws)[1]) /\ NumberOf[Tail(ws)[1][1]] <= IntMax
          /\ r.val = NumberOf[Tail(ws)[1][1]]
      BY <2>5, <3>1 DEF ParseSigned, Failed
    <3>3. Len(ws) = 2
      BY <1>1, <2>7, <3>2
    <3>4. ws[1] = <<"port">>
      BY <2>2, <2>10
    <3>5. SaysPort(l) /\ r.val = PortOf(l)
      BY <1>3, <2>7, <3>2, <3>3, <3>4
    <3>6. d["port"] = PortOf(l)
      BY <2>8, <2>10, <3>5
    <3> QED BY <1>4, <1>5, <2>6, <2>8, <2>9, <3>5, <3>6, Zenon DEF LineApplied, BadPortLine
  <2>11. CASE ws[1][1] # "port"
    <3>1. ~SaysPort(l) /\ ~FirstIs(l, "port")
      BY <1>2, <1>3, <2>11
    <3>2. d["port"] = c["port"]
      BY <2>8, <2>11, KeysThere
    <3> QED BY <1>4, <1>5, <2>6, <2>8, <2>9, <3>1, <3>2, Zenon DEF LineApplied, BadPortLine
  <2> QED BY <2>10, <2>11
<1> QED BY <1>6, <1>7

\* A line in which nothing is wrong is not refused.
LEMMA FineLoads ==
  ASSUME NEW l \in Seq(Text), NEW e, NEW ws, NEW b, CutsAt(l, e), Covers(l, e, e + 1, ws, b),
         NEW c, DOMAIN c = Keys, FineLine(l)
  PROVE  LoadLine(c, ws).ok
<1>1. ws \in Seq(Seq(Text)) /\ Len(ws) \in Nat
  BY DEF Covers
<1>2. CASE SaysPort(l)
  <2>1. /\ Len(ws) = 2 /\ ws[1] = <<"port">> /\ IsNumber(ws[2])
        /\ NumberOf[ws[2][1]] <= IntMax
    <3>1. SaysPort(l) => /\ Len(ws) = 2 /\ ws[1] = <<"port">> /\ IsNumber(ws[2])
                         /\ NumberOf[ws[2][1]] <= IntMax
      BY PortWords
    <3> QED BY <1>2, <3>1, Zenon
  <2>2. Len(Tail(ws)) = 1 /\ Tail(ws)[1] = ws[2]
    <3>1. ws # <<>>
      BY <1>1, <2>1
    <3>2. Len(Tail(ws)) = Len(ws) - 1 /\ (Len(ws) = 2 => Tail(ws)[1] = ws[2])
      BY <1>1, <3>1, HeadTailProperties
    <3> QED BY <2>1, <3>2
  <2>3. ParseSigned(Tail(ws)).ok
    BY <2>1, <2>2 DEF ParseSigned
  <2>4. Len(ws[1]) = 1 /\ ws[1][1] = "port" /\ ws # <<>>
    BY <1>1, <2>1
  <2>5. PICK r : KeySets(c, ws, r)
    BY <2>4, KeySet, KeysThere
  <2>6. SetKey(c, ws) = [ok |-> TRUE, conf |-> [c EXCEPT ![ws[1][1]] = r.val]]
    BY <2>3, <2>4, <2>5, Zenon DEF KeySets
  <2>7. LoadLine(c, ws) = SetKey(c, ws)
    BY <2>4, Zenon DEF LoadLine
  <2>8. PICK x : x = [c EXCEPT ![ws[1][1]] = r.val]
    OBVIOUS
  <2>9. [ok |-> TRUE, conf |-> x].ok
    OBVIOUS
  <2> QED BY <2>6, <2>7, <2>8, <2>9, Zenon
<1>3. CASE ~SaysPort(l)
  <2>1. \A k \in Keys : ~FirstIs(l, k)
    BY <1>3 DEF FineLine, Keys
  <2>2. ws = <<>> \/ Len(ws[1]) # 1 \/ ws[1][1] \notin DOMAIN c
    <3>1. SUFFICES ASSUME ws # <<>>, Len(ws[1]) = 1, ws[1][1] \in DOMAIN c PROVE FALSE
      OBVIOUS
    <3>2. Len(ws) >= 1 /\ ws[1] \in Seq(Text)
      BY <1>1, <3>1
    <3>3. ws[1] = <<ws[1][1]>>
      BY <3>1, <3>2
    <3>4. FirstIs(l, ws[1][1])
      BY <3>2, <3>3, FirstWord
    <3> QED BY <2>1, <3>1, <3>4
  <2>3. LoadLine(c, ws) = [ok |-> TRUE, conf |-> c]
    BY <2>2, NothingSet
  <2> QED BY <2>3
<1> QED BY <1>2, <1>3

-----------------------------------------------------------------------------
(* The lines that have been read.                                          *)

\* The port is p after the first n lines of the file.
LinesRead(file, n, p) ==
  /\ \A i \in 1..n : Plain(file[i]) /\ ~BadPortLine(file[i])
  /\ \/ p = 5200 /\ \A i \in 1..n : ~SaysPort(file[i])
     \/ \E i \in 1..n : /\ SaysPort(file[i]) /\ p = PortOf(file[i])
                        /\ \A k \in i+1..n : ~SaysPort(file[k])

\* Another line.
LEMMA LinesNext ==
  ASSUME NEW file, NEW n \in Nat, NEW c, NEW d, LinesRead(file, n, c["port"]),
         LineApplied(file[n+1], c, d)
  PROVE  LinesRead(file, n + 1, d["port"])
<1>0. PICK p, q : p = c["port"] /\ q = d["port"]
  OBVIOUS
<1>1. /\ Plain(file[n+1]) /\ ~BadPortLine(file[n+1])
      /\ q = IF SaysPort(file[n+1]) THEN PortOf(file[n+1]) ELSE p
  BY <1>0 DEF LineApplied
<1>2. LinesRead(file, n, p)
  BY <1>0
<1>3. \A i \in 1..n+1 : i \in 1..n \/ i = n + 1
  OBVIOUS
<1>4. \A i \in 1..n+1 : Plain(file[i]) /\ ~BadPortLine(file[i])
  BY <1>1, <1>2, <1>3 DEF LinesRead
<1>5. CASE SaysPort(file[n+1])
  <2>1. n + 1 \in 1..n+1 /\ \A k \in (n+1)+1..n+1 : ~SaysPort(file[k])
    OBVIOUS
  <2>2. q = PortOf(file[n+1])
    BY <1>1, <1>5
  <2>3. LinesRead(file, n + 1, q)
    BY <1>4, <1>5, <2>1, <2>2 DEF LinesRead
  <2> QED BY <1>0, <2>3
<1>6. CASE ~SaysPort(file[n+1])
  <2>1. q = p
    BY <1>1, <1>6
  <2>2. CASE p = 5200 /\ \A i \in 1..n : ~SaysPort(file[i])
    <3>1. \A i \in 1..n+1 : ~SaysPort(file[i])
      BY <1>3, <1>6, <2>2
    <3>2. LinesRead(file, n + 1, q)
      BY <1>4, <2>1, <2>2, <3>1 DEF LinesRead
    <3> QED BY <1>0, <3>2
  <2>3. ASSUME NEW i \in 1..n, SaysPort(file[i]), p = PortOf(file[i]),
               \A k \in i+1..n : ~SaysPort(file[k])
        PROVE  LinesRead(file, n + 1, q)
    <3>1. i \in 1..n+1 /\ \A k \in i+1..n+1 : k \in i+1..n \/ k = n + 1
      OBVIOUS
    <3>2. \A k \in i+1..n+1 : ~SaysPort(file[k])
      BY <1>6, <2>3, <3>1
    <3> QED BY <1>4, <2>1, <2>3, <3>1, <3>2 DEF LinesRead
  <2> QED BY <1>0, <1>2, <2>2, <2>3 DEF LinesRead
<1> QED BY <1>5, <1>6

\* After all lines the port is that of the file.
LEMMA LinesEnd ==
  ASSUME NEW L, NEW file \in Seq(L), NEW p, LinesRead(file, Len(file), p)
  PROVE  FilePort(file) = p
<1>1. PICK n \in Nat : n = Len(file) /\ DOMAIN file = 1..n
  OBVIOUS
<1> DEFINE at == {i \in DOMAIN file : SaysPort(file[i])}
<1>2. CASE p = 5200 /\ \A i \in 1..n : ~SaysPort(file[i])
  <2>1. at = {}
    BY <1>1, <1>2
  <2> QED BY <1>2, <2>1 DEF FilePort
<1>3. ASSUME NEW i \in 1..n, SaysPort(file[i]), p = PortOf(file[i]),
             \A k \in i+1..n : ~SaysPort(file[k])
      PROVE  FilePort(file) = p
  <2>1. i \in at
    BY <1>1, <1>3
  <2>2. \A k \in at : k <= i /\ k \in Nat
    <3> TAKE k \in at
    <3>1. k \in 1..n /\ SaysPort(file[k])
      BY <1>1
    <3>2. k \notin i+1..n
      BY <1>3, <3>1
    <3> QED BY <3>1, <3>2
  <2>3. (CHOOSE j \in at : \A k \in at : k <= j) = i
    <3>1. \A j \in at : (\A k \in at : k <= j) => j = i
      BY <2>1, <2>2
    <3>2. \A k \in at : k <= i
      BY <2>2
    <3> HIDE DEF at
    <3> QED BY <2>1, <3>1, <3>2, Zenon
  <2>4. FilePort(file) = PortOf(file[CHOOSE j \in at : \A k \in at : k <= j])
    BY <2>1 DEF FilePort
  <2> HIDE DEF at
  <2> QED BY <1>3, <2>3, <2>4, Zenon
<1> QED BY <1>1, <1>2, <1>3 DEF LinesRead

-----------------------------------------------------------------------------
(* What the input says.                                                    *)

\* A set of numbers up to n that is not empty has a greatest one.
LEMMA GreatestNumber ==
  ASSUME NEW n \in Nat, NEW S \in SUBSET (1..n), S # {}
  PROVE  \E m \in S : \A k \in S : k <= m
<1> DEFINE T == {n - k : k \in S}
<1>1. T \in SUBSET Nat /\ T # {}
  OBVIOUS
<1>2. PICK t \in T : \A u \in T : t <= u
  BY <1>1, LeastNumber
<1>3. PICK m \in S : t = n - m
  OBVIOUS
<1>4. \A k \in S : n - k \in T
  OBVIOUS
<1> HIDE DEF T
<1>5. \A k \in S : k <= m
  BY <1>2, <1>3, <1>4
<1> QED BY <1>5

\* The argument of the last option of a kind is the argument of one of them.
LEMMA LastArgIs ==
  ASSUME NEW in \in Inputs, NEW o, NEW no, Usage(in, o)
  PROVE  \E i \in DOMAIN in.args : in.args[i].opt = o /\ LastArg(in, o, no) = in.args[i].arg
<1> DEFINE at == {i \in DOMAIN in.args : in.args[i].opt = o}
<1>1. PICK n \in Nat : DOMAIN in.args = 1..n
  <2>1. in.args \in Seq({in.args[i] : i \in DOMAIN in.args})
    BY MainAssumption
  <2>2. PICK R : R = {in.args[i] : i \in DOMAIN in.args}
    OBVIOUS
  <2> QED BY <2>1, <2>2
<1>2. at \in SUBSET (1..n) /\ at # {}
  BY <1>1 DEF Usage
<1>3. \E m \in at : \A k \in at : k <= m
  BY <1>2, GreatestNumber
<1>4. PICK i : i = CHOOSE j \in at : \A k \in at : k <= j
  OBVIOUS
<1>5. i \in at
  BY <1>3, <1>4
<1>6. LastArg(in, o, no) = in.args[i].arg
  BY <1>2, <1>4 DEF LastArg
<1> QED BY <1>5, <1>6

\* A configuration file is a sequence of lines.
LEMMA FileTyped ==
  ASSUME NEW in \in Inputs
  PROVE  /\ FileLines(in) \in Seq(Seq(Text))
         /\ ~Usage(in, "c") /\ in.home = NoFile => FileLines(in) = <<>>
<1>1. /\ IsFile(in.home)
      /\ \A i \in DOMAIN in.args : in.args[i].opt = "c" => IsFile(in.args[i].arg)
  BY MainAssumption
<1>2. IsFile(FileOfInput(in))
  <2>1. CASE Usage(in, "c")
    BY <1>1, <2>1, LastArgIs DEF FileOfInput
  <2>2. CASE ~Usage(in, "c")
    BY <1>1, <2>2 DEF FileOfInput, LastArg, Usage
  <2> QED BY <2>1, <2>2
<1>3. ~Usage(in, "c") => FileOfInput(in) = in.home
  BY DEF FileOfInput, LastArg, Usage
<1>4. FileLines(in) \in Seq(Seq(STRING))
  <2>1. PICK B : B = Seq(Seq(STRING)) /\ <<>> \in B
    BY EmptySeq, Zenon
  <2>2. FileOfInput(in) = NoFile \/ FileOfInput(in) \in B
    BY <1>2, <2>1, Zenon DEF IsFile
  <2> QED BY <2>1, <2>2, Zenon DEF FileLines
<1>5. STRING \subseteq Text
  BY DEF Text
<1>6. Seq(STRING) \subseteq Seq(Text)
  BY <1>5, SeqMonotonic, Zenon
<1>7. Seq(Seq(STRING)) \subseteq Seq(Seq(Text))
  BY <1>6, SeqMonotonic, Zenon
<1>8. ~Usage(in, "c") /\ in.home = NoFile => FileLines(in) = <<>>
  BY <1>3 DEF FileLines
<1> QED BY <1>4, <1>7, <1>8

\* What the reference says of an input.
LEMMA ReferenceIs ==
  ASSUME NEW in
  PROVE  /\ Reference(in).port = IF Usage(in, "p") THEN AtoiOf[LastArg(in, "p", "")]
                                 ELSE FilePort(FileLines(in))
         /\ Reference(in).plain <=> \A i \in DOMAIN FileLines(in) : Plain(FileLines(in)[i])
         /\ Reference(in).badport <=>
              \E i \in DOMAIN FileLines(in) : BadPortLine(FileLines(in)[i])
         /\ Reference(in).fine <=> \A i \in DOMAIN FileLines(in) : FineLine(FileLines(in)[i])
         /\ Reference(in).help <=> Usage(in, "h")
BY Zenon DEF Reference

-----------------------------------------------------------------------------
(* The process reads its configuration.                                    *)

\* The file of input in is read as far as scan s; the port is p by then.
LoadInv(in, s, p) ==
  /\ s.line \in 1..Len(FileLines(in)) + 1
  /\ s.line \in 1..Len(FileLines(in)) => LineInv(FileLines(in)[s.line], s)
  /\ LinesRead(FileLines(in), s.line - 1, p)

\* The configuration c is what the reference t tells.
AsTold(c, t) == c["port"] = t.port /\ t.plain /\ ~t.badport /\ ~t.help

\* Main between its options and its start.
Starting == {"daemon", "log", "signals", "make", "listen"}

\* As far as the file has been read, the port is that of its lines; then it is that of
\* the input, and from CheckPort on one that can be bound.
ReadInv ==
  /\ MainTypeOK
  /\ DOMAIN conf = Keys
  /\ pc \in Reading => input \in Inputs /\ told = Reference(input)
  /\ pc = "find" => conf["port"] = 5200 /\ scan = NewLine(1)
  /\ pc = "load" => LoadInv(input, scan, conf["port"])
  /\ pc = "args" => LinesRead(FileLines(input), Len(FileLines(input)), conf["port"])
  /\ pc \in {"port"} \cup Starting => AsTold(conf, told)
  /\ pc \in Starting => PortOk(conf["port"])
  /\ listening => AsTold(conf, told) /\ PortOk(conf["port"])

\* The port and the manner of running before the file is read.
LEMMA ConfigBegins == FcopyConfig["port"] = 5200 /\ FcopyConfig["daemonize"] = FALSE
<1>1. PICK D : D = IntKey \cup SizeKey \cup StrKey \cup BoolKey \cup {"partitions"}
  OBVIOUS
<1>2. "port" \in D /\ "daemonize" \in D
  BY <1>1 DEF IntKey, BoolKey
<1>3. "daemonize" \notin IntKey /\ "daemonize" \notin SizeKey /\ "daemonize" \notin StrKey
  BY DEF IntKey, SizeKey, StrKey
<1>4. FcopyConfig["port"] = 5200
  <2>1. "port" \notin SizeKey /\ "port" \notin StrKey /\ "port" \notin BoolKey
    BY DEF SizeKey, StrKey, BoolKey
  <2> QED BY <1>1, <1>2, <2>1 DEF FcopyConfig
<1>5. FcopyConfig["daemonize"] = FALSE
  BY <1>1, <1>2, <1>3 DEF FcopyConfig
<1> QED BY <1>4, <1>5

\* At first no line has been read.
LEMMA ReadInit == MainInit => ReadInv
<1> SUFFICES ASSUME MainInit PROVE ReadInv
  OBVIOUS
<1>1. conf["port"] = 5200 /\ conf["daemonize"] = FALSE /\ DOMAIN conf = Keys
  <2>1. conf = FcopyConfig
    BY DEF MainInit
  <2>2. conf["port"] = 5200 /\ conf["daemonize"] = FALSE
    BY <2>1, ConfigBegins
  <2>3. DOMAIN conf = Keys
    BY <2>1, Zenon DEF Keys
  <2> QED BY <2>2, <2>3
<1>2. conf["port"] \in 0..IntMax
  <2>1. 5200 \in 0..IntMax
    BY ConfigAssumption
  <2> QED BY <1>1, <2>1
<1>3. /\ sig \in [Sig -> {"none", "check", "notify", "wake", "done"}]
      /\ req \in [Req -> {"none", "begun", "reply", "late"}]
  BY DEF MainInit
<1>4. MainTypeOK
  BY <1>1, <1>2, <1>3 DEF MainInit, MainTypeOK
<1> QED BY <1>1, <1>4 DEF MainInit, ReadInv, Reading, Starting

\* A step that neither reads nor sets anything, but may let main go on.
LEMMA ReadQuiet ==
  ASSUME ReadInv, MainTypeOK', UNCHANGED <<conf, told>>, pc' \notin Reading,
         pc' \in {"port"} \cup Starting => pc \in {"port"} \cup Starting,
         pc' \in Starting => pc \in Starting,
         listening' => listening \/ pc \in Starting
  PROVE  ReadInv'
BY DEF ReadInv, Reading, Starting

\* The options are looked at, the file is found or not.
LEMMA ReadFind ==
  ASSUME ReadInv, FindConfig
  PROVE  ReadInv'
<1> USE DEF objVars, envVars, cfgVars
<1>1. UNCHANGED <<conf, told, scan, input, made, sig, req, listening>> /\ pc = "find"
  BY DEF FindConfig
<1>2. pc' \in {"exit", "load", "args"}
  BY DEF FindConfig, Exit
<1>3. MainTypeOK'
  BY <1>1, <1>2 DEF ReadInv, MainTypeOK
<1>4. input \in Inputs /\ told = Reference(input) /\ conf["port"] = 5200 /\ scan = NewLine(1)
  BY <1>1 DEF ReadInv, Reading
<1>5. FileLines(input) \in Seq(Seq(Text))
  BY <1>4, FileTyped
<1>6. \A p : p = 5200 => LinesRead(FileLines(input), 0, p)
  BY DEF LinesRead
<1>7. CASE pc' = "load"
  <2>1. NewLine(1).line = 1
    BY DEF NewLine
  <2>2. PICK file \in Seq(Seq(Text)) : file = FileLines(input)
    BY <1>5
  <2>3. 1 \in 1..Len(file) => LineInv(file[1], NewLine(1))
    BY LineBegins
  <2>4. LoadInv(input, NewLine(1), 5200)
    BY <1>6, <2>1, <2>2, <2>3 DEF LoadInv
  <2>5. LoadInv(input', scan', conf'["port"])
    BY <1>1, <1>4, <2>4
  <2> QED BY <1>1, <1>3, <1>7, <2>5 DEF ReadInv, Reading, Starting
<1>8. CASE pc' = "args"
  <2>1. ~Usage(input, "c") /\ input.home = NoFile
    BY <1>8 DEF FindConfig, Exit
  <2>2. FileLines(input) = <<>>
    BY <1>4, <2>1, FileTyped
  <2>3. LinesRead(FileLines(input), Len(FileLines(input)), conf["port"])
    BY <1>4, <1>6, <2>2
  <2> QED BY <1>1, <1>3, <1>8, <2>3 DEF ReadInv, Reading, Starting
<1>9. CASE pc' = "exit"
  BY <1>1, <1>3, <1>9, ReadQuiet DEF Reading, Starting
<1> QED BY <1>2, <1>7, <1>8, <1>9

\* What holds while the file is read.
LEMMA WhileLoading ==
  ASSUME ReadInv, pc = "load"
  PROVE  /\ input \in Inputs /\ told = Reference(input) /\ FileLines(input) \in Seq(Seq(Text))
         /\ LoadInv(input, scan, conf["port"])
         /\ DOMAIN FileLines(input) = 1..Len(FileLines(input))
         /\ Len(FileLines(input)) \in Nat
<1>1. input \in Inputs
  BY DEF ReadInv, Reading
<1>2. FileLines(input) \in Seq(Seq(Text))
  BY <1>1, FileTyped
<1> QED BY <1>1, <1>2 DEF ReadInv, Reading

\* A round of the loops of parse_line.
LEMMA ReadScan ==
  ASSUME ReadInv, ScanLine
  PROVE  ReadInv'
<1> USE DEF objVars, envVars, cfgVars
<1>1. UNCHANGED <<conf, told, input, made, sig, req, listening>> /\ pc = "load"
  BY DEF ScanLine
<1>2. pc' \in {"exit", "load"}
  BY DEF ScanLine, Exit
<1>3. MainTypeOK'
  BY <1>1, <1>2 DEF ReadInv, MainTypeOK
<1>4. CASE pc' = "exit"
  BY <1>1, <1>3, <1>4, ReadQuiet DEF Reading, Starting
<1>5. CASE pc' = "load"
  <2>1. PICK file : file = FileLines(input)
    OBVIOUS
  <2>2. file \in Seq(Seq(Text)) /\ LoadInv(input, scan, conf["port"]) /\ DOMAIN file = 1..Len(file)
    BY <1>1, <2>1, WhileLoading
  <2>3. PICK n \in 1..Len(file), l \in Seq(Text) : n = scan.line /\ l = file[n] /\ l = Line
    BY <2>1, <2>2 DEF ScanLine, Line
  <2>4. ~ScanOver(l, scan) /\ ~ScanFails(l, scan) /\ scan' = ScanNext(l, scan)
    BY <1>5, <2>3 DEF ScanLine, Exit
  <2>5. LineInv(l, scan)
    BY <2>1, <2>2, <2>3 DEF LoadInv
  <2>6. LineInv(l, scan') /\ scan'.line = n
    BY <2>3, <2>4, <2>5, ScanKeeps
  <2>7. LoadInv(input, scan', conf["port"])
    BY <2>1, <2>2, <2>3, <2>6 DEF LoadInv
  <2>8. LoadInv(input', scan', conf'["port"])
    BY <1>1, <2>7
  <2> QED BY <1>1, <1>3, <1>5, <2>8 DEF ReadInv, Reading, Starting
<1> QED BY <1>2, <1>4, <1>5

\* A line is over.
LEMMA ReadApply ==
  ASSUME LifeInv, ReadInv, ApplyLine
  PROVE  ReadInv'
<1> USE DEF objVars, envVars
<1>1. UNCHANGED <<told, input, made, sig, req, listening>> /\ pc = "load"
  BY DEF ApplyLine
<1>2. DOMAIN conf = Keys /\ conf["daemonize"] \in BOOLEAN /\ conf["port"] \in 0..IntMax
  BY DEF ReadInv, MainTypeOK
<1>3. ~listening'
  BY <1>1 DEF LifeInv, OrderInv, Accepting
<1>4. CASE pc' = "exit" /\ UNCHANGED <<conf, scan>>
  <2>1. MainTypeOK'
    BY <1>1, <1>4 DEF ReadInv, MainTypeOK
  <2> QED BY <1>1, <1>4, <2>1, ReadQuiet DEF Reading, Starting
<1>5. CASE pc' = pc /\ UNCHANGED shell
  <2>1. PICK file : file = FileLines(input)
    OBVIOUS
  <2>2. file \in Seq(Seq(Text)) /\ LoadInv(input, scan, conf["port"]) /\ DOMAIN file = 1..Len(file)
    BY <1>1, <2>1, WhileLoading
  <2>3. PICK n \in 1..Len(file), l \in Seq(Text) : n = scan.line /\ l = file[n] /\ l = Line
    BY <2>1, <2>2 DEF ApplyLine, Line
  <2>4. PICK e, b : CutsAt(l, e) /\ Covers(l, e, e + 1, scan.words, b)
    <3>1. LineInv(l, scan) /\ ScanOver(l, scan)
      BY <2>1, <2>2, <2>3 DEF LoadInv, ApplyLine
    <3> QED BY <3>1, LineEnds
  <2>5. /\ LoadLine(conf, scan.words).ok /\ conf' = LoadLine(conf, scan.words).conf
        /\ scan' = NewLine(n + 1)
    BY <1>1, <1>5, <2>3 DEF ApplyLine, Exit
  <2>6. LineApplied(l, conf, conf')
    BY <1>2, <2>4, <2>5, LineLoads
  <2>7. LinesRead(file, n, conf'["port"])
    <3>1. LinesRead(file, n - 1, conf["port"]) /\ n - 1 \in Nat /\ n - 1 + 1 = n
      BY <2>1, <2>2, <2>3 DEF LoadInv
    <3>2. PICK m \in Nat : m = n - 1 /\ m + 1 = n
      BY <3>1
    <3>3. LinesRead(file, m + 1, conf'["port"])
      BY <2>3, <2>6, <3>1, <3>2, LinesNext
    <3> QED BY <3>2, <3>3
  <2>8. scan'.line = n + 1 /\ n + 1 \in 1..Len(file) + 1
    BY <2>3, <2>5 DEF NewLine
  <2>9. n + 1 \in 1..Len(file) => LineInv(file[n+1], scan')
    BY <2>2, <2>5, LineBegins
  <2>10. LoadInv(input, scan', conf'["port"])
    BY <2>1, <2>3, <2>7, <2>8, <2>9 DEF LoadInv
  <2>11. LoadInv(input', scan', conf'["port"])
    BY <1>1, <2>10
  <2>12. DOMAIN conf' = Keys /\ conf'["daemonize"] \in BOOLEAN /\ conf'["port"] \in 0..IntMax
    BY <1>2, <2>6 DEF LineApplied
  <2>13. MainTypeOK'
    BY <1>1, <1>5, <2>12 DEF ReadInv, MainTypeOK
  <2> QED BY <1>1, <1>3, <1>5, <2>11, <2>12, <2>13 DEF ReadInv, Reading, Starting
<1> QED BY <1>4, <1>5 DEF ApplyLine, Exit

\* The file is read to its end, or is not there.
LEMMA ReadDone ==
  ASSUME ReadInv, NoConfig \/ ConfigDone
  PROVE  ReadInv'
<1> USE DEF objVars, envVars, cfgVars
<1>1. UNCHANGED <<conf, told, scan, input, made, sig, req, listening>> /\ pc = "load"
  BY DEF NoConfig, ConfigDone
<1>2. pc' \in {"exit", "args"}
  BY DEF NoConfig, ConfigDone, Exit
<1>3. MainTypeOK'
  BY <1>1, <1>2 DEF ReadInv, MainTypeOK
<1>4. CASE pc' = "exit"
  BY <1>1, <1>3, <1>4, ReadQuiet DEF Reading, Starting
<1>5. CASE pc' = "args"
  <2>1. scan.line > Len(FileLines(input))
    BY <1>5 DEF NoConfig, ConfigDone, Exit
  <2>2. scan.line - 1 = Len(FileLines(input))
    BY <1>1, <2>1, WhileLoading DEF LoadInv
  <2>3. LinesRead(FileLines(input), scan.line - 1, conf["port"])
    BY <1>1, WhileLoading DEF LoadInv
  <2>4. LinesRead(FileLines(input), Len(FileLines(input)), conf["port"])
    BY <2>2, <2>3
  <2> QED BY <1>1, <1>3, <1>5, <2>4 DEF ReadInv, Reading, Starting
<1> QED BY <1>2, <1>4, <1>5

\* The options override the file.
LEMMA ReadArgs ==
  ASSUME LifeInv, ReadInv, ApplyArgs
  PROVE  ReadInv'
<1> USE DEF objVars, envVars
<1>1. UNCHANGED <<told, made, sig, req, listening>> /\ pc = "args"
  BY DEF ApplyArgs
<1>0. ~listening'
  BY <1>1 DEF LifeInv, OrderInv, Accepting
<1>2. input \in Inputs /\ told = Reference(input) /\ DOMAIN conf = Keys
      /\ conf["daemonize"] \in BOOLEAN /\ conf["port"] \in 0..IntMax
  BY <1>1 DEF ReadInv, Reading, MainTypeOK
<1>3. CASE pc' = "exit" /\ UNCHANGED conf
  <2>1. MainTypeOK'
    BY <1>1, <1>3 DEF ReadInv, MainTypeOK
  <2> QED BY <1>1, <1>3, <2>1, ReadQuiet DEF Reading, Starting
<1>4. CASE pc' = "port" /\ ~Usage(input, "h")
           /\ \E d : conf' = [ArgsConf(conf) EXCEPT
                                 !["default-partition"] = IF @ = <<>> THEN d ELSE @]
  <2>1. PICK d : conf' = [ArgsConf(conf) EXCEPT !["default-partition"] = IF @ = <<>> THEN d ELSE @]
    BY <1>4
  <2>2. PICK p : p = IF Usage(input, "p") THEN AtoiOf[LastArg(input, "p", "")] ELSE conf["port"]
    OBVIOUS
  <2>3. /\ DOMAIN ArgsConf(conf) = Keys /\ ArgsConf(conf)["port"] = p
        /\ ArgsConf(conf)["daemonize"] = (conf["daemonize"] \/ Usage(input, "g"))
    BY <1>2, <2>2, KeysThere DEF ArgsConf
  <2>4. DOMAIN conf' = Keys /\ conf'["port"] = p /\ conf'["daemonize"] \in BOOLEAN
    BY <2>1, <2>3, KeysThere
  <2>5. p \in 0..IntMax
    <3>1. CASE Usage(input, "p")
      <4>0. PICK o, no : o = "p" /\ no = ""
        OBVIOUS
      <4>1. PICK i \in DOMAIN input.args : /\ input.args[i].opt = "p"
                                           /\ LastArg(input, "p", "") = input.args[i].arg
        <5>1. \E i \in DOMAIN input.args : /\ input.args[i].opt = o
                                            /\ LastArg(input, o, no) = input.args[i].arg
          <6>1. input \in Inputs /\ Usage(input, o)
            BY <1>2, <3>1, <4>0
          <6> QED BY <6>1, LastArgIs
        <5> QED BY <4>0, <5>1, Zenon
      <4>2. AtoiOf[input.args[i].arg] \in 0..IntMax
        BY <1>2, <4>1, MainAssumption
      <4> QED BY <2>2, <3>1, <4>1, <4>2
    <3>2. CASE ~Usage(input, "p")
      BY <1>2, <2>2, <3>2
    <3> QED BY <3>1, <3>2
  <2>6. PICK file : file = FileLines(input) /\ file \in Seq(Seq(Text))
    BY <1>2, FileTyped
  <2>7. LinesRead(file, Len(file), conf["port"])
    BY <1>1, <2>6 DEF ReadInv
  <2>8. FilePort(file) = conf["port"]
    BY <2>6, <2>7, LinesEnd
  <2>9. told.port = p
    BY <1>2, <2>2, <2>6, <2>8, ReferenceIs
  <2>10. \A i \in DOMAIN file : Plain(file[i]) /\ ~BadPortLine(file[i])
    BY <2>6, <2>7 DEF LinesRead
  <2>11. told.plain /\ ~told.badport /\ ~told.help
    BY <1>2, <1>4, <2>6, <2>10, ReferenceIs
  <2>12. AsTold(conf', told')
    BY <1>1, <2>4, <2>9, <2>11 DEF AsTold
  <2>13. MainTypeOK'
    BY <1>1, <1>4, <2>4, <2>5 DEF ReadInv, MainTypeOK
  <2> QED BY <1>0, <1>4, <2>4, <2>12, <2>13 DEF ReadInv, Reading, Starting
<1> QED BY <1>3, <1>4 DEF ApplyArgs, Exit

\* Every step of main keeps the invariant.
LEMMA MainReads ==
  ASSUME LifeInv, ReadInv, MainStep
  PROVE  ReadInv'
<1> USE DEF objVars, envVars, cfgVars, Goto, Exit, Reading, Starting
<1>1. CASE FindConfig
  BY <1>1, ReadFind
<1>2. CASE NoConfig \/ ConfigDone
  BY <1>2, ReadDone
<1>3. CASE ScanLine
  BY <1>3, ReadScan
<1>4. CASE ApplyLine
  BY <1>4, ReadApply
<1>5. CASE ApplyArgs
  BY <1>5, ReadArgs
<1>6. CASE CheckPort
  <2>1. MainTypeOK'
    BY <1>6 DEF CheckPort, ReadInv, MainTypeOK
  <2>2. CASE pc' = "exit"
    BY <1>6, <2>1, <2>2, ReadQuiet DEF CheckPort
  <2>3. CASE pc' = "daemon"
    <3>1. PortOk(conf["port"])
      BY <1>6, <2>3 DEF CheckPort
    <3> QED BY <1>6, <2>1, <2>3, <3>1 DEF CheckPort, ReadInv
  <2> QED BY <1>6, <2>2, <2>3 DEF CheckPort
<1>7. CASE \/ Daemonize \/ OpenLog \/ InstallHandlers \/ MakeService \/ StartFails \/ Listen
           \/ MakePart("cli", "mng") \/ MakePart("mng", "run") \/ SetRunning
           \/ TestRunning \/ WaitRunning \/ Shutdown \/ WaitFinish \/ Reset \/ Destroy \/ Quit
  <2> USE DEF Daemonize, OpenLog, InstallHandlers, MakeService, StartFails, Listen, MakePart,
              SetRunning, TestRunning, WaitRunning, Shutdown, WaitFinish, Reset, Destroy, Quit
  <2>1. pc' \in {"signals", "log", "exit", "make", "listen", "cli", "mng", "run", "wait",
                  "sleep", "asleep", "stop", "finish", "reset", "destroy", "quit"}
    BY <1>7
  <2>2. UNCHANGED <<conf, told, sig, req>> /\ (made' = made \/ made' \subseteq made \cup Parts)
    BY <1>7 DEF Parts
  <2>3. MainTypeOK'
    BY <2>1, <2>2 DEF ReadInv, MainTypeOK
  <2> QED BY <1>7, <2>3, ReadQuiet
<1> QED BY <1>1, <1>2, <1>3, <1>4, <1>5, <1>6, <1>7 DEF MainStep

\* Signals and requests set nothing.
LEMMA OthersRead ==
  ASSUME ReadInv,
         \/ \E h \in Sig : SignalArrives(h) \/ SignalStep(h)
         \/ \E r \in Req : RequestArrives(r) \/ RequestStep(r)
  PROVE  /\ ReadInv' /\ UNCHANGED <<input, told, conf>>
         /\ pc = "load" /\ pc' = "exit" => shell' = IF shell = NoStatus THEN "signal" ELSE shell
<1> USE DEF SignalArrives, SignalStep, SignalChecks, NotifyStep, SignalStores, SignalWakes,
            RequestArrives, RequestStep, RequestRuns, RequestReplies, RequestLate, Killed,
            Exit, mainVars, cfgVars
<1>1. UNCHANGED <<input, told, conf, scan, made, listening>>
  OBVIOUS
<1>2. pc' \in {pc, "exit", "killed"} \/ (pc = "asleep" /\ pc' = "sleep")
  OBVIOUS
<1>3. /\ sig' \in [Sig -> {"none", "check", "notify", "wake", "done"}]
      /\ req' \in [Req -> {"none", "begun", "reply", "late"}]
  BY DEF ReadInv, MainTypeOK
<1>4. pc = "load" /\ pc' = "exit" => shell' = IF shell = NoStatus THEN "signal" ELSE shell
  OBVIOUS
<1>5. MainTypeOK'
  BY <1>1, <1>2, <1>3 DEF ReadInv, MainTypeOK
<1>6. CASE pc' = pc
  BY <1>1, <1>5, <1>6 DEF ReadInv, Reading, Starting
<1>7. CASE pc' # pc
  BY <1>1, <1>2, <1>5, <1>7, ReadQuiet DEF Reading, Starting
<1> QED BY <1>1, <1>4, <1>6, <1>7

\* Every step of the process keeps the invariant.
LEMMA ReadNext == LifeInv /\ ReadInv /\ [MainNext]_vars => ReadInv'
<1> SUFFICES ASSUME LifeInv, ReadInv, [MainNext]_vars PROVE ReadInv'
  OBVIOUS
<1>1. CASE UNCHANGED vars
  BY <1>1 DEF vars, cfgVars, ReadInv, MainTypeOK, Reading, Starting
<1> QED BY <1>1, MainReads, OthersRead DEF MainNext

\* A line in which nothing is wrong does not end the program.
LEMMA FineGoesOn ==
  ASSUME ReadInv, StatusInv, [MainNext]_vars, pc = "load", pc' = "exit", told.fine,
         FileOfInput(input) # NoFile
  PROVE  shell' = "signal"
<1>1. PICK file : file = FileLines(input)
  OBVIOUS
<1>2. /\ file \in Seq(Seq(Text)) /\ LoadInv(input, scan, conf["port"]) /\ DOMAIN file = 1..Len(file)
      /\ told = Reference(input)
  BY <1>1, WhileLoading
<1>3. \A i \in DOMAIN file : FineLine(file[i])
  BY <1>1, <1>2, ReferenceIs
<1>4. ASSUME scan.line \in DOMAIN FileLines(input)
      PROVE  Line \in Seq(Text) /\ LineInv(Line, scan) /\ FineLine(Line)
  BY <1>1, <1>2, <1>3, <1>4 DEF LoadInv, Line
<1>5. ~ScanLine
  <2>1. SUFFICES ASSUME ScanLine PROVE FALSE
    OBVIOUS
  <2>2. scan.line \in DOMAIN FileLines(input) /\ ScanFails(Line, scan)
    BY <2>1 DEF ScanLine
  <2>3. scan.inside
    BY <2>2 DEF ScanFails
  <2>4. ~Plain(Line)
    BY <1>4, <2>2, <2>3 DEF LineInv
  <2> QED BY <1>4, <2>2, <2>4 DEF FineLine
<1>6. ~ApplyLine
  <2>1. SUFFICES ASSUME ApplyLine PROVE FALSE
    OBVIOUS
  <2>2. scan.line \in DOMAIN FileLines(input) /\ ScanOver(Line, scan)
        /\ ~LoadLine(conf, scan.words).ok
    BY <2>1 DEF ApplyLine
  <2>3. PICK e, b : CutsAt(Line, e) /\ Covers(Line, e, e + 1, scan.words, b)
    BY <1>4, <2>2, LineEnds
  <2>4. DOMAIN conf = Keys
    BY DEF ReadInv
  <2>5. PICK l \in Seq(Text) : l = Line /\ FineLine(l)
    BY <1>4, <2>2
  <2> QED BY <2>2, <2>3, <2>4, <2>5, FineLoads
<1>7. ~MainStep
  BY <1>5, <1>6 DEF MainStep, FindConfig, NoConfig, ConfigDone, ApplyArgs, CheckPort, Daemonize,
     OpenLog, InstallHandlers, MakeService, StartFails, Listen, MakePart, SetRunning,
     TestRunning, WaitRunning, Shutdown, WaitFinish, Reset, Destroy, Quit
<1>8. pc' # pc
  OBVIOUS
<1>9. shell = NoStatus
  BY DEF StatusInv, Reading
<1> QED BY <1>7, <1>8, <1>9, OthersRead DEF MainNext, vars

\* MainTypeOK for every input: whatever lines a file has, the port stays an int.
THEOREM MainTyped == MainSpec => []MainTypeOK
<1>1. ReadInv => MainTypeOK
  BY DEF ReadInv
<1> QED BY ReadInit, ReadNext, ServiceLife, <1>1, PTL DEF MainSpec

\* ListensAsTold, for every input: a server listens only on the port that its command
\* line and file name, and only if the whole file is lines of plain words.
THEOREM ListensTold == MainSpec => []ListensAsTold
<1>1. ReadInv => ListensAsTold
  <2> SUFFICES ASSUME ReadInv, listening PROVE ListensAsTold
    BY DEF ListensAsTold
  <2>1. AsTold(conf, told) /\ PortOk(conf["port"]) /\ conf["port"] \in 0..IntMax
    BY DEF ReadInv, MainTypeOK
  <2>2. conf["port"] >= 1 /\ conf["port"] <= 65535 /\ conf["port"] \in Nat
    BY <2>1, ConfigAssumption DEF PortOk
  <2>3. conf["port"] \in Ports
    BY <2>2 DEF Ports
  <2> QED BY <2>1, <2>3 DEF ListensAsTold, AsTold
<1> QED BY ReadInit, ReadNext, ServiceLife, <1>1, PTL DEF MainSpec

\* FineIsLoaded, for every input: a file of fine lines is read to its end, unless a
\* signal ends the process.
THEOREM FineLoaded == MainSpec => FineIsLoaded
<1>1. ReadInv /\ StatusInv /\ [MainNext]_vars =>
        [pc = "load" /\ pc' = "exit" /\ told.fine /\ FileOfInput(input) # NoFile
           => shell' = "signal"]_vars
  BY FineGoesOn
<1> QED BY ReadInit, ReadNext, StatusInit, StatusNext, ServiceLife, <1>1, PTL
        DEF MainSpec, FineIsLoaded
=============================================================================
