----------------------------- MODULE ServerMain -----------------------------
(***************************************************************************)
(* The server process from its command line to its end: init_config, main  *)
(* and the signal handler (server/fcopy_server.cpp), and start, wait,      *)
(* notify and stop of class FcopyService (server/service.cpp).             *)
(*                                                                         *)
(* The main thread, the signal handlers and the request handlers run at    *)
(* the same time.  What the requests do is module FcopyServer; here they   *)
(* only reach for the parts of the service object.                         *)
(***************************************************************************)
EXTENDS Config, FiniteSets

CONSTANTS
  Inputs,    \* command lines with the files they may lead to
  NoFile,
  AtoiOf,    \* what atoi returns for a text
  CurDir,    \* what current_dir returns: a directory, or <<>> if it fails
  Sig,       \* the signals sent to the process, each once
  Req        \* room for request handlers

\* An option is [opt |-> "c", arg |-> file], [opt |-> "p", arg |-> text],
\* [opt |-> o] for o in "g", "h", "bad" (an unknown letter), "badlong".
IsFile(f) == f = NoFile \/ f \in Seq(Seq(STRING))

ASSUME MainAssumption ==
  \A in \in Inputs :
    /\ DOMAIN in = {"args", "home"} /\ IsFile(in.home)
    /\ in.args \in Seq({in.args[i] : i \in DOMAIN in.args})
    /\ \A i \in DOMAIN in.args :
         /\ in.args[i].opt = "c" => IsFile(in.args[i].arg)
         /\ in.args[i].opt = "p" => AtoiOf[in.args[i].arg] \in 0..IntMax

VARIABLES
  pc,      \* where main stands
  input,   \* the arguments, and the file that ~/.fcopy/fcopy.conf holds
  told,    \* what the input asked for, by the reference below (for properties)
  conf,    \* the global conf
  scan,    \* how far the configuration file has been read
  shell,   \* the exit status that the caller of the program sees
  ret,     \* main's ret
  service, \* the global pointer: TRUE if it is not null
  freed,   \* the service object has been destroyed
  made,    \* which of cli and mng the object holds
  listening, running,
  sig,     \* sig[h]: where the signal handler stands
  req,     \* req[r]: where the request handler stands
  early,   \* requests that arrived before start() had made every part
  killer   \* who reached for a part that was not there

vars == <<pc, input, told, conf, scan, shell, ret, service, freed, made, listening,
          running, sig, req, early, killer>>

objVars == <<service, freed, made, listening, running>>
envVars == <<sig, req, early, killer>>
cfgVars == <<input, told, conf, scan>>

Parts == {"cli", "mng"}
NoStatus == "none"
Nobody == "nobody"

Usage(in, o) == \E i \in DOMAIN in.args : in.args[i].opt = o

\* The argument of the last option o, or no if there is none.
LastArg(in, o, no) ==
  LET at == {i \in DOMAIN in.args : in.args[i].opt = o}
  IN IF at = {} THEN no
     ELSE in.args[CHOOSE i \in at : \A k \in at : k <= i].arg

-----------------------------------------------------------------------------
(* The reference: what a configuration file says, line by line.            *)

\* The line up to its comment, as the set of the places of its words.
Cut(l) == LET h == {k \in DOMAIN l : l[k] = Hash}
          IN IF h = {} THEN l ELSE SubSeq(l, 1, (CHOOSE k \in h : \A n \in h : k <= n) - 1)

Spans(l) ==
  {s \in (DOMAIN l) \X (DOMAIN l) :
     /\ \A k \in s[1]..s[2] : l[k] # Space
     /\ s[1] <= s[2]
     /\ s[1] = 1 \/ l[s[1]-1] = Space
     /\ s[2] = Len(l) \/ l[s[2]+1] = Space}

WordsOf(l) == {SubSeq(l, s[1], s[2]) : s \in Spans(l)}

\* No word begins with a quote.
Plain(l) == \A s \in Spans(Cut(l)) : Cut(l)[s[1]] # Quote

\* A port line: the word port, then one number.
PortLine(l) ==
  Cardinality(Spans(Cut(l))) = 2
    /\ \E s \in Spans(Cut(l)) : \A u \in Spans(Cut(l)) : s[1] <= u[1]
                               /\ SubSeq(Cut(l), s[1], s[2]) = <<"port">>

PortOf(l) ==
  LET w == CHOOSE w \in WordsOf(Cut(l)) : w # <<"port">>
  IN NumberOf[w[1]]

SaysPort(l) ==
  PortLine(l) /\ \E w \in WordsOf(Cut(l)) : w # <<"port">> /\ IsNumber(w)
                                             /\ NumberOf[w[1]] <= IntMax

FirstIs(l, key) ==
  \E s \in Spans(Cut(l)) : (\A u \in Spans(Cut(l)) : s[1] <= u[1])
                           /\ SubSeq(Cut(l), s[1], s[2]) = <<key>>

\* A line that begins with port but gives no port.
BadPortLine(l) == FirstIs(l, "port") /\ ~SaysPort(l)

\* A line that sets nothing, or only the port.
FineLine(l) ==
  /\ Plain(l)
  /\ SaysPort(l) \/ ~\E k \in DOMAIN FcopyConfig : FirstIs(l, k)

\* One quoted argument of a setting that is a string: key "text".
QuotedLine(l) ==
  /\ Len(l) = 5 /\ l[1] \in StrKey /\ l[2] = Space
  /\ l[3] = Quote /\ l[5] = Quote /\ l[4] \notin Special

\* The ports that a client can name.
Ports == {p \in Nat : 0 < p /\ p < 2^16}

FileOfInput(in) == LastArg(in, "c", in.home)

FileLines(in) == IF FileOfInput(in) = NoFile THEN <<>> ELSE FileOfInput(in)

FilePort(file) ==
  LET at == {i \in DOMAIN file : SaysPort(file[i])}
  IN IF at = {} THEN 5200 ELSE PortOf(file[CHOOSE i \in at : \A k \in at : k <= i])

Reference(in) ==
  [port |-> IF Usage(in, "p") THEN AtoiOf[LastArg(in, "p", "")] ELSE FilePort(FileLines(in)),
   plain |-> \A i \in DOMAIN FileLines(in) : Plain(FileLines(in)[i]),
   badport |-> \E i \in DOMAIN FileLines(in) : BadPortLine(FileLines(in)[i]),
   fine |-> \A i \in DOMAIN FileLines(in) : FineLine(FileLines(in)[i]),
   quoted |-> \E i \in DOMAIN FileLines(in) : QuotedLine(FileLines(in)[i]),
   help |-> Usage(in, "h")]

-----------------------------------------------------------------------------
(* init_config                                                             *)

MainInit ==
  /\ pc = "find"
  /\ input \in Inputs
  /\ told = Reference(input)
  /\ conf = FcopyConfig
  /\ scan = NewLine(1)
  /\ shell = NoStatus /\ ret = "0"
  /\ service = FALSE /\ freed = FALSE /\ made = {}
  /\ listening = FALSE /\ running = FALSE
  /\ sig = [h \in Sig |-> "none"]
  /\ req = [r \in Req |-> "none"]
  /\ early = {} /\ killer = Nobody

\* The process ends and its caller sees status e, unless that was answered by
\* the parent process already.
Exit(e) == pc' = "exit" /\ shell' = IF shell = NoStatus THEN e ELSE shell

\* The first pass over the options, which looks for -c and unknown ones only.
\* long_opts has no end mark: an unknown long option makes getopt_long read on
\* behind the table.
FindConfig ==
  /\ pc = "find"
  /\ \/ Usage(input, "bad") /\ Exit("-1")
     \/ Usage(input, "badlong") /\ \E e \in {"-1", "crash"} : Exit(e)
     \/ /\ ~Usage(input, "bad") /\ ~Usage(input, "badlong")
        /\ pc' = IF Usage(input, "c") \/ input.home # NoFile THEN "load" ELSE "args"
        /\ UNCHANGED shell
  /\ UNCHANGED <<cfgVars, ret, objVars, envVars>>

\* load_service_config: a file given with -c may not be there.
NoConfig ==
  /\ pc = "load" /\ FileOfInput(input) = NoFile
  /\ Exit("-1")
  /\ UNCHANGED <<cfgVars, ret, objVars, envVars>>

\* The line that is being read.
Line == FileLines(input)[scan.line]

\* A round of the loops of parse_line.
ScanLine ==
  /\ pc = "load" /\ scan.line \in DOMAIN FileLines(input) /\ ~ScanOver(Line, scan)
  /\ \/ ScanFails(Line, scan) /\ Exit("-1") /\ UNCHANGED scan
     \/ ~ScanFails(Line, scan) /\ scan' = ScanNext(Line, scan) /\ UNCHANGED <<pc, shell>>
  /\ UNCHANGED <<input, told, conf, ret, objVars, envVars>>

\* The line is over: its key is set, or the file is refused.
ApplyLine ==
  LET r == LoadLine(conf, scan.words)
  IN /\ pc = "load" /\ scan.line \in DOMAIN FileLines(input) /\ ScanOver(Line, scan)
     /\ \/ ~r.ok /\ Exit("-1") /\ UNCHANGED <<conf, scan>>
        \/ r.ok /\ conf' = r.conf /\ scan' = NewLine(scan.line + 1) /\ UNCHANGED <<pc, shell>>
     /\ UNCHANGED <<input, told, ret, objVars, envVars>>

ConfigDone ==
  /\ pc = "load" /\ FileOfInput(input) # NoFile /\ scan.line > Len(FileLines(input))
  /\ pc' = "args" /\ UNCHANGED shell
  /\ UNCHANGED <<cfgVars, ret, objVars, envVars>>

\* A plausible bug: a port of the command line yields to one of the file.
ArgsConf_FileFirst(c) ==
  [c EXCEPT !["port"] = IF Usage(input, "p") /\ @ = 5200
                        THEN AtoiOf[LastArg(input, "p", "")] ELSE @,
            !["daemonize"] = @ \/ Usage(input, "g")]

ArgsConf(c) ==
  [c EXCEPT !["port"] = IF Usage(input, "p") THEN AtoiOf[LastArg(input, "p", "")] ELSE @,
            !["daemonize"] = @ \/ Usage(input, "g")]

\* The second pass, which lets the options override the file; --help ends the
\* program only here.  The paths of the log and pid files are made absolute,
\* which may fail.
ApplyArgs ==
  /\ pc = "args"
  /\ \/ Usage(input, "h") /\ Exit("0") /\ UNCHANGED <<input, conf>>
     \/ /\ ~Usage(input, "h") /\ (conf["logfile"] # <<>> \/ conf["pidfile"] # <<>>)
        /\ Exit("1") /\ UNCHANGED <<input, conf>>
     \/ /\ ~Usage(input, "h")
        /\ \E d \in CurDir :
             conf' = [ArgsConf(conf) EXCEPT !["default-partition"] =
                        IF @ = <<>> THEN d ELSE @]
        /\ input' = [args |-> <<>>, home |-> NoFile]
        /\ pc' = "port"
        /\ UNCHANGED shell
  /\ UNCHANGED <<told, scan, ret, objVars, envVars>>
-----------------------------------------------------------------------------
(* main                                                                    *)

Goto(p) == pc' = p /\ UNCHANGED shell

PortOk(p) == p >= 1 /\ p <= 65535

CheckPort ==
  /\ pc = "port"
  /\ IF PortOk(conf["port"]) THEN Goto("daemon") ELSE Exit("1")
  /\ UNCHANGED <<cfgVars, ret, objVars, envVars>>

\* daemon(): the parent exits with 0 at once, also if fork failed.
Daemonize ==
  /\ pc = "daemon"
  /\ \/ ~conf["daemonize"] /\ Goto("log")
     \/ conf["daemonize"] /\ shell' = "0" /\ pc' \in {"log", "exit"}
  /\ UNCHANGED <<cfgVars, ret, objVars, envVars>>

\* A log file that cannot be opened ends the program.
OpenLog ==
  /\ pc = "log"
  /\ \/ Goto("signals")
     \/ conf["logfile"] # <<>> /\ Exit("1")
  /\ UNCHANGED <<cfgVars, ret, objVars, envVars>>

InstallHandlers ==
  /\ pc = "signals"
  /\ Goto("make")
  /\ UNCHANGED <<cfgVars, ret, objVars, envVars>>

MakeService ==
  /\ pc = "make"
  /\ service' = TRUE
  /\ Goto("listen")
  /\ UNCHANGED <<cfgVars, ret, freed, made, listening, running, envVars>>

\* A plausible bug: the error of start() does not become main's status.
StartError_Dropped == "0"

StartError == "-1"

\* start(): without a default partition, or if the port cannot be bound ...
StartFails ==
  /\ pc = "listen"
  /\ ret' = StartError
  /\ Goto("reset")
  /\ UNCHANGED <<cfgVars, objVars, envVars>>

\* ... else requests may arrive from now on, before cli and mng exist.
Listen ==
  /\ pc = "listen" /\ conf["default-partition"] # <<>>
  /\ listening' = TRUE
  /\ Goto("cli")
  /\ UNCHANGED <<cfgVars, ret, service, freed, made, running, envVars>>

MakePart(p, next) ==
  /\ pc = p
  /\ made' = made \cup {p}
  /\ Goto(next)
  /\ UNCHANGED <<cfgVars, ret, service, freed, listening, running, envVars>>

\* running = true overwrites a false that a signal has put there before.
SetRunning ==
  /\ pc = "run"
  /\ running' = TRUE
  /\ Goto("wait")
  /\ UNCHANGED <<cfgVars, ret, service, freed, made, listening, envVars>>

\* wait(): if (running) ...
TestRunning ==
  /\ pc = "wait"
  /\ Goto(IF running THEN "sleep" ELSE "stop")
  /\ UNCHANGED <<cfgVars, ret, objVars, envVars>>

\* ... running.wait(true): the value is compared and the thread goes to sleep
\* in one step; a notification makes it compare again.
WaitRunning ==
  /\ pc = "sleep"
  /\ Goto(IF running THEN "asleep" ELSE "stop")
  /\ UNCHANGED <<cfgVars, ret, objVars, envVars>>

\* stop(): shutdown ...
Shutdown ==
  /\ pc = "stop"
  /\ listening' = FALSE
  /\ Goto("finish")
  /\ UNCHANGED <<cfgVars, ret, service, freed, made, running, envVars>>

Answering == {r \in Req : req[r] \in {"begun", "reply"}}

\* A plausible bug: stop() does not wait.
Finished_Always == TRUE

\* ... and wait_finish, until every request has been answered.  A handler that
\* goes on after its reply (a close without wait_close) is not waited for.
Finished == Answering = {}

WaitFinish ==
  /\ pc = "finish" /\ Finished
  /\ Goto("reset")
  /\ UNCHANGED <<cfgVars, ret, objVars, envVars>>

\* service.reset(): the pointer is null first, then the object is destroyed.
Reset ==
  /\ pc = "reset"
  /\ service' = FALSE
  /\ Goto("destroy")
  /\ UNCHANGED <<cfgVars, ret, freed, made, listening, running, envVars>>

Destroy ==
  /\ pc = "destroy"
  /\ freed' = TRUE
  /\ Goto("quit")
  /\ UNCHANGED <<cfgVars, ret, service, made, listening, running, envVars>>

Quit ==
  /\ pc = "quit"
  /\ Exit(ret)
  /\ UNCHANGED <<cfgVars, ret, objVars, envVars>>

MainStep ==
  \/ FindConfig \/ NoConfig \/ ScanLine \/ ApplyLine \/ ConfigDone \/ ApplyArgs
  \/ CheckPort \/ Daemonize \/ OpenLog \/ InstallHandlers \/ MakeService \/ StartFails \/ Listen
  \/ MakePart("cli", "mng") \/ MakePart("mng", "run") \/ SetRunning
  \/ TestRunning \/ WaitRunning \/ Shutdown \/ WaitFinish \/ Reset \/ Destroy \/ Quit

-----------------------------------------------------------------------------
(* signal_handler, on whatever thread it runs                              *)

Dead == pc \in {"exit", "killed"}
mainVars == <<cfgVars, ret, service, freed, made, listening>>

\* An access to memory that is not there: the process may be killed.
Killed(who) ==
  /\ pc' = "killed" /\ killer' = who
  /\ shell' = IF shell = NoStatus THEN "crash" ELSE shell

\* Before the handlers are installed a signal ends the process.
SignalArrives(h) ==
  /\ ~Dead /\ sig[h] = "none"
  /\ IF pc \in {"find", "load", "args", "port", "daemon", "log", "signals"}
     THEN Exit("signal") /\ UNCHANGED sig
     ELSE sig' = [sig EXCEPT ![h] = "check"] /\ UNCHANGED <<pc, shell>>
  /\ UNCHANGED <<mainVars, running, req, early, killer>>

\* if (service)
SignalChecks(h) ==
  /\ ~Dead /\ sig[h] = "check"
  /\ sig' = [sig EXCEPT ![h] = IF service THEN "notify" ELSE "done"]
  /\ UNCHANGED <<pc, shell, mainVars, running, req, early, killer>>

\* notify(): running = false, then notify_all.  The object may be gone by now.
SignalStores(h) ==
  /\ ~Dead /\ sig[h] = "notify"
  /\ \/ freed /\ Killed(h) /\ UNCHANGED <<sig, running>>
     \/ /\ running' = FALSE
        /\ sig' = [sig EXCEPT ![h] = "wake"]
        /\ UNCHANGED <<pc, shell, killer>>
  /\ UNCHANGED <<mainVars, req, early>>

SignalWakes(h) ==
  /\ ~Dead /\ sig[h] = "wake"
  /\ pc' = IF pc = "asleep" THEN "sleep" ELSE pc
  /\ sig' = [sig EXCEPT ![h] = "done"]
  /\ UNCHANGED <<shell, mainVars, running, req, early, killer>>

\* A plausible bug: the store does not come before the notification.
NotifyStep_WakeFirst(h) ==
  \/ /\ ~Dead /\ sig[h] = "notify"
     /\ pc' = IF pc = "asleep" THEN "sleep" ELSE pc
     /\ sig' = [sig EXCEPT ![h] = "wake"]
     /\ UNCHANGED <<shell, mainVars, running, req, early, killer>>
  \/ /\ ~Dead /\ sig[h] = "wake"
     /\ running' = FALSE
     /\ sig' = [sig EXCEPT ![h] = "done"]
     /\ UNCHANGED <<pc, shell, mainVars, req, early, killer>>

NotifyStep(h) == SignalStores(h) \/ SignalWakes(h)

SignalStep(h) == SignalChecks(h) \/ NotifyStep(h)

-----------------------------------------------------------------------------
(* Requests                                                                *)

RequestArrives(r) ==
  /\ ~Dead /\ listening /\ req[r] = "none"
  /\ req' = [req EXCEPT ![r] = "begun"]
  /\ early' = IF made = Parts THEN early \ {r} ELSE early \cup {r}
  /\ UNCHANGED <<pc, shell, mainVars, running, sig, killer>>

\* A handler uses mng, unless it refuses the request before; one that forwards
\* uses cli too.
RequestRuns(r) ==
  /\ ~Dead /\ req[r] = "begun"
  /\ \E need \in {{}, {"mng"}, Parts} :
       \/ ~(need \subseteq made) /\ Killed(r) /\ UNCHANGED req
       \/ freed /\ Killed(r) /\ UNCHANGED req
       \/ /\ need \subseteq made
          /\ req' = [req EXCEPT ![r] = "reply"]
          /\ UNCHANGED <<pc, shell, killer>>
  /\ UNCHANGED <<mainVars, running, sig, early>>

\* The reply ends the handler, or a close without wait_close goes on.
RequestReplies(r) ==
  /\ ~Dead /\ req[r] = "reply"
  /\ \E next \in {"none", "late"} : req' = [req EXCEPT ![r] = next]
  /\ UNCHANGED <<pc, shell, mainVars, running, sig, early, killer>>

\* The file is closed after the reply; the object may be gone by now.
RequestLate(r) ==
  /\ ~Dead /\ req[r] = "late"
  /\ \/ freed /\ Killed(r) /\ UNCHANGED req
     \/ req' = [req EXCEPT ![r] = "none"] /\ UNCHANGED <<pc, shell, killer>>
  /\ UNCHANGED <<mainVars, running, sig, early>>

RequestStep(r) == RequestRuns(r) \/ RequestReplies(r) \/ RequestLate(r)

-----------------------------------------------------------------------------

MainNext ==
  \/ MainStep
  \/ \E h \in Sig : SignalArrives(h) \/ SignalStep(h)
  \/ \E r \in Req : RequestArrives(r) \/ RequestStep(r)

\* The threads are scheduled; signals and requests need not come.
MainSpec ==
  /\ MainInit /\ [][MainNext]_vars
  /\ WF_vars(MainStep)
  /\ \A h \in Sig : WF_vars(SignalStep(h))
  /\ \A r \in Req : WF_vars(RequestStep(r))

-----------------------------------------------------------------------------
(* Properties                                                              *)

MainTypeOK ==
  /\ pc \in {"find", "load", "args", "port", "daemon", "log", "signals", "make", "listen",
             "cli", "mng", "run", "wait", "sleep", "asleep", "stop", "finish", "reset",
             "destroy", "quit", "exit", "killed"}
  /\ conf["port"] \in 0..IntMax /\ conf["daemonize"] \in BOOLEAN
  /\ made \subseteq Parts
  /\ sig \in [Sig -> {"none", "check", "notify", "wake", "done"}]
  /\ req \in [Req -> {"none", "begun", "reply", "late"}]

\* A server listens only on the port it was told to: the last -p, or else the
\* last port line of the file that -c names or that is found at home, or else
\* 5200; and only if the whole file could be read as lines of plain words.
ListensAsTold ==
  listening => /\ conf["port"] = told.port /\ told.port \in Ports
               /\ told.plain /\ ~told.badport /\ ~told.help

\* The other way round: a file that is there and whose lines are plain words,
\* a port wherever one is announced and a comment wherever one begins, is loaded.
FineIsLoaded ==
  [][pc = "load" /\ pc' = "exit" /\ told.fine /\ FileOfInput(input) # NoFile
       => shell' = "signal"]_vars

\* What the caller is told: in the foreground a status of 0 means help, or a
\* server that was complete and stopped on a signal.
StatusIsTrue ==
  (pc = "exit" /\ shell = "0" /\ ~conf["daemonize"] /\ ~told.help)
    => /\ made = Parts
       /\ \E h \in Sig : sig[h] \in {"wake", "done"}

\* A request that came after start() and is not yet answered always finds the
\* parts it needs: only a request that came during start(), a close that goes
\* on after its reply, or a signal handler can reach for one that is gone.
OnlyRacesKill ==
  pc = "killed" => \/ killer \in Sig
                   \/ killer \in early
                   \/ req[killer] = "late"

\* A signal that finds the server waiting ends the process.
SignalEnds ==
  \A h \in Sig : (sig[h] = "check" /\ pc \in {"wait", "sleep", "asleep"}) ~> Dead

\* A quoted argument is taken (comment of unescape: the escapes it knows).
QuotedTaken == ~(pc = "exit" /\ shell = "-1" /\ told.quoted)
=============================================================================
