----------------------------- MODULE FileSender -----------------------------
(***************************************************************************)
(* The sending side: class FileSender (client/file_sender.cpp) driven by   *)
(* upload_file and by the file loop of main (client/fcopy_cli.cpp).  Each  *)
(* client runs one coroutine, main[c], that opens the file on every        *)
(* target, installs the forwarding chain, starts the parallel_send         *)
(* coroutines work[c][w], joins them and closes the file on every target.  *)
(*                                                                         *)
(* A remote call is two steps: it is made (at becomes "await") and it      *)
(* returns an error code.  Here the code returned is arbitrary; module     *)
(* Fcopy connects the calls to the servers, and lets a local file shrink.  *)
(* The speed limiter only delays a request.                                *)
(***************************************************************************)
EXTENDS Protocol, FiniteSets

CONSTANTS
  Client,     \* running fcopy-cli processes
  Worker,     \* the parallel_send coroutines of a client
  N,          \* number of targets
  Method,     \* "chain" or "tree"
  Files,      \* Files[c]: the sequence of [name, size] that client c uploads
  ChunkSize   \* bytes per request

ASSUME SenderAssumption ==
  /\ N \in Nat \ {0}
  /\ ChunkSize \in Nat \ {0}
  /\ Worker # {}
  /\ NoToken \notin Token
  /\ \A c \in Client : /\ Len(Files[c]) \in Nat \ {0}
                       /\ \A k \in 1..Len(Files[c]) : Files[c][k].size \in Nat

VARIABLES
  main,    \* main[c]: the coroutine upload_file
  tokens,  \* tokens[c][i]: file_tokens
  cur,     \* cur[c]: cur_offset, protected by FileSender::mtx
  error,   \* error[c]: the atomic error shared by the workers
  work,    \* work[c][w]: the coroutine parallel_send
  acked    \* acked[c]: history, the offsets whose request has returned "ok"

senderVars == <<main, tokens, cur, error, work, acked>>

Target == 0..N-1
Phase  == {"open", "chain", "send", "close", "done"}
WorkPc == {"off", "start", "check", "claim", "read", "call", "fail", "exit"}

Size(c)    == Files[c][main[c].file].size
Offsets(c) == {o \in 0..Size(c)-1 : o % ChunkSize = 0}
ChunkLen(c, o) == IF o + ChunkSize <= Size(c) THEN ChunkSize ELSE Size(c) - o

\* A worker that holds a claimed chunk.
Busy(c, w) == work[c][w].pc \in {"read", "call", "fail"}

FreshMain(f) == [ph |-> "open", i |-> 0, file |-> f, at |-> "go",
                 err |-> "ok", cerr |-> "ok"]
IdleWorkers  == [w \in Worker |-> [pc |-> "off", off |-> 0, err |-> "ok"]]
NoTokens     == [i \in Target |-> NoToken]

MainState == [ph : Phase, i : 0..N, file : Nat \ {0}, at : {"go", "await"},
              err : Err, cerr : Err]
WorkState == [pc : WorkPc, off : Nat, err : Err]

SenderTypeOK ==
  /\ main \in [Client -> MainState]
  /\ \A c \in Client : main[c].file \in 1..Len(Files[c])
  /\ tokens \in [Client -> [Target -> Token \cup {NoToken}]]
  /\ cur \in [Client -> Nat]
  /\ error \in [Client -> Err]
  /\ work \in [Client -> [Worker -> WorkState]]
  /\ acked \in [Client -> SUBSET Nat]

SenderInit ==
  /\ main = [c \in Client |-> FreshMain(1)]
  /\ tokens = [c \in Client |-> NoTokens]
  /\ cur = [c \in Client |-> 0]
  /\ error = [c \in Client |-> "ok"]
  /\ work = [c \in Client |-> IdleWorkers]
  /\ acked = [c \in Client |-> {}]

-----------------------------------------------------------------------------
(* The main coroutine: remote calls made one after the other.              *)

\* remote_close skips the targets whose token is empty.
Calls(c) ==
  \/ main[c].ph = "open"
  \/ main[c].ph = "chain" /\ Children(Method, main[c].i, N) # <<>>
  \/ main[c].ph = "close" /\ main[c].i < N /\ tokens[c][main[c].i] # NoToken

Call(c) ==
  /\ main[c].at = "go" /\ Calls(c)
  /\ main' = [main EXCEPT ![c].at = "await"]
  /\ UNCHANGED <<tokens, cur, error, work, acked>>

Waits(c, ph) == main[c].ph = ph /\ main[c].at = "await"

\* A plausible bug: after a failed create the files already open stay open.
GiveUp_NoClose(c, e) ==
  main' = [main EXCEPT ![c].ph = "done", ![c].at = "go", ![c].err = e]

\* Any error before the transfer goes straight to close_file.
GiveUp(c, e) ==
  main' = [main EXCEPT ![c].ph = "close", ![c].i = 0, ![c].at = "go",
                       ![c].err = e]

\* create_file cannot open the local file.
LocalOpenFails(c) ==
  /\ main[c].ph = "open" /\ main[c].i = 0 /\ main[c].at = "go"
  /\ GiveUp(c, "EIO")
  /\ UNCHANGED <<tokens, cur, error, work, acked>>

OpenReturns(c, e, t) ==
  /\ Waits(c, "open")
  /\ IF e = "ok"
     THEN /\ tokens' = [tokens EXCEPT ![c][main[c].i] = t]
          /\ main' = [main EXCEPT
                        ![c].at = "go",
                        ![c].ph = IF main[c].i + 1 = N THEN "chain" ELSE "open",
                        ![c].i  = IF main[c].i + 1 = N THEN 0 ELSE main[c].i + 1]
     ELSE GiveUp(c, e) /\ UNCHANGED tokens
  /\ UNCHANGED <<cur, error, work, acked>>

ChainReturns(c, e) ==
  /\ Waits(c, "chain")
  /\ IF e = "ok"
     THEN main' = [main EXCEPT ![c].at = "go", ![c].i = @ + 1]
     ELSE GiveUp(c, e)
  /\ UNCHANGED <<tokens, cur, error, work, acked>>

\* The loop ends at the first target with nothing to forward to; send_file
\* resets the offset and the error and starts the workers.
StartSend(c) ==
  /\ main[c].ph = "chain" /\ main[c].at = "go"
  /\ Children(Method, main[c].i, N) = <<>>
  /\ main' = [main EXCEPT ![c].ph = "send"]
  /\ cur' = [cur EXCEPT ![c] = 0]
  /\ error' = [error EXCEPT ![c] = "ok"]
  /\ work' = [work EXCEPT ![c] = [w \in Worker |-> [@[w] EXCEPT !.pc = "start"]]]
  /\ UNCHANGED <<tokens, acked>>

\* A plausible bug: close_file is called when the first worker has returned.
JoinSend_First(c) ==
  /\ main[c].ph = "send"
  /\ \E w \in Worker : work[c][w].pc = "exit"
  /\ main' = [main EXCEPT ![c].ph = "close", ![c].i = 0, ![c].err = error[c]]
  /\ UNCHANGED <<tokens, cur, error, work, acked>>

\* async_wait: send_file goes on when every worker has returned.
JoinSend(c) ==
  /\ main[c].ph = "send"
  /\ \A w \in Worker : work[c][w].pc = "exit"
  /\ main' = [main EXCEPT ![c].ph = "close", ![c].i = 0, ![c].err = error[c]]
  /\ UNCHANGED <<tokens, cur, error, work, acked>>

CloseSkips(c) ==
  /\ main[c].ph = "close" /\ main[c].at = "go" /\ main[c].i < N
  /\ tokens[c][main[c].i] = NoToken
  /\ main' = [main EXCEPT ![c].i = @ + 1]
  /\ UNCHANGED <<tokens, cur, error, work, acked>>

\* A plausible bug: the result of the last close replaces that of the others.
CloseReturns_LastError(c, e) ==
  /\ Waits(c, "close")
  /\ main' = [main EXCEPT ![c].at = "go", ![c].i = @ + 1, ![c].cerr = e]
  /\ tokens' = IF e = "ok" THEN [tokens EXCEPT ![c][main[c].i] = NoToken]
                           ELSE tokens
  /\ UNCHANGED <<cur, error, work, acked>>

\* A plausible bug: a target that fails to close is asked again.
CloseReturns_Again(c, e) ==
  /\ Waits(c, "close")
  /\ main' = [main EXCEPT ![c].at = "go", ![c].i = IF e = "ok" THEN @ + 1 ELSE @]
  /\ tokens' = IF e = "ok" THEN [tokens EXCEPT ![c][main[c].i] = NoToken]
                           ELSE tokens
  /\ UNCHANGED <<cur, error, work, acked>>

\* A failed close keeps its token; the first error is reported.
CloseReturns(c, e) ==
  /\ Waits(c, "close")
  /\ main' = [main EXCEPT ![c].at = "go", ![c].i = @ + 1,
                          ![c].cerr = FirstError(@, e)]
  /\ tokens' = IF e = "ok" THEN [tokens EXCEPT ![c][main[c].i] = NoToken]
                           ELSE tokens
  /\ UNCHANGED <<cur, error, work, acked>>

\* upload_file returns the transfer's error, or else the error of the close.
Finish(c) ==
  /\ main[c].ph = "close" /\ main[c].at = "go" /\ main[c].i = N
  /\ main' = [main EXCEPT ![c].ph = "done", ![c].err = FirstError(@, main[c].cerr)]
  /\ UNCHANGED <<tokens, cur, error, work, acked>>

\* A plausible bug: the loop over the files runs one too far.
NextFile_TooFar(c) ==
  /\ main[c].ph = "done" /\ main[c].err = "ok" /\ main[c].file <= Len(Files[c])
  /\ main' = [main EXCEPT ![c] = FreshMain(main[c].file + 1)]
  /\ tokens' = [tokens EXCEPT ![c] = NoTokens]
  /\ cur' = [cur EXCEPT ![c] = 0]
  /\ error' = [error EXCEPT ![c] = "ok"]
  /\ work' = [work EXCEPT ![c] = IdleWorkers]
  /\ acked' = [acked EXCEPT ![c] = {}]

\* main goes on to the next file only after a success, with a new FileSender.
NextFile(c) ==
  /\ main[c].ph = "done" /\ main[c].err = "ok" /\ main[c].file < Len(Files[c])
  /\ main' = [main EXCEPT ![c] = FreshMain(main[c].file + 1)]
  /\ tokens' = [tokens EXCEPT ![c] = NoTokens]
  /\ cur' = [cur EXCEPT ![c] = 0]
  /\ error' = [error EXCEPT ![c] = "ok"]
  /\ work' = [work EXCEPT ![c] = IdleWorkers]
  /\ acked' = [acked EXCEPT ![c] = {}]

MainInternal(c) ==
  \/ StartSend(c) \/ JoinSend(c) \/ CloseSkips(c) \/ Finish(c) \/ NextFile(c)

-----------------------------------------------------------------------------
(* The workers.                                                            *)

Become(c, w, state) == work' = [work EXCEPT ![c][w] = state]
Goto(c, w, pc) == Become(c, w, [work[c][w] EXCEPT !.pc = pc])

\* aligned_alloc succeeds, or the worker records the error and returns.
WorkerAlloc(c, w) ==
  /\ work[c][w].pc = "start"
  /\ \/ Goto(c, w, "check") /\ UNCHANGED error
     \/ Goto(c, w, "exit") /\ error' = [error EXCEPT ![c] = "EIO"]
  /\ UNCHANGED <<main, tokens, cur, acked>>

\* The loop condition, read without the mutex.
WorkerCheck(c, w) ==
  /\ work[c][w].pc = "check"
  /\ Goto(c, w, IF error[c] = "ok" THEN "claim" ELSE "exit")
  /\ UNCHANGED <<main, tokens, cur, error, acked>>

\* A plausible bug: the offset is advanced after the mutex is released.
WorkerClaim_NoAdvance(c, w) ==
  /\ work[c][w].pc = "claim"
  /\ IF cur[c] < Size(c)
     THEN \E adv \in {0, ChunkSize} :
            /\ Become(c, w, [work[c][w] EXCEPT !.pc = "read", !.off = cur[c]])
            /\ cur' = [cur EXCEPT ![c] = @ + adv]
     ELSE Goto(c, w, "exit") /\ UNCHANGED cur
  /\ UNCHANGED <<main, tokens, error, acked>>

\* Under the mutex: take the next offset, or leave the loop at the end.
WorkerClaim(c, w) ==
  /\ work[c][w].pc = "claim"
  /\ IF cur[c] < Size(c)
     THEN /\ Become(c, w, [work[c][w] EXCEPT !.pc = "read", !.off = cur[c]])
          /\ cur' = [cur EXCEPT ![c] = @ + ChunkSize]
     ELSE Goto(c, w, "exit") /\ UNCHANGED cur
  /\ UNCHANGED <<main, tokens, error, acked>>

\* pread succeeds and the request is made, or the loop ends with its error.
WorkerRead(c, w) ==
  /\ work[c][w].pc = "read"
  /\ \/ Goto(c, w, "call")
     \/ Become(c, w, [work[c][w] EXCEPT !.pc = "fail", !.err = "EIO"])
  /\ UNCHANGED <<main, tokens, cur, error, acked>>

SendReturns(c, w, e) ==
  /\ work[c][w].pc = "call"
  /\ IF e = "ok"
     THEN /\ Goto(c, w, "check")
          /\ acked' = [acked EXCEPT ![c] = @ \cup {work[c][w].off}]
     ELSE /\ Become(c, w, [work[c][w] EXCEPT !.pc = "fail", !.err = e])
          /\ UNCHANGED acked
  /\ UNCHANGED <<main, tokens, cur, error>>

\* A plausible bug: the worker leaves without publishing its error.
WorkerFail_Silent(c, w) ==
  /\ work[c][w].pc = "fail"
  /\ Goto(c, w, "exit") /\ UNCHANGED error
  /\ UNCHANGED <<main, tokens, cur, acked>>

\* The worker publishes its local error and returns.
WorkerFail(c, w) ==
  /\ work[c][w].pc = "fail"
  /\ Goto(c, w, "exit")
  /\ error' = [error EXCEPT ![c] = work[c][w].err]
  /\ UNCHANGED <<main, tokens, cur, acked>>

WorkerInternal(c, w) ==
  \/ WorkerAlloc(c, w) \/ WorkerCheck(c, w) \/ WorkerClaim(c, w)
  \/ WorkerRead(c, w) \/ WorkerFail(c, w)

-----------------------------------------------------------------------------
(* The client alone, its calls answered by anything.                       *)

MainReturns(c) ==
  \E e \in Err : \/ \E t \in Token : OpenReturns(c, e, t)
                 \/ ChainReturns(c, e)
                 \/ CloseReturns(c, e)

MainStep(c) == Call(c) \/ MainReturns(c) \/ MainInternal(c)

WorkerStep(c, w) == WorkerInternal(c, w) \/ \E e \in Err : SendReturns(c, w, e)

\* Every file of the client has been uploaded, or one has failed.
Over(c) == /\ main[c].ph = "done"
           /\ main[c].err # "ok" \/ main[c].file = Len(Files[c])

Terminated == (\A c \in Client : Over(c)) /\ UNCHANGED senderVars

SenderNext ==
  \/ \E c \in Client : MainStep(c) \/ LocalOpenFails(c)
  \/ \E c \in Client, w \in Worker : WorkerStep(c, w)
  \/ Terminated

SenderSpec == SenderInit /\ [][SenderNext]_senderVars

\* Every coroutine that can go on is resumed, and every call returns
\* (assumed of the servers here; module Fcopy shows where it comes from).
SenderFairSpec ==
  /\ SenderSpec
  /\ \A c \in Client : WF_senderVars(MainStep(c))
  /\ \A c \in Client, w \in Worker : WF_senderVars(WorkerStep(c, w))

-----------------------------------------------------------------------------
(* Properties.                                                             *)

\* send_file reports success only if the request of every chunk of the file
\* has been answered "ok": no offset is skipped by the racing claims, and no
\* worker's error is lost by the racing stores to the atomic.
SendComplete ==
  \A c \in Client :
    (main[c].ph \in {"close", "done"} /\ main[c].err = "ok")
      => acked[c] = Offsets(c)

\* Two workers never hold the same chunk, and a chunk that was answered is
\* never claimed again: the claim under the mutex hands out each offset once.
ClaimedOnce ==
  \A c \in Client, w \in Worker :
    Busy(c, w) => /\ work[c][w].off \notin acked[c]
                  /\ \A v \in Worker \ {w} :
                       Busy(c, v) => work[c][v].off # work[c][w].off

\* While close_file runs no worker has a request under way: the servers are
\* asked to close only after the last answer.
CloseAfterJoin ==
  \A c \in Client, w \in Worker :
    main[c].ph \in {"close", "done"} => ~Busy(c, w)

\* A success leaves no target open: every token obtained has been given back.
SuccessClosesAll ==
  \A c \in Client :
    (main[c].ph = "done" /\ main[c].err = "ok") => tokens[c] = NoTokens

\* The uploads end, with success or with an error, whatever the calls return.
UploadsEnd == <>(\A c \in Client : Over(c))
=============================================================================
