---------------------------- MODULE FcopyServer -----------------------------
(***************************************************************************)
(* The receiving side: the request handlers of class FcopyService          *)
(* (server/service.cpp) over the file table of class FileManager           *)
(* (server/file_manager.cpp), on every server.                             *)
(*                                                                         *)
(* A job is one request on one server, from the moment it was sent to the  *)
(* end of its handler.  A step of a job is what the code does between two  *)
(* points where others can run: a critical section of FileManager::mtx, a  *)
(* system call, the start or the end of a forwarded request.               *)
(*                                                                         *)
(* Here the requests are arbitrary and a forwarded request is answered by  *)
(* anything; module Fcopy connects the servers to the clients and to each  *)
(* other.                                                                  *)
(***************************************************************************)
EXTENDS Protocol, Disk, FiniteSets

CONSTANTS
  Server,
  Name,      \* how requests spell paths: nothing normalises them
  FileOf,    \* FileOf[n]: the file that name n leads to
  TokenOf,   \* TokenOf[n]: the hash of name n; two names may collide
  Before,    \* Before[p]: what file p holds before any upload
  Fd,        \* file descriptors a server may have open for uploads
  NoFd, Closed, NoEntry,
  Slot       \* room for jobs

Entry == [fd : Fd, size : Nat, to : Seq([srv : Server, tok : Token])]

ASSUME ServerAssumption ==
  /\ FileOf \in [Name -> Path]
  /\ TokenOf \in [Name -> Token]
  /\ Before \in [Path -> FileState]
  /\ NoFd \notin Fd
  /\ Closed \notin Path
  /\ NoEntry \notin Entry

VARIABLES
  fmap,  \* fmap[s][t]: FileManager::fmap
  fds,   \* fds[s][f]: the file that descriptor f is open on
  disk,  \* disk[s][p]: contents of the file
  job    \* job[j]: the requests under way

serverVars == <<fmap, fds, disk, job>>

Request ==
  [op : {"create"}, name : Name, size : Nat]
    \cup [op : {"chain"}, tok : Token, targets : Seq([srv : Server, tok : Token])]
    \cup [op : {"send"}, tok : Token, off : Offset, len : Nat,
          src : Source \cup {Hole}, budget : Nat]
    \cup [op : {"close"}, tok : Token, wait : BOOLEAN]

\* Where the handler of each request stands.
JobPc == {"open", "insert", "chain", "getfd", "work", "has", "erase", "trunc",
          "close", "reply"}

Pending == {"todo", "call"}

Job == [pc : JobPc, srv : Server, req : Request, fd : Fd \cup {NoFd}, size : Nat,
        to : Seq([srv : Server, tok : Token]), fwd : Seq(Err \cup Pending),
        wr : Err \cup {"todo"}, err : Err]

NoJob == [pc |-> "free"]

FirstPc(r) == CASE r.op = "create" -> "open"
                [] r.op = "chain"  -> "chain"
                [] r.op = "send"   -> "getfd"
                [] r.op = "close"  -> IF r.wait THEN "erase" ELSE "has"

NewJob(s, r) == [pc |-> FirstPc(r), srv |-> s, req |-> r, fd |-> NoFd, size |-> 0,
                 to |-> <<>>, fwd |-> <<>>, wr |-> "todo", err |-> "ok"]

At(j, pc) == job[j].pc = pc

ServerTypeOK ==
  /\ fmap \in [Server -> [Token -> Entry \cup {NoEntry}]]
  /\ fds \in [Server -> [Fd -> Path \cup {Closed}]]
  /\ disk \in [Server -> [Path -> FileState]]
  /\ job \in [Slot -> Job \cup {NoJob}]
  /\ \A j \in Slot :
       /\ At(j, "open") \/ At(j, "insert") => job[j].req.op = "create"
       /\ At(j, "insert") \/ At(j, "trunc") \/ At(j, "close") => job[j].fd \in Fd

ServerInit ==
  /\ fmap = [s \in Server |-> [t \in Token |-> NoEntry]]
  /\ fds = [s \in Server |-> [f \in Fd |-> Closed]]
  /\ disk = [s \in Server |-> Before]
  /\ job = [j \in Slot |-> NoJob]

\* The handler sets the error of its response and gets ready to reply.
Respond(j, e) == job' = [job EXCEPT ![j].pc = "reply", ![j].err = e]

\* A request is sent to server s.
Submit(j, s, r) == At(j, "free") /\ job' = [job EXCEPT ![j] = NewJob(s, r)]

-----------------------------------------------------------------------------
(* handle_create_file and FileManager::create_file                         *)

\* A bad partition, path or chunk size, or open or ftruncate fails.
CreateRejected(j) ==
  /\ At(j, "open")
  /\ Respond(j, "EIO")
  /\ UNCHANGED <<fmap, fds, disk>>

\* create_fd: the file is opened and truncated, before the table is looked at.
CreateOpen(j) ==
  /\ At(j, "open")
  /\ \E f \in Fd :
       /\ fds[job[j].srv][f] = Closed
       /\ fds' = [fds EXCEPT ![job[j].srv][f] = FileOf[job[j].req.name]]
       /\ job' = [job EXCEPT ![j].pc = "insert", ![j].fd = f]
  /\ disk' = [disk EXCEPT ![job[j].srv][FileOf[job[j].req.name]] = Truncated(@, 0)]
  /\ UNCHANGED fmap

\* A plausible bug: the duplicate is reported without closing its descriptor.
CreateInsert_NoClose(j) ==
  LET s == job[j].srv
      t == TokenOf[job[j].req.name]
  IN /\ At(j, "insert")
     /\ \/ /\ fmap[s][t] # NoEntry
           /\ Respond(j, "EEXIST")
           /\ UNCHANGED <<fmap, fds>>
        \/ /\ fmap[s][t] = NoEntry
           /\ fmap' = [fmap EXCEPT ![s][t] =
                         [fd |-> job[j].fd, size |-> job[j].req.size, to |-> <<>>]]
           /\ Respond(j, "ok")
           /\ UNCHANGED fds
     /\ UNCHANGED disk

\* A plausible bug: the token is not looked up before the entry is made.
CreateInsert_NoCheck(j) ==
  LET s == job[j].srv
      t == TokenOf[job[j].req.name]
  IN /\ At(j, "insert")
     /\ fmap' = [fmap EXCEPT ![s][t] =
                   [fd |-> job[j].fd, size |-> job[j].req.size, to |-> <<>>]]
     /\ Respond(j, "ok")
     /\ UNCHANGED <<fds, disk>>

\* Under mtx: a duplicate closes its descriptor, another file is entered.
CreateInsert(j) ==
  LET s == job[j].srv
      t == TokenOf[job[j].req.name]
  IN /\ At(j, "insert")
     /\ \/ /\ fmap[s][t] # NoEntry
           /\ fds' = [fds EXCEPT ![s][job[j].fd] = Closed]
           /\ Respond(j, "EEXIST")
           /\ UNCHANGED fmap
        \/ /\ fmap[s][t] = NoEntry
           /\ fmap' = [fmap EXCEPT ![s][t] =
                         [fd |-> job[j].fd, size |-> job[j].req.size, to |-> <<>>]]
           /\ Respond(j, "ok")
           /\ UNCHANGED fds
     /\ UNCHANGED disk

-----------------------------------------------------------------------------
(* handle_set_chain                                                        *)

SetChain(j) ==
  LET s == job[j].srv
      t == job[j].req.tok
  IN /\ At(j, "chain")
     /\ \/ fmap[s][t] = NoEntry /\ Respond(j, "EIO") /\ UNCHANGED fmap
        \/ /\ fmap[s][t] # NoEntry
           /\ fmap' = [fmap EXCEPT ![s][t].to = job[j].req.targets]
           /\ Respond(j, "ok")
     /\ UNCHANGED <<fds, disk>>

-----------------------------------------------------------------------------
(* handle_send_file                                                        *)

\* A plausible bug: the mutex is held until the forwarded requests have returned;
\* a handler that finds it taken tries again.
SendLookup_HoldsLock(j) ==
  LET e == fmap[job[j].srv][job[j].req.tok]
      taken == \E i \in Slot \ {j} : At(i, "work") /\ job[i].srv = job[j].srv
  IN /\ At(j, "getfd")
     /\ \/ taken /\ UNCHANGED job
        \/ ~taken /\ e = NoEntry /\ Respond(j, "ENOENT")
        \/ /\ ~taken /\ e # NoEntry /\ e.to # <<>> /\ job[j].req.budget <= 1
           /\ Respond(j, "ECANCELED")
        \/ /\ ~taken /\ e # NoEntry /\ (e.to = <<>> \/ job[j].req.budget > 1)
           /\ job' = [job EXCEPT ![j].pc = "work", ![j].fd = e.fd, ![j].to = e.to,
                                 ![j].fwd = [k \in 1..Len(e.to) |-> "todo"]]
     /\ UNCHANGED <<fmap, fds, disk>>

\* get_fd copies the descriptor and the targets; mtx is released after it.
SendLookup(j) ==
  LET e == fmap[job[j].srv][job[j].req.tok]
  IN /\ At(j, "getfd")
     /\ \/ e = NoEntry /\ Respond(j, "ENOENT")
        \/ /\ e # NoEntry /\ e.to # <<>> /\ job[j].req.budget <= 1
           /\ Respond(j, "ECANCELED")
        \/ /\ e # NoEntry /\ (e.to = <<>> \/ job[j].req.budget > 1)
           /\ job' = [job EXCEPT ![j].pc = "work", ![j].fd = e.fd, ![j].to = e.to,
                                 ![j].fwd = [k \in 1..Len(e.to) |-> "todo"]]
     /\ UNCHANGED <<fmap, fds, disk>>

\* pwrite goes to whatever the descriptor is open on by now.
SendWrite(j) ==
  LET s == job[j].srv
      r == job[j].req
      p == fds[s][job[j].fd]
  IN /\ At(j, "work") /\ job[j].wr = "todo"
     /\ \/ /\ p = Closed
           /\ job' = [job EXCEPT ![j].wr = "EIO"]
           /\ UNCHANGED disk
        \/ /\ p # Closed
           /\ disk' = [disk EXCEPT ![s][p] = Written(@, r.off, r.len, r.src)]
           /\ job' = [job EXCEPT ![j].wr = "ok"]
     /\ UNCHANGED <<fmap, fds>>

SendWriteFails(j) ==
  /\ At(j, "work") /\ job[j].wr = "todo"
  /\ job' = [job EXCEPT ![j].wr = "EIO"]
  /\ UNCHANGED <<fmap, fds, disk>>

\* Fewer bytes than asked for are written: pwrite succeeds, the number of bytes
\* is not looked at.
SendWriteShort(j) ==
  LET s == job[j].srv
      r == job[j].req
      p == fds[s][job[j].fd]
  IN /\ At(j, "work") /\ job[j].wr = "todo" /\ p # Closed
     /\ \E n \in 0..PadTo(r.len)-1 :
          disk' = [disk EXCEPT ![s][p] = PartWritten(@, r.off, n, r.src)]
     /\ job' = [job EXCEPT ![j].wr = "ok"]
     /\ UNCHANGED <<fmap, fds>>

\* send_one makes its request, the chunk for the k-th target ...
Forwarding(j, k) ==
  At(j, "work") /\ k \in DOMAIN job[j].fwd /\ job[j].fwd[k] = "todo"

ForwardReq(j, k) ==
  [job[j].req EXCEPT !.tok = job[j].to[k].tok, !.budget = @ - 1]

\* ... and returns.
Forwarded(j, k, e) ==
  /\ At(j, "work") /\ k \in DOMAIN job[j].fwd /\ job[j].fwd[k] = "call"
  /\ job' = [job EXCEPT ![j].fwd[k] = e]

\* The first error of the forwarded requests, or else that of the write.
ChainError(errs, wr) ==
  IF \E k \in DOMAIN errs : errs[k] # "ok"
  THEN errs[CHOOSE k \in DOMAIN errs :
              errs[k] # "ok" /\ \A i \in 1..k-1 : errs[i] = "ok"]
  ELSE wr

\* A plausible bug: the reply does not wait for the forwarded requests.
SendJoin_WriteOnly(j) ==
  /\ At(j, "work") /\ job[j].wr # "todo"
  /\ Respond(j, job[j].wr)
  /\ UNCHANGED <<fmap, fds, disk>>

\* A plausible bug: a handler whose write failed never gets to its reply.
SendJoin_OnlySuccess(j) ==
  /\ At(j, "work") /\ job[j].wr = "ok"
  /\ \A k \in DOMAIN job[j].fwd : job[j].fwd[k] \notin Pending
  /\ Respond(j, ChainError(job[j].fwd, job[j].wr))
  /\ UNCHANGED <<fmap, fds, disk>>

\* async_wait: the write and every forwarded request have returned.
SendJoin(j) ==
  /\ At(j, "work") /\ job[j].wr # "todo"
  /\ \A k \in DOMAIN job[j].fwd : job[j].fwd[k] \notin Pending
  /\ Respond(j, ChainError(job[j].fwd, job[j].wr))
  /\ UNCHANGED <<fmap, fds, disk>>

-----------------------------------------------------------------------------
(* handle_close_file and FileManager::close_file                           *)

\* Without wait_close the reply only tells whether the file is open.
CloseHas(j) ==
  /\ At(j, "has")
  /\ Respond(j, IF fmap[job[j].srv][job[j].req.tok] = NoEntry THEN "ENOENT" ELSE "ok")
  /\ UNCHANGED <<fmap, fds, disk>>

\* With wait_close the reply follows the close, else the handler just ends.
EndClose(j, e) ==
  IF job[j].req.wait THEN Respond(j, e) ELSE job' = [job EXCEPT ![j] = NoJob]

\* A plausible bug: the entry is erased before it was copied.
CloseErase_NoCopy(j) ==
  LET s == job[j].srv
      t == job[j].req.tok
  IN /\ At(j, "erase")
     /\ \/ fmap[s][t] = NoEntry /\ EndClose(j, "ENOENT") /\ UNCHANGED fmap
        \/ /\ fmap[s][t] # NoEntry
           /\ fmap' = [fmap EXCEPT ![s][t] = NoEntry]
           /\ job' = [job EXCEPT ![j].pc = "trunc"]
     /\ UNCHANGED <<fds, disk>>

\* A plausible bug: the entry of a file that is closed stays in the table.
CloseErase_Keep(j) ==
  LET s == job[j].srv
      t == job[j].req.tok
  IN /\ At(j, "erase")
     /\ \/ fmap[s][t] = NoEntry /\ EndClose(j, "ENOENT")
        \/ /\ fmap[s][t] # NoEntry
           /\ job' = [job EXCEPT ![j].pc = "trunc", ![j].fd = fmap[s][t].fd,
                                 ![j].size = fmap[s][t].size]
     /\ UNCHANGED <<fmap, fds, disk>>

\* Under mtx: the entry is taken out of the table.
CloseErase(j) ==
  LET s == job[j].srv
      t == job[j].req.tok
  IN /\ At(j, "erase")
     /\ \/ fmap[s][t] = NoEntry /\ EndClose(j, "ENOENT") /\ UNCHANGED fmap
        \/ /\ fmap[s][t] # NoEntry
           /\ fmap' = [fmap EXCEPT ![s][t] = NoEntry]
           /\ job' = [job EXCEPT ![j].pc = "trunc", ![j].fd = fmap[s][t].fd,
                                 ![j].size = fmap[s][t].size]
     /\ UNCHANGED <<fds, disk>>

\* A plausible bug: the padding of the last chunk is not cut off.
CloseTruncate_Skip(j) ==
  /\ At(j, "trunc")
  /\ job' = [job EXCEPT ![j].pc = "close"]
  /\ UNCHANGED <<fmap, fds, disk>>

CloseTruncate(j) ==
  LET s == job[j].srv
      p == fds[s][job[j].fd]
  IN /\ At(j, "trunc")
     /\ disk' = IF p = Closed THEN disk
                ELSE [disk EXCEPT ![s][p] = Truncated(@, job[j].size)]
     /\ job' = [job EXCEPT ![j].pc = "close"]
     /\ UNCHANGED <<fmap, fds>>

CloseFd(j) ==
  /\ At(j, "close")
  /\ fds' = [fds EXCEPT ![job[j].srv][job[j].fd] = Closed]
  /\ EndClose(j, "ok")
  /\ UNCHANGED <<fmap, disk>>

-----------------------------------------------------------------------------
(* The end of a handler                                                    *)

IsLateClose(j) == job[j].req.op = "close" /\ ~job[j].req.wait

\* A plausible bug: the handler of a close without wait_close ends with its reply.
AfterReply_NoClose(j) == NoJob

\* Without wait_close the file is closed after the reply, whatever it said.
AfterReply(j) == IF IsLateClose(j) THEN [job[j] EXCEPT !.pc = "erase"] ELSE NoJob

JobStep(j) ==
  \/ CreateOpen(j) \/ CreateInsert(j)
  \/ SetChain(j)
  \/ SendLookup(j) \/ SendWrite(j) \/ SendJoin(j)
  \/ CloseHas(j) \/ CloseErase(j) \/ CloseTruncate(j) \/ CloseFd(j)

\* The environment: system calls that fail.
JobFails(j) == CreateRejected(j) \/ SendWriteFails(j)

\* The process of server s ends (a crash, or a stop: the destructor of
\* FileManager closes the descriptors) and is started again.
Restart(s) ==
  /\ fmap' = [fmap EXCEPT ![s] = [t \in Token |-> NoEntry]]
  /\ fds' = [fds EXCEPT ![s] = [f \in Fd |-> Closed]]
  /\ UNCHANGED disk

Lost(s) == {j \in Slot : job[j].pc # "free" /\ job[j].srv = s}

-----------------------------------------------------------------------------
(* Properties.                                                             *)

EntryHolds(s, t, f) == fmap[s][t] # NoEntry /\ fmap[s][t].fd = f

\* A handler that has opened a file but not entered it, or that has taken an
\* entry out of the table and not closed it.
JobHolds(j, s, f) ==
  job[j].pc \in {"insert", "trunc", "close"} /\ job[j].srv = s /\ job[j].fd = f

\* No descriptor leaks and none is closed twice: an open descriptor belongs to
\* exactly one table entry or handler, and what they hold is open.
FdOwned ==
  \A s \in Server, f \in Fd :
    /\ fds[s][f] # Closed =>
         (\E t \in Token : EntryHolds(s, t, f)) \/ (\E j \in Slot : JobHolds(j, s, f))
    /\ \A t \in Token : EntryHolds(s, t, f) =>
         /\ fds[s][f] # Closed
         /\ \A u \in Token : EntryHolds(s, u, f) => u = t
         /\ \A j \in Slot : ~JobHolds(j, s, f)
    /\ \A j \in Slot : JobHolds(j, s, f) =>
         /\ fds[s][f] # Closed
         /\ \A i \in Slot : JobHolds(i, s, f) => i = j

\* The descriptor of an entry is open on a file that has a name with the
\* entry's token, so two entries write the same file only if it has two names.
EntryNamesFile ==
  \A s \in Server, t \in Token :
    fmap[s][t] # NoEntry =>
      \E n \in Name : FileOf[n] = fds[s][fmap[s][t].fd] /\ TokenOf[n] = t
=============================================================================
