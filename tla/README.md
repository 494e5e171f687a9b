# fcopy in TLA+

fcopy copies files from one machine to many.  A client (`fcopy-cli`) opens the
file on every target server, tells each server where to forward chunks to (a
chain or a binary tree), sends all chunks to the first target from many
coroutines at once, and closes the file everywhere.  This directory holds
specifications of that system, translated from the C++ source, the TLC models
that check them, and proofs checked by TLAPS.  Paths below are relative to the
repository's `src/` directory.

## 1. The system

| Component | State it keeps | Operations | Talks to |
|---|---|---|---|
| `FileSender` (`client/file_sender.*`) | `file_tokens`, `cur_offset` (under `mtx`), the atomic `error`, local descriptor | `create_file`, `set_send_chain`/`set_send_tree`, `send_file` (starts `parallel_send` x n and joins them), `close_file` | servers, by `FcopyClient::request` |
| CLI (`client/fcopy_cli.cpp`, `load_files` in `common/utils.cpp`) | `cfg`: options, targets, files found | `parse_args`, `load_files`, `do_check_self`, `upload_file` for one file after another until one fails | `FileSender`, file system |
| `FcopyService` (`server/service.*`) | `running`, the server, `cli`, `mng` | a coroutine per request: create, set chain, send, close; `start`/`wait`/`notify`/`stop` | `FileManager`; other servers (forwarding) |
| `FileManager` (`server/file_manager.*`) | `fmap`: token -> descriptor, size, targets (under `mtx`) | `create_file`, `set_chain_targets`, `get_fd`, `has_file`, `close_file` | file system |
| Remote calls (`common/co_fcopy.*`) | a workflow task per call | connect, send, await the reply, try again | both sides |
| Message codec (`common/message.*`) | the partly received message | `encode`, `append`, `encode_body`/`decode_body` | remote calls |
| Server process (`server/fcopy_server.cpp`) | `conf`, the global `service` | `init_config`, `main`, `daemon`, `signal_handler` on any thread | `FcopyService` |
| Configuration loader (`server/load_config.cpp`) | none that lasts | `parse_line`, the parsers of values, `load_service_config` | `init_config` |
| Path helpers, local addresses, log | none | sequential helpers | - |

What is hard in this code:

* the workers of a client race for chunks and for one error variable;
* a handler keeps using a descriptor after the mutex that protects the table
  was released, and descriptors are reused;
* a reply may precede the work it announces (`--no-wait-close`);
* a chunk crosses several servers, and an error anywhere must come back;
* the last chunk is padded to 8192 bytes and cut off again at the close;
* calls are retried although the first try may have been executed, or still be;
* a server may go down between any two steps and forget its table;
* clients may meet at the same servers, on the same file or on others;
* a message arrives in arbitrary fragments;
* requests reach the service object while `start` still builds it and while
  `main` destroys it, and signals come at any time;
* defaults, configuration file and options are applied in three passes over a
  line format with comments and quotes;
* the search for files follows links, so directories may be endless.

`PROJECT.json` lists each of these at the line where it bites, with the
properties that cover it, or the reason why none does.

What makes each component correct:

* `FileSender`: success means that every chunk was acknowledged, once, and that
  every target was closed, after the last answer; every upload ends.
* `FileManager`: a descriptor has exactly one owner; an entry is open on the
  file its token names; after the last close nothing is left.
* `FcopyService`: a reply says "ok" only when the chunk is here and on every
  target below; every handler ends.
* the whole: a reported success means exact copies on all targets; an upload
  touches nothing but its own copies and nothing after its report.
* codec: what is decoded is what was encoded, exactly at the last byte.
* server process: it listens on the port it was told to, a request that came
  after the start finds every part of the service until it was answered, and a
  signal ends a server that waits.
* CLI: the files found are exactly those below the paths, each once, or nothing
  is sent at all; they are sent in order until one fails.

## 2. The modules

    Protocol    requests, error codes, chain and tree
    Disk        a file as chunks: pwrite with padding, ftruncate
    FileSender  EXTENDS Protocol         the client alone
    FcopyServer EXTENDS Protocol, Disk   handlers and file table
    AnyClient   EXTENDS FcopyServer      servers under arbitrary requests
    Fcopy       EXTENDS FileSender, FcopyServer   the whole system
    Transfer    EXTENDS Disk             what the whole system promises
    Message     the codec on a connection that breaks
    Config      the configuration file
    ServerMain  EXTENDS Config           the server process and its service object
    Command     the command line, the search for files, the loop over them
    FcopyServerProofs EXTENDS FcopyServer  what each step of a handler keeps
    AnyClientProofs   EXTENDS AnyClient, FcopyServerProofs
                                           theorems about the servers
    FcopyProofs       EXTENDS Fcopy, FcopyServerProofs
                                           theorems about the client, alone and in
                                           the whole system, and who owns an entry
                                           of a table
    SendsProofs       EXTENDS FcopyProofs  where chunks go, how many hops they
                                           take, that every entry is closed, and
                                           the size a file is left with
    CopiesProofs      EXTENDS SendsProofs  what the copies hold
    ServerMainProofs  EXTENDS ServerMain   theorems about the server process and its
                                           configuration
    MessageProofs     EXTENDS Message      theorems about the codec
    CommandProofs     EXTENDS Command      theorems about the command line and the search
    MC*         constants for TLC

**FileSender.** `main[c]` is the coroutine `upload_file`: its phase `ph`
(`open`, `chain`, `send`, `close`, `done`), the target `i` it is at, whether it
awaits a call (`at`), and the two errors of `upload_file`.  `work[c][w]` is a
`parallel_send` coroutine, `pc` saying where it stands in its loop:
`check` is the unprotected read of `error`, `claim` the critical section,
`read` the `pread`, `call` the request, `fail` the store of its error.
`LocalOpenFails`, `OpenReturns`, `ChainReturns`, `StartSend`, `JoinSend`,
`CloseSkips`, `CloseReturns`, `Finish` and `NextFile` are the pieces of
`create_file`, `send_file`, `close_file`, `upload_file` and the loop of `main`
between two suspension points.  Alone, its calls return anything.  `acked` is a
history variable.

**FcopyServer.** A *job* is a request at a server, from the moment it was sent
until its handler has ended; `pc` says where the handler stands.  A step is what
the code does between two points where other coroutines can run: one critical
section (`CreateInsert`, `SendLookup`, `CloseErase`), one system call
(`CreateOpen`, `SendWrite`, `CloseTruncate`, `CloseFd`), the start and the end
of a forwarded request.  `fds` is the descriptor table of the process, so a
write through a descriptor that was closed and reused goes to the other file.
System calls may fail where the code looks at the result (`CreateRejected`,
`SendWriteFails`); `SendWriteShort` is a `pwrite` that writes a part and
succeeds.  A request spells a file as a *name*: nothing normalises it, the token
is the hash of the name, and `FileOf` tells which file the name leads to.

**Fcopy.** Connects them: a client's call creates a job at the server (`Send`),
the reply resumes the caller (`Reply`), a forwarded chunk is a job whose caller
is a handler (`Forward`).  `Disconnect` breaks the connection of a call; the
request may be lost, or the job goes on for nobody.  `Redial` sends the request
again, up to `RetryMax` times; `GiveUpCall` returns the error to the caller, also
early, because a try may fail to connect.  `Crash` ends a server's process: its
table, descriptors and jobs vanish, callers see broken connections, and it is up
again at once.  `FaultKinds` and `MaxFaults` bound how many faults happen and of
which kind; fault kinds named after a request break the calls of that request,
`local`, `disk`, `short`, `shrink` and `crash` are failures on the client, failing
and short writes, a local file that shrinks, and restarts.

**Transfer.** Knows only files and reports: while a client runs, the copies of
its current file may be emptied, receive chunks of that file and be cut to its
size; "ok" may be reported only when every copy is exact; nothing is written
after the report.  `Fcopy` implements it by mapping `upload` to the phase and
the error of `main` (`ImplementsTransfer`).

**Message.** One message, encoded by `Encode`, delivered by `Deliver` in
fragments of every length and put together by `Receive`, the code's `append`
(`Append` is taken by the module Sequences).  `Retry` encodes the same object
again.  A cell is one field or one block of data.

**ServerMain.** `pc` is where the main thread stands, from the first pass over the
options to `return`; `sig[h]` and `req[r]` are the signal handlers and the request
handlers that run at the same time.  `made`, `service` and `freed` are the parts
of the service object, the global pointer and the end of the object; an access to
a part that is not there may kill the process (`Killed`), and `killer` remembers
who did it.  `shell` is the exit status the caller sees, which a daemon's parent
has given before.  `told` is a history variable: what the command line and the file
ask for, by a definition that does not parse (spans of characters between spaces).

The file is read in steps: `scan` holds the line, the place in it, the words found so far
and, inside quotes, the part of the word that `unescape` has taken.  `ScanLine` is one
round of the loops of `parse_line` and `unescape`, `ApplyLine` the end of a line, where its
key is set or the file is refused.  A signal may come between any two.

**Config.** `ScanNext`, `ScanOver` and `ScanFails` say what a round of those loops does and
when they end; `LoadLine` applies the words of a line to `FcopyConfig`.  A lexeme is a
space, one of `#`, `"`, `\`, or a text that stands for a run of other characters.

**Command.** The file system is a graph of canonical paths, so a link to a
directory above is a cycle.  `stack` holds, for each call of `load_dir`, the entries
its iterator has not come to; the order of entries is arbitrary.  The reference
(`Walks`) is the set of all walks from the given paths, along at most `MaxDepth` entries,
as functions from steps to entries and without any search.

`NextOption` is a round of `getopt_long`, `NextLine` one of `parse_targets`, which may come
several times and between other options.  A text host:number is a host and the number that
`atoi` returns; only `TargetOf` cuts it to a port.  The reference (`Named`, `SamePlace`) reads the
texts off the command line as it was given, by their places on it, and says that two
numbers are one port if they differ by a multiple of 65536.

### Abstractions

* A chunk's bytes are the name of the file they come from, or `Hole` when only some
  of them are; a file is its size and what stands at each chunk offset.
* The errors that no control flow tells apart are one, `EIO`.
* The speed limiter and the timers only delay.
* `IntMax` is scaled down so that a number above it fits into TLC's integers; a size
  is a number and a power of two.
* The targets of one upload are distinct servers (`FcopyAssumption`): that is what
  `--check-self`, on by default, verifies before anything is sent.
* A server that went down is up again at once; a call made meanwhile would fail
  like one whose tries are used up.

## 3. What TLC checks

| Run | Instance | Shows |
|---|---|---|
| `sender` | 1 client, 3 workers, 3 targets as a tree, files of 3 chunks and of none; any reply | `SendComplete`, `ClaimedOnce`, `CloseAfterJoin`, `SuccessClosesAll`, types; `UploadsEnd` |
| `any_client` | 1 server, 3 names of 2 files, one token for two files and two tokens for one file, 2 descriptors, 2 jobs, restarts | `FdOwned`, `EntryNamesFile`, types, for any sequence of requests |
| `any_client_live` | the same with 1 name and 1 descriptor, fair | `HandlersEnd`, `LateCloseDone` |
| `faults` | 3 servers in a tree, up to two of: a local error, a disk error, a crash of a server, at any step | `UploadExact`, `NothingLeftOpen`, `EverythingEnds` |
| `retry` | 3 servers in a chain, one broken connection of a chain, send or close request | `UploadComplete`, `AckedIsStored`, `NeverCancelled`, `EverythingEnds` |
| `two_clients` | 2 clients, same file name with 2 and 1 bytes, 2 servers named in opposite orders; one broken create, short write or shrunk file; 3 descriptors | `OneUploader`, `NoMixing`, `SizedAtRest` |
| `apart` | 2 clients, two files, one of them uploaded twice with other contents, the same servers in opposite orders | `ImplementsTransfer`; `EverythingEnds`: no circle of handlers that wait for each other |
| `no_wait` | 2 files, 2 workers, 2 servers in a chain, closes without `wait_close` | `NoStaleFd`, `EventuallyExact` |
| `message` | 12 messages, one per shape, one too long, one whose lengths wrap; 1 retry | `RoundTrip`, `CompleteAtEnd`, `RefusesOnlyLong`, `CallEnds` |
| `server_main` | every line of up to 4 lexemes, pairs of lines, options that disagree with the file; 2 signals, 2 requests | `ListensAsTold`, `FineIsLoaded`, `StatusIsTrue`, `OnlyRacesKill`, types; `SignalEnds` |
| `config_quotes` | the same; **violated** | `QuotedTaken`: a quoted argument is refused |
| `command` | 14 nodes with links, a cycle, depths at and above the limit, unreadable and other files; all pairs of paths; 20 command lines | `LoadIsExact`, `LoadFailsForCause`, `TargetsApart`, `SentInOrder`; `CommandEnds` |

**Bounds.**  `Base = ChunkSize = 2` with a file of 3 bytes gives a full chunk and
a padded one, with 2 bytes a whole chunk only, and with 1 byte a single short
chunk.  Two workers race for two chunks; `sender` takes three workers because
there they are cheap, and one of them then meets the end of the file while two
still hold chunks.  Three targets are the least with a middle in the chain and
with siblings in the tree.  Two descriptors per server are the least that make
the second file reuse the first one's while a close is pending; in `two_clients` there
are three, so that the copy of each client and a create that runs twice may be open at once.
Its cfg names a symmetry of the descriptors, which is sound: the run checks safety only,
and every operation takes any descriptor that is closed.  `Slot` bounds
the jobs that exist at a time; it is chosen so large that a call never waits for
a slot in the runs without lost connections.  `MaxFaults` is 1 or 2, and the
faults happen at every step where they can.  Four lexemes are the least that hold a
key, a space, a value and a comment that touches it; two signals are the least of
which one destroys the service under the other; two requests let one be early or
late while the other is in time.  `LenWidth` stands for 2^32: it is 11, so that the
lengths 6 and 5 of one message of `message` wrap in the sum.  `MaxDepth` is 3 instead of 16: the chain of
directories in `MCCommand` has the limit and one more.  `command` and `server_main`
set `CHECK_DEADLOCK FALSE`, because these programs end.

**Fairness.**  `SenderFairSpec` is weakly fair to each client coroutine and, as
the client is alone there, to the replies.  `FairSpec` drops that: it is weakly
fair to each client coroutine, each handler (with its system calls, which
return) and the retry of a broken call.  Workflow's executor resumes every
coroutine whose awaited event has happened, and none of them waits for a lock
across a suspension point, so weak fairness per coroutine is what the scheduling
gives.  (A mutant of `SendLookup` that keeps the mutex makes two servers that forward to
each other wait for ever, which `EverythingEnds` finds in `apart`.)  No fault is fair: nothing forces a connection to break or a file to fail
to open.  That calls return is in `Fcopy` a consequence, not an assumption.
`MainSpec` is weakly fair to the main thread, to each signal handler and to each
request handler, which are threads that the system schedules; signals and requests
need not come.  In `CommandSpec` there is one thread.

**What the code does not guarantee**, and no run claims:

* `create_file` truncates before it looks for a duplicate
  (`server/file_manager.cpp:115` and `:129`), so a second client, or a create
  sent again after its reply was lost, empties a copy of an upload that is going
  on.  `UploadExact` is therefore checked with one client per file and with
  faults of the other requests; with two clients, `OneUploader`, `NoMixing` and
  `SizedAtRest` say what remains true, and allow the emptied copy.  A client that opened the file early and is
  entered in the table after the other has closed may still empty an exact copy.
* A create whose reply was lost leaves an entry that nobody closes.
* A send that is tried again may be written by its first try after the close: the
  padding comes back.  Hence `UploadComplete` and not `UploadExact` in `retry`.
* A short `pwrite` is acknowledged, and a local file that shrinks is copied with
  zeros at its end; the size, which `SizedAtRest` is about, is right.
* A close cuts the file to the size announced by its own upload after it has left the
  table, so of two uploads of one file with different sizes the later may be cut.
* Two spellings of one path have two tokens: their uploads write to one file at once.
* With `--no-wait-close` a crash after the reply leaves a padded copy.
* A request during `start`, a close that goes on after its reply during the end of
  `main`, and the second of two signals may reach for what is not there; `OnlyRacesKill`
  says that nothing else does.  A signal before `running = true` is lost.
* In the background the caller is told 0 before anything has been started, and the
  client returns 0 after an upload that failed.
* `do_check_self` compares the spellings of hosts.
* A message with lengths whose sum wraps passes the limit on the size (`common/message.cpp:439`);
  it comes through whole (`RoundTrip`).
* A quoted argument in the configuration file is refused (finding, run
  `config_quotes`).

Met while modelling, without a run: the key `loglevel` of `conf/fcopy.conf` is not
known to the loader and passed over, `pidfile` is never written; a size without a unit
or with `B` is doubled (`server/load_config.cpp:146`); the speed limiter counts whole
megabytes of a request (`client/file_sender.cpp:114`), so a smaller one is free;
`max_files` of `load_files` is not used; an absolute path of a local file takes the
place of the server's partition when the paths are joined.

## 4. What is proved

**The client.** The first part of `FcopyProofs` proves, for every number of clients, workers and targets, every
list of files and every chunk size, that `SenderSpec` implies `[]SenderTypeOK`
(`TypeCorrect`), `[]SendComplete` (`SendIsComplete`), `[]ClaimedOnce`
(`EachChunkClaimedOnce`), `[]CloseAfterJoin` (`NoSendDuringClose`) and
`[]SuccessClosesAll` (`SuccessIsClosed`).  The only assumption is
`SenderAssumption`: at least one target and one worker, a positive chunk size, at
least one file per client, sizes that are natural numbers.  Replies are
arbitrary, so the theorems do not depend on the servers.

None of these is inductive.  `SenderInv` adds, per client,

* `PlaceInv`: the target index is in range where it is used;
* `PhaseInv`: no worker runs outside the phase `send`;
* `ClaimInv`: `cur` is a multiple of the chunk size, acknowledged and held
  offsets lie below it and are disjoint;
* `CoverInv`: while `error` is zero every offset below `cur` is acknowledged or
  held, and a worker that has left has seen the end of the file;
* `ResultInv`: what the join establishes, and that the targets before `i` are
  closed while no close has failed.

`SendComplete` follows at the join: no worker holds a chunk, one of them saw the
end, so all offsets are acknowledged.  The arithmetic needed is that the next
multiple after `cur` is `cur + ChunkSize` (`NextMultiple`).  A step of one client
leaves the others as they are (`OthersSame`, `SameInv`), so the proof has one
step per action of one client: `MainInv` for the main coroutine, `WorkerInv` for
the workers.

**The servers.** `AnyClientProofs` proves that `ServerSpec` implies `[]ServerTypeOK`
(`ServerTypes`), `[]FdOwned` (`DescriptorsOwned`) and `[]EntryNamesFile`
(`EntriesNameFiles`), for every set of servers, files, names, tokens (collisions
included), descriptors and handlers, under any requests, failing and short writes, any
answers to forwarded requests, and restarts.  The steps of the handlers are lemmas of
`FcopyServerProofs`, which the proofs about the whole system use too.  It assumes `ServerAssumption`,
`DiskAssumption` and `RequestsAssumption`, which only give the constants their types
and keep `NoFd`, `Closed` and `NoEntry` apart from the values they stand beside.
`ServerInv` adds to the three properties

* `Shaped`, part of `TypeInv`: at each place a handler has a request of the operation
  that leads there and, where it uses one, a descriptor; a handler with targets has
  hops left.  Without it `CloseFd` might close `NoFd`, and a chunk might be forwarded
  with a negative number of hops;
* `InsertNamesFile`: a handler about to make an entry has its descriptor open on the
  file that its request names.  This carries `EntryNamesFile` over `CreateInsert`, and
  `FdOwned` keeps it true: as the descriptor is that handler's own, no other step
  closes or reopens it.

The steps fall into four kinds: those that change neither a descriptor nor an owner
(`QuietStep`, `FreeHands`), the opening on a free descriptor (`OpenStep`), the hand-over
between a handler and the table (`InsertStep`, `EraseStep`), and the closing by the
owner (`GiveBack`).

**The whole system.** The rest of `FcopyProofs` proves that `Spec` implies `SenderSpec`
(`ImplementsSender`): for any number of clients, servers, workers, targets, faults and
retries, each client goes through steps of `FileSender`, so the replies which that
module assumes are those that the servers, the forwarding and the retries give.
`SendComplete` and `CloseAfterJoin` follow for the system (`SystemSendsAll`), and so
would the other theorems of the client.  It also proves `[]FcopyTypeOK`
(`SystemTypes`; the runs check the types of the two parts, `SenderTypeOK` and
`ServerTypeOK`, only), `[](FdOwned /\ EntryNamesFile)` (`SystemDescriptors`) and that no
coroutine awaits two calls (`OneCallAtATime`).  Besides the assumptions of the parts
it uses `FcopyAssumption`: slots are numbers, the files are sequences of names and
sizes, their chunks are among `Offset` and `Source`, and targets are servers.

The step that needs an invariant is the return of a call.  `Reply` and `GiveUpCall`
resume whoever made it, whatever has happened since: the connection may have broken,
a second try may run beside the first, the server of a forwarding handler may have been
restarted.  `CallInv` says that this is always right:

* `CallerInv`: the caller of a job waits, for this very request at this very server
  (`Awaits`): a main coroutine for the call of its phase to its current target; a
  worker for a send of the chunk it holds to the first target; a handler for its k-th
  forwarded request, which went to the k-th of the targets that it copied.  The job has
  not replied before;
* `LostInv`: the same for a call whose connection broke;
* `OneCall`: no coroutine is the caller of two jobs or lost calls.

Without `OneCall` the reply to one call would end the waiting for another.  A step ends
the waiting of a set `W` of coroutines (`SenderKeeps`, `JobsKeep`) and must take their
calls away with it (`FewerCalls`); `W` is empty, or the caller that is resumed, or all
handlers of a server that goes down.  A step that makes a request shows that its
coroutine awaited nothing (`Unheard`, `NewCall`).  That the requests made are in
`Request` needs `TokenInv` (a client that sends has all its tokens), `ClaimInv` (it
sends offsets of its file) and `Shaped` (a chunk is forwarded with hops left).

**Who owns an entry.**  The code keeps no owner: an entry is found by its token, the hash
of a name, and whoever sends a token can write, set the chain or close.  That the entry
a client works with is still the one it made is a property of the protocol, and the
theorems of the last part of `FcopyProofs` say under which faults it has it.  `OwnInv` names as owners
of an entry

* a client for each target whose token it holds, until it has asked for the close;
* a handler of a create that has made the entry and has not told, and a handler of a
  close that has not erased it (`HoldsEntry`),

and says that what is owned is there and is owned once (`Exclusive`), and so that every
close finds its entry.  Neither half is inductive without the other: that a create does
not enter over an owned entry is the test for a duplicate, which needs that owned entries
are there; that an erased entry was nobody else's needs that it was owned once.
`NamedTokens` says that a client's tokens are the hash of the name of its file.
`EntriesAreOwned` is `[]OwnInv`, and `OneUploaderOnly` is `[]OneUploader`: two clients
past their creates would own one entry.

The hypothesis is `Unbroken({"close", "crash"})`, that connections do not break under a
close and that servers do not go down.  The code needs it: a close that is tried again,
or whose first try comes late, removes the entry that another client has made meanwhile,
and so does the close of a client whose entry was forgotten in a restart.  Creates, chains
and sends may break, files and system calls may fail.

**Where chunks go.**  `SendsProofs` follows a chunk through the servers while only creates,
files and system calls fail (`Steady`).  Its invariants are

* `Attended`: every request but a create and a late close has a caller that waits for it;
* `RouteInv`: an entry that a client holds has no targets while it creates, and
  afterwards none but later targets of the same client (`Inward`);
* `SendsInv`: each request to send is of a client in its phase `send`, at a server that
  is its i-th target, with that target's token, a chunk of its file and hops enough for
  the targets from i on; the descriptor that the handler copied is still that of the
  entry, and the targets that it copied are later ones of the client.

`ChunksOnRoute` says that they hold.  Three properties that runs check follow:

* `DescriptorsFresh` (`NoStaleFd`): a handler writes through a descriptor that it copied
  before it released the mutex.  It is right because the client has nothing closed while
  one of its chunks is under way, and because the entry has no other owner;
* `ChunksDoNotMix` (`NoMixing`), if no file is spelled in two ways (`SpeltOneWay`; else
  two entries, with two owners, write to one file).  `Rewritten` says which steps change
  a chunk of a file, and by what: a create, a close, or a write of a send, which
  `SendsInv` gives to its client;
* `NeverOutOfHopsSteady` (`NeverCancelled`): the hops left are not fewer than the targets
  from here on, as every hop goes to a later one.

`NeverOutOfHops` proves `NeverCancelled` for every fault, restarts and retries included, if
the clients name the servers in one order (`SamePlace`, which one client satisfies, as
in the run `retry`).  Then the place of a server is enough and no ownership is needed: `PlacesInv`
says that the entries of a server lead to servers of later places, and that a request to
send has as many hops left as there are places from its server on.  Without `SamePlace` and
with restarts the entries of two clients may form a cycle, which the budget is there to cut.
Both assume fewer than 65536 targets, because the budget is cut to 16 bits.

**Every entry is closed.**  `NothingStaysOpen` proves `NothingLeftOpen` while no connection
breaks under a create or a close, with all other faults, restarts included.  A create whose
reply was lost does leave an entry that nobody closes, and so does a close that never
arrives.  `CareInv` says that each entry is in somebody's care (`InCare`): a client that
has its token and has not passed the close of that target (`WillClose`), or a handler that
holds it as above.  Ownership is not needed here and would be too strong, for after a
restart an entry may be in the care of two.  That a descriptor which is not an entry's is a
handler's is `FdOwned`.

**The size of a file.**  `SizedWhenAtRest` proves `SizedAtRest` while only creates, files and
system calls fail (`Steady`) and no two files have one token (`OneFilePerToken`).  That the
last close of a file repairs whatever came before is a matter of who is still to come:
`SizesInv` says that a file is untouched, or has a size that some upload announced for it,
or is open on a descriptor that will still be cut off (`Uncut`): that of an entry, or
of a handler that has not got to `ftruncate`.  Around it, requests to create, entries and the
handlers of closes carry announced sizes (`Wanted`, `Announced`).  A write pads the last
chunk, so it must not come after the last close: it goes to the descriptor of an entry
that its client holds (`SendsInv`).  A create that finds its token taken closes its own
descriptor and leaves the file to the entry it has met, which `EntryNamesFile` and
`OneFilePerToken` give the same file; with one token for two files it leaves an empty file.

**What the copies hold.**  `AckedChunksAreStored` proves `AckedIsStored`: the answer of one
server, the first target, stands for all targets.  `CopiesProofs` does not follow callers,
as `SendsProofs` does, but names every request by the upload and the target it is for
(`AskedInv`, `Proper`): a request that was sent twice, and a handler that nobody waits for
any more, still asks for the same chunk of the same file.  Along the way down the chain
or tree:

* `BegunInv`: an upload that has sent a chunk has installed all its chains, and what it
  has acknowledged are chunks of its file;
* `LinkInv`, `TargetsInv`: an entry of a target forwards to no one or to the target's sons
  (`Sons`, from `Children`), to these once the chain call was answered, and the targets that
  a handler copied are those of its entry.  So a request to send that finds its
  entry goes on to every son;
* `StoreInv`: a handler whose chunk was written and whose forwards have returned without
  an error has it on every target below its own (`Delivered`, by `Downward`, which walks
  the tree from a target down); `DownwardIsAll` makes the first target's answer one for all;
* `StoredStays`: a chunk stays where it is while its upload lasts: only a create empties
  a file, and that comes before; a close cuts behind the last chunk; other uploads write to other
  files, provided that every handler writes through a descriptor of its own file (`Fresh`).

The hypotheses (`Unbroken({"create", "short", "shrink"})`, `Sheltered`) exclude what the code
does not survive.  A create that is tried again empties a file that has chunks already.  A
`pwrite` that stops short is answered as a success.  And a client that dies on
an early connection error leaves handlers at work, whose descriptor number another file may have
been given; `Sheltered` asks that there is no other file (`OneUpload`, then
connections may break under chains, sends and closes, and servers may go down), or that
nothing is left at work (`Steady`) and uploads share neither file nor token (`UploadsApart`).

The faults of the runs that check these properties satisfy the hypotheses: creates, short
writes and shrinking files in `two_clients`, none in `no_wait`, restarts and failing
system calls for `NothingLeftOpen` in `faults`, one upload with broken chains, sends and
closes in `retry`.
None of the hypotheses is about
how many clients, servers, targets, workers, files, faults or retries there are.

**A success means that the copies are the file.**  `UploadsAreComplete` proves
`UploadComplete` under the same hypotheses, for closes that reply last (`WaitClose`, as the
client sends them), and `UploadsAreExact` proves `UploadExact` if besides no connection
breaks and no server goes down (`Steady`).  `SuccessHolds` gives the chunks: when a client
reports success, every offset was acknowledged (`SenderInv`), so `CopiesInv` has them on all
targets.  Three more invariants say that there is nothing else and that the size is right:

* `BlankInv`: what is not a chunk of the file is empty in each of its copies, from the moment
  its create has emptied it.  `CopiesMove` lists all that a step can do to a disk (`Changed`):
  empty a copy at its create, write a chunk of its own file, cut it at its close; the last by
  `Aimed`, the closing handler's descriptor being that of the file its request is for;
* `ClosesInv`: a close is sent only by a client whose transfer is over (`Past`), also if it
  was sent before on a connection that broke;
* `CutSized`: a handler of a close that is through with `ftruncate` has left the copy with
  the size of the file, and so has each that a client got its answer from, since no write comes
  after.  A late first try of a chunk that was sent again may still write the
  padding of the last chunk; that is the second size which `UploadComplete` admits
  (`HasSize`), and why `UploadExact` asks for `Steady`.  `PadChunk`, `PadShifts` and `ChunkEnds`
  give the arithmetic: the padding of the chunks before the last ends inside the file.

**The system does what it promises.**  `SystemIsTransfer` proves `ImplementsTransfer` under the
hypotheses of `UploadsAreExact`.  A step that changes a disk is a wipe, a store or a trim of
`Transfer` by the client that `Changed` names, which has reported nothing yet
(`ChangeAllowed`): creates come while it opens, writes of chunks under way while
it sends (`SendsInv`), and closes while it waits for them (`AwaitedCloses`).  All other steps
leave what the clients show as it is (`AllShowsMove`) except the end of an upload and the
beginning of the next; an end with success is a report that `Transfer` permits
because of `UploadExact`.

The hypotheses of the last two theorems hold for one or more clients that upload different
files with different tokens, with local errors and failing disks at any step.  They say less
than two runs: `faults` adds servers that go down, and in `apart` one client uploads a file
twice, which `UploadsApart` excludes.  The program does not do that: the files it uploads
differ (`SearchIsExact`, `FilesInOrder`).

**The server process.** `ServerMainProofs` proves `OnlyRacesKill` for every input and
any number of signals and requests (`OnlyRaces`), from `LifeInv` (`ServiceLife`): until
`MakePart` is through, every request is early; afterwards both parts are there; the
object is destroyed only when no request is unanswered and none can arrive.  From it
and `StatusInv` follows `StatusIsTrue` (`StatusTrue`): before `running` is tested the
caller has been answered only as a daemon's parent is; `wait` returns only after a signal; and main comes
to its end with status 0 only after help or with a complete service behind it.

The second part of the module is about the configuration: `MainTypeOK` (`MainTyped`),
`ListensAsTold` (`ListensTold`) and `FineIsLoaded` (`FineLoaded`), for files of any
number of lines, lines of any lexemes, and any options.  `ConfigAssumption` and
`MainAssumption` give the types of the constants; besides, `port` is not a number, and
`IntMax` is at least 5200, the default port, as any `int` is.  The reference finds words
as spans between spaces, the code by a scan that stops at a `#` inside a word and gets
caught in quotes, so the proof relates the two at every place of a line (`LineInv`):

* either the words found are, one for one and in order, the spans that begin before this
  place, none of which begins with a quote, and no word goes on here (`Covers`,
  `Boundary`; `e` is where the comment begins);
* or a word that begins with a quote was met, the line is not plain, and the scan is inside
  quotes or stands at one, which it never leaves but by failing (`QuotesStay`).

At the end of a line the first case is left, so the words are those of the reference
(`AllWords`): the port is set exactly by a line that says one, and a line that only
announces it is refused (`LineLoads`); a line that sets nothing else is accepted
(`FineLoads`).  `ReadInv` carries this over the lines (`LinesRead`: after `n` lines the
port is that of the last of them that says one) and over the options, from which
`ListensAsTold` follows.  `FineIsLoaded` is an action property: in a fine line a step
from reading to the exit can be none of main's, only a signal's.

**The codec.** `MessageProofs` proves `RoundTrip` (`WhatIsSentArrives`), `CompleteAtEnd`
(`CompleteWithLastCell`) and `RefusesOnlyLong` (`RefusedIsLong`) for every set of messages,
any number of targets in a chain request, any contents, fragments and tries.  It assumes
`MessageAssumption`: a message has the fields of its class and only a send has data.  The
receiver's buffers say little by themselves, so `MessageInv` relates them to what was sent: while
a try is under way there is a `k` below the length of the encoding such that the receiver
holds `Partial(msg, k)`, the header, body and data of the message cut after `k` cells, and
the wire the rest.  A fragment may end anywhere, so the steps are the fillings of one
part after the other:

* `FillCuts`: taking what a part still misses from the front of a fragment leaves the
  part cut at the new place and the fragment without it;
* `PartsFilled`: so one call of `append` takes `Partial(msg, k)` to the cut behind the
  fragment, or to the whole message exactly when that is its end, never before, also where
  body or data are empty;
* `BodyDecodes`: `DecodeBody` of the cells of `EncodeBody` gives the fields back, for chain
  requests by the index arithmetic of three cells per target;
* `EncodesAnew`: what an earlier try left in the object does not reach the wire, so a
  retry starts again at `k = 0` with a fresh receiver.

`HeadRefused` compares the lengths of the header, which are those of this message, hence
`TooLong` is the only reason for a refusal.  The sum that it compares is cut to `LenWidth`, and
what is left is never more than the sum; the converse, that all longer ones are refused,
is false.  `LengthsAssumption` says that each length of its own fits.

**The search for files and the command line.** `CommandProofs` proves `LoadIsExact`
(`SearchIsExact`), `LoadFailsForCause` (`SearchFailsForCause`), `TargetsApart`
(`TargetsAreApart`) and `SentInOrder` (`FilesInOrder`) for every finite or infinite set of
nodes, any links and cycles, any `MaxDepth` and any order of entries.
`CommandAssumption` gives the types of the constants.  The search keeps no record of where it
is: the stack holds the entries that each iterator has still to come to.  `SearchInv` says that
there is a walk `t` from the current path down to the innermost open directory (`Along`), with one
iterator for each directory on it, and that `files` is exact (`Exact`) for the walks that
the search is through with: those of earlier paths, and of the current one all but the
`Pending`, which agree with `t` up to some iterator and go on from there by an entry that it
still has.  A step meets one more walk and must find it new:

* an entry taken from an iterator removes it and what lies below it from the pending
  walks, and puts the walks below it back if it is a directory that is entered;
* a file is appended if no walk before it has the same end, which is what the code's test for
  a duplicate finds out, because by `Exact` the files are the ends of the walks seen;
* every error shows a walk that `Loadable` forbids;
* with an empty stack and no path left no walk is pending, so `Exact` holds of all
  `Walks`, which is `LoadIsExact`.

`TargetsAreApart` is about the texts on the command line.  `OptionsInv` and `LinesInv` say that
the options and lines still to come are an end of those that were given, so the place where the parser stands
is `Taken` and what is left of that list.  `TargetsInv` relates `cfg.targets` to `Read`, the places
before that one: none of their texts is malformed, and some `at` takes each of them to the target
it became, every target being reached and no two places sharing one (`Leads`); `OneMore` adds
a text, `NoTargetRead` passes a comment or another option.  That `cfg.check` is what the last
option of its kind asked (`AskedBy`) is carried along.  When nothing is left, `Read` is `Named`, so
what `CheckSelf` compared were all names on the command line; `PlaceOfText`, by `RestFacts`, turns
that equality of cut ports into the reference's difference of numbers.

Only model-checked: that copies are exact when servers go down during a single upload (the
run `faults`; `UploadsAreExact` leaves crashes out), and all liveness: what must
happen under fairness is outside of what the prover handles.

## 5. Not modelled, and plan

Not modelled: a failing `ftruncate` at a close, of which the code drops the result;
descriptor 0, which `create_fd` takes for an error; the byte order of fields; `localaddr.cpp` (one `ioctl`); the log and the formatting of times and
speeds; `set_range`, an empty stub.

What remains worth doing: `UploadExact` for a single upload whose servers may go down.  It
needs, in place of `Steady`, that a client which a restart has taken an entry from cannot
succeed any more, and `SendsInv` for all others.

## 6. Running

    tlc -config MCFcopyRetry.cfg MCFcopy
    tlapm CopiesProofs.tla

`PROJECT.json` lists every run, the lines each definition models, and for each
property a mutation of the model, kept next to the definition it mutates under
the comment "A plausible bug", that violates it.
