------------------------------- MODULE Command -----------------------------
(***************************************************************************)
(* The command-line client before and between its uploads: the options,    *)
(* the search for the files to send, the check of the targets, and the     *)
(* loop over the files (client/fcopy_cli.cpp; load_files, load_dir and     *)
(* load_file in common/utils.cpp).  What one upload does is module         *)
(* FileSender; here it only succeeds or fails.                             *)
(*                                                                         *)
(* A node of the file system stands for a canonical path: links lead to    *)
(* the node they resolve to, so a directory may be its own descendant.     *)
(***************************************************************************)
EXTENDS Integers, Sequences, FiniteSets, SequencesExt

CONSTANTS
  Node,
  KindOf,     \* KindOf[n]: what is_directory and is_regular_file tell of n
  EntriesOf,  \* EntriesOf[n]: the entries <<name, node>> of directory n
  MaxDepth,   \* LoadState::max_depth, 16 in load_files
  LocalHost,  \* the addresses that get_local_addr returns
  NoFile,
  Inputs      \* what the command line may be: options, and the paths

Kind == {"dir", "file", "locked", "other"}
Option == {"help", "t", "list", "p", "dry", "method", "speed", "wait", "check"}

\* A text host:number, as parse_target takes it apart; the number is what atoi
\* returns.  A text without a colon has no host here, as both are refused.
Text == [host : STRING, num : Int]

ASSUME CommandAssumption ==
  /\ KindOf \in [Node -> Kind]
  /\ EntriesOf \in [Node -> SUBSET (STRING \X Node)]
  /\ MaxDepth \in Nat \ {0}
  /\ \A in \in Inputs :
       /\ in.paths \in Seq(Node)
       /\ in.opts \in Seq(ToSet(in.opts))
       /\ \A o \in ToSet(in.opts) :
            /\ o.opt \in Option
            /\ o.opt = "t" => o.arg \in Text
            /\ o.opt = "list" => o.arg = NoFile \/ o.arg \in Seq(Text)
            /\ o.opt = "check" => o.arg \in BOOLEAN

VARIABLES
  pc,
  opts,    \* the options that getopt_long has not returned yet
  lines,   \* the lines of the list of targets that getline has not returned yet
  cfg,     \* the global cfg, without its files
  paths,   \* paths[i]: the arguments of load_files that are still to do
  stack,   \* for each call of load_dir, the entries it has not come to
  files,   \* cfg.files, by their canonical paths (LoadState::unique_path)
  sent,    \* the uploads begun: file and outcome
  status,  \* the exit status
  given    \* the input, for properties

vars == <<pc, opts, lines, cfg, paths, stack, files, sent, status, given>>

Default == [parallel |-> 1, dry |-> FALSE, wait |-> TRUE, check |-> TRUE,
            method |-> "chain", speed |-> 0, targets |-> <<>>]

CommandInit ==
  /\ pc = "options"
  /\ given \in Inputs
  /\ opts = given.opts /\ lines = <<>>
  /\ cfg = Default
  /\ paths = given.paths
  /\ stack = <<>> /\ files = <<>> /\ sent = <<>>
  /\ status = "none"

Exit(e) == pc' = "exit" /\ status' = e

-----------------------------------------------------------------------------
(* parse_args                                                              *)

\* unsigned short port = atoi(...)
PortWidth == 65536

Bad == [ok |-> FALSE]

\* A plausible bug: the number is kept as the int that atoi returns.
TargetOf_Wide(t) == [host |-> t.host, port |-> t.num]

TargetOf(t) == [host |-> t.host, port |-> t.num % PortWidth]

\* A text host:number without a host, or with no port.
Malformed(t) == t.host = "" \/ t.num % PortWidth = 0

\* parse_target
ParseTarget(c, t) ==
  IF Malformed(t) THEN Bad
  ELSE [ok |-> TRUE, cfg |-> [c EXCEPT !.targets = Append(@, TargetOf(t))]]

\* parse_targets begins with its first line; other options have no lines.
ParseOption(c, o) ==
  CASE o.opt = "t" -> ParseTarget(c, o.arg)
    [] o.opt = "list" -> IF o.arg = NoFile THEN Bad ELSE [ok |-> TRUE, cfg |-> c]
    [] o.opt = "p" -> [ok |-> TRUE, cfg |-> [c EXCEPT !.parallel = o.arg]]
    [] o.opt = "dry" -> [ok |-> TRUE, cfg |-> [c EXCEPT !.dry = TRUE]]
    [] o.opt = "method" -> IF o.arg \in {"chain", "tree"}
                           THEN [ok |-> TRUE, cfg |-> [c EXCEPT !.method = o.arg]]
                           ELSE Bad
    [] o.opt = "speed" -> IF o.arg > 0 THEN [ok |-> TRUE, cfg |-> [c EXCEPT !.speed = o.arg]]
                          ELSE Bad
    [] o.opt = "wait" -> [ok |-> TRUE, cfg |-> [c EXCEPT !.wait = o.arg]]
    [] o.opt = "check" -> [ok |-> TRUE, cfg |-> [c EXCEPT !.check = o.arg]]

\* What a parser returned: the program goes on, or ends with 1.
Parsed(r) ==
  \/ ~r.ok /\ Exit("1") /\ UNCHANGED cfg
  \/ r.ok /\ cfg' = r.cfg /\ UNCHANGED <<pc, status>>

\* --help and an unknown option print the usage and exit with 0.
NextOption ==
  LET o == Head(opts)
  IN /\ pc = "options" /\ opts # <<>> /\ lines = <<>>
     /\ \/ o.opt = "help" /\ Exit("0") /\ UNCHANGED cfg
        \/ o.opt # "help" /\ Parsed(ParseOption(cfg, o))
     /\ lines' = IF o.opt = "list" /\ o.arg # NoFile THEN o.arg ELSE <<>>
     /\ opts' = Tail(opts)
     /\ UNCHANGED <<paths, stack, files, sent, given>>

IsComment(t) == t.host = "#"

\* The loop of parse_targets passes over comments and empty lines.
NextLine ==
  /\ pc = "options" /\ lines # <<>>
  /\ \/ IsComment(Head(lines)) /\ UNCHANGED <<pc, cfg, status>>
     \/ ~IsComment(Head(lines)) /\ Parsed(ParseTarget(cfg, Head(lines)))
  /\ lines' = Tail(lines)
  /\ UNCHANGED <<opts, paths, stack, files, sent, given>>

OptionsDone ==
  /\ pc = "options" /\ opts = <<>> /\ lines = <<>>
  /\ pc' = "load"
  /\ UNCHANGED <<opts, lines, cfg, paths, stack, files, sent, status, given>>

-----------------------------------------------------------------------------
(* load_files                                                              *)

\* An exception of the search, which parse_args turns into status 1.
Throw == Exit("1") /\ UNCHANGED <<stack, files>>

\* A plausible bug: a file that is found again is passed over.
LoadFile_PassOver(n) ==
  \/ /\ KindOf[n] = "file"
     /\ files' = IF Contains(files, n) THEN files ELSE Append(files, n)
     /\ UNCHANGED <<pc, status>>
  \/ KindOf[n] # "file" /\ Exit("1") /\ UNCHANGED files

\* load_file, or the exception for what is neither file nor directory.
LoadFile(n) ==
  \/ /\ KindOf[n] = "file" /\ ~Contains(files, n)
     /\ files' = Append(files, n)
     /\ UNCHANGED <<pc, status>>
  \/ /\ KindOf[n] # "file" \/ Contains(files, n)
     /\ Exit("1")
     /\ UNCHANGED files

\* A plausible bug: the deepest level that is allowed is refused.
TooDeep_OffByOne(depth) == depth >= MaxDepth

TooDeep(depth) == depth > MaxDepth

\* load_dir is called for n, below the calls st.
EnterDir(st, n) ==
  \/ TooDeep(Len(st) + 1) /\ Throw
  \/ /\ ~TooDeep(Len(st) + 1)
     /\ stack' = Append(st, EntriesOf[n])
     /\ UNCHANGED <<pc, status, files>>

\* The next path of the command line.
NextPath ==
  /\ pc = "load" /\ stack = <<>> /\ paths # <<>>
  /\ paths' = Tail(paths)
  /\ IF KindOf[Head(paths)] = "dir" THEN EnterDir(stack, Head(paths))
     ELSE LoadFile(Head(paths)) /\ UNCHANGED stack
  /\ UNCHANGED <<opts, lines, cfg, sent, given>>

\* A plausible bug: the iterator does not move past a directory.
Advance_NotDirs(e) ==
  IF KindOf[e[2]] = "dir" THEN stack
  ELSE [stack EXCEPT ![Len(stack)] = @ \ {e}]

Advance(e) == [stack EXCEPT ![Len(stack)] = @ \ {e}]

\* The next entry of the innermost directory, in no particular order.
NextEntry ==
  /\ pc = "load" /\ stack # <<>>
  /\ \E e \in Last(stack) :
       IF KindOf[e[2]] = "dir" THEN EnterDir(Advance(e), e[2])
       ELSE LoadFile(e[2]) /\ stack' = Advance(e)
  /\ UNCHANGED <<opts, lines, cfg, paths, sent, given>>

\* load_dir returns.
LeaveDir ==
  /\ pc = "load" /\ stack # <<>> /\ Last(stack) = {}
  /\ stack' = Front(stack)
  /\ UNCHANGED <<pc, opts, lines, cfg, paths, files, sent, status, given>>

LoadDone ==
  /\ pc = "load" /\ stack = <<>> /\ paths = <<>>
  /\ pc' = "check"
  /\ UNCHANGED <<opts, lines, cfg, paths, stack, files, sent, status, given>>

-----------------------------------------------------------------------------
(* main                                                                    *)

\* do_check_self: no target is local, none occurs twice.
CheckSelf(ts) ==
  /\ \A i \in DOMAIN ts : ts[i].host \notin LocalHost
  /\ IsInjective(ts)

Clamped(n) == IF n < 1 THEN 1 ELSE IF n > 900 THEN 900 ELSE n

\* do_check_self also fails when the local addresses cannot be had.
Check ==
  /\ pc = "check"
  /\ cfg' = [cfg EXCEPT !.parallel = Clamped(@)]
  /\ \/ cfg.targets = <<>> /\ Exit("1")
     \/ cfg.targets # <<>> /\ cfg.check /\ Exit("-1")
     \/ /\ cfg.targets # <<>> /\ (cfg.check => CheckSelf(cfg.targets))
        /\ \/ cfg.dry /\ Exit("0")
           \/ ~cfg.dry /\ pc' = "send" /\ UNCHANGED status
  /\ UNCHANGED <<opts, lines, paths, stack, files, sent, given>>

Stopped == sent # <<>> /\ ~Last(sent).ok

\* A plausible bug: the loop goes on after an upload that failed.
MoreToSend_DespiteError == Len(sent) < Len(files)

MoreToSend == Len(sent) < Len(files) /\ ~Stopped

\* One upload, after the one before has ended.
Upload ==
  /\ pc = "send" /\ MoreToSend
  /\ \E ok \in BOOLEAN : sent' = Append(sent, [file |-> files[Len(sent)+1], ok |-> ok])
  /\ UNCHANGED <<pc, opts, lines, cfg, paths, stack, files, status, given>>

\* The exit status is 0 whatever the uploads returned.
SendDone ==
  /\ pc = "send" /\ ~MoreToSend
  /\ Exit("0")
  /\ UNCHANGED <<opts, lines, cfg, paths, stack, files, sent, given>>

CommandNext ==
  \/ NextOption \/ NextLine \/ OptionsDone
  \/ NextPath \/ NextEntry \/ LeaveDir \/ LoadDone
  \/ Check \/ Upload \/ SendDone

\* The program runs; every upload ends (FileSender!UploadsEnd).
CommandSpec == CommandInit /\ [][CommandNext]_vars /\ WF_vars(CommandNext)

-----------------------------------------------------------------------------
(* The reference: what the paths of the command line lead to.              *)

Entries == UNION {EntriesOf[n] : n \in Node}

\* The node that the walk t = [from, by] has come to with its k-th entry.
NodeAt(t, k) == IF k = 0 THEN t.from ELSE t.by[k][2]

\* Entry after entry it goes down the directories.
IsWalk(t) ==
  \A k \in DOMAIN t.by : /\ KindOf[NodeAt(t, k-1)] = "dir"
                         /\ t.by[k] \in EntriesOf[NodeAt(t, k-1)]

\* All walks, along at most MaxDepth entries.
Trails ==
  UNION {{[from |-> n, by |-> w] :
            w \in {v \in BoundedSeq(Entries, MaxDepth) : IsWalk([from |-> n, by |-> v])}} :
         n \in Node}

\* The walks from the paths of the command line.
Walks == {x \in (DOMAIN given.paths) \X Trails : x[2].from = given.paths[x[1]]}

EndOf(x) == NodeAt(x[2], Len(x[2].by))

FileWalks == {x \in Walks : KindOf[EndOf(x)] = "file"}

\* Nothing but readable files and directories no deeper than MaxDepth, and
\* only one way to each file.
Loadable ==
  /\ \A x \in Walks : KindOf[EndOf(x)] \in {"dir", "file"}
  /\ \A x \in Walks : KindOf[EndOf(x)] = "dir" => Len(x[2].by) < MaxDepth
  /\ \A x, y \in FileWalks : EndOf(x) = EndOf(y) => x = y

-----------------------------------------------------------------------------
(* The reference: which targets the command line names.                    *)

\* The texts of an option.
Texts(o) == CASE o.opt = "t" -> <<o.arg>>
              [] o.opt = "list" /\ o.arg # NoFile -> o.arg
              [] OTHER -> <<>>

TextAt(x) == Texts(given.opts[x[1]])[x[2]]

\* Where on the command line a target is named: by which text of which option.
Named ==
  {x \in UNION {{i} \X DOMAIN Texts(given.opts[i]) : i \in DOMAIN given.opts} :
     given.opts[x[1]].opt = "list" => ~IsComment(TextAt(x))}

\* Both name one port of one host, for the network.
SamePlace(t, u) == t.host = u.host /\ (t.num - u.num) % PortWidth = 0

\* Where the k-th target is reached.
Place(k) == [host |-> cfg.targets[k].host, num |-> cfg.targets[k].port]

\* Every --no-check-self is followed by a --check-self.
CheckAsked ==
  \A i \in DOMAIN given.opts :
    (given.opts[i].opt = "check" /\ ~given.opts[i].arg)
      => \E k \in DOMAIN given.opts :
           k > i /\ given.opts[k].opt = "check" /\ given.opts[k].arg

-----------------------------------------------------------------------------
(* Properties                                                              *)

\* If the search succeeds it has found every file below the paths once, and
\* nothing there was unreadable, of another type, too deep, or met twice (by
\* a link, a cycle of links, or a path given twice).
LoadIsExact ==
  pc \in {"check", "send"} =>
    /\ Loadable
    /\ ToSet(files) = {EndOf(x) : x \in FileWalks}
    /\ IsInjective(files)

\* It fails only if there was such a thing.
LoadFailsForCause == [][pc = "load" /\ pc' = "exit" => ~Loadable]_vars

\* What is sent goes to a port of 16 bits for everything that any option or line
\* of a list named as a target, and nowhere else.  Unless the last option on it
\* turned the check off, no two of these names, however far apart on the command
\* line and however their numbers are written, are one port of one host, and none
\* is on this host.
TargetsApart ==
  pc = "send" =>
    /\ \A x \in Named : \E k \in DOMAIN cfg.targets : SamePlace(TextAt(x), Place(k))
    /\ \A k \in DOMAIN cfg.targets : /\ Place(k).num \in 1..PortWidth-1
                                    /\ \E x \in Named : SamePlace(TextAt(x), Place(k))
    /\ CheckAsked => /\ \A x, y \in Named : SamePlace(TextAt(x), TextAt(y)) => x = y
                     /\ \A x \in Named : TextAt(x).host \notin LocalHost

\* Files are sent in the order they were found, each once, until one fails;
\* and only if the whole list was found, so a bad path keeps all from being sent.
SentInOrder ==
  /\ Len(sent) <= Len(files)
  /\ \A i \in DOMAIN sent : sent[i].file = files[i] /\ (i < Len(sent) => sent[i].ok)
  /\ sent # <<>> => Loadable

\* The program ends, also where links make the directories endless.
CommandEnds == <>(pc = "exit")
=============================================================================
