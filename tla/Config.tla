------------------------------- MODULE Config -------------------------------
(***************************************************************************)
(* The configuration file of the server: how a line is cut into words and  *)
(* what its key does to FcopyConfig (server/load_config.cpp).              *)
(*                                                                         *)
(* A line is a sequence of lexemes: a space, the characters # " \, and     *)
(* texts, which stand for runs of other characters.  No two texts stand    *)
(* side by side.  A word is the sequence of what was pushed into it.       *)
(***************************************************************************)
EXTENDS Integers, Sequences

CONSTANTS
  NumberOf,   \* the value of a text that is a whole number
  IntMax,     \* the largest int; negative numbers are not modelled
  SuffixOf    \* SuffixOf[t]: the number and the unit that text t is made of

ASSUME ConfigAssumption ==
  /\ IntMax \in Nat /\ IntMax >= 5200
  /\ DOMAIN NumberOf \subseteq STRING /\ \A t \in DOMAIN NumberOf : NumberOf[t] \in Nat
  /\ "port" \notin DOMAIN NumberOf
  /\ DOMAIN SuffixOf \subseteq STRING

Space == " "
Hash == "#"
Quote == "\""
Backslash == "\\"
Apostrophe == "'"

Special == {Space, Hash, Quote, Backslash}

-----------------------------------------------------------------------------
(* parse_line                                                              *)

\* What \x stands for inside quotes; any other x ends the parse.
Escaped == [c \in {"n", "r", "t", Apostrophe, Quote, Backslash} |->
              CASE c = "n" -> "<nl>" [] c = "r" -> "<cr>" [] c = "t" -> "<tab>"
                [] OTHER -> c]

Failed == [ok |-> FALSE]

\* Where parse_line stands in line number line: at which lexeme, the words it has
\* found, and inside a quoted word (unescape) the part of it that was read.
NewLine(n) == [line |-> n, at |-> 1, words |-> <<>>, inside |-> FALSE, tmp |-> <<>>]

\* A plausible bug: a # ends the line only where a word may begin.
WordEnd_HashInside(l, i) ==
  LET stop == {k \in i..Len(l) : l[k] = Space}
  IN IF stop = {} THEN Len(l) + 1 ELSE CHOOSE k \in stop : \A n \in stop : k <= n

\* Where the unquoted word that begins at i ends: before a space or a #.
WordEnd(l, i) ==
  LET stop == {k \in i..Len(l) : l[k] \in {Space, Hash}}
  IN IF stop = {} THEN Len(l) + 1 ELSE CHOOSE k \in stop : \A n \in stop : k <= n

\* The line ends, or a comment begins.
ScanOver(l, s) == ~s.inside /\ (s.at \in DOMAIN l => l[s.at] = Hash)

\* A quoted word has no end, or a \ stands before what it cannot escape.
ScanFails(l, s) ==
  /\ s.inside
  /\ s.at \in DOMAIN l =>
       l[s.at] = Backslash /\ (s.at + 1 \in DOMAIN l => l[s.at + 1] \notin DOMAIN Escaped)

\* The loop of unescape.  At the closing quote the word is done, and parse_line goes
\* on AT that quote, which is never skipped.
InQuotes(l, s) ==
  CASE l[s.at] = Quote -> [s EXCEPT !.words = Append(@, s.tmp), !.inside = FALSE]
    [] l[s.at] = Backslash -> [s EXCEPT !.at = @ + 2, !.tmp = Append(@, Escaped[l[s.at + 1]])]
    [] OTHER -> [s EXCEPT !.at = @ + 1, !.tmp = Append(@, l[s.at])]

\* The loop of parse_line: a space, the begin of a quoted word, or a whole other word.
Outside(l, s) ==
  CASE l[s.at] = Space -> [s EXCEPT !.at = @ + 1]
    [] l[s.at] = Quote -> [s EXCEPT !.at = @ + 1, !.inside = TRUE, !.tmp = <<>>]
    [] OTHER -> [s EXCEPT !.at = WordEnd(l, s.at),
                          !.words = Append(@, SubSeq(l, s.at, WordEnd(l, s.at) - 1))]

ScanNext(l, s) == IF s.inside THEN InQuotes(l, s) ELSE Outside(l, s)

-----------------------------------------------------------------------------
(* load_service_config                                                     *)

IntKey == {"port", "srv_max_conn", "srv-peer-response-timeout", "srv-receive-timeout",
           "srv-keep-alive-timeout", "cli-retry-max", "cli-send-timeout",
           "cli-receive-timeout", "cli-keep-alive-timeout"}
SizeKey == {"request-size-limit"}
StrKey == {"logfile", "pidfile", "basedir", "default-partition"}
BoolKey == {"daemonize", "directio"}

\* FcopyConfig as the program starts; a size is <<n, k>>, which is n * 2^k.
\* The timeouts and the retries have other values there that nothing here reads.
FcopyConfig ==
  [k \in IntKey \cup SizeKey \cup StrKey \cup BoolKey \cup {"partitions"} |->
     CASE k = "port" -> 5200
       [] k \in IntKey \ {"port"} -> 0
       [] k \in SizeKey -> <<128, 20>>
       [] k \in StrKey -> <<>>
       [] k = "daemonize" -> FALSE
       [] k = "directio" -> TRUE
       [] k = "partitions" -> {}]

IsNumber(w) == Len(w) = 1 /\ w[1] \in DOMAIN NumberOf

\* A plausible bug: the range of an int is not looked at.
ParseSigned_NoRange(args) ==
  IF Len(args) = 1 /\ IsNumber(args[1])
  THEN [ok |-> TRUE, val |-> NumberOf[args[1][1]]]
  ELSE Failed

\* parse_signed<int>: the whole word is a number that an int can hold.
ParseSigned(args) ==
  IF Len(args) = 1 /\ IsNumber(args[1]) /\ NumberOf[args[1][1]] <= IntMax
  THEN [ok |-> TRUE, val |-> NumberOf[args[1][1]]]
  ELSE Failed

\* The unit of a size: B and no unit double the number (m = 1 is an exponent).
Shift == [u \in {"", "B", "K", "M", "G", "T"} |->
            CASE u \in {"", "B"} -> 1 [] u = "K" -> 10 [] u = "M" -> 20
              [] u = "G" -> 30 [] u = "T" -> 40]

\* parse_size: at most 2^50.  Numbers are below 2^30 here, so only a unit of
\* 2^20 or more can exceed that.
ParseSize(args) ==
  IF Len(args) = 1 /\ Len(args[1]) = 1 /\ args[1][1] \in DOMAIN SuffixOf
       /\ SuffixOf[args[1][1]].unit \in DOMAIN Shift
  THEN LET n == SuffixOf[args[1][1]].num
           m == Shift[SuffixOf[args[1][1]].unit]
       IN IF m >= 20 /\ n > 2^(50 - m) THEN Failed ELSE [ok |-> TRUE, val |-> <<n, m>>]
  ELSE Failed

ParseString(args) == IF Len(args) = 1 THEN [ok |-> TRUE, val |-> args[1]] ELSE Failed

ParseBool(args) ==
  IF args = <<<<"yes">>>> THEN [ok |-> TRUE, val |-> TRUE]
  ELSE IF args = <<<<"no">>>> THEN [ok |-> TRUE, val |-> FALSE]
  ELSE Failed

\* map::insert keeps the partition that has the name already.
ParsePartition(old, args) ==
  IF Len(args) # 2 THEN Failed
  ELSE [ok |-> TRUE,
        val |-> IF \E p \in old : p[1] = args[1] THEN old
                ELSE old \cup {<<args[1], args[2]>>}]

\* What a line of these words sets: a key that is not known is passed over.
SetKey(conf, words) ==
  LET key == words[1][1]
      args == Tail(words)
      r == CASE key \in IntKey -> ParseSigned(args)
             [] key \in SizeKey -> ParseSize(args)
             [] key \in StrKey -> ParseString(args)
             [] key \in BoolKey -> ParseBool(args)
             [] key = "partitions" -> ParsePartition(conf["partitions"], args)
  IN IF Len(words[1]) # 1 \/ key \notin DOMAIN conf THEN [ok |-> TRUE, conf |-> conf]
     ELSE IF r.ok THEN [ok |-> TRUE, conf |-> [conf EXCEPT ![key] = r.val]]
     ELSE Failed

\* A line without words says nothing.
LoadLine(conf, words) ==
  IF words = <<>> THEN [ok |-> TRUE, conf |-> conf] ELSE SetKey(conf, words)
=============================================================================
