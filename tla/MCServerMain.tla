---------------------------- MODULE MCServerMain ----------------------------
(* Values for checking ServerMain: every line of up to four lexemes over the *)
(* special characters and a few texts, alone in the file; files of two lines *)
(* that set the same thing twice or are refused in one line; and command     *)
(* lines that agree with the file or not.  IntMax is scaled down to 99999.   *)
EXTENDS ServerMain, SequencesExt, TLC

CONSTANTS INT, TERM, r1, r2

mcNumberOf == ("80" :> 80) @@ ("90" :> 90) @@ ("0" :> 0) @@ ("70000" :> 70000)
                @@ ("100000" :> 100000)
mcAtoiOf == mcNumberOf @@ ("n" :> 0)
mcSuffixOf == ("80" :> [num |-> 80, unit |-> ""]) @@ ("2K" :> [num |-> 2, unit |-> "K"])
                @@ ("1024T" :> [num |-> 1024, unit |-> "T"])
                @@ ("1025T" :> [num |-> 1025, unit |-> "T"])
                @@ ("2X" :> [num |-> 2, unit |-> "X"])

Texts == {"port", "80", "n", "100000"}

\* No two texts side by side: a text is a whole run of ordinary characters.
ALine(l) == \A k \in 1..Len(l)-1 : l[k] \in Special \/ l[k+1] \in Special

ShortLines == {l \in BoundedSeq(Special \cup Texts, 4) : ALine(l)}

Set(k, v) == <<k, Space, v>>

\* Settings that meet in one file, and lines that are alone in theirs.
PairLines ==
  {Set("port", "80"), Set("port", "90"), Set("port", "100000"), Set("daemonize", "yes")}

LongLines ==
  {Set("port", "0"), Set("port", "70000"), Set("port", "80") \o <<Space, "80">>,
   Set("daemonize", "maybe"), Set("logfile", "n"), Set("default-partition", "n"),
   Set("loglevel", "info"),
   Set("request-size-limit", "1024T"), Set("request-size-limit", "1025T"),
   Set("request-size-limit", "2X"),
   Set("partitions", "n") \o <<Space, "n">>, Set("partitions", "n"),
   <<"logfile", Space, Quote, "n", Quote>>,
   <<"logfile", Space, Quote, Backslash, "n", Quote>>}

C(f) == [opt |-> "c", arg |-> f]
P(t) == [opt |-> "p", arg |-> t]
O(o) == [opt |-> o]

In(args, home) == [args |-> args, home |-> home]

mcInputs ==
  {In(<<C(<<l>>)>>, NoFile) : l \in ShortLines}
    \cup {In(<<C(<<l>>)>>, NoFile) : l \in LongLines}
    \cup {In(<<C(<<l, m>>)>>, NoFile) : l, m \in PairLines}
    \cup {In(<<C(<<l>>), P(p)>>, NoFile) : l \in PairLines, p \in {"0", "90", "n"}}
    \cup {In(a, h) : a \in {<<>>, <<P("80")>>, <<P("80"), P("90")>>, <<P("70000")>>,
                            <<O("g")>>, <<O("h")>>, <<O("bad")>>, <<O("badlong")>>,
                            <<C(NoFile)>>, <<C(<<>>), O("g")>>,
                            <<C(<<Set("port", "90")>>), C(<<>>)>>},
                     h \in {NoFile, <<Set("port", "80")>>, <<Set("port", "n")>>}}

mcCurDir == {<<>>, <<"cwd">>}
=============================================================================
