----------------------------- MODULE MCCommand ------------------------------
(* Values for checking Command: directories with files, a nested one, an     *)
(* empty one, links to a file that is found elsewhere, to the directory      *)
(* itself, and a chain as deep as MaxDepth = 3 and one deeper.               *)
EXTENDS Command, TLC

CONSTANTS d, sub, empty, loop, links, c1, c2, c3, c4, priv, fa, fb, locked, sock

mcNode == {d, sub, empty, loop, links, c1, c2, c3, c4, priv, fa, fb, locked, sock}

mcKindOf == [n \in mcNode |-> CASE n \in {fa, fb} -> "file"
                                [] n = locked -> "locked"
                                [] n = sock -> "other"
                                [] OTHER -> "dir"]

mcEntriesOf ==
  [n \in mcNode |-> CASE n = d -> {<<"a", fa>>, <<"s", sub>>, <<"e", empty>>}
                      [] n = sub -> {<<"b", fb>>}
                      [] n = loop -> {<<"l", loop>>}
                      [] n = links -> {<<"x", fb>>, <<"y", fb>>}
                      [] n = c1 -> {<<"c", c2>>}
                      [] n = c2 -> {<<"c", c3>>}
                      [] n = c3 -> {<<"c", c4>>, <<"a", fa>>}
                      [] n = c4 -> {<<"b", fb>>}
                      [] n = priv -> {<<"k", locked>>}
                      [] OTHER -> {}]

T(h, n) == [host |-> h, num |-> n]
O(o, a) == [opt |-> o, arg |-> a]

To1 == <<O("t", T("h1", 80))>>

mcInputs ==
  {[opts |-> To1, paths |-> p] : p \in BoundedSeq(mcNode, 2)}
    \cup {[opts |-> o, paths |-> <<sub, fa>>] :
            o \in {<<>>, <<O("help", "")>>, To1 \o To1,
                   To1 \o <<O("t", T("h1", 65616))>>,
                   To1 \o To1 \o <<O("check", FALSE)>>,
                   <<O("check", FALSE)>> \o To1 \o <<O("check", TRUE)>> \o To1,
                   <<O("check", TRUE)>> \o To1 \o <<O("t", T("h1", -65456)), O("check", FALSE)>>,
                   To1 \o <<O("list", <<T("#", 0), T("h2", 80), T("h1", -65456)>>)>>,
                   To1 \o <<O("t", T("h1", 65536))>>,
                   To1 \o <<O("t", T("", 80))>>,
                   <<O("t", T("me", 80))>>,
                   To1 \o <<O("dry", "")>>,
                   To1 \o <<O("p", 1000), O("wait", FALSE)>>,
                   To1 \o <<O("p", 0), O("method", "tree")>>,
                   <<O("method", "ring")>>, <<O("speed", 0)>>, To1 \o <<O("speed", 9)>>,
                   <<O("list", <<T("#", 0), T("h1", 80), T("h2", 80)>>)>>,
                   <<O("list", <<T("h1", 80), T("h2", 0)>>)>>,
                   <<O("list", NoFile)>>}}
=============================================================================
