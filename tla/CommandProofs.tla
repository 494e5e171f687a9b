---------------------------- MODULE CommandProofs ---------------------------
(***************************************************************************)
(* The search for the files to send is exact for every file system, every  *)
(* number of paths and every depth that is allowed, whatever the order in  *)
(* which a directory gives its entries; and what is sent is what it found. *)
(*                                                                         *)
(* The search keeps no trace of where it has been but the entries it has   *)
(* not come to.  SearchInv says what these stand for: there is a walk to   *)
(* the innermost directory such that every walk of the reference has been  *)
(* seen, unless it leaves this one by an entry still on the stack.         *)
(***************************************************************************)
EXTENDS Command, SequenceTheorems, TLAPS

\* The path that the search is at: the paths before it are done.
Current == Len(given.paths) - Len(paths)

\* Walk t leads to the innermost directory: stack[d] are the entries of the
\* directory before its d-th entry that the search has not come to.
Along(t) ==
  stack # <<>> =>
    /\ t \in Trails /\ Len(t.by) = Len(stack) - 1 /\ t.from = given.paths[Current]
    /\ Current >= 1
    /\ \A d \in 1..Len(stack) : KindOf[NodeAt(t, d-1)] = "dir"
                                /\ stack[d] \subseteq EntriesOf[NodeAt(t, d-1)]
    /\ \A d \in 1..Len(t.by) : t.by[d] \notin stack[d]

\* Walk u leaves t by an entry that is still on the stack.
Pending(t, u) ==
  \E d \in 1..Len(stack) : /\ d <= Len(u.by)
                           /\ \A k \in 1..d-1 : u.by[k] = t.by[k]
                           /\ u.by[d] \in stack[d]

\* The walks that the search is through with.
Seen(t) == {x \in Walks : \/ x[1] < Current
                          \/ x[1] = Current /\ ~Pending(t, x[2])}

\* What LoadIsExact says of all walks and of files, of the walks in W and of fs.
Exact(W, fs) ==
  /\ \A x \in W : KindOf[EndOf(x)] \in {"dir", "file"}
  /\ \A x \in W : KindOf[EndOf(x)] = "dir" => Len(x[2].by) < MaxDepth
  /\ \A x, y \in W \cap FileWalks : EndOf(x) = EndOf(y) => x = y
  /\ ToSet(fs) = {EndOf(x) : x \in W \cap FileWalks}
  /\ IsInjective(fs)

\* The paths that are left are the last of those given.
PathsInv ==
  /\ paths \in Seq(Node) /\ Len(paths) <= Len(given.paths)
  /\ \A k \in 1..Len(paths) : paths[k] = given.paths[Current + k]

StackInv == stack \in Seq(SUBSET Entries) /\ Len(stack) <= MaxDepth

SearchInv == PathsInv /\ StackInv /\ \E t : Along(t) /\ Exact(Seen(t), files)

\* The options that were read: the ones left are the last of those given.
Taken == Len(given.opts) - Len(opts)

TextsTaken == Texts(given.opts[Taken])

\* The lines left are the last of the list that the option before them names.
LinesInv ==
  /\ lines \in Seq(Text)
  /\ lines # <<>> =>
       /\ Taken >= 1 /\ given.opts[Taken].opt = "list"
       /\ Len(lines) <= Len(TextsTaken)
       /\ \A k \in 1..Len(lines) : lines[k] = TextsTaken[Len(TextsTaken) - Len(lines) + k]

\* The options leave the fields of cfg in place.
OptionsInv ==
  /\ given \in Inputs
  /\ opts \in Seq(ToSet(given.opts)) /\ Len(opts) <= Len(given.opts)
  /\ \A k \in 1..Len(opts) : opts[k] = given.opts[Taken + k]
  /\ LinesInv
  /\ DOMAIN cfg = DOMAIN Default

\* The texts that were read.
Read == {x \in Named : \/ x[1] < Taken
                       \/ x[1] = Taken /\ x[2] <= Len(TextsTaken) - Len(lines)}

\* at leads from the texts in R to the targets that they became, one to one.
Leads(at, R, ts) ==
  /\ \A x \in R : at[x] \in 1..Len(ts) /\ ts[at[x]] = TargetOf(TextAt(x))
  /\ \A x, y \in R : at[x] = at[y] => x = y
  /\ \A k \in 1..Len(ts) : \E x \in R : at[x] = k

Matches(R, ts) ==
  /\ ts \in Seq([host : STRING, port : Int])
  /\ \A x \in R : ~Malformed(TextAt(x))
  /\ \E at : Leads(at, R, ts)

\* The last of the first n options that turned the check on or off turned it on.
AskedBy(n) ==
  \A i \in 1..n :
    (given.opts[i].opt = "check" /\ ~given.opts[i].arg)
      => \E k \in 1..n : k > i /\ given.opts[k].opt = "check" /\ given.opts[k].arg

TargetsInv ==
  /\ Matches(Read, cfg.targets)
  /\ cfg.check \in BOOLEAN
  /\ cfg.check = TRUE <=> AskedBy(Taken)

SentInv ==
  /\ files \in Seq(Node)
  /\ sent \in Seq([file : Node, ok : BOOLEAN])
  /\ SentInOrder

CommandInv ==
  /\ pc \in {"options", "load", "check", "send", "exit"}
  /\ OptionsInv
  /\ SentInv
  /\ pc \in {"options", "load", "check"} => sent = <<>>
  /\ pc \in {"options", "load"} => SearchInv
  /\ pc \in {"check", "send"} => Exact(Walks, files)
  /\ pc # "exit" => TargetsInv
  /\ pc \in {"load", "check", "send"} => opts = <<>> /\ lines = <<>>
  /\ (pc = "send" /\ cfg.check = TRUE) => CheckSelf(cfg.targets)

-----------------------------------------------------------------------------
(* Walks                                                                   *)

\* What a walk is made of.
LEMMA TrailFacts ==
  ASSUME NEW t \in Trails
  PROVE  /\ t.from \in Node /\ t.by \in Seq(Entries) /\ Len(t.by) <= MaxDepth
         /\ t = [from |-> t.from, by |-> t.by]
         /\ IsWalk(t)
<1>1. PICK n \in Node, w \in BoundedSeq(Entries, MaxDepth) :
        t = [from |-> n, by |-> w] /\ IsWalk([from |-> n, by |-> w])
  BY DEF Trails
<1>2. PICK m \in 0..MaxDepth : w \in [1..m -> Entries]
  BY <1>1 DEF BoundedSeq, SeqOf
<1>3. w \in Seq(Entries) /\ Len(w) = m
  BY <1>2
<1> QED BY <1>1, <1>2, <1>3, CommandAssumption

\* And what makes a walk.
LEMMA TrailMade ==
  ASSUME NEW n \in Node, NEW w \in Seq(Entries), Len(w) <= MaxDepth,
         IsWalk([from |-> n, by |-> w])
  PROVE  [from |-> n, by |-> w] \in Trails
<1>1. Len(w) \in 0..MaxDepth /\ w \in [1..Len(w) -> Entries]
  BY CommandAssumption
<1>2. w \in BoundedSeq(Entries, MaxDepth)
  BY <1>1 DEF BoundedSeq, SeqOf
<1> QED BY <1>2 DEF Trails

\* A walk ends at a node, and passes nodes.
LEMMA NodesOfTrail ==
  ASSUME NEW t \in Trails, NEW k \in 0..Len(t.by)
  PROVE  NodeAt(t, k) \in Node
<1>1. Entries \subseteq STRING \X Node
  BY CommandAssumption DEF Entries
<1> QED BY <1>1, TrailFacts DEF NodeAt

\* A walk that goes on to an entry of the directory that it ends at.
LEMMA TrailGoesOn ==
  ASSUME NEW t \in Trails, Len(t.by) < MaxDepth,
         KindOf[NodeAt(t, Len(t.by))] = "dir", NEW e \in EntriesOf[NodeAt(t, Len(t.by))]
  PROVE  LET u == [from |-> t.from, by |-> Append(t.by, e)]
         IN  u \in Trails /\ NodeAt(u, Len(u.by)) = e[2] /\ Len(u.by) = Len(t.by) + 1
<1> DEFINE u == [from |-> t.from, by |-> Append(t.by, e)]
<1>1. t.from \in Node /\ t.by \in Seq(Entries) /\ IsWalk(t)
  BY TrailFacts
<1>2. e \in Entries
  BY NodesOfTrail, <1>1 DEF Entries
<1>3. /\ Len(u.by) = Len(t.by) + 1 /\ u.by[Len(t.by)+1] = e
      /\ \A k \in 1..Len(t.by) : u.by[k] = t.by[k]
      /\ u.by \in Seq(Entries) /\ u.from = t.from
  BY <1>1, <1>2
<1> HIDE DEF u
<1>4. \A k \in 0..Len(t.by) : NodeAt(u, k) = NodeAt(t, k)
  BY <1>3 DEF NodeAt
<1>5. DOMAIN u.by = 1..Len(t.by)+1 /\ DOMAIN t.by = 1..Len(t.by) /\ Len(t.by) \in Nat
  BY <1>1, <1>3
<1>6. IsWalk(u)
  <2> SUFFICES ASSUME NEW k \in 1..Len(t.by)+1
               PROVE  KindOf[NodeAt(u, k-1)] = "dir" /\ u.by[k] \in EntriesOf[NodeAt(u, k-1)]
    BY <1>5 DEF IsWalk
  <2>1. NodeAt(u, k-1) = NodeAt(t, k-1)
    BY <1>4, <1>5
  <2>2. CASE k = Len(t.by)+1
    BY <1>3, <1>5, <2>1, <2>2
  <2>3. CASE k \in 1..Len(t.by)
    <3>1. /\ KindOf[NodeAt(t, k-1)] = "dir" /\ t.by[k] \in EntriesOf[NodeAt(t, k-1)]
      BY <1>1, <1>5, <2>3 DEF IsWalk
    <3> QED BY <1>3, <2>1, <2>3, <3>1
  <2> QED BY <1>5, <2>2, <2>3
<1>7. u \in Trails
  <2>1. u = [from |-> u.from, by |-> u.by] /\ u.from \in Node
    BY <1>1 DEF u
  <2>2. Len(u.by) <= MaxDepth
    BY <1>3, <1>5, CommandAssumption
  <2> QED BY <1>3, <1>6, <2>1, <2>2, TrailMade
<1> QED BY <1>3, <1>5, <1>7 DEF NodeAt, u

-----------------------------------------------------------------------------
(* What the search knows when it comes to one more node                    *)

\* A directory that is not too deep.
LEMMA DirSeen ==
  ASSUME NEW W, NEW fs, NEW x, Exact(W, fs),
         KindOf[EndOf(x)] = "dir", Len(x[2].by) < MaxDepth
  PROVE  Exact(W \cup {x}, fs)
<1>1. (W \cup {x}) \cap FileWalks = W \cap FileWalks
  BY DEF FileWalks
<1> QED BY <1>1 DEF Exact

\* A file that was not found before.
LEMMA FileSeen ==
  ASSUME NEW W, NEW fs \in Seq(Node), NEW x \in Walks, Exact(W, fs), EndOf(x) \in Node,
         KindOf[EndOf(x)] = "file", ~Contains(fs, EndOf(x))
  PROVE  Exact(W \cup {x}, Append(fs, EndOf(x)))
<1> DEFINE n == EndOf(x)
           V == W \cup {x}
           gs == Append(fs, n)
<1>1. V \cap FileWalks = (W \cap FileWalks) \cup {x}
  BY DEF FileWalks
<1>2. ToSet(gs) = ToSet(fs) \cup {n} /\ n \notin ToSet(fs)
  BY DEF ToSet, Contains
<1>3. \A y \in W \cap FileWalks : EndOf(y) # n
  BY <1>2 DEF Exact
<1>4. ToSet(gs) = {EndOf(y) : y \in V \cap FileWalks}
  BY <1>1, <1>2 DEF Exact
<1>5. IsInjective(gs)
  <2>1. IsInjective(fs)
    BY DEF Exact
  <2>2. /\ DOMAIN gs = 1..Len(fs)+1 /\ DOMAIN fs = 1..Len(fs) /\ gs[Len(fs)+1] = n
        /\ \A k \in 1..Len(fs) : gs[k] = fs[k] /\ fs[k] # n
    BY DEF Contains
  <2> QED BY <2>1, <2>2 DEF IsInjective
<1>6. \A y, z \in V \cap FileWalks : EndOf(y) = EndOf(z) => y = z
  BY <1>1, <1>3 DEF Exact
<1>7. /\ \A y \in V : KindOf[EndOf(y)] \in {"dir", "file"}
      /\ \A y \in V : KindOf[EndOf(y)] = "dir" => Len(y[2].by) < MaxDepth
  BY DEF Exact
<1> QED BY <1>4, <1>5, <1>6, <1>7 DEF Exact

\* What the search refuses keeps the paths from being loaded.
LEMMA Refused ==
  ASSUME NEW W, NEW fs, NEW x \in Walks, Exact(W, fs), W \subseteq Walks, x \notin W,
         \/ KindOf[EndOf(x)] \notin {"dir", "file"}
         \/ KindOf[EndOf(x)] = "dir" /\ ~(Len(x[2].by) < MaxDepth)
         \/ KindOf[EndOf(x)] = "file" /\ Contains(fs, EndOf(x))
  PROVE  ~Loadable
<1>1. CASE KindOf[EndOf(x)] = "file" /\ Contains(fs, EndOf(x))
  <2>1. EndOf(x) \in {EndOf(y) : y \in W \cap FileWalks}
    <3>1. PICK k \in 1..Len(fs) : fs[k] = EndOf(x)
      BY <1>1 DEF Contains
    <3> QED BY <1>1, <3>1 DEF Exact, ToSet
  <2>2. PICK y \in W \cap FileWalks : EndOf(y) = EndOf(x)
    BY <2>1
  <2>3. x \in FileWalks /\ x # y
    BY <1>1, <2>2 DEF FileWalks
  <2> QED BY <2>2, <2>3 DEF Loadable
<1> QED BY <1>1 DEF Loadable

-----------------------------------------------------------------------------
(* One step of the search                                                  *)

\* The entry e of the innermost directory ends a walk that was not seen.
LEMMA EntryIsNew ==
  ASSUME PathsInv, StackInv, given \in Inputs, stack # <<>>,
         NEW t, Along(t), NEW e \in stack[Len(stack)]
  PROVE  LET u == [from |-> t.from, by |-> Append(t.by, e)]
         IN  /\ u \in Trails /\ Len(u.by) = Len(stack)
             /\ u.by[Len(stack)] = e /\ \A k \in 1..Len(stack)-1 : u.by[k] = t.by[k]
             /\ \A k \in 0..Len(stack)-1 : NodeAt(u, k) = NodeAt(t, k)
             /\ <<Current, u>> \in Walks /\ EndOf(<<Current, u>>) = e[2]
             /\ <<Current, u>> \notin Seen(t)
             /\ e[2] \in Node
<1> DEFINE L == Len(stack)
           u == [from |-> t.from, by |-> Append(t.by, e)]
<1>1. /\ L \in Nat \ {0} /\ L <= MaxDepth /\ MaxDepth \in Nat
      /\ t \in Trails /\ Len(t.by) = L - 1 /\ t.from = given.paths[Current]
      /\ Current >= 1
  BY CommandAssumption DEF StackInv, Along
<1>2. KindOf[NodeAt(t, L-1)] = "dir" /\ e \in EntriesOf[NodeAt(t, L-1)]
  BY <1>1 DEF Along
<1>3. u \in Trails /\ NodeAt(u, Len(u.by)) = e[2] /\ Len(u.by) = L
  BY <1>1, <1>2, TrailGoesOn
<1>4. t.by \in Seq(Entries)
  BY <1>1, TrailFacts
<1>5. e \in Entries
  BY <1>1, <1>2, NodesOfTrail DEF Entries
<1>6. u.by[L] = e /\ \A k \in 1..L-1 : u.by[k] = t.by[k]
  BY <1>1, <1>4, <1>5
<1>7. u.from = t.from
  OBVIOUS
<1> HIDE DEF u
<1>8. \A k \in 0..L-1 : NodeAt(u, k) = NodeAt(t, k)
  BY <1>1, <1>6, <1>7 DEF NodeAt
<1>9. Current \in DOMAIN given.paths
  <2>1. given.paths \in Seq(Node) /\ Len(paths) \in Nat
    BY CommandAssumption DEF PathsInv
  <2> QED BY <1>1, <2>1 DEF Current
<1>10. <<Current, u>> \in Walks /\ EndOf(<<Current, u>>) = e[2]
  BY <1>1, <1>3, <1>7, <1>9 DEF Walks, EndOf
<1>11. Pending(t, u)
  BY <1>1, <1>3, <1>6 DEF Pending
<1>12. Current \in Nat
  BY <1>9, CommandAssumption
<1>13. <<Current, u>> \notin Seen(t)
  BY <1>11, <1>12 DEF Seen
<1>14. e[2] \in Node
  BY <1>3, <1>1, NodesOfTrail
<1> QED BY <1>3, <1>6, <1>8, <1>10, <1>13, <1>14 DEF u

\* A walk that follows u up to its end e, and goes on unless e is no directory.
LEMMA BeyondEntry ==
  ASSUME NEW v \in Trails, NEW u \in Trails, v.from = u.from,
         Len(u.by) <= Len(v.by), \A k \in 1..Len(u.by) : v.by[k] = u.by[k]
  PROVE  /\ Len(v.by) = Len(u.by) => v = u
         /\ Len(v.by) # Len(u.by) =>
              /\ KindOf[NodeAt(u, Len(u.by))] = "dir"
              /\ v.by[Len(u.by)+1] \in EntriesOf[NodeAt(u, Len(u.by))]
<1>1. /\ u.by \in Seq(Entries) /\ v.by \in Seq(Entries) /\ IsWalk(v)
      /\ u = [from |-> u.from, by |-> u.by] /\ v = [from |-> v.from, by |-> v.by]
  BY TrailFacts
<1>2. ASSUME Len(v.by) = Len(u.by) PROVE v = u
  <2>1. u.by = v.by
    BY <1>1, <1>2
  <2> QED BY <1>1, <2>1
<1>3. ASSUME Len(v.by) # Len(u.by)
      PROVE  /\ KindOf[NodeAt(u, Len(u.by))] = "dir"
             /\ v.by[Len(u.by)+1] \in EntriesOf[NodeAt(u, Len(u.by))]
  <2>1. Len(u.by)+1 \in DOMAIN v.by /\ Len(u.by) \in Nat
    BY <1>1, <1>3
  <2>2. NodeAt(v, Len(u.by)) = NodeAt(u, Len(u.by))
    BY <2>1 DEF NodeAt
  <2> QED BY <1>1, <2>1, <2>2 DEF IsWalk
<1> QED BY <1>2, <1>3

\* load_dir is through with the entry e, which is no directory.
LEMMA EntryPassed ==
  ASSUME PathsInv, StackInv, given \in Inputs, stack # <<>>,
         NEW t, Along(t), NEW e \in stack[Len(stack)], KindOf[e[2]] # "dir",
         stack' = Advance(e), UNCHANGED <<given, paths>>
  PROVE  LET u == [from |-> t.from, by |-> Append(t.by, e)]
         IN  Along(t)' /\ Seen(t)' = Seen(t) \cup {<<Current, u>>}
<1> DEFINE L == Len(stack)
           u == [from |-> t.from, by |-> Append(t.by, e)]
<1>1. /\ u \in Trails /\ Len(u.by) = L
      /\ u.by[L] = e /\ \A k \in 1..L-1 : u.by[k] = t.by[k]
      /\ <<Current, u>> \in Walks
  BY EntryIsNew
<1>f. u.from = t.from
  OBVIOUS
<1>2. /\ L \in Nat \ {0} /\ t \in Trails /\ Len(t.by) = L - 1
      /\ \A d \in 1..L-1 : t.by[d] \notin stack[d]
      /\ t.from = given.paths[Current]
  BY DEF StackInv, Along
<1>3. /\ Len(stack') = L /\ stack'[L] = stack[L] \ {e}
      /\ \A d \in 1..L-1 : stack'[d] = stack[d]
      /\ \A d \in 1..L : stack'[d] \subseteq stack[d]
  BY <1>2 DEF Advance, StackInv
<1>n. NodeAt(u, Len(u.by)) = e[2]
  BY <1>1, <1>2 DEF NodeAt
<1>4. Along(t)'
  BY <1>2, <1>3 DEF Along, Current
<1> HIDE DEF u
<1>5. ASSUME NEW v \in Trails, Pending(t, v)' PROVE Pending(t, v)
  BY <1>2, <1>3, <1>5 DEF Pending
<1>6. ~Pending(t, u)'
  <2> SUFFICES ASSUME NEW d \in 1..L, u.by[d] \in stack'[d] PROVE FALSE
    BY <1>3 DEF Pending
  <2>1. CASE d = L
    BY <1>1, <1>3, <2>1
  <2>2. CASE d \in 1..L-1
    BY <1>1, <1>2, <1>3, <2>2
  <2> QED BY <1>2, <2>1, <2>2
<1>7. ASSUME NEW v \in Trails, v.from = t.from, Pending(t, v), ~Pending(t, v)'
      PROVE  v = u
  <2>1. PICK d \in 1..L : /\ d <= Len(v.by) /\ \A k \in 1..d-1 : v.by[k] = t.by[k]
                          /\ v.by[d] \in stack[d]
    BY <1>7 DEF Pending
  <2>2. v.by[d] \notin stack'[d]
    BY <1>3, <1>7, <2>1 DEF Pending
  <2>3. d = L /\ v.by[L] = e
    BY <1>2, <1>3, <2>1, <2>2
  <2>4. \A k \in 1..L : v.by[k] = u.by[k]
    BY <1>1, <1>2, <2>1, <2>3
  <2>5. Len(v.by) = L
    <3>1. L <= Len(v.by) /\ v.from = u.from /\ KindOf[NodeAt(u, Len(u.by))] # "dir"
      BY <1>f, <1>n, <1>7, <2>1, <2>3
    <3> QED BY <1>1, <2>4, <3>1, BeyondEntry
  <2>6. Len(u.by) <= Len(v.by) /\ v.from = u.from
    BY <1>1, <1>f, <1>7, <2>1, <2>3
  <2> QED BY <1>1, <2>4, <2>5, <2>6, BeyondEntry
<1>8. Walks' = Walks /\ Current' = Current
  BY DEF Walks, Current
<1>9. \A x \in Walks : /\ x[2] \in Trails /\ x = <<x[1], x[2]>>
                       /\ x[1] = Current => x[2].from = t.from
  BY <1>2 DEF Walks
<1>c. Current \in Int
  <2>1. given.paths \in Seq(Node) /\ Len(paths) \in Nat
    BY CommandAssumption DEF PathsInv
  <2> QED BY <2>1 DEF Current
<1>10. Seen(t)' = Seen(t) \cup {<<Current, u>>}
  <2>1. ASSUME NEW x \in Seen(t)' PROVE x \in Seen(t) \cup {<<Current, u>>}
    BY <1>7, <1>8, <1>9, <2>1 DEF Seen
  <2>2. ASSUME NEW x \in Seen(t) PROVE x \in Seen(t)'
    BY <1>5, <1>8, <1>9, <2>2 DEF Seen
  <2>3. <<Current, u>> \in Seen(t)'
    BY <1>1, <1>6, <1>8, <1>c DEF Seen
  <2> QED BY <2>1, <2>2, <2>3
<1> QED BY <1>4, <1>10 DEF u

\* load_dir is called for the entry e, a directory.
LEMMA EntryEntered ==
  ASSUME PathsInv, StackInv, given \in Inputs, stack # <<>>,
         NEW t, Along(t), NEW e \in stack[Len(stack)], KindOf[e[2]] = "dir",
         stack' = Append(Advance(e), EntriesOf[e[2]]), UNCHANGED <<given, paths>>
  PROVE  LET u == [from |-> t.from, by |-> Append(t.by, e)]
         IN  Along(u)' /\ Seen(u)' = Seen(t) \cup {<<Current, u>>}
<1> DEFINE L == Len(stack)
           u == [from |-> t.from, by |-> Append(t.by, e)]
<1>1. /\ u \in Trails /\ Len(u.by) = L
      /\ u.by[L] = e /\ \A k \in 1..L-1 : u.by[k] = t.by[k]
      /\ <<Current, u>> \in Walks
      /\ \A k \in 0..L-1 : NodeAt(u, k) = NodeAt(t, k)
      /\ e[2] \in Node
  BY EntryIsNew
<1>f. u.from = t.from
  OBVIOUS
<1> HIDE DEF u
<1>2. /\ L \in Nat \ {0} /\ t \in Trails /\ Len(t.by) = L - 1
      /\ \A d \in 1..L-1 : t.by[d] \notin stack[d]
      /\ t.from = given.paths[Current] /\ Current >= 1
      /\ \A d \in 1..L : KindOf[NodeAt(t, d-1)] = "dir"
                         /\ stack[d] \subseteq EntriesOf[NodeAt(t, d-1)]
  BY DEF StackInv, Along
<1>3. /\ Len(stack') = L+1 /\ stack'[L] = stack[L] \ {e}
      /\ \A d \in 1..L-1 : stack'[d] = stack[d]
      /\ \A d \in 1..L : stack'[d] \subseteq stack[d]
      /\ stack'[L+1] = EntriesOf[e[2]]
  <2> DEFINE a == Advance(e)
  <2>1. /\ a \in Seq(SUBSET Entries) /\ Len(a) = L /\ a[L] = stack[L] \ {e}
        /\ \A d \in 1..L-1 : a[d] = stack[d]
    BY <1>2 DEF Advance, StackInv
  <2> HIDE DEF a
  <2>2. EntriesOf[e[2]] \in SUBSET Entries
    BY <1>1 DEF Entries
  <2>3. stack' = Append(a, EntriesOf[e[2]])
    BY DEF a
  <2>4. Len(stack') = L+1 /\ stack'[L+1] = EntriesOf[e[2]] /\ \A d \in 1..L : stack'[d] = a[d]
    BY <2>1, <2>2, <2>3
  <2>5. L \in 1..L /\ \A d \in 1..L-1 : d \in 1..L
    BY <1>2
  <2>6. \A d \in 1..L : d = L \/ d \in 1..L-1
    BY <1>2
  <2>7. stack'[L] = stack[L] \ {e} /\ \A d \in 1..L-1 : stack'[d] = stack[d]
    BY <2>1, <2>4, <2>5
  <2> QED BY <2>4, <2>6, <2>7
<1>l. L \in Nat \ {0}
  BY <1>2
<1>n. NodeAt(u, L) = e[2]
  BY <1>1, <1>2 DEF NodeAt
<1>8. Walks' = Walks /\ Current' = Current
  BY DEF Walks, Current
<1>4. Along(u)'
  <2>1. \A d \in 1..L+1 : KindOf[NodeAt(u, d-1)] = "dir"
                          /\ stack'[d] \subseteq EntriesOf[NodeAt(u, d-1)]
    <3> SUFFICES ASSUME NEW d \in 1..L+1
                 PROVE  KindOf[NodeAt(u, d-1)] = "dir"
                        /\ stack'[d] \subseteq EntriesOf[NodeAt(u, d-1)]
      OBVIOUS
    <3>1. CASE d = L+1
      BY <1>2, <1>3, <1>n, <3>1
    <3>2. CASE d \in 1..L
      <4>1. NodeAt(u, d-1) = NodeAt(t, d-1)
        BY <1>1, <1>2, <3>2
      <4> QED BY <1>2, <1>3, <3>2, <4>1
    <3>3. d = L+1 \/ d \in 1..L
      BY <1>l
    <3> QED BY <3>1, <3>2, <3>3
  <2>2. \A d \in 1..L : u.by[d] \notin stack'[d]
    <3> SUFFICES ASSUME NEW d \in 1..L, u.by[d] \in stack'[d] PROVE FALSE
      OBVIOUS
    <3>1. CASE d = L
      BY <1>1, <1>3, <3>1
    <3>2. CASE d \in 1..L-1
      BY <1>1, <1>2, <1>3, <3>2
    <3> QED BY <1>2, <3>1, <3>2
  <2>3. u.from = given'.paths[Current'] /\ Current' >= 1
    BY <1>2, <1>8, <1>f
  <2>4. Len(u.by) = Len(stack') - 1
    BY <1>1, <1>2, <1>3
  <2> QED BY <1>1, <1>3, <2>1, <2>2, <2>3, <2>4 DEF Along, NodeAt
<1>5. ASSUME NEW v \in Trails, Pending(u, v)' PROVE Pending(t, v)
  <2>1. PICK d \in 1..L+1 : /\ d <= Len(v.by) /\ \A k \in 1..d-1 : v.by[k] = u.by[k]
                            /\ v.by[d] \in stack'[d]
    BY <1>3, <1>5 DEF Pending
  <2>2. CASE d = L+1
    <3>1. L \in 1..d-1 /\ L <= Len(v.by) /\ v.by \in Seq(Entries)
      BY <1>2, <2>1, <2>2, TrailFacts
    <3>2. v.by[L] \in stack[L] /\ \A k \in 1..L-1 : v.by[k] = t.by[k]
      BY <1>1, <1>2, <2>1, <2>2, <3>1
    <3> QED BY <1>2, <3>1, <3>2 DEF Pending
  <2>3. CASE d \in 1..L
    <3>1. \A k \in 1..d-1 : v.by[k] = t.by[k]
      BY <1>1, <1>2, <2>1, <2>3
    <3>2. v.by[d] \in stack[d]
      BY <1>3, <2>1, <2>3
    <3> QED BY <2>1, <2>3, <3>1, <3>2 DEF Pending
  <2> QED BY <1>2, <2>2, <2>3
<1>6. ~Pending(u, u)'
  <2> SUFFICES ASSUME NEW d \in 1..L, u.by[d] \in stack'[d] PROVE FALSE
    BY <1>1, <1>2, <1>3 DEF Pending
  <2>1. CASE d = L
    BY <1>1, <1>3, <2>1
  <2>2. CASE d \in 1..L-1
    BY <1>1, <1>2, <1>3, <2>2
  <2> QED BY <1>2, <2>1, <2>2
<1>7. ASSUME NEW v \in Trails, v.from = t.from, Pending(t, v), ~Pending(u, v)'
      PROVE  v = u
  <2>1. PICK d \in 1..L : /\ d <= Len(v.by) /\ \A k \in 1..d-1 : v.by[k] = t.by[k]
                          /\ v.by[d] \in stack[d]
    BY <1>7 DEF Pending
  <2>2. v.by[d] \notin stack'[d]
    <3>1. \A k \in 1..d-1 : v.by[k] = u.by[k]
      BY <1>1, <1>2, <2>1
    <3>2. d \in 1..Len(stack')
      BY <1>2, <1>3
    <3> QED BY <1>7, <2>1, <3>1, <3>2 DEF Pending
  <2>3. d = L /\ v.by[L] = e
    <3>1. CASE d = L
      BY <1>3, <2>1, <2>2, <3>1
    <3>2. CASE d \in 1..L-1
      BY <1>3, <2>1, <2>2, <3>2
    <3> QED BY <1>l, <3>1, <3>2
  <2>4. \A k \in 1..L : v.by[k] = u.by[k]
    BY <1>1, <1>2, <2>1, <2>3
  <2>5. Len(u.by) <= Len(v.by) /\ v.from = u.from
    BY <1>1, <1>f, <1>7, <2>1, <2>3
  <2>6. Len(v.by) = L
    <3> SUFFICES ASSUME Len(v.by) # L PROVE FALSE
      OBVIOUS
    <3>1. v.by[L+1] \in EntriesOf[NodeAt(u, L)]
      BY <1>1, <2>4, <2>5, BeyondEntry
    <3>2. v.by \in Seq(Entries)
      BY TrailFacts
    <3>3. L+1 \in 1..Len(stack') /\ L+1 <= Len(v.by)
      BY <1>1, <1>2, <1>3, <2>5, <3>2
    <3>4. v.by[L+1] \in stack'[L+1]
      BY <1>3, <1>n, <3>1
    <3>5. \A k \in 1..(L+1)-1 : v.by[k] = u.by[k]
      BY <1>2, <2>4
    <3> QED BY <1>7, <3>3, <3>4, <3>5 DEF Pending
  <2> QED BY <1>1, <2>4, <2>5, <2>6, BeyondEntry
<1>9. \A x \in Walks : /\ x[2] \in Trails /\ x = <<x[1], x[2]>>
                       /\ x[1] = Current => x[2].from = t.from
  BY <1>2 DEF Walks
<1>c. Current \in Int
  <2>1. given.paths \in Seq(Node) /\ Len(paths) \in Nat
    BY CommandAssumption DEF PathsInv
  <2> QED BY <2>1 DEF Current
<1>10. Seen(u)' = Seen(t) \cup {<<Current, u>>}
  <2>1. ASSUME NEW x \in Seen(u)' PROVE x \in Seen(t) \cup {<<Current, u>>}
    BY <1>7, <1>8, <1>9, <2>1 DEF Seen
  <2>2. ASSUME NEW x \in Seen(t) PROVE x \in Seen(u)'
    BY <1>5, <1>8, <1>9, <2>2 DEF Seen
  <2>3. <<Current, u>> \in Seen(u)'
    BY <1>1, <1>6, <1>8, <1>c DEF Seen
  <2> QED BY <2>1, <2>2, <2>3
<1> QED BY <1>4, <1>10 DEF u

\* load_dir returns.
LEMMA DirLeft ==
  ASSUME StackInv, stack # <<>>, Last(stack) = {}, NEW t, Along(t),
         stack' = Front(stack), UNCHANGED <<given, paths>>
  PROVE  \E u : Along(u)' /\ Seen(u)' = Seen(t)
<1> DEFINE L == Len(stack)
           u == [from |-> t.from, by |-> SubSeq(t.by, 1, Len(t.by)-1)]
<1>1. /\ L \in Nat \ {0} /\ t \in Trails /\ Len(t.by) = L - 1 /\ stack[L] = {}
      /\ t.by \in Seq(Entries) /\ t.from \in Node
  BY TrailFacts DEF StackInv, Along, Last
<1>l. L \in Nat \ {0}
  BY <1>1
<1>s. Len(stack') = L-1 /\ \A d \in 1..L-1 : stack'[d] = stack[d]
  <2>1. stack' = SubSeq(stack, 1, L-1) /\ 1 \in Int /\ L-1 \in Int
    BY <1>l DEF Front
  <2>2. \A i \in 1..L-1 : stack[i] \in SUBSET Entries
    BY <1>l DEF StackInv
  <2> HIDE DEF L
  <2>3. Len(SubSeq(stack, 1, L-1)) = L-1
        /\ \A i \in 1..(L-1)-1+1 : SubSeq(stack, 1, L-1)[i] = stack[1+i-1]
    BY <1>l, <2>1, <2>2, SubSeqProperties
  <2> QED BY <1>l, <2>1, <2>3
<1>0. Len(t.by)-1 = L-2
  BY <1>1
<1>2. u.from = t.from /\ \A k \in 1..L-2 : u.by[k] = t.by[k]
  BY <1>1
<1>3. \A k \in 0..L-2 : NodeAt(u, k) = NodeAt(t, k)
  BY <1>1, <1>2 DEF NodeAt
<1>4. ASSUME L >= 2 PROVE u \in Trails /\ Len(u.by) = L - 2
  <2>0. 1 \in Int /\ L-2 \in Int /\ \A i \in 1..L-2 : t.by[i] \in Entries
    BY <1>1, <1>4
  <2>1. u.by \in Seq(Entries) /\ Len(u.by) = L - 2 /\ DOMAIN u.by = 1..L-2
    <3> HIDE DEF L
    <3>1. SubSeq(t.by, 1, L-2) \in Seq(Entries)
          /\ Len(SubSeq(t.by, 1, L-2)) = IF 1 <= L-2 THEN (L-2)-1+1 ELSE 0
      BY <2>0, SubSeqProperties
    <3> QED BY <1>0, <1>1, <1>4, <3>1
  <2>2. Len(u.by) <= MaxDepth
    BY <1>1, <2>1, TrailFacts, CommandAssumption
  <2>3. IsWalk(u)
    <3> SUFFICES ASSUME NEW k \in 1..L-2
                 PROVE  KindOf[NodeAt(u, k-1)] = "dir" /\ u.by[k] \in EntriesOf[NodeAt(u, k-1)]
      BY <2>1 DEF IsWalk
    <3>1. NodeAt(u, k-1) = NodeAt(t, k-1) /\ u.by[k] = t.by[k] /\ k \in DOMAIN t.by
      <4>1. k-1 \in 0..L-2 /\ k \in 1..L-1 /\ DOMAIN t.by = 1..L-1
        BY <1>1
      <4> QED BY <1>2, <1>3, <4>1
    <3>2. KindOf[NodeAt(t, k-1)] = "dir" /\ t.by[k] \in EntriesOf[NodeAt(t, k-1)]
      <4>1. IsWalk(t)
        BY <1>1, TrailFacts
      <4> QED BY <3>1, <4>1 DEF IsWalk
    <3> QED BY <3>1, <3>2
  <2> QED BY <1>1, <2>1, <2>2, <2>3, TrailMade
<1> HIDE DEF u
<1>8. Walks' = Walks /\ Current' = Current
  BY DEF Walks, Current
<1>5. Along(u)'
  <2> SUFFICES ASSUME stack' # <<>> PROVE Along(u)'
    BY DEF Along
  <2>1. L >= 2
    BY <1>l, <1>s
  <2>2. \A d \in 1..L-1 : KindOf[NodeAt(u, d-1)] = "dir"
                          /\ stack'[d] \subseteq EntriesOf[NodeAt(u, d-1)]
    <3> SUFFICES ASSUME NEW d \in 1..L-1
                 PROVE  KindOf[NodeAt(u, d-1)] = "dir"
                        /\ stack'[d] \subseteq EntriesOf[NodeAt(u, d-1)]
      OBVIOUS
    <3>1. NodeAt(u, d-1) = NodeAt(t, d-1)
      BY <1>1, <1>3
    <3>2. d \in 1..Len(stack)
      BY <1>l
    <3>3. KindOf[NodeAt(t, d-1)] = "dir" /\ stack[d] \subseteq EntriesOf[NodeAt(t, d-1)]
      BY <3>2 DEF Along
    <3>4. stack'[d] = stack[d]
      BY <1>s
    <3> QED BY <3>1, <3>3, <3>4, Zenon
  <2>3. \A d \in 1..L-2 : u.by[d] \notin stack'[d]
    BY <1>1, <1>s, <1>2 DEF Along
  <2>4. u.from = given'.paths[Current'] /\ Current' >= 1
    BY <1>2, <1>8 DEF Along
  <2>5. u \in Trails /\ Len(u.by) = Len(stack') - 1 /\ Len(stack') = L-1 /\ Len(u.by) = L-2
    BY <1>l, <1>s, <1>4, <2>1
  <2> HIDE DEF L
  <2> QED BY <2>2, <2>3, <2>4, <2>5 DEF Along, NodeAt
<1>6. ASSUME NEW v PROVE Pending(u, v)' <=> Pending(t, v)
  <2>1. ASSUME NEW d \in 1..L, v.by[d] \in stack[d] PROVE d \in 1..L-1
    BY <1>1, <2>1
  <2>2. \A d \in 1..L-1 : \A k \in 1..d-1 : u.by[k] = t.by[k]
    BY <1>1, <1>2
  <2>3. Len(stack') = L-1 /\ \A d \in 1..L-1 : d \in 1..L /\ stack'[d] = stack[d]
    BY <1>l, <1>s
  <2>4. ASSUME Pending(u, v)' PROVE Pending(t, v)
    <3>1. PICK d \in 1..L-1 : /\ d <= Len(v.by) /\ \A k \in 1..d-1 : v.by[k] = u.by[k]
                              /\ v.by[d] \in stack'[d]
      BY <2>3, <2>4 DEF Pending
    <3> QED BY <2>2, <2>3, <3>1 DEF Pending
  <2>5. ASSUME Pending(t, v) PROVE Pending(u, v)'
    <3>1. PICK d \in 1..L : /\ d <= Len(v.by) /\ \A k \in 1..d-1 : v.by[k] = t.by[k]
                            /\ v.by[d] \in stack[d]
      BY <2>5 DEF Pending
    <3>2. d \in 1..L-1
      BY <2>1, <3>1
    <3> QED BY <2>2, <2>3, <3>1, <3>2 DEF Pending
  <2> QED BY <2>4, <2>5
<1>7. Seen(u)' = Seen(t)
  BY <1>6, <1>8 DEF Seen
<1> QED BY <1>5, <1>7

\* The next path begins a walk that was not seen.
LEMMA PathIsNew ==
  ASSUME PathsInv, given \in Inputs, stack = <<>>, paths # <<>>,
         NEW n, n = Head(paths), NEW t
  PROVE  LET u == [from |-> n, by |-> <<>>]
         IN  /\ Current \in Nat /\ n \in Node /\ u \in Trails
             /\ Current + 1 \in DOMAIN given.paths /\ given.paths[Current+1] = n
             /\ <<Current + 1, u>> \in Walks /\ EndOf(<<Current + 1, u>>) = n
             /\ <<Current + 1, u>> \notin Seen(t)
<1> DEFINE u == [from |-> n, by |-> <<>>]
<1>1. /\ given.paths \in Seq(Node) /\ paths \in Seq(Node)
      /\ Len(paths) \in Nat \ {0} /\ Len(given.paths) \in Nat
      /\ Len(paths) <= Len(given.paths)
  BY CommandAssumption DEF PathsInv
<1>2. n = paths[1] /\ n \in Node
  BY <1>1
<1>3. Current \in Nat /\ Current + 1 \in DOMAIN given.paths /\ given.paths[Current+1] = n
  BY <1>1, <1>2 DEF Current, PathsInv
<1>4. u \in Trails
  <2>1. <<>> \in Seq(Entries) /\ Len(<<>>) <= MaxDepth /\ DOMAIN <<>> = {}
    BY CommandAssumption
  <2>2. IsWalk([from |-> n, by |-> <<>>])
    BY <2>1 DEF IsWalk
  <2> QED BY <1>2, <2>1, <2>2, TrailMade
<1>5. u.from = n /\ NodeAt(u, Len(u.by)) = n
  BY DEF NodeAt
<1> HIDE DEF u
<1>6. <<Current + 1, u>> \in Walks /\ EndOf(<<Current + 1, u>>) = n
  BY <1>3, <1>4, <1>5 DEF Walks, EndOf
<1>7. <<Current + 1, u>> \notin Seen(t)
  BY <1>3 DEF Seen
<1> QED BY <1>2, <1>3, <1>4, <1>6, <1>7 DEF u

\* The paths after it are left.
LEMMA PathsMove ==
  ASSUME PathsInv, given \in Inputs, paths # <<>>, paths' = Tail(paths), UNCHANGED given
  PROVE  PathsInv' /\ Current' = Current + 1
<1>1. /\ given.paths \in Seq(Node) /\ paths \in Seq(Node)
      /\ Len(paths) \in Nat \ {0} /\ Len(given.paths) \in Nat
      /\ Len(paths) <= Len(given.paths)
  BY CommandAssumption DEF PathsInv
<1>2. /\ paths' \in Seq(Node) /\ Len(paths') = Len(paths) - 1
      /\ \A k \in 1..Len(paths)-1 : paths'[k] = paths[k+1]
  BY <1>1
<1>3. Current' = Current + 1 /\ Current \in Nat
  BY <1>1, <1>2 DEF Current
<1>4. \A k \in 1..Len(paths') : paths'[k] = given.paths[Current + (k+1)]
  BY <1>1, <1>2 DEF PathsInv
<1>5. \A k \in 1..Len(paths') : Current + (k+1) = Current' + k
  BY <1>2, <1>3
<1> QED BY <1>1, <1>2, <1>3, <1>4, <1>5 DEF PathsInv

\* Where the search goes on with the next path.
LEMMA PathSeen ==
  ASSUME PathsInv, given \in Inputs, stack = <<>>, paths # <<>>,
         NEW n, n = Head(paths), NEW t, paths' = Tail(paths), UNCHANGED given,
         NEW u, u = [from |-> n, by |-> <<>>],
         \/ stack' = <<>> /\ KindOf[n] # "dir"
         \/ stack' = <<EntriesOf[n]>> /\ KindOf[n] = "dir"
  PROVE  Along(u)' /\ Seen(u)' = Seen(t) \cup {<<Current + 1, u>>}
<1>1. /\ Current \in Nat /\ n \in Node /\ u \in Trails
      /\ given.paths[Current+1] = n
      /\ <<Current + 1, u>> \in Walks
  BY PathIsNew
<1>2. Current' = Current + 1 /\ Walks' = Walks
  BY PathsMove DEF Walks
<1>3. u.from = n /\ u.by = <<>> /\ Len(u.by) = 0
  OBVIOUS
<1>4. NodeAt(u, 0) = n
  BY <1>3 DEF NodeAt
<1>5. CASE stack' = <<>> /\ KindOf[n] # "dir"
  <2>1. Along(u)' /\ \A v : ~Pending(u, v)'
    BY <1>5 DEF Along, Pending
  <2>2. ASSUME NEW v \in Trails, v.from = n PROVE v = u
    <3>1. 0 <= Len(v.by) /\ \A k \in 1..0 : v.by[k] = u.by[k]
      BY TrailFacts
    <3> QED BY <1>1, <1>3, <1>4, <1>5, <2>2, <3>1, BeyondEntry
  <2>3. \A x \in Walks : /\ x[2] \in Trails /\ x = <<x[1], x[2]>> /\ x[1] \in Int
                         /\ x[1] = Current + 1 => x[2].from = n
    BY <1>1, CommandAssumption DEF Walks
  <2>4. \A v : ~Pending(t, v)
    BY DEF Pending
  <2>5. \A x \in Walks : x \in Seen(u)' <=> x[1] < Current + 1 \/ x[1] = Current + 1
    BY <1>2, <2>1 DEF Seen
  <2>6. \A x \in Walks : x \in Seen(t) <=> x[1] < Current \/ x[1] = Current
    BY <2>4 DEF Seen
  <2>7. \A x \in Walks : x[1] < Current + 1 <=> x[1] < Current \/ x[1] = Current
    BY <1>1, <2>3
  <2>8. \A x \in Walks : x[1] = Current + 1 <=> x = <<Current + 1, u>>
    BY <2>2, <2>3
  <2>9. Seen(u)' \subseteq Walks /\ Seen(t) \subseteq Walks
    BY <1>2 DEF Seen
  <2> QED BY <1>1, <2>1, <2>5, <2>6, <2>7, <2>8, <2>9
<1>6. CASE stack' = <<EntriesOf[n]>> /\ KindOf[n] = "dir"
  <2>0. Len(stack') = 1 /\ stack'[1] = EntriesOf[n]
    BY <1>6
  <2>1. Along(u)'
    BY <1>1, <1>2, <1>3, <1>4, <1>6, <2>0 DEF Along, NodeAt
  <2>2. ASSUME NEW v \in Trails, v.from = n PROVE v = u <=> ~Pending(u, v)'
    <3>1. 0 <= Len(v.by) /\ (\A k \in 1..0 : v.by[k] = u.by[k]) /\ Len(v.by) \in Nat
      BY TrailFacts
    <3>2. /\ Len(v.by) = 0 => v = u
          /\ Len(v.by) # 0 => v.by[1] \in EntriesOf[n]
      BY <1>1, <1>3, <1>4, <2>2, <3>1, BeyondEntry
    <3>3. Pending(u, v)' <=> 1 <= Len(v.by) /\ v.by[1] \in EntriesOf[n]
      BY <2>0 DEF Pending
    <3> QED BY <1>3, <3>1, <3>2, <3>3
  <2>3. \A x \in Walks : /\ x[2] \in Trails /\ x = <<x[1], x[2]>> /\ x[1] \in Int
                         /\ x[1] = Current + 1 => x[2].from = n
    BY <1>1, CommandAssumption DEF Walks
  <2>4. \A v : ~Pending(t, v)
    BY DEF Pending
  <2>5. \A x \in Walks : x \in Seen(u)' <=>
                            \/ x[1] < Current + 1
                            \/ x[1] = Current + 1 /\ ~Pending(u, x[2])'
    BY <1>2 DEF Seen
  <2>6. \A x \in Walks : x \in Seen(t) <=> x[1] < Current \/ x[1] = Current
    BY <2>4 DEF Seen
  <2>7. \A x \in Walks : x[1] < Current + 1 <=> x[1] < Current \/ x[1] = Current
    BY <1>1, <2>3
  <2>8. \A x \in Walks : x[1] = Current + 1 /\ ~Pending(u, x[2])'
                           <=> x = <<Current + 1, u>>
    BY <1>3, <2>2, <2>3
  <2>9. Seen(u)' \subseteq Walks /\ Seen(t) \subseteq Walks
    BY <1>2 DEF Seen
  <2> QED BY <1>1, <2>1, <2>5, <2>6, <2>7, <2>8, <2>9
<1> QED BY <1>5, <1>6

\* A step of the search goes on, or has found a reason to fail.
Searched ==
  /\ files' \in Seq(Node)
  /\ \/ pc' = "load" /\ SearchInv'
     \/ pc' = "exit" /\ ~Loadable

\* A node that the search comes to is a file, is entered, or is refused.
LEMMA NodeTaken ==
  ASSUME files \in Seq(Node), NEW W, W \subseteq Walks, Exact(W, files), pc = "load",
         NEW x \in Walks, x \notin W, EndOf(x) \in Node
  PROVE  /\ KindOf[EndOf(x)] # "dir" /\ LoadFile(EndOf(x)) =>
              /\ files' \in Seq(Node)
              /\ \/ pc' = "load" /\ Exact(W \cup {x}, files')
                 \/ pc' = "exit" /\ ~Loadable
         /\ KindOf[EndOf(x)] = "dir" /\ ~(Len(x[2].by) < MaxDepth) => ~Loadable
         /\ KindOf[EndOf(x)] = "dir" /\ Len(x[2].by) < MaxDepth => Exact(W \cup {x}, files)
<1>1. ASSUME KindOf[EndOf(x)] # "dir", LoadFile(EndOf(x))
      PROVE  /\ files' \in Seq(Node)
             /\ \/ pc' = "load" /\ Exact(W \cup {x}, files')
                \/ pc' = "exit" /\ ~Loadable
  <2>1. CASE KindOf[EndOf(x)] = "file" /\ ~Contains(files, EndOf(x))
    <3>1. files' = Append(files, EndOf(x)) /\ pc' = "load"
      BY <1>1, <2>1 DEF LoadFile
    <3>2. files' \in Seq(Node)
      BY <3>1
    <3> QED BY <2>1, <3>1, <3>2, FileSeen
  <2>2. CASE ~(KindOf[EndOf(x)] = "file" /\ ~Contains(files, EndOf(x)))
    <3>1. UNCHANGED files /\ pc' = "exit"
      BY <1>1, <2>2 DEF LoadFile, Exit
    <3>2. ~Loadable
      BY <1>1, <2>2, Refused
    <3> QED BY <3>1, <3>2
  <2> QED BY <2>1, <2>2
<1> QED BY <1>1, Refused, DirSeen

\* load_files comes to the next path.
LEMMA NextPathSearches ==
  ASSUME SearchInv, OptionsInv, files \in Seq(Node), NextPath
  PROVE  Searched
<1>1. given \in Inputs /\ PathsInv /\ StackInv
  BY DEF OptionsInv, SearchInv
<1>2. PICK t : Along(t) /\ Exact(Seen(t), files)
  BY DEF SearchInv
<1>3. PICK n : n = Head(paths)
  OBVIOUS
<1>4. PICK u : u = [from |-> n, by |-> <<>>]
  OBVIOUS
<1>5. /\ pc = "load" /\ stack = <<>> /\ paths # <<>> /\ paths' = Tail(paths)
      /\ UNCHANGED given
      /\ IF KindOf[n] = "dir" THEN EnterDir(stack, n) ELSE LoadFile(n) /\ UNCHANGED stack
  BY <1>3 DEF NextPath
<1> DEFINE x == <<Current + 1, u>>
           W == Seen(t)
<1>6. x \in Walks /\ EndOf(x) = n /\ x \notin W /\ n \in Node
  BY <1>1, <1>3, <1>4, <1>5, PathIsNew
<1>7. x[2] = u /\ Len(u.by) = 0
  BY <1>4
<1>8. W \subseteq Walks
  BY DEF Seen
<1> HIDE DEF x, W
<1>w. W = Seen(t) /\ x = <<Current + 1, u>>
  BY DEF W, x
<1>9. CASE KindOf[n] # "dir"
  <2>1. LoadFile(n) /\ UNCHANGED stack
    BY <1>5, <1>9
  <2>2. Along(u)' /\ Seen(u)' = W \cup {x}
    BY <1>1, <1>3, <1>4, <1>5, <1>9, <2>1, <1>w, PathSeen
  <2>3. /\ files' \in Seq(Node)
        /\ \/ pc' = "load" /\ Exact(W \cup {x}, files')
           \/ pc' = "exit" /\ ~Loadable
    BY <1>2, <1>5, <1>6, <1>8, <1>9, <1>w, <2>1, NodeTaken
  <2>4. PathsInv' /\ StackInv'
    BY <1>1, <1>5, <2>1, PathsMove DEF StackInv
  <2>5. ASSUME Exact(W \cup {x}, files') PROVE Exact(Seen(u), files)'
    BY <1>5, <2>2, <2>5 DEF Exact, FileWalks, Walks
  <2>6. Exact(W \cup {x}, files') => SearchInv'
    BY <2>2, <2>4, <2>5 DEF SearchInv
  <2> QED BY <2>3, <2>6 DEF Searched
<1>10. CASE KindOf[n] = "dir"
  <2>1. CASE TooDeep(Len(stack) + 1) /\ Throw
    <3>1. MaxDepth < 1
      BY <1>5, <2>1 DEF TooDeep
    <3> QED BY <3>1, CommandAssumption
  <2>2. CASE /\ ~TooDeep(Len(stack) + 1)
             /\ stack' = Append(stack, EntriesOf[n])
             /\ UNCHANGED <<pc, status, files>>
    <3>1. stack' = <<EntriesOf[n]>>
      BY <1>5, <2>2
    <3>2. Along(u)' /\ Seen(u)' = W \cup {x}
      BY <1>1, <1>3, <1>4, <1>5, <1>10, <3>1, <1>w, PathSeen
    <3>3. Len(x[2].by) < MaxDepth
      BY <1>7, CommandAssumption
    <3>4. Exact(W \cup {x}, files)
      BY <1>2, <1>5, <1>6, <1>8, <1>10, <1>w, <3>3, NodeTaken
    <3>5. PathsInv' /\ StackInv'
      <4>1. EntriesOf[n] \in SUBSET Entries
        BY <1>6 DEF Entries
      <4>2. Len(stack') = 1 /\ stack' \in Seq(SUBSET Entries) /\ 1 <= MaxDepth
        BY <3>1, <4>1, CommandAssumption
      <4> QED BY <1>1, <1>5, <4>2, PathsMove DEF StackInv
    <3>6. Exact(Seen(u), files)'
      BY <1>5, <2>2, <3>2, <3>4 DEF Exact, FileWalks, Walks
    <3>7. SearchInv'
      BY <3>2, <3>5, <3>6 DEF SearchInv
    <3> QED BY <1>5, <2>2, <3>7 DEF Searched
  <2> QED BY <1>5, <1>10, <2>1, <2>2 DEF EnterDir
<1> QED BY <1>9, <1>10

\* load_dir comes to the next entry.
LEMMA NextEntrySearches ==
  ASSUME SearchInv, OptionsInv, files \in Seq(Node), NextEntry
  PROVE  Searched
<1>1. given \in Inputs /\ PathsInv /\ StackInv
  BY DEF OptionsInv, SearchInv
<1>2. PICK t : Along(t) /\ Exact(Seen(t), files)
  BY DEF SearchInv
<1>3. /\ pc = "load" /\ stack # <<>> /\ UNCHANGED <<paths, given>>
      /\ Len(stack) \in Nat \ {0}
  BY <1>1 DEF NextEntry, StackInv
<1>4. PICK e \in stack[Len(stack)] :
        IF KindOf[e[2]] = "dir" THEN EnterDir(Advance(e), e[2])
        ELSE LoadFile(e[2]) /\ stack' = Advance(e)
  BY DEF NextEntry, Last
<1> DEFINE v == [from |-> t.from, by |-> Append(t.by, e)]
<1>5. /\ Len(v.by) = Len(stack)
      /\ <<Current, v>> \in Walks /\ EndOf(<<Current, v>>) = e[2]
      /\ <<Current, v>> \notin Seen(t) /\ e[2] \in Node
  BY <1>1, <1>2, <1>3, <1>4, EntryIsNew
<1>a. /\ KindOf[e[2]] # "dir" /\ stack' = Advance(e)
           => Along(t)' /\ Seen(t)' = Seen(t) \cup {<<Current, v>>}
      /\ KindOf[e[2]] = "dir" /\ stack' = Append(Advance(e), EntriesOf[e[2]])
           => Along(v)' /\ Seen(v)' = Seen(t) \cup {<<Current, v>>}
  BY <1>1, <1>2, <1>3, <1>4, EntryPassed, EntryEntered
<1> HIDE DEF v
<1> DEFINE x == <<Current, v>>
           W == Seen(t)
<1>7. x[2] = v
  OBVIOUS
<1>8. W \subseteq Walks
  BY DEF Seen
<1>6. x \in Walks /\ EndOf(x) = e[2] /\ x \notin W
  BY <1>5
<1>b. /\ KindOf[e[2]] # "dir" /\ stack' = Advance(e)
           => Along(t)' /\ Seen(t)' = W \cup {x}
      /\ KindOf[e[2]] = "dir" /\ stack' = Append(Advance(e), EntriesOf[e[2]])
           => Along(v)' /\ Seen(v)' = W \cup {x}
  BY <1>a
<1>c. Exact(W, files)
  BY <1>2
<1>d. PathsInv'
  BY <1>1, <1>3 DEF PathsInv, Current
<1>e. Advance(e) \in Seq(SUBSET Entries) /\ Len(Advance(e)) = Len(stack)
  BY <1>1, <1>3 DEF Advance, StackInv
<1> HIDE DEF x, W
<1>9. CASE KindOf[e[2]] # "dir"
  <2>1. LoadFile(e[2]) /\ stack' = Advance(e)
    BY <1>4, <1>9
  <2>2. Along(t)' /\ Seen(t)' = W \cup {x}
    BY <1>9, <1>b, <2>1
  <2>3. /\ files' \in Seq(Node)
        /\ \/ pc' = "load" /\ Exact(W \cup {x}, files')
           \/ pc' = "exit" /\ ~Loadable
    BY <1>c, <1>3, <1>5, <1>6, <1>8, <1>9, <2>1, NodeTaken
  <2>4. StackInv'
    BY <1>1, <1>e, <2>1 DEF StackInv
  <2>5. ASSUME Exact(W \cup {x}, files') PROVE Exact(Seen(t), files)'
    BY <1>3, <2>2, <2>5 DEF Exact, FileWalks, Walks
  <2>6. Exact(W \cup {x}, files') => SearchInv'
    BY <1>d, <2>2, <2>4, <2>5 DEF SearchInv
  <2> QED BY <2>3, <2>6 DEF Searched
<1>10. CASE KindOf[e[2]] = "dir"
  <2>1. CASE TooDeep(Len(Advance(e)) + 1) /\ Throw
    <3>1. ~(Len(x[2].by) < MaxDepth)
      <4>1. Len(stack) + 1 > MaxDepth
        BY <1>e, <2>1 DEF TooDeep
      <4> QED BY <1>3, <1>5, <1>7, <4>1, CommandAssumption DEF x
    <3>2. ~Loadable
      BY <1>c, <1>3, <1>5, <1>6, <1>8, <1>10, <3>1, NodeTaken
    <3> QED BY <2>1, <3>2 DEF Searched, Throw, Exit
  <2>2. CASE /\ ~TooDeep(Len(Advance(e)) + 1)
             /\ stack' = Append(Advance(e), EntriesOf[e[2]])
             /\ UNCHANGED <<pc, status, files>>
    <3>1. Len(stack) < MaxDepth
      BY <1>3, <1>e, <2>2, CommandAssumption DEF TooDeep
    <3>2. Along(v)' /\ Seen(v)' = W \cup {x}
      BY <1>10, <1>b, <2>2
    <3>3. Len(x[2].by) < MaxDepth
      BY <1>5, <1>7, <3>1 DEF x
    <3>4. Exact(W \cup {x}, files)
      BY <1>c, <1>3, <1>5, <1>6, <1>8, <1>10, <3>3, NodeTaken
    <3>5. StackInv'
      <4>1. EntriesOf[e[2]] \in SUBSET Entries
        BY <1>5 DEF Entries
      <4>2. Len(stack') = Len(stack) + 1 /\ stack' \in Seq(SUBSET Entries)
        BY <1>e, <2>2, <4>1
      <4> QED BY <1>3, <3>1, <4>2, CommandAssumption DEF StackInv
    <3>6. Exact(Seen(v), files)'
      BY <1>3, <2>2, <3>2, <3>4 DEF Exact, FileWalks, Walks
    <3>7. SearchInv'
      BY <1>d, <3>2, <3>5, <3>6 DEF SearchInv
    <3> QED BY <1>3, <2>2, <3>7 DEF Searched
  <2> QED BY <1>4, <1>10, <2>1, <2>2 DEF EnterDir
<1> QED BY <1>9, <1>10

\* The innermost call of load_dir returns.
LEMMA LeaveDirSearches ==
  ASSUME SearchInv, LeaveDir
  PROVE  SearchInv'
<1>1. PICK t : Along(t) /\ Exact(Seen(t), files)
  BY DEF SearchInv
<1>2. PathsInv /\ StackInv
  BY DEF SearchInv
<1>3. /\ stack # <<>> /\ Last(stack) = {} /\ stack' = Front(stack)
      /\ UNCHANGED <<given, paths, files>>
  BY DEF LeaveDir
<1>4. PICK u : Along(u)' /\ Seen(u)' = Seen(t)
  BY <1>1, <1>2, <1>3, DirLeft
<1>5. Exact(Seen(u), files)'
  BY <1>1, <1>3, <1>4 DEF Exact, FileWalks, Walks
<1>6. PathsInv'
  BY <1>2, <1>3 DEF PathsInv, Current
<1>7. StackInv'
  <2>1. Len(stack) \in Nat \ {0} /\ \A i \in 1..Len(stack)-1 : stack[i] \in SUBSET Entries
    BY <1>2, <1>3 DEF StackInv
  <2>2. PICK q : q = SubSeq(stack, 1, Len(stack)-1)
    OBVIOUS
  <2>3. q \in Seq(SUBSET Entries) /\ Len(q) = IF 1 <= Len(stack)-1 THEN (Len(stack)-1)-1+1 ELSE 0
    BY <2>1, <2>2, SubSeqProperties
  <2>4. stack' = q
    BY <1>3, <2>2 DEF Front
  <2>5. Len(q) = Len(stack) - 1
    <3>1. ASSUME NEW m \in Nat \ {0}
          PROVE  (IF 1 <= m-1 THEN (m-1)-1+1 ELSE 0) = m - 1
      OBVIOUS
    <3> QED BY <2>1, <2>3, <3>1
  <2> QED BY <1>2, <2>1, <2>3, <2>4, <2>5, CommandAssumption DEF StackInv
<1> QED BY <1>4, <1>5, <1>6, <1>7 DEF SearchInv

\* When the search ends it is through with all walks.
LEMMA SearchEnds ==
  ASSUME SearchInv, OptionsInv, stack = <<>>, paths = <<>>
  PROVE  Exact(Walks, files)
<1>1. PICK t : Exact(Seen(t), files)
  BY DEF SearchInv
<1>2. given.paths \in Seq(Node) /\ Len(given.paths) \in Nat /\ Current = Len(given.paths)
  BY CommandAssumption DEF OptionsInv, Current
<1>3. \A v : ~Pending(t, v)
  BY DEF Pending
<1>4. \A x \in Walks : x[1] < Current \/ x[1] = Current
  BY <1>2 DEF Walks
<1>5. Seen(t) = Walks
  BY <1>3, <1>4 DEF Seen
<1> QED BY <1>1, <1>5

-----------------------------------------------------------------------------
(* The targets                                                             *)

\* What the constants say of an option.
LEMMA OptionFacts ==
  ASSUME OptionsInv, NEW i \in 1..Len(given.opts)
  PROVE  /\ given.opts \in Seq(ToSet(given.opts)) /\ Len(given.opts) \in Nat
         /\ given.opts[i].opt \in Option
         /\ given.opts[i].opt = "t" => given.opts[i].arg \in Text
         /\ given.opts[i].opt = "list" =>
              given.opts[i].arg = NoFile \/ given.opts[i].arg \in Seq(Text)
         /\ given.opts[i].opt = "check" => given.opts[i].arg \in BOOLEAN
<1>1. given \in Inputs /\ given.opts \in Seq(ToSet(given.opts))
  BY CommandAssumption DEF OptionsInv
<1>2. given.opts[i] \in ToSet(given.opts)
  BY <1>1
<1> QED BY <1>1, <1>2, CommandAssumption

\* Its texts are texts.
LEMMA TextsFacts ==
  ASSUME OptionsInv, NEW i \in 1..Len(given.opts)
  PROVE  /\ Texts(given.opts[i]) \in Seq(Text)
         /\ Len(Texts(given.opts[i])) \in Nat
         /\ DOMAIN Texts(given.opts[i]) = 1..Len(Texts(given.opts[i]))
<1>1. Texts(given.opts[i]) \in Seq(Text)
  <2>1. CASE given.opts[i].opt = "t"
    <3>1. given.opts[i].arg \in Text /\ Texts(given.opts[i]) = <<given.opts[i].arg>>
      BY <2>1, OptionFacts DEF Texts
    <3> QED BY <3>1
  <2>2. CASE given.opts[i].opt = "list" /\ given.opts[i].arg # NoFile
    BY <2>2, OptionFacts DEF Texts
  <2>3. CASE given.opts[i].opt # "t" /\ ~(given.opts[i].opt = "list" /\ given.opts[i].arg # NoFile)
    BY <2>3 DEF Texts
  <2> QED BY <2>1, <2>2, <2>3
<1> QED BY <1>1

\* Where a target may be named.
LEMMA NamedFacts ==
  ASSUME OptionsInv, NEW x \in Named
  PROVE  /\ x = <<x[1], x[2]>> /\ x[1] \in 1..Len(given.opts)
         /\ x[2] \in 1..Len(Texts(given.opts[x[1]]))
         /\ TextAt(x) \in Text
<1>1. given.opts \in Seq(ToSet(given.opts))
  BY CommandAssumption DEF OptionsInv
<1>2. PICK i \in DOMAIN given.opts : x \in {i} \X DOMAIN Texts(given.opts[i])
  BY DEF Named
<1>3. i \in 1..Len(given.opts)
  BY <1>1
<1>4. x = <<x[1], x[2]>> /\ x[1] = i /\ x[2] \in DOMAIN Texts(given.opts[i])
  BY <1>2
<1>5. /\ Texts(given.opts[i]) \in Seq(Text)
      /\ x[2] \in 1..Len(Texts(given.opts[i]))
  BY <1>3, <1>4, TextsFacts
<1>6. Texts(given.opts[i])[x[2]] \in Text
  BY <1>5
<1> QED BY <1>3, <1>4, <1>5, <1>6 DEF TextAt

LEMMA NamedMade ==
  ASSUME OptionsInv, NEW i \in 1..Len(given.opts), NEW k \in 1..Len(Texts(given.opts[i])),
         given.opts[i].opt = "list" => ~IsComment(Texts(given.opts[i])[k])
  PROVE  <<i, k>> \in Named /\ TextAt(<<i, k>>) = Texts(given.opts[i])[k]
<1>1. given.opts \in Seq(ToSet(given.opts))
  BY CommandAssumption DEF OptionsInv
<1>2. i \in DOMAIN given.opts /\ k \in DOMAIN Texts(given.opts[i])
  BY <1>1, TextsFacts
<1>3. TextAt(<<i, k>>) = Texts(given.opts[i])[k] /\ <<i, k>>[1] = i
  BY DEF TextAt
<1>4. <<i, k>> \in {i} \X DOMAIN Texts(given.opts[i])
  BY <1>2
<1> QED BY <1>2, <1>3, <1>4 DEF Named

\* One more text becomes one more target.
LEMMA OneMore ==
  ASSUME NEW R, NEW ts, Matches(R, ts), NEW x, x \notin R,
         TextAt(x) \in Text, ~Malformed(TextAt(x))
  PROVE  Matches(R \cup {x}, Append(ts, TargetOf(TextAt(x))))
<1> DEFINE us == Append(ts, TargetOf(TextAt(x)))
<1>1. ts \in Seq([host : STRING, port : Int]) /\ Len(ts) \in Nat
  BY DEF Matches
<1>2. TargetOf(TextAt(x)) \in [host : STRING, port : Int]
  BY DEF Text, TargetOf, PortWidth
<1>3. /\ us \in Seq([host : STRING, port : Int]) /\ Len(us) = Len(ts) + 1
      /\ us[Len(ts)+1] = TargetOf(TextAt(x)) /\ \A k \in 1..Len(ts) : us[k] = ts[k]
  BY <1>1, <1>2
<1>4. PICK at : Leads(at, R, ts)
  BY DEF Matches
<1> DEFINE bt == [y \in R \cup {x} |-> IF y = x THEN Len(ts) + 1 ELSE at[y]]
<1>5. bt[x] = Len(ts) + 1 /\ \A y \in R : bt[y] = at[y] /\ at[y] \in 1..Len(ts)
  BY <1>4 DEF Leads
<1> HIDE DEF us, bt
<1>6. \A y \in R \cup {x} : bt[y] \in 1..Len(us) /\ us[bt[y]] = TargetOf(TextAt(y))
  <2>1. bt[x] \in 1..Len(us) /\ us[bt[x]] = TargetOf(TextAt(x))
    BY <1>1, <1>3, <1>5
  <2>2. ASSUME NEW y \in R PROVE bt[y] \in 1..Len(us) /\ us[bt[y]] = TargetOf(TextAt(y))
    <3>1. at[y] \in 1..Len(ts) /\ ts[at[y]] = TargetOf(TextAt(y))
      BY <1>4 DEF Leads
    <3>2. bt[y] = at[y] /\ us[at[y]] = ts[at[y]]
      BY <1>3, <1>5, <3>1
    <3> QED BY <1>1, <1>3, <3>1, <3>2
  <2> QED BY <2>1, <2>2
<1>7. \A y, z \in R \cup {x} : bt[y] = bt[z] => y = z
  <2>1. \A y, z \in R : at[y] = at[z] => y = z
    BY <1>4 DEF Leads
  <2>2. \A y \in R : bt[y] # Len(ts) + 1
    BY <1>1, <1>5
  <2> QED BY <1>5, <2>1, <2>2
<1>8. \A k \in 1..Len(us) : \E y \in R \cup {x} : bt[y] = k
  <2>1. \A k \in 1..Len(ts) : \E y \in R : at[y] = k
    BY <1>4 DEF Leads
  <2>2. \A k \in 1..Len(us) : k = Len(ts) + 1 \/ k \in 1..Len(ts)
    BY <1>1, <1>3
  <2> QED BY <1>5, <2>1, <2>2
<1>9. Leads(bt, R \cup {x}, us)
  BY <1>6, <1>7, <1>8 DEF Leads
<1>10. \A y \in R \cup {x} : ~Malformed(TextAt(y))
  BY DEF Matches
<1> QED BY <1>3, <1>9, <1>10 DEF Matches, us

\* Where the options and the lines stand after the next option ...
LEMMA NextOptionReads ==
  ASSUME OptionsInv, NextOption, DOMAIN cfg' = DOMAIN Default
  PROVE  /\ OptionsInv'
         /\ Taken' = Taken + 1 /\ Taken + 1 \in 1..Len(given.opts)
         /\ Head(opts) = given.opts[Taken + 1]
         /\ given' = given
<1>1. /\ opts # <<>> /\ opts' = Tail(opts) /\ given' = given /\ lines = <<>>
      /\ lines' = IF Head(opts).opt = "list" /\ Head(opts).arg # NoFile
                  THEN Head(opts).arg ELSE <<>>
  BY DEF NextOption
<1>2. /\ given.opts \in Seq(ToSet(given.opts)) /\ Len(given.opts) \in Nat
      /\ opts \in Seq(ToSet(given.opts)) /\ Len(opts) \in Nat /\ Len(opts) <= Len(given.opts)
  BY CommandAssumption DEF OptionsInv
<1>3. /\ opts' \in Seq(ToSet(given.opts)) /\ Len(opts') = Len(opts) - 1 /\ Len(opts) >= 1
      /\ Head(opts) = opts[1] /\ \A k \in 1..Len(opts') : opts'[k] = opts[k+1]
  BY <1>1, <1>2
<1>4. Taken' = Taken + 1 /\ Taken + 1 \in 1..Len(given.opts) /\ Taken \in Nat
  BY <1>1, <1>2, <1>3 DEF Taken
<1>5. \A k \in 1..Len(opts) : opts[k] = given.opts[Taken + k]
  BY DEF OptionsInv
<1>6. Head(opts) = given.opts[Taken + 1]
  BY <1>2, <1>3, <1>5
<1>7. \A k \in 1..Len(opts') : opts'[k] = given.opts[Taken + 1 + k]
  <2> SUFFICES ASSUME NEW k \in 1..Len(opts') PROVE opts'[k] = given.opts[Taken + 1 + k]
    OBVIOUS
  <2>1. k + 1 \in 1..Len(opts) /\ Taken + (k + 1) = Taken + 1 + k
    BY <1>2, <1>3, <1>4
  <2>2. opts'[k] = opts[k+1] /\ opts[k+1] = given.opts[Taken + (k + 1)]
    BY <1>3, <1>5, <2>1
  <2> QED BY <2>1, <2>2
<1>8. LinesInv'
  <2>1. CASE Head(opts).opt = "list" /\ Head(opts).arg # NoFile
    <3>1. /\ lines' = given.opts[Taken+1].arg /\ given.opts[Taken+1].opt = "list"
          /\ Texts(given.opts[Taken+1]) = lines'
      BY <1>1, <1>6, <2>1 DEF Texts
    <3>2. lines' \in Seq(Text) /\ Len(lines') \in Nat
      BY <1>4, <3>1, TextsFacts
    <3>3. TextsTaken' = lines'
      BY <1>1, <1>4, <3>1 DEF TextsTaken
    <3>4. given'.opts[Taken'].opt = "list" /\ Taken' >= 1
      BY <1>1, <1>4, <3>1
    <3>5. \A k \in 1..Len(lines') : Len(lines') - Len(lines') + k = k
      BY <3>2
    <3> QED BY <3>2, <3>3, <3>4, <3>5 DEF LinesInv
  <2>2. CASE ~(Head(opts).opt = "list" /\ Head(opts).arg # NoFile)
    <3>1. lines' = <<>>
      BY <1>1, <2>2
    <3> QED BY <3>1 DEF LinesInv
  <2> QED BY <2>1, <2>2
<1> QED BY <1>1, <1>2, <1>3, <1>4, <1>6, <1>7, <1>8 DEF OptionsInv

\* ... and after the next line.
LEMMA NextLineReads ==
  ASSUME OptionsInv, NextLine, DOMAIN cfg' = DOMAIN Default
  PROVE  LET p == Len(TextsTaken) - Len(lines) + 1
         IN  /\ OptionsInv'
             /\ Taken' = Taken /\ given' = given /\ TextsTaken' = TextsTaken
             /\ Taken \in 1..Len(given.opts) /\ given.opts[Taken].opt = "list"
             /\ p \in 1..Len(TextsTaken) /\ Len(lines') = Len(lines) - 1
             /\ Head(lines) = TextsTaken[p]
<1> DEFINE p == Len(TextsTaken) - Len(lines) + 1
<1>1. lines # <<>> /\ lines' = Tail(lines) /\ UNCHANGED <<opts, given>>
  BY DEF NextLine
<1>2. /\ given.opts \in Seq(ToSet(given.opts)) /\ Len(given.opts) \in Nat
      /\ Len(opts) \in Nat
  BY CommandAssumption DEF OptionsInv
<1>3. /\ lines \in Seq(Text) /\ Taken >= 1 /\ given.opts[Taken].opt = "list"
      /\ Len(lines) <= Len(TextsTaken)
      /\ \A k \in 1..Len(lines) : lines[k] = TextsTaken[Len(TextsTaken) - Len(lines) + k]
  BY <1>1 DEF OptionsInv, LinesInv
<1>4. /\ lines' \in Seq(Text) /\ Len(lines') = Len(lines) - 1 /\ Len(lines) >= 1
      /\ Len(lines) \in Nat
      /\ Head(lines) = lines[1] /\ \A k \in 1..Len(lines') : lines'[k] = lines[k+1]
  BY <1>1, <1>3
<1>5. Taken' = Taken /\ given' = given /\ TextsTaken' = TextsTaken
  BY <1>1 DEF Taken, TextsTaken
<1>6. Taken \in 1..Len(given.opts)
  BY <1>2, <1>3 DEF Taken
<1>7. Len(TextsTaken) \in Nat
  BY <1>6, TextsFacts DEF TextsTaken
<1>8. p \in 1..Len(TextsTaken) /\ Head(lines) = TextsTaken[p]
  BY <1>3, <1>4, <1>7
<1>9. \A k \in 1..Len(lines') : lines'[k] = TextsTaken[Len(TextsTaken) - Len(lines') + k]
  <2> SUFFICES ASSUME NEW k \in 1..Len(lines')
               PROVE  lines'[k] = TextsTaken[Len(TextsTaken) - Len(lines') + k]
    OBVIOUS
  <2>1. /\ k + 1 \in 1..Len(lines)
        /\ Len(TextsTaken) - Len(lines) + (k + 1) = Len(TextsTaken) - Len(lines') + k
    BY <1>4, <1>7
  <2>2. lines[k+1] = TextsTaken[Len(TextsTaken) - Len(lines) + (k + 1)]
    BY <1>3, <2>1
  <2> QED BY <1>4, <2>1, <2>2
<1>10. LinesInv'
  <2>1. Len(lines') <= Len(TextsTaken)
    BY <1>3, <1>4, <1>7
  <2> QED BY <1>3, <1>4, <1>5, <1>9, <2>1 DEF LinesInv
<1>11. OptionsInv'
  BY <1>1, <1>5, <1>10 DEF OptionsInv
<1> QED BY <1>3, <1>4, <1>5, <1>6, <1>8, <1>11

-----------------------------------------------------------------------------
(* The program                                                             *)

\* At first nothing has been looked at.
LEMMA CommandStarts == CommandInit => CommandInv
<1> SUFFICES ASSUME CommandInit PROVE CommandInv
  OBVIOUS
<1>1. /\ given \in Inputs /\ opts = given.opts /\ lines = <<>> /\ paths = given.paths
      /\ cfg = Default /\ pc = "options" /\ stack = <<>> /\ files = <<>> /\ sent = <<>>
  BY DEF CommandInit
<1>2. paths \in Seq(Node) /\ Len(paths) \in Nat /\ opts \in Seq(ToSet(given.opts))
  BY <1>1, CommandAssumption
<1>3. Current = 0
  BY <1>1, <1>2 DEF Current
<1>4. PathsInv
  BY <1>1, <1>2, <1>3 DEF PathsInv
<1>5. StackInv /\ \A t : Along(t)
  BY <1>1, CommandAssumption DEF StackInv, Along
<1>6. \A t : Seen(t) = {}
  BY <1>1, <1>2, <1>3 DEF Seen, Walks
<1>7. Exact({}, <<>>)
  <2>1. ToSet(<<>>) = {} /\ IsInjective(<<>>)
    BY DEF ToSet, IsInjective
  <2> QED BY <2>1 DEF Exact
<1>8. SearchInv
  BY <1>1, <1>4, <1>5, <1>6, <1>7 DEF SearchInv
<1>9. SentInv
  BY <1>1 DEF SentInv, SentInOrder
<1>10. Taken = 0 /\ Len(given.opts) \in Nat
  BY <1>1, <1>2, CommandAssumption DEF Taken
<1>11. OptionsInv
  <2>1. \A k \in 1..Len(opts) : opts[k] = given.opts[Taken + k]
    BY <1>1, <1>10
  <2> QED BY <1>1, <1>2, <1>10, <2>1 DEF OptionsInv, LinesInv
<1>12. Read = {}
  BY <1>10, <1>11, NamedFacts DEF Read
<1>13. Matches({}, <<>>)
  <2>1. Leads(<<>>, {}, <<>>)
    BY DEF Leads
  <2> QED BY <2>1 DEF Matches
<1>14. cfg.targets = <<>> /\ cfg.check = TRUE
  BY <1>1 DEF Default
<1>15. AskedBy(Taken)
  BY <1>10 DEF AskedBy
<1>16. TargetsInv
  BY <1>12, <1>13, <1>14, <1>15 DEF TargetsInv
<1> QED BY <1>1, <1>8, <1>9, <1>11, <1>16 DEF CommandInv

\* No target and no option takes a field from cfg.
LEMMA TargetKeepsFields ==
  ASSUME NEW c, DOMAIN c = DOMAIN Default, NEW u, ParseTarget(c, u).ok
  PROVE  DOMAIN ParseTarget(c, u).cfg = DOMAIN Default
BY DEF ParseTarget, Bad

LEMMA OptionKeepsFields ==
  ASSUME NEW c, DOMAIN c = DOMAIN Default, NEW o, o.opt \in Option, o.opt # "help",
         ParseOption(c, o).ok
  PROVE  DOMAIN ParseOption(c, o).cfg = DOMAIN Default
<1> DEFINE r == ParseOption(c, o)
<1>1. CASE o.opt = "t"
  <2>1. r = ParseTarget(c, o.arg)
    BY <1>1 DEF ParseOption
  <2> QED BY <2>1, TargetKeepsFields
<1>2. CASE o.opt = "list"
  <2>1. r = IF o.arg = NoFile THEN Bad ELSE [ok |-> TRUE, cfg |-> c]
    BY <1>2 DEF ParseOption
  <2> QED BY <2>1 DEF Bad
<1>3. CASE o.opt \in {"p", "dry", "method", "speed", "wait", "check"}
  <2>1. r \in {Bad, [ok |-> TRUE, cfg |-> [c EXCEPT !.parallel = o.arg]],
               [ok |-> TRUE, cfg |-> [c EXCEPT !.dry = TRUE]],
               [ok |-> TRUE, cfg |-> [c EXCEPT !.method = o.arg]],
               [ok |-> TRUE, cfg |-> [c EXCEPT !.speed = o.arg]],
               [ok |-> TRUE, cfg |-> [c EXCEPT !.wait = o.arg]],
               [ok |-> TRUE, cfg |-> [c EXCEPT !.check = o.arg]]}
    BY <1>3 DEF ParseOption
  <2> QED BY <2>1 DEF Bad
<1> QED BY <1>1, <1>2, <1>3 DEF Option

\* What Loadable and LoadIsExact say is Exact(Walks, files).
LEMMA ExactIsLoadable ==
  Exact(Walks, files) <=> /\ Loadable
                          /\ ToSet(files) = {EndOf(x) : x \in FileWalks}
                          /\ IsInjective(files)
<1>1. Walks \cap FileWalks = FileWalks
  BY DEF FileWalks
<1> QED BY <1>1 DEF Exact, Loadable

\* Other steps leave the search where it is.
LEMMA SearchStays ==
  ASSUME SearchInv, UNCHANGED <<paths, stack, files, given>>
  PROVE  SearchInv'
<1>1. PICK t : Along(t) /\ Exact(Seen(t), files)
  BY DEF SearchInv
<1>2. PathsInv' /\ StackInv'
  BY DEF SearchInv, PathsInv, StackInv, Current
<1>3. Along(t)'
  BY <1>1 DEF Along, Current, NodeAt
<1>4. Seen(t)' = Seen(t)
  BY DEF Seen, Walks, Current, Pending
<1>5. Exact(Seen(t), files)'
  BY <1>1, <1>4 DEF Exact, FileWalks, Walks
<1> QED BY <1>2, <1>3, <1>5 DEF SearchInv

\* What a step leaves alone that does not load or send.
LEMMA SentStays ==
  ASSUME SentInv, UNCHANGED <<files, sent, given>>
  PROVE  SentInv'
BY DEF SentInv, SentInOrder, Loadable, FileWalks, Walks

\* A text is read, and becomes a target.
LEMMA TargetRead ==
  ASSUME OptionsInv, OptionsInv', TargetsInv, given' = given, NEW x \in Named, x \notin Read,
         DOMAIN cfg = DOMAIN Default, Read' = Read \cup {x}, AskedBy(Taken') <=> AskedBy(Taken),
         ParseTarget(cfg, TextAt(x)).ok, cfg' = ParseTarget(cfg, TextAt(x)).cfg
  PROVE  TargetsInv'
<1>1. /\ ~Malformed(TextAt(x))
      /\ cfg' = [cfg EXCEPT !.targets = Append(@, TargetOf(TextAt(x)))]
  BY DEF ParseTarget, Bad
<1>2. "targets" \in DOMAIN cfg /\ "check" \in DOMAIN cfg
  BY DEF Default
<1>3. cfg'.targets = Append(cfg.targets, TargetOf(TextAt(x))) /\ cfg'.check = cfg.check
  BY <1>1, <1>2
<1>4. Matches(Read \cup {x}, Append(cfg.targets, TargetOf(TextAt(x))))
  BY <1>1, NamedFacts, OneMore DEF TargetsInv
<1>5. Matches(Read', cfg'.targets)
  BY <1>3, <1>4
<1>6. Matches(Read, cfg.targets)'
  <2>1. \A y : TextAt(y)' = TextAt(y)
    BY DEF TextAt
  <2>2. PICK R : R = Read'
    OBVIOUS
  <2>3. PICK ts : ts = cfg'.targets
    OBVIOUS
  <2>4. Matches(R, ts)
    BY <1>5, <2>2, <2>3
  <2> QED BY <2>1, <2>2, <2>3, <2>4 DEF Matches, Leads
<1>7. AskedBy(Taken)' <=> AskedBy(Taken')
  BY DEF AskedBy
<1> QED BY <1>3, <1>6, <1>7 DEF TargetsInv

\* Nothing is read that names a target.
LEMMA NoTargetRead ==
  ASSUME TargetsInv, given' = given, Read' = Read, cfg'.targets = cfg.targets,
         cfg'.check \in BOOLEAN, cfg'.check = TRUE <=> AskedBy(Taken')
  PROVE  TargetsInv'
<1>1. Matches(Read, cfg.targets)'
  BY DEF TargetsInv, Matches, Leads, TextAt
<1>2. AskedBy(Taken)' <=> AskedBy(Taken')
  BY DEF AskedBy
<1> QED BY <1>1, <1>2 DEF TargetsInv

\* Another option decides whether to check the targets.
LEMMA AskedNext ==
  ASSUME OptionsInv, NEW n \in Nat, n + 1 \in 1..Len(given.opts)
  PROVE  /\ given.opts[n+1].opt # "check" => (AskedBy(n+1) <=> AskedBy(n))
         /\ given.opts[n+1].opt = "check" => (AskedBy(n+1) <=> given.opts[n+1].arg = TRUE)
<1>1. \A k \in 1..n+1 : k = n+1 \/ (k \in 1..n /\ k < n+1)
  OBVIOUS
<1>2. \A k \in 1..n : k \in 1..n+1 /\ ~(n+1 < k)
  OBVIOUS
<1>3. n+1 \in 1..n+1 /\ ~(n+1 < n+1)
  OBVIOUS
<1>4. CASE given.opts[n+1].opt # "check"
  BY <1>1, <1>2, <1>4 DEF AskedBy
<1>5. CASE given.opts[n+1].opt = "check"
  <2>1. given.opts[n+1].arg \in BOOLEAN
    BY <1>5, OptionFacts
  <2>2. CASE given.opts[n+1].arg
    BY <1>1, <1>2, <1>5, <2>2 DEF AskedBy
  <2>3. CASE ~given.opts[n+1].arg
    <3>1. ~\E k \in 1..n+1 : k > n+1
      OBVIOUS
    <3> QED BY <1>3, <1>5, <2>3, <3>1 DEF AskedBy
  <2> QED BY <2>1, <2>2, <2>3
<1> QED BY <1>4, <1>5

\* The options are read one by one.
LEMMA NextOptionInv ==
  ASSUME CommandInv, NextOption
  PROVE  CommandInv'
<1> DEFINE o == Head(opts)
<1>1. /\ pc = "options" /\ opts # <<>> /\ opts' = Tail(opts) /\ pc' \in {"options", "exit"}
      /\ lines = <<>> /\ UNCHANGED <<paths, stack, files, sent, given>>
      /\ lines' = IF o.opt = "list" /\ o.arg # NoFile THEN o.arg ELSE <<>>
  BY DEF NextOption, Parsed, Exit, CommandInv
<1>2. \/ cfg' = cfg /\ pc' = "exit"
      \/ cfg' = ParseOption(cfg, o).cfg /\ ParseOption(cfg, o).ok /\ o.opt # "help"
  BY DEF NextOption, Parsed, Exit
<1>3. o \in ToSet(given.opts) /\ o.opt \in Option
  BY <1>1, CommandAssumption DEF CommandInv, OptionsInv
<1>4. DOMAIN cfg' = DOMAIN Default
  BY <1>2, <1>3, OptionKeepsFields DEF CommandInv, OptionsInv
<1>5. /\ OptionsInv' /\ OptionsInv
      /\ Taken' = Taken + 1 /\ Taken + 1 \in 1..Len(given.opts)
      /\ o = given.opts[Taken + 1] /\ given' = given
  BY <1>4, NextOptionReads DEF CommandInv
<1>6. SentInv'
  BY <1>1, SentStays DEF CommandInv
<1>7. SearchInv'
  BY <1>1, SearchStays DEF CommandInv
<1>8. ASSUME pc' # "exit" PROVE TargetsInv'
  <2>1. cfg' = ParseOption(cfg, o).cfg /\ ParseOption(cfg, o).ok /\ TargetsInv
    BY <1>1, <1>2, <1>8 DEF CommandInv
  <2>2. Taken \in Nat /\ Len(given.opts) \in Nat
    BY <1>5, CommandAssumption DEF OptionsInv, Taken
  <2>3. /\ "targets" \in DOMAIN cfg /\ "check" \in DOMAIN cfg /\ DOMAIN cfg = DOMAIN Default
    BY <1>5 DEF OptionsInv, Default
  <2>4. Named' = Named /\ \A x \in Named : TextAt(x)' = TextAt(x)
    BY <1>5 DEF Named, TextAt
  <2>5. \A x \in Named : /\ x = <<x[1], x[2]>> /\ x[1] \in 1..Len(given.opts)
                         /\ x[2] \in 1..Len(Texts(given.opts[x[1]]))
    BY <1>5, NamedFacts
  <2>6. /\ TextsTaken' = Texts(o) /\ Len(Texts(o)) \in Nat
        /\ Taken >= 1 => Len(TextsTaken) \in Nat
    BY <1>5, <2>2, TextsFacts DEF TextsTaken
  <2>7. Read = {x \in Named : x[1] < Taken + 1}
    <3>1. Len(lines) = 0
      BY <1>1
    <3>2. ASSUME NEW x \in Named, x[1] = Taken
          PROVE  x[2] <= Len(TextsTaken) - Len(lines)
      <4>1. x[2] \in 1..Len(TextsTaken) /\ Len(TextsTaken) \in Nat
        BY <2>5, <2>6, <3>2 DEF TextsTaken
      <4> QED BY <3>1, <4>1
    <3> QED BY <2>2, <2>5, <3>2 DEF Read
  <2>8. Read' = {x \in Named : \/ x[1] < Taken + 1
                               \/ x[1] = Taken + 1 /\ x[2] <= Len(Texts(o)) - Len(lines')}
    BY <1>5, <2>4, <2>6 DEF Read
  <2>9. CASE o.opt = "t"
    <3> DEFINE x == <<Taken + 1, 1>>
    <3>1. o.arg \in Text /\ Texts(o) = <<o.arg>> /\ Len(Texts(o)) = 1 /\ lines' = <<>>
      BY <1>1, <1>5, <2>9, OptionFacts DEF Texts
    <3>2. x \in Named /\ TextAt(x) = o.arg
      BY <1>5, <2>9, <3>1, NamedMade
    <3>3. x \notin Read /\ x[1] = Taken + 1 /\ x[2] = 1
      BY <2>2, <2>7
    <3>4. Read' = Read \cup {x}
      <4>1. \A y \in Named : y[1] = Taken + 1 => y = x
        BY <1>5, <2>5, <3>1
      <4>2. Len(Texts(o)) - Len(lines') = 1
        BY <3>1
      <4> HIDE DEF x
      <4> QED BY <2>7, <2>8, <3>2, <3>3, <4>1, <4>2
    <3>5. ParseOption(cfg, o) = ParseTarget(cfg, TextAt(x))
      BY <2>9, <3>2 DEF ParseOption
    <3>6. AskedBy(Taken') <=> AskedBy(Taken)
      BY <1>5, <2>2, <2>9, AskedNext
    <3> HIDE DEF x
    <3> QED BY <1>5, <2>1, <2>3, <3>2, <3>3, <3>4, <3>5, <3>6, TargetRead
  <2>10. CASE o.opt # "t"
    <3>1. Read' = Read
      <4>1. \A x \in Named : x[1] = Taken + 1 => ~(x[2] <= Len(Texts(o)) - Len(lines'))
        <5> SUFFICES ASSUME NEW x \in Named, x[1] = Taken + 1
                     PROVE  ~(x[2] <= Len(Texts(o)) - Len(lines'))
          OBVIOUS
        <5>1. x[2] \in 1..Len(Texts(o))
          BY <1>5, <2>5
        <5>2. lines' = Texts(o)
          BY <1>1, <2>10 DEF Texts
        <5> QED BY <2>6, <5>1, <5>2
      <4> QED BY <2>2, <2>7, <2>8, <4>1
    <3>2. cfg'.targets = cfg.targets
      BY <1>2, <1>3, <1>8, <2>3, <2>10 DEF ParseOption, Bad, Option
    <3>3. /\ o.opt # "check" => cfg'.check = cfg.check
          /\ o.opt = "check" => cfg'.check = o.arg
      BY <1>2, <1>3, <1>8, <2>3, <2>10 DEF ParseOption, Bad, Option
    <3>4. cfg'.check \in BOOLEAN /\ (cfg'.check = TRUE <=> AskedBy(Taken'))
      <4>1. CASE o.opt # "check"
        BY <1>5, <2>1, <2>2, <3>3, <4>1, AskedNext DEF TargetsInv
      <4>2. CASE o.opt = "check"
        <5>1. o.arg \in BOOLEAN
          BY <1>5, <4>2, OptionFacts
        <5>2. AskedBy(Taken + 1) <=> o.arg = TRUE
          BY <1>5, <2>2, <4>2, AskedNext
        <5>3. cfg'.check = o.arg
          BY <3>3, <4>2
        <5>4. AskedBy(Taken') <=> o.arg = TRUE
          BY <1>5, <5>2
        <5> HIDE DEF o
        <5> QED BY <5>1, <5>3, <5>4
      <4> QED BY <4>1, <4>2
    <3> QED BY <1>5, <2>1, <3>1, <3>2, <3>4, NoTargetRead
  <2> QED BY <2>9, <2>10
<1> QED BY <1>1, <1>5, <1>6, <1>7, <1>8 DEF CommandInv

\* The lines of a list are read one by one.
LEMMA NextLineInv ==
  ASSUME CommandInv, NextLine
  PROVE  CommandInv'
<1> DEFINE p == Len(TextsTaken) - Len(lines) + 1
           x == <<Taken, p>>
<1>1. /\ pc = "options" /\ pc' \in {"options", "exit"} /\ lines # <<>>
      /\ UNCHANGED <<opts, paths, stack, files, sent, given>>
  BY DEF NextLine, Parsed, Exit, CommandInv
<1>2. \/ IsComment(Head(lines)) /\ cfg' = cfg
      \/ cfg' = cfg /\ pc' = "exit"
      \/ /\ ~IsComment(Head(lines)) /\ ParseTarget(cfg, Head(lines)).ok
         /\ cfg' = ParseTarget(cfg, Head(lines)).cfg
  BY DEF NextLine, Parsed, Exit
<1>3. DOMAIN cfg' = DOMAIN Default
  BY <1>2, TargetKeepsFields DEF CommandInv, OptionsInv
<1>4. /\ OptionsInv' /\ OptionsInv
      /\ Taken' = Taken /\ given' = given /\ TextsTaken' = TextsTaken
      /\ Taken \in 1..Len(given.opts) /\ given.opts[Taken].opt = "list"
      /\ p \in 1..Len(TextsTaken) /\ Len(lines') = Len(lines) - 1
      /\ Head(lines) = TextsTaken[p]
  BY <1>3, NextLineReads DEF CommandInv
<1>5. SentInv'
  BY <1>1, SentStays DEF CommandInv
<1>6. SearchInv'
  BY <1>1, SearchStays DEF CommandInv
<1>7. ASSUME pc' # "exit" PROVE TargetsInv'
  <2>1. TargetsInv
    BY <1>1 DEF CommandInv
  <2>2. Len(TextsTaken) \in Nat /\ Len(lines) \in Nat /\ Taken \in Nat
    <3>1. Len(TextsTaken) \in Nat
      BY <1>4, TextsFacts DEF TextsTaken
    <3>2. lines \in Seq(Text) /\ given.opts \in Seq(ToSet(given.opts))
      BY <1>4, CommandAssumption DEF OptionsInv, LinesInv
    <3> QED BY <1>4, <3>1, <3>2
  <2>3. Named' = Named
    BY <1>4 DEF Named, TextAt
  <2>4. \A y \in Named : y = <<y[1], y[2]>> /\ y[1] \in 1..Len(given.opts)
                         /\ y[2] \in 1..Len(Texts(given.opts[y[1]]))
    BY <1>4, NamedFacts
  <2>5. Read = {y \in Named : y[1] < Taken \/ (y[1] = Taken /\ y[2] <= p - 1)}
    BY <2>2 DEF Read
  <2>6. Read' = {y \in Named : y[1] < Taken \/ (y[1] = Taken /\ y[2] <= p)}
    <3>1. Len(TextsTaken) - Len(lines') = p
      BY <1>4, <2>2
    <3> QED BY <1>4, <2>3, <3>1 DEF Read
  <2>7. \A y \in Named : y[1] = Taken => (y[2] <= p <=> (y[2] <= p - 1 \/ y[2] = p))
    <3> SUFFICES ASSUME NEW y \in Named, y[1] = Taken
                 PROVE  y[2] <= p <=> (y[2] <= p - 1 \/ y[2] = p)
      OBVIOUS
    <3>1. y[2] \in 1..Len(TextsTaken)
      BY <2>4 DEF TextsTaken
    <3> QED BY <1>4, <2>2, <3>1
  <2>8. AskedBy(Taken') <=> AskedBy(Taken)
    BY <1>4
  <2>9. CASE IsComment(Head(lines)) /\ cfg' = cfg
    <3>1. \A y \in Named : ~(y[1] = Taken /\ y[2] = p)
      <4> SUFFICES ASSUME NEW y \in Named, y[1] = Taken, y[2] = p PROVE FALSE
        OBVIOUS
      <4>1. TextAt(y) = Head(lines)
        BY <1>4 DEF TextAt, TextsTaken
      <4> QED BY <1>4, <2>9, <4>1 DEF Named
    <3> HIDE DEF p
    <3>2. Read' = Read
      BY <2>5, <2>6, <2>7, <3>1
    <3> QED BY <1>4, <2>1, <2>8, <2>9, <3>2, NoTargetRead DEF TargetsInv
  <2>10. CASE /\ ~IsComment(Head(lines)) /\ ParseTarget(cfg, Head(lines)).ok
              /\ cfg' = ParseTarget(cfg, Head(lines)).cfg
    <3>1. x \in Named /\ TextAt(x) = Head(lines)
      <4>1. Texts(given.opts[Taken]) = TextsTaken
        BY DEF TextsTaken
      <4> HIDE DEF p
      <4> QED BY <1>4, <2>10, <4>1, NamedMade
    <3>2. x[1] = Taken /\ x[2] = p
      OBVIOUS
    <3> HIDE DEF p, x
    <3>3. p \in Int
      BY <1>4
    <3>4. x \notin Read
      BY <2>2, <2>5, <3>2, <3>3
    <3>5. Read' = Read \cup {x}
      <4>1. \A y \in Named : y[1] = Taken /\ y[2] = p => y = x
        BY <2>4, <3>1, <3>2
      <4> QED BY <2>5, <2>6, <2>7, <3>1, <3>2, <3>3, <4>1
    <3> QED BY <1>4, <2>1, <2>8, <2>10, <3>1, <3>4, <3>5, TargetRead DEF OptionsInv
  <2> QED BY <1>2, <1>7, <2>9, <2>10
<1> QED BY <1>1, <1>4, <1>5, <1>6, <1>7 DEF CommandInv

\* Other steps leave the options and the targets as they are.
LEMMA TargetsStay ==
  ASSUME OptionsInv, UNCHANGED <<opts, lines, given>>, DOMAIN cfg' = DOMAIN cfg,
         cfg'.targets = cfg.targets, cfg'.check = cfg.check
  PROVE  OptionsInv' /\ (TargetsInv => TargetsInv')
<1>1. OptionsInv'
  BY DEF OptionsInv, LinesInv, Taken, TextsTaken
<1>2. Read' = Read /\ Taken' = Taken
  BY DEF Read, Taken, TextsTaken, Named, TextAt
<1>3. ASSUME TargetsInv PROVE TargetsInv'
  BY <1>2, <1>3, NoTargetRead DEF TargetsInv
<1> QED BY <1>1, <1>3

\* The search, from OptionsDone to LoadDone.
LEMMA LoadingInv ==
  ASSUME CommandInv, OptionsDone \/ NextPath \/ NextEntry \/ LeaveDir \/ LoadDone
  PROVE  CommandInv'
<1>1. /\ OptionsInv /\ SentInv /\ files \in Seq(Node)
      /\ TargetsInv /\ UNCHANGED <<opts, lines, cfg, sent, given>> /\ pc \in {"options", "load"}
  BY DEF CommandInv, SentInv, OptionsDone, NextPath, NextEntry, LeaveDir, LoadDone
<1>2. OptionsInv' /\ TargetsInv'
  BY <1>1, TargetsStay
<1>3. CASE OptionsDone
  BY <1>1, <1>2, <1>3, SentStays, SearchStays DEF CommandInv, OptionsDone
<1>4. CASE NextPath \/ NextEntry
  <2>1. pc = "load" /\ sent = <<>> /\ SearchInv /\ UNCHANGED <<opts, lines, cfg, sent, given>>
    BY <1>1, <1>4 DEF CommandInv, NextPath, NextEntry
  <2>2. Searched
    BY <1>1, <1>4, <2>1, NextPathSearches, NextEntrySearches
  <2>3. SentInv'
    BY <1>1, <2>1, <2>2 DEF Searched, SentInv, SentInOrder
  <2> QED BY <1>2, <2>1, <2>2, <2>3 DEF CommandInv, Searched
<1>5. CASE LeaveDir
  <2>1. pc = "load" /\ sent = <<>> /\ SearchInv /\ UNCHANGED <<pc, files, sent, given>>
    BY <1>5 DEF CommandInv, LeaveDir
  <2>2. SearchInv'
    BY <1>1, <1>5, <2>1, LeaveDirSearches
  <2>3. SentInv'
    BY <1>1, <2>1, SentStays
  <2> QED BY <1>1, <1>2, <2>1, <2>2, <2>3 DEF CommandInv
<1>6. CASE LoadDone
  <2>1. /\ pc = "load" /\ pc' = "check" /\ sent = <<>> /\ SearchInv
        /\ stack = <<>> /\ paths = <<>>
        /\ UNCHANGED <<files, sent, given>>
    BY <1>6 DEF CommandInv, LoadDone
  <2>2. Exact(Walks, files)
    BY <1>1, <2>1, SearchEnds
  <2>3. Exact(Walks, files)'
    BY <2>1, <2>2 DEF Exact, FileWalks, Walks
  <2>4. SentInv'
    BY <1>1, <2>1, SentStays
  <2> QED BY <1>1, <1>2, <2>1, <2>3, <2>4 DEF CommandInv
<1> QED BY <1>3, <1>4, <1>5, <1>6

\* The targets are checked.
LEMMA CheckInv ==
  ASSUME CommandInv, Check
  PROVE  CommandInv'
<1>1. /\ pc = "check" /\ sent = <<>> /\ UNCHANGED <<opts, lines, files, sent, given>>
      /\ cfg' = [cfg EXCEPT !.parallel = Clamped(@)]
      /\ pc' \in {"exit", "send"}
      /\ pc' = "send" => (cfg.check => CheckSelf(cfg.targets))
  BY DEF CommandInv, Check, Exit
<1>2. DOMAIN cfg = DOMAIN Default /\ "targets" \in DOMAIN Default /\ "check" \in DOMAIN Default
  BY DEF CommandInv, OptionsInv, Default
<1>3. DOMAIN cfg' = DOMAIN cfg /\ cfg'.targets = cfg.targets /\ cfg'.check = cfg.check
  BY <1>1, <1>2
<1>4. SentInv' /\ OptionsInv' /\ TargetsInv' /\ opts = <<>> /\ lines = <<>>
  BY <1>1, <1>3, SentStays, TargetsStay DEF CommandInv
<1>5. Exact(Walks, files)'
  BY <1>1 DEF CommandInv, Exact, FileWalks, Walks
<1>6. (pc' = "send" /\ cfg'.check = TRUE) => CheckSelf(cfg'.targets)
  BY <1>1, <1>3
<1> QED BY <1>1, <1>4, <1>5, <1>6 DEF CommandInv, CheckSelf

\* The files are sent.
LEMMA SendingInv ==
  ASSUME CommandInv, Upload \/ SendDone
  PROVE  CommandInv'
<1>1. /\ pc = "send" /\ Exact(Walks, files) /\ SentInv /\ OptionsInv /\ TargetsInv
      /\ opts = <<>> /\ lines = <<>>
      /\ UNCHANGED <<opts, lines, cfg, files, given>>
      /\ cfg.check = TRUE => CheckSelf(cfg.targets)
  BY DEF CommandInv, Upload, SendDone
<1>2. /\ Exact(Walks, files)' /\ OptionsInv' /\ TargetsInv'
      /\ cfg'.check = TRUE => CheckSelf(cfg.targets)'
  BY <1>1, TargetsStay DEF Exact, FileWalks, Walks, CheckSelf
<1>3. CASE Upload
  <2>1. pc' = "send" /\ MoreToSend
    BY <1>1, <1>3 DEF Upload
  <2>2. PICK ok \in BOOLEAN : sent' = Append(sent, [file |-> files[Len(sent)+1], ok |-> ok])
    BY <1>3 DEF Upload
  <2>3. /\ files \in Seq(Node) /\ sent \in Seq([file : Node, ok : BOOLEAN])
        /\ Len(sent) \in Nat /\ Len(files) \in Nat /\ Len(sent) < Len(files)
    BY <1>1, <2>1 DEF SentInv, MoreToSend
  <2>4. PICK r : r = [file |-> files[Len(sent)+1], ok |-> ok]
    OBVIOUS
  <2>5. r \in [file : Node, ok : BOOLEAN] /\ r.file = files[Len(sent)+1]
    BY <2>3, <2>4
  <2>6. /\ sent' \in Seq([file : Node, ok : BOOLEAN]) /\ Len(sent') = Len(sent) + 1
        /\ sent'[Len(sent)+1] = r /\ \A i \in 1..Len(sent) : sent'[i] = sent[i]
    BY <2>2, <2>3, <2>4, <2>5
  <2>7. \A i \in 1..Len(sent) : sent[i].file = files[i] /\ sent[i].ok
    <3> SUFFICES ASSUME NEW i \in 1..Len(sent) PROVE sent[i].file = files[i] /\ sent[i].ok
      OBVIOUS
    <3>1. sent[i].file = files[i] /\ (i < Len(sent) => sent[i].ok)
      BY <1>1, <2>3 DEF SentInv, SentInOrder
    <3>2. i = Len(sent) => sent[i].ok
      BY <2>1, <2>3 DEF MoreToSend, Stopped, Last
    <3> QED BY <2>3, <3>1, <3>2
  <2>8. \A i \in DOMAIN sent' : sent'[i].file = files[i] /\ (i < Len(sent') => sent'[i].ok)
    <3> SUFFICES ASSUME NEW i \in 1..Len(sent)+1
                 PROVE  sent'[i].file = files[i] /\ (i < Len(sent)+1 => sent'[i].ok)
      BY <2>6
    <3>1. CASE i = Len(sent)+1
      BY <2>3, <2>5, <2>6, <3>1
    <3>2. CASE i \in 1..Len(sent)
      BY <2>6, <2>7, <3>2
    <3>3. i = Len(sent)+1 \/ i \in 1..Len(sent)
      BY <2>3
    <3> QED BY <3>1, <3>2, <3>3
  <2>9. Loadable'
    BY <1>1, ExactIsLoadable DEF Loadable, FileWalks, Walks
  <2>10. SentInv'
    BY <1>1, <2>3, <2>6, <2>8, <2>9 DEF SentInv, SentInOrder
  <2> QED BY <1>1, <1>2, <2>1, <2>10 DEF CommandInv
<1>4. CASE SendDone
  <2>1. pc' = "exit" /\ sent' = sent
    BY <1>4 DEF SendDone, Exit
  <2>2. SentInv'
    BY <1>1, <2>1, SentStays
  <2> QED BY <1>1, <1>2, <2>1, <2>2 DEF CommandInv
<1> QED BY <1>3, <1>4

\* Every step keeps the invariant.
LEMMA CommandSteps == CommandInv /\ [CommandNext]_vars => CommandInv'
<1> SUFFICES ASSUME CommandInv, [CommandNext]_vars PROVE CommandInv'
  OBVIOUS
<1>1. CASE UNCHANGED vars
  <2>1. UNCHANGED <<pc, opts, lines, cfg, paths, stack, files, sent, status, given>>
    BY <1>1 DEF vars
  <2>2. /\ SentInv' /\ OptionsInv' /\ (TargetsInv => TargetsInv')
        /\ pc \in {"options", "load"} => SearchInv'
    BY <2>1, SentStays, SearchStays, TargetsStay DEF CommandInv
  <2>3. pc \in {"check", "send"} => Exact(Walks, files)'
    BY <2>1 DEF CommandInv, Exact, FileWalks, Walks
  <2>4. (pc' = "send" /\ cfg'.check = TRUE) => CheckSelf(cfg.targets)'
    BY <2>1 DEF CommandInv, CheckSelf
  <2> QED BY <2>1, <2>2, <2>3, <2>4 DEF CommandInv
<1> QED BY <1>1, NextOptionInv, NextLineInv, LoadingInv, CheckInv, SendingInv DEF CommandNext

\* The inductive invariant of the command: whatever the options, the paths and the
\* file system are, and in whatever order the entries of a directory come.
THEOREM CommandKeepsInv == CommandSpec => []CommandInv
BY CommandStarts, CommandSteps, PTL DEF CommandSpec

\* LoadIsExact: a search that succeeds has found every file below the paths, once,
\* and met nothing that it should have refused.
THEOREM SearchIsExact == CommandSpec => []LoadIsExact
<1>1. CommandInv => LoadIsExact
  BY ExactIsLoadable DEF CommandInv, LoadIsExact
<1> QED BY <1>1, CommandKeepsInv, PTL

\* LoadFailsForCause: a search that fails has met something that it should refuse.
THEOREM SearchFailsForCause == CommandSpec => LoadFailsForCause
<1>1. CommandInv /\ [CommandNext]_vars => [pc = "load" /\ pc' = "exit" => ~Loadable]_vars
  <2> SUFFICES ASSUME CommandInv, CommandNext, pc = "load", pc' = "exit" PROVE ~Loadable
    OBVIOUS
  <2>1. NextPath \/ NextEntry
    BY DEF CommandNext, NextOption, NextLine, OptionsDone, LeaveDir, LoadDone, Check, Upload, SendDone
  <2>2. SearchInv /\ OptionsInv /\ files \in Seq(Node)
    BY DEF CommandInv, SentInv
  <2>3. Searched
    BY <2>1, <2>2, NextPathSearches, NextEntrySearches
  <2> QED BY <2>3 DEF Searched
<1> QED BY <1>1, CommandKeepsInv, PTL DEF CommandSpec, LoadFailsForCause

\* Numbers that differ by a multiple of w have one remainder.
LEMMA OneRest ==
  ASSUME NEW w \in Nat \ {0}, NEW q \in Int, NEW a \in Int, NEW b \in Int,
         NEW c \in 0..w-1, NEW d \in 0..w-1, ((w * a) + c) - ((w * b) + d) = w * q
  PROVE  c = d
<1>1. \A i, j \in Int : w * (i + j) = (w * i) + (w * j) /\ w * (i - j) = (w * i) - (w * j)
  OBVIOUS
<1>2. w * ((q - a) + b) = ((w * q) - (w * a)) + (w * b)
  BY <1>1
<1>3. w * a \in Int /\ w * b \in Int /\ w * q \in Int
  OBVIOUS
<1>4. c - d = w * ((q - a) + b)
  BY <1>2, <1>3
<1>5. PICK r \in Int : r = (q - a) + b
  OBVIOUS
<1>6. c - d = w * r
  BY <1>4, <1>5
<1>7. r >= 1 => w * r >= w
  OBVIOUS
<1>8. r <= -1 => w * r <= -w
  OBVIOUS
<1>9. r = 0
  BY <1>6, <1>7, <1>8
<1> QED BY <1>6, <1>9

\* What is left of a number in w.
LEMMA RestFacts ==
  ASSUME NEW w \in Nat \ {0}, NEW n \in Int, NEW m \in Int
  PROVE  /\ n % w \in 0..w-1
         /\ (n - (n % w)) % w = 0
         /\ (n - m) % w = 0 => n % w = m % w
<1>1. /\ n % w \in 0..w-1 /\ m % w \in 0..w-1
      /\ n = (w * (n \div w)) + (n % w) /\ m = (w * (m \div w)) + (m % w)
      /\ n \div w \in Int /\ m \div w \in Int
  OBVIOUS
<1>2. (n - (n % w)) % w = 0
  <2>1. n - (n % w) = w * (n \div w)
    BY <1>1
  <2>2. \A q \in Int : (w * q) % w = 0
    OBVIOUS
  <2> QED BY <1>1, <2>1, <2>2
<1>3. ASSUME (n - m) % w = 0 PROVE n % w = m % w
  <2>1. n - m = (w * ((n - m) \div w)) + ((n - m) % w) /\ (n - m) \div w \in Int
    OBVIOUS
  <2>2. n - m = w * ((n - m) \div w)
    BY <1>3, <2>1
  <2>3. ((w * (n \div w)) + (n % w)) - ((w * (m \div w)) + (m % w)) = w * ((n - m) \div w)
    BY <1>1, <2>2, Zenon
  <2> QED BY <1>1, <2>1, <2>3, OneRest
<1> QED BY <1>1, <1>2, <1>3
\* What a target and a text have in common if the one became the other.
LEMMA PlaceOfText ==
  ASSUME NEW t \in Text, NEW u \in Text
  PROVE  /\ SamePlace(t, [host |-> TargetOf(t).host, num |-> TargetOf(t).port])
         /\ SamePlace(t, u) => TargetOf(t) = TargetOf(u)
         /\ ~Malformed(t) => TargetOf(t).port \in 1..PortWidth-1
<1>1. t.num \in Int /\ u.num \in Int
  BY DEF Text
<1>2. PortWidth \in Nat \ {0}
  BY DEF PortWidth
<1>3. /\ t.num % PortWidth \in 0..PortWidth-1
      /\ (t.num - (t.num % PortWidth)) % PortWidth = 0
      /\ (t.num - u.num) % PortWidth = 0 => t.num % PortWidth = u.num % PortWidth
  BY <1>1, <1>2, RestFacts
<1>4. TargetOf(t) = [host |-> t.host, port |-> t.num % PortWidth]
  BY DEF TargetOf
<1>5. SamePlace(t, [host |-> TargetOf(t).host, num |-> TargetOf(t).port])
  BY <1>3, <1>4 DEF SamePlace
<1>6. SamePlace(t, u) => TargetOf(t) = TargetOf(u)
  BY <1>3 DEF SamePlace, TargetOf
<1>7. ~Malformed(t) => TargetOf(t).port \in 1..PortWidth-1
  <2>1. \A w \in Nat \ {0} : \A n \in 0..w-1 : n # 0 => n \in 1..w-1
    OBVIOUS
  <2>2. t.num % PortWidth # 0 => t.num % PortWidth \in 1..PortWidth-1
    BY <1>2, <1>3, <2>1, Zenon
  <2>3. TargetOf(t).port = t.num % PortWidth
    BY <1>4
  <2> QED BY <2>2, <2>3, Zenon DEF Malformed
<1> QED BY <1>5, <1>6, <1>7

\* TargetsApart: for every command line, what is sent goes to what it names and
\* nowhere else, and with the check no two of its names are one place.
THEOREM TargetsAreApart == CommandSpec => []TargetsApart
<1>1. ASSUME CommandInv, pc = "send" PROVE TargetsApart
  <2>1. /\ OptionsInv /\ TargetsInv /\ opts = <<>> /\ lines = <<>>
        /\ cfg.check = TRUE => CheckSelf(cfg.targets)
    BY <1>1 DEF CommandInv
  <2>2. Len(given.opts) \in Nat /\ DOMAIN given.opts = 1..Len(given.opts)
    BY <2>1, CommandAssumption DEF OptionsInv
  <2>3. Taken = Len(given.opts) /\ Len(lines) = 0
    BY <2>1, <2>2 DEF Taken
  <2>4. Read = Named
    <3> SUFFICES ASSUME NEW x \in Named PROVE x \in Read
      BY DEF Read
    <3>1. x[1] \in 1..Len(given.opts) /\ x[2] \in 1..Len(Texts(given.opts[x[1]]))
      BY <2>1, NamedFacts
    <3>2. CASE x[1] < Taken
      BY <3>2 DEF Read
    <3>3. CASE x[1] = Taken
      <4>1. x[2] \in 1..Len(TextsTaken) /\ Len(TextsTaken) \in Nat
        BY <2>1, <2>3, <3>1, <3>3, TextsFacts DEF TextsTaken
      <4> QED BY <2>3, <3>3, <4>1 DEF Read
    <3> QED BY <2>2, <2>3, <3>1, <3>2, <3>3
  <2>5. PICK at : Leads(at, Named, cfg.targets)
    BY <2>1, <2>4 DEF TargetsInv, Matches
  <2>6. /\ cfg.targets \in Seq([host : STRING, port : Int])
        /\ DOMAIN cfg.targets = 1..Len(cfg.targets)
        /\ \A x \in Named : ~Malformed(TextAt(x))
    BY <2>1, <2>4 DEF TargetsInv, Matches
  <2>7. \A x \in Named : TextAt(x) \in Text
    BY <2>1, NamedFacts
  <2>8. \A x \in Named : at[x] \in DOMAIN cfg.targets /\ SamePlace(TextAt(x), Place(at[x]))
                         /\ Place(at[x]).num \in 1..PortWidth-1
    <3> SUFFICES ASSUME NEW x \in Named
                 PROVE  at[x] \in DOMAIN cfg.targets /\ SamePlace(TextAt(x), Place(at[x]))
                        /\ Place(at[x]).num \in 1..PortWidth-1
      OBVIOUS
    <3>1. at[x] \in DOMAIN cfg.targets /\ cfg.targets[at[x]] = TargetOf(TextAt(x))
      BY <2>5, <2>6 DEF Leads
    <3>2. Place(at[x]) = [host |-> TargetOf(TextAt(x)).host, num |-> TargetOf(TextAt(x)).port]
      BY <3>1 DEF Place
    <3>3. PICK t \in Text : t = TextAt(x)
      BY <2>7
    <3>4. ~Malformed(t)
      BY <2>6, <3>3
    <3>5. /\ SamePlace(t, [host |-> TargetOf(t).host, num |-> TargetOf(t).port])
          /\ TargetOf(t).port \in 1..PortWidth-1
      BY <3>4, PlaceOfText
    <3>6. SamePlace(TextAt(x), Place(at[x]))
      BY <3>2, <3>3, <3>5
    <3>7. Place(at[x]).num = TargetOf(t).port
      BY <3>2, <3>3
    <3> QED BY <3>1, <3>5, <3>6, <3>7
  <2>9. ASSUME NEW k \in DOMAIN cfg.targets
        PROVE  /\ Place(k).num \in 1..PortWidth-1
               /\ \E x \in Named : SamePlace(TextAt(x), Place(k))
    <3>1. PICK x \in Named : at[x] = k
      BY <2>5, <2>6 DEF Leads
    <3> QED BY <2>8, <3>1
  <2>10. ASSUME CheckAsked
         PROVE  /\ \A x, y \in Named : SamePlace(TextAt(x), TextAt(y)) => x = y
                /\ \A x \in Named : TextAt(x).host \notin LocalHost
    <3>1. AskedBy(Taken)
      BY <2>2, <2>3, <2>10 DEF AskedBy, CheckAsked
    <3>2. CheckSelf(cfg.targets)
      BY <2>1, <3>1 DEF TargetsInv
    <3>3. ASSUME NEW x \in Named, NEW y \in Named, SamePlace(TextAt(x), TextAt(y))
          PROVE  x = y
      <4>1. TargetOf(TextAt(x)) = TargetOf(TextAt(y))
        BY <2>7, <3>3, PlaceOfText
      <4>2. cfg.targets[at[x]] = cfg.targets[at[y]]
        BY <2>5, <4>1 DEF Leads
      <4>3. at[x] = at[y]
        BY <2>8, <3>2, <4>2 DEF CheckSelf, IsInjective
      <4> QED BY <2>5, <4>3 DEF Leads
    <3>4. ASSUME NEW x \in Named PROVE TextAt(x).host \notin LocalHost
      <4>1. cfg.targets[at[x]] = TargetOf(TextAt(x)) /\ TargetOf(TextAt(x)).host = TextAt(x).host
        BY <2>5 DEF Leads, TargetOf
      <4> QED BY <2>8, <3>2, <4>1 DEF CheckSelf
    <3> QED BY <3>3, <3>4
  <2> QED BY <2>8, <2>9, <2>10 DEF TargetsApart
<1>2. CommandInv => TargetsApart
  BY <1>1 DEF TargetsApart
<1> QED BY <1>2, CommandKeepsInv, PTL

\* SentInOrder: files are sent in the order found, each once, up to the first failure, and
\* only if all paths could be loaded.
THEOREM FilesInOrder == CommandSpec => []SentInOrder
<1>1. CommandInv => SentInOrder
  BY DEF CommandInv, SentInv
<1> QED BY <1>1, CommandKeepsInv, PTL
=============================================================================
