SPECIFICATION CommandSpec
CONSTANTS
  d = d
  sub = sub
  empty = empty
  loop = loop
  links = links
  c1 = c1
  c2 = c2
  c3 = c3
  c4 = c4
  priv = priv
  fa = fa
  fb = fb
  locked = locked
  sock = sock
  Node <- mcNode
  KindOf <- mcKindOf
  EntriesOf <- mcEntriesOf
  MaxDepth = 3
  LocalHost = {"me"}
  NoFile = NoFile
  Inputs <- mcInputs
INVARIANTS LoadIsExact TargetsApart SentInOrder
PROPERTIES LoadFailsForCause CommandEnds
CHECK_DEADLOCK FALSE
