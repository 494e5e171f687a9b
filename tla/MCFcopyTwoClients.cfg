SPECIFICATION Spec
CONSTANTS
  c1 = c1
  c2 = c2
  s1 = s1
  s2 = s2
  s3 = s3
  a = a
  b = b
  na = na
  nb = nb
  ta = ta
  tb = tb
  Client = {c1, c2}
  Worker = {1}
  N = 2
  Method = "chain"
  Files <- mcUneven
  ChunkSize = 2
  Token = {ta}
  NoToken = NoToken
  Name = {na}
  Path = {a}
  FileOf <- mcFileOf
  TokenOf <- mcTokenOf
  Before <- mcBefore
  Offset = {0, 2}
  Source <- mcSource
  Hole = Hole
  Base = 2
  Server = {s1, s2}
  Fd = {f1, f2, f3}
  NoFd = NoFd
  Closed = Closed
  NoEntry = NoEntry
  Slot = {1, 2, 3, 4, 5, 6}
  Dest <- mcCross
  WaitClose = TRUE
  RetryMax = 1
  FaultKinds = {"create", "short", "shrink"}
  MaxFaults = 1
SYMMETRY FdSymmetry
INVARIANTS OneUploader SizedAtRest
PROPERTIES NoMixing
