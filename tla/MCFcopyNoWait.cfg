SPECIFICATION FairSpec
CONSTANTS
  c1 = c1
  c2 = c2
  s1 = s1
  s2 = s2
  s3 = s3
  a = a
  b = b
  na = na
  nb = nb
  ta = ta
  tb = tb
  Client = {c1}
  Worker = {1, 2}
  N = 2
  Method = "chain"
  Files <- mcTwo
  ChunkSize = 2
  Token = {ta, tb}
  NoToken = NoToken
  Name = {na, nb}
  Path = {a, b}
  FileOf <- mcFileOf
  TokenOf <- mcTokenOf
  Before <- mcBefore
  Offset = {0, 2}
  Source <- mcSource
  Hole = Hole
  Base = 2
  Server = {s1, s2}
  Fd = {1, 2}
  NoFd = NoFd
  Closed = Closed
  NoEntry = NoEntry
  Slot = {1, 2, 3, 4, 5}
  Dest <- mcDest
  WaitClose = FALSE
  RetryMax = 2
  FaultKinds = {}
  MaxFaults = 0
INVARIANTS NoStaleFd
PROPERTIES EventuallyExact
