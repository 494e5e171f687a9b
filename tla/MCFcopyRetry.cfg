SPECIFICATION FairSpec
CONSTANTS
  c1 = c1
  c2 = c2
  s1 = s1
  s2 = s2
  s3 = s3
  a = a
  b = b
  na = na
  nb = nb
  ta = ta
  tb = tb
  Client = {c1}
  Worker = {1}
  N = 3
  Method = "chain"
  Files <- mcShort
  ChunkSize = 2
  Token = {ta}
  NoToken = NoToken
  Name = {na}
  Path = {a}
  FileOf <- mcFileOf
  TokenOf <- mcTokenOf
  Before <- mcBefore
  Offset = {0, 2}
  Source <- mcSource
  Hole = Hole
  Base = 2
  Server = {s1, s2, s3}
  Fd = {1, 2}
  NoFd = NoFd
  Closed = Closed
  NoEntry = NoEntry
  Slot = {1, 2, 3, 4, 5, 6, 7, 8}
  Dest <- mcDest
  WaitClose = TRUE
  RetryMax = 1
  FaultKinds = {"chain", "send", "close"}
  MaxFaults = 1
INVARIANTS UploadComplete AckedIsStored NeverCancelled
PROPERTIES EverythingEnds
