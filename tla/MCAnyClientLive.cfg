SPECIFICATION ServerFairSpec
CONSTANTS
  s1 = s1
  a = a
  b = b
  na = na
  nb = nb
  nx = nx
  ta = ta
  tx = tx
  f1 = f1
  f2 = f2
  j1 = j1
  j2 = j2
  Server = {s1}
  Path = {a, b}
  Name = {na, nb, nx}
  FileOf <- mcFileOf
  Before <- mcBefore
  Token = {ta, tx}
  NoToken = NoToken
  TokenOf <- mcTokenOf
  Fd = {f1}
  NoFd = NoFd
  Closed = Closed
  NoEntry = NoEntry
  Slot = {j1, j2}
  ForwardErr = {"ok", "EIO"}
  Offset = {0}
  Source = {"src", "old"}
  Hole = "hole"
  Base = 2
  Requests <- mcLiveRequests
PROPERTIES HandlersEnd LateCloseDone
