SPECIFICATION SenderFairSpec
CONSTANTS
  c1 = c1
  t1 = t1
  Client = {c1}
  Worker = {1, 2, 3}
  N = 3
  Method = "tree"
  Files <- mcFiles
  ChunkSize = 2
  Token = {t1}
  NoToken = NoToken
INVARIANTS SenderTypeOK SendComplete ClaimedOnce CloseAfterJoin SuccessClosesAll
PROPERTY UploadsEnd
