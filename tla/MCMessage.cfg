SPECIFICATION MessageFairSpec
CONSTANTS
  Messages <- mcMessages
  SizeLimit = 15
  LenWidth = 11
  RetryMax = 1
INVARIANTS RoundTrip CompleteAtEnd RefusesOnlyLong
PROPERTIES CallEnds
