SPECIFICATION MainSpec
CONSTANTS
  INT = INT
  TERM = TERM
  r1 = r1
  r2 = r2
  NoFile = NoFile
  IntMax = 99999
  NumberOf <- mcNumberOf
  AtoiOf <- mcAtoiOf
  SuffixOf <- mcSuffixOf
  Inputs <- mcInputs
  CurDir <- mcCurDir
  Sig = {INT, TERM}
  Req = {r1, r2}
INVARIANTS MainTypeOK ListensAsTold StatusIsTrue OnlyRacesKill
PROPERTIES FineIsLoaded SignalEnds
CHECK_DEADLOCK FALSE
