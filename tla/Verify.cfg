SPECIFICATION FairSpec
CONSTANTS
  c1 = c1
  c2 = c2
  s1 = s1
  s2 = s2
  Null = Null
  Caller = {c1, c2}
  Verifier = {c1}
  Suffix = {s1}
  JobID <- MCJobID
  Requirements <- MCRequirements
  Document <- MCDocument
  Prints <- MCPrints
  Symbol <- MCSymbol
  Notice <- MCNotice
  LogLimit = 8
  MaxFaults = 1
INVARIANTS
  TypeOK
  NothingLeftUnsaid
  ScoresWhatTheTesterSaid
  ValidMeansAsClaimed
  ReportsAreComplete
PROPERTIES
  RemovesOnlyItsOwn
  EveryVerificationEnds
CHECK_DEADLOCK FALSE
