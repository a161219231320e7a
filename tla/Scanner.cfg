SPECIFICATION FairSpec
CONSTANTS
  NumJobs = 2
  PingCount = 2
  Workers = {w1, w2}
  \* One reply below and one above the resolution of p / pingCount, and one that
  \* a uint16 takes for none.
  Elapsed = {1, 4, 65536}
  Torn = torn
  None = none
INVARIANTS
  AttributedUntilTimeout
  PositiveAnswerIsPrinted
  NothingLostWithoutTimeout
  SilentOnlyBelowResolution
PROPERTIES
  ScanTerminates
  RefinesScan
