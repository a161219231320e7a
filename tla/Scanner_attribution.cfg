SPECIFICATION Spec
CONSTANTS
  NumJobs = 2
  PingCount = 2
  Workers = {w1, w2}
  Elapsed = {4}
  Torn = torn
  None = none
INVARIANT PrintedAddressReplied
