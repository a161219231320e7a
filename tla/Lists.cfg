SPECIFICATION RunSpec
CONSTANTS
  v1 = v1  v2 = v2  a1 = a1
  Contents <- TwoContents
  Bad = Bad  Torn = Torn  None = None
  Initial = Initial  Pull = Pull
  Api <- OneRequest
  Versions = 2
  MaxChanges = 2
  MaxErrors = 1
  MaxCrashes = 1
INVARIANTS AddressListExact ProviderIsConsistent
PROPERTY ProviderRecovers
CHECK_DEADLOCK FALSE
