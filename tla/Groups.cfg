SPECIFICATION RunSpec
CONSTANTS
  p1 = p1  p2 = p2  p3 = p3  c1 = c1  c2 = c2  Off = Off
  Compatible = Compatible  None = None
  Names <- AllNames
  Callers <- TwoCallers
  FallbackLists <- SomeLists
  FallbackMoves = 4
  Objects <- FiveObjects
  URLTestLists <- TwoLists
  NameOf <- NameIn
  Delays <- SomeDelays
  Tolerance = 100
  URLTestMoves = 3
  Groups <- SomeGroups
  Offers <- SomeOffers
  MaxUpdates = 2
  Strategies = {"round-robin", "consistent-hashing", "sticky-sessions"}
  LbLists <- BalancedLists
  Keys = {1, 2}
  MaxRetry = 3
  MaxPicks = 4
  MaxLbMoves = 3
  Testers <- TwoCallers
  Readers = {r1}
  Cap = 2
  Elapsed <- Milliseconds
  MaxTests = 5
SYMMETRY Symmetry
INVARIANTS
  QueueIsSafe DelayWasMeasured GroupsChooseRight OfferIsCurrent BalanceIsFair
CHECK_DEADLOCK FALSE
