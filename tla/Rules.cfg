SPECIFICATION RunSpec
CONSTANTS
  Active <- RuleParts
  Nil = Nil
INVARIANTS
  FakePairsHold  RoutedRight  AddressesMatched
CHECK_DEADLOCK FALSE
