SPECIFICATION RunSpec
CONSTANTS
  d1 = d1  d2 = d2  d3 = d3  l1 = l1  l2 = l2  b1 = b1  b2 = b2
  Zero = Zero  Empty = Empty  Wrong = Wrong
  Dials <- ThreeDials
  Lookups <- TwoLookups
  PeerBytes <- TwoBytes
  MaxPeers = 2
  Resolver = TRUE
  None = None
SYMMETRY Symmetry
INVARIANTS AdapterIsThere DeviceIsReady OptionsAreChecked
CHECK_DEADLOCK FALSE
