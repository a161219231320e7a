SPECIFICATION RunSpec
CONSTANTS
  Active <- TrafficParts
  x1 = x1  x2 = x2  x3 = x3  Nil = Nil
  UdpPackets <- Three  UdpKeys = {"k"}  UdpDests <- SomeDests  UdpReplies = 1  UdpFaults = 1
  TcpBytes = 2  TcpTries = 3
  SniffConnections = {"c", "d"}  SniffDests = {"v"}  Sniffs = 8  SniffLimit = 5
  Pushers = {"c", "d"}  Pushes = 4  Resets = 1
  DnsQuestions <- SomeQuestions  MainServers = {"m"}  FallbackServers = {"f"}  DnsTTLs = {0}
  DnsRequests = 2  DnsNow = 1
  DnsExchanges <- Three  HttpVersions = {{"h2"}, {"h3"}, {"h2", "h3"}}
  HttpClients = 5  QuicConns = 4  DnsFaults = 2
  DhcpQueries = {"p", "q"}  DhcpNetworks = {"m", "n"}
  IfaceTTL = 1  DhcpTTL = 2  DhcpNow = 5  DhcpChanges = 3
  RelayDials <- Three  TuicInstances <- SomeInstances  TuicStreams = 2  TuicClients = 2  TuicConns = 2
  TuicHandlers <- Three  TuicAssociations = {1, 2}  HostLengths = {1, 254, 255, 256}
  HysteriaConns = 2  HysteriaMessages <- SomeMessages  FragmentWidth = 4
  HopPorts <- SomePorts  HopSockets = 5  HopQueue = 2
  Updates = 3  UpdateCrashes = 2
  Choosers = {1, 2}  ChoiceLists <- SomeLists  ChoiceNames = {"a", "b", "z"}  ChoiceReloads = 3
  LifeRequests = {1, 2}  LifeConfigs <- SomeLives
  ListenerConfigs <- SomeListeners  ListenerPatches <- SomePatches  ListenerNames = {"a", "b"}
  ListenerRequests = 2  ListenerFaults = 2
SYMMETRY Symmetry
INVARIANTS
  UdpSessionsKept TcpStreamKept CountersRight EncryptedDnsRecovers  FramesKept RelaysKept
CHECK_DEADLOCK FALSE
