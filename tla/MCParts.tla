------------------------------- MODULE MCParts ------------------------------
(***************************************************************************)
(* The components whose state is one record, for model checking: what goes *)
(* through the program, and the services that keep it going.  A            *)
(* configuration names in Active the components that it is about, and the  *)
(* first state chooses one of them: the state spaces add up and do not     *)
(* multiply.  The parameters of the components that theorems are about are *)
(* constants of this module, so that the theorems hold for all of them.    *)
(***************************************************************************)
EXTENDS Integers, Sequences, FiniteSets, TLC

CONSTANTS
  Active, x1, x2, x3, Nil,
  UdpPackets, UdpKeys, UdpDests, UdpReplies, UdpFaults,
  TcpBytes, TcpTries,
  SniffConnections, SniffDests, Sniffs, SniffLimit, Pushers, Pushes, Resets,
  DnsQuestions, MainServers, FallbackServers, DnsTTLs, DnsRequests, DnsNow,
  DnsExchanges, HttpVersions, HttpClients, QuicConns, DnsFaults,
  DhcpQueries, DhcpNetworks, IfaceTTL, DhcpTTL, DhcpNow, DhcpChanges,
  RelayDials, TuicInstances, TuicStreams, TuicClients, TuicConns, TuicHandlers, TuicAssociations, HostLengths,
  HysteriaConns, HysteriaMessages, FragmentWidth, HopPorts, HopSockets, HopQueue,
  Updates, UpdateCrashes,
  Choosers, ChoiceLists, ChoiceNames, ChoiceReloads,
  LifeRequests, LifeConfigs,
  ListenerConfigs, ListenerPatches, ListenerNames, ListenerRequests, ListenerFaults

\* Nil is none of the files, nor a request, a version of HTTP or an error of an
\* exchange; an interface gets some address, a group offers some list, and the
\* limits are numbers.
ASSUME NilAssumption == Nil \notin {"old", "new", "torn"} /\ Nil \notin LifeRequests
ASSUME DnsAssumption == Nil \notin {"h2", "h3", "timeout", "retry", "0rtt", "other", "canceled", "closed"}
ASSUME ServiceAssumption ==
  DhcpNetworks # {} /\ ChoiceLists # {} /\ IfaceTTL \in Nat /\ DhcpTTL \in Nat /\ SniffLimit \in Nat

Three == {x1, x2, x3}
Symmetry == Permutations(Three)

OutParts == {"doh", "doq", "dial", "fast-open", "bind", "outbounds", "frames", "handshake", "deadline", "tuic", "tuic-server", "tuic-commands",
  "hysteria", "fragments", "hop"}
TunnelParts == {"udp", "tcp", "sniffer", "statistic"}
TrafficParts == OutParts \cup TunnelParts
ServiceParts == {"resolver", "dhcp", "listeners", "updater", "selection", "life"}

VARIABLES
  active,       \* the component that moves
  s             \* its state

-----------------------------------------------------------------------------
(* The DNS clients, and relays over QUIC *)

SomeQuestions ==
  {[type |-> "ip", policy |-> {}, only |-> FALSE],
   [type |-> "ip", policy |-> {}, only |-> TRUE],
   [type |-> "unkept", policy |-> {"p"}, only |-> FALSE]}

RS == INSTANCE Resolver WITH
  Questions <- DnsQuestions, Main <- MainServers, Fallback <- FallbackServers, TTLs <- DnsTTLs,
  MaxRequests <- DnsRequests, MaxNow <- DnsNow, rs <- s

\* Answers live for a number of seconds, and Nil is neither a call nor any
\* of the records.
ASSUME ResolverAssumption == DnsTTLs \subseteq Nat /\ DnsRequests \in Nat
ASSUME ResolverNilAssumption ==
  /\ Nil \notin Nat /\ Nil \notin RS!Messages /\ Nil \notin RS!Entries
  /\ Nil \notin RS!Flights /\ Nil \notin RS!Results

DH == INSTANCE DnsClients WITH
  Exchanges <- DnsExchanges, VersionSets <- HttpVersions, MaxClients <- HttpClients, MaxFaults <- DnsFaults,
  MaxConns <- QuicConns, Queries <- DhcpQueries, Networks <- DhcpNetworks, DHCPTTL <- DhcpTTL,
  MaxNow <- DhcpNow, MaxChanges <- DhcpChanges, dh <- s, dq <- s, dc <- s

SomeInstances ==
  {[udp |-> FALSE, dialers |-> {"direct", "proxy"}, faults |-> 0],
   [udp |-> FALSE, dialers |-> {"direct"}, faults |-> 1],
   [udp |-> TRUE, dialers |-> {"direct"}, faults |-> 1]}
TU == INSTANCE TuicRelay WITH
  Dials <- RelayDials, Instances <- TuicInstances, MaxOpenStreams <- TuicStreams,
  MaxClients <- TuicClients, MaxConns <- TuicConns,
  Handlers <- TuicHandlers, Associations <- TuicAssociations, tc <- s, ts <- s, cm <- s

SomeMessages ==
  {[id |-> 1, length |-> 1], [id |-> 1, length |-> 3], [id |-> 2, length |-> 3], [id |-> 3, length |-> 4]}
SomePorts == {<< <<1>> >>, << <<3, 2>>, <<5>> >>, << <<1>>, <<1, 2, 3>> >>}
HY == INSTANCE HysteriaRelay WITH
  Dials <- RelayDials, MaxConns <- HysteriaConns, Messages <- HysteriaMessages, Width <- FragmentWidth,
  Ports <- HopPorts, MaxSockets <- HopSockets, QueueSize <- HopQueue, hy <- s, fr <- s, hop <- s

\* The dials are finitely many, and one stream at least is allowed; a name has a
\* length; a message has a number that is not zero and at least one unit.
ASSUME RelaysAssumption ==
  /\ IsFiniteSet(RelayDials) /\ TuicStreams \in Nat \ {0} /\ HostLengths \subseteq Nat
  /\ \A in \in TuicInstances : in.udp \in BOOLEAN /\ in.faults \in Nat
  /\ FragmentWidth \in Nat \ {0} /\ HysteriaMessages \subseteq [id : Nat \ {0}, length : Nat \ {0}]

-----------------------------------------------------------------------------
(* The tunnel *)

SomeDests == {[asked |-> "fake", real |-> "r"], [asked |-> "s", real |-> "s"]}

UN == INSTANCE UdpNatProofs WITH
  Packets <- UdpPackets, Keys <- UdpKeys, Dests <- UdpDests, MaxReplies <- UdpReplies, MaxFaults <- UdpFaults,
  un <- s

TC == INSTANCE TcpConn WITH MaxBytes <- TcpBytes, MaxTries <- TcpTries, tc <- s

CO == INSTANCE Counters WITH
  Connections <- SniffConnections, Dests <- SniffDests, MaxSniffs <- Sniffs, Limit <- SniffLimit,
  MaxPushes <- Pushes, MaxResets <- Resets,
  sn <- s, st <- s

-----------------------------------------------------------------------------
(* What goes out: the proxies, their dialers and transports *)

\* Every kind of proxy, over one of each kind of dialling, and relays of them.
OutboundOption(type, net) ==
  [type |-> type, net |-> net, via |-> Nil, tls |-> TRUE, mux |-> FALSE, uot |-> FALSE, version |-> IF type = "ss" THEN 0 ELSE 3,
   members |-> <<>>, flow |-> "", encoding |-> "", packetAddr |-> FALSE, xudp |-> FALSE, udp |-> TRUE, reality |-> FALSE, gunReality |-> FALSE]
OutboundKinds ==
  {OutboundOption(t, "tcp") : t \in {"ssr", "snell", "socks5", "tuic", "hysteria", "direct", "reject"}}
  \cup {OutboundOption(t, n) : t \in {"vless", "vmess"}, n \in {"h2", "grpc"}}
  \cup {OutboundOption("trojan", n) : n \in {"ws", "grpc"}}
  \cup {[OutboundOption("snell", "tcp") EXCEPT !.version = 2, !.udp = FALSE], [OutboundOption("ss", "restls") EXCEPT !.uot = TRUE],
        [OutboundOption("ss", "websocket") EXCEPT !.mux = TRUE]}
OutboundVias ==
  {[OutboundOption("http", "tcp") EXCEPT !.udp = FALSE], OutboundOption("vless", "grpc"), OutboundOption("tuic", "tcp"),
   [OutboundOption("ss", "restls") EXCEPT !.uot = TRUE],
   [OutboundOption("vmess", "tcp") EXCEPT !.mux = TRUE], OutboundOption("direct", "tcp")}
OutboundConfigs ==
  {[a |-> [k EXCEPT !.via = via], b |-> v, r |-> [OutboundOption("relay", "tcp") EXCEPT !.members = hops]] :
     k \in OutboundKinds, v \in OutboundVias, via \in {Nil, "b"}, hops \in {<<"b", "a">>}}
  \cup {[a |-> [k EXCEPT !.via = "none"], r |-> [OutboundOption("relay", "tcp") EXCEPT !.members = hops]] :
     k \in OutboundKinds, hops \in {<<"a">>, <<>>}}
  \cup {[a |-> [OutboundOption(t, n) EXCEPT !.flow = f, !.version = w, !.encoding = e, !.packetAddr = pa, !.xudp = x, !.udp = u, !.reality = TRUE]] :
     t \in {"vless", "vmess", "trojan", "ss", "snell", "other"}, n \in {"tcp", "grpc", "ws"}, f \in {"", "vision", "bad"}, w \in {0, 2, 4},
     e \in {"", "packet", "xudp"}, pa \in BOOLEAN, x \in BOOLEAN, u \in BOOLEAN}
OB == INSTANCE Outbounds WITH
  Configs <- OutboundConfigs, MaxCalls <- 2, MaxDrops <- 1, ob <- s

DI == INSTANCE Dialer WITH
  MaxAddrs <- 2, MaxUses <- 3, MaxCloses <- 2, IfaceAddrs <- [family : {4, 6}, net : 0 .. 2], MaxAddrsOfIface <- 3,
  di <- s, tf <- s, bd <- s

SomeCodecs ==
  {"chunk", "snell", "iv", "record", "grpc", "mux", "ws", "ssr", "response", "peek", "trojan", "vless",
   "snell udp", "vision"}
\* One write of each size: less than a piece, a piece, and more than one.
FR == INSTANCE Framing WITH
  Codecs <- SomeCodecs, Bufs <- {1, 3}, Sizes <- {1, 2, 3},
  MaxPiece <- 2, MaxWrites <- 3, fr <- s, hs <- s, pd <- s

-----------------------------------------------------------------------------
(* The configuration and what it sets up *)

\* Configurations that are right, and that fail at one stage or another.
Cfg(bad, dns, store) ==
  [bad |-> bad, utls |-> Nil, rp |-> {bad}, range |-> 1, tun |-> FALSE, dns |-> dns, proxyNS |-> FALSE,
   concurrent |-> FALSE, iptables |-> FALSE, store |-> store]
SomeLives ==
  <<[Cfg(Nil, TRUE, TRUE) EXCEPT !.range = 2, !.concurrent = TRUE, !.proxyNS = TRUE, !.utls = "chrome"],
    Cfg(Nil, FALSE, FALSE), [Cfg("sniffer", TRUE, TRUE) EXCEPT !.range = 3], Cfg("nameserver", TRUE, FALSE),
    Cfg("proxies", TRUE, TRUE), [Cfg(Nil, TRUE, FALSE) EXCEPT !.iptables = TRUE, !.tun = TRUE]>>
CL == INSTANCE ConfigLife WITH Requests <- LifeRequests, Configs <- LifeConfigs, cl <- s

UP == INSTANCE Updater WITH MaxUpdates <- Updates, MaxCrashes <- UpdateCrashes, up <- s

SomeLists == {<<"a", "b">>, <<"b", "c">>}
SL == INSTANCE Selection WITH
  Clients <- Choosers, Lists <- ChoiceLists, Names <- ChoiceNames, MaxReloads <- ChoiceReloads, sl <- s

\* Four configurations that move ports between listeners, and patches.
Base == [lan |-> FALSE, http |-> 0, socks |-> 0, redir |-> 0, tproxy |-> 0, mixed |-> 0, ss |-> 0,
         vmess |-> 0, tuic |-> 0, auto |-> FALSE, tun |-> 0, tc |-> FALSE, tunnels |-> {},
         inbound |-> << >>]
SomeListeners ==
  {[Base EXCEPT !.mixed = 1, !.ss = 2, !.inbound = [a |-> 3, b |-> 4], !.tun = 1, !.tc = TRUE],
   [Base EXCEPT !.lan = TRUE, !.http = 1, !.socks = 2, !.inbound = [a |-> 4, b |-> 1], !.auto = TRUE],
   [Base EXCEPT !.redir = 1, !.tproxy = 2, !.tunnels = {<<"tcp", 3>>, <<"udp", 1>>}, !.tuic = 4],
   [Base EXCEPT !.vmess = 1, !.mixed = 2, !.tun = 2]}
SomePatches == {[lan |-> TRUE], [mixed |-> 2], [tun |-> 1, http |-> 0], [socks |-> 1, redir |-> 2]}
L == INSTANCE Listeners WITH
  Configs <- ListenerConfigs, Patches <- ListenerPatches, Names <- ListenerNames,
  MaxRequests <- ListenerRequests, MaxFaults <- ListenerFaults, ln <- s

\* A configuration has a port or none for every kind of listener, a patch for
\* some; and the names are told from the other owners of sockets.
ASSUME ListenersAssumption ==
  /\ ListenerNames \cap (L!Kinds \cup {"auto", "tunnel"}) = {}
  /\ \A c \in ListenerConfigs :
       /\ \A k \in L!Kinds \cup {"tun"} : c[k] \in Nat
       /\ c.lan \in BOOLEAN /\ c.auto \in BOOLEAN /\ c.tc \in BOOLEAN
       /\ c.tunnels \subseteq {"tcp", "udp"} \X Nat
       /\ DOMAIN c.inbound \subseteq ListenerNames /\ \A n \in DOMAIN c.inbound : c.inbound[n] \in Nat
  /\ \A b \in ListenerPatches :
       /\ \A k \in (L!Kinds \cup {"tun"}) \cap DOMAIN b : b[k] \in Nat
       /\ "lan" \in DOMAIN b => b.lan \in BOOLEAN
  /\ Nil \notin {"any", "local", "text"} \X Nat

-----------------------------------------------------------------------------

RunInit ==
  /\ active \in Active
  /\ \/ active = "resolver" /\ RS!Init
     \/ active = "doh" /\ DH!Init
     \/ active = "doq" /\ DH!QuicInit
     \/ active = "tuic" /\ TU!ClientInit
     \/ active = "tuic-server" /\ TU!ServerInit
     \/ active = "tuic-commands" /\ TU!CommandsInit
     \/ active = "hysteria" /\ HY!SessionsInit
     \/ active = "fragments" /\ HY!FragmentsInit
     \/ active = "hop" /\ HY!HopInit
     \/ active = "dhcp" /\ DH!DhcpInit
     \/ active = "dial" /\ DI!DialInit
     \/ active = "fast-open" /\ DI!TfoInit
     \/ active = "bind" /\ DI!BindInit
     \/ active = "outbounds" /\ OB!Init
     \/ active = "frames" /\ FR!Init
     \/ active = "handshake" /\ FR!HsInit
     \/ active = "deadline" /\ FR!PdInit
     \/ active = "udp" /\ UN!Init
     \/ active = "tcp" /\ TC!Init
     \/ active = "sniffer" /\ CO!SnifferInit
     \/ active = "statistic" /\ CO!StatisticInit
     \/ active = "listeners" /\ L!Init
     \/ active = "updater" /\ UP!Init
     \/ active = "selection" /\ SL!Init
     \/ active = "life" /\ CL!Init

RunNext ==
  /\ UNCHANGED active
  /\ \/ active = "resolver" /\ RS!Next
     \/ active = "doh" /\ DH!Next
     \/ active = "doq" /\ DH!QuicNext
     \/ active = "tuic" /\ TU!ClientNext
     \/ active = "tuic-server" /\ TU!ServerNext
     \/ active = "tuic-commands" /\ TU!CommandsNext
     \/ active = "hysteria" /\ HY!SessionsNext
     \/ active = "fragments" /\ HY!FragmentsNext
     \/ active = "hop" /\ HY!HopNext
     \/ active = "dhcp" /\ DH!DhcpNext
     \/ active = "dial" /\ DI!DialNext
     \/ active = "fast-open" /\ DI!TfoNext
     \/ active = "bind" /\ DI!BindNext
     \/ active = "outbounds" /\ OB!Next
     \/ active = "frames" /\ FR!Next
     \/ active = "handshake" /\ FR!HsNext
     \/ active = "deadline" /\ FR!PdNext
     \/ active = "udp" /\ UN!Next
     \/ active = "tcp" /\ TC!Next
     \/ active = "sniffer" /\ CO!SnifferNext
     \/ active = "statistic" /\ CO!StatisticNext
     \/ active = "listeners" /\ L!Next
     \/ active = "updater" /\ UP!Next
     \/ active = "selection" /\ SL!Next
     \/ active = "life" /\ CL!Next

RunSpec == RunInit /\ [][RunNext]_<<active, s>>

-----------------------------------------------------------------------------
(* The properties of the components *)

\* The resolver: every exchange that waits has a flight, or its result, to wait
\* for; no two receivers, nor the cache, hold the same message; an answer that a
\* filter refuses is not taken from the main servers; and a call asks its
\* servers at most twice.
ResolverAnswers ==
  active = "resolver" =>
    RS!NobodyStranded /\ RS!NoMessageShared /\ RS!FilterIsKept /\ RS!AtMostOneRetry

\* DNS over HTTPS and QUIC: no client or connection but the one in use is left
\* open, unless exchanges over QUIC overlap, and an exchange survives a server
\* that has restarted.
EncryptedDnsRecovers ==
  /\ active = "doh" => DH!NoClientLeft /\ DH!SurvivesRestart
  /\ active = "doq" => DH!NoConnLeft /\ DH!QuicSurvivesRestart

\* Nobody waits for a DHCP request that is not under way, and the servers in use
\* are those of the address of the interface.
DhcpServersCurrent == active = "dhcp" => DH!WaitsForSomething /\ DH!ServersOfAddress

\* Outbounds: the options that contradict each other are put right; whoever claims
\* to support UDP does not refuse it; bytes take the route that is configured;
\* a failed dial leaves nothing open, but where no guard stands; a shared
\* connection that is handed out is open; of parallel dials only the result stays
\* open, and an error means that every address failed; a connection that dials at
\* its first write is closed with its dial, and wakes its reader; and a socket is
\* bound to an address that reaches its remote.
OutboundsClean ==
  /\ active = "outbounds" =>
       /\ OB!OptionsAreSound /\ OB!UdpIsSupported /\ OB!RouteIsConfigured
       /\ OB!NothingLeftOpen /\ OB!SharedIsOpen
  /\ active = "dial" => DI!OnlyResultIsOpen /\ DI!ErrorIfAllFail
  /\ active = "fast-open" => DI!TfoIsClosed /\ DI!ReaderHears
  /\ active = "bind" => DI!BoundRight

\* Transports: every byte of a stream is read once and in its order, and a
\* packet is not mixed with another, however the network cuts them up; a
\* handshake loses nothing that is written during it; early data leave nobody
\* waiting and nothing open; and a packet outlives the deadline of its reader.
FramesKept ==
  /\ active = "frames" => FR!StreamKept /\ FR!PacketsKept
  /\ active = "handshake" => FR!HandshakeKeepsAll /\ FR!EarlyEnds
  /\ active = "deadline" => FR!DeadlineKeepsPackets

\* UDP: every session in the NAT table has a reader that will take it out again
\* and close it; a reply comes, for the client, from the address that it wrote
\* to; and local sockets do not outlive their session, unless an address had two.
UdpSessionsKept == active = "udp" => UN!UdpSessionsKept

\* TCP: a proxy gets the bytes of the client in order, each once; only
\* connections whose handshake failed are left open; peek and relay never read
\* the client at the same time; and every byte that is relayed is counted once.
TcpStreamKept ==
  active = "tcp" =>
    TC!StreamIntact /\ TC!OnlyRefusedAreLeft /\ TC!OneReader /\ TC!EveryByteCounted

\* A destination is skipped by the sniffer only after enough failures without a
\* success, and no byte is shown in two speeds.
CountersRight ==
  (active = "sniffer" => CO!SkipIsEarned) /\ (active = "statistic" => CO!SpeedNeverOvercounts)

\* While connections are let in, everything comes from the configuration applied
\* last, and the TUN device lies in the fake range of its own configuration, if
\* that was parsed alone.
RunningIsWhole == active = "life" => CL!RunningIsWhole /\ CL!TunInOwnRange

\* An update that is stopped anywhere leaves an executable to go on with, or to
\* put back; what stands in its place is whole, unless a Close failed; and what
\* it left behind fails one update at most.
UpdateCanBeRepaired == active = "updater" => UP!UpdateCanBeRepaired

\* The last choice stays made over reloads and restarts, unless requests overlap,
\* and only names that the list had are selected or stored.
ChoiceIsKept == active = "selection" => SL!ChoiceIsKept /\ SL!NoUnknownSelected

\* Listeners: no socket is open that no listener refers to; a forced
\* configuration is in force when it ends, but for contested ports; a patch
\* leaves the listeners it does not name alone; and a named inbound listens,
\* unless it failed to start before.
ListenersMatchConfig ==
  active = "listeners" =>
    L!NoSocketLost /\ L!ConfigInForce /\ L!PatchKeepsOthers /\ L!InboundListens

\* The relays over QUIC: no more streams than the limit, and none kept when its
\* client is gone; every session can be reached and is taken out again; only who
\* is authenticated is served, and replies end with the association; a message is
\* put together from its own fragments; and the sockets of a client that hops
\* between ports are closed.
RelaysKept ==
  /\ active = "tuic" => TU!StreamLimit /\ TU!NothingKept /\ TU!SessionsAreRegistered
  /\ active = "tuic-server" => TU!OnlyAuthenticated /\ TU!GoneDoNotReply
  /\ active = "tuic-commands" => TU!CommandsAreRead
  /\ active = "hysteria" => HY!SessionsAreReachable /\ HY!OwnMessages /\ HY!StreamsAreClosed
  /\ active = "fragments" => HY!MessagesAreWhole
  /\ active = "hop" => HY!SocketsAreClosed /\ HY!SentToTheServer

=============================================================================
