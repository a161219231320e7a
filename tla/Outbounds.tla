------------------------------ MODULE Outbounds -----------------------------
(***************************************************************************)
(* How a proxy dials: its own protocol over a transport over a connection  *)
(* that may itself go through another proxy (dialer-proxy, relay), through *)
(* a session shared by many connections (gRPC, smux, TUIC, Hysteria) or    *)
(* one that was used before (Snell).                                       *)
(*                                                                         *)
(* A function of the code is the sequence of its steps, and a stack of     *)
(* frames executes them.  Any step that talks to a server or a resolver    *)
(* may fail.  A connection is the set of sockets it holds and the layers   *)
(* it has, each with the proxy that put it there and what that proxy was   *)
(* asked to connect to.                                                    *)
(***************************************************************************)
EXTENDS Integers, Sequences, FiniteSets

CONSTANTS
  Configs,      \* sets of proxies: functions from names to options
  MaxCalls,     \* how many connections are made
  MaxDrops,     \* how often the other end closes a shared connection
  Nil

VARIABLE ob
vars == <<ob>>

Dest == "dest"                \* what the user wants to reach
NoConn == [raw |-> {}, layers |-> <<>>]

-----------------------------------------------------------------------------
(* The steps *)

Do(what) == <<[do |-> what, as |-> Nil]>>
Wrap(as) == <<[do |-> "wrap", as |-> as]>>
Obfs == <<[do |-> "layer", as |-> "obfs"]>>      \* cannot fail
Header == Wrap("header")
Packets == <<[do |-> "layer", as |-> "packets"]>>  \* each packet has a header of its own
ByName == Do("by name")       \* the dialer-proxy goes in front of the dialer
Dial == Do("dial")
Listen == Do("listen")
Guard == Do("guard")          \* defer safeConnClose
Resolve == Do("resolve")
TlsIf(tls) == IF tls THEN Wrap("tls") ELSE <<>>
Unsupported == Do("unsupported")

\* What the functions named ...DialContextWithDialer have in common.
DialThen(steps) == ByName \o Dial \o Guard \o steps

\* A stream on the HTTP/2 connection of the transport, which is dialled when
\* there is none.
GunStream == Do("gun stream") \o Guard \o Do("session")
GunDial(o) == ByName \o Dial \o Guard \o Wrap("gun")

VlessLayers(o) ==
  CASE o.net = "ws" -> Wrap("ws")
    [] o.net = "http" -> TlsIf(o.tls) \o Wrap("http")
    [] o.net = "h2" -> TlsIf(o.tls) \o Wrap("h2")
    [] o.net = "grpc" -> Wrap("gun")
    [] OTHER -> TlsIf(o.tls)
VlessStreamConnContext(o) == VlessLayers(o) \o Header
VlessDialContextWithDialer(o) == DialThen(VlessStreamConnContext(o))
VlessDialContext(o, opts) ==
  IF o.net = "grpc" /\ ~opts THEN GunStream \o Header ELSE VlessDialContextWithDialer(o)
VlessListenPacketOnStreamConn(o) == Resolve
VlessListenPacketWithDialer(o) ==
  ByName \o Resolve \o Dial \o Guard \o VlessStreamConnContext(o) \o VlessListenPacketOnStreamConn(o)
VlessListenPacketContext(o, opts) ==
  Resolve \o (IF o.net = "grpc" /\ ~opts THEN GunStream \o Header \o VlessListenPacketOnStreamConn(o)
                                         ELSE VlessListenPacketWithDialer(o))

VmessLayers(o) ==
  CASE o.net = "ws" -> Wrap("ws")
    [] o.net = "http" -> TlsIf(o.tls) \o Wrap("http")
    [] o.net = "h2" -> Wrap("tls") \o Wrap("h2")
    [] o.net = "grpc" -> Wrap("gun")
    [] OTHER -> TlsIf(o.tls)
VmessStreamConnContext(o) == VmessLayers(o) \o Header
VmessDialContextWithDialer(o) == DialThen(VmessStreamConnContext(o))
VmessDialContext(o, opts) ==
  IF o.net = "grpc" /\ ~opts THEN GunStream \o Header ELSE VmessDialContextWithDialer(o)
VmessListenPacketOnStreamConn(o) == Resolve
VmessListenPacketWithDialer(o) ==
  ByName \o Resolve \o Dial \o Guard \o VmessStreamConnContext(o) \o VmessListenPacketOnStreamConn(o)
VmessListenPacketContext(o, opts) ==
  Resolve \o (IF o.net = "grpc" /\ ~opts THEN GunStream \o Header \o VmessListenPacketOnStreamConn(o)
                                         ELSE VmessListenPacketWithDialer(o))

\* UDP through a dialer takes the plain stream, whatever the network.
TrojanPlainStream(o) == IF o.net = "ws" THEN Wrap("ws") ELSE Wrap("tls")
TrojanStreamConnContext(o) ==
  (IF o.net = "grpc" THEN Wrap("gun") ELSE TrojanPlainStream(o)) \o Header
TrojanDialContextWithDialer(o) == DialThen(TrojanStreamConnContext(o))
TrojanDialContext(o, opts) ==
  IF o.net = "grpc" /\ ~opts THEN GunStream \o Header ELSE TrojanDialContextWithDialer(o)
TrojanListenPacketWithDialer(o) == DialThen(TrojanPlainStream(o) \o Header)
TrojanListenPacketContext(o, opts) ==
  IF o.net = "grpc" /\ ~opts THEN GunStream \o Header ELSE TrojanListenPacketWithDialer(o)

SSStreamConnContext(o) == (IF o.net = "tcp" THEN <<>> ELSE Wrap(o.net)) \o Header
SSDialContextWithDialer(o) == DialThen(SSStreamConnContext(o))
SSListenPacketOnStreamConn(o) == Resolve
\* UDP over TCP hands its dialer on, which has the dialer-proxy in front
\* already, and has no deferred close.
SSListenPacketWithDialer(o) ==
  IF o.uot THEN ByName \o Do("call") \o SSListenPacketOnStreamConn(o)
           ELSE ByName \o Do("resolve server") \o Listen \o Packets

SSRStreamConnContext(o) == Obfs \o Header
SSRDialContextWithDialer(o) == DialThen(SSRStreamConnContext(o))
SSRListenPacketWithDialer(o) == ByName \o Do("resolve server") \o Listen \o Packets

SnellStreamConnContext(o) == Obfs \o Header
SnellDialContextWithDialer(o) == DialThen(SnellStreamConnContext(o))
SnellDialContext(o, opts) ==
  IF o.version = 2 /\ ~opts THEN Do("pool") \o Guard \o Header ELSE SnellDialContextWithDialer(o)
SnellPoolFactory(o) == ByName \o Dial \o Obfs
SnellListenPacketWithDialer(o) ==
  ByName \o Dial \o Obfs \o (IF o.version < 3 THEN Unsupported ELSE Header)

Socks5StreamConnContext(o) == TlsIf(o.tls) \o Header
Socks5DialContextWithDialer(o) == DialThen(Socks5StreamConnContext(o))
\* The packets go out of a socket of their own, without the dialer.
Socks5ListenPacketContext(o) ==
  DialThen(TlsIf(o.tls) \o Header \o Do("resolve server") \o Do("packet"))

HttpStreamConnContext(o) == TlsIf(o.tls) \o Header
HttpDialContextWithDialer(o) == DialThen(HttpStreamConnContext(o))

DirectDialContext == Do("direct")
DirectListenPacketContext == Resolve \o Do("direct")
RejectDialContext == Do("nop")

SingMuxDialContext(o) == Do("session") \o Do("stream")
SingMuxListenPacketContext(o) == Resolve \o Do("session") \o Do("stream")

TuicDialContextWithDialer(o) == Do("session") \o Do("stream")
TuicListenPacketWithDialer(o) == Do("session") \o Do("stream")
TuicDialWithDialer(o) == ByName \o Do("resolve server") \o Listen \o Guard \o Wrap("quic")
HysteriaDialContext(o) == Do("session") \o Do("stream")
HysteriaGenHdc(o) == ByName \o Listen \o Guard \o Wrap("quic")

\* DIRECT is no hop of a relay; without a hop it is what is left.
RelayHops(config, o) == SelectSeq(o.members, LAMBDA m : config[m].type # "direct")
RelayDialContext(config, o) ==
  IF RelayHops(config, o) = <<>> THEN DirectDialContext ELSE Do("call")
RelayListenPacketContext(config, o) ==
  IF RelayHops(config, o) = <<>> THEN DirectListenPacketContext ELSE Do("call")

-----------------------------------------------------------------------------
(* The functions by type.  With opts a proxy is called by a proxy dialer    *)
(* that is the last one; without it, by the tunnel.                         *)

DialContextWithDialer(o) ==
  CASE o.type = "vless" -> VlessDialContextWithDialer(o)
    [] o.type = "vmess" -> VmessDialContextWithDialer(o)
    [] o.type = "trojan" -> TrojanDialContextWithDialer(o)
    [] o.type = "ss" -> SSDialContextWithDialer(o)
    [] o.type = "ssr" -> SSRDialContextWithDialer(o)
    [] o.type = "snell" -> SnellDialContextWithDialer(o)
    [] o.type = "socks5" -> Socks5DialContextWithDialer(o)
    [] o.type = "http" -> HttpDialContextWithDialer(o)
    [] o.type = "tuic" -> TuicDialContextWithDialer(o)
    [] OTHER -> Unsupported

DialContext(config, o, opts) ==
  CASE o.mux -> SingMuxDialContext(o)
    [] o.type = "vless" -> VlessDialContext(o, opts)
    [] o.type = "vmess" -> VmessDialContext(o, opts)
    [] o.type = "trojan" -> TrojanDialContext(o, opts)
    [] o.type = "snell" -> SnellDialContext(o, opts)
    [] o.type = "direct" -> DirectDialContext
    [] o.type = "reject" -> RejectDialContext
    [] o.type = "hysteria" -> HysteriaDialContext(o)
    [] o.type = "relay" -> RelayDialContext(config, o)
    [] OTHER -> DialContextWithDialer(o)

ListenPacketWithDialer(o) ==
  CASE o.type = "vless" -> VlessListenPacketWithDialer(o)
    [] o.type = "vmess" -> VmessListenPacketWithDialer(o)
    [] o.type = "trojan" -> TrojanListenPacketWithDialer(o)
    [] o.type = "ss" -> SSListenPacketWithDialer(o)
    [] o.type = "ssr" -> SSRListenPacketWithDialer(o)
    [] o.type = "snell" -> SnellListenPacketWithDialer(o)
    [] o.type = "tuic" -> TuicListenPacketWithDialer(o)
    [] OTHER -> Unsupported

ListenPacketContext(config, o, opts) ==
  CASE o.mux -> SingMuxListenPacketContext(o)
    [] o.type = "vless" -> VlessListenPacketContext(o, opts)
    [] o.type = "vmess" -> VmessListenPacketContext(o, opts)
    [] o.type = "trojan" -> TrojanListenPacketContext(o, opts)
    [] o.type = "socks5" -> Socks5ListenPacketContext(o)
    [] o.type = "direct" -> DirectListenPacketContext
    [] o.type = "reject" -> RejectDialContext
    [] o.type = "hysteria" -> HysteriaDialContext(o)
    [] o.type = "relay" -> RelayListenPacketContext(config, o)
    [] OTHER -> ListenPacketWithDialer(o)

\* What makes the session that the connections of a proxy share.
SessionMaker(config, o) ==
  CASE o.mux -> DialContext(config, [o EXCEPT !.mux = FALSE], TRUE)
    [] o.type = "tuic" -> TuicDialWithDialer(o)
    [] o.type = "hysteria" -> HysteriaGenHdc(o)
    [] OTHER -> GunDial(o)

-----------------------------------------------------------------------------
(* What the constructors make of the options; Nil is an error.             *)

Check(cond, o) == IF cond THEN o ELSE Nil

\* The flow is looked at only where it can be used; packets are wrapped in one
\* way at most.
NewVless(o) ==
  LET flow == IF o.net = "ws" THEN "" ELSE o.flow
      packetAddr == o.encoding = "packet" \/ o.packetAddr
      xudp == IF o.encoding = "packet" THEN FALSE ELSE o.xudp \/ ~o.packetAddr
  IN Check(flow \in {"", "xtls", "vision"},
           [o EXCEPT !.flow = flow, !.xudp = xudp, !.packetAddr = packetAddr /\ ~xudp,
                     !.gunReality = o.reality])
\* The transport is made before the REALITY options are read.
NewVmess(o) ==
  LET packetAddr == o.encoding = "packet" \/ o.packetAddr
      xudp == o.encoding = "xudp" \/ o.xudp
  IN [o EXCEPT !.xudp = xudp, !.packetAddr = packetAddr /\ ~xudp, !.gunReality = FALSE]
NewTrojan(o) ==
  LET flow == IF o.net = "tcp" THEN o.flow ELSE "" IN
  Check(flow \in {"", "xtls"}, [o EXCEPT !.flow = flow, !.gunReality = o.reality])
\* version is that of UDP over TCP.
NewShadowSocks(o) ==
  Check(o.version \in {0, 1, 2} /\ o.net \in {"tcp", "http", "tls", "websocket", "shadow-tls", "restls"},
        [o EXCEPT !.version = IF @ = 0 THEN 1 ELSE @])
NewSnell(o) ==
  LET version == IF o.version = 0 THEN 1 ELSE o.version IN
  Check(o.net \in {"tcp", "http", "tls"} /\ (version = 3 \/ (version \in {1, 2} /\ ~o.udp)),
        [o EXCEPT !.version = version])
ParseProxy(o) ==
  CASE o.type = "vless" -> NewVless(o)
    [] o.type = "vmess" -> NewVmess(o)
    [] o.type = "trojan" -> NewTrojan(o)
    [] o.type = "ss" -> NewShadowSocks(o)
    [] o.type = "snell" -> NewSnell(o)
    [] o.type \in {"ssr", "socks5", "http", "tuic", "hysteria", "direct", "reject", "relay"} -> o
    [] OTHER -> Nil

-----------------------------------------------------------------------------
(* The machine *)

Frame(p, udp, todo, dialer, to, resolved) ==
  [p |-> p, udp |-> udp, todo |-> todo, dialer |-> dialer, to |-> to, resolved |-> resolved,
   conn |-> NoConn, guard |-> {}]

\* A configuration with a proxy that cannot be made is refused as a whole.
InitValue(raw) ==
  LET made == [p \in DOMAIN raw |-> ParseProxy(raw[p])]
      config == IF \E p \in DOMAIN raw : made[p] = Nil THEN <<>> ELSE made
  IN
  [config |-> config, stack |-> <<>>,
   open |-> {},                 \* the sockets and streams that are open
   sessions |-> {},             \* shared or idle connections
   unguarded |-> {},            \* what the two functions without a guard left open
   calls |-> 0, drops |-> 0, out |-> [is |-> "none"]]
Init == \E config \in Configs : ob = InitValue(config)

Top == ob.stack[1]
Running == ob.stack # <<>> /\ ob.out.is = "none"
Step == Head(Top.todo)
At(what) == Running /\ Top.todo # <<>> /\ Step.do = what
Option(p) == ob.config[p]

SetTop(f) == <<f>> \o Tail(ob.stack)
Stepped == [Top EXCEPT !.todo = Tail(@)]
Layer(p, as, to) == <<[p |-> p, as |-> as, to |-> to]>>
Put(f, conn) == [f EXCEPT !.conn = conn]

\* A socket is opened; layers is what the connection has above it.
Opened(f, layers) ==
  LET new == CHOOSE i \in 1..(Cardinality(ob.open) + 1) : i \notin ob.open IN
  ob' = [ob EXCEPT !.stack = SetTop(Put(f, [raw |-> f.conn.raw \cup {new}, layers |-> layers])),
                   !.open = @ \cup {new}]

Advance(f) == ob' = [ob EXCEPT !.stack = SetTop(f)]
Call(f) == ob' = [ob EXCEPT !.stack = <<f>> \o @]
Fail == ob' = [ob EXCEPT !.out = [is |-> "failing"]]

SupportUOT(o) == o.mux \/ o.type \in {"vless", "vmess", "trojan", "snell"} \/ (o.type = "ss" /\ o.uot)
SupportWithDialer(o) ==
  CASE o.type \in {"vless", "vmess", "trojan", "ss", "ssr", "snell", "tuic"} -> {"tcp", "udp"}
    [] o.type \in {"socks5", "http"} -> {"tcp"}
    [] OTHER -> {}
\* A relay asks its hops from the last on, until one carries UDP in a stream.
SupportUDP(config, o) ==
  IF o.type # "relay" THEN o.mux \/ o.udp
  ELSE LET hops == RelayHops(config, o)
           From[i \in 0..Len(hops)] ==
             IF i = 0 THEN TRUE
             ELSE LET h == config[hops[i]] IN
                  /\ h.mux \/ h.udp
                  /\ SupportUOT(h) \/ ("udp" \in SupportWithDialer(h) /\ From[i - 1])
       IN From[Len(hops)]

\* The tunnel calls a proxy, for UDP only if it supports that.
Begin(p, udp, resolved) ==
  /\ ob.stack = <<>> /\ ob.out.is = "none" /\ ob.calls < MaxCalls
  /\ udp => SupportUDP(ob.config, Option(p))
  /\ LET todo == IF udp THEN ListenPacketContext(ob.config, Option(p), FALSE)
                        ELSE DialContext(ob.config, Option(p), FALSE)
     IN ob' = [ob EXCEPT !.stack = <<Frame(p, udp, todo, <<>>, Dest, resolved)>>, !.calls = @ + 1]

NewByName ==
  /\ At("by name")
  /\ LET via == Option(Top.p).via IN
     \/ via = Nil /\ Advance(Stepped)
     \/ via # Nil /\ via \in DOMAIN ob.config /\ Advance([Stepped EXCEPT !.dialer = <<via>> \o @])
     \/ via # Nil /\ via \notin DOMAIN ob.config /\ Fail

\* A proxy dialer calls its proxy, with the dialer it has itself unless that is
\* the plain one.
Through(udp) ==
  LET q == Head(Top.dialer)
      rest == Tail(Top.dialer)
      plain == IF udp THEN ListenPacketContext(ob.config, Option(q), TRUE)
                      ELSE DialContext(ob.config, Option(q), TRUE)
      over == IF udp THEN ListenPacketWithDialer(Option(q)) ELSE DialContextWithDialer(Option(q))
  IN Frame(q, udp, IF rest = <<>> THEN plain ELSE over, rest, Top.p, udp)

DialStep(what, udp) ==
  /\ At(what)
  /\ \/ Top.dialer = <<>> /\ Opened(Stepped, Layer(Nil, what, Top.p))
     \/ Top.dialer = <<>> /\ Fail
     \/ Top.dialer # <<>> /\ Call(Through(udp))

Wraps ==
  /\ At("wrap") \/ At("layer")
  /\ \/ Advance(Put(Stepped, [Top.conn EXCEPT !.layers = @ \o Layer(Top.p, Step.as, Top.to)]))
     \/ Step.do = "wrap" /\ Fail

Guards == At("guard") /\ Advance([Stepped EXCEPT !.guard = @ \cup Top.conn.raw])

Resolves ==
  /\ At("resolve")
  /\ \/ Advance([Stepped EXCEPT !.resolved = TRUE])
     \/ ~Top.resolved /\ Fail

ResolvesServer == At("resolve server") /\ (Advance(Stepped) \/ Fail)

NotSupported == At("unsupported") /\ ob' = [ob EXCEPT !.out = [is |-> "failing", unsupported |-> Top.p]]

OpensDirect == At("direct") /\ (Opened(Stepped, Layer(Nil, "direct", Top.to)) \/ Fail)
OpensPacket ==
  At("packet") /\ (Opened(Stepped, Top.conn.layers \o Layer(Nil, "packet", Top.p)) \/ Fail)
Nop == At("nop") /\ Advance(Stepped)

\* A relay calls its last hop over dialers of the others; UDP over TCP calls
\* the function for streams of the same proxy.
Calls ==
  /\ At("call")
  /\ LET o == Option(Top.p)
         hops == IF o.type = "relay" THEN RelayHops(ob.config, o) ELSE <<>>
         n == Len(hops)
         one == IF Top.udp THEN ListenPacketContext(ob.config, Option(hops[1]), FALSE)
                           ELSE DialContext(ob.config, Option(hops[1]), FALSE)
         last == IF Top.udp THEN ListenPacketWithDialer(Option(hops[n]))
                            ELSE DialContextWithDialer(Option(hops[n]))
     IN Call(CASE n = 0 -> Frame(Top.p, TRUE, DialContextWithDialer(o), Top.dialer, Top.to, Top.resolved)
               [] n = 1 -> Frame(hops[1], Top.udp, one, <<>>, Top.to, Top.resolved)
               [] OTHER -> Frame(hops[n], Top.udp, last, [i \in 1..(n - 1) |-> hops[n - i]], Top.to,
                                 Top.resolved))

\* Mutant: a session is shared by all that go through its proxy.
SessionsOfProxy(f) == {s \in ob.sessions : s.p = f.p}

\* A session belongs to its proxy and to the dialer it was made with.
SessionsOf(f) == {s \in ob.sessions : s.p = f.p /\ s.dialer = f.dialer}
NeedsSession ==
  /\ At("session")
  /\ IF SessionsOf(Top) = {}
     THEN Call(Frame(Top.p, FALSE, SessionMaker(ob.config, Option(Top.p)), Top.dialer, "session", TRUE))
     ELSE \E s \in SessionsOf(Top) :
            Advance(Put(Stepped, [Top.conn EXCEPT !.layers = s.conn.layers \o @]))

Streams ==
  /\ At("stream")
  /\ \/ Opened(Stepped, Top.conn.layers \o Layer(Top.p, "stream", Top.to))
     \/ Fail

GunStreams == At("gun stream") /\ Opened(Stepped, Top.conn.layers)

\* Snell takes an idle connection of its pool, or makes one.
TakesFromPool ==
  /\ At("pool")
  /\ \/ \E s \in SessionsOf(Top) :
          ob' = [ob EXCEPT !.stack = SetTop(Put(Stepped, s.conn)), !.sessions = @ \ {s}]
     \/ SessionsOf(Top) = {} /\ Call(Frame(Top.p, FALSE, SnellPoolFactory(Option(Top.p)), <<>>, "pool", TRUE))

\* A function is done: the one that called it goes on with the connection.
Return ==
  /\ Running /\ Top.todo = <<>> /\ Len(ob.stack) > 1
  /\ LET caller == ob.stack[2]
         rest == Tail(Tail(ob.stack))
     IN IF Head(caller.todo).do = "session"
        THEN ob' = [ob EXCEPT !.stack = Tail(@),
                              !.sessions = @ \cup {[p |-> caller.p, dialer |-> caller.dialer, conn |-> Top.conn]}]
        ELSE ob' = [ob EXCEPT !.stack = <<[caller EXCEPT !.conn = Top.conn, !.todo = Tail(@)]>> \o rest]

Answer ==
  /\ Running /\ Top.todo = <<>> /\ Len(ob.stack) = 1
  /\ ob' = [ob EXCEPT !.out = [is |-> "conn", p |-> Top.p, udp |-> Top.udp, conn |-> Top.conn]]

\* A connection of Snell 2 goes back to the pool when it is closed, unless the
\* end of the stream cannot be written.
Pooled(p, udp) == Option(p).type = "snell" /\ Option(p).version = 2 /\ ~Option(p).mux /\ ~udp
Idle(p, conn) == [p |-> p, dialer |-> <<>>, conn |-> [conn EXCEPT !.layers = SelectSeq(@, LAMBDA l : l.p # p \/ l.as # "header")]]

\* An error goes up the stack: what a function guards is closed.
NoGuard(f) == f.udp /\ (Option(f.p).type = "snell" \/ Option(f.p).uot)
Unwind ==
  /\ ob.out.is = "failing" /\ ob.stack # <<>>
  /\ ob' = [ob EXCEPT !.stack = Tail(@), !.open = @ \ Top.guard,
                      !.unguarded = IF NoGuard(Top) THEN @ \cup (Top.conn.raw \ Top.guard) ELSE @]
Failed ==
  /\ ob.out.is = "failing" /\ ob.stack = <<>>
  /\ ob' = [ob EXCEPT !.out = [is |-> "none"]]

\* The tunnel closes the connection.
CloseConn ==
  /\ ob.out.is = "conn"
  /\ LET o == ob.out IN
     \/ ob' = [ob EXCEPT !.stack = <<>>, !.out = [is |-> "none"], !.open = @ \ o.conn.raw]
     \/ /\ Pooled(o.p, o.udp)
        /\ ob' = [ob EXCEPT !.stack = <<>>, !.out = [is |-> "none"], !.sessions = @ \cup {Idle(o.p, o.conn)}]

\* The other end closes a connection that is shared or idle.
Drop ==
  /\ ob.drops < MaxDrops
  /\ \E s \in ob.sessions :
       ob' = [ob EXCEPT !.sessions = @ \ {s}, !.open = @ \ s.conn.raw, !.drops = @ + 1]

Next ==
  \/ \E p \in DOMAIN ob.config, udp \in BOOLEAN, resolved \in BOOLEAN : Begin(p, udp, resolved)
  \/ NewByName \/ DialStep("dial", FALSE) \/ DialStep("listen", TRUE) \/ Wraps \/ Guards \/ Resolves
  \/ ResolvesServer \/ NotSupported \/ OpensDirect \/ OpensPacket \/ Nop \/ Calls \/ NeedsSession
  \/ Streams \/ GunStreams \/ TakesFromPool \/ Return \/ Answer \/ Unwind \/ Failed \/ CloseConn \/ Drop

Spec == Init /\ [][Next]_vars

-----------------------------------------------------------------------------
(* Properties *)

\* The proxies that a connection through p is to pass, from here on, each with
\* whether a dialer that is plain calls it, which is when smux takes part.
Route(p) ==
  LET R[n \in 0..Cardinality(DOMAIN ob.config), x \in DOMAIN ob.config] ==
        LET o == Option(x)
            hops == RelayHops(ob.config, o)
            later == [i \in 1..(Len(hops) - 1) |->
                        [j \in DOMAIN R[n - 1, hops[i + 1]] |-> [R[n - 1, hops[i + 1]][j] EXCEPT !.plain = FALSE]]]
            join[i \in 0..(Len(hops) - 1)] == IF i = 0 THEN R[n - 1, hops[1]] ELSE join[i - 1] \o later[i]
        IN CASE n = 0 \/ o.type \in {"direct", "reject"} -> <<>>
             [] o.type = "relay" -> IF hops = <<>> THEN <<>> ELSE join[Len(hops) - 1]
             [] OTHER -> (IF o.via = Nil THEN <<>> ELSE R[n - 1, o.via]) \o <<[p |-> x, plain |-> TRUE]>>
  IN R[Cardinality(DOMAIN ob.config), p]


\* What each of them is asked for, and over what: its shared session, packets, or
\* the transport that its options name.  Packets ask the hop before for packets.
Asked(route, i) == IF i = Len(route) THEN Dest ELSE route[i + 1].p
Shares(hop) == (Option(hop.p).mux /\ hop.plain) \/ Option(hop.p).type \in {"tuic", "hysteria"}
Hops(route, udp) ==
  LET Packet[i \in 1..Len(route)] ==                \* hop i is asked for UDP
        IF i = Len(route) THEN udp
        ELSE LET o == Option(route[i + 1].p) IN
             IF o.mux /\ route[i + 1].plain THEN FALSE
             ELSE o.type \in {"tuic", "hysteria"} \/ (Packet[i + 1] /\ o.type \in {"ss", "ssr"} /\ ~o.uot)
      Hop(i) ==
        LET q == route[i].p
            o == Option(q)
            packets == Packet[i] /\ o.type \in {"ss", "ssr"} /\ ~o.uot /\ ~Shares(route[i])
        IN (IF o.net = "tcp" \/ packets THEN <<>> ELSE Layer(q, IF o.net = "grpc" THEN "gun" ELSE o.net, Nil))
           \o Layer(q, IF Shares(route[i]) THEN "stream" ELSE IF packets THEN "packets" ELSE "header",
                    Asked(route, i))
      H[i \in 0..Len(route)] == IF i = 0 THEN <<>> ELSE H[i - 1] \o Hop(i)
  IN H[Len(route)]

Plain == {"dial", "listen", "direct", "packet", "tls", "obfs", "quic"}
Seen(conn) ==
  LET told == SelectSeq(conn.layers, LAMBDA l : l.as \notin Plain /\ ~(l.as = "header" /\ l.to = "session"))
  IN [i \in DOMAIN told |-> IF told[i].as \in {"header", "stream", "packets"} THEN told[i] ELSE [told[i] EXCEPT !.to = Nil]]

\* A connection goes through the proxies that the options name, in their order:
\* the first is dialled, each is asked for the next one, the last for what the
\* user wants, and each over its transport, whichever way it was called and
\* whether or not its connection is shared.  Two ways of UDP are known to do
\* otherwise: UDP over TCP of shadowsocks passes its dialer-proxy twice, and
\* Trojan over gRPC takes plain TLS when a dialer calls it.
RouteIsConfigured ==
  ob.out.is = "conn" /\ ob.out.conn.raw # {} =>          \* REJECT has no socket
    LET route == Route(ob.out.p)
        otherwise == ob.out.udp /\ \E i \in DOMAIN route :
                       \/ Option(route[i].p).uot /\ Option(route[i].p).via # Nil
                       \/ Option(route[i].p).type = "trojan" /\ Option(route[i].p).net = "grpc"
                          /\ Option(ob.out.p).type = "relay"
    IN otherwise \/ /\ Seen(ob.out.conn) = Hops(route, ob.out.udp)
                    /\ ob.out.conn.layers[1].to = IF route = <<>> THEN Dest ELSE route[1].p

\* Whatever fails, at whatever depth, what was opened for it is closed: between
\* two attempts only shared and idle connections are open.  Two functions do
\* not close what they dialled, ListenPacketWithDialer of Snell and that of
\* shadowsocks with UDP over TCP.
NothingLeftOpen ==
  ob.stack = <<>> =>
    ob.open \subseteq ob.unguarded \cup UNION {s.conn.raw : s \in ob.sessions}

\* An idle or shared connection is open and belongs to nobody else.
SharedIsOpen ==
  /\ \A s \in ob.sessions : s.conn.raw \subseteq ob.open
  /\ \A s, t \in ob.sessions : s # t => s.conn.raw \cap t.conn.raw = {}

\* A proxy or relay that says it supports UDP does not refuse it in the middle,
\* as long as nothing has a dialer-proxy, which SupportUDP does not ask, and the
\* later hops of a relay take TCP through a dialer and have no smux, which they
\* lose there.
UdpIsSupported ==
  "unsupported" \in DOMAIN ob.out /\ ob.stack # <<>> =>
    LET asked == ob.stack[Len(ob.stack)]
        hops == RelayHops(ob.config, Option(asked.p))
    IN \/ ~asked.udp
       \/ \E p \in DOMAIN ob.config : Option(p).via # Nil
       \/ \E i \in 2..Len(hops) : Option(hops[i]).mux \/ "tcp" \notin SupportWithDialer(Option(hops[i]))

\* What the constructors let through: packets are wrapped in one way, the one that
\* was named if one was; Snell has UDP only where its listening succeeds; a gRPC
\* transport uses REALITY if the options ask for it, except that of VMess.
OptionsAreSound ==
  \A p \in DOMAIN ob.config :
    LET o == Option(p) IN
    /\ o.type \in {"vless", "vmess"} =>
         ~(o.xudp /\ o.packetAddr) /\ (o.encoding = "packet" /\ ~o.xudp => o.packetAddr)
    /\ o.type = "vless" => o.xudp \/ o.packetAddr
    /\ o.type = "snell" /\ o.udp => o.version = 3
    /\ o.type \in {"vless", "trojan"} /\ o.net = "grpc" => o.gunReality = o.reality
=============================================================================
