------------------------------ MODULE Listeners -----------------------------
(***************************************************************************)
(* The listeners of the proxy and the two ways their configuration gets    *)
(* changed at run time: ApplyConfig, one at a time under a lock, and the   *)
(* handler of PATCH /configs, which does not take that lock.  Each         *)
(* ReCreate function holds a mutex of its own for its whole body and is    *)
(* one step; between the steps the other party and the system move.        *)
(*                                                                         *)
(* An address is <<scope, port>>; port 0 means off.  A listener that is    *)
(* configured by a text (shadowsocks, vmess, tuic) has the number of its   *)
(* port for it.  A socket is <<owner, network, port>>.                     *)
(***************************************************************************)
EXTENDS Integers, Sequences, FiniteSets

CONSTANTS
  Configs,      \* configurations of ApplyConfig
  Patches,      \* bodies of PATCH /configs: functions from some of the options
  Names,        \* names of the listeners section
  MaxRequests,  \* bound on the configurations and patches
  MaxFaults,    \* bound on the changes of the system
  Nil

Pairs == {"socks", "redir", "tproxy", "mixed"}
Texts == {"ss", "vmess", "tuic"}
Singles == {"http"} \cup Texts
Kinds == Pairs \cup Singles
AutoPort == 9           \* C.TcpAutoRedirPort

VARIABLE ln

Init ==
  ln = [lan |-> FALSE,                       \* allowLan
        tcp |-> [k \in Kinds |-> Nil],       \* httpListener, socksListener, ...
        udp |-> [k \in Pairs |-> Nil],       \* socksUDPListener, ...
        lastTuic |-> 0,                      \* LastTuicConf
        tun |-> Nil, lastTun |-> 0,          \* tunLister, LastTunConf; 0 is disabled
        auto |-> FALSE, tc |-> FALSE,        \* autoRedirListener and its program, tcProgram
        inbound |-> [n \in Names |-> Nil],   \* inboundListeners
        tunnels |-> {},                      \* tunnelTCPListeners, tunnelUDPListeners
        open |-> {},                         \* the sockets that listen
        taken |-> {},                        \* <<network, port>> of other programs
        tunWorks |-> TRUE, faults |-> 0, requests |-> 0,
        failed |-> {},                       \* names whose listener failed to start
        apply |-> [pc |-> 0], patch |-> [pc |-> 0]]

-----------------------------------------------------------------------------
(* Sockets *)

Free(l, net, port) ==
  /\ <<net, port>> \notin l.taken
  /\ \A s \in l.open : <<s[2], s[3]>> # <<net, port>>

OpenSocket(l, owner, net, port) == [l EXCEPT !.open = @ \cup {<<owner, net, port>>}]
CloseSocket(l, owner, net, port) == [l EXCEPT !.open = @ \ {<<owner, net, port>>}]

\* genAddr(bindAddress, port, allowLan)
GenAddr(l, port) == <<IF l.lan THEN "any" ELSE "local", port>>

\* Close the listener of a variable and clear it, if it has another address.
CloseTCPUnless(l, k, addr) ==
  IF l.tcp[k] \in {Nil, addr} THEN l
  ELSE [CloseSocket(l, k, "tcp", l.tcp[k][2]) EXCEPT !.tcp[k] = Nil]

CloseUDPUnless(l, k, addr) ==
  IF l.udp[k] \in {Nil, addr} THEN l
  ELSE [CloseSocket(l, k, "udp", l.udp[k][2]) EXCEPT !.udp[k] = Nil]

\* New; the variable gets the listener, or nil with an error.
NewTCP(l, k, addr) ==
  IF Free(l, "tcp", addr[2]) THEN [OpenSocket(l, k, "tcp", addr[2]) EXCEPT !.tcp[k] = addr]
                             ELSE [l EXCEPT !.tcp[k] = Nil]

NewUDP(l, k, addr) ==
  IF Free(l, "udp", addr[2]) THEN [OpenSocket(l, k, "udp", addr[2]) EXCEPT !.udp[k] = addr]
                             ELSE [l EXCEPT !.udp[k] = Nil]

-----------------------------------------------------------------------------
(* The ReCreate functions *)

ReCreateSingle(l, k, addr) ==
  LET c == CloseTCPUnless(l, k, addr)
  IN  IF c.tcp[k] # Nil \/ addr[2] = 0 THEN c ELSE NewTCP(c, k, addr)

ReCreateHTTP(l, port) == ReCreateSingle(l, "http", GenAddr(l, port))
ReCreateShadowSocks(l, text) == ReCreateSingle(l, "ss", <<"text", text>>)
ReCreateVmess(l, text) == ReCreateSingle(l, "vmess", <<"text", text>>)
ReCreateTuic(l, text) ==
  [ReCreateSingle(l, "tuic", <<"text", text>>) EXCEPT !.lastTuic = text]

\* Both are there, or both are made; one alone is not kept.
ReCreateSocks(l, port) ==
  LET addr == GenAddr(l, port)
      c == CloseUDPUnless(CloseTCPUnless(l, "socks", addr), "socks", addr)
  IN  IF (c.tcp.socks # Nil /\ c.udp.socks # Nil) \/ port = 0 THEN c
      ELSE IF Free(c, "tcp", port) /\ Free(c, "udp", port)
           THEN NewUDP(NewTCP(c, "socks", addr), "socks", addr)
           ELSE c

\* The variables are assigned on the way: if UDP fails the TCP listener is
\* closed, and stays in its variable.
ReCreateMixed(l, port) ==
  LET addr == GenAddr(l, port)
      c == CloseUDPUnless(CloseTCPUnless(l, "mixed", addr), "mixed", addr)
      t == NewTCP(c, "mixed", addr)
      u == NewUDP(t, "mixed", addr)
  IN  IF (c.tcp.mixed # Nil /\ c.udp.mixed # Nil) \/ port = 0 THEN c
      ELSE IF t.tcp.mixed = Nil THEN t
      ELSE IF u.udp.mixed = Nil THEN CloseSocket(u, "mixed", "tcp", port)
      ELSE u

\* The same address of either is enough to leave both; UDP may be missing.
ReCreateTransparent(l, k, port) ==
  LET addr == GenAddr(l, port)
      c == CloseTCPUnless(l, k, addr)
      d == CloseUDPUnless(c, k, addr)
      t == NewTCP(d, k, addr)
  IN  IF c.tcp[k] # Nil THEN c
      ELSE IF d.udp[k] # Nil \/ port = 0 THEN d
      ELSE IF t.tcp[k] = Nil THEN t ELSE NewUDP(t, k, addr)

ReCreateRedir(l, port) == ReCreateTransparent(l, "redir", port)
ReCreateTProxy(l, port) == ReCreateTransparent(l, "tproxy", port)

\* The configuration is remembered even if the device could not be made.
ReCreateTun(l, conf) ==
  IF conf = l.lastTun THEN l
  ELSE [l EXCEPT !.tun = IF conf # 0 /\ l.tunWorks THEN conf ELSE Nil, !.lastTun = conf]

\* The program that redirects to the TUN device, which has to be there.
ReCreateRedirToTun(l, ifaces) == [l EXCEPT !.tc = ifaces /\ l.tun # Nil /\ l.tunWorks]

\* A listener and a program: both or none.  (tunWorks stands for the program.)
ReCreateAutoRedir(l, ifaces) ==
  LET c == [CloseSocket(l, "auto", "tcp", AutoPort) EXCEPT !.auto = FALSE]
      d == IF l.auto THEN c ELSE l
  IN  IF ifaces /\ Free(d, "tcp", AutoPort) /\ d.tunWorks
      THEN [OpenSocket(d, "auto", "tcp", AutoPort) EXCEPT !.auto = TRUE] ELSE d

\* PatchTunnel: close what is no longer wanted, make what is new.
PatchTunnel(l, wanted) ==
  LET c == [l EXCEPT !.tunnels = @ \cap wanted,
                     !.open = {s \in @ : s[1] = "tunnel" => <<s[2], s[3]>> \in wanted}]
      new == {t \in wanted \ l.tunnels : Free(c, t[1], t[2])}
  IN  [c EXCEPT !.tunnels = @ \cup new,
                !.open = @ \cup {<<"tunnel", t[1], t[2]>> : t \in new}]

\* PatchInboundListeners, for one name: a listener that cannot be replaced is
\* closed, and stays in the map.
PatchInbound(l, n, port) ==
  LET old == l.inbound[n]
      c == IF old \in {Nil, port} THEN l ELSE CloseSocket(l, n, "tcp", old)
  IN  IF old = port THEN l
      ELSE IF Free(c, "tcp", port) THEN [OpenSocket(c, n, "tcp", port) EXCEPT !.inbound[n] = port]
      ELSE [c EXCEPT !.failed = @ \cup {n}]

\* dropOld: the names that are no longer configured
DropInbound(l, wanted) ==
  [l EXCEPT !.inbound = [n \in Names |-> IF n \in wanted THEN @[n] ELSE Nil],
            !.open = {s \in @ : s[1] \in Names => s[1] \in wanted},
            !.failed = @ \cap wanted]

-----------------------------------------------------------------------------
(* ApplyConfig *)

\* What one step of either party does to the listeners.
Perform(l, op, arg) ==
  CASE op = "lan" -> [l EXCEPT !.lan = arg]
    [] op = "http" -> ReCreateHTTP(l, arg)      [] op = "socks" -> ReCreateSocks(l, arg)
    [] op = "redir" -> ReCreateRedir(l, arg)    [] op = "tproxy" -> ReCreateTProxy(l, arg)
    [] op = "mixed" -> ReCreateMixed(l, arg)    [] op = "ss" -> ReCreateShadowSocks(l, arg)
    [] op = "vmess" -> ReCreateVmess(l, arg)    [] op = "tuic" -> ReCreateTuic(l, arg)
    [] op = "auto" -> ReCreateAutoRedir(l, arg) [] op = "tun" -> ReCreateTun(l, arg)
    [] op = "tc" -> ReCreateRedirToTun(l, arg)  [] op = "tunnels" -> PatchTunnel(l, arg)

ApplyOps == <<"lan", "http", "socks", "redir", "auto", "tproxy", "mixed", "ss", "vmess", "tuic",
              "tun", "tc", "tunnels">>

\* Others hold the port at the moment, or an earlier listener of ours does.
Contested(l, k, port) ==
  \/ <<"tcp", port>> \in l.taken \/ <<"udp", port>> \in l.taken
  \/ \E s \in l.open : s[1] # k /\ s[3] = port

Begin(c, force) ==
  /\ ln.apply.pc = 0 /\ ln.requests < MaxRequests
  /\ ln' = [ln EXCEPT !.requests = @ + 1, !.patch = IF @.pc # 0 THEN [@ EXCEPT !.alone = FALSE] ELSE @,
                      !.apply = [pc |-> 1, cfg |-> c, force |-> force, todo |-> DOMAIN c.inbound,
                                 alone |-> ln.patch.pc = 0, contested |-> {}]]

ApplyInbound(n) ==
  /\ ln.apply.pc = 1 /\ n \in ln.apply.todo
  /\ ln' = [PatchInbound(ln, n, ln.apply.cfg.inbound[n]) EXCEPT !.apply.todo = @ \ {n}]

\* Without force the ports stay as they are; the TUN and the tunnels do not.
ApplyDrop ==
  /\ ln.apply.pc = 1 /\ ln.apply.todo = {}
  /\ LET l == DropInbound(ln, DOMAIN ln.apply.cfg.inbound)
     IN  ln' = [l EXCEPT !.apply.pc = IF ln.apply.force THEN 2 ELSE 12,
                         !.apply.contested = {k \in Kinds : Contested(l, k, ln.apply.cfg[k])}]

ApplyStep ==
  /\ ln.apply.pc \in 2..Len(ApplyOps) + 1
  /\ LET op == ApplyOps[ln.apply.pc - 1]
     IN  ln' = [Perform(ln, op, ln.apply.cfg[op]) EXCEPT
                  !.apply.pc = @ + 1,
                  !.apply.contested = @ \cup {k \in Kinds : Contested(ln, k, ln.apply.cfg[k])}]

\* The lock is released.
ApplyEnds == ln.apply.pc = Len(ApplyOps) + 2 /\ ln' = [ln EXCEPT !.apply = [pc |-> 0]]

-----------------------------------------------------------------------------
(* PATCH /configs *)

PatchOps == <<"http", "socks", "redir", "tproxy", "mixed", "tun", "ss", "vmess", "tuic">>

Port(l, k) == IF l.tcp[k] = Nil THEN 0 ELSE l.tcp[k][2]

Patch(b) ==
  /\ ln.patch.pc = 0 /\ ln.requests < MaxRequests
  /\ ln' = [ln EXCEPT !.requests = @ + 1, !.apply = IF @.pc # 0 THEN [@ EXCEPT !.alone = FALSE] ELSE @,
                      !.lan = IF "lan" \in DOMAIN b THEN b.lan ELSE @,
                      !.patch = [pc |-> 1, body |-> b, alone |-> ln.apply.pc = 0,
                                 before |-> {k \in Kinds : <<k, "tcp", Port(ln, k)>> \in ln.open}]]

GetPorts ==
  /\ ln.patch.pc = 1
  /\ ln' = [ln EXCEPT !.patch = [pc |-> 2, body |-> @.body, alone |-> @.alone, before |-> @.before,
                                 ports |-> [k \in Kinds |-> Port(ln, k)]]]

\* Mutant: a port that the body does not name is turned off.
PatchArgZero(op) ==
  IF op \in DOMAIN ln.patch.body THEN ln.patch.body[op]
  ELSE CASE op = "tun" -> ln.lastTun [] op = "tuic" -> ln.lastTuic [] OTHER -> 0

\* pointerOrDefault: the ports of GetPorts, the tun and tuic of now
PatchArg(op) ==
  IF op \in DOMAIN ln.patch.body THEN ln.patch.body[op]
  ELSE CASE op = "tun" -> ln.lastTun [] op = "tuic" -> ln.lastTuic [] OTHER -> ln.patch.ports[op]

PatchStep ==
  /\ ln.patch.pc \in 2..Len(PatchOps) + 1
  /\ LET op == PatchOps[ln.patch.pc - 1]
     IN  ln' = [Perform(ln, op, PatchArg(op)) EXCEPT !.patch.pc = @ + 1]

PatchEnds == ln.patch.pc = Len(PatchOps) + 2 /\ ln' = [ln EXCEPT !.patch = [pc |-> 0]]

-----------------------------------------------------------------------------

\* Other programs take and leave ports; the TUN device works or not.
Fault ==
  /\ ln.faults < MaxFaults
  /\ \/ \E p \in {"tcp", "udp"} \X {1, 2} :
          ln' = [ln EXCEPT !.faults = @ + 1,
                           !.taken = IF p \in @ THEN @ \ {p}
                                     ELSE IF Free(ln, p[1], p[2]) THEN @ \cup {p} ELSE @]
     \/ ln' = [ln EXCEPT !.faults = @ + 1, !.tunWorks = ~@]

Next ==
  \/ Fault
  \/ \E c \in Configs, force \in BOOLEAN : Begin(c, force)
  \/ (\E n \in Names : ApplyInbound(n)) \/ ApplyDrop \/ ApplyStep \/ ApplyEnds
  \/ (\E b \in Patches : Patch(b)) \/ GetPorts \/ PatchStep \/ PatchEnds

-----------------------------------------------------------------------------

\* No socket is lost: each one that listens belongs to a listener in its
\* variable, which the next configuration will close.
NoSocketLost ==
  \A s \in ln.open :
    \/ s[1] \in Kinds /\ s[2] = "tcp" /\ ln.tcp[s[1]] # Nil /\ ln.tcp[s[1]][2] = s[3]
    \/ s[1] \in Pairs /\ s[2] = "udp" /\ ln.udp[s[1]] # Nil /\ ln.udp[s[1]][2] = s[3]
    \/ s[1] \in Names /\ ln.inbound[s[1]] = s[3]
    \/ s[1] = "auto" /\ ln.auto
    \/ s[1] = "tunnel" /\ <<s[2], s[3]>> \in ln.tunnels

\* A forced configuration that nobody patched meanwhile is in force when it
\* ends: each port listens if it was not contested on the way, and a listener
\* that is off has no socket.
ConfigInForce ==
  ln.apply.pc = Len(ApplyOps) + 2 /\ ln.apply.force /\ ln.apply.alone =>
    \A k \in Kinds : LET port == ln.apply.cfg[k] IN
      IF port = 0 THEN \A s \in ln.open : s[1] # k
      ELSE k \notin ln.apply.contested => <<k, "tcp", port>> \in ln.open

\* A patch that no configuration overlaps leaves what it does not name: a
\* listener that was open before it is open after it.
PatchKeepsOthers ==
  ln.patch.pc = Len(PatchOps) + 2 /\ ln.patch.alone =>
    \A k \in ln.patch.before \ DOMAIN ln.patch.body : \E s \in ln.open : s[1] = k /\ s[2] = "tcp"

\* A name of the listeners section listens on the port it is kept with, unless
\* its listener has failed to start before: then it stays closed in the map,
\* and its old configuration is taken for one that is in force.
InboundListens ==
  \A n \in Names \ ln.failed : ln.inbound[n] # Nil => <<n, "tcp", ln.inbound[n]>> \in ln.open
=============================================================================
