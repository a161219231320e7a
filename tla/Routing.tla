------------------------------ MODULE Routing -------------------------------
(***************************************************************************)
(* How the tunnel finds the proxy of a connection, while a configuration   *)
(* is applied.  A connection is taken from the queue if the tunnel runs,   *)
(* its metadata is completed (fake address to host, host mappings, what    *)
(* the sniffer read), and the rules are tried in order, under a read lock, *)
(* resolving the host and finding the process when a rule needs it.        *)
(***************************************************************************)
EXTENDS Integers, Sequences, FiniteSets

CONSTANTS
  Nil,
  Configs,      \* the configurations that are applied in turn: a sequence of
                \* records with the rules, the sub-rules, the proxies and the
                \* lists of the rule providers, by the order of their updates
  MaxUid,       \* 2^32 - 1 in the code
  Private,      \* the addresses that are private in some way
  CountryOf,    \* country -> addresses
  Inputs,       \* metadata of the connections that may come
  FakeHosts,    \* fake address -> host, for the addresses that were given out
  Answers,      \* address -> host, of answers that the DNS server has given
  FakeIPs,      \* all fake addresses
  Hosts,        \* host -> [ips] or [domain]
  Address,      \* what the resolver finds: host -> address
  Connections,
  MaxPayload    \* how long the payload of a rule with parts becomes

-----------------------------------------------------------------------------
(* Rules and what they match.  A rule is a record with a type t and, at    *)
(* the top of a list, the adapter `to`; metadata is a record with the      *)
(* network, the host, the sniffed host, the address and the process of a   *)
(* connection.  Strings are compared whole: what a suffix, a keyword or a  *)
(* list of geo data selects is the set of hosts or addresses that a rule   *)
(* names.                                                                  *)

\* Metadata.RuleHost
RuleHost(m) == IF m.sniffed = Nil THEN m.host ELSE m.sniffed

NoMatch == [m |-> FALSE, a |-> Nil]
Result(b, rule) == [m |-> b, a |-> rule.to]

\* The parts of a port or UID rule: empty ones are passed over, the ends of a
\* range may stand in any order, and nothing else is taken, nor nothing at all.
Refused == <<>>
NewRanges(parts, max) ==
  LET kept == SelectSeq(parts, LAMBDA p : p # <<>>)
      Bad(p) == Len(p) > 2 \/ \E i \in DOMAIN p : p[i] \notin 0..max
      Range2(p) == LET a == p[1]  b == p[Len(p)] IN IF a > b THEN <<b, a>> ELSE <<a, b>> IN
  IF \E i \in DOMAIN kept : Bad(kept[i]) THEN Refused ELSE [i \in DOMAIN kept |-> Range2(kept[i])]
NewPort(parts) == IF Len(parts) > 28 THEN Refused ELSE NewRanges(parts, 65535)
NewUid(parts) == NewRanges(parts, MaxUid)
Ranges(rule) == IF rule.t = "uid" THEN NewUid(rule.parts) ELSE NewPort(rule.parts)

\* Rules without parts.  What a port is written as becomes a number of 16 bits,
\* and nothing at all becomes 0.
DomainMatch(rule, m) == RuleHost(m) \in rule.hosts
IPCIDRMatch(rule, m) == m.ip # Nil /\ m.ip \in rule.ips
GEOIPMatch(rule, m) == m.ip # Nil /\ m.ip \in (IF rule.country = "lan" THEN Private ELSE CountryOf[rule.country])
SrcIPMatch(rule, m) == m.src \in rule.ips
NetworkMatch(rule, m) == m.net = rule.net
ProcessMatch(rule, m) == m.process = rule.process
Within(ranges, n) == \E i \in DOMAIN ranges : n \in ranges[i][1]..ranges[i][2]
PortMatch(rule, m) == Within(Ranges(rule), IF m.port[rule.of] = Nil THEN 0 ELSE m.port[rule.of] % 65536)
UidMatch(rule, m) == m.uid # 0 /\ Within(Ranges(rule), m.uid)
InMatch(rule, m) == m.in[rule.of] \in rule.values

\* The others find their lists in env: those of the sub-rules, and those of the
\* rule providers, which are empty before they are loaded.
RECURSIVE Match(_, _, _)
RECURSIVE MatchSubRules(_, _, _)

Some(rules, m, env) == \E i \in DOMAIN rules : Match(rules[i], m, env).m
All(rules, m, env) == \A i \in DOMAIN rules : Match(rules[i], m, env).m

\* matchSubRules: the first rule of the list that matches decides.  A rule of
\* the list that is a SUB-RULE itself has its result dropped, and the search
\* goes on behind it.
MatchSubRules(m, name, env) ==
  LET rules == env.sub[name]
      hits == {i \in DOMAIN rules : rules[i].t # "sub" /\ Match(rules[i], m, env).m} IN
  IF name \notin DOMAIN env.sub \/ hits = {} THEN NoMatch
  ELSE Match(rules[CHOOSE i \in hits : \A j \in hits : i <= j], m, env)

Match(rule, m, env) ==
  CASE rule.t = "match" -> Result(TRUE, rule)
    [] rule.t = "domain" -> Result(DomainMatch(rule, m), rule)
    [] rule.t = "ip" -> Result(IPCIDRMatch(rule, m), rule)
    [] rule.t = "geoip" -> Result(GEOIPMatch(rule, m), rule)
    [] rule.t = "src" -> Result(SrcIPMatch(rule, m), rule)
    [] rule.t = "network" -> Result(NetworkMatch(rule, m), rule)
    [] rule.t = "process" -> Result(ProcessMatch(rule, m), rule)
    [] rule.t = "port" -> Result(PortMatch(rule, m), rule)
    [] rule.t = "uid" -> IF UidMatch(rule, m) THEN Result(TRUE, rule) ELSE NoMatch
    [] rule.t = "in" -> IF InMatch(rule, m) THEN Result(TRUE, rule) ELSE NoMatch
    [] rule.t = "set" -> Result(Some(env.sets[rule.set], m, env), rule)
    [] rule.t = "not" -> IF Match(rule.rules[1], m, env).m THEN NoMatch ELSE Result(TRUE, rule)
    [] rule.t = "or" -> IF Some(rule.rules, m, env) THEN Result(TRUE, rule) ELSE NoMatch
    [] rule.t = "and" -> Result(All(rule.rules, m, env), rule)
    [] rule.t = "sub" -> IF Match(rule.rules[1], m, env).m THEN MatchSubRules(m, rule.to, env)
                         ELSE NoMatch

\* A rule set needs what its rules need by now; a rule with parts what they
\* needed when it was parsed, with nothing loaded yet; and a SUB-RULE what the
\* list it leads to needs, whatever its condition is.
Composed == {"not", "or", "and"}
AtParse(env) == [env EXCEPT !.sets = [n \in DOMAIN @ |-> <<>>]]

RECURSIVE ShouldResolveIP(_, _)
RECURSIVE ShouldFindProcess(_, _)
ShouldResolveIP(rule, env) ==
  LET Any(rules, e) == \E i \in DOMAIN rules : ShouldResolveIP(rules[i], e) IN
  CASE rule.t \in {"ip", "geoip"} -> ~rule.noResolve
    [] rule.t = "set" -> ~rule.noResolve /\ Any(env.sets[rule.set], env)
    [] rule.t \in Composed -> Any(rule.rules, AtParse(env))
    [] rule.t = "sub" -> Any(env.sub[rule.to], AtParse(env))
    [] OTHER -> FALSE

ShouldFindProcess(rule, env) ==
  LET Any(rules, e) == \E i \in DOMAIN rules : ShouldFindProcess(rules[i], e) IN
  CASE rule.t \in {"process", "uid"} -> TRUE
    [] rule.t = "set" -> Any(env.sets[rule.set], env)
    [] rule.t \in Composed -> Any(rule.rules, AtParse(env))
    [] rule.t = "sub" -> Any(env.sub[rule.to], AtParse(env))
    [] OTHER -> FALSE

\* A list of a rule provider: what may not stand in one is passed over.
Loaded(list) == SelectSeq(list, LAMBDA r : r.t \notin {"match", "sub"} /\ (r.t \in {"port", "uid"} => Ranges(r) # Refused))

-----------------------------------------------------------------------------
(* The payload of a rule with parts: what stands in the outermost           *)
(* parentheses, or in those next to them, if one pair embraces all.         *)

\* What is open is stacked; the pairs are kept, or Nil for a payload that does
\* not close what it opens, or closes what it has not opened.
Format(payload) ==
  LET after[i \in 0..Len(payload)] ==
        IF i = 0 THEN [open |-> <<>>, pairs |-> {}, error |-> FALSE]
        ELSE LET b == after[i - 1]  n == Len(b.open) IN
             CASE payload[i] = "(" -> [b EXCEPT !.open = Append(@, i)]
               [] payload[i] = ")" /\ n > 0 -> [b EXCEPT !.open = SubSeq(@, 1, n - 1), !.pairs = @ \cup {<<b.open[n], i>>}]
               [] payload[i] = ")" /\ n = 0 -> [b EXCEPT !.error = TRUE]
               [] OTHER -> b
      end == after[Len(payload)]
  IN IF end.error \/ end.open # <<>> THEN Nil ELSE end.pairs

\* One after the other: a pair counts if none that counts holds it.
FindSubRuleRange(payload, ranges) ==
  LET found[i \in 0..Len(payload)] ==
        IF i = 0 THEN {}
        ELSE found[i - 1] \cup {r \in ranges : r[1] = i /\ r # <<1, Len(payload)>>
                                               /\ \A o \in found[i - 1] : ~(o[1] < r[1] /\ o[2] > r[2])}
  IN found[Len(payload)]

-----------------------------------------------------------------------------
(* Connections *)

VARIABLES rt, pl   \* of two specifications: the tunnel, and a payload

Init ==
  \E in \in [Connections -> Inputs], mode \in {"normal", "mapping", "fake"},
     tunnelMode \in {"rule", "direct", "global"}, find \in {"off", "strict", "always"} :
    rt = [mode |-> mode,             \* enhanced-mode of the DNS server
          tunnelMode |-> tunnelMode, find |-> find,
          sets |-> [i \in DOMAIN Configs |-> [n \in DOMAIN Configs[i].sets |-> 0]],   \* what the providers have loaded
          status |-> "running", proxies |-> 1, rules |-> 1,   \* by the index of their configuration
          applying |-> 0,            \* the configuration of which ApplyConfig is under way
          writing |-> FALSE,         \* configMux is write-locked
          conn |-> [c \in Connections |-> [pc |-> "queued", m |-> in[c], asked |-> in[c].ip,
                                           since |-> 0]]]

Conn(c) == rt.conn[c]
At(c, pc) == Conn(c).pc = pc
Ends(s, c, pc) == [s EXCEPT !.conn[c].pc = pc]

\* Readers of the rules: between RLock and RUnlock
Matching == {c \in Connections : At(c, "match")}

-----------------------------------------------------------------------------
(* ApplyConfig, as far as routing sees it.                                 *)

OnSuspend ==
  /\ rt.applying = 0 /\ rt.rules < Len(Configs)
  /\ rt' = [rt EXCEPT !.status = "suspend", !.applying = rt.rules + 1]

UpdateProxies ==
  /\ rt.applying # 0 /\ rt.proxies < rt.applying /\ Matching = {}
  /\ rt' = [rt EXCEPT !.proxies = rt.applying]

UpdateRules ==
  /\ rt.applying # 0 /\ rt.proxies = rt.applying /\ rt.rules < rt.applying /\ Matching = {}
  /\ rt' = [rt EXCEPT !.rules = rt.applying]

OnInnerLoading ==
  /\ rt.applying # 0 /\ rt.rules = rt.applying /\ rt.status = "suspend"
  /\ rt' = [rt EXCEPT !.status = "inner"]

\* Providers are loaded, and may fail to be, after inner connections are let in;
\* later they are updated at any time, and no lock is taken.
Load(i, n) == [rt EXCEPT !.sets[i][n] = @ + 1,
                         !.conn = [c \in Connections |-> IF "moved" \in DOMAIN @[c] THEN [@[c] EXCEPT !.moved = TRUE] ELSE @[c]]]
OnUpdate ==
  \E i \in DOMAIN Configs : \E n \in DOMAIN Configs[i].sets :
    /\ i <= rt.rules /\ rt.sets[i][n] < Len(Configs[i].sets[n])
    /\ rt.applying = i => rt.status = "inner"
    /\ rt' = Load(i, n)

OnRunning ==
  /\ rt.status = "inner"
  /\ rt' = [rt EXCEPT !.status = "running", !.applying = 0]

-----------------------------------------------------------------------------

\* Mutant: a connection is handled whatever the status.
IsHandleAlways(type) == TRUE

IsHandle(type) == rt.status = "running" \/ (rt.status = "inner" /\ type = "inner")

\* process: a connection that is not handled is closed
Take(c) ==
  /\ At(c, "queued")
  /\ rt' = IF IsHandle(Conn(c).m.type)
           THEN [Ends(rt, c, "pre") EXCEPT !.conn[c].since = IF rt.applying # 0 THEN rt.applying ELSE rt.rules]
           ELSE Ends(rt, c, "closed")

\* Hosts.Search(host, FALSE): the addresses that a host leads to, or {}
RECURSIVE HostIPs(_)
HostIPs(h) ==
  IF h \notin DOMAIN Hosts THEN {}
  ELSE IF "ips" \in DOMAIN Hosts[h] THEN Hosts[h].ips ELSE HostIPs(Hosts[h].domain)

\* Hosts.Search(host, TRUE): the name that a host is mapped to
HostDomain(h) == IF h \in DOMAIN Hosts /\ "domain" \in DOMAIN Hosts[h] THEN Hosts[h].domain ELSE h

NeedLookupIP(m) == rt.mode # "normal" /\ m.host = Nil /\ m.ip # Nil

\* FindHostByIP and IsFakeIP
HostOfIP == IF rt.mode = "fake" THEN FakeHosts ELSE Answers
IsFakeIP(ip) == rt.mode = "fake" /\ ip \in FakeIPs

\* What is known of the host of an address: with fake addresses the address is
\* forgotten, otherwise a host mapping may replace the address or the host.
WithHost(m, h) ==
  IF rt.mode = "fake" THEN {[m EXCEPT !.host = h, !.ip = Nil, !.dns = "fake"]}
  ELSE IF HostIPs(h) # {} THEN {[m EXCEPT !.host = h, !.ip = ip, !.dns = "mapping"] : ip \in HostIPs(h)}
  ELSE {[m EXCEPT !.host = HostDomain(h), !.dns = "mapping"]}

\* preHandleMetadata: the metadata, or nothing for an error
PreHandleMetadata(m) ==
  IF ~NeedLookupIP(m) THEN {[m EXCEPT !.host = HostDomain(m.host)]}
  ELSE IF m.ip \in DOMAIN HostOfIP THEN WithHost(m, HostOfIP[m.ip])
  ELSE IF IsFakeIP(m.ip) THEN {} ELSE {m}

Pre(c) ==
  /\ At(c, "pre")
  /\ IF PreHandleMetadata(Conn(c).m) = {} THEN rt' = Ends(rt, c, "closed")
     ELSE \E m \in PreHandleMetadata(Conn(c).m) :
            rt' = [rt EXCEPT !.conn[c].m = m,
                             !.conn[c].pc = IF m.net = "tcp" THEN "sniff" ELSE "resolve"]

\* handleUDPConn resolves a host at once
ResolveUDP(c) ==
  /\ At(c, "resolve")
  /\ LET m == Conn(c).m IN
     rt' = IF m.ip # Nil THEN Ends(rt, c, "route")
           ELSE IF m.host \in DOMAIN Address
           THEN [rt EXCEPT !.conn[c].m.ip = Address[m.host], !.conn[c].pc = "route"]
           ELSE Ends(rt, c, "closed")

\* TCPSniff finds no host, or the one that the client names; replaceDomain
Sniff(c) ==
  /\ At(c, "sniff")
  /\ \/ rt' = Ends(rt, c, "route")
     \/ \E h \in DOMAIN Address, override \in BOOLEAN :
          rt' = [rt EXCEPT !.conn[c].pc = "route", !.conn[c].m.sniffed = h, !.conn[c].m.dns = "normal",
                           !.conn[c].m.host = IF override THEN h ELSE @]

\* resolveMetadata: a special proxy is looked up without the lock, and so is the
\* one of a mode without rules; the rules are read with it.  The addresses of
\* the host mapping count as resolved.
Unruled(m) ==
  IF m.special # Nil THEN m.special
  ELSE IF rt.tunnelMode = "direct" THEN "DIRECT" ELSE IF rt.tunnelMode = "global" THEN "GLOBAL" ELSE Nil
Route(c) ==
  /\ At(c, "route")
  /\ LET m == Conn(c).m
         ips == IF m.host = Nil THEN {} ELSE HostIPs(m.host)
         begin == [pc |-> "match", m |-> m, asked |-> Conn(c).asked, since |-> Conn(c).since,
                   i |-> 1, resolved |-> ips # {}, found |-> FALSE, lookups |-> 0,
                   rules |-> rt.rules, need |-> FALSE, ready |-> FALSE, moved |-> FALSE, asks |-> {}] IN
     IF Unruled(m) # Nil
     THEN rt' = IF Unruled(m) \in DOMAIN Configs[rt.proxies].proxies
                THEN [rt EXCEPT !.conn[c] = [pc |-> "chosen", m |-> m, proxy |-> Unruled(m), by |-> 0, ruled |-> FALSE,
                                             rules |-> rt.rules, proxies |-> rt.proxies,
                                             asked |-> Conn(c).asked, since |-> Conn(c).since]]
                ELSE Ends(rt, c, "closed")
     ELSE \E ip \in IF ips = {} THEN {m.ip} ELSE ips :
            rt' = [rt EXCEPT !.conn[c] = [begin EXCEPT !.m.ip = ip]]

\* What the rules of the configuration in use refer to
Env ==
  [sub |-> Configs[rt.rules].sub,
   sets |-> [n \in DOMAIN Configs[rt.rules].sets |->
              IF rt.sets[rt.rules][n] = 0 THEN <<>> ELSE Loaded(Configs[rt.rules].sets[n][rt.sets[rt.rules][n]])]]

\* getRules: the sub-rules that the listener names, if there are any
GetRules(c) ==
  LET cfg == Configs[rt.rules] IN
  IF Conn(c).m.specialRules \in DOMAIN cfg.sub THEN cfg.sub[Conn(c).m.specialRules] ELSE cfg.rules

\* resolved = true, also after a failure
Resolved(c, ok) == TRUE

\* The metadata of c once rule has what it needs: a set of connections.  A process
\* that is not found is looked for again at the next rule.
Completed(c, rule) ==
  LET k == Conn(c)
      asks == ShouldResolveIP(rule, Env)
      lookup == ~k.resolved /\ asks /\ k.m.host # Nil /\ k.m.ip = Nil
      find == rt.find # "off" /\ ~k.found /\ (rt.find = "always" \/ ShouldFindProcess(rule, Env))
      ips == IF lookup THEN {Nil} \cup (IF k.m.host \in DOMAIN Address THEN {Address[k.m.host]} ELSE {})
             ELSE {k.m.ip} IN
  {[k EXCEPT !.m.ip = ip, !.lookups = IF lookup THEN @ + 1 ELSE @, !.ready = TRUE, !.need = @ \/ asks,
             !.asks = IF asks THEN @ \cup {k.i} ELSE @,
             !.resolved = @ \/ (lookup /\ Resolved(c, ip # Nil)),
             !.m.process = IF is THEN k.m.runs ELSE @, !.m.uid = IF is THEN k.m.owner ELSE @, !.found = @ \/ is] :
     ip \in ips, is \in IF find THEN BOOLEAN ELSE {FALSE}}

\* The chain of what a group has chosen reaches the proxy PASS
RECURSIVE Passes(_, _)
Passes(proxies, p) ==
  \/ proxies[p].type = "pass"
  \/ proxies[p].now # Nil /\ proxies[p].now \in DOMAIN proxies /\ Passes(proxies, proxies[p].now)

Usable(p, m) ==
  LET proxies == Configs[rt.proxies].proxies IN
  /\ p \in DOMAIN proxies
  /\ ~Passes(proxies, p)
  /\ m.net = "udp" => proxies[p].udp

Chosen(k, p, i) ==
  [pc |-> "chosen", m |-> k.m, proxy |-> p, by |-> i, rules |-> k.rules, proxies |-> rt.proxies, ruled |-> TRUE,
   asked |-> k.asked, since |-> k.since, lookups |-> k.lookups, need |-> k.need, moved |-> k.moved, asks |-> k.asks]

\* One round of the loop of match: the rule gets what it needs, and is tried
Complete(c) ==
  /\ At(c, "match") /\ Conn(c).i <= Len(GetRules(c)) /\ ~Conn(c).ready
  /\ \E k \in Completed(c, GetRules(c)[Conn(c).i]) : rt' = [rt EXCEPT !.conn[c] = k]
TryRule(c) ==
  LET k == Conn(c) IN
  /\ At(c, "match") /\ k.ready
  /\ LET r == Match(GetRules(c)[k.i], k.m, Env) IN
     rt' = IF r.m /\ Usable(r.a, k.m)
           THEN [rt EXCEPT !.conn[c] = Chosen(k, r.a, k.i)]
           ELSE [rt EXCEPT !.conn[c] = [k EXCEPT !.i = @ + 1, !.ready = FALSE]]

NoRule(c) ==
  /\ At(c, "match") /\ Conn(c).i > Len(GetRules(c))
  /\ rt' = [rt EXCEPT !.conn[c] = Chosen(Conn(c), "DIRECT", 0)]

\* Metadata.Pure: a host that came from its address is not dialled by name
Pure(m) == IF m.dns \in {"mapping", "hosts"} /\ m.ip # Nil THEN [m EXCEPT !.host = Nil] ELSE m

\* Before the dial of TCP, the address of a host mapping replaces the host,
\* unless it is a fake one; UDP always goes by what is pure.
Dial(c) ==
  /\ At(c, "chosen")
  /\ LET m == Conn(c).m
         ips == IF m.host = Nil THEN {} ELSE HostIPs(m.host)
         real == {ip \in ips : ip \notin FakeIPs} IN
     \E n \in IF m.net = "udp" THEN {Pure(m)}
              ELSE {Pure([m EXCEPT !.ip = ip, !.dns = "hosts"]) : ip \in real}
                   \cup (IF real # ips \/ ips = {} THEN {m} ELSE {}) :
       rt' = [rt EXCEPT !.conn[c].m = n, !.conn[c].pc = "dialled"]

Next ==
  \/ OnSuspend \/ UpdateProxies \/ UpdateRules \/ OnInnerLoading \/ OnUpdate \/ OnRunning
  \/ \E c \in Connections :
       \/ Take(c) \/ Pre(c) \/ ResolveUDP(c) \/ Sniff(c) \/ Route(c) \/ Complete(c) \/ TryRule(c) \/ NoRule(c)
       \/ Dial(c)

-----------------------------------------------------------------------------

Routed(c) == Conn(c).pc \in {"chosen", "dialled"}

\* A connection that is routed by the rules of one configuration and the
\* proxies of another was taken before the newer one was applied: no
\* connection that the tunnel lets in meanwhile meets half of each.
NoMixedConfig ==
  \A c \in Connections : Routed(c) /\ Conn(c).rules # Conn(c).proxies => Conn(c).since < Conn(c).proxies

\* No proxy is ever asked to connect to a fake address.
NoFakeDialled ==
  rt.mode = "fake" => \A c \in Connections : At(c, "dialled") => Conn(c).m.ip \notin FakeIPs

\* A connection that the rules decide on makes the tunnel ask for the address of
\* its host at most once, and only when a rule up to the one that was chosen
\* needs it.
NoNeedlessLookup ==
  \A c \in Connections : Routed(c) /\ Conn(c).ruled => Conn(c).lookups <= (IF Conn(c).need THEN 1 ELSE 0)

\* A UDP packet sent to an address that no host mapping is about goes to that
\* very address, whatever host it is known by.
AddressKept ==
  rt.mode = "mapping" =>
    \A c \in Connections : At(c, "dialled") /\ Conn(c).asked # Nil /\ Conn(c).m.net = "udp" =>
      \/ Conn(c).m.ip = Conn(c).asked /\ Conn(c).m.host = Nil
      \/ Conn(c).asked \in DOMAIN Answers /\ Answers[Conn(c).asked] \in DOMAIN Hosts

\* The rules before the one that was chosen do not apply to the connection as
\* it is when it is chosen, unless a rule list changed meanwhile, but for rules
\* about an address that they do not ask for, and about a process that was found
\* later.
FirstRuleWins ==
  \A c \in Connections : At(c, "chosen") /\ Conn(c).ruled /\ ~Conn(c).moved =>
    LET k == Conn(c)  cfg == Configs[k.rules]
        rules == IF k.m.specialRules \in DOMAIN cfg.sub THEN cfg.sub[k.m.specialRules] ELSE cfg.rules
        before == IF k.by = 0 THEN DOMAIN rules ELSE 1 .. k.by - 1
        proxies == Configs[k.proxies].proxies IN
    k.rules = rt.rules =>
    \A i \in before :
      LET r == Match(rules[i], k.m, Env) IN
      \/ ~r.m \/ r.a \notin DOMAIN proxies
      \/ Passes(proxies, r.a) \/ (k.m.net = "udp" /\ ~proxies[r.a].udp)
      \/ i \notin k.asks /\ ~Match(rules[i], [k.m EXCEPT !.ip = Nil], Env).m
      \/ ~Match(rules[i], [k.m EXCEPT !.process = Nil, !.uid = 0], Env).m

\* A rule that would apply if the address of the host were known is not passed
\* over for want of it, unless it says so, the host has no address that was found
\* or a rule list changed meanwhile; or it is a rule with a rule set as a part,
\* which needed nothing when it was parsed, or a SUB-RULE for its condition.
RECURSIVE Hides(_, _)
Hides(rule, env) ==
  CASE rule.t \in {"ip", "geoip", "set"} -> rule.noResolve
    [] rule.t \in Composed -> \E i \in DOMAIN rule.rules : rule.rules[i].t = "set" \/ Hides(rule.rules[i], env)
    [] rule.t = "sub" -> TRUE
    [] OTHER -> FALSE
AddressIsLookedUp ==
  \A c \in Connections : At(c, "chosen") /\ Conn(c).ruled /\ ~Conn(c).moved =>
    LET k == Conn(c)  cfg == Configs[k.rules]
        rules == IF k.m.specialRules \in DOMAIN cfg.sub THEN cfg.sub[k.m.specialRules] ELSE cfg.rules
        before == IF k.by = 0 THEN DOMAIN rules ELSE 1 .. k.by - 1 IN
    k.rules = rt.rules /\ k.m.host \in DOMAIN Address /\ k.m.ip = Nil /\ k.lookups = 0 =>
    \A i \in before :
      ~Match(rules[i], [k.m EXCEPT !.ip = Address[k.m.host]], Env).m \/ Match(rules[i], k.m, Env).m \/ Hides(rules[i], Env)

-----------------------------------------------------------------------------
(* Payloads *)

PayloadInit == pl = <<>>
PayloadNext == Len(pl) < MaxPayload /\ \E ch \in {"(", ")", "x"} : pl' = Append(pl, ch)

\* The parts that are found do not overlap, each is closed in itself, and
\* everything in parentheses but a pair around the whole lies in one of them.
PartsAreOutermost ==
  LET pairs == Format(pl)
      parts == FindSubRuleRange(pl, pairs)
      Count(ch, i, j) == Cardinality({k \in i..j : pl[k] = ch}) IN
  IF pairs = Nil THEN \E i \in DOMAIN pl : Count(")", 1, i) > Count("(", 1, i) \/ Count("(", 1, Len(pl)) # Count(")", 1, Len(pl))
  ELSE /\ \A p \in parts : Count("(", p[1], p[2]) = Count(")", p[1], p[2]) /\ pl[p[1]] = "(" /\ pl[p[2]] = ")"
       /\ \A p, o \in parts : p = o \/ p[2] < o[1] \/ o[2] < p[1]
       /\ \A i \in DOMAIN pl : pl[i] # "x" /\ (<<1, Len(pl)>> \in pairs => i \in 2..(Len(pl) - 1)) => \E p \in parts : i \in p[1]..p[2]
=============================================================================
