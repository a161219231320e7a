------------------------------- MODULE MCRules ------------------------------
(***************************************************************************)
(* The rules, what they look up, the DNS handler and the sections of a     *)
(* configuration, for model checking.  Each component's state is one       *)
(* record; a configuration names in Active the components that it is       *)
(* about, and the first state chooses one of them: the state spaces add up *)
(* and do not multiply.                                                    *)
(***************************************************************************)
EXTENDS Integers, Sequences, FiniteSets, TLC

CONSTANTS Active, Nil

HandlerParts == {"handler"}
LookupParts == {"routing", "payload", "domains", "addresses", "geodata"}
SectionParts == {"table", "hosts", "sub-rules"}
RuleParts == HandlerParts \cup LookupParts \cup SectionParts
DomainParts == {"domains"}

VARIABLES
  active,       \* the component that moves
  s             \* its state

-----------------------------------------------------------------------------
(* The DNS handler, and routing *)

\* The range of the pool is larger than the caches in memory; d is c by another
\* name, e has an address of its own and no fake one.
DN == INSTANCE DnsHandler WITH
  FirstIP <- 4, LastIP <- 7, Size <- 2, Names <- {"a", "b", "c", "d", "e"},
  Hosts <- [d |-> [name |-> "c"], e |-> [addrs |-> {50}]], Skipped <- {"e"},
  Modes <- {"mapping", "fake"}, MaxQueries <- 7, dn <- s

Domain(h, to) == [t |-> "domain", hosts |-> {h}, to |-> to]
IPRule(i, no, to) == [t |-> "ip", ips |-> {i}, noResolve |-> no, to |-> to]
Source(i, to) == [t |-> "src", ips |-> {i}, to |-> to]
Network(n, to) == [t |-> "network", net |-> n, to |-> to]
Process(p, to) == [t |-> "process", process |-> p, to |-> to]
Logic(t, rules, to) == [t |-> t, rules |-> rules, to |-> to]
Port(of, parts, to) == [t |-> "port", of |-> of, parts |-> parts, to |-> to]
Owner(parts, to) == [t |-> "uid", parts |-> parts, to |-> to]
From(of, values, to) == [t |-> "in", of |-> of, values |-> values, to |-> to]
Country(c, to) == [t |-> "geoip", country |-> c, noResolve |-> FALSE, to |-> to]
RuleSet(n, no, to) == [t |-> "set", set |-> n, noResolve |-> no, to |-> to]
Final(to) == [t |-> "match", to |-> to]

SomeProxies(names) ==
  [n \in names |-> [type |-> IF n = "PASS" THEN "pass" ELSE "proxy", udp |-> n # "h",
                    now |-> IF n = "g" THEN "PASS" ELSE Nil]]
SomeSub == [s |-> <<Domain("a", "h"), IPRule(12, FALSE, "p")>>]
NestedSub == SomeSub @@ [u |-> <<Logic("sub", <<Network("tcp", Nil)>>, "s"), RuleSet("ips", FALSE, "q"), Domain("b", "p")>>]

\* The second configuration does without a proxy that the rules of the first
\* use.
RoutingConfigs == <<
  [rules |-> <<Port("in", <<<<>>, <<9, 7>>, <<1>>>>, "h"), RuleSet("mixed", FALSE, "p"), IPRule(11, TRUE, "p"), Domain("a", "g"),
               Logic("sub", <<Network("tcp", Nil)>>, "s"),
               Logic("and", <<Network("udp", Nil), IPRule(12, FALSE, Nil)>>, "h"),
               Process("x", "h"), Logic("not", <<Domain("b", Nil)>>, "p")>>,
   sub |-> SomeSub, proxies |-> SomeProxies({"DIRECT", "GLOBAL", "PASS", "p", "g", "h"}),
   sets |-> [mixed |-> <<<<Port("dst", <<<<1, 2, 3>>>>, Nil), From("user", {"v"}, Nil), Owner(<<<<5>>>>, Nil)>>, <<Country("x", Nil)>>>>]],
  [rules |-> <<Logic("and", <<RuleSet("ips", FALSE, Nil), From("type", {"socks", "inner"}, Nil)>>, "p"),
               Domain("b", "q"), Logic("or", <<Domain("a", Nil), IPRule(11, FALSE, Nil)>>, "q"),
               Source(2, "p"), Country("lan", "q"), Final("p")>>,
   sub |-> NestedSub, proxies |-> SomeProxies({"DIRECT", "GLOBAL", "PASS", "q", "p"}),
   sets |-> [ips |-> <<<<IPRule(11, FALSE, Nil), IPRule(12, FALSE, Nil)>>>>]] >>

Input(net, type, host, ip, special, sr) ==
  [net |-> net, type |-> type, host |-> host, ip |-> ip, src |-> 1, sniffed |-> Nil, dns |-> "normal",
   port |-> [src |-> 3, dst |-> 2, in |-> IF type = "inner" THEN Nil ELSE IF host = "a" THEN 8 ELSE 3], uid |-> 0, owner |-> 5,
   in |-> [type |-> type, user |-> IF host = "b" THEN "v" ELSE Nil, name |-> Nil],
   process |-> Nil, runs |-> "x", special |-> special, specialRules |-> sr]
SomeInputs ==
  {Input("tcp", "inner", "a", Nil, Nil, Nil), Input("tcp", "socks", "b", Nil, Nil, "u"), Input("tcp", "socks", "b", Nil, Nil, Nil),
   Input("udp", "socks", Nil, 1, Nil, Nil), Input("tcp", "tun", Nil, 2, Nil, Nil),
   Input("udp", "tun", "d", Nil, "p", Nil), Input("tcp", "tun", Nil, 11, Nil, Nil),
   Input("udp", "tun", Nil, 11, Nil, Nil), Input("udp", "tun", Nil, 14, Nil, Nil),
   Input("tcp", "socks", "none", Nil, "h", Nil)}

RT == INSTANCE Routing WITH
  Configs <- RoutingConfigs, Inputs <- SomeInputs, FakeHosts <- (1 :> "a"), FakeIPs <- {1, 2},
  Answers <- (11 :> "b" @@ 14 :> "d"), Hosts <- [d |-> [domain |-> "e"], e |-> [ips |-> {12, 13}]],
  Address <- [a |-> 11, b |-> 12], Connections <- {"c"}, MaxUid <- 7, Private <- {13, 14}, CountryOf <- [x |-> {12}],
  MaxPayload <- 7, rt <- s, pl <- s

-----------------------------------------------------------------------------
(* What the rules look up *)

\* Two labels of one letter and one of both, as rules of every form, and the
\* pieces of them as patterns of a geosite list.
LabelA == <<97>>
LabelB == <<98>>
LabelBA == <<98, 97>>
Labels == {LabelA, LabelB, LabelBA}
AnyNumber == <<>>
AnyLabel == <<42>>
AnyOrNone == <<43>>
SomeDomains ==
  {<<LabelA>>, <<LabelA, LabelB>>, <<LabelBA, LabelB>>, <<LabelA, LabelBA, LabelB>>, <<LabelB, LabelBA>>,
   <<AnyOrNone, LabelA>>, <<AnyOrNone, LabelBA, LabelB>>, <<AnyNumber, LabelB>>, <<AnyNumber, LabelA, LabelB>>,
   <<AnyLabel, LabelA>>, <<AnyLabel, LabelB>>, <<LabelB, AnyLabel>>, <<LabelA, AnyLabel, LabelB>>,
   <<AnyOrNone, AnyLabel>>, <<AnyOrNone>>}
Pattern(type, text) == [type |-> type, s |-> text, fits |-> {}]
SomePatterns ==
  {Pattern("full", LabelA), Pattern("full", <<98, 46, 97>>),
   Pattern("domain", LabelA), Pattern("domain", LabelB), Pattern("domain", <<98, 97, 46, 98>>), Pattern("domain", <<97, 46, 98>>),
   Pattern("keyword", <<97, 98>>), Pattern("keyword", LabelBA), Pattern("keyword", <<98, 97, 46, 97>>), Pattern("keyword", <<97, 46>>),
   [Pattern("regex", <<>>) EXCEPT !.fits = {LabelB}]}
DM == INSTANCE DomainMatchers WITH
  Domains <- SomeDomains, Patterns <- SomePatterns, Queries <- UNION {[1..n -> Labels] : n \in 1..3},
  Chars <- {46, 97, 98}, MaxRules <- 4, dm <- s

\* Two bytes of two bits, and two groups of two of them, with CIDRs that nest,
\* overlap, begin in the middle and end anywhere.
CIDR(ip, bits) == [ip |-> ip, bits |-> bits]
SomeCIDRs ==
  {CIDR(<<0, 0>>, 0), CIDR(<<1, 0>>, 2), CIDR(<<1, 2>>, 3), CIDR(<<1, 3>>, 4), CIDR(<<2, 1>>, 4), CIDR(<<2, 0>>, 1), CIDR(<<3, 2>>, 3),
   CIDR(<<0, 0, 0, 0>>, 0), CIDR(<<1, 2, 0, 0>>, 4), CIDR(<<1, 2, 2, 0>>, 5), CIDR(<<1, 2, 3, 0>>, 6), CIDR(<<2, 0, 0, 0>>, 1),
   CIDR(<<2, 1, 0, 0>>, 3), CIDR(<<1, 2, 3, 1>>, 7), CIDR(<<3, 3, 3, 3>>, 8)}
SomeAddresses ==
  [1..2 -> 0..3] \cup {a \in [1..4 -> 0..3] : a[2] # 0 /\ a[4] \in {1, 3}}
SomeGeoFile ==
  <<[code |-> <<1>>, data |-> <<10, 3, 10, 1, 2>>], [code |-> <<1, 2>>, data |-> <<>>],
    [code |-> <<2>>, data |-> <<10, 1, 10>>]>>
SomeLines ==
  {[kind |-> k, rule |-> 0, newline |-> TRUE] : k \in {"head", "blank", "comment"}} \cup
  {[kind |-> "item", rule |-> r, newline |-> n] : r \in 1..2, n \in BOOLEAN}
GR == INSTANCE GeoRules WITH
  ByteBits <- 2, V4Bytes <- 2, V6Bytes <- 4, Cidrs <- SomeCIDRs, Addresses <- SomeAddresses, MaxCidrs <- 3,
  GeoFile <- SomeGeoFile, Lines <- SomeLines, MaxLines <- 4, Parsers <- {"p", "q"}, MaxFaults <- 2, ga <- s, gd <- s

-----------------------------------------------------------------------------
(* The sections of a configuration *)

\* Three groups with up to two members each, in every way, and tables that
\* name something twice, something unknown or a built-in name.
Short(S) == {<< >>} \cup {<<x>> : x \in S} \cup {<<x, y>> : x, y \in S}
G(n, ps) == [name |-> n, proxies |-> ps, use |-> IF ps = << >> THEN <<"f">> ELSE << >>, type |-> "select"]
Lists == Short({"a", "b", "c", "p"})
Table(gs, ps, fs) == [groups |-> gs, proxies |-> ps, providers |-> fs]
SomeTables ==
  {Table(<<G("a", l), G("b", m), G("c", n)>>, <<"p">>, {"f"}) : l, m, n \in Lists} \cup
  {Table(<<G("a", <<"x">>)>>, <<"p">>, {"f"}), Table(<<G("f", <<"p">>)>>, <<"p">>, {"f"}),
   Table(<<G("a", <<"p">>), G("a", <<"DIRECT">>)>>, <<"p">>, {"f"}), Table(<<G("p", <<"DIRECT">>)>>, <<"p">>, {"f"}),
   Table(<< >>, <<"p", "p">>, {}), Table(<< >>, <<"bad">>, {}), Table(<<G("default", <<"p">>)>>, <<"p">>, {"default"}),
   Table(<<G("default", <<"p">>), G("GLOBAL", <<"PASS">>)>>, <<"p">>, {}),
   Table(<<[G("a", <<"p">>) EXCEPT !.use = <<"f", "a">>]>>, <<"p">>, {"f"}),
   Table(<<[G("a", <<"p">>) EXCEPT !.type = "other"]>>, <<"p">>, {"f"})}
\* Every table of four names and a wildcard.
HostNames == {"a", "b", "c", "d"}
HostTables == UNION {[D -> HostNames \cup {"ip"}] : D \in SUBSET (HostNames \cup {"*"})}
To(n) == [sub |-> TRUE, to |-> n]
Plain(n) == [sub |-> FALSE, to |-> n]
RuleLists == {<< >>, <<Plain("p")>>, <<Plain("x")>>} \cup {<<To(n)>> : n \in {"a", "b", "p"}} \cup
             {<<To(n), Plain("p"), To(m)>> : n, m \in {"a", "b"}}
SE == INSTANCE ConfigSections WITH
  Configs <- SomeTables, Tables <- HostTables, Wildcard <- "*", IP <- "ip",
  Sections <- [{"a", "b", "c"} -> RuleLists], Rules <- <<Plain("p"), To("c")>>, Proxies <- {"p", "a"},
  pt <- s, ht <- s, sr <- s

-----------------------------------------------------------------------------

RunInit ==
  /\ active \in Active
  /\ \/ active = "handler" /\ DN!Init
     \/ active = "routing" /\ RT!Init
     \/ active = "payload" /\ RT!PayloadInit
     \/ active = "domains" /\ DM!Init
     \/ active = "addresses" /\ GR!Init
     \/ active = "geodata" /\ GR!DataInit
     \/ active = "table" /\ SE!TableInit
     \/ active = "hosts" /\ SE!HostsInit
     \/ active = "sub-rules" /\ SE!SubInit

RunNext ==
  /\ UNCHANGED active
  /\ \/ active = "handler" /\ DN!Next
     \/ active = "routing" /\ RT!Next
     \/ active = "payload" /\ RT!PayloadNext
     \/ active = "domains" /\ DM!Next
     \/ active = "addresses" /\ GR!Next
     \/ active = "geodata" /\ GR!DataNext
     \/ active = "table" /\ SE!TableNext
     \/ active = "hosts" /\ SE!HostsNext
     \/ active = "sub-rules" /\ SE!SubNext

RunSpec == RunInit /\ [][RunNext]_<<active, s>>

-----------------------------------------------------------------------------
(* The properties of the components *)

\* Two hosts never share a fake address, and each leads back to its host; an
\* address is used again only after the rest of the range; and with fake
\* addresses no answer gives a real one away.
FakePairsHold == active = "handler" => DN!PairsAgree /\ DN!ReuseIsLate /\ DN!NoRealAddress

\* Routing: no connection that is let in during a reload meets half of two
\* configurations; no proxy is asked to connect to a fake address; the host is
\* resolved at most once, and only for a rule that needs it; a UDP packet goes to
\* the address it was sent to; no rule before the one that was chosen applies, nor
\* would if the address of the host were known, but for the rules that forget what
\* they need; and the payload of a rule is cut at its outermost parentheses.
RoutedRight ==
  /\ active = "routing" =>
       /\ RT!NoMixedConfig /\ RT!NoFakeDialled /\ RT!NoNeedlessLookup /\ RT!AddressKept
       /\ RT!FirstRuleWins /\ RT!AddressIsLookedUp
  /\ active = "payload" => RT!PartsAreOutermost

\* Domains: the trie finds the closest rule; its succinct set has the same
\* domains, if no rule has a star and none is a plus alone; and a geosite list
\* in a table is the list asked one by one, but for keywords within keywords.
DomainsMatched ==
  active = "domains" => DM!TrieFindsClosest /\ DM!SetIsTrie /\ DM!GeositeIsLinear

\* Addresses: the trie of a rule provider and the matcher of a GeoIP list find
\* what their CIDRs cover, but for the masks that the trie cuts wrongly and the
\* lists that overlap; a suffix decides by the last bits; a list of a data file
\* is read whole or not at all, wherever the file was cut; a rule list is read
\* to its end; and a data file that a crash left broken is repaired by the next
\* start, unless what is verified of it is whole.
AddressesMatched ==
  /\ active = "addresses" => GR!TrieIsExact /\ GR!GeoIPIsExact /\ GR!SuffixIsExact /\ GR!ListsAreWhole /\ GR!RulesAreRead
  /\ active = "geodata" => GR!BrokenIsNotTaken /\ GR!StartRepairs

\* A geosite keyword is found in every domain that contains it.
KeywordsFound == active = "domains" => DM!KeywordsAreFound

\* The sections of a configuration: every group is parsed after the groups it
\* names; only a loop is refused as one, and its error names its groups; a table
\* that is accepted has every name it needs; a search over plain host names ends,
\* if no name stands for itself; and so does matching accepted sub-rules.
SectionsAreSound ==
  /\ active = "table" => SE!EachAfterItsMembers /\ SE!LoopIsLocated /\ SE!TableIsComplete
  /\ active = "hosts" => SE!PlainWalksEnd
  /\ active = "sub-rules" => SE!MatchingEnds
=============================================================================
