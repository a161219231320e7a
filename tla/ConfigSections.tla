--------------------------- MODULE ConfigSections ---------------------------
(***************************************************************************)
(* Sections of a configuration that must not lead in circles.              *)
(*                                                                         *)
(* The table of proxies that a configuration defines: parseProxies, with   *)
(* proxyGroupsDagSort, which orders the groups so that each one comes      *)
(* after the groups it lists or names the groups of a loop, and            *)
(* ParseProxyGroup, which looks the members up in what was made so far.    *)
(* The order of a Go map is arbitrary: the queues start in any order.      *)
(*                                                                         *)
(* Hosts: parseHosts inserts the entries in the arbitrary order of a Go    *)
(* map and follows each domain value to refuse cycles, and Hosts.Search    *)
(* follows domain values at run time.  HostNames are the members of one    *)
(* family; the entry Wildcard ("*.family") answers for those without an    *)
(* entry of their own.                                                     *)
(*                                                                         *)
(* Sub-rules: parseSubRules takes the named lists in the arbitrary order   *)
(* of a Go map, parseRules looks the target of each rule up among the      *)
(* proxies and the lists parsed before it, and verifySubRule follows the   *)
(* references for circles.  A rule is [sub, to].                           *)
(***************************************************************************)
EXTENDS Integers, Sequences, FiniteSets, SequencesExt

CONSTANTS
  Configs,      \* [proxies |-> names, groups |-> [name, proxies, use, type], providers |-> names]
  Tables,       \* functions from names, and Wildcard, to a name or to IP
  HostNames, Wildcard, IP, Nil,
  Sections,     \* functions from names to sequences of rules
  Rules,        \* the main list of rules
  Proxies       \* names of proxies

BuiltIn == {"DIRECT", "REJECT", "COMPATIBLE", "PASS"}
ReservedName == "default"
GroupTypes == {"url-test", "select", "fallback", "load-balance", "relay"}

VARIABLE pt

TableInit ==
  \E c \in Configs :
    pt = [pc |-> "proxies", cfg |-> c,
          groups |-> c.groups,          \* groupsConfig, sorted in place
          index |-> 0, queue |-> << >>,
          graph |-> << >>,              \* name :> [in, out], the nodes left
          proxies |-> {}, providers |-> << >>,
          result |-> {}]                \* the elements of the loop

Fail(what) == pt' = [pt EXCEPT !.pc = "failed", !.result = what]

\* adapter.ParseProxy refuses the entry "bad"
ParseProxies ==
  /\ pt.pc = "proxies"
  /\ LET ps == pt.cfg.proxies
     IN  IF "bad" \in ToSet(ps) \/ ToSet(ps) \cap BuiltIn # {} \/ Cardinality(ToSet(ps)) < Len(ps)
         THEN Fail({"proxy"})
         ELSE pt' = [pt EXCEPT !.pc = "graph", !.proxies = BuiltIn \cup ToSet(ps)]

-----------------------------------------------------------------------------
(* proxyGroupsDagSort *)

Names(c) == {c.groups[i].name : i \in DOMAIN c.groups}
GroupOf(c, n) == c.groups[CHOOSE i \in DOMAIN c.groups : c.groups[i].name = n]
Children(c, n) == IF n \in Names(c) THEN GroupOf(c, n).proxies ELSE << >>
Times(c, f, n) == Cardinality({i \in DOMAIN Children(c, f) : Children(c, f)[i] = n})
Nodes(c) == Names(c) \cup UNION {ToSet(Children(c, n)) : n \in Names(c)}

\* Step 1.1, and the first queue of step 1.2
BuildGraph ==
  /\ pt.pc = "graph"
  /\ LET c == pt.cfg
         g == [n \in Nodes(c) |-> [in |-> MapThenSumSet(LAMBDA f : Times(c, f, n), Names(c)), out |-> 0]]
     IN  IF Cardinality(Names(c)) < Len(c.groups) THEN Fail({"duplicate"})
         ELSE \E q \in SetToSeqs({n \in Nodes(c) : g[n].in = 0}) :
                pt' = [pt EXCEPT !.pc = "sort", !.graph = g, !.queue = q]

Without(g, n) == [m \in DOMAIN g \ {n} |-> g[m]]

\* Mutant: the groups are placed from the front.
SortStepForward ==
  /\ pt.pc = "sort" /\ pt.queue # << >>
  /\ LET c == pt.cfg
         n == Head(pt.queue)
         kids == Children(c, n)
         g == [m \in DOMAIN pt.graph |-> [pt.graph[m] EXCEPT !.in = @ - Times(c, n, m)]]
         k == IF n \in Names(c) THEN pt.index + 1 ELSE pt.index
     IN  \E q \in SetToSeqs({m \in ToSet(kids) : g[m].in = 0}) :
           pt' = [pt EXCEPT !.queue = Tail(@) \o q, !.graph = Without(g, n), !.index = k,
                            !.groups = IF k = pt.index THEN @ ELSE [@ EXCEPT ![k] = GroupOf(c, n)]]

\* One element of the queue of step 1.2: a group takes the last free place.
\* Its children are looked at in the order of its list.
SortStep ==
  /\ pt.pc = "sort" /\ pt.queue # << >>
  /\ LET c == pt.cfg
         n == Head(pt.queue)
         kids == Children(c, n)
         g == [m \in DOMAIN pt.graph |-> [pt.graph[m] EXCEPT !.in = @ - Times(c, n, m)]]
         \* the last mention of a child is the one that brings it to zero
         ready == SelectSeq([i \in DOMAIN kids |->
                     IF g[kids[i]].in = 0 /\ \A j \in i + 1..Len(kids) : kids[j] # kids[i]
                     THEN kids[i] ELSE ""], LAMBDA m : m # "")
         k == IF n \in Names(c) THEN pt.index + 1 ELSE pt.index
     IN  pt' = [pt EXCEPT !.queue = Tail(@) \o ready, !.graph = Without(g, n), !.index = k,
                          !.groups = IF k = pt.index THEN @
                                     ELSE [@ EXCEPT ![Len(@) - k + 1] = GroupOf(c, n)]]

Sorted ==
  /\ pt.pc = "sort" /\ pt.queue = << >> /\ DOMAIN pt.graph = {}
  /\ pt' = [pt EXCEPT !.pc = "providers"]

\* Step 2.1, and the first queue of step 2.2
Rebuild ==
  /\ pt.pc = "sort" /\ pt.queue = << >> /\ DOMAIN pt.graph # {}
  /\ LET g == [n \in DOMAIN pt.graph |-> [pt.graph[n] EXCEPT !.out = Len(Children(pt.cfg, n))]]
     IN  \E q \in SetToSeqs({n \in DOMAIN g : g[n].out = 0}) :
           pt' = [pt EXCEPT !.pc = "trim", !.graph = g, !.queue = q]

\* One element of the queue of step 2.2: what is not on the way to a loop goes.
TrimStep ==
  /\ pt.pc = "trim" /\ pt.queue # << >>
  /\ LET n == Head(pt.queue)
         g == [f \in DOMAIN pt.graph |-> [pt.graph[f] EXCEPT !.out = @ - Times(pt.cfg, f, n)]]
         ready == {f \in DOMAIN g : Times(pt.cfg, f, n) > 0 /\ g[f].out = 0}
     IN  \E q \in SetToSeqs(ready) :
           pt' = [pt EXCEPT !.queue = Tail(@) \o q, !.graph = Without(g, n)]

ReportLoop == pt.pc = "trim" /\ pt.queue = << >> /\ Fail(DOMAIN pt.graph)

-----------------------------------------------------------------------------

ParseProviders ==
  /\ pt.pc = "providers"
  /\ IF ReservedName \in pt.cfg.providers THEN Fail({"reserved"})
     ELSE pt' = [pt EXCEPT !.pc = "groups", !.index = 1,
                           !.providers = [n \in pt.cfg.providers |-> "file"]]

\* The errors of ParseProxyGroup, and the duplicate name after it
ParseError(g) ==
  \/ g.type = "" \/ g.name = "" \/ (g.proxies = << >> /\ g.use = << >>)
  \/ ~(ToSet(g.proxies) \subseteq pt.proxies)
  \/ g.proxies # << >> /\ g.name \in DOMAIN pt.providers
  \/ \E u \in ToSet(g.use) :
       u \notin DOMAIN pt.providers \/ pt.providers[u] # "file" \/ (g.proxies # << >> /\ u = g.name)
  \/ g.type \notin GroupTypes
  \/ g.name \in pt.proxies

\* A group with members of its own has a provider under its own name.
ParseProxyGroup ==
  /\ pt.pc = "groups" /\ pt.index <= Len(pt.groups)
  /\ LET g == pt.groups[pt.index]
     IN  IF ParseError(g) THEN Fail({"group"})
         ELSE pt' = [pt EXCEPT !.index = @ + 1, !.proxies = @ \cup {g.name},
                               !.providers = [n \in DOMAIN @ \cup IF g.proxies = << >> THEN {} ELSE {g.name} |->
                                                IF n \in DOMAIN @ THEN @[n] ELSE n]]

\* The provider of GLOBAL goes under the reserved name, and GLOBAL into the
\* table, whoever had these names before.
Finish ==
  /\ pt.pc = "groups" /\ pt.index > Len(pt.groups)
  /\ pt' = [pt EXCEPT !.pc = "done", !.proxies = @ \cup {"GLOBAL"},
                      !.providers = [n \in DOMAIN @ \cup {ReservedName} |->
                                       IF n = ReservedName THEN "GLOBAL" ELSE @[n]]]

TableNext ==
  \/ ParseProxies \/ BuildGraph \/ SortStep \/ Sorted \/ Rebuild \/ TrimStep \/ ReportLoop
  \/ ParseProviders \/ ParseProxyGroup \/ Finish

-----------------------------------------------------------------------------

\* There is a way along the lists from m to n.
Reaches(c, m, n) ==
  LET step(S) == S \cup UNION {ToSet(Children(c, k)) : k \in S}
      S0 == ToSet(Children(c, m))
  IN  n \in FoldSet(LAMBDA x, S : step(S), S0, Nodes(c))

OnLoop(c, n) == Reaches(c, n, n)

\* When the groups get parsed, the sorted array is the configured one in
\* another order, and each group stands after the groups that it lists.
EachAfterItsMembers ==
  pt.pc = "groups" =>
    /\ ToSet(pt.groups) = ToSet(pt.cfg.groups) /\ Len(pt.groups) = Len(pt.cfg.groups)
    /\ \A i, j \in DOMAIN pt.groups :
         pt.groups[j].name \in ToSet(pt.groups[i].proxies) => j < i

\* The error names exactly the nodes of the loops and the ones on a way from
\* one loop to another; and a configuration without a loop is not refused.
LoopIsLocated ==
  pt.pc = "trim" /\ pt.queue = << >> =>
    /\ DOMAIN pt.graph # {}
    /\ DOMAIN pt.graph =
         {n \in Nodes(pt.cfg) :
            /\ \E m \in Nodes(pt.cfg) : OnLoop(pt.cfg, m) /\ (m = n \/ Reaches(pt.cfg, m, n))
            /\ \E m \in Nodes(pt.cfg) : OnLoop(pt.cfg, m) /\ (m = n \/ Reaches(pt.cfg, n, m))}

\* What a finished table offers is complete: each member of each group is in
\* it, so are all the names that GLOBAL will show, and the providers keep the
\* place they were configured with.
TableIsComplete ==
  pt.pc = "done" =>
    /\ \A i \in DOMAIN pt.groups : ToSet(pt.groups[i].proxies) \subseteq pt.proxies
    /\ ToSet(pt.cfg.proxies) \cup Names(pt.cfg) \subseteq pt.proxies
    /\ \A n \in pt.cfg.providers : pt.providers[n] = "file"

-----------------------------------------------------------------------------
VARIABLES
  ht,           \* the hosts section
  sr            \* the sub-rules section

-----------------------------------------------------------------------------
(* Hosts *)

HostsInit ==
  \E t \in Tables :
    ht = [pc |-> "parse", cfg |-> t, todo |-> DOMAIN t,
          tree |-> {},          \* the entries inserted so far
          at |-> Nil,           \* the entry that is looked at
          node |-> Nil,         \* where its value leads
          seen |-> {}]          \* the nodes this walk has met

\* DomainTrie.Search: the entry that answers for a name
Search(tree, name) ==
  IF name \in tree THEN name
  ELSE IF name \in HostNames /\ Wildcard \in tree THEN Wildcard ELSE Nil

Value(e) == ht.cfg[e]
IsDomain(e) == e # Nil /\ Value(e) \in HostNames

TakeEntry(e) ==
  /\ ht.pc = "parse" /\ ht.at = Nil /\ e \in ht.todo
  /\ ht' = [ht EXCEPT !.todo = @ \ {e}, !.at = e, !.seen = {},
                      !.node = IF IsDomain(e) THEN Search(ht.tree, Value(e)) ELSE Nil]

\* One round of the loop that looks for a cycle
Follow ==
  /\ ht.pc = "parse" /\ ht.at # Nil /\ IsDomain(ht.node)
  /\ IF Value(ht.node) = ht.at THEN ht' = [ht EXCEPT !.pc = "refused"]
     ELSE ht' = [ht EXCEPT !.node = Search(ht.tree, Value(ht.node)), !.seen = @ \cup {ht.node}]

InsertEntry ==
  /\ ht.pc = "parse" /\ ht.at # Nil /\ ~IsDomain(ht.node)
  /\ ht' = [ht EXCEPT !.tree = @ \cup {ht.at}, !.at = Nil, !.node = Nil]

Accept ==
  /\ ht.pc = "parse" /\ ht.at = Nil /\ ht.todo = {}
  /\ ht' = [ht EXCEPT !.pc = "ready"]

\* Hosts.Search for an address: each round looks up the domain it has so far.
Ask(name) ==
  /\ ht.pc = "ready" /\ ht.node = Nil
  /\ ht' = [ht EXCEPT !.pc = "search", !.node = Search(ht.tree, name), !.seen = {}]

AskNext ==
  /\ ht.pc = "search" /\ IsDomain(ht.node)
  /\ ht' = [ht EXCEPT !.node = Search(ht.tree, Value(ht.node)), !.seen = @ \cup {ht.node}]

Answer == ht.pc = "search" /\ ~IsDomain(ht.node) /\ ht' = [ht EXCEPT !.pc = "ready", !.node = Nil]

HostsNext ==
  \/ (\E e \in ht.todo : TakeEntry(e)) \/ Follow \/ InsertEntry \/ Accept
  \/ (\E n \in HostNames : Ask(n)) \/ AskNext \/ Answer

-----------------------------------------------------------------------------

Simple(t) == Wildcard \notin DOMAIN t /\ \A e \in DOMAIN t : t[e] # e

\* A walk that meets a node twice never ends: no walk over a table of plain
\* names does, in whatever order they are inserted, if no name stands for itself.
PlainWalksEnd == Simple(ht.cfg) => ht.node \notin ht.seen

\* A table that is accepted can be searched: no walk meets a node twice.
WalksEnd == ht.node \notin ht.seen

-----------------------------------------------------------------------------
(* Sub-rules *)

SubInit ==
  \E c \in Sections :
    sr = [pc |-> "parse", cfg |-> c, todo |-> DOMAIN c, subRules |-> << >>]

\* The target of a rule exists.
Found(rule, subRules) == rule.to \in Proxies \/ (rule.sub /\ rule.to \in DOMAIN subRules)

ParseRules(rules, subRules) == \A i \in DOMAIN rules : Found(rules[i], subRules)

ParseList(n) ==
  /\ sr.pc = "parse" /\ n \in sr.todo
  /\ IF ~ParseRules(sr.cfg[n], sr.subRules) THEN sr' = [sr EXCEPT !.pc = "refused"]
     ELSE sr' = [sr EXCEPT !.todo = @ \ {n},
                           !.subRules = [m \in DOMAIN @ \cup {n} |-> IF m = n THEN sr.cfg[n] ELSE @[m]]]

References(rules) == SelectSeq(rules, LAMBDA r : r.sub)

\* verifySubRuleCircularReferences: there is an error on the way from n
RECURSIVE Circular(_, _)
Circular(n, arr) ==
  \E i \in DOMAIN References(sr.subRules[n]) :
    LET to == References(sr.subRules[n])[i].to
    IN  \/ to \notin DOMAIN sr.subRules
        \/ to \in ToSet(arr) \cup {n}
        \/ Circular(to, Append(arr, n))

Verify ==
  /\ sr.pc = "parse" /\ sr.todo = {}
  /\ sr' = [sr EXCEPT !.pc = IF \E n \in DOMAIN sr.subRules : Circular(n, << >>) THEN "refused" ELSE "rules"]

ParseMain ==
  /\ sr.pc = "rules"
  /\ sr' = [sr EXCEPT !.pc = IF ParseRules(Rules, sr.subRules) THEN "accepted" ELSE "refused"]

SubNext == (\E n \in sr.todo : ParseList(n)) \/ Verify \/ ParseMain

-----------------------------------------------------------------------------

Targets(n) == {r.to : r \in {q \in ToSet(sr.cfg[n]) : q.sub}}
Reachable(n) == FoldSet(LAMBDA x, S : S \cup UNION {Targets(m) : m \in S \cap DOMAIN sr.cfg},
                        Targets(n), DOMAIN sr.cfg)

\* Lists that are accepted can be matched: no list leads back to itself, and
\* every reference from one list to another leads to a list.
MatchingEnds ==
  sr.pc = "accepted" =>
    \A n \in DOMAIN sr.cfg : n \notin Reachable(n) /\ Reachable(n) \subseteq DOMAIN sr.cfg
=============================================================================
