----------------------------- MODULE ConfigLife -----------------------------
(***************************************************************************)
(* How a configuration comes into force: ParseRawConfig, which takes no    *)
(* lock, changes some global state on its way and may give up at any of    *)
(* its stages, then ApplyConfig, one at a time under a lock.  Several      *)
(* requests (the start, PUT /configs, an update of the GEO files) may be   *)
(* on their way at once.  A global is the number of the configuration that *)
(* its value is from, where its value is nothing else.                     *)
(***************************************************************************)
EXTENDS Integers, Sequences, FiniteSets

CONSTANTS
  Requests,     \* those who bring a configuration
  Configs,      \* [bad, utls, rp, range, tun, dns, proxyNS, concurrent, iptables, selected, store]
  Nil

VARIABLE cl

\* What ApplyConfig replaces as a whole
Parts == {"cert", "users", "proxies", "rules", "sniffer", "hosts", "general", "dns", "listeners",
          "tun", "tunnels", "selected", "log"}

Idle == [pc |-> "idle"]

Init ==
  cl = [req |-> [r \in Requests |-> Idle], left |-> Requests,
        lock |-> Nil, status |-> "suspend",
        applied |-> Nil,                     \* the configuration last applied
        in |-> [p \in Parts |-> Nil],        \* what is in force
        loader |-> Nil,                      \* geodata.SetLoader
        utls |-> Nil,                        \* tlsC.SetGlobalUtlsClient
        ruleProviders |-> {},                \* RP.SetRuleProvider, never removed
        range |-> Nil,                       \* T.SetFakeIPRange
        concurrent |-> FALSE,                \* dialer.SetTcpConcurrent
        proxyNS |-> Nil,                     \* resolver.ProxyServerHostResolver
        mapper |-> Nil,                      \* DefaultHostMapper: whose answers it knows
        exited |-> FALSE]

At(r, pc) == cl.req[r].pc = pc /\ ~cl.exited
Cfg(r) == Configs[cl.req[r].c]

\* Others are told that somebody parses meanwhile.
Begin(r, c) ==
  /\ At(r, "idle") /\ r \in cl.left
  /\ LET others == {q \in Requests \ {r} : cl.req[q].pc # "idle"}
     IN  cl' = [cl EXCEPT !.left = @ \ {r},
                          !.req = [q \in Requests |->
                             IF q = r THEN [pc |-> "general", c |-> c, alone |-> others = {}, tun |-> Nil]
                             ELSE IF q \in others THEN [@[q] EXCEPT !.alone = FALSE] ELSE @[q]]]

\* The stages of ParseRawConfig in their order.
Stages == <<"general", "utls", "proxies", "listeners", "ruleProviders", "subRules", "rules", "hosts",
            "dns", "tun", "tunnels", "sniffer">>

After(st) == LET i == CHOOSE i \in DOMAIN Stages : Stages[i] = st
             IN  IF i < Len(Stages) THEN Stages[i + 1] ELSE "lock"

\* What a stage does to the process, whether it fails or not.
Touched(c, st) ==
  CASE st = "general" -> [cl EXCEPT !.loader = c]
    [] st = "utls" -> [cl EXCEPT !.utls = IF Configs[c].utls = Nil THEN @ ELSE Configs[c].utls]
    [] st = "ruleProviders" -> [cl EXCEPT !.ruleProviders = @ \cup Configs[c].rp]
    [] st = "dns" -> [cl EXCEPT !.range = IF Configs[c].bad = "nameserver" THEN @ ELSE Configs[c].range]
    [] OTHER -> cl

\* A stage refuses the configuration, or goes on to the next.  parseDNS may
\* refuse it before it sets the range ("nameserver") or after it ("dns").
Stage(r, st) ==
  /\ At(r, st)
  /\ LET c == cl.req[r].c
         t == Touched(c, st)
         refused == Cfg(r).bad = st \/ (st = "dns" /\ Cfg(r).bad = "nameserver")
     IN  cl' = [t EXCEPT !.req[r] =
                  IF refused THEN Idle
                  ELSE IF st = "tun" THEN [@ EXCEPT !.pc = After(st), !.tun = cl.range]
                  ELSE [@ EXCEPT !.pc = After(st)]]

-----------------------------------------------------------------------------
(* ApplyConfig *)

Lock(r) ==
  /\ At(r, "lock") /\ cl.lock = Nil
  /\ cl' = [cl EXCEPT !.lock = r, !.status = "suspend", !.req[r].pc = "cert"]

Steps == <<"cert", "users", "proxies", "rules", "sniffer", "hosts", "general", "dns", "listeners",
           "iptables", "tun", "tunnels", "inner", "load", "selected", "ruleLoad", "log">>

\* updateGeneral only ever switches concurrent dialling on.
UpdateGeneral(g, c) ==
  [g EXCEPT !.in["general"] = c, !.loader = c, !.concurrent = @ \/ Configs[c].concurrent]

\* updateDNS: the new mapper knows what the old one knew, if there was one;
\* a configuration without servers for the proxies leaves the old ones.
UpdateDNS(g, c) ==
  IF ~Configs[c].dns THEN [g EXCEPT !.in["dns"] = c, !.mapper = Nil]
  ELSE [g EXCEPT !.in["dns"] = c, !.mapper = IF @ = Nil THEN {c} ELSE @ \cup {c},
                 !.proxyNS = IF Configs[c].proxyNS THEN c ELSE @]

\* updateIPTables ends the process if the TUN device is on.
UpdateIPTables(g, c) == [g EXCEPT !.exited = Configs[c].iptables /\ Configs[c].tun]

\* updateProfile: the new groups get the selections of the cache, if they are kept.
UpdateProfile(g, c) == [g EXCEPT !.in["selected"] = IF Configs[c].store THEN c ELSE Nil]

\* Mutant: the tunnel runs as soon as the listeners are there.
PerformEarly(g, c, st) ==
  CASE st = "general" -> UpdateGeneral(g, c) [] st = "dns" -> UpdateDNS(g, c)
    [] st = "iptables" -> UpdateIPTables(g, c) [] st = "selected" -> UpdateProfile(g, c)
    [] st = "inner" -> [g EXCEPT !.status = "running"]
    [] st \in {"load", "ruleLoad"} -> g
    [] st = "log" -> [g EXCEPT !.status = "running", !.in["log"] = c, !.applied = c]
    [] OTHER -> [g EXCEPT !.in[st] = c]

Perform(g, c, st) ==
  CASE st = "general" -> UpdateGeneral(g, c) [] st = "dns" -> UpdateDNS(g, c)
    [] st = "iptables" -> UpdateIPTables(g, c) [] st = "selected" -> UpdateProfile(g, c)
    [] st = "inner" -> [g EXCEPT !.status = "inner"]
    [] st \in {"load", "ruleLoad"} -> g                  \* loadProxyProvider, loadRuleProvider
    [] st = "log" -> [g EXCEPT !.status = "running", !.in["log"] = c, !.applied = c]
    [] OTHER -> [g EXCEPT !.in[st] = c]

Apply(r, i) ==
  /\ cl.lock = r /\ ~cl.exited /\ i \in DOMAIN Steps /\ cl.req[r].pc = Steps[i]
  /\ LET g == Perform(cl, cl.req[r].c, Steps[i])
     IN  cl' = IF i < Len(Steps) THEN [g EXCEPT !.req[r].pc = Steps[i + 1]]
               ELSE [g EXCEPT !.req[r] = Idle, !.lock = Nil]

Next ==
  \E r \in Requests :
    \/ \E c \in DOMAIN Configs : Begin(r, c)
    \/ cl.lock # r /\ \E i \in DOMAIN Stages : Stage(r, Stages[i])
    \/ Lock(r)
    \/ \E i \in DOMAIN Steps : Apply(r, i)

-----------------------------------------------------------------------------

\* While the tunnel lets connections in, all that it works with comes from the
\* one configuration that was applied last; the selections may be the defaults.
RunningIsWhole ==
  cl.status = "running" /\ ~cl.exited =>
    /\ \A p \in Parts \ {"selected"} : cl.in[p] = cl.applied
    /\ cl.in["selected"] = IF Configs[cl.applied].store THEN cl.applied ELSE Nil

\* The TUN device gets its address from the fake range of its own
\* configuration, if nobody else parses one at the same time.
TunInOwnRange ==
  \A r \in Requests :
    At(r, "lock") /\ cl.req[r].alone => cl.req[r].tun = Cfg(r).range
=============================================================================
