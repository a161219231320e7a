----------------------------- MODULE DnsClients -----------------------------
(***************************************************************************)
(* The clients of encrypted DNS, and the one that learns its servers.      *)
(*                                                                         *)
(* One server of DNS over HTTPS and the exchanges with it.  They share an  *)
(* HTTP client, which is made again when an exchange fails, and the URL of *)
(* the server, which holds the query of the exchange that wrote it last.   *)
(* A server that restarts drops its connections and forgets its tokens, so *)
(* that 0-RTT is rejected until the client has forgotten them as well.     *)
(*                                                                         *)
(* Exchange x asks query x.                                                *)
(***************************************************************************)
EXTENDS Integers, Sequences, FiniteSets

CONSTANTS
  Exchanges,
  VersionSets,  \* values of httpVersions: subsets of {"h2", "h3"}
  MaxClients,   \* bound on the clients made
  MaxConns,     \* bound on the connections of DNS over QUIC
  MaxFaults,    \* bound on restarts and on lost answers
  Queries,      \* of the client that learns its servers by DHCP
  Networks,     \* addresses of the interface
  IfaceTTL, DHCPTTL,
  MaxNow, MaxChanges,
  Nil

Attempts == 2   \* of doing it again

VARIABLE dh

Init ==
  \E v \in VersionSets :
    dh = [versions |-> v,
          client |-> 0,              \* doh.client, 0 for nil
          clients |-> << >>,         \* all that were made
          mu |-> Nil,                \* who holds clientMu
          url |-> Nil,               \* the query in doh.url
          tokens |-> "none",         \* of quicConfig: "none", "good" or "stale"
          faults |-> 0,
          ex |-> [x \in Exchanges |-> [pc |-> "new"]]]

Ex(x) == dh.ex[x]
At(x, pc) == Ex(x).pc = pc
H3(c) == c # 0 /\ dh.clients[c].h3

-----------------------------------------------------------------------------
(* Clients *)

\* probeH3: the faster of two probes decides, where a failed probe of TLS
\* counts for QUIC; with HTTP/3 alone there is nothing to probe.  works tells
\* if the server can be reached for it.
Probes(works) ==
  IF ~works THEN {} ELSE IF "h2" \notin dh.versions THEN {"h3"} ELSE {"h2", "h3"}

\* createTransport: what no probe decides falls back to HTTP/2, if it may.
Versions(works) ==
  IF "h3" \notin dh.versions THEN {"h2"}
  ELSE IF Probes(works) # {} THEN Probes(works) ELSE dh.versions \ {"h3"}

\* createClient, with clientMu held; it leaves no client if it fails.
Create(s, v) ==
  IF v = Nil THEN [s EXCEPT !.client = 0]
  ELSE [s EXCEPT !.client = Len(s.clients) + 1,
                 !.clients = Append(@, [h3 |-> v = "h3", closed |-> FALSE, conn |-> "none"])]

Outcomes(works) == IF Versions(works) = {} THEN {Nil} ELSE Versions(works)

Busy == {x \in Exchanges : Ex(x).pc \notin {"new", "done"}}

\* An exchange is clean while nothing fails and no other one is under way.
Soiled(s) == [s EXCEPT !.ex = [x \in Exchanges |-> IF x \in Busy THEN [@[x] EXCEPT !.clean = FALSE] ELSE @[x]]]

Fault(s) == [Soiled(s) EXCEPT !.faults = @ + 1]

Ended(s, x, err) ==
  [s EXCEPT !.ex[x] = [pc |-> "done", err |-> err, asked |-> @.asked, clean |-> @.clean /\ @.cached]]

Begin(x) ==
  /\ At(x, "new")
  /\ dh' = [Soiled(dh) EXCEPT
       !.ex[x] = [pc |-> "get", tries |-> 0, clean |-> Busy = {}, asked |-> Nil, err |-> Nil,
                  cached |-> FALSE, client |-> 0]]

GetClient(x, works, v) ==
  /\ At(x, "get") /\ dh.mu = Nil /\ Len(dh.clients) < MaxClients
  /\ IF dh.client # 0
     THEN /\ works
          /\ dh' = [dh EXCEPT !.ex[x].cached = TRUE, !.ex[x].client = dh.client, !.ex[x].pc = "write"]
     ELSE /\ v \in Outcomes(works)
          /\ LET s == Create(IF works THEN dh ELSE Fault(dh), v)
             IN  dh' = IF s.client = 0 THEN Ended(s, x, "other")
                       ELSE [s EXCEPT !.ex[x].client = s.client, !.ex[x].pc = "write"]

-----------------------------------------------------------------------------
(* exchangeHTTPSClient *)

WriteUrl(x) ==
  /\ At(x, "write")
  /\ dh' = [dh EXCEPT !.url = x, !.ex[x].pc = "read"]

ReadUrl(x) ==
  /\ At(x, "read")
  /\ dh' = [dh EXCEPT !.ex[x].asked = dh.url, !.ex[x].pc = "send"]

\* RoundTrip of a client that was closed fails; an open one is kept open.
Send(x) ==
  /\ At(x, "send")
  /\ dh' = IF dh.clients[Ex(x).client].closed
           THEN [dh EXCEPT !.ex[x].err = "closed", !.ex[x].pc = "decide"]
           ELSE [dh EXCEPT !.ex[x].pc = "sent"]

\* What becomes of a request.  QUIC does not clean up dead connections.
Reply(x) ==
  LET c == Ex(x).client  k == dh.clients[c]
      err == IF ~k.h3 THEN Nil
             ELSE IF k.conn = "dead" THEN "retry"
             ELSE IF k.conn = "none" /\ dh.tokens = "stale" THEN "0rtt" ELSE Nil
  IN  /\ At(x, "sent")
      /\ dh' = [dh EXCEPT !.ex[x].err = err, !.ex[x].pc = "decide",
                          !.clients[c].conn = IF err = Nil THEN "ok" ELSE @,
                          !.tokens = IF err = Nil /\ k.h3 THEN "good" ELSE @]

\* An answer is lost (the timeout of the client), the caller gives up, or the
\* answer is none.
Lost(x, err) ==
  /\ At(x, "sent") /\ dh.faults < MaxFaults
  /\ dh' = [Fault(dh) EXCEPT !.ex[x].err = err, !.ex[x].pc = "decide"]

-----------------------------------------------------------------------------
(* ExchangeContext after an attempt *)

ShouldRetry(err) == err \in {"timeout", "retry", "0rtt"}

\* Mutant: one more attempt only.
AgainOnce(x) == Ex(x).cached /\ ShouldRetry(Ex(x).err) /\ Ex(x).tries < Attempts - 1

Again(x) == Ex(x).cached /\ ShouldRetry(Ex(x).err) /\ Ex(x).tries < Attempts

\* resetClient takes the lock, to try again or to be rid of the client.
Lock(x) ==
  /\ At(x, "decide") /\ dh.mu = Nil /\ Len(dh.clients) < MaxClients
  /\ Again(x) \/ Ex(x).err \notin {Nil, "canceled"}
  /\ dh' = [dh EXCEPT !.mu = x, !.ex[x].pc = IF Again(x) THEN "again" ELSE "reset"]

Done(x) ==
  /\ At(x, "decide") /\ ~Again(x) /\ Ex(x).err \in {Nil, "canceled"}
  /\ dh' = Ended(dh, x, Ex(x).err)

Waits(c) == \E y \in Exchanges : At(y, "sent") /\ Ex(y).client = c

\* closeClient: HTTP/3 only
CloseClient(s, x) ==
  IF H3(s.client) THEN [s EXCEPT !.clients[s.client].closed = TRUE] ELSE s

\* resetClient, with the lock: tokens are forgotten if they were rejected, the
\* client of now is closed, once the requests on it have ended, and replaced.
Reset(x, works, v) ==
  LET t == IF Ex(x).err = "0rtt" THEN [dh EXCEPT !.tokens = "none"] ELSE dh
      s == Create(CloseClient(IF works THEN t ELSE Fault(t), x), v)
  IN  /\ Ex(x).pc \in {"again", "reset"} /\ v \in Outcomes(works)
      /\ H3(dh.client) => ~Waits(dh.client)
      /\ dh' = IF At(x, "reset") \/ s.client = 0 THEN [Ended(s, x, Ex(x).err) EXCEPT !.mu = Nil]
               ELSE [s EXCEPT !.mu = Nil, !.ex[x].tries = @ + 1, !.ex[x].client = s.client,
                              !.ex[x].pc = "write"]

Restart ==
  /\ dh.faults < MaxFaults
  /\ dh' = [Fault(dh) EXCEPT !.tokens = IF @ = "good" THEN "stale" ELSE @,
       !.clients = [c \in DOMAIN @ |-> IF @[c].conn = "ok" THEN [@[c] EXCEPT !.conn = "dead"] ELSE @[c]]]

Works(x) ==
  \/ WriteUrl(x) \/ ReadUrl(x) \/ Send(x) \/ Reply(x) \/ Lock(x) \/ Done(x)
  \/ \E v \in {"h2", "h3", Nil} : GetClient(x, TRUE, v) \/ Reset(x, TRUE, v)

Next ==
  \/ Restart
  \/ \E x \in Exchanges :
       \/ Begin(x) \/ Works(x)
       \/ \E err \in {"timeout", "other", "canceled"} : Lost(x, err)
       \/ dh.faults < MaxFaults /\ \E v \in {"h2", Nil} : GetClient(x, FALSE, v) \/ Reset(x, FALSE, v)

-----------------------------------------------------------------------------

\* No HTTP/3 client is forgotten while its connection is open: every one but
\* the client of now was closed.
NoClientLeft ==
  dh.mu = Nil => \A c \in DOMAIN dh.clients : dh.clients[c].h3 => c = dh.client \/ dh.clients[c].closed

\* What the two further attempts are for: an exchange on a client that was
\* there, that met nothing but a server that had restarted before, and no other
\* exchange, gets its answer.
SurvivesRestart ==
  \A x \in Exchanges : At(x, "done") /\ Ex(x).clean => Ex(x).err = Nil

\* An answer belongs to the question of its exchange.
OwnAnswer == \A x \in Exchanges : At(x, "done") /\ Ex(x).err = Nil => Ex(x).asked = x

-----------------------------------------------------------------------------
(* One server of DNS over QUIC and the exchanges with it, which share one  *)
(* connection.  It is read with a read lock and made with a write lock,    *)
(* and between the two nobody holds any.  A server that restarts drops its *)
(* connections, which an exchange learns when it opens a stream or later.  *)

VARIABLE dq

QuicInit ==
  dq = [conn |-> 0,                  \* doq.conn, 0 for nil
        conns |-> << >>,             \* state of all that were made: "ok", "dead" or "closed"
        faults |-> 0,
        alone |-> TRUE,              \* exchanges never overlapped so far
        ex |-> [x \in Exchanges |-> [pc |-> "new"]]]

QuicEx(x) == dq.ex[x]
QuicAt(x, pc) == QuicEx(x).pc = pc
QuicBusy == {x \in Exchanges : QuicEx(x).pc \notin {"new", "done"}}

QuicSoiled(s) == [s EXCEPT !.ex = [x \in Exchanges |-> IF x \in QuicBusy THEN [@[x] EXCEPT !.clean = FALSE] ELSE @[x]]]
QuicFault(s) == [QuicSoiled(s) EXCEPT !.faults = @ + 1]

Close(s, c) == IF c = 0 THEN s ELSE [s EXCEPT !.conns[c] = "closed"]

\* hasConnection
QuicBegin(x) ==
  /\ QuicAt(x, "new")
  /\ dq' = [QuicSoiled(dq) EXCEPT
       !.alone = @ /\ QuicBusy = {},
       !.ex[x] = [pc |-> "get", has |-> dq.conn # 0, clean |-> QuicBusy = {}, tries |-> 0,
                  err |-> Nil, conn |-> 0, fresh |-> FALSE]]

\* getConnection(true): the read lock
GetConnection(x) ==
  /\ QuicAt(x, "get")
  /\ dq' = IF dq.conn # 0
           THEN [dq EXCEPT !.ex[x].conn = dq.conn, !.ex[x].pc = "stream"]
           ELSE [dq EXCEPT !.ex[x].pc = "open"]

OpenStream(x) ==
  /\ QuicAt(x, "stream") /\ dq.conns[QuicEx(x).conn] # "closed"
  /\ dq' = [dq EXCEPT !.ex[x].pc = "wait"]

\* openStream on a connection that is gone: getConnection(false), and whatever
\* connection there is by now is closed.
NoStream(x) ==
  /\ QuicAt(x, "stream") /\ dq.conns[QuicEx(x).conn] # "ok"
  /\ dq' = IF QuicEx(x).fresh THEN [dq EXCEPT !.ex[x].err = "retry", !.ex[x].pc = "decide"]
           ELSE [Close(dq, dq.conn) EXCEPT !.ex[x].fresh = TRUE, !.ex[x].pc = "open"]

\* openConnection, with the write lock, and the connection is stored: also over
\* one that another exchange has stored in between.
Open(x) ==
  /\ QuicAt(x, "open") /\ Len(dq.conns) < MaxConns
  /\ dq' = [dq EXCEPT !.conns = Append(@, "ok"), !.conn = Len(dq.conns) + 1,
                      !.ex[x].conn = Len(dq.conns) + 1, !.ex[x].pc = "stream"]

OpenFails(x) ==
  /\ QuicAt(x, "open") /\ dq.faults < MaxFaults
  /\ dq' = [QuicFault(dq) EXCEPT !.ex[x].err = "other", !.ex[x].pc = "decide"]

\* readMsg: the answer, or the end of the connection
QuicRead(x) ==
  /\ QuicAt(x, "wait")
  /\ dq' = [dq EXCEPT !.ex[x].pc = "decide",
                      !.ex[x].err = CASE dq.conns[QuicEx(x).conn] = "ok" -> Nil
                                      [] dq.conns[QuicEx(x).conn] = "dead" -> "retry"
                                      [] dq.conns[QuicEx(x).conn] = "closed" -> "other"]

ReadFails(x) ==
  /\ QuicAt(x, "wait") /\ dq.faults < MaxFaults
  /\ dq' = [QuicFault(dq) EXCEPT !.ex[x].err = "other", !.ex[x].pc = "decide"]

\* isQUICRetryError
QuicShouldRetry(err) == err = "retry"

\* closeConnWithError: the connection of now, whoever uses it
CloseConn(s) == [Close(s, s.conn) EXCEPT !.conn = 0]

QuicDecide(x) ==
  LET e == QuicEx(x) IN
  /\ QuicAt(x, "decide")
  /\ dq' = IF e.err = Nil THEN [dq EXCEPT !.ex[x] = [pc |-> "done", err |-> Nil, clean |-> e.clean]]
           ELSE IF e.has /\ QuicShouldRetry(e.err) /\ e.tries < Attempts
           THEN [CloseConn(dq) EXCEPT !.ex[x].tries = @ + 1, !.ex[x].fresh = FALSE,
                                             !.ex[x].pc = "get"]
           ELSE [CloseConn(dq) EXCEPT
                   !.ex[x] = [pc |-> "done", err |-> e.err, clean |-> e.clean /\ e.has]]

QuicRestart ==
  /\ dq.faults < MaxFaults
  /\ dq' = [QuicFault(dq) EXCEPT !.conns = [c \in DOMAIN @ |-> IF @[c] = "ok" THEN "dead" ELSE @[c]]]

QuicNext ==
  \/ QuicRestart
  \/ \E x \in Exchanges :
       \/ QuicBegin(x) \/ GetConnection(x) \/ OpenStream(x) \/ NoStream(x) \/ Open(x) \/ OpenFails(x)
       \/ QuicRead(x) \/ ReadFails(x) \/ QuicDecide(x)

-----------------------------------------------------------------------------

\* As long as exchanges do not overlap, at most the connection of now is open;
\* two that open one at the same time leave one behind, which is kept alive.
NoConnLeft ==
  dq.alone => \A c \in DOMAIN dq.conns : dq.conns[c] = "ok" => c = dq.conn

\* What the two further attempts are for: an exchange that had a connection,
\* and met nothing but a server that had restarted before, gets its answer.
QuicSurvivesRestart ==
  \A x \in Exchanges : QuicAt(x, "done") /\ QuicEx(x).clean => QuicEx(x).err = Nil

-----------------------------------------------------------------------------
(* The client that learns its DNS servers by DHCP.  A query checks, at     *)
(* most once in IfaceTTL, whether the address of the interface is still    *)
(* the one the servers were learnt with, starts a request if not, and      *)
(* takes what is there, or waits for it.  Servers are told apart by the    *)
(* address of the interface they were learnt with.                         *)

VARIABLE dc

DhcpInit ==
  dc = [now |-> 0, changes |-> 0,
        net |-> CHOOSE n \in Networks : TRUE,   \* of the interface, Nil if it is down
        ifaceInvalidate |-> 0, dnsInvalidate |-> 0, ifaceAddr |-> Nil,
        done |-> FALSE,                         \* d.done # nil: a request is under way
        learning |-> Nil,                       \* the address it was made with
        skipped |-> FALSE,                      \* the address changed under it
        clients |-> Nil, err |-> FALSE,
        query |-> [q \in Queries |-> "new"]]

QueryAt(q, pc) == dc.query[q] = pc

\* invalidate, and the request if it says so, under the lock.  Addresses are
\* compared as pointers: the same address may be another one when it was read
\* again.
Invalidate(q, same) ==
  LET d == [dc EXCEPT !.query[q] = "loop", !.ifaceInvalidate = dc.now + IfaceTTL] IN
  /\ QueryAt(q, "new")
  /\ dc' = IF dc.now < dc.ifaceInvalidate THEN [dc EXCEPT !.query[q] = "loop"]
           ELSE IF dc.net = Nil THEN [d EXCEPT !.err = TRUE]
           ELSE IF dc.now < dc.dnsInvalidate /\ dc.ifaceAddr = dc.net /\ same THEN d
           ELSE [d EXCEPT !.dnsInvalidate = dc.now + DHCPTTL, !.ifaceAddr = dc.net,
                          !.done = TRUE, !.learning = IF dc.done THEN @ ELSE dc.net,
                          !.skipped = dc.done]

\* Mutant: a failed request leaves no error.
LearnSilent(ok) ==
  /\ dc.done
  /\ dc' = [dc EXCEPT !.done = FALSE, !.clients = IF ok THEN dc.learning ELSE Nil, !.err = FALSE,
                      !.learning = Nil]

\* The request ends, with the servers of the network it was made in.
Learn(ok) ==
  /\ dc.done
  /\ dc' = [dc EXCEPT !.done = FALSE, !.clients = IF ok THEN dc.learning ELSE Nil, !.err = ~ok,
                      !.learning = Nil]

\* resolve: what is there, be it old; nothing at all is waited for.
Loop(q) ==
  /\ QueryAt(q, "loop")
  /\ dc' = [dc EXCEPT !.query[q] = IF dc.clients = Nil /\ ~dc.err THEN "wait" ELSE "done"]

Woken(q) == QueryAt(q, "wait") /\ ~dc.done /\ dc' = [dc EXCEPT !.query[q] = "loop"]
GiveUp(q) == QueryAt(q, "wait") /\ dc' = [dc EXCEPT !.query[q] = "done"]

\* The next query takes the place of one that has ended.
NextQuery(q) == QueryAt(q, "done") /\ dc' = [dc EXCEPT !.query[q] = "new"]

Tick == dc.now < MaxNow /\ dc' = [dc EXCEPT !.now = @ + 1]

Change(n) ==
  /\ dc.changes < MaxChanges /\ n # dc.net
  /\ dc' = [dc EXCEPT !.changes = @ + 1, !.net = n]

DhcpNext ==
  \/ Tick \/ \E n \in Networks \cup {Nil} : Change(n)
  \/ \E ok \in BOOLEAN : Learn(ok)
  \/ \E q \in Queries : (\E same \in BOOLEAN : Invalidate(q, same)) \/ Loop(q) \/ Woken(q) \/ GiveUp(q) \/ NextQuery(q)

-----------------------------------------------------------------------------

\* Nobody waits for a request that is not under way: whoever finds nothing, and
\* no error, finds the request that will bring either.
WaitsForSomething ==
  \A q \in Queries : QueryAt(q, "loop") /\ dc.clients = Nil /\ ~dc.err => dc.done

\* The servers in use are those of the interface's address as it was seen last,
\* when no request is under way; unless the address was seen to change under
\* the last request, whose servers then pass for those of the new address.
ServersOfAddress ==
  ~dc.done /\ ~dc.skipped /\ dc.clients # Nil => dc.clients = dc.ifaceAddr
=============================================================================
