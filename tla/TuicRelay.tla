----------------------------- MODULE TuicRelay ------------------------------
(***************************************************************************)
(* TUIC, both ends.  The client: a pool of clients, each with one QUIC     *)
(* connection that its dials share, the count of their streams, and the    *)
(* pipes of its UDP sessions.  The server: the handlers of one connection, *)
(* which wait for it to be authenticated, and its UDP associations.        *)
(***************************************************************************)
EXTENDS Integers, Sequences, FiniteSets

CONSTANTS
  Dials,            \* calls of DialContext or ListenPacket
  Instances,        \* the network, the dialers the dials come with, and a bound on failures
  MaxOpenStreams,
  MaxClients, MaxConns,             \* bounds on what is made
  Handlers,         \* streams and messages that reach the server
  Associations,
  HostLengths       \* of the names in addresses

-----------------------------------------------------------------------------
(* The client *)

VARIABLE tc

\* TCP and UDP have each a list of their own, which are handled alike.
ClientInit ==
  \E in \in Instances :
    tc = [udp |-> in.udp, dialers |-> in.dialers,
          clients |-> << >>,      \* all clients made
          pool |-> << >>,         \* the list of those in use, the newest first
          conns |-> << >>,        \* all connections made
          faults |-> in.faults,   \* that may still happen
          dial |-> [x \in Dials |-> [pc |-> "new"]]]

D(x) == tc.dial[x]
At(x, pc) == D(x).pc = pc
Mine(x) == tc.clients[D(x).client]
Goto(s, x, pc) == [s EXCEPT !.dial[x].pc = pc]

\* forceClose: whose connection it was does not matter to the pipes, all of the
\* client's are closed.
ForceClose(s, k, conn) ==
  LET c == IF conn = 0 THEN s.clients[k].conn ELSE conn
      pipes == s.clients[k].pipes
      current == s.clients[k].conn
  IN [s EXCEPT
        !.clients[k].conn = IF @ = c THEN 0 ELSE @,
        !.clients[k].pipes = {},
        !.clients[k].stale = @ \/ current \notin {0, c},
        !.conns = IF c = 0 \/ @[c].state # "ok" THEN @ ELSE [@ EXCEPT ![c].state = "closed"],
        !.dial = [x \in Dials |-> IF x \in pipes THEN [@[x] EXCEPT !.pipe = FALSE] ELSE @[x]]]

\* deferQuicConn: only errors of the network count, not those of a connection
\* that either side has closed.
DeferQuicConn(s, k, c) == IF s.conns[c].state = "lost" THEN ForceClose(s, k, c) ELSE s

Fewest(d) ==
  LET mine == {i \in DOMAIN tc.pool : tc.clients[tc.pool[i]].dialer = d}
      least == {i \in mine : \A j \in mine : tc.clients[tc.pool[i]].count <= tc.clients[tc.pool[j]].count}
  IN IF mine = {} THEN 0 ELSE tc.pool[CHOOSE i \in least : \A j \in least : i <= j]

\* getClient: the first loop, with the lock
Pick(x, d) ==
  /\ At(x, "new")
  /\ tc' = [tc EXCEPT !.dial[x] = [pc |-> "sweep", dialer |-> d, client |-> Fewest(d), out |-> 0,
                                   again |-> FALSE, conn |-> 0, pipe |-> FALSE]]

OldClients(x) ==
  {k \in {tc.pool[i] : i \in DOMAIN tc.pool} :
     k # D(x).client /\ tc.clients[k].count = 0 /\ tc.clients[k].idle}

\* list.Remove, which does nothing when another dial was first
Without(pool, k) ==
  IF \E i \in DOMAIN pool : pool[i] = k
    THEN LET i == CHOOSE i \in DOMAIN pool : pool[i] = k
         IN SubSeq(pool, 1, i - 1) \o SubSeq(pool, i + 1, Len(pool))
    ELSE pool

\* The second loop, without: Client.Close in two steps, then the removal
Sweep(x) ==
  /\ At(x, "sweep")
  /\ \E k \in OldClients(x) :
       tc' = Goto([tc EXCEPT !.clients[k].closed = TRUE, !.dial[x].out = k], x, "remove")

Remove(x) ==
  /\ At(x, "remove")
  /\ LET k == D(x).out
         s == IF tc.clients[k].count = 0 THEN ForceClose(tc, k, 0) ELSE tc
     IN tc' = Goto([s EXCEPT !.pool = Without(@, k)], x, "sweep")

Swept(x) ==
  /\ At(x, "sweep") /\ OldClients(x) = {}
  /\ tc' = IF D(x).client = 0 THEN Goto(tc, x, "client")
           ELSE Goto([tc EXCEPT !.clients[D(x).client].idle = FALSE], x, "conn")

NewClient(x) ==
  /\ At(x, "client") /\ Len(tc.clients) < MaxClients
  /\ LET k == Len(tc.clients) + 1
         c == [dialer |-> D(x).dialer, conn |-> 0, count |-> 0, closed |-> FALSE, idle |-> FALSE,
               pipes |-> {}, lost |-> FALSE, late |-> FALSE, leaked |-> 0, refused |-> FALSE, stale |-> FALSE]
     IN tc' = Goto([tc EXCEPT !.clients = Append(@, c), !.pool = <<k>> \o @, !.dial[x].client = k], x, "conn")

\* getQuicConn: a new connection starts its count of streams anew, also when
\* streams of the old one are still to be counted off.
GetQuicConn(x) ==
  /\ At(x, "conn")
  /\ LET k == D(x).client
         n == Len(tc.conns) + 1
     IN \/ /\ Mine(x).conn # 0
           /\ tc' = Goto([tc EXCEPT !.dial[x].conn = Mine(x).conn], x, "count")
        \/ /\ Mine(x).conn = 0 /\ n <= MaxConns
           /\ tc' = Goto([tc EXCEPT
                !.conns = Append(tc.conns, [client |-> k, state |-> "ok", authenticated |-> FALSE, parsed |-> FALSE]),
                !.clients[k].conn = n, !.clients[k].lost = Mine(x).lost \/ Mine(x).count # 0,
                !.clients[k].count = 0, !.dial[x].conn = n], x, "count")
        \/ /\ Mine(x).conn = 0 /\ tc.faults > 0
           /\ tc' = Goto([tc EXCEPT !.faults = @ - 1], x, "done")

\* The connection may have been replaced before its dial counts itself.
Count(x) ==
  /\ At(x, "count")
  /\ tc' = Goto([tc EXCEPT !.clients[D(x).client].count = @ + 1,
                           !.clients[D(x).client].late = @ \/ Mine(x).conn # D(x).conn],
                x, IF Mine(x).count + 1 >= MaxOpenStreams THEN "over" ELSE "stream")

\* TooManyOpenStreams: once more, with a client of its own
TooMany(x) ==
  /\ At(x, "over")
  /\ tc' = Goto([tc EXCEPT !.clients[D(x).client].count = @ - 1, !.clients[D(x).client].refused = TRUE,
                           !.dial[x].again = TRUE],
                x, IF D(x).again THEN "done" ELSE "client")

\* A dial that gets no stream does not count itself off.
OpenStream(x) ==
  /\ At(x, "stream") /\ ~tc.udp
  /\ tc' = IF tc.conns[D(x).conn].state = "ok" THEN Goto(tc, x, "open")
           ELSE Goto([DeferQuicConn(tc, D(x).client, D(x).conn) EXCEPT !.clients[D(x).client].leaked = @ + 1],
                     x, "done")

\* A session is registered whatever has become of the connection.
ListenPacket(x) ==
  /\ At(x, "stream") /\ tc.udp
  /\ tc' = Goto([tc EXCEPT !.clients[D(x).client].pipes = @ \cup {x}, !.dial[x].pipe = TRUE], x, "open")

\* WriteTo of a session
Write(x) ==
  /\ At(x, "open") /\ tc.udp /\ tc.conns[D(x).conn].state = "lost"
  /\ tc' = DeferQuicConn(tc, D(x).client, D(x).conn)

\* Close of a stream, also by a response that is missing or bad
CloseStream(x) ==
  /\ At(x, "open") /\ ~tc.udp
  /\ tc' = Goto(tc, x, "timer")

\* Close of a session
ClosePacketConn(x) ==
  /\ At(x, "open") /\ tc.udp
  /\ tc' = Goto([DeferQuicConn([tc EXCEPT !.dial[x].pipe = FALSE], D(x).client, D(x).conn)
                   EXCEPT !.clients[D(x).client].pipes = @ \ {x}], x, "timer")

\* closeDeferFn, later
CountOff(x) ==
  /\ At(x, "timer")
  /\ tc' = Goto([tc EXCEPT !.clients[D(x).client].count = @ - 1],
                x, IF Mine(x).count = 1 THEN "last" ELSE "done")

Last(x) ==
  /\ At(x, "last")
  /\ tc' = Goto(IF Mine(x).closed THEN ForceClose(tc, D(x).client, D(x).conn) ELSE tc, x, "done")

\* sendAuthentication
SendAuthentication(c) ==
  /\ ~tc.conns[c].authenticated
  /\ tc' = DeferQuicConn([tc EXCEPT !.conns[c].authenticated = TRUE], tc.conns[c].client, c)

\* parseUDP, whose reads end with the connection
ParseUDPEnds(c) ==
  /\ tc.udp /\ tc.conns[c].state # "ok" /\ ~tc.conns[c].parsed
  /\ tc' = DeferQuicConn([tc EXCEPT !.conns[c].parsed = TRUE], tc.conns[c].client, c)

Breaks(c) ==
  /\ tc.conns[c].state = "ok" /\ tc.faults > 0
  /\ \E how \in {"lost", "closed"} :
       tc' = [tc EXCEPT !.conns[c].state = how, !.faults = @ - 1]

HalfAnHour(k) ==
  /\ ~tc.clients[k].idle /\ \A x \in Dials : D(x).pc \in {"new", "open", "done"}
  /\ tc' = [tc EXCEPT !.clients[k].idle = TRUE]

ClientNext ==
  \/ \E x \in Dials :
       \/ \E d \in tc.dialers : Pick(x, d)
       \/ Sweep(x) \/ Remove(x) \/ Swept(x) \/ NewClient(x) \/ GetQuicConn(x) \/ Count(x) \/ TooMany(x)
       \/ OpenStream(x) \/ ListenPacket(x) \/ Write(x) \/ CloseStream(x) \/ ClosePacketConn(x)
       \/ CountOff(x) \/ Last(x)
  \/ \E c \in DOMAIN tc.conns : SendAuthentication(c) \/ ParseUDPEnds(c) \/ Breaks(c)
  \/ \E k \in DOMAIN tc.clients : HalfAnHour(k)

Streams(k) == {x \in Dials : D(x).pc \in {"open", "timer"} /\ D(x).client = k}
Quiet == \A x \in Dials : D(x).pc \in {"new", "done"}

\* A client never has as many streams as its limit, unless it was connected
\* anew while streams of the old connection were still counted.
StreamLimit ==
  \A k \in DOMAIN tc.clients : tc.clients[k].lost \/ Cardinality(Streams(k)) < MaxOpenStreams

\* Once everything is closed the count is what failed dials have left in it,
\* and a client that the pool has let go keeps no connection: unless a dial was
\* refused, or counted itself for a connection that was replaced, and so hid the
\* end of the last stream.
NothingKept ==
  Quiet =>
    \A k \in DOMAIN tc.clients :
      LET c == tc.clients[k]
      IN ~c.lost =>
           /\ c.count = c.leaked
           /\ c.closed /\ ~c.refused /\ ~c.late =>
                \A n \in DOMAIN tc.conns : tc.conns[n].client = k => tc.conns[n].state # "ok"

\* A session is in the map for as long as it is open and its connection stands,
\* unless the end of an older connection has closed them all; and no closed one.
SessionsAreRegistered ==
  \A x \in Dials : D(x).pc # "new" /\ D(x).client # 0 =>
    /\ tc.udp /\ At(x, "open") /\ tc.conns[D(x).conn].state = "ok" => x \in Mine(x).pipes \/ Mine(x).stale
    /\ \A k \in DOMAIN tc.clients : x \in tc.clients[k].pipes => At(x, "open")

-----------------------------------------------------------------------------
(* The server *)

VARIABLE ts

ServerInit ==
  ts = [auth |-> "waiting",       \* authOk once authCh is closed: "ok" or "no"
        open |-> TRUE,            \* the connection
        flags |-> << >>,          \* writeClosed of every association made
        assoc |-> [a \in Associations |-> 0],     \* udpInputMap
        handler |-> [h \in Handlers |-> [pc |-> "new"]]]

H(h) == ts.handler[h]
Stands(h, pc) == H(h).pc = pc
Step(s, h, pc) == [s EXCEPT !.handler[h].pc = pc]

\* The first Authenticate command, or the timeout
Authenticated ==
  /\ ts.auth = "waiting" /\ ts.open
  /\ \E ok \in BOOLEAN : ts' = [ts EXCEPT !.auth = IF ok THEN "ok" ELSE "no", !.open = ok]

\* A Connect or a Packet waits for authCh.
Arrives(h) ==
  /\ Stands(h, "new") /\ ts.open
  /\ \E a \in Associations, kind \in {"tcp", "packet"} :
       ts' = [ts EXCEPT !.handler[h] = [pc |-> "waits", kind |-> kind, assoc |-> a, flag |-> 0, gone |-> FALSE]]

HandleStream(h) ==
  /\ Stands(h, "waits") /\ H(h).kind = "tcp" /\ ts.auth # "waiting"
  /\ ts' = Step(ts, h, IF ts.auth = "ok" THEN "served" ELSE "dropped")

\* parsePacket up to LoadOrStore
ParsePacket(h) ==
  /\ Stands(h, "waits") /\ H(h).kind = "packet" /\ ts.auth # "waiting"
  /\ LET a == H(h).assoc
     IN ts' = IF ts.auth # "ok" THEN Step(ts, h, "dropped")
              ELSE IF ts.assoc[a] # 0 THEN Step([ts EXCEPT !.handler[h].flag = ts.assoc[a]], h, "joined")
              ELSE Step([ts EXCEPT !.flags = Append(@, FALSE), !.assoc[a] = Len(ts.flags) + 1,
                                   !.handler[h].flag = Len(ts.flags) + 1], h, "joined")

\* and from there: to the tunnel, if its queue takes it
HandOver(h) ==
  /\ Stands(h, "joined")
  /\ \E pc \in {"served", "dropped"} :
       ts' = Step(ts, h, IF ts.flags[H(h).flag] THEN "dropped" ELSE pc)

\* A Dissociate waits for nothing.
Dissociate(a) ==
  /\ ts.assoc[a] # 0 /\ ts.open
  /\ ts' = [ts EXCEPT
       !.flags[ts.assoc[a]] = TRUE, !.assoc[a] = 0,
       !.handler = [h \in Handlers |-> IF H(h).pc \in {"joined", "served"} /\ H(h).kind = "packet" /\ H(h).assoc = a
                                       THEN [H(h) EXCEPT !.gone = TRUE] ELSE H(h)]]

\* WriteBack: the reply to a packet
WriteBack(h) ==
  /\ Stands(h, "served") /\ H(h).kind = "packet"
  /\ ts' = Step(ts, h, IF ts.flags[H(h).flag] THEN "refused" ELSE "replied")

Closed ==
  /\ ts.open
  /\ ts' = [ts EXCEPT !.open = FALSE]

ServerNext ==
  \/ Authenticated \/ Closed
  \/ \E a \in Associations : Dissociate(a)
  \/ \E h \in Handlers : Arrives(h) \/ HandleStream(h) \/ ParsePacket(h) \/ HandOver(h) \/ WriteBack(h)

\* Nothing is served before the connection was authenticated, nor at all if it
\* was not.
OnlyAuthenticated ==
  \A h \in Handlers : H(h).pc \in {"joined", "served", "replied", "refused"} => ts.auth = "ok"

\* What was under way for an association when it was dissociated replies no more,
\* also when its first packets came together.
GoneDoNotReply ==
  \A h \in Handlers : Stands(h, "replied") => ~H(h).gone

-----------------------------------------------------------------------------
(* The commands.  What is written is a sequence of cells, a size and a value;  *)
(* a reader asks for sizes, and loses its way where they are not those of the  *)
(* cells.  A byte is a number modulo 256.                                      *)

VARIABLE cm

Byte(v) == <<1, v>>
CommandHead(type) == <<Byte(4), Byte(type)>>

\* An address has a kind, a length (of a domain) and a value.
WriteAddress(a) ==
  LET addr == CASE a.kind = 0 -> <<Byte(a.length % 256), <<a.length, a.value>>>>
                [] a.kind = 1 -> <<<<4, a.value>>>>
                [] a.kind = 2 -> <<<<16, a.value>>>>
  IN <<Byte(a.kind)>> \o addr \o <<<<2, a.port>>>>

WriteAuthenticate(c) == CommandHead(0) \o <<<<32, c.token>>>>
WriteConnect(c) == CommandHead(1) \o WriteAddress(c.addr)
WritePacket(c) == CommandHead(2) \o <<<<4, c.assoc>>, <<2, c.size>>>> \o WriteAddress(c.addr) \o <<<<c.size, c.data>>>>
WriteDissociate(c) == CommandHead(3) \o <<<<4, c.assoc>>>>
WriteHeartbeat == CommandHead(4)
WriteResponse(c) == CommandHead(255) \o <<Byte(c.rep)>>

Written(c) ==
  CASE c.type = 0 -> WriteAuthenticate(c)
    [] c.type = 1 -> WriteConnect(c)
    [] c.type = 2 -> WritePacket(c)
    [] c.type = 3 -> WriteDissociate(c)
    [] c.type = 4 -> WriteHeartbeat
    [] c.type = 255 -> WriteResponse(c)

\* A reader: what is left of the stream, and the values read so far
Reader(cells) == [rest |-> cells, got |-> << >>, ok |-> TRUE]
Take(r, size) ==
  IF r.ok /\ r.rest # << >> /\ Head(r.rest)[1] = size
    THEN [r EXCEPT !.rest = Tail(@), !.got = Append(@, Head(r.rest)[2])]
    ELSE [r EXCEPT !.ok = FALSE]
Value(r) == IF r.got = << >> THEN 0 ELSE r.got[Len(r.got)]
Fail(r) == [r EXCEPT !.ok = FALSE]

\* The buffer of a domain has addrLen+1 bytes, a sum of bytes.
ReadAddress(r) ==
  LET kind == Take(r, 1)
      length == Take(kind, 1)
      addr == CASE ~kind.ok -> kind
                [] Value(kind) = 1 -> Take(kind, 4)
                [] Value(kind) = 2 -> Take(kind, 16)
                [] Value(kind) = 0 -> IF length.ok /\ (Value(length) + 1) % 256 # 0
                                        THEN Take(length, Value(length)) ELSE Fail(length)
                [] OTHER -> kind
  IN Take(addr, 2)

ReadAuthenticate(r) == Take(r, 32)
ReadConnect(r) == ReadAddress(r)
ReadPacket(r) ==
  LET size == Take(Take(r, 4), 2)
      addr == ReadAddress(size)
  IN IF addr.ok THEN Take(addr, Value(size)) ELSE addr
ReadDissociate(r) == Take(r, 4)
ReadResponse(r) == Take(r, 1)

ReadCommand(cells) ==
  LET head == Take(Take(Reader(cells), 1), 1)
  IN CASE ~head.ok -> head
       [] Value(head) = 0 -> ReadAuthenticate(head)
       [] Value(head) = 1 -> ReadConnect(head)
       [] Value(head) = 2 -> ReadPacket(head)
       [] Value(head) = 3 -> ReadDissociate(head)
       [] Value(head) = 4 -> head
       [] Value(head) = 255 -> ReadResponse(head)

SizeOf(cells) ==
  LET Sum[i \in 0 .. Len(cells)] == IF i = 0 THEN 0 ELSE Sum[i - 1] + cells[i][1]
  IN Sum[Len(cells)]

\* PacketOverHead: the longest head that an address without a name makes
PacketOverHead == SizeOf(WritePacket([assoc |-> 0, size |-> 0, addr |-> [kind |-> 2, value |-> 0, port |-> 0], data |-> 0]))

Addresses ==
  [kind : {1, 2}, length : {0}, value : {"ip"}, port : {80}]
    \cup [kind : {0}, length : HostLengths, value : {"host"}, port : {80}]
Commands ==
  [type : {0}, token : {"token"}] \cup [type : {1}, addr : Addresses]
    \cup [type : {2}, assoc : {7}, size : {0, 1200}, addr : Addresses, data : {"data"}]
    \cup [type : {3}, assoc : {7}] \cup [type : {4}] \cup [type : {255}, rep : {0, 255}]

\* A stream of commands, read one after the other
CommandsInit ==
  \E a \in Commands, b \in Commands :
    cm = [sent |-> <<a, b>>, cells |-> Written(a) \o Written(b), read |-> << >>, ok |-> TRUE]

CommandsNext ==
  /\ cm.ok /\ cm.cells # << >>
  /\ LET r == ReadCommand(cm.cells)
     IN cm' = [cm EXCEPT !.cells = r.rest, !.ok = r.ok, !.read = Append(@, r.got)]

ValuesOf(c) == LET w == Written(c) IN [i \in DOMAIN w |-> w[i][2]]
Named(c) == c.type \in {1, 2} /\ c.addr.kind = 0

\* Every command is read as it was written, and the next one from its start, if
\* the length of a name fits its byte with one to spare; and a packet to an
\* address that is no name exceeds its data by the overhead at most.
CommandsAreRead ==
  (\A i \in 1 .. 2 : Named(cm.sent[i]) => cm.sent[i].addr.length < 255) =>
    /\ cm.ok
    /\ \A i \in DOMAIN cm.read : cm.read[i] = ValuesOf(cm.sent[i])
    /\ \A i \in 1 .. 2 : cm.sent[i].type = 2 /\ ~Named(cm.sent[i]) =>
         SizeOf(Written(cm.sent[i])) <= PacketOverHead + cm.sent[i].size

=============================================================================
