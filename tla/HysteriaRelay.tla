--------------------------- MODULE HysteriaRelay ----------------------------
(***************************************************************************)
(* The client of Hysteria: the UDP sessions over a QUIC connection that is *)
(* replaced when it is lost, the fragments of their messages, and the      *)
(* sockets of port hopping underneath.                                     *)
(***************************************************************************)
EXTENDS Integers, Sequences, FiniteSets

CONSTANTS
  Dials,            \* calls of DialUDP
  MaxConns,         \* bound on the connections made
  Messages,         \* pairs of a message id and a length
  Width,            \* the fragments are counted modulo Width: 256
  Ports,            \* texts of the server's ports: sequences of parts
  MaxSockets, QueueSize

-----------------------------------------------------------------------------
(* Sessions *)

VARIABLE hy

Ids == 0 .. Cardinality(Dials)
Kinds == {"udp", "tcp", "fast"}

\* connectToServer: a connection that was greeted, and the map of sessions that is
\* made with it.  The server numbers the sessions of a connection from 0.
NewConn == [ok |-> TRUE, next |-> 0, map |-> [i \in Ids |-> {}]]

\* Nobody calls Client.Close.
SessionsInit ==
  \E kind \in [Dials -> Kinds] :
    hy = [conns |-> << >>,      \* all that were made; quicSession and udpSessionMap are those of the last
          mutex |-> {},         \* who holds reconnectMutex
          strayed |-> {},       \* maps that hold a session of another connection
          late |-> FALSE,       \* a connection delivered messages after it was replaced
          dial |-> [x \in Dials |->
                      [pc |-> "new", kind |-> kind[x], conn |-> 0, stream |-> "none", answer |-> "none",
                       id |-> 0, map |-> 0, channel |-> FALSE, strange |-> FALSE, got |-> FALSE]]]

H(x) == hy.dial[x]
At(x, pc) == H(x).pc = pc
Last == Len(hy.conns)
Goto(s, x, pc) == [s EXCEPT !.dial[x].pc = pc]
Conn(c) == hy.conns[c]
Unlock(s) == [s EXCEPT !.mutex = {}]
CloseStream(s, x) == [s EXCEPT !.dial[x].stream = "closed"]
Fails(s, x) == Goto(s, x, "failed")

\* openStreamWithReconnect: the first connection is made if there is none.
Enter(x) ==
  /\ At(x, "new") /\ hy.mutex = {}
  /\ hy' = Goto([hy EXCEPT !.mutex = {x}], x, IF Last = 0 THEN "connect" ELSE "open")

\* The QUIC handshake, or the greeting on the control stream, fails; or the
\* connection takes the place of the last.
Connect(x) ==
  /\ H(x).pc \in {"connect", "reconnect"}
  /\ \/ hy' = Unlock(Fails(hy, x))
     \/ /\ Last < MaxConns
        /\ hy' = Goto([hy EXCEPT !.conns = Append(@, NewConn)], x, IF At(x, "connect") THEN "open" ELSE "again")

\* Only a permanent error is answered by another connection, and only once.
OpenStream(x) ==
  /\ H(x).pc \in {"open", "again"}
  /\ \/ /\ Conn(Last).ok
        /\ hy' = Unlock(Goto([hy EXCEPT !.dial[x].conn = Last, !.dial[x].stream = "open"], x, "request"))
     \/ hy' = Unlock(Fails(hy, x))
     \/ /\ At(x, "open") /\ ~Conn(Last).ok
        /\ hy' = Goto(hy, x, "reconnect")

\* The request and its response; what fails, or is rejected, closes the stream.
Respond(x) ==
  /\ At(x, "request") /\ H(x).kind # "fast"
  /\ \/ /\ Conn(H(x).conn).ok
        /\ hy' = IF H(x).kind = "udp"
                 THEN Goto([hy EXCEPT !.dial[x].id = Conn(H(x).conn).next, !.conns[H(x).conn].next = @ + 1], x, "register")
                 ELSE Goto([hy EXCEPT !.dial[x].answer = "ok"], x, "up")
     \/ hy' = Fails(CloseStream([hy EXCEPT !.dial[x].answer = "no"], x), x)

\* With fast open the response is left to the first Read.
FastOpen(x) ==
  /\ At(x, "request") /\ H(x).kind = "fast"
  /\ hy' \in {Goto(hy, x, "up"), Fails(CloseStream(hy, x), x)}

\* quicConn.Read
Read(x) ==
  /\ At(x, "up") /\ H(x).stream = "open"
  /\ hy' \in (IF H(x).answer = "none" THEN {CloseStream([hy EXCEPT !.dial[x].answer = "no"], x)} ELSE {})
            \cup (IF Conn(H(x).conn).ok THEN {[hy EXCEPT !.dial[x].answer = "ok", !.dial[x].got = TRUE]} ELSE {})

CloseConn(x) ==
  /\ At(x, "up")
  /\ hy' = CloseStream(hy, x)

\* The session goes to the map of the day.
Register(x) ==
  /\ At(x, "register")
  /\ hy' = Goto([hy EXCEPT !.conns[Last].map[H(x).id] = {x},
                           !.strayed = IF H(x).conn = Last THEN @ ELSE @ \cup {Last},
                           !.dial[x].map = Last, !.dial[x].channel = TRUE], x, "session")

\* Mutant: in the map of the day.
CloseFuncOfTheDay(s, x) ==
  LET there == s.conns[Last].map[H(x).id]
  IN [s EXCEPT !.conns[Last].map[H(x).id] = {},
               !.dial = [y \in Dials |-> IF y \in there THEN [@[y] EXCEPT !.channel = FALSE] ELSE @[y]]]

\* CloseFunc: by number, in the map where the session was put.  Close is called
\* by the user and, when the stream ends, by Hold.
CloseFunc(s, x) ==
  LET m == H(x).map
      there == s.conns[m].map[H(x).id]
  IN [s EXCEPT !.conns[m].map[H(x).id] = {},
               !.dial = [y \in Dials |-> IF y \in there THEN [@[y] EXCEPT !.channel = FALSE] ELSE @[y]]]

Close(x) ==
  /\ H(x).pc \in {"session", "closed"}
  /\ hy' = Goto(CloseStream(CloseFunc(hy, x), x), x, IF At(x, "session") THEN "closed" ELSE "released")

\* handleMessage of a connection: it looks up the map of the day, also for what
\* was received before that was made.
HandleMessage(c, y) ==
  /\ H(y).pc \in {"register", "session", "closed", "released"} /\ H(y).conn = c
  /\ \E z \in Conn(Last).map[H(y).id] :
       hy' = [hy EXCEPT !.dial[z].strange = @ \/ z # y, !.late = @ \/ c # Last]

Breaks ==
  /\ Last # 0 /\ Conn(Last).ok
  /\ hy' = [hy EXCEPT !.conns[Last].ok = FALSE]

SessionsNext ==
  \/ \E x \in Dials :
       \/ Enter(x) \/ Connect(x) \/ OpenStream(x) \/ Respond(x) \/ FastOpen(x) \/ Read(x) \/ CloseConn(x)
       \/ Register(x) \/ Close(x)
  \/ \E c \in DOMAIN hy.conns, y \in Dials : HandleMessage(c, y)
  \/ Breaks

\* An open session is reachable under its number, unless a session of an older
\* connection came into the same map.
SessionsAreReachable ==
  \A x \in Dials : At(x, "session") /\ H(x).map \notin hy.strayed => Conn(H(x).map).map[H(x).id] = {x} /\ H(x).channel

\* It gets what was sent to it, with the same exception and that of a lost
\* connection that goes on delivering.
OwnMessages == \A x \in Dials : H(x).pc \in {"session", "closed"} /\ H(x).strange => hy.late \/ hy.strayed # {}

\* A dial that failed, or was rejected, leaves no stream; and no data are read
\* but of one that the server accepted.
StreamsAreClosed ==
  \A x \in Dials :
    /\ At(x, "failed") \/ H(x).answer = "no" => H(x).stream # "open"
    /\ H(x).got => H(x).answer = "ok"

-----------------------------------------------------------------------------
(* Fragments.  A message of n units is cut in n; its fragments arrive in any *)
(* order, between those of others, or not at all.                          *)

VARIABLE fr

\* fragUDPMessage
FragUDPMessage(m) ==
  [i \in 1 .. m.length |-> [msg |-> m, fragID |-> (i - 1) % Width, fragCount |-> m.length % Width, part |-> i]]

Nothing == [msg |-> [id |-> 0]]

FragmentsInit ==
  \E a \in Messages, b \in Messages :
    fr = [msgs |-> <<a, b>>,
          left |-> {<<1, i>> : i \in 1 .. a.length} \cup {<<2, i>> : i \in 1 .. b.length},
          msgID |-> 0, frags |-> << >>, count |-> 0,    \* the defragger
          row |-> << >>,      \* what was fed last from one message
          out |-> << >>]      \* what it has returned: the parts of a message

Put(s, f) == [s EXCEPT !.frags[f.fragID + 1] = f]

\* defragger.Feed; a fragment beyond those of the message it seems to belong to
\* is an index out of range.
Feed(s, f) ==
  IF f.fragCount <= 1 THEN [s EXCEPT !.out = Append(@, <<f>>)]
  ELSE IF f.fragID >= f.fragCount THEN s
  ELSE IF f.msg.id # s.msgID
    THEN Put([s EXCEPT !.msgID = f.msg.id, !.count = 1, !.frags = [i \in 1 .. f.fragCount |-> Nothing]], f)
  ELSE IF f.fragID + 1 \notin DOMAIN s.frags THEN [s EXCEPT !.out = Append(@, << >>)]
  ELSE IF s.frags[f.fragID + 1] # Nothing THEN s
  ELSE LET t == Put([s EXCEPT !.count = (@ + 1) % Width], f)
       IN IF t.count = Len(t.frags) THEN [t EXCEPT !.out = Append(@, t.frags)] ELSE t

FragmentsNext ==
  \E l \in fr.left :
    LET f == FragUDPMessage(fr.msgs[l[1]])[l[2]]
    IN fr' = [Feed(fr, f) EXCEPT !.left = @ \ {l},
                                 !.row = IF @ # << >> /\ Head(@)[1] = l[1] THEN Append(@, l) ELSE <<l>>]

Representable == \A m \in {fr.msgs[1], fr.msgs[2]} : m.length < Width

Whole(parts) ==
  \E m \in {fr.msgs[1], fr.msgs[2]} :
    Len(parts) = m.length /\ \A i \in 1 .. m.length : parts[i] = FragUDPMessage(m)[i]

\* What the defragger returns is a message that was sent, whole, and once; and all
\* fragments of a message in a row make it.
MessagesAreWhole ==
  Representable /\ fr.msgs[1].id # fr.msgs[2].id =>
    /\ \A i \in DOMAIN fr.out : Whole(fr.out[i])
    /\ \A i, j \in DOMAIN fr.out : fr.out[i] = fr.out[j] => i = j
    /\ fr.row # << >> /\ Len(fr.row) = fr.msgs[Head(fr.row)[1]].length =>
         \E i \in DOMAIN fr.out : fr.out[i] # << >> /\ fr.out[i][1].msg = fr.msgs[Head(fr.row)[1]]

-----------------------------------------------------------------------------
(* Port hopping *)

VARIABLE hop

\* parsePorts: a part is a port, a range, or neither; the ends of a range may
\* stand in either order.
PortsOf(part) == IF Len(part) = 1 THEN {part[1]} ELSE (part[1] .. part[2]) \cup (part[2] .. part[1])
ParsePorts(parts) ==
  IF \E i \in DOMAIN parts : Len(parts[i]) \notin {1, 2} THEN {}
  ELSE UNION {PortsOf(parts[i]) : i \in DOMAIN parts}

\* The sizes of the buffers of a socket; behind an obfuscator they are not set.
Default == [read |-> 0, write |-> 0]
Socket(size) == [open |-> TRUE, size |-> size]

\* quicPacketConn, asked to hop, listens before it looks at the ports, and the
\* hopping connection listens again: the first socket has no further use and
\* nobody closes it.
HopInit ==
  \E parts \in Ports, listens \in BOOLEAN, obfs \in BOOLEAN :
    LET ports == ParsePorts(parts)
        fails == ports = {} \/ ~listens
    IN \E p \in IF fails THEN {0} ELSE ports :
         hop = [ports |-> ports, obfs |-> obfs,
                sockets |-> IF fails THEN <<Socket(Default)>> ELSE <<Socket(Default), Socket(Default)>>,
                prev |-> 0, current |-> IF fails THEN 0 ELSE 2,
                closed |-> fails,
                size |-> Default,         \* readBufferSize, writeBufferSize
                port |-> p,
                queue |-> << >>, lost |-> 0,
                sent |-> {}]              \* where packets were sent

CloseSocket(s, n) == IF n = 0 THEN s ELSE [s EXCEPT !.sockets[n].open = FALSE]

\* hop: skipped when it cannot listen.  The previous socket goes on receiving
\* until the next hop.
Hop ==
  /\ ~hop.closed /\ Len(hop.sockets) < MaxSockets
  /\ \E p \in hop.ports :
       hop' = [CloseSocket(hop, hop.prev) EXCEPT
                 !.prev = hop.current, !.sockets = Append(@, Socket(IF hop.obfs THEN Default ELSE hop.size)),
                 !.current = Len(hop.sockets) + 1, !.port = p]

CloseHop ==
  /\ ~hop.closed
  /\ hop' = [CloseSocket(CloseSocket(hop, hop.prev), hop.current) EXCEPT !.closed = TRUE]

\* SetReadBuffer and SetWriteBuffer, of the previous socket too
SetBuffer ==
  /\ ~hop.closed
  /\ \E size \in {[hop.size EXCEPT !.read = 1], [hop.size EXCEPT !.write = 1]} :
       hop' = [hop EXCEPT !.size = size,
                 !.sockets = [n \in DOMAIN @ |-> IF n \in {hop.prev, hop.current} /\ ~hop.obfs
                                                 THEN [@[n] EXCEPT !.size = size] ELSE @[n]]]

\* recvRoutine of a socket: what does not fit the queue is dropped.
Receive(n) ==
  /\ hop.sockets[n].open /\ n # 1
  /\ hop' = IF Len(hop.queue) < QueueSize THEN [hop EXCEPT !.queue = Append(@, n)]
            ELSE [hop EXCEPT !.lost = 1]

\* Once it is closed, what is queued or the error is returned, by chance.
ReadFrom ==
  /\ hop.queue # << >>
  /\ hop' = [hop EXCEPT !.queue = Tail(@)]

WriteTo ==
  /\ ~hop.closed
  /\ hop' = [hop EXCEPT !.sent = @ \cup {<<hop.sockets[hop.current].open, hop.port>>}]

HopNext == Hop \/ CloseHop \/ SetBuffer \/ ReadFrom \/ WriteTo \/ \E n \in DOMAIN hop.sockets : Receive(n)

\* Only the last two sockets are open, and none once it is closed, but for the
\* one that was opened first; both have the buffers that were asked for, but
\* behind an obfuscator.
SocketsAreClosed ==
  \A n \in DOMAIN hop.sockets : n # 1 /\ hop.sockets[n].open =>
    ~hop.closed /\ n \in {hop.prev, hop.current} /\ (hop.obfs \/ hop.sockets[n].size = hop.size)

\* Packets leave by an open socket for a port of the server.
SentToTheServer == \A out \in hop.sent : out[1] /\ out[2] \in hop.ports

=============================================================================
