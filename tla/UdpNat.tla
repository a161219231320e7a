------------------------------- MODULE UdpNat -------------------------------
(***************************************************************************)
(* UDP through the tunnel.  Packets of one local address share one session *)
(* (a connection of a proxy and the goroutine that reads its replies),     *)
(* kept in the NAT table; the first packet of an address makes it while    *)
(* the others wait on a condition variable that the same table holds.      *)
(* Transparent proxying keeps, in the entry of the session, one more       *)
(* socket for every remote address that has answered.                      *)
(***************************************************************************)
EXTENDS Integers, Sequences, FiniteSets

CONSTANTS
  Packets,
  Keys,          \* local addresses
  Dests,         \* what a packet may ask for: [asked, real], asked # real for a fake address
  MaxReplies,    \* bound on the replies of all sessions
  MaxFaults,     \* bound on failures and on sessions that the user closes
  Nil

VARIABLE un

Init ==
  \E key \in [Packets -> Keys], dest \in [Packets -> Dests] :
    un = [entry |-> [k \in Keys |-> 0],       \* natTable: the session of an address
          locals |-> [k \in Keys |-> {}],     \* LocalUDPConnMap of that entry
          lock |-> [k \in Keys |-> Nil],      \* natTable: the condition, by its owner
          held |-> {},                        \* conditions whose mutex is taken
          broadcast |-> {},                   \* conditions that have been broadcast
          sessions |-> << >>,                 \* [key, first, open, reader]
          sockets |-> {},                     \* open local sockets: [key, from, entry]
          replies |-> << >>,                  \* [session, from, seen]
          doubled |-> FALSE,                  \* an address has had two sessions at once
          faults |-> 0,
          pkt |-> [p \in Packets |-> [pc |-> "queued", key |-> key[p], dest |-> dest[p],
                                      cond |-> Nil, session |-> 0, late |-> FALSE, sent |-> 0]]]

Pkt(p) == un.pkt[p]
At(p, pc) == Pkt(p).pc = pc
Goto(s, p, pc) == [s EXCEPT !.pkt[p].pc = pc]
Fault(s) == [s EXCEPT !.faults = @ + 1]

-----------------------------------------------------------------------------

\* Not handled while the tunnel is suspended, or no valid metadata, or a fake
\* address that nobody knows, or a name that does not resolve.
Refused(p) ==
  /\ At(p, "queued") /\ un.faults < MaxFaults
  /\ un' = Goto(Fault(un), p, "dropped")

Accepted(p) ==
  /\ At(p, "queued")
  /\ un' = Goto(un, p, "get")

\* handle: the session of the table, be it closed already, gets the packet
Handle(s, p, then) ==
  LET k == s.pkt[p].key IN
  IF s.entry[k] = 0 THEN Goto(s, p, then)
  ELSE [s EXCEPT !.pkt[p].session = s.entry[k], !.pkt[p].pc = then,
                 !.pkt[p].sent = IF s.sessions[s.entry[k]].open THEN @ + 1 ELSE @]

Get(p) ==
  /\ At(p, "get")
  /\ un' = Handle(un, p, IF un.entry[Pkt(p).key] = 0 THEN "lock" ELSE "dropped")

\* GetOrCreateLock, and a goroutine is started
GetOrCreateLock(p) ==
  /\ At(p, "lock")
  /\ LET k == Pkt(p).key IN
     un' = IF un.lock[k] = Nil
           THEN [un EXCEPT !.lock[k] = p, !.pkt[p].cond = p, !.pkt[p].pc = "own"]
           ELSE [un EXCEPT !.pkt[p].cond = un.lock[k], !.pkt[p].pc = "enter"]

\* cond.L.Lock() and cond.Wait(): who comes after the broadcast is not woken by it
WaitForOwner(p) ==
  /\ At(p, "enter") /\ Pkt(p).cond \notin un.held
  /\ un' = [un EXCEPT !.pkt[p].pc = "wait", !.pkt[p].late = Pkt(p).cond \in un.broadcast]

\* Wait has the mutex again
Awake(p) ==
  /\ At(p, "woken") /\ Pkt(p).cond \notin un.held
  /\ un' = [Handle(un, p, "unlock") EXCEPT !.held = @ \cup {Pkt(p).cond}]

Unlock(p) ==
  /\ At(p, "unlock")
  /\ un' = [Goto(un, p, "dropped") EXCEPT !.held = @ \ {Pkt(p).cond}]

-----------------------------------------------------------------------------

Fake(d) == d.asked # d.real

\* resolveMetadata or every try of ListenPacketContext fails
ListenFails(p) ==
  /\ At(p, "own") /\ un.faults < MaxFaults
  /\ un' = Goto(Fault(un), p, "release")

\* NewUDPTracker: the session is open, and joins the manager
Listen(p) ==
  /\ At(p, "own")
  /\ un' = [un EXCEPT
       !.sessions = Append(@, [key |-> Pkt(p).key, first |-> Pkt(p).dest, open |-> TRUE,
                               reader |-> "unborn"]),
       !.pkt[p].session = Len(un.sessions) + 1, !.pkt[p].pc = "set"]

\* Mutant: the reader is started before the session is in the table.
SetAfter(p) ==
  LET c == Pkt(p).session  k == Pkt(p).key IN
  \/ /\ At(p, "set") /\ un.sessions[c].reader = "unborn"
     /\ un' = [un EXCEPT !.sessions[c].reader = "read"]
  \/ /\ At(p, "set") /\ un.sessions[c].reader # "unborn"
     /\ un' = [un EXCEPT !.entry[k] = c, !.locals[k] = {}, !.pkt[p].pc = "handle"]

\* natTable.Set makes a new entry, over one that may be there
Set(p) ==
  LET c == Pkt(p).session  k == Pkt(p).key IN
  /\ At(p, "set")
  /\ un' = [un EXCEPT !.doubled = @ \/ un.entry[k] # 0, !.entry[k] = c, !.locals[k] = {},
                      !.pkt[p].pc = "start"]

\* go handleUDPToLocal
Start(p) ==
  /\ At(p, "start")
  /\ un' = [un EXCEPT !.sessions[Pkt(p).session].reader = "read", !.pkt[p].pc = "handle"]

HandleOwn(p) ==
  /\ At(p, "handle")
  /\ un' = Handle(un, p, "release")

\* Mutant: who could not listen forgets to wake the others.
ReleaseOnSuccess(p) ==
  /\ At(p, "release")
  /\ un' = [un EXCEPT !.lock[Pkt(p).key] = Nil,
                      !.pkt[p].pc = IF Pkt(p).session = 0 THEN "dropped" ELSE "broadcast"]

\* the deferred natTable.Delete(lockKey)
Release(p) ==
  /\ At(p, "release")
  /\ un' = [un EXCEPT !.lock[Pkt(p).key] = Nil, !.pkt[p].pc = "broadcast"]

\* cond.Broadcast() and packet.Drop()
Broadcast(p) ==
  /\ At(p, "broadcast")
  /\ un' = [un EXCEPT !.broadcast = @ \cup {p},
       !.pkt = [q \in Packets |->
                  IF q = p THEN [@[q] EXCEPT !.pc = "dropped"]
                  ELSE IF @[q].pc = "wait" /\ @[q].cond = p /\ ~@[q].late
                  THEN [@[q] EXCEPT !.pc = "woken"] ELSE @[q]]]

-----------------------------------------------------------------------------

Reads(c) == un.sessions[c].reader = "read"

\* Whom the client takes a reply to come from: the fake address that the first
\* packet of the session asked for stands for the real one.
SeenFrom(c, from) ==
  LET d == un.sessions[c].first IN IF Fake(d) /\ d.real = from THEN d.asked ELSE from

\* A reply is written back.  With transparent proxying, createOrGetLocalConn
\* opens a socket bound to its sender, and AddLocalConn keeps it in the entry
\* of the address, if there is one.
Reply(c, from) ==
  LET k == un.sessions[c].key  seen == SeenFrom(c, from)  e == un.entry[k] IN
  /\ Reads(c) /\ un.sessions[c].open /\ Len(un.replies) < MaxReplies
  /\ un' = IF e = 0 \/ seen \in un.locals[k]
           THEN [un EXCEPT !.replies = Append(@, [session |-> c, from |-> from, seen |-> seen])]
           ELSE [un EXCEPT !.replies = Append(@, [session |-> c, from |-> from, seen |-> seen]),
                           !.locals[k] = @ \cup {seen},
                           !.sockets = @ \cup {[key |-> k, from |-> seen, entry |-> e]}]

\* The reader ends: nothing was read for a minute, or the session has failed,
\* or the reply could not be written back.
ReadFails(c) ==
  /\ Reads(c) /\ (un.sessions[c].open => un.faults < MaxFaults)
  /\ un' = [(IF un.sessions[c].open THEN Fault(un) ELSE un) EXCEPT !.sessions[c].reader = "close"]

\* pc.Close(): the tracker leaves the manager
CloseSession(c) ==
  /\ un.sessions[c].reader = "close"
  /\ un' = [un EXCEPT !.sessions[c].open = FALSE, !.sessions[c].reader = "locals"]

\* closeAllLocalCoon: the sockets of whatever entry there is by now
CloseLocals(c) ==
  LET k == un.sessions[c].key IN
  /\ un.sessions[c].reader = "locals"
  /\ un' = [un EXCEPT !.sessions[c].reader = "delete",
                      !.sockets = {x \in @ : ~(x.key = k /\ x.entry = un.entry[k])}]

\* natTable.Delete(key)
DeleteEntry(c) ==
  LET k == un.sessions[c].key IN
  /\ un.sessions[c].reader = "delete"
  /\ un' = [un EXCEPT !.sessions[c].reader = "done", !.entry[k] = 0, !.locals[k] = {}]

\* DELETE /connections closes the tracker behind the reader's back
UserCloses(c) ==
  /\ un.sessions[c].open /\ un.faults < MaxFaults
  /\ un' = [Fault(un) EXCEPT !.sessions[c].open = FALSE]

-----------------------------------------------------------------------------

PacketSteps(p) ==
  \/ Accepted(p) \/ Get(p) \/ GetOrCreateLock(p) \/ WaitForOwner(p) \/ Awake(p) \/ Unlock(p)
  \/ Listen(p) \/ Set(p) \/ Start(p) \/ HandleOwn(p) \/ Release(p) \/ Broadcast(p)

ReaderEnds(c) == CloseSession(c) \/ CloseLocals(c) \/ DeleteEntry(c)

Next ==
  \/ \E p \in Packets : PacketSteps(p) \/ Refused(p) \/ ListenFails(p)
  \/ \E c \in DOMAIN un.sessions :
       \/ ReaderEnds(c) \/ ReadFails(c) \/ UserCloses(c)
       \/ \E d \in Dests : Reply(c, d.real)

Spec == Init /\ [][Next]_un

-----------------------------------------------------------------------------

\* Steps of the owner that come before its session has a reader.
Making(p) == Pkt(p).pc \in {"set", "start"}

\* Every session in the table has a reader that will take it out again: the
\* table holds no dead entry that swallows all packets of its address.
NoDeadEntry ==
  \A k \in Keys : un.entry[k] # 0 =>
    LET c == un.entry[k] IN
    \/ un.sessions[c].reader # "done" /\ un.sessions[c].reader # "unborn"
    \/ \E p \in Packets : Making(p) /\ Pkt(p).session = c

\* An open session has a reader to close it.
EveryOpenIsRead ==
  \A c \in DOMAIN un.sessions : un.sessions[c].open =>
    \/ un.sessions[c].reader \in {"read", "close"}
    \/ \E p \in Packets : Making(p) /\ Pkt(p).session = c

\* A reply from where the first packet went comes, for the client, from the
\* address that it wrote to.
ReplyFromAsked ==
  \A i \in DOMAIN un.replies :
    LET r == un.replies[i]  d == un.sessions[r.session].first IN
    r.from = d.real => r.seen = d.asked

\* Local sockets do not outlive the session they are for, unless an address
\* has had two of them: only then is an entry with sockets lost.
LocalSocketsClosed ==
  un.doubled \/ \A x \in un.sockets : un.entry[x.key] = x.entry

\* Every packet is let go, but for the ones that began to wait after the
\* broadcast that was meant for them.
Stuck(p) == At(p, "wait") /\ Pkt(p).late
Ended(p) == At(p, "dropped") \/ Stuck(p)

\* A session of UDP is made once, read as long as it is open, and taken out of
\* the table by its reader, with the sockets that were opened for it; replies
\* come from where the client wrote to.
UdpSessionsKept == NoDeadEntry /\ EveryOpenIsRead /\ ReplyFromAsked /\ LocalSocketsClosed
=============================================================================
