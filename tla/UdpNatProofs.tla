---------------------------- MODULE UdpNatProofs ----------------------------
(***************************************************************************)
(* UdpSessionsKept for any number of packets, local addresses, replies and *)
(* failures.  The properties are not inductive: an entry is live only      *)
(* because whoever makes a session has one of its own, that nobody reads   *)
(* yet, under the address of its packet; and sockets are closed only       *)
(* because, as long as no entry was overwritten, every live session is the *)
(* one in the table, so that its reader finds the entry that holds them.   *)
(***************************************************************************)
EXTENDS UdpNat, TLAPS

Places == {d.asked : d \in Dests} \cup {d.real : d \in Dests}

Pcs ==
  {"queued", "get", "lock", "own", "enter", "wait", "woken", "unlock",
   "set", "start", "handle", "release", "broadcast", "dropped"}
Readers == {"unborn", "read", "close", "locals", "delete", "done"}

Conn == [key : Keys, first : Dests, open : BOOLEAN, reader : Readers]
PacketState ==
  [pc : Pcs, key : Keys, dest : Dests, cond : Packets \cup {Nil}, session : Nat,
   late : BOOLEAN, sent : Nat]

State ==
  [entry : [Keys -> Nat], locals : [Keys -> SUBSET Places], lock : [Keys -> Packets \cup {Nil}],
   held : SUBSET (Packets \cup {Nil}), broadcast : SUBSET Packets,
   sessions : Seq(Conn), sockets : SUBSET [key : Keys, from : Places, entry : Nat],
   replies : Seq([session : Nat, from : Places, seen : Places]),
   doubled : BOOLEAN, faults : Nat, pkt : [Packets -> PacketState]]

TypeOK == un \in State

Sessions == DOMAIN un.sessions
Live(c) == un.sessions[c].reader \in {"read", "close", "locals", "delete"}

\* The table holds sessions under their own address.
EntryIsKeyed ==
  \A k \in Keys : un.entry[k] # 0 => un.entry[k] \in Sessions /\ un.sessions[un.entry[k]].key = k

\* Who makes a session has one of its own, which nobody reads yet.
MakerHasSession ==
  \A p \in Packets : Making(p) =>
    /\ Pkt(p).session \in Sessions
    /\ un.sessions[Pkt(p).session].key = Pkt(p).key
    /\ un.sessions[Pkt(p).session].reader = "unborn"
MakersDiffer ==
  \A p, q \in Packets : Making(p) /\ Making(q) /\ p # q => Pkt(p).session # Pkt(q).session

ReplyIsOfSession == \A i \in DOMAIN un.replies : un.replies[i].session \in Sessions

\* As long as no entry was overwritten, it is the one of the live session, ...
LiveIsInTable ==
  un.doubled \/ \A c \in Sessions : Live(c) => un.entry[un.sessions[c].key] = c
StartedIsInTable ==
  un.doubled \/ \A p \in Packets : At(p, "start") => un.entry[Pkt(p).key] = Pkt(p).session

\* ... which closes its sockets before it deletes it.
SocketHasEntry == un.doubled \/ \A x \in un.sockets : x.entry # 0
NoneLeftAtDelete ==
  un.doubled \/ \A c \in Sessions :
                  un.sessions[c].reader = "delete" => \A x \in un.sockets : x.key # un.sessions[c].key

Linked ==
  /\ EntryIsKeyed /\ MakerHasSession /\ MakersDiffer /\ ReplyIsOfSession
  /\ LiveIsInTable /\ StartedIsInTable /\ SocketHasEntry /\ NoneLeftAtDelete
  /\ NoDeadEntry /\ EveryOpenIsRead /\ ReplyFromAsked /\ LocalSocketsClosed

IInv == TypeOK /\ Linked

\* A step that changes nothing but packets that neither make a session nor
\* begin to keeps the table.
LEMMA QuietStep ==
  ASSUME TypeOK, Linked, TypeOK',
         un'.entry = un.entry, un'.sessions = un.sessions, un'.sockets = un.sockets,
         un'.replies = un.replies, un'.doubled = un.doubled,
         \A p \in Packets : Making(p) \/ Making(p)' => un'.pkt[p] = un.pkt[p]
  PROVE  Linked'
<1> USE DEF Sessions
<1>1. \A p \in Packets : /\ Making(p)' <=> Making(p)
                         /\ Making(p) => Pkt(p)' = Pkt(p)
                         /\ At(p, "start")' <=> At(p, "start")
  BY DEF Making, Pkt, At
<1>2. EntryIsKeyed' /\ ReplyIsOfSession' /\ LiveIsInTable' /\ SocketHasEntry' /\ NoneLeftAtDelete'
  BY DEF Linked, EntryIsKeyed, ReplyIsOfSession, LiveIsInTable, SocketHasEntry, NoneLeftAtDelete, Live
<1>3. MakerHasSession' /\ MakersDiffer'
  BY <1>1 DEF Linked, MakerHasSession, MakersDiffer, Making, Pkt
<1>4. StartedIsInTable'
  BY <1>1 DEF Linked, StartedIsInTable, At, Making, Pkt
<1>5. NoDeadEntry' /\ EveryOpenIsRead'
  BY <1>1 DEF Linked, NoDeadEntry, EveryOpenIsRead, Making, Pkt
<1>6. ReplyFromAsked' /\ LocalSocketsClosed'
  BY DEF Linked, ReplyFromAsked, LocalSocketsClosed
<1>7. QED
  BY <1>2, <1>3, <1>4, <1>5, <1>6 DEF Linked

\* A packet moves on, and nothing else changes.
LEMMA PacketUpdate ==
  ASSUME NEW s \in State, NEW p \in Packets, NEW r \in PacketState
  PROVE  [s EXCEPT !.pkt[p] = r] \in State
<1>1. [s.pkt EXCEPT ![p] = r] \in [Packets -> PacketState]
  BY DEF State
<1>2. [s EXCEPT !.pkt = [s.pkt EXCEPT ![p] = r]] \in State
  BY <1>1 DEF State
<1>3. QED
  BY <1>2

\* A packet goes to another place of its goroutine.
LEMMA GotoType ==
  ASSUME NEW s \in State, NEW p \in Packets, NEW pc \in Pcs
  PROVE  Goto(s, p, pc) \in State
<1>1. s.pkt[p] \in PacketState
  BY DEF State
<1>2. [s.pkt[p] EXCEPT !.pc = pc] \in PacketState
  BY <1>1 DEF PacketState
<1>3. QED
  BY <1>2, PacketUpdate DEF Goto

\* The reader of a session moves on.
LEMMA ReaderUpdate ==
  ASSUME NEW s \in State, NEW c \in DOMAIN s.sessions, NEW reader \in Readers
  PROVE  [s EXCEPT !.sessions[c].reader = reader] \in State
<1>1. s.sessions \in Seq(Conn)
  BY DEF State
<1>2. s.sessions[c] \in Conn
  BY <1>1
<1>3. [s.sessions[c] EXCEPT !.reader = reader] \in Conn
  BY <1>2 DEF Conn
<1>4. [s.sessions EXCEPT ![c] = [s.sessions[c] EXCEPT !.reader = reader]] \in Seq(Conn)
  BY <1>1, <1>3
<1>5. [s EXCEPT !.sessions = [s.sessions EXCEPT ![c] = [s.sessions[c] EXCEPT !.reader = reader]]] \in State
  BY <1>4 DEF State
<1>6. QED
  BY <1>5

\* What becomes of a packet when its step is over.
LEMMA PcType ==
  ASSUME TypeOK, NEW p \in Packets, NEW pc \in Pcs
  PROVE  /\ un.pkt[p] \in PacketState
         /\ [un.pkt[p] EXCEPT !.pc = pc] \in PacketState
<1>1. un.pkt[p] \in PacketState
  BY DEF TypeOK, State
<1>2. QED
  BY <1>1 DEF PacketState

\* A session that gets a packet leaves everything else as it is.
LEMMA HandleIsQuiet ==
  ASSUME TypeOK, NEW p \in Packets, NEW then \in Pcs
  PROVE  \E r \in PacketState : r.pc = then /\ r.key = Pkt(p).key /\ Handle(un, p, then) = [un EXCEPT !.pkt[p] = r]
<1> DEFINE k == un.pkt[p].key
<1>1. un.pkt[p] \in PacketState /\ [un.pkt[p] EXCEPT !.pc = then] \in PacketState
  BY PcType
<1>2. CASE un.entry[k] = 0
  <2>1. Handle(un, p, then) = [un EXCEPT !.pkt[p] = [un.pkt[p] EXCEPT !.pc = then]]
    BY <1>2 DEF Handle, Goto
  <2>2. [un.pkt[p] EXCEPT !.pc = then].pc = then /\ [un.pkt[p] EXCEPT !.pc = then].key = Pkt(p).key
    BY <1>1 DEF PacketState, Pkt
  <2>3. QED
    BY <1>1, <2>1, <2>2
<1>3. CASE un.entry[k] # 0
  <2> DEFINE n == IF un.sessions[un.entry[k]].open THEN un.pkt[p].sent + 1 ELSE un.pkt[p].sent
             r == [un.pkt[p] EXCEPT !.session = un.entry[k], !.pc = then, !.sent = n]
  <2>1. k \in Keys
    BY <1>1 DEF PacketState
  <2>2. un.entry[k] \in Nat
    BY <2>1 DEF TypeOK, State
  <2>6. n \in Nat
    BY <1>1 DEF PacketState
  <2> HIDE DEF n
  <2>3. r \in PacketState /\ r.pc = then /\ r.key = Pkt(p).key
    BY <1>1, <2>2, <2>6 DEF PacketState, Pkt
  <2>4. Handle(un, p, then) = [un EXCEPT !.pkt[p] = r]
    BY <1>3 DEF Handle, n
  <2>5. QED
    BY <2>3, <2>4
<1>4. QED
  BY <1>2, <1>3

\* Every step of a packet keeps the types.
LEMMA PacketTypes ==
  ASSUME TypeOK, MakerHasSession, NEW p \in Packets, PacketSteps(p) \/ Refused(p) \/ ListenFails(p)
  PROVE  TypeOK'
<1> DEFINE Pc(pc) == [un.pkt[p] EXCEPT !.pc = pc]
<1>1. /\ un \in State /\ un.pkt[p] \in PacketState
      /\ \A pc \in Pcs : Pc(pc) \in PacketState
  <2>1. un \in State
    BY DEF TypeOK
  <2>2. ASSUME NEW pc \in Pcs PROVE Pc(pc) \in PacketState
    BY PcType
  <2>3. un.pkt[p] \in PacketState
    BY <2>1 DEF State
  <2>4. QED
    BY <2>1, <2>2, <2>3
<1>0. "own" \in Pcs /\ "enter" \in Pcs /\ "wait" \in Pcs /\ "set" \in Pcs
  BY DEF Pcs
<1>2. \A pc \in Pcs : Goto(un, p, pc) \in State
  BY <1>1, GotoType
<1>3. CASE Accepted(p) \/ Refused(p) \/ ListenFails(p)
  <2>0. un.faults + 1 \in Nat
    BY <1>1 DEF State
  <2>1. Fault(un) \in State
    BY <1>1, <2>0 DEF State, Fault
  <2>2. \A pc \in Pcs : Goto(Fault(un), p, pc) \in State
    BY <2>1, GotoType
  <2>3. QED
    BY <1>2, <1>3, <2>2 DEF Accepted, Refused, ListenFails, TypeOK, Pcs
<1>4. CASE Get(p)
  BY <1>4, <1>1, HandleIsQuiet, PacketUpdate DEF Get, TypeOK, Pcs
<1>5. CASE GetOrCreateLock(p)
  <2>1. Pkt(p).key \in Keys
    BY <1>1 DEF PacketState, Pkt
  <2>2. un.lock[Pkt(p).key] \in Packets \cup {Nil}
    BY <1>1, <2>1 DEF State
  <2>3. /\ [un.pkt[p] EXCEPT !.cond = p, !.pc = "own"] \in PacketState
        /\ [un.pkt[p] EXCEPT !.cond = un.lock[Pkt(p).key], !.pc = "enter"] \in PacketState
    BY <1>0, <1>1, <2>2 DEF PacketState
  <2>4. [un.lock EXCEPT ![Pkt(p).key] = p] \in [Keys -> Packets \cup {Nil}]
    BY <1>1 DEF State
  <2>5. [un EXCEPT !.lock = [un.lock EXCEPT ![Pkt(p).key] = p]] \in State
    BY <1>1, <2>4 DEF State
  <2>6. CASE un.lock[Pkt(p).key] = Nil
    <3>1. un' = [[un EXCEPT !.lock = [un.lock EXCEPT ![Pkt(p).key] = p]]
                   EXCEPT !.pkt[p] = [un.pkt[p] EXCEPT !.cond = p, !.pc = "own"]]
      BY <1>5, <2>6 DEF GetOrCreateLock
    <3>2. QED
      BY <2>3, <2>5, <3>1, PacketUpdate DEF TypeOK
  <2>7. CASE un.lock[Pkt(p).key] # Nil
    <3>1. un' = [un EXCEPT !.pkt[p] = [un.pkt[p] EXCEPT !.cond = un.lock[Pkt(p).key], !.pc = "enter"]]
      BY <1>5, <2>7 DEF GetOrCreateLock
    <3>2. QED
      BY <1>1, <2>3, <3>1, PacketUpdate DEF TypeOK
  <2>8. QED
    BY <2>6, <2>7
<1>6. CASE WaitForOwner(p)
  <2>1. ASSUME NEW late \in BOOLEAN PROVE [un.pkt[p] EXCEPT !.pc = "wait", !.late = late] \in PacketState
    BY <1>0, <1>1 DEF PacketState
  <2> DEFINE late == Pkt(p).cond \in un.broadcast
  <2>2. [un.pkt[p] EXCEPT !.pc = "wait", !.late = late] \in PacketState
    <3>1. late \in BOOLEAN
      OBVIOUS
    <3> HIDE DEF late
    <3>2. QED
      BY <2>1, <3>1
  <2>3. un' = [un EXCEPT !.pkt[p] = [un.pkt[p] EXCEPT !.pc = "wait", !.late = Pkt(p).cond \in un.broadcast]]
    BY <1>6 DEF WaitForOwner
  <2>4. QED
    BY <1>1, <2>2, <2>3, PacketUpdate DEF TypeOK
<1>7. CASE Awake(p) \/ Unlock(p)
  <2>1. PICK pc \in Pcs, s \in State, held \in SUBSET (Packets \cup {Nil}) : un' = [s EXCEPT !.held = held]
    <3>1. Pkt(p).cond \in Packets \cup {Nil}
      BY <1>1 DEF PacketState, Pkt
    <3>2. un.held \cup {Pkt(p).cond} \in SUBSET (Packets \cup {Nil}) /\ un.held \ {Pkt(p).cond} \in SUBSET (Packets \cup {Nil})
      BY <1>1, <3>1 DEF State
    <3>3. CASE Unlock(p)
      <4>1. Goto(un, p, "dropped") \in State /\ Goto(un, p, "dropped").held = un.held
        BY <1>1, <1>2 DEF Goto, Pcs, State
      <4>2. QED
        BY <3>3, <3>2, <4>1 DEF Unlock, Pcs
    <3>4. CASE Awake(p)
      <4>0. PICK r \in PacketState : Handle(un, p, "unlock") = [un EXCEPT !.pkt[p] = r]
        BY HandleIsQuiet DEF Pcs
      <4>1. Handle(un, p, "unlock") \in State
        BY <1>1, <4>0, PacketUpdate
      <4>2. un' = [Handle(un, p, "unlock") EXCEPT !.held = Handle(un, p, "unlock").held \cup {Pkt(p).cond}]
        BY <3>4 DEF Awake
      <4>3. Handle(un, p, "unlock").held \in SUBSET (Packets \cup {Nil})
        BY <4>1 DEF State
      <4>4. QED
        BY <3>1, <4>1, <4>2, <4>3 DEF Pcs
    <3>5. QED
      BY <1>7, <3>3, <3>4
  <2>2. QED
    BY <2>1 DEF State, TypeOK
<1>8. CASE Listen(p)
  <2> DEFINE conn == [key |-> Pkt(p).key, first |-> Pkt(p).dest, open |-> TRUE, reader |-> "unborn"]
  <2>1. conn \in Conn
    BY <1>1 DEF PacketState, Conn, Readers, Pkt
  <2>2. un.sessions \in Seq(Conn)
    BY <1>1 DEF State
  <2> HIDE DEF conn
  <2>3. Append(un.sessions, conn) \in Seq(Conn) /\ Len(un.sessions) + 1 \in Nat
    BY <2>1, <2>2
  <2>4. [un EXCEPT !.sessions = Append(un.sessions, conn)] \in State
    BY <1>1, <2>3 DEF State
  <2>5. ASSUME NEW n \in Nat PROVE [un.pkt[p] EXCEPT !.session = n, !.pc = "set"] \in PacketState
    BY <1>0, <1>1 DEF PacketState
  <2>6. un' = [[un EXCEPT !.sessions = Append(un.sessions, conn)]
                 EXCEPT !.pkt[p] = [un.pkt[p] EXCEPT !.session = Len(un.sessions) + 1, !.pc = "set"]]
    BY <1>8 DEF Listen, conn
  <2>7. QED
    BY <2>3, <2>4, <2>5, <2>6, PacketUpdate DEF TypeOK
<1>9. CASE Set(p)
  <2>1. Pkt(p).key \in Keys /\ Pkt(p).session \in Nat
    BY <1>1 DEF PacketState, Pkt
  <2>2. /\ [un.entry EXCEPT ![Pkt(p).key] = Pkt(p).session] \in [Keys -> Nat]
        /\ [un.locals EXCEPT ![Pkt(p).key] = {}] \in [Keys -> SUBSET Places]
        /\ (un.doubled \/ un.entry[Pkt(p).key] # 0) \in BOOLEAN
    BY <1>1, <2>1 DEF State
  <2>3. [un EXCEPT !.doubled = un.doubled \/ un.entry[Pkt(p).key] # 0,
                   !.entry = [un.entry EXCEPT ![Pkt(p).key] = Pkt(p).session],
                   !.locals = [un.locals EXCEPT ![Pkt(p).key] = {}]] \in State
    BY <1>1, <2>2 DEF State
  <2>4. Pc("start") \in PacketState
    BY <1>1 DEF Pcs
  <2>5. un' = [[un EXCEPT !.doubled = un.doubled \/ un.entry[Pkt(p).key] # 0,
                          !.entry = [un.entry EXCEPT ![Pkt(p).key] = Pkt(p).session],
                          !.locals = [un.locals EXCEPT ![Pkt(p).key] = {}]] EXCEPT !.pkt[p] = Pc("start")]
    BY <1>9 DEF Set
  <2>6. QED
    BY <2>3, <2>4, <2>5, PacketUpdate DEF TypeOK
<1>10. CASE Start(p)
  <2>0. Pkt(p).session \in DOMAIN un.sessions
    BY <1>10 DEF Start, At, MakerHasSession, Making, Sessions
  <2>1. [un EXCEPT !.sessions[Pkt(p).session].reader = "read"] \in State
    BY <1>1, <2>0, ReaderUpdate DEF Readers
  <2>2. Pc("handle") \in PacketState
    BY <1>1 DEF Pcs
  <2>3. QED
    BY <1>10, <2>1, <2>2, PacketUpdate DEF Start, TypeOK
<1>11. CASE HandleOwn(p)
  BY <1>11, <1>1, HandleIsQuiet, PacketUpdate DEF HandleOwn, TypeOK, Pcs
<1>12. CASE Release(p)
  <2>1. [un EXCEPT !.lock = [un.lock EXCEPT ![Pkt(p).key] = Nil]] \in State
    BY <1>1 DEF State
  <2>2. Pc("broadcast") \in PacketState
    BY <1>1 DEF Pcs
  <2>3. QED
    BY <1>12, <2>1, <2>2, PacketUpdate DEF Release, TypeOK
<1>13. CASE Broadcast(p)
  <2>1. \A q \in Packets : /\ un.pkt[q] \in PacketState
                           /\ \A pc \in {"dropped", "woken"} : [un.pkt[q] EXCEPT !.pc = pc] \in PacketState
    BY PcType DEF Pcs
  <2>2. un'.pkt \in [Packets -> PacketState]
    BY <1>13, <2>1, <1>1 DEF Broadcast, State
  <2>3. un'.broadcast \in SUBSET Packets
    BY <1>13, <1>1 DEF Broadcast, State
  <2>4. un' = [un EXCEPT !.broadcast = un'.broadcast, !.pkt = un'.pkt]
    BY <1>13, <1>1 DEF Broadcast, State
  <2>5. QED
    BY <1>1, <2>2, <2>3, <2>4 DEF State, TypeOK
<1>14. QED
  BY <1>3, <1>4, <1>5, <1>6, <1>7, <1>8, <1>9, <1>10, <1>11, <1>12, <1>13 DEF PacketSteps

\* A packet that neither makes a session nor begins to moves on.
LEMMA PacketMoves ==
  ASSUME IInv, TypeOK', NEW p \in Packets, NEW r \in PacketState,
         un'.entry = un.entry, un'.sessions = un.sessions, un'.sockets = un.sockets,
         un'.replies = un.replies, un'.doubled = un.doubled, un'.pkt = [un.pkt EXCEPT ![p] = r],
         ~Making(p), r.pc \notin {"set", "start"}
  PROVE  Linked'
<1>1. un.pkt \in [Packets -> PacketState]
  BY DEF IInv, TypeOK, State
<1>2. un'.pkt[p] = r /\ \A q \in Packets : q # p => un'.pkt[q] = un.pkt[q]
  BY <1>1
<1>3. \A q \in Packets : Making(q) \/ Making(q)' => un'.pkt[q] = un.pkt[q]
  BY <1>2 DEF Making, Pkt
<1>4. QED
  BY <1>3, QuietStep DEF IInv

\* Only Listen, Set and Start make a session.
LEMMA PacketKeepsLinks ==
  ASSUME IInv, TypeOK', NEW p \in Packets,
         \/ Refused(p) \/ Accepted(p) \/ Get(p) \/ GetOrCreateLock(p) \/ WaitForOwner(p) \/ Awake(p)
         \/ Unlock(p) \/ ListenFails(p) \/ HandleOwn(p) \/ Release(p) \/ Broadcast(p)
  PROVE  Linked'
<1>1. un \in State /\ un.pkt[p] \in PacketState
  BY DEF IInv, TypeOK, State
<1> DEFINE Quiet(r) == /\ un'.entry = un.entry /\ un'.sessions = un.sessions /\ un'.sockets = un.sockets
                       /\ un'.replies = un.replies /\ un'.doubled = un.doubled
                       /\ un'.pkt = [un.pkt EXCEPT ![p] = r]
                       /\ r.pc \notin {"set", "start"}
<1>2. un'.pkt \in [Packets -> PacketState]
  BY DEF TypeOK, State
<1>3. ASSUME NEW r, Quiet(r), ~Making(p) PROVE Linked'
  <2>1. r \in PacketState
    BY <1>1, <1>2, <1>3 DEF State
  <2>2. QED
    BY <1>3, <2>1, PacketMoves
<1>4. CASE Refused(p) \/ Accepted(p) \/ ListenFails(p)
  <2>1. PICK pc \in {"dropped", "get", "release"} :
          un' = [un EXCEPT !.faults = un'.faults, !.pkt[p] = [un.pkt[p] EXCEPT !.pc = pc]]
    BY <1>1, <1>4 DEF Refused, Accepted, ListenFails, Goto, Fault, State
  <2>2. [un.pkt[p] EXCEPT !.pc = pc].pc = pc
    BY <1>1 DEF PacketState
  <2>3. Quiet([un.pkt[p] EXCEPT !.pc = pc])
    BY <1>1, <2>1, <2>2 DEF State
  <2>4. ~Making(p)
    BY <1>4 DEF Refused, Accepted, ListenFails, At, Making
  <2>5. QED
    BY <1>3, <2>3, <2>4
<1>5. CASE Get(p) \/ Awake(p) \/ HandleOwn(p)
  <2>1. PICK r \in PacketState :
          /\ r.pc \in {"lock", "dropped", "unlock", "release"}
          /\ un' = [un EXCEPT !.held = un'.held, !.pkt[p] = r]
    <3>1. \A then \in {"lock", "dropped", "unlock", "release"} :
            \E r \in PacketState : r.pc = then /\ Handle(un, p, then) = [un EXCEPT !.pkt[p] = r]
      BY HandleIsQuiet DEF IInv, Pcs
    <3>2. PICK then \in {"lock", "dropped", "unlock", "release"} :
            un' = [Handle(un, p, then) EXCEPT !.held = un'.held]
      <4>1. CASE Get(p)
        <5>1. \E then \in {"lock", "dropped", "unlock", "release"} : un' = Handle(un, p, then)
          BY <4>1 DEF Get
        <5>2. PICK then \in {"lock", "dropped", "unlock", "release"} : un' = Handle(un, p, then)
          BY <5>1
        <5>3. un' = [un' EXCEPT !.held = un'.held]
          BY DEF TypeOK, State
        <5>4. QED
          BY <5>2, <5>3
      <4>2. CASE HandleOwn(p)
        <5>1. un' = Handle(un, p, "release")
          BY <4>2 DEF HandleOwn
        <5>2. un' = [un' EXCEPT !.held = un'.held]
          BY DEF TypeOK, State
        <5>3. QED
          BY <5>1, <5>2
      <4>3. CASE Awake(p)
        <5>1. un' = [Handle(un, p, "unlock") EXCEPT !.held = @ \cup {Pkt(p).cond}]
          BY <4>3 DEF Awake
        <5>2. PICK r \in PacketState : Handle(un, p, "unlock") = [un EXCEPT !.pkt[p] = r]
          BY <3>1
        <5>3. Handle(un, p, "unlock") \in State
          BY <1>1, <5>2, PacketUpdate
        <5>4. un'.held = Handle(un, p, "unlock").held \cup {Pkt(p).cond}
          BY <5>1, <5>3 DEF State
        <5>5. QED
          BY <5>1, <5>4
      <4>4. QED
        BY <1>5, <4>1, <4>2, <4>3
    <3>3. PICK r \in PacketState : r.pc = then /\ Handle(un, p, then) = [un EXCEPT !.pkt[p] = r]
      BY <3>1
    <3>4. \A h : [[un EXCEPT !.pkt[p] = r] EXCEPT !.held = h] = [un EXCEPT !.held = h, !.pkt[p] = r]
      BY <1>1 DEF State
    <3>5. QED
      BY <3>2, <3>3, <3>4
  <2>2. Quiet(r)
    BY <1>1, <2>1 DEF State
  <2>3. ~Making(p)
    BY <1>5 DEF Get, Awake, HandleOwn, At, Making
  <2>4. QED
    BY <1>3, <2>2, <2>3
<1>6. CASE GetOrCreateLock(p)
  <2> DEFINE R(cond, pc) == [un.pkt[p] EXCEPT !.cond = cond, !.pc = pc]
  <2>1. \A cond, pc : R(cond, pc).pc = pc
    BY <1>1 DEF PacketState
  <2>6. ASSUME NEW l, NEW r, un' = [un EXCEPT !.lock = l, !.pkt[p] = r], r.pc \notin {"set", "start"}
        PROVE  Quiet(r)
    BY <1>1, <2>6 DEF State
  <2>2. ~Making(p)
    BY <1>6 DEF GetOrCreateLock, At, Making
  <2>3. CASE un.lock[Pkt(p).key] = Nil
    <3>1. un' = [un EXCEPT !.lock = [un.lock EXCEPT ![Pkt(p).key] = p], !.pkt[p] = R(p, "own")]
      BY <1>6, <2>3 DEF GetOrCreateLock
    <3>2. R(p, "own").pc \notin {"set", "start"}
      BY <2>1
    <3> HIDE DEF R
    <3>3. Quiet(R(p, "own"))
      BY <2>6, <3>1, <3>2
    <3>4. QED
      BY <1>3, <2>2, <3>3
  <2>4. CASE un.lock[Pkt(p).key] # Nil
    <3> DEFINE r == R(un.lock[Pkt(p).key], "enter")
    <3>1. un' = [un EXCEPT !.pkt[p] = r]
      BY <1>6, <2>4 DEF GetOrCreateLock
    <3>2. r.pc \notin {"set", "start"}
      BY <2>1
    <3> HIDE DEF r
    <3>3. Quiet(r)
      BY <1>1, <3>1, <3>2 DEF State
    <3>4. QED
      BY <1>3, <2>2, <3>3
  <2>5. QED
    BY <2>3, <2>4
<1>7. CASE WaitForOwner(p)
  <2> DEFINE r == [un.pkt[p] EXCEPT !.pc = "wait", !.late = Pkt(p).cond \in un.broadcast]
  <2>1. un' = [un EXCEPT !.pkt[p] = r]
    BY <1>7 DEF WaitForOwner
  <2>2. r.pc = "wait"
    BY <1>1 DEF PacketState
  <2> HIDE DEF r
  <2>3. Quiet(r)
    BY <1>1, <2>1, <2>2 DEF State
  <2>4. ~Making(p)
    BY <1>7 DEF WaitForOwner, At, Making
  <2>5. QED
    BY <1>3, <2>3, <2>4
<1>8. CASE Unlock(p) \/ Release(p)
  <2>1. PICK pc \in {"dropped", "broadcast"} :
          un' = [un EXCEPT !.held = un'.held, !.lock = un'.lock, !.pkt[p] = [un.pkt[p] EXCEPT !.pc = pc]]
    BY <1>1, <1>8 DEF Unlock, Release, Goto, State
  <2>2. [un.pkt[p] EXCEPT !.pc = pc].pc = pc
    BY <1>1 DEF PacketState
  <2>3. Quiet([un.pkt[p] EXCEPT !.pc = pc])
    BY <1>1, <2>1, <2>2 DEF State
  <2>4. ~Making(p)
    BY <1>8 DEF Unlock, Release, At, Making
  <2>5. QED
    BY <1>3, <2>3, <2>4
<1>9. CASE Broadcast(p)
  <2>1. /\ un'.entry = un.entry /\ un'.sessions = un.sessions /\ un'.sockets = un.sockets
        /\ un'.replies = un.replies /\ un'.doubled = un.doubled
    BY <1>1, <1>9 DEF Broadcast, State
  <2>2. \A q \in Packets : un.pkt[q] \in PacketState
    BY <1>1 DEF State
  <2>3. \A q \in Packets : \/ un'.pkt[q] = un.pkt[q]
                           \/ /\ un.pkt[q].pc \in {"wait", "broadcast"}
                              /\ un'.pkt[q].pc \in {"dropped", "woken"}
    BY <1>1, <1>9, <2>2 DEF Broadcast, At, Pkt, State, PacketState
  <2>4. \A q \in Packets : Making(q) \/ Making(q)' => un'.pkt[q] = un.pkt[q]
    BY <2>3 DEF Making, Pkt
  <2>5. QED
    BY <2>1, <2>4, QuietStep DEF IInv
<1>10. QED
  BY <1>4, <1>5, <1>6, <1>7, <1>8, <1>9

\* ListenPacketContext: the new session is nobody else's.
LEMMA ListenKeepsLinks ==
  ASSUME IInv, TypeOK', NEW p \in Packets, Listen(p)
  PROVE  Linked'
<1> DEFINE n == Len(un.sessions) + 1
           conn == [key |-> Pkt(p).key, first |-> Pkt(p).dest, open |-> TRUE, reader |-> "unborn"]
           r == [un.pkt[p] EXCEPT !.session = n, !.pc = "set"]
<1>1. un \in State /\ un.pkt[p] \in PacketState /\ un.sessions \in Seq(Conn)
  BY DEF IInv, TypeOK, State
<1>2. un' = [un EXCEPT !.sessions = Append(un.sessions, conn), !.pkt[p] = r]
  BY DEF Listen
<1>3. r.pc = "set" /\ r.session = n /\ r.key = Pkt(p).key
  BY <1>1 DEF PacketState, Pkt
<1>4. conn.key = Pkt(p).key /\ conn.reader = "unborn"
  OBVIOUS
<1>5. conn \in Conn
  BY <1>1 DEF PacketState, Conn, Readers, Pkt
<1> HIDE DEF conn, r
<1>6. /\ un'.entry = un.entry /\ un'.sockets = un.sockets /\ un'.replies = un.replies
      /\ un'.doubled = un.doubled /\ un'.sessions = Append(un.sessions, conn)
      /\ un'.pkt = [un.pkt EXCEPT ![p] = r]
  BY <1>1, <1>2 DEF State
<1>7. un'.pkt[p] = r /\ \A q \in Packets : q # p => un'.pkt[q] = un.pkt[q]
  BY <1>1, <1>6 DEF State
<1>8. /\ n \notin Sessions /\ Sessions' = Sessions \cup {n} /\ 0 \notin Sessions
      /\ un'.sessions[n] = conn /\ \A c \in Sessions : un'.sessions[c] = un.sessions[c]
  BY <1>1, <1>5, <1>6 DEF Sessions
<1> HIDE DEF n
<1>9. \A q \in Packets : q # p => /\ Making(q)' <=> Making(q)
                                /\ At(q, "start")' <=> At(q, "start")
  BY <1>7 DEF Making, At, Pkt
<1>10. Making(p)' /\ ~At(p, "start")' /\ ~Making(p)
  BY <1>3, <1>7 DEF Listen, Making, At, Pkt
<1>11. EntryIsKeyed'
  BY <1>6, <1>8 DEF IInv, Linked, EntryIsKeyed
<1>21. /\ Pkt(p)'.session = n /\ Pkt(p)'.key = Pkt(p).key
       /\ \A q \in Packets : q # p => Pkt(q)' = Pkt(q)
  BY <1>3, <1>7 DEF Pkt
<1>12. MakerHasSession'
  <2>1. SUFFICES ASSUME NEW q \in Packets, Making(q)'
                 PROVE  /\ Pkt(q)'.session \in Sessions'
                        /\ un'.sessions[Pkt(q)'.session].key = Pkt(q)'.key
                        /\ un'.sessions[Pkt(q)'.session].reader = "unborn"
    BY DEF MakerHasSession
  <2>2. CASE q = p
    BY <1>4, <1>8, <1>21, <2>2
  <2>3. CASE q # p
    BY <1>8, <1>9, <1>21, <2>1, <2>3 DEF IInv, Linked, MakerHasSession, Making, Pkt
  <2>4. QED
    BY <2>2, <2>3
<1>13. MakersDiffer'
  <2>1. \A q \in Packets : q # p /\ Making(q)' => Pkt(q)'.session # n
    BY <1>8, <1>9, <1>21 DEF IInv, Linked, MakerHasSession, Making, Pkt
  <2>2. \A q, x \in Packets : q # p /\ x # p /\ Making(q)' /\ Making(x)' /\ q # x
                             => Pkt(q)'.session # Pkt(x)'.session
    BY <1>9, <1>21 DEF IInv, Linked, MakersDiffer, Making, Pkt
  <2>3. QED
    BY <1>21, <2>1, <2>2 DEF MakersDiffer
<1>14. ReplyIsOfSession' /\ ReplyFromAsked'
  <2>1. \A i \in DOMAIN un.replies :
          un.replies[i].session \in Sessions /\ un'.sessions[un.replies[i].session] = un.sessions[un.replies[i].session]
    BY <1>8 DEF IInv, Linked, ReplyIsOfSession
  <2>2. QED
    BY <1>6, <1>8, <2>1 DEF IInv, Linked, ReplyIsOfSession, ReplyFromAsked, Sessions
<1>15. LiveIsInTable' /\ NoneLeftAtDelete'
  <2>1. \A c \in Sessions' : c = n \/ (c \in Sessions /\ un'.sessions[c] = un.sessions[c])
    BY <1>8
  <2>2. un'.sessions[n].reader = "unborn"
    BY <1>4, <1>8
  <2>3. \A c \in Sessions' : Live(c)' => c \in Sessions /\ Live(c) /\ un'.sessions[c] = un.sessions[c]
    BY <2>1, <2>2 DEF Live
  <2>4. LiveIsInTable'
    BY <1>6, <2>3 DEF IInv, Linked, LiveIsInTable
  <2>5. NoneLeftAtDelete'
    BY <1>6, <2>1, <2>2 DEF IInv, Linked, NoneLeftAtDelete
  <2>6. QED
    BY <2>4, <2>5
<1>16. StartedIsInTable'
  BY <1>6, <1>9, <1>10, <1>21 DEF IInv, Linked, StartedIsInTable, At, Pkt
<1>17. SocketHasEntry' /\ LocalSocketsClosed'
  BY <1>6 DEF IInv, Linked, SocketHasEntry, LocalSocketsClosed
<1>18. NoDeadEntry'
  <2>0. un'.entry = un.entry
    BY <1>6
  <2>1. \A j \in Keys : un.entry[j] # 0 => un.entry[j] \in Sessions
    BY DEF IInv, Linked, EntryIsKeyed
  <2>2. \A j \in Keys : un.entry[j] # 0 => un'.sessions[un.entry[j]] = un.sessions[un.entry[j]]
    BY <1>8, <2>1
  <2>3. \A q \in Packets : Making(q) => Making(q)' /\ Pkt(q)' = Pkt(q)
    BY <1>9, <1>10, <1>21 DEF Making, Pkt
  <2>4. SUFFICES ASSUME NEW j \in Keys, un.entry[j] # 0
                 PROVE  \/ un.sessions[un.entry[j]].reader # "done" /\ un.sessions[un.entry[j]].reader # "unborn"
                        \/ \E q \in Packets : Making(q)' /\ Pkt(q)'.session = un.entry[j]
    BY <2>0, <2>2 DEF NoDeadEntry
  <2>5. CASE \E q \in Packets : Making(q) /\ Pkt(q).session = un.entry[j]
    BY <2>3, <2>5 DEF Making, Pkt
  <2>6. QED
    BY <2>4, <2>5 DEF IInv, Linked, NoDeadEntry
<1>19. EveryOpenIsRead'
  <2>0. \A q \in Packets : Making(q) => Making(q)' /\ Pkt(q)' = Pkt(q)
    BY <1>9, <1>10, <1>21 DEF Making, Pkt
  <2>1. \A c \in Sessions : un.sessions[c].open =>
           un.sessions[c].reader \in {"read", "close"} \/ \E q \in Packets : Making(q)' /\ Pkt(q)'.session = c
    BY <2>0 DEF IInv, Linked, EveryOpenIsRead, Sessions
  <2>2. Pkt(p)'.session = n
    BY <1>3, <1>7 DEF Pkt
  <2>3. QED
    BY <2>1, <2>2, <1>8, <1>10 DEF EveryOpenIsRead, Sessions
<1>20. QED
  BY <1>11, <1>12, <1>13, <1>14, <1>15, <1>16, <1>17, <1>18, <1>19 DEF Linked

\* natTable.Set: the entry is that of the session, or one was overwritten.
LEMMA SetKeepsLinks ==
  ASSUME IInv, TypeOK', NEW p \in Packets, Set(p)
  PROVE  Linked'
<1> DEFINE k == Pkt(p).key
           c == Pkt(p).session
           r == [un.pkt[p] EXCEPT !.pc = "start"]
<1>1. un \in State /\ un.pkt[p] \in PacketState
  BY DEF IInv, TypeOK, State
<1>2. un' = [un EXCEPT !.doubled = un.doubled \/ un.entry[k] # 0, !.entry[k] = c, !.locals[k] = {}, !.pkt[p] = r]
  BY DEF Set
<1>3. r.pc = "start" /\ r.session = c /\ r.key = k /\ k \in Keys
  BY <1>1 DEF PacketState, Pkt
<1> HIDE DEF k, c, r
<1>4. /\ un'.sockets = un.sockets /\ un'.replies = un.replies /\ un'.sessions = un.sessions
      /\ un'.doubled = (un.doubled \/ un.entry[k] # 0) /\ un'.entry = [un.entry EXCEPT ![k] = c]
      /\ un'.pkt = [un.pkt EXCEPT ![p] = r]
  BY <1>1, <1>2 DEF State
<1>5. un'.pkt[p] = r /\ \A q \in Packets : q # p => un'.pkt[q] = un.pkt[q]
  BY <1>1, <1>4 DEF State
<1>6. un'.entry[k] = c /\ \A j \in Keys : j # k => un'.entry[j] = un.entry[j]
  BY <1>1, <1>3, <1>4 DEF State
<1>7. un.sockets \subseteq [key : Keys, from : Places, entry : Nat]
  BY <1>1 DEF State
<1>8. \A q \in Packets : Making(q)' <=> Making(q)
  BY <1>3, <1>5 DEF Making, Pkt, At, Set
<1>9. \A q \in Packets : q # p => (At(q, "start")' <=> At(q, "start"))
  BY <1>5 DEF Pkt, At
<1>10. \A q \in Packets : Pkt(q)'.session = Pkt(q).session /\ Pkt(q)'.key = Pkt(q).key
  BY <1>3, <1>5 DEF Pkt, k, c
<1>11. Making(p) /\ c \in Sessions /\ un.sessions[c].key = k /\ un.sessions[c].reader = "unborn"
  BY DEF IInv, Linked, MakerHasSession, Making, Set, At, k, c
<1>12. \A x \in Sessions : un.sessions[x] \in Conn
  BY <1>1 DEF State, Sessions
<1>13. EntryIsKeyed'
  BY <1>4, <1>6, <1>11 DEF IInv, Linked, EntryIsKeyed, Sessions
<1>14. MakerHasSession' /\ MakersDiffer'
  BY <1>4, <1>8, <1>10 DEF IInv, Linked, MakerHasSession, MakersDiffer, Sessions
<1>15. ReplyIsOfSession' /\ ReplyFromAsked'
  BY <1>4 DEF IInv, Linked, ReplyIsOfSession, ReplyFromAsked, Sessions
<1>16. LiveIsInTable'
  <2>1. SUFFICES ASSUME ~un'.doubled, NEW x \in Sessions, Live(x)
                 PROVE  un'.entry[un.sessions[x].key] = x
    BY <1>4 DEF LiveIsInTable, Live, Sessions
  <2>2. un.entry[un.sessions[x].key] = x /\ x # 0
    BY <1>1, <1>4, <2>1 DEF IInv, Linked, LiveIsInTable, Sessions, State
  <2>3. un.sessions[x].key # k
    BY <1>4, <2>1, <2>2
  <2>4. QED
    BY <1>6, <1>12, <2>2, <2>3 DEF Conn
<1>17. StartedIsInTable'
  <2>1. SUFFICES ASSUME ~un'.doubled, NEW q \in Packets, At(q, "start")'
                 PROVE  un'.entry[Pkt(q).key] = Pkt(q).session
    BY <1>10 DEF StartedIsInTable
  <2>2. CASE q = p
    BY <2>2, <1>6 DEF k, c
  <2>3. CASE q # p
    <3>1. un.entry[Pkt(q).key] = Pkt(q).session /\ At(q, "start")
      BY <1>4, <1>9, <2>1, <2>3 DEF IInv, Linked, StartedIsInTable
    <3>2. Pkt(q).session \in Sessions
      BY <3>1 DEF IInv, Linked, MakerHasSession, Making, At
    <3>3. Pkt(q).session # 0 /\ Pkt(q).key \in Keys
      BY <1>1, <3>2 DEF State, PacketState, Sessions, Pkt
    <3>4. Pkt(q).key # k
      BY <1>4, <2>1, <3>1, <3>3
    <3>5. QED
      BY <1>6, <3>1, <3>3, <3>4
  <2>4. QED
    BY <2>2, <2>3
<1>18. SocketHasEntry' /\ NoneLeftAtDelete'
  BY <1>4 DEF IInv, Linked, SocketHasEntry, NoneLeftAtDelete, Sessions
<1>19. LocalSocketsClosed'
  <2>1. SUFFICES ASSUME ~un'.doubled, NEW x \in un.sockets
                 PROVE  un'.entry[x.key] = x.entry
    BY <1>4 DEF LocalSocketsClosed
  <2>2. ~un.doubled /\ un.entry[k] = 0
    BY <1>4, <2>1
  <2>3. un.entry[x.key] = x.entry /\ x.entry # 0
    BY <2>2 DEF IInv, Linked, LocalSocketsClosed, SocketHasEntry
  <2>4. x.key \in Keys
    BY <1>7
  <2>5. QED
    BY <1>6, <2>2, <2>3, <2>4
<1>20. NoDeadEntry'
  <2>1. SUFFICES ASSUME NEW j \in Keys, un'.entry[j] # 0
                 PROVE  \/ un.sessions[un'.entry[j]].reader # "done" /\ un.sessions[un'.entry[j]].reader # "unborn"
                        \/ \E q \in Packets : Making(q) /\ Pkt(q).session = un'.entry[j]
    BY <1>4, <1>8, <1>10 DEF NoDeadEntry
  <2>2. CASE j = k
    BY <2>2, <1>6, <1>11 DEF c
  <2>3. CASE j # k
    BY <2>1, <2>3, <1>6 DEF IInv, Linked, NoDeadEntry
  <2>4. QED
    BY <2>2, <2>3
<1>21. EveryOpenIsRead'
  BY <1>4, <1>8, <1>10 DEF IInv, Linked, EveryOpenIsRead
<1>22. QED
  BY <1>13, <1>14, <1>15, <1>16, <1>17, <1>18, <1>19, <1>20, <1>21 DEF Linked

\* go handleUDPToLocal: the session is in the table and gets its reader.
LEMMA StartKeepsLinks ==
  ASSUME IInv, TypeOK', NEW p \in Packets, Start(p)
  PROVE  Linked'
<1> DEFINE c == Pkt(p).session
           r == [un.pkt[p] EXCEPT !.pc = "handle"]
           conn == [un.sessions[c] EXCEPT !.reader = "read"]
<1>1. un \in State /\ un.pkt[p] \in PacketState
  BY DEF IInv, TypeOK, State
<1>2. /\ Making(p) /\ c \in Sessions /\ un.sessions[c].key = Pkt(p).key
  BY DEF IInv, Linked, MakerHasSession, Making, Start, At
<1>3. un' = [un EXCEPT !.sessions[c] = conn, !.pkt[p] = r]
  BY DEF Start
<1>4. un.sessions \in Seq(Conn) /\ un.sessions[c] \in Conn
  BY <1>1, <1>2 DEF State, Sessions
<1>5. conn.reader = "read" /\ conn.key = un.sessions[c].key /\ conn.first = un.sessions[c].first
  BY <1>4 DEF Conn
<1>6. r.pc = "handle"
  BY <1>1 DEF PacketState
<1> HIDE DEF c, r, conn
<1>7. /\ un'.entry = un.entry /\ un'.sockets = un.sockets /\ un'.replies = un.replies
      /\ un'.doubled = un.doubled
  BY <1>1, <1>3 DEF State
<1>8. un'.sessions = [un.sessions EXCEPT ![c] = conn] /\ un'.pkt = [un.pkt EXCEPT ![p] = r]
  BY <1>1, <1>3 DEF State
<1>9. un'.pkt[p] = r /\ \A q \in Packets : q # p => un'.pkt[q] = un.pkt[q]
  BY <1>1, <1>8 DEF State
<1>10. /\ Sessions' = Sessions /\ un'.sessions[c] = conn
       /\ \A x \in Sessions : x # c => un'.sessions[x] = un.sessions[x]
  BY <1>2, <1>4, <1>8 DEF Sessions
<1>11. \A x \in Sessions : un'.sessions[x].key = un.sessions[x].key /\ un'.sessions[x].first = un.sessions[x].first
  BY <1>5, <1>10
<1>12. \A q \in Packets : Making(q)' => q # p /\ Making(q) /\ Pkt(q)' = Pkt(q) /\ Pkt(q).session # c
  BY <1>2, <1>6, <1>9 DEF Making, Pkt, IInv, Linked, MakersDiffer, c
<1>13. \A q \in Packets : Making(q) /\ Pkt(q).session # c => Making(q)' /\ Pkt(q)' = Pkt(q)
  BY <1>9 DEF Making, Pkt, c
<1>14. EntryIsKeyed'
  BY <1>7, <1>10, <1>11 DEF IInv, Linked, EntryIsKeyed
<1>15. MakerHasSession'
  BY <1>10, <1>12 DEF IInv, Linked, MakerHasSession, Making, Pkt
<1>16. MakersDiffer'
  BY <1>12 DEF IInv, Linked, MakersDiffer, Making, Pkt
<1>17. ReplyIsOfSession' /\ ReplyFromAsked'
  BY <1>7, <1>10, <1>11 DEF IInv, Linked, ReplyIsOfSession, ReplyFromAsked
<1>18. LiveIsInTable'
  <2>1. un.doubled \/ un.entry[un.sessions[c].key] = c
    BY <1>2 DEF IInv, Linked, StartedIsInTable, Start, c
  <2>2. QED
    BY <1>7, <1>10, <1>11, <2>1 DEF IInv, Linked, LiveIsInTable, Live
<1>19. StartedIsInTable'
  <2>1. \A q \in Packets : At(q, "start")' => At(q, "start") /\ Pkt(q)' = Pkt(q)
    BY <1>6, <1>9 DEF At, Pkt
  <2>2. QED
    BY <1>7, <2>1 DEF IInv, Linked, StartedIsInTable, At, Pkt
<1>20. SocketHasEntry' /\ LocalSocketsClosed'
  BY <1>7 DEF IInv, Linked, SocketHasEntry, LocalSocketsClosed
<1>21. NoneLeftAtDelete'
  BY <1>5, <1>7, <1>10 DEF IInv, Linked, NoneLeftAtDelete
<1>22. NoDeadEntry'
  <2>1. SUFFICES ASSUME NEW j \in Keys, un.entry[j] # 0
                 PROVE  \/ un'.sessions[un.entry[j]].reader # "done" /\ un'.sessions[un.entry[j]].reader # "unborn"
                        \/ \E q \in Packets : Making(q)' /\ Pkt(q)'.session = un.entry[j]
    BY <1>7 DEF NoDeadEntry
  <2>2. CASE un.entry[j] = c
    BY <1>5, <1>10, <2>2
  <2>3. CASE un.entry[j] # c
    <3>1. un.entry[j] \in Sessions /\ un'.sessions[un.entry[j]] = un.sessions[un.entry[j]]
      BY <1>10, <2>1, <2>3 DEF IInv, Linked, EntryIsKeyed
    <3>2. CASE \E q \in Packets : Making(q) /\ Pkt(q).session = un.entry[j]
      BY <1>13, <2>3, <3>2 DEF Making, Pkt
    <3>3. QED
      BY <2>1, <3>1, <3>2 DEF IInv, Linked, NoDeadEntry
  <2>4. QED
    BY <2>2, <2>3
<1>23. EveryOpenIsRead'
  <2>1. SUFFICES ASSUME NEW x \in Sessions, un'.sessions[x].open
                 PROVE  \/ un'.sessions[x].reader \in {"read", "close"}
                        \/ \E q \in Packets : Making(q)' /\ Pkt(q)'.session = x
    BY <1>10 DEF EveryOpenIsRead, Sessions
  <2>2. CASE x = c
    BY <1>5, <1>10, <2>2
  <2>3. CASE x # c
    <3>1. un'.sessions[x] = un.sessions[x]
      BY <1>10, <2>1, <2>3
    <3>2. CASE \E q \in Packets : Making(q) /\ Pkt(q).session = x
      BY <1>13, <2>3, <3>2 DEF Making, Pkt
    <3>3. QED
      BY <2>1, <3>1, <3>2 DEF IInv, Linked, EveryOpenIsRead, Sessions
  <2>4. QED
    BY <2>2, <2>3
<1>24. QED
  BY <1>14, <1>15, <1>16, <1>17, <1>18, <1>19, <1>20, <1>21, <1>22, <1>23 DEF Linked

\* A session that is closed, and a reader that goes on to its end.
LEMMA SessionChanges ==
  ASSUME IInv, TypeOK', NEW c \in Sessions, NEW conn \in Conn,
         conn.key = un.sessions[c].key, conn.first = un.sessions[c].first,
         conn.reader = un.sessions[c].reader \/ (Live(c) /\ conn.reader \in {"close", "locals", "delete"}),
         conn.open => /\ un.sessions[c].open
                      /\ conn.reader = un.sessions[c].reader \/ conn.reader = "close",
         un'.entry = un.entry, un'.replies = un.replies, un'.doubled = un.doubled, un'.pkt = un.pkt,
         un'.sessions = [un.sessions EXCEPT ![c] = conn],
         un'.sockets \subseteq un.sockets,
         \/ un.doubled \/ conn.reader # "delete" \/ un.sessions[c].reader = "delete"
         \/ \A x \in un'.sockets : x.key # conn.key
  PROVE  Linked'
<1>1. un \in State /\ un.sessions \in Seq(Conn)
  BY DEF IInv, TypeOK, State
<1>2. /\ Sessions' = Sessions /\ un'.sessions[c] = conn
      /\ \A x \in Sessions : x # c => un'.sessions[x] = un.sessions[x]
  BY <1>1 DEF Sessions
<1>3. \A x \in Sessions : un'.sessions[x].key = un.sessions[x].key /\ un'.sessions[x].first = un.sessions[x].first
  BY <1>2
<1>4. \A q \in Packets : /\ Making(q)' <=> Making(q)
                         /\ Pkt(q)' = Pkt(q)
                         /\ At(q, "start")' <=> At(q, "start")
  BY DEF Making, Pkt, At
<1>5. \A x \in Sessions : \/ un'.sessions[x].reader = un.sessions[x].reader
                          \/ Live(x) /\ un'.sessions[x].reader \in {"close", "locals", "delete"}
  <2>1. \/ un'.sessions[c].reader = un.sessions[c].reader
        \/ Live(c) /\ un'.sessions[c].reader \in {"close", "locals", "delete"}
    BY <1>2
  <2>2. \A x \in Sessions : x # c => un'.sessions[x].reader = un.sessions[x].reader
    BY <1>2
  <2>3. QED
    BY <2>1, <2>2 DEF Live
<1>6. EntryIsKeyed'
  BY <1>2, <1>3 DEF IInv, Linked, EntryIsKeyed
<1>7. MakerHasSession' /\ MakersDiffer'
  BY <1>2, <1>3, <1>4, <1>5 DEF IInv, Linked, MakerHasSession, MakersDiffer, Live, Making, Pkt
<1>8. ReplyIsOfSession' /\ ReplyFromAsked'
  BY <1>2, <1>3 DEF IInv, Linked, ReplyIsOfSession, ReplyFromAsked
<1>9. LiveIsInTable'
  BY <1>2, <1>3, <1>5 DEF IInv, Linked, LiveIsInTable, Live
<1>10. StartedIsInTable'
  BY <1>4 DEF IInv, Linked, StartedIsInTable, At, Pkt
<1>11. SocketHasEntry' /\ LocalSocketsClosed'
  BY DEF IInv, Linked, SocketHasEntry, LocalSocketsClosed
<1>12. NoneLeftAtDelete'
  <2>1. SUFFICES ASSUME ~un.doubled, NEW x \in Sessions, un'.sessions[x].reader = "delete", NEW y \in un'.sockets
                 PROVE  y.key # un'.sessions[x].key
    BY <1>2 DEF NoneLeftAtDelete
  <2>2. CASE un.sessions[x].reader = "delete"
    BY <1>3, <2>1, <2>2 DEF IInv, Linked, NoneLeftAtDelete
  <2>3. CASE un.sessions[x].reader # "delete"
    BY <1>2, <2>1, <2>3
  <2>4. QED
    BY <2>2, <2>3
<1>13. NoDeadEntry'
  <2>1. SUFFICES ASSUME NEW j \in Keys, un.entry[j] # 0
                 PROVE  \/ un'.sessions[un.entry[j]].reader # "done" /\ un'.sessions[un.entry[j]].reader # "unborn"
                        \/ \E q \in Packets : Making(q)' /\ Pkt(q)'.session = un.entry[j]
    BY DEF NoDeadEntry
  <2>2. un.entry[j] \in Sessions
    BY <2>1 DEF IInv, Linked, EntryIsKeyed
  <2>3. CASE \E q \in Packets : Making(q) /\ Pkt(q).session = un.entry[j]
    BY <1>4, <2>3 DEF Making, Pkt
  <2>4. QED
    BY <1>5, <2>1, <2>2, <2>3 DEF IInv, Linked, NoDeadEntry
<1>14. EveryOpenIsRead'
  <2>1. SUFFICES ASSUME NEW x \in Sessions, un'.sessions[x].open
                 PROVE  \/ un'.sessions[x].reader \in {"read", "close"}
                        \/ \E q \in Packets : Making(q)' /\ Pkt(q)'.session = x
    BY <1>2 DEF EveryOpenIsRead, Sessions
  <2>2. un.sessions[x].open /\ (un'.sessions[x].reader = un.sessions[x].reader \/ un'.sessions[x].reader = "close")
    BY <1>2, <2>1
  <2>3. CASE \E q \in Packets : Making(q) /\ Pkt(q).session = x
    BY <1>4, <2>3 DEF Making, Pkt
  <2>4. QED
    BY <2>2, <2>3 DEF IInv, Linked, EveryOpenIsRead, Sessions
<1>15. QED
  BY <1>6, <1>7, <1>8, <1>9, <1>10, <1>11, <1>12, <1>13, <1>14 DEF Linked

\* The steps of a reader, and the user, but for the last one.
LEMMA ReaderSteps ==
  ASSUME IInv, NEW c \in Sessions,
         ReadFails(c) \/ CloseSession(c) \/ CloseLocals(c) \/ UserCloses(c)
  PROVE  IInv'
<1> DEFINE C(open, reader) == [un.sessions[c] EXCEPT !.open = open, !.reader = reader]
           old == un.sessions[c]
<1>1. un \in State /\ un.sessions \in Seq(Conn) /\ old \in Conn
  BY DEF IInv, TypeOK, State, Sessions
<1>2. \A open \in BOOLEAN, reader \in Readers :
        /\ C(open, reader) \in Conn /\ C(open, reader).open = open /\ C(open, reader).reader = reader
        /\ C(open, reader).key = old.key /\ C(open, reader).first = old.first
  BY <1>1 DEF Conn
<1>3. old.open \in BOOLEAN /\ old.reader \in Readers
  BY <1>1 DEF Conn
<1>4. C(old.open, old.reader) = old
  BY <1>1 DEF Conn
<1>5. ASSUME NEW conn \in Conn, NEW sockets \in SUBSET un.sockets, NEW faults \in Nat,
             un' = [un EXCEPT !.sessions[c] = conn, !.sockets = sockets, !.faults = faults]
      PROVE  /\ TypeOK'
             /\ un'.entry = un.entry /\ un'.replies = un.replies /\ un'.doubled = un.doubled
             /\ un'.pkt = un.pkt /\ un'.sessions = [un.sessions EXCEPT ![c] = conn] /\ un'.sockets = sockets
  <2>1. [un.sessions EXCEPT ![c] = conn] \in Seq(Conn)
    BY <1>1 DEF Sessions
  <2>2. un' = [un EXCEPT !.sessions = [un.sessions EXCEPT ![c] = conn], !.sockets = sockets, !.faults = faults]
    BY <1>5
  <2>3. QED
    BY <1>1, <2>1, <2>2 DEF TypeOK, State
<1>6. un.faults \in Nat /\ un.faults + 1 \in Nat
  BY <1>1 DEF State
<1>7. \A f, conn, sockets, faults :
        /\ [un EXCEPT !.sessions[c] = conn] =
              [un EXCEPT !.sessions[c] = conn, !.sockets = un.sockets, !.faults = un.faults]
        /\ [un EXCEPT !.sessions[c] = conn, !.faults = f] =
              [un EXCEPT !.sessions[c] = conn, !.sockets = un.sockets, !.faults = f]
        /\ [un EXCEPT !.sessions[c] = conn, !.sockets = sockets] =
              [un EXCEPT !.sessions[c] = conn, !.sockets = sockets, !.faults = un.faults]
  BY <1>1 DEF State
<1>8. \A reader : /\ [old EXCEPT !.reader = reader] = C(old.open, reader)
                  /\ [old EXCEPT !.open = FALSE] = C(FALSE, old.reader)
  BY <1>1 DEF Conn
<1> HIDE DEF old, C
<1>9. CASE ReadFails(c)
  <2>1. un' = [un EXCEPT !.sessions[c] = [old EXCEPT !.reader = "close"], !.faults = un.faults + 1]
        \/ un' = [un EXCEPT !.sessions[c] = [old EXCEPT !.reader = "close"]]
    <3>1. CASE un.sessions[c].open
      <4>1. un' = [[un EXCEPT !.faults = un.faults + 1] EXCEPT !.sessions[c] = [old EXCEPT !.reader = "close"]]
        BY <1>1, <1>9, <3>1 DEF ReadFails, Fault, old, State
      <4>2. \A x : [[un EXCEPT !.faults = un.faults + 1] EXCEPT !.sessions[c] = x]
                      = [un EXCEPT !.sessions[c] = x, !.faults = un.faults + 1]
        BY <1>1 DEF State
      <4>3. QED
        BY <4>1, <4>2
    <3>2. CASE ~un.sessions[c].open
      BY <1>9, <3>2 DEF ReadFails, old
    <3>3. QED
      BY <3>1, <3>2
  <2>2. PICK faults \in Nat : un' = [un EXCEPT !.sessions[c] = C(old.open, "close"), !.sockets = un.sockets,
                                              !.faults = faults]
    <3>1. [old EXCEPT !.reader = "close"] = C(old.open, "close")
      BY <1>8
    <3>2. CASE un' = [un EXCEPT !.sessions[c] = [old EXCEPT !.reader = "close"], !.faults = un.faults + 1]
      <4>1. un' = [un EXCEPT !.sessions[c] = C(old.open, "close"), !.sockets = un.sockets, !.faults = un.faults + 1]
        BY <1>7, <3>1, <3>2
      <4>2. QED
        BY <1>6, <4>1
    <3>3. CASE un' = [un EXCEPT !.sessions[c] = [old EXCEPT !.reader = "close"]]
      <4>1. un' = [un EXCEPT !.sessions[c] = C(old.open, "close"), !.sockets = un.sockets, !.faults = un.faults]
        BY <1>7, <3>1, <3>3
      <4>2. QED
        BY <1>6, <4>1
    <3>4. QED
      BY <2>1, <3>2, <3>3
  <2>3. Live(c) /\ un.sessions[c].reader = "read"
    BY <1>9 DEF ReadFails, Reads, Live
  <2> DEFINE conn == C(old.open, "close")
  <2>4. conn \in Conn /\ conn.open = old.open /\ conn.reader = "close" /\ conn.key = old.key /\ conn.first = old.first
    BY <1>2, <1>3 DEF Readers
  <2> HIDE DEF conn
  <2>5. /\ TypeOK'
        /\ un'.entry = un.entry /\ un'.replies = un.replies /\ un'.doubled = un.doubled
        /\ un'.pkt = un.pkt /\ un'.sessions = [un.sessions EXCEPT ![c] = conn] /\ un'.sockets = un.sockets
    BY <1>5, <2>2, <2>4 DEF conn
  <2>6. Linked'
    BY <2>3, <2>4, <2>5, SessionChanges DEF old
  <2>7. QED
    BY <2>5, <2>6 DEF IInv
<1>10. CASE CloseSession(c)
  <2>1. un' = [un EXCEPT !.sessions[c] = C(FALSE, "locals")]
    BY <1>10 DEF CloseSession, C, old
  <2>2. Live(c) /\ un.sessions[c].reader = "close"
    BY <1>10 DEF CloseSession, Live
  <2> DEFINE conn == C(FALSE, "locals")
  <2>3. conn \in Conn /\ conn.open = FALSE /\ conn.reader = "locals" /\ conn.key = old.key /\ conn.first = old.first
    BY <1>2 DEF Readers
  <2> HIDE DEF conn
  <2>4. un' = [un EXCEPT !.sessions[c] = conn, !.sockets = un.sockets, !.faults = un.faults]
    BY <1>7, <2>1 DEF conn
  <2>5. /\ TypeOK'
        /\ un'.entry = un.entry /\ un'.replies = un.replies /\ un'.doubled = un.doubled
        /\ un'.pkt = un.pkt /\ un'.sessions = [un.sessions EXCEPT ![c] = conn] /\ un'.sockets = un.sockets
    BY <1>5, <1>6, <2>3, <2>4
  <2>6. Linked'
    BY <2>2, <2>3, <2>5, SessionChanges DEF old
  <2>7. QED
    BY <2>5, <2>6 DEF IInv
<1>11. CASE UserCloses(c)
  <2>1. un' = [[un EXCEPT !.faults = un.faults + 1] EXCEPT !.sessions[c] = [old EXCEPT !.open = FALSE]]
    BY <1>1, <1>11 DEF UserCloses, Fault, old, State
  <2> DEFINE conn == C(FALSE, old.reader)
  <2>2. conn \in Conn /\ conn.open = FALSE /\ conn.reader = old.reader /\ conn.key = old.key /\ conn.first = old.first
    BY <1>2, <1>3
  <2>3. un' = [[un EXCEPT !.faults = un.faults + 1] EXCEPT !.sessions[c] = conn]
    BY <1>8, <2>1
  <2> HIDE DEF conn
  <2>4. un' = [un EXCEPT !.sessions[c] = conn, !.sockets = un.sockets, !.faults = un.faults + 1]
    BY <1>1, <2>3 DEF State
  <2>5. /\ TypeOK'
        /\ un'.entry = un.entry /\ un'.replies = un.replies /\ un'.doubled = un.doubled
        /\ un'.pkt = un.pkt /\ un'.sessions = [un.sessions EXCEPT ![c] = conn] /\ un'.sockets = un.sockets
    BY <1>5, <1>6, <2>2, <2>4
  <2>6. Linked'
    <3>1. un'.sockets \subseteq un.sockets
      BY <2>5
    <3>2. un.doubled \/ conn.reader # "delete" \/ un.sessions[c].reader = "delete"
      BY <2>2 DEF old
    <3>3. QED
      BY <2>2, <2>5, <3>1, <3>2, SessionChanges DEF old
  <2>7. QED
    BY <2>5, <2>6 DEF IInv
<1>12. CASE CloseLocals(c)
  <2> DEFINE left == {x \in un.sockets : ~(x.key = old.key /\ x.entry = un.entry[old.key])}
             conn == C(old.open, "delete")
  <2>1. un' = [un EXCEPT !.sessions[c] = conn, !.sockets = left]
    BY <1>8, <1>12 DEF CloseLocals, old
  <2>2. Live(c) /\ un.sessions[c].reader = "locals" /\ ~old.open
    <3>1. Live(c) /\ un.sessions[c].reader = "locals"
      BY <1>12 DEF CloseLocals, Live
    <3>2. QED
      BY <3>1 DEF IInv, Linked, EveryOpenIsRead, MakerHasSession, Sessions, old
  <2>3. conn \in Conn /\ conn.open = old.open /\ conn.reader = "delete" /\ conn.key = old.key /\ conn.first = old.first
    BY <1>2, <1>3 DEF Readers
  <2>4. \A x \in un.sockets : un.doubled \/ un.entry[x.key] = x.entry
    BY DEF IInv, Linked, LocalSocketsClosed
  <2>5. left \in SUBSET un.sockets /\ (un.doubled \/ \A x \in left : x.key # old.key)
    BY <2>4
  <2> HIDE DEF conn, left
  <2>6. un' = [un EXCEPT !.sessions[c] = conn, !.sockets = left, !.faults = un.faults]
    BY <1>7, <2>1
  <2>7. /\ TypeOK'
        /\ un'.entry = un.entry /\ un'.replies = un.replies /\ un'.doubled = un.doubled
        /\ un'.pkt = un.pkt /\ un'.sessions = [un.sessions EXCEPT ![c] = conn] /\ un'.sockets = left
    BY <1>5, <1>6, <2>3, <2>5, <2>6
  <2>8. Linked'
    BY <2>2, <2>3, <2>5, <2>7, SessionChanges DEF old
  <2>9. QED
    BY <2>7, <2>8 DEF IInv
<1>13. QED
  BY <1>9, <1>10, <1>11, <1>12

\* The reader deletes the entry after it has closed the sockets in it.
LEMMA DeleteKeepsInv ==
  ASSUME IInv, NEW c \in Sessions, DeleteEntry(c)
  PROVE  IInv'
<1> DEFINE k == un.sessions[c].key
           conn == [un.sessions[c] EXCEPT !.reader = "done"]
<1>1. un \in State /\ un.sessions \in Seq(Conn) /\ un.sessions[c] \in Conn
  BY DEF IInv, TypeOK, State, Sessions
<1>2. conn \in Conn /\ conn.reader = "done" /\ conn.key = k /\ conn.first = un.sessions[c].first
      /\ conn.open = un.sessions[c].open /\ k \in Keys
  BY <1>1 DEF Conn, Readers
<1>3. un' = [un EXCEPT !.sessions = [un.sessions EXCEPT ![c] = conn], !.entry = [un.entry EXCEPT ![k] = 0],
                       !.locals = [un.locals EXCEPT ![k] = {}]]
  BY DEF DeleteEntry
<1>0. un.sessions[c].reader = "delete"
  BY DEF DeleteEntry
<1> HIDE DEF conn, k
<1>4. TypeOK'
  <2>1. [un.sessions EXCEPT ![c] = conn] \in Seq(Conn)
    BY <1>1, <1>2 DEF Sessions
  <2>2. /\ [un.entry EXCEPT ![k] = 0] \in [Keys -> Nat]
        /\ [un.locals EXCEPT ![k] = {}] \in [Keys -> SUBSET Places]
    BY <1>1 DEF State
  <2>3. QED
    BY <1>1, <1>3, <2>1, <2>2 DEF TypeOK, State
<1>5. /\ un'.sockets = un.sockets /\ un'.replies = un.replies /\ un'.doubled = un.doubled /\ un'.pkt = un.pkt
      /\ un'.sessions = [un.sessions EXCEPT ![c] = conn] /\ un'.entry = [un.entry EXCEPT ![k] = 0]
  BY <1>1, <1>3 DEF State
<1>6. /\ Sessions' = Sessions /\ un'.sessions[c] = conn
      /\ \A x \in Sessions : x # c => un'.sessions[x] = un.sessions[x]
  BY <1>1, <1>5 DEF Sessions
<1>7. \A x \in Sessions : un'.sessions[x].key = un.sessions[x].key /\ un'.sessions[x].first = un.sessions[x].first
  BY <1>2, <1>6 DEF k
<1>8. \A q \in Packets : /\ Making(q)' <=> Making(q)
                         /\ Pkt(q)' = Pkt(q)
                         /\ At(q, "start")' <=> At(q, "start")
  BY <1>5 DEF Making, Pkt, At
<1>9. un'.entry[k] = 0 /\ \A j \in Keys : j # k => un'.entry[j] = un.entry[j]
  BY <1>1, <1>2, <1>5 DEF State
<1>10. \A x \in Sessions : un.sessions[x] \in Conn /\ un.sessions[x].key \in Keys /\ x # 0
  <2>1. \A x \in Sessions : un.sessions[x] \in Conn /\ x # 0
    BY <1>1 DEF Sessions
  <2>2. \A x \in Conn : x.key \in Keys
    BY DEF Conn
  <2>3. QED
    BY <2>1, <2>2
<1>11. \A j \in Keys : un'.entry[j] # 0 => /\ j # k /\ un'.entry[j] = un.entry[j]
                                           /\ un.entry[j] \in Sessions /\ un.entry[j] # c
                                           /\ un.sessions[un.entry[j]].key = j
  BY <1>9 DEF IInv, Linked, EntryIsKeyed, k
<1>12. EntryIsKeyed'
  BY <1>6, <1>7, <1>11 DEF EntryIsKeyed
<1>13. \A q \in Packets : Making(q) => Pkt(q).session # c
  BY <1>0 DEF IInv, Linked, MakerHasSession
<1>14. MakerHasSession' /\ MakersDiffer'
  BY <1>6, <1>8, <1>13 DEF IInv, Linked, MakerHasSession, MakersDiffer, Making, Pkt
<1>15. ReplyIsOfSession' /\ ReplyFromAsked'
  BY <1>5, <1>6, <1>7 DEF IInv, Linked, ReplyIsOfSession, ReplyFromAsked
<1>16. un.doubled \/ un.entry[k] = c
  BY <1>0 DEF IInv, Linked, LiveIsInTable, Live, k
<1>17. LiveIsInTable'
  <2>1. SUFFICES ASSUME ~un.doubled, NEW x \in Sessions, Live(x)'
                 PROVE  un'.entry[un.sessions[x].key] = x
    BY <1>5, <1>6, <1>7 DEF LiveIsInTable
  <2>2. x # c /\ Live(x)
    BY <1>2, <1>6, <2>1 DEF Live
  <2>3. un.entry[un.sessions[x].key] = x
    BY <2>1, <2>2 DEF IInv, Linked, LiveIsInTable
  <2>4. QED
    BY <1>9, <1>10, <1>16, <2>1, <2>2, <2>3
<1>18. StartedIsInTable'
  <2>1. SUFFICES ASSUME ~un.doubled, NEW q \in Packets, At(q, "start")
                 PROVE  un'.entry[Pkt(q).key] = Pkt(q).session
    BY <1>5, <1>8 DEF StartedIsInTable, At, Pkt
  <2>2. Pkt(q).session # c /\ un.entry[Pkt(q).key] = Pkt(q).session
    BY <1>13, <2>1 DEF IInv, Linked, StartedIsInTable, Making, At
  <2>3. Pkt(q).key \in Keys
    BY <1>1 DEF State, PacketState, Pkt
  <2>4. QED
    BY <1>9, <1>16, <2>1, <2>2, <2>3
<1>19. SocketHasEntry'
  BY <1>5 DEF IInv, Linked, SocketHasEntry
<1>20. NoneLeftAtDelete'
  BY <1>2, <1>5, <1>6 DEF IInv, Linked, NoneLeftAtDelete
<1>21. LocalSocketsClosed'
  <2>1. SUFFICES ASSUME ~un.doubled, NEW x \in un.sockets
                 PROVE  un'.entry[x.key] = x.entry
    BY <1>5 DEF LocalSocketsClosed
  <2>2. un.entry[x.key] = x.entry /\ x.key # k
    BY <1>0, <2>1 DEF IInv, Linked, LocalSocketsClosed, NoneLeftAtDelete, k
  <2>3. x.key \in Keys
    BY <1>1 DEF State
  <2>4. QED
    BY <1>9, <2>2, <2>3
<1>22. NoDeadEntry'
  <2>1. SUFFICES ASSUME NEW j \in Keys, un'.entry[j] # 0
                 PROVE  \/ un'.sessions[un'.entry[j]].reader # "done" /\ un'.sessions[un'.entry[j]].reader # "unborn"
                        \/ \E q \in Packets : Making(q)' /\ Pkt(q)'.session = un'.entry[j]
    BY DEF NoDeadEntry
  <2>2. un'.sessions[un'.entry[j]] = un.sessions[un.entry[j]] /\ un'.entry[j] = un.entry[j]
    BY <1>6, <1>11, <2>1
  <2>3. CASE \E q \in Packets : Making(q) /\ Pkt(q).session = un.entry[j]
    BY <1>8, <2>2, <2>3 DEF Making, Pkt
  <2>4. QED
    BY <2>1, <2>2, <2>3 DEF IInv, Linked, NoDeadEntry
<1>23. EveryOpenIsRead'
  <2>1. SUFFICES ASSUME NEW x \in Sessions, un'.sessions[x].open
                 PROVE  \/ un'.sessions[x].reader \in {"read", "close"}
                        \/ \E q \in Packets : Making(q)' /\ Pkt(q)'.session = x
    BY <1>6 DEF EveryOpenIsRead, Sessions
  <2>2. un.sessions[x].open
    BY <1>2, <1>6, <2>1
  <2>3. x # c
    BY <1>0, <1>13, <2>2 DEF IInv, Linked, EveryOpenIsRead, Sessions
  <2>4. CASE \E q \in Packets : Making(q) /\ Pkt(q).session = x
    BY <1>8, <2>4 DEF Making, Pkt
  <2>5. QED
    BY <1>6, <2>2, <2>3, <2>4 DEF IInv, Linked, EveryOpenIsRead, Sessions
<1>24. QED
  BY <1>4, <1>12, <1>14, <1>15, <1>17, <1>18, <1>19, <1>20, <1>21, <1>22, <1>23 DEF IInv, Linked

\* A reply may open a socket, which the entry of its session keeps.
LEMMA ReplyKeepsInv ==
  ASSUME IInv, NEW c \in Sessions, NEW d \in Dests, Reply(c, d.real)
  PROVE  IInv'
<1> DEFINE k == un.sessions[c].key
           e == un.entry[k]
           seen == SeenFrom(c, d.real)
           reply == [session |-> c, from |-> d.real, seen |-> seen]
           socket == [key |-> k, from |-> seen, entry |-> e]
<1>1. un \in State /\ un.sessions \in Seq(Conn) /\ un.sessions[c] \in Conn
  BY DEF IInv, TypeOK, State, Sessions
<1>2. k \in Keys /\ un.sessions[c].first \in Dests /\ d.real \in Places
  BY <1>1 DEF Conn, Places
<1>3. seen \in Places
  BY <1>2 DEF SeenFrom, Places
<1>4. e \in Nat /\ c \in Nat
  BY <1>1, <1>2 DEF State, Sessions
<1>5. un.sessions[c].reader = "read"
  BY DEF Reply, Reads
<1>6. PICK locals \in [Keys -> SUBSET Places], sockets \in SUBSET (un.sockets \cup {socket}) :
        /\ un' = [un EXCEPT !.replies = Append(un.replies, reply), !.locals = locals, !.sockets = sockets]
        /\ e = 0 => sockets \subseteq un.sockets
  <2>1. CASE e = 0 \/ seen \in un.locals[k]
    <3>1. un' = [un EXCEPT !.replies = Append(un.replies, reply)]
      BY <2>1 DEF Reply
    <3>2. un' = [un EXCEPT !.replies = Append(un.replies, reply), !.locals = un.locals, !.sockets = un.sockets]
      BY <1>1, <3>1 DEF State
    <3>3. un.locals \in [Keys -> SUBSET Places]
      BY <1>1 DEF State
    <3>4. QED
      BY <3>2, <3>3
  <2>2. CASE ~(e = 0 \/ seen \in un.locals[k])
    <3>1. un' = [un EXCEPT !.replies = Append(un.replies, reply),
                           !.locals = [un.locals EXCEPT ![k] = un.locals[k] \cup {seen}],
                           !.sockets = un.sockets \cup {socket}]
      BY <2>2 DEF Reply
    <3>2. [un.locals EXCEPT ![k] = un.locals[k] \cup {seen}] \in [Keys -> SUBSET Places]
      BY <1>1, <1>2, <1>3 DEF State
    <3>3. QED
      BY <2>2, <3>1, <3>2
  <2>3. QED
    BY <2>1, <2>2
<1>7. socket \in [key : Keys, from : Places, entry : Nat] /\ socket.key = k /\ socket.entry = e
  BY <1>2, <1>3, <1>4
<1>8. reply \in [session : Nat, from : Places, seen : Places]
      /\ reply.session = c /\ reply.from = d.real /\ reply.seen = seen
  BY <1>2, <1>3, <1>4
<1> HIDE DEF reply, socket, seen
<1>9. TypeOK'
  <2>1. sockets \in SUBSET [key : Keys, from : Places, entry : Nat]
    BY <1>1, <1>6, <1>7 DEF State
  <2>2. un.replies \in Seq([session : Nat, from : Places, seen : Places])
    BY <1>1 DEF State
  <2>3. Append(un.replies, reply) \in Seq([session : Nat, from : Places, seen : Places])
    BY <1>8, <2>2
  <2>4. QED
    BY <1>1, <1>6, <2>1, <2>3 DEF TypeOK, State
<1>10. /\ un'.entry = un.entry /\ un'.sessions = un.sessions /\ un'.doubled = un.doubled /\ un'.pkt = un.pkt
       /\ un'.replies = Append(un.replies, reply) /\ un'.sockets = sockets
  BY <1>1, <1>6 DEF State
<1>11. un.replies \in Seq([session : Nat, from : Places, seen : Places])
  BY <1>1 DEF State
<1>12. \A i \in DOMAIN un'.replies : \/ un'.replies[i] = reply
                                     \/ i \in DOMAIN un.replies /\ un'.replies[i] = un.replies[i]
  BY <1>8, <1>10, <1>11
<1>21. un'.entry = un.entry /\ un'.sessions = un.sessions /\ un'.doubled = un.doubled /\ un'.pkt = un.pkt
  BY <1>10
<1>22. EntryIsKeyed' /\ LiveIsInTable'
  BY <1>21 DEF IInv, Linked, EntryIsKeyed, LiveIsInTable, Live, Sessions
<1>23. MakerHasSession' /\ MakersDiffer' /\ StartedIsInTable'
  BY <1>21 DEF IInv, Linked, MakerHasSession, MakersDiffer, StartedIsInTable, Sessions, Making, Pkt, At
<1>24. NoDeadEntry' /\ EveryOpenIsRead'
  BY <1>21 DEF IInv, Linked, NoDeadEntry, EveryOpenIsRead, Making, Pkt
<1>14. ReplyIsOfSession'
  BY <1>8, <1>10, <1>12 DEF IInv, Linked, ReplyIsOfSession, Sessions
<1>15. ReplyFromAsked'
  <2>1. reply.from = un.sessions[c].first.real => reply.seen = un.sessions[c].first.asked
    BY <1>8 DEF seen, SeenFrom, Fake
  <2>2. QED
    BY <1>8, <1>10, <1>12, <2>1 DEF IInv, Linked, ReplyFromAsked
<1>16. un.doubled \/ e = c
  BY <1>5 DEF IInv, Linked, LiveIsInTable, Live
<1>17. \A x \in sockets : x \in un.sockets \/ (x = socket /\ e # 0)
  BY <1>6
<1>18. SocketHasEntry' /\ LocalSocketsClosed'
  BY <1>7, <1>10, <1>17 DEF IInv, Linked, SocketHasEntry, LocalSocketsClosed
<1>19. NoneLeftAtDelete'
  <2>1. SUFFICES ASSUME ~un.doubled, NEW x \in Sessions, un.sessions[x].reader = "delete", NEW y \in sockets
                 PROVE  y.key # un.sessions[x].key
    BY <1>10 DEF NoneLeftAtDelete, Sessions
  <2>2. CASE y \in un.sockets
    BY <2>1, <2>2 DEF IInv, Linked, NoneLeftAtDelete
  <2>3. CASE y = socket
    <3>1. un.entry[un.sessions[x].key] = x
      BY <2>1 DEF IInv, Linked, LiveIsInTable, Live
    <3>2. QED
      BY <1>5, <1>7, <1>16, <2>1, <2>3, <3>1
  <2>4. QED
    BY <1>17, <2>2, <2>3
<1>20. QED
  BY <1>9, <1>22, <1>23, <1>24, <1>14, <1>15, <1>18, <1>19 DEF IInv, Linked

\* Every step keeps the invariant.
LEMMA Inductive ==
  ASSUME IInv, [Next]_un
  PROVE  IInv'
<1>1. ASSUME NEW p \in Packets, PacketSteps(p) \/ Refused(p) \/ ListenFails(p)
      PROVE  IInv'
  <2>1. TypeOK'
    BY <1>1, PacketTypes DEF IInv, Linked
  <2>2. CASE Listen(p)
    BY <2>1, <2>2, ListenKeepsLinks DEF IInv
  <2>3. CASE Set(p)
    BY <2>1, <2>3, SetKeepsLinks DEF IInv
  <2>4. CASE Start(p)
    BY <2>1, <2>4, StartKeepsLinks DEF IInv
  <2>5. CASE ~(Listen(p) \/ Set(p) \/ Start(p))
    BY <1>1, <2>1, <2>5, PacketKeepsLinks DEF PacketSteps, IInv
  <2>6. QED
    BY <2>2, <2>3, <2>4, <2>5
<1>2. ASSUME NEW c \in Sessions, ReaderEnds(c) \/ ReadFails(c) \/ UserCloses(c)
      PROVE  IInv'
  BY <1>2, ReaderSteps, DeleteKeepsInv DEF ReaderEnds
<1>3. ASSUME NEW c \in Sessions, NEW d \in Dests, Reply(c, d.real)
      PROVE  IInv'
  BY <1>3, ReplyKeepsInv
<1>4. CASE UNCHANGED un
  <2>1. TypeOK'
    BY <1>4 DEF IInv, TypeOK
  <2>2. QED
    BY <1>4, <2>1, QuietStep DEF IInv
<1>5. QED
  BY <1>1, <1>2, <1>3, <1>4 DEF Next, Sessions

\* Sessions of UDP are kept as they should be: the table holds no dead entry,
\* every open session is read, replies come from where the client wrote to, and
\* sockets are closed with their session.
THEOREM UdpKept == Spec => []UdpSessionsKept
<1>1. Init => IInv
  <2>1. SUFFICES ASSUME NEW key \in [Packets -> Keys], NEW dest \in [Packets -> Dests], Init,
                        un.entry = [k \in Keys |-> 0], un.sessions = << >>, un.sockets = {}, un.replies = << >>,
                        un.pkt = [p \in Packets |-> [pc |-> "queued", key |-> key[p], dest |-> dest[p],
                                      cond |-> Nil, session |-> 0, late |-> FALSE, sent |-> 0]], TypeOK
                 PROVE  Linked
    <3>1. Init => TypeOK
      BY DEF Init, TypeOK, State, PacketState, Pcs
    <3>2. ASSUME NEW key \in [Packets -> Keys], NEW dest \in [Packets -> Dests],
                 un = [entry |-> [k \in Keys |-> 0], locals |-> [k \in Keys |-> {}],
                       lock |-> [k \in Keys |-> Nil], held |-> {}, broadcast |-> {}, sessions |-> << >>,
                       sockets |-> {}, replies |-> << >>, doubled |-> FALSE, faults |-> 0,
                       pkt |-> [p \in Packets |-> [pc |-> "queued", key |-> key[p], dest |-> dest[p],
                                      cond |-> Nil, session |-> 0, late |-> FALSE, sent |-> 0]]]
          PROVE  /\ un.entry = [k \in Keys |-> 0] /\ un.sessions = << >> /\ un.sockets = {} /\ un.replies = << >>
                 /\ un.pkt = [p \in Packets |-> [pc |-> "queued", key |-> key[p], dest |-> dest[p],
                                      cond |-> Nil, session |-> 0, late |-> FALSE, sent |-> 0]]
      BY <3>2
    <3>3. QED
      BY <3>1, <3>2 DEF Init, IInv
  <2>2. \A p \in Packets : un.pkt[p].pc = "queued"
    BY <2>1
  <2>3. \A p \in Packets : ~Making(p) /\ ~At(p, "start")
    BY <2>2 DEF Making, At, Pkt
  <2>4. Sessions = {} /\ DOMAIN un.replies = {}
    BY <2>1 DEF Sessions
  <2>5. EntryIsKeyed /\ NoDeadEntry
    BY <2>1 DEF EntryIsKeyed, NoDeadEntry
  <2>6. MakerHasSession /\ MakersDiffer /\ StartedIsInTable
    BY <2>3 DEF MakerHasSession, MakersDiffer, StartedIsInTable
  <2>7. ReplyIsOfSession /\ ReplyFromAsked /\ LiveIsInTable /\ NoneLeftAtDelete /\ EveryOpenIsRead
    BY <2>4 DEF ReplyIsOfSession, ReplyFromAsked, LiveIsInTable, NoneLeftAtDelete, EveryOpenIsRead, Sessions
  <2>8. SocketHasEntry /\ LocalSocketsClosed
    BY <2>1 DEF SocketHasEntry, LocalSocketsClosed
  <2>9. QED
    BY <2>5, <2>6, <2>7, <2>8 DEF Linked
<1>2. IInv /\ [Next]_un => IInv'
  BY Inductive
<1>3. IInv => UdpSessionsKept
  BY DEF IInv, Linked, UdpSessionsKept
<1>4. QED
  BY <1>1, <1>2, <1>3, PTL DEF Spec
=============================================================================
