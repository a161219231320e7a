------------------------------- MODULE Dialer -------------------------------
(***************************************************************************)
(* How the program dials: the race between the addresses of a host and     *)
(* between the two families, the connection of TCP fast open that is made  *)
(* with the first write, and the binding to an interface.                  *)
(***************************************************************************)
EXTENDS Integers, Sequences, FiniteSets

LOCAL INSTANCE SequencesExt

CONSTANTS
  MaxAddrs,     \* addresses of a host in a family
  MaxUses,      \* writes, and reads, of a connection with fast open
  MaxCloses,
  IfaceAddrs,   \* what an interface may have: [family, net], net = 0 if link-local
  MaxAddrsOfIface,
  Nil

-----------------------------------------------------------------------------
(* The race *)

VARIABLE di

Families == {4, 6}
Addrs == Families \X (1 .. MaxAddrs)

\* WithOnlySingleStack replaces the family that the network asks for; 0 is both.
Network(asked, only) == IF only = 0 THEN asked ELSE only

\* A race in two parts, or one
TwoStacks(network, concurrent, prefer) == network = 0 /\ ~(concurrent /\ prefer = 0)

\* The addresses of the host, as the resolver gives them for the network; none
\* if it gives none without an error.
DialInit ==
  \E asked \in {0, 4, 6}, only \in {0, 4, 6}, prefer \in {0, 4, 6}, concurrent \in BOOLEAN,
     n \in [Families -> 0 .. MaxAddrs] :
    LET network == Network(asked, only)
        ips == {a \in Addrs : a[2] <= n[a[1]] /\ network \in {0, a[1]}}
        two == TwoStacks(network, concurrent, prefer)
    IN di = [concurrent |-> concurrent,      \* as SetTcpConcurrent left it
             prefer |-> prefer, two |-> two,
             addr |-> [a \in ips |-> "new"],
             part |-> [f \in IF two THEN Families ELSE {0} |-> [pc |-> "run", conn |-> Nil]],
             fallback |-> Nil, pc |-> "run", conn |-> Nil]

Part(a) == IF di.two THEN a[1] ELSE 0
PartAddrs(f) == {a \in DOMAIN di.addr : Part(a) = f}
Running(f) == di.part[f].pc = "run"
IsPrimary(f) == di.prefer \in {0, f}

\* An address is dialled: with the others of its part, or after those before it
\* failed.
Dialled(a) ==
  /\ di.addr[a] = "new"
  /\ di.concurrent \/ (Running(Part(a)) /\ \A b \in PartAddrs(Part(a)) : b[2] < a[2] => di.addr[b] = "failed")

PartReturns(s, f, c) == [s EXCEPT !.part[f] = [pc |-> "returned", conn |-> c]]

\* dialContext: with fast open, only the binding to an interface can fail yet.
DialFails(a) ==
  /\ Dialled(a)
  /\ di' = [di EXCEPT !.addr[a] = "failed"]

Connects(a) ==
  /\ Dialled(a)
  /\ di' = IF di.concurrent THEN [di EXCEPT !.addr[a] = "offered"]
           ELSE PartReturns([di EXCEPT !.addr[a] = "open"], Part(a), a)

\* The end of a racer of parallelDialContext: its result is received, or the
\* race has returned.
Hand(a) ==
  /\ di.addr[a] = "offered"
  /\ di' = IF Running(Part(a)) THEN PartReturns([di EXCEPT !.addr[a] = "open"], Part(a), a)
           ELSE [di EXCEPT !.addr[a] = "closed"]

AllFail(f) ==
  /\ Running(f) /\ \A a \in PartAddrs(f) : di.addr[a] = "failed"
  /\ di' = PartReturns(di, f, Nil)

Return(s, c) == [s EXCEPT !.pc = "done", !.conn = c]

\* The race in one part returns what the part returns.
ReturnPart ==
  /\ ~di.two /\ di.pc = "run" /\ di.part[0].pc = "returned"
  /\ di' = Return([di EXCEPT !.part[0].pc = "received"], di.part[0].conn)

\* dualStackDialContext receives the result of a family.
Receive(f) ==
  LET c == di.part[f].conn
      s == [di EXCEPT !.part[f].pc = "received", !.fallback = IF c # Nil /\ ~IsPrimary(f) THEN c ELSE @]
      last == \A g \in Families : s.part[g].pc = "received"
  IN /\ di.two /\ di.pc = "run" /\ di.part[f].pc = "returned"
     /\ di' = IF c # Nil /\ IsPrimary(f) THEN Return(s, c)
              ELSE IF last THEN Return(s, s.fallback)
              ELSE s

\* fallbackTicker
Tick ==
  /\ di.pc = "run" /\ di.fallback # Nil
  /\ di' = Return(di, di.fallback)

\* The end of a racer of dualStackDialContext that nobody receives from
Drop(f) ==
  /\ di.two /\ di.pc = "done" /\ di.part[f].pc = "returned"
  /\ di' = [di EXCEPT !.part[f].pc = "received",
                      !.addr = IF di.part[f].conn = Nil THEN @ ELSE [@ EXCEPT ![di.part[f].conn] = "closed"]]

DialNext ==
  \/ \E a \in DOMAIN di.addr : DialFails(a) \/ Connects(a) \/ Hand(a)
  \/ \E f \in DOMAIN di.part : AllFail(f) \/ Receive(f) \/ Drop(f)
  \/ ReturnPart \/ Tick

\* When all have ended, the only connection open is the result, beside that of
\* the other family which was kept while the preferred one was waited for.
OnlyResultIsOpen ==
  (/\ di.pc = "done"
   /\ \A f \in DOMAIN di.part : di.part[f].pc = "received"
   /\ \A a \in DOMAIN di.addr : ~Dialled(a) /\ di.addr[a] # "offered")
  => {a \in DOMAIN di.addr : di.addr[a] = "open"} = {di.conn, di.fallback} \ {Nil}

\* There is an error only if every address failed.
ErrorIfAllFail == di.pc = "done" /\ di.conn = Nil => \A a \in DOMAIN di.addr : di.addr[a] = "failed"

-----------------------------------------------------------------------------
(* TCP fast open: tfoConn, used by a goroutine that writes and one that      *)
(* reads, and closed by any.                                                 *)

VARIABLE tf

TfoInit ==
  tf = [alive |-> TRUE,          \* ctx
        closed |-> FALSE,
        conn |-> 0,              \* Conn: 0 is nil
        half |-> FALSE,          \* it is being assigned: a type without a value may be seen
        dialed |-> 0,            \* tokens in the channel
        open |-> << >>,          \* the connections made
        writer |-> "idle", writes |-> 0, reader |-> "idle", reads |-> 0,
        closer |-> "idle", closes |-> 0,
        missed |-> FALSE]        \* the last Close met a connection that was made and not yet assigned

TfoWrite ==
  /\ tf.writer = "idle" /\ tf.writes < MaxUses
  /\ tf' = [tf EXCEPT !.writes = @ + 1, !.writer = IF ~tf.closed /\ tf.conn = 0 THEN "dial" ELSE "idle"]

\* tfoConn.Dial; the context is that of the dial, with its timeout.
TfoDial ==
  /\ tf.writer = "dial"
  /\ \/ /\ tf.alive
        /\ tf' = [tf EXCEPT !.open = Append(@, TRUE), !.writer = "assign"]
     \/ tf' = [tf EXCEPT !.writer = "idle"]

Assign ==
  \/ /\ tf.writer = "assign"
     /\ tf' = [tf EXCEPT !.half = TRUE, !.writer = "assigned"]
  \/ /\ tf.writer = "assigned"
     /\ tf' = [tf EXCEPT !.half = FALSE, !.conn = Len(tf.open), !.writer = "tell"]

Tell ==
  /\ tf.writer = "tell" /\ tf.dialed = 0
  /\ tf' = [tf EXCEPT !.dialed = 1, !.writer = "idle"]

\* A connection that is seen half gives an error.
TfoRead ==
  /\ tf.reader = "idle" /\ tf.reads < MaxUses
  /\ tf' = [tf EXCEPT !.reads = @ + 1,
                      !.reader = IF ~tf.closed /\ tf.conn = 0 /\ ~tf.half THEN "wait" ELSE "idle"]

Woken ==
  /\ tf.reader = "wait"
  /\ \/ /\ ~tf.alive
        /\ tf' = [tf EXCEPT !.reader = "idle"]
     \/ /\ tf.dialed > 0
        /\ tf' = [tf EXCEPT !.dialed = @ - 1, !.reader = "idle"]

\* Close sets the mark and cancels, and then looks for the connection.
TfoClose ==
  \/ /\ tf.closer = "idle" /\ tf.closes < MaxCloses
     /\ tf' = [tf EXCEPT !.closes = @ + 1, !.closed = TRUE, !.alive = FALSE, !.closer = "close"]
  \/ /\ tf.closer = "close"
     /\ tf' = [tf EXCEPT !.closer = "idle", !.missed = tf.writer \in {"assign", "assigned"},
                         !.open = IF tf.conn = 0 THEN @ ELSE [@ EXCEPT ![tf.conn] = FALSE]]

\* The timeout of the dial goes on after it.
Timeout ==
  /\ tf.alive
  /\ tf' = [tf EXCEPT !.alive = FALSE]

TfoNext == TfoWrite \/ TfoDial \/ Assign \/ Tell \/ TfoRead \/ Woken \/ TfoClose \/ Timeout

\* Nothing stays open after Close, unless it missed the connection by that.
TfoIsClosed ==
  tf.closed /\ tf.closer = "idle" /\ tf.writer = "idle" /\ ~tf.missed => \A c \in DOMAIN tf.open : ~tf.open[c]

\* The reader hears of the connection, and its writer is not held up by that.
ReaderHears ==
  /\ tf.reader = "wait" /\ tf.conn # 0 /\ tf.writer # "tell" => tf.dialed > 0 \/ ~tf.alive
  /\ tf.writer = "tell" => tf.dialed = 0

-----------------------------------------------------------------------------
(* Binding to an interface *)

VARIABLE bd

Remotes == {[family |-> f, net |-> n, kind |-> k] : f \in Families, n \in {1, 2}, k \in {"global", "loopback", "other"}}

\* What ResolveInterface tells of the interface: nothing, or its addresses as they
\* were when the interfaces were last listed.
NoIface == <<[family |-> 0, net |-> 0]>>
Interfaces == {NoIface} \cup UNION {[1 .. n -> IfaceAddrs] : n \in 0 .. MaxAddrsOfIface}

\* A socket: to dial a remote, through another dialer that is given or not, or for
\* packets to it.  Linux, macOS and Windows bind sockets by device, the others by
\* their local address; the options of some families may fail.
BindInit ==
  \E use \in {"dial", "via", "packet"}, remote \in Remotes, family \in Families :
    \/ \E addrs \in Interfaces :
         bd = [use |-> use, os |-> "other", remote |-> remote, socket |-> family, addrs |-> addrs, fails |-> {},
               how |-> "new", addr |-> Nil, bound |-> {}]
    \/ \E os \in {"linux", "darwin", "windows"}, addrs \in {NoIface, << >>}, fails \in SUBSET Families :
         bd = [use |-> use, os |-> os, remote |-> remote, socket |-> family, addrs |-> addrs, fails |-> fails,
               how |-> "new", addr |-> Nil, bound |-> {}]

Found == bd.addrs # NoIface

\* pickIPAddr, to be near the destination if there is one
PickIPAddr(addrs, dest, family) ==
  LET step(q, a) ==
        IF q.done \/ a.family # family THEN q
        ELSE LET r == IF q.fallback = Nil /\ a.net # 0 THEN [q EXCEPT !.fallback = a, !.done = dest = Nil] ELSE q
             IN IF dest # Nil /\ dest.family = a.family /\ dest.net = a.net THEN [r EXCEPT !.out = a, !.done = TRUE] ELSE r
      p == FoldLeft(step, [fallback |-> Nil, out |-> Nil, done |-> FALSE], addrs)
  IN IF p.out # Nil THEN p.out ELSE p.fallback

\* lookupLocalAddr: family 0 if the network does not say.
LookupLocalAddr(addrs, family, dest) ==
  IF family # 0 THEN PickIPAddr(addrs, dest, family)
  ELSE IF dest # Nil THEN PickIPAddr(addrs, dest, dest.family)
  ELSE PickIPAddr(addrs, dest, 4)

\* ParseNetwork does nothing where sockets are bound by device.
ParseNetwork(remote) == IF bd.os = "other" /\ remote.family = 6 THEN 6 ELSE 0

Error == [bd EXCEPT !.how = "error"]
By(local) == IF local = Nil THEN Error ELSE [bd EXCEPT !.how = "address", !.addr = local]
Unbound == [bd EXCEPT !.how = "unbound"]
Device(families) == [bd EXCEPT !.how = "device", !.bound = families]

\* bindControl of a socket of a family; on Windows one for packets may do without
\* IPv6.
ByLinuxDevice == IF bd.fails = {} THEN Device(Families) ELSE Error
ByDarwinIndex(family) == IF family \in bd.fails THEN Error ELSE Device({family})
ByWindowsIndex(family) ==
  LET works == Families \ bd.fails
  IN IF family \in works \/ (bd.use = "packet" /\ family = 6 /\ 4 \in works) THEN Device(works) ELSE Error

ByDevice(family) ==
  CASE bd.os = "linux" -> ByLinuxDevice
    [] bd.os = "darwin" -> ByDarwinIndex(family)
    [] bd.os = "windows" -> ByWindowsIndex(family)

\* bindIfaceToDialer, and the control of the socket it dials with.  The network has
\* a family if the dial is in one part.
BindDialer(family) ==
  IF bd.os = "other" /\ bd.remote.kind # "global" THEN Unbound
  ELSE IF bd.os # "linux" /\ ~Found THEN Error
  ELSE IF bd.remote.kind # "global" THEN Unbound
  ELSE IF bd.os # "other" THEN ByDevice(bd.remote.family)
  ELSE By(LookupLocalAddr(bd.addrs, family, bd.remote))

\* Dialer.ListenPacket and ListenPacket with any local address: the socket has
\* either family.
BindListener ==
  IF bd.remote.kind = "loopback" THEN Unbound
  ELSE IF bd.os # "linux" /\ ~Found THEN Error
  ELSE IF bd.os # "other" THEN ByDevice(bd.socket)
  ELSE By(LookupLocalAddr(bd.addrs, ParseNetwork(bd.remote), Nil))

\* Another dialer that is given is left to itself.
BindNext ==
  /\ bd.how = "new"
  /\ \E family \in {0, bd.remote.family} :
       bd' = CASE bd.use = "dial" -> BindDialer(family)
               [] bd.use = "via" -> Unbound
               [] bd.use = "packet" -> BindListener

\* A socket for a remote that only an interface leads to is bound to it: by device,
\* in the family that it is dialled in; or by an address of the remote's family and,
\* for a dial, of its network if the interface has one.  There is none only if an
\* option failed, or the interface is not found or has no address that reaches
\* beyond its link.
BoundRight ==
  LET usable == {i \in DOMAIN bd.addrs : bd.addrs[i].family = bd.remote.family /\ bd.addrs[i].net # 0}
      near == {i \in usable : bd.addrs[i].net = bd.remote.net}
      right == IF bd.use = "dial" /\ near # {} THEN near ELSE usable
  IN bd.remote.kind = "global" /\ bd.how # "new" /\ bd.use # "via" =>
       CASE bd.how = "error" -> bd.fails # {} \/ ~Found \/ (bd.os = "other" /\ usable = {})
         [] bd.how = "device" -> bd.bound # {} /\ (bd.use = "dial" => bd.remote.family \in bd.bound)
         [] bd.how = "address" -> bd.addr \in {bd.addrs[i] : i \in right}
         [] OTHER -> FALSE
=============================================================================
