------------------------------ MODULE DnsHandler ----------------------------
(***************************************************************************)
(* The DNS server and its enhancer: a query passes the hosts file, the     *)
(* fake addresses and the mapping before it gets to the resolver, and      *)
(* FindHostByIP leads from an address back to the host it was given for.   *)
(* The pool survives reloads and, in a file, also crashes.                 *)
(***************************************************************************)
EXTENDS Integers, Sequences, FiniteSets, SequencesExt

CONSTANTS
  FirstIP, LastIP,   \* of the range of the pool; LastIP is the broadcast address
  Size,          \* maxSize of the caches in memory
  Nil,
  Names,        \* names that are asked for
  Hosts,        \* the hosts file: names to [addrs |-> set] or [name |-> name]
  Skipped,      \* names that get no fake address
  Modes,        \* the enhanced modes to consider: "normal", "mapping", "fake"
  MaxQueries    \* bound on queries and other events

-----------------------------------------------------------------------------
(* The pool of fake addresses and the two places it keeps its pairs in: a  *)
(* pair of LRU caches in memory, or a bucket of the cache file.  All       *)
(* operators take a pool (or a cache) and give the changed one.            *)
(*                                                                         *)
(* An LRU cache is its list, front first, of [k, v, live]: an element is   *)
(* live if the map of the cache leads to it.  Clear replaces the map and   *)
(* leaves the list.                                                        *)

-----------------------------------------------------------------------------
(* LruCache *)

LiveAt(c, k) == {i \in DOMAIN c : c[i].k = k /\ c[i].live}
Exist(c, k) == LiveAt(c, k) # {}
Value(c, k) == IF Exist(c, k) THEN c[CHOOSE i \in LiveAt(c, k) : TRUE].v ELSE Nil

\* Get moves what it finds to the back.
Get(c, k) ==
  IF ~Exist(c, k) THEN c
  ELSE LET i == CHOOSE i \in LiveAt(c, k) : TRUE IN Append(RemoveAt(c, i), c[i])

\* deleteElement, of the front: the key leaves the map, whichever element of the
\* list the map had for it.
DeleteFront(c) ==
  LET k == Head(c).k
  IN  [i \in 1..(Len(c) - 1) |-> [c[i + 1] EXCEPT !.live = @ /\ c[i + 1].k # k]]

Set(c, k, v, size) ==
  IF Exist(c, k) THEN LET g == Get(c, k) IN [g EXCEPT ![Len(g)].v = v]
  ELSE LET a == Append(c, [k |-> k, v |-> v, live |-> TRUE])
       IN  IF size > 0 /\ Len(a) > size THEN DeleteFront(a) ELSE a

Delete(c, k) == SelectSeq(c, LAMBDA e : ~(e.k = k /\ e.live))

Clear(c) == [i \in DOMAIN c |-> [c[i] EXCEPT !.live = FALSE]]

\* CloneTo copies the list, and the last element of a key is what the new map has.
Clone(c) == [i \in DOMAIN c |->
  [c[i] EXCEPT !.live = \A j \in (i + 1)..Len(c) : c[j].k # c[i].k]]

-----------------------------------------------------------------------------
(* The stores: [file, ip, host], where ip leads from a host to its address   *)
(* and host from an address to its host.  The file has no order.             *)

Touch(s, c, k) == IF s.file THEN c ELSE Get(c, k)
Bound(s) == IF s.file THEN 0 ELSE Size

GetByHost(s, h) ==
  LET a == Value(s.ip, h)
  IN  IF a = Nil THEN s ELSE [s EXCEPT !.ip = Touch(s, @, h), !.host = Touch(s, @, a)]

GetByIP(s, a) ==
  LET h == Value(s.host, a)
  IN  IF h = Nil THEN s ELSE [s EXCEPT !.host = Touch(s, @, a), !.ip = Touch(s, @, h)]

PutByHost(s, h, a) == [s EXCEPT !.ip = Set(@, h, a, Bound(s))]
PutByIP(s, a, h) == [s EXCEPT !.host = Set(@, a, h, Bound(s))]

DelByIP(s, a) ==
  LET h == Value(s.host, a)
  IN  [s EXCEPT !.ip = IF h = Nil THEN @ ELSE Delete(@, h), !.host = Delete(@, a)]

Flush(s) == IF s.file THEN [s EXCEPT !.ip = << >>, !.host = << >>]
            ELSE [s EXCEPT !.ip = Clear(@), !.host = Clear(@)]

-----------------------------------------------------------------------------
(* The pool: [store, offset, cycle] *)

\* Mutant: an address is only freed for good if it is in use, after the first
\* round.
FreeUnused(p, offset, cycle) == IF cycle THEN p.store ELSE DelByIP(p.store, offset)

\* What held the next address loses it.
Freed(p, offset, cycle) ==
  IF cycle \/ Exist(p.store.host, offset) THEN DelByIP(p.store, offset) ELSE p.store

NextOffset(p) == IF p.offset + 1 < LastIP THEN p.offset + 1 ELSE FirstIP

\* get: the next address of the range, taken from the host that has it
PoolGet(p, h) ==
  LET offset == NextOffset(p)  cycle == p.cycle \/ p.offset + 1 >= LastIP
  IN  [p EXCEPT !.offset = offset, !.cycle = cycle,
                !.store = PutByIP(Freed(p, offset, cycle), offset, h)]

\* Lookup, and the address it returns
LookupAddr(p, h) == IF Exist(p.store.ip, h) THEN Value(p.store.ip, h) ELSE NextOffset(p)

Lookup(p, h) ==
  IF Exist(p.store.ip, h) THEN [p EXCEPT !.store = GetByHost(@, h)]
  ELSE LET q == PoolGet(p, h) IN [q EXCEPT !.store = PutByHost(@, h, q.offset)]

LookBack(p, a) == [p EXCEPT !.store = GetByIP(@, a)]

FlushFakeIP(p) == [p EXCEPT !.store = Flush(@), !.cycle = FALSE, !.offset = FirstIP - 1]

\* New and restoreState; saved is what StoreState left in the file, or Nil.
NewPool(store, saved) ==
  LET p == [store |-> store, offset |-> FirstIP - 1, cycle |-> FALSE]
  IN  IF ~store.file THEN p
      ELSE IF saved # Nil THEN [p EXCEPT !.offset = saved.offset, !.cycle = saved.cycle]
      ELSE IF Exist(store.host, FirstIP) THEN FlushFakeIP(p) ELSE p

-----------------------------------------------------------------------------
(* The handler *)

Types == {"A", "AAAA", "HTTPS", "TXT"}
RealAddr == 100 \* the resolver's address for a name is a real one
Addrs == FirstIP..(LastIP - 1)

VARIABLE dn

Init ==
  \E mode \in Modes, file, ipv6 \in BOOLEAN :
    /\ mode # "fake" => ~file
    /\ dn = [mode |-> mode, ipv6 |-> ipv6, queries |-> 0,
             pool |-> [store |-> [file |-> file, ip |-> << >>, host |-> << >>],
                       offset |-> FirstIP - 1, cycle |-> FALSE],
             saved |-> Nil,          \* offsetKey and cycleKey of the file
             mapping |-> << >>,      \* real addresses to names
             half |-> Nil,           \* a pair of which only one half is stored
             recent |-> << >>,       \* the addresses assigned last
             flushed |-> FALSE,      \* pairs were dropped while the lists stayed
             last |-> Nil]           \* the query answered last

Event(s) == [s EXCEPT !.queries = @ + 1]
Fresh == dn.queries < MaxQueries /\ dn.half = Nil

-----------------------------------------------------------------------------
(* The handlers *)

\* Hosts.Search: follow the names as far as they lead
RECURSIVE Resolved(_)
Resolved(n) ==
  IF n \notin DOMAIN Hosts THEN [name |-> n, addrs |-> {}]
  ELSE IF "name" \in DOMAIN Hosts[n] THEN Resolved(Hosts[n].name)
  ELSE [name |-> n, addrs |-> Hosts[n].addrs]

\* withMapping and withResolver; n is what the resolver is asked for
Real(s, n, t) ==
  IF t = "AAAA" /\ ~s.ipv6 THEN [s EXCEPT !.last = [name |-> n, type |-> t, addrs |-> {}, real |-> FALSE]]
  ELSE [s EXCEPT
         !.last = [name |-> n, type |-> t, addrs |-> IF t \in {"A", "AAAA"} THEN {RealAddr} ELSE {},
                   real |-> TRUE],
         !.mapping = IF s.mode # "normal" /\ t \in {"A", "AAAA"}
                     THEN Set(@, RealAddr, n, 0) ELSE @]

\* withFakeIP takes the query: a fake address, or an empty answer for what could
\* give the real one away.
Faked(s, n, t) == s.mode = "fake" /\ n \notin Skipped /\ t \in {"A", "AAAA", "HTTPS"}

\* as many as the range has
Assigned(recent, a) ==
  LET r == Append(recent, a) IN IF Len(r) > LastIP - FirstIP THEN Tail(r) ELSE r

Fake(s, n, t) ==
  IF t # "A" THEN [s EXCEPT !.last = [name |-> n, type |-> t, addrs |-> {}, real |-> FALSE]]
  ELSE [s EXCEPT !.pool = Lookup(@, n),
                 !.recent = IF Exist(s.pool.store.ip, n) THEN @ ELSE Assigned(@, LookupAddr(s.pool, n)),
                 !.last = [name |-> n, type |-> t, addrs |-> {LookupAddr(s.pool, n)}, real |-> FALSE]]

\* withHosts
Handle(s, n, t) ==
  LET r == Resolved(n)
      Rest(m) == IF Faked(s, m, t) THEN Fake(s, m, t) ELSE Real(s, m, t)
  IN  IF t \notin {"A", "AAAA"} THEN Rest(n)
      ELSE IF r.addrs = {} THEN Rest(r.name)
      ELSE [s EXCEPT !.last = [name |-> n, type |-> t, addrs |-> r.addrs, real |-> FALSE]]

Query(n, t) == Fresh /\ dn' = Event(Handle(dn, n, t))

\* FindHostByIP, as a connection to the address calls it
FindHostByIP(a) ==
  /\ Fresh /\ dn.mode # "normal"
  /\ dn' = Event([dn EXCEPT !.pool = LookBack(@, a)])

-----------------------------------------------------------------------------
(* What else happens to the pool *)

\* DELETE of the fake addresses by the REST API
FlushAll ==
  /\ Fresh /\ dn.mode = "fake"
  /\ dn' = Event([dn EXCEPT !.pool = FlushFakeIP(@), !.recent = << >>,
                            !.flushed = ~dn.pool.store.file, !.saved = IF dn.pool.store.file THEN Nil ELSE @])

\* A reload makes a new pool and takes over what was in memory (PatchFrom).
Reload ==
  LET s == dn.pool.store
      kept == IF s.file THEN s ELSE [s EXCEPT !.ip = Clone(@), !.host = Clone(@)]
  IN  /\ Fresh /\ dn.mode = "fake"
      /\ dn' = Event([dn EXCEPT !.pool = NewPool(kept, dn.saved), !.recent = << >>])

\* A shutdown stores the state; the next start reads it.
Restart ==
  LET p == dn.pool
      saved == IF p.store.file THEN [offset |-> p.offset, cycle |-> p.cycle] ELSE Nil
  IN  /\ Fresh /\ dn.mode = "fake"
      /\ dn' = Event([dn EXCEPT
           !.saved = saved, !.recent = << >>, !.mapping = << >>, !.flushed = FALSE,
           !.pool = NewPool(IF p.store.file THEN p.store ELSE [p.store EXCEPT !.ip = << >>, !.host = << >>],
                            saved)])

\* Each half of a pair is a transaction of the file: a crash may come between.
HalfLookup(n) ==
  /\ Fresh /\ dn.mode = "fake" /\ dn.pool.store.file /\ ~Exist(dn.pool.store.ip, n)
  /\ dn' = Event([dn EXCEPT !.pool = PoolGet(@, n), !.half = n])

Crash ==
  /\ dn.half # Nil
  /\ dn' = [dn EXCEPT !.half = Nil, !.recent = << >>, !.mapping = << >>,
                      !.pool = NewPool(dn.pool.store, dn.saved)]

Next ==
  \/ \E n \in Names, t \in Types : Query(n, t)
  \/ \E a \in Addrs : FindHostByIP(a)
  \/ FlushAll \/ Reload \/ Restart \/ (\E n \in Names : HalfLookup(n)) \/ Crash

-----------------------------------------------------------------------------

Pool == dn.pool.store

\* Two hosts never share a fake address, and whoever connects to a host's
\* address is led back to that host: in memory, with every eviction, and in the
\* file, with every crash; but not after the caches in memory were flushed.
PairsAgree ==
  ~dn.flushed =>
    \A h \in Names : Exist(Pool.ip, h) => Value(Pool.host, Value(Pool.ip, h)) = h

\* An address that is taken from a host is the one assigned the longest time
\* ago: it comes again only after the whole range, and no address outside the
\* range ever comes.
ReuseIsLate ==
  \A i, j \in DOMAIN dn.recent :
    dn.recent[i] \in Addrs /\ (dn.recent[i] = dn.recent[j] => i = j)

\* With fake addresses, no answer gives the real address of a name away that is
\* to have a fake one, nor a record that holds it.
NoRealAddress ==
  dn.mode = "fake" /\ dn.last # Nil /\ dn.last.real => dn.last.name \in Skipped \/ dn.last.type = "TXT"
=============================================================================
