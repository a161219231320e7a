----------------------------- MODULE ServicesProofs -------------------------
(***************************************************************************)
(* Properties of the services among the components of MCParts, for all     *)
(* values of their parameters: the resolver, the servers learnt by DHCP,   *)
(* the listeners, updates, selections, configurations, what is counted,    *)
(* and DNS over QUIC and HTTPS.  The state s is that of the component that *)
(* active names; each section gives the inductive invariant of one of them.*)
(***************************************************************************)
EXTENDS MCParts, TLAPS

LEMMA Sums == \A m, n \in Nat : m + n \in Nat
OBVIOUS

LEMMA Appended ==
  ASSUME NEW S, NEW q \in Seq(S), NEW e \in S
  PROVE  /\ Append(q, e) \in Seq(S) /\ Append(q, e) # << >>
         /\ DOMAIN q \subseteq DOMAIN Append(q, e)
OBVIOUS

LEMMA LastIndex ==
  ASSUME NEW S, NEW q \in Seq(S), q # << >>
  PROVE  Len(q) \in DOMAIN q /\ q[Len(q)] \in S
OBVIOUS

-----------------------------------------------------------------------------
(* The resolver                                                            *)
(*                                                                         *)
(* Whoever waits is a waiter of the flight, or has its result; a flight    *)
(* that was not joined has no waiter but its owner, so that the message it *)
(* brings is handed out once; and a call starts a flight when it begins    *)
(* and when it ends, and at no other time.                                 *)

RsActive == [pc : {"begin", "wait", "monitor", "done"}, retryNum : Nat, runs : Nat, got : RS!Results \cup {Nil}]
RsCalls == {[pc |-> "new"]} \cup RsActive

RsRequests ==
  [pc : {"new", "wait", "late"}] \cup
  [pc : {"done"}, msg : RS!Messages \cup {Nil}, stale : BOOLEAN, ttl : Int \cup {Nil}]

RsStates ==
  [q : DnsQuestions, now : Nat, cache : RS!Entries \cup {Nil}, flight : RS!Flights \cup {Nil},
   request : [RS!Requests -> RsRequests], call : [RS!Calls -> RsCalls]]

\* What the filters leave of a message
RsClean(t, m) == FallbackServers # {} /\ t.q.type = "ip" /\ m.from = "main" => m.kind = "good"

RsWaits(t, c) == t.call[c].pc \in {"wait", "monitor"}

RsFlight(t) ==
  t.flight # Nil =>
    /\ t.call[t.flight.owner].pc # "new"
    /\ \A c \in t.flight.waiters : RsWaits(t, c) /\ t.call[c].got = Nil
    /\ t.flight.dups = 0 => t.flight.waiters \subseteq {t.flight.owner}
    /\ t.flight.msg # Nil => t.flight.msg.obj = t.flight.owner /\ t.flight.msg.from = t.flight.batch
    /\ t.flight.msg # Nil /\ t.flight.ended => RsClean(t, t.flight.msg)

\* What holds of call c
RsCall(t, c) ==
  /\ t.call[c].pc = "begin" => t.call[c].runs = 0 /\ t.call[c].got = Nil
  /\ RsWaits(t, c) => t.call[c].runs <= 1
  /\ t.call[c].pc = "done" => t.call[c].runs <= 2
  /\ RsWaits(t, c) /\ t.call[c].got = Nil => t.flight # Nil /\ c \in t.flight.waiters
  /\ RsWaits(t, c) /\ t.call[c].got # Nil /\ t.call[c].got.msg # Nil =>
       RsClean(t, t.call[c].got.msg) /\ (t.call[c].got.shared \/ t.call[c].got.msg.obj = c)

RsRequest(t, r) ==
  /\ t.request[r].pc = "new" => t.call[2 * r - 1].pc = "new"
  /\ t.request[r].pc \in {"new", "wait"} => t.call[2 * r].pc = "new"
  /\ t.request[r].pc # "wait" => t.call[2 * r - 1].pc \notin {"begin", "wait"}
  /\ t.request[r].pc = "done" /\ t.request[r].msg # Nil =>
       RsClean(t, t.request[r].msg) /\ t.request[r].msg.obj \in {0, 2 * r - 1}

RsCache(t) == t.cache # Nil => t.cache.msg.obj = 0 /\ RsClean(t, t.cache.msg)

RsInv(t) ==
  /\ t \in RsStates
  /\ RsFlight(t)
  /\ \A c \in RS!Calls : RsCall(t, c)
  /\ \A r \in RS!Requests : RsRequest(t, r)
  /\ RsCache(t)
LEMMA RsHalves ==
  /\ \A c \in RS!Calls : c \in Nat
  /\ \A r \in RS!Requests : 2 * r \in RS!Calls /\ 2 * r - 1 \in RS!Calls /\ (2 * r) % 2 = 0 /\ (2 * r - 1) % 2 # 0
  /\ \A c \in RS!Calls : c % 2 = 0 => \E r \in RS!Requests : c = 2 * r
  /\ \A c \in RS!Calls : c % 2 # 0 =>
       (c + 1) \div 2 \in RS!Requests /\ c = 2 * ((c + 1) \div 2) - 1 /\ c + 1 = 2 * ((c + 1) \div 2)
<1>1. \A c \in RS!Calls : c % 2 = 0 => c = 2 * (c \div 2) /\ c \div 2 \in RS!Requests
  BY ResolverAssumption DEF RS!Calls, RS!Requests
<1>2. QED
  BY <1>1, ResolverAssumption DEF RS!Calls, RS!Requests

\* u is t after call c has joined the flight or started one; ws wait for it.
RsJoins(t, u, c, ws) ==
  /\ u \in RsStates /\ u.flight # Nil
  /\ u.q = t.q /\ u.cache = t.cache /\ u.request = t.request /\ u.now = t.now
  /\ \A d \in RS!Calls \ {c} : u.call[d] = t.call[d]
  /\ u.call[c].pc = t.call[c].pc /\ u.call[c].got = t.call[c].got
  /\ u.call[c].runs = t.call[c].runs \/ u.call[c].runs = t.call[c].runs + 1
  /\ t.flight # Nil =>
       /\ u.flight.dups # 0 /\ u.flight.waiters = t.flight.waiters \cup ws
       /\ u.flight.owner = t.flight.owner /\ u.flight.batch = t.flight.batch
       /\ u.flight.msg = t.flight.msg /\ u.flight.ended = t.flight.ended
  /\ t.flight = Nil =>
       /\ u.flight.waiters = ws /\ u.flight.owner = c /\ u.flight.msg = Nil

LEMMA RsDoChan ==
  ASSUME s.q \in DnsQuestions, NEW t \in RsStates, NEW c \in RS!Calls, t.call[c].pc # "new", NEW w \in {c, Nil}
  PROVE  RsJoins(t, RS!DoChan(t, c, w), c, {w} \ {Nil})
<1> DEFINE u == RS!DoChan(t, c, w)
<1>0. c # Nil /\ c \in Nat /\ RS!Calls \subseteq Nat
  BY RsHalves, ResolverNilAssumption
<1> DEFINE ws == {w} \ {Nil}
<1>1. ws = (IF w = Nil THEN {} ELSE {w}) /\ ws \subseteq RS!Calls
  BY <1>0
<1>2. t.call[c] \in RsActive
  BY DEF RsStates, RsCalls
<1>3. CASE t.flight # Nil
  <2>1. u = [t EXCEPT !.flight.dups = @ + 1, !.flight.waiters = @ \cup ws]
    BY <1>1, <1>3 DEF RS!DoChan
  <2>2. t.flight \in RS!Flights
    BY <1>3 DEF RsStates
  <2>a. PICK n \in Nat : n = t.flight.dups + 1 /\ n # 0
    BY <2>2 DEF RS!Flights
  <2>b. t.flight.waiters \cup ws \in SUBSET RS!Calls
    BY <1>1, <2>2 DEF RS!Flights
  <2>c. PICK v \in SUBSET RS!Calls : v = t.flight.waiters \cup ws
    BY <2>b
  <2>3. PICK f \in RS!Flights : f = [t.flight EXCEPT !.dups = n, !.waiters = v]
    BY <2>2 DEF RS!Flights
  <2>4. u = [t EXCEPT !.flight = f]
    BY <2>1, <2>3, <2>a, <2>c DEF RsStates
  <2>5. u \in RsStates /\ u.flight = f /\ f # Nil
    BY <2>4, ResolverNilAssumption DEF RsStates
  <2>6. f.dups # 0 /\ f.waiters = t.flight.waiters \cup ws /\ f.owner = t.flight.owner /\ f.batch = t.flight.batch
        /\ f.msg = t.flight.msg /\ f.ended = t.flight.ended
    BY <2>2, <2>3, <2>a, <2>c DEF RS!Flights
  <2>7. u.call = t.call /\ u.q = t.q /\ u.cache = t.cache /\ u.request = t.request /\ u.now = t.now
    BY <2>4 DEF RsStates
  <2>8. QED
    BY <1>1, <1>3, <2>5, <2>6, <2>7 DEF RsJoins
<1>4. CASE t.flight = Nil
  <2>1. u = [t EXCEPT !.call[c].runs = @ + 1,
                 !.flight = [owner |-> c, dups |-> 0, waiters |-> ws,
                                batch |-> RS!FirstBatch, asked |-> RS!Servers(RS!FirstBatch),
                                msg |-> Nil, ended |-> FALSE]]
    BY <1>1, <1>4 DEF RS!DoChan
  <2>2. RS!FirstBatch \in RS!Batches
    BY DEF RS!FirstBatch, RS!Batches
  <2>3. RS!Servers(RS!FirstBatch) \subseteq MainServers \cup FallbackServers \cup UNION {q.policy : q \in DnsQuestions}
    BY DEF RS!FirstBatch, RS!Servers
  <2>4. PICK f : f = [owner |-> c, dups |-> 0, waiters |-> ws, batch |-> RS!FirstBatch,
                      asked |-> RS!Servers(RS!FirstBatch), msg |-> Nil, ended |-> FALSE]
    OBVIOUS
  <2>5. f \in RS!Flights /\ f.waiters = ws /\ f.owner = c /\ f.msg = Nil
    BY <1>1, <2>2, <2>3, <2>4 DEF RS!Flights
  <2>6. PICK n \in Nat : n = t.call[c].runs + 1
    BY <1>2 DEF RsActive
  <2>7. u = [t EXCEPT !.call[c].runs = n, !.flight = f]
    BY <2>1, <2>4, <2>6 DEF RsStates
  <2>8. PICK k : k = [t.call[c] EXCEPT !.runs = n]
    OBVIOUS
  <2>9. k \in RsCalls /\ k.pc = t.call[c].pc /\ k.got = t.call[c].got /\ k.runs = n
    BY <1>2, <2>8 DEF RsCalls, RsActive
  <2>10. u = [t EXCEPT !.call = [t.call EXCEPT ![c] = k], !.flight = f]
    BY <2>7, <2>8 DEF RsStates
  <2>11. PICK calls \in [RS!Calls -> RsCalls] : calls = [t.call EXCEPT ![c] = k]
    BY <2>9 DEF RsStates
  <2>12. calls[c] = k /\ \A d \in RS!Calls \ {c} : calls[d] = t.call[d]
    BY <2>11 DEF RsStates
  <2>13. u = [t EXCEPT !.call = calls, !.flight = f]
    BY <2>10, <2>11
  <2>14. u \in RsStates /\ u.flight = f /\ u.call = calls /\ f # Nil
    BY <2>5, <2>13, ResolverNilAssumption DEF RsStates
  <2>15. u.q = t.q /\ u.cache = t.cache /\ u.request = t.request /\ u.now = t.now
    BY <2>13 DEF RsStates
  <2>16. QED
    BY <1>4, <2>5, <2>6, <2>9, <2>12, <2>14, <2>15 DEF RsJoins
<1>5. QED
  BY <1>3, <1>4
\* The last step of a call: it has done k.
LEMMA RsSetCall ==
  ASSUME NEW t \in RsStates, NEW c \in RS!Calls, NEW k \in RsCalls
  PROVE  LET u == [t EXCEPT !.call[c] = k] IN
         /\ u \in RsStates /\ u.call[c] = k /\ \A d \in RS!Calls \ {c} : u.call[d] = t.call[d]
         /\ u.q = t.q /\ u.cache = t.cache /\ u.request = t.request /\ u.now = t.now /\ u.flight = t.flight
<1>1. PICK calls \in [RS!Calls -> RsCalls] : calls = [t.call EXCEPT ![c] = k]
  BY DEF RsStates
<1>2. calls[c] = k /\ \A d \in RS!Calls \ {c} : calls[d] = t.call[d]
  BY <1>1 DEF RsStates
<1>3. QED
  BY <1>1, <1>2 DEF RsStates

\* A step that neither starts a call nor sets it back keeps what holds of requests.
LEMMA RsRequestKept ==
  ASSUME NEW t, NEW u, NEW r \in RS!Requests, RsRequest(t, r), u.request[r] = t.request[r], u.q = t.q,
         \A c \in RS!Calls : t.call[c].pc = "new" => u.call[c].pc = "new",
         \A c \in RS!Calls : t.call[c].pc \notin {"begin", "wait"} => u.call[c].pc \notin {"begin", "wait"}
  PROVE  RsRequest(u, r)
<1>1. 2 * r \in RS!Calls /\ 2 * r - 1 \in RS!Calls
  BY RsHalves
<1>2. QED
  BY <1>1 DEF RsRequest, RsClean

LEMMA RsExchange == ASSUME RsInv(s), NEW c \in RS!Calls, RS!Exchange(c) PROVE RsInv(s')
<1>1. s \in RsStates /\ s.q \in DnsQuestions /\ s.call[c].pc = "begin"
  BY DEF RsInv, RsStates, RS!Exchange
<1>2. PICK u : u = RS!DoChan(s, c, c)
  OBVIOUS
<1>3. RsJoins(s, u, c, {c})
  <2>1. {c} \ {Nil} = {c}
    BY RsHalves, ResolverNilAssumption
  <2>2. QED
    BY <1>1, <1>2, <2>1, RsDoChan, Zenon
<1>4. u \in RsStates /\ u.call[c] \in RsActive /\ u.call[c].pc = "begin"
  BY <1>1, <1>3 DEF RsJoins, RsStates, RsCalls
<1>5. PICK k : k = [u.call[c] EXCEPT !.pc = "wait"]
  OBVIOUS
<1>b. k \in RsCalls /\ k.pc = "wait" /\ k.got = u.call[c].got /\ k.runs = u.call[c].runs
  BY <1>4, <1>5 DEF RsCalls, RsActive
<1>c. s.flight # Nil => s.flight.owner \in RS!Calls /\ s.flight.waiters \subseteq RS!Calls
  BY <1>1 DEF RsStates, RS!Flights
<1>6. s' = [u EXCEPT !.call[c] = k]
  BY <1>2, <1>4, <1>5 DEF RS!Exchange, RsStates
<1>7. /\ s' \in RsStates /\ s'.call[c] = k /\ \A d \in RS!Calls \ {c} : s'.call[d] = u.call[d]
      /\ s'.q = s.q /\ s'.cache = s.cache /\ s'.request = s.request /\ s'.now = s.now /\ s'.flight = u.flight
  BY <1>3, <1>4, <1>6, <1>b, RsSetCall DEF RsJoins
<1>8. \A d \in RS!Calls \ {c} : s'.call[d] = s.call[d]
  BY <1>3, <1>7 DEF RsJoins
<1>a. s.call[c].runs = 0 /\ s.call[c].got = Nil /\ k.runs \in {0, 1} /\ k.got = Nil
  BY <1>1, <1>3, <1>b DEF RsInv, RsCall, RsJoins
<1>9. RsFlight(s')
  
  <2>1. CASE s.flight # Nil
    BY <2>1, <1>1, <1>3, <1>b, <1>c, <1>7, <1>8, <1>a DEF RsJoins, RsInv, RsFlight, RsWaits, RsClean
  <2>2. CASE s.flight = Nil
    BY <2>2, <1>1, <1>3, <1>b, <1>c, <1>7, <1>8, <1>a DEF RsJoins, RsInv, RsFlight, RsWaits, RsClean
  <2>3. QED
    BY <2>1, <2>2
<1>10. ASSUME NEW d \in RS!Calls PROVE RsCall(s', d)
  <2>1. CASE d = c
    BY <2>1, <1>3, <1>b, <1>7, <1>a DEF RsJoins, RsCall, RsWaits
  <2>2. CASE d # c
    <3>1. RsCall(s, d) /\ s'.call[d] = s.call[d] /\ s'.q = s.q
      BY <2>2, <1>7, <1>8 DEF RsInv
    <3>2. s.flight # Nil /\ d \in s.flight.waiters => s'.flight # Nil /\ d \in s'.flight.waiters
      BY <1>3, <1>7 DEF RsJoins
    <3>3. QED
      BY <3>1, <3>2 DEF RsCall, RsWaits, RsClean
  <2>3. QED
    BY <2>1, <2>2
<1>11. ASSUME NEW r \in RS!Requests PROVE RsRequest(s', r)
  BY <1>1, <1>b, <1>7, <1>8, RsRequestKept DEF RsInv
<1>12. QED
  BY <1>7, <1>9, <1>10, <1>11 DEF RsInv, RsCache, RsClean
\* u is t after call c has started another flight, if it did, that nobody waits for.
RsRepeats(t, u, c) ==
  /\ u \in RsStates
  /\ u.q = t.q /\ u.cache = t.cache /\ u.request = t.request /\ u.now = t.now
  /\ \A d \in RS!Calls \ {c} : u.call[d] = t.call[d]
  /\ u.call[c].pc = t.call[c].pc /\ u.call[c].got = t.call[c].got
  /\ u.call[c].runs = t.call[c].runs \/ u.call[c].runs = t.call[c].runs + 1
  /\ t.flight # Nil =>
       /\ u.flight # Nil /\ u.flight.waiters = t.flight.waiters
       /\ u.flight.dups = 0 => t.flight.dups = 0
       /\ u.flight.owner = t.flight.owner /\ u.flight.batch = t.flight.batch
       /\ u.flight.msg = t.flight.msg /\ u.flight.ended = t.flight.ended
  /\ t.flight = Nil /\ u.flight # Nil =>
       u.flight.waiters = {} /\ u.flight.owner = c /\ u.flight.msg = Nil

LEMMA RsRetried ==
  ASSUME NEW c \in RS!Calls, RsInv(s), s.call[c].pc # "new", NEW got
  PROVE  RsRepeats(s, RS!Retried(s, c, got), c)
<1>1. s \in RsStates /\ s.q \in DnsQuestions
  BY DEF RsInv, RsStates
<1>2. RsJoins(s, RS!DoChan(s, c, Nil), c, {Nil} \ {Nil})
  BY <1>1, RsDoChan, Zenon
<1>3. {Nil} \ {Nil} = {}
  OBVIOUS
<1>4. PICK u : u = RS!DoChan(s, c, Nil)
  OBVIOUS
<1>5. RsJoins(s, u, c, {})
  BY <1>2, <1>3, <1>4, Zenon
<1>6. RsRepeats(s, u, c)
  BY <1>5 DEF RsJoins, RsRepeats
<1>7. RsRepeats(s, s, c)
  BY <1>1 DEF RsRepeats
<1>8. QED
  BY <1>4, <1>6, <1>7, Zenon DEF RS!Retried

\* A call that has its result ends.
LEMMA RsDone ==
  ASSUME RsInv(s), NEW c \in RS!Calls, RsWaits(s, c), s.call[c].got # Nil,
         NEW u, RsRepeats(s, u, c),
         NEW v, v \in RsStates, v.q = u.q, v.cache = u.cache, v.flight = u.flight,
         v.call[c].pc = "done", v.call[c].runs = u.call[c].runs,
         \A d \in RS!Calls \ {c} : v.call[d] = u.call[d]
  PROVE  RsFlight(v) /\ (\A d \in RS!Calls : RsCall(v, d)) /\ RsCache(v)
<1>1. s \in RsStates /\ v.q = s.q /\ \A d \in RS!Calls \ {c} : v.call[d] = s.call[d]
  BY DEF RsRepeats, RsInv
<1>2. s.flight # Nil => s.flight.owner \in RS!Calls /\ s.flight.waiters \subseteq RS!Calls
  BY <1>1 DEF RsStates, RS!Flights
<1>3. RsFlight(v)
  <2>1. CASE s.flight # Nil
    <3>1. c \notin s.flight.waiters
      BY <2>1 DEF RsInv, RsFlight
    <3>2. QED
      BY <2>1, <3>1, <1>1, <1>2 DEF RsRepeats, RsInv, RsFlight, RsWaits, RsClean
  <2>2. CASE s.flight = Nil
    BY <2>2 DEF RsRepeats, RsFlight
  <2>3. QED
    BY <2>1, <2>2
<1>4. ASSUME NEW d \in RS!Calls PROVE RsCall(v, d)
  <2>1. CASE d = c
    <3>1. s.call[c].runs <= 1 /\ s.call[c] \in RsActive
      BY <1>1 DEF RsInv, RsCall, RsStates, RsCalls, RsWaits
    <3>2. v.call[c].runs <= 2
      BY <3>1 DEF RsRepeats, RsActive
    <3>3. QED
      BY <2>1, <3>2 DEF RsCall, RsWaits
  <2>2. CASE d # c
    <3>1. RsCall(s, d) /\ v.call[d] = s.call[d] /\ v.q = s.q
      BY <2>2, <1>1 DEF RsInv
    <3>2. s.flight # Nil /\ d \in s.flight.waiters => v.flight # Nil /\ d \in v.flight.waiters
      BY DEF RsRepeats
    <3>3. QED
      BY <3>1, <3>2 DEF RsCall, RsWaits, RsClean
  <2>3. QED
    BY <2>1, <2>2
<1>5. QED
  BY <1>1, <1>3, <1>4 DEF RsInv, RsCache, RsClean, RsRepeats

LEMMA RsMonitor == ASSUME RsInv(s), NEW c \in RS!Calls, RS!Monitor(c) PROVE RsInv(s')
<1>1. RsWaits(s, c) /\ s.call[c].got # Nil /\ s.call[c].pc = "monitor"
  BY DEF RS!Monitor, RsWaits
<1>2. PICK u : u = RS!Retried(s, c, s.call[c].got)
  OBVIOUS
<1>3. RsRepeats(s, u, c)
  BY <1>1, <1>2, RsRetried, Zenon
<1>4. u \in RsStates /\ u.call[c] \in RsActive
  BY <1>1, <1>3 DEF RsRepeats, RsStates, RsCalls
<1>5. PICK k : k = [u.call[c] EXCEPT !.pc = "done", !.got = Nil]
  OBVIOUS
<1>6. k \in RsCalls /\ k.pc = "done" /\ k.runs = u.call[c].runs
  BY <1>4, <1>5 DEF RsCalls, RsActive
<1>7. s' = [u EXCEPT !.call[c] = k]
  BY <1>2, <1>4, <1>5 DEF RS!Monitor, RsStates
<1>8. /\ s' \in RsStates /\ s'.call[c] = k /\ \A d \in RS!Calls \ {c} : s'.call[d] = u.call[d]
      /\ s'.q = u.q /\ s'.cache = u.cache /\ s'.request = u.request /\ s'.flight = u.flight
  BY <1>4, <1>6, <1>7, RsSetCall
<1>9. RsFlight(s') /\ (\A d \in RS!Calls : RsCall(s', d)) /\ RsCache(s')
  BY <1>1, <1>3, <1>6, <1>8, RsDone
<1>10. ASSUME NEW r \in RS!Requests PROVE RsRequest(s', r)
  BY <1>1, <1>3, <1>6, <1>8, RsRequestKept DEF RsInv, RsRepeats
<1>11. QED
  BY <1>8, <1>9, <1>10 DEF RsInv
LEMMA RsReceive == ASSUME RsInv(s), NEW c \in RS!Calls, RS!Receive(c) PROVE RsInv(s')
<1> DEFINE got == s.call[c].got
           m == IF got.msg # Nil /\ got.shared THEN RS!Copy(got.msg) ELSE got.msg
<1>1. RsWaits(s, c) /\ got # Nil /\ s.call[c].pc = "wait"
  BY DEF RS!Receive, RsWaits
<1>2. PICK u : u = RS!Retried(s, c, got)
  OBVIOUS
<1>3. RsRepeats(s, u, c)
  BY <1>1, <1>2, RsRetried, Zenon
<1>4. u \in RsStates /\ u.call[c] \in RsActive /\ got \in RS!Results
  BY <1>1, <1>3 DEF RsRepeats, RsStates, RsCalls, RsInv, RsActive
<1>5. PICK k : k = [u.call[c] EXCEPT !.pc = "done", !.got = Nil]
  OBVIOUS
<1>6. k \in RsCalls /\ k.pc = "done" /\ k.runs = u.call[c].runs
  BY <1>4, <1>5 DEF RsCalls, RsActive
<1>a. m \in RS!Messages \cup {Nil} /\ (m # Nil => RsClean(s, m) /\ m.obj \in {0, c})
  <2>1. RsCall(s, c) /\ got.msg \in RS!Messages \cup {Nil} /\ got.shared \in BOOLEAN
    BY <1>4 DEF RsInv, RS!Results
  <2>2. CASE got.msg # Nil /\ got.shared
    <3>1. got.msg \in RS!Messages /\ m = [got.msg EXCEPT !.obj = 0] /\ RsClean(s, got.msg)
      BY <1>1, <2>1, <2>2 DEF RsCall, RS!Copy
    <3>2. m \in RS!Messages /\ m.obj = 0 /\ m.from = got.msg.from /\ m.kind = got.msg.kind
      BY <3>1 DEF RS!Messages
    <3>3. QED
      BY <3>1, <3>2 DEF RsClean
  <2>3. CASE ~(got.msg # Nil /\ got.shared)
    BY <1>1, <2>1, <2>3 DEF RsCall
  <2>4. QED
    BY <2>2, <2>3
<1>b. PICK d \in RsRequests : d = [pc |-> "done", msg |-> m, stale |-> FALSE, ttl |-> Nil]
  BY <1>a DEF RsRequests
<1>c. d.pc = "done" /\ d.msg = m
  BY <1>b
<1> HIDE DEF m
<1>7. CASE c % 2 = 0
  <2>1. s' = [u EXCEPT !.call[c] = k]
    BY <1>2, <1>4, <1>5, <1>7 DEF RS!Receive, RS!Ended, RsStates
  <2>2. /\ s' \in RsStates /\ s'.call[c] = k /\ \A e \in RS!Calls \ {c} : s'.call[e] = u.call[e]
        /\ s'.q = u.q /\ s'.cache = u.cache /\ s'.request = u.request /\ s'.flight = u.flight
    BY <1>4, <1>6, <2>1, RsSetCall
  <2>3. RsFlight(s') /\ (\A e \in RS!Calls : RsCall(s', e)) /\ RsCache(s')
    BY <1>1, <1>3, <1>6, <2>2, RsDone
  <2>4. ASSUME NEW r \in RS!Requests PROVE RsRequest(s', r)
    BY <1>1, <1>3, <1>6, <2>2, RsRequestKept DEF RsInv, RsRepeats
  <2>5. QED
    BY <2>2, <2>3, <2>4 DEF RsInv
<1>8. CASE c % 2 # 0
  <2> DEFINE x == (c + 1) \div 2
  <2>0. x \in RS!Requests /\ c = 2 * x - 1
    BY <1>8, RsHalves
  <2>1. s' = [u EXCEPT !.call[c].pc = "done", !.call[c].got = Nil, !.request = [u.request EXCEPT ![x] = d]]
    BY <1>2, <1>8, <1>b DEF RS!Receive, RS!Ended, m
  <2> HIDE DEF x
  <2>a. PICK reqs \in [RS!Requests -> RsRequests] : reqs = [u.request EXCEPT ![x] = d]
    BY <1>4 DEF RsStates
  <2>b. reqs[x] = d /\ \A r \in RS!Requests \ {x} : reqs[r] = u.request[r]
    BY <1>4, <2>0, <2>a DEF RsStates
  <2>c. PICK w : w = [u EXCEPT !.request = reqs]
    OBVIOUS
  <2>d. w \in RsStates /\ w.q = u.q /\ w.cache = u.cache /\ w.request = reqs /\ w.flight = u.flight /\ w.call = u.call
    BY <1>4, <2>c DEF RsStates
  <2>e. s' = [w EXCEPT !.call[c] = k]
    BY <1>4, <1>5, <2>1, <2>a, <2>c, <2>d DEF RsStates
  <2>2. /\ s' \in RsStates /\ s'.call[c] = k /\ \A e \in RS!Calls \ {c} : s'.call[e] = u.call[e]
        /\ s'.q = u.q /\ s'.cache = u.cache /\ s'.request = reqs /\ s'.flight = u.flight
    BY <1>6, <2>d, <2>e, RsSetCall
  <2>3. RsFlight(s') /\ (\A e \in RS!Calls : RsCall(s', e)) /\ RsCache(s')
    BY <1>1, <1>3, <1>6, <2>2, RsDone
  <2>4. ASSUME NEW r \in RS!Requests, r # x PROVE RsRequest(s', r)
    BY <1>1, <1>3, <1>6, <2>2, <2>4, <2>b, RsRequestKept DEF RsInv, RsRepeats
  <2>5. RsRequest(s', x)
    <3>1. s'.request[x].pc = "done" /\ s'.request[x].msg = m /\ s'.q = s.q
      BY <1>3, <1>c, <2>b, <2>2 DEF RsRepeats
    <3>2. s'.call[2 * x - 1].pc = "done"
      BY <2>0, <2>2, <1>6
    <3>3. m # Nil => m.obj \in {0, 2 * x - 1}
      BY <1>a, <2>0
    <3>4. QED
      BY <1>a, <3>1, <3>2, <3>3 DEF RsRequest, RsClean
  <2>6. QED
    BY <2>2, <2>3, <2>4, <2>5 DEF RsInv
<1>9. QED
  BY <1>7, <1>8

-----------------------------------------------------------------------------
LEMMA RsInitially == ASSUME RS!Init PROVE RsInv(s)
<1>1. PICK q \in DnsQuestions :
        s = [q |-> q, now |-> 0, cache |-> Nil, flight |-> Nil,
             request |-> [r \in RS!Requests |-> [pc |-> "new"]], call |-> [c \in RS!Calls |-> [pc |-> "new"]]]
  BY DEF RS!Init
<1>2. s \in RsStates
  BY <1>1 DEF RsStates, RsRequests, RsCalls
<1>3. QED
  BY <1>1, <1>2, RsHalves DEF RsInv, RsFlight, RsCall, RsRequest, RsCache, RsWaits

\* A step of the requests: calls begin, or are left to a monitor.
LEMMA RsMoved ==
  ASSUME RsInv(s), NEW v, v \in RsStates, v.q = s.q, v.flight = s.flight,
         \A d \in RS!Calls :
           \/ v.call[d] = s.call[d]
           \/ s.call[d].pc = "new" /\ v.call[d] = RS!NewCall
           \/ /\ s.call[d].pc = "wait" /\ v.call[d].pc = "monitor"
              /\ v.call[d].runs = s.call[d].runs /\ v.call[d].got = s.call[d].got
  PROVE  RsFlight(v) /\ \A d \in RS!Calls : RsCall(v, d)
<1>1. RS!NewCall.pc = "begin" /\ RS!NewCall.runs = 0 /\ RS!NewCall.got = Nil
  BY DEF RS!NewCall
<1>2. s \in RsStates /\ (s.flight # Nil => s.flight.owner \in RS!Calls /\ s.flight.waiters \subseteq RS!Calls)
  BY DEF RsInv, RsStates, RS!Flights
<1>3. RsFlight(v)
  <2>1. \A d \in RS!Calls : RsWaits(s, d) => RsWaits(v, d) /\ v.call[d].got = s.call[d].got
    BY DEF RsWaits
  <2>2. \A d \in RS!Calls : s.call[d].pc # "new" => v.call[d].pc # "new"
    OBVIOUS
  <2>3. QED
    BY <1>2, <2>1, <2>2 DEF RsFlight, RsInv, RsClean
<1>4. ASSUME NEW d \in RS!Calls PROVE RsCall(v, d)
  <2>1. RsCall(s, d)
    BY DEF RsInv
  <2>2. CASE v.call[d] = s.call[d]
    BY <2>1, <2>2 DEF RsCall, RsWaits, RsClean
  <2>3. CASE v.call[d] = RS!NewCall
    BY <1>1, <2>3 DEF RsCall, RsWaits
  <2>4. CASE /\ s.call[d].pc = "wait" /\ v.call[d].pc = "monitor"
             /\ v.call[d].runs = s.call[d].runs /\ v.call[d].got = s.call[d].got
    BY <2>1, <2>4 DEF RsCall, RsWaits, RsClean
  <2>5. QED
    BY <2>2, <2>3, <2>4
<1>5. QED
  BY <1>3, <1>4

LEMMA RsSetRequest ==
  ASSUME NEW t \in RsStates, NEW r \in RS!Requests, NEW d \in RsRequests
  PROVE  LET u == [t EXCEPT !.request[r] = d] IN
         /\ u \in RsStates /\ u.request[r] = d /\ \A x \in RS!Requests \ {r} : u.request[x] = t.request[x]
         /\ u.q = t.q /\ u.cache = t.cache /\ u.call = t.call /\ u.now = t.now /\ u.flight = t.flight
<1>1. PICK reqs \in [RS!Requests -> RsRequests] : reqs = [t.request EXCEPT ![r] = d]
  BY DEF RsStates
<1>2. reqs[r] = d /\ \A x \in RS!Requests \ {r} : reqs[x] = t.request[x]
  BY <1>1 DEF RsStates
<1>3. QED
  BY <1>1, <1>2 DEF RsStates

LEMMA RsNewCall == RS!NewCall \in RsCalls /\ RS!NewCall.pc = "begin"
  BY DEF RS!NewCall, RsCalls, RsActive

LEMMA RsMiss == ASSUME RsInv(s), NEW r \in RS!Requests, RS!Miss(r) PROVE RsInv(s')
<1>1. 2 * r \in RS!Calls /\ 2 * r - 1 \in RS!Calls /\ 2 * r # 2 * r - 1
  BY RsHalves DEF RS!Requests
<1> DEFINE c == 2 * r - 1
<1>2. s \in RsStates /\ s.request[r].pc = "new" /\ s.call[c].pc = "new" /\ s.call[2 * r].pc = "new"
  BY DEF RsInv, RsRequest, RS!Miss
<1>3. PICK d \in RsRequests : d = [pc |-> "wait"]
  BY DEF RsRequests
<1>4. PICK w : w = [s EXCEPT !.request[r] = d]
  OBVIOUS
<1>5. /\ w \in RsStates /\ w.request[r] = d /\ \A x \in RS!Requests \ {r} : w.request[x] = s.request[x]
      /\ w.q = s.q /\ w.cache = s.cache /\ w.call = s.call /\ w.flight = s.flight
  BY <1>2, <1>4, RsSetRequest
<1>6. s' = [w EXCEPT !.call[c] = RS!NewCall]
  BY <1>2, <1>3, <1>4 DEF RS!Miss, RsStates
<1> HIDE DEF c
<1>7. /\ s' \in RsStates /\ s'.call[c] = RS!NewCall /\ \A e \in RS!Calls \ {c} : s'.call[e] = s.call[e]
      /\ s'.q = s.q /\ s'.cache = s.cache /\ s'.request = w.request /\ s'.flight = s.flight
  BY <1>1, <1>5, <1>6, RsSetCall, RsNewCall DEF c
<1>8. RsFlight(s') /\ \A e \in RS!Calls : RsCall(s', e)
  BY <1>2, <1>7, RsMoved DEF c
<1>9. ASSUME NEW x \in RS!Requests PROVE RsRequest(s', x)
  <2>1. CASE x = r
    <3>1. s'.request[r].pc = "wait" /\ s'.call[2 * r].pc = "new"
      BY <1>1, <1>2, <1>3, <1>5, <1>7 DEF c
    <3>2. QED
      BY <2>1, <3>1 DEF RsRequest
  <2>2. CASE x # r
    <3>1. 2 * x \in RS!Calls \ {c} /\ 2 * x - 1 \in RS!Calls \ {c}
      BY <2>2, RsHalves DEF c, RS!Requests
    <3>2. QED
      BY <2>2, <3>1, <1>5, <1>7 DEF RsInv, RsRequest, RsClean
  <2>3. QED
    BY <2>1, <2>2
<1>10. QED
  BY <1>7, <1>8, <1>9 DEF RsInv, RsCache, RsClean

LEMMA RsHit == ASSUME RsInv(s), NEW r \in RS!Requests, RS!Hit(r) PROVE RsInv(s')
<1>1. 2 * r \in RS!Calls /\ 2 * r - 1 \in RS!Calls /\ 2 * r # 2 * r - 1
  BY RsHalves DEF RS!Requests
<1> DEFINE c == 2 * r
           e == s.cache
           stale == e.expires < s.now
<1>2. s \in RsStates /\ s.request[r].pc = "new" /\ s.call[c].pc = "new" /\ s.call[2 * r - 1].pc = "new"
  BY DEF RsInv, RsRequest, RS!Hit
<1>3. e \in RS!Entries /\ e.msg \in RS!Messages /\ e.msg.obj = 0 /\ RsClean(s, e.msg)
  BY <1>2 DEF RS!Hit, RsInv, RsCache, RsStates, RS!Entries
<1>4. PICK m \in RS!Messages : m = RS!Copy(e.msg)
  BY <1>3 DEF RS!Copy, RS!Messages
<1>5. m.obj = 0 /\ RsClean(s, m)
  BY <1>3, <1>4 DEF RS!Copy, RS!Messages, RsClean
<1>6. PICK n \in Int : n = (IF stale THEN 1 ELSE e.expires - s.now)
  BY <1>2, <1>3 DEF RS!Entries, RsStates
<1>b. stale \in BOOLEAN
  OBVIOUS
<1>7. PICK b \in BOOLEAN : b = stale
  BY <1>b, Zenon
<1>8. PICK d \in RsRequests : d = [pc |-> "done", msg |-> m, stale |-> b, ttl |-> n]
  BY DEF RsRequests
<1>9. PICK w : w = [s EXCEPT !.request[r] = d]
  OBVIOUS
<1>10. /\ w \in RsStates /\ w.request[r] = d /\ \A x \in RS!Requests \ {r} : w.request[x] = s.request[x]
       /\ w.q = s.q /\ w.cache = s.cache /\ w.call = s.call /\ w.flight = s.flight
  BY <1>2, <1>9, RsSetRequest
<1>11. PICK k \in RsCalls : k = (IF stale THEN RS!NewCall ELSE s.call[c])
  BY <1>1, <1>2, RsNewCall DEF RsStates
<1>a. s' = [s EXCEPT !.request[r] = d, !.call[c] = k]
  BY <1>4, <1>6, <1>7, <1>8, <1>11 DEF RS!Hit
<1> HIDE DEF c, e, stale
<1>12. s' = [w EXCEPT !.call[c] = k]
  BY <1>2, <1>9, <1>a DEF RsStates
<1>13. /\ s' \in RsStates /\ s'.call[c] = k /\ \A x \in RS!Calls \ {c} : s'.call[x] = s.call[x]
      /\ s'.q = s.q /\ s'.cache = s.cache /\ s'.request = w.request /\ s'.flight = s.flight
  BY <1>1, <1>10, <1>12, RsSetCall DEF c
<1>14. RsFlight(s') /\ \A x \in RS!Calls : RsCall(s', x)
  BY <1>2, <1>11, <1>13, RsMoved DEF c
<1>15. ASSUME NEW x \in RS!Requests PROVE RsRequest(s', x)
  <2>1. CASE x = r
    <3>1. s'.request[r].pc = "done" /\ s'.request[r].msg = m /\ s'.call[2 * r - 1].pc = "new" /\ s'.q = s.q
      BY <1>1, <1>2, <1>8, <1>10, <1>13 DEF c
    <3>2. QED
      BY <2>1, <3>1, <1>5 DEF RsRequest, RsClean
  <2>2. CASE x # r
    <3>1. 2 * x \in RS!Calls \ {c} /\ 2 * x - 1 \in RS!Calls \ {c}
      BY <2>2, RsHalves DEF c, RS!Requests
    <3>2. QED
      BY <2>2, <3>1, <1>10, <1>13 DEF RsInv, RsRequest, RsClean
  <2>3. QED
    BY <2>1, <2>2
<1>16. QED
  BY <1>13, <1>14, <1>15 DEF RsInv, RsCache, RsClean

\* A background exchange, or one that r gives up.
LEMMA RsGiveUp == ASSUME RsInv(s), NEW c \in RS!Calls, RS!GiveUp(c) PROVE RsInv(s')
<1>1. s \in RsStates /\ s.call[c] \in RsActive /\ s.call[c].pc = "wait"
  BY DEF RsInv, RsStates, RsCalls, RS!GiveUp
<1>2. PICK k : k = [s.call[c] EXCEPT !.pc = "monitor"]
  OBVIOUS
<1>3. k \in RsCalls /\ k.pc = "monitor" /\ k.runs = s.call[c].runs /\ k.got = s.call[c].got
  BY <1>1, <1>2 DEF RsCalls, RsActive
<1>4. PICK u : u = [s EXCEPT !.call[c] = k]
  OBVIOUS
<1>5. /\ u \in RsStates /\ u.call[c] = k /\ \A e \in RS!Calls \ {c} : u.call[e] = s.call[e]
      /\ u.q = s.q /\ u.cache = s.cache /\ u.request = s.request /\ u.flight = s.flight
  BY <1>1, <1>3, <1>4, RsSetCall
<1>6. CASE c % 2 = 0
  <2>1. s' = u
    BY <1>1, <1>2, <1>4, <1>6 DEF RS!GiveUp, RsStates
  <2>2. RsFlight(s') /\ \A e \in RS!Calls : RsCall(s', e)
    BY <1>1, <1>3, <1>5, <2>1, RsMoved
  <2>3. ASSUME NEW r \in RS!Requests PROVE RsRequest(s', r)
    <3>1. PICK y \in RS!Requests : c = 2 * y
      BY <1>6, RsHalves
    <3>2. 2 * r - 1 \in RS!Calls \ {c} /\ 2 * r \in RS!Calls
      BY <3>1, RsHalves DEF RS!Requests
    <3>3. s'.call[2 * r - 1] = s.call[2 * r - 1] /\ (s'.call[2 * r].pc = "new" <=> s.call[2 * r].pc = "new")
      BY <1>1, <1>3, <1>5, <2>1, <3>2
    <3>4. QED
      BY <1>5, <2>1, <3>3 DEF RsInv, RsRequest, RsClean
  <2>4. QED
    BY <1>5, <2>1, <2>2, <2>3 DEF RsInv, RsCache, RsClean
<1>7. CASE c % 2 # 0
  <2> DEFINE x == (c + 1) \div 2
             b == c + 1
  <2>1. x \in RS!Requests /\ c = 2 * x - 1 /\ b = 2 * x
    BY <1>7, RsHalves
  <2>2. PICK d \in RsRequests : d = [pc |-> "late"]
    BY DEF RsRequests
  <2>3. s' = [s EXCEPT !.call[c].pc = "monitor", !.call[b] = RS!NewCall, !.request[x] = d]
    BY <1>7, <2>2 DEF RS!GiveUp
  <2> HIDE DEF x, b
  <2>4. b \in RS!Calls /\ b # c
    BY <2>1, RsHalves DEF RS!Requests
  <2>5. PICK v : v = [u EXCEPT !.call[b] = RS!NewCall]
    OBVIOUS
  <2>6. /\ v \in RsStates /\ v.call[b] = RS!NewCall /\ \A e \in RS!Calls \ {b} : v.call[e] = u.call[e]
        /\ v.q = s.q /\ v.cache = s.cache /\ v.request = s.request /\ v.flight = s.flight
    BY <1>5, <2>4, <2>5, RsSetCall, RsNewCall
  <2>7. s' = [v EXCEPT !.request[x] = d]
    BY <1>1, <1>2, <1>4, <2>3, <2>5 DEF RsStates
  <2>8. /\ s' \in RsStates /\ s'.request[x] = d /\ \A y \in RS!Requests \ {x} : s'.request[y] = s.request[y]
        /\ s'.q = s.q /\ s'.cache = s.cache /\ s'.call = v.call /\ s'.flight = s.flight
    BY <2>1, <2>6, <2>7, RsSetRequest
  <2>9. s.call[b].pc = "new"
    <3>1. s.request[x].pc = "wait"
      BY <1>1, <2>1 DEF RsInv, RsRequest
    <3>2. QED
      BY <2>1, <3>1 DEF RsInv, RsRequest
  <2>10. s'.call[c] = k /\ s'.call[b] = RS!NewCall /\ \A e \in RS!Calls \ {b, c} : s'.call[e] = s.call[e]
    BY <1>5, <2>4, <2>6, <2>8
  <2>11. RsFlight(s') /\ \A e \in RS!Calls : RsCall(s', e)
    BY <1>1, <1>3, <2>8, <2>9, <2>10, RsMoved
  <2>12. ASSUME NEW r \in RS!Requests PROVE RsRequest(s', r)
    <3>1. CASE r = x
      <4>1. s'.request[x].pc = "late" /\ s'.call[2 * x - 1].pc = "monitor"
        BY <1>3, <2>1, <2>2, <2>8, <2>10
      <4>2. QED
        BY <3>1, <4>1 DEF RsRequest
    <3>2. CASE r # x
      <4>1. 2 * r \in RS!Calls \ {b, c} /\ 2 * r - 1 \in RS!Calls \ {b, c}
        BY <2>1, <3>2, RsHalves DEF RS!Requests
      <4>2. QED
        BY <3>2, <4>1, <2>8, <2>10 DEF RsInv, RsRequest, RsClean
    <3>3. QED
      BY <3>1, <3>2
  <2>13. QED
    BY <2>8, <2>11, <2>12 DEF RsInv, RsCache, RsClean
<1>8. QED
  BY <1>6, <1>7

\* A step of the flight that leaves the calls and the requests alone.
LEMMA RsFlies ==
  ASSUME RsInv(s), s.flight # Nil, NEW f \in RS!Flights, NEW v, v = [s EXCEPT !.flight = f],
         f.owner = s.flight.owner, f.dups = s.flight.dups, f.waiters = s.flight.waiters,
         f.msg # Nil => f.msg.obj = f.owner /\ f.msg.from = f.batch,
         f.msg # Nil /\ f.ended => RsClean(s, f.msg)
  PROVE  RsInv(v)
<1>1. s \in RsStates
  BY DEF RsInv
<1>2. /\ v \in RsStates /\ v.q = s.q /\ v.cache = s.cache /\ v.call = s.call /\ v.request = s.request
      /\ v.now = s.now /\ v.flight = f /\ f # Nil
  BY <1>1, ResolverNilAssumption DEF RsStates
<1>3. RsFlight(v)
  BY <1>2 DEF RsInv, RsFlight, RsWaits, RsClean
<1>4. \A d \in RS!Calls : RsCall(v, d)
  BY <1>2 DEF RsInv, RsCall, RsWaits, RsClean
<1>5. \A r \in RS!Requests : RsRequest(v, r)
  BY <1>2 DEF RsInv, RsRequest, RsClean
<1>6. QED
  BY <1>2, <1>3, <1>4, <1>5 DEF RsInv, RsCache, RsClean

LEMMA RsAnswer == ASSUME RsInv(s), NEW x, NEW kind \in RS!Kinds, RS!Answer(x, kind) PROVE RsInv(s')
<1>1. s \in RsStates /\ s.flight # Nil /\ s.flight \in RS!Flights /\ ~s.flight.ended
  BY DEF RS!Answer, RsInv, RsStates
<1>2. PICK m \in RS!Messages : m = [kind |-> kind, from |-> s.flight.batch, obj |-> s.flight.owner]
  BY <1>1, RsHalves DEF RS!Messages, RS!Flights
<1>3. PICK f \in RS!Flights : f = [s.flight EXCEPT !.msg = m, !.asked = {}]
  BY <1>1 DEF RS!Flights
<1>4. /\ f.owner = s.flight.owner /\ f.dups = s.flight.dups /\ f.waiters = s.flight.waiters
      /\ f.msg = m /\ ~f.ended /\ f.batch = s.flight.batch
  BY <1>1, <1>3 DEF RS!Flights
<1>5. s' = [s EXCEPT !.flight = f]
  BY <1>1, <1>2, <1>3 DEF RS!Answer, RsStates
<1>6. QED
  BY <1>1, <1>2, <1>4, <1>5, RsFlies

LEMMA RsFails == ASSUME RsInv(s), NEW x, RS!Fails(x) PROVE RsInv(s')
<1>1. s \in RsStates /\ s.flight # Nil /\ s.flight \in RS!Flights /\ ~s.flight.ended
  BY DEF RS!Fails, RsInv, RsStates
<1>2. PICK f \in RS!Flights : f = [s.flight EXCEPT !.asked = @ \ {x}]
  BY <1>1 DEF RS!Flights
<1>3. /\ f.owner = s.flight.owner /\ f.dups = s.flight.dups /\ f.waiters = s.flight.waiters
      /\ f.msg = s.flight.msg /\ ~f.ended /\ f.batch = s.flight.batch
  BY <1>1, <1>2 DEF RS!Flights
<1>4. s' = [s EXCEPT !.flight = f]
  BY <1>1, <1>2 DEF RS!Fails, RsStates
<1>5. f.msg # Nil => f.msg.obj = f.owner /\ f.msg.from = f.batch
  BY <1>1, <1>3 DEF RsInv, RsFlight
<1>6. QED
  BY <1>1, <1>3, <1>4, <1>5, RsFlies

LEMMA RsNextBatch == ASSUME RsInv(s), RS!NextBatch PROVE RsInv(s')
<1>1. s \in RsStates /\ s.flight # Nil /\ s.flight \in RS!Flights /\ ~s.flight.ended
  BY DEF RS!NextBatch, RsInv, RsStates
<1>2. PICK f \in RS!Flights : f = [s.flight EXCEPT !.batch = "fallback", !.asked = FallbackServers, !.msg = Nil]
  BY <1>1 DEF RS!Flights, RS!Batches
<1>3. f.owner = s.flight.owner /\ f.dups = s.flight.dups /\ f.waiters = s.flight.waiters /\ f.msg = Nil
  BY <1>1, <1>2 DEF RS!Flights
<1>4. s' = [s EXCEPT !.flight = f]
  BY <1>1, <1>2 DEF RS!NextBatch, RsStates
<1>5. QED
  BY <1>1, <1>3, <1>4, RsFlies

\* Only what says nothing of the protocol has changed.
LEMMA RsSame ==
  ASSUME NEW t, RsInv(t), NEW v \in RsStates, v.q = t.q, v.request = t.request, v.flight = t.flight, RsCache(v),
         \A d \in RS!Calls : v.call[d].pc = t.call[d].pc /\ v.call[d].runs = t.call[d].runs /\ v.call[d].got = t.call[d].got
  PROVE  RsInv(v)
<1>1. t \in RsStates /\ (t.flight # Nil => t.flight.owner \in RS!Calls /\ t.flight.waiters \subseteq RS!Calls)
  BY DEF RsInv, RsStates, RS!Flights
<1>2. RsFlight(v)
  BY <1>1 DEF RsInv, RsFlight, RsWaits, RsClean
<1>3. \A d \in RS!Calls : RsCall(v, d)
  BY DEF RsInv, RsCall, RsWaits, RsClean
<1>4. \A r \in RS!Requests : RsRequest(v, r)
  BY RsHalves DEF RsInv, RsRequest, RsClean
<1>5. QED
  BY <1>2, <1>3, <1>4 DEF RsInv

LEMMA RsEnds == ASSUME RsInv(s), NEW ttl \in DnsTTLs, RS!Ends(ttl) PROVE RsInv(s')
<1>1. s \in RsStates /\ s.flight # Nil /\ s.flight \in RS!Flights
  BY DEF RS!Ends, RsInv, RsStates
<1>2. PICK f \in RS!Flights : f = [s.flight EXCEPT !.ended = TRUE]
  BY <1>1 DEF RS!Flights
<1>3. /\ f.owner = s.flight.owner /\ f.dups = s.flight.dups /\ f.waiters = s.flight.waiters
      /\ f.msg = s.flight.msg /\ f.batch = s.flight.batch /\ f.owner \in RS!Calls
  BY <1>1, <1>2 DEF RS!Flights
<1>4. f.msg # Nil => f.msg.obj = f.owner /\ f.msg.from = f.batch
  BY <1>1, <1>3 DEF RsInv, RsFlight
<1>5. f.msg # Nil => RsClean(s, f.msg)
  BY <1>3, <1>4 DEF RS!Ends, RS!Refers, RsClean
<1>6. PICK u : u = [s EXCEPT !.flight = f]
  OBVIOUS
<1>7. RsInv(u)
  BY <1>1, <1>3, <1>4, <1>5, <1>6, RsFlies
<1>8. u \in RsStates /\ u.flight = f /\ u.q = s.q /\ u.cache = s.cache /\ u.call = s.call /\ u.now = s.now
  BY <1>1, <1>6, <1>7 DEF RsInv, RsStates
<1>9. CASE f.msg = Nil
  <2>1. u.call[f.owner] \in RsActive
    BY <1>3, <1>7, <1>8, ResolverNilAssumption DEF RsInv, RsFlight, RsStates, RsCalls
  <2>2. PICK n \in Nat : n = u.call[f.owner].retryNum + 1
    BY <2>1 DEF RsActive
  <2>3. PICK k : k = [u.call[f.owner] EXCEPT !.retryNum = n]
    OBVIOUS
  <2>4. /\ k \in RsCalls /\ k.pc = u.call[f.owner].pc /\ k.runs = u.call[f.owner].runs
        /\ k.got = u.call[f.owner].got
    BY <2>1, <2>3 DEF RsCalls, RsActive
  <2>5. s' = [s EXCEPT !.flight.ended = TRUE, !.call[f.owner].retryNum = @ + 1]
    BY <1>3, <1>9 DEF RS!Ends
  <2>6. s' = [u EXCEPT !.call[f.owner] = k]
    BY <1>1, <1>2, <1>6, <1>8, <2>2, <2>3, <2>5 DEF RsStates
  <2>7. /\ s' \in RsStates /\ s'.call[f.owner] = k /\ \A e \in RS!Calls \ {f.owner} : s'.call[e] = u.call[e]
        /\ s'.q = u.q /\ s'.cache = u.cache /\ s'.request = u.request /\ s'.flight = u.flight
    BY <1>3, <1>8, <2>4, <2>6, RsSetCall
  <2>8. RsCache(s')
    BY <1>7, <2>7 DEF RsInv, RsCache, RsClean
  <2>9. QED
    BY <1>7, <2>4, <2>7, <2>8, RsSame
<1>10. CASE f.msg # Nil
  <2>1. f.msg \in RS!Messages
    BY <1>10, <1>2 DEF RS!Flights
  <2>2. PICK m \in RS!Messages : m = RS!Copy(f.msg)
    BY <2>1 DEF RS!Copy, RS!Messages
  <2>3. m.obj = 0 /\ RsClean(s, m)
    BY <1>5, <1>10, <2>1, <2>2 DEF RS!Copy, RS!Messages, RsClean
  <2>4. PICK n \in Nat : n = s.now + ttl
    BY <1>1, ResolverAssumption DEF RsStates
  <2>5. PICK e \in RS!Entries : e = [msg |-> m, expires |-> n]
    BY DEF RS!Entries
  <2>6. CASE s.q.type = "unkept"
    <3>1. s' = u
      BY <1>1, <1>2, <1>3, <1>6, <1>10, <2>6 DEF RS!Ends, RS!PutMsgToCache, RsStates
    <3>2. QED
      BY <1>7, <3>1
  <2>7. CASE s.q.type # "unkept"
    <3>1. s' = [[s EXCEPT !.cache = e] EXCEPT !.flight.ended = TRUE]
      BY <1>3, <1>10, <2>2, <2>4, <2>5, <2>7 DEF RS!Ends, RS!PutMsgToCache
    <3>2. s' = [u EXCEPT !.cache = e]
      BY <1>1, <1>2, <1>6, <3>1 DEF RsStates
    <3>3. s' \in RsStates /\ s'.q = u.q /\ s'.request = u.request /\ s'.flight = u.flight /\ s'.call = u.call /\ s'.cache = e
      BY <1>8, <3>2 DEF RsStates
    <3>4. RsCache(s')
      BY <1>8, <2>3, <2>5, <3>3 DEF RsCache, RsClean
    <3>5. QED
      BY <1>7, <3>3, <3>4, RsSame
  <2>8. QED
    BY <2>6, <2>7
<1>11. QED
  BY <1>9, <1>10

LEMMA RsDeliver == ASSUME RsInv(s), RS!Deliver PROVE RsInv(s')
<1> DEFINE f == s.flight
<1>1. s \in RsStates /\ f # Nil /\ f \in RS!Flights /\ f.ended
  BY DEF RS!Deliver, RsInv, RsStates
<1>2. f.owner \in RS!Calls /\ f.waiters \subseteq RS!Calls
  BY <1>1 DEF RS!Flights
<1>3. s.call[f.owner] \in RsActive
  BY <1>1, <1>2 DEF RsInv, RsFlight, RsStates, RsCalls
<1>4. PICK n \in Int : n = s.call[f.owner].retryNum - 1
  BY <1>3 DEF RsActive
<1>a. (f.dups > 0) \in BOOLEAN
  OBVIOUS
<1>b. PICK b \in BOOLEAN : b = (f.dups > 0)
  BY <1>a, Zenon
<1>5. PICK res : res = [msg |-> f.msg, ret |-> n, shared |-> b]
  OBVIOUS
<1>6. res \in RS!Results /\ res # Nil
  BY <1>1, <1>5, ResolverNilAssumption DEF RS!Results, RS!Flights
<1>7. res.msg = f.msg /\ (res.shared \/ f.dups = 0)
  BY <1>1, <1>5, <1>b DEF RS!Flights
<1>8. PICK calls : calls = [c \in RS!Calls |-> IF c \notin f.waiters THEN s.call[c] ELSE [s.call[c] EXCEPT !.got = res]]
  OBVIOUS
<1>9. s' = [s EXCEPT !.flight = Nil, !.call = calls]
  BY <1>4, <1>5, <1>8, <1>b DEF RS!Deliver
<1>10. ASSUME NEW c \in f.waiters
       PROVE  /\ calls[c] \in RsCalls /\ calls[c].pc = s.call[c].pc /\ calls[c].runs = s.call[c].runs
              /\ calls[c].got = res
  <2>1. c \in RS!Calls /\ s.call[c] \in RsActive
    BY <1>1, <1>2 DEF RsInv, RsFlight, RsWaits, RsStates, RsCalls
  <2>2. calls[c] = [s.call[c] EXCEPT !.got = res]
    BY <1>8, <2>1
  <2>3. QED
    BY <1>6, <2>1, <2>2 DEF RsActive, RsCalls
<1>11. \A c \in RS!Calls \ f.waiters : calls[c] = s.call[c]
  BY <1>8
<1>12. calls \in [RS!Calls -> RsCalls]
  <2>1. \A c \in RS!Calls : calls[c] \in RsCalls
    BY <1>1, <1>10, <1>11 DEF RsStates
  <2>2. QED
    BY <1>8, <2>1
<1> HIDE DEF f
<1>13. /\ s' \in RsStates /\ s'.q = s.q /\ s'.cache = s.cache /\ s'.request = s.request
       /\ s'.flight = Nil /\ s'.call = calls
  BY <1>1, <1>9, <1>12 DEF RsStates
<1>14. ASSUME NEW c \in RS!Calls PROVE RsCall(s', c)
  <2>1. RsCall(s, c)
    BY DEF RsInv
  <2>2. CASE c \in f.waiters
    <3>1. RsWaits(s, c)
      BY <1>1, <2>2 DEF RsInv, RsFlight, f
    <3>2. f.msg # Nil => RsClean(s, f.msg) /\ f.msg.obj = f.owner /\ (f.dups = 0 => c = f.owner)
      BY <1>1, <2>2 DEF RsInv, RsFlight, f
    <3>3. s'.call[c].pc = s.call[c].pc /\ s'.call[c].runs = s.call[c].runs /\ s'.call[c].got = res
      BY <1>10, <1>13, <2>2
    <3>4. QED
      BY <1>6, <1>7, <1>13, <2>1, <3>1, <3>2, <3>3 DEF RsCall, RsWaits, RsClean
  <2>3. CASE c \notin f.waiters
    BY <1>11, <1>13, <2>1, <2>3 DEF RsCall, RsWaits, RsClean, f
  <2>4. QED
    BY <2>2, <2>3
<1>15. ASSUME NEW r \in RS!Requests PROVE RsRequest(s', r)
  <2>1. \A c \in RS!Calls : s'.call[c].pc = s.call[c].pc
    BY <1>10, <1>11, <1>13
  <2>2. QED
    BY <1>13, <2>1, RsHalves DEF RsInv, RsRequest, RsClean
<1>16. RsFlight(s') /\ RsCache(s')
  BY <1>13 DEF RsInv, RsFlight, RsCache, RsClean
<1>17. QED
  BY <1>13, <1>14, <1>15, <1>16 DEF RsInv

LEMMA RsTick == ASSUME RsInv(s), RS!Tick PROVE RsInv(s')
<1>1. s \in RsStates
  BY DEF RsInv
<1>2. PICK n \in Nat : n = s.now + 1
  BY <1>1 DEF RsStates
<1>3. s' = [s EXCEPT !.now = n]
  BY <1>2 DEF RS!Tick
<1>4. /\ s' \in RsStates /\ s'.q = s.q /\ s'.cache = s.cache /\ s'.request = s.request
      /\ s'.flight = s.flight /\ s'.call = s.call
  BY <1>1, <1>3 DEF RsStates
<1>5. QED
  BY <1>4, RsSame DEF RsInv, RsCache, RsClean

LEMMA RsStep == ASSUME RsInv(s), RS!Next PROVE RsInv(s')
BY RsTick, RsHit, RsMiss, RsGiveUp, RsAnswer, RsFails, RsNextBatch, RsEnds, RsDeliver, RsExchange, RsReceive, RsMonitor
   DEF RS!Next, RS!Proceeds, RS!TimesOut

\* What an exchange returns, keeps and leaves, for any servers, filters and
\* times to live, and however the exchanges meet.
THEOREM ResolverKept == RunSpec => []ResolverAnswers
<1>1. RunInit => (active = "resolver" => RsInv(s))
  BY RsInitially DEF RunInit
<1>2. (active = "resolver" => RsInv(s)) /\ [RunNext]_<<active, s>> => (active = "resolver" => RsInv(s))'
  <2>1. ASSUME active = "resolver", RsInv(s), UNCHANGED <<active, s>> PROVE RsInv(s')
    <3>1. s' = s
      BY <2>1
    <3>2. QED
      BY <2>1, <3>1
  <2>2. QED
    BY <2>1, RsStep DEF RunNext
<1>3. (active = "resolver" => RsInv(s)) => ResolverAnswers
  <2>1. SUFFICES ASSUME active = "resolver", RsInv(s) PROVE ResolverAnswers
    BY DEF ResolverAnswers
  <2>2. RS!NobodyStranded
    BY <2>1 DEF RsInv, RsCall, RsWaits, RS!NobodyStranded
  <2>3. RS!NoMessageShared
    <3>1. s.cache # Nil => s.cache.msg.obj = 0
      BY <2>1 DEF RsInv, RsCache
    <3>2. \A r \in RS!Answered : r \in RS!Requests /\ s.request[r].msg.obj \in {0, 2 * r - 1}
      BY <2>1 DEF RsInv, RsRequest, RS!Answered
    <3>3. \A r1, r2 \in RS!Requests : 2 * r1 - 1 = 2 * r2 - 1 => r1 = r2
      BY DEF RS!Requests
    <3>4. QED
      BY <3>1, <3>2, <3>3 DEF RS!NoMessageShared
  <2>4. RS!FilterIsKept
    BY <2>1 DEF RsInv, RsCache, RsRequest, RsClean, RS!FilterIsKept, RS!Answered
  <2>5. RS!AtMostOneRetry
    <3>1. ASSUME NEW c \in RS!Calls, s.call[c].pc # "new" PROVE s.call[c].runs <= 2
      <4>1. s.call[c] \in RsActive /\ RsCall(s, c)
        BY <2>1, <3>1 DEF RsInv, RsStates, RsCalls
      <4>2. QED
        BY <4>1 DEF RsActive, RsCall, RsWaits
    <3>2. QED
      BY <3>1 DEF RS!AtMostOneRetry
  <2>6. QED
    BY <2>1, <2>2, <2>3, <2>4, <2>5 DEF ResolverAnswers
<1>4. QED
  BY <1>1, <1>2, <1>3, PTL DEF RunSpec

-----------------------------------------------------------------------------
(* DNS servers that are learnt by DHCP                                     *)
(*                                                                         *)
(* Before the first query there is nothing; after it there are servers, an *)
(* error, or a request under way, made for the address seen last unless it *)
(* changed under the request.                                              *)

DhcpAddr == DhcpNetworks \cup {Nil}

DhcpType ==
  s \in [now : Nat, changes : Nat, net : DhcpAddr, ifaceInvalidate : Nat, dnsInvalidate : Nat,
         ifaceAddr : DhcpAddr, done : BOOLEAN, learning : DhcpAddr, skipped : BOOLEAN,
         clients : DhcpAddr, err : BOOLEAN, query : [DhcpQueries -> {"new", "loop", "wait", "done"}]]

\* Nothing is there, and no error, only while the request for it is under way,
\* or before the first query.
DhcpSomething ==
  s.clients = Nil /\ ~s.err /\ ~s.done =>
    s.ifaceInvalidate = 0 /\ s.dnsInvalidate = 0 /\ \A q \in DhcpQueries : s.query[q] = "new"

DhcpAddress ==
  /\ s.done => s.learning # Nil
  /\ s.done /\ ~s.skipped => s.learning = s.ifaceAddr
  /\ ~s.done /\ ~s.skipped /\ s.clients # Nil => s.clients = s.ifaceAddr

DhcpInv == DhcpType /\ DhcpSomething /\ DhcpAddress

LEMMA DhcpInitially == ASSUME DH!DhcpInit PROVE DhcpInv
BY ServiceAssumption DEF DH!DhcpInit, DhcpInv, DhcpType, DhcpSomething, DhcpAddress, DhcpAddr


LEMMA DhcpStep == ASSUME DhcpInv, DH!DhcpNext PROVE DhcpInv'
<1> USE ServiceAssumption DEF DhcpInv
<1>1. ASSUME NEW q \in DhcpQueries, NEW same \in BOOLEAN, DH!Invalidate(q, same) PROVE DhcpInv'
  <2>0. s.now + IfaceTTL \in Nat /\ s.now + DhcpTTL \in Nat
    BY DEF DhcpType
  <2>1. CASE s.now < s.ifaceInvalidate
    <3>1. s' = [s EXCEPT !.query[q] = "loop"]
      BY <1>1, <2>1 DEF DH!Invalidate
    <3>2. DhcpType'
      BY <3>1 DEF DhcpType
    <3>3. s.clients # Nil \/ s.err \/ s.done
      BY <2>1 DEF DhcpSomething, DhcpType
    <3>4. QED
      BY <3>1, <3>2, <3>3 DEF DhcpSomething, DhcpAddress, DhcpType
  <2>2. CASE ~(s.now < s.ifaceInvalidate) /\ s.net = Nil
    <3>1. PICK t \in Nat : s' = [s EXCEPT !.query[q] = "loop", !.ifaceInvalidate = t, !.err = TRUE]
      BY <1>1, <2>2, <2>0, Zenon DEF DH!Invalidate
    <3>2. DhcpType'
      BY <3>1 DEF DhcpType
    <3>4. QED
      BY <3>1, <3>2 DEF DhcpSomething, DhcpAddress, DhcpType
  <2>3. CASE /\ ~(s.now < s.ifaceInvalidate) /\ s.net # Nil
             /\ s.now < s.dnsInvalidate /\ s.ifaceAddr = s.net /\ same
    <3>1. PICK t \in Nat : s' = [s EXCEPT !.query[q] = "loop", !.ifaceInvalidate = t]
      BY <1>1, <2>3, <2>0, Zenon DEF DH!Invalidate
    <3>2. DhcpType'
      BY <3>1 DEF DhcpType
    <3>3. s.clients # Nil \/ s.err \/ s.done
      BY <2>3 DEF DhcpSomething, DhcpType
    <3>4. QED
      BY <3>1, <3>2, <3>3 DEF DhcpSomething, DhcpAddress, DhcpType
  <2>4. CASE /\ ~(s.now < s.ifaceInvalidate) /\ s.net # Nil
             /\ ~(s.now < s.dnsInvalidate /\ s.ifaceAddr = s.net /\ same)
    <3>0. s' = [s EXCEPT !.query[q] = "loop", !.ifaceInvalidate = s.now + IfaceTTL,
                         !.dnsInvalidate = s.now + DhcpTTL, !.ifaceAddr = s.net, !.done = TRUE,
                         !.learning = IF s.done THEN s.learning ELSE s.net, !.skipped = s.done]
      BY <1>1, <2>4 DEF DH!Invalidate
    <3>1. PICK t \in Nat, u \in Nat :
            s' = [s EXCEPT !.query[q] = "loop", !.ifaceInvalidate = t,
                           !.dnsInvalidate = u, !.ifaceAddr = s.net, !.done = TRUE,
                           !.learning = IF s.done THEN s.learning ELSE s.net, !.skipped = s.done]
      BY <2>0, <3>0, Zenon
    <3>2. DhcpType'
      BY <3>1 DEF DhcpType
    <3>4. QED
      BY <2>4, <3>1, <3>2 DEF DhcpSomething, DhcpAddress, DhcpType
  <2>5. QED
    BY <2>1, <2>2, <2>3, <2>4
<1>2. ASSUME NEW q \in DhcpQueries, DH!Loop(q) \/ DH!Woken(q) \/ DH!GiveUp(q) \/ DH!NextQuery(q) PROVE DhcpInv'
  <2>1. PICK w \in {"new", "loop", "wait", "done"} : s' = [s EXCEPT !.query[q] = w]
    BY <1>2 DEF DH!Loop, DH!Woken, DH!GiveUp, DH!NextQuery
  <2>2. s.query[q] # "new"
    BY <1>2 DEF DH!Loop, DH!Woken, DH!GiveUp, DH!NextQuery, DH!QueryAt
  <2>3. DhcpType'
    BY <2>1 DEF DhcpType
  <2>4. QED
    BY <2>1, <2>2, <2>3 DEF DhcpSomething, DhcpAddress, DhcpType
<1>3. ASSUME NEW ok \in BOOLEAN, DH!Learn(ok) PROVE DhcpInv'
  BY <1>3 DEF DH!Learn, DhcpType, DhcpSomething, DhcpAddress, DhcpAddr
<1>4. CASE DH!Tick
  BY <1>4 DEF DH!Tick, DhcpType, DhcpSomething, DhcpAddress, DhcpAddr
<1>5. ASSUME NEW n \in DhcpNetworks \cup {Nil}, DH!Change(n) PROVE DhcpInv'
  <2>1. s' = [s EXCEPT !.changes = s.changes + 1, !.net = n]
    BY <1>5 DEF DH!Change
  <2>2. s.changes + 1 \in Nat /\ n \in DhcpAddr
    BY <1>5 DEF DhcpType, DhcpAddr
  <2>3. DhcpType'
    BY <2>1, <2>2 DEF DhcpType
  <2>4. QED
    BY <2>1, <2>3 DEF DhcpSomething, DhcpAddress, DhcpType
<1>6. QED
  BY <1>1, <1>2, <1>3, <1>4, <1>5 DEF DH!DhcpNext

\* Nobody waits for DHCP servers that are not asked for, and the servers in use
\* are those of the address of the interface, for any networks and times.
THEOREM DhcpKept == RunSpec => []DhcpServersCurrent
<1>1. RunInit => (active = "dhcp" => DhcpInv)
  BY DhcpInitially DEF RunInit
<1>2. (active = "dhcp" => DhcpInv) /\ [RunNext]_<<active, s>> => (active = "dhcp" => DhcpInv)'
  <2>1. ASSUME active = "dhcp", DhcpInv, UNCHANGED <<active, s>> PROVE DhcpInv'
    BY <2>1 DEF DhcpInv, DhcpType, DhcpSomething, DhcpAddress
  <2>2. QED
    BY <2>1, DhcpStep DEF RunNext
<1>3. (active = "dhcp" => DhcpInv) => DhcpServersCurrent
  BY DEF DhcpServersCurrent, DhcpInv, DhcpType, DhcpSomething, DhcpAddress,
         DH!WaitsForSomething, DH!ServersOfAddress, DH!QueryAt
<1>4. QED
  BY <1>1, <1>2, <1>3, PTL DEF RunSpec

-----------------------------------------------------------------------------
(* The listeners                                                           *)
(*                                                                         *)
(* Each step touches the sockets of one owner.  What a kind of listener    *)
(* has in its variables says which sockets it has; no two sockets are on   *)
(* the same port, nor one of another program's; so a port that nobody      *)
(* contests can be listened to, and one that is closed can be opened again.*)

LnPort == Nat \ {0}
LnAddr == {"any", "local", "text"} \X Nat
LnSockets == (L!Kinds \cup {"auto", "tunnel"} \cup ListenerNames) \X {"tcp", "udp"} \X Nat

LnApplying ==
  [pc : {0}] \cup
  [pc : 1 .. 15, cfg : ListenerConfigs, force : BOOLEAN, todo : SUBSET ListenerNames, alone : BOOLEAN,
   contested : SUBSET L!Kinds]
LnPatching ==
  [pc : {0}] \cup [pc : {1}, body : ListenerPatches, alone : BOOLEAN, before : SUBSET L!Kinds] \cup
  [pc : 2 .. 11, body : ListenerPatches, alone : BOOLEAN, before : SUBSET L!Kinds, ports : [L!Kinds -> Nat]]

LnStates ==
  [lan : BOOLEAN, tcp : [L!Kinds -> LnAddr \cup {Nil}], udp : [L!Pairs -> LnAddr \cup {Nil}], lastTuic : Nat,
   tun : Nat \cup {Nil}, lastTun : Nat, auto : BOOLEAN, tc : BOOLEAN,
   inbound : [ListenerNames -> Nat \cup {Nil}], tunnels : SUBSET ({"tcp", "udp"} \X Nat),
   open : SUBSET LnSockets, taken : SUBSET ({"tcp", "udp"} \X Nat), tunWorks : BOOLEAN,
   faults : Nat, requests : Nat, failed : SUBSET ListenerNames, apply : LnApplying, patch : LnPatching]

\* Kind k has the sockets net of those that it may have.
LnHas(t, k, nets) == \A x \in t.open : x[1] = k => x[2] \in nets /\ x[3] = t.tcp[k][2]
LnOpens(t, k, nets) == \A net \in nets : <<k, net, t.tcp[k][2]>> \in t.open

\* A listener that is off; one that listens; and, of those that have a UDP
\* socket too, one that has it, one without it, and one that has lost both.
LnKind(t, k) ==
  \/ /\ t.tcp[k] = Nil /\ (k \in L!Pairs => t.udp[k] = Nil)
     /\ \A x \in t.open : x[1] # k
  \/ /\ t.tcp[k] # Nil /\ t.tcp[k][2] # 0
     /\ \/ k \in L!Singles /\ LnHas(t, k, {"tcp"}) /\ LnOpens(t, k, {"tcp"})
        \/ k \in L!Pairs /\ t.udp[k] = t.tcp[k] /\ LnHas(t, k, {"tcp", "udp"}) /\ LnOpens(t, k, {"tcp", "udp"})
        \/ k \in {"redir", "tproxy"} /\ t.udp[k] = Nil /\ LnHas(t, k, {"tcp"}) /\ LnOpens(t, k, {"tcp"})
        \/ k = "mixed" /\ t.udp[k] = Nil /\ \A x \in t.open : x[1] # k

LnOwned(t) ==
  \A x \in t.open :
    /\ x[1] \in ListenerNames => x[2] = "tcp" /\ t.inbound[x[1]] = x[3]
    /\ x[1] = "auto" => t.auto /\ x = <<"auto", "tcp", L!AutoPort>>
    /\ x[1] = "tunnel" => <<x[2], x[3]>> \in t.tunnels

LnApart(t) ==
  /\ \A x, y \in t.open : x[2] = y[2] /\ x[3] = y[3] => x = y
  /\ \A x \in t.open : <<x[2], x[3]>> \notin t.taken

LnNamed(t) ==
  \A n \in ListenerNames \ t.failed : t.inbound[n] # Nil => <<n, "tcp", t.inbound[n]>> \in t.open

LnTuic(t) == t.tcp["tuic"] # Nil => t.tcp["tuic"][2] = t.lastTuic

\* What holds of the listeners, whoever moves
LnBase(t) ==
  /\ t \in LnStates
  /\ \A k \in L!Kinds : LnKind(t, k)
  /\ LnOwned(t) /\ LnApart(t) /\ LnNamed(t) /\ LnTuic(t)

\* The step of ApplyConfig at which a kind gets its port
LnTurn == [http |-> 3, socks |-> 4, redir |-> 5, tproxy |-> 7, mixed |-> 8, ss |-> 9, vmess |-> 10, tuic |-> 11]

LnAlone(t) ==
  /\ t.apply.pc # 0 => t.apply.todo \subseteq DOMAIN t.apply.cfg.inbound /\ (t.apply.alone => t.patch.pc = 0)
  /\ t.patch.pc # 0 => (t.patch.alone => t.apply.pc = 0)

LnForced(t) ==
  t.apply.pc > 1 => (t.apply.force /\ t.apply.alone =>
    \A k \in L!Kinds : t.apply.pc > LnTurn[k] =>
      /\ t.apply.cfg[k] = 0 => \A x \in t.open : x[1] # k
      /\ t.apply.cfg[k] # 0 /\ k \notin t.apply.contested => <<k, "tcp", t.apply.cfg[k]>> \in t.open)

LnPatched(t) ==
  /\ t.patch.pc = 1 => (t.patch.alone =>
       \A k \in t.patch.before : t.tcp[k] # Nil /\ <<k, "tcp", t.tcp[k][2]>> \in t.open)
  /\ t.patch.pc > 1 => (t.patch.alone =>
       \A k \in t.patch.before \ DOMAIN t.patch.body : <<k, "tcp", t.patch.ports[k]>> \in t.open)

LnInv(t) == LnBase(t) /\ LnAlone(t) /\ LnForced(t) /\ LnPatched(t)

\* u is t but for the sockets and variables of kind k.
LnSame(t, u) ==
  /\ u.lan = t.lan /\ u.lastTuic = t.lastTuic /\ u.tun = t.tun /\ u.lastTun = t.lastTun /\ u.auto = t.auto
  /\ u.tc = t.tc /\ u.inbound = t.inbound /\ u.tunnels = t.tunnels /\ u.taken = t.taken
  /\ u.tunWorks = t.tunWorks /\ u.faults = t.faults /\ u.requests = t.requests /\ u.failed = t.failed
  /\ u.apply = t.apply /\ u.patch = t.patch

LnOnly(t, u, k) ==
  /\ u \in LnStates /\ LnSame(t, u)
  /\ \A j \in L!Kinds \ {k} : u.tcp[j] = t.tcp[j]
  /\ \A j \in L!Pairs \ {k} : u.udp[j] = t.udp[j]
  /\ \A x \in LnSockets : x[1] # k => (x \in u.open <=> x \in t.open)

\* t with the sockets o, and the listener a in a variable of kind k
LnWithTCP(t, o, k, a) == [[t EXCEPT !.open = o] EXCEPT !.tcp[k] = a]
LnWithUDP(t, o, k, a) == [[t EXCEPT !.open = o] EXCEPT !.udp[k] = a]

\* o has the sockets of t of the other owners.
LnElsewhere(t, o, k) == \A x \in LnSockets : x[1] # k => (x \in o <=> x \in t.open)

LnNone(t, k) == \A x \in t.open : x[1] # k

LEMMA LnKinds == L!Pairs \subseteq L!Kinds /\ L!Singles \subseteq L!Kinds /\ L!Kinds = L!Pairs \cup L!Singles /\ L!Pairs \cap L!Singles = {}
BY DEF L!Kinds, L!Pairs, L!Singles, L!Texts

LEMMA LnSetTCP ==
  ASSUME NEW t \in LnStates, NEW k \in L!Kinds, NEW a \in LnAddr \cup {Nil}, NEW o \in SUBSET LnSockets,
         LnElsewhere(t, o, k)
  PROVE  LET v == LnWithTCP(t, o, k, a) IN LnOnly(t, v, k) /\ v.open = o /\ v.tcp[k] = a /\ v.udp = t.udp
<1>1. PICK f \in [L!Kinds -> LnAddr \cup {Nil}] : f = [t.tcp EXCEPT ![k] = a]
  BY DEF LnStates
<1>2. f[k] = a /\ \A j \in L!Kinds \ {k} : f[j] = t.tcp[j]
  BY <1>1 DEF LnStates
<1>3. PICK u : u = [t EXCEPT !.open = o, !.tcp = f]
  OBVIOUS
<1>4. u = LnWithTCP(t, o, k, a)
  BY <1>1, <1>3 DEF LnStates, LnWithTCP
<1>5. u \in LnStates /\ u.open = o /\ u.tcp = f /\ u.udp = t.udp /\ LnSame(t, u)
  BY <1>3 DEF LnStates, LnSame
<1>6. QED
  BY <1>2, <1>4, <1>5 DEF LnOnly, LnElsewhere

LEMMA LnSetUDP ==
  ASSUME NEW t \in LnStates, NEW k \in L!Pairs, NEW a \in LnAddr \cup {Nil}, NEW o \in SUBSET LnSockets,
         LnElsewhere(t, o, k)
  PROVE  LET v == LnWithUDP(t, o, k, a) IN LnOnly(t, v, k) /\ v.open = o /\ v.udp[k] = a /\ v.tcp = t.tcp
<1>1. PICK f \in [L!Pairs -> LnAddr \cup {Nil}] : f = [t.udp EXCEPT ![k] = a]
  BY DEF LnStates
<1>2. f[k] = a /\ \A j \in L!Pairs \ {k} : f[j] = t.udp[j]
  BY <1>1 DEF LnStates
<1>3. PICK u : u = [t EXCEPT !.open = o, !.udp = f]
  OBVIOUS
<1>4. u = LnWithUDP(t, o, k, a)
  BY <1>1, <1>3 DEF LnStates, LnWithUDP
<1>5. u \in LnStates /\ u.open = o /\ u.udp = f /\ u.tcp = t.tcp /\ LnSame(t, u)
  BY <1>3 DEF LnStates, LnSame
<1>6. QED
  BY <1>2, <1>4, <1>5 DEF LnOnly, LnElsewhere

LEMMA LnOnlyAgain ==
  ASSUME NEW t, NEW u, NEW v, NEW k, LnOnly(t, u, k), LnOnly(u, v, k)
  PROVE  LnOnly(t, v, k)
BY DEF LnOnly, LnSame

LEMMA LnOnlySame == ASSUME NEW t \in LnStates, NEW k PROVE LnOnly(t, t, k)
BY DEF LnOnly, LnSame

\* Closing what has another address
LEMMA LnCloseTCP ==
  ASSUME NEW t \in LnStates, NEW k \in L!Kinds, NEW addr,
         NEW u, u = L!CloseTCPUnless(t, k, addr)
  PROVE  /\ LnOnly(t, u, k) /\ u.udp = t.udp
         /\ t.tcp[k] \in {Nil, addr} => u = t
         /\ t.tcp[k] \notin {Nil, addr} =>
              u.tcp[k] = Nil /\ u.open = t.open \ {<<k, "tcp", t.tcp[k][2]>>}
<1>1. CASE t.tcp[k] \in {Nil, addr}
  BY <1>1, LnOnlySame DEF L!CloseTCPUnless
<1>2. CASE t.tcp[k] \notin {Nil, addr}
  <2>1. PICK o \in SUBSET LnSockets : o = t.open \ {<<k, "tcp", t.tcp[k][2]>>}
    BY DEF LnStates
  <2>2. u = LnWithTCP(t, o, k, Nil)
    BY <1>2, <2>1 DEF L!CloseTCPUnless, L!CloseSocket, LnWithTCP
  <2>3. LnElsewhere(t, o, k)
    BY <2>1 DEF LnElsewhere
  <2>4. Nil \in LnAddr \cup {Nil}
    OBVIOUS
  <2>5. LnOnly(t, u, k) /\ u.open = o /\ u.tcp[k] = Nil /\ u.udp = t.udp
    BY <2>2, <2>3, <2>4, LnSetTCP
  <2>6. QED
    BY <1>2, <2>1, <2>5
<1>3. QED
  BY <1>1, <1>2

LEMMA LnCloseUDP ==
  ASSUME NEW t \in LnStates, NEW k \in L!Pairs, NEW addr,
         NEW u, u = L!CloseUDPUnless(t, k, addr)
  PROVE  /\ LnOnly(t, u, k) /\ u.tcp = t.tcp
         /\ t.udp[k] \in {Nil, addr} => u = t
         /\ t.udp[k] \notin {Nil, addr} =>
              u.udp[k] = Nil /\ u.open = t.open \ {<<k, "udp", t.udp[k][2]>>}
<1>1. CASE t.udp[k] \in {Nil, addr}
  BY <1>1, LnOnlySame DEF L!CloseUDPUnless
<1>2. CASE t.udp[k] \notin {Nil, addr}
  <2>1. PICK o \in SUBSET LnSockets : o = t.open \ {<<k, "udp", t.udp[k][2]>>}
    BY DEF LnStates
  <2>2. u = LnWithUDP(t, o, k, Nil)
    BY <1>2, <2>1 DEF L!CloseUDPUnless, L!CloseSocket, LnWithUDP
  <2>3. LnElsewhere(t, o, k)
    BY <2>1 DEF LnElsewhere
  <2>4. Nil \in LnAddr \cup {Nil}
    OBVIOUS
  <2>5. LnOnly(t, u, k) /\ u.open = o /\ u.udp[k] = Nil /\ u.tcp = t.tcp
    BY <2>2, <2>3, <2>4, LnSetUDP
  <2>6. QED
    BY <1>2, <2>1, <2>5
<1>3. QED
  BY <1>1, <1>2

\* New
LEMMA LnNewTCP ==
  ASSUME NEW t \in LnStates, NEW k \in L!Kinds, NEW addr \in LnAddr,
         NEW u, u = L!NewTCP(t, k, addr)
  PROVE  /\ LnOnly(t, u, k) /\ u.udp = t.udp
         /\ L!Free(t, "tcp", addr[2]) => u.tcp[k] = addr /\ u.open = t.open \cup {<<k, "tcp", addr[2]>>}
         /\ ~L!Free(t, "tcp", addr[2]) => u.tcp[k] = Nil /\ u.open = t.open
<1>1. CASE L!Free(t, "tcp", addr[2])
  <2>0. addr[2] \in Nat
    BY DEF LnAddr
  <2>a. <<k, "tcp", addr[2]>> \in LnSockets
    BY <2>0 DEF LnSockets
  <2>1. PICK o \in SUBSET LnSockets : o = t.open \cup {<<k, "tcp", addr[2]>>}
    BY <2>a DEF LnStates
  <2>2. u = LnWithTCP(t, o, k, addr)
    BY <1>1, <2>1 DEF L!NewTCP, L!OpenSocket, LnWithTCP
  <2>3. LnElsewhere(t, o, k)
    BY <2>1 DEF LnElsewhere
  <2>4. addr \in LnAddr \cup {Nil}
    OBVIOUS
  <2>5. LnOnly(t, u, k) /\ u.open = o /\ u.tcp[k] = addr /\ u.udp = t.udp
    BY <2>2, <2>3, <2>4, LnSetTCP
  <2>6. QED
    BY <1>1, <2>1, <2>5
<1>2. CASE ~L!Free(t, "tcp", addr[2])
  <2>1. u = LnWithTCP(t, t.open, k, Nil)
    BY <1>2 DEF L!NewTCP, LnStates, LnWithTCP
  <2>2. t.open \in SUBSET LnSockets
    BY DEF LnStates
  <2>3. Nil \in LnAddr \cup {Nil} /\ LnElsewhere(t, t.open, k)
    BY DEF LnElsewhere
  <2>4. LnOnly(t, u, k) /\ u.open = t.open /\ u.tcp[k] = Nil /\ u.udp = t.udp
    BY <2>1, <2>2, <2>3, LnSetTCP
  <2>5. QED
    BY <1>2, <2>4
<1>3. QED
  BY <1>1, <1>2

LEMMA LnNewUDP ==
  ASSUME NEW t \in LnStates, NEW k \in L!Pairs, NEW addr \in LnAddr,
         NEW u, u = L!NewUDP(t, k, addr)
  PROVE  /\ LnOnly(t, u, k) /\ u.tcp = t.tcp
         /\ L!Free(t, "udp", addr[2]) => u.udp[k] = addr /\ u.open = t.open \cup {<<k, "udp", addr[2]>>}
         /\ ~L!Free(t, "udp", addr[2]) => u.udp[k] = Nil /\ u.open = t.open
<1>0. k \in L!Kinds
  BY LnKinds
<1>1. CASE L!Free(t, "udp", addr[2])
  <2>0. addr[2] \in Nat
    BY DEF LnAddr
  <2>a. <<k, "udp", addr[2]>> \in LnSockets
    BY <2>0, <1>0 DEF LnSockets
  <2>1. PICK o \in SUBSET LnSockets : o = t.open \cup {<<k, "udp", addr[2]>>}
    BY <2>a DEF LnStates
  <2>2. u = LnWithUDP(t, o, k, addr)
    BY <1>1, <2>1 DEF L!NewUDP, L!OpenSocket, LnWithUDP
  <2>3. LnElsewhere(t, o, k)
    BY <2>1 DEF LnElsewhere
  <2>4. addr \in LnAddr \cup {Nil}
    OBVIOUS
  <2>5. LnOnly(t, u, k) /\ u.open = o /\ u.udp[k] = addr /\ u.tcp = t.tcp
    BY <2>2, <2>3, <2>4, LnSetUDP
  <2>6. QED
    BY <1>1, <2>1, <2>5
<1>2. CASE ~L!Free(t, "udp", addr[2])
  <2>1. u = LnWithUDP(t, t.open, k, Nil)
    BY <1>2 DEF L!NewUDP, LnStates, LnWithUDP
  <2>2. t.open \in SUBSET LnSockets
    BY DEF LnStates
  <2>3. Nil \in LnAddr \cup {Nil} /\ LnElsewhere(t, t.open, k)
    BY DEF LnElsewhere
  <2>4. LnOnly(t, u, k) /\ u.open = t.open /\ u.udp[k] = Nil /\ u.tcp = t.tcp
    BY <2>1, <2>2, <2>3, LnSetUDP
  <2>5. QED
    BY <1>2, <2>4
<1>3. QED
  BY <1>1, <1>2

LEMMA LnAddrFacts == \A addr \in LnAddr : addr # Nil /\ addr[2] \in Nat
BY ListenersAssumption DEF LnAddr

LEMMA LnApartLess ==
  ASSUME NEW t, NEW u, LnApart(t), u.open \subseteq t.open, u.taken = t.taken
  PROVE  LnApart(u)
BY DEF LnApart

LEMMA LnClosedSingle ==
  ASSUME NEW t \in LnStates, NEW k \in L!Singles, LnKind(t, k), NEW addr \in LnAddr,
         NEW c, c = L!CloseTCPUnless(t, k, addr)
  PROVE  /\ LnOnly(t, c, k) /\ c.open \subseteq t.open
         /\ t.tcp[k] = addr => c = t
         /\ t.tcp[k] # addr => c.tcp[k] = Nil /\ LnNone(c, k)
<1>1. k \in L!Kinds /\ k \notin L!Pairs /\ k \notin {"redir", "tproxy", "mixed"}
  BY LnKinds DEF L!Pairs, L!Singles, L!Texts
<1>2. /\ LnOnly(t, c, k)
      /\ t.tcp[k] \in {Nil, addr} => c = t
      /\ t.tcp[k] \notin {Nil, addr} => c.tcp[k] = Nil /\ c.open = t.open \ {<<k, "tcp", t.tcp[k][2]>>}
  BY <1>1, LnCloseTCP
<1>3. t.open \subseteq LnSockets
  BY DEF LnStates
<1>4. CASE t.tcp[k] = addr
  BY <1>2, <1>4
<1>5. CASE t.tcp[k] = Nil
  BY <1>2, <1>5, LnAddrFacts DEF LnKind, LnNone
<1>6. CASE t.tcp[k] \notin {Nil, addr}
  <2>1. LnHas(t, k, {"tcp"})
    BY <1>1, <1>6 DEF LnKind
  <2>2. \A x \in t.open : x[1] = k => x = <<k, "tcp", t.tcp[k][2]>>
    BY <1>3, <2>1 DEF LnHas, LnSockets
  <2>3. QED
    BY <1>2, <1>6, <2>2 DEF LnNone
<1>7. QED
  BY <1>4, <1>5, <1>6

LEMMA LnClosedPair ==
  ASSUME NEW t \in LnStates, NEW k \in L!Pairs, LnKind(t, k), NEW addr \in LnAddr,
         NEW b, b = L!CloseTCPUnless(t, k, addr), NEW c, c = L!CloseUDPUnless(b, k, addr)
  PROVE  /\ LnOnly(t, c, k) /\ c.open \subseteq t.open
         /\ b.tcp[k] = c.tcp[k]
         /\ t.tcp[k] = addr => c = t /\ b = t
         /\ t.tcp[k] # addr => b.tcp[k] = Nil /\ c.tcp[k] = Nil /\ c.udp[k] = Nil /\ LnNone(c, k)
<1>1. k \in L!Kinds /\ k \notin L!Singles
  BY LnKinds
<1>2. /\ LnOnly(t, b, k) /\ b.udp = t.udp
      /\ t.tcp[k] \in {Nil, addr} => b = t
      /\ t.tcp[k] \notin {Nil, addr} => b.tcp[k] = Nil /\ b.open = t.open \ {<<k, "tcp", t.tcp[k][2]>>}
  BY <1>1, LnCloseTCP
<1>3. b \in LnStates
  BY <1>2 DEF LnOnly
<1>4. /\ LnOnly(b, c, k) /\ c.tcp = b.tcp
      /\ b.udp[k] \in {Nil, addr} => c = b
      /\ b.udp[k] \notin {Nil, addr} => c.udp[k] = Nil /\ c.open = b.open \ {<<k, "udp", b.udp[k][2]>>}
  BY <1>3, LnCloseUDP
<1>5. LnOnly(t, c, k)
  BY <1>2, <1>4, LnOnlyAgain
<1>6. t.open \subseteq LnSockets
  BY DEF LnStates
<1>7. t.udp[k] \in {Nil, t.tcp[k]}
  BY <1>1 DEF LnKind
<1>8. CASE t.tcp[k] = addr
  BY <1>2, <1>4, <1>5, <1>7, <1>8
<1>9. CASE t.tcp[k] = Nil
  BY <1>2, <1>4, <1>5, <1>7, <1>9, LnAddrFacts DEF LnKind, LnNone
<1>10. CASE t.tcp[k] \notin {Nil, addr}
  <2>1. CASE t.udp[k] = Nil
    <3>1. \A x \in t.open : x[1] = k => x = <<k, "tcp", t.tcp[k][2]>>
      BY <1>1, <1>6, <1>10, <2>1 DEF LnKind, LnHas, LnSockets
    <3>2. QED
      BY <1>2, <1>4, <1>5, <1>10, <2>1, <3>1 DEF LnNone
  <2>2. CASE t.udp[k] = t.tcp[k]
    <3>1. LnHas(t, k, {"tcp", "udp"})
      BY <1>1, <1>10, <2>2 DEF LnKind
    <3>2. \A x \in t.open : x[1] = k => x = <<k, "tcp", t.tcp[k][2]>> \/ x = <<k, "udp", t.udp[k][2]>>
      BY <1>6, <2>2, <3>1 DEF LnHas, LnSockets
    <3>3. QED
      BY <1>2, <1>4, <1>5, <1>10, <2>2, <3>2 DEF LnNone
  <2>3. QED
    BY <1>7, <2>1, <2>2
<1>11. QED
  BY <1>8, <1>9, <1>10

\* Kind k has no socket, and gets a listener, or nothing.
LEMMA LnStartTCP ==
  ASSUME NEW t \in LnStates, NEW k \in L!Kinds, LnNone(t, k), LnApart(t), NEW addr \in LnAddr,
         NEW u, u = L!NewTCP(t, k, addr)
  PROVE  /\ LnOnly(t, u, k) /\ u.udp = t.udp /\ LnApart(u)
         /\ L!Free(t, "tcp", addr[2]) => u.tcp[k] = addr /\ LnHas(u, k, {"tcp"}) /\ LnOpens(u, k, {"tcp"})
         /\ ~L!Free(t, "tcp", addr[2]) => u.tcp[k] = Nil /\ LnNone(u, k)
<1>1. /\ LnOnly(t, u, k) /\ u.udp = t.udp
      /\ L!Free(t, "tcp", addr[2]) => u.tcp[k] = addr /\ u.open = t.open \cup {<<k, "tcp", addr[2]>>}
      /\ ~L!Free(t, "tcp", addr[2]) => u.tcp[k] = Nil /\ u.open = t.open
  BY LnNewTCP
<1>2. u.taken = t.taken
  BY <1>1 DEF LnOnly, LnSame
<1>3. CASE L!Free(t, "tcp", addr[2])
  <2>1. LnApart(u)
    BY <1>1, <1>2, <1>3 DEF LnApart, L!Free
  <2>2. LnHas(u, k, {"tcp"}) /\ LnOpens(u, k, {"tcp"})
    BY <1>1, <1>3 DEF LnHas, LnOpens, LnNone
  <2>3. QED
    BY <1>1, <1>3, <2>1, <2>2
<1>4. CASE ~L!Free(t, "tcp", addr[2])
  BY <1>1, <1>2, <1>4, LnApartLess DEF LnNone
<1>5. QED
  BY <1>3, <1>4

\* A listener gets a UDP socket too, or not.
LEMMA LnStartUDP ==
  ASSUME NEW t \in LnStates, NEW k \in L!Pairs, LnHas(t, k, {"tcp"}), LnOpens(t, k, {"tcp"}), LnApart(t),
         NEW addr \in LnAddr, t.tcp[k] = addr, NEW u, u = L!NewUDP(t, k, addr)
  PROVE  /\ LnOnly(t, u, k) /\ u.tcp = t.tcp /\ LnApart(u)
         /\ L!Free(t, "udp", addr[2]) => u.udp[k] = addr /\ LnHas(u, k, {"tcp", "udp"}) /\ LnOpens(u, k, {"tcp", "udp"})
         /\ ~L!Free(t, "udp", addr[2]) => u.udp[k] = Nil /\ LnHas(u, k, {"tcp"}) /\ LnOpens(u, k, {"tcp"})
<1>1. /\ LnOnly(t, u, k) /\ u.tcp = t.tcp
      /\ L!Free(t, "udp", addr[2]) => u.udp[k] = addr /\ u.open = t.open \cup {<<k, "udp", addr[2]>>}
      /\ ~L!Free(t, "udp", addr[2]) => u.udp[k] = Nil /\ u.open = t.open
  BY LnNewUDP
<1>2. u.taken = t.taken
  BY <1>1 DEF LnOnly, LnSame
<1>3. CASE L!Free(t, "udp", addr[2])
  <2>1. LnApart(u)
    BY <1>1, <1>2, <1>3 DEF LnApart, L!Free
  <2>2. LnHas(u, k, {"tcp", "udp"}) /\ LnOpens(u, k, {"tcp", "udp"})
    BY <1>1, <1>3 DEF LnHas, LnOpens
  <2>3. QED
    BY <1>1, <1>3, <2>1, <2>2
<1>4. CASE ~L!Free(t, "udp", addr[2])
  BY <1>1, <1>2, <1>4, LnApartLess DEF LnHas, LnOpens
<1>5. QED
  BY <1>3, <1>4

\* The port is free for kind k, but for what it has itself.
LnMay(t, k, port) ==
  /\ <<"tcp", port>> \notin t.taken /\ \A x \in t.open : x[2] = "tcp" /\ x[3] = port => x[1] = k
  /\ k \in {"socks", "mixed"} =>
       <<"udp", port>> \notin t.taken /\ \A x \in t.open : x[2] = "udp" /\ x[3] = port => x[1] = k

LEMMA LnFreed ==
  ASSUME NEW t \in LnStates, NEW c, NEW k, NEW port, LnOnly(t, c, k), c.open \subseteq t.open, LnNone(c, k), LnMay(t, k, port)
  PROVE  L!Free(c, "tcp", port) /\ (k \in {"socks", "mixed"} => L!Free(c, "udp", port))
BY DEF LnOnly, LnSame, LnNone, LnMay, L!Free

\* What ReCreate of kind k does with a port
LnDid(t, u, k, port) ==
  /\ LnKind(u, k) /\ LnApart(u)
  /\ port = 0 => LnNone(u, k)
  /\ port # 0 /\ LnMay(t, k, port) => <<k, "tcp", port>> \in u.open

LEMMA LnSingle ==
  ASSUME NEW t \in LnStates, NEW k \in L!Singles, LnKind(t, k), LnApart(t), NEW addr \in LnAddr
  PROVE  LET u == L!ReCreateSingle(t, k, addr) IN LnOnly(t, u, k) /\ LnDid(t, u, k, addr[2]) /\ u.tcp[k] \in {Nil, addr}
<1>1. k \in L!Kinds /\ k \notin L!Pairs /\ k \notin {"redir", "tproxy", "mixed"}
  BY LnKinds DEF L!Pairs, L!Singles, L!Texts
<1>2. PICK c : c = L!CloseTCPUnless(t, k, addr)
  OBVIOUS
<1>3. /\ LnOnly(t, c, k) /\ c.open \subseteq t.open
      /\ t.tcp[k] = addr => c = t
      /\ t.tcp[k] # addr => c.tcp[k] = Nil /\ LnNone(c, k)
  BY <1>2, LnClosedSingle
<1>4. LnApart(c) /\ c \in LnStates
  BY <1>3, LnApartLess DEF LnOnly, LnSame
<1>5. CASE t.tcp[k] = addr
  <2>1. L!ReCreateSingle(t, k, addr) = t
    BY <1>2, <1>3, <1>5, LnAddrFacts DEF L!ReCreateSingle
  <2>2. addr[2] # 0 /\ <<k, "tcp", addr[2]>> \in t.open
    BY <1>1, <1>5, LnAddrFacts DEF LnKind, LnOpens
  <2>3. QED
    BY <2>1, <2>2, <1>4, <1>5, LnOnlySame DEF LnDid
<1>6. CASE t.tcp[k] # addr /\ addr[2] = 0
  <2>1. L!ReCreateSingle(t, k, addr) = c
    BY <1>2, <1>6 DEF L!ReCreateSingle
  <2>2. QED
    BY <1>1, <1>3, <1>4, <1>6, <2>1 DEF LnDid, LnKind, LnNone
<1>7. CASE t.tcp[k] # addr /\ addr[2] # 0
  <2>1. PICK u : u = L!NewTCP(c, k, addr)
    OBVIOUS
  <2>2. L!ReCreateSingle(t, k, addr) = u
    BY <1>2, <1>3, <1>7, <2>1 DEF L!ReCreateSingle
  <2>3. /\ LnOnly(c, u, k) /\ LnApart(u)
        /\ L!Free(c, "tcp", addr[2]) => u.tcp[k] = addr /\ LnHas(u, k, {"tcp"}) /\ LnOpens(u, k, {"tcp"})
        /\ ~L!Free(c, "tcp", addr[2]) => u.tcp[k] = Nil /\ LnNone(u, k)
    BY <1>1, <1>3, <1>4, <1>7, <2>1, LnStartTCP
  <2>4. LnOnly(t, u, k)
    BY <1>3, <2>3, LnOnlyAgain
  <2>5. LnMay(t, k, addr[2]) => L!Free(c, "tcp", addr[2])
    BY <1>3, <1>7, LnFreed
  <2>6. LnKind(u, k)
    BY <1>1, <1>7, <2>3, LnAddrFacts DEF LnKind, LnNone
  <2>7. LnMay(t, k, addr[2]) => <<k, "tcp", addr[2]>> \in u.open
    BY <2>3, <2>5 DEF LnOpens
  <2>8. QED
    BY <1>7, <2>2, <2>3, <2>4, <2>6, <2>7 DEF LnDid
<1>8. QED
  BY <1>5, <1>6, <1>7

LEMMA LnGenAddr ==
  ASSUME NEW t, NEW port \in Nat
  PROVE  L!GenAddr(t, port) \in LnAddr /\ L!GenAddr(t, port)[2] = port
BY DEF L!GenAddr, LnAddr

LEMMA LnUdpFree ==
  ASSUME NEW c, NEW v, NEW k, NEW port, LnOnly(c, v, k), LnHas(v, k, {"tcp"}), L!Free(c, "udp", port)
  PROVE  L!Free(v, "udp", port)
<1>1. ASSUME NEW x \in v.open, x[2] = "udp", x[3] = port PROVE FALSE
  <2>1. x[1] # k
    BY <1>1 DEF LnHas
  <2>2. x \in c.open
    BY <1>1, <2>1 DEF LnOnly, LnStates
  <2>3. QED
    BY <1>1, <2>2 DEF L!Free
<1>2. v.taken = c.taken
  BY DEF LnOnly, LnSame
<1>3. QED
  BY <1>1, <1>2 DEF L!Free

LEMMA LnSocks ==
  ASSUME NEW t \in LnStates, LnKind(t, "socks"), LnApart(t), NEW port \in Nat
  PROVE  LET u == L!ReCreateSocks(t, port) IN LnOnly(t, u, "socks") /\ LnDid(t, u, "socks", port)
<1>1. "socks" \in L!Pairs /\ "socks" \in L!Kinds /\ "socks" \notin L!Singles
  BY DEF L!Pairs, L!Kinds, L!Singles, L!Texts
<1>2. PICK addr \in LnAddr : addr = L!GenAddr(t, port) /\ addr[2] = port
  BY LnGenAddr
<1>3. PICK b : b = L!CloseTCPUnless(t, "socks", addr)
  OBVIOUS
<1>4. PICK c : c = L!CloseUDPUnless(b, "socks", addr)
  OBVIOUS
<1>5. /\ LnOnly(t, c, "socks") /\ c.open \subseteq t.open
      /\ t.tcp["socks"] = addr => c = t
      /\ t.tcp["socks"] # addr => c.tcp["socks"] = Nil /\ c.udp["socks"] = Nil /\ LnNone(c, "socks")
  BY <1>1, <1>3, <1>4, LnClosedPair
<1>6. LnApart(c) /\ c \in LnStates
  BY <1>5, LnApartLess DEF LnOnly, LnSame
<1> DEFINE w == L!ReCreateSocks(t, port)
<1>7. w = (IF (c.tcp["socks"] # Nil /\ c.udp["socks"] # Nil) \/ port = 0 THEN c
           ELSE IF L!Free(c, "tcp", port) /\ L!Free(c, "udp", port)
                THEN L!NewUDP(L!NewTCP(c, "socks", addr), "socks", addr) ELSE c)
  BY <1>2, <1>3, <1>4 DEF L!ReCreateSocks
<1> HIDE DEF w
<1>8. CASE t.tcp["socks"] = addr
  <2>1. /\ t.udp["socks"] = addr /\ addr[2] # 0 /\ addr # Nil
        /\ <<"socks", "tcp", port>> \in t.open
    BY <1>1, <1>2, <1>8, LnAddrFacts DEF LnKind, LnOpens
  <2>2. w = t
    BY <1>5, <1>7, <1>8, <2>1
  <2>3. LnOnly(t, w, "socks") /\ LnDid(t, w, "socks", port)
    BY <1>2, <2>1, <2>2, LnOnlySame DEF LnDid
  <2>4. QED
    BY <2>3 DEF w
<1>9. CASE t.tcp["socks"] # addr /\ (port = 0 \/ ~(L!Free(c, "tcp", port) /\ L!Free(c, "udp", port)))
  <2>1. w = c
    BY <1>5, <1>7, <1>9
  <2>2. LnKind(c, "socks")
    BY <1>5, <1>9 DEF LnKind, LnNone
  <2>3. port # 0 => ~LnMay(t, "socks", port)
    BY <1>5, <1>9, LnFreed
  <2>4. LnOnly(t, w, "socks") /\ LnDid(t, w, "socks", port)
    BY <1>5, <1>6, <1>9, <2>1, <2>2, <2>3 DEF LnDid
  <2>5. QED
    BY <2>4 DEF w
<1>10. CASE t.tcp["socks"] # addr /\ port # 0 /\ L!Free(c, "tcp", port) /\ L!Free(c, "udp", port)
  <2>1. PICK v : v = L!NewTCP(c, "socks", addr)
    OBVIOUS
  <2>2. PICK u : u = L!NewUDP(v, "socks", addr)
    OBVIOUS
  <2>3. w = u
    BY <1>5, <1>7, <1>10, <2>1, <2>2
  <2>4. /\ LnOnly(c, v, "socks") /\ LnApart(v) /\ v.tcp["socks"] = addr /\ LnHas(v, "socks", {"tcp"}) /\ LnOpens(v, "socks", {"tcp"})
    BY <1>1, <1>2, <1>5, <1>6, <1>10, <2>1, LnStartTCP
  <2>5. v \in LnStates
    BY <2>4 DEF LnOnly
  <2>6. /\ LnOnly(v, u, "socks") /\ u.tcp = v.tcp /\ LnApart(u)
        /\ L!Free(v, "udp", addr[2]) =>
             u.udp["socks"] = addr /\ LnHas(u, "socks", {"tcp", "udp"}) /\ LnOpens(u, "socks", {"tcp", "udp"})
    BY <1>1, <2>2, <2>4, <2>5, LnStartUDP
  <2>7. L!Free(v, "udp", port)
    BY <1>10, <2>4, LnUdpFree
  <2>8. u.udp["socks"] = addr /\ u.tcp["socks"] = addr /\ LnHas(u, "socks", {"tcp", "udp"}) /\ LnOpens(u, "socks", {"tcp", "udp"})
    BY <1>2, <2>4, <2>6, <2>7
  <2>9. LnKind(u, "socks") /\ <<"socks", "tcp", port>> \in u.open
    BY <1>1, <1>2, <1>10, <2>8, LnAddrFacts DEF LnKind, LnOpens
  <2>10. LnOnly(t, u, "socks")
    BY <1>5, <2>4, <2>6, LnOnlyAgain
  <2>11. LnOnly(t, w, "socks") /\ LnDid(t, w, "socks", port)
    BY <1>10, <2>3, <2>6, <2>9, <2>10 DEF LnDid
  <2>12. QED
    BY <2>11 DEF w
<1>11. QED
  BY <1>8, <1>9, <1>10

LEMMA LnTransparent ==
  ASSUME NEW t \in LnStates, NEW k \in {"redir", "tproxy"}, LnKind(t, k), LnApart(t), NEW port \in Nat
  PROVE  LET u == L!ReCreateTransparent(t, k, port) IN LnOnly(t, u, k) /\ LnDid(t, u, k, port)
<1>1. k \in L!Pairs /\ k \in L!Kinds /\ k \notin L!Singles /\ k # "mixed"
  BY DEF L!Pairs, L!Kinds, L!Singles, L!Texts
<1>2. PICK addr \in LnAddr : addr = L!GenAddr(t, port) /\ addr[2] = port
  BY LnGenAddr
<1>3. PICK b : b = L!CloseTCPUnless(t, k, addr)
  OBVIOUS
<1>4. PICK c : c = L!CloseUDPUnless(b, k, addr)
  OBVIOUS
<1>5. /\ LnOnly(t, c, k) /\ c.open \subseteq t.open
      /\ t.tcp[k] = addr => c = t /\ b = t
      /\ t.tcp[k] # addr => b.tcp[k] = Nil /\ c.tcp[k] = Nil /\ c.udp[k] = Nil /\ LnNone(c, k)
  BY <1>1, <1>3, <1>4, LnClosedPair
<1>6. LnApart(c) /\ c \in LnStates
  BY <1>5, LnApartLess DEF LnOnly, LnSame
<1> DEFINE w == L!ReCreateTransparent(t, k, port)
<1>7. PICK v : v = L!NewTCP(c, k, addr)
  OBVIOUS
<1>8. w = (IF b.tcp[k] # Nil THEN b ELSE IF c.udp[k] # Nil \/ port = 0 THEN c
           ELSE IF v.tcp[k] = Nil THEN v ELSE L!NewUDP(v, k, addr))
  BY <1>2, <1>3, <1>4, <1>7 DEF L!ReCreateTransparent
<1> HIDE DEF w
<1>9. CASE t.tcp[k] = addr
  <2>1. addr[2] # 0 /\ addr # Nil /\ <<k, "tcp", port>> \in t.open
    BY <1>1, <1>2, <1>9, LnAddrFacts DEF LnKind, LnOpens
  <2>2. w = t
    BY <1>5, <1>8, <1>9, <2>1
  <2>3. LnOnly(t, w, k) /\ LnDid(t, w, k, port)
    BY <1>2, <2>1, <2>2, LnOnlySame DEF LnDid
  <2>4. QED
    BY <2>3 DEF w
<1>10. CASE t.tcp[k] # addr /\ port = 0
  <2>1. w = c
    BY <1>5, <1>8, <1>10
  <2>2. LnKind(c, k)
    BY <1>5, <1>10 DEF LnKind, LnNone
  <2>3. LnOnly(t, w, k) /\ LnDid(t, w, k, port)
    BY <1>5, <1>6, <1>10, <2>1, <2>2 DEF LnDid
  <2>4. QED
    BY <2>3 DEF w
<1>11. CASE t.tcp[k] # addr /\ port # 0
  <2>1. /\ LnOnly(c, v, k) /\ v.udp = c.udp /\ LnApart(v)
        /\ L!Free(c, "tcp", port) => v.tcp[k] = addr /\ LnHas(v, k, {"tcp"}) /\ LnOpens(v, k, {"tcp"})
        /\ ~L!Free(c, "tcp", port) => v.tcp[k] = Nil /\ LnNone(v, k)
    BY <1>1, <1>2, <1>5, <1>6, <1>7, <1>11, LnStartTCP
  <2>2. v \in LnStates /\ LnOnly(t, v, k)
    BY <1>5, <2>1, LnOnlyAgain DEF LnOnly
  <2>3. LnMay(t, k, port) => L!Free(c, "tcp", port)
    BY <1>5, <1>11, LnFreed
  <2>4. CASE ~L!Free(c, "tcp", port)
    <3>1. w = v
      BY <1>5, <1>8, <1>11, <2>1, <2>4
    <3>2. LnKind(v, k)
      BY <1>5, <1>11, <2>1, <2>4 DEF LnKind, LnNone
    <3>3. LnOnly(t, w, k) /\ LnDid(t, w, k, port)
      BY <1>11, <2>1, <2>2, <2>3, <2>4, <3>1, <3>2 DEF LnDid
    <3>4. QED
      BY <3>3 DEF w
  <2>5. CASE L!Free(c, "tcp", port)
    <3>1. PICK u : u = L!NewUDP(v, k, addr)
      OBVIOUS
    <3>2. w = u
      BY <1>5, <1>8, <1>11, <2>1, <2>5, <3>1, LnAddrFacts
    <3>3. /\ LnOnly(v, u, k) /\ u.tcp = v.tcp /\ LnApart(u)
          /\ L!Free(v, "udp", addr[2]) => u.udp[k] = addr /\ LnHas(u, k, {"tcp", "udp"}) /\ LnOpens(u, k, {"tcp", "udp"})
          /\ ~L!Free(v, "udp", addr[2]) => u.udp[k] = Nil /\ LnHas(u, k, {"tcp"}) /\ LnOpens(u, k, {"tcp"})
      BY <1>1, <2>1, <2>2, <2>5, <3>1, LnStartUDP
    <3>4. u.tcp[k] = addr /\ addr # Nil
      BY <2>1, <2>5, <3>3, LnAddrFacts
    <3>5. LnKind(u, k)
      BY <1>1, <1>2, <1>11, <3>3, <3>4 DEF LnKind
    <3>6. <<k, "tcp", port>> \in u.open
      BY <1>2, <3>3, <3>4 DEF LnOpens
    <3>7. LnOnly(t, u, k)
      BY <2>2, <3>3, LnOnlyAgain
    <3>8. LnOnly(t, w, k) /\ LnDid(t, w, k, port)
      BY <1>11, <3>2, <3>3, <3>5, <3>6, <3>7 DEF LnDid
    <3>9. QED
      BY <3>8 DEF w
  <2>6. QED
    BY <2>4, <2>5
<1>12. QED
  BY <1>9, <1>10, <1>11

LEMMA LnCloseSocket ==
  ASSUME NEW t \in LnStates, NEW k, NEW net, NEW port, NEW u, u = L!CloseSocket(t, k, net, port)
  PROVE  LnOnly(t, u, k) /\ u.tcp = t.tcp /\ u.udp = t.udp /\ u.open = t.open \ {<<k, net, port>>}
<1>1. PICK o \in SUBSET LnSockets : o = t.open \ {<<k, net, port>>}
  BY DEF LnStates
<1>2. u = [t EXCEPT !.open = o]
  BY <1>1 DEF L!CloseSocket
<1>3. QED
  BY <1>1, <1>2 DEF LnOnly, LnSame, LnStates

LEMMA LnMixed ==
  ASSUME NEW t \in LnStates, LnKind(t, "mixed"), LnApart(t), NEW port \in Nat
  PROVE  LET u == L!ReCreateMixed(t, port) IN LnOnly(t, u, "mixed") /\ LnDid(t, u, "mixed", port)
<1> DEFINE k == "mixed"
<1>1. k \in L!Pairs /\ k \in L!Kinds /\ k \notin L!Singles
  BY DEF L!Pairs, L!Kinds, L!Singles, L!Texts
<1>2. PICK addr \in LnAddr : addr = L!GenAddr(t, port) /\ addr[2] = port
  BY LnGenAddr
<1>3. PICK b : b = L!CloseTCPUnless(t, k, addr)
  OBVIOUS
<1>4. PICK c : c = L!CloseUDPUnless(b, k, addr)
  OBVIOUS
<1>5. /\ LnOnly(t, c, k) /\ c.open \subseteq t.open
      /\ t.tcp[k] = addr => c = t
      /\ t.tcp[k] # addr => c.tcp[k] = Nil /\ c.udp[k] = Nil /\ LnNone(c, k)
  BY <1>1, <1>3, <1>4, LnClosedPair
<1>6. LnApart(c) /\ c \in LnStates
  BY <1>5, LnApartLess DEF LnOnly, LnSame
<1>7. PICK v : v = L!NewTCP(c, k, addr)
  OBVIOUS
<1>8. PICK u : u = L!NewUDP(v, k, addr)
  OBVIOUS
<1> DEFINE w == L!ReCreateMixed(t, port)
<1>9. w = (IF (c.tcp[k] # Nil /\ c.udp[k] # Nil) \/ port = 0 THEN c
           ELSE IF v.tcp[k] = Nil THEN v
           ELSE IF u.udp[k] = Nil THEN L!CloseSocket(u, k, "tcp", port) ELSE u)
  BY <1>2, <1>3, <1>4, <1>7, <1>8 DEF L!ReCreateMixed
<1> HIDE DEF w
<1>10. CASE t.tcp[k] = addr /\ t.udp[k] # Nil
  <2>1. addr[2] # 0 /\ addr # Nil /\ <<k, "tcp", port>> \in t.open
    BY <1>1, <1>2, <1>10, LnAddrFacts DEF LnKind, LnOpens
  <2>2. w = t
    BY <1>5, <1>9, <1>10, <2>1
  <2>3. LnOnly(t, w, k) /\ LnDid(t, w, k, port)
    BY <1>2, <2>1, <2>2, LnOnlySame DEF LnDid
  <2>4. QED
    BY <2>3 DEF w
<1>11. CASE t.tcp[k] # addr /\ port = 0
  <2>1. w = c
    BY <1>9, <1>11
  <2>2. LnKind(c, k)
    BY <1>5, <1>11 DEF LnKind, LnNone
  <2>3. LnOnly(t, w, k) /\ LnDid(t, w, k, port)
    BY <1>5, <1>6, <1>11, <2>1, <2>2 DEF LnDid
  <2>4. QED
    BY <2>3 DEF w
<1>12. CASE (t.tcp[k] = addr /\ t.udp[k] = Nil) \/ (t.tcp[k] # addr /\ port # 0)
  <2>0. port # 0 /\ c.udp[k] = Nil /\ LnNone(c, k)
    BY <1>1, <1>2, <1>5, <1>12, LnAddrFacts DEF LnKind, LnNone
  <2>1. /\ LnOnly(c, v, k) /\ v.udp = c.udp /\ LnApart(v)
        /\ L!Free(c, "tcp", port) => v.tcp[k] = addr /\ LnHas(v, k, {"tcp"}) /\ LnOpens(v, k, {"tcp"})
        /\ ~L!Free(c, "tcp", port) => v.tcp[k] = Nil /\ LnNone(v, k)
    BY <1>1, <1>2, <1>6, <1>7, <2>0, LnStartTCP
  <2>2. v \in LnStates /\ LnOnly(t, v, k)
    BY <1>5, <2>1, LnOnlyAgain DEF LnOnly
  <2>3. LnMay(t, k, port) => L!Free(c, "tcp", port) /\ L!Free(c, "udp", port)
    BY <1>5, <2>0, LnFreed
  <2>4. CASE ~L!Free(c, "tcp", port)
    <3>1. w = v
      BY <1>9, <2>0, <2>1, <2>4
    <3>2. LnKind(v, k)
      BY <2>0, <2>1, <2>4 DEF LnKind, LnNone
    <3>3. LnOnly(t, w, k) /\ LnDid(t, w, k, port)
      BY <2>0, <2>1, <2>2, <2>3, <2>4, <3>1, <3>2 DEF LnDid
    <3>4. QED
      BY <3>3 DEF w
  <2>5. CASE L!Free(c, "tcp", port)
    <3>1. /\ LnOnly(v, u, k) /\ u.tcp = v.tcp /\ LnApart(u)
          /\ L!Free(v, "udp", addr[2]) => u.udp[k] = addr /\ LnHas(u, k, {"tcp", "udp"}) /\ LnOpens(u, k, {"tcp", "udp"})
          /\ ~L!Free(v, "udp", addr[2]) => u.udp[k] = Nil /\ LnHas(u, k, {"tcp"}) /\ LnOpens(u, k, {"tcp"})
      BY <1>1, <1>8, <2>1, <2>2, <2>5, LnStartUDP
    <3>2. u.tcp[k] = addr /\ addr # Nil /\ v.tcp[k] # Nil
      BY <2>1, <2>5, <3>1, LnAddrFacts
    <3>3. LnOnly(t, u, k) /\ u \in LnStates
      BY <2>2, <3>1, LnOnlyAgain DEF LnOnly
    <3>4. CASE L!Free(v, "udp", port)
      <4>1. w = u
        BY <1>2, <1>9, <2>0, <3>1, <3>2, <3>4
      <4>2. LnKind(u, k) /\ <<k, "tcp", port>> \in u.open
        BY <1>1, <1>2, <2>0, <3>1, <3>2, <3>4 DEF LnKind, LnOpens
      <4>3. LnOnly(t, w, k) /\ LnDid(t, w, k, port)
        BY <2>0, <3>1, <3>3, <4>1, <4>2 DEF LnDid
      <4>4. QED
        BY <4>3 DEF w
    <3>5. CASE ~L!Free(v, "udp", port)
      <4>1. PICK x : x = L!CloseSocket(u, k, "tcp", port)
        OBVIOUS
      <4>2. w = x
        BY <1>2, <1>9, <2>0, <3>1, <3>2, <3>5, <4>1
      <4>3. LnOnly(u, x, k) /\ x.tcp = u.tcp /\ x.udp = u.udp /\ x.open = u.open \ {<<k, "tcp", port>>}
        BY <3>3, <4>1, LnCloseSocket
      <4>4. LnOnly(t, x, k) /\ x.taken = u.taken
        BY <3>3, <4>3, LnOnlyAgain DEF LnOnly, LnSame
      <4>5. LnApart(x)
        BY <3>1, <4>3, <4>4, LnApartLess
      <4>6. u.open \subseteq LnSockets
        BY <3>3 DEF LnStates
      <4>7. \A y \in u.open : y[1] = k => y = <<k, "tcp", port>>
        BY <1>2, <3>1, <3>2, <3>5, <4>6 DEF LnHas, LnSockets
      <4>8. LnKind(x, k)
        BY <1>2, <2>0, <3>1, <3>2, <3>5, <4>3, <4>7 DEF LnKind
      <4>9. ~LnMay(t, k, port)
        BY <2>1, <2>3, <2>5, <3>5, LnUdpFree
      <4>10. LnOnly(t, w, k) /\ LnDid(t, w, k, port)
        BY <2>0, <4>2, <4>4, <4>5, <4>8, <4>9 DEF LnDid
      <4>11. QED
        BY <4>10 DEF w
    <3>6. QED
      BY <3>4, <3>5
  <2>6. QED
    BY <2>4, <2>5
<1>13. QED
  BY <1>10, <1>11, <1>12

-----------------------------------------------------------------------------

LEMMA LnKindSame ==
  ASSUME NEW t \in LnStates, NEW u \in LnStates, NEW k \in L!Kinds, LnKind(t, k), u.tcp[k] = t.tcp[k],
         k \in L!Pairs => u.udp[k] = t.udp[k],
         \A x \in LnSockets : x[1] = k => (x \in u.open <=> x \in t.open)
  PROVE  LnKind(u, k)
<1>1. t.open \subseteq LnSockets /\ u.open \subseteq LnSockets
  BY DEF LnStates
<1>2. (LnNone(t, k) => LnNone(u, k)) /\ \A nets : LnHas(t, k, nets) => LnHas(u, k, nets)
  BY <1>1 DEF LnNone, LnHas
<1>3. \A nets : LnOpens(t, k, nets) => LnOpens(u, k, nets)
  BY <1>1 DEF LnOpens
<1>4. "mixed" \in L!Pairs /\ "redir" \in L!Pairs /\ "tproxy" \in L!Pairs
  BY DEF L!Pairs
<1>5. QED
  BY <1>2, <1>3, <1>4 DEF LnKind, LnNone

\* u has the other kinds of listeners as t has them.
LnLeaves(t, u, k) ==
  /\ u.apply = t.apply /\ u.patch = t.patch /\ u.taken = t.taken
  /\ \A j \in L!Kinds \ {k} : u.tcp[j] = t.tcp[j]
  /\ \A x \in LnSockets : x[1] \in L!Kinds \ {k} => (x \in u.open <=> x \in t.open)

LEMMA LnOwners ==
  /\ \A n \in ListenerNames : n \notin L!Kinds /\ n # "auto" /\ n # "tunnel"
  /\ "auto" \notin L!Kinds /\ "tunnel" \notin L!Kinds
BY ListenersAssumption DEF L!Kinds, L!Pairs, L!Singles, L!Texts

\* A step of one kind
LEMMA LnOfKind ==
  ASSUME NEW t, LnBase(t), NEW k \in L!Kinds, NEW u, LnOnly(t, u, k), LnKind(u, k), LnApart(u), LnTuic(u)
  PROVE  LnBase(u) /\ LnLeaves(t, u, k)
<1>1. t \in LnStates /\ u \in LnStates /\ t.open \subseteq LnSockets /\ u.open \subseteq LnSockets
  BY DEF LnBase, LnOnly, LnStates
<1>2. ASSUME NEW j \in L!Kinds PROVE LnKind(u, j)
  <2>1. CASE j = k
    BY <2>1
  <2>2. CASE j # k
    BY <1>1, <2>2, LnKindSame DEF LnBase, LnOnly
  <2>3. QED
    BY <2>1, <2>2
<1>3. LnOwned(u)
  <2>1. u.inbound = t.inbound /\ u.auto = t.auto /\ u.tunnels = t.tunnels /\ LnOwned(t)
    BY DEF LnBase, LnOnly, LnSame
  <2>2. ASSUME NEW x \in u.open, x[1] \in ListenerNames \cup {"auto", "tunnel"} PROVE x \in t.open
    <3>1. x[1] # k
      BY <2>2, LnOwners
    <3>2. QED
      BY <1>1, <3>1 DEF LnOnly
  <2>3. QED
    BY <2>1, <2>2 DEF LnOwned
<1>4. LnNamed(u)
  <2>1. ASSUME NEW n \in ListenerNames \ t.failed, t.inbound[n] # Nil PROVE <<n, "tcp", t.inbound[n]>> \in u.open
    <3>1. <<n, "tcp", t.inbound[n]>> \in t.open
      BY <2>1 DEF LnBase, LnNamed
    <3>2. n # k
      BY LnOwners
    <3>3. QED
      BY <1>1, <3>1, <3>2 DEF LnOnly
  <2>2. QED
    BY <2>1 DEF LnNamed, LnOnly, LnSame
<1>5. QED
  BY <1>1, <1>2, <1>3, <1>4 DEF LnBase, LnLeaves, LnOnly, LnSame

\* A step of no kind
LEMMA LnOfNone ==
  ASSUME NEW t, LnBase(t), NEW u \in LnStates, u.tcp = t.tcp, u.udp = t.udp, u.lastTuic = t.lastTuic,
         \A x \in LnSockets : x[1] \in L!Kinds => (x \in u.open <=> x \in t.open),
         LnOwned(u), LnApart(u), LnNamed(u)
  PROVE  LnBase(u)
<1>1. t \in LnStates
  BY DEF LnBase
<1>2. \A k \in L!Kinds : LnKind(u, k)
  BY <1>1, LnKindSame DEF LnBase
<1>3. QED
  BY <1>2 DEF LnBase, LnTuic

LEMMA LnAside ==
  ASSUME NEW t, LnBase(t), NEW u \in LnStates, u.tcp = t.tcp, u.udp = t.udp, u.lastTuic = t.lastTuic,
         u.open = t.open, u.inbound = t.inbound, u.failed = t.failed, u.auto = t.auto, u.tunnels = t.tunnels,
         u.taken = t.taken
  PROVE  LnBase(u)
<1>1. LnOwned(u) /\ LnApart(u) /\ LnNamed(u)
  BY DEF LnBase, LnOwned, LnApart, LnNamed
<1>2. QED
  BY <1>1, LnOfNone

\* The steps of ReCreate and of PatchTunnel
LnArg(op, arg) ==
  /\ op \in L!Kinds \cup {"tun"} => arg \in Nat
  /\ op \in {"lan", "auto", "tc"} => arg \in BOOLEAN
  /\ op = "tunnels" => arg \subseteq {"tcp", "udp"} \X Nat

LnPerforms(t, u, op, arg) ==
  /\ LnBase(u) /\ LnLeaves(t, u, op)
  /\ op \in L!Kinds => LnDid(t, u, op, arg)

LEMMA LnPerformSmall ==
  ASSUME NEW t, LnBase(t), NEW op \in {"lan", "tun", "tc"}, NEW arg, LnArg(op, arg), NEW u, u = L!Perform(t, op, arg)
  PROVE  LnPerforms(t, u, op, arg)
<1>1. t \in LnStates /\ op \notin L!Kinds
  BY DEF LnBase, L!Kinds, L!Pairs, L!Singles, L!Texts
<1>2. /\ u \in LnStates /\ u.tcp = t.tcp /\ u.udp = t.udp /\ u.lastTuic = t.lastTuic
      /\ u.open = t.open /\ u.inbound = t.inbound /\ u.failed = t.failed /\ u.auto = t.auto /\ u.tunnels = t.tunnels
      /\ u.taken = t.taken /\ u.apply = t.apply /\ u.patch = t.patch
  <2>1. CASE op = "lan"
    <3>1. u = [t EXCEPT !.lan = arg] /\ arg \in BOOLEAN
      BY <2>1 DEF L!Perform, LnArg
    <3>2. QED
      BY <1>1, <3>1 DEF LnStates
  <2>2. CASE op = "tun"
    <3>1. u = L!ReCreateTun(t, arg) /\ arg \in Nat
      BY <2>2 DEF L!Perform, LnArg
    <3>2. PICK v \in Nat \cup {Nil} : v = (IF arg # 0 /\ t.tunWorks THEN arg ELSE Nil)
      BY <3>1
    <3>3. CASE u = t
      BY <1>1, <3>3
    <3>4. CASE u = [t EXCEPT !.tun = v, !.lastTun = arg]
      BY <1>1, <3>1, <3>4 DEF LnStates
    <3>5. QED
      BY <3>1, <3>2, <3>3, <3>4 DEF L!ReCreateTun
  <2>3. CASE op = "tc"
    <3>1. u = L!ReCreateRedirToTun(t, arg)
      BY <2>3 DEF L!Perform
    <3>2. (arg /\ t.tun # Nil /\ t.tunWorks) \in BOOLEAN
      OBVIOUS
    <3>3. PICK v \in BOOLEAN : v = (arg /\ t.tun # Nil /\ t.tunWorks)
      BY <3>2, Zenon
    <3>4. u = [t EXCEPT !.tc = v]
      BY <3>1, <3>3 DEF L!ReCreateRedirToTun
    <3>5. QED
      BY <1>1, <3>4 DEF LnStates
  <2>4. QED
    BY <2>1, <2>2, <2>3
<1>3. LnBase(u)
  BY <1>2, LnAside
<1>4. QED
  BY <1>1, <1>2, <1>3 DEF LnPerforms, LnLeaves

LEMMA LnPerformAuto ==
  ASSUME NEW t, LnBase(t), NEW arg, NEW u, u = L!Perform(t, "auto", arg)
  PROVE  LnPerforms(t, u, "auto", arg)
<1> DEFINE x == <<"auto", "tcp", L!AutoPort>>
<1>1. t \in LnStates /\ "auto" \notin L!Kinds /\ x \in LnSockets /\ t.open \subseteq LnSockets
  BY LnOwners DEF LnBase, LnSockets, L!AutoPort, LnStates
<1>2. PICK o \in SUBSET LnSockets : o = t.open \ {x}
  BY <1>1
<1>3. PICK d : d = [t EXCEPT !.open = o, !.auto = FALSE]
  OBVIOUS
<1>4. d = (IF t.auto THEN [L!CloseSocket(t, "auto", "tcp", L!AutoPort) EXCEPT !.auto = FALSE] ELSE t)
  <2>1. CASE t.auto
    BY <1>1, <1>2, <1>3, <2>1 DEF L!CloseSocket, LnStates
  <2>2. CASE ~t.auto
    <3>1. x \notin t.open
      BY <2>2 DEF LnBase, LnOwned
    <3>2. o = t.open /\ t.auto = FALSE
      BY <1>1, <1>2, <2>2, <3>1 DEF LnStates
    <3>3. QED
      BY <1>1, <1>3, <2>2, <3>2 DEF LnStates
  <2>3. QED
    BY <2>1, <2>2
<1>5. /\ d \in LnStates /\ d.open = o /\ d.auto = FALSE /\ d.tcp = t.tcp /\ d.udp = t.udp /\ d.lastTuic = t.lastTuic
      /\ d.taken = t.taken /\ d.inbound = t.inbound /\ d.failed = t.failed /\ d.tunnels = t.tunnels
      /\ d.apply = t.apply /\ d.patch = t.patch
  BY <1>1, <1>3 DEF LnStates
<1>9. \A y \in t.open : y[1] = "auto" => y = x
  BY DEF LnBase, LnOwned
<1>6. CASE L!Free(d, "tcp", L!AutoPort) /\ u # d
  <2>1. PICK p \in SUBSET LnSockets : p = o \cup {x}
    BY <1>1, <1>2
  <2>2. u = [d EXCEPT !.open = p, !.auto = TRUE]
    BY <1>4, <1>5, <1>6, <2>1 DEF L!Perform, L!ReCreateAutoRedir, L!OpenSocket, LnStates
  <2>3. /\ u \in LnStates /\ u.open = p /\ u.auto = TRUE /\ u.tcp = t.tcp /\ u.udp = t.udp /\ u.lastTuic = t.lastTuic
        /\ u.taken = t.taken /\ u.inbound = t.inbound /\ u.failed = t.failed /\ u.tunnels = t.tunnels
        /\ u.apply = t.apply /\ u.patch = t.patch
    BY <1>5, <2>2 DEF LnStates
  <2>4. LnOwned(u)
    <3>1. \A y \in u.open : y = x \/ (y \in t.open /\ y[1] # "auto")
      BY <1>2, <1>9, <2>1, <2>3
    <3>2. x[1] = "auto" /\ "auto" \notin ListenerNames
      BY LnOwners
    <3>3. LnOwned(t)
      BY DEF LnBase
    <3>4. QED
      BY <2>3, <3>1, <3>2, <3>3 DEF LnOwned
  <2>5. LnApart(u)
    BY <1>2, <1>5, <1>6, <2>1, <2>3 DEF LnBase, LnApart, L!Free
  <2>6. LnNamed(u)
    BY <1>2, <2>1, <2>3, LnOwners DEF LnBase, LnNamed
  <2>7. \A y \in LnSockets : y[1] \in L!Kinds => (y \in u.open <=> y \in t.open)
    BY <1>1, <1>2, <2>1, <2>3
  <2>8. QED
    BY <1>1, <2>3, <2>4, <2>5, <2>6, <2>7, LnOfNone DEF LnPerforms, LnLeaves
<1>7. CASE u = d
  <2>1. LnOwned(u)
    <3>1. \A y \in u.open : y \in t.open /\ y[1] # "auto"
      BY <1>2, <1>5, <1>7, <1>9
    <3>2. LnOwned(t)
      BY DEF LnBase
    <3>3. QED
      BY <1>5, <1>7, <3>1, <3>2 DEF LnOwned
  <2>2. LnApart(u)
    BY <1>2, <1>5, <1>7 DEF LnBase, LnApart
  <2>3. LnNamed(u)
    BY <1>2, <1>5, <1>7, LnOwners DEF LnBase, LnNamed
  <2>4. \A y \in LnSockets : y[1] \in L!Kinds => (y \in u.open <=> y \in t.open)
    BY <1>1, <1>2, <1>5, <1>7
  <2>5. QED
    BY <1>1, <1>5, <1>7, <2>1, <2>2, <2>3, <2>4, LnOfNone DEF LnPerforms, LnLeaves
<1>8. QED
  BY <1>4, <1>6, <1>7 DEF L!Perform, L!ReCreateAutoRedir

LEMMA LnPerformTunnels ==
  ASSUME NEW t, LnBase(t), NEW arg, LnArg("tunnels", arg), NEW u, u = L!Perform(t, "tunnels", arg)
  PROVE  LnPerforms(t, u, "tunnels", arg)
<1> DEFINE Socket(x) == <<"tunnel", x[1], x[2]>>
<1>1. /\ t \in LnStates /\ "tunnels" \notin L!Kinds /\ "tunnel" \notin L!Kinds /\ t.open \subseteq LnSockets
      /\ arg \subseteq {"tcp", "udp"} \X Nat /\ t.tunnels \subseteq {"tcp", "udp"} \X Nat
  BY LnOwners DEF LnBase, LnStates, LnArg, L!Kinds, L!Pairs, L!Singles, L!Texts
<1>2. PICK o \in SUBSET LnSockets : o = {x \in t.open : x[1] = "tunnel" => <<x[2], x[3]>> \in arg}
  BY <1>1
<1>3. PICK c : c = [t EXCEPT !.tunnels = @ \cap arg, !.open = o]
  OBVIOUS
<1>4. /\ c \in LnStates /\ c.open = o /\ c.tunnels = t.tunnels \cap arg /\ c.taken = t.taken
  BY <1>1, <1>3 DEF LnStates
<1>5. PICK new : new = {x \in arg \ t.tunnels : L!Free(c, x[1], x[2])}
  OBVIOUS
<1>6. \A x \in arg : Socket(x) \in LnSockets
  BY <1>1 DEF LnSockets
<1>7. PICK p \in SUBSET LnSockets : p = o \cup {Socket(x) : x \in new}
  <2>1. {Socket(x) : x \in new} \subseteq LnSockets
    BY <1>5, <1>6
  <2>2. QED
    BY <2>1
<1>8. PICK q \in SUBSET ({"tcp", "udp"} \X Nat) : q = (t.tunnels \cap arg) \cup new
  BY <1>1, <1>5
<1>9. u = [t EXCEPT !.tunnels = q, !.open = p]
  <2>1. c = [t EXCEPT !.tunnels = @ \cap arg, !.open = {x \in @ : x[1] = "tunnel" => <<x[2], x[3]>> \in arg}]
    BY <1>1, <1>2, <1>3 DEF LnStates
  <2>2. u = [c EXCEPT !.tunnels = @ \cup new, !.open = @ \cup {Socket(x) : x \in new}]
    BY <1>5, <2>1 DEF L!Perform, L!PatchTunnel
  <2>3. u = [c EXCEPT !.tunnels = q, !.open = p]
    BY <1>4, <1>7, <1>8, <2>2 DEF LnStates
  <2>4. QED
    BY <1>1, <1>3, <2>3 DEF LnStates
<1>10. /\ u \in LnStates /\ u.open = p /\ u.tunnels = q /\ u.tcp = t.tcp /\ u.udp = t.udp /\ u.lastTuic = t.lastTuic
       /\ u.taken = t.taken /\ u.inbound = t.inbound /\ u.failed = t.failed /\ u.auto = t.auto
       /\ u.apply = t.apply /\ u.patch = t.patch
  BY <1>1, <1>9 DEF LnStates
<1>11. \A x \in new : Socket(x)[1] = "tunnel" /\ <<Socket(x)[2], Socket(x)[3]>> = x
  BY <1>1, <1>5
<1>12. \A y \in p : y \in o \/ (y[1] = "tunnel" /\ <<y[2], y[3]>> \in new)
  BY <1>7, <1>11
<1>13. LnOwned(u)
  <2>1. ASSUME NEW y \in p, y[1] = "tunnel" PROVE <<y[2], y[3]>> \in q
    <3>1. CASE y \in o
      BY <1>2, <1>8, <2>1, <3>1 DEF LnBase, LnOwned
    <3>2. CASE <<y[2], y[3]>> \in new
      BY <1>8, <3>2
    <3>3. QED
      BY <1>12, <3>1, <3>2
  <2>2. \A y \in p : y[1] # "tunnel" => y \in t.open
    BY <1>2, <1>12
  <2>3. LnOwned(t)
    BY DEF LnBase
  <2>4. QED
    BY <1>10, <2>1, <2>2, <2>3, LnOwners DEF LnOwned
<1>14. LnApart(u)
  <2>1. \A y \in p : y \in t.open \/ (y[1] = "tunnel" /\ <<y[2], y[3]>> \in new)
    BY <1>2, <1>12
  <2>2. \A y \in o : y \in t.open
    BY <1>2
  <2>3. ASSUME NEW y \in p, <<y[2], y[3]>> \in new PROVE L!Free(c, y[2], y[3])
    BY <1>5, <2>3
  <2>4. \A y \in p : <<y[2], y[3]>> \notin u.taken
    <3>1. \A y \in o : <<y[2], y[3]>> \notin t.taken
      BY <2>2 DEF LnBase, LnApart
    <3>2. QED
      BY <1>4, <1>10, <1>12, <2>3, <3>1 DEF L!Free
  <2>5. ASSUME NEW y \in p, NEW z \in p, y[2] = z[2], y[3] = z[3] PROVE y = z
    <3>1. y \in LnSockets /\ z \in LnSockets
      BY <1>7
    <3>2. CASE y \in o /\ z \in o
      BY <2>2, <2>5, <3>2 DEF LnBase, LnApart
    <3>3. CASE <<y[2], y[3]>> \in new
      <4>1. y \notin o /\ z \notin o
        BY <1>4, <2>3, <2>5, <3>3 DEF L!Free
      <4>2. y[1] = "tunnel" /\ z[1] = "tunnel"
        BY <1>12, <4>1
      <4>3. QED
        BY <2>5, <3>1, <4>2 DEF LnSockets
    <3>4. QED
      BY <1>12, <2>5, <3>2, <3>3
  <2>6. QED
    BY <1>10, <2>4, <2>5 DEF LnApart
<1>15. LnNamed(u)
  <2>1. \A n \in ListenerNames : <<n, "tcp", t.inbound[n]>> \in t.open => <<n, "tcp", t.inbound[n]>> \in p
    BY <1>2, <1>7, LnOwners
  <2>2. QED
    BY <1>10, <2>1 DEF LnNamed, LnBase
<1>16. \A y \in LnSockets : y[1] \in L!Kinds => (y \in u.open <=> y \in t.open)
  BY <1>1, <1>2, <1>7, <1>10, <1>12
<1>17. QED
  BY <1>1, <1>10, <1>13, <1>14, <1>15, <1>16, LnOfNone DEF LnPerforms, LnLeaves

LEMMA LnPerformKind ==
  ASSUME NEW t, LnBase(t), NEW op \in L!Kinds, NEW arg \in Nat, NEW u, u = L!Perform(t, op, arg)
  PROVE  LnPerforms(t, u, op, arg)
<1>1. t \in LnStates /\ LnKind(t, op) /\ LnApart(t) /\ LnTuic(t)
  BY DEF LnBase
<1>2. ASSUME op # "tuic", LnOnly(t, u, op), LnDid(t, u, op, arg) PROVE LnPerforms(t, u, op, arg)
  <2>1. "tuic" \in L!Kinds
    BY DEF L!Kinds, L!Singles, L!Texts
  <2>2. LnTuic(u)
    BY <1>1, <1>2, <2>1 DEF LnTuic, LnOnly, LnSame
  <2>3. QED
    BY <1>2, <2>2, LnOfKind DEF LnPerforms, LnDid
<1>3. CASE op = "socks"
  BY <1>1, <1>2, <1>3, LnSocks DEF L!Perform
<1>4. CASE op \in {"redir", "tproxy"}
  <2>1. u = L!ReCreateTransparent(t, op, arg)
    BY <1>4 DEF L!Perform, L!ReCreateRedir, L!ReCreateTProxy
  <2>2. QED
    BY <1>1, <1>2, <1>4, <2>1, LnTransparent
<1>5. CASE op = "mixed"
  BY <1>1, <1>2, <1>5, LnMixed DEF L!Perform
<1>6. CASE op \in {"http", "ss", "vmess"}
  <2>1. op \in L!Singles
    BY <1>6 DEF L!Singles, L!Texts
  <2>2. PICK addr \in LnAddr : addr[2] = arg /\ u = L!ReCreateSingle(t, op, addr)
    <3>1. CASE op = "http"
      <4>1. u = L!ReCreateSingle(t, op, L!GenAddr(t, arg))
        BY <3>1 DEF L!Perform, L!ReCreateHTTP
      <4>2. QED
        BY <4>1, LnGenAddr
    <3>2. CASE op \in {"ss", "vmess"}
      <4>1. u = L!ReCreateSingle(t, op, <<"text", arg>>)
        BY <3>2 DEF L!Perform, L!ReCreateShadowSocks, L!ReCreateVmess
      <4>2. <<"text", arg>> \in LnAddr /\ <<"text", arg>>[2] = arg
        BY DEF LnAddr
      <4>3. QED
        BY <4>1, <4>2
    <3>3. QED
      BY <1>6, <3>1, <3>2
  <2>3. QED
    BY <1>1, <1>2, <1>6, <2>1, <2>2, LnSingle
<1>7. CASE op = "tuic"
  <2>a. <<"text", arg>> \in LnAddr /\ <<"text", arg>>[2] = arg
    BY DEF LnAddr
  <2>1. PICK addr \in LnAddr : addr = <<"text", arg>> /\ addr[2] = arg
    BY <2>a
  <2>2. PICK v : v = L!ReCreateSingle(t, op, addr)
    OBVIOUS
  <2>3. LnOnly(t, v, op) /\ LnDid(t, v, op, arg) /\ v.tcp[op] \in {Nil, addr}
    <3>1. op \in L!Singles
      BY <1>7 DEF L!Singles, L!Texts
    <3>2. QED
      BY <1>1, <2>1, <2>2, <3>1, LnSingle
  <2>4. u = [v EXCEPT !.lastTuic = arg]
    BY <1>7, <2>1, <2>2 DEF L!Perform, L!ReCreateTuic
  <2>6. v \in LnStates /\ LnKind(v, op) /\ LnApart(v)
    BY <2>3 DEF LnOnly, LnDid
  <2>7. /\ u \in LnStates /\ u.tcp = v.tcp /\ u.udp = v.udp /\ u.open = v.open /\ u.lastTuic = arg
        /\ u.lan = v.lan /\ u.tun = v.tun /\ u.lastTun = v.lastTun /\ u.auto = v.auto
        /\ u.tc = v.tc /\ u.inbound = v.inbound /\ u.tunnels = v.tunnels /\ u.taken = v.taken
        /\ u.tunWorks = v.tunWorks /\ u.faults = v.faults /\ u.requests = v.requests /\ u.failed = v.failed
        /\ u.apply = v.apply /\ u.patch = v.patch
    BY <2>4, <2>6 DEF LnStates
  <2>9. \A k \in L!Kinds : LnKind(u, k)
    <3>1. ASSUME NEW k \in L!Kinds PROVE LnKind(u, k)
      <4>1. CASE k = op
        BY <2>6, <2>7, <4>1, LnKindSame
      <4>2. CASE k # op
        BY <1>1, <2>3, <2>7, <4>2, LnKindSame DEF LnBase, LnOnly
      <4>3. QED
        BY <4>1, <4>2
    <3>2. QED
      BY <3>1
  <2>10. LnTuic(u)
    BY <1>7, <2>1, <2>3, <2>7 DEF LnTuic
  <2>11. LnApart(u)
    BY <2>6, <2>7 DEF LnApart
  <2>12. t.open \subseteq LnSockets /\ u.open \subseteq LnSockets
    BY <1>1, <2>7 DEF LnStates
  <2>13. u.inbound = t.inbound /\ u.auto = t.auto /\ u.tunnels = t.tunnels /\ u.failed = t.failed
    BY <2>3, <2>7 DEF LnOnly, LnSame
  <2>14. \A x \in LnSockets : x[1] # op => (x \in u.open <=> x \in t.open)
    BY <2>3, <2>7 DEF LnOnly
  <2>15. LnOwned(u)
    <3>1. ASSUME NEW x \in u.open, x[1] \in ListenerNames \cup {"auto", "tunnel"} PROVE x \in t.open
      BY <2>12, <2>14, <3>1, LnOwners
    <3>2. LnOwned(t)
      BY DEF LnBase
    <3>3. QED
      BY <2>13, <3>1, <3>2 DEF LnOwned
  <2>16. LnNamed(u)
    <3>1. ASSUME NEW n \in ListenerNames \ t.failed, t.inbound[n] # Nil PROVE <<n, "tcp", t.inbound[n]>> \in u.open
      <4>1. <<n, "tcp", t.inbound[n]>> \in t.open
        BY <3>1 DEF LnBase, LnNamed
      <4>2. n # op
        BY LnOwners
      <4>3. QED
        BY <2>12, <2>14, <4>1, <4>2
    <3>2. QED
      BY <2>13, <3>1 DEF LnNamed
  <2>17. LnBase(u)
    BY <2>7, <2>9, <2>10, <2>11, <2>15, <2>16 DEF LnBase
  <2>18. LnLeaves(t, u, op)
    BY <2>3, <2>7, <2>14 DEF LnLeaves, LnOnly, LnSame
  <2>19. LnDid(t, u, op, arg)
    BY <1>7, <2>3, <2>7, <2>9, <2>11 DEF LnDid, LnNone
  <2>20. QED
    BY <2>17, <2>18, <2>19 DEF LnPerforms
<1>8. QED
  BY <1>3, <1>4, <1>5, <1>6, <1>7 DEF L!Kinds, L!Pairs, L!Singles, L!Texts

LnOps == L!Kinds \cup {"lan", "auto", "tun", "tc", "tunnels"}

LEMMA LnPerform ==
  ASSUME NEW t, LnBase(t), NEW op \in LnOps, NEW arg, LnArg(op, arg), NEW u, u = L!Perform(t, op, arg)
  PROVE  LnPerforms(t, u, op, arg)
<1>1. CASE op \in L!Kinds
  BY <1>1, LnPerformKind DEF LnArg
<1>2. QED
  BY <1>1, LnPerformSmall, LnPerformAuto, LnPerformTunnels DEF LnOps

-----------------------------------------------------------------------------
(* The named inbounds *)

LnWithInbound(t, o, n, port) == [t EXCEPT !.open = o, !.inbound[n] = port]

LEMMA LnSetInbound ==
  ASSUME NEW t \in LnStates, NEW n \in ListenerNames, NEW port \in Nat, NEW o \in SUBSET LnSockets
  PROVE  LET u == LnWithInbound(t, o, n, port) IN
         /\ u \in LnStates /\ u.open = o /\ u.inbound[n] = port
         /\ \A m \in ListenerNames \ {n} : u.inbound[m] = t.inbound[m]
         /\ u.tcp = t.tcp /\ u.udp = t.udp /\ u.lastTuic = t.lastTuic /\ u.taken = t.taken /\ u.failed = t.failed
         /\ u.auto = t.auto /\ u.tunnels = t.tunnels /\ u.apply = t.apply /\ u.patch = t.patch
<1>1. PICK f \in [ListenerNames -> Nat \cup {Nil}] : f = [t.inbound EXCEPT ![n] = port]
  BY DEF LnStates
<1>2. f[n] = port /\ \A m \in ListenerNames \ {n} : f[m] = t.inbound[m]
  BY <1>1 DEF LnStates
<1>3. LnWithInbound(t, o, n, port) = [t EXCEPT !.open = o, !.inbound = f]
  BY <1>1 DEF LnWithInbound
<1>4. QED
  BY <1>2, <1>3 DEF LnStates

LEMMA LnPatchInbound ==
  ASSUME NEW t, LnBase(t), NEW n \in ListenerNames, NEW port \in Nat, NEW u, u = L!PatchInbound(t, n, port)
  PROVE  LnBase(u) /\ LnLeaves(t, u, "lan")
<1>1. t \in LnStates /\ t.open \subseteq LnSockets /\ n # "auto" /\ n # "tunnel" /\ n \notin L!Kinds /\ "lan" \notin L!Kinds /\ Nil \notin Nat
  BY LnOwners, ResolverNilAssumption DEF LnBase, LnStates, L!Kinds, L!Pairs, L!Singles, L!Texts
<1> DEFINE old == t.inbound[n]
           x == <<n, "tcp", port>>
<1>2. CASE old = port
  <2>1. u = t
    BY <1>2 DEF L!PatchInbound
  <2>2. QED
    BY <2>1 DEF LnLeaves
<1>3. CASE old # port
  <2>1. PICK o \in SUBSET LnSockets : o = {y \in t.open : y[1] # n}
    BY <1>1
  <2>2. \A y \in t.open : y[1] = n => y = <<n, "tcp", old>> /\ old # Nil
    <3>1. ASSUME NEW y \in t.open, y[1] = n PROVE y[2] = "tcp" /\ y[3] = old
      BY <3>1 DEF LnBase, LnOwned
    <3>2. ASSUME NEW y \in LnSockets, y[1] = n, y[2] = "tcp", y[3] = old PROVE y = <<n, "tcp", old>> /\ old \in Nat
      BY <3>2 DEF LnSockets
    <3>3. QED
      BY <1>1, <3>1, <3>2
  <2>3. o = (IF old = Nil THEN t.open ELSE t.open \ {<<n, "tcp", old>>})
    BY <2>1, <2>2
  <2>4. PICK c : c = [t EXCEPT !.open = o]
    OBVIOUS
  <2>5. /\ c \in LnStates /\ c.open = o /\ c.inbound = t.inbound
        /\ c.tcp = t.tcp /\ c.udp = t.udp /\ c.lastTuic = t.lastTuic /\ c.taken = t.taken /\ c.failed = t.failed
        /\ c.auto = t.auto /\ c.tunnels = t.tunnels /\ c.apply = t.apply /\ c.patch = t.patch
    BY <1>1, <2>4 DEF LnStates
  <2>6. c = (IF old \in {Nil, port} THEN t ELSE L!CloseSocket(t, n, "tcp", old))
    <3>1. CASE old = Nil
      BY <1>1, <2>3, <2>4, <3>1 DEF LnStates
    <3>2. CASE old # Nil
      BY <1>3, <2>3, <2>4, <3>2 DEF L!CloseSocket
    <3>3. QED
      BY <3>1, <3>2
  <2>7. LnOwned(t) /\ LnApart(t) /\ LnNamed(t)
    BY DEF LnBase
  <2>8. CASE L!Free(c, "tcp", port)
    <3>1. x \in LnSockets
      BY DEF LnSockets
    <3>2. PICK p \in SUBSET LnSockets : p = o \cup {x}
      BY <3>1
    <3>3. u = LnWithInbound(c, p, n, port)
      BY <1>3, <2>5, <2>6, <2>8, <3>2 DEF L!PatchInbound, L!OpenSocket, LnStates, LnWithInbound
    <3>4. /\ u \in LnStates /\ u.open = p /\ u.inbound[n] = port
          /\ \A m \in ListenerNames \ {n} : u.inbound[m] = t.inbound[m]
          /\ u.tcp = t.tcp /\ u.udp = t.udp /\ u.lastTuic = t.lastTuic /\ u.taken = t.taken /\ u.failed = t.failed
          /\ u.auto = t.auto /\ u.tunnels = t.tunnels /\ u.apply = t.apply /\ u.patch = t.patch
      BY <2>5, <3>3, LnSetInbound
    <3>5. x[1] = n /\ x[2] = "tcp" /\ x[3] = port
      OBVIOUS
    <3>6. \A y \in p : y = x \/ (y \in t.open /\ y[1] # n)
      BY <2>1, <3>2
    <3> HIDE DEF x
    <3>7. LnOwned(u)
      <4>1. ASSUME NEW y \in p, y[1] \in ListenerNames PROVE y[2] = "tcp" /\ u.inbound[y[1]] = y[3]
        BY <2>7, <3>4, <3>5, <3>6, <4>1 DEF LnOwned
      <4>2. \A y \in p : y[1] \in {"auto", "tunnel"} => y \in t.open
        BY <1>1, <3>5, <3>6
      <4>3. QED
        BY <2>7, <3>4, <4>1, <4>2 DEF LnOwned
    <3>8. LnApart(u)
      BY <2>5, <2>7, <2>8, <2>1, <3>2, <3>4, <3>5 DEF LnApart, L!Free
    <3>9. LnNamed(u)
      <4>1. \A y \in t.open : y[1] # n => y \in p
        BY <2>1, <3>2
      <4>2. ASSUME NEW m \in ListenerNames \ u.failed, u.inbound[m] # Nil PROVE <<m, "tcp", u.inbound[m]>> \in u.open
        <5>1. CASE m = n
          BY <3>2, <3>4, <5>1 DEF x
        <5>2. CASE m # n
          BY <2>7, <3>4, <4>1, <4>2, <5>2 DEF LnNamed
        <5>3. QED
          BY <5>1, <5>2
      <4>3. QED
        BY <4>2 DEF LnNamed
    <3>10. \A y \in LnSockets : y[1] \in L!Kinds => (y \in u.open <=> y \in t.open)
      BY <1>1, <2>1, <3>2, <3>4, <3>5
    <3>11. QED
      BY <1>1, <3>4, <3>7, <3>8, <3>9, <3>10, LnOfNone DEF LnLeaves
  <2>9. CASE ~L!Free(c, "tcp", port)
    <3>1. PICK f \in SUBSET ListenerNames : f = c.failed \cup {n}
      BY <2>5 DEF LnStates
    <3>2. u = [c EXCEPT !.failed = f]
      BY <1>3, <2>6, <2>9, <3>1 DEF L!PatchInbound
    <3>3. /\ u \in LnStates /\ u.open = o /\ u.inbound = t.inbound
          /\ u.tcp = t.tcp /\ u.udp = t.udp /\ u.lastTuic = t.lastTuic /\ u.taken = t.taken /\ u.failed = f
          /\ u.auto = t.auto /\ u.tunnels = t.tunnels /\ u.apply = t.apply /\ u.patch = t.patch
      BY <2>5, <3>2 DEF LnStates
    <3>4. LnOwned(u)
      BY <2>1, <2>7, <3>3 DEF LnOwned
    <3>5. LnApart(u)
      BY <2>1, <2>7, <3>3 DEF LnApart
    <3>6. LnNamed(u)
      <4>1. \A m \in ListenerNames \ u.failed : m # n /\ m \notin t.failed
        BY <2>5, <3>1, <3>3
      <4>2. \A y \in t.open : y[1] # n => y \in o
        BY <2>1
      <4>3. QED
        BY <2>7, <3>3, <4>1, <4>2 DEF LnNamed
    <3>7. \A y \in LnSockets : y[1] \in L!Kinds => (y \in u.open <=> y \in t.open)
      BY <1>1, <2>1, <3>3
    <3>8. QED
      BY <1>1, <3>3, <3>4, <3>5, <3>6, <3>7, LnOfNone DEF LnLeaves
  <2>10. QED
    BY <2>8, <2>9
<1>4. QED
  BY <1>2, <1>3

LEMMA LnDropInbound ==
  ASSUME NEW t, LnBase(t), NEW wanted, NEW u, u = L!DropInbound(t, wanted)
  PROVE  LnBase(u) /\ LnLeaves(t, u, "lan")
<1>1. t \in LnStates /\ t.open \subseteq LnSockets /\ "lan" \notin L!Kinds
  BY DEF LnBase, LnStates, L!Kinds, L!Pairs, L!Singles, L!Texts
<1>2. PICK o \in SUBSET LnSockets : o = {y \in t.open : y[1] \in ListenerNames => y[1] \in wanted}
  BY <1>1
<1>3. PICK f \in SUBSET ListenerNames : f = t.failed \cap wanted
  BY <1>1 DEF LnStates
<1>4. PICK g : g = [n \in ListenerNames |-> IF n \in wanted THEN t.inbound[n] ELSE Nil]
  OBVIOUS
<1>5. g \in [ListenerNames -> Nat \cup {Nil}] /\ \A n \in ListenerNames : g[n] = IF n \in wanted THEN t.inbound[n] ELSE Nil
  BY <1>1, <1>4 DEF LnStates
<1>6. u = [t EXCEPT !.inbound = g, !.open = o, !.failed = f]
  BY <1>1, <1>2, <1>3, <1>4 DEF L!DropInbound, LnStates
<1>7. /\ u \in LnStates /\ u.open = o /\ u.inbound = g
      /\ u.tcp = t.tcp /\ u.udp = t.udp /\ u.lastTuic = t.lastTuic /\ u.taken = t.taken /\ u.failed = f
      /\ u.auto = t.auto /\ u.tunnels = t.tunnels /\ u.apply = t.apply /\ u.patch = t.patch
  BY <1>1, <1>5, <1>6 DEF LnStates
<1>8. LnOwned(t) /\ LnApart(t) /\ LnNamed(t)
  BY DEF LnBase
<1>9. LnOwned(u)
  BY <1>2, <1>5, <1>7, <1>8 DEF LnOwned
<1>10. LnApart(u)
  BY <1>2, <1>7, <1>8 DEF LnApart
<1>11. LnNamed(u)
  <2>1. ASSUME NEW n \in ListenerNames \ u.failed, u.inbound[n] # Nil PROVE <<n, "tcp", u.inbound[n]>> \in u.open
    <3>1. n \in wanted /\ u.inbound[n] = t.inbound[n]
      BY <1>5, <1>7, <2>1
    <3>2. n \notin t.failed
      BY <1>3, <1>7, <2>1, <3>1
    <3>3. QED
      BY <1>2, <1>7, <1>8, <2>1, <3>1, <3>2 DEF LnNamed
  <2>2. QED
    BY <2>1 DEF LnNamed
<1>12. \A y \in LnSockets : y[1] \in L!Kinds => (y \in u.open <=> y \in t.open)
  BY <1>2, <1>7, LnOwners
<1>13. QED
  BY <1>1, <1>7, <1>9, <1>10, <1>11, <1>12, LnOfNone DEF LnLeaves

-----------------------------------------------------------------------------
(* Who moves                                                               *)

LEMMA LnTurns ==
  \A i \in 2 .. 14 :
    /\ L!ApplyOps[i - 1] \in LnOps
    /\ \A k \in L!Kinds : LnTurn[k] = i <=> k = L!ApplyOps[i - 1]
<1> DEFINE Right(i) == L!ApplyOps[i - 1] \in LnOps /\ \A k \in L!Kinds : LnTurn[k] = i <=> k = L!ApplyOps[i - 1]
<1>1. Right(2) /\ Right(3) /\ Right(4) /\ Right(5)
  BY DEF L!ApplyOps, LnTurn, LnOps, L!Kinds, L!Pairs, L!Singles, L!Texts
<1>2. Right(6) /\ Right(7) /\ Right(8) /\ Right(9)
  BY DEF L!ApplyOps, LnTurn, LnOps, L!Kinds, L!Pairs, L!Singles, L!Texts
<1>3. Right(10) /\ Right(11) /\ Right(12) /\ Right(13) /\ Right(14)
  BY DEF L!ApplyOps, LnTurn, LnOps, L!Kinds, L!Pairs, L!Singles, L!Texts
<1> HIDE DEF Right
<1>4. \A i \in 2 .. 14 : Right(i)
  BY <1>1, <1>2, <1>3
<1>5. QED
  BY <1>4 DEF Right

LEMMA LnPatchTurns == \A i \in 2 .. 10 : L!PatchOps[i - 1] \in L!Kinds \cup {"tun"}
BY DEF L!PatchOps, L!Kinds, L!Pairs, L!Singles, L!Texts

LEMMA LnTurnRange == \A k \in L!Kinds : LnTurn[k] \in 3 .. 11
BY DEF LnTurn, L!Kinds, L!Pairs, L!Singles, L!Texts

\* Somebody else's turn leaves the listeners alone.
LEMMA LnSetApply ==
  ASSUME NEW t, LnBase(t), NEW a \in LnApplying, NEW u, u = [t EXCEPT !.apply = a]
  PROVE  LnBase(u) /\ u.apply = a /\ u.patch = t.patch /\ u.open = t.open /\ u.tcp = t.tcp
<1>1. t \in LnStates
  BY DEF LnBase
<1>2. QED
  BY <1>1, LnAside DEF LnStates

LEMMA LnSetPatch ==
  ASSUME NEW t, LnBase(t), NEW a \in LnPatching, NEW u, u = [t EXCEPT !.patch = a]
  PROVE  LnBase(u) /\ u.patch = a /\ u.apply = t.apply /\ u.open = t.open /\ u.tcp = t.tcp
<1>1. t \in LnStates
  BY DEF LnBase
<1>2. QED
  BY <1>1, LnAside DEF LnStates

\* A configuration that moves has no patch that is alone, and a patch no such
\* configuration.
LEMMA LnApplies ==
  ASSUME LnInv(s), s.apply.pc # 0, NEW u, u.patch = s.patch, u.apply.pc # 0, u.apply.alone = s.apply.alone,
         u.apply.cfg = s.apply.cfg, u.apply.todo \subseteq s.apply.todo
  PROVE  LnAlone(u) /\ LnPatched(u)
BY DEF LnInv, LnAlone, LnPatched

LEMMA LnPatches ==
  ASSUME LnInv(s), s.patch.pc # 0, NEW u, u.apply = s.apply, u.patch.pc # 0, u.patch.alone = s.patch.alone
  PROVE  LnAlone(u) /\ LnForced(u)
BY DEF LnInv, LnAlone, LnForced

LEMMA LnApplyEnds == ASSUME LnInv(s), L!ApplyEnds PROVE LnInv(s')
<1>1. PICK a \in LnApplying : a = [pc |-> 0]
  BY DEF LnApplying
<1>2. s' = [s EXCEPT !.apply = a]
  BY <1>1 DEF L!ApplyEnds
<1>3. LnBase(s') /\ s'.apply = a /\ s'.patch = s.patch
  BY <1>2, LnSetApply DEF LnInv
<1>4. s.apply.pc # 0 /\ s'.apply.pc = 0
  BY <1>1, <1>3 DEF L!ApplyEnds, L!ApplyOps
<1>5. QED
  BY <1>3, <1>4 DEF LnInv, LnAlone, LnForced, LnPatched

LEMMA LnPatchEnds == ASSUME LnInv(s), L!PatchEnds PROVE LnInv(s')
<1>1. PICK a \in LnPatching : a = [pc |-> 0]
  BY DEF LnPatching
<1>2. s' = [s EXCEPT !.patch = a]
  BY <1>1 DEF L!PatchEnds
<1>3. LnBase(s') /\ s'.patch = a /\ s'.apply = s.apply
  BY <1>2, LnSetPatch DEF LnInv
<1>4. s.patch.pc # 0 /\ s'.patch.pc = 0
  BY <1>1, <1>3 DEF L!PatchEnds, L!PatchOps
<1>5. QED
  BY <1>3, <1>4 DEF LnInv, LnAlone, LnForced, LnPatched

LEMMA LnApplyInbound == ASSUME LnInv(s), NEW n \in ListenerNames, L!ApplyInbound(n) PROVE LnInv(s')
<1>1. LnBase(s) /\ s \in LnStates /\ s.apply.pc = 1 /\ n \in s.apply.todo
  BY DEF LnInv, LnBase, L!ApplyInbound
<1>2. s.apply \in LnApplying /\ s.apply.cfg \in ListenerConfigs /\ s.apply.todo \in SUBSET ListenerNames
  BY <1>1 DEF LnStates, LnApplying
<1>3. PICK port \in Nat : port = s.apply.cfg.inbound[n]
  BY <1>1, <1>2, ListenersAssumption DEF LnInv, LnAlone
<1>4. PICK u : u = L!PatchInbound(s, n, port)
  OBVIOUS
<1>5. LnBase(u) /\ u.apply = s.apply /\ u.patch = s.patch
  BY <1>1, <1>4, LnPatchInbound DEF LnLeaves
<1>6. PICK a \in LnApplying : a = [s.apply EXCEPT !.todo = @ \ {n}]
  BY <1>1, <1>2 DEF LnApplying
<1>7. a.pc = 1 /\ a.alone = s.apply.alone /\ a.todo \subseteq s.apply.todo /\ a.cfg = s.apply.cfg
  BY <1>1, <1>2, <1>6 DEF LnApplying
<1>8. s' = [u EXCEPT !.apply = a]
  BY <1>3, <1>4, <1>5, <1>6 DEF L!ApplyInbound, LnBase, LnStates
<1>9. LnBase(s') /\ s'.apply = a /\ s'.patch = s.patch
  BY <1>5, <1>8, LnSetApply
<1>10. LnAlone(s') /\ LnPatched(s')
  BY <1>1, <1>7, <1>9, LnApplies
<1>11. QED
  BY <1>7, <1>9, <1>10 DEF LnInv, LnForced

LEMMA LnApplyDrop == ASSUME LnInv(s), L!ApplyDrop PROVE LnInv(s')
<1>1. LnBase(s) /\ s \in LnStates /\ s.apply.pc = 1
  BY DEF LnInv, LnBase, L!ApplyDrop
<1>2. s.apply \in LnApplying /\ s.apply.force \in BOOLEAN
  BY <1>1 DEF LnStates, LnApplying
<1>3. PICK u : u = L!DropInbound(s, DOMAIN s.apply.cfg.inbound)
  OBVIOUS
<1>4. LnBase(u) /\ u.apply = s.apply /\ u.patch = s.patch
  BY <1>1, <1>3, LnDropInbound DEF LnLeaves
<1>5. PICK n \in 1 .. 15 : n = IF s.apply.force THEN 2 ELSE 12
  OBVIOUS
<1>6. PICK x \in SUBSET L!Kinds : x = {k \in L!Kinds : L!Contested(u, k, s.apply.cfg[k])}
  OBVIOUS
<1>7. PICK a \in LnApplying : a = [s.apply EXCEPT !.pc = n, !.contested = x]
  BY <1>1, <1>2, <1>5, <1>6 DEF LnApplying
<1>8. a.pc = n /\ a.alone = s.apply.alone /\ a.todo = s.apply.todo /\ a.cfg = s.apply.cfg /\ a.force = s.apply.force
  BY <1>1, <1>2, <1>7 DEF LnApplying
<1>9. s' = [u EXCEPT !.apply = a]
  BY <1>3, <1>4, <1>5, <1>6, <1>7 DEF L!ApplyDrop, LnBase, LnStates
<1>10. LnBase(s') /\ s'.apply = a /\ s'.patch = s.patch
  BY <1>4, <1>9, LnSetApply
<1>11. LnAlone(s') /\ LnPatched(s')
  BY <1>1, <1>5, <1>8, <1>10, LnApplies
<1>12. LnForced(s')
  BY <1>5, <1>8, <1>10, LnTurnRange DEF LnForced
<1>13. QED
  BY <1>10, <1>11, <1>12 DEF LnInv

LEMMA LnUncontested ==
  ASSUME NEW t, NEW k, NEW port, ~L!Contested(t, k, port)
  PROVE  LnMay(t, k, port)
BY DEF L!Contested, LnMay

LEMMA LnApplyArg ==
  ASSUME NEW c \in ListenerConfigs, NEW op \in LnOps
  PROVE  LnArg(op, c[op])
<1>1. CASE op \in L!Kinds \cup {"tun"}
  BY <1>1, ListenersAssumption DEF LnArg, L!Kinds, L!Pairs, L!Singles, L!Texts
<1>2. CASE op \in {"lan", "auto", "tc", "tunnels"}
  BY <1>2, ListenersAssumption DEF LnArg, L!Kinds, L!Pairs, L!Singles, L!Texts
<1>3. QED
  BY <1>1, <1>2 DEF LnOps

LEMMA LnApplyStep == ASSUME LnInv(s), L!ApplyStep PROVE LnInv(s')
<1> DEFINE i == s.apply.pc
<1>1. LnBase(s) /\ s \in LnStates /\ i \in 2 .. 14
  BY DEF LnInv, LnBase, L!ApplyStep, L!ApplyOps
<1>2. /\ s.apply \in LnApplying /\ s.apply.cfg \in ListenerConfigs /\ s.apply.contested \in SUBSET L!Kinds
  BY <1>1 DEF LnStates, LnApplying
<1>3. PICK op \in LnOps : op = L!ApplyOps[i - 1] /\ \A k \in L!Kinds : LnTurn[k] = i <=> k = op
  BY <1>1, LnTurns
<1>4. PICK arg : arg = s.apply.cfg[op]
  OBVIOUS
<1>5. PICK u : u = L!Perform(s, op, arg)
  OBVIOUS
<1>6. LnPerforms(s, u, op, arg)
  BY <1>1, <1>2, <1>4, <1>5, LnApplyArg, LnPerform
<1>7. LnBase(u) /\ u.apply = s.apply /\ u.patch = s.patch
  BY <1>6 DEF LnPerforms, LnLeaves
<1>8. PICK n \in 1 .. 15 : n = i + 1
  BY <1>1
<1>9. PICK x \in SUBSET L!Kinds : x = {k \in L!Kinds : L!Contested(s, k, s.apply.cfg[k])}
  OBVIOUS
<1>10. PICK y \in SUBSET L!Kinds : y = s.apply.contested \cup x
  BY <1>2
<1>a. s.apply \in [pc : 1 .. 15, cfg : ListenerConfigs, force : BOOLEAN, todo : SUBSET ListenerNames, alone : BOOLEAN,
                   contested : SUBSET L!Kinds]
  BY <1>1, <1>2 DEF LnApplying
<1>11. PICK a \in LnApplying : a = [s.apply EXCEPT !.pc = n, !.contested = y]
  BY <1>a DEF LnApplying
<1>12. a.pc = n /\ a.alone = s.apply.alone /\ a.todo = s.apply.todo /\ a.cfg = s.apply.cfg /\ a.force = s.apply.force /\ a.contested = y
  BY <1>1, <1>2, <1>11 DEF LnApplying
<1>13. s' = [u EXCEPT !.apply = a]
  <2>1. s' = [u EXCEPT !.apply.pc = @ + 1, !.apply.contested = @ \cup x]
    BY <1>3, <1>4, <1>5, <1>9 DEF L!ApplyStep
  <2>2. QED
    BY <2>1, <1>7, <1>8, <1>10, <1>11 DEF LnBase, LnStates
<1>14. LnBase(s') /\ s'.apply = a /\ s'.patch = s.patch /\ s'.open = u.open
  BY <1>7, <1>13, LnSetApply
<1>15. LnAlone(s') /\ LnPatched(s')
  BY <1>1, <1>8, <1>12, <1>14, LnApplies
<1>16. ASSUME s.apply.force, s.apply.alone, NEW k \in L!Kinds, n > LnTurn[k]
       PROVE  /\ s.apply.cfg[k] = 0 => LnNone(u, k)
              /\ s.apply.cfg[k] # 0 /\ k \notin y => <<k, "tcp", s.apply.cfg[k]>> \in u.open
  <2>1. s.apply.cfg[k] \in Nat
    BY <1>2, ListenersAssumption
  <2>2. CASE k = op
    <3>1. LnDid(s, u, k, s.apply.cfg[k])
      BY <1>4, <1>6, <2>2 DEF LnPerforms
    <3>2. k \notin y => LnMay(s, k, s.apply.cfg[k])
      BY <1>9, <1>10, LnUncontested
    <3>3. QED
      BY <3>1, <3>2 DEF LnDid
  <2>3. CASE k # op
    <3>1. i > LnTurn[k]
      BY <1>1, <1>3, <1>8, <1>16, <2>3, LnTurnRange
    <3>2. /\ s.apply.cfg[k] = 0 => LnNone(s, k)
          /\ s.apply.cfg[k] # 0 /\ k \notin s.apply.contested => <<k, "tcp", s.apply.cfg[k]>> \in s.open
      BY <1>1, <1>16, <3>1 DEF LnInv, LnForced, LnNone
    <3>3. \A z \in LnSockets : z[1] = k => (z \in u.open <=> z \in s.open)
      BY <1>6, <2>3 DEF LnPerforms, LnLeaves
    <3>4. u.open \subseteq LnSockets /\ s.open \subseteq LnSockets
      BY <1>1, <1>7 DEF LnBase, LnStates
    <3>5. QED
      BY <1>10, <3>2, <3>3, <3>4 DEF LnNone
  <2>4. QED
    BY <2>2, <2>3
<1>17. LnForced(s')
  BY <1>12, <1>14, <1>16 DEF LnForced, LnNone
<1>18. QED
  BY <1>14, <1>15, <1>17 DEF LnInv

\* What listens can listen there again.
LEMMA LnMayKeep ==
  ASSUME NEW t \in LnStates, NEW k \in L!Kinds, LnKind(t, k), LnApart(t), NEW port, <<k, "tcp", port>> \in t.open
  PROVE  port # 0 /\ t.tcp[k] # Nil /\ t.tcp[k][2] = port /\ LnMay(t, k, port)
<1> DEFINE x == <<k, "tcp", port>>
<1>1. x[1] = k /\ x[2] = "tcp" /\ x[3] = port /\ x \in t.open
  OBVIOUS
<1> HIDE DEF x
<1>2. t.tcp[k] # Nil /\ t.tcp[k][2] # 0
  BY <1>1 DEF LnKind
<1>3. t.tcp[k][2] = port
  BY <1>1, <1>2 DEF LnKind, LnHas
<1>4. <<"tcp", port>> \notin t.taken /\ \A y \in t.open : y[2] = "tcp" /\ y[3] = port => y[1] = k
  BY <1>1 DEF LnApart
<1>5. ASSUME k \in {"socks", "mixed"}
      PROVE  <<"udp", port>> \notin t.taken /\ \A y \in t.open : y[2] = "udp" /\ y[3] = port => y[1] = k
  <2>1. LnOpens(t, k, {"tcp", "udp"})
    BY <1>1, <1>2, <1>5 DEF LnKind, L!Singles, L!Texts
  <2>2. PICK y \in t.open : y = <<k, "udp", port>>
    BY <1>3, <2>1 DEF LnOpens
  <2>3. y[1] = k /\ y[2] = "udp" /\ y[3] = port
    BY <2>2
  <2>4. QED
    BY <2>3 DEF LnApart
<1>6. QED
  BY <1>2, <1>3, <1>4, <1>5 DEF LnMay

LEMMA LnPatchStep == ASSUME LnInv(s), L!PatchStep PROVE LnInv(s')
<1> DEFINE i == s.patch.pc
           b == s.patch.body
<1>1. LnBase(s) /\ s \in LnStates /\ i \in 2 .. 10
  BY DEF LnInv, LnBase, L!PatchStep, L!PatchOps
<1>2. /\ s.patch \in LnPatching /\ b \in ListenerPatches /\ s.patch.before \in SUBSET L!Kinds
      /\ s.patch.ports \in [L!Kinds -> Nat]
  BY <1>1 DEF LnStates, LnPatching
<1>3. PICK op \in L!Kinds \cup {"tun"} : op = L!PatchOps[i - 1]
  BY <1>1, LnPatchTurns
<1>4. PICK arg : arg = L!PatchArg(op)
  OBVIOUS
<1>5. arg \in Nat
  <2>1. CASE op \in DOMAIN b
    BY <1>2, <1>4, <2>1, ListenersAssumption DEF L!PatchArg
  <2>2. CASE op \notin DOMAIN b /\ op \in {"tun", "tuic"}
    BY <1>1, <1>4, <2>2 DEF L!PatchArg, LnStates
  <2>3. CASE op \notin DOMAIN b /\ op \notin {"tun", "tuic"}
    BY <1>2, <1>4, <2>3 DEF L!PatchArg
  <2>4. QED
    BY <2>1, <2>2, <2>3
<1>6. PICK u : u = L!Perform(s, op, arg)
  OBVIOUS
<1>7. op \in LnOps /\ LnArg(op, arg)
  BY <1>5 DEF LnOps, LnArg, L!Kinds, L!Pairs, L!Singles, L!Texts
<1>8. LnPerforms(s, u, op, arg)
  BY <1>1, <1>6, <1>7, LnPerform
<1>9. LnBase(u) /\ u.apply = s.apply /\ u.patch = s.patch
  BY <1>8 DEF LnPerforms, LnLeaves
<1>10. PICK n \in 2 .. 11 : n = i + 1
  BY <1>1
<1>a. s.patch \in [pc : 2 .. 11, body : ListenerPatches, alone : BOOLEAN, before : SUBSET L!Kinds, ports : [L!Kinds -> Nat]]
  BY <1>1, <1>2 DEF LnPatching
<1>11. PICK a \in LnPatching : a = [s.patch EXCEPT !.pc = n]
  BY <1>a DEF LnPatching
<1>12. a.pc = n /\ a.alone = s.patch.alone /\ a.body = b /\ a.before = s.patch.before /\ a.ports = s.patch.ports
  BY <1>1, <1>2, <1>11 DEF LnPatching
<1>13. s' = [u EXCEPT !.patch = a]
  BY <1>3, <1>4, <1>6, <1>9, <1>10, <1>11 DEF L!PatchStep, LnBase, LnStates
<1>14. LnBase(s') /\ s'.patch = a /\ s'.apply = s.apply /\ s'.open = u.open
  BY <1>9, <1>13, LnSetPatch
<1>15. LnAlone(s') /\ LnForced(s')
  BY <1>1, <1>10, <1>12, <1>14, LnPatches
<1>16. ASSUME s.patch.alone, NEW k \in s.patch.before \ DOMAIN b PROVE <<k, "tcp", s.patch.ports[k]>> \in u.open
  <2> DEFINE port == s.patch.ports[k]
             x == <<k, "tcp", port>>
  <2>1. k \in L!Kinds /\ x \in s.open
    BY <1>1, <1>2, <1>16 DEF LnInv, LnPatched
  <2>2. port # 0 /\ s.tcp[k] # Nil /\ s.tcp[k][2] = port /\ LnMay(s, k, port)
    BY <1>1, <2>1, LnMayKeep DEF LnBase
  <2>3. CASE k = op
    <3>1. arg = port
      <4>1. CASE k = "tuic"
        BY <1>1, <1>4, <1>16, <2>2, <2>3, <4>1 DEF L!PatchArg, LnBase, LnTuic
      <4>2. CASE k # "tuic"
        BY <1>4, <1>16, <2>1, <2>3, <4>2 DEF L!PatchArg, L!Kinds, L!Pairs, L!Singles, L!Texts
      <4>3. QED
        BY <4>1, <4>2
    <3>2. QED
      BY <1>8, <2>1, <2>2, <2>3, <3>1 DEF LnPerforms, LnDid
  <2>4. CASE k # op
    <3>1. x \in LnSockets /\ x[1] = k
      BY <1>1, <2>1 DEF LnStates
    <3>2. QED
      BY <1>8, <2>1, <2>4, <3>1 DEF LnPerforms, LnLeaves
  <2>5. QED
    BY <2>3, <2>4
<1>17. LnPatched(s')
  BY <1>10, <1>12, <1>14, <1>16 DEF LnPatched
<1>18. QED
  BY <1>14, <1>15, <1>17 DEF LnInv

LEMMA LnGetPorts == ASSUME LnInv(s), L!GetPorts PROVE LnInv(s')
<1>1. LnBase(s) /\ s \in LnStates /\ s.patch.pc = 1
  BY DEF LnInv, LnBase, L!GetPorts
<1>a. s.patch \in [pc : {1}, body : ListenerPatches, alone : BOOLEAN, before : SUBSET L!Kinds]
  BY <1>1 DEF LnStates, LnPatching
<1>2. s.patch.body \in ListenerPatches /\ s.patch.before \in SUBSET L!Kinds /\ s.patch.alone \in BOOLEAN
  BY <1>a
<1>3. PICK ports : ports = [k \in L!Kinds |-> L!Port(s, k)]
  OBVIOUS
<1>4. ASSUME NEW k \in L!Kinds PROVE ports[k] \in Nat /\ (s.tcp[k] # Nil => ports[k] = s.tcp[k][2])
  <2>1. s.tcp[k] \in LnAddr \cup {Nil}
    BY <1>1 DEF LnStates
  <2>2. QED
    BY <1>3, <2>1, LnAddrFacts DEF L!Port
<1>5. ports \in [L!Kinds -> Nat]
  BY <1>3, <1>4
<1>b. PICK a : a = [pc |-> 2, body |-> s.patch.body, alone |-> s.patch.alone, before |-> s.patch.before, ports |-> ports]
  OBVIOUS
<1>c. a \in [pc : 2 .. 11, body : ListenerPatches, alone : BOOLEAN, before : SUBSET L!Kinds, ports : [L!Kinds -> Nat]]
  BY <1>2, <1>5, <1>b
<1>6. a \in LnPatching
  BY <1>c DEF LnPatching
<1>7. a.pc = 2 /\ a.alone = s.patch.alone /\ a.before = s.patch.before /\ a.ports = ports
  BY <1>b
<1>8. s' = [s EXCEPT !.patch = a]
  BY <1>1, <1>3, <1>b DEF L!GetPorts, LnStates
<1>9. LnBase(s') /\ s'.patch = a /\ s'.apply = s.apply /\ s'.open = s.open
  BY <1>1, <1>6, <1>8, LnSetPatch
<1>10. LnAlone(s') /\ LnForced(s')
  BY <1>1, <1>7, <1>9, LnPatches
<1>11. LnPatched(s')
  <2>1. ASSUME s.patch.alone, NEW k \in s.patch.before PROVE <<k, "tcp", ports[k]>> \in s.open
    <3>1. k \in L!Kinds /\ s.tcp[k] # Nil /\ <<k, "tcp", s.tcp[k][2]>> \in s.open
      BY <1>1, <1>2, <2>1 DEF LnInv, LnPatched
    <3>2. QED
      BY <1>4, <3>1
  <2>2. QED
    BY <1>7, <1>9, <2>1 DEF LnPatched
<1>12. QED
  BY <1>9, <1>10, <1>11 DEF LnInv

LEMMA LnPatchBegins == ASSUME LnInv(s), NEW b \in ListenerPatches, L!Patch(b) PROVE LnInv(s')
<1>1. LnBase(s) /\ s \in LnStates /\ s.patch.pc = 0
  BY DEF LnInv, LnBase, L!Patch
<1>2. PICK lan \in BOOLEAN : lan = (IF "lan" \in DOMAIN b THEN b.lan ELSE s.lan)
  BY <1>1, ListenersAssumption DEF LnStates
<1>3. PICK n \in Nat : n = s.requests + 1
  BY <1>1 DEF LnStates
<1>4. (s.apply.pc = 0) \in BOOLEAN
  OBVIOUS
<1>5. PICK alone \in BOOLEAN : alone = (s.apply.pc = 0)
  BY <1>4, Zenon
<1>6. PICK x \in SUBSET L!Kinds : x = {k \in L!Kinds : <<k, "tcp", L!Port(s, k)>> \in s.open}
  OBVIOUS
<1>7. PICK p \in LnPatching : p = [pc |-> 1, body |-> b, alone |-> alone, before |-> x]
  BY DEF LnPatching
<1>8. p.pc = 1 /\ p.alone = alone /\ p.before = x
  BY <1>7
<1>9. PICK a : a = IF s.apply.pc # 0 THEN [s.apply EXCEPT !.alone = FALSE] ELSE s.apply
  OBVIOUS
<1>10. /\ a \in LnApplying /\ a.pc = s.apply.pc
       /\ a.pc # 0 => ~a.alone /\ a.todo = s.apply.todo /\ a.cfg = s.apply.cfg
  <2>1. CASE s.apply.pc # 0
    <3>1. s.apply \in [pc : 1 .. 15, cfg : ListenerConfigs, force : BOOLEAN, todo : SUBSET ListenerNames, alone : BOOLEAN,
                        contested : SUBSET L!Kinds]
      BY <1>1, <2>1 DEF LnStates, LnApplying
    <3>2. a = [s.apply EXCEPT !.alone = FALSE]
      BY <1>9, <2>1
    <3>3. a \in [pc : 1 .. 15, cfg : ListenerConfigs, force : BOOLEAN, todo : SUBSET ListenerNames, alone : BOOLEAN,
                  contested : SUBSET L!Kinds]
      BY <3>1, <3>2
    <3>4. a.pc = s.apply.pc /\ ~a.alone /\ a.todo = s.apply.todo /\ a.cfg = s.apply.cfg
      BY <3>1, <3>2
    <3>5. QED
      BY <3>3, <3>4 DEF LnApplying
  <2>2. CASE s.apply.pc = 0
    BY <1>1, <1>9, <2>2 DEF LnStates
  <2>3. QED
    BY <2>1, <2>2
<1>11. s' = [s EXCEPT !.requests = n, !.apply = a, !.lan = lan, !.patch = p]
  BY <1>2, <1>3, <1>5, <1>6, <1>7, <1>9 DEF L!Patch
<1>12. /\ s' \in LnStates /\ s'.tcp = s.tcp /\ s'.udp = s.udp /\ s'.lastTuic = s.lastTuic
       /\ s'.open = s.open /\ s'.inbound = s.inbound /\ s'.failed = s.failed /\ s'.auto = s.auto /\ s'.tunnels = s.tunnels
       /\ s'.taken = s.taken /\ s'.apply = a /\ s'.patch = p
  BY <1>1, <1>10, <1>11 DEF LnStates
<1>13. LnBase(s')
  BY <1>1, <1>12, LnAside
<1>14. LnAlone(s')
  BY <1>5, <1>8, <1>10, <1>12 DEF LnInv, LnAlone
<1>15. LnForced(s')
  BY <1>10, <1>12 DEF LnForced
<1>16. LnPatched(s')
  <2>1. ASSUME NEW k \in x PROVE s.tcp[k] # Nil /\ <<k, "tcp", s.tcp[k][2]>> \in s.open
    <3>1. k \in L!Kinds /\ <<k, "tcp", L!Port(s, k)>> \in s.open
      BY <1>6
    <3>2. s.tcp[k] # Nil
      BY <1>1, <3>1, LnMayKeep DEF LnBase
    <3>3. QED
      BY <3>1, <3>2 DEF L!Port
  <2>2. QED
    BY <1>8, <1>12, <2>1 DEF LnPatched
<1>17. QED
  BY <1>13, <1>14, <1>15, <1>16 DEF LnInv

LEMMA LnBegin == ASSUME LnInv(s), NEW c \in ListenerConfigs, NEW force \in BOOLEAN, L!Begin(c, force) PROVE LnInv(s')
<1>1. LnBase(s) /\ s \in LnStates /\ s.apply.pc = 0
  BY DEF LnInv, LnBase, L!Begin
<1>2. PICK n \in Nat : n = s.requests + 1
  BY <1>1 DEF LnStates
<1>3. (s.patch.pc = 0) \in BOOLEAN
  OBVIOUS
<1>4. PICK alone \in BOOLEAN : alone = (s.patch.pc = 0)
  BY <1>3, Zenon
<1>5. PICK todo \in SUBSET ListenerNames : todo = DOMAIN c.inbound
  BY ListenersAssumption
<1>b. PICK a : a = [pc |-> 1, cfg |-> c, force |-> force, todo |-> todo, alone |-> alone, contested |-> {}]
  OBVIOUS
<1>c. a \in [pc : 1 .. 15, cfg : ListenerConfigs, force : BOOLEAN, todo : SUBSET ListenerNames, alone : BOOLEAN,
             contested : SUBSET L!Kinds]
  BY <1>b
<1>6. a \in LnApplying
  BY <1>c DEF LnApplying
<1>7. a.pc = 1 /\ a.alone = alone /\ a.todo = DOMAIN a.cfg.inbound
  BY <1>5, <1>b
<1>8. PICK p : p = IF s.patch.pc # 0 THEN [s.patch EXCEPT !.alone = FALSE] ELSE s.patch
  OBVIOUS
<1>9. p \in LnPatching /\ p.pc = s.patch.pc /\ (p.pc # 0 => ~p.alone)
  <2>0. s.patch \in LnPatching
    BY <1>1 DEF LnStates
  <2>1. CASE s.patch \in [pc : {0}]
    BY <1>8, <2>0, <2>1
  <2>2. CASE s.patch \in [pc : {1}, body : ListenerPatches, alone : BOOLEAN, before : SUBSET L!Kinds]
    <3>1. p = [s.patch EXCEPT !.alone = FALSE]
      BY <1>8, <2>2
    <3>2. p \in [pc : {1}, body : ListenerPatches, alone : BOOLEAN, before : SUBSET L!Kinds]
      BY <2>2, <3>1
    <3>3. p.pc = s.patch.pc /\ ~p.alone
      BY <2>2, <3>1
    <3>4. QED
      BY <3>2, <3>3 DEF LnPatching
  <2>3. CASE s.patch \in [pc : 2 .. 11, body : ListenerPatches, alone : BOOLEAN, before : SUBSET L!Kinds, ports : [L!Kinds -> Nat]]
    <3>1. p = [s.patch EXCEPT !.alone = FALSE]
      BY <1>8, <2>3
    <3>2. p \in [pc : 2 .. 11, body : ListenerPatches, alone : BOOLEAN, before : SUBSET L!Kinds, ports : [L!Kinds -> Nat]]
      BY <2>3, <3>1
    <3>3. p.pc = s.patch.pc /\ ~p.alone
      BY <2>3, <3>1
    <3>4. QED
      BY <3>2, <3>3 DEF LnPatching
  <2>4. QED
    BY <2>0, <2>1, <2>2, <2>3 DEF LnPatching
<1>10. s' = [s EXCEPT !.requests = n, !.patch = p, !.apply = a]
  BY <1>2, <1>4, <1>5, <1>b, <1>8 DEF L!Begin
<1>11. /\ s' \in LnStates /\ s'.tcp = s.tcp /\ s'.udp = s.udp /\ s'.lastTuic = s.lastTuic
       /\ s'.open = s.open /\ s'.inbound = s.inbound /\ s'.failed = s.failed /\ s'.auto = s.auto /\ s'.tunnels = s.tunnels
       /\ s'.taken = s.taken /\ s'.apply = a /\ s'.patch = p
  BY <1>1, <1>6, <1>9, <1>10 DEF LnStates
<1>12. LnBase(s')
  BY <1>1, <1>11, LnAside
<1>13. LnAlone(s')
  BY <1>4, <1>7, <1>9, <1>11 DEF LnAlone
<1>d. LnForced(s')
  <2>1. ~(a.pc > 1)
    BY <1>7
  <2>2. QED
    BY <1>11, <2>1 DEF LnForced
<1>14. LnPatched(s')
  <2>1. p.pc = 1 \/ p.pc > 1 => p.pc # 0
    OBVIOUS
  <2>2. QED
    BY <1>9, <1>11, <2>1 DEF LnPatched
<1>15. QED
  BY <1>12, <1>13, <1>14, <1>d DEF LnInv

LEMMA LnFaulted ==
  ASSUME LnInv(s), NEW n \in Nat, NEW taken \in SUBSET ({"tcp", "udp"} \X Nat), NEW works \in BOOLEAN,
         \A x \in s.open : <<x[2], x[3]>> \notin taken,
         s' = [s EXCEPT !.faults = n, !.taken = taken, !.tunWorks = works]
  PROVE  LnInv(s')
<1>1. LnBase(s) /\ s \in LnStates
  BY DEF LnInv, LnBase
<1>2. /\ s' \in LnStates /\ s'.tcp = s.tcp /\ s'.udp = s.udp /\ s'.lastTuic = s.lastTuic
      /\ s'.open = s.open /\ s'.inbound = s.inbound /\ s'.failed = s.failed /\ s'.auto = s.auto /\ s'.tunnels = s.tunnels
      /\ s'.taken = taken /\ s'.apply = s.apply /\ s'.patch = s.patch
  BY <1>1 DEF LnStates
<1>3. LnApart(s') /\ LnOwned(s') /\ LnNamed(s')
  BY <1>1, <1>2 DEF LnBase, LnApart, LnOwned, LnNamed
<1>4. LnBase(s')
  BY <1>1, <1>2, <1>3, LnOfNone
<1>5. LnAlone(s')
  BY <1>2 DEF LnInv, LnAlone
<1>6. LnForced(s') /\ LnPatched(s')
  BY <1>2 DEF LnInv, LnForced, LnPatched
<1>7. QED
  BY <1>4, <1>5, <1>6 DEF LnInv

LEMMA LnFault == ASSUME LnInv(s), L!Fault PROVE LnInv(s')
<1>1. LnBase(s) /\ s \in LnStates
  BY DEF LnInv, LnBase
<1>2. PICK n \in Nat : n = s.faults + 1
  BY <1>1 DEF LnStates
<1>3. \A x \in s.open : <<x[2], x[3]>> \notin s.taken
  BY <1>1 DEF LnBase, LnApart
<1>4. CASE s' = [s EXCEPT !.faults = @ + 1, !.tunWorks = ~@]
  <2>0. (~s.tunWorks) \in BOOLEAN
    OBVIOUS
  <2>1. PICK works \in BOOLEAN : works = ~s.tunWorks
    BY <2>0, Zenon
  <2>2. s.taken \in SUBSET ({"tcp", "udp"} \X Nat)
    BY <1>1 DEF LnStates
  <2>3. s' = [s EXCEPT !.faults = n, !.taken = s.taken, !.tunWorks = works]
    BY <1>1, <1>2, <1>4, <2>1 DEF LnStates
  <2>4. QED
    BY <1>3, <2>2, <2>3, LnFaulted
<1>5. ASSUME NEW p \in {"tcp", "udp"} \X {1, 2},
             s' = [s EXCEPT !.faults = @ + 1,
                            !.taken = IF p \in @ THEN @ \ {p}
                                      ELSE IF L!Free(s, p[1], p[2]) THEN @ \cup {p} ELSE @]
      PROVE  LnInv(s')
  <2>1. PICK taken \in SUBSET ({"tcp", "udp"} \X Nat) :
          taken = IF p \in s.taken THEN s.taken \ {p} ELSE IF L!Free(s, p[1], p[2]) THEN s.taken \cup {p} ELSE s.taken
    <3>1. p \in {"tcp", "udp"} \X Nat /\ s.taken \in SUBSET ({"tcp", "udp"} \X Nat)
      BY <1>1 DEF LnStates
    <3>2. QED
      BY <3>1
  <2>2. s.tunWorks \in BOOLEAN
    BY <1>1 DEF LnStates
  <2>3. s' = [s EXCEPT !.faults = n, !.taken = taken, !.tunWorks = s.tunWorks]
    BY <1>1, <1>2, <1>5, <2>1 DEF LnStates
  <2>4. p = <<p[1], p[2]>>
    OBVIOUS
  <2>5. \A x \in s.open : <<x[2], x[3]>> \notin taken
    BY <1>3, <2>1, <2>4 DEF L!Free
  <2>6. QED
    BY <2>2, <2>3, <2>5, LnFaulted
<1>6. QED
  BY <1>4, <1>5 DEF L!Fault

LEMMA LnInitially == ASSUME L!Init PROVE LnInv(s)
<1>1. s \in LnStates
  BY DEF L!Init, LnStates, LnApplying, LnPatching
<1>2. \A k \in L!Kinds : s.tcp[k] = Nil /\ (k \in L!Pairs => s.udp[k] = Nil)
  BY DEF L!Init
<1>3. s.open = {} /\ s.taken = {} /\ (\A n \in ListenerNames : s.inbound[n] = Nil) /\ s.apply.pc = 0 /\ s.patch.pc = 0
  BY DEF L!Init
<1>4. "tuic" \in L!Kinds
  BY DEF L!Kinds, L!Singles, L!Texts
<1>5. LnBase(s)
  BY <1>1, <1>2, <1>3, <1>4 DEF LnBase, LnKind, LnOwned, LnApart, LnNamed, LnTuic
<1>6. QED
  BY <1>3, <1>5 DEF LnInv, LnAlone, LnForced, LnPatched

LEMMA LnStep == ASSUME LnInv(s), L!Next PROVE LnInv(s')
BY LnFault, LnBegin, LnApplyInbound, LnApplyDrop, LnApplyStep, LnApplyEnds, LnPatchBegins, LnGetPorts, LnPatchStep, LnPatchEnds
   DEF L!Next

\* Which sockets listen, for any configurations, patches and names, whoever
\* takes ports away, and however the two ways to change the ports meet.
THEOREM ListenersKept == RunSpec => []ListenersMatchConfig
<1>1. RunInit => (active = "listeners" => LnInv(s))
  BY LnInitially DEF RunInit
<1>2. (active = "listeners" => LnInv(s)) /\ [RunNext]_<<active, s>> => (active = "listeners" => LnInv(s))'
  <2>1. ASSUME active = "listeners", LnInv(s), UNCHANGED <<active, s>> PROVE LnInv(s')
    <3>1. s' = s
      BY <2>1
    <3>2. QED
      BY <2>1, <3>1
  <2>2. QED
    BY <2>1, LnStep DEF RunNext
<1>3. (active = "listeners" => LnInv(s)) => ListenersMatchConfig
  <2>1. SUFFICES ASSUME active = "listeners", LnInv(s) PROVE ListenersMatchConfig
    BY DEF ListenersMatchConfig
  <2>2. LnBase(s) /\ s \in LnStates /\ s.open \subseteq LnSockets
    BY <2>1 DEF LnInv, LnBase, LnStates
  <2>3. L!NoSocketLost
    <3>1. ASSUME NEW x \in s.open, x[1] \in L!Kinds
          PROVE  \/ x[2] = "tcp" /\ s.tcp[x[1]] # Nil /\ s.tcp[x[1]][2] = x[3]
                 \/ x[1] \in L!Pairs /\ x[2] = "udp" /\ s.udp[x[1]] # Nil /\ s.udp[x[1]][2] = x[3]
      <4>1. LnKind(s, x[1])
        BY <2>2, <3>1 DEF LnBase
      <4>2. QED
        BY <3>1, <4>1 DEF LnKind, LnHas
    <3>2. ASSUME NEW x \in s.open PROVE x[1] \in L!Kinds \cup {"auto", "tunnel"} \cup ListenerNames
      BY <2>2, <3>2 DEF LnSockets
    <3>3. LnOwned(s)
      BY <2>2 DEF LnBase
    <3>4. QED
      BY <3>1, <3>2, <3>3 DEF L!NoSocketLost, LnOwned
  <2>4. L!ConfigInForce
    <3>1. ASSUME s.apply.pc = 15, s.apply.force, s.apply.alone, NEW k \in L!Kinds
          PROVE  /\ s.apply.cfg[k] = 0 => \A x \in s.open : x[1] # k
                 /\ s.apply.cfg[k] # 0 /\ k \notin s.apply.contested => <<k, "tcp", s.apply.cfg[k]>> \in s.open
      BY <2>1, <3>1, LnTurnRange DEF LnInv, LnForced
    <3>2. Len(L!ApplyOps) + 2 = 15
      BY DEF L!ApplyOps
    <3>3. QED
      BY <3>1, <3>2 DEF L!ConfigInForce
  <2>5. L!PatchKeepsOthers
    <3>1. Len(L!PatchOps) + 2 = 11
      BY DEF L!PatchOps
    <3>2. ASSUME s.patch.pc = 11, s.patch.alone, NEW k \in s.patch.before \ DOMAIN s.patch.body
          PROVE  \E x \in s.open : x[1] = k /\ x[2] = "tcp"
      <4>1. <<k, "tcp", s.patch.ports[k]>> \in s.open
        BY <2>1, <3>2 DEF LnInv, LnPatched
      <4>2. QED
        BY <4>1
    <3>3. QED
      BY <3>1, <3>2 DEF L!PatchKeepsOthers
  <2>6. L!InboundListens
    BY <2>2 DEF LnBase, LnNamed, L!InboundListens
  <2>7. QED
    BY <2>1, <2>3, <2>4, <2>5, <2>6 DEF ListenersMatchConfig
<1>4. QED
  BY <1>1, <1>2, <1>3, PTL DEF RunSpec

-----------------------------------------------------------------------------
(* An update of the program                                               *)

UpStarts == {"old", "new"}

UpType ==
  s \in [pc : {"run", "version", "download", "unpack", "backup", "replace", "restart", "dead"},
          running : UP!Contents,
          disk : [exe : UP!Contents \cup {Nil}, backup : UP!Contents \cup {Nil}, dir : BOOLEAN,
                  pkg : {Nil, "whole"}, unpacked : UP!Contents \cup {Nil}, named : BOOLEAN],
          mkdirFailed : Nat, updates : Nat, crashes : Nat, closeFailed : BOOLEAN]

\* What an update works on starts, and what it moved away.
UpExeStarts == s.pc \in {"download", "unpack", "backup"} => s.disk.exe \in UpStarts
UpBackupStarts == s.pc = "replace" => s.disk.backup \in UpStarts

\* A torn executable is not there for long: its process has no next one.
UpTornIsStarted == s.disk.exe = "torn" => s.pc \in {"restart", "dead"}
UpUnpackedIsWhole == s.pc \in {"backup", "replace"} => s.disk.unpacked # Nil /\ (s.disk.unpacked = "torn" => s.closeFailed)

\* A directory is there during an update, or since a stop.
UpDirIsLeft ==
  s.disk.dir /\ s.pc \notin {"unpack", "backup", "replace"} => s.mkdirFailed + 1 <= s.crashes

UpInv ==
  /\ UpType /\ UpExeStarts /\ UpBackupStarts /\ UpTornIsStarted /\ UpUnpackedIsWhole
  /\ UP!CanBeRepaired /\ UP!NeverTorn /\ UpDirIsLeft /\ UP!LeftoverBlocksOnce

\* The inductive step, action by action.
LEMMA UpStep ==
  ASSUME UpInv, [UP!Next]_s
  PROVE  UpInv'
<1> USE NilAssumption DEF UpInv, UpType, UP!Contents, UpStarts, UpExeStarts, UpBackupStarts, UpTornIsStarted,
                          UpUnpackedIsWhole, UP!CanBeRepaired, UP!NeverTorn, UpDirIsLeft, UP!LeftoverBlocksOnce
<1>1. CASE UP!Update
  BY <1>1 DEF UP!Update
<1>2. CASE UP!Refuse
  BY <1>2 DEF UP!Refuse
<1>3. CASE UP!Prepare
  BY <1>3 DEF UP!Prepare
<1>4. CASE UP!Download
  BY <1>4 DEF UP!Download, UP!Fails, UP!Clean
<1>5. CASE UP!Unpack
  <2>1. ASSUME NEW named \in BOOLEAN,
               s' = [s EXCEPT !.pc = "backup", !.disk.unpacked = "new", !.disk.named = named]
        PROVE  UpInv'
    BY <1>5, <2>1 DEF UP!Unpack
  <2>2. CASE s' = [s EXCEPT !.pc = "backup", !.disk.unpacked = "torn", !.closeFailed = TRUE]
    BY <1>5, <2>2 DEF UP!Unpack
  <2>3. CASE UP!Fails
    BY <1>5, <2>3 DEF UP!Unpack, UP!Fails, UP!Clean
  <2>4. QED
    BY <1>5, <2>1, <2>2, <2>3 DEF UP!Unpack
<1>6. CASE UP!Backup
  BY <1>6 DEF UP!Backup, UP!Fails, UP!Clean
<1>7. CASE UP!Replace
  BY <1>7 DEF UP!Replace, UP!Fails, UP!Clean
<1>8. CASE UP!Restart
  BY <1>8 DEF UP!Restart
<1>9. CASE UP!AskRestart
  BY <1>9 DEF UP!AskRestart
<1>10. CASE UP!Crash
  BY <1>10 DEF UP!Crash
<1>11. CASE UNCHANGED s
  BY <1>11
<1>12. QED
  BY <1>1, <1>2, <1>3, <1>4, <1>5, <1>6, <1>7, <1>8, <1>9, <1>10, <1>11 DEF UP!Next

LEMMA UpInitially == ASSUME UP!Init PROVE UpInv
<1>1. UpType
  BY DEF UP!Init, UP!Disk, UpType, UP!Contents
<1>2. UP!CanBeRepaired /\ UP!NeverTorn
  <2>1. s.disk = UP!Disk
    BY DEF UP!Init
  <2>2. s.disk.exe = "old"
    BY <2>1 DEF UP!Disk
  <2>3. QED
    BY <2>2 DEF UP!CanBeRepaired, UP!NeverTorn
<1>3. UpExeStarts /\ UpBackupStarts /\ UpTornIsStarted /\ UpUnpackedIsWhole /\ UpDirIsLeft /\ UP!LeftoverBlocksOnce
  BY DEF UP!Init, UP!Disk, UpExeStarts, UpBackupStarts, UpTornIsStarted, UpUnpackedIsWhole, UpDirIsLeft, UP!LeftoverBlocksOnce
<1>4. QED
  BY <1>1, <1>2, <1>3 DEF UpInv

\* However often the machine stops, an update leaves an executable that starts,
\* a torn one only after a lost error of Close, and blocks as many updates as
\* there were stops; for any number of updates and stops.
THEOREM UpdateRepairable == RunSpec => []UpdateCanBeRepaired
<1>1. RunInit => (active = "updater" => UpInv)
  BY UpInitially DEF RunInit
<1>2. (active = "updater" => UpInv) /\ [RunNext]_<<active, s>> => (active = "updater" => UpInv)'
  <2>1. [RunNext]_<<active, s>> /\ (active = "updater")' => active = "updater" /\ [UP!Next]_s
    BY DEF RunNext
  <2>2. QED
    BY <2>1, UpStep
<1>3. (active = "updater" => UpInv) => UpdateCanBeRepaired
  BY DEF UpdateCanBeRepaired, UpInv, UP!UpdateCanBeRepaired
<1>4. QED
  BY <1>1, <1>2, <1>3, PTL DEF RunSpec

-----------------------------------------------------------------------------
(* The choice of a proxy                                                   *)

Offered == UNION {{l[i] : i \in DOMAIN l} : l \in ChoiceLists}
Selectable == Offered \cup {SL!Default, Nil}

ChoiceGroup == [selected : Selectable]
ChoiceClient == [pc : {"idle"}] \cup [pc : {"set", "save"}, group : Nat, name : ChoiceNames]

ChoiceType ==
  s \in [groups : Seq(ChoiceGroup), list : ChoiceLists, store : BOOLEAN, file : Selectable,
         reload : {"idle", "profile"}, client : [Choosers -> ChoiceClient], left : SUBSET Choosers,
         reloads : Nat, mixed : BOOLEAN, last : Selectable]

\* A group is there, a request works on one that was made, and saves only a name
\* that it has found in the list.
ChoiceNamesKnown ==
  /\ s.groups # << >>
  /\ \A c \in Choosers : s.client[c].pc # "idle" => s.client[c].group \in DOMAIN s.groups
  /\ \A c \in Choosers : s.client[c].pc = "save" => s.client[c].name \in Offered

\* As long as no request met another one or a reload: there is at most one, it
\* works on the group of now, the file has the last choice unless it is just
\* being saved, and so has the group while choices are kept.
ChoiceInStep ==
  ~s.mixed =>
    /\ s.reload # "idle" => SL!Busy = {}
    /\ \A c, d \in SL!Busy : c = d
    /\ \A c \in SL!Busy : s.client[c].group = Len(s.groups)
    /\ \A c \in Choosers : s.client[c].pc = "save" /\ s.store => s.last = s.client[c].name
    /\ (\A c \in Choosers : s.client[c].pc = "save" => ~s.store) => s.file = s.last
    /\ s.reload = "idle" /\ s.store /\ s.last # Nil => SL!Now.selected = s.last

ChoiceInv == ChoiceType /\ ChoiceNamesKnown /\ ChoiceInStep

LEMMA ChoiceInitially == ASSUME SL!Init PROVE ChoiceInv
<1>1. ChoiceType
  BY ServiceAssumption DEF SL!Init, ChoiceType, ChoiceGroup, ChoiceClient, Selectable
<1>2. ChoiceNamesKnown
  BY DEF SL!Init, ChoiceNamesKnown
<1>3. ChoiceInStep
  BY DEF SL!Init, ChoiceInStep, SL!Busy
<1>4. QED
  BY <1>1, <1>2, <1>3 DEF ChoiceInv

\* A request begins.
LEMMA ChoiceFind ==
  ASSUME ChoiceInv, NEW c \in Choosers, NEW n \in ChoiceNames, SL!FindProxy(c, n)
  PROVE  ChoiceInv'
<1> USE DEF ChoiceInv
<1> DEFINE v == [pc |-> "set", group |-> Len(s.groups), name |-> n]
<1>1. v \in ChoiceClient /\ Len(s.groups) \in DOMAIN s.groups
  BY DEF ChoiceClient, ChoiceType, ChoiceNamesKnown
<1>2. PICK m \in BOOLEAN :
        /\ s' = [s EXCEPT !.left = s.left \ {c}, !.client[c] = v, !.mixed = m]
        /\ ~m => ~s.mixed /\ SL!Busy = {} /\ s.reload = "idle"
  BY Zenon DEF SL!FindProxy, ChoiceType
<1>3. v.pc = "set" /\ v.group = Len(s.groups)
  OBVIOUS
<1> HIDE DEF v
<1>4. ChoiceType'
  BY <1>1, <1>2 DEF ChoiceType
<1>5. /\ s'.groups = s.groups /\ s'.client = [s.client EXCEPT ![c] = v] /\ s'.mixed = m
      /\ s'.reload = s.reload /\ s'.store = s.store /\ s'.last = s.last /\ s'.file = s.file
      /\ s.client \in [Choosers -> ChoiceClient]
  BY <1>2 DEF ChoiceType
<1>6. ChoiceNamesKnown'
  BY <1>1, <1>3, <1>5 DEF ChoiceNamesKnown
<1>7. ASSUME ~m PROVE ChoiceInStep'
  <2>1. SL!Busy' = {c}
    BY <1>2, <1>3, <1>5, <1>7 DEF SL!Busy
  <2>2. \A d \in Choosers : s.client[d].pc = "idle" /\ s'.client[d].pc # "save"
    BY <1>2, <1>3, <1>5, <1>7 DEF SL!Busy
  <2>3. QED
    BY <1>2, <1>3, <1>5, <1>7, <2>1, <2>2 DEF ChoiceInStep, SL!Now
<1>8. QED
  BY <1>4, <1>5, <1>6, <1>7 DEF ChoiceInStep

\* A name of the list is selected, or the request ends with an error.
LEMMA ChoiceSet ==
  ASSUME ChoiceInv, NEW c \in Choosers, SL!Set(c)
  PROVE  ChoiceInv'
<1> USE DEF ChoiceInv
<1>1. /\ s.client[c] \in ChoiceClient /\ s.client[c].pc = "set" /\ s.client[c].group \in DOMAIN s.groups
      /\ s.client[c].name \in ChoiceNames /\ c \in SL!Busy
      /\ s.client \in [Choosers -> ChoiceClient] /\ s.groups \in Seq(ChoiceGroup)
  BY DEF SL!Set, SL!Busy, ChoiceType, ChoiceClient, ChoiceNamesKnown
<1>2. CASE \E i \in DOMAIN s.list : s.list[i] = s.client[c].name
  <2> DEFINE q == s.client[c]
             v == [q EXCEPT !.pc = "save"]
             gs == [s.groups EXCEPT ![q.group].selected = q.name]
  <2>1. q.name \in Offered
    BY <1>2 DEF Offered, ChoiceType
  <2>2. v \in ChoiceClient /\ v.pc = "save" /\ v.name = q.name /\ v.group = q.group
    BY <1>1 DEF ChoiceClient
  <2>3. /\ gs \in Seq(ChoiceGroup) /\ Len(gs) = Len(s.groups) /\ DOMAIN gs = DOMAIN s.groups
        /\ gs[q.group].selected = q.name
    <3>1. [s.groups[q.group] EXCEPT !.selected = q.name] \in ChoiceGroup
      <4>1. s.groups[q.group] \in ChoiceGroup
        BY <1>1
      <4>2. q.name \in Selectable
        BY <2>1 DEF Selectable
      <4>3. QED
        BY <4>1, <4>2 DEF ChoiceGroup
    <3>2. QED
      BY <1>1, <3>1 DEF ChoiceGroup
  <2>4. s' = [s EXCEPT !.groups[q.group].selected = q.name, !.client[c].pc = "save",
                       !.last = IF s.store THEN q.name ELSE @]
    BY <1>2 DEF SL!Set
  <2>5. s' = [s EXCEPT !.groups = gs, !.client = [s.client EXCEPT ![c] = v],
                       !.last = IF s.store THEN q.name ELSE s.last]
    BY <2>4 DEF ChoiceType
  <2> HIDE DEF v, gs
  <2>6. ChoiceType'
    BY <2>1, <2>2, <2>3, <2>5 DEF ChoiceType, Selectable
  <2>7. /\ s'.groups = gs /\ s'.client = [s.client EXCEPT ![c] = v] /\ s'.mixed = s.mixed
        /\ s'.reload = s.reload /\ s'.store = s.store /\ s'.file = s.file
        /\ s'.last = IF s.store THEN q.name ELSE s.last
    BY <2>5 DEF ChoiceType
  <2>8. ChoiceNamesKnown'
    BY <1>1, <2>1, <2>2, <2>3, <2>7 DEF ChoiceNamesKnown
  <2>9. ASSUME ~s.mixed PROVE ChoiceInStep'
    <3>1. SL!Busy' = SL!Busy
      BY <1>1, <2>2, <2>7 DEF SL!Busy
    <3>2. \A d \in Choosers : s.client[d].pc = "save" => d = c
      BY <1>1, <2>9 DEF ChoiceInStep, SL!Busy
    <3>3. \A d \in Choosers : s'.client[d].pc = "save" => d = c
      BY <1>1, <2>2, <2>7, <3>2
    <3>4. s'.client[c] = v
      BY <1>1, <2>7
    <3>5. s.file = s.last
      BY <1>1, <2>9, <3>2 DEF ChoiceInStep
    <3>6. q.group = Len(gs)
      BY <1>1, <2>3, <2>9 DEF ChoiceInStep
    <3>7. SL!Now'.selected = q.name
      BY <2>3, <2>7, <3>6 DEF SL!Now
    <3>8. \A d \in SL!Busy : s'.client[d].group = Len(s'.groups)
      <4>1. \A d \in SL!Busy : d = c
        BY <1>1, <2>9 DEF ChoiceInStep
      <4>2. QED
        BY <2>2, <2>7, <3>4, <3>6, <4>1
    <3>9. QED
      BY <2>2, <2>7, <2>9, <3>1, <3>3, <3>4, <3>5, <3>7, <3>8 DEF ChoiceInStep
  <2>10. QED
    BY <2>6, <2>7, <2>8, <2>9 DEF ChoiceInStep
<1>3. CASE ~\E i \in DOMAIN s.list : s.list[i] = s.client[c].name
  <2> DEFINE v == [pc |-> "idle"]
  <2>1. s' = [s EXCEPT !.client[c] = v]
    BY <1>3 DEF SL!Set
  <2>2. v \in ChoiceClient /\ v.pc = "idle"
    BY DEF ChoiceClient
  <2> HIDE DEF v
  <2>3. ChoiceType'
    BY <2>1, <2>2 DEF ChoiceType
  <2>4. /\ s'.groups = s.groups /\ s'.client = [s.client EXCEPT ![c] = v] /\ s'.mixed = s.mixed
        /\ s'.reload = s.reload /\ s'.store = s.store /\ s'.file = s.file /\ s'.last = s.last
    BY <2>1 DEF ChoiceType
  <2>5. ChoiceNamesKnown'
    BY <1>1, <2>2, <2>4 DEF ChoiceNamesKnown
  <2>6. ASSUME ~s.mixed PROVE ChoiceInStep'
    <3>1. \A d \in Choosers : d \in SL!Busy => d = c
      BY <1>1, <2>6 DEF ChoiceInStep
    <3>2. \A d \in Choosers : s'.client[d].pc = "idle" /\ s.client[d].pc # "save"
      BY <1>1, <2>2, <2>4, <3>1 DEF SL!Busy
    <3>3. SL!Busy' = {}
      BY <3>2 DEF SL!Busy
    <3>4. QED
      BY <2>4, <2>6, <3>2, <3>3 DEF ChoiceInStep, SL!Now
  <2>7. QED
    BY <2>3, <2>4, <2>5, <2>6 DEF ChoiceInStep
<1>4. QED
  BY <1>2, <1>3

\* The name goes to the cache file.
LEMMA ChoiceSave ==
  ASSUME ChoiceInv, NEW c \in Choosers, SL!SetSelected(c)
  PROVE  ChoiceInv'
<1> USE DEF ChoiceInv
<1> DEFINE v == [pc |-> "idle"]
<1>1. /\ s.client[c].pc = "save" /\ s.client[c].name \in Offered /\ c \in SL!Busy
      /\ s.client \in [Choosers -> ChoiceClient]
  BY DEF SL!SetSelected, SL!Busy, ChoiceType, ChoiceNamesKnown
<1>2. s' = [s EXCEPT !.file = IF s.store THEN s.client[c].name ELSE s.file, !.client[c] = v]
  BY DEF SL!SetSelected
<1>3. v \in ChoiceClient /\ v.pc = "idle"
  BY DEF ChoiceClient
<1> HIDE DEF v
<1>4. ChoiceType'
  <2>1. PICK f \in Selectable : f = IF s.store THEN s.client[c].name ELSE s.file
    BY <1>1 DEF ChoiceType, Selectable
  <2>2. QED
    BY <1>2, <1>3, <2>1 DEF ChoiceType
<1>5. /\ s'.groups = s.groups /\ s'.client = [s.client EXCEPT ![c] = v] /\ s'.mixed = s.mixed
      /\ s'.reload = s.reload /\ s'.store = s.store /\ s'.last = s.last
      /\ s'.file = IF s.store THEN s.client[c].name ELSE s.file
  BY <1>2 DEF ChoiceType
<1>6. ChoiceNamesKnown'
  BY <1>1, <1>3, <1>5 DEF ChoiceNamesKnown
<1>7. ASSUME ~s.mixed PROVE ChoiceInStep'
  <2>1. \A d \in Choosers : d \in SL!Busy => d = c
    BY <1>1, <1>7 DEF ChoiceInStep
  <2>2. \A d \in Choosers : s'.client[d].pc = "idle" /\ (s.client[d].pc = "save" => d = c)
    BY <1>1, <1>3, <1>5, <2>1 DEF SL!Busy
  <2>3. SL!Busy' = {}
    BY <2>2 DEF SL!Busy
  <2>4. s'.file = s.last
    BY <1>1, <1>5, <1>7, <2>2 DEF ChoiceInStep
  <2>5. QED
    BY <1>5, <1>7, <2>2, <2>3, <2>4 DEF ChoiceInStep, SL!Now
<1>8. QED
  BY <1>4, <1>5, <1>6, <1>7 DEF ChoiceInStep

\* The groups are made anew, and get the stored names.
LEMMA ChoiceReload ==
  ASSUME ChoiceInv,
         \/ \E l \in ChoiceLists : SL!NewList(l)
         \/ SL!UpdateProxies
         \/ \E b \in BOOLEAN : SL!UpdateProfile(b) \/ SL!StartAgain(b)
  PROVE  ChoiceInv'
<1> USE DEF ChoiceInv
<1>0. s.reloads \in Nat /\ s.reloads + 1 \in Nat
  BY DEF ChoiceType
<1>1. ASSUME NEW l \in ChoiceLists, SL!NewList(l) PROVE ChoiceInv'
  <2>1. PICK n \in Nat : s' = [s EXCEPT !.reloads = n, !.list = l]
    BY <1>0, <1>1, Zenon DEF SL!NewList
  <2>2. ChoiceType'
    BY <2>1 DEF ChoiceType
  <2>3. /\ s'.groups = s.groups /\ s'.client = s.client /\ s'.mixed = s.mixed /\ s'.file = s.file
        /\ s'.reload = s.reload /\ s'.store = s.store /\ s'.last = s.last
    BY <2>1 DEF ChoiceType
  <2>4. QED
    BY <2>2, <2>3 DEF ChoiceNamesKnown, ChoiceInStep, SL!Busy, SL!Now
<1>2. CASE SL!UpdateProxies
  <2> DEFINE g == [selected |-> SL!Default]
  <2>1. PICK n \in Nat, m \in BOOLEAN :
          /\ s' = [s EXCEPT !.reloads = n, !.reload = "profile", !.groups = Append(s.groups, g), !.mixed = m]
          /\ ~m => ~s.mixed /\ SL!Busy = {}
    <3>1. s' = [s EXCEPT !.reloads = s.reloads + 1, !.reload = "profile", !.groups = Append(s.groups, g),
                         !.mixed = s.mixed \/ SL!Busy # {}]
      BY <1>2 DEF SL!UpdateProxies
    <3>2. (s.mixed \/ SL!Busy # {}) \in BOOLEAN
      BY DEF ChoiceType
    <3>3. QED
      BY <1>0, <3>1, <3>2, Zenon
  <2>2. g \in ChoiceGroup
    BY DEF ChoiceGroup, Selectable
  <2> HIDE DEF g
  <2>3. s.groups \in Seq(ChoiceGroup)
    BY DEF ChoiceType
  <2>4. /\ Append(s.groups, g) \in Seq(ChoiceGroup) /\ Append(s.groups, g) # << >>
        /\ DOMAIN s.groups \subseteq DOMAIN Append(s.groups, g)
    BY <2>2, <2>3, Appended
  <2>5. ChoiceType'
    BY <2>1, <2>4 DEF ChoiceType
  <2>6. /\ s'.groups = Append(s.groups, g) /\ s'.client = s.client /\ s'.mixed = m /\ s'.file = s.file
        /\ s'.reload = "profile" /\ s'.store = s.store /\ s'.last = s.last
    BY <2>1 DEF ChoiceType
  <2>7. ChoiceNamesKnown'
    BY <2>4, <2>6 DEF ChoiceNamesKnown
  <2>8. ASSUME ~m PROVE ChoiceInStep'
    BY <2>1, <2>6, <2>8 DEF ChoiceInStep, SL!Busy
  <2>9. QED
    BY <2>5, <2>6, <2>7, <2>8 DEF ChoiceInStep
<1>3. ASSUME NEW b \in BOOLEAN, SL!UpdateProfile(b) PROVE ChoiceInv'
  <2> DEFINE n == Len(s.groups)
             w == IF b /\ s.file # Nil THEN s.file ELSE s.groups[n].selected
             gs == [s.groups EXCEPT ![n].selected = w]
  <2>0. s.groups \in Seq(ChoiceGroup) /\ s.groups # << >> /\ s.reload = "profile" /\ s.file \in Selectable
    BY <1>3, Zenon DEF ChoiceType, ChoiceNamesKnown, SL!UpdateProfile
  <2>1. /\ s.groups \in Seq(ChoiceGroup) /\ n \in DOMAIN s.groups /\ s.reload = "profile"
        /\ s.groups[n] \in ChoiceGroup
    BY <2>0, LastIndex
  <2>2. w \in Selectable
    <3>1. s.groups[n].selected \in Selectable
      BY <2>1 DEF ChoiceGroup
    <3>2. QED
      BY <2>0, <3>1
  <2>3. s' = [s EXCEPT !.reload = "idle", !.store = b, !.groups[n].selected = w]
    BY <1>3, <2>1, Zenon DEF SL!UpdateProfile, ChoiceType, ChoiceGroup
  <2>4. s' = [s EXCEPT !.reload = "idle", !.store = b, !.groups = gs]
    BY <2>3 DEF ChoiceType
  <2>5. gs \in Seq(ChoiceGroup) /\ Len(gs) = n /\ DOMAIN gs = DOMAIN s.groups /\ gs[n].selected = w
    <3> HIDE DEF w
    <3>1. [s.groups[n] EXCEPT !.selected = w] \in ChoiceGroup
      BY <2>1, <2>2 DEF ChoiceGroup
    <3>2. QED
      BY <2>1, <3>1 DEF ChoiceGroup
  <2> HIDE DEF gs, n
  <2>6. ChoiceType'
    BY <1>3, <2>4, <2>5 DEF ChoiceType
  <2>7. /\ s'.groups = gs /\ s'.client = s.client /\ s'.mixed = s.mixed /\ s'.file = s.file
        /\ s'.reload = "idle" /\ s'.store = b /\ s'.last = s.last
    BY <2>4 DEF ChoiceType
  <2>8. ChoiceNamesKnown'
    BY <2>1, <2>5, <2>7 DEF ChoiceNamesKnown
  <2>9. ASSUME ~s.mixed PROVE ChoiceInStep'
    <3>1. SL!Busy = {} /\ SL!Busy' = {}
      BY <2>1, <2>7, <2>9 DEF ChoiceInStep, SL!Busy
    <3>2. \A c \in Choosers : s.client[c].pc # "save"
      BY <3>1 DEF SL!Busy
    <3>3. s.file = s.last
      BY <2>9, <3>2 DEF ChoiceInStep
    <3>4. SL!Now'.selected = w
      BY <2>5, <2>7 DEF SL!Now
    <3>5. QED
      BY <2>7, <3>1, <3>2, <3>3, <3>4 DEF ChoiceInStep
  <2>10. QED
    BY <2>6, <2>7, <2>8, <2>9 DEF ChoiceInStep
<1>4. ASSUME NEW b \in BOOLEAN, SL!StartAgain(b) PROVE ChoiceInv'
  <2> DEFINE g == [selected |-> SL!Default]
             v == [pc |-> "idle"]
             idle == [c \in Choosers |-> v]
             f == IF b THEN Nil ELSE s.file
             l == IF b THEN Nil ELSE s.last
  <2>1. PICK n \in Nat, m \in BOOLEAN :
          /\ s' = [s EXCEPT !.reloads = n, !.groups = <<g>>, !.reload = "profile", !.client = idle,
                            !.mixed = m, !.file = f, !.last = l]
          /\ ~m => ~s.mixed /\ SL!Busy = {}
    <3>1. s' = [s EXCEPT !.reloads = s.reloads + 1, !.groups = <<g>>, !.reload = "profile", !.client = idle,
                         !.mixed = s.mixed \/ SL!Busy # {}, !.file = f, !.last = l]
      BY <1>4, Zenon DEF SL!StartAgain
    <3>2. (s.mixed \/ SL!Busy # {}) \in BOOLEAN
      BY DEF ChoiceType
    <3> HIDE DEF g, idle, f, l
    <3>3. QED
      BY <1>0, <3>1, <3>2, Zenon
  <2>2. <<g>> \in Seq(ChoiceGroup) /\ <<g>> # << >>
    BY DEF ChoiceGroup, Selectable
  <2>3. idle \in [Choosers -> ChoiceClient] /\ \A c \in Choosers : idle[c].pc = "idle"
    BY DEF ChoiceClient
  <2>4. f \in Selectable /\ l \in Selectable
    BY DEF ChoiceType, Selectable
  <2> HIDE DEF g, idle
  <2>5. ChoiceType'
    <3> HIDE DEF f, l
    <3>1. QED
      BY <2>1, <2>2, <2>3, <2>4 DEF ChoiceType
  <2>6. /\ s'.groups = <<g>> /\ s'.client = idle /\ s'.mixed = m /\ s'.file = f
        /\ s'.reload = "profile" /\ s'.store = s.store /\ s'.last = l
    BY <2>1 DEF ChoiceType
  <2>7. ChoiceNamesKnown'
    BY <2>2, <2>3, <2>6 DEF ChoiceNamesKnown
  <2>8. ASSUME ~m PROVE ChoiceInStep'
    <3>1. SL!Busy' = {} /\ \A c \in Choosers : s.client[c].pc # "save"
      BY <2>1, <2>3, <2>6, <2>8 DEF SL!Busy
    <3>2. s.file = s.last
      BY <2>1, <2>8, <3>1 DEF ChoiceInStep
    <3>3. QED
      BY <2>3, <2>6, <3>1, <3>2 DEF ChoiceInStep
  <2>9. QED
    BY <2>5, <2>6, <2>7, <2>8 DEF ChoiceInStep
<1>5. QED
  BY <1>1, <1>2, <1>3, <1>4

\* The last choice stays made, and only names that are offered are selected or
\* stored, for any requests, lists, names and reloads.
THEOREM ChoiceKept == RunSpec => []ChoiceIsKept
<1>1. RunInit => (active = "selection" => ChoiceInv)
  BY ChoiceInitially DEF RunInit
<1>2. (active = "selection" => ChoiceInv) /\ [RunNext]_<<active, s>> => (active = "selection" => ChoiceInv)'
  <2>1. ASSUME active = "selection", ChoiceInv, UNCHANGED <<active, s>> PROVE ChoiceInv'
    BY <2>1 DEF ChoiceInv, ChoiceType, ChoiceNamesKnown, ChoiceInStep, SL!Busy, SL!Now
  <2>2. ASSUME ChoiceInv, SL!Next PROVE ChoiceInv'
    BY <2>2, ChoiceFind, ChoiceSet, ChoiceSave, ChoiceReload DEF SL!Next
  <2>3. QED
    BY <2>1, <2>2 DEF RunNext
<1>3. (active = "selection" => ChoiceInv) => ChoiceIsKept
  <2>1. ASSUME ChoiceInv PROVE SL!ChoiceIsKept
    BY <2>1 DEF ChoiceInv, ChoiceInStep, SL!ChoiceIsKept
  <2>2. ASSUME ChoiceInv PROVE SL!NoUnknownSelected
    <3>0. s.groups \in Seq(ChoiceGroup) /\ s.groups # << >> /\ s.file \in Selectable
      BY <2>2 DEF ChoiceInv, ChoiceType, ChoiceNamesKnown
    <3>1. s.groups[Len(s.groups)] \in ChoiceGroup
      BY <3>0, LastIndex
    <3>2. SL!Now.selected \in Selectable
      BY <3>1 DEF SL!Now, ChoiceGroup
    <3>3. QED
      BY <3>0, <3>2 DEF SL!NoUnknownSelected, Selectable, Offered
  <2>3. QED
    BY <2>1, <2>2 DEF ChoiceIsKept
<1>4. QED
  BY <1>1, <1>2, <1>3, PTL DEF RunSpec

-----------------------------------------------------------------------------
(* Configurations coming into force                                        *)

LifeFields ==
  {"req", "left", "lock", "status", "applied", "in", "loader", "utls", "ruleProviders", "range",
   "concurrent", "proxyNS", "mapper", "exited"}

LifePcs == {"lock"} \cup {CL!Stages[i] : i \in 1 .. 12} \cup {CL!Steps[i] : i \in 1 .. 17}
LifeRanges == {LifeConfigs[c].range : c \in DOMAIN LifeConfigs} \cup {Nil}

LifeRequest ==
  [pc : {"idle"}] \cup [pc : LifePcs, c : DOMAIN LifeConfigs, alone : BOOLEAN, tun : LifeRanges]

LifeType ==
  /\ DOMAIN s = LifeFields
  /\ s.req \in [LifeRequests -> LifeRequest]
  /\ s.lock \in LifeRequests \cup {Nil}
  /\ DOMAIN s.in = CL!Parts
  /\ s.range \in LifeRanges

\* What is in force of configuration c.
InForce(p, c) == s.in[p] = IF p = "selected" /\ ~LifeConfigs[c].store THEN Nil ELSE c

\* Who holds the lock is at some step, and what the steps before it replace is
\* in force; the tunnel runs only when nobody holds it, with all of the last one.
LifeApplied ==
  /\ s.lock # Nil =>
       /\ s.req[s.lock].pc # "idle" /\ s.status # "running"
       /\ \E i \in 1 .. 17 :
            /\ s.req[s.lock].pc = CL!Steps[i]
            /\ \A j \in 1 .. (i - 1) : CL!Steps[j] \in CL!Parts => InForce(CL!Steps[j], s.req[s.lock].c)
  /\ s.lock = Nil /\ s.status = "running" => \A p \in CL!Parts : InForce(p, s.applied)

\* Who parses alone is the only one, and the fake range is its own from the
\* DNS section on, and so is the address of the TUN device after its section.
LifeAlone ==
  \A r \in LifeRequests : s.req[r].pc # "idle" /\ s.req[r].alone =>
    /\ \A q \in LifeRequests \ {r} : s.req[q].pc = "idle"
    /\ r # s.lock =>
         /\ s.req[r].pc \in {"tun", "tunnels", "sniffer"} => s.range = LifeConfigs[s.req[r].c].range
         /\ s.req[r].pc \in {"tunnels", "sniffer", "lock"} => s.req[r].tun = LifeConfigs[s.req[r].c].range

LifeInv == LifeType /\ LifeApplied /\ LifeAlone

LEMMA StepsDiffer == \A i, j \in 1 .. 17 : CL!Steps[i] = CL!Steps[j] => i = j
BY DEF CL!Steps

LEMMA StepsCover == \A p \in CL!Parts : \E i \in 1 .. 17 : CL!Steps[i] = p
<1>1. /\ CL!Steps[1] = "cert" /\ CL!Steps[2] = "users" /\ CL!Steps[3] = "proxies" /\ CL!Steps[4] = "rules"
      /\ CL!Steps[5] = "sniffer" /\ CL!Steps[6] = "hosts" /\ CL!Steps[7] = "general" /\ CL!Steps[8] = "dns"
      /\ CL!Steps[9] = "listeners" /\ CL!Steps[11] = "tun" /\ CL!Steps[12] = "tunnels"
      /\ CL!Steps[15] = "selected" /\ CL!Steps[17] = "log"
  BY DEF CL!Steps
<1>2. QED
  BY <1>1 DEF CL!Parts

LEMMA StepsRange == DOMAIN CL!Steps = 1 .. 17 /\ Len(CL!Steps) = 17 /\ CL!Steps[17] = "log" /\ CL!Steps[1] = "cert"
   /\ \A i \in 1 .. 17 : CL!Steps[i] # "idle" /\ (CL!Steps[i] = "log" => i = 17)
BY DEF CL!Steps

\* After each stage the next one.
LEMMA AfterStage ==
  ASSUME NEW i \in 1 .. 12
  PROVE  CL!After(CL!Stages[i]) = IF i < 12 THEN CL!Stages[i + 1] ELSE "lock"
<1>1. DOMAIN CL!Stages = 1 .. 12 /\ Len(CL!Stages) = 12
  BY DEF CL!Stages
<1>2. \A j \in 1 .. 12 : CL!Stages[j] = CL!Stages[i] => j = i
  BY DEF CL!Stages
<1>3. (CHOOSE j \in DOMAIN CL!Stages : CL!Stages[j] = CL!Stages[i]) = i
  BY <1>1, <1>2
<1>4. QED
  BY <1>1, <1>3 DEF CL!After

LEMMA LifeInitially == ASSUME CL!Init PROVE LifeInv
<1>1. LifeType
  BY DEF CL!Init, LifeType, LifeFields, LifeRequest, LifeRanges, CL!Idle
<1>2. LifeApplied /\ LifeAlone
  BY DEF CL!Init, LifeApplied, LifeAlone, CL!Idle
<1>3. QED
  BY <1>1, <1>2 DEF LifeInv

LEMMA StageIndex ==
  /\ CL!Stages[1] = "general" /\ CL!Stages[2] = "utls" /\ CL!Stages[3] = "proxies" /\ CL!Stages[4] = "listeners"
  /\ CL!Stages[5] = "ruleProviders" /\ CL!Stages[6] = "subRules" /\ CL!Stages[7] = "rules" /\ CL!Stages[8] = "hosts"
  /\ CL!Stages[9] = "dns" /\ CL!Stages[10] = "tun" /\ CL!Stages[11] = "tunnels" /\ CL!Stages[12] = "sniffer"
  /\ DOMAIN CL!Stages = 1 .. 12
BY DEF CL!Stages

\* What is in force stays, and so does what its request knows.
LEMMA LifeAppliedKept ==
  ASSUME LifeApplied, s'.lock = s.lock, s'.in = s.in, s'.status = s.status, s'.applied = s.applied,
         s.lock # Nil => s'.req[s.lock].pc = s.req[s.lock].pc /\ s'.req[s.lock].c = s.req[s.lock].c
  PROVE  LifeApplied'
<1>1. \A p, c : InForce(p, c)' <=> InForce(p, c)
  BY DEF InForce
<1>2. s.lock = Nil /\ s.status = "running" => \A p \in CL!Parts : InForce(p, s.applied)'
  BY <1>1 DEF LifeApplied
<1>3. ASSUME s.lock # Nil
      PROVE  /\ s.req[s.lock].pc # "idle" /\ s.status # "running"
             /\ \E i \in 1 .. 17 :
                  /\ s.req[s.lock].pc = CL!Steps[i]
                  /\ \A j \in 1 .. (i - 1) : CL!Steps[j] \in CL!Parts => InForce(CL!Steps[j], s.req[s.lock].c)'
  BY <1>1, <1>3 DEF LifeApplied
<1>4. QED
  BY <1>2, <1>3, Zenon DEF LifeApplied, InForce

\* A request is taken on.
LEMMA LifeBegin ==
  ASSUME LifeInv, NEW r \in LifeRequests, NEW c \in DOMAIN LifeConfigs, CL!Begin(r, c)
  PROVE  LifeInv'
<1> USE DEF LifeInv
<1> DEFINE others == {q \in LifeRequests \ {r} : s.req[q].pc # "idle"}
           v == [pc |-> "general", c |-> c, alone |-> others = {}, tun |-> Nil]
           reqs == [q \in LifeRequests |-> IF q = r THEN v ELSE IF q \in others THEN [s.req[q] EXCEPT !.alone = FALSE] ELSE s.req[q]]
<1>1. s.req \in [LifeRequests -> LifeRequest] /\ s.req[r].pc = "idle" /\ DOMAIN s = LifeFields
  BY DEF CL!Begin, CL!At, LifeType
<1>2. s' = [s EXCEPT !.left = s.left \ {r}, !.req = reqs]
  BY <1>1 DEF CL!Begin
<1>3. /\ s'.req = reqs /\ s'.lock = s.lock /\ s'.in = s.in /\ s'.range = s.range
      /\ s'.status = s.status /\ s'.applied = s.applied /\ DOMAIN s' = LifeFields
  BY <1>1, <1>2 DEF LifeFields
<1>4. v \in LifeRequest /\ v.pc = "general" /\ v.c = c /\ (v.alone <=> others = {})
  <2>1. "general" \in LifePcs
    BY StageIndex DEF LifePcs
  <2>2. (others = {}) \in BOOLEAN /\ Nil \in LifeRanges
    BY DEF LifeRanges
  <2>3. QED
    BY <2>1, <2>2 DEF LifeRequest
<1>5. \A q \in others : /\ [s.req[q] EXCEPT !.alone = FALSE] \in LifeRequest
                        /\ [s.req[q] EXCEPT !.alone = FALSE].pc = s.req[q].pc
                        /\ [s.req[q] EXCEPT !.alone = FALSE].c = s.req[q].c
                        /\ [s.req[q] EXCEPT !.alone = FALSE].alone = FALSE
  BY <1>1 DEF LifeRequest
<1> HIDE DEF v
<1>6. reqs \in [LifeRequests -> LifeRequest] /\ reqs[r] = v
  BY <1>1, <1>4, <1>5
<1>7. \A q \in LifeRequests \ {r} :
        /\ reqs[q].pc = s.req[q].pc
        /\ s.req[q].pc # "idle" => reqs[q].c = s.req[q].c /\ reqs[q].alone = FALSE
  BY <1>1, <1>5
<1> HIDE DEF reqs
<1>8. LifeType'
  BY <1>3, <1>6 DEF LifeType
<1>9. LifeApplied'
  <2>1. s.lock # Nil => s.lock \in LifeRequests \ {r}
    BY <1>1 DEF LifeType, LifeApplied
  <2>2. QED
    BY <1>3, <1>7, <2>1, LifeAppliedKept, Zenon DEF LifeApplied
<1>10. LifeAlone'
  <2>1. ASSUME NEW q \in LifeRequests, reqs[q].pc # "idle", reqs[q].alone PROVE q = r /\ others = {}
    BY <1>4, <1>6, <1>7, <2>1
  <2>2. QED
    BY <1>3, <1>4, <1>6, <1>7, <2>1 DEF LifeAlone
<1>11. QED
  BY <1>8, <1>9, <1>10

\* A stage of parsing.
LEMMA LifeStage ==
  ASSUME LifeInv, NEW r \in LifeRequests, s.lock # r, NEW i \in 1 .. 12, CL!Stage(r, CL!Stages[i])
  PROVE  LifeInv'
<1> USE DEF LifeInv
<1> DEFINE st == CL!Stages[i]
           q == s.req[r]
           t == CL!Touched(q.c, st)
           refused == LifeConfigs[q.c].bad = st \/ (st = "dns" /\ LifeConfigs[q.c].bad = "nameserver")
           v == IF refused THEN CL!Idle
                ELSE IF st = "tun" THEN [q EXCEPT !.pc = CL!After(st), !.tun = s.range]
                ELSE [q EXCEPT !.pc = CL!After(st)]
<1>1. s.req \in [LifeRequests -> LifeRequest] /\ q.pc = st /\ DOMAIN s = LifeFields
  BY DEF CL!Stage, CL!At, LifeType
<1>2. st # "idle"
  BY StageIndex
<1>3. q \in LifeRequest /\ q.c \in DOMAIN LifeConfigs
  BY <1>1, <1>2 DEF LifeRequest
<1>4. /\ DOMAIN t = LifeFields /\ t.req = s.req /\ t.lock = s.lock /\ t.in = s.in
      /\ t.status = s.status /\ t.applied = s.applied
      /\ t.range = IF st = "dns" /\ LifeConfigs[q.c].bad # "nameserver" THEN LifeConfigs[q.c].range ELSE s.range
  BY <1>1, StageIndex DEF CL!Touched, LifeFields
<1>5. s' = [t EXCEPT !.req = [s.req EXCEPT ![r] = v]]
  BY <1>1, <1>4 DEF CL!Stage, CL!Cfg
<1>6. /\ s'.req = [s.req EXCEPT ![r] = v] /\ s'.lock = s.lock /\ s'.in = s.in /\ s'.range = t.range
      /\ s'.status = s.status /\ s'.applied = s.applied /\ DOMAIN s' = LifeFields
  <2> HIDE DEF t, v
  <2>1. QED
    BY <1>4, <1>5 DEF LifeFields
<1>7. CL!After(st) = IF i < 12 THEN CL!Stages[i + 1] ELSE "lock"
  BY AfterStage
<1>8. CL!After(st) \in LifePcs /\ CL!After(st) # "idle"
  <2>1. i < 12 => i + 1 \in 1 .. 12
    OBVIOUS
  <2>2. \A j \in 1 .. 12 : CL!Stages[j] # "idle"
    BY StageIndex
  <2>3. QED
    BY <1>7, <2>1, <2>2 DEF LifePcs
<1>9. /\ v \in LifeRequest
      /\ v.pc # "idle" => /\ ~refused /\ v.pc = CL!After(st) /\ v.c = q.c /\ v.alone = q.alone
                         /\ v.tun = IF st = "tun" THEN s.range ELSE q.tun
  <2>1. s.range \in LifeRanges /\ q.pc # "idle"
    BY <1>1, <1>2 DEF LifeType
  <2>2. CASE refused
    BY <2>2 DEF CL!Idle, LifeRequest
  <2>3. CASE ~refused /\ st = "tun"
    <3>1. v = [q EXCEPT !.pc = CL!After(st), !.tun = s.range]
      BY <2>3
    <3> HIDE DEF v, q, refused
    <3>2. QED
      BY <1>3, <1>8, <2>1, <2>3, <3>1 DEF LifeRequest
  <2>4. CASE ~refused /\ st # "tun"
    <3>1. v = [q EXCEPT !.pc = CL!After(st)]
      BY <2>4
    <3> HIDE DEF v, q, refused
    <3>2. QED
      BY <1>3, <1>8, <2>1, <2>4, <3>1 DEF LifeRequest
  <2>5. QED
    BY <2>2, <2>3, <2>4
<1>10. t.range \in LifeRanges
  BY <1>3, <1>4 DEF LifeType, LifeRanges
<1> HIDE DEF v, t, refused
<1>11. LifeType'
  BY <1>1, <1>6, <1>9, <1>10 DEF LifeType
<1>12. LifeApplied'
  <2>1. s.lock # Nil => s.lock \in LifeRequests /\ s'.req[s.lock] = s.req[s.lock]
    BY <1>1, <1>6 DEF LifeType
  <2>2. QED
    BY <1>6, <2>1, LifeAppliedKept
<1>13. LifeAlone'
  <2>1. ASSUME NEW p \in LifeRequests, p # r, s'.req[p].pc # "idle", s'.req[p].alone PROVE FALSE
    BY <1>1, <1>2, <1>6, <2>1 DEF LifeAlone
  <2>2. ASSUME v.pc # "idle", v.alone
        PROVE  /\ \A p \in LifeRequests \ {r} : s'.req[p].pc = "idle"
               /\ v.pc \in {"tun", "tunnels", "sniffer"} => s'.range = LifeConfigs[v.c].range
               /\ v.pc \in {"tunnels", "sniffer", "lock"} => v.tun = LifeConfigs[v.c].range
    <3>1. q.alone /\ q.pc # "idle" /\ v.c = q.c
      BY <1>1, <1>2, <1>9, <2>2
    <3>2. /\ \A p \in LifeRequests \ {r} : s.req[p].pc = "idle"
          /\ st \in {"tun", "tunnels", "sniffer"} => s.range = LifeConfigs[q.c].range
          /\ st \in {"tunnels", "sniffer"} => q.tun = LifeConfigs[q.c].range
      BY <1>1, <3>1 DEF LifeAlone
    <3>3. \A p \in LifeRequests \ {r} : s'.req[p].pc = "idle"
      BY <1>1, <1>6, <3>2
    <3>4. st = "dns" => LifeConfigs[q.c].bad # "nameserver"
      BY <1>9, <2>2 DEF refused
    <3>5. v.pc = IF i < 12 THEN CL!Stages[i + 1] ELSE "lock"
      BY <1>7, <1>9, <2>2
    <3>6. v.pc \in {"tun", "tunnels", "sniffer"} => st \in {"dns", "tun", "tunnels"}
      BY <3>5, StageIndex
    <3>7. v.pc \in {"tunnels", "sniffer", "lock"} => st \in {"tun", "tunnels", "sniffer"}
      BY <3>5, StageIndex
    <3>8. QED
      BY <1>4, <1>6, <1>9, <2>2, <3>1, <3>2, <3>3, <3>4, <3>6, <3>7
  <2>3. QED
    BY <1>1, <1>6, <2>1, <2>2 DEF LifeAlone
<1>14. QED
  BY <1>11, <1>12, <1>13

\* The lock is taken, and nothing is in force yet.
LEMMA LifeLock ==
  ASSUME LifeInv, NEW r \in LifeRequests, CL!Lock(r)
  PROVE  LifeInv'
<1> USE DEF LifeInv
<1> DEFINE v == [s.req[r] EXCEPT !.pc = "cert"]
<1>1. s.req \in [LifeRequests -> LifeRequest] /\ s.req[r].pc = "lock" /\ DOMAIN s = LifeFields /\ s.lock = Nil
  BY DEF CL!Lock, CL!At, LifeType
<1>2. s' = [s EXCEPT !.lock = r, !.status = "suspend", !.req = [s.req EXCEPT ![r] = v]]
  BY <1>1 DEF CL!Lock
<1>3. "cert" \in LifePcs
  BY StepsRange DEF LifePcs
<1>4. v \in LifeRequest /\ v.pc = "cert" /\ v.c = s.req[r].c /\ v.alone = s.req[r].alone
  BY <1>1, <1>3 DEF LifeRequest
<1> HIDE DEF v
<1>5. /\ s'.req = [s.req EXCEPT ![r] = v] /\ s'.lock = r /\ s'.in = s.in /\ s'.range = s.range
      /\ s'.status = "suspend" /\ s'.applied = s.applied /\ DOMAIN s' = LifeFields
  BY <1>1, <1>2 DEF LifeFields
<1>6. LifeType'
  BY <1>1, <1>4, <1>5 DEF LifeType
<1>7. LifeApplied'
  <2>1. r # Nil /\ s'.req[r] = v /\ v.pc = CL!Steps[1]
    BY <1>1, <1>4, <1>5, NilAssumption, StepsRange
  <2>2. \A j \in 1 .. (1 - 1) : FALSE
    OBVIOUS
  <2>3. QED
    BY <1>4, <1>5, <2>1, <2>2 DEF LifeApplied
<1>8. LifeAlone'
  BY <1>1, <1>4, <1>5 DEF LifeAlone
<1>9. QED
  BY <1>6, <1>7, <1>8

\* What a step of ApplyConfig replaces, and what it leaves.
LEMMA LifePerform ==
  ASSUME DOMAIN s = LifeFields, DOMAIN s.in = CL!Parts, NEW c, NEW st
  PROVE  LET g == CL!Perform(s, c, st)
         IN  /\ DOMAIN g = LifeFields /\ g.req = s.req /\ g.lock = s.lock /\ g.range = s.range
             /\ DOMAIN g.in = CL!Parts
             /\ \A p \in CL!Parts : p # st => g.in[p] = s.in[p]
             /\ st \in CL!Parts => g.in[st] = IF st = "selected" /\ ~LifeConfigs[c].store THEN Nil ELSE c
             /\ st # "log" => g.status \in {s.status, "inner"}
             /\ st = "log" => g.applied = c
<1> DEFINE g == CL!Perform(s, c, st)
<1>0. "inner" \notin CL!Parts /\ "iptables" \notin CL!Parts /\ "load" \notin CL!Parts /\ "ruleLoad" \notin CL!Parts
  BY DEF CL!Parts
<1>1. CASE st = "general"
  <2>1. PICK b : g = [s EXCEPT !.in = [s.in EXCEPT !["general"] = c], !.loader = c, !.concurrent = b]
    <3>1. g = [s EXCEPT !.in = [s.in EXCEPT !["general"] = c], !.loader = c, !.concurrent = s.concurrent \/ LifeConfigs[c].concurrent]
      BY <1>1 DEF CL!Perform, CL!UpdateGeneral
    <3>2. QED
      BY <3>1, Zenon
  <2>2. QED
    BY <1>1, <2>1, Zenon DEF LifeFields
<1>2. CASE st = "dns"
  <2>1. PICK m, n : g = [s EXCEPT !.in = [s.in EXCEPT !["dns"] = c], !.mapper = m, !.proxyNS = n]
    <3>1. CASE ~LifeConfigs[c].dns
      <4>1. g = [s EXCEPT !.in = [s.in EXCEPT !["dns"] = c], !.mapper = Nil, !.proxyNS = s.proxyNS]
        BY <1>2, <3>1 DEF CL!Perform, CL!UpdateDNS, LifeFields
      <4>2. QED
        BY <4>1, Zenon
    <3>2. CASE LifeConfigs[c].dns
      <4>1. g = [s EXCEPT !.in = [s.in EXCEPT !["dns"] = c], !.mapper = IF s.mapper = Nil THEN {c} ELSE s.mapper \cup {c},
                          !.proxyNS = IF LifeConfigs[c].proxyNS THEN c ELSE s.proxyNS]
        BY <1>2, <3>2 DEF CL!Perform, CL!UpdateDNS
      <4>2. QED
        BY <4>1, Zenon
    <3>3. QED
      BY <3>1, <3>2, Zenon
  <2>2. QED
    BY <1>2, <2>1, Zenon DEF LifeFields
<1>3. CASE st = "iptables"
  <2>1. g = [s EXCEPT !.exited = LifeConfigs[c].iptables /\ LifeConfigs[c].tun]
    BY <1>3 DEF CL!Perform, CL!UpdateIPTables
  <2>2. QED
    BY <1>0, <1>3, <2>1 DEF LifeFields
<1>4. CASE st = "selected"
  <2>1. g = [s EXCEPT !.in = [s.in EXCEPT !["selected"] = IF LifeConfigs[c].store THEN c ELSE Nil]]
    BY <1>4 DEF CL!Perform, CL!UpdateProfile
  <2>2. QED
    BY <1>4, <2>1 DEF LifeFields
<1>5. CASE st = "inner"
  BY <1>0, <1>5 DEF CL!Perform, LifeFields
<1>6. CASE st \in {"load", "ruleLoad"}
  BY <1>0, <1>6 DEF CL!Perform, LifeFields
<1>7. CASE st = "log"
  <2>1. g = [s EXCEPT !.status = "running", !.in = [s.in EXCEPT !["log"] = c], !.applied = c]
    BY <1>7 DEF CL!Perform
  <2>2. /\ DOMAIN g = LifeFields /\ g.req = s.req /\ g.lock = s.lock /\ g.range = s.range /\ g.applied = c
        /\ g.in = [s.in EXCEPT !["log"] = c]
    <3> HIDE DEF g
    <3>1. QED
      BY <2>1 DEF LifeFields
  <2>3. QED
    BY <1>7, <2>2
<1>8. CASE st \notin {"general", "dns", "iptables", "selected", "inner", "load", "ruleLoad", "log"}
  <2>1. g = [s EXCEPT !.in = [s.in EXCEPT ![st] = c]]
    BY <1>8 DEF CL!Perform
  <2>2. QED
    BY <1>8, <2>1 DEF LifeFields
<1>9. QED
  BY <1>1, <1>2, <1>3, <1>4, <1>5, <1>6, <1>7, <1>8

\* A step of ApplyConfig.
LEMMA LifeApply ==
  ASSUME LifeInv, NEW r \in LifeRequests, NEW i \in 1 .. 17, CL!Apply(r, i)
  PROVE  LifeInv'
<1> USE DEF LifeInv
<1> DEFINE c == s.req[r].c
           g == CL!Perform(s, c, CL!Steps[i])
<1>1. /\ s.req \in [LifeRequests -> LifeRequest] /\ s.req[r].pc = CL!Steps[i] /\ DOMAIN s = LifeFields
      /\ DOMAIN s.in = CL!Parts /\ s.lock = r /\ r # Nil /\ s.range \in LifeRanges
  BY NilAssumption DEF CL!Apply, LifeType
<1>2. /\ DOMAIN g = LifeFields /\ g.req = s.req /\ g.lock = s.lock /\ g.range = s.range
      /\ DOMAIN g.in = CL!Parts
      /\ \A p \in CL!Parts : p # CL!Steps[i] => g.in[p] = s.in[p]
      /\ CL!Steps[i] \in CL!Parts =>
           g.in[CL!Steps[i]] = IF CL!Steps[i] = "selected" /\ ~LifeConfigs[c].store THEN Nil ELSE c
      /\ i < 17 => g.status \in {s.status, "inner"}
      /\ i = 17 => g.applied = c
  BY <1>1, LifePerform, StepsRange
<1>3. /\ s.status # "running"
      /\ \A j \in 1 .. (i - 1) : CL!Steps[j] \in CL!Parts => InForce(CL!Steps[j], c)
  BY <1>1, StepsDiffer DEF LifeApplied
<1>4. s' = IF i < 17 THEN [g EXCEPT !.req[r].pc = CL!Steps[i + 1]] ELSE [g EXCEPT !.req[r] = CL!Idle, !.lock = Nil]
  BY StepsRange DEF CL!Apply
<1> HIDE DEF g
\* What is in force after the step.
<1>5. \A j \in 1 .. i : CL!Steps[j] \in CL!Parts =>
        g.in[CL!Steps[j]] = IF CL!Steps[j] = "selected" /\ ~LifeConfigs[c].store THEN Nil ELSE c
  <2>1. ASSUME NEW j \in 1 .. i, j # i, CL!Steps[j] \in CL!Parts
        PROVE  g.in[CL!Steps[j]] = IF CL!Steps[j] = "selected" /\ ~LifeConfigs[c].store THEN Nil ELSE c
    <3>1. j \in 1 .. (i - 1) /\ j \in 1 .. 17
      BY <2>1
    <3>2. CL!Steps[j] # CL!Steps[i]
      BY <2>1, <3>1, StepsDiffer
    <3>3. QED
      BY <1>2, <1>3, <2>1, <3>1, <3>2 DEF InForce
  <2>2. QED
    BY <1>2, <2>1
<1>6. \A p \in LifeRequests \ {r} : s.req[p].pc # "idle" => ~s.req[p].alone
  <2>1. CL!Steps[i] # "idle"
    BY StepsRange
  <2>2. QED
    BY <1>1, <2>1 DEF LifeAlone
<1>7. CASE i < 17
  <2> DEFINE v == [s.req[r] EXCEPT !.pc = CL!Steps[i + 1]]
  <2>1. i + 1 \in 1 .. 17 /\ CL!Steps[i + 1] \in LifePcs /\ CL!Steps[i + 1] # "idle"
    BY <1>7, StepsRange DEF LifePcs
  <2>2. CL!Steps[i] # "idle"
    BY StepsRange
  <2>3. v \in LifeRequest /\ v.pc = CL!Steps[i + 1] /\ v.c = c /\ v.alone = s.req[r].alone
    BY <1>1, <2>1, <2>2 DEF LifeRequest
  <2>4. s' = [g EXCEPT !.req = [s.req EXCEPT ![r] = v]]
    BY <1>2, <1>4, <1>7
  <2> HIDE DEF v
  <2>5. /\ s'.req = [s.req EXCEPT ![r] = v] /\ s'.lock = r /\ s'.in = g.in /\ s'.range = s.range
        /\ s'.status = g.status /\ DOMAIN s' = LifeFields
    BY <1>1, <1>2, <2>4 DEF LifeFields
  <2>6. LifeType'
    BY <1>1, <1>2, <2>3, <2>5 DEF LifeType
  <2>7. LifeApplied'
    <3>1. s'.req[s'.lock] = v /\ s'.lock = r
      BY <1>1, <2>5
    <3>2. s'.status # "running"
      BY <1>2, <1>3, <1>7, <2>5
    <3>3. \A j \in 1 .. ((i + 1) - 1) : CL!Steps[j] \in CL!Parts =>
            s'.in[CL!Steps[j]] = IF CL!Steps[j] = "selected" /\ ~LifeConfigs[v.c].store THEN Nil ELSE v.c
      <4>1. (i + 1) - 1 = i
        OBVIOUS
      <4>2. QED
        BY <1>5, <2>3, <2>5, <4>1
    <3>4. QED
      BY <1>1, <2>1, <2>3, <3>1, <3>2, <3>3, Zenon DEF LifeApplied, InForce
  <2>8. LifeAlone'
    <3>1. \A p \in LifeRequests \ {r} : s'.req[p] = s.req[p]
      BY <1>1, <2>5
    <3>2. s'.req[r] = v /\ s'.lock = r
      BY <1>1, <2>5
    <3>3. v.alone => \A p \in LifeRequests \ {r} : s.req[p].pc = "idle"
      BY <1>1, <2>2, <2>3 DEF LifeAlone
    <3>4. QED
      BY <1>6, <3>1, <3>2, <3>3 DEF LifeAlone
  <2>9. QED
    BY <2>6, <2>7, <2>8
<1>8. CASE i = 17
  <2>1. s' = [g EXCEPT !.req = [s.req EXCEPT ![r] = CL!Idle], !.lock = Nil]
    BY <1>2, <1>4, <1>8
  <2>2. /\ s'.req = [s.req EXCEPT ![r] = CL!Idle] /\ s'.lock = Nil /\ s'.in = g.in /\ s'.range = s.range
        /\ s'.applied = c /\ DOMAIN s' = LifeFields
    BY <1>2, <1>8, <2>1 DEF LifeFields
  <2>3. CL!Idle \in LifeRequest /\ CL!Idle.pc = "idle"
    BY DEF CL!Idle, LifeRequest
  <2>4. LifeType'
    BY <1>1, <1>2, <2>2, <2>3 DEF LifeType
  <2>5. \A p \in CL!Parts : g.in[p] = IF p = "selected" /\ ~LifeConfigs[c].store THEN Nil ELSE c
    BY <1>5, <1>8, StepsCover
  <2>6. LifeApplied'
    BY <2>2, <2>5, Zenon DEF LifeApplied, InForce
  <2>7. LifeAlone'
    BY <1>1, <1>6, <2>2, <2>3 DEF LifeAlone
  <2>8. QED
    BY <2>4, <2>6, <2>7
<1>9. QED
  BY <1>7, <1>8

\* While connections are let in, everything is of the configuration applied
\* last, and the TUN device lies in its own fake range, for any requests and
\* configurations.
THEOREM LifeKept == RunSpec => []RunningIsWhole
<1>1. RunInit => (active = "life" => LifeInv)
  BY LifeInitially DEF RunInit
<1>2. (active = "life" => LifeInv) /\ [RunNext]_<<active, s>> => (active = "life" => LifeInv)'
  <2>1. ASSUME active = "life", LifeInv, UNCHANGED <<active, s>> PROVE LifeInv'
    BY <2>1, Zenon DEF LifeInv, LifeType, LifeApplied, LifeAlone, InForce
  <2>2. ASSUME LifeInv, CL!Next PROVE LifeInv'
    BY <2>2, LifeBegin, LifeStage, LifeLock, LifeApply, StageIndex, StepsRange DEF CL!Next
  <2>3. QED
    BY <2>1, <2>2 DEF RunNext
<1>3. (active = "life" => LifeInv) => RunningIsWhole
  <2>1. ASSUME LifeInv PROVE CL!RunningIsWhole
    <3>1. "selected" \in CL!Parts
      BY DEF CL!Parts
    <3>2. QED
      BY <2>1, <3>1 DEF LifeInv, LifeApplied, InForce, CL!RunningIsWhole
  <2>2. ASSUME LifeInv PROVE CL!TunInOwnRange
    <3>1. ASSUME NEW r \in LifeRequests, s.req[r].pc = "lock" PROVE s.lock # r
      BY <2>2, <3>1, NilAssumption DEF LifeInv, LifeApplied, CL!Steps
    <3>2. QED
      BY <2>2, <3>1 DEF LifeInv, LifeAlone, CL!TunInOwnRange, CL!At, CL!Cfg
  <2>3. QED
    BY <2>1, <2>2 DEF RunningIsWhole
<1>4. QED
  BY <1>1, <1>2, <1>3, PTL DEF RunSpec

-----------------------------------------------------------------------------
(* The skip list of the sniffers, and the traffic manager                  *)

SniffInput == CO!Inputs

SniffConn ==
  [pc : {"idle"}] \cup
  [pc : {"peek", "as is", "sniffed"}, in : SniffInput, host : {"none", "forced", "mapped", "other", "found"}, closed : BOOLEAN]

SnifferType ==
  s \in [pure : BOOLEAN, map : BOOLEAN, override : BOOLEAN, skip : [SniffDests -> Nat], failed : [SniffDests -> Nat],
         sniffs : Nat, conn : [SniffConnections -> SniffConn]]

\* Every failure adds one or two to the skip list.
SkipCounted == \A d \in SniffDests : s.skip[d] <= 2 * s.failed[d]

SnifferInv == SnifferType /\ SkipCounted

LEMMA SnifferInitially == ASSUME CO!SnifferInit PROVE SnifferInv
BY DEF CO!SnifferInit, SnifferInv, SnifferType, SkipCounted, SniffConn

\* The destination of a connection that is peeked at.
LEMMA PeekedDest ==
  ASSUME SnifferType, NEW c \in SniffConnections, CO!At(c, "peek")
  PROVE  s.conn[c].in.dest \in SniffDests
BY Zenon DEF SnifferType, SniffConn, SniffInput, CO!Inputs, CO!At

\* What a step does to the counters and to one connection.
LEMMA SnifferConn ==
  ASSUME SnifferType, NEW c \in SniffConnections, NEW v \in SniffConn,
         NEW k \in [SniffDests -> Nat], NEW f \in [SniffDests -> Nat], NEW n \in Nat,
         \A d \in SniffDests : k[d] <= 2 * f[d],
         s' = [s EXCEPT !.skip = k, !.failed = f, !.sniffs = n, !.conn = [@ EXCEPT ![c] = v]]
  PROVE  SnifferInv'
BY DEF SnifferType, SnifferInv, SkipCounted

LEMMA SnifferStep == ASSUME SnifferInv, CO!SnifferNext PROVE SnifferInv'
<1> USE DEF SnifferInv
<1>1. ASSUME NEW c \in SniffConnections, CO!TCPSniff(c) PROVE SnifferInv'
  <2>1. PICK input \in SniffInput, pc \in {"peek", "as is"} :
          s' = [s EXCEPT !.sniffs = s.sniffs + 1,
                         !.conn[c] = [pc |-> pc, in |-> input, host |-> input.host, closed |-> FALSE]]
    BY <1>1, Zenon DEF CO!TCPSniff, SniffInput
  <2> DEFINE v == [pc |-> pc, in |-> input, host |-> input.host, closed |-> FALSE]
  <2>2. v \in SniffConn
    BY Zenon DEF SniffConn, SniffInput, CO!Inputs
  <2>0. s.sniffs \in Nat /\ s.skip \in [SniffDests -> Nat] /\ s.failed \in [SniffDests -> Nat]
    BY Zenon DEF SnifferType
  <2>3. s.sniffs + 1 \in Nat
    BY <2>0, Sums, Zenon
  <2>4. s' = [s EXCEPT !.skip = s.skip, !.failed = s.failed, !.sniffs = s.sniffs + 1, !.conn = [@ EXCEPT ![c] = v]]
    BY <2>1, Zenon DEF SnifferType
  <2> HIDE DEF v
  <2>5. QED
    BY <2>0, <2>2, <2>3, <2>4, SnifferConn, Zenon DEF SkipCounted
<1>2. ASSUME NEW c \in SniffConnections, CO!PeekFails(c) PROVE SnifferInv'
  <2> DEFINE d == s.conn[c].in.dest
             once == [s EXCEPT !.skip[d] = IF @ <= SniffLimit THEN @ + 1 ELSE @]
             twice == [once EXCEPT !.skip[d] = IF @ <= SniffLimit THEN @ + 1 ELSE @]
  <2>1. d \in SniffDests /\ s.conn[c] \in SniffConn /\ s.conn[c].pc = "peek"
    BY <1>2, PeekedDest DEF CO!PeekFails, SnifferType, CO!At
  <2>2. s' = [twice EXCEPT !.failed[d] = @ + 1, !.conn[c].pc = "as is", !.conn[c].closed = TRUE]
    BY <1>2 DEF CO!PeekFails, CO!CacheSniffFailed
  <2> DEFINE k1 == [s.skip EXCEPT ![d] = IF @ <= SniffLimit THEN @ + 1 ELSE @]
             k == [k1 EXCEPT ![d] = IF @ <= SniffLimit THEN @ + 1 ELSE @]
  <2>0. s.sniffs \in Nat /\ s.skip \in [SniffDests -> Nat] /\ s.failed \in [SniffDests -> Nat]
    BY DEF SnifferType
  <2>3. /\ k \in [SniffDests -> Nat]
        /\ k[d] <= s.skip[d] + 2 /\ \A e \in SniffDests \ {d} : k[e] = s.skip[e]
    <3>1. k1 \in [SniffDests -> Nat] /\ k1[d] <= s.skip[d] + 1 /\ \A e \in SniffDests \ {d} : k1[e] = s.skip[e]
      BY <2>0, <2>1
    <3> HIDE DEF k1
    <3>2. QED
      BY <2>0, <2>1, <3>1
  <2>30. twice = [s EXCEPT !.skip = k]
    <3>1. once = [s EXCEPT !.skip = k1]
      BY DEF SnifferType
    <3>2. twice = [[s EXCEPT !.skip = k1] EXCEPT !.skip[d] = IF @ <= SniffLimit THEN @ + 1 ELSE @]
      BY <3>1
    <3> HIDE DEF k1
    <3>3. QED
      BY <3>2 DEF SnifferType
  <2> HIDE DEF twice, once, k1, k
  <2> DEFINE v == [s.conn[c] EXCEPT !.pc = "as is", !.closed = TRUE]
             f == [s.failed EXCEPT ![d] = @ + 1]
  <2>4. v \in SniffConn
    BY <2>1, Zenon DEF SniffConn
  <2>5. f \in [SniffDests -> Nat] /\ s.sniffs \in Nat /\ \A e \in SniffDests : k[e] <= 2 * f[e]
    BY <2>0, <2>1, <2>3 DEF SkipCounted
  <2>6. s' = [s EXCEPT !.skip = k, !.failed = f, !.sniffs = s.sniffs, !.conn = [@ EXCEPT ![c] = v]]
    BY <2>1, <2>2, <2>30 DEF SnifferType
  <2> HIDE DEF v, f
  <2>7. QED
    BY <2>3, <2>4, <2>5, <2>6, SnifferConn, Zenon
<1>3. ASSUME NEW c \in SniffConnections, CO!SniffFails(c) PROVE SnifferInv'
  <2> DEFINE d == s.conn[c].in.dest
             k == [s.skip EXCEPT ![d] = IF @ <= SniffLimit THEN @ + 1 ELSE @]
             v == [s.conn[c] EXCEPT !.pc = "as is"]
             f == [s.failed EXCEPT ![d] = @ + 1]
  <2>1. d \in SniffDests /\ s.conn[c] \in SniffConn /\ s.conn[c].pc = "peek"
    BY <1>3, PeekedDest DEF CO!SniffFails, SnifferType, CO!At
  <2>2. s' = [[s EXCEPT !.skip = k] EXCEPT !.failed[d] = @ + 1, !.conn[c].pc = "as is"]
    BY <1>3 DEF CO!SniffFails, CO!CacheSniffFailed
  <2>4. v \in SniffConn
    BY <2>1, Zenon DEF SniffConn
  <2>5. /\ k \in [SniffDests -> Nat] /\ f \in [SniffDests -> Nat] /\ s.sniffs \in Nat
        /\ \A e \in SniffDests : k[e] <= 2 * f[e]
    BY <2>1 DEF SnifferType, SkipCounted
  <2>6. s' = [s EXCEPT !.skip = k, !.failed = f, !.sniffs = s.sniffs, !.conn = [@ EXCEPT ![c] = v]]
    BY <2>1, <2>2, Zenon DEF SnifferType
  <2> HIDE DEF v, f, k
  <2>7. QED
    BY <2>4, <2>5, <2>6, SnifferConn, Zenon
<1>4. ASSUME NEW c \in SniffConnections, CO!SkipSNI(c) PROVE SnifferInv'
  <2> DEFINE v == [s.conn[c] EXCEPT !.pc = "as is"]
  <2>1. s.conn[c] \in SniffConn /\ s.conn[c].pc = "peek"
    BY <1>4, Zenon DEF CO!SkipSNI, SnifferType, CO!At
  <2>2. v \in SniffConn
    BY <2>1, Zenon DEF SniffConn
  <2>3. s' = [s EXCEPT !.skip = s.skip, !.failed = s.failed, !.sniffs = s.sniffs, !.conn = [@ EXCEPT ![c] = v]]
    BY <1>4, Zenon DEF CO!SkipSNI, SnifferType
  <2> HIDE DEF v
  <2>4. QED
    BY <2>2, <2>3, SnifferConn, Zenon DEF SkipCounted, SnifferType
<1>5. ASSUME NEW c \in SniffConnections, CO!Sniffed(c) PROVE SnifferInv'
  <2> DEFINE d == s.conn[c].in.dest
             k == [s.skip EXCEPT ![d] = 0]
             f == [s.failed EXCEPT ![d] = 0]
             h == IF s.override THEN "found" ELSE s.conn[c].host
             v == [s.conn[c] EXCEPT !.pc = "sniffed", !.host = h]
  <2>1. d \in SniffDests /\ s.conn[c] \in SniffConn /\ s.conn[c].pc = "peek"
    BY <1>5, PeekedDest DEF CO!Sniffed, SnifferType, CO!At
  <2>2. s' = [s EXCEPT !.skip[d] = 0, !.failed[d] = 0, !.conn[c].pc = "sniffed",
                       !.conn[c].host = IF s.override THEN "found" ELSE @]
    BY <1>5 DEF CO!Sniffed
  <2>3. h \in {"none", "forced", "mapped", "other", "found"}
    BY <2>1, Zenon DEF SniffConn
  <2>4. v \in SniffConn
    BY <2>1, <2>3, Zenon DEF SniffConn
  <2>5. /\ k \in [SniffDests -> Nat] /\ f \in [SniffDests -> Nat] /\ s.sniffs \in Nat
        /\ \A e \in SniffDests : k[e] <= 2 * f[e]
    BY <2>1 DEF SnifferType, SkipCounted
  <2>6. s' = [s EXCEPT !.skip = k, !.failed = f, !.sniffs = s.sniffs, !.conn = [@ EXCEPT ![c] = v]]
    BY <2>1, <2>2 DEF SnifferType
  <2> HIDE DEF v, f, k
  <2>7. QED
    BY <2>4, <2>5, <2>6, SnifferConn, Zenon
<1>6. ASSUME NEW c \in SniffConnections, CO!Done(c) PROVE SnifferInv'
  <2> DEFINE v == [pc |-> "idle"]
  <2>1. v \in SniffConn
    BY DEF SniffConn
  <2>2. s' = [s EXCEPT !.skip = s.skip, !.failed = s.failed, !.sniffs = s.sniffs, !.conn = [@ EXCEPT ![c] = v]]
    BY <1>6, Zenon DEF CO!Done, SnifferType
  <2> HIDE DEF v
  <2>3. QED
    BY <2>1, <2>2, SnifferConn, Zenon DEF SkipCounted, SnifferType
<1>7. ASSUME NEW d \in SniffDests, CO!Expire(d) PROVE SnifferInv'
  BY <1>7 DEF CO!Expire, SnifferType, SkipCounted
<1>8. QED
  BY <1>1, <1>2, <1>3, <1>4, <1>5, <1>6, <1>7 DEF CO!SnifferNext

\* The sum of the speeds and what is still to be shown, at every step of the
\* ticker: what it has read is shown next, and cleared after that.
StatisticType ==
  s \in [temp : Nat, blip : Nat, total : Nat, pushed : Nat, shown : Nat, resets : Nat,
         tick : {"idle", "store", "clear"}, read : Nat, reset : {"idle", "blip", "total"},
         pc : [Pushers -> {"idle", "total"}]]

StatisticInv ==
  /\ StatisticType
  /\ s.shown <= s.pushed
  /\ s.tick # "clear" => s.shown + s.temp <= s.pushed
  /\ s.tick = "store" => s.shown + s.read <= s.pushed

LEMMA StatisticStep == ASSUME StatisticInv, CO!StatisticNext PROVE StatisticInv'
<1>0. /\ s.temp \in Nat /\ s.blip \in Nat /\ s.total \in Nat /\ s.pushed \in Nat /\ s.shown \in Nat
      /\ s.resets \in Nat /\ s.read \in Nat
  BY DEF StatisticInv, StatisticType
<1>1. ASSUME NEW p \in Pushers, CO!PushTemp(p) PROVE StatisticInv'
  <2>0. s' = [s EXCEPT !.temp = s.temp + 1, !.pushed = s.pushed + 1, !.pc[p] = "total"]
    BY <1>1 DEF CO!PushTemp
  <2>1. PICK t \in Nat, n \in Nat : /\ t = s.temp + 1 /\ n = s.pushed + 1
                                  /\ s' = [s EXCEPT !.temp = t, !.pushed = n, !.pc[p] = "total"]
    BY <1>0, <2>0, Sums, Zenon
  <2>2. StatisticType'
    BY <2>1 DEF StatisticInv, StatisticType
  <2>3. s'.temp = t /\ s'.pushed = n /\ s'.shown = s.shown /\ s'.tick = s.tick /\ s'.read = s.read
    BY <2>1 DEF StatisticInv, StatisticType
  <2>4. QED
    BY <1>0, <2>1, <2>2, <2>3 DEF StatisticInv
<1>2. ASSUME NEW p \in Pushers, CO!PushTotal(p) PROVE StatisticInv'
  <2>0. s' = [s EXCEPT !.total = s.total + 1, !.pc[p] = "idle"]
    BY <1>2 DEF CO!PushTotal
  <2>1. PICK t \in Nat : s' = [s EXCEPT !.total = t, !.pc[p] = "idle"]
    BY <1>0, <2>0, Sums, Zenon
  <2>2. QED
    BY <2>1 DEF StatisticInv, StatisticType
<1>3. CASE CO!TickLoad
  BY <1>3 DEF CO!TickLoad, StatisticInv, StatisticType
<1>4. CASE CO!TickStore
  <2>0. s' = [s EXCEPT !.blip = s.read, !.shown = s.shown + s.read, !.tick = "clear"]
    BY <1>4 DEF CO!TickStore
  <2>1. PICK n \in Nat : n = s.shown + s.read /\ s' = [s EXCEPT !.blip = s.read, !.shown = n, !.tick = "clear"]
    BY <1>0, <2>0, Sums, Zenon
  <2>2. StatisticType'
    BY <2>1 DEF StatisticInv, StatisticType
  <2>3. s'.shown = n /\ s'.pushed = s.pushed /\ s'.tick = "clear"
    BY <2>1 DEF StatisticInv, StatisticType
  <2>4. QED
    BY <1>0, <1>4, <2>1, <2>2, <2>3 DEF StatisticInv, CO!TickStore
<1>5. CASE CO!TickClear
  <2>1. s' = [s EXCEPT !.temp = 0, !.read = 0, !.tick = "idle"]
    BY <1>5 DEF CO!TickClear
  <2>2. StatisticType'
    BY <2>1 DEF StatisticInv, StatisticType
  <2>3. s'.shown = s.shown /\ s'.pushed = s.pushed /\ s'.tick = "idle" /\ s'.temp = 0
    BY <2>1 DEF StatisticInv, StatisticType
  <2>4. QED
    BY <1>0, <2>2, <2>3 DEF StatisticInv
<1>6. CASE CO!ResetTemp \/ CO!ResetBlip \/ CO!ResetTotal
  <2>1. PICK t \in {0, s.temp}, b \in Nat, u \in Nat, n \in Nat, r \in {"idle", "blip", "total"} :
          s' = [s EXCEPT !.temp = t, !.blip = b, !.total = u, !.resets = n, !.reset = r]
    <3>1. CASE CO!ResetTemp
      <4>1. s.resets + 1 \in Nat
        BY <1>0
      <4>2. s' = [s EXCEPT !.temp = 0, !.blip = s.blip, !.total = s.total, !.resets = s.resets + 1, !.reset = "blip"]
        BY <3>1 DEF CO!ResetTemp, CO!Reset, StatisticInv, StatisticType
      <4>3. QED
        BY <1>0, <4>1, <4>2, Zenon
    <3>2. CASE CO!ResetBlip
      <4>1. s' = [s EXCEPT !.temp = s.temp, !.blip = 0, !.total = s.total, !.resets = s.resets, !.reset = "total"]
        BY <3>2 DEF CO!ResetBlip, CO!Reset, StatisticInv, StatisticType
      <4>2. QED
        BY <1>0, <4>1, Zenon
    <3>3. CASE CO!ResetTotal
      <4>1. s' = [s EXCEPT !.temp = s.temp, !.blip = s.blip, !.total = 0, !.resets = s.resets, !.reset = "idle"]
        BY <3>3 DEF CO!ResetTotal, CO!Reset, StatisticInv, StatisticType
      <4>2. QED
        BY <1>0, <4>1, Zenon
    <3>4. QED
      BY <1>6, <3>1, <3>2, <3>3, Zenon
  <2>2. StatisticType'
    <3>1. t \in Nat
      BY <1>0
    <3>2. QED
      BY <2>1, <3>1 DEF StatisticInv, StatisticType
  <2>3. s'.shown = s.shown /\ s'.pushed = s.pushed /\ s'.tick = s.tick /\ s'.temp = t /\ s'.read = s.read
    BY <2>1 DEF StatisticInv, StatisticType
  <2>4. QED
    BY <1>0, <2>1, <2>2, <2>3 DEF StatisticInv
<1>7. QED
  BY <1>1, <1>2, <1>3, <1>4, <1>5, <1>6 DEF CO!StatisticNext

\* A destination is skipped only after enough failures, for any limit, and no
\* byte is shown in two speeds, for any connections and resets.
THEOREM CountersKept == RunSpec => []CountersRight
<1> DEFINE Inv == (active = "sniffer" => SnifferInv) /\ (active = "statistic" => StatisticInv)
<1>1. RunInit => Inv
  BY SnifferInitially DEF RunInit, CO!StatisticInit, StatisticInv, StatisticType
<1>2. Inv /\ [RunNext]_<<active, s>> => Inv'
  <2>1. ASSUME Inv, UNCHANGED <<active, s>> PROVE Inv'
    BY <2>1 DEF SnifferInv, SnifferType, SkipCounted, StatisticInv, StatisticType
  <2>2. QED
    BY <2>1, SnifferStep, StatisticStep DEF RunNext
<1>3. Inv => CountersRight
  BY ServiceAssumption DEF CountersRight, SnifferInv, SnifferType, SkipCounted, StatisticInv, StatisticType, CO!SkipIsEarned, CO!SpeedNeverOvercounts
<1> HIDE DEF Inv
<1>4. QED
  BY <1>1, <1>2, <1>3, PTL DEF RunSpec

-----------------------------------------------------------------------------
(* DNS over QUIC                                                           *)
(*                                                                         *)
(* An exchange that meets nobody and no fault can find a dead connection   *)
(* with its first attempt alone, since every later one is opened by        *)
(* itself; so its second attempt is the last that it needs.                *)

QuicPcs == {"get", "stream", "open", "wait", "decide"}
QuicErrors == {Nil, "retry", "other"}
QuicEx ==
  [pc : {"new"}] \cup
  [pc : QuicPcs, has : BOOLEAN, clean : BOOLEAN, tries : Nat, err : QuicErrors, conn : Nat, fresh : BOOLEAN] \cup
  [pc : {"done"}, err : QuicErrors, clean : BOOLEAN]
QuicUnder(e) == e.pc \in QuicPcs

QuicType ==
  s \in [conn : Nat, conns : Seq({"ok", "dead", "closed"}), faults : Nat, alone : BOOLEAN, ex : [DnsExchanges -> QuicEx]]

\* A number of a connection is one of those that were made.
QuicMade ==
  /\ s.conn # 0 => s.conn \in DOMAIN s.conns
  /\ \A x \in DnsExchanges : s.ex[x].pc \in {"stream", "wait"} => s.ex[x].conn \in DOMAIN s.conns

\* As long as no exchanges overlapped there is at most one, only the connection
\* of now is open, and none while one is about to open another.
QuicAlone ==
  s.alone =>
    /\ \A x, y \in DnsExchanges : QuicUnder(s.ex[x]) /\ QuicUnder(s.ex[y]) => x = y
    /\ \A c \in DOMAIN s.conns : s.conns[c] = "ok" => c = s.conn
    /\ \A x \in DnsExchanges : s.ex[x].pc = "open" => \A c \in DOMAIN s.conns : s.conns[c] # "ok"

\* The way of an exchange that meets nobody and no fault, of connections that it
\* did not open only the first may be dead.
QuicWay(e, conn, conns) ==
  /\ e.tries <= 1
  /\ e.pc = "get" => ~e.fresh /\ (e.tries = 1 => conn = 0)
  /\ e.pc \in {"stream", "wait"} => e.conn \in DOMAIN conns
  /\ e.pc = "stream" /\ (e.fresh \/ e.tries = 1) => conns[e.conn] = "ok"
  /\ e.pc = "wait" => conns[e.conn] = "ok" \/ (conns[e.conn] = "dead" /\ e.tries = 0)
  /\ e.pc = "decide" => e.err = Nil \/ (e.err = "retry" /\ e.tries = 0)

QuicClean ==
  \A x \in DnsExchanges :
    /\ QuicUnder(s.ex[x]) /\ s.ex[x].clean =>
         /\ \A y \in DnsExchanges : QuicUnder(s.ex[y]) => y = x
         /\ s.ex[x].has => QuicWay(s.ex[x], s.conn, s.conns)
    /\ s.ex[x].pc = "done" /\ s.ex[x].clean => s.ex[x].err = Nil

QuicInv == QuicType /\ QuicMade /\ QuicAlone /\ QuicClean

LEMMA QuicInitially == ASSUME DH!QuicInit PROVE QuicInv
<1>1. /\ s = [conn |-> 0, conns |-> << >>, faults |-> 0, alone |-> TRUE, ex |-> [x \in DnsExchanges |-> [pc |-> "new"]]]
  BY DEF DH!QuicInit
<1>2. QuicType
  BY <1>1 DEF QuicType, QuicEx
<1>3. /\ s.conn = 0 /\ s.conns = << >> /\ \A x \in DnsExchanges : s.ex[x].pc = "new"
  BY <1>1
<1>4. QED
  BY <1>2, <1>3 DEF QuicInv, QuicMade, QuicAlone, QuicClean, QuicUnder, QuicPcs

\* An exchange x that is under way becomes e, and the connections conns.
QuicMoves(x, e, conn, conns) ==
  /\ s' = [s EXCEPT !.ex = [s.ex EXCEPT ![x] = e], !.conn = conn, !.conns = conns]
  /\ conn # 0 => conn \in DOMAIN conns
  /\ Len(conns) >= Len(s.conns)

LEMMA QuicMove ==
  ASSUME QuicInv, NEW x \in DnsExchanges, NEW e \in QuicEx, NEW conn \in Nat, NEW conns \in Seq({"ok", "dead", "closed"}),
         QuicMoves(x, e, conn, conns), QuicUnder(s.ex[x]),
         e.pc \in {"stream", "wait"} => e.conn \in DOMAIN conns,
         s.alone => \A c \in DOMAIN conns : conns[c] = "ok" => c = conn,
         s.alone /\ e.pc = "open" => \A c \in DOMAIN conns : conns[c] # "ok",
         QuicUnder(e) /\ e.clean => s.ex[x].clean,
         QuicUnder(e) /\ e.clean /\ e.has => QuicWay(e, conn, conns),
         e.pc = "done" /\ e.clean => e.err = Nil
  PROVE  QuicInv'
<1>1. QuicType /\ QuicMade /\ QuicAlone /\ QuicClean
  BY DEF QuicInv
<1>2. QuicType'
  BY <1>1 DEF QuicType, QuicMoves
<1>3. /\ s'.conn = conn /\ s'.conns = conns /\ s'.alone = s.alone
      /\ s'.ex[x] = e /\ \A y \in DnsExchanges : y # x => s'.ex[y] = s.ex[y]
      /\ conn # 0 => conn \in DOMAIN conns
      /\ DOMAIN s.conns \subseteq DOMAIN conns
  BY <1>1 DEF QuicType, QuicMoves
<1>4. QuicMade'
  BY <1>1, <1>3 DEF QuicMade
<1>5. QuicAlone'
  <2>1. ASSUME s.alone PROVE \A y \in DnsExchanges : QuicUnder(s'.ex[y]) => y = x
    BY <1>1, <1>3, <2>1 DEF QuicAlone
  <2>2. ASSUME s.alone, NEW y \in DnsExchanges, s'.ex[y].pc = "open" PROVE \A c \in DOMAIN conns : conns[c] # "ok"
    <3>1. QuicUnder(s'.ex[y])
      BY <2>2 DEF QuicUnder, QuicPcs
    <3>2. QED
      BY <1>3, <2>1, <2>2, <3>1
  <2>3. QED
    BY <1>3, <2>1, <2>2 DEF QuicAlone
<1>6. QuicClean'
  <2>1. ASSUME NEW y \in DnsExchanges, y # x, QuicUnder(s'.ex[y]) PROVE ~s'.ex[y].clean
    BY <1>1, <1>3, <2>1 DEF QuicClean
  <2>2. ASSUME QuicUnder(e), e.clean PROVE \A y \in DnsExchanges : QuicUnder(s'.ex[y]) => y = x
    BY <1>1, <1>3, <2>2 DEF QuicClean
  <2>3. \A y \in DnsExchanges : s'.ex[y].pc = "done" /\ s'.ex[y].clean => s'.ex[y].err = Nil
    BY <1>1, <1>3 DEF QuicClean
  <2>4. QED
    BY <1>3, <2>1, <2>2, <2>3 DEF QuicClean
<1>7. QED
  BY <1>2, <1>4, <1>5, <1>6 DEF QuicInv

\* After a fault, or when another exchange begins, none that is under way is clean.
QuicSoiledEx == [y \in DnsExchanges |-> IF y \in DH!QuicBusy THEN [s.ex[y] EXCEPT !.clean = FALSE] ELSE s.ex[y]]

LEMMA QuicSoil ==
  ASSUME QuicType
  PROVE  /\ QuicSoiledEx \in [DnsExchanges -> QuicEx]
         /\ \A y \in DnsExchanges :
              /\ QuicSoiledEx[y].pc = s.ex[y].pc
              /\ QuicUnder(s.ex[y]) => ~QuicSoiledEx[y].clean /\ QuicSoiledEx[y].conn = s.ex[y].conn
              /\ ~QuicUnder(s.ex[y]) => QuicSoiledEx[y] = s.ex[y]
              /\ y \in DH!QuicBusy <=> QuicUnder(s.ex[y])
<1>1. ASSUME NEW y \in DnsExchanges
      PROVE  /\ QuicSoiledEx[y] \in QuicEx
             /\ QuicSoiledEx[y].pc = s.ex[y].pc
             /\ QuicUnder(s.ex[y]) => ~QuicSoiledEx[y].clean /\ QuicSoiledEx[y].conn = s.ex[y].conn
             /\ ~QuicUnder(s.ex[y]) => QuicSoiledEx[y] = s.ex[y]
             /\ y \in DH!QuicBusy <=> QuicUnder(s.ex[y])
  <2>1. s.ex[y] \in QuicEx
    BY DEF QuicType
  <2>2. y \in DH!QuicBusy <=> s.ex[y].pc \notin {"new", "done"}
    BY DEF DH!QuicBusy, DH!QuicEx
  <2>3. y \in DH!QuicBusy <=> QuicUnder(s.ex[y])
    BY <2>1, <2>2 DEF QuicEx, QuicUnder, QuicPcs
  <2>4. CASE QuicUnder(s.ex[y])
    <3>1. QuicSoiledEx[y] = [s.ex[y] EXCEPT !.clean = FALSE]
      BY <2>3, <2>4 DEF QuicSoiledEx
    <3>2. s.ex[y] \in [pc : QuicPcs, has : BOOLEAN, clean : BOOLEAN, tries : Nat, err : QuicErrors, conn : Nat, fresh : BOOLEAN]
      BY <2>1, <2>4 DEF QuicEx, QuicUnder, QuicPcs
    <3>3. QED
      BY <2>3, <2>4, <3>1, <3>2 DEF QuicEx
  <2>5. CASE ~QuicUnder(s.ex[y])
    BY <2>1, <2>3, <2>5 DEF QuicSoiledEx
  <2>6. QED
    BY <2>4, <2>5
<1>2. QED
  BY <1>1 DEF QuicSoiledEx

LEMMA QuicUnderEx ==
  ASSUME QuicType, NEW x \in DnsExchanges, s.ex[x].pc \in QuicPcs
  PROVE  s.ex[x] \in [pc : QuicPcs, has : BOOLEAN, clean : BOOLEAN, tries : Nat, err : QuicErrors, conn : Nat, fresh : BOOLEAN]
<1>1. s.ex[x] \in QuicEx
  BY DEF QuicType
<1>2. QED
  BY <1>1 DEF QuicEx, QuicPcs

LEMMA QuicRestarts == ASSUME QuicInv, DH!QuicRestart PROVE QuicInv'
<1>1. QuicType /\ QuicMade /\ QuicAlone /\ QuicClean
  BY DEF QuicInv
<1>2. PICK conns : conns = [c \in DOMAIN s.conns |-> IF s.conns[c] = "ok" THEN "dead" ELSE s.conns[c]]
  OBVIOUS
<1>3. /\ s.conns \in Seq({"ok", "dead", "closed"}) /\ DOMAIN s.conns = 1 .. Len(s.conns)
      /\ conns \in Seq({"ok", "dead", "closed"}) /\ DOMAIN conns = DOMAIN s.conns
      /\ \A c \in DOMAIN conns : conns[c] # "ok"
  <2>1. s.conns \in Seq({"ok", "dead", "closed"})
    BY <1>1 DEF QuicType
  <2>2. Len(s.conns) \in Nat /\ DOMAIN s.conns = 1 .. Len(s.conns) /\ \A c \in 1 .. Len(s.conns) : s.conns[c] \in {"ok", "dead", "closed"}
    BY <2>1
  <2>3. conns \in [1 .. Len(s.conns) -> {"ok", "dead", "closed"}]
    BY <1>2, <2>2
  <2>4. QED
    BY <1>2, <2>1, <2>2, <2>3
<1>4. s' = [s EXCEPT !.ex = QuicSoiledEx, !.faults = s.faults + 1, !.conns = conns]
  BY <1>1, <1>2 DEF DH!QuicRestart, DH!QuicFault, DH!QuicSoiled, QuicSoiledEx, QuicType
<1>5. PICK n \in Nat : n = s.faults + 1
  BY <1>1 DEF QuicType
<1>6. QuicType'
  BY <1>1, <1>3, <1>4, <1>5, QuicSoil DEF QuicType
<1>7. s'.conn = s.conn /\ s'.conns = conns /\ s'.alone = s.alone /\ s'.ex = QuicSoiledEx
  BY <1>1, <1>4 DEF QuicType
<1>8. \A y \in DnsExchanges :
        /\ QuicUnder(s'.ex[y]) <=> QuicUnder(s.ex[y])
        /\ s'.ex[y].pc = s.ex[y].pc
        /\ QuicUnder(s.ex[y]) => ~s'.ex[y].clean /\ s'.ex[y].conn = s.ex[y].conn
        /\ ~QuicUnder(s.ex[y]) => s'.ex[y] = s.ex[y]
  BY <1>1, <1>7, QuicSoil DEF QuicUnder
<1>9. QuicMade'
  BY <1>1, <1>3, <1>7, <1>8 DEF QuicMade, QuicUnder, QuicPcs
<1>10. QuicAlone'
  BY <1>1, <1>3, <1>7, <1>8 DEF QuicAlone
<1>11. QuicClean'
  BY <1>1, <1>8 DEF QuicClean, QuicUnder, QuicPcs
<1>12. QED
  BY <1>6, <1>9, <1>10, <1>11 DEF QuicInv

LEMMA QuicBegins == ASSUME QuicInv, NEW x \in DnsExchanges, DH!QuicBegin(x) PROVE QuicInv'
<1>1. QuicType /\ QuicMade /\ QuicAlone /\ QuicClean
  BY DEF QuicInv
<1>2. s.ex[x].pc = "new"
  BY DEF DH!QuicBegin, DH!QuicAt, DH!QuicEx
<1>3. PICK e : e = [pc |-> "get", has |-> s.conn # 0, clean |-> DH!QuicBusy = {}, tries |-> 0,
                    err |-> Nil, conn |-> 0, fresh |-> FALSE]
  OBVIOUS
<1>4. e \in QuicEx /\ e.pc = "get" /\ e.tries = 0 /\ ~e.fresh /\ (e.clean <=> DH!QuicBusy = {})
  BY <1>3 DEF QuicEx, QuicPcs, QuicErrors
<1>5. s' = [s EXCEPT !.alone = s.alone /\ DH!QuicBusy = {}, !.ex = [QuicSoiledEx EXCEPT ![x] = e]]
  BY <1>1, <1>3 DEF DH!QuicBegin, DH!QuicSoiled, QuicSoiledEx, QuicType
<1>6. [QuicSoiledEx EXCEPT ![x] = e] \in [DnsExchanges -> QuicEx]
  BY <1>1, <1>4, QuicSoil
<1>7. QuicType'
  BY <1>1, <1>5, <1>6, Zenon DEF QuicType
<1>8. /\ s'.conn = s.conn /\ s'.conns = s.conns /\ s'.alone = (s.alone /\ DH!QuicBusy = {})
      /\ s'.ex = [QuicSoiledEx EXCEPT ![x] = e]
  BY <1>1, <1>5 DEF QuicType
<1>9. /\ s'.ex[x] = e
      /\ \A y \in DnsExchanges : y # x => s'.ex[y] = QuicSoiledEx[y]
  BY <1>1, <1>8, QuicSoil
<1>10. \A y \in DnsExchanges : y # x =>
        /\ QuicUnder(s'.ex[y]) <=> QuicUnder(s.ex[y])
        /\ s'.ex[y].pc = s.ex[y].pc
        /\ QuicUnder(s.ex[y]) => y \in DH!QuicBusy /\ ~s'.ex[y].clean /\ s'.ex[y].conn = s.ex[y].conn
        /\ ~QuicUnder(s.ex[y]) => s'.ex[y] = s.ex[y]
  BY <1>1, <1>9, QuicSoil DEF QuicUnder
<1>11. QuicMade'
  BY <1>1, <1>4, <1>8, <1>9, <1>10 DEF QuicMade, QuicUnder, QuicPcs
<1>12. DH!QuicBusy = {} => \A y \in DnsExchanges : y # x => ~QuicUnder(s'.ex[y])
  BY <1>10
<1>13. QuicAlone'
  BY <1>1, <1>4, <1>8, <1>9, <1>10, <1>12 DEF QuicAlone, QuicUnder, QuicPcs
<1>14. QuicWay(e, s.conn, s.conns)
  BY <1>4 DEF QuicWay
<1>15. QuicClean'
  BY <1>1, <1>4, <1>8, <1>9, <1>10, <1>12, <1>14 DEF QuicClean, QuicUnder, QuicPcs
<1>16. QED
  BY <1>7, <1>11, <1>13, <1>15 DEF QuicInv

\* An exchange that met a failure is about to decide what to do, and not clean.
LEMMA QuicFails == ASSUME QuicInv, NEW x \in DnsExchanges, DH!OpenFails(x) \/ DH!ReadFails(x) PROVE QuicInv'
<1>1. QuicType /\ QuicMade /\ QuicAlone /\ QuicClean
  BY DEF QuicInv
<1>2. s.ex[x].pc \in {"open", "wait"} /\ QuicUnder(s.ex[x])
  BY DEF DH!OpenFails, DH!ReadFails, DH!QuicAt, DH!QuicEx, QuicUnder, QuicPcs
<1>3. PICK e : e = [QuicSoiledEx[x] EXCEPT !.err = "other", !.pc = "decide"]
  OBVIOUS
<1>4. e \in QuicEx /\ e.pc = "decide" /\ ~e.clean
  <2>1. QuicSoiledEx[x] \in QuicEx /\ QuicSoiledEx[x].pc \in QuicPcs /\ ~QuicSoiledEx[x].clean
    BY <1>1, <1>2, QuicSoil DEF QuicUnder
  <2>2. QuicSoiledEx[x] \in [pc : QuicPcs, has : BOOLEAN, clean : BOOLEAN, tries : Nat, err : QuicErrors, conn : Nat, fresh : BOOLEAN]
    BY <2>1 DEF QuicEx, QuicPcs
  <2>3. QED
    BY <1>3, <2>1, <2>2 DEF QuicEx, QuicPcs, QuicErrors
<1>5. s' = [s EXCEPT !.faults = s.faults + 1, !.ex = [QuicSoiledEx EXCEPT ![x] = e]]
  <2>1. PICK f : f = DH!QuicFault(s)
    OBVIOUS
  <2>2. f = [s EXCEPT !.faults = s.faults + 1, !.ex = QuicSoiledEx]
    BY <1>1, <2>1 DEF DH!QuicFault, DH!QuicSoiled, QuicSoiledEx, QuicType
  <2>3. s' = [f EXCEPT !.ex[x].err = "other", !.ex[x].pc = "decide"]
    BY <2>1 DEF DH!OpenFails, DH!ReadFails
  <2>4. f.ex = QuicSoiledEx
    BY <1>1, <2>2 DEF QuicType
  <2>5. s' = [f EXCEPT !.ex = [QuicSoiledEx EXCEPT ![x] = e]]
    <3>1. PICK g : g = QuicSoiledEx
      OBVIOUS
    <3>2. g \in [DnsExchanges -> QuicEx]
      BY <1>1, <3>1, QuicSoil
    <3>3. f.ex = g /\ e = [g[x] EXCEPT !.err = "other", !.pc = "decide"]
      BY <1>3, <2>4, <3>1
    <3>4. s' = [f EXCEPT !.ex = [g EXCEPT ![x] = e]]
      BY <2>3, <3>2, <3>3
    <3>5. QED
      BY <3>1, <3>4
  <2>6. QED
    BY <1>1, <2>2, <2>5 DEF QuicType
<1>6. [QuicSoiledEx EXCEPT ![x] = e] \in [DnsExchanges -> QuicEx]
  BY <1>1, <1>4, QuicSoil
<1>7. PICK n \in Nat : n = s.faults + 1
  BY <1>1 DEF QuicType
<1>8. QuicType'
  BY <1>1, <1>5, <1>6, <1>7 DEF QuicType
<1>9. s'.conn = s.conn /\ s'.conns = s.conns /\ s'.alone = s.alone /\ s'.ex = [QuicSoiledEx EXCEPT ![x] = e]
  BY <1>1, <1>5 DEF QuicType
<1>10. /\ s'.ex[x] = e
       /\ \A y \in DnsExchanges : y # x => s'.ex[y] = QuicSoiledEx[y]
  BY <1>1, <1>9, QuicSoil
<1>11. \A y \in DnsExchanges : y # x =>
        /\ QuicUnder(s'.ex[y]) <=> QuicUnder(s.ex[y])
        /\ s'.ex[y].pc = s.ex[y].pc
        /\ QuicUnder(s.ex[y]) => ~s'.ex[y].clean /\ s'.ex[y].conn = s.ex[y].conn
        /\ ~QuicUnder(s.ex[y]) => s'.ex[y] = s.ex[y]
  BY <1>1, <1>10, QuicSoil DEF QuicUnder
<1>12. QuicMade'
  BY <1>1, <1>4, <1>9, <1>10, <1>11 DEF QuicMade, QuicUnder, QuicPcs
<1>13. QuicAlone'
  BY <1>1, <1>2, <1>4, <1>9, <1>10, <1>11 DEF QuicAlone
<1>14. QuicClean'
  BY <1>1, <1>4, <1>10, <1>11 DEF QuicClean, QuicUnder, QuicPcs
<1>15. QED
  BY <1>8, <1>12, <1>13, <1>14 DEF QuicInv


LEMMA QuicOther ==
  ASSUME QuicInv, NEW x \in DnsExchanges, NEW e \in QuicEx, QuicUnder(s.ex[x]),
         s' = [s EXCEPT !.ex[x] = e]
  PROVE  QuicMoves(x, e, s.conn, s.conns) /\ s.conn \in Nat /\ s.conns \in Seq({"ok", "dead", "closed"})
<1>1. QuicType /\ QuicMade
  BY DEF QuicInv
<1>2. s.conn \in Nat /\ s.conns \in Seq({"ok", "dead", "closed"}) /\ Len(s.conns) \in Nat
  BY <1>1 DEF QuicType
<1>3. s' = [s EXCEPT !.ex = [s.ex EXCEPT ![x] = e], !.conn = s.conn, !.conns = s.conns]
  BY <1>1 DEF QuicType
<1>4. (s.conn # 0 => s.conn \in DOMAIN s.conns) /\ Len(s.conns) >= Len(s.conns)
  BY <1>1, <1>2 DEF QuicMade
<1>5. QuicMoves(x, e, s.conn, s.conns)
  BY <1>3, <1>4, Zenon DEF QuicMoves
<1>6. QED
  BY <1>2, <1>5

LEMMA QuicGets == ASSUME QuicInv, NEW x \in DnsExchanges, DH!GetConnection(x) PROVE QuicInv'
<1>1. QuicType /\ QuicMade /\ QuicAlone /\ QuicClean
  BY DEF QuicInv
<1>2. s.ex[x].pc = "get" /\ QuicUnder(s.ex[x])
  BY DEF DH!GetConnection, DH!QuicAt, DH!QuicEx, QuicUnder, QuicPcs
<1>3. s.ex[x] \in [pc : QuicPcs, has : BOOLEAN, clean : BOOLEAN, tries : Nat, err : QuicErrors, conn : Nat, fresh : BOOLEAN]
  BY <1>1, <1>2, QuicUnderEx DEF QuicPcs
<1>4. CASE s.conn # 0
  <2>1. PICK e : e = [s.ex[x] EXCEPT !.conn = s.conn, !.pc = "stream"]
    OBVIOUS
  <2>2. s.conn \in Nat
    BY <1>1 DEF QuicType
  <2>3. e \in QuicEx /\ e.pc = "stream" /\ e.conn = s.conn /\ e.clean = s.ex[x].clean /\ e.has = s.ex[x].has
        /\ e.tries = s.ex[x].tries /\ e.fresh = s.ex[x].fresh
    BY <1>3, <2>1, <2>2 DEF QuicEx, QuicPcs
  <2>4. s' = [s EXCEPT !.ex[x] = e]
    BY <1>1, <1>4, <2>1 DEF DH!GetConnection, QuicType
  <2>5. QuicMoves(x, e, s.conn, s.conns) /\ s.conns \in Seq({"ok", "dead", "closed"})
    BY <1>2, <2>3, <2>4, QuicOther
  <2>6. s.alone => \A c \in DOMAIN s.conns : s.conns[c] = "ok" => c = s.conn
    BY <1>1 DEF QuicAlone
  <2>7. s.conn \in DOMAIN s.conns
    BY <1>1, <1>4 DEF QuicMade
  <2>8. QuicUnder(e) /\ e.clean /\ e.has => QuicWay(e, s.conn, s.conns)
    <3>1. ASSUME e.clean, e.has PROVE QuicWay(s.ex[x], s.conn, s.conns)
      BY <1>1, <1>2, <2>3, <3>1 DEF QuicClean
    <3>2. s.ex[x].tries \in Nat
      BY <1>3
    <3>3. QED
      BY <1>2, <1>4, <2>3, <2>7, <3>1, <3>2 DEF QuicWay
  <2>9. QED
    BY <1>2, <2>2, <2>3, <2>5, <2>6, <2>7, <2>8, QuicMove
<1>5. CASE s.conn = 0
  <2>1. PICK e : e = [s.ex[x] EXCEPT !.pc = "open"]
    OBVIOUS
  <2>2. s.conn \in Nat
    BY <1>1 DEF QuicType
  <2>3. e \in QuicEx /\ e.pc = "open" /\ e.clean = s.ex[x].clean /\ e.has = s.ex[x].has
        /\ e.tries = s.ex[x].tries /\ e.fresh = s.ex[x].fresh
    BY <1>3, <2>1, <2>2 DEF QuicEx, QuicPcs
  <2>4. s' = [s EXCEPT !.ex[x] = e]
    BY <1>1, <1>5, <2>1 DEF DH!GetConnection, QuicType
  <2>5. QuicMoves(x, e, s.conn, s.conns) /\ s.conns \in Seq({"ok", "dead", "closed"})
    BY <1>2, <2>3, <2>4, QuicOther
  <2>6. s.alone => \A c \in DOMAIN s.conns : s.conns[c] # "ok"
    <3>1. s.conns \in Seq({"ok", "dead", "closed"})
      BY <1>1 DEF QuicType
    <3>2. 0 \notin DOMAIN s.conns
      BY <3>1
    <3>3. QED
      BY <1>1, <1>5, <3>2 DEF QuicAlone
  <2>8. QuicUnder(e) /\ e.clean /\ e.has => QuicWay(e, s.conn, s.conns)
    BY <1>1, <1>2, <1>5, <2>3 DEF QuicClean, QuicWay
  <2>9. QED
    BY <1>2, <2>2, <2>3, <2>5, <2>6, <2>8, QuicMove
<1>6. QED
  BY <1>4, <1>5

LEMMA QuicOpensStream == ASSUME QuicInv, NEW x \in DnsExchanges, DH!OpenStream(x) PROVE QuicInv'
<1>1. QuicType /\ QuicMade /\ QuicAlone /\ QuicClean
  BY DEF QuicInv
<1>2. s.ex[x].pc = "stream" /\ QuicUnder(s.ex[x]) /\ s.conns[s.ex[x].conn] # "closed"
  BY DEF DH!OpenStream, DH!QuicAt, DH!QuicEx, QuicUnder, QuicPcs
<1>3. s.ex[x] \in [pc : QuicPcs, has : BOOLEAN, clean : BOOLEAN, tries : Nat, err : QuicErrors, conn : Nat, fresh : BOOLEAN]
  BY <1>1, <1>2, QuicUnderEx DEF QuicPcs
<1>4. PICK e : e = [s.ex[x] EXCEPT !.pc = "wait"]
  OBVIOUS
<1>5. e \in QuicEx /\ e.pc = "wait" /\ e.conn = s.ex[x].conn /\ e.clean = s.ex[x].clean /\ e.has = s.ex[x].has
        /\ e.tries = s.ex[x].tries /\ e.fresh = s.ex[x].fresh
  BY <1>3, <1>4 DEF QuicEx, QuicPcs
<1>6. s' = [s EXCEPT !.ex[x] = e]
  BY <1>1, <1>4 DEF DH!OpenStream, QuicType
<1>7. QuicMoves(x, e, s.conn, s.conns) /\ s.conn \in Nat /\ s.conns \in Seq({"ok", "dead", "closed"})
  BY <1>2, <1>5, <1>6, QuicOther
<1>8. s.alone => \A c \in DOMAIN s.conns : s.conns[c] = "ok" => c = s.conn
  BY <1>1 DEF QuicAlone
<1>9. e.conn \in DOMAIN s.conns
  BY <1>1, <1>2, <1>5 DEF QuicMade
<1>10. s.conns[e.conn] = "ok" \/ s.conns[e.conn] = "dead"
  BY <1>2, <1>5, <1>7, <1>9
<1>11. QuicUnder(e) /\ e.clean /\ e.has => QuicWay(e, s.conn, s.conns)
  <2>1. ASSUME e.clean, e.has PROVE QuicWay(s.ex[x], s.conn, s.conns)
    BY <1>1, <1>2, <1>5, <2>1 DEF QuicClean
  <2>2. s.ex[x].tries \in Nat
    BY <1>3
  <2>3. QED
    BY <1>2, <1>5, <1>9, <1>10, <2>1, <2>2 DEF QuicWay
<1>12. QED
  BY <1>2, <1>5, <1>7, <1>8, <1>9, <1>11, QuicMove

LEMMA QuicNoStream == ASSUME QuicInv, NEW x \in DnsExchanges, DH!NoStream(x) PROVE QuicInv'
<1>1. QuicType /\ QuicMade /\ QuicAlone /\ QuicClean
  BY DEF QuicInv
<1>2. s.ex[x].pc = "stream" /\ QuicUnder(s.ex[x]) /\ s.conns[s.ex[x].conn] # "ok"
  BY DEF DH!NoStream, DH!QuicAt, DH!QuicEx, QuicUnder, QuicPcs
<1>3. s.ex[x] \in [pc : QuicPcs, has : BOOLEAN, clean : BOOLEAN, tries : Nat, err : QuicErrors, conn : Nat, fresh : BOOLEAN]
  BY <1>1, <1>2, QuicUnderEx DEF QuicPcs
<1>4. s.conn \in Nat /\ s.conns \in Seq({"ok", "dead", "closed"})
  BY <1>1 DEF QuicType
<1>5. ASSUME s.ex[x].clean, s.ex[x].has PROVE QuicWay(s.ex[x], s.conn, s.conns) /\ ~s.ex[x].fresh /\ s.ex[x].tries = 0
  <2>1. QuicWay(s.ex[x], s.conn, s.conns)
    BY <1>1, <1>2, <1>5 DEF QuicClean
  <2>2. s.ex[x].tries \in Nat
    BY <1>3
  <2>3. QED
    BY <1>2, <2>1, <2>2 DEF QuicWay
<1>6. CASE s.ex[x].fresh
  <2>1. PICK e : e = [s.ex[x] EXCEPT !.err = "retry", !.pc = "decide"]
    OBVIOUS
  <2>2. e \in QuicEx /\ e.pc = "decide" /\ e.clean = s.ex[x].clean /\ e.has = s.ex[x].has
    BY <1>3, <2>1 DEF QuicEx, QuicPcs, QuicErrors
  <2>3. s' = [s EXCEPT !.ex[x] = e]
    BY <1>1, <1>6, <2>1 DEF DH!NoStream, DH!QuicEx, QuicType
  <2>4. QuicMoves(x, e, s.conn, s.conns)
    BY <1>2, <2>2, <2>3, QuicOther
  <2>5. s.alone => \A c \in DOMAIN s.conns : s.conns[c] = "ok" => c = s.conn
    BY <1>1 DEF QuicAlone
  <2>6. QED
    BY <1>2, <1>4, <1>5, <1>6, <2>2, <2>4, <2>5, QuicMove
<1>7. CASE ~s.ex[x].fresh
  <2>1. PICK e : e = [s.ex[x] EXCEPT !.fresh = TRUE, !.pc = "open"]
    OBVIOUS
  <2>2. e \in QuicEx /\ e.pc = "open" /\ e.clean = s.ex[x].clean /\ e.has = s.ex[x].has
        /\ e.tries = s.ex[x].tries
    BY <1>3, <2>1 DEF QuicEx, QuicPcs
  <2>3. PICK conns : conns = IF s.conn = 0 THEN s.conns ELSE [s.conns EXCEPT ![s.conn] = "closed"]
    OBVIOUS
  <2>4. /\ conns \in Seq({"ok", "dead", "closed"}) /\ DOMAIN conns = DOMAIN s.conns /\ Len(conns) = Len(s.conns)
        /\ \A c \in DOMAIN conns : conns[c] = "ok" => s.conns[c] = "ok" /\ c # s.conn
        /\ Len(s.conns) \in Nat
    <3>1. CASE s.conn = 0
      BY <1>4, <2>3, <3>1
    <3>2. CASE s.conn # 0
      BY <1>1, <1>4, <2>3, <3>2 DEF QuicMade
    <3>3. QED
      BY <3>1, <3>2
  <2>5. s' = [s EXCEPT !.ex = [s.ex EXCEPT ![x] = e], !.conn = s.conn, !.conns = conns]
    <3>1. PICK f : f = DH!Close(s, s.conn)
      OBVIOUS
    <3>2. f = [s EXCEPT !.conns = conns]
      BY <1>1, <2>3, <3>1 DEF DH!Close, QuicType
    <3>3. s' = [f EXCEPT !.ex[x].fresh = TRUE, !.ex[x].pc = "open"]
      BY <1>7, <3>1 DEF DH!NoStream, DH!QuicEx
    <3>4. s' = [f EXCEPT !.ex = [s.ex EXCEPT ![x] = e]]
      BY <1>1, <2>1, <3>2, <3>3 DEF QuicType
    <3>5. QED
      BY <1>1, <3>2, <3>4 DEF QuicType
  <2>6. QuicMoves(x, e, s.conn, conns)
    BY <1>1, <2>4, <2>5 DEF QuicMoves, QuicMade
  <2>7. s.alone => \A c \in DOMAIN conns : conns[c] # "ok"
    BY <1>1, <2>4 DEF QuicAlone
  <2>8. QuicUnder(e) /\ e.clean /\ e.has => QuicWay(e, s.conn, conns)
    BY <1>5, <2>2 DEF QuicWay
  <2>9. QED
    BY <1>2, <1>4, <2>2, <2>4, <2>6, <2>7, <2>8, QuicMove
<1>8. QED
  BY <1>3, <1>6, <1>7

LEMMA QuicOpens == ASSUME QuicInv, NEW x \in DnsExchanges, DH!Open(x) PROVE QuicInv'
<1>1. QuicType /\ QuicMade /\ QuicAlone /\ QuicClean
  BY DEF QuicInv
<1>2. s.ex[x].pc = "open" /\ QuicUnder(s.ex[x])
  BY DEF DH!Open, DH!QuicAt, DH!QuicEx, QuicUnder, QuicPcs
<1>3. s.ex[x] \in [pc : QuicPcs, has : BOOLEAN, clean : BOOLEAN, tries : Nat, err : QuicErrors, conn : Nat, fresh : BOOLEAN]
  BY <1>1, <1>2, QuicUnderEx DEF QuicPcs
<1>4. s.conn \in Nat /\ s.conns \in Seq({"ok", "dead", "closed"})
  BY <1>1 DEF QuicType
<1>5. PICK conn, conns : conn = Len(s.conns) + 1 /\ conns = Append(s.conns, "ok")
  OBVIOUS
<1>6. /\ conn \in Nat /\ conn \in DOMAIN conns /\ conns[conn] = "ok" /\ Len(conns) >= Len(s.conns)
      /\ conns \in Seq({"ok", "dead", "closed"})
      /\ \A c \in DOMAIN conns : c # conn => c \in DOMAIN s.conns /\ conns[c] = s.conns[c]
  BY <1>4, <1>5
<1>7. PICK e : e = [s.ex[x] EXCEPT !.conn = conn, !.pc = "stream"]
  OBVIOUS
<1>8. e \in QuicEx /\ e.pc = "stream" /\ e.conn = conn /\ e.clean = s.ex[x].clean /\ e.has = s.ex[x].has
        /\ e.tries = s.ex[x].tries
  BY <1>3, <1>6, <1>7 DEF QuicEx, QuicPcs
<1>9. s' = [s EXCEPT !.ex = [s.ex EXCEPT ![x] = e], !.conn = conn, !.conns = conns]
  BY <1>1, <1>5, <1>7 DEF DH!Open, QuicType
<1>10. QuicMoves(x, e, conn, conns)
  BY <1>6, <1>9 DEF QuicMoves
<1>11. s.alone => \A c \in DOMAIN conns : conns[c] = "ok" => c = conn
  BY <1>1, <1>2, <1>6 DEF QuicAlone
<1>12. QuicUnder(e) /\ e.clean /\ e.has => QuicWay(e, conn, conns)
  <2>1. ASSUME e.clean, e.has PROVE QuicWay(s.ex[x], s.conn, s.conns)
    BY <1>1, <1>2, <1>8, <2>1 DEF QuicClean
  <2>2. QED
    BY <1>6, <1>8, <2>1 DEF QuicWay
<1>13. QED
  BY <1>2, <1>6, <1>8, <1>10, <1>11, <1>12, QuicMove

LEMMA QuicReads == ASSUME QuicInv, NEW x \in DnsExchanges, DH!QuicRead(x) PROVE QuicInv'
<1>1. QuicType /\ QuicMade /\ QuicAlone /\ QuicClean
  BY DEF QuicInv
<1>2. s.ex[x].pc = "wait" /\ QuicUnder(s.ex[x])
  BY DEF DH!QuicRead, DH!QuicAt, DH!QuicEx, QuicUnder, QuicPcs
<1>3. s.ex[x] \in [pc : QuicPcs, has : BOOLEAN, clean : BOOLEAN, tries : Nat, err : QuicErrors, conn : Nat, fresh : BOOLEAN]
  BY <1>1, <1>2, QuicUnderEx DEF QuicPcs
<1>4. s.conn \in Nat /\ s.conns \in Seq({"ok", "dead", "closed"})
  BY <1>1 DEF QuicType
<1>5. s.ex[x].conn \in DOMAIN s.conns
  BY <1>1, <1>2 DEF QuicMade
<1>6. s.conns[s.ex[x].conn] \in {"ok", "dead", "closed"}
  BY <1>4, <1>5
<1>7. PICK err : err = CASE s.conns[s.ex[x].conn] = "ok" -> Nil
                         [] s.conns[s.ex[x].conn] = "dead" -> "retry"
                         [] s.conns[s.ex[x].conn] = "closed" -> "other"
  OBVIOUS
<1>8. /\ s.conns[s.ex[x].conn] = "ok" => err = Nil
      /\ s.conns[s.ex[x].conn] = "dead" => err = "retry"
      /\ err \in QuicErrors
  BY <1>6, <1>7 DEF QuicErrors
<1>9. PICK e : e = [s.ex[x] EXCEPT !.pc = "decide", !.err = err]
  OBVIOUS
<1>10. e \in QuicEx /\ e.pc = "decide" /\ e.err = err /\ e.clean = s.ex[x].clean /\ e.has = s.ex[x].has
        /\ e.tries = s.ex[x].tries
  BY <1>3, <1>8, <1>9 DEF QuicEx, QuicPcs
<1>11. s' = [s EXCEPT !.ex[x] = e]
  <2>1. s' = [s EXCEPT !.ex[x].pc = "decide", !.ex[x].err = err]
    BY <1>7, Zenon DEF DH!QuicRead, DH!QuicEx
  <2>2. QED
    BY <1>1, <1>9, <2>1 DEF QuicType
<1>12. QuicMoves(x, e, s.conn, s.conns)
  BY <1>2, <1>10, <1>11, QuicOther
<1>13. s.alone => \A c \in DOMAIN s.conns : s.conns[c] = "ok" => c = s.conn
  BY <1>1 DEF QuicAlone
<1>14. QuicUnder(e) /\ e.clean /\ e.has => QuicWay(e, s.conn, s.conns)
  <2>1. ASSUME e.clean, e.has PROVE QuicWay(s.ex[x], s.conn, s.conns)
    BY <1>1, <1>2, <1>10, <2>1 DEF QuicClean
  <2>2. QED
    BY <1>2, <1>8, <1>10, <2>1 DEF QuicWay
<1>15. QED
  BY <1>2, <1>4, <1>10, <1>12, <1>13, <1>14, QuicMove

LEMMA QuicDecides == ASSUME QuicInv, NEW x \in DnsExchanges, DH!QuicDecide(x) PROVE QuicInv'
<1>1. QuicType /\ QuicMade /\ QuicAlone /\ QuicClean
  BY DEF QuicInv
<1>2. s.ex[x].pc = "decide" /\ QuicUnder(s.ex[x])
  BY DEF DH!QuicDecide, DH!QuicAt, DH!QuicEx, QuicUnder, QuicPcs
<1>3. s.ex[x] \in [pc : QuicPcs, has : BOOLEAN, clean : BOOLEAN, tries : Nat, err : QuicErrors, conn : Nat, fresh : BOOLEAN]
  BY <1>1, <1>2, QuicUnderEx DEF QuicPcs
<1>4. s.conn \in Nat /\ s.conns \in Seq({"ok", "dead", "closed"})
  BY <1>1 DEF QuicType
<1>5. ASSUME s.ex[x].clean, s.ex[x].has PROVE s.ex[x].err = Nil \/ (s.ex[x].err = "retry" /\ s.ex[x].tries = 0)
  <2>1. QuicWay(s.ex[x], s.conn, s.conns)
    BY <1>1, <1>2, <1>5 DEF QuicClean
  <2>2. QED
    BY <1>2, <2>1 DEF QuicWay
<1>6. CASE s.ex[x].err = Nil
  <2>1. PICK e : e = [pc |-> "done", err |-> Nil, clean |-> s.ex[x].clean]
    OBVIOUS
  <2>2. e \in QuicEx /\ e.pc = "done" /\ e.err = Nil
    BY <1>3, <2>1 DEF QuicEx, QuicErrors
  <2>3. s' = [s EXCEPT !.ex[x] = e]
    BY <1>6, <2>1 DEF DH!QuicDecide, DH!QuicEx
  <2>4. QuicMoves(x, e, s.conn, s.conns)
    BY <1>2, <2>2, <2>3, QuicOther
  <2>5. s.alone => \A c \in DOMAIN s.conns : s.conns[c] = "ok" => c = s.conn
    BY <1>1 DEF QuicAlone
  <2>6. ~QuicUnder(e)
    BY <2>2 DEF QuicUnder, QuicPcs
  <2>7. QED
    BY <1>2, <1>4, <2>2, <2>4, <2>5, <2>6, QuicMove
<1>7. CASE s.ex[x].err # Nil
  <2>1. PICK conns : conns = IF s.conn = 0 THEN s.conns ELSE [s.conns EXCEPT ![s.conn] = "closed"]
    OBVIOUS
  <2>2. /\ conns \in Seq({"ok", "dead", "closed"}) /\ DOMAIN conns = DOMAIN s.conns /\ Len(conns) = Len(s.conns)
        /\ \A c \in DOMAIN conns : conns[c] = "ok" => s.conns[c] = "ok" /\ c # s.conn
        /\ Len(s.conns) \in Nat
    <3>1. CASE s.conn = 0
      BY <1>4, <2>1, <3>1
    <3>2. CASE s.conn # 0
      BY <1>1, <1>4, <2>1, <3>2 DEF QuicMade
    <3>3. QED
      BY <3>1, <3>2
  <2>3. PICK f : f = DH!CloseConn(s)
    OBVIOUS
  <2>4. f = [s EXCEPT !.conns = conns, !.conn = 0]
    BY <1>1, <2>1, <2>3 DEF DH!CloseConn, DH!Close, QuicType
  <2>5. s.alone => \A c \in DOMAIN conns : conns[c] # "ok"
    BY <1>1, <2>2 DEF QuicAlone
  <2>6. ASSUME NEW e \in QuicEx, s' = [f EXCEPT !.ex = [s.ex EXCEPT ![x] = e]]
        PROVE  QuicMoves(x, e, 0, conns)
    <3>1. s' = [s EXCEPT !.ex = [s.ex EXCEPT ![x] = e], !.conn = 0, !.conns = conns]
      BY <1>1, <2>4, <2>6 DEF QuicType
    <3>2. Len(conns) >= Len(s.conns)
      BY <2>2
    <3>3. QED
      BY <3>1, <3>2, Zenon DEF QuicMoves
  <2>7. CASE s.ex[x].has /\ s.ex[x].err = "retry" /\ s.ex[x].tries < 2
    <3>0. PICK n \in Nat : n = s.ex[x].tries + 1
      BY <1>3
    <3>1. PICK e : e = [s.ex[x] EXCEPT !.tries = n, !.fresh = FALSE, !.pc = "get"]
      OBVIOUS
    <3>2. e \in QuicEx /\ e.pc = "get" /\ ~e.fresh /\ e.clean = s.ex[x].clean /\ e.has = s.ex[x].has
          /\ e.tries = s.ex[x].tries + 1
      BY <1>3, <3>0, <3>1 DEF QuicEx, QuicPcs
    <3>3. s' = [f EXCEPT !.ex = [s.ex EXCEPT ![x] = e]]
      <4>1. s' = [f EXCEPT !.ex[x].tries = @ + 1, !.ex[x].fresh = FALSE, !.ex[x].pc = "get"]
        BY <1>7, <2>3, <2>7 DEF DH!QuicDecide, DH!QuicEx, DH!QuicShouldRetry, DH!Attempts
      <4>2. f.ex = s.ex
        BY <1>1, <2>4 DEF QuicType
      <4>3. s' = [f EXCEPT !.ex = [s.ex EXCEPT ![x] = [s.ex[x] EXCEPT !.tries = @ + 1, !.fresh = FALSE, !.pc = "get"]]]
        BY <1>1, <4>1, <4>2 DEF QuicType
      <4>4. [s.ex[x] EXCEPT !.tries = @ + 1, !.fresh = FALSE, !.pc = "get"] = e
        BY <1>3, <3>0, <3>1
      <4>5. QED
        BY <4>3, <4>4
    <3>4. QuicMoves(x, e, 0, conns)
      BY <2>6, <3>2, <3>3
    <3>5. QuicUnder(e) /\ e.clean /\ e.has => QuicWay(e, 0, conns)
      BY <1>5, <1>7, <3>2 DEF QuicWay
    <3>6. QED
      BY <1>2, <2>2, <2>5, <3>2, <3>4, <3>5, QuicMove
  <2>8. CASE ~(s.ex[x].has /\ s.ex[x].err = "retry" /\ s.ex[x].tries < 2)
    <3>1. PICK e : e = [pc |-> "done", err |-> s.ex[x].err, clean |-> s.ex[x].clean /\ s.ex[x].has]
      OBVIOUS
    <3>2. e \in QuicEx /\ e.pc = "done" /\ (e.clean => s.ex[x].clean /\ s.ex[x].has)
      BY <1>3, <3>1 DEF QuicEx
    <3>3. ~e.clean
      BY <1>5, <1>7, <2>8, <3>2
    <3>4. s' = [f EXCEPT !.ex = [s.ex EXCEPT ![x] = e]]
      <4>1. s' = [f EXCEPT !.ex[x] = e]
        BY <1>7, <2>3, <2>8, <3>1 DEF DH!QuicDecide, DH!QuicEx, DH!QuicShouldRetry, DH!Attempts
      <4>2. QED
        BY <1>1, <2>4, <4>1 DEF QuicType
    <3>5. QuicMoves(x, e, 0, conns)
      BY <2>6, <3>2, <3>4
    <3>6. ~QuicUnder(e)
      BY <3>2 DEF QuicUnder, QuicPcs
    <3>7. QED
      BY <1>2, <2>2, <2>5, <3>2, <3>3, <3>5, <3>6, QuicMove
  <2>9. QED
    BY <2>7, <2>8
<1>8. QED
  BY <1>6, <1>7

LEMMA QuicStep == ASSUME QuicInv, DH!QuicNext PROVE QuicInv'
BY QuicRestarts, QuicBegins, QuicGets, QuicOpensStream, QuicNoStream, QuicOpens, QuicFails, QuicReads, QuicDecides
   DEF DH!QuicNext

LEMMA QuicRight == ASSUME QuicInv PROVE DH!NoConnLeft /\ DH!QuicSurvivesRestart
<1>1. QuicAlone /\ QuicClean
  BY DEF QuicInv
<1>2. QED
  BY <1>1 DEF QuicAlone, QuicClean, DH!NoConnLeft, DH!QuicSurvivesRestart, DH!QuicAt, DH!QuicEx

-----------------------------------------------------------------------------
(* DNS over HTTPS                                                          *)
(*                                                                         *)
(* Of the clients of HTTP/3 only the client of now can be open, with the   *)
(* lock or without.  An exchange on a client that was there can fail twice *)
(* if it meets nobody and no fault: once on a dead connection, and once    *)
(* with a token that the server has forgotten, after which the tokens are  *)
(* forgotten too.  Both need the two further attempts.                     *)

DohPcs == {"get", "write", "read", "send", "sent", "decide", "again", "reset"}
DohErrors == {Nil, "timeout", "retry", "0rtt", "other", "canceled", "closed"}
DohRequest ==
  [pc : DohPcs, tries : Nat, clean : BOOLEAN, asked : DnsExchanges \cup {Nil}, err : DohErrors,
   cached : BOOLEAN, client : Nat]
DohEx ==
  [pc : {"new"}] \cup DohRequest \cup
  [pc : {"done"}, err : DohErrors, asked : DnsExchanges \cup {Nil}, clean : BOOLEAN]
DohClient == [h3 : BOOLEAN, closed : BOOLEAN, conn : {"none", "ok", "dead"}]
DohUnder(e) == e.pc \in DohPcs

DohType ==
  s \in [versions : HttpVersions, client : Nat, clients : Seq(DohClient), mu : DnsExchanges \cup {Nil},
         url : DnsExchanges \cup {Nil}, tokens : {"none", "good", "stale"}, faults : Nat, ex : [DnsExchanges -> DohEx]]

\* The client of now is open, and the only one of HTTP/3 that is.
DohClients(client, clients) ==
  /\ client # 0 => client \in DOMAIN clients /\ ~clients[client].closed
  /\ \A c \in DOMAIN clients : clients[c].h3 => c = client \/ clients[c].closed

DohMade ==
  \A x \in DnsExchanges : DohUnder(s.ex[x]) /\ s.ex[x].pc # "get" => s.ex[x].client \in DOMAIN s.clients

\* The way of an exchange on a client that was there, which meets nobody and no
\* fault: its first request may find a dead connection, and one more a token
\* that was forgotten; the connection of the next one is new, and so are its tokens.
DohWay(e, client, clients, tokens) ==
  /\ e.pc \notin {"get", "reset"} /\ e.tries <= 2
  /\ e.client = client /\ client # 0
  /\ e.pc \in {"write", "read", "send", "sent"} =>
       (e.tries >= 1 => clients[client].conn = "none") /\ (e.tries = 2 => tokens = "none")
  /\ e.pc \in {"decide", "again"} => e.err \in {Nil, "retry", "0rtt"} /\ (e.err = "retry" => e.tries = 0) /\ (e.err = "0rtt" => e.tries <= 1)
  /\ e.pc = "again" => e.err # Nil

DohClean ==
  \A x \in DnsExchanges :
    /\ DohUnder(s.ex[x]) /\ s.ex[x].pc = "get" => ~s.ex[x].cached /\ s.ex[x].tries = 0
    /\ DohUnder(s.ex[x]) /\ s.ex[x].clean =>
         /\ \A y \in DnsExchanges : DohUnder(s.ex[y]) => y = x
         /\ s.ex[x].cached => DohWay(s.ex[x], s.client, s.clients, s.tokens)
    /\ s.ex[x].pc = "done" /\ s.ex[x].clean => s.ex[x].err = Nil

DohInv == DohType /\ DohClients(s.client, s.clients) /\ DohMade /\ DohClean

LEMMA DohInitially == ASSUME DH!Init PROVE DohInv
<1>1. PICK v \in HttpVersions :
        s = [versions |-> v, client |-> 0, clients |-> << >>, mu |-> Nil, url |-> Nil, tokens |-> "none", faults |-> 0,
             ex |-> [x \in DnsExchanges |-> [pc |-> "new"]]]
  BY DEF DH!Init
<1>2. DohType
  BY <1>1 DEF DohType, DohEx
<1>3. s.client = 0 /\ s.clients = << >> /\ \A x \in DnsExchanges : s.ex[x].pc = "new"
  BY <1>1
<1>4. QED
  BY <1>2, <1>3 DEF DohInv, DohClients, DohMade, DohClean, DohUnder, DohPcs

\* What the exchanges are before one of them makes its own step: as they were,
\* or none of them clean.
DohBase(g) ==
  /\ g \in [DnsExchanges -> DohEx]
  /\ \A y \in DnsExchanges :
       /\ g[y].pc = s.ex[y].pc
       /\ DohUnder(s.ex[y]) =>
            /\ g[y].client = s.ex[y].client /\ g[y].cached = s.ex[y].cached /\ g[y].tries = s.ex[y].tries
            /\ g[y].clean => s.ex[y].clean
       /\ ~DohUnder(s.ex[y]) => g[y] = s.ex[y]

DohMoves(x, e, g, client, clients, mu, url, tokens, faults) ==
  /\ s' = [s EXCEPT !.ex = [g EXCEPT ![x] = e], !.client = client, !.clients = clients, !.mu = mu, !.url = url,
                    !.tokens = tokens, !.faults = faults]
  /\ client \in Nat /\ clients \in Seq(DohClient) /\ mu \in DnsExchanges \cup {Nil} /\ url \in DnsExchanges \cup {Nil}
  /\ tokens \in {"none", "good", "stale"} /\ faults \in Nat

LEMMA DohMove ==
  ASSUME DohInv, NEW x \in DnsExchanges, NEW e \in DohEx, NEW g, DohBase(g),
         NEW client, NEW clients, NEW mu, NEW url, NEW tokens, NEW faults,
         DohMoves(x, e, g, client, clients, mu, url, tokens, faults),
         DohUnder(s.ex[x]) \/ \A y \in DnsExchanges : y # x /\ DohUnder(s.ex[y]) => ~g[y].clean,
         DohClients(client, clients),
         DOMAIN s.clients \subseteq DOMAIN clients,
         DohUnder(e) /\ e.pc # "get" => e.client \in DOMAIN clients,
         DohUnder(e) /\ e.pc = "get" => ~e.cached /\ e.tries = 0,
         DohUnder(e) /\ e.clean => \A y \in DnsExchanges : y # x => ~DohUnder(s.ex[y]),
         DohUnder(e) /\ e.clean /\ e.cached => DohWay(e, client, clients, tokens),
         e.pc = "done" /\ e.clean => e.err = Nil
  PROVE  DohInv'
<1>1. DohType /\ DohClients(s.client, s.clients) /\ DohMade /\ DohClean
  BY DEF DohInv
<1>2. DohType'
  <2>1. [g EXCEPT ![x] = e] \in [DnsExchanges -> DohEx]
    BY DEF DohBase
  <2>2. QED
    BY <1>1, <2>1 DEF DohType, DohMoves
<1>3. /\ s'.client = client /\ s'.clients = clients /\ s'.tokens = tokens
      /\ s'.ex = [g EXCEPT ![x] = e]
  BY <1>1 DEF DohType, DohMoves
<1>4. s'.ex[x] = e /\ \A y \in DnsExchanges : y # x => s'.ex[y] = g[y]
  BY <1>3 DEF DohBase
<1>5. \A y \in DnsExchanges : y # x =>
        /\ s'.ex[y].pc = s.ex[y].pc
        /\ DohUnder(s'.ex[y]) <=> DohUnder(s.ex[y])
        /\ DohUnder(s.ex[y]) => /\ s'.ex[y].client = s.ex[y].client /\ s'.ex[y].cached = s.ex[y].cached
                                /\ s'.ex[y].tries = s.ex[y].tries
        /\ ~DohUnder(s.ex[y]) => s'.ex[y] = s.ex[y]
  BY <1>4 DEF DohBase, DohUnder
<1>6. \A y \in DnsExchanges : y # x /\ DohUnder(s.ex[y]) => ~s'.ex[y].clean
  <2>1. CASE DohUnder(s.ex[x])
    BY <1>1, <1>4, <2>1 DEF DohClean, DohBase
  <2>2. CASE \A y \in DnsExchanges : y # x /\ DohUnder(s.ex[y]) => ~g[y].clean
    BY <1>4, <2>2
  <2>3. QED
    BY <2>1, <2>2
<1>7. DohMade'
  BY <1>1, <1>3, <1>4, <1>5 DEF DohMade
<1>8. DohClean'
  <2>1. ASSUME NEW y \in DnsExchanges, y # x
        PROVE /\ DohUnder(s'.ex[y]) /\ s'.ex[y].pc = "get" => ~s'.ex[y].cached /\ s'.ex[y].tries = 0
              /\ DohUnder(s'.ex[y]) => ~s'.ex[y].clean
              /\ s'.ex[y].pc = "done" /\ s'.ex[y].clean => s'.ex[y].err = Nil
    <3>1. CASE DohUnder(s.ex[y])
      <4>1. s.ex[y].pc # "done"
        BY <3>1 DEF DohUnder, DohPcs
      <4>2. QED
        BY <1>1, <1>5, <1>6, <2>1, <3>1, <4>1 DEF DohClean
    <3>2. CASE ~DohUnder(s.ex[y])
      BY <1>1, <1>5, <2>1, <3>2 DEF DohClean
    <3>3. QED
      BY <3>1, <3>2
  <2>2. ASSUME DohUnder(e), e.clean PROVE \A y \in DnsExchanges : DohUnder(s'.ex[y]) => y = x
    BY <1>5, <2>2
  <2>3. QED
    BY <1>3, <1>4, <2>1, <2>2 DEF DohClean
<1>9. QED
  BY <1>2, <1>3, <1>7, <1>8 DEF DohInv

DohSoiledEx == [y \in DnsExchanges |-> IF y \in DH!Busy THEN [s.ex[y] EXCEPT !.clean = FALSE] ELSE s.ex[y]]

LEMMA DohBusy == ASSUME DohType, NEW y \in DnsExchanges PROVE y \in DH!Busy <=> DohUnder(s.ex[y])
<1>1. s.ex[y] \in DohEx
  BY DEF DohType
<1>2. y \in DH!Busy <=> s.ex[y].pc \notin {"new", "done"}
  BY DEF DH!Busy, DH!Ex
<1>3. QED
  BY <1>1, <1>2 DEF DohEx, DohRequest, DohUnder, DohPcs

LEMMA DohUnderEx == ASSUME DohType, NEW y \in DnsExchanges, DohUnder(s.ex[y]) PROVE s.ex[y] \in DohRequest
<1>1. s.ex[y] \in DohEx
  BY DEF DohType
<1>2. QED
  BY <1>1 DEF DohEx, DohUnder, DohPcs

LEMMA DohSoil ==
  ASSUME DohType
  PROVE  DohBase(DohSoiledEx) /\ \A y \in DnsExchanges : DohUnder(s.ex[y]) => DohSoiledEx[y] = [s.ex[y] EXCEPT !.clean = FALSE] /\ ~DohSoiledEx[y].clean
<1>1. ASSUME NEW y \in DnsExchanges
      PROVE  /\ DohSoiledEx[y] \in DohEx
             /\ DohSoiledEx[y].pc = s.ex[y].pc
             /\ DohUnder(s.ex[y]) =>
                  /\ DohSoiledEx[y].client = s.ex[y].client /\ DohSoiledEx[y].cached = s.ex[y].cached
                  /\ DohSoiledEx[y].tries = s.ex[y].tries
                  /\ DohSoiledEx[y] = [s.ex[y] EXCEPT !.clean = FALSE] /\ ~DohSoiledEx[y].clean
             /\ ~DohUnder(s.ex[y]) => DohSoiledEx[y] = s.ex[y]
  <2>1. CASE DohUnder(s.ex[y])
    <3>1. s.ex[y] \in DohRequest
      BY <2>1, DohUnderEx
    <3>2. DohSoiledEx[y] = [s.ex[y] EXCEPT !.clean = FALSE]
      BY <2>1, DohBusy DEF DohSoiledEx
    <3>3. QED
      BY <2>1, <3>1, <3>2 DEF DohEx, DohRequest
  <2>2. CASE ~DohUnder(s.ex[y])
    <3>1. s.ex[y] \in DohEx
      BY DEF DohType
    <3>2. QED
      BY <2>2, <3>1, DohBusy DEF DohSoiledEx
  <2>3. QED
    BY <2>1, <2>2
<1>2. DohSoiledEx \in [DnsExchanges -> DohEx]
  BY <1>1 DEF DohSoiledEx
<1>3. QED
  BY <1>1, <1>2 DEF DohBase

LEMMA DohSame == ASSUME DohType PROVE DohBase(s.ex)
BY DEF DohBase, DohType

LEMMA DohFacts ==
  ASSUME DohInv
  PROVE  /\ DohType /\ DohClients(s.client, s.clients) /\ DohMade /\ DohClean
         /\ s.client \in Nat /\ s.clients \in Seq(DohClient) /\ s.mu \in DnsExchanges \cup {Nil}
         /\ s.url \in DnsExchanges \cup {Nil} /\ s.tokens \in {"none", "good", "stale"} /\ s.faults \in Nat
<1>1. DohType
  BY DEF DohInv
<1>2. QED
  BY <1>1 DEF DohInv, DohType

\* An exchange x that has a client becomes e, and nothing else but the lock and
\* the URL changes.
LEMMA DohKeeps ==
  ASSUME DohInv, NEW x \in DnsExchanges, NEW e \in DohEx, NEW mu \in DnsExchanges \cup {Nil}, NEW url \in DnsExchanges \cup {Nil},
         s' = [s EXCEPT !.ex[x] = e, !.mu = mu, !.url = url],
         DohUnder(s.ex[x]), s.ex[x].pc # "get", e.pc # "get",
         DohUnder(e) => e.client = s.ex[x].client /\ (e.clean => s.ex[x].clean),
         DohUnder(e) /\ e.clean /\ e.cached => DohWay(e, s.client, s.clients, s.tokens),
         e.pc = "done" /\ e.clean => e.err = Nil
  PROVE  DohInv'
<1>1. DohType /\ DohClients(s.client, s.clients) /\ DohMade /\ DohClean
  BY DEF DohInv
<1>2. s' = [s EXCEPT !.ex = [s.ex EXCEPT ![x] = e], !.client = s.client, !.clients = s.clients, !.mu = mu, !.url = url,
                     !.tokens = s.tokens, !.faults = s.faults]
  BY <1>1 DEF DohType
<1>3. PICK g : g = s.ex
  OBVIOUS
<1>4. DohMoves(x, e, g, s.client, s.clients, mu, url, s.tokens, s.faults)
  <2>1. s' = [s EXCEPT !.ex = [g EXCEPT ![x] = e], !.client = s.client, !.clients = s.clients, !.mu = mu, !.url = url,
                       !.tokens = s.tokens, !.faults = s.faults]
    BY <1>2, <1>3
  <2>2. QED
    BY <2>1, DohFacts, Zenon DEF DohMoves
<1>5. DohBase(g)
  BY <1>1, <1>3, DohSame
<1>6. DohUnder(e) /\ e.clean => \A y \in DnsExchanges : y # x => ~DohUnder(s.ex[y])
  BY <1>1 DEF DohClean
<1>7. DohUnder(e) => e.client \in DOMAIN s.clients
  BY <1>1 DEF DohMade
<1>8. QED
  BY <1>1, <1>4, <1>5, <1>6, <1>7, DohMove

LEMMA DohOnWay ==
  ASSUME DohInv, NEW x \in DnsExchanges, DohUnder(s.ex[x]), s.ex[x].clean, s.ex[x].cached
  PROVE  DohWay(s.ex[x], s.client, s.clients, s.tokens)
BY DEF DohInv, DohClean

LEMMA DohWrites == ASSUME DohInv, NEW x \in DnsExchanges, DH!WriteUrl(x) PROVE DohInv'
<1>1. s.ex[x].pc = "write" /\ DohUnder(s.ex[x])
  BY DEF DH!WriteUrl, DH!At, DH!Ex, DohUnder, DohPcs
<1>2. DohType /\ s.ex[x] \in DohRequest
  BY <1>1, DohUnderEx, DohFacts
<1>3. PICK e : e = [s.ex[x] EXCEPT !.pc = "read"]
  OBVIOUS
<1>4. e \in DohEx /\ e.pc = "read" /\ e.client = s.ex[x].client /\ e.clean = s.ex[x].clean /\ e.cached = s.ex[x].cached
      /\ e.tries = s.ex[x].tries
  BY <1>2, <1>3 DEF DohRequest, DohEx, DohPcs
<1>5. s' = [s EXCEPT !.ex[x] = e, !.mu = s.mu, !.url = x]
  BY <1>2, <1>3 DEF DH!WriteUrl, DohType
<1>6. DohUnder(e) /\ e.clean /\ e.cached => DohWay(e, s.client, s.clients, s.tokens)
  BY <1>1, <1>4, DohOnWay DEF DohWay
<1>7. QED
  BY <1>1, <1>4, <1>5, <1>6, DohKeeps, DohFacts, Zenon

LEMMA DohReads == ASSUME DohInv, NEW x \in DnsExchanges, DH!ReadUrl(x) PROVE DohInv'
<1>1. s.ex[x].pc = "read" /\ DohUnder(s.ex[x])
  BY DEF DH!ReadUrl, DH!At, DH!Ex, DohUnder, DohPcs
<1>2. DohType /\ s.ex[x] \in DohRequest /\ s.url \in DnsExchanges \cup {Nil}
  BY <1>1, DohUnderEx, DohFacts
<1>3. PICK e : e = [s.ex[x] EXCEPT !.asked = s.url, !.pc = "send"]
  OBVIOUS
<1>4. e \in DohEx /\ e.pc = "send" /\ e.client = s.ex[x].client /\ e.clean = s.ex[x].clean /\ e.cached = s.ex[x].cached
      /\ e.tries = s.ex[x].tries
  BY <1>2, <1>3 DEF DohRequest, DohEx, DohPcs
<1>5. s' = [s EXCEPT !.ex[x] = e, !.mu = s.mu, !.url = s.url]
  BY <1>2, <1>3 DEF DH!ReadUrl, DohType
<1>6. DohUnder(e) /\ e.clean /\ e.cached => DohWay(e, s.client, s.clients, s.tokens)
  BY <1>1, <1>4, DohOnWay DEF DohWay
<1>7. QED
  BY <1>1, <1>4, <1>5, <1>6, DohKeeps, DohFacts, Zenon

LEMMA DohSends == ASSUME DohInv, NEW x \in DnsExchanges, DH!Send(x) PROVE DohInv'
<1>1. s.ex[x].pc = "send" /\ DohUnder(s.ex[x])
  BY DEF DH!Send, DH!At, DH!Ex, DohUnder, DohPcs
<1>2. DohType /\ s.ex[x] \in DohRequest
  BY <1>1, DohUnderEx, DohFacts
<1>3. CASE s.clients[s.ex[x].client].closed
  <2>1. PICK e : e = [s.ex[x] EXCEPT !.err = "closed", !.pc = "decide"]
    OBVIOUS
  <2>2. e \in DohEx /\ e.pc = "decide" /\ e.client = s.ex[x].client /\ e.clean = s.ex[x].clean /\ e.cached = s.ex[x].cached
    BY <1>2, <2>1 DEF DohRequest, DohEx, DohPcs, DohErrors
  <2>3. s' = [s EXCEPT !.ex[x] = e, !.mu = s.mu, !.url = s.url]
    BY <1>2, <1>3, <2>1 DEF DH!Send, DH!Ex, DohType
  <2>4. ~(e.clean /\ e.cached)
    BY <1>1, <1>3, <2>2, DohOnWay, DohFacts DEF DohWay, DohClients
  <2>5. QED
    BY <1>1, <2>2, <2>3, <2>4, DohKeeps, DohFacts, Zenon
<1>4. CASE ~s.clients[s.ex[x].client].closed
  <2>1. PICK e : e = [s.ex[x] EXCEPT !.pc = "sent"]
    OBVIOUS
  <2>2. e \in DohEx /\ e.pc = "sent" /\ e.client = s.ex[x].client /\ e.clean = s.ex[x].clean /\ e.cached = s.ex[x].cached
        /\ e.tries = s.ex[x].tries
    BY <1>2, <2>1 DEF DohRequest, DohEx, DohPcs
  <2>3. s' = [s EXCEPT !.ex[x] = e, !.mu = s.mu, !.url = s.url]
    BY <1>2, <1>4, <2>1 DEF DH!Send, DH!Ex, DohType
  <2>4. DohUnder(e) /\ e.clean /\ e.cached => DohWay(e, s.client, s.clients, s.tokens)
    BY <1>1, <2>2, DohOnWay DEF DohWay
  <2>5. QED
    BY <1>1, <2>2, <2>3, <2>4, DohKeeps, DohFacts, Zenon
<1>5. QED
  BY <1>3, <1>4

LEMMA DohLocks == ASSUME DohInv, NEW x \in DnsExchanges, DH!Lock(x) PROVE DohInv'
<1>1. s.ex[x].pc = "decide" /\ DohUnder(s.ex[x]) /\ (DH!Again(x) \/ s.ex[x].err \notin {Nil, "canceled"})
  BY DEF DH!Lock, DH!At, DH!Ex, DohUnder, DohPcs
<1>2. DohType /\ s.ex[x] \in DohRequest
  BY <1>1, DohUnderEx, DohFacts
<1>3. PICK pc \in {"again", "reset"} : pc = IF DH!Again(x) THEN "again" ELSE "reset"
  OBVIOUS
<1>4. PICK e : e = [s.ex[x] EXCEPT !.pc = pc]
  OBVIOUS
<1>5. e \in DohEx /\ e.pc = pc /\ e.client = s.ex[x].client /\ e.clean = s.ex[x].clean /\ e.cached = s.ex[x].cached
      /\ e.tries = s.ex[x].tries /\ e.err = s.ex[x].err
  BY <1>2, <1>3, <1>4 DEF DohRequest, DohEx, DohPcs
<1>6. s' = [s EXCEPT !.ex[x] = e, !.mu = x, !.url = s.url]
  <2>1. s' = [s EXCEPT !.mu = x, !.ex[x].pc = pc]
    BY <1>3, Zenon DEF DH!Lock
  <2>2. QED
    BY <1>2, <1>4, <2>1 DEF DohType
<1>7. DohUnder(e) /\ e.clean /\ e.cached => DohWay(e, s.client, s.clients, s.tokens)
  <2>1. ASSUME e.clean, e.cached PROVE DohWay(s.ex[x], s.client, s.clients, s.tokens) /\ s.ex[x].cached
    BY <1>1, <1>5, <2>1, DohOnWay
  <2>2. DH!Again(x) <=> s.ex[x].cached /\ s.ex[x].err \in {"timeout", "retry", "0rtt"} /\ s.ex[x].tries < 2
    BY DEF DH!Again, DH!Ex, DH!ShouldRetry, DH!Attempts
  <2>3. s.ex[x].tries \in Nat
    BY <1>2 DEF DohRequest
  <2>4. ASSUME e.clean, e.cached PROVE DH!Again(x)
    BY <1>1, <2>1, <2>2, <2>3, <2>4 DEF DohWay
  <2>5. QED
    BY <1>1, <1>3, <1>5, <2>1, <2>2, <2>4, DnsAssumption DEF DohWay
<1>8. e.pc # "get" /\ e.pc # "done"
  BY <1>3, <1>5
<1>9. QED
  BY <1>1, <1>5, <1>6, <1>7, <1>8, DohKeeps, DohFacts, Zenon

LEMMA DohEnds == ASSUME DohInv, NEW x \in DnsExchanges, DH!Done(x) PROVE DohInv'
<1>1. s.ex[x].pc = "decide" /\ DohUnder(s.ex[x]) /\ s.ex[x].err \in {Nil, "canceled"}
  BY DEF DH!Done, DH!At, DH!Ex, DohUnder, DohPcs
<1>2. DohType /\ s.ex[x] \in DohRequest
  BY <1>1, DohUnderEx, DohFacts
<1>3. PICK e : e = [pc |-> "done", err |-> s.ex[x].err, asked |-> s.ex[x].asked, clean |-> s.ex[x].clean /\ s.ex[x].cached]
  OBVIOUS
<1>4. e \in DohEx /\ e.pc = "done" /\ e.err = s.ex[x].err /\ (e.clean => s.ex[x].clean /\ s.ex[x].cached)
  BY <1>2, <1>3 DEF DohRequest, DohEx
<1>5. s' = [s EXCEPT !.ex[x] = e, !.mu = s.mu, !.url = s.url]
  <2>1. s' = DH!Ended(s, x, s.ex[x].err)
    BY DEF DH!Done, DH!Ex
  <2>2. s' = [s EXCEPT !.ex[x] = e]
    BY <1>2, <1>3, <2>1 DEF DH!Ended, DohType
  <2>3. QED
    BY <1>2, <2>2 DEF DohType
<1>6. e.clean => e.err = Nil
  BY <1>1, <1>4, DohOnWay, DnsAssumption DEF DohWay
<1>7. ~DohUnder(e)
  BY <1>4 DEF DohUnder, DohPcs
<1>8. QED
  BY <1>1, <1>4, <1>5, <1>6, <1>7, DohKeeps, DohFacts, Zenon

LEMMA DohReplies == ASSUME DohInv, NEW x \in DnsExchanges, DH!Reply(x) PROVE DohInv'
<1>1. s.ex[x].pc = "sent" /\ DohUnder(s.ex[x])
  BY DEF DH!Reply, DH!At, DH!Ex, DohUnder, DohPcs
<1>2. DohType /\ s.ex[x] \in DohRequest /\ DohMade /\ DohClean /\ DohClients(s.client, s.clients)
  BY <1>1, DohUnderEx, DohFacts
<1>3. PICK c \in DOMAIN s.clients : c = s.ex[x].client
  BY <1>1, <1>2 DEF DohMade
<1>4. PICK k : k = s.clients[c]
  OBVIOUS
<1>5. k \in DohClient
  BY <1>3, <1>4, DohFacts
<1>6. PICK err : err = IF ~k.h3 THEN Nil
                       ELSE IF k.conn = "dead" THEN "retry"
                       ELSE IF k.conn = "none" /\ s.tokens = "stale" THEN "0rtt" ELSE Nil
  OBVIOUS
<1>7. /\ err \in {Nil, "retry", "0rtt"}
      /\ k.conn # "dead" => err # "retry" \/ err = Nil
      /\ s.tokens # "stale" => err # "0rtt" \/ err = Nil
  BY <1>6
<1>8. PICK e : e = [s.ex[x] EXCEPT !.err = err, !.pc = "decide"]
  OBVIOUS
<1>9. e \in DohEx /\ e.pc = "decide" /\ e.err = err /\ e.client = s.ex[x].client /\ e.clean = s.ex[x].clean
      /\ e.cached = s.ex[x].cached /\ e.tries = s.ex[x].tries
  BY <1>2, <1>7, <1>8 DEF DohRequest, DohEx, DohPcs, DohErrors
<1>10. PICK conn : conn = IF err = Nil THEN "ok" ELSE k.conn
  OBVIOUS
<1>11. PICK clients : clients = [s.clients EXCEPT ![c] = [k EXCEPT !.conn = conn]]
  OBVIOUS
<1>12. /\ clients \in Seq(DohClient) /\ DOMAIN clients = DOMAIN s.clients
       /\ \A d \in DOMAIN clients : clients[d].h3 = s.clients[d].h3 /\ clients[d].closed = s.clients[d].closed
  <2>1. [k EXCEPT !.conn = conn] \in DohClient /\ [k EXCEPT !.conn = conn].h3 = k.h3 /\ [k EXCEPT !.conn = conn].closed = k.closed
    BY <1>5, <1>10 DEF DohClient
  <2>2. s.clients \in Seq(DohClient)
    BY DohFacts
  <2>3. PICK m : m = [k EXCEPT !.conn = conn]
    OBVIOUS
  <2>4. clients = [s.clients EXCEPT ![c] = m]
    BY <1>11, <2>3
  <2>5. m \in DohClient /\ m.h3 = k.h3 /\ m.closed = k.closed
    BY <2>1, <2>3
  <2>6. QED
    BY <1>3, <1>4, <2>2, <2>4, <2>5
<1>13. PICK tokens \in {"none", "good", "stale"} : tokens = IF err = Nil /\ k.h3 THEN "good" ELSE s.tokens
  BY DohFacts
<1>14. PICK g : g = s.ex
  OBVIOUS
<1>15. s' = [s EXCEPT !.ex[x].err = err, !.ex[x].pc = "decide",
                      !.clients[c].conn = IF err = Nil THEN "ok" ELSE @, !.tokens = tokens]
  BY <1>3, <1>4, <1>6, <1>13, Zenon DEF DH!Reply, DH!Ex
<1>16. s' = [s EXCEPT !.ex = [g EXCEPT ![x] = e], !.client = s.client, !.clients = clients, !.mu = s.mu, !.url = s.url,
                      !.tokens = tokens, !.faults = s.faults]
  <2>1. s' = [s EXCEPT !.ex = [g EXCEPT ![x] = e], !.clients = [s.clients EXCEPT ![c].conn = IF err = Nil THEN "ok" ELSE @], !.tokens = tokens]
    BY <1>2, <1>8, <1>14, <1>15 DEF DohType
  <2>2. [s.clients EXCEPT ![c].conn = IF err = Nil THEN "ok" ELSE @] = clients
    BY <1>4, <1>10, <1>11
  <2>3. s' = [s EXCEPT !.ex = [g EXCEPT ![x] = e], !.clients = clients, !.tokens = tokens]
    BY <2>1, <2>2
  <2>4. QED
    BY <1>2, <2>3 DEF DohType
<1>17. DohMoves(x, e, g, s.client, clients, s.mu, s.url, tokens, s.faults)
  BY <1>12, <1>13, <1>16, DohFacts, Zenon DEF DohMoves
<1>18. DohBase(g)
  BY <1>2, <1>14, DohSame
<1>19. DohClients(s.client, clients)
  BY <1>2, <1>12 DEF DohClients
<1>20. e.clean => \A y \in DnsExchanges : y # x => ~DohUnder(s.ex[y])
  BY <1>1, <1>2, <1>9 DEF DohClean
<1>21. e.clean /\ e.cached => DohWay(e, s.client, clients, tokens)
  <2>1. ASSUME e.clean, e.cached PROVE DohWay(s.ex[x], s.client, s.clients, s.tokens)
    BY <1>1, <1>9, <2>1, DohOnWay
  <2>2. s.ex[x].tries \in Nat
    BY <1>2 DEF DohRequest
  <2>3. ASSUME e.clean, e.cached, err = "retry" PROVE e.tries = 0
    BY <1>1, <1>3, <1>4, <1>7, <1>9, <2>1, <2>2, <2>3, DnsAssumption DEF DohWay
  <2>4. ASSUME e.clean, e.cached, err = "0rtt" PROVE e.tries <= 1
    BY <1>1, <1>3, <1>4, <1>7, <1>9, <2>1, <2>2, <2>4, DnsAssumption DEF DohWay
  <2>5. QED
    BY <1>1, <1>7, <1>9, <2>1, <2>3, <2>4 DEF DohWay
<1>22. DOMAIN s.clients \subseteq DOMAIN clients /\ e.client \in DOMAIN clients
  BY <1>3, <1>9, <1>12
<1>23. QED
  BY <1>1, <1>9, <1>17, <1>18, <1>19, <1>20, <1>21, <1>22, DohMove

LEMMA DohRestarts == ASSUME DohInv, DH!Restart PROVE DohInv'
<1>1. DohType /\ DohMade /\ DohClean /\ DohClients(s.client, s.clients) /\ s.clients \in Seq(DohClient) /\ s.tokens \in {"none", "good", "stale"}
  BY DohFacts
<1>2. PICK clients : clients = [c \in DOMAIN s.clients |-> IF s.clients[c].conn = "ok" THEN [s.clients[c] EXCEPT !.conn = "dead"] ELSE s.clients[c]]
  OBVIOUS
<1>3. /\ clients \in Seq(DohClient) /\ DOMAIN clients = DOMAIN s.clients
      /\ \A c \in DOMAIN clients : clients[c].h3 = s.clients[c].h3 /\ clients[c].closed = s.clients[c].closed
  <2>1. DOMAIN s.clients = 1 .. Len(s.clients) /\ Len(s.clients) \in Nat
    BY <1>1
  <2>2. ASSUME NEW c \in DOMAIN s.clients
        PROVE clients[c] \in DohClient /\ clients[c].h3 = s.clients[c].h3 /\ clients[c].closed = s.clients[c].closed
    <3>1. s.clients[c] \in DohClient
      BY <1>1
    <3>2. QED
      BY <1>2, <3>1 DEF DohClient
  <2>3. DOMAIN clients = DOMAIN s.clients
    BY <1>2
  <2>4. clients \in [1 .. Len(s.clients) -> DohClient]
    BY <1>2, <2>1, <2>2
  <2>5. QED
    BY <2>1, <2>2, <2>3, <2>4
<1>4. PICK tokens \in {"none", "good", "stale"} : tokens = IF s.tokens = "good" THEN "stale" ELSE s.tokens
  BY <1>1
<1>5. PICK n \in Nat : n = s.faults + 1
  BY DohFacts
<1>6. s' = [s EXCEPT !.ex = DohSoiledEx, !.faults = n, !.tokens = tokens, !.clients = clients]
  BY <1>1, <1>2, <1>4, <1>5 DEF DH!Restart, DH!Fault, DH!Soiled, DohSoiledEx, DohType
<1>7. DohBase(DohSoiledEx) /\ \A y \in DnsExchanges : DohUnder(s.ex[y]) => ~DohSoiledEx[y].clean
  BY <1>1, DohSoil
<1>8. DohType'
  BY <1>1, <1>3, <1>6, <1>7 DEF DohType, DohBase
<1>9. s'.client = s.client /\ s'.clients = clients /\ s'.ex = DohSoiledEx
  BY <1>1, <1>6 DEF DohType
<1>10. \A y \in DnsExchanges :
         /\ s'.ex[y].pc = s.ex[y].pc
         /\ DohUnder(s'.ex[y]) <=> DohUnder(s.ex[y])
         /\ DohUnder(s.ex[y]) => /\ s'.ex[y].client = s.ex[y].client /\ s'.ex[y].cached = s.ex[y].cached
                                 /\ s'.ex[y].tries = s.ex[y].tries /\ ~s'.ex[y].clean
         /\ ~DohUnder(s.ex[y]) => s'.ex[y] = s.ex[y]
  BY <1>7, <1>9 DEF DohBase, DohUnder
<1>11. DohClients(s'.client, s'.clients)
  BY <1>1, <1>3, <1>9 DEF DohClients
<1>12. DohMade'
  BY <1>1, <1>3, <1>9, <1>10 DEF DohMade
<1>13. DohClean'
  BY <1>1, <1>10 DEF DohClean, DohUnder, DohPcs
<1>14. QED
  BY <1>8, <1>11, <1>12, <1>13 DEF DohInv

LEMMA DohBegins == ASSUME DohInv, NEW x \in DnsExchanges, DH!Begin(x) PROVE DohInv'
<1>1. DohType /\ DohClean /\ DohClients(s.client, s.clients)
  BY DohFacts
<1>2. PICK e : e = [pc |-> "get", tries |-> 0, clean |-> DH!Busy = {}, asked |-> Nil, err |-> Nil, cached |-> FALSE, client |-> 0]
  OBVIOUS
<1>3. e \in DohEx /\ e.pc = "get" /\ ~e.cached /\ e.tries = 0 /\ (e.clean => DH!Busy = {})
  BY <1>2 DEF DohEx, DohRequest, DohPcs, DohErrors
<1>4. PICK g : g = DohSoiledEx
  OBVIOUS
<1>5. s' = [s EXCEPT !.ex = [g EXCEPT ![x] = e], !.client = s.client, !.clients = s.clients, !.mu = s.mu, !.url = s.url,
                      !.tokens = s.tokens, !.faults = s.faults]
  BY <1>1, <1>2, <1>4 DEF DH!Begin, DH!Soiled, DohSoiledEx, DohType
<1>6. DohMoves(x, e, g, s.client, s.clients, s.mu, s.url, s.tokens, s.faults)
  BY <1>5, DohFacts, Zenon DEF DohMoves
<1>7. DohBase(g) /\ \A y \in DnsExchanges : DohUnder(s.ex[y]) => ~g[y].clean
  BY <1>1, <1>4, DohSoil
<1>8. e.clean => \A y \in DnsExchanges : y # x => ~DohUnder(s.ex[y])
  BY <1>1, <1>3, DohBusy
<1>9. QED
  BY <1>1, <1>3, <1>6, <1>7, <1>8, DohMove

\* What an action begins with, if the server can be reached and if it cannot.
DohStart(works, tokens) == IF works THEN [s EXCEPT !.tokens = tokens] ELSE DH!Fault([s EXCEPT !.tokens = tokens])

DohStarted(x, works, tokens, g, n) ==
  /\ DohStart(works, tokens) = [s EXCEPT !.tokens = tokens, !.ex = g, !.faults = n]
  /\ DohBase(g) /\ g[x] \in DohRequest
  /\ works => g = s.ex
  /\ ~works => ~g[x].clean

LEMMA DohStarts ==
  ASSUME DohInv, NEW x \in DnsExchanges, DohUnder(s.ex[x]), NEW tokens \in {"none", "good", "stale"}, NEW works \in BOOLEAN
  PROVE  \E g \in [DnsExchanges -> DohEx], n \in Nat : DohStarted(x, works, tokens, g, n)
<1>1. DohType /\ s.ex[x] \in DohRequest
  BY DohFacts, DohUnderEx
<1>2. CASE works
  <2>1. DohStart(works, tokens) = [s EXCEPT !.tokens = tokens, !.ex = s.ex, !.faults = s.faults]
    BY <1>1, <1>2 DEF DohStart, DohType
  <2>2. QED
    BY <1>1, <1>2, <2>1, DohSame, DohFacts, Zenon DEF DohBase, DohStarted
<1>3. CASE ~works
  <2>1. PICK n \in Nat : n = s.faults + 1
    BY DohFacts
  <2>2. DohStart(works, tokens) = [s EXCEPT !.tokens = tokens, !.ex = DohSoiledEx, !.faults = n]
    BY <1>1, <1>3, <2>1 DEF DohStart, DH!Fault, DH!Soiled, DohSoiledEx, DohType
  <2>3. DohBase(DohSoiledEx) /\ ~DohSoiledEx[x].clean /\ DohSoiledEx[x] = [s.ex[x] EXCEPT !.clean = FALSE]
    BY <1>1, DohSoil
  <2>4. DohSoiledEx[x] \in DohRequest
    BY <1>1, <2>3 DEF DohRequest
  <2>5. QED
    BY <1>3, <2>2, <2>3, <2>4, Zenon DEF DohBase, DohStarted
<1>4. QED
  BY <1>2, <1>3

LEMMA DohLoses ==
  ASSUME DohInv, NEW x \in DnsExchanges, NEW err \in {"timeout", "other", "canceled"}, DH!Lost(x, err)
  PROVE  DohInv'
<1>1. s.ex[x].pc = "sent" /\ DohUnder(s.ex[x])
  BY DEF DH!Lost, DH!At, DH!Ex, DohUnder, DohPcs
<1>2. DohType /\ DohMade /\ DohClean /\ DohClients(s.client, s.clients) /\ s.tokens \in {"none", "good", "stale"}
  BY DohFacts
<1>3. PICK g \in [DnsExchanges -> DohEx], n \in Nat : DohStarted(x, FALSE, s.tokens, g, n)
  <2>1. FALSE \in BOOLEAN
    OBVIOUS
  <2>2. QED
    BY <1>1, <1>2, <2>1, DohStarts, Zenon
<1>0. /\ DohStart(FALSE, s.tokens) = [s EXCEPT !.tokens = s.tokens, !.ex = g, !.faults = n]
      /\ DohBase(g) /\ g[x] \in DohRequest /\ ~g[x].clean
  BY <1>3 DEF DohStarted
<1>4. PICK e : e = [g[x] EXCEPT !.err = err, !.pc = "decide"]
  OBVIOUS
<1>5. e \in DohEx /\ e.pc = "decide" /\ e.client = g[x].client /\ ~e.clean
  BY <1>0, <1>4 DEF DohRequest, DohEx, DohPcs, DohErrors
<1>6. DH!Fault(s) = [s EXCEPT !.ex = g, !.faults = n]
  <2>1. [s EXCEPT !.tokens = s.tokens] = s
    BY <1>2 DEF DohType
  <2>2. DH!Fault(s) = DohStart(FALSE, s.tokens)
    BY <2>1 DEF DohStart
  <2>3. QED
    BY <1>2, <1>0, <2>2 DEF DohType
<1>7. s' = [s EXCEPT !.ex = [g EXCEPT ![x] = e], !.client = s.client, !.clients = s.clients, !.mu = s.mu, !.url = s.url,
                      !.tokens = s.tokens, !.faults = n]
  <2>1. PICK f : f = [s EXCEPT !.ex = g, !.faults = n]
    OBVIOUS
  <2>2. s' = [f EXCEPT !.ex[x].err = err, !.ex[x].pc = "decide"]
    BY <1>6, <2>1 DEF DH!Lost
  <2>3. f.ex = g
    BY <1>2, <2>1 DEF DohType
  <2>4. s' = [f EXCEPT !.ex = [g EXCEPT ![x] = e]]
    BY <1>0, <1>4, <2>2, <2>3 DEF DohBase
  <2>5. QED
    BY <1>2, <2>1, <2>4 DEF DohType
<1>8. DohMoves(x, e, g, s.client, s.clients, s.mu, s.url, s.tokens, n)
  BY <1>7, DohFacts, Zenon DEF DohMoves
<1>9. e.client \in DOMAIN s.clients
  BY <1>1, <1>2, <1>0, <1>5 DEF DohMade, DohBase
<1>10. QED
  BY <1>1, <1>2, <1>0, <1>5, <1>8, <1>9, DohMove

LEMMA DohOutcomes == Nil \notin DH!Outcomes(TRUE)
<1>1. DH!Versions(TRUE) \subseteq {"h2", "h3"} /\ DH!Versions(TRUE) # {}
  BY DEF DH!Versions, DH!Probes
<1>2. QED
  BY <1>1, DnsAssumption DEF DH!Outcomes

\* The client that is made: a new one, with no connection; or none.
LEMMA DohCreates ==
  ASSUME NEW clients \in Seq(DohClient), NEW v \in {"h2", "h3"},
         \A c \in DOMAIN clients : clients[c].h3 => clients[c].closed
  PROVE  LET made == Append(clients, [h3 |-> v = "h3", closed |-> FALSE, conn |-> "none"])
             c == Len(clients) + 1
         IN  /\ made \in Seq(DohClient) /\ c \in Nat \ {0} /\ c \in DOMAIN made /\ DohClients(c, made)
             /\ made[c].conn = "none" /\ DOMAIN clients \subseteq DOMAIN made
<1>1. PICK k : k = [h3 |-> v = "h3", closed |-> FALSE, conn |-> "none"]
  OBVIOUS
<1>2. k \in DohClient /\ k.conn = "none" /\ ~k.closed
  BY <1>1 DEF DohClient
<1>3. PICK made, c : made = Append(clients, k) /\ c = Len(clients) + 1
  OBVIOUS
<1>4. /\ made \in Seq(DohClient) /\ c \in Nat \ {0} /\ c \in DOMAIN made /\ made[c] = k
      /\ DOMAIN clients \subseteq DOMAIN made
      /\ \A d \in DOMAIN made : d # c => d \in DOMAIN clients /\ made[d] = clients[d]
  BY <1>2, <1>3
<1>5. DohClients(c, made)
  BY <1>2, <1>4 DEF DohClients
<1>6. QED
  BY <1>1, <1>2, <1>3, <1>4, <1>5

LEMMA DohGets ==
  ASSUME DohInv, NEW x \in DnsExchanges, NEW works \in BOOLEAN, NEW v \in {"h2", "h3", Nil}, DH!GetClient(x, works, v)
  PROVE  DohInv'
<1>1. s.ex[x].pc = "get" /\ DohUnder(s.ex[x])
  BY DEF DH!GetClient, DH!At, DH!Ex, DohUnder, DohPcs
<1>2. /\ DohType /\ DohMade /\ DohClean /\ DohClients(s.client, s.clients) /\ s.ex[x] \in DohRequest
      /\ s.clients \in Seq(DohClient) /\ s.client \in Nat
  BY <1>1, DohFacts, DohUnderEx
<1>3. s.ex[x].clean => \A y \in DnsExchanges : y # x => ~DohUnder(s.ex[y])
  BY <1>1, <1>2 DEF DohClean
<1>4. ~s.ex[x].cached /\ s.ex[x].tries = 0
  BY <1>1, <1>2 DEF DohClean
<1>5. CASE s.client # 0
  <2>1. PICK e : e = [s.ex[x] EXCEPT !.cached = TRUE, !.client = s.client, !.pc = "write"]
    OBVIOUS
  <2>2. e \in DohEx /\ e.pc = "write" /\ e.client = s.client /\ e.clean = s.ex[x].clean /\ e.tries = 0
    BY <1>2, <1>4, <2>1 DEF DohRequest, DohEx, DohPcs
  <2>3. PICK g : g = s.ex
    OBVIOUS
  <2>4. s' = [s EXCEPT !.ex = [g EXCEPT ![x] = e], !.client = s.client, !.clients = s.clients, !.mu = s.mu, !.url = s.url,
                       !.tokens = s.tokens, !.faults = s.faults]
    <3>1. s' = [s EXCEPT !.ex[x].cached = TRUE, !.ex[x].client = s.client, !.ex[x].pc = "write"]
      BY <1>5, Zenon DEF DH!GetClient
    <3>2. s' = [s EXCEPT !.ex = [g EXCEPT ![x] = e]]
      BY <1>2, <2>1, <2>3, <3>1 DEF DohType
    <3>3. QED
      BY <1>2, <3>2 DEF DohType
  <2>5. DohMoves(x, e, g, s.client, s.clients, s.mu, s.url, s.tokens, s.faults)
    BY <2>4, DohFacts, Zenon DEF DohMoves
  <2>6. DohBase(g)
    BY <1>2, <2>3, DohSame
  <2>7. s.client \in DOMAIN s.clients
    BY <1>2, <1>5 DEF DohClients
  <2>8. DohWay(e, s.client, s.clients, s.tokens)
    BY <1>5, <2>2 DEF DohWay
  <2>9. QED
    BY <1>1, <1>2, <1>3, <2>2, <2>5, <2>6, <2>7, <2>8, DohMove
<1>6. CASE s.client = 0
  <2>1. PICK tokens \in {"none", "good", "stale"} : tokens = s.tokens
    BY DohFacts
  <2>0. PICK g \in [DnsExchanges -> DohEx], n \in Nat : DohStarted(x, works, tokens, g, n)
    BY <1>1, DohStarts, Zenon
  <2>2. /\ DohStart(works, tokens) = [s EXCEPT !.tokens = tokens, !.ex = g, !.faults = n]
        /\ DohBase(g) /\ g[x] \in DohRequest
    BY <2>0 DEF DohStarted
  <2>3. PICK f : f = [s EXCEPT !.tokens = tokens, !.ex = g, !.faults = n]
    OBVIOUS
  <2>4. f = IF works THEN s ELSE DH!Fault(s)
    <3>1. [s EXCEPT !.tokens = tokens] = s
      BY <1>2, <2>1 DEF DohType
    <3>2. QED
      BY <2>2, <2>3, <3>1 DEF DohStart
  <2>5. g[x].cached = FALSE /\ g[x].tries = 0 /\ (g[x].clean => s.ex[x].clean) /\ g[x].pc = "get"
    BY <1>1, <1>4, <2>2 DEF DohBase
  <2>6. f.clients = s.clients /\ f.client = 0 /\ f.ex = g
    BY <1>2, <1>6, <2>3 DEF DohType
  <2>7. CASE v = Nil
    <3>1. PICK e : e = [pc |-> "done", err |-> "other", asked |-> g[x].asked, clean |-> g[x].clean /\ g[x].cached]
      OBVIOUS
    <3>2. e \in DohEx /\ e.pc = "done" /\ ~e.clean
      BY <2>2, <2>5, <3>1 DEF DohEx, DohRequest, DohErrors
    <3>3. PICK c : c = [f EXCEPT !.client = 0]
      OBVIOUS
    <3>4. c = f
      BY <1>2, <1>6, <2>3, <3>3 DEF DohType
    <3>5. s' = DH!Ended(f, x, "other")
      BY <1>6, <2>4, <2>6, <2>7, <3>3, <3>4 DEF DH!GetClient, DH!Create
    <3>6. s' = [f EXCEPT !.ex = [g EXCEPT ![x] = e]]
      BY <2>6, <3>1, <3>5 DEF DH!Ended
    <3>7. s' = [s EXCEPT !.ex = [g EXCEPT ![x] = e], !.client = s.client, !.clients = s.clients, !.mu = s.mu, !.url = s.url,
                         !.tokens = tokens, !.faults = n]
      BY <1>2, <2>3, <3>6 DEF DohType
    <3>8. DohMoves(x, e, g, s.client, s.clients, s.mu, s.url, tokens, n)
      BY <3>7, DohFacts, Zenon DEF DohMoves
    <3>9. ~DohUnder(e)
      BY <3>2 DEF DohUnder, DohPcs
    <3>10. QED
      BY <1>1, <1>2, <2>2, <3>2, <3>8, <3>9, DohMove
  <2>8. CASE v # Nil
    <3>1. \A c \in DOMAIN s.clients : s.clients[c].h3 => s.clients[c].closed
      <4>1. 0 \notin DOMAIN s.clients
        BY <1>2
      <4>2. QED
        BY <1>2, <1>6, <4>1 DEF DohClients
    <3>2. PICK made, c : made = Append(s.clients, [h3 |-> v = "h3", closed |-> FALSE, conn |-> "none"]) /\ c = Len(s.clients) + 1
      OBVIOUS
    <3>3. v \in {"h2", "h3"}
      BY <2>8
    <3>4. /\ made \in Seq(DohClient) /\ c \in Nat \ {0} /\ c \in DOMAIN made /\ DohClients(c, made)
          /\ made[c].conn = "none" /\ DOMAIN s.clients \subseteq DOMAIN made
      BY <1>2, <3>1, <3>2, <3>3, DohCreates
    <3>5. DH!Create(f, v) = [f EXCEPT !.client = c, !.clients = made]
      BY <2>6, <2>8, <3>2 DEF DH!Create
    <3>6. PICK h : h = [f EXCEPT !.client = c, !.clients = made]
      OBVIOUS
    <3>7. h.client = c /\ h.ex = g
      BY <1>2, <2>3, <3>6 DEF DohType
    <3>8. PICK e : e = [g[x] EXCEPT !.client = c, !.pc = "write"]
      OBVIOUS
    <3>9. e \in DohEx /\ e.pc = "write" /\ e.client = c /\ ~e.cached /\ e.clean = g[x].clean
      BY <2>2, <2>5, <3>4, <3>8 DEF DohRequest, DohEx, DohPcs
    <3>10. s' = [h EXCEPT !.ex[x].client = c, !.ex[x].pc = "write"]
      BY <1>6, <2>4, <3>4, <3>5, <3>6, <3>7 DEF DH!GetClient
    <3>11. s' = [h EXCEPT !.ex = [g EXCEPT ![x] = e]]
      BY <2>2, <3>7, <3>8, <3>10
    <3>12. s' = [s EXCEPT !.ex = [g EXCEPT ![x] = e], !.client = c, !.clients = made, !.mu = s.mu, !.url = s.url,
                         !.tokens = tokens, !.faults = n]
      BY <1>2, <2>3, <3>6, <3>11 DEF DohType
    <3>13. DohMoves(x, e, g, c, made, s.mu, s.url, tokens, n)
      BY <3>4, <3>12, DohFacts, Zenon DEF DohMoves
    <3>14. e.clean => \A y \in DnsExchanges : y # x => ~DohUnder(s.ex[y])
      BY <1>3, <2>5, <3>9
    <3>15. QED
      BY <1>1, <2>2, <3>4, <3>9, <3>13, <3>14, DohMove
  <2>9. QED
    BY <2>7, <2>8
<1>7. QED
  BY <1>5, <1>6

LEMMA Replaced ==
  ASSUME NEW S, NEW q \in Seq(S), NEW i \in DOMAIN q, NEW e \in S
  PROVE  /\ [q EXCEPT ![i] = e] \in Seq(S) /\ DOMAIN [q EXCEPT ![i] = e] = DOMAIN q
         /\ [q EXCEPT ![i] = e][i] = e /\ \A d \in DOMAIN q : d # i => [q EXCEPT ![i] = e][d] = q[d]
OBVIOUS

\* The client of now is closed if it is one of HTTP/3.
LEMMA DohCloses ==
  ASSUME DohInv,
         NEW clients, clients = IF DH!H3(s.client) THEN [s.clients EXCEPT ![s.client].closed = TRUE] ELSE s.clients
  PROVE  /\ clients \in Seq(DohClient) /\ DOMAIN clients = DOMAIN s.clients
         /\ \A c \in DOMAIN clients : clients[c].h3 => clients[c].closed
<1>1. /\ DohClients(s.client, s.clients) /\ s.clients \in Seq(DohClient) /\ s.client \in Nat
  BY DohFacts
<1>2. DH!H3(s.client) <=> s.client # 0 /\ s.clients[s.client].h3
  BY DEF DH!H3
<1>3. CASE DH!H3(s.client)
  <2>1. PICK c \in DOMAIN s.clients : c = s.client
    BY <1>1, <1>2, <1>3 DEF DohClients
  <2>2. PICK k : k = [s.clients[c] EXCEPT !.closed = TRUE]
    OBVIOUS
  <2>3. s.clients[c] \in DohClient
    BY <1>1
  <2>4. k \in DohClient /\ k.closed
    BY <2>2, <2>3 DEF DohClient
  <2>5. clients = [s.clients EXCEPT ![c] = k]
    BY <1>3, <2>1, <2>2
  <2>6. clients \in Seq(DohClient) /\ DOMAIN clients = DOMAIN s.clients /\ clients[c] = k
        /\ \A d \in DOMAIN clients : d # c => clients[d] = s.clients[d]
    <3>1. s.clients \in Seq(DohClient) /\ c \in DOMAIN s.clients /\ k \in DohClient
      BY <1>1, <2>1, <2>4
    <3>2. /\ [s.clients EXCEPT ![c] = k] \in Seq(DohClient) /\ DOMAIN [s.clients EXCEPT ![c] = k] = DOMAIN s.clients
          /\ [s.clients EXCEPT ![c] = k][c] = k /\ \A d \in DOMAIN s.clients : d # c => [s.clients EXCEPT ![c] = k][d] = s.clients[d]
      BY <3>1, Replaced, Zenon
    <3>3. QED
      BY <2>5, <3>2, Zenon
  <2>7. QED
    BY <1>1, <2>1, <2>4, <2>6 DEF DohClients
<1>4. CASE ~DH!H3(s.client)
  <2>1. clients = s.clients
    BY <1>4
  <2>2. 0 \notin DOMAIN s.clients
    BY <1>1
  <2>3. QED
    BY <1>1, <1>2, <1>4, <2>1, <2>2 DEF DohClients
<1>5. QED
  BY <1>3, <1>4

LEMMA DohResets ==
  ASSUME DohInv, NEW x \in DnsExchanges, NEW works \in BOOLEAN, NEW v \in {"h2", "h3", Nil}, DH!Reset(x, works, v)
  PROVE  DohInv'
<1>1. s.ex[x].pc \in {"again", "reset"} /\ DohUnder(s.ex[x]) /\ v \in DH!Outcomes(works)
  BY Zenon DEF DH!Reset, DH!Ex, DohUnder, DohPcs
<1>2. /\ DohType /\ DohMade /\ DohClean /\ DohClients(s.client, s.clients) /\ s.ex[x] \in DohRequest
      /\ s.clients \in Seq(DohClient) /\ s.client \in Nat
  BY <1>1, DohFacts, DohUnderEx
<1>3. s.ex[x].clean => \A y \in DnsExchanges : y # x => ~DohUnder(s.ex[y])
  BY <1>1, <1>2 DEF DohClean
<1>4. PICK tokens \in {"none", "good", "stale"} : tokens = IF s.ex[x].err = "0rtt" THEN "none" ELSE s.tokens
  BY DohFacts
<1>5. PICK g \in [DnsExchanges -> DohEx], n \in Nat : DohStarted(x, works, tokens, g, n)
  BY <1>1, DohStarts, Zenon
<1>6. /\ DohStart(works, tokens) = [s EXCEPT !.tokens = tokens, !.ex = g, !.faults = n]
      /\ DohBase(g) /\ g[x] \in DohRequest
      /\ works => g = s.ex
      /\ ~works => ~g[x].clean
  BY <1>5 DEF DohStarted
<1>7. /\ g[x].cached = s.ex[x].cached /\ g[x].tries = s.ex[x].tries /\ (g[x].clean => s.ex[x].clean /\ works)
      /\ g[x].pc = s.ex[x].pc
  BY <1>1, <1>6 DEF DohBase
<1>8. PICK f : f = [s EXCEPT !.tokens = tokens, !.ex = g, !.faults = n]
  OBVIOUS
<1>9. f.clients = s.clients /\ f.client = s.client /\ f.ex = g
  BY <1>2, <1>8 DEF DohType
<1>10. PICK closed : closed = IF DH!H3(s.client) THEN [s.clients EXCEPT ![s.client].closed = TRUE] ELSE s.clients
  OBVIOUS
<1>11. /\ closed \in Seq(DohClient) /\ DOMAIN closed = DOMAIN s.clients
       /\ \A c \in DOMAIN closed : closed[c].h3 => closed[c].closed
  BY <1>10, DohCloses
<1>12. PICK h : h = [f EXCEPT !.clients = closed]
  OBVIOUS
<1>13. h = DH!CloseClient(f, x)
  <2>1. f = [f EXCEPT !.clients = s.clients]
    BY <1>2, <1>8 DEF DohType
  <2>2. QED
    BY <1>9, <1>10, <1>12, <2>1 DEF DH!CloseClient
<1>14. PICK c, made : /\ DH!Create(h, v) = [h EXCEPT !.client = c, !.clients = made]
                      /\ c \in Nat /\ made \in Seq(DohClient) /\ DohClients(c, made)
                      /\ DOMAIN s.clients \subseteq DOMAIN made
                      /\ c = 0 => v = Nil
                      /\ c # 0 => c \in DOMAIN made /\ made[c].conn = "none"
  <2>1. CASE v = Nil
    <3>1. DH!Create(h, v) = [h EXCEPT !.client = 0, !.clients = closed]
      BY <1>2, <1>8, <1>12, <2>1 DEF DH!Create, DohType
    <3>2. DohClients(0, closed)
      BY <1>11 DEF DohClients
    <3>3. QED
      BY <1>11, <2>1, <3>1, <3>2, Zenon
  <2>2. CASE v # Nil
    <3>1. PICK made, c : made = Append(closed, [h3 |-> v = "h3", closed |-> FALSE, conn |-> "none"]) /\ c = Len(closed) + 1
      OBVIOUS
    <3>2. v \in {"h2", "h3"}
      BY <2>2
    <3>3. /\ made \in Seq(DohClient) /\ c \in Nat \ {0} /\ c \in DOMAIN made /\ DohClients(c, made)
          /\ made[c].conn = "none" /\ DOMAIN closed \subseteq DOMAIN made
      BY <1>11, <3>1, <3>2, DohCreates
    <3>4. h.clients = closed
      BY <1>2, <1>8, <1>12 DEF DohType
    <3>5. DH!Create(h, v) = [h EXCEPT !.client = c, !.clients = made]
      BY <2>2, <3>1, <3>4 DEF DH!Create
    <3>6. QED
      BY <1>11, <3>3, <3>5, Zenon
  <2>3. QED
    BY <2>1, <2>2, Zenon
<1>15. PICK k : k = [h EXCEPT !.client = c, !.clients = made]
  OBVIOUS
<1>16. k.client = c /\ k.ex = g
  BY <1>2, <1>8, <1>12, <1>15 DEF DohType
<1>17. k = DH!Create(DH!CloseClient(IF works THEN (IF s.ex[x].err = "0rtt" THEN [s EXCEPT !.tokens = "none"] ELSE s)
                                    ELSE DH!Fault(IF s.ex[x].err = "0rtt" THEN [s EXCEPT !.tokens = "none"] ELSE s), x), v)
  <2>1. [s EXCEPT !.tokens = tokens] = IF s.ex[x].err = "0rtt" THEN [s EXCEPT !.tokens = "none"] ELSE s
    BY <1>2, <1>4 DEF DohType
  <2>2. f = IF works THEN (IF s.ex[x].err = "0rtt" THEN [s EXCEPT !.tokens = "none"] ELSE s)
            ELSE DH!Fault(IF s.ex[x].err = "0rtt" THEN [s EXCEPT !.tokens = "none"] ELSE s)
    BY <1>6, <1>8, <2>1 DEF DohStart
  <2>3. QED
    BY <1>13, <1>14, <1>15, <2>2
<1>18. ASSUME NEW e, s' = [[k EXCEPT !.ex = [g EXCEPT ![x] = e]] EXCEPT !.mu = Nil]
       PROVE  DohMoves(x, e, g, c, made, Nil, s.url, tokens, n)
  <2>1. s' = [s EXCEPT !.ex = [g EXCEPT ![x] = e], !.client = c, !.clients = made, !.mu = Nil, !.url = s.url,
                       !.tokens = tokens, !.faults = n]
    BY <1>2, <1>8, <1>12, <1>15, <1>18 DEF DohType
  <2>2. QED
    BY <1>14, <2>1, DohFacts, Zenon DEF DohMoves
<1>19. CASE s.ex[x].pc = "reset" \/ c = 0
  <2>1. PICK e : e = [pc |-> "done", err |-> s.ex[x].err, asked |-> g[x].asked, clean |-> g[x].clean /\ g[x].cached]
    OBVIOUS
  <2>2. e \in DohEx /\ e.pc = "done" /\ (e.clean => g[x].clean /\ g[x].cached)
    BY <1>2, <1>6, <2>1 DEF DohEx, DohRequest
  <2>3. ~e.clean
    <3>1. ASSUME e.clean PROVE FALSE
      <4>1. works /\ DohWay(s.ex[x], s.client, s.clients, s.tokens)
        BY <1>1, <1>7, <2>2, <3>1, DohOnWay
      <4>2. works = TRUE
        BY <4>1
      <4>3. v # Nil
        BY <1>1, <4>2, DohOutcomes, Zenon
      <4>4. QED
        BY <1>14, <1>19, <4>1, <4>3 DEF DohWay
    <3>2. QED
      BY <3>1
  <2>4. s' = [DH!Ended(k, x, s.ex[x].err) EXCEPT !.mu = Nil]
    BY <1>16, <1>17, <1>19, Zenon DEF DH!Reset, DH!At, DH!Ex
  <2>5. DH!Ended(k, x, s.ex[x].err) = [k EXCEPT !.ex = [g EXCEPT ![x] = e]]
    BY <1>16, <2>1 DEF DH!Ended
  <2>6. DohMoves(x, e, g, c, made, Nil, s.url, tokens, n)
    BY <1>18, <2>4, <2>5, Zenon
  <2>7. ~DohUnder(e)
    BY <2>2 DEF DohUnder, DohPcs
  <2>8. QED
    BY <1>1, <1>6, <1>14, <2>2, <2>3, <2>6, <2>7, DohMove
<1>20. CASE s.ex[x].pc # "reset" /\ c # 0
  <2>1. PICK tries \in Nat : tries = s.ex[x].tries + 1
    BY <1>2 DEF DohRequest
  <2>2. PICK e : e = [g[x] EXCEPT !.tries = tries, !.client = c, !.pc = "write"]
    OBVIOUS
  <2>3. e \in DohEx /\ e.pc = "write" /\ e.client = c /\ e.tries = tries /\ e.cached = g[x].cached /\ e.clean = g[x].clean
    BY <1>6, <1>14, <2>1, <2>2, Zenon DEF DohRequest, DohEx, DohPcs
  <2>4. s' = [k EXCEPT !.mu = Nil, !.ex[x].tries = @ + 1, !.ex[x].client = k.client, !.ex[x].pc = "write"]
    BY <1>16, <1>17, <1>20, Zenon DEF DH!Reset, DH!At, DH!Ex
  <2>6. s' = [[k EXCEPT !.ex = [g EXCEPT ![x] = e]] EXCEPT !.mu = Nil]
    <3>1. k.ex[x].tries + 1 = tries
      BY <1>7, <1>16, <2>1
    <3>2. s' = [k EXCEPT !.mu = Nil, !.ex[x].tries = tries, !.ex[x].client = c, !.ex[x].pc = "write"]
      BY <1>16, <2>4, <3>1, Zenon
    <3>3. s' = [[k EXCEPT !.ex = [g EXCEPT ![x] = e]] EXCEPT !.mu = Nil]
      <4>1. k.ex = g /\ g \in [DnsExchanges -> DohEx] /\ k.ex[x] = g[x]
        BY <1>16
      <4>2. s' = [k EXCEPT !.mu = Nil, !.ex = [k.ex EXCEPT ![x] = [k.ex[x] EXCEPT !.tries = tries, !.client = c, !.pc = "write"]]]
        BY <3>2, <4>1
      <4>3. s' = [k EXCEPT !.mu = Nil, !.ex = [g EXCEPT ![x] = e]]
        BY <2>2, <4>1, <4>2
      <4>4. QED
        BY <4>3
    <3>4. QED
      BY <3>3
  <2>8. DohMoves(x, e, g, c, made, Nil, s.url, tokens, n)
    BY <1>18, <2>6, Zenon
  <2>9. e.clean => \A y \in DnsExchanges : y # x => ~DohUnder(s.ex[y])
    BY <1>3, <1>7, <2>3
  <2>10. e.clean /\ e.cached => DohWay(e, c, made, tokens)
    <3>1. ASSUME e.clean, e.cached PROVE DohWay(s.ex[x], s.client, s.clients, s.tokens)
      BY <1>1, <1>7, <2>3, <3>1, DohOnWay
    <3>2. s.ex[x].tries \in Nat /\ s.ex[x].pc = "again"
      BY <1>1, <1>2, <1>20 DEF DohRequest
    <3>3. ASSUME e.clean, e.cached PROVE tries <= 2 /\ (tries = 2 => tokens = "none")
      BY <1>4, <2>1, <3>1, <3>2, <3>3 DEF DohWay
    <3>4. QED
      BY <1>14, <1>20, <2>3, <3>3 DEF DohWay
  <2>11. QED
    BY <1>1, <1>6, <1>14, <1>20, <2>3, <2>8, <2>9, <2>10, DohMove
<1>21. QED
  BY <1>19, <1>20

LEMMA DohStep == ASSUME DohInv, DH!Next PROVE DohInv'
<1>1. ASSUME NEW x \in DnsExchanges, DH!Works(x) PROVE DohInv'
  <2>1. TRUE \in BOOLEAN
    OBVIOUS
  <2>2. CASE \E v \in {"h2", "h3", Nil} : DH!GetClient(x, TRUE, v) \/ DH!Reset(x, TRUE, v)
    BY <2>1, <2>2, DohGets, DohResets, Zenon
  <2>3. CASE ~\E v \in {"h2", "h3", Nil} : DH!GetClient(x, TRUE, v) \/ DH!Reset(x, TRUE, v)
    BY <1>1, <2>3, DohWrites, DohReads, DohSends, DohReplies, DohLocks, DohEnds, Zenon DEF DH!Works
  <2>4. QED
    BY <2>2, <2>3
<1>2. ASSUME NEW x \in DnsExchanges, NEW v \in {"h2", Nil}, DH!GetClient(x, FALSE, v) \/ DH!Reset(x, FALSE, v) PROVE DohInv'
  <2>1. FALSE \in BOOLEAN /\ v \in {"h2", "h3", Nil}
    OBVIOUS
  <2>2. QED
    BY <1>2, <2>1, DohGets, DohResets, Zenon
<1>3. QED
  BY <1>1, <1>2, DohRestarts, DohBegins, DohLoses, Zenon DEF DH!Next

LEMMA DohRight == ASSUME DohInv PROVE DH!NoClientLeft /\ DH!SurvivesRestart
BY DEF DohInv, DohClients, DohClean, DH!NoClientLeft, DH!SurvivesRestart, DH!At, DH!Ex

\* An exchange with a server of encrypted DNS that had restarted before, and
\* that meets no other exchange nor fault, gets its answer within the attempts
\* of ExchangeContext; and no connection but the one of now is left open, for
\* DNS over QUIC as long as exchanges do not overlap.
THEOREM EncryptedDnsKept == RunSpec => []EncryptedDnsRecovers
<1>1. RunInit => (active = "doh" => DohInv) /\ (active = "doq" => QuicInv)
  BY DohInitially, QuicInitially DEF RunInit
<1>2. (active = "doh" => DohInv) /\ (active = "doq" => QuicInv) /\ [RunNext]_<<active, s>>
        => ((active = "doh" => DohInv) /\ (active = "doq" => QuicInv))'
  <2>1. ASSUME active = "doh", DohInv, UNCHANGED <<active, s>> PROVE DohInv'
    BY <2>1 DEF DohInv, DohType, DohClients, DohMade, DohClean, DohWay, DohUnder
  <2>2. ASSUME active = "doq", QuicInv, UNCHANGED <<active, s>> PROVE QuicInv'
    BY <2>2 DEF QuicInv, QuicType, QuicMade, QuicAlone, QuicClean, QuicWay, QuicUnder
  <2>3. QED
    BY <2>1, <2>2, DohStep, QuicStep DEF RunNext
<1>3. (active = "doh" => DohInv) /\ (active = "doq" => QuicInv) => EncryptedDnsRecovers
  BY DohRight, QuicRight DEF EncryptedDnsRecovers
<1>4. QED
  BY <1>1, <1>2, <1>3, PTL DEF RunSpec

=============================================================================
