------------------------------- MODULE Resolver ------------------------------
(***************************************************************************)
(* The DNS resolver: ExchangeContext answers from the cache, also with     *)
(* what is stale, and otherwise joins the flight of its question, which    *)
(* asks batches of servers: those of a policy, or the main ones and after  *)
(* them the fallback ones.  A request may be given up; what it was for     *)
(* goes on in the background.                                              *)
(*                                                                         *)
(* Questions do not touch each other; this is what happens to one, whose   *)
(* kind the first state chooses.                                           *)
(*                                                                         *)
(* A message is [kind, from, obj]: its kind, the batch it came from, and   *)
(* the call whose flight brought it for the message itself, 0 for a copy.  *)
(***************************************************************************)
EXTENDS Integers, Sequences, FiniteSets

CONSTANTS
  Questions,     \* records [type, policy, only]: an "ip" question, an "other" one or
                 \* one whose answers are "unkept"; the servers that a policy names
                 \* for it, and whether a domain filter gives it to the fallback
  Main, Fallback,
  TTLs,          \* of answers
  MaxRequests, MaxNow,
  Nil

RetryMax == 3

Requests == 1..MaxRequests
\* Request r exchanges as call 2r - 1, and in the background as call 2r.
Calls == 1..(2 * MaxRequests)

VARIABLE rs

Batches == {"policy", "main", "fallback"}

\* An answer is an address, or one that a filter refuses (or a message without one).
Kinds == {"good", "filtered"}

\* Messages, what the cache keeps of them, flights, and their results
Messages == [kind : Kinds, from : Batches, obj : Nat]
Entries == [msg : Messages, expires : Nat]
Flights ==
  [owner : Calls, dups : Nat, waiters : SUBSET Calls, batch : Batches,
   asked : SUBSET (Main \cup Fallback \cup UNION {q.policy : q \in Questions}),
   msg : Messages \cup {Nil}, ended : BOOLEAN]
Results == [msg : Messages \cup {Nil}, ret : Int, shared : BOOLEAN]

Init ==
  \E q \in Questions :
  rs = [q |-> q, now |-> 0,
        cache |-> Nil,                             \* what r.lruCache holds for it
        flight |-> Nil,                            \* what r.group holds for it
        request |-> [r \in Requests |-> [pc |-> "new"]],
        call |-> [c \in Calls |-> [pc |-> "new"]]] \* of exchangeWithoutCache

NewCall == [pc |-> "begin", retryNum |-> 0, runs |-> 0, got |-> Nil]

-----------------------------------------------------------------------------
(* ExchangeContext *)

Copy(m) == [m EXCEPT !.obj = 0]

\* A hit is answered at once, a stale one with a time to live of a second and
\* an exchange in the background.
Hit(r) ==
  LET e == rs.cache  stale == e.expires < rs.now IN
  /\ rs.request[r].pc = "new" /\ e # Nil
  /\ rs' = [rs EXCEPT
       !.request[r] = [pc |-> "done", msg |-> Copy(e.msg), stale |-> stale,
                       ttl |-> IF stale THEN 1 ELSE e.expires - rs.now],
       !.call[2 * r] = IF stale THEN NewCall ELSE @]

Miss(r) ==
  /\ rs.request[r].pc = "new" /\ rs.cache = Nil
  /\ rs' = [rs EXCEPT !.request[r] = [pc |-> "wait"],
                      !.call[2 * r - 1] = NewCall]

-----------------------------------------------------------------------------
(* exchangeWithoutCache *)

\* The batches of the servers that a question is for, and which of them are
\* asked first.
FirstBatch ==
  IF rs.q.policy # {} THEN "policy"
  ELSE IF rs.q.type = "ip" /\ Fallback # {} /\ rs.q.only THEN "fallback" ELSE "main"

Servers(b) ==
  CASE b = "policy" -> rs.q.policy [] b = "main" -> Main [] b = "fallback" -> Fallback

\* DoChan: join the flight of the question, or start one with the function of
\* call c.  w is the channel that waits for it, Nil if nobody listens.
DoChan(s, c, w) ==
  LET f == s.flight  ws == IF w = Nil THEN {} ELSE {w} IN
  IF f # Nil THEN [s EXCEPT !.flight.dups = @ + 1, !.flight.waiters = @ \cup ws]
  ELSE [s EXCEPT !.call[c].runs = @ + 1,
                 !.flight = [owner |-> c, dups |-> 0, waiters |-> ws,
                                batch |-> FirstBatch, asked |-> Servers(FirstBatch),
                                msg |-> Nil, ended |-> FALSE]]

Exchange(c) ==
  /\ rs.call[c].pc = "begin"
  /\ rs' = [DoChan(rs, c, c) EXCEPT !.call[c].pc = "wait"]

\* A failed flight that nobody shared is started once more; nobody waits for
\* this one, so it is not repeated.
Retried(s, c, got) ==
  IF got.msg = Nil /\ ~got.shared /\ got.ret < RetryMax THEN DoChan(s, c, Nil) ELSE s

\* An exchange has ended; what r asked for is what it returns.
Ended(s, c, m) ==
  [s EXCEPT !.call[c].pc = "done", !.call[c].got = Nil,
            !.request = IF c % 2 = 0 THEN @
                        ELSE [@ EXCEPT ![(c + 1) \div 2] = [pc |-> "done", msg |-> m,
                                                            stale |-> FALSE, ttl |-> Nil]]]

\* Mutant: a shared answer is not copied.
ReceiveNoCopy(c) ==
  LET got == rs.call[c].got IN
  /\ rs.call[c].pc = "wait" /\ got # Nil
  /\ rs' = Ended(Retried(rs, c, got), c, got.msg)

Receive(c) ==
  LET got == rs.call[c].got IN
  /\ rs.call[c].pc = "wait" /\ got # Nil
  /\ rs' = Ended(Retried(rs, c, got), c, IF got.msg # Nil /\ got.shared THEN Copy(got.msg) ELSE got.msg)

\* ctx is done and nothing has arrived: a monitor takes the channel over, the
\* request fails, and an exchange in the background begins.
GiveUp(c) ==
  LET r == (c + 1) \div 2 IN
  /\ rs.call[c].pc = "wait" /\ rs.call[c].got = Nil
  /\ rs' = IF c % 2 = 0 THEN [rs EXCEPT !.call[c].pc = "monitor"]
           ELSE [rs EXCEPT !.call[c].pc = "monitor", !.call[c + 1] = NewCall,
                           !.request[r] = [pc |-> "late"]]

Monitor(c) ==
  /\ rs.call[c].pc = "monitor" /\ rs.call[c].got # Nil
  /\ rs' = [Retried(rs, c, rs.call[c].got) EXCEPT !.call[c].pc = "done", !.call[c].got = Nil]

-----------------------------------------------------------------------------
(* The flight: batchExchange and the picker, ipExchange, putMsgToCache *)

\* The first server to succeed ends the batch.
Answer(s, kind) ==
  LET f == rs.flight IN
  /\ f # Nil /\ ~f.ended /\ s \in f.asked
  /\ rs' = [rs EXCEPT !.flight.msg = [kind |-> kind, from |-> f.batch, obj |-> f.owner],
                      !.flight.asked = {}]

\* An error, the timeout, or one of the codes that stand for a failure.
Fails(s) ==
  LET f == rs.flight IN
  /\ f # Nil /\ ~f.ended /\ s \in f.asked
  /\ rs' = [rs EXCEPT !.flight.asked = @ \ {s}]

\* ipExchange: what of the main servers is no answer for an address
Refers ==
  LET f == rs.flight IN
  /\ f.batch = "main" /\ rs.q.type = "ip" /\ Fallback # {}
  /\ ~(f.msg # Nil /\ f.msg.kind = "good")

NextBatch ==
  LET f == rs.flight IN
  /\ f # Nil /\ ~f.ended /\ f.asked = {} /\ Refers
  /\ rs' = [rs EXCEPT !.flight.batch = "fallback", !.flight.asked = Fallback,
                      !.flight.msg = Nil]

\* An ACME challenge and a message without records are not kept.
PutMsgToCache(s, m, ttl) ==
  IF rs.q.type = "unkept" THEN s
  ELSE [s EXCEPT !.cache = [msg |-> Copy(m), expires |-> s.now + ttl]]

\* The function returns: an answer is kept, an error is counted.
Ends(ttl) ==
  LET f == rs.flight IN
  /\ f # Nil /\ ~f.ended /\ f.asked = {} /\ ~Refers
  /\ rs' = IF f.msg = Nil
           THEN [rs EXCEPT !.flight.ended = TRUE, !.call[f.owner].retryNum = @ + 1]
           ELSE [PutMsgToCache(rs, f.msg, ttl) EXCEPT !.flight.ended = TRUE]

\* doCall: the question is free again, and every channel gets the result.
Deliver ==
  LET f == rs.flight IN
  /\ f # Nil /\ f.ended
  /\ rs' = [rs EXCEPT
       !.flight = Nil,
       !.call = [c \in Calls |->
         IF c \notin f.waiters THEN @[c]
         ELSE [@[c] EXCEPT !.got = [msg |-> f.msg, ret |-> rs.call[f.owner].retryNum - 1,
                                    shared |-> f.dups > 0]]]]

\* Time passes only where it makes a difference, while the cache holds what is
\* not stale.
Tick ==
  /\ rs.now < MaxNow /\ rs.cache # Nil /\ rs.cache.expires >= rs.now
  /\ rs' = [rs EXCEPT !.now = @ + 1]

\* What the goroutines do by themselves.
Proceeds ==
  \/ \E c \in Calls : Exchange(c) \/ Receive(c) \/ Monitor(c)
  \/ NextBatch \/ (\E t \in TTLs : Ends(t)) \/ Deliver

Asked == Main \cup Fallback \cup rs.q.policy

TimesOut == \E s \in Asked : Fails(s)

Next ==
  \/ Tick
  \/ \E r \in Requests :
       (\A i \in 1..(r - 1) : rs.request[i].pc # "new") /\ (Hit(r) \/ Miss(r))
  \/ \E c \in Calls : GiveUp(c)
  \/ \E s \in Asked, k \in Kinds : Answer(s, k)
  \/ TimesOut
  \/ Proceeds

-----------------------------------------------------------------------------

\* Whoever waits is waited for: its channel is in the flight of its question,
\* or the result is in it.
NobodyStranded ==
  \A c \in Calls : rs.call[c].pc \in {"wait", "monitor"} /\ rs.call[c].got = Nil =>
    rs.flight # Nil /\ c \in rs.flight.waiters

Answered == {r \in Requests : rs.request[r].pc = "done" /\ rs.request[r].msg # Nil}

\* Nobody shares a message with anybody: what one receiver changes (the time to
\* live, the id) no other one sees, neither in the cache.
NoMessageShared ==
  /\ rs.cache # Nil => rs.cache.msg.obj = 0
  /\ \A r1, r2 \in Answered :
       rs.request[r1].msg.obj = rs.request[r2].msg.obj => r1 = r2 \/ rs.request[r1].msg.obj = 0

\* An address that a filter refuses, or none, is not taken from the main
\* servers when there are fallback servers: neither cached nor returned.
FilterIsKept ==
  LET Kept(m) == m.from = "main" => m.kind = "good" IN
  Fallback # {} /\ rs.q.type = "ip" =>
    /\ rs.cache # Nil => Kept(rs.cache.msg)
    /\ \A r \in Answered : Kept(rs.request[r].msg)

\* A call asks its servers at most twice, however often they fail: the limit of
\* three retries is never reached, since nobody waits for the second flight.
AtMostOneRetry == \A c \in Calls : rs.call[c].pc # "new" => rs.call[c].runs <= 2

\* r has no answer yet
Open(r) == rs.request[r].pc = "wait"
\* The background exchange that request r has started is under way.
Refreshing(r) == rs.call[2 * r].pc \in {"begin", "wait"}
=============================================================================
