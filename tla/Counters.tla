------------------------------ MODULE Counters ------------------------------
(***************************************************************************)
(* What is counted beside the connections.                                 *)
(*                                                                         *)
(* The dispatcher of the sniffers: which connections it reads the first    *)
(* bytes of, what it does with a host it finds, and the list that makes it *)
(* skip destinations where it failed too often.                            *)
(***************************************************************************)
EXTENDS Integers, Sequences, FiniteSets

CONSTANTS
  Connections,
  Dests,        \* destinations, as the skip list names them
  MaxSniffs,    \* bound on the connections that are sniffed
  Limit,        \* failures after which a destination is skipped: 5
  Pushers,      \* connections that move bytes
  MaxPushes,    \* bound on how often
  MaxResets     \* bound on the resets

VARIABLE sn

\* A connection gets to the skip list if the dispatcher is asked for its host
\* (none, a forced domain, or one of a DNS mapping) and its port is one that a
\* sniffer listens to.
Inputs ==
  [host : {"none", "forced", "mapped", "other"}, dest : Dests, port : BOOLEAN]

SnifferInit ==
  \E pure \in BOOLEAN, map \in BOOLEAN, override \in BOOLEAN :
    sn = [pure |-> pure, map |-> map, override |-> override,   \* its options
          skip |-> [d \in Dests |-> 0],       \* skipList
          failed |-> [d \in Dests |-> 0],     \* failures since the last success
          sniffs |-> 0,
          conn |-> [c \in Connections |-> [pc |-> "idle"]]]

Asked(in) ==
  \/ in.host = "none" /\ sn.pure
  \/ in.host = "forced"
  \/ in.host = "mapped" /\ sn.map

At(c, pc) == sn.conn[c].pc = pc

\* TCPSniff up to the skip list
TCPSniff(c) ==
  /\ At(c, "idle") /\ sn.sniffs < MaxSniffs
  /\ \E in \in Inputs :
       sn' = [sn EXCEPT !.sniffs = @ + 1,
                        !.conn[c] = [pc |-> IF Asked(in) /\ in.port /\ sn.skip[in.dest] <= Limit
                                            THEN "peek" ELSE "as is",
                                     in |-> in, host |-> in.host, closed |-> FALSE]]

\* cacheSniffFailed, with the lock
CacheSniffFailed(s, d) ==
  [s EXCEPT !.skip[d] = IF @ <= Limit THEN @ + 1 ELSE @]

\* Nothing comes in time: the failure is counted here and again by the caller,
\* and the connection is closed.
PeekFails(c) ==
  LET d == sn.conn[c].in.dest IN
  /\ At(c, "peek")
  /\ sn' = [CacheSniffFailed(CacheSniffFailed(sn, d), d) EXCEPT
              !.failed[d] = @ + 1, !.conn[c].pc = "as is", !.conn[c].closed = TRUE]

\* No sniffer finds a host, or it is an address.
SniffFails(c) ==
  LET d == sn.conn[c].in.dest IN
  /\ At(c, "peek")
  /\ sn' = [CacheSniffFailed(sn, d) EXCEPT !.failed[d] = @ + 1, !.conn[c].pc = "as is"]

\* A host of the skip-domain list is not used, and the list stays as it is.
SkipSNI(c) ==
  /\ At(c, "peek")
  /\ sn' = [sn EXCEPT !.conn[c].pc = "as is"]

\* Mutant: the failures are not forgotten.
SniffedKeeps(c) ==
  LET d == sn.conn[c].in.dest IN
  /\ At(c, "peek")
  /\ sn' = [sn EXCEPT !.failed[d] = 0, !.conn[c].pc = "sniffed",
                      !.conn[c].host = IF sn.override THEN "found" ELSE @]

\* A host is found: the list forgets the destination; replaceDomain.
Sniffed(c) ==
  LET d == sn.conn[c].in.dest IN
  /\ At(c, "peek")
  /\ sn' = [sn EXCEPT !.skip[d] = 0, !.failed[d] = 0, !.conn[c].pc = "sniffed",
                      !.conn[c].host = IF sn.override THEN "found" ELSE @]

\* The handler goes on, and another connection may use its slot.
Done(c) ==
  /\ sn.conn[c].pc \in {"as is", "sniffed"}
  /\ sn' = [sn EXCEPT !.conn[c] = [pc |-> "idle"]]

\* The entry of a destination gets too old.
Expire(d) ==
  /\ sn.skip[d] > 0
  /\ sn' = [sn EXCEPT !.skip[d] = 0]

SnifferNext ==
  \/ \E c \in Connections :
       TCPSniff(c) \/ PeekFails(c) \/ SniffFails(c) \/ SkipSNI(c) \/ Sniffed(c) \/ Done(c)
  \/ \E d \in Dests : Expire(d)

-----------------------------------------------------------------------------

\* A destination is given up only after failures, without a success since, of
\* at least half the limit: each counts once or twice.
SkipIsEarned == \A d \in Dests : sn.skip[d] > Limit => 2 * sn.failed[d] > Limit

-----------------------------------------------------------------------------
(* The traffic manager: connections add what they move to two counters,    *)
(* one by one, while a ticker turns the first of them into the speed of    *)
(* the last second and the user may reset everything.                      *)

VARIABLE st

StatisticInit ==
  st = [temp |-> 0, blip |-> 0, total |-> 0,   \* uploadTemp, uploadBlip, uploadTotal
        pushed |-> 0,              \* bytes moved in all
        shown |-> 0,               \* sum of all speeds that were stored
        resets |-> 0,
        tick |-> "idle", read |-> 0,
        reset |-> "idle",
        pc |-> [p \in Pushers |-> "idle"]]

\* PushUploaded, one byte: two atomic additions
PushTemp(p) ==
  /\ st.pc[p] = "idle" /\ st.pushed < MaxPushes
  /\ st' = [st EXCEPT !.temp = @ + 1, !.pushed = @ + 1, !.pc[p] = "total"]

PushTotal(p) ==
  /\ st.pc[p] = "total"
  /\ st' = [st EXCEPT !.total = @ + 1, !.pc[p] = "idle"]

\* handle: uploadBlip.Store(uploadTemp.Load()), uploadTemp.Store(0)
TickLoad ==
  /\ st.tick = "idle" /\ st.temp + st.blip > 0
  /\ st' = [st EXCEPT !.read = st.temp, !.tick = "store"]

TickStore ==
  /\ st.tick = "store"
  /\ st' = [st EXCEPT !.blip = st.read, !.shown = @ + st.read, !.tick = "clear"]

TickClear ==
  /\ st.tick = "clear"
  /\ st' = [st EXCEPT !.temp = 0, !.read = 0, !.tick = "idle"]

\* ResetStatistic: three stores
Reset(from, to, next) ==
  /\ st.reset = from
  /\ st' = [next EXCEPT !.reset = to]

ResetTemp == st.resets < MaxResets /\ Reset("idle", "blip", [st EXCEPT !.temp = 0, !.resets = @ + 1])
ResetBlip == Reset("blip", "total", [st EXCEPT !.blip = 0])
ResetTotal == Reset("total", "idle", [st EXCEPT !.total = 0])

StatisticNext ==
  \/ \E p \in Pushers : PushTemp(p) \/ PushTotal(p)
  \/ TickLoad \/ TickStore \/ TickClear \/ ResetTemp \/ ResetBlip \/ ResetTotal

-----------------------------------------------------------------------------

\* Bytes that come between the load and the store of the ticker are missing
\* from every speed, but none is shown in two of them.
SpeedNeverOvercounts ==
  st.shown + (IF st.tick = "clear" THEN 0 ELSE st.temp) <= st.pushed

=============================================================================
