---------------------------- MODULE MCCoordination --------------------------
(***************************************************************************)
(* The parts that let goroutines share work and wait for each other, for   *)
(* model checking.  The first state chooses which component a behaviour is *)
(* about; the others are Off.  The parameters of the components that       *)
(* theorems are about are constants.                                       *)
(***************************************************************************)
EXTENDS SingleDo

CONSTANTS
  c1, c2, Off, Nobody, Nil,
  Reporters, MaxFailed, FailInterval, MaxFailClock, MaxReports,
  HealthLists, HealthInterval, HealthConcurrency, HealthWait,
  LogWriters, LogClients, LogBuffer, LogQueue, LogEvents

\* Nobody holds a mutex that is free, and the limits are those of a burst and
\* of a batch.
ASSUME CoordinationAssumption ==
  /\ Nobody \notin Reporters /\ FailInterval \in Nat
  /\ MaxFailed \in Nat /\ MaxFailed > 1 /\ HealthConcurrency \in Nat

TwoCallers == {c1, c2}
TwoLists == <<{1, 2, 3}, {4}>>

VARIABLES
  active,       \* the component that moves
  gf, hc, ls, rs, un

HC == INSTANCE HealthCheck WITH
  Proxy <- HealthLists, Interval <- HealthInterval, Concurrency <- HealthConcurrency, Wait <- HealthWait

LS == INSTANCE LogStream WITH
  Writers <- LogWriters, Clients <- LogClients, Buffer <- LogBuffer, Queue <- LogQueue, MaxEvents <- LogEvents

RS == INSTANCE Resolver WITH
  Questions <- {[type |-> "ip", policy |-> {}, only |-> FALSE], [type |-> "ip", policy |-> {"p"}, only |-> TRUE]},
  Main <- {"m"}, Fallback <- {"f"}, TTLs <- {0}, MaxRequests <- 1, MaxNow <- 1

UN == INSTANCE UdpNat WITH
  Packets <- TwoCallers, Keys <- {"k"}, Dests <- {[asked |-> "s", real |-> "s"]},
  MaxReplies <- 0, MaxFaults <- 1

RunInit ==
  /\ Init
  /\ \/ active = "single" /\ gf = Off /\ hc = Off /\ ls = Off /\ rs = Off /\ un = Off
     \/ active = "failures" /\ HC!FailuresInit /\ hc = Off /\ ls = Off /\ rs = Off /\ un = Off
     \/ active = "check" /\ gf = Off /\ HC!Init /\ ls = Off /\ rs = Off /\ un = Off
     \/ active = "log" /\ gf = Off /\ hc = Off /\ LS!Init /\ rs = Off /\ un = Off
     \/ active = "resolver" /\ gf = Off /\ hc = Off /\ ls = Off /\ RS!Init /\ un = Off
     \/ active = "udp" /\ gf = Off /\ hc = Off /\ ls = Off /\ rs = Off /\ UN!Init

RunNext ==
  /\ UNCHANGED active
  /\ \/ active = "single" /\ Next /\ UNCHANGED <<gf, hc, ls, rs, un>>
     \/ active = "failures" /\ HC!FailuresNext /\ UNCHANGED <<vars, hc, ls, rs, un>>
     \/ active = "check" /\ HC!Next /\ UNCHANGED <<vars, gf, ls, rs, un>>
     \/ active = "log" /\ LS!Next /\ UNCHANGED <<vars, gf, hc, rs, un>>
     \/ active = "resolver" /\ RS!Next /\ UNCHANGED <<vars, gf, hc, ls, un>>
     \/ active = "udp" /\ UN!Next /\ UNCHANGED <<vars, gf, hc, ls, rs>>

RunSpec ==
  /\ RunInit /\ [][RunNext]_<<active, vars, gf, hc, ls, rs, un>>
  \* Callers inside Do are scheduled and fn returns.
  /\ \A c \in Callers : WF_vars(active = "single" /\ Inside(c))
  \* Goroutines run, health checks end, and Go's mutex starves nobody.
  /\ \A c \in Reporters : /\ WF_gf(active = "failures" /\ HC!Works(c))
                          /\ SF_gf(active = "failures" /\ HC!Lock(c))
  \* Time passes, the loop takes its ticks, and tests end by their timeout.
  /\ WF_hc(active = "check" /\ HC!Second)
  /\ WF_hc(active = "check" /\ HC!Process) /\ WF_hc(active = "check" /\ HC!Batch)
  \* The process of the log and the draining goroutines run; clients need not.
  /\ WF_ls(active = "log" /\ LS!ProcessRuns) /\ \A w \in LogWriters : WF_ls(active = "log" /\ LS!Receive(w))
  /\ \A c \in LogClients : WF_ls(active = "log" /\ LS!Drain(c))
  \* The goroutines of an exchange run, and servers answer or time out.
  /\ WF_rs(active = "resolver" /\ RS!Proceeds) /\ WF_rs(active = "resolver" /\ RS!TimesOut)
  \* The goroutine of each packet runs, and dials end by their timeout.
  /\ \A p \in TwoCallers : WF_un(active = "udp" /\ UN!PacketSteps(p))

-----------------------------------------------------------------------------
(* The properties of the components *)

\* Health checks: one that the failure counter of a group starts was preceded by
\* enough failures within the interval, and every such burst is followed by one;
\* a batch never tests more proxies at a time than its limit, and a check ends
\* only after every proxy of its list was tested.
ChecksAreRight ==
  /\ active = "failures" => HC!CheckMeansBurst /\ HC!NoBurstForgotten
  /\ active = "check" => HC!TestsAreBounded /\ HC!CheckIsComplete

\* Nothing is sent to a log subscriber that has left, and a reader of the log
\* gets events in order, and none twice.
LogIsRight == active = "log" => LS!NoSendOnClosed /\ LS!LogsInOrder

\* A list that came into use is tested sooner or later, though the check that
\* its update asks for may be answered by one that began before: unless the
\* provider is lazy, closed, or has the next list by then.
NewListTested == active = "check" /\ HC!Untested ~> active = "check" /\ ~HC!Untested

\* Every goroutine that reports a failed dial ends.
ReportersEnd ==
  \A g \in Reporters :
    active = "failures" /\ ~HC!At(g, "idle") ~> active = "failures" /\ HC!At(g, "idle")
\* A log call returns, whatever the clients of /logs do.
LogCallsReturn ==
  \A w \in LogWriters : active = "log" /\ LS!Waiting(w) ~> active = "log" /\ ~LS!Waiting(w)
\* Every DNS request that was made gets an answer or an error.
RequestsAnswered ==
  \A r \in 1..1 : active = "resolver" /\ RS!Open(r) ~> active = "resolver" /\ ~RS!Open(r)
\* A refresh in the background ends, so that the next one can begin.
RefreshEnds ==
  \A r \in 1..1 : active = "resolver" /\ RS!Refreshing(r) ~> active = "resolver" /\ ~RS!Refreshing(r)
\* Every UDP packet is sent or dropped; none waits for a dial for ever.
PacketsEnd == \A p \in TwoCallers : active = "udp" ~> active = "udp" /\ UN!Ended(p)

\* Nobody who waits for another goroutine waits for ever: neither a caller of
\* Do, nor a failed dial that is reported, a log call, a DNS request, a refresh
\* of the cache, or a packet behind the dial of its session.
NobodyWaitsForEver ==
  /\ DoReturns /\ ReportersEnd /\ LogCallsReturn
  /\ RequestsAnswered /\ RefreshEnds /\ PacketsEnd
=============================================================================
