----------------------------- MODULE HealthCheck ----------------------------
(***************************************************************************)
(* The health check of a provider: a loop that checks at every tick unless *)
(* nobody uses the provider, checks that an update or a group asks for,    *)
(* and the single execution (module SingleDo, here by what it promises)    *)
(* that lets a check which comes during another one, or within a second of *)
(* its start, be answered by that one.  A check tests the list it found    *)
(* when it began, in a batch of limited concurrency.                       *)
(*                                                                         *)
(* Times are ages that stop at the value from which they no longer matter. *)
(*                                                                         *)
(* Below it the failure counter of a group: maxFailedTimes failed dials    *)
(* within its interval, or one refused connection, start such a check of   *)
(* all the providers of the group.                                         *)
(***************************************************************************)
EXTENDS Integers, Sequences, FiniteSets

CONSTANTS
  Proxy,        \* the lists the provider gets one after the other: Proxy[1], ...
  Interval,     \* hc.interval, in seconds; auto() if it is not 0
  Concurrency,  \* of the batch, 10 in the code
  Wait,         \* of singleDo, a second
  Reporters,    \* goroutines that onDialFailed starts
  MaxFailed,    \* maxFailedTimes(), 5 in the code
  FailInterval, \* failedTimeoutInterval()
  MaxFailClock, \* bound on the clock of the counter
  MaxReports,   \* bound on the failed dials
  Nobody        \* of the mutex

VARIABLE hc

Init ==
  \E lazy \in BOOLEAN :
    hc = [lazy |-> lazy, list |-> 1, tick |-> 0,
          touched |-> Interval,           \* age of lastTouch
          age |-> Wait,                   \* of the start of the last finished check
          began |-> 0,                    \* age of the start of the check that runs
          check |-> "idle",
          busy |-> FALSE,                 \* the loop waits for the check
          todo |-> {}, running |-> {}, done |-> {},   \* of the batch
          of |-> 1,                       \* the list the check found
          tested |-> {},                  \* lists that were tested as a whole
          asked |-> FALSE,                \* an update has asked for a check
          closed |-> FALSE]

AtMost(n, m) == IF n < m THEN n ELSE m

\* A second passes; a tick waits in its channel while the loop is busy.
Second ==
  hc' = [hc EXCEPT !.tick = AtMost(@ + 1, Interval), !.touched = AtMost(@ + 1, Interval),
                   !.age = AtMost(@ + 1, Wait), !.began = AtMost(@ + 1, Wait)]

Touch == hc.touched # 0 /\ hc' = [hc EXCEPT !.touched = 0]

-----------------------------------------------------------------------------
(* check() *)

\* singleDo: one runs or a recent one is there; the call does nothing itself.
Shared(h) == h.check # "idle" \/ h.age < Wait

\* It is for this call to run the check: the list is read once.
Begin(h) == [h EXCEPT !.check = "run", !.began = 0, !.of = h.list, !.todo = Proxy[h.list],
                      !.done = {}]

Check(h) == IF Shared(h) THEN h ELSE Begin(h)

\* Mutant: every provider is lazy.
ProcessLazy ==
  /\ Interval # 0 /\ hc.tick = Interval /\ ~hc.closed /\ ~hc.busy
  /\ hc.touched < Interval
  /\ LET h == Check([hc EXCEPT !.tick = 0]) IN hc' = [h EXCEPT !.busy = h.check = "run"]

\* The ticker: the loop checks, and waits for the check that answers it.
Process ==
  /\ Interval # 0 /\ hc.tick = Interval /\ ~hc.closed /\ ~hc.busy
  /\ ~hc.lazy \/ hc.touched < Interval
  /\ LET h == Check([hc EXCEPT !.tick = 0]) IN hc' = [h EXCEPT !.busy = h.check = "run"]

\* A lazy provider that was not used for an interval is skipped.
Skip ==
  /\ Interval # 0 /\ hc.tick = Interval /\ ~hc.closed /\ ~hc.busy
  /\ hc.lazy /\ hc.touched >= Interval
  /\ hc' = [hc EXCEPT !.tick = 0]

\* close(), by the finalizer of the provider
Close == ~hc.closed /\ hc' = [hc EXCEPT !.closed = TRUE]

\* setProxies: another list, and a check in a goroutine of its own if auto()
SetProxies ==
  /\ hc.list + 1 \in DOMAIN Proxy
  /\ hc' = [hc EXCEPT !.list = @ + 1, !.asked = Interval # 0]

CheckAsked == hc.asked /\ hc' = Check([hc EXCEPT !.asked = FALSE])

\* HealthCheck(), from a group or from the REST API
HealthCheckCalled == ~Shared(hc) /\ hc' = Begin(hc)

-----------------------------------------------------------------------------
(* The batch *)

BatchGo(p) ==
  /\ p \in hc.todo /\ Cardinality(hc.running) < Concurrency
  /\ hc' = [hc EXCEPT !.todo = @ \ {p}, !.running = @ \cup {p}]

\* URLTest returns, in time or by its timeout; the token goes back, then Done.
BatchDone(p) ==
  /\ p \in hc.running
  /\ hc' = [hc EXCEPT !.running = @ \ {p}, !.done = @ \cup {p}]

\* Mutant: Wait returns when all tests have begun.
BatchWaitEarly ==
  /\ hc.check = "run" /\ hc.todo = {}
  /\ hc' = [hc EXCEPT !.check = "idle", !.age = hc.began, !.running = {},
                      !.busy = FALSE, !.tested = @ \cup {hc.of}]

\* Wait returns; singleDo dates the result by the start.
BatchWait ==
  /\ hc.check = "run" /\ hc.todo = {} /\ hc.running = {}
  /\ hc' = [hc EXCEPT !.check = "idle", !.age = hc.began, !.busy = FALSE,
                      !.tested = @ \cup {hc.of}]

Batch == BatchWait \/ \E p \in UNION {Proxy[v] : v \in DOMAIN Proxy} : BatchGo(p) \/ BatchDone(p)

Next ==
  \/ Second \/ Touch \/ Process \/ Skip \/ Close
  \/ SetProxies \/ CheckAsked \/ HealthCheckCalled \/ Batch

-----------------------------------------------------------------------------

\* No more than Concurrency proxies are tested at a time, by one check.
TestsAreBounded == Cardinality(hc.running) <= Concurrency

\* A check ends only after every proxy of the list it found was tested.
CheckIsComplete == hc.check = "idle" /\ hc.tested # {} => hc.done = Proxy[hc.of]

\* The list in use has not been tested as a whole since it came into use.
Untested == Interval # 0 /\ ~hc.lazy /\ ~hc.closed /\ hc.list \notin hc.tested

-----------------------------------------------------------------------------
(* The failure counter of a group.  Failures are counted under             *)
(* failedTestMux; the flag of a running check and the resets of the        *)
(* counter take no lock, and `++` is a read and a write.                   *)

VARIABLE gf     \* the counter and its goroutines

FailuresInit ==
  gf = [times |-> 0, since |-> -FailInterval - 1,   \* failedTimes, failedTime (long ago)
        testing |-> FALSE,                      \* failedTesting
        mux |-> Nobody, clock |-> 0, reports |-> 0,
        success |-> FALSE,                      \* onDialSuccess is about to reset
        counted |-> << >>,                      \* when each failure was counted
        decided |-> 0,                          \* when the last counted check was decided
        pc |-> [g \in Reporters |-> "idle"],
        reg |-> [g \in Reporters |-> 0]]

At(g, pc) == gf.pc[g] = pc

-----------------------------------------------------------------------------
(* onDialFailed *)

\* A refused connection asks for a check at once, another failure is counted.
\* (Failures of the built-in proxies are not reported at all.)
OnDialFailed(g) ==
  /\ At(g, "idle") /\ gf.reports < MaxReports
  /\ \E pc \in {"check", "lock"} :
       gf' = [gf EXCEPT !.pc[g] = pc, !.reports = @ + 1]

Lock(g) ==
  /\ At(g, "lock") /\ gf.mux = Nobody
  /\ gf' = [gf EXCEPT !.pc[g] = "read", !.mux = g]

\* gb.failedTimes++
ReadTimes(g) ==
  /\ At(g, "read")
  /\ gf' = [gf EXCEPT !.pc[g] = "write", !.reg[g] = gf.times]
WriteTimes(g) ==
  /\ At(g, "write")
  /\ gf' = [gf EXCEPT !.pc[g] = "decide", !.times = gf.reg[g] + 1, !.reg[g] = 0]

Counted == Append(gf.counted, gf.clock)

\* The first failure opens the interval; one after the interval resets the
\* counter, and is not counted itself.
Decide(g) ==
  /\ At(g, "decide")
  /\ LET late == gf.clock - gf.since > FailInterval IN
     \/ /\ gf.times = 1
        /\ gf' = [gf EXCEPT !.since = gf.clock, !.pc[g] = "end", !.counted = Counted]
     \/ /\ gf.times # 1 /\ late
        /\ gf' = [gf EXCEPT !.times = 0, !.pc[g] = "end", !.counted = Counted]
     \/ /\ gf.times # 1 /\ ~late /\ gf.times >= MaxFailed
        /\ gf' = [gf EXCEPT !.pc[g] = "check", !.decided = gf.clock, !.counted = Counted]
     \/ /\ gf.times # 1 /\ ~late /\ gf.times < MaxFailed
        /\ gf' = [gf EXCEPT !.pc[g] = "end", !.counted = Counted]

\* The goroutine ends; the deferred Unlock if it counted.
End(g) ==
  /\ At(g, "end")
  /\ gf' = [gf EXCEPT !.pc[g] = "idle", !.mux = IF @ = g THEN Nobody ELSE @]

-----------------------------------------------------------------------------
(* healthCheck *)

LoadTesting(g) ==
  /\ At(g, "check")
  /\ gf' = [gf EXCEPT !.pc[g] = IF gf.testing THEN "end" ELSE "mark"]

SetTesting(g) ==
  /\ At(g, "mark")
  /\ gf' = [gf EXCEPT !.pc[g] = "run", !.testing = TRUE]

\* Every provider's HealthCheck has returned.
Checked(g) == At(g, "run") /\ gf' = [gf EXCEPT !.pc[g] = "clear"]

ClearTesting(g) ==
  /\ At(g, "clear")
  /\ gf' = [gf EXCEPT !.pc[g] = "zero", !.testing = FALSE]

ResetTimes(g) ==
  /\ At(g, "zero")
  /\ gf' = [gf EXCEPT !.pc[g] = "end", !.times = 0]

-----------------------------------------------------------------------------

\* onDialSuccess: load the flag, then reset
OnDialSuccess == ~gf.testing /\ ~gf.success /\ gf' = [gf EXCEPT !.success = TRUE]
SuccessResets == gf.success /\ gf' = [gf EXCEPT !.success = FALSE, !.times = 0]

Tick == gf.clock < MaxFailClock /\ gf' = [gf EXCEPT !.clock = @ + 1]

Works(g) ==
  \/ ReadTimes(g) \/ WriteTimes(g) \/ Decide(g) \/ End(g) \/ LoadTesting(g)
  \/ SetTesting(g) \/ Checked(g) \/ ClearTesting(g) \/ ResetTimes(g)

FailuresNext ==
  \/ OnDialSuccess \/ SuccessResets \/ Tick
  \/ \E g \in Reporters : OnDialFailed(g) \/ Lock(g) \/ Works(g)

-----------------------------------------------------------------------------

\* A check that the counter starts was preceded by MaxFailed failures within
\* the interval, whatever resets were lost between the read and the write.
CheckMeansBurst ==
  \A g \in Reporters : At(g, "check") /\ gf.mux = g =>
    Cardinality({i \in DOMAIN gf.counted : gf.counted[i] >= gf.decided - FailInterval}) >= MaxFailed

\* No burst is forgotten: when nothing is under way the counter is below the
\* limit, because each burst was followed by a check, its own or one that was
\* running; checks that overlap clear the flag and the counter of each other.
NoBurstForgotten ==
  (\A g \in Reporters : At(g, "idle")) => gf.times < MaxFailed /\ ~gf.testing
=============================================================================
