------------------------------ MODULE SingleDo ------------------------------
(***************************************************************************)
(* common/singledo: Do(fn) runs fn at most once at a time and shares the   *)
(* result with the callers that come meanwhile, and with those that come   *)
(* within `wait` of the start of the run.  Health checks, the url-test     *)
(* group and the interface table go through it.                            *)
(*                                                                         *)
(* A run of fn is known by its number, which stands for the value that it  *)
(* returns.  A critical section of s.mux is one step; what the code does   *)
(* after the unlock is another.                                            *)
(***************************************************************************)
EXTENDS Integers

CONSTANTS
  Callers,      \* goroutines that call Do
  Wait,         \* s.wait
  MaxClock,     \* bound on the clock
  MaxRuns,      \* bound on the number of runs of fn
  Zero          \* the zero time.Time

ASSUME SingleDoAssumption ==
  /\ Wait \in Nat
  /\ MaxClock \in Nat
  /\ MaxRuns \in Nat
  /\ Zero \notin Int

VARIABLES
  clock,        \* time.Now()
  last,         \* s.last
  call,         \* s.call: the run it stands for, 0 for nil
  done,         \* runs whose WaitGroup is released
  result,       \* s.result: the run it holds, 0 for nil
  pc,           \* where each caller is
  run,          \* the run it leads or waits for
  now,          \* its `now`
  returned,     \* the run its last Do returned, 0 before the first
  runs,         \* how many runs were started
  startOf,      \* when each of them was started
  met,          \* the run that was in progress when it entered Do
  atReset,      \* the run that s.result held when Reset was last called
  resetSeen     \* atReset when it entered Do

singleVars == <<last, call, done, result>>
callerVars == <<pc, run, now, returned, met, resetSeen>>
vars == <<singleVars, callerVars, clock, runs, startOf, atReset>>

Init ==
  /\ clock = 0
  /\ last = Zero /\ call = 0 /\ done = {} /\ result = 0
  /\ pc = [c \in Callers |-> "idle"]
  /\ run = [c \in Callers |-> 0]
  /\ now = [c \in Callers |-> 0]
  /\ returned = [c \in Callers |-> 0]
  /\ met = [c \in Callers |-> 0]
  /\ runs = 0 /\ startOf = << >>
  /\ atReset = 0
  /\ resetSeen = [c \in Callers |-> atReset]

-----------------------------------------------------------------------------

\* now.Before(s.last.Add(s.wait)); the zero time is long ago.
Cached == last # Zero /\ clock < last + Wait

\* What every call does first.
Enter(c) ==
  /\ pc[c] = "idle"
  /\ now' = [now EXCEPT ![c] = clock]
  /\ met' = [met EXCEPT ![c] = call]
  /\ resetSeen' = [resetSeen EXCEPT ![c] = atReset]
  /\ UNCHANGED <<clock, returned, atReset, last, done, result>>

\* The result is recent: unlock, then read it.
Share(c) ==
  /\ Enter(c) /\ Cached
  /\ pc' = [pc EXCEPT ![c] = "cached"]
  /\ run' = [run EXCEPT ![c] = 0]
  /\ UNCHANGED <<call, runs, startOf>>

\* Another caller runs fn: unlock, then wait for its WaitGroup.
Join(c) ==
  /\ Enter(c) /\ ~Cached /\ call # 0
  /\ run' = [run EXCEPT ![c] = call]
  /\ pc' = [pc EXCEPT ![c] = "wait"]
  /\ UNCHANGED <<call, runs, startOf>>

\* It is for this caller to run fn.
Lead(c) ==
  /\ Enter(c) /\ ~Cached /\ call = 0 /\ runs < MaxRuns
  /\ runs' = runs + 1
  /\ startOf' = [r \in 1..runs + 1 |-> IF r = runs + 1 THEN clock ELSE startOf[r]]
  /\ call' = runs + 1
  /\ run' = [run EXCEPT ![c] = runs + 1]
  /\ pc' = [pc EXCEPT ![c] = "run"]

Returns(c, r) ==
  /\ returned' = [returned EXCEPT ![c] = r]
  /\ pc' = [pc EXCEPT ![c] = "idle"]

\* `return s.result.Val, s.result.Err, true`, read without the lock
ReadResult(c) ==
  /\ pc[c] = "cached"
  /\ Returns(c, result)
  /\ UNCHANGED <<singleVars, run, now, met, resetSeen, clock, runs, startOf, atReset>>

\* `callM.wg.Wait(); return callM.val, callM.err, true`
Wake(c) ==
  /\ pc[c] = "wait" /\ run[c] \in done
  /\ Returns(c, run[c])
  /\ UNCHANGED <<singleVars, run, now, met, resetSeen, clock, runs, startOf, atReset>>

\* `callM.val, callM.err = fn(); callM.wg.Done()`
FnReturns(c) ==
  /\ pc[c] = "run"
  /\ done' = done \cup {run[c]}
  /\ pc' = [pc EXCEPT ![c] = "publish"]
  /\ UNCHANGED <<last, call, result, run, now, returned, met, resetSeen, clock, runs,
                 startOf, atReset>>

\* Mutant: the result is dated by the end of the run.
PublishAtEnd(c) ==
  /\ pc[c] = "publish"
  /\ call' = 0 /\ result' = run[c] /\ last' = clock
  /\ Returns(c, run[c])
  /\ UNCHANGED <<done, run, now, met, resetSeen, clock, runs, startOf, atReset>>

\* `s.call = nil; s.result = ...; s.last = now` under the lock
Publish(c) ==
  /\ pc[c] = "publish"
  /\ call' = 0 /\ result' = run[c] /\ last' = now[c]
  /\ Returns(c, run[c])
  /\ UNCHANGED <<done, run, now, met, resetSeen, clock, runs, startOf, atReset>>

Caller(c) ==
  Share(c) \/ Join(c) \/ Lead(c) \/ ReadResult(c) \/ Wake(c) \/ FnReturns(c) \/ Publish(c)

\* Reset, which takes no lock
Reset ==
  /\ last' = Zero
  /\ atReset' = result
  /\ UNCHANGED <<call, done, result, callerVars, clock, runs, startOf>>

Tick ==
  /\ clock < MaxClock
  /\ clock' = clock + 1
  /\ UNCHANGED <<singleVars, callerVars, runs, startOf, atReset>>

Next == Reset \/ Tick \/ \E c \in Callers : Caller(c)

Spec == Init /\ [][Next]_vars

(***************************************************************************)
(* The scheduler runs every caller that is inside Do, and fn returns: the  *)
(* functions given to Do are bounded by timeouts or touch only memory.     *)
(***************************************************************************)
Inside(c) == ReadResult(c) \/ Wake(c) \/ FnReturns(c) \/ Publish(c)
FairSpec == Spec /\ \A c \in Callers : WF_vars(Inside(c))

-----------------------------------------------------------------------------

TypeOK ==
  /\ clock \in Nat
  /\ last \in Nat \cup {Zero}
  /\ call \in 0..runs
  /\ done \subseteq 1..runs
  /\ result \in 0..runs
  /\ pc \in [Callers -> {"idle", "cached", "wait", "run", "publish"}]
  /\ run \in [Callers -> 0..runs]
  /\ now \in [Callers -> Nat]
  /\ returned \in [Callers -> 0..runs]
  /\ met \in [Callers -> 0..runs]
  /\ runs \in Nat
  /\ startOf \in [1..runs -> Nat]
  /\ atReset \in 0..runs
  /\ resetSeen \in [Callers -> 0..runs]

\* fn is never run by two callers at a time, and never while the result of a
\* run is still to be published.
OneRunAtATime ==
  \A c, d \in Callers :
    pc[c] \in {"run", "publish"} /\ pc[d] \in {"run", "publish"} => c = d

\* A caller that was answered got a result, never the nil s.result it reads
\* after the unlock; and it is a fresh one: of a run that started less than
\* `wait` before the call, or of the run that was in progress when it called.
ResultIsFresh ==
  \A c \in Callers : pc[c] = "idle" /\ returned[c] # 0 =>
    startOf[returned[c]] + Wait > now[c] \/ returned[c] \in {met[c], run[c]}

\* The cached path never dereferences a nil result, though it reads the
\* pointer after it has released the lock.
CachedIsThere == \A c \in Callers : pc[c] = "cached" => result # 0

\* A call made after Reset returns no result that was published before it,
\* whatever was running at the time.  A run that was in progress at the Reset
\* is not forgotten: it publishes its result, and s.last with it, later.
ResetForgetsPublished ==
  \A c \in Callers : pc[c] = "idle" /\ returned[c] # 0 =>
    returned[c] > resetSeen[c]

\* Every call of Do returns.
DoReturns == \A c \in Callers : pc[c] # "idle" ~> pc[c] = "idle"

\* What a caller of Do may rely on: fn is run by one at a time, the answer is
\* there, and as fresh as the wait and the last Reset ask for.
AnswersAreRight == OneRunAtATime /\ ResultIsFresh /\ CachedIsThere /\ ResetForgetsPublished
=============================================================================
