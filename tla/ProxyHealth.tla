---------------------------- MODULE ProxyHealth ----------------------------
(***************************************************************************)
(* The health of one proxy, adapter.Proxy: URLTest runs in any number of   *)
(* goroutines (health checks, groups, the REST API) and ends by storing    *)
(* `alive` and recording a delay in a short queue; LastDelay reads both    *)
(* to rank the proxy.  alive is an atomic and every operation of the queue *)
(* takes a lock of its own, so the steps of two calls interleave; Pop and  *)
(* Last look at the length before they take the lock.                      *)
(***************************************************************************)
EXTENDS Integers, Sequences, FiniteSets

CONSTANTS
  Testers,      \* goroutines that call URLTest
  Readers,      \* goroutines that call LastDelay
  Cap,          \* records kept, 10 in the code
  Elapsed,      \* milliseconds a request may take
  MaxTests      \* bound on the number of tests

ASSUME ProxyHealthAssumption ==
  /\ IsFiniteSet(Testers)
  /\ Cap \in Nat \ {0}
  /\ Elapsed \subseteq Nat
  /\ MaxTests \in Nat

VARIABLES
  alive,        \* p.alive
  items,        \* p.history, a queue of delays
  testPc,       \* where each tester is
  outcome,      \* what its URLTest is about to return
  readPc,       \* where each reader is
  result,       \* what its last LastDelay returned, MaxDelay before
  tests,        \* how many tests were started
  measured      \* delays that a successful test returned

testVars == <<alive, testPc, outcome, tests, measured>>
readVars == <<readPc, result>>
vars == <<testVars, readVars, items>>

-----------------------------------------------------------------------------

\* The value of LastDelay for a proxy that has none.
MaxDelay == 65535

Uint16(ms) == ms % 65536

\* What the network does to one test.
Environments ==
  [reached : BOOLEAN,       \* URL parsed, proxy dialled, response received
   readErr : BOOLEAN,       \* reading the body failed
   forbidden : BOOLEAN,     \* status 403
   warp : BOOLEAN,          \* the body says warp=on or warp=plus
   unified : BOOLEAN,       \* UnifiedDelay
   second : {"ok", "error", "forbidden"},   \* the second request, if unified
   ms : Elapsed, ms2 : Elapsed]

\* What URLTest returns.  A 403 and a body without warp return no error unless
\* reading the body failed; a failed second request keeps the first start.
URLTestResult(e) ==
  IF ~e.reached THEN [err |-> TRUE, t |-> 0]
  ELSE IF e.forbidden \/ ~e.warp THEN [err |-> e.readErr, t |-> 0]
  ELSE IF ~e.unified THEN [err |-> e.readErr, t |-> Uint16(e.ms)]
  ELSE IF e.second = "error" THEN [err |-> TRUE, t |-> Uint16(e.ms)]
  ELSE IF e.second = "forbidden" THEN [err |-> FALSE, t |-> 0]
  ELSE [err |-> FALSE, t |-> Uint16(e.ms2)]

\* What a test can end with.
Outcomes == {URLTestResult(e) : e \in Environments}

\* Mutant: the delay is recorded whether the test failed or not.
RecordAlways(o) == o.t

\* `if err == nil { record.Delay = t }`
Record(o) == IF o.err THEN 0 ELSE o.t

\* NewProxy
Init ==
  /\ alive = TRUE
  /\ items = << >>
  /\ testPc = [t \in Testers |-> "idle"]
  /\ outcome = [t \in Testers |-> [err |-> TRUE, t |-> 0]]
  /\ readPc = [r \in Readers |-> "idle"]
  /\ result = [r \in Readers |-> MaxDelay]
  /\ tests = 0
  /\ measured = {}

-----------------------------------------------------------------------------
(* URLTest *)

\* The test itself; it touches nothing the goroutines share.
Test(t) ==
  /\ testPc[t] = "idle" /\ tests < MaxTests
  /\ \E o \in Outcomes :
       /\ outcome' = [outcome EXCEPT ![t] = o]
       /\ measured' = IF o.err THEN measured ELSE measured \cup {o.t}
  /\ testPc' = [testPc EXCEPT ![t] = "store"]
  /\ tests' = tests + 1
  /\ UNCHANGED <<alive, items, readVars>>

\* p.alive.Store(err == nil)
StoreAlive(t) ==
  /\ testPc[t] = "store"
  /\ alive' = ~outcome[t].err
  /\ testPc' = [testPc EXCEPT ![t] = "put"]
  /\ UNCHANGED <<items, outcome, tests, measured, readVars>>

\* p.history.Put(record)
Put(t) ==
  /\ testPc[t] = "put"
  /\ items' = Append(items, Record(outcome[t]))
  /\ testPc' = [testPc EXCEPT ![t] = "len"]
  /\ UNCHANGED <<alive, outcome, tests, measured, readVars>>

\* `if p.history.Len() > 10`
CheckLen(t) ==
  /\ testPc[t] = "len"
  /\ testPc' = [testPc EXCEPT ![t] = IF Len(items) > Cap THEN "pop" ELSE "idle"]
  /\ UNCHANGED <<alive, items, outcome, tests, measured, readVars>>

\* Pop looks at the length before it takes the lock.
PopPeek(t) ==
  /\ testPc[t] = "pop"
  /\ testPc' = [testPc EXCEPT ![t] = IF items = << >> THEN "idle" ELSE "take"]
  /\ UNCHANGED <<alive, items, outcome, tests, measured, readVars>>

\* Mutant: Pop drops two records.
PopTakeTwo(t) ==
  /\ testPc[t] = "take"
  /\ IF Len(items) < 2
     THEN testPc' = [testPc EXCEPT ![t] = "panic"] /\ UNCHANGED items
     ELSE testPc' = [testPc EXCEPT ![t] = "idle"] /\ items' = Tail(Tail(items))
  /\ UNCHANGED <<alive, outcome, tests, measured, readVars>>

\* `q.items[0]; q.items = q.items[1:]` under the lock: panics on an empty queue.
PopTake(t) ==
  /\ testPc[t] = "take"
  /\ IF items = << >>
     THEN testPc' = [testPc EXCEPT ![t] = "panic"] /\ UNCHANGED items
     ELSE testPc' = [testPc EXCEPT ![t] = "idle"] /\ items' = Tail(items)
  /\ UNCHANGED <<alive, outcome, tests, measured, readVars>>

Tester(t) ==
  Test(t) \/ StoreAlive(t) \/ Put(t) \/ CheckLen(t) \/ PopPeek(t) \/ PopTake(t)

-----------------------------------------------------------------------------
(* LastDelay *)

Returns(r, d) ==
  /\ readPc' = [readPc EXCEPT ![r] = "idle"]
  /\ result' = [result EXCEPT ![r] = IF d = 0 THEN MaxDelay ELSE d]

\* `if !p.alive.Load() { return max }`
LoadAlive(r) ==
  /\ readPc[r] = "idle"
  /\ IF alive
     THEN /\ readPc' = [readPc EXCEPT ![r] = "last"]
          /\ result' = [result EXCEPT ![r] = MaxDelay]
     ELSE Returns(r, 0)
  /\ UNCHANGED <<testVars, items>>

\* Last looks at the length before it takes the lock; an empty queue gives the
\* zero record.
LastPeek(r) ==
  /\ readPc[r] = "last"
  /\ IF items = << >>
     THEN Returns(r, 0)
     ELSE readPc' = [readPc EXCEPT ![r] = "read"] /\ UNCHANGED result
  /\ UNCHANGED <<testVars, items>>

\* `q.items[len(q.items)-1]` under the lock: panics on an empty queue.
LastRead(r) ==
  /\ readPc[r] = "read"
  /\ IF items = << >>
     THEN readPc' = [readPc EXCEPT ![r] = "panic"] /\ UNCHANGED result
     ELSE Returns(r, items[Len(items)])
  /\ UNCHANGED <<testVars, items>>

Reader(r) == LoadAlive(r) \/ LastPeek(r) \/ LastRead(r)

-----------------------------------------------------------------------------

Next ==
  \/ \E t \in Testers : Tester(t)
  \/ \E r \in Readers : Reader(r)

Spec == Init /\ [][Next]_vars

-----------------------------------------------------------------------------

TypeOK ==
  /\ alive \in BOOLEAN
  /\ items \in Seq(0..MaxDelay)
  /\ testPc \in [Testers -> {"idle", "store", "put", "len", "pop", "take", "panic"}]
  /\ outcome \in [Testers -> [err : BOOLEAN, t : 0..MaxDelay]]
  /\ readPc \in [Readers -> {"idle", "last", "read", "panic"}]
  /\ result \in [Readers -> 0..MaxDelay]
  /\ tests \in Nat
  /\ measured \subseteq 0..MaxDelay

\* Testers that put their record and have not trimmed the queue yet.
Trimming == {t \in Testers : testPc[t] \in {"len", "pop", "take"}}

\* Testers that have decided to pop.
Popping == {t \in Testers : testPc[t] \in {"pop", "take"}}

\* However the calls interleave, the queue exceeds its capacity by no more
\* than the number of tests that are about to trim it: when no test is
\* running, it holds at most ten records.
HistoryBounded == Len(items) <= Cap + Cardinality(Trimming)

\* The unlocked length check of Pop is harmless in this use of the queue: every
\* test pops after a Put of its own, so there is always a record to pop.
PopNeverPanics == \A t \in Testers : testPc[t] # "panic"

\* Last, whose length check is just as unlocked, never finds an emptied queue
\* as long as no more goroutines test the proxy at a time than the queue holds
\* records.
LastNeverPanics == \A r \in Readers : readPc[r] # "panic"

\* A delay that ranks the proxy was measured by a test that succeeded: a failed
\* test, the second request of a unified test included, never contributes one,
\* even though it may have computed it.
DelayWasMeasured ==
  \A r \in Readers : result[r] # MaxDelay => result[r] \in measured

\* The queue of the history keeps its bound, and neither of its unlocked length
\* checks lets Pop or Last meet an empty queue, however tests and readers
\* interleave.
QueueIsSafe == HistoryBounded /\ PopNeverPanics /\ LastNeverPanics
=============================================================================
