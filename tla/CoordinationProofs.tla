------------------------- MODULE CoordinationProofs -------------------------
(***************************************************************************)
(* What goroutines rely on when they share work, for any number of them:   *)
(* Do runs fn once at a time and returns fresh results; a batch is bounded *)
(* and complete; the failure counter of a group starts a check only after  *)
(* a burst, and forgets none; the log reaches its readers in order.        *)
(***************************************************************************)
EXTENDS MCCoordination, Sequences, FiniteSetTheorems, TLAPS

(* Single execution *)

(* The run in progress belongs to the one caller that leads. *)
LeaderHolds ==
  \A c \in Callers : pc[c] \in {"run", "publish"} =>
    /\ call # 0 /\ run[c] = call
    /\ startOf[call] = now[c]
    /\ call > resetSeen[c]

(* Runs are numbered in the order of their start, and published in it. *)
RunsInOrder ==
  /\ \A r, s \in 1..runs : r <= s => startOf[r] <= startOf[s]
  /\ \A r \in 1..runs : startOf[r] <= clock
  /\ call # 0 => call > result
  /\ atReset <= result

(* A date in s.last is the start of the run that s.result holds. *)
LastDatesResult ==
  last # Zero => /\ result # 0 /\ last = startOf[result]
                 /\ result > atReset

(* A caller on the cached path reads a recent result whenever it reads it. *)
CachedIsFresh ==
  \A c \in Callers : pc[c] = "cached" =>
    /\ result # 0 /\ startOf[result] + Wait > now[c]
    /\ result > resetSeen[c]

(* A waiting caller waits for the run it met. *)
WaitsForMet ==
  \A c \in Callers : pc[c] = "wait" =>
    run[c] = met[c] /\ run[c] # 0 /\ run[c] > resetSeen[c]

SInv ==
  /\ TypeOK /\ OneRunAtATime /\ LeaderHolds /\ RunsInOrder /\ LastDatesResult
  /\ CachedIsFresh /\ WaitsForMet /\ ResultIsFresh /\ ResetForgetsPublished

-----------------------------------------------------------------------------

LEMMA TypeStep == TypeOK /\ LeaderHolds /\ [Next]_vars => TypeOK'
<1> SUFFICES ASSUME TypeOK, LeaderHolds, [Next]_vars PROVE TypeOK'
  OBVIOUS
<1> USE SingleDoAssumption DEF TypeOK
<1>1. CASE Reset
  BY <1>1 DEF Reset, callerVars
<1>2. CASE Tick
  BY <1>2 DEF Tick, callerVars, singleVars
<1>3. ASSUME NEW c \in Callers, Share(c) PROVE TypeOK'
  <2>1. /\ run' = [run EXCEPT ![c] = 0] /\ 0 \in 0..runs
        /\ resetSeen' = [resetSeen EXCEPT ![c] = atReset]
        /\ now' = [now EXCEPT ![c] = clock]
        /\ met' = [met EXCEPT ![c] = call]
        /\ pc' = [pc EXCEPT ![c] = "cached"]
        /\ UNCHANGED <<clock, returned, atReset, last, done, result, call, runs, startOf>>
    BY <1>3 DEF Share, Enter
  <2> QED
    BY <2>1
<1>4. ASSUME NEW c \in Callers, Join(c) PROVE TypeOK'
  BY <1>4 DEF Join, Enter
<1>5. ASSUME NEW c \in Callers, Lead(c) PROVE TypeOK'
  <2>1. /\ runs' = runs + 1 /\ runs' \in Nat /\ call' = runs + 1
        /\ run' = [run EXCEPT ![c] = runs + 1]
        /\ startOf' = [r \in 1..runs + 1 |-> IF r = runs + 1 THEN clock ELSE startOf[r]]
        /\ pc' = [pc EXCEPT ![c] = "run"]
        /\ now' = [now EXCEPT ![c] = clock]
        /\ met' = [met EXCEPT ![c] = call]
        /\ resetSeen' = [resetSeen EXCEPT ![c] = atReset]
        /\ UNCHANGED <<clock, returned, atReset, last, done, result>>
    BY <1>5 DEF Lead, Enter
  <2>2. 0..runs \subseteq 0..runs' /\ 1..runs \subseteq 1..runs'
    BY <2>1
  <2>3. startOf' \in [1..runs' -> Nat]
    <3>1. \A r \in 1..runs + 1 : r # runs + 1 => r \in 1..runs
      OBVIOUS
    <3> QED
      BY <2>1, <3>1
  <2>4. call' \in 0..runs' /\ run' \in [Callers -> 0..runs']
    BY <2>1, <2>2
  <2>5. met' \in [Callers -> 0..runs'] /\ returned' \in [Callers -> 0..runs']
    BY <2>1, <2>2
  <2>6. atReset' \in 0..runs'
    BY <2>1, <2>2
  <2>7. resetSeen' \in [Callers -> 0..runs']
    <3>1. \A d \in Callers : resetSeen[d] \in 0..runs'
      BY <2>2
    <3>2. atReset \in 0..runs'
      BY <2>2
    <3> QED
      BY <2>1, <3>1, <3>2
  <2>8. done' \subseteq 1..runs' /\ result' \in 0..runs'
    BY <2>1, <2>2
  <2> QED
    BY <2>1, <2>3, <2>4, <2>5, <2>6, <2>7, <2>8
<1>6. ASSUME NEW c \in Callers, ReadResult(c) PROVE TypeOK'
  BY <1>6 DEF ReadResult, Returns, singleVars
<1>7. ASSUME NEW c \in Callers, Wake(c) PROVE TypeOK'
  BY <1>7 DEF Wake, Returns, singleVars
<1>10. ASSUME NEW c \in Callers, FnReturns(c) PROVE TypeOK'
  <2>1. run[c] \in 0..runs /\ run[c] # 0
    BY <1>10 DEF FnReturns, LeaderHolds
  <2>2. run[c] \in 1..runs
    BY <2>1
  <2>3. done' = done \cup {run[c]} /\ runs' = runs
    BY <1>10 DEF FnReturns
  <2> QED
    BY <1>10, <2>2, <2>3 DEF FnReturns
<1>8. ASSUME NEW c \in Callers, Publish(c) PROVE TypeOK'
  BY <1>8 DEF Publish, Returns
<1>9. CASE UNCHANGED vars
  BY <1>9 DEF vars, callerVars, singleVars
<1> QED
  BY <1>1, <1>2, <1>3, <1>4, <1>5, <1>6, <1>7, <1>8, <1>9, <1>10
  DEF Next, Caller

-----------------------------------------------------------------------------

LEMMA SInvInit == Init => SInv
<1> SUFFICES ASSUME Init PROVE SInv
  OBVIOUS
<1>1. TypeOK
  <2>1. startOf \in [1..runs -> Nat]
    BY DEF Init
  <2> QED
    BY <2>1 DEF Init, TypeOK
<1>2. OneRunAtATime /\ LeaderHolds /\ LastDatesResult /\ CachedIsFresh /\ WaitsForMet
  BY DEF Init, OneRunAtATime, LeaderHolds, LastDatesResult, CachedIsFresh, WaitsForMet
<1>3. RunsInOrder
  BY DEF Init, RunsInOrder
<1>4. ResultIsFresh /\ ResetForgetsPublished
  BY DEF Init, ResultIsFresh, ResetForgetsPublished
<1> QED
  BY <1>1, <1>2, <1>3, <1>4 DEF SInv

(* Steps after which a caller is back with run r. *)
LEMMA ReturnStep ==
  ASSUME SInv, NEW c \in Callers, NEW r \in 1..runs, Returns(c, r),
         UNCHANGED <<startOf, runs, now, met, run, resetSeen>>,
         startOf[r] + Wait > now[c] \/ r \in {met[c], run[c]},
         r > resetSeen[c]
  PROVE  ResultIsFresh' /\ ResetForgetsPublished'
BY DEF SInv, TypeOK, Returns, ResultIsFresh, ResetForgetsPublished

LEMMA SInvStep == SInv /\ [Next]_vars => SInv'
<1> SUFFICES ASSUME SInv, [Next]_vars PROVE SInv'
  OBVIOUS
<1> USE SingleDoAssumption DEF SInv
<1>0. TypeOK'
  BY TypeStep
<1>1. CASE Reset
  <2>1. OneRunAtATime' /\ LeaderHolds' /\ RunsInOrder' /\ LastDatesResult'
    BY <1>1 DEF Reset, callerVars, OneRunAtATime, LeaderHolds, RunsInOrder,
                LastDatesResult, TypeOK
  <2>2. CachedIsFresh' /\ WaitsForMet' /\ ResultIsFresh' /\ ResetForgetsPublished'
    BY <1>1 DEF Reset, callerVars, CachedIsFresh, WaitsForMet, ResultIsFresh,
                ResetForgetsPublished
  <2> QED
    BY <1>0, <2>1, <2>2
<1>2. CASE Tick
  <2>1. OneRunAtATime' /\ LeaderHolds' /\ LastDatesResult'
    BY <1>2 DEF Tick, callerVars, singleVars, OneRunAtATime, LeaderHolds,
                LastDatesResult
  <2>2. CachedIsFresh' /\ WaitsForMet' /\ ResultIsFresh' /\ ResetForgetsPublished'
    BY <1>2 DEF Tick, callerVars, singleVars, CachedIsFresh, WaitsForMet,
                ResultIsFresh, ResetForgetsPublished
  <2>3. RunsInOrder'
    BY <1>2 DEF Tick, singleVars, RunsInOrder, TypeOK
  <2> QED
    BY <1>0, <2>1, <2>2, <2>3
<1>3. ASSUME NEW c \in Callers, Share(c) PROVE SInv'
  <2> USE <1>3 DEF Share, Enter, TypeOK
  <2>1. OneRunAtATime' /\ LeaderHolds'
    BY DEF OneRunAtATime, LeaderHolds
  <2>2. RunsInOrder' /\ LastDatesResult'
    BY DEF RunsInOrder, LastDatesResult
  <2>3. CachedIsFresh'
    BY DEF CachedIsFresh, LastDatesResult, Cached
  <2>4. WaitsForMet'
    BY DEF WaitsForMet
  <2>5. ResultIsFresh' /\ ResetForgetsPublished'
    BY DEF ResultIsFresh, ResetForgetsPublished
  <2> QED
    BY <1>0, <2>1, <2>2, <2>3, <2>4, <2>5
<1>4. ASSUME NEW c \in Callers, Join(c) PROVE SInv'
  <2> USE <1>4 DEF Join, Enter, TypeOK
  <2>1. OneRunAtATime' /\ LeaderHolds'
    BY DEF OneRunAtATime, LeaderHolds
  <2>2. RunsInOrder' /\ LastDatesResult'
    BY DEF RunsInOrder, LastDatesResult
  <2>3. CachedIsFresh'
    BY DEF CachedIsFresh
  <2>4. WaitsForMet'
    <3>1. /\ call > atReset /\ call # 0
      BY DEF RunsInOrder
    <3> QED
      BY <3>1 DEF WaitsForMet
  <2>5. ResultIsFresh' /\ ResetForgetsPublished'
    BY DEF ResultIsFresh, ResetForgetsPublished
  <2> QED
    BY <1>0, <2>1, <2>2, <2>3, <2>4, <2>5
<1>5. ASSUME NEW c \in Callers, Lead(c) PROVE SInv'
  <2> USE DEF TypeOK
  <2>1. /\ runs' = runs + 1 /\ call' = runs + 1 /\ call = 0
        /\ run' = [run EXCEPT ![c] = runs + 1]
        /\ pc' = [pc EXCEPT ![c] = "run"]
        /\ now' = [now EXCEPT ![c] = clock]
        /\ met' = [met EXCEPT ![c] = call]
        /\ resetSeen' = [resetSeen EXCEPT ![c] = atReset]
        /\ UNCHANGED <<clock, returned, atReset, last, done, result>>
    BY <1>5 DEF Lead, Enter
  <2>2. /\ startOf'[runs + 1] = clock
        /\ \A r \in 1..runs : startOf'[r] = startOf[r]
    BY <1>5 DEF Lead
  <2>3. \A d \in Callers : pc[d] \notin {"run", "publish"}
    BY <2>1 DEF LeaderHolds
  <2>4. OneRunAtATime'
    BY <2>1, <2>3 DEF OneRunAtATime
  <2>5. LeaderHolds'
    BY <2>1, <2>2, <2>3 DEF LeaderHolds, RunsInOrder
  <2>6. RunsInOrder'
    <3>1. \A r \in 1..runs' : r \in 1..runs \/ r = runs + 1
      BY <2>1
    <3>2. \A r \in 1..runs' : startOf'[r] <= clock
      BY <3>1, <2>2 DEF RunsInOrder
    <3>3. \A r, s \in 1..runs' : r <= s => startOf'[r] <= startOf'[s]
      <4> SUFFICES ASSUME NEW r \in 1..runs', NEW s \in 1..runs', r <= s
                   PROVE  startOf'[r] <= startOf'[s]
        OBVIOUS
      <4>1. CASE s = runs + 1
        BY <4>1, <3>2, <2>2
      <4>2. CASE s \in 1..runs
        <5>1. r \in 1..runs
          BY <4>2, <3>1
        <5> QED
          BY <4>2, <5>1, <2>2 DEF RunsInOrder
      <4> QED
        BY <4>1, <4>2, <3>1
    <3> QED
      BY <2>1, <3>2, <3>3 DEF RunsInOrder
  <2>7. LastDatesResult'
    BY <2>1, <2>2 DEF LastDatesResult
  <2>8. CachedIsFresh'
    <3> SUFFICES ASSUME NEW d \in Callers, pc'[d] = "cached"
                 PROVE  /\ result' # 0 /\ startOf'[result'] + Wait > now'[d]
                        /\ result' > resetSeen'[d]
      BY DEF CachedIsFresh
    <3>1. d # c /\ pc[d] = "cached"
      BY <2>1
    <3>2. /\ result # 0 /\ startOf[result] + Wait > now[d]
          /\ result > resetSeen[d]
      BY <3>1 DEF CachedIsFresh
    <3>3. result \in 1..runs
      BY <3>2
    <3> QED
      BY <2>1, <2>2, <3>1, <3>2, <3>3
  <2>9. WaitsForMet'
    BY <2>1 DEF WaitsForMet
  <2>10. ResultIsFresh' /\ ResetForgetsPublished'
    <3>1. \A d \in Callers : pc'[d] = "idle" => /\ d # c /\ pc[d] = "idle"
                                                /\ now'[d] = now[d] /\ met'[d] = met[d]
                                                /\ run'[d] = run[d]
                                                /\ resetSeen'[d] = resetSeen[d]
      BY <2>1
    <3>2. \A d \in Callers : returned[d] # 0 => returned[d] \in 1..runs
      OBVIOUS
    <3>3. returned' = returned
      BY <2>1
    <3>4. ResultIsFresh'
      BY <2>2, <3>1, <3>2, <3>3 DEF ResultIsFresh
    <3> QED
      BY <3>1, <3>3, <3>4 DEF ResetForgetsPublished
  <2> QED
    BY <1>0, <2>4, <2>5, <2>6, <2>7, <2>8, <2>9, <2>10
<1>6. ASSUME NEW c \in Callers, ReadResult(c) PROVE SInv'
  <2>1. ResultIsFresh' /\ ResetForgetsPublished'
    <3>1. /\ result \in 1..runs
          /\ startOf[result] + Wait > now[c] /\ result > resetSeen[c]
      BY <1>6 DEF ReadResult, CachedIsFresh, TypeOK
    <3> QED
      BY <1>6, <3>1, ReturnStep DEF ReadResult
  <2>2. OneRunAtATime' /\ LeaderHolds' /\ CachedIsFresh' /\ WaitsForMet'
    BY <1>6 DEF ReadResult, Returns, singleVars, TypeOK, OneRunAtATime, LeaderHolds,
                CachedIsFresh, WaitsForMet
  <2>3. RunsInOrder' /\ LastDatesResult'
    BY <1>6 DEF ReadResult, singleVars, RunsInOrder, LastDatesResult
  <2> QED
    BY <1>0, <2>1, <2>2, <2>3
<1>7. ASSUME NEW c \in Callers, Wake(c) PROVE SInv'
  <2>1. ResultIsFresh' /\ ResetForgetsPublished'
    <3>1. run[c] \in 1..runs /\ run[c] > resetSeen[c]
      BY <1>7 DEF Wake, WaitsForMet, TypeOK
    <3> QED
      BY <1>7, <3>1, ReturnStep DEF Wake
  <2>2. OneRunAtATime' /\ LeaderHolds' /\ CachedIsFresh' /\ WaitsForMet'
    BY <1>7 DEF Wake, Returns, singleVars, TypeOK, OneRunAtATime, LeaderHolds,
                CachedIsFresh, WaitsForMet
  <2>3. RunsInOrder' /\ LastDatesResult'
    BY <1>7 DEF Wake, singleVars, RunsInOrder, LastDatesResult
  <2> QED
    BY <1>0, <2>1, <2>2, <2>3
<1>8. ASSUME NEW c \in Callers, FnReturns(c) PROVE SInv'
  <2>1. OneRunAtATime' /\ LeaderHolds' /\ CachedIsFresh' /\ WaitsForMet'
    BY <1>8 DEF FnReturns, TypeOK, OneRunAtATime, LeaderHolds, CachedIsFresh,
                WaitsForMet
  <2>2. RunsInOrder' /\ LastDatesResult' /\ ResultIsFresh' /\ ResetForgetsPublished'
    BY <1>8 DEF FnReturns, TypeOK, RunsInOrder, LastDatesResult, ResultIsFresh,
                ResetForgetsPublished
  <2> QED
    BY <1>0, <2>1, <2>2
<1>9. ASSUME NEW c \in Callers, Publish(c) PROVE SInv'
  <2>1. /\ run[c] = call /\ call \in 1..runs /\ startOf[call] = now[c]
        /\ call > result /\ call > resetSeen[c]
        /\ result \in 0..runs /\ result \in Int /\ call \in Int
    BY <1>9 DEF Publish, LeaderHolds, RunsInOrder, TypeOK
  <2>2. /\ call' = 0 /\ result' = call /\ last' = now[c]
        /\ pc' = [pc EXCEPT ![c] = "idle"]
        /\ UNCHANGED <<done, run, now, met, resetSeen, clock, runs, startOf, atReset>>
    BY <1>9, <2>1 DEF Publish, Returns
  <2>3. ResultIsFresh' /\ ResetForgetsPublished'
    BY <1>9, <2>1, ReturnStep DEF Publish
  <2>4. \A d \in Callers : d # c => pc[d] \notin {"run", "publish"}
    BY <1>9 DEF Publish, OneRunAtATime
  <2>5. OneRunAtATime' /\ LeaderHolds'
    BY <2>2, <2>4 DEF OneRunAtATime, LeaderHolds, TypeOK
  <2>6. RunsInOrder'
    BY <2>1, <2>2 DEF RunsInOrder, TypeOK
  <2>7. LastDatesResult'
    BY <2>1, <2>2 DEF LastDatesResult, RunsInOrder, TypeOK
  <2>8. WaitsForMet'
    BY <2>2 DEF WaitsForMet, TypeOK
  <2>9. CachedIsFresh'
    <3> SUFFICES ASSUME NEW d \in Callers, pc[d] = "cached"
                 PROVE  /\ call # 0 /\ startOf[call] + Wait > now[d]
                        /\ call > resetSeen[d]
      BY <2>2 DEF CachedIsFresh, TypeOK
    <3>1. /\ result \in 1..runs /\ startOf[result] + Wait > now[d]
          /\ result > resetSeen[d]
      BY <2>1 DEF CachedIsFresh
    <3>2. startOf[result] <= startOf[call]
      BY <2>1, <3>1 DEF RunsInOrder
    <3>3. /\ startOf[result] \in Nat /\ startOf[call] \in Nat /\ now[d] \in Nat
          /\ resetSeen[d] \in Int
      BY <2>1, <3>1 DEF TypeOK
    <3> QED
      BY <2>1, <3>1, <3>2, <3>3
  <2> QED
    BY <1>0, <2>3, <2>5, <2>6, <2>7, <2>8, <2>9
<1>10. CASE UNCHANGED vars
  <2>1. OneRunAtATime' /\ LeaderHolds' /\ CachedIsFresh' /\ WaitsForMet'
    BY <1>10 DEF vars, callerVars, singleVars, OneRunAtATime, LeaderHolds,
                 CachedIsFresh, WaitsForMet
  <2>2. RunsInOrder' /\ LastDatesResult' /\ ResultIsFresh' /\ ResetForgetsPublished'
    BY <1>10 DEF vars, callerVars, singleVars, RunsInOrder, LastDatesResult,
                 ResultIsFresh, ResetForgetsPublished
  <2> QED
    BY <1>0, <2>1, <2>2
<1> QED
  BY <1>1, <1>2, <1>3, <1>4, <1>5, <1>6, <1>7, <1>8, <1>9, <1>10 DEF Next, Caller

-----------------------------------------------------------------------------

(* SInv holds in every reachable state. *)
LEMMA SInvAlways == Spec => []SInv
BY SInvInit, SInvStep, PTL DEF Spec

(* Do never runs fn in two goroutines at a time, for any callers and any    *)
(* interleaving of their critical sections with Reset.                      *)
THEOREM MutualExclusion == Spec => []OneRunAtATime
<1>1. SInv => OneRunAtATime
  BY DEF SInv
<1> QED
  BY <1>1, SInvAlways, PTL

(* Do returns the result of a run that began within `wait` of the call or   *)
(* was in progress at the call, also on the path that reads s.result after  *)
(* the unlock.                                                              *)
THEOREM Fresh == Spec => []ResultIsFresh
<1>1. SInv => ResultIsFresh
  BY DEF SInv
<1> QED
  BY <1>1, SInvAlways, PTL

(* The unlocked read of s.result never meets a nil pointer. *)
THEOREM CachedThere == Spec => []CachedIsThere
<1>1. SInv => CachedIsThere
  BY DEF SInv, CachedIsFresh, CachedIsThere
<1> QED
  BY <1>1, SInvAlways, PTL

(* Reset, which takes no lock, makes later calls forget what was published. *)
THEOREM ResetWorks == Spec => []ResetForgetsPublished
<1>1. SInv => ResetForgetsPublished
  BY DEF SInv
<1> QED
  BY <1>1, SInvAlways, PTL

(* All that a caller of Do may rely on, for any number of callers.         *)
THEOREM AnswersRight == Spec => []AnswersAreRight
<1>1. OneRunAtATime /\ ResultIsFresh /\ CachedIsThere /\ ResetForgetsPublished => AnswersAreRight
  BY DEF AnswersAreRight
<1> QED
  BY <1>1, MutualExclusion, Fresh, CachedThere, ResetWorks, PTL
-----------------------------------------------------------------------------
(* The health check: its batch *)

\* The operator of FiniteSets, by its name in the instance.
LEMMA SameCardinality == \A S : HC!Cardinality(S) = Cardinality(S)
BY DEF HC!Cardinality, Cardinality

HealthFields ==
  {"lazy", "list", "tick", "touched", "age", "began", "check", "busy", "todo", "running", "done", "of", "tested",
   "asked", "closed"}

\* A check is about to test, tests or has tested each proxy of its list.
HealthInv ==
  /\ DOMAIN hc = HealthFields
  /\ hc.check \in {"idle", "run"}
  /\ IsFiniteSet(hc.running) /\ HC!TestsAreBounded
  /\ hc.check = "run" => hc.todo \cup hc.running \cup hc.done = HealthLists[hc.of]
  /\ hc.check = "idle" => hc.todo = {} /\ hc.running = {}
  /\ HC!CheckIsComplete

LEMMA HealthInitially == ASSUME HC!Init PROVE HealthInv
<1>1. IsFiniteSet({}) /\ Cardinality({}) = 0
  BY FS_EmptySet
<1>2. /\ hc.check = "idle" /\ hc.todo = {} /\ hc.running = {} /\ hc.tested = {} /\ DOMAIN hc = HealthFields
  BY DEF HC!Init, HealthFields
<1>3. QED
  BY <1>1, <1>2, SameCardinality, CoordinationAssumption DEF HealthInv, HC!TestsAreBounded, HC!CheckIsComplete

\* As far as the check goes, h is the present state.
SameCheck(h) ==
  /\ h.check = hc.check /\ h.running = hc.running /\ h.todo = hc.todo /\ h.done = hc.done
  /\ h.of = hc.of /\ h.tested = hc.tested /\ DOMAIN h = HealthFields

\* A call of check() in the state h, or one that is found to be the only one.
CallsCheck(h, b) ==
  \/ hc' = HC!Check(h)
  \/ hc' = [HC!Check(h) EXCEPT !.busy = b]
  \/ hc' = HC!Begin(h) /\ hc.check = "idle"

\* Steps that leave the check alone, and steps that may begin one.
LEMMA HealthCalls ==
  ASSUME HealthInv, NEW b, NEW h, SameCheck(h), CallsCheck(h, b)
  PROVE  HealthInv'
<1>1. hc.check = "idle" => hc.running = {} /\ IsFiniteSet({}) /\ Cardinality({}) = 0
  BY FS_EmptySet DEF HealthInv
<1>2. HC!Check(h) = h \/ (HC!Check(h) = HC!Begin(h) /\ hc.check = "idle")
  <2>1. CASE HC!Shared(h)
    BY <2>1 DEF HC!Check
  <2>2. CASE ~HC!Shared(h)
    <3>1. HC!Check(h) = HC!Begin(h)
      BY <2>2 DEF HC!Check
    <3>2. h.check = "idle"
      BY <2>2 DEF HC!Shared
    <3>3. QED
      BY <3>1, <3>2 DEF SameCheck
  <2>3. QED
    BY <2>1, <2>2
<1>3. CASE hc' = h \/ hc' = [h EXCEPT !.busy = b]
  <2>1. /\ hc'.check = hc.check /\ hc'.running = hc.running /\ hc'.todo = hc.todo /\ hc'.done = hc.done
        /\ hc'.of = hc.of /\ hc'.tested = hc.tested /\ DOMAIN hc' = HealthFields
    BY <1>3 DEF HealthFields, SameCheck
  <2>2. QED
    BY <2>1 DEF HealthInv, HC!TestsAreBounded, HC!CheckIsComplete
<1>4. CASE hc.check = "idle" /\ (hc' = HC!Begin(h) \/ hc' = [HC!Begin(h) EXCEPT !.busy = b])
  <2>1. /\ hc'.check = "run" /\ hc'.running = hc.running /\ hc'.todo = HealthLists[h.list] /\ hc'.done = {}
        /\ hc'.of = h.list /\ DOMAIN hc' = HealthFields
    BY <1>4 DEF HealthFields, HC!Begin, SameCheck
  <2>2. QED
    BY <1>1, <1>4, <2>1, SameCardinality DEF HealthInv, HC!TestsAreBounded, HC!CheckIsComplete
<1>5. QED
  BY <1>2, <1>3, <1>4 DEF CallsCheck

LEMMA HealthStep == ASSUME HealthInv, HC!Next PROVE HealthInv'
<1>0. DOMAIN hc = HealthFields /\ hc.check \in {"idle", "run"}
  BY DEF HealthInv
<1>1. CASE HC!Second \/ HC!Touch \/ HC!Skip \/ HC!Close \/ HC!SetProxies
  <2>1. /\ hc'.check = hc.check /\ hc'.running = hc.running /\ hc'.todo = hc.todo /\ hc'.done = hc.done
        /\ hc'.of = hc.of /\ hc'.tested = hc.tested /\ DOMAIN hc' = HealthFields
    BY <1>0, <1>1 DEF HealthFields, HC!Second, HC!Touch, HC!Skip, HC!Close, HC!SetProxies
  <2>2. QED
    BY <2>1 DEF HealthInv, HC!TestsAreBounded, HC!CheckIsComplete
<1>2. CASE HC!Process
  <2>1. PICK h : h = [hc EXCEPT !.tick = 0]
    OBVIOUS
  <2>2. SameCheck(h)
    BY <1>0, <2>1 DEF HealthFields, SameCheck
  <2>3. PICK b : b = (HC!Check(h).check = "run")
    OBVIOUS
  <2>4. hc' = [HC!Check(h) EXCEPT !.busy = b]
    BY <1>2, <2>1, <2>3 DEF HC!Process
  <2>5. CallsCheck(h, b)
    BY <2>4 DEF CallsCheck
  <2>6. QED
    BY <2>2, <2>5, HealthCalls
<1>3. CASE HC!CheckAsked
  <2>1. PICK h : h = [hc EXCEPT !.asked = FALSE]
    OBVIOUS
  <2>2. SameCheck(h)
    BY <1>0, <2>1 DEF HealthFields, SameCheck
  <2>3. hc' = HC!Check(h)
    BY <1>3, <2>1 DEF HC!CheckAsked
  <2>4. CallsCheck(h, TRUE)
    BY <2>3 DEF CallsCheck
  <2>5. QED
    BY <2>2, <2>4, HealthCalls
<1>4. CASE HC!HealthCheckCalled
  <2>1. hc' = HC!Begin(hc) /\ hc.check = "idle"
    BY <1>4 DEF HC!HealthCheckCalled, HC!Shared
  <2>2. SameCheck(hc)
    BY <1>0 DEF SameCheck
  <2>3. CallsCheck(hc, TRUE)
    BY <2>1 DEF CallsCheck
  <2>4. QED
    BY <2>2, <2>3, HealthCalls
<1>5. CASE HC!BatchWait
  <2>1. /\ hc.check = "run" /\ hc.todo = {} /\ hc.running = {} /\ hc'.check = "idle"
        /\ hc'.todo = {} /\ hc'.running = {} /\ hc'.done = hc.done /\ hc'.of = hc.of /\ DOMAIN hc' = HealthFields
    BY <1>0, <1>5 DEF HealthFields, HC!BatchWait
  <2>2. QED
    BY <2>1 DEF HealthInv, HC!TestsAreBounded, HC!CheckIsComplete
<1>6. ASSUME NEW p, HC!BatchGo(p) PROVE HealthInv'
  <2>1. /\ p \in hc.todo /\ Cardinality(hc.running) < HealthConcurrency
        /\ hc' = [hc EXCEPT !.todo = hc.todo \ {p}, !.running = hc.running \cup {p}]
    BY <1>6, SameCardinality DEF HC!BatchGo
  <2>2. /\ hc'.check = hc.check /\ hc'.done = hc.done /\ hc'.todo = hc.todo \ {p}
        /\ hc'.running = hc.running \cup {p} /\ hc'.of = hc.of /\ DOMAIN hc' = HealthFields
    BY <1>0, <2>1 DEF HealthFields
  <2>3. hc.check = "run"
    BY <1>0, <2>1 DEF HealthInv
  <2>4. IsFiniteSet(hc'.running) /\ Cardinality(hc'.running) <= HealthConcurrency
    <3>1. PICK n \in Nat : n = Cardinality(hc.running)
      BY FS_CardinalityType DEF HealthInv
    <3>2. PICK r : r = hc.running \cup {p}
      OBVIOUS
    <3>3. IsFiniteSet(r) /\ (Cardinality(r) = n \/ Cardinality(r) = n + 1)
      BY <3>1, <3>2, FS_AddElement DEF HealthInv
    <3>4. n < HealthConcurrency
      BY <2>1, <3>1
    <3>5. Cardinality(r) <= HealthConcurrency
      BY <3>3, <3>4, CoordinationAssumption
    <3>6. QED
      BY <2>2, <3>2, <3>3, <3>5
  <2>5. hc'.todo \cup hc'.running \cup hc'.done = hc.todo \cup hc.running \cup hc.done
    BY <2>1, <2>2
  <2>6. QED
    BY <2>2, <2>3, <2>4, <2>5, SameCardinality DEF HealthInv, HC!TestsAreBounded, HC!CheckIsComplete
<1>7. ASSUME NEW p, HC!BatchDone(p) PROVE HealthInv'
  <2>1. p \in hc.running /\ hc' = [hc EXCEPT !.running = hc.running \ {p}, !.done = hc.done \cup {p}]
    BY <1>7 DEF HC!BatchDone
  <2>2. /\ hc'.check = hc.check /\ hc'.todo = hc.todo /\ hc'.of = hc.of
        /\ hc'.running = hc.running \ {p} /\ hc'.done = hc.done \cup {p} /\ DOMAIN hc' = HealthFields
    BY <1>0, <2>1 DEF HealthFields
  <2>3. hc.check = "run"
    BY <1>0, <2>1 DEF HealthInv
  <2>4. IsFiniteSet(hc'.running) /\ Cardinality(hc'.running) <= HealthConcurrency
    <3>1. PICK n \in Nat : n = Cardinality(hc.running)
      BY FS_CardinalityType DEF HealthInv
    <3>2. PICK r : r = hc.running \ {p}
      OBVIOUS
    <3>3. IsFiniteSet(r) /\ Cardinality(r) <= n /\ Cardinality(r) \in Nat
      BY <3>1, <3>2, FS_Subset, FS_CardinalityType DEF HealthInv
    <3>4. n <= HealthConcurrency
      BY <3>1, SameCardinality DEF HealthInv, HC!TestsAreBounded
    <3>5. Cardinality(r) <= HealthConcurrency
      BY <3>3, <3>4, CoordinationAssumption
    <3>6. QED
      BY <2>2, <3>2, <3>3, <3>5
  <2>5. hc'.todo \cup hc'.running \cup hc'.done = hc.todo \cup hc.running \cup hc.done
    BY <2>1, <2>2
  <2>6. QED
    BY <2>2, <2>3, <2>4, <2>5, SameCardinality DEF HealthInv, HC!TestsAreBounded, HC!CheckIsComplete
<1>8. QED
  BY <1>1, <1>2, <1>3, <1>4, <1>5, <1>6, <1>7 DEF HC!Next, HC!Batch

-----------------------------------------------------------------------------
(* The failure counter of a group *)

\* How many of the times in c are not before s.
CountSince(c, s) == Cardinality({i \in DOMAIN c : c[i] >= s})

LEMMA CountIsNat ==
  ASSUME NEW c \in Seq(Nat), NEW s PROVE IsFiniteSet({i \in DOMAIN c : c[i] >= s}) /\ CountSince(c, s) \in Nat
<1>1. IsFiniteSet(1 .. Len(c)) /\ DOMAIN c = 1 .. Len(c)
  BY FS_Interval
<1>2. {i \in DOMAIN c : c[i] >= s} \subseteq 1 .. Len(c)
  BY <1>1
<1>3. QED
  BY <1>1, <1>2, FS_Subset, FS_CardinalityType DEF CountSince

LEMMA CountFromEarlier ==
  ASSUME NEW c \in Seq(Nat), NEW s \in Int, NEW t \in Int, s <= t PROVE CountSince(c, t) <= CountSince(c, s)
<1>1. {i \in DOMAIN c : c[i] >= t} \subseteq {i \in DOMAIN c : c[i] >= s}
  <2>1. \A i \in DOMAIN c : c[i] \in Nat
    OBVIOUS
  <2>2. QED
    BY <2>1
<1>2. QED
  BY <1>1, CountIsNat, FS_Subset DEF CountSince

LEMMA CountAppend ==
  ASSUME NEW c \in Seq(Nat), NEW s \in Int, NEW e \in Nat, s <= e
  PROVE  CountSince(Append(c, e), s) = CountSince(c, s) + 1
<1>1. /\ Len(c) \in Nat /\ Append(c, e) \in Seq(Nat) /\ DOMAIN Append(c, e) = 1 .. Len(c) + 1 /\ DOMAIN c = 1 .. Len(c)
      /\ \A i \in 1 .. Len(c) : Append(c, e)[i] = c[i]
      /\ Append(c, e)[Len(c) + 1] = e
  OBVIOUS
<1>2. {i \in DOMAIN Append(c, e) : Append(c, e)[i] >= s} = {i \in DOMAIN c : c[i] >= s} \cup {Len(c) + 1}
  <2>1. \A i \in 1 .. Len(c) + 1 : i \in 1 .. Len(c) \/ i = Len(c) + 1
    BY <1>1
  <2>2. QED
    BY <1>1, <2>1
<1>3. Len(c) + 1 \notin {i \in DOMAIN c : c[i] >= s}
  BY <1>1
<1>4. IsFiniteSet({i \in DOMAIN c : c[i] >= s})
  BY CountIsNat
<1>5. PICK S : S = {i \in DOMAIN c : c[i] >= s}
  OBVIOUS
<1>6. Cardinality(S \cup {Len(c) + 1}) = Cardinality(S) + 1
  BY <1>3, <1>4, <1>5, FS_AddElement
<1>7. QED
  BY <1>2, <1>5, <1>6 DEF CountSince

States == {"idle", "lock", "read", "write", "decide", "check", "mark", "run", "clear", "zero", "end"}

FailuresType ==
  gf \in [times : Nat, since : Int, testing : BOOLEAN, mux : Reporters \cup {Nobody}, clock : Nat, reports : Nat,
          success : BOOLEAN, counted : Seq(Nat), decided : Nat, pc : [Reporters -> States], reg : [Reporters -> Nat]]

\* A failure is counted by the one goroutine that holds the mutex.
CountsAlone ==
  \A g \in Reporters :
    /\ gf.pc[g] \in {"read", "write", "decide"} => gf.mux = g
    /\ gf.mux = g => gf.pc[g] \notin {"idle", "lock"}

\* Whoever has the counter at its limit, or the flag set, will still reset it.
SomebodyResets ==
  /\ gf.times >= MaxFailed => \E g \in Reporters : gf.pc[g] \in {"decide", "check", "mark", "run", "clear", "zero"}
  /\ gf.testing => \E g \in Reporters : gf.pc[g] \in {"run", "clear"}

\* The counter never runs ahead of the failures since its interval began.
CounterIsCovered ==
  /\ gf.since <= gf.clock
  /\ gf.times <= CountSince(gf.counted, gf.since) + 1
  /\ (\A g \in Reporters : gf.pc[g] # "decide") => gf.times <= CountSince(gf.counted, gf.since)
  /\ \A g \in Reporters : gf.pc[g] = "write" => gf.reg[g] <= CountSince(gf.counted, gf.since)

\* HC!CheckMeansBurst
BurstBefore ==
  \A g \in Reporters :
    gf.pc[g] = "check" /\ gf.mux = g => CountSince(gf.counted, gf.decided - FailInterval) >= MaxFailed

FailuresInv == FailuresType /\ CountsAlone /\ SomebodyResets /\ CounterIsCovered /\ BurstBefore

LEMMA FailuresInitially == ASSUME HC!FailuresInit PROVE FailuresInv
<1>1. FailuresType
  BY CoordinationAssumption DEF HC!FailuresInit, FailuresType, States
<1>2. CountSince(<< >>, -FailInterval - 1) \in Nat /\ -FailInterval - 1 \in Int /\ -FailInterval - 1 <= 0
  <2>1. << >> \in Seq(Nat)
    OBVIOUS
  <2>2. QED
    <3>1. -FailInterval - 1 \in Int /\ -FailInterval - 1 <= 0
      BY CoordinationAssumption
    <3>2. QED
      BY <2>1, <3>1, CountIsNat
<1>3. /\ gf.times = 0 /\ gf.since = -FailInterval - 1 /\ gf.testing = FALSE /\ gf.mux = Nobody /\ gf.clock = 0
      /\ gf.counted = << >> /\ \A g \in Reporters : gf.pc[g] = "idle"
  BY DEF HC!FailuresInit
<1>4. CountsAlone /\ BurstBefore
  BY <1>3, CoordinationAssumption DEF CountsAlone, BurstBefore
<1>5. SomebodyResets
  BY <1>3, CoordinationAssumption DEF SomebodyResets
<1>6. CounterIsCovered
  <2>1. PICK n \in Nat : n = CountSince(gf.counted, gf.since)
    BY <1>2, <1>3
  <2>2. gf.since <= gf.clock
    BY <1>2, <1>3
  <2>3. QED
    BY <1>3, <2>1, <2>2 DEF CounterIsCovered
<1>7. QED
  BY <1>1, <1>4, <1>5, <1>6 DEF FailuresInv

\* The state, field by field.
LEMMA FailuresShape ==
  ASSUME FailuresInv
  PROVE  /\ gf = [times |-> gf.times, since |-> gf.since, testing |-> gf.testing, mux |-> gf.mux, clock |-> gf.clock,
                  reports |-> gf.reports, success |-> gf.success, counted |-> gf.counted, decided |-> gf.decided,
                  pc |-> gf.pc, reg |-> gf.reg]
         /\ gf.times \in Nat /\ gf.since \in Int /\ gf.testing \in BOOLEAN /\ gf.clock \in Nat /\ gf.reports \in Nat
         /\ gf.success \in BOOLEAN /\ gf.counted \in Seq(Nat) /\ gf.decided \in Nat
         /\ gf.pc \in [Reporters -> States] /\ gf.reg \in [Reporters -> Nat]
         /\ gf.mux \in Reporters \cup {Nobody}
         /\ CountSince(gf.counted, gf.since) \in Nat
BY CountIsNat DEF FailuresInv, FailuresType

\* What keeps the counter covered: no failure is taken back, and goroutines only
\* go on with what they read.
LEMMA CounterKept ==
  ASSUME FailuresInv, gf'.since = gf.since, gf'.counted = gf.counted, gf'.clock \in Nat, gf.clock <= gf'.clock,
         gf'.times = gf.times \/ gf'.times = 0,
         \A h \in Reporters : gf'.pc[h] = "write" => gf.pc[h] = "write" /\ gf'.reg[h] = gf.reg[h],
         \A h \in Reporters : gf.pc[h] = "decide" => gf'.pc[h] = "decide"
  PROVE  CounterIsCovered'
<1>1. PICK n \in Nat : n = CountSince(gf.counted, gf.since)
  BY FailuresShape
<1>2. gf.since <= gf'.clock
  BY FailuresShape DEF FailuresInv, CounterIsCovered
<1>3. (gf'.times = gf.times \/ gf'.times = 0) /\ gf.times \in Nat
  BY FailuresShape
<1>4. /\ gf.times <= n + 1
      /\ (\A g \in Reporters : gf.pc[g] # "decide") => gf.times <= n
      /\ \A g \in Reporters : gf.pc[g] = "write" => gf.reg[g] <= n
  BY <1>1 DEF FailuresInv, CounterIsCovered
<1>5. QED
  BY <1>1, <1>2, <1>3, <1>4 DEF CounterIsCovered

LEMMA BurstKept ==
  ASSUME FailuresInv, gf'.counted = gf.counted, gf'.decided = gf.decided,
         \A h \in Reporters : gf'.pc[h] = "check" /\ gf'.mux = h => gf.pc[h] = "check" /\ gf.mux = h
  PROVE  BurstBefore'
BY DEF FailuresInv, BurstBefore

LEMMA SumIsNat == \A n \in Nat : n + 1 \in Nat
OBVIOUS

LEMMA LockStep == ASSUME FailuresInv, NEW g \in Reporters, HC!Lock(g) PROVE FailuresInv'
<1>1. /\ gf.pc[g] = "lock" /\ gf.mux = Nobody
      /\ gf' = [gf EXCEPT !.mux = g, !.pc = [gf.pc EXCEPT ![g] = "read"]]
  BY FailuresShape DEF HC!Lock, HC!At
<1>2. FailuresType'
  BY <1>1, FailuresShape DEF FailuresInv, FailuresType, States
<1>3. /\ gf'.times = gf.times /\ gf'.since = gf.since /\ gf'.testing = gf.testing /\ gf'.mux = g
      /\ gf'.clock = gf.clock /\ gf'.reports = gf.reports /\ gf'.success = gf.success
      /\ gf'.counted = gf.counted /\ gf'.decided = gf.decided /\ gf'.pc = [gf.pc EXCEPT ![g] = "read"]
      /\ gf'.reg = gf.reg
  BY <1>1, FailuresShape
<1>4. gf.pc \in [Reporters -> States] /\ gf.reg \in [Reporters -> Nat] /\ gf.times \in Nat /\ gf.clock \in Nat
  BY FailuresShape
<1>5. CountsAlone'
  BY <1>1, <1>3, <1>4, CoordinationAssumption DEF FailuresInv, CountsAlone
<1>6. SomebodyResets'
  BY <1>1, <1>3, <1>4, CoordinationAssumption DEF FailuresInv, SomebodyResets
<1>7. CounterIsCovered'
  BY <1>1, <1>3, <1>4, CounterKept
<1>8. BurstBefore'
  BY <1>1, <1>3, <1>4, BurstKept, CoordinationAssumption DEF FailuresInv, CountsAlone
<1>9. QED
  BY <1>2, <1>5, <1>6, <1>7, <1>8 DEF FailuresInv

LEMMA EndStep == ASSUME FailuresInv, NEW g \in Reporters, HC!End(g) PROVE FailuresInv'
<1>1. /\ gf.pc[g] = "end"
      /\ gf' = [gf EXCEPT !.mux = (IF gf.mux = g THEN Nobody ELSE gf.mux), !.pc = [gf.pc EXCEPT ![g] = "idle"]]
  BY FailuresShape DEF HC!End, HC!At
<1>2. FailuresType'
  BY <1>1, FailuresShape DEF FailuresInv, FailuresType, States
<1>3. /\ gf'.times = gf.times /\ gf'.since = gf.since /\ gf'.testing = gf.testing
      /\ gf'.mux = (IF gf.mux = g THEN Nobody ELSE gf.mux) /\ gf'.clock = gf.clock
      /\ gf'.reports = gf.reports /\ gf'.success = gf.success /\ gf'.counted = gf.counted
      /\ gf'.decided = gf.decided /\ gf'.pc = [gf.pc EXCEPT ![g] = "idle"] /\ gf'.reg = gf.reg
  BY <1>1, FailuresShape
<1>4. gf.pc \in [Reporters -> States] /\ gf.reg \in [Reporters -> Nat] /\ gf.times \in Nat /\ gf.clock \in Nat
  BY FailuresShape
<1>5. CountsAlone'
  BY <1>1, <1>3, <1>4, CoordinationAssumption DEF FailuresInv, CountsAlone
<1>6. SomebodyResets'
  BY <1>1, <1>3, <1>4, CoordinationAssumption DEF FailuresInv, SomebodyResets
<1>7. CounterIsCovered'
  BY <1>1, <1>3, <1>4, CounterKept
<1>8. BurstBefore'
  BY <1>1, <1>3, <1>4, BurstKept, CoordinationAssumption DEF FailuresInv, CountsAlone
<1>9. QED
  BY <1>2, <1>5, <1>6, <1>7, <1>8 DEF FailuresInv

LEMMA SetTestingStep == ASSUME FailuresInv, NEW g \in Reporters, HC!SetTesting(g) PROVE FailuresInv'
<1>1. /\ gf.pc[g] = "mark"
      /\ gf' = [gf EXCEPT !.testing = TRUE, !.pc = [gf.pc EXCEPT ![g] = "run"]]
  BY FailuresShape DEF HC!SetTesting, HC!At
<1>2. FailuresType'
  BY <1>1, FailuresShape DEF FailuresInv, FailuresType, States
<1>3. /\ gf'.times = gf.times /\ gf'.since = gf.since /\ gf'.testing = TRUE /\ gf'.mux = gf.mux
      /\ gf'.clock = gf.clock /\ gf'.reports = gf.reports /\ gf'.success = gf.success
      /\ gf'.counted = gf.counted /\ gf'.decided = gf.decided /\ gf'.pc = [gf.pc EXCEPT ![g] = "run"]
      /\ gf'.reg = gf.reg
  BY <1>1, FailuresShape
<1>4. gf.pc \in [Reporters -> States] /\ gf.reg \in [Reporters -> Nat] /\ gf.times \in Nat /\ gf.clock \in Nat
  BY FailuresShape
<1>5. CountsAlone'
  BY <1>1, <1>3, <1>4, CoordinationAssumption DEF FailuresInv, CountsAlone
<1>6. SomebodyResets'
  BY <1>1, <1>3, <1>4, CoordinationAssumption DEF FailuresInv, SomebodyResets
<1>7. CounterIsCovered'
  BY <1>1, <1>3, <1>4, CounterKept
<1>8. BurstBefore'
  BY <1>1, <1>3, <1>4, BurstKept, CoordinationAssumption DEF FailuresInv, CountsAlone
<1>9. QED
  BY <1>2, <1>5, <1>6, <1>7, <1>8 DEF FailuresInv

LEMMA CheckedStep == ASSUME FailuresInv, NEW g \in Reporters, HC!Checked(g) PROVE FailuresInv'
<1>1. /\ gf.pc[g] = "run"
      /\ gf' = [gf EXCEPT !.pc = [gf.pc EXCEPT ![g] = "clear"]]
  BY FailuresShape DEF HC!Checked, HC!At
<1>2. FailuresType'
  BY <1>1, FailuresShape DEF FailuresInv, FailuresType, States
<1>3. /\ gf'.times = gf.times /\ gf'.since = gf.since /\ gf'.testing = gf.testing /\ gf'.mux = gf.mux
      /\ gf'.clock = gf.clock /\ gf'.reports = gf.reports /\ gf'.success = gf.success
      /\ gf'.counted = gf.counted /\ gf'.decided = gf.decided /\ gf'.pc = [gf.pc EXCEPT ![g] = "clear"]
      /\ gf'.reg = gf.reg
  BY <1>1, FailuresShape
<1>4. gf.pc \in [Reporters -> States] /\ gf.reg \in [Reporters -> Nat] /\ gf.times \in Nat /\ gf.clock \in Nat
  BY FailuresShape
<1>5. CountsAlone'
  BY <1>1, <1>3, <1>4, CoordinationAssumption DEF FailuresInv, CountsAlone
<1>6. SomebodyResets'
  BY <1>1, <1>3, <1>4, CoordinationAssumption DEF FailuresInv, SomebodyResets
<1>7. CounterIsCovered'
  BY <1>1, <1>3, <1>4, CounterKept
<1>8. BurstBefore'
  BY <1>1, <1>3, <1>4, BurstKept, CoordinationAssumption DEF FailuresInv, CountsAlone
<1>9. QED
  BY <1>2, <1>5, <1>6, <1>7, <1>8 DEF FailuresInv

LEMMA ClearTestingStep == ASSUME FailuresInv, NEW g \in Reporters, HC!ClearTesting(g) PROVE FailuresInv'
<1>1. /\ gf.pc[g] = "clear"
      /\ gf' = [gf EXCEPT !.testing = FALSE, !.pc = [gf.pc EXCEPT ![g] = "zero"]]
  BY FailuresShape DEF HC!ClearTesting, HC!At
<1>2. FailuresType'
  BY <1>1, FailuresShape DEF FailuresInv, FailuresType, States
<1>3. /\ gf'.times = gf.times /\ gf'.since = gf.since /\ gf'.testing = FALSE /\ gf'.mux = gf.mux
      /\ gf'.clock = gf.clock /\ gf'.reports = gf.reports /\ gf'.success = gf.success
      /\ gf'.counted = gf.counted /\ gf'.decided = gf.decided /\ gf'.pc = [gf.pc EXCEPT ![g] = "zero"]
      /\ gf'.reg = gf.reg
  BY <1>1, FailuresShape
<1>4. gf.pc \in [Reporters -> States] /\ gf.reg \in [Reporters -> Nat] /\ gf.times \in Nat /\ gf.clock \in Nat
  BY FailuresShape
<1>5. CountsAlone'
  BY <1>1, <1>3, <1>4, CoordinationAssumption DEF FailuresInv, CountsAlone
<1>6. SomebodyResets'
  BY <1>1, <1>3, <1>4, CoordinationAssumption DEF FailuresInv, SomebodyResets
<1>7. CounterIsCovered'
  BY <1>1, <1>3, <1>4, CounterKept
<1>8. BurstBefore'
  BY <1>1, <1>3, <1>4, BurstKept, CoordinationAssumption DEF FailuresInv, CountsAlone
<1>9. QED
  BY <1>2, <1>5, <1>6, <1>7, <1>8 DEF FailuresInv

LEMMA ResetTimesStep == ASSUME FailuresInv, NEW g \in Reporters, HC!ResetTimes(g) PROVE FailuresInv'
<1>1. /\ gf.pc[g] = "zero"
      /\ gf' = [gf EXCEPT !.times = 0, !.pc = [gf.pc EXCEPT ![g] = "end"]]
  BY FailuresShape DEF HC!ResetTimes, HC!At
<1>2. FailuresType'
  BY <1>1, FailuresShape DEF FailuresInv, FailuresType, States
<1>3. /\ gf'.times = 0 /\ gf'.since = gf.since /\ gf'.testing = gf.testing /\ gf'.mux = gf.mux
      /\ gf'.clock = gf.clock /\ gf'.reports = gf.reports /\ gf'.success = gf.success
      /\ gf'.counted = gf.counted /\ gf'.decided = gf.decided /\ gf'.pc = [gf.pc EXCEPT ![g] = "end"]
      /\ gf'.reg = gf.reg
  BY <1>1, FailuresShape
<1>4. gf.pc \in [Reporters -> States] /\ gf.reg \in [Reporters -> Nat] /\ gf.times \in Nat /\ gf.clock \in Nat
  BY FailuresShape
<1>5. CountsAlone'
  BY <1>1, <1>3, <1>4, CoordinationAssumption DEF FailuresInv, CountsAlone
<1>6. SomebodyResets'
  BY <1>1, <1>3, <1>4, CoordinationAssumption DEF FailuresInv, SomebodyResets
<1>7. CounterIsCovered'
  BY <1>1, <1>3, <1>4, CounterKept
<1>8. BurstBefore'
  BY <1>1, <1>3, <1>4, BurstKept, CoordinationAssumption DEF FailuresInv, CountsAlone
<1>9. QED
  BY <1>2, <1>5, <1>6, <1>7, <1>8 DEF FailuresInv

LEMMA SuccessStep == ASSUME FailuresInv, HC!OnDialSuccess PROVE FailuresInv'
<1>1. /\ TRUE
      /\ gf' = [gf EXCEPT !.success = TRUE]
  BY FailuresShape DEF HC!OnDialSuccess, HC!At
<1>2. FailuresType'
  BY <1>1, FailuresShape DEF FailuresInv, FailuresType, States
<1>3. /\ gf'.times = gf.times /\ gf'.since = gf.since /\ gf'.testing = gf.testing /\ gf'.mux = gf.mux
      /\ gf'.clock = gf.clock /\ gf'.reports = gf.reports /\ gf'.success = TRUE /\ gf'.counted = gf.counted
      /\ gf'.decided = gf.decided /\ gf'.pc = gf.pc /\ gf'.reg = gf.reg
  BY <1>1, FailuresShape
<1>4. gf.pc \in [Reporters -> States] /\ gf.reg \in [Reporters -> Nat] /\ gf.times \in Nat /\ gf.clock \in Nat
  BY FailuresShape
<1>5. CountsAlone'
  BY <1>1, <1>3, <1>4, CoordinationAssumption DEF FailuresInv, CountsAlone
<1>6. SomebodyResets'
  BY <1>1, <1>3, <1>4, CoordinationAssumption DEF FailuresInv, SomebodyResets
<1>7. CounterIsCovered'
  BY <1>1, <1>3, <1>4, CounterKept
<1>8. BurstBefore'
  BY <1>1, <1>3, <1>4, BurstKept, CoordinationAssumption DEF FailuresInv, CountsAlone
<1>9. QED
  BY <1>2, <1>5, <1>6, <1>7, <1>8 DEF FailuresInv

LEMMA SuccessResetsStep == ASSUME FailuresInv, HC!SuccessResets PROVE FailuresInv'
<1>1. /\ TRUE
      /\ gf' = [gf EXCEPT !.success = FALSE, !.times = 0]
  BY FailuresShape DEF HC!SuccessResets, HC!At
<1>2. FailuresType'
  BY <1>1, FailuresShape DEF FailuresInv, FailuresType, States
<1>3. /\ gf'.times = 0 /\ gf'.since = gf.since /\ gf'.testing = gf.testing /\ gf'.mux = gf.mux
      /\ gf'.clock = gf.clock /\ gf'.reports = gf.reports /\ gf'.success = FALSE /\ gf'.counted = gf.counted
      /\ gf'.decided = gf.decided /\ gf'.pc = gf.pc /\ gf'.reg = gf.reg
  BY <1>1, FailuresShape
<1>4. gf.pc \in [Reporters -> States] /\ gf.reg \in [Reporters -> Nat] /\ gf.times \in Nat /\ gf.clock \in Nat
  BY FailuresShape
<1>5. CountsAlone'
  BY <1>1, <1>3, <1>4, CoordinationAssumption DEF FailuresInv, CountsAlone
<1>6. SomebodyResets'
  BY <1>1, <1>3, <1>4, CoordinationAssumption DEF FailuresInv, SomebodyResets
<1>7. CounterIsCovered'
  BY <1>1, <1>3, <1>4, CounterKept
<1>8. BurstBefore'
  BY <1>1, <1>3, <1>4, BurstKept, CoordinationAssumption DEF FailuresInv, CountsAlone
<1>9. QED
  BY <1>2, <1>5, <1>6, <1>7, <1>8 DEF FailuresInv

LEMMA TickStep == ASSUME FailuresInv, HC!Tick PROVE FailuresInv'
<1>0. PICK n \in Nat : n = gf.clock + 1
  BY SumIsNat, FailuresShape DEF FailuresInv, FailuresType
<1>1. /\ TRUE
      /\ gf' = [gf EXCEPT !.clock = n]
  BY <1>0, FailuresShape DEF HC!Tick, HC!At
<1>2. FailuresType'
  BY <1>0, <1>1, FailuresShape DEF FailuresInv, FailuresType, States
<1>3. /\ gf'.times = gf.times /\ gf'.since = gf.since /\ gf'.testing = gf.testing /\ gf'.mux = gf.mux
      /\ gf'.clock = n /\ gf'.reports = gf.reports /\ gf'.success = gf.success /\ gf'.counted = gf.counted
      /\ gf'.decided = gf.decided /\ gf'.pc = gf.pc /\ gf'.reg = gf.reg
  BY <1>1, FailuresShape
<1>4. gf.pc \in [Reporters -> States] /\ gf.reg \in [Reporters -> Nat] /\ gf.times \in Nat /\ gf.clock \in Nat
  BY FailuresShape
<1>5. CountsAlone'
  BY <1>1, <1>3, <1>4, CoordinationAssumption DEF FailuresInv, CountsAlone
<1>6. SomebodyResets'
  BY <1>1, <1>3, <1>4, CoordinationAssumption DEF FailuresInv, SomebodyResets
<1>7. CounterIsCovered'
  BY <1>0, <1>1, <1>3, <1>4, CounterKept
<1>8. BurstBefore'
  BY <1>1, <1>3, <1>4, BurstKept, CoordinationAssumption DEF FailuresInv, CountsAlone
<1>9. QED
  BY <1>2, <1>5, <1>6, <1>7, <1>8 DEF FailuresInv

LEMMA WriteTimesStep == ASSUME FailuresInv, NEW g \in Reporters, HC!WriteTimes(g) PROVE FailuresInv'
<1>0. PICK n \in Nat : n = gf.reg[g] + 1
  BY SumIsNat, FailuresShape DEF FailuresInv, FailuresType
<1>1. /\ gf.pc[g] = "write"
      /\ gf' = [gf EXCEPT !.times = n, !.pc = [gf.pc EXCEPT ![g] = "decide"], !.reg = [gf.reg EXCEPT ![g] = 0]]
  BY <1>0, FailuresShape DEF HC!WriteTimes, HC!At
<1>2. FailuresType'
  BY <1>0, <1>1, FailuresShape DEF FailuresInv, FailuresType, States
<1>3. /\ gf'.times = n /\ gf'.since = gf.since /\ gf'.testing = gf.testing /\ gf'.mux = gf.mux
      /\ gf'.clock = gf.clock /\ gf'.reports = gf.reports /\ gf'.success = gf.success
      /\ gf'.counted = gf.counted /\ gf'.decided = gf.decided /\ gf'.pc = [gf.pc EXCEPT ![g] = "decide"]
      /\ gf'.reg = [gf.reg EXCEPT ![g] = 0]
  BY <1>1, FailuresShape
<1>4. gf.pc \in [Reporters -> States] /\ gf.reg \in [Reporters -> Nat] /\ gf.times \in Nat /\ gf.clock \in Nat
  BY FailuresShape
<1>5. CountsAlone'
  BY <1>1, <1>3, <1>4, CoordinationAssumption DEF FailuresInv, CountsAlone
<1>6. SomebodyResets'
  BY <1>1, <1>3, <1>4, CoordinationAssumption DEF FailuresInv, SomebodyResets
<1>7. CounterIsCovered'
  <2>1. PICK k \in Nat : k = CountSince(gf.counted, gf.since)
    BY FailuresShape
  <2>2. gf.reg[g] \in Nat /\ gf.reg[g] <= k /\ gf.since <= gf.clock
        /\ \A h \in Reporters : gf.pc[h] = "write" => gf.reg[h] <= k
    BY <1>1, <1>4, <2>1 DEF FailuresInv, CounterIsCovered
  <2>3. n <= k + 1
    BY <1>0, <2>2
  <2>4. \A h \in Reporters : gf'.pc[h] = "write" => gf.pc[h] = "write" /\ gf'.reg[h] = gf.reg[h]
    BY <1>3, <1>4
  <2>5. gf'.pc[g] = "decide"
    BY <1>3, <1>4
  <2>6. QED
    BY <1>3, <2>1, <2>2, <2>3, <2>4, <2>5 DEF CounterIsCovered
<1>8. BurstBefore'
  BY <1>1, <1>3, <1>4, BurstKept, CoordinationAssumption DEF FailuresInv, CountsAlone
<1>9. QED
  BY <1>2, <1>5, <1>6, <1>7, <1>8 DEF FailuresInv

LEMMA ReadTimesStep == ASSUME FailuresInv, NEW g \in Reporters, HC!ReadTimes(g) PROVE FailuresInv'
<1>1. /\ gf.pc[g] = "read"
      /\ gf' = [gf EXCEPT !.pc = [gf.pc EXCEPT ![g] = "write"], !.reg = [gf.reg EXCEPT ![g] = gf.times]]
  BY FailuresShape DEF HC!ReadTimes, HC!At
<1>2. FailuresType'
  BY <1>1, FailuresShape DEF FailuresInv, FailuresType, States
<1>3. /\ gf'.times = gf.times /\ gf'.since = gf.since /\ gf'.testing = gf.testing /\ gf'.mux = gf.mux
      /\ gf'.clock = gf.clock /\ gf'.reports = gf.reports /\ gf'.success = gf.success
      /\ gf'.counted = gf.counted /\ gf'.decided = gf.decided /\ gf'.pc = [gf.pc EXCEPT ![g] = "write"]
      /\ gf'.reg = [gf.reg EXCEPT ![g] = gf.times]
  BY <1>1, FailuresShape
<1>4. gf.pc \in [Reporters -> States] /\ gf.reg \in [Reporters -> Nat] /\ gf.times \in Nat /\ gf.clock \in Nat
  BY FailuresShape
<1>5. CountsAlone'
  BY <1>1, <1>3, <1>4, CoordinationAssumption DEF FailuresInv, CountsAlone
<1>6. SomebodyResets'
  BY <1>1, <1>3, <1>4, CoordinationAssumption DEF FailuresInv, SomebodyResets
<1>7. CounterIsCovered'
  <2>1. PICK k \in Nat : k = CountSince(gf.counted, gf.since)
    BY FailuresShape
  <2>2. \A h \in Reporters : gf.pc[h] # "decide"
    BY <1>1 DEF FailuresInv, CountsAlone
  <2>3. gf.times <= k /\ gf.since <= gf.clock /\ \A h \in Reporters : gf.pc[h] = "write" => gf.reg[h] <= k
    BY <2>1, <2>2 DEF FailuresInv, CounterIsCovered
  <2>4. \A h \in Reporters : gf'.pc[h] = "write" => gf'.reg[h] <= k
    BY <1>3, <1>4, <2>3
  <2>5. k <= k + 1 /\ gf.times <= k + 1
    BY <1>4, <2>3
  <2>6. QED
    BY <1>3, <2>1, <2>3, <2>4, <2>5 DEF CounterIsCovered
<1>8. BurstBefore'
  BY <1>1, <1>3, <1>4, BurstKept, CoordinationAssumption DEF FailuresInv, CountsAlone
<1>9. QED
  BY <1>2, <1>5, <1>6, <1>7, <1>8 DEF FailuresInv

LEMMA LoadTestingStep == ASSUME FailuresInv, NEW g \in Reporters, HC!LoadTesting(g) PROVE FailuresInv'
<1>0. PICK x \in {"end", "mark"} : x = IF gf.testing THEN "end" ELSE "mark"
  OBVIOUS
<1>1. gf.pc[g] = "check" /\ gf' = [gf EXCEPT !.pc = [gf.pc EXCEPT ![g] = x]]
  BY <1>0, FailuresShape DEF HC!LoadTesting, HC!At
<1>2. FailuresType'
  BY <1>1, FailuresShape DEF FailuresInv, FailuresType, States
<1>3. /\ gf'.times = gf.times /\ gf'.since = gf.since /\ gf'.testing = gf.testing /\ gf'.mux = gf.mux
      /\ gf'.clock = gf.clock /\ gf'.counted = gf.counted /\ gf'.decided = gf.decided
      /\ gf'.pc = [gf.pc EXCEPT ![g] = x] /\ gf'.reg = gf.reg
  BY <1>1, FailuresShape
<1>4. gf.pc \in [Reporters -> States] /\ gf.times \in Nat /\ gf.clock \in Nat /\ gf.testing \in BOOLEAN
  BY FailuresShape
<1>5. CountsAlone'
  BY <1>1, <1>3, <1>4 DEF FailuresInv, CountsAlone
<1>6. SomebodyResets'
  <2>1. CASE gf.testing
    <3>1. PICK h \in Reporters : gf.pc[h] \in {"run", "clear"}
      BY <2>1 DEF FailuresInv, SomebodyResets
    <3>2. gf'.pc[h] \in {"run", "clear"}
      BY <3>1, <1>1, <1>3, <1>4
    <3>3. QED
      BY <3>2 DEF SomebodyResets
  <2>2. CASE ~gf.testing
    <3>1. gf'.pc[g] = "mark" /\ ~gf'.testing
      BY <2>2, <1>0, <1>3, <1>4
    <3>2. QED
      BY <3>1 DEF SomebodyResets
  <2>3. QED
    BY <2>1, <2>2
<1>7. CounterIsCovered'
  BY <1>1, <1>3, <1>4, CounterKept
<1>8. BurstBefore'
  BY <1>1, <1>3, <1>4, BurstKept
<1>9. QED
  BY <1>2, <1>5, <1>6, <1>7, <1>8 DEF FailuresInv

LEMMA OnDialFailedStep == ASSUME FailuresInv, NEW g \in Reporters, HC!OnDialFailed(g) PROVE FailuresInv'
<1>1. PICK x \in {"check", "lock"} :
        gf.pc[g] = "idle" /\ gf' = [gf EXCEPT !.pc = [gf.pc EXCEPT ![g] = x], !.reports = gf.reports + 1]
  BY FailuresShape DEF HC!OnDialFailed, HC!At
<1>0. gf.reports + 1 \in Nat
  BY FailuresShape
<1>2. FailuresType'
  BY <1>0, <1>1, FailuresShape DEF FailuresInv, FailuresType, States
<1>3. /\ gf'.times = gf.times /\ gf'.since = gf.since /\ gf'.testing = gf.testing /\ gf'.mux = gf.mux
      /\ gf'.clock = gf.clock /\ gf'.counted = gf.counted /\ gf'.decided = gf.decided
      /\ gf'.pc = [gf.pc EXCEPT ![g] = x] /\ gf'.reg = gf.reg
  BY <1>1, FailuresShape
<1>4. gf.pc \in [Reporters -> States] /\ gf.times \in Nat /\ gf.clock \in Nat /\ gf.mux # g
  BY <1>1, FailuresShape DEF FailuresInv, CountsAlone
<1>5. CountsAlone'
  BY <1>1, <1>3, <1>4 DEF FailuresInv, CountsAlone
<1>6. SomebodyResets'
  BY <1>1, <1>3, <1>4 DEF FailuresInv, SomebodyResets
<1>7. CounterIsCovered'
  BY <1>1, <1>3, <1>4, CounterKept
<1>8. BurstBefore'
  BY <1>1, <1>3, <1>4, BurstKept
<1>9. QED
  BY <1>2, <1>5, <1>6, <1>7, <1>8 DEF FailuresInv

\* The decision, in its four branches: what the failure adds to the count, and
\* what the counter was, decide whether a check is due.
LEMMA DecideStep == ASSUME FailuresInv, NEW g \in Reporters, HC!Decide(g) PROVE FailuresInv'
<1>1. PICK t \in Nat, s \in Int, x \in {"check", "end"}, d \in Nat :
        /\ gf' = [gf EXCEPT !.times = t, !.since = s, !.pc = [gf.pc EXCEPT ![g] = x], !.decided = d,
                            !.counted = Append(gf.counted, gf.clock)]
        /\ \/ gf.times = 1 /\ t = 1 /\ s = gf.clock /\ x = "end" /\ d = gf.decided
           \/ gf.times # 1 /\ t = 0 /\ s = gf.since /\ x = "end" /\ d = gf.decided
           \/ /\ gf.times # 1 /\ gf.clock - gf.since <= FailInterval /\ gf.times >= MaxFailed
              /\ t = gf.times /\ s = gf.since /\ x = "check" /\ d = gf.clock
           \/ /\ gf.times # 1 /\ gf.times < MaxFailed
              /\ t = gf.times /\ s = gf.since /\ x = "end" /\ d = gf.decided
  <2>1. /\ gf.times \in Nat /\ 0 \in Nat /\ 1 \in Nat /\ gf.since \in Int /\ gf.clock \in Int /\ gf.clock \in Nat
        /\ gf.decided \in Nat /\ FailInterval \in Nat
    BY FailuresShape, CoordinationAssumption
  <2>2. CASE /\ gf.times = 1
             /\ gf' = [gf EXCEPT !.since = gf.clock, !.pc[g] = "end", !.counted = HC!Counted]
    BY <2>1, <2>2, FailuresShape DEF HC!Counted
  <2>3. CASE /\ gf.times # 1 /\ gf.clock - gf.since > FailInterval
             /\ gf' = [gf EXCEPT !.times = 0, !.pc[g] = "end", !.counted = HC!Counted]
    BY <2>1, <2>3, FailuresShape DEF HC!Counted
  <2>4. CASE /\ gf.times # 1 /\ ~(gf.clock - gf.since > FailInterval) /\ gf.times >= MaxFailed
             /\ gf' = [gf EXCEPT !.pc[g] = "check", !.decided = gf.clock, !.counted = HC!Counted]
    <3>1. gf.clock - gf.since <= FailInterval
      BY <2>1, <2>4
    <3>2. QED
      BY <2>1, <2>4, <3>1, FailuresShape DEF HC!Counted
  <2>5. CASE /\ gf.times # 1 /\ gf.times < MaxFailed
             /\ gf' = [gf EXCEPT !.pc[g] = "end", !.counted = HC!Counted]
    BY <2>1, <2>5, FailuresShape DEF HC!Counted
  <2>6. QED
    BY <2>2, <2>3, <2>4, <2>5 DEF HC!Decide
<1>2. gf.pc[g] = "decide" /\ gf.mux = g
  BY DEF HC!Decide, HC!At, FailuresInv, CountsAlone
<1>3. /\ gf'.times = t /\ gf'.since = s /\ gf'.testing = gf.testing /\ gf'.mux = gf.mux /\ gf'.clock = gf.clock
      /\ gf'.counted = Append(gf.counted, gf.clock) /\ gf'.decided = d
      /\ gf'.pc = [gf.pc EXCEPT ![g] = x] /\ gf'.reg = gf.reg
  BY <1>1, FailuresShape
<1>4. /\ gf.pc \in [Reporters -> States] /\ gf.times \in Nat /\ gf.clock \in Nat /\ gf.since \in Int
      /\ gf.counted \in Seq(Nat) /\ Append(gf.counted, gf.clock) \in Seq(Nat)
  BY FailuresShape
<1>5. FailuresType'
  BY <1>1, <1>4, FailuresShape DEF FailuresInv, FailuresType, States
<1>6. CountsAlone'
  BY <1>2, <1>3, <1>4 DEF FailuresInv, CountsAlone
<1>7. SomebodyResets'
  BY <1>1, <1>2, <1>3, <1>4, CoordinationAssumption DEF FailuresInv, SomebodyResets
<1>8. PICK k \in Nat : k = CountSince(gf.counted, gf.since)
  BY FailuresShape
<1>9. gf.since <= gf.clock /\ gf.times <= k + 1
  BY <1>8 DEF FailuresInv, CounterIsCovered
<1>10. PICK m \in Nat : m = CountSince(Append(gf.counted, gf.clock), s)
  BY <1>4, CountIsNat
<1>11. s <= gf.clock /\ (s # gf.since => m >= 1) /\ (s = gf.since => m = k + 1)
  <2>1. s <= gf.clock /\ s \in Int
    BY <1>1, <1>4, <1>9
  <2>2. m = CountSince(gf.counted, s) + 1 /\ CountSince(gf.counted, s) \in Nat
    BY <2>1, <1>4, <1>10, CountAppend, CountIsNat
  <2>3. QED
    BY <2>1, <2>2, <1>8
<1>12. t <= m
  <2>1. CASE gf.times = 1 /\ t = 1 /\ s = gf.clock
    BY <2>1, <1>8, <1>11
  <2>2. CASE s = gf.since /\ (t = 0 \/ t = gf.times)
    BY <2>2, <1>4, <1>9, <1>11
  <2>3. QED
    BY <2>1, <2>2, <1>1
<1>13. CounterIsCovered'
  <2>1. \A h \in Reporters : gf'.pc[h] # "write"
    BY <1>2, <1>3, <1>4 DEF FailuresInv, CountsAlone
  <2>2. t <= m + 1
    BY <1>12
  <2>3. QED
    BY <2>1, <2>2, <1>3, <1>10, <1>11, <1>12 DEF CounterIsCovered
<1>14. BurstBefore'
  <2>1. SUFFICES ASSUME NEW h \in Reporters, gf'.pc[h] = "check", gf'.mux = h
                 PROVE  CountSince(gf'.counted, gf'.decided - FailInterval) >= MaxFailed
    BY DEF BurstBefore
  <2>2. h = g /\ x = "check"
    BY <2>1, <1>2, <1>3, <1>4
  <2>3. /\ gf.clock - gf.since <= FailInterval /\ gf.times >= MaxFailed /\ t = gf.times /\ s = gf.since
        /\ d = gf.clock
    BY <2>2, <1>1
  <2>4. PICK e \in Int : e = d - FailInterval
    BY CoordinationAssumption
  <2>5. e <= s
    BY <2>3, <2>4, <1>4, CoordinationAssumption
  <2>6. m <= CountSince(Append(gf.counted, gf.clock), e) /\ CountSince(Append(gf.counted, gf.clock), e) \in Nat
    BY <2>5, <1>4, <1>10, CountFromEarlier, CountIsNat
  <2>7. PICK y \in Nat : y = CountSince(Append(gf.counted, gf.clock), e)
    BY <2>6
  <2>8. y >= MaxFailed
    BY <2>3, <2>6, <2>7, <1>12, CoordinationAssumption
  <2>9. QED
    BY <2>4, <2>7, <2>8, <1>3
<1>15. QED
  BY <1>5, <1>6, <1>7, <1>13, <1>14 DEF FailuresInv

LEMMA FailuresStep == ASSUME FailuresInv, HC!FailuresNext PROVE FailuresInv'
BY LockStep, EndStep, SetTestingStep, CheckedStep, ClearTestingStep, ResetTimesStep, SuccessStep, SuccessResetsStep,
   TickStep, WriteTimesStep, ReadTimesStep, LoadTestingStep, OnDialFailedStep, DecideStep
   DEF HC!FailuresNext, HC!Works

LEMMA FailuresRight == ASSUME FailuresInv PROVE HC!CheckMeansBurst /\ HC!NoBurstForgotten
<1>1. HC!CheckMeansBurst
  BY SameCardinality DEF FailuresInv, BurstBefore, CountSince, HC!CheckMeansBurst, HC!At
<1>2. HC!NoBurstForgotten
  BY FailuresShape, CoordinationAssumption DEF FailuresInv, SomebodyResets, HC!NoBurstForgotten, HC!At
<1>3. QED
  BY <1>1, <1>2

-----------------------------------------------------------------------------
(* The log *)

\* Growing numbers, from lo on and below hi.
Growing(q, lo, hi) ==
  /\ q \in Seq(Nat)
  /\ \A i \in 1 .. Len(q) : lo <= q[i] /\ q[i] < hi
  /\ \A i, j \in 1 .. Len(q) : i < j => q[i] < q[j]

LEMMA GrowingTail ==
  ASSUME NEW q, NEW lo \in Nat, NEW hi \in Nat, Growing(q, lo, hi), q # << >>
  PROVE  Head(q) \in Nat /\ lo <= Head(q) /\ Head(q) < hi /\ Growing(Tail(q), Head(q) + 1, hi)
<1>1. /\ q \in Seq(Nat) /\ Len(q) \in Nat /\ Len(q) > 0 /\ Head(q) = q[1]
      /\ Tail(q) \in Seq(Nat) /\ Len(Tail(q)) = Len(q) - 1
  BY DEF Growing
<1>2. \A i \in 1 .. Len(Tail(q)) : Tail(q)[i] = q[i + 1]
  BY <1>1
<1>3. \A i \in 1 .. Len(Tail(q)) : i + 1 \in 1 .. Len(q) /\ 1 < i + 1
  BY <1>1
<1>4. 1 \in 1 .. Len(q) /\ \A i \in 1 .. Len(q) : q[i] \in Nat
  BY <1>1
<1>5. \A i \in 1 .. Len(Tail(q)) : Head(q) + 1 <= Tail(q)[i] /\ Tail(q)[i] < hi
  BY <1>1, <1>2, <1>3, <1>4 DEF Growing
<1>6. \A i, j \in 1 .. Len(Tail(q)) : i < j => Tail(q)[i] < Tail(q)[j]
  BY <1>1, <1>2, <1>3 DEF Growing
<1>7. QED
  BY <1>1, <1>4, <1>5, <1>6 DEF Growing

LEMMA GrowingAppend ==
  ASSUME NEW q, NEW lo \in Nat, NEW hi \in Nat, Growing(q, lo, hi), NEW e \in Nat, hi <= e, lo <= e
  PROVE  Growing(Append(q, e), lo, e + 1)
<1>1. /\ q \in Seq(Nat) /\ Append(q, e) \in Seq(Nat) /\ Len(Append(q, e)) = Len(q) + 1 /\ Len(q) \in Nat
      /\ \A i \in 1 .. Len(q) : Append(q, e)[i] = q[i] /\ q[i] \in Nat
      /\ Append(q, e)[Len(q) + 1] = e
  BY DEF Growing
<1>2. \A i \in 1 .. Len(Append(q, e)) : i \in 1 .. Len(q) \/ i = Len(q) + 1
  BY <1>1
<1>3. QED
  BY <1>1, <1>2 DEF Growing

LEMMA GrowingWider ==
  ASSUME NEW q, NEW lo \in Nat, NEW hi \in Nat, NEW h \in Nat, Growing(q, lo, hi), hi <= h
  PROVE  Growing(q, lo, h)
BY DEF Growing

LogClient ==
  [pc : {"new", "serve", "leave", "gone"}, buffer : Seq(Nat), closed : BOOLEAN, queue : Seq(Nat),
   last : Nat, ordered : BOOLEAN]

LogType ==
  ls \in [calls : Nat, events : Nat, sending : SUBSET LogWriters, mux : BOOLEAN, item : Nat,
          todo : SUBSET LogClients, listener : SUBSET LogClients, panicked : BOOLEAN,
          client : [LogClients -> LogClient]]

\* The process copies the newest event, to clients that it found subscribed.
LogSubscribers ==
  /\ ls.item <= ls.events
  /\ ls.mux => ls.item = ls.events
  /\ ls.todo # {} => ls.mux
  /\ ls.todo \subseteq ls.listener
  /\ \A c \in LogClients : c \in ls.listener <=> ls.client[c].pc \in {"serve", "leave"}
  /\ \A c \in LogClients : ls.client[c].closed => ls.client[c].pc = "gone"
  /\ ~ls.panicked

\* The first event that a client has not been given yet.
Next1(c) == IF c \in ls.todo THEN ls.item ELSE ls.events + 1

\* What a client got, what is queued for it and what is in its buffer follow
\* each other.
InOrder(k, hi) ==
  /\ k.ordered
  /\ \E m \in Nat : k.last + 1 <= m /\ m <= hi /\ Growing(k.queue, k.last + 1, m) /\ Growing(k.buffer, m, hi)

LogOrdered == \A c \in LogClients : InOrder(ls.client[c], Next1(c))

LogInv == LogType /\ LogSubscribers /\ LogOrdered

LEMMA LogInitially == ASSUME LS!Init PROVE LogInv
<1>1. LogType
  BY DEF LS!Init, LogType, LogClient
<1>2. LogSubscribers
  BY DEF LS!Init, LogSubscribers
<1>3. ASSUME NEW c \in LogClients PROVE InOrder(ls.client[c], Next1(c))
  <2>1. /\ ls.client[c].ordered /\ ls.client[c].last = 0 /\ ls.client[c].queue = << >>
        /\ ls.client[c].buffer = << >> /\ Next1(c) = 1
    BY <1>3 DEF LS!Init, Next1
  <2>2. Growing(<< >>, 1, 1)
    BY DEF Growing
  <2>3. QED
    BY <2>1, <2>2 DEF InOrder
<1>4. QED
  BY <1>1, <1>2, <1>3 DEF LogInv, LogOrdered

\* A step that changes one client, the process aside: the client becomes k, the
\* subscribers l, and t is what is left for the process to do.
LogMoves(c, k, l, t) ==
  /\ ls' = [ls EXCEPT !.client = [ls.client EXCEPT ![c] = k], !.listener = l, !.todo = t]
  /\ \A d \in LogClients \ {c} : (d \in l <=> d \in ls.listener) /\ (d \in t <=> d \in ls.todo)
  /\ c \in l <=> k.pc \in {"serve", "leave"}
  /\ k.closed => k.pc = "gone"
  /\ t \subseteq l /\ t \subseteq ls.todo /\ l \subseteq LogClients
  /\ InOrder(k, IF c \in t THEN ls.item ELSE ls.events + 1)

LEMMA LogClientStep ==
  ASSUME LogInv, NEW c \in LogClients, NEW k \in LogClient, NEW l, NEW t, LogMoves(c, k, l, t)
  PROVE  LogInv'
<1>1. /\ ls'.client = [ls.client EXCEPT ![c] = k] /\ ls'.listener = l /\ ls'.todo = t /\ ls'.item = ls.item
      /\ ls'.events = ls.events /\ ls'.mux = ls.mux /\ ls'.panicked = ls.panicked
      /\ ls.client \in [LogClients -> LogClient] /\ ls.todo \subseteq LogClients
  BY DEF LogInv, LogType, LogMoves
<1>2. LogType'
  BY <1>1 DEF LogInv, LogType, LogMoves
<1>3. LogSubscribers'
  BY <1>1 DEF LogInv, LogSubscribers, LogMoves
<1>4. ASSUME NEW d \in LogClients PROVE InOrder(ls'.client[d], IF d \in ls'.todo THEN ls'.item ELSE ls'.events + 1)
  <2>1. CASE d = c
    BY <1>1, <2>1 DEF LogMoves
  <2>2. CASE d # c
    BY <1>1, <2>2 DEF LogInv, LogOrdered, Next1, LogMoves
  <2>3. QED
    BY <2>1, <2>2
<1>5. QED
  BY <1>2, <1>3, <1>4 DEF LogInv, LogOrdered, Next1, InOrder

\* A wider bound of what a client may have in its buffer.
LEMMA InOrderWider ==
  ASSUME NEW k, NEW hi \in Nat, NEW h \in Nat, hi <= h, k.last \in Nat, InOrder(k, hi)
  PROVE  InOrder(k, h)
<1>1. PICK m \in Nat : k.last + 1 <= m /\ m <= hi /\ Growing(k.queue, k.last + 1, m) /\ Growing(k.buffer, m, hi)
  BY DEF InOrder
<1>2. Growing(k.buffer, m, h)
  BY <1>1, GrowingWider
<1>3. m <= h
  BY <1>1
<1>4. QED
  BY <1>1, <1>2, <1>3 DEF InOrder

\* A step of the process or of a log call, which changes no client.
LEMMA LogProcessStep ==
  ASSUME LogInv, LogType', ls'.client = ls.client, ls'.listener = ls.listener, ls'.panicked = ls.panicked,
         ls'.todo \subseteq ls.listener, ls'.todo # {} => ls'.mux, ls'.item <= ls'.events,
         ls'.mux => ls'.item = ls'.events,
         \A c \in LogClients : Next1(c) <= IF c \in ls'.todo THEN ls'.item ELSE ls'.events + 1
  PROVE  LogInv'
<1>1. LogSubscribers'
  BY DEF LogInv, LogSubscribers
<1>2. ASSUME NEW c \in LogClients PROVE InOrder(ls'.client[c], IF c \in ls'.todo THEN ls'.item ELSE ls'.events + 1)
  <2>1. /\ ls.item \in Nat /\ ls.events \in Nat /\ ls'.item \in Nat /\ ls'.events \in Nat
        /\ ls.client[c].last \in Nat
    BY <1>2 DEF LogInv, LogType, LogClient
  <2>2. Next1(c) \in Nat /\ (IF c \in ls'.todo THEN ls'.item ELSE ls'.events + 1) \in Nat
    BY <2>1 DEF Next1
  <2>3. InOrder(ls.client[c], Next1(c))
    BY <1>2 DEF LogInv, LogOrdered
  <2>4. Next1(c) <= IF c \in ls'.todo THEN ls'.item ELSE ls'.events + 1
    BY <1>2
  <2>5. QED
    BY <2>1, <2>2, <2>3, <2>4, InOrderWider
<1>3. QED
  BY <1>1, <1>2 DEF LogInv, LogOrdered, Next1

LEMMA LogProcess ==
  ASSUME LogInv, (\E w \in LogWriters : LS!Log(w) \/ LS!Receive(w)) \/ LS!Unlock
  PROVE  LogInv'
<1>1. /\ ls.item \in Nat /\ ls.events \in Nat /\ ls.calls \in Nat
      /\ ls = [calls |-> ls.calls, events |-> ls.events, sending |-> ls.sending, mux |-> ls.mux, item |-> ls.item,
               todo |-> ls.todo, listener |-> ls.listener, panicked |-> ls.panicked, client |-> ls.client]
  BY DEF LogInv, LogType
<1>2. CASE \E w \in LogWriters : LS!Log(w)
  <2>1. PICK w \in LogWriters : LS!Log(w)
    BY <1>2
  <2>2. LogType'
    <3>1. PICK n \in Nat : n = ls.calls + 1
      BY <1>1
    <3>2. ls' = [ls EXCEPT !.calls = n, !.sending = ls.sending \cup {w}]
      BY <2>1, <3>1 DEF LS!Log
    <3>3. QED
      BY <3>2 DEF LogInv, LogType
  <2>3. /\ ls'.client = ls.client /\ ls'.listener = ls.listener /\ ls'.panicked = ls.panicked
        /\ ls'.todo = ls.todo /\ ls'.mux = ls.mux /\ ls'.item = ls.item /\ ls'.events = ls.events
    BY <2>1, <1>1 DEF LS!Log
  <2>4. \A c \in LogClients : Next1(c) <= IF c \in ls'.todo THEN ls'.item ELSE ls'.events + 1
    BY <2>3, <1>1 DEF Next1
  <2>5. QED
    BY <2>2, <2>3, <2>4, LogProcessStep DEF LogInv, LogSubscribers
<1>3. CASE \E w \in LogWriters : LS!Receive(w)
  <2>1. PICK w \in LogWriters : LS!Receive(w)
    BY <1>3
  <2>2. LogType'
    <3>1. PICK n \in Nat : n = ls.events + 1
      BY <1>1
    <3>2. ls' = [ls EXCEPT !.events = n, !.item = n, !.sending = ls.sending \ {w}, !.mux = TRUE,
                           !.todo = ls.listener]
      BY <2>1, <3>1 DEF LS!Receive
    <3>3. QED
      BY <3>2 DEF LogInv, LogType
  <2>3. /\ ls'.client = ls.client /\ ls'.listener = ls.listener /\ ls'.panicked = ls.panicked
        /\ ls'.todo = ls.listener /\ ls'.mux = TRUE /\ ls'.item = ls.events + 1 /\ ls'.events = ls.events + 1
        /\ ls.mux = FALSE
    BY <2>1, <1>1 DEF LS!Receive, LogInv, LogType
  <2>4. \A c \in LogClients : Next1(c) <= IF c \in ls'.todo THEN ls'.item ELSE ls'.events + 1
    BY <2>3, <1>1 DEF Next1, LogInv, LogSubscribers
  <2>5. QED
    BY <2>2, <2>3, <2>4, <1>1, LogProcessStep
<1>4. CASE LS!Unlock
  <2>2. LogType'
    BY <1>4, <1>1 DEF LS!Unlock, LogInv, LogType
  <2>3. /\ ls'.client = ls.client /\ ls'.listener = ls.listener /\ ls'.panicked = ls.panicked
        /\ ls'.todo = {} /\ ls.todo = {} /\ ls'.mux = FALSE /\ ls'.item = 0 /\ ls'.events = ls.events
    BY <1>4, <1>1 DEF LS!Unlock
  <2>4. \A c \in LogClients : Next1(c) <= IF c \in ls'.todo THEN ls'.item ELSE ls'.events + 1
    BY <2>3, <1>1 DEF Next1
  <2>5. QED
    BY <2>2, <2>3, <2>4, <1>1, LogProcessStep
<1>5. QED
  BY <1>2, <1>3, <1>4

\* What a client has, field by field.
LEMMA LogShape ==
  ASSUME LogInv, NEW c \in LogClients
  PROVE  /\ ls = [calls |-> ls.calls, events |-> ls.events, sending |-> ls.sending, mux |-> ls.mux, item |-> ls.item,
                  todo |-> ls.todo, listener |-> ls.listener, panicked |-> ls.panicked, client |-> ls.client]
         /\ ls.client[c] \in LogClient /\ ls.client \in [LogClients -> LogClient]
         /\ ls.client[c].pc \in {"new", "serve", "leave", "gone"} /\ ls.client[c].closed \in BOOLEAN
         /\ ls.client[c].buffer \in Seq(Nat) /\ ls.client[c].queue \in Seq(Nat) /\ ls.client[c].last \in Nat
         /\ ls.item \in Nat /\ ls.events \in Nat
         /\ ls.todo \in SUBSET LogClients /\ ls.listener \in SUBSET LogClients
BY DEF LogInv, LogType, LogClient

LEMMA LogEmit ==
  ASSUME LogInv, NEW c \in LogClients, LS!Emit(c)
  PROVE  LogInv'
<1>1. c \in ls.todo /\ ls.mux /\ c \in ls.listener /\ ls.client[c].closed = FALSE /\ ls.item = ls.events
  BY LogShape DEF LS!Emit, LogInv, LogSubscribers
<1>2. ls.item \in Nat /\ ls.client[c].buffer \in Seq(Nat) /\ Append(ls.client[c].buffer, ls.item) \in Seq(Nat)
  BY LogShape
<1>3. PICK b \in Seq(Nat) : b = Append(ls.client[c].buffer, ls.item)
  BY <1>2
<1>4. PICK k : k = [ls.client[c] EXCEPT !.buffer = b]
  OBVIOUS
<1>5. /\ k \in LogClient /\ k.pc = ls.client[c].pc /\ k.closed = ls.client[c].closed /\ k.queue = ls.client[c].queue
      /\ k.last = ls.client[c].last /\ k.ordered = ls.client[c].ordered /\ k.buffer = b
  BY <1>3, <1>4, LogShape DEF LogClient
<1>6. ls' = [ls EXCEPT !.client = [ls.client EXCEPT ![c] = k], !.listener = ls.listener, !.todo = ls.todo \ {c}]
  BY <1>1, <1>3, <1>4, LogShape DEF LS!Emit
<1>7. InOrder(k, ls.events + 1)
  <2>1. InOrder(ls.client[c], ls.item)
    BY <1>1 DEF LogInv, LogOrdered, Next1
  <2>2. PICK m \in Nat : /\ ls.client[c].last + 1 <= m /\ m <= ls.item
                         /\ Growing(ls.client[c].queue, ls.client[c].last + 1, m)
                         /\ Growing(ls.client[c].buffer, m, ls.item)
    BY <2>1 DEF InOrder
  <2>3. Growing(b, m, ls.item + 1)
    BY <2>2, <1>2, <1>3, GrowingAppend
  <2>4. m <= ls.item + 1
    BY <2>2, <1>2
  <2>5. QED
    BY <2>1, <2>2, <2>3, <2>4, <1>1, <1>5 DEF InOrder
<1>8. c \in ls.listener <=> k.pc \in {"serve", "leave"}
  BY <1>5 DEF LogInv, LogSubscribers
<1>9. ls.todo \ {c} \in SUBSET ls.todo /\ ls.listener \in SUBSET LogClients /\ ls.todo \ {c} \subseteq ls.listener
  BY LogShape DEF LogInv, LogSubscribers
<1>10. k.closed => k.pc = "gone"
  BY <1>1, <1>5
<1>12. InOrder(k, IF c \in ls.todo \ {c} THEN ls.item ELSE ls.events + 1)
  BY <1>7
<1>13. \A d \in LogClients \ {c} : d \in ls.todo \ {c} <=> d \in ls.todo
  OBVIOUS
<1>14. LogMoves(c, k, ls.listener, ls.todo \ {c})
  BY <1>6, <1>8, <1>9, <1>10, <1>12, <1>13 DEF LogMoves
<1>11. QED
  BY <1>5, <1>14, LogClientStep

\* A step of the request alone: the buffer and the queue get shorter, or the
\* client comes or leaves.
LEMMA LogServe ==
  ASSUME LogInv, NEW c \in LogClients, LS!Serve(c)
  PROVE  LogInv'
<1> DEFINE s == ls.client[c]
           hi == IF c \in ls.todo THEN ls.item ELSE ls.events + 1
<1>1. /\ hi \in Nat /\ InOrder(s, hi) /\ (c \in ls.listener <=> s.pc \in {"serve", "leave"})
      /\ (s.closed => s.pc = "gone") /\ ls.todo \subseteq ls.listener /\ (ls.todo # {} => ls.mux)
  BY LogShape DEF LogInv, LogSubscribers, LogOrdered, Next1
<1>0. PICK x \in Nat : x = s.last
  BY LogShape
<1>2. PICK m \in Nat : /\ x + 1 <= m /\ m <= hi /\ Growing(s.queue, x + 1, m) /\ Growing(s.buffer, m, hi)
  BY <1>0, <1>1 DEF InOrder
<1>3. s \in LogClient /\ s.buffer \in Seq(Nat) /\ s.queue \in Seq(Nat) /\ s.last \in Nat
  BY LogShape
<1>4. CASE LS!Subscribe(c)
  <2>1. PICK k : k = [s EXCEPT !.pc = "serve"]
    OBVIOUS
  <2>2. /\ k \in LogClient /\ k.pc = "serve" /\ k.closed = s.closed /\ k.queue = s.queue
        /\ k.last = s.last /\ k.ordered = s.ordered /\ k.buffer = s.buffer
    BY <2>1, <1>3 DEF LogClient
  <2>3. ls' = [ls EXCEPT !.client = [ls.client EXCEPT ![c] = k], !.listener = ls.listener \cup {c}, !.todo = ls.todo]
    BY <2>1, <1>4, LogShape DEF LS!Subscribe
  <2>4. InOrder(k, hi)
    BY <2>2, <1>1 DEF InOrder
  <2>5. s.pc = "new"
    BY <1>4 DEF LS!Subscribe
  <2>6. ls.todo \in SUBSET ls.todo /\ ls.listener \cup {c} \in SUBSET LogClients /\ ls.todo \subseteq ls.listener \cup {c}
    BY <1>1, LogShape
  <2>7. k.closed => k.pc = "gone"
    BY <2>2, <2>5, <1>1
  <2>8. LogMoves(c, k, ls.listener \cup {c}, ls.todo)
    BY <2>2, <2>3, <2>4, <2>6, <2>7 DEF LogMoves
  <2>9. QED
    BY <2>2, <2>8, LogClientStep
<1>5. CASE LS!WriteFails(c)
  <2>1. PICK k : k = [s EXCEPT !.pc = "leave"]
    OBVIOUS
  <2>2. /\ k \in LogClient /\ k.pc = "leave" /\ k.closed = s.closed /\ k.queue = s.queue
        /\ k.last = s.last /\ k.ordered = s.ordered /\ k.buffer = s.buffer
    BY <2>1, <1>3 DEF LogClient
  <2>3. ls' = [ls EXCEPT !.client = [ls.client EXCEPT ![c] = k], !.listener = ls.listener, !.todo = ls.todo]
    BY <2>1, <1>5, LogShape DEF LS!WriteFails
  <2>4. InOrder(k, hi)
    BY <2>2, <1>1 DEF InOrder
  <2>5. s.pc = "serve"
    BY <1>5 DEF LS!WriteFails
  <2>6. ls.todo \in SUBSET ls.todo /\ ls.listener \in SUBSET LogClients
    BY LogShape
  <2>7. (k.closed => k.pc = "gone") /\ (c \in ls.listener <=> k.pc \in {"serve", "leave"})
    BY <2>2, <2>5, <1>1
  <2>8. LogMoves(c, k, ls.listener, ls.todo)
    BY <2>2, <2>3, <2>4, <2>6, <2>7, <1>1 DEF LogMoves
  <2>9. QED
    BY <2>2, <2>8, LogClientStep
<1>6. CASE LS!UnSubscribe(c)
  <2>1. PICK k : k = [s EXCEPT !.pc = "gone", !.closed = TRUE]
    OBVIOUS
  <2>2. /\ k \in LogClient /\ k.pc = "gone" /\ k.closed = TRUE /\ k.queue = s.queue
        /\ k.last = s.last /\ k.ordered = s.ordered /\ k.buffer = s.buffer
    BY <2>1, <1>3 DEF LogClient
  <2>3. ls' = [ls EXCEPT !.client = [ls.client EXCEPT ![c] = k], !.listener = ls.listener \ {c}, !.todo = ls.todo]
    BY <2>1, <1>6, LogShape DEF LS!UnSubscribe
  <2>4. InOrder(k, hi)
    BY <2>2, <1>1 DEF InOrder
  <2>5. ls.todo = {}
    BY <1>6, <1>1 DEF LS!UnSubscribe
  <2>6. ls.todo \in SUBSET ls.todo /\ ls.listener \ {c} \in SUBSET LogClients /\ ls.todo \subseteq ls.listener \ {c}
    BY <2>5, LogShape
  <2>8. LogMoves(c, k, ls.listener \ {c}, ls.todo)
    BY <2>2, <2>3, <2>4, <2>5, <2>6 DEF LogMoves
  <2>9. QED
    BY <2>2, <2>8, LogClientStep
<1>7. CASE LS!Drain(c)
  <2>0. PICK e : e = Head(s.buffer)
    OBVIOUS
  <2>1. /\ s.buffer # << >> /\ e \in Nat /\ m <= e /\ e < hi
        /\ Growing(Tail(s.buffer), e + 1, hi)
    BY <1>1, <1>2, <1>7, <2>0, GrowingTail DEF LS!Drain
  <2>2. PICK b : b = Tail(s.buffer)
    OBVIOUS
  <2>3. PICK q : q = IF Len(s.queue) < LogQueue THEN Append(s.queue, e) ELSE s.queue
    OBVIOUS
  <2>4. /\ Growing(q, x + 1, e + 1) /\ q \in Seq(Nat) /\ b \in Seq(Nat)
    <3>1. x + 1 \in Nat /\ e + 1 \in Nat /\ x + 1 <= e /\ m <= e + 1
      BY <1>2, <2>1
    <3>2. Growing(Append(s.queue, e), x + 1, e + 1)
      BY <3>1, <1>2, <2>1, GrowingAppend
    <3>3. Growing(s.queue, x + 1, e + 1)
      BY <3>1, <1>2, GrowingWider
    <3>4. QED
      BY <3>2, <3>3, <2>1, <2>2, <2>3 DEF Growing
  <2>5. PICK k : k = [s EXCEPT !.buffer = b, !.queue = q]
    OBVIOUS
  <2>6. /\ k \in LogClient /\ k.pc = s.pc /\ k.closed = s.closed /\ k.queue = q
        /\ k.last = s.last /\ k.ordered = s.ordered /\ k.buffer = b
    BY <2>5, <2>4, <1>3 DEF LogClient
  <2>7. ls' = [ls EXCEPT !.client = [ls.client EXCEPT ![c] = k], !.listener = ls.listener, !.todo = ls.todo]
    BY <2>5, <2>0, <2>2, <2>3, <1>0, <1>7, LogShape DEF LS!Drain
  <2>8. InOrder(k, hi)
    <3>1. e + 1 \in Nat /\ x + 1 <= e + 1 /\ e + 1 <= hi
      BY <1>1, <1>2, <2>1
    <3>2. QED
      BY <3>1, <2>1, <2>2, <2>4, <2>6, <1>0, <1>1 DEF InOrder
  <2>9. ls.todo \in SUBSET ls.todo /\ ls.listener \in SUBSET LogClients
    BY LogShape
  <2>10. LogMoves(c, k, ls.listener, ls.todo)
    BY <2>6, <2>7, <2>8, <2>9, <1>1 DEF LogMoves
  <2>11. QED
    BY <2>6, <2>10, LogClientStep
<1>8. CASE LS!Write(c)
  <2>0. PICK e : e = Head(s.queue)
    OBVIOUS
  <2>1. /\ s.queue # << >> /\ e \in Nat /\ x + 1 <= e /\ e < m
        /\ Growing(Tail(s.queue), e + 1, m) /\ Tail(s.queue) \in Seq(Nat)
    <3>1. s.queue # << >> /\ x + 1 \in Nat
      BY <1>8 DEF LS!Write
    <3>2. e \in Nat /\ x + 1 <= e /\ e < m /\ Growing(Tail(s.queue), e + 1, m)
      BY <3>1, <1>2, <2>0, GrowingTail
    <3>3. QED
      BY <3>1, <3>2 DEF Growing
  <2>2. PICK q \in Seq(Nat) : q = Tail(s.queue)
    BY <2>1
  <2>4. PICK o \in BOOLEAN : o = (s.ordered /\ e > x)
    OBVIOUS
  <2>5. PICK k : k = [s EXCEPT !.queue = q, !.last = e, !.ordered = o]
    OBVIOUS
  <2>6. /\ k \in LogClient /\ k.pc = s.pc /\ k.closed = s.closed /\ k.queue = q
        /\ k.last = e /\ k.ordered = o /\ k.buffer = s.buffer
    BY <2>1, <2>5, <1>3 DEF LogClient
  <2>7. ls' = [ls EXCEPT !.client = [ls.client EXCEPT ![c] = k], !.listener = ls.listener, !.todo = ls.todo]
    BY <2>5, <2>0, <2>2, <2>4, <1>0, <1>8, LogShape DEF LS!Write
  <2>8. InOrder(k, hi)
    <3>1. e + 1 <= m /\ o = TRUE
      <4>1. s.ordered /\ e > x
        BY <2>1, <1>1 DEF InOrder
      <4>2. e + 1 <= m
        BY <2>1, <1>2
      <4>3. QED
        BY <4>1, <4>2, <2>4
    <3>2. QED
      BY <3>1, <2>1, <2>2, <2>6, <1>2 DEF InOrder
  <2>9. ls.todo \in SUBSET ls.todo /\ ls.listener \in SUBSET LogClients
    BY LogShape
  <2>10. LogMoves(c, k, ls.listener, ls.todo)
    BY <2>6, <2>7, <2>8, <2>9, <1>1 DEF LogMoves
  <2>11. QED
    BY <2>6, <2>10, LogClientStep
<1>9. QED
  BY <1>4, <1>5, <1>6, <1>7, <1>8 DEF LS!Serve

LEMMA LogStep == ASSUME LogInv, LS!Next PROVE LogInv'
BY LogProcess, LogEmit, LogServe DEF LS!Next

LEMMA LogRightInv == ASSUME LogInv PROVE LS!NoSendOnClosed /\ LS!LogsInOrder
BY DEF LogInv, LogSubscribers, LogOrdered, InOrder, LS!NoSendOnClosed, LS!LogsInOrder

-----------------------------------------------------------------------------
(* The components together *)

\* Of the component that moves.
ChecksInv == (active = "check" => HealthInv) /\ (active = "failures" => FailuresInv)

\* A check that the failure counter of a group starts was preceded by a burst of
\* failures, and no burst is forgotten, however the goroutines of
\* onDialFailed, healthCheck and onDialSuccess interleave; a check of a
\* provider tests at most its limit of proxies at a time, and ends when all of
\* its list were tested.  For any goroutines, lists, limits and intervals.
THEOREM ChecksRight == RunSpec => []ChecksAreRight
<1>1. RunInit => ChecksInv
  BY HealthInitially, FailuresInitially DEF RunInit, ChecksInv
<1>2. ASSUME ChecksInv, [RunNext]_<<active, vars, gf, hc, ls, rs, un>> PROVE ChecksInv'
  <2>1. CASE UNCHANGED <<active, vars, gf, hc, ls, rs, un>>
    BY <1>2, <2>1 DEF ChecksInv, HealthInv, FailuresInv, FailuresType, CountsAlone, SomebodyResets,
       CounterIsCovered, BurstBefore, HC!TestsAreBounded, HC!CheckIsComplete
  <2>2. CASE active = "check" /\ HC!Next /\ UNCHANGED active
    BY <1>2, <2>2, HealthStep DEF ChecksInv
  <2>3. CASE active = "failures" /\ HC!FailuresNext /\ UNCHANGED active
    BY <1>2, <2>3, FailuresStep DEF ChecksInv
  <2>4. CASE active \notin {"check", "failures"} /\ UNCHANGED active
    BY <1>2, <2>4 DEF ChecksInv
  <2>5. QED
    BY <1>2, <2>1, <2>2, <2>3, <2>4 DEF RunNext
<1>3. ChecksInv => ChecksAreRight
  BY FailuresRight DEF ChecksInv, ChecksAreRight, HealthInv
<1>4. QED
  BY <1>1, <1>2, <1>3, PTL DEF RunSpec

\* Nothing is sent to the buffer of a reader of /logs that has left, though
\* readers come and go while an event is copied, and what a reader gets is in
\* the order of the log.  For any log calls, readers and capacities.
THEOREM LogRight == RunSpec => []LogIsRight
<1>1. RunInit => (active = "log" => LogInv)
  BY LogInitially DEF RunInit
<1>2. ASSUME active = "log" => LogInv, [RunNext]_<<active, vars, gf, hc, ls, rs, un>>
      PROVE  (active = "log" => LogInv)'
  <2>1. CASE UNCHANGED <<active, vars, gf, hc, ls, rs, un>>
    BY <1>2, <2>1 DEF LogInv, LogType, LogSubscribers, LogOrdered, Next1
  <2>2. CASE active = "log" /\ LS!Next /\ UNCHANGED active
    BY <1>2, <2>2, LogStep
  <2>3. CASE active # "log" /\ UNCHANGED active
    BY <1>2, <2>3
  <2>4. QED
    BY <1>2, <2>1, <2>2, <2>3 DEF RunNext
<1>3. (active = "log" => LogInv) => LogIsRight
  BY LogRightInv DEF LogIsRight
<1>4. QED
  BY <1>1, <1>2, <1>3, PTL DEF RunSpec
=============================================================================
