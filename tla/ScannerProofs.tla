--------------------------- MODULE ScannerProofs ---------------------------
(***************************************************************************)
(* Proofs about the scan loop, for every number of addresses, workers and  *)
(* pings.  IInv is the inductive invariant; its parts say where a job is.  *)
(***************************************************************************)
EXTENDS Scanner, FiniteSetTheorems, TLAPS

Busy == {"spawn", "select", "reply"}

\* The warm-up WaitGroup counts the goroutines that have not run.
WaitGroupInv == wg = idlers

\* Main's counter is the number of results it received.
CountInv ==
  /\ mainPc = "warmup" => collected = {}
  /\ mainPc # "warmup" => n = Cardinality(collected)
  /\ mainPc \in {"closed", "returned"} => n = NumJobs

\* A job is held by a worker exactly while the worker is busy, and has been
\* taken from inputCh.
HoldInv ==
  /\ taken <= fed
  /\ mainPc = "warmup" => \A w \in Workers : workerPc[w] = "unborn"
  /\ \A w \in Workers : job[w] \in Jobs <=> workerPc[w] \in Busy
  /\ \A w \in Workers : job[w] \in Jobs => job[w] <= taken
  /\ \A j \in resultsCh \cup collected : j <= taken

\* The pinging goroutine of a job is born when its worker leaves "spawn".
BornInv ==
  /\ \A j \in Jobs : pingPc[j] = "unborn" <=> owner[j] = None
  /\ \A j \in Jobs : j > taken => pingPc[j] = "unborn"
  /\ \A w \in Workers : workerPc[w] = "spawn" => pingPc[job[w]] = "unborn"
  /\ \A j \in Jobs : pingPc[j] = "unborn" =>
       answer[j] = None /\ pingCh[j] = None /\ j \notin timedOut

\* A worker in its select waits for the goroutine it started, and its loop
\* variable is the address of that job.
SelectInv ==
  \A w \in Workers : workerPc[w] = "select" =>
    /\ ip[w] = job[w] /\ owner[job[w]] = w
    /\ pingPc[job[w]] # "unborn" /\ answer[job[w]] = None

\* A goroutine without an answer has its worker waiting for it.
WaitedInv ==
  \A j \in Jobs : pingPc[j] # "unborn" /\ answer[j] = None =>
    workerPc[owner[j]] = "select" /\ job[owner[j]] = j

\* Whatever is being sent or was sent has an answer.
AnswerInv ==
  /\ \A w \in Workers : workerPc[w] = "reply" => answer[job[w]] # None
  /\ \A j \in resultsCh \cup collected : answer[j] # None
  /\ \A j \in timedOut : answer[j] = 0
  /\ \A j \in Jobs : answer[j] # None /\ j \notin timedOut =>
       pingPc[j] = "ended" /\ answer[j] = ping[j]

\* What is in pingCh is the final sum, and a positive one has been printed.
SumInv ==
  /\ \A j \in Jobs : pingCh[j] # None => pingPc[j] = "ended" /\ pingCh[j] = ping[j]
  /\ \A j \in Jobs : pingPc[j] \in {"send", "ended"} /\ ping[j] > 0 =>
       \E r \in printed : r.job = j /\ r.ping = ping[j]

\* A goroutine pings its own address unless it was given up.
TargetInv ==
  \A j \in Jobs : pingPc[j] = "pinging" /\ target[j] # j => j \in timedOut

IInv ==
  /\ TypeOK /\ WaitGroupInv /\ CountInv /\ HoldInv /\ OneHolder /\ BornInv
  /\ SelectInv /\ WaitedInv /\ AnswerInv /\ SumInv /\ TargetInv
  /\ AttributedUntilTimeout

-----------------------------------------------------------------------------

\* The arithmetic of a ping stays within the naturals.
LEMMA PingArithmetic ==
  /\ \A p \in PingResults : p \in Nat
  /\ \A s \in Nat, p \in Nat : AddPing(s, p) \in Nat
<1>1. \A ms \in Nat : Uint16(ms) \in Nat
  BY DEF Uint16
<1>2. \A p \in PingResults : p \in Nat
  BY <1>1, ScannerAssumption DEF PingResults
<1>3. ASSUME NEW s \in Nat, NEW p \in Nat
      PROVE  AddPing(s, p) \in Nat
  <2>1. p \div PingCount \in Nat
    BY ScannerAssumption
  <2>2. QED
    BY <2>1 DEF AddPing
<1>4. QED
  BY <1>2, <1>3

\* There are NumJobs jobs.
LEMMA JobsFinite == IsFiniteSet(Jobs) /\ Cardinality(Jobs) = NumJobs
<1>1. NumJobs \in Int /\ 1 \in Int
  BY ScannerAssumption
<1>2. /\ IsFiniteSet(1..NumJobs)
      /\ Cardinality(1..NumJobs) = IF 1 > NumJobs THEN 0 ELSE NumJobs - 1 + 1
  BY <1>1, FS_Interval
<1>3. QED
  BY <1>2, ScannerAssumption DEF Jobs

\* The initial state satisfies the inductive invariant.
LEMMA InitIInv == Init => IInv
<1> SUFFICES ASSUME Init PROVE IInv
  OBVIOUS
<1> USE ScannerAssumption DEF Init
<1>1. MainTypeOK /\ WorkerTypeOK
  BY DEF MainTypeOK, WorkerTypeOK
<1>2. PingTypeOK
  BY DEF PingTypeOK
<1>3. CountInv
  BY FS_EmptySet DEF CountInv
<1>4. WaitGroupInv /\ HoldInv /\ OneHolder /\ BornInv
  BY DEF WaitGroupInv, HoldInv, OneHolder, BornInv, Busy, Jobs
<1>5. SelectInv /\ WaitedInv /\ AnswerInv /\ SumInv /\ TargetInv /\ AttributedUntilTimeout
  BY DEF SelectInv, WaitedInv, AnswerInv, SumInv, TargetInv, AttributedUntilTimeout, Jobs
<1>6. QED
  BY <1>1, <1>2, <1>3, <1>4, <1>5 DEF IInv, TypeOK

-----------------------------------------------------------------------------
(* Main's steps and those of the warm-up goroutines leave the workers and   *)
(* the pinging goroutines alone.                                            *)

\* Every step of main and of a warm-up goroutine keeps the invariant.
LEMMA MainIInv == IInv /\ (Main \/ IdlerDone) => IInv'
<1> SUFFICES ASSUME IInv, Main \/ IdlerDone PROVE IInv'
  OBVIOUS
<1> USE ScannerAssumption DEF IInv, TypeOK
<1>1. UNCHANGED <<pingVars, pingCh>>
  BY DEF Main, Warmup, IdlerDone, StartWorkers, Feed, StartCollecting, Collect, Close, Return
<1>2. UNCHANGED <<job, ip, owner, answer, timedOut, taken>>
  BY DEF Main, Warmup, IdlerDone, StartWorkers, Feed, StartCollecting, Collect, Close, Return, workerVars
<1>3. PingTypeOK' /\ SumInv' /\ TargetInv' /\ AttributedUntilTimeout'
  BY <1>1, <1>2 DEF PingTypeOK, SumInv, TargetInv, AttributedUntilTimeout, pingVars
<1>4. CASE StartWorkers
  <2>1. MainTypeOK' /\ WorkerTypeOK'
    BY <1>2, <1>4 DEF StartWorkers, MainTypeOK, WorkerTypeOK
  <2>2. CountInv'
    BY <1>4, FS_EmptySet DEF StartWorkers, CountInv
  <2>3. WaitGroupInv' /\ HoldInv' /\ OneHolder'
    BY <1>2, <1>4 DEF StartWorkers, WaitGroupInv, HoldInv, OneHolder, Busy
  <2>4. BornInv' /\ SelectInv' /\ WaitedInv' /\ AnswerInv'
    <3>1. \A w \in Workers : workerPc[w] = "unborn"
      BY <1>4 DEF StartWorkers, HoldInv
    <3>2. \A w \in Workers : workerPc'[w] = "range"
      BY <1>4 DEF StartWorkers
    <3>3. UNCHANGED <<resultsCh, collected>>
      BY <1>4 DEF StartWorkers
    <3>4. \A j \in Jobs : pingPc[j] # "unborn" => owner[j] \in Workers
      BY DEF BornInv, WorkerTypeOK
    <3>5. BornInv'
      BY <1>1, <1>2, <3>2 DEF BornInv, pingVars
    <3>6. SelectInv' /\ AnswerInv'
      BY <1>1, <1>2, <3>2, <3>3 DEF SelectInv, AnswerInv, pingVars
    <3>7. WaitedInv'
      BY <1>1, <1>2, <3>1, <3>4 DEF WaitedInv, pingVars
    <3>8. QED
      BY <3>5, <3>6, <3>7
  <2>5. QED
    BY <1>3, <2>1, <2>2, <2>3, <2>4
<1>5. CASE Collect
  <2> PICK j \in resultsCh : /\ resultsCh' = resultsCh \ {j}
                             /\ collected' = collected \cup {j}
    BY <1>5 DEF Collect
  <2>0. UNCHANGED <<mainPc, wg, idlers, fed, workerPc>> /\ n' = n + 1 /\ n < NumJobs
        /\ mainPc = "collect"
    BY <1>5 DEF Collect, workerVars
  <2>1. MainTypeOK' /\ WorkerTypeOK'
    BY <1>2, <2>0 DEF MainTypeOK, WorkerTypeOK
  <2>2. CountInv'
    <3>1. IsFiniteSet(collected)
      BY JobsFinite, FS_Subset DEF MainTypeOK
    <3>2. j \notin collected
      BY DEF OneHolder
    <3>3. Cardinality(collected') = Cardinality(collected) + 1
      BY <3>1, <3>2, FS_AddElement
    <3>4. QED
      BY <2>0, <3>3 DEF CountInv
  <2>3. WaitGroupInv' /\ HoldInv' /\ OneHolder' /\ AnswerInv'
    BY <1>1, <1>2, <2>0 DEF WaitGroupInv, HoldInv, OneHolder, AnswerInv, pingVars
  <2>4. BornInv' /\ SelectInv' /\ WaitedInv'
    BY <1>1, <1>2, <2>0 DEF BornInv, SelectInv, WaitedInv, pingVars
  <2>5. QED
    BY <1>3, <2>1, <2>2, <2>3, <2>4
<1>6. CASE Warmup \/ IdlerDone \/ Feed \/ StartCollecting \/ Close \/ Return
  <2>1. UNCHANGED <<workerPc, resultsCh, collected>>
    BY <1>6 DEF Warmup, IdlerDone, Feed, StartCollecting, Close, Return, workerVars
  <2>2. MainTypeOK' /\ WorkerTypeOK'
    BY <1>2, <1>6, <2>1 DEF Warmup, IdlerDone, Feed, StartCollecting, Close, Return,
                            MainTypeOK, WorkerTypeOK, WaitGroupInv
  <2>3. CountInv' /\ WaitGroupInv' /\ HoldInv'
    BY <1>2, <1>6, <2>1 DEF Warmup, IdlerDone, Feed, StartCollecting, Close, Return,
                            MainTypeOK, CountInv, WaitGroupInv, HoldInv
  <2>4. OneHolder' /\ BornInv' /\ SelectInv' /\ WaitedInv' /\ AnswerInv'
    BY <1>1, <1>2, <2>1 DEF OneHolder, BornInv, SelectInv, WaitedInv, AnswerInv, pingVars
  <2>5. QED
    BY <1>3, <2>2, <2>3, <2>4
<1>7. QED
  BY <1>4, <1>5, <1>6 DEF Main

-----------------------------------------------------------------------------
(* A worker's steps. *)

\* Every step of a worker keeps the invariant.
LEMMA WorkerIInv ==
  ASSUME IInv, NEW w \in Workers, Worker(w)
  PROVE  IInv'
<1> USE ScannerAssumption DEF IInv, TypeOK
<1>1. UNCHANGED mainVars /\ UNCHANGED <<i, target, ping, hits, printed>>
  BY DEF Worker, Receive, Spawn, TakePing, Timeout, Reply, Leave, pingVars
<1>2. WaitGroupInv' /\ CountInv'
  BY <1>1 DEF WaitGroupInv, CountInv, mainVars
<1>3. CASE Receive(w)
  <2> DEFINE j == taken + 1
  <2>0. /\ workerPc[w] = "range" /\ taken < fed /\ taken' = j
        /\ workerPc' = [workerPc EXCEPT ![w] = "spawn"]
        /\ job' = [job EXCEPT ![w] = j]
        /\ UNCHANGED <<owner, answer, timedOut, pingPc, pingCh, resultsCh>>
        /\ ip' \in [Workers -> Jobs \cup {Torn, None}]
        /\ \A v \in Workers : v # w => ip'[v] = ip[v]
    BY <1>3 DEF Receive, pingVars, WorkerTypeOK, MainTypeOK, Jobs
  <2>1. j \in Jobs /\ j \in Nat
    BY <2>0 DEF MainTypeOK, Jobs
  <2> HIDE DEF j
  <2>2. MainTypeOK' /\ WorkerTypeOK' /\ PingTypeOK'
    <3>1. MainTypeOK'
      BY <1>1, <2>0, <2>1 DEF MainTypeOK, mainVars, Jobs
    <3>2. WorkerTypeOK'
      BY <2>0, <2>1 DEF WorkerTypeOK
    <3>3. PingTypeOK'
      BY <1>1, <2>0 DEF PingTypeOK
    <3>4. QED
      BY <3>1, <3>2, <3>3
  <2>3. HoldInv'
    BY <1>1, <2>0, <2>1 DEF HoldInv, MainTypeOK, WorkerTypeOK, Busy, mainVars, Jobs, j
  <2>4. OneHolder'
    <3>1. \A v \in Workers : job[v] # j
      BY <2>1 DEF HoldInv, MainTypeOK, j
    <3>2. j \notin resultsCh \cup collected
      BY <2>1 DEF HoldInv, MainTypeOK, j
    <3>3. QED
      BY <1>1, <2>0, <3>1, <3>2 DEF OneHolder, WorkerTypeOK, mainVars
  <2>5. BornInv'
    BY <1>1, <2>0, <2>1 DEF BornInv, HoldInv, WorkerTypeOK, MainTypeOK, Busy, mainVars, Jobs, j
  <2>6. SelectInv'
    BY <1>1, <2>0 DEF SelectInv, WorkerTypeOK, mainVars
  <2>7. WaitedInv' /\ AnswerInv'
    BY <1>1, <2>0 DEF WaitedInv, AnswerInv, BornInv, WorkerTypeOK, mainVars
  <2>8. SumInv' /\ TargetInv' /\ AttributedUntilTimeout'
    BY <1>1, <2>0 DEF SumInv, TargetInv, AttributedUntilTimeout
  <2>9. QED
    BY <1>2, <2>2, <2>3, <2>4, <2>5, <2>6, <2>7, <2>8
<1>4. CASE Spawn(w)
  <2> DEFINE j == job[w]
  <2>0. /\ workerPc[w] = "spawn"
        /\ workerPc' = [workerPc EXCEPT ![w] = "select"]
        /\ ip' = [ip EXCEPT ![w] = j]
        /\ owner' = [owner EXCEPT ![j] = w]
        /\ pingPc' = [pingPc EXCEPT ![j] = "call"]
        /\ UNCHANGED <<job, answer, timedOut, taken, pingCh, resultsCh>>
    BY <1>4 DEF Spawn
  <2>1. j \in Jobs /\ job[w] = j
    BY <2>0 DEF HoldInv, Busy
  <2>1a. pingPc[j] = "unborn" /\ answer[j] = None /\ j \notin timedOut /\ pingCh[j] = None
    BY <2>0, <2>1 DEF BornInv
  <2>1b. \A v \in Workers : v # w => job[v] # j
    BY <2>1 DEF OneHolder, Jobs
  <2> HIDE DEF j
  <2>2. MainTypeOK' /\ WorkerTypeOK' /\ PingTypeOK'
    BY <1>1, <2>0, <2>1 DEF MainTypeOK, WorkerTypeOK, PingTypeOK, mainVars
  <2>3. HoldInv' /\ OneHolder'
    BY <1>1, <2>0, <2>1 DEF HoldInv, OneHolder, WorkerTypeOK, Busy, mainVars
  <2>5. BornInv'
    <3>1. \A k \in Jobs : pingPc'[k] = "unborn" <=> owner'[k] = None
      BY <2>0, <2>1 DEF BornInv, WorkerTypeOK, PingTypeOK
    <3>2. \A k \in Jobs : k > taken' => pingPc'[k] = "unborn"
      <4>1. j <= taken
        BY <2>1 DEF HoldInv
      <4>2. QED
        BY <2>0, <2>1, <4>1 DEF BornInv, PingTypeOK, MainTypeOK, Jobs
    <3>3. \A v \in Workers : workerPc'[v] = "spawn" => pingPc'[job'[v]] = "unborn"
      BY <2>0, <2>1, <2>1b DEF BornInv, HoldInv, Busy, WorkerTypeOK, PingTypeOK
    <3>4. QED
      BY <2>0, <2>1, <3>1, <3>2, <3>3 DEF BornInv, PingTypeOK
  <2>6. SelectInv'
    BY <1>1, <2>0, <2>1, <2>1a, <2>1b DEF SelectInv, HoldInv, Busy, WorkerTypeOK, PingTypeOK, mainVars
  <2>7a. WaitedInv'
    BY <2>0, <2>1 DEF WaitedInv, BornInv, WorkerTypeOK, PingTypeOK
  <2>7b. AnswerInv'
    BY <1>1, <2>0, <2>1, <2>1a DEF AnswerInv, WorkerTypeOK, PingTypeOK, mainVars
  <2>8. SumInv' /\ TargetInv' /\ AttributedUntilTimeout'
    BY <1>1, <2>0, <2>1, <2>1a DEF SumInv, TargetInv, AttributedUntilTimeout, PingTypeOK
  <2>9. QED
    BY <1>2, <2>2, <2>3, <2>5, <2>6, <2>7a, <2>7b, <2>8
<1>5. CASE TakePing(w) \/ Timeout(w)
  <2> DEFINE j == job[w]
  <2>0. /\ workerPc[w] = "select"
        /\ workerPc' = [workerPc EXCEPT ![w] = "reply"]
        /\ UNCHANGED <<job, ip, owner, taken, pingPc, resultsCh>>
    BY <1>5 DEF TakePing, Timeout, pingVars
  <2>1. /\ j \in Jobs /\ job[w] = j /\ owner[j] = w
        /\ pingPc[j] # "unborn" /\ answer[j] = None
    BY <2>0 DEF HoldInv, Busy, SelectInv
  <2>1b. \A v \in Workers : v # w => job[v] # j
    BY <2>1 DEF OneHolder, Jobs
  <2>1c. PICK a \in Nat : answer' = [answer EXCEPT ![j] = a]
    BY <1>5, <2>1 DEF TakePing, Timeout, PingTypeOK
  <2>1d. /\ timedOut \subseteq timedOut' /\ timedOut' \subseteq timedOut \cup {j}
         /\ pingCh' = pingCh \/ pingCh' = [pingCh EXCEPT ![j] = None]
    BY <1>5 DEF TakePing, Timeout
  <2>1e. /\ j \in timedOut' => a = 0
         /\ j \notin timedOut' => pingPc[j] = "ended" /\ a = ping[j]
    <3>1. j \notin timedOut
      BY <2>1 DEF AnswerInv
    <3>2. CASE TakePing(w)
      <4>1. pingCh[j] # None /\ answer' = [answer EXCEPT ![j] = pingCh[j]] /\ timedOut' = timedOut
        BY <3>2 DEF TakePing
      <4>2. a = pingCh[j]
        BY <2>1, <2>1c, <4>1 DEF WorkerTypeOK
      <4>3. QED
        BY <2>1, <3>1, <4>1, <4>2 DEF SumInv
    <3>3. CASE Timeout(w)
      <4>1. answer' = [answer EXCEPT ![j] = 0] /\ j \in timedOut'
        BY <3>3 DEF Timeout
      <4>2. QED
        BY <2>1, <2>1c, <4>1 DEF WorkerTypeOK
    <3>4. QED
      BY <1>5, <3>2, <3>3
  <2> HIDE DEF j
  <2>2. MainTypeOK' /\ WorkerTypeOK' /\ PingTypeOK'
    BY <1>1, <2>0, <2>1, <2>1c, <2>1d DEF MainTypeOK, WorkerTypeOK, PingTypeOK, mainVars
  <2>3. HoldInv' /\ OneHolder'
    BY <1>1, <2>0 DEF HoldInv, OneHolder, WorkerTypeOK, Busy, mainVars
  <2>4. BornInv'
    BY <2>0, <2>1, <2>1b, <2>1c, <2>1d DEF BornInv, WorkerTypeOK, PingTypeOK
  <2>5. SelectInv'
    BY <2>0, <2>1, <2>1b, <2>1c DEF SelectInv, HoldInv, Busy, WorkerTypeOK
  <2>6. WaitedInv'
    BY <2>0, <2>1, <2>1c DEF WaitedInv, WorkerTypeOK
  <2>7. AnswerInv'
    BY <1>1, <2>0, <2>1, <2>1b, <2>1c, <2>1d, <2>1e DEF AnswerInv, WorkerTypeOK, mainVars
  <2>8. SumInv' /\ TargetInv' /\ AttributedUntilTimeout'
    BY <1>1, <2>0, <2>1, <2>1d DEF SumInv, TargetInv, AttributedUntilTimeout, PingTypeOK
  <2>9. QED
    BY <1>2, <2>2, <2>3, <2>4, <2>5, <2>6, <2>7, <2>8
<1>6. CASE Reply(w)
  <2> DEFINE j == job[w]
  <2>0. /\ workerPc[w] = "reply"
        /\ workerPc' = [workerPc EXCEPT ![w] = "range"]
        /\ job' = [job EXCEPT ![w] = None]
        /\ resultsCh' = resultsCh \cup {j}
        /\ UNCHANGED <<ip, owner, answer, timedOut, taken, pingPc, pingCh>>
    BY <1>6 DEF Reply, pingVars
  <2>1. j \in Jobs /\ job[w] = j /\ answer[j] # None
    BY <2>0 DEF HoldInv, Busy, AnswerInv
  <2>1b. \A v \in Workers : v # w => job[v] # j
    BY <2>1 DEF OneHolder, Jobs
  <2>1c. None \notin Jobs
    BY DEF Jobs
  <2> HIDE DEF j
  <2>2. MainTypeOK' /\ WorkerTypeOK' /\ PingTypeOK'
    BY <1>1, <2>0, <2>1 DEF MainTypeOK, WorkerTypeOK, PingTypeOK, mainVars
  <2>3. HoldInv'
    BY <1>1, <2>0, <2>1, <2>1c DEF HoldInv, WorkerTypeOK, Busy, mainVars
  <2>4. OneHolder'
    BY <1>1, <2>0, <2>1, <2>1b, <2>1c DEF OneHolder, MainTypeOK, WorkerTypeOK, mainVars
  <2>5. BornInv' /\ SelectInv'
    BY <2>0 DEF BornInv, SelectInv, WorkerTypeOK
  <2>6. WaitedInv' /\ AnswerInv'
    <3>1. WaitedInv'
      BY <2>0, <2>1 DEF WaitedInv, WorkerTypeOK
    <3>2. AnswerInv'
      BY <1>1, <2>0, <2>1 DEF AnswerInv, WorkerTypeOK, mainVars
    <3>3. QED
      BY <3>1, <3>2
  <2>8. SumInv' /\ TargetInv' /\ AttributedUntilTimeout'
    BY <1>1, <2>0 DEF SumInv, TargetInv, AttributedUntilTimeout
  <2>9. QED
    BY <1>2, <2>2, <2>3, <2>4, <2>5, <2>6, <2>8
<1>7. CASE Leave(w)
  <2>0. /\ workerPc[w] = "range"
        /\ workerPc' = [workerPc EXCEPT ![w] = "left"]
        /\ mainPc = "closed"
        /\ UNCHANGED <<job, ip, owner, answer, timedOut, taken, pingPc, pingCh, resultsCh>>
    BY <1>7 DEF Leave, pingVars
  <2>2. MainTypeOK' /\ WorkerTypeOK' /\ PingTypeOK'
    BY <1>1, <2>0 DEF MainTypeOK, WorkerTypeOK, PingTypeOK, mainVars
  <2>3. HoldInv' /\ OneHolder'
    BY <1>1, <2>0 DEF HoldInv, OneHolder, WorkerTypeOK, Busy, mainVars
  <2>5. BornInv' /\ SelectInv'
    BY <2>0 DEF BornInv, SelectInv, WorkerTypeOK
  <2>6. WaitedInv' /\ AnswerInv'
    BY <1>1, <2>0 DEF WaitedInv, AnswerInv, WorkerTypeOK, mainVars
  <2>8. SumInv' /\ TargetInv' /\ AttributedUntilTimeout'
    BY <1>1, <2>0 DEF SumInv, TargetInv, AttributedUntilTimeout
  <2>9. QED
    BY <1>2, <2>2, <2>3, <2>5, <2>6, <2>8
<1>8. QED
  BY <1>3, <1>4, <1>5, <1>6, <1>7 DEF Worker

-----------------------------------------------------------------------------
(* The steps of a pinging goroutine. *)

\* While a running goroutine has not been given up, the loop variable it
\* reads is the address of its job.
LEMMA OwnAddress ==
  ASSUME IInv, NEW j \in Jobs, pingPc[j] \notin {"unborn", "ended"}
  PROVE  /\ owner[j] \in Workers
         /\ ip[owner[j]] # j => j \in timedOut
         /\ answer[j] # None => j \in timedOut
<1> USE DEF IInv, TypeOK
<1>1. owner[j] \in Workers
  BY DEF BornInv, WorkerTypeOK
<1>2. answer[j] # None => j \in timedOut
  BY DEF AnswerInv
<1>3. answer[j] = None => ip[owner[j]] = j
  BY <1>1 DEF WaitedInv, SelectInv
<1>4. QED
  BY <1>1, <1>2, <1>3

\* Every step of a pinging goroutine keeps the invariant.
LEMMA PingerIInv ==
  ASSUME IInv, NEW j \in Jobs, Pinger(j)
  PROVE  IInv'
<1> USE ScannerAssumption DEF IInv, TypeOK
<1>1. UNCHANGED <<mainVars, workerVars, resultsCh>>
  BY DEF Pinger, Call, PingReturns, PingPanics, Report, Send
<1>2. /\ pingPc[j] \notin {"unborn", "ended"}
      /\ pingPc' \in [Jobs -> {"unborn", "call", "pinging", "report", "send", "ended"}]
      /\ pingPc'[j] # "unborn"
      /\ \A k \in Jobs : k # j => pingPc'[k] = pingPc[k]
  BY DEF Pinger, Call, PingReturns, PingPanics, Report, Send, PingTypeOK
<1>3. /\ owner[j] \in Workers
      /\ ip[owner[j]] # j => j \in timedOut
      /\ answer[j] # None => j \in timedOut
  BY <1>2, OwnAddress
<1>3a. pingCh[j] = None
  BY <1>2 DEF SumInv
<1>4. MainTypeOK' /\ WorkerTypeOK' /\ WaitGroupInv' /\ CountInv'
  BY <1>1 DEF MainTypeOK, WorkerTypeOK, WaitGroupInv, CountInv, mainVars, workerVars
<1>5. HoldInv' /\ OneHolder'
  BY <1>1 DEF HoldInv, OneHolder, mainVars, workerVars
<1>6. BornInv'
  <2>1. \A k \in Jobs : pingPc'[k] = "unborn" <=> pingPc[k] = "unborn"
    BY <1>2
  <2>2. \A k \in Jobs : pingPc[k] = "unborn" => pingCh'[k] = pingCh[k]
    BY <1>2 DEF Pinger, Call, PingReturns, PingPanics, Report, Send, PingTypeOK
  <2>3. \A w \in Workers : workerPc[w] = "spawn" => job[w] \in Jobs
    BY DEF HoldInv, Busy
  <2>4. QED
    BY <1>1, <2>1, <2>2, <2>3 DEF BornInv, workerVars
<1>7. SelectInv' /\ WaitedInv'
  <2>1. \A w \in Workers : workerPc[w] = "select" => job[w] \in Jobs
    BY DEF HoldInv, Busy
  <2>2. QED
    BY <1>1, <1>2, <2>1 DEF SelectInv, WaitedInv, workerVars
<1>8. /\ ping' \in [Jobs -> Nat] /\ i' \in [Jobs -> Nat]
      /\ \A k \in Jobs : k # j => ping'[k] = ping[k]
  <2>1. CASE PingReturns(j)
    <3>1. PICK p \in PingResults : ping' = [ping EXCEPT ![j] = AddPing(ping[j], p)]
      BY <2>1 DEF PingReturns
    <3>2. AddPing(ping[j], p) \in Nat
      BY <3>1, PingArithmetic DEF PingTypeOK
    <3>3. i' \in [Jobs -> Nat]
      BY <2>1 DEF PingReturns, PingTypeOK
    <3>4. QED
      BY <3>1, <3>2, <3>3 DEF PingTypeOK
  <2>2. CASE Call(j) \/ PingPanics(j) \/ Report(j) \/ Send(j)
    BY <2>2 DEF Call, PingPanics, Report, Send, PingTypeOK
  <2>3. QED
    BY <2>1, <2>2 DEF Pinger
<1>9. AnswerInv'
  BY <1>1, <1>2, <1>3, <1>8 DEF AnswerInv, mainVars, workerVars
<1>10. PingTypeOK' /\ AttributedUntilTimeout' /\ TargetInv'
  <2>1. CASE Call(j)
    BY <1>1, <1>2, <1>3, <1>8, <2>1
    DEF Call, PingTypeOK, WorkerTypeOK, AttributedUntilTimeout, TargetInv, workerVars
  <2>2. CASE PingReturns(j)
    <3>1. PICK p \in PingResults :
            hits' = IF p > 0 THEN hits \cup {[job |-> j, ip |-> target[j], ping |-> p]} ELSE hits
      BY <2>2 DEF PingReturns
    <3>2. p \in Nat /\ target[j] \in Jobs \cup {Torn, None}
      BY PingArithmetic DEF PingTypeOK
    <3>3. pingPc[j] = "pinging" /\ UNCHANGED <<target, printed, pingCh>>
      BY <2>2 DEF PingReturns
    <3>4. hits' \subseteq [job : Jobs, ip : Jobs \cup {Torn, None}, ping : Nat]
      BY <3>1, <3>2 DEF PingTypeOK
    <3>5. PingTypeOK'
      BY <1>2, <1>8, <3>3, <3>4 DEF PingTypeOK
    <3>6. target[j] # j => j \in timedOut
      BY <3>3 DEF TargetInv
    <3>7. \A r \in hits' \ hits : r.job = j /\ r.ip = target[j]
      BY <3>1
    <3>8. AttributedUntilTimeout'
      BY <1>1, <3>3, <3>6, <3>7 DEF AttributedUntilTimeout, workerVars
    <3>9. TargetInv'
      BY <1>1, <1>2, <3>3, <3>6 DEF TargetInv, workerVars
    <3>10. QED
      BY <3>5, <3>8, <3>9
  <2>3. CASE PingPanics(j)
    BY <1>1, <1>2, <1>8, <2>3 DEF PingPanics, PingTypeOK, AttributedUntilTimeout, TargetInv, workerVars
  <2>4. CASE Report(j)
    <3>1. /\ UNCHANGED <<target, hits, pingCh>> /\ pingPc'[j] = "send"
          /\ printed' = IF ping[j] > 0
                THEN printed \cup {[job |-> j, ip |-> ip[owner[j]], ping |-> ping[j]]}
                ELSE printed
      BY <2>4 DEF Report, PingTypeOK
    <3>2. ip[owner[j]] \in Jobs \cup {Torn, None} /\ ping[j] \in Nat
      BY <1>3 DEF WorkerTypeOK, PingTypeOK
    <3>3. printed' \subseteq [job : Jobs, ip : Jobs \cup {Torn, None}, ping : Nat]
      BY <3>1, <3>2 DEF PingTypeOK
    <3>4. PingTypeOK'
      BY <1>2, <1>8, <3>1, <3>3 DEF PingTypeOK
    <3>5. \A r \in printed' \ printed : r.job = j /\ r.ip = ip[owner[j]]
      BY <3>1
    <3>6. AttributedUntilTimeout'
      BY <1>1, <1>3, <3>1, <3>5 DEF AttributedUntilTimeout, workerVars
    <3>7. TargetInv'
      BY <1>1, <1>2, <3>1 DEF TargetInv, workerVars
    <3>8. QED
      BY <3>4, <3>6, <3>7
  <2>5. CASE Send(j)
    BY <1>1, <1>2, <1>8, <2>5 DEF Send, PingTypeOK, AttributedUntilTimeout, TargetInv, workerVars
  <2>6. QED
    BY <2>1, <2>2, <2>3, <2>4, <2>5 DEF Pinger
<1>11. SumInv'
  <2>1. \A k \in Jobs : k # j => pingCh'[k] = pingCh[k]
    BY DEF Pinger, Call, PingReturns, PingPanics, Report, Send, PingTypeOK
  <2>2. printed \subseteq printed'
    BY DEF Pinger, Call, PingReturns, PingPanics, Report, Send
  <2>3. pingCh'[j] # None => pingPc'[j] = "ended" /\ pingCh'[j] = ping'[j]
    BY <1>2, <1>3a DEF Pinger, Call, PingReturns, PingPanics, Report, Send, PingTypeOK
  <2>4. pingPc'[j] \in {"send", "ended"} /\ ping'[j] > 0 =>
          \E r \in printed' : r.job = j /\ r.ping = ping'[j]
    <3>1. CASE Report(j)
      <4>1. ping' = ping
        BY <3>1 DEF Report
      <4>2. ping[j] > 0 => [job |-> j, ip |-> ip[owner[j]], ping |-> ping[j]] \in printed'
        BY <3>1 DEF Report
      <4>3. QED
        BY <4>1, <4>2
    <3>2. CASE Send(j)
      BY <3>2 DEF Send, SumInv
    <3>3. CASE Call(j) \/ PingReturns(j) \/ PingPanics(j)
      BY <1>2, <3>3 DEF Call, PingReturns, PingPanics, PingTypeOK
    <3>4. QED
      BY <3>1, <3>2, <3>3 DEF Pinger
  <2>5. QED
    BY <1>2, <1>8, <2>1, <2>2, <2>3, <2>4 DEF SumInv
<1>12. QED
  BY <1>4, <1>5, <1>6, <1>7, <1>9, <1>10, <1>11

-----------------------------------------------------------------------------
(* The theorems. *)

\* The invariant is inductive.
LEMMA NextIInv == IInv /\ [Next]_vars => IInv'
<1> SUFFICES ASSUME IInv, [Next]_vars PROVE IInv'
  OBVIOUS
<1>1. CASE Main \/ IdlerDone
  BY <1>1, MainIInv
<1>2. CASE \E w \in Workers : Worker(w)
  BY <1>2, WorkerIInv
<1>3. CASE \E j \in Jobs : Pinger(j)
  BY <1>3, PingerIInv
<1>4. CASE UNCHANGED vars
  <2>1. UNCHANGED <<mainPc, n, wg, idlers, fed, collected, taken, resultsCh>>
    BY <1>4 DEF vars, mainVars, workerVars
  <2>2. UNCHANGED <<workerPc, job, ip, owner, answer, timedOut>>
    BY <1>4 DEF vars, workerVars
  <2>3. UNCHANGED <<pingPc, i, target, ping, hits, printed, pingCh>>
    BY <1>4 DEF vars, pingVars
  <2>4. TypeOK'
    BY <2>1, <2>2, <2>3 DEF IInv, TypeOK, MainTypeOK, WorkerTypeOK, PingTypeOK
  <2>5. WaitGroupInv' /\ CountInv' /\ HoldInv' /\ OneHolder'
    BY <2>1, <2>2 DEF IInv, WaitGroupInv, CountInv, HoldInv, OneHolder
  <2>6. BornInv' /\ SelectInv' /\ WaitedInv' /\ AnswerInv'
    BY <2>1, <2>2, <2>3 DEF IInv, BornInv, SelectInv, WaitedInv, AnswerInv
  <2>7. SumInv' /\ TargetInv' /\ AttributedUntilTimeout'
    BY <2>2, <2>3 DEF IInv, SumInv, TargetInv, AttributedUntilTimeout
  <2>8. QED
    BY <2>4, <2>5, <2>6, <2>7 DEF IInv
<1>5. QED
  BY <1>1, <1>2, <1>3, <1>4 DEF Next, Exited

\* The inductive invariant holds in every reachable state.
LEMMA AlwaysIInv == Spec => []IInv
<1>1. QED
  BY InitIInv, NextIInv, PTL DEF Spec

\* Every variable of the scan loop keeps its type; the WaitGroup counter of
\* the warm-up loop never goes below zero.
THEOREM TypeCorrect == Spec => []TypeOK
<1>1. IInv => TypeOK
  BY DEF IInv
<1>2. QED
  BY <1>1, AlwaysIInv, PTL

\* No address is held twice or answered twice by the worker pool.
THEOREM HeldOnce == Spec => []OneHolder
<1>1. IInv => OneHolder
  BY DEF IInv
<1>2. QED
  BY <1>1, AlwaysIInv, PTL

\* What the invariant says once main has stopped collecting.
LEMMA IInvScanComplete == IInv => ScanComplete
<1> SUFFICES ASSUME IInv, mainPc \in {"closed", "returned"}
             PROVE  /\ collected = Jobs
                    /\ resultsCh = {}
                    /\ \A j \in Jobs : answer[j] # None
  BY DEF ScanComplete
<1>1. Cardinality(collected) = Cardinality(Jobs)
  BY JobsFinite DEF IInv, CountInv
<1>2. collected = Jobs
  BY <1>1, JobsFinite, FS_Subset DEF IInv, TypeOK, MainTypeOK
<1>3. resultsCh = {}
  BY <1>2 DEF IInv, TypeOK, MainTypeOK, OneHolder
<1>4. QED
  BY <1>2, <1>3 DEF IInv, AnswerInv

\* When main closes inputCh every address has been answered exactly once.
THEOREM Complete == Spec => []ScanComplete
<1>1. QED
  BY IInvScanComplete, AlwaysIInv, PTL

\* Addresses are mixed up only by goroutines the second timeout gave up.
THEOREM Attributed == Spec => []AttributedUntilTimeout
<1>1. IInv => AttributedUntilTimeout
  BY DEF IInv
<1>2. QED
  BY <1>1, AlwaysIInv, PTL

\* A final positive sum of a job that was not given up is on standard output
\* under its own address.
LEMMA PrintedLine ==
  ASSUME IInv, NEW j \in Jobs, j \notin timedOut, pingPc[j] = "ended", ping[j] > 0
  PROVE  [job |-> j, ip |-> j, ping |-> ping[j]] \in printed
<1>1. PICK r \in printed : r.job = j /\ r.ping = ping[j]
  BY DEF IInv, SumInv
<1>2. r.ip = j
  BY <1>1 DEF IInv, AttributedUntilTimeout
<1>3. r \in [job : Jobs, ip : Jobs \cup {Torn, None}, ping : Nat]
  BY DEF IInv, TypeOK, PingTypeOK
<1>4. r = [job |-> j, ip |-> j, ping |-> ping[j]]
  BY <1>1, <1>2, <1>3
<1>5. QED
  BY <1>4

\* Every positive result was printed first, under the address it measures.
THEOREM PositivePrinted == Spec => []PositiveAnswerIsPrinted
<1>1. IInv => PositiveAnswerIsPrinted
  <2> SUFFICES ASSUME IInv, NEW j \in Jobs, answer[j] \notin {None, 0}
               PROVE  /\ [job |-> j, ip |-> j, ping |-> answer[j]] \in printed
                      /\ \A h \in hits : h.job = j => h.ip = j
    BY DEF PositiveAnswerIsPrinted
  <2>1. j \notin timedOut
    BY DEF IInv, AnswerInv
  <2>2. pingPc[j] = "ended" /\ answer[j] = ping[j]
    BY <2>1 DEF IInv, AnswerInv
  <2>3. ping[j] > 0
    BY <2>2 DEF IInv, TypeOK, PingTypeOK
  <2>4. QED
    BY <2>1, <2>2, <2>3, PrintedLine DEF IInv, AttributedUntilTimeout
<1>2. QED
  BY <1>1, AlwaysIInv, PTL

\* When main returns, only jobs given up by the second timeout are unfinished.
THEOREM NothingLost == Spec => []NothingLostWithoutTimeout
<1>1. IInv => NothingLostWithoutTimeout
  <2> SUFFICES ASSUME IInv, mainPc = "returned", NEW j \in Jobs \ timedOut
               PROVE  /\ pingPc[j] = "ended"
                      /\ answer[j] = ping[j]
                      /\ ping[j] > 0 => [job |-> j, ip |-> j, ping |-> ping[j]] \in printed
    BY DEF NothingLostWithoutTimeout
  <2>1. answer[j] # None
    BY IInvScanComplete DEF ScanComplete
  <2>2. pingPc[j] = "ended" /\ answer[j] = ping[j]
    BY <2>1 DEF IInv, AnswerInv
  <2>3. QED
    BY <2>2, PrintedLine
<1>2. QED
  BY <1>1, AlwaysIInv, PTL

\* A goroutine that still pings has not counted its last ping, and a sum of
\* zero is one of replies that the division dropped.  (After a panic the sum is
\* zero whatever the replies were; but then not all pings were made.)
SilentInv ==
  \A j \in Jobs :
    /\ pingPc[j] \in {"unborn", "call", "pinging"} => i[j] <= PingCount
    /\ pingPc[j] = "unborn" => \A h \in hits : h.job # j
    /\ pingPc[j] \in {"unborn", "call", "pinging", "report"} /\ ping[j] = 0 =>
         \A h \in hits : h.job = j => h.ping < PingCount

\* A sum that stays zero after a positive ping: the ping was dropped.
LEMMA DroppedPing ==
  ASSUME NEW s \in Nat, NEW p \in Nat, p > 0, AddPing(s, p) = 0
  PROVE  s = 0 /\ p < PingCount
<1>1. PingCount \in Nat /\ PingCount > 0
  BY ScannerAssumption
<1>2. p \div PingCount \in Nat /\ s + p \div PingCount = 0
  BY <1>1 DEF AddPing
<1>3. s = 0 /\ p \div PingCount = 0
  BY <1>2
<1>4. QED
  BY <1>1, <1>3

\* Every step keeps it, and keeps quiet goroutines below the resolution.
LEMMA SilentStep ==
  ASSUME IInv, SilentInv, SilentOnlyBelowResolution, [Next]_vars
  PROVE  SilentInv' /\ SilentOnlyBelowResolution'
<1> USE ScannerAssumption DEF IInv, TypeOK
<1>1. ASSUME UNCHANGED <<pingPc, i, ping, hits, printed>>
      PROVE  SilentInv' /\ SilentOnlyBelowResolution'
  BY <1>1 DEF SilentInv, SilentOnlyBelowResolution
<1>2. CASE Main \/ IdlerDone \/ UNCHANGED vars
  BY <1>1, <1>2 DEF Main, Warmup, IdlerDone, StartWorkers, Feed, StartCollecting, Collect, Close, Return,
                    vars, pingVars
<1>3. ASSUME NEW w \in Workers, Receive(w) \/ TakePing(w) \/ Timeout(w) \/ Reply(w) \/ Leave(w)
      PROVE  SilentInv' /\ SilentOnlyBelowResolution'
  BY <1>1, <1>3 DEF Receive, TakePing, Timeout, Reply, Leave, pingVars
<1>4. ASSUME NEW w \in Workers, Spawn(w)
      PROVE  SilentInv' /\ SilentOnlyBelowResolution'
  <2>1. job[w] \in Jobs /\ pingPc[job[w]] = "unborn"
    BY <1>4 DEF Spawn, HoldInv, BornInv, Busy
  <2>2. pingPc' = [pingPc EXCEPT ![job[w]] = "call"] /\ UNCHANGED <<i, ping, hits, printed>>
    BY <1>4 DEF Spawn
  <2>3. SilentInv'
    BY <2>1, <2>2 DEF SilentInv, PingTypeOK
  <2>4. SilentOnlyBelowResolution'
    BY <2>1, <2>2 DEF SilentOnlyBelowResolution, PingTypeOK
  <2>5. QED
    BY <2>3, <2>4
<1>5. ASSUME NEW j \in Jobs, Call(j)
      PROVE  SilentInv' /\ SilentOnlyBelowResolution'
  <2>1. pingPc[j] = "call" /\ pingPc' = [pingPc EXCEPT ![j] = "pinging"] /\ UNCHANGED <<i, ping, hits, printed>>
    BY <1>5 DEF Call
  <2>2. QED
    BY <2>1 DEF SilentInv, SilentOnlyBelowResolution, PingTypeOK
<1>6. ASSUME NEW j \in Jobs, PingReturns(j)
      PROVE  SilentInv' /\ SilentOnlyBelowResolution'
  <2>1. PICK p \in PingResults :
          /\ ping' = [ping EXCEPT ![j] = AddPing(ping[j], p)]
          /\ hits' = IF p > 0 THEN hits \cup {[job |-> j, ip |-> target[j], ping |-> p]} ELSE hits
    BY <1>6 DEF PingReturns
  <2>2. /\ pingPc[j] = "pinging" /\ i' = [i EXCEPT ![j] = i[j] + 1] /\ UNCHANGED printed
        /\ pingPc' = [pingPc EXCEPT ![j] = IF i[j] < PingCount THEN "call" ELSE "report"]
    BY <1>6 DEF PingReturns
  <2>3. p \in Nat /\ ping[j] \in Nat /\ i[j] \in Nat /\ AddPing(ping[j], p) \in Nat
    BY PingArithmetic DEF PingTypeOK
  <2>4. \A k \in Jobs : k # j => /\ pingPc'[k] = pingPc[k] /\ i'[k] = i[k] /\ ping'[k] = ping[k]
    BY <2>1, <2>2 DEF PingTypeOK
  <2>5. ping'[j] = AddPing(ping[j], p) /\ i'[j] = i[j] + 1
        /\ pingPc'[j] = IF i[j] < PingCount THEN "call" ELSE "report"
    BY <2>1, <2>2 DEF PingTypeOK
  <2>6. \A h \in hits' : h \in hits \/ (h.job = j /\ h.ping = p /\ p > 0)
    BY <2>1
  <2>7. SilentInv'
    <3>1. ASSUME NEW k \in Jobs, k # j
          PROVE  /\ pingPc'[k] \in {"unborn", "call", "pinging"} => i'[k] <= PingCount
                 /\ pingPc'[k] = "unborn" => \A h \in hits' : h.job # k
                 /\ pingPc'[k] \in {"unborn", "call", "pinging", "report"} /\ ping'[k] = 0 =>
                      \A h \in hits' : h.job = k => h.ping < PingCount
      BY <2>4, <2>6, <3>1 DEF SilentInv
    <3>2. pingPc'[j] # "unborn" /\ (pingPc'[j] \in {"call", "pinging"} => i'[j] <= PingCount)
      BY <2>3, <2>5
    <3>3. ASSUME ping'[j] = 0, NEW h \in hits', h.job = j
          PROVE  h.ping < PingCount
      <4>1. CASE p > 0
        <5>1. ping[j] = 0 /\ p < PingCount
          BY <2>3, <2>5, <3>3, <4>1, DroppedPing
        <5>2. QED
          BY <2>2, <2>6, <3>3, <5>1 DEF SilentInv
      <4>2. CASE ~(p > 0)
        <5>1. ping[j] = 0 /\ hits' = hits
          BY <2>1, <2>5, <3>3, <4>2 DEF AddPing
        <5>2. QED
          BY <2>2, <3>3, <5>1 DEF SilentInv
      <4>3. QED
        BY <4>1, <4>2
    <3>4. QED
      BY <3>1, <3>2, <3>3 DEF SilentInv
  <2>8. SilentOnlyBelowResolution'
    BY <2>2, <2>4, <2>5, <2>6 DEF SilentOnlyBelowResolution
  <2>9. QED
    BY <2>7, <2>8
<1>7. ASSUME NEW j \in Jobs, PingPanics(j)
      PROVE  SilentInv' /\ SilentOnlyBelowResolution'
  <2>1. /\ pingPc[j] = "pinging" /\ pingPc' = [pingPc EXCEPT ![j] = "send"]
        /\ ping' = [ping EXCEPT ![j] = 0] /\ UNCHANGED <<i, hits, printed>>
    BY <1>7 DEF PingPanics
  <2>2. i[j] \in Nat /\ i[j] <= PingCount
    BY <2>1 DEF SilentInv, PingTypeOK
  <2>3. SilentInv'
    BY <2>1 DEF SilentInv, PingTypeOK
  <2>4. SilentOnlyBelowResolution'
    BY <2>1, <2>2 DEF SilentOnlyBelowResolution, PingTypeOK
  <2>5. QED
    BY <2>3, <2>4
<1>8. ASSUME NEW j \in Jobs, Report(j)
      PROVE  SilentInv' /\ SilentOnlyBelowResolution'
  <2>1. /\ pingPc[j] = "report" /\ pingPc' = [pingPc EXCEPT ![j] = "send"] /\ UNCHANGED <<i, ping, hits>>
        /\ printed \subseteq printed' /\ (ping[j] > 0 => \E r \in printed' : r.job = j)
    <3>1. /\ pingPc[j] = "report" /\ pingPc' = [pingPc EXCEPT ![j] = "send"] /\ UNCHANGED <<i, ping, hits>>
      BY <1>8 DEF Report
    <3>2. CASE ping[j] > 0
      <4>1. printed' = printed \cup {[job |-> j, ip |-> ip[owner[j]], ping |-> ping[j]]}
        BY <1>8, <3>2 DEF Report
      <4>2. [job |-> j, ip |-> ip[owner[j]], ping |-> ping[j]].job = j
        OBVIOUS
      <4>3. QED
        BY <3>1, <4>1, <4>2
    <3>3. CASE ~(ping[j] > 0)
      <4>1. printed' = printed
        BY <1>8, <3>3 DEF Report
      <4>2. QED
        BY <3>1, <3>3, <4>1
    <3>4. QED
      BY <3>2, <3>3
  <2>2. ping[j] \in Nat
    BY DEF PingTypeOK
  <2>3. SilentInv'
    BY <2>1 DEF SilentInv, PingTypeOK
  <2>4. SilentOnlyBelowResolution'
    <3>1. ASSUME \A r \in printed' : r.job # j
          PROVE  \A h \in hits : h.job = j => h.ping < PingCount
      BY <2>1, <2>2, <3>1 DEF SilentInv
    <3>2. QED
      BY <2>1, <3>1 DEF SilentOnlyBelowResolution, PingTypeOK
  <2>5. QED
    BY <2>3, <2>4
<1>9. ASSUME NEW j \in Jobs, Send(j)
      PROVE  SilentInv' /\ SilentOnlyBelowResolution'
  <2>1. pingPc[j] = "send" /\ pingPc' = [pingPc EXCEPT ![j] = "ended"] /\ UNCHANGED <<i, ping, hits, printed>>
    BY <1>9 DEF Send
  <2>2. QED
    BY <2>1 DEF SilentInv, SilentOnlyBelowResolution, PingTypeOK
<1>10. QED
  BY <1>2, <1>3, <1>4, <1>5, <1>6, <1>7, <1>8, <1>9 DEF Next, Worker, Pinger, Exited

\* A goroutine that made all its pings and printed nothing got only replies
\* that p / pingCount drops, for any number of pings and any times.
THEOREM Silent == Spec => []SilentOnlyBelowResolution
<1>1. Init => SilentInv /\ SilentOnlyBelowResolution
  BY ScannerAssumption DEF Init, SilentInv, SilentOnlyBelowResolution
<1>2. QED
  BY <1>1, SilentStep, AlwaysIInv, PTL DEF Spec

\* The worker pool implements the abstract scan (its safety part).
THEOREM Refinement == Spec => Abstract!Safety
<1>1. Init => Abstract!Init
  BY DEF Init, Abstract!Init
<1>2. IInv /\ [Next]_vars => [Abstract!Next]_(Abstract!scanVars)
  <2> SUFFICES ASSUME IInv, [Next]_vars
               PROVE  Abstract!Next \/ UNCHANGED Abstract!scanVars
    OBVIOUS
  <2> USE DEF Abstract!scanVars
  <2>1. ASSUME NEW w \in Workers, Reply(w) PROVE Abstract!Next
    <3>1. job[w] \in Jobs
      BY <2>1 DEF Reply, IInv, HoldInv, Busy
    <3>2. Abstract!Answer(job[w])
      BY <2>1 DEF Reply, Running, Abstract!Answer, mainVars, IInv, OneHolder
    <3>3. QED
      BY <3>1, <3>2 DEF Abstract!Next, Jobs
  <2>2. CASE Return
    <3>1. collected \cup resultsCh = 1..NumJobs
      BY <2>2, IInvScanComplete DEF Return, ScanComplete, Jobs
    <3>2. QED
      BY <2>2, <3>1 DEF Return, Abstract!Next, Abstract!Finish
  <2>3. CASE Collect
    BY <2>3 DEF Collect
  <2>4. CASE Warmup \/ StartWorkers \/ Feed \/ StartCollecting \/ Close \/ IdlerDone
    BY <2>4 DEF Warmup, StartWorkers, Feed, StartCollecting, Close, IdlerDone
  <2>5. ASSUME NEW w \in Workers, Receive(w) \/ Spawn(w) \/ TakePing(w) \/ Timeout(w) \/ Leave(w)
        PROVE  UNCHANGED Abstract!scanVars
    BY <2>5 DEF Receive, Spawn, TakePing, Timeout, Leave, mainVars
  <2>6. ASSUME NEW j \in Jobs, Pinger(j) PROVE UNCHANGED Abstract!scanVars
    BY <2>6 DEF Pinger, Call, PingReturns, PingPanics, Report, Send, mainVars
  <2>7. CASE UNCHANGED vars
    BY <2>7 DEF vars, mainVars
  <2>8. QED
    BY <2>1, <2>2, <2>3, <2>4, <2>5, <2>6, <2>7 DEF Next, Main, Worker, Exited
<1>3. QED
  BY <1>1, <1>2, AlwaysIInv, PTL DEF Spec, Abstract!Safety
=============================================================================
