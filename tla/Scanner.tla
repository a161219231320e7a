------------------------------ MODULE Scanner ------------------------------
(***************************************************************************)
(* The scan loop of wg-ping.go: main feeds the address list to a pool of   *)
(* workers through a buffered channel, every worker starts one pinging     *)
(* goroutine per address and waits for its answer or for the second        *)
(* timeout, main collects one result per address and returns.              *)
(*                                                                         *)
(* An address is the index of its job in ipList.  The goroutines are       *)
(* interleaved at every access to something they share: the channels, the  *)
(* WaitGroup and the loop variable ip of a worker, which the pinging       *)
(* closure captures by reference.  go.mod selects Go 1.19, where that      *)
(* variable is one per loop, not one per iteration.                        *)
(***************************************************************************)
EXTENDS Integers, FiniteSets

CONSTANTS
  NumJobs,      \* len(ipList)
  Workers,      \* the worker goroutines; their number is `concurrency`
  PingCount,    \* pingCount
  Elapsed,      \* milliseconds a successful pingWG may have taken
  Torn,         \* a string header read between the writes of its two words
  None          \* an absent value

ASSUME ScannerAssumption ==
  /\ NumJobs \in Nat
  /\ IsFiniteSet(Workers)
  /\ PingCount \in Nat \ {0}
  /\ Elapsed \subseteq Nat
  /\ Torn \notin 1..NumJobs
  /\ None \notin Nat
  /\ None \notin Workers

Jobs == 1..NumJobs

VARIABLES
  mainPc,       \* where main is
  n,            \* how far main is in the loop it runs
  wg,           \* counter of the WaitGroup of the warm-up loop
  idlers,       \* warm-up goroutines that have not run yet
  fed,          \* jobs 1..fed have been sent on inputCh
  taken,        \* jobs 1..taken have been received from it
  resultsCh,    \* jobs whose result is buffered in resultsCh
  workerPc,     \* where each worker is
  job,          \* the job it works on
  ip,           \* its loop variable
  pingPc,       \* where the pinging goroutine of each job is
  owner,        \* the worker whose closure it is
  i,            \* its loop counter
  target,       \* the address it called pingWG with
  ping,         \* its sum
  pingCh,       \* the value buffered in its channel, which holds one
  answer,       \* the value its worker sent on resultsCh
  timedOut,     \* jobs given up by the second timeout
  collected,    \* jobs whose result main received
  hits,         \* pingWG calls that returned a positive value
  printed       \* the lines on standard output

mainVars == <<mainPc, n, wg, idlers, fed, collected>>
workerVars == <<workerPc, job, ip, owner, answer, timedOut, taken>>
pingVars == <<pingPc, i, target, ping, hits, printed>>
vars == <<mainVars, workerVars, pingVars, pingCh, resultsCh>>

-----------------------------------------------------------------------------
(* Arithmetic of a ping. *)

\* uint16(d / time.Millisecond): the conversion keeps the low 16 bits.
Uint16(ms) == ms % 65536

\* What pingWG may return: 0 on every early return, else the elapsed time.
PingResults == {0} \cup {Uint16(ms) : ms \in Elapsed}

\* Mutant: the commented-out `ping = 0` on a failed ping is active.
AddPingResets(sum, p) == IF p > 0 THEN sum + p \div PingCount ELSE 0

\* The sum after one more ping: `if p > 0 { ping += p / pingCount }`.
AddPing(sum, p) == IF p > 0 THEN sum + p \div PingCount ELSE sum

-----------------------------------------------------------------------------

Init ==
  /\ mainPc = "warmup" /\ n = 0 /\ wg = 0 /\ idlers = 0
  /\ fed = 0 /\ taken = 0
  /\ resultsCh = {} /\ collected = {}
  /\ workerPc = [w \in Workers |-> "unborn"]
  /\ job = [w \in Workers |-> None]
  /\ ip = [w \in Workers |-> None]
  /\ pingPc = [j \in Jobs |-> "unborn"]
  /\ owner = [j \in Jobs |-> None]
  /\ i = [j \in Jobs |-> 1]
  /\ target = [j \in Jobs |-> None]
  /\ ping = [j \in Jobs |-> 0]
  /\ pingCh = [j \in Jobs |-> None]
  /\ answer = [j \in Jobs |-> None]
  /\ timedOut = {} /\ hits = {} /\ printed = {}

\* Returning from main ends every goroutine.
Running == mainPc # "returned"

-----------------------------------------------------------------------------
(* main *)

\* `wg.Add(1); go func(ip string) {...}(_ip)`
Warmup ==
  /\ mainPc = "warmup" /\ n < NumJobs
  /\ wg' = wg + 1 /\ idlers' = idlers + 1 /\ n' = n + 1
  /\ UNCHANGED <<mainPc, fed, collected, workerVars, pingVars, pingCh, resultsCh>>

\* The body of a warm-up goroutine is its deferred wg.Done().
IdlerDone ==
  /\ Running /\ idlers > 0
  /\ idlers' = idlers - 1 /\ wg' = wg - 1
  /\ UNCHANGED <<mainPc, n, fed, collected, workerVars, pingVars, pingCh, resultsCh>>

\* wg.Wait() returns, the channels are made and the workers started.
StartWorkers ==
  /\ mainPc = "warmup" /\ n = NumJobs /\ wg = 0
  /\ mainPc' = "feed"
  /\ n' = 0
  /\ workerPc' = [w \in Workers |-> "range"]
  /\ UNCHANGED <<wg, idlers, fed, collected, job, ip, owner, answer, timedOut,
                 taken, pingVars, pingCh, resultsCh>>

\* `inputCh <- ip`; the channel has room for every job.
Feed ==
  /\ mainPc = "feed" /\ fed < NumJobs
  /\ fed - taken < NumJobs
  /\ fed' = fed + 1
  /\ UNCHANGED <<mainPc, n, wg, idlers, collected, workerVars, pingVars, pingCh,
                 resultsCh>>

\* The feeding loop is over.
StartCollecting ==
  /\ mainPc = "feed" /\ fed = NumJobs
  /\ mainPc' = "collect"
  /\ UNCHANGED <<n, wg, idlers, fed, collected, workerVars, pingVars, pingCh,
                 resultsCh>>

\* `<-resultsCh`: the value is dropped, so the order of the buffer is immaterial.
Collect ==
  /\ mainPc = "collect" /\ n < NumJobs
  /\ \E j \in resultsCh :
       /\ resultsCh' = resultsCh \ {j}
       /\ collected' = collected \cup {j}
  /\ n' = n + 1
  /\ UNCHANGED <<mainPc, wg, idlers, fed, workerVars, pingVars, pingCh>>

\* Mutant: main waits for one result too few.
CloseEarly ==
  /\ mainPc = "collect" /\ n + 1 >= NumJobs
  /\ mainPc' = "closed"
  /\ UNCHANGED <<n, wg, idlers, fed, collected, workerVars, pingVars, pingCh, resultsCh>>

\* close(inputCh)
Close ==
  /\ mainPc = "collect" /\ n = NumJobs
  /\ mainPc' = "closed"
  /\ UNCHANGED <<n, wg, idlers, fed, collected, workerVars, pingVars, pingCh, resultsCh>>

Return ==
  /\ mainPc = "closed"
  /\ mainPc' = "returned"
  /\ UNCHANGED <<n, wg, idlers, fed, collected, workerVars, pingVars, pingCh,
                 resultsCh>>

Main == Warmup \/ StartWorkers \/ Feed \/ StartCollecting \/ Collect \/ Close \/ Return

-----------------------------------------------------------------------------
(* A worker *)

\* `for ip := range inputCh`: the next address is received, and the first of
\* the two words of the string is written to ip.
Receive(w) ==
  /\ Running /\ workerPc[w] = "range" /\ taken < fed
  /\ taken' = taken + 1
  /\ job' = [job EXCEPT ![w] = taken + 1]
  /\ \E v \in {taken + 1, Torn} : ip' = [ip EXCEPT ![w] = v]
  /\ workerPc' = [workerPc EXCEPT ![w] = "spawn"]
  /\ UNCHANGED <<mainVars, owner, answer, timedOut, pingVars, pingCh, resultsCh>>

\* Mutant: the goroutine is started before ip is completely written.
SpawnEarly(w) ==
  /\ Running /\ workerPc[w] = "spawn"
  /\ owner' = [owner EXCEPT ![job[w]] = w]
  /\ pingPc' = [pingPc EXCEPT ![job[w]] = "call"]
  /\ workerPc' = [workerPc EXCEPT ![w] = "select"]
  /\ UNCHANGED <<mainVars, job, ip, answer, timedOut, taken, i, target, ping, hits, printed,
                 pingCh, resultsCh>>

\* ip is written, pingCh made, the pinging goroutine and the timer started.
Spawn(w) ==
  /\ Running /\ workerPc[w] = "spawn"
  /\ ip' = [ip EXCEPT ![w] = job[w]]
  /\ owner' = [owner EXCEPT ![job[w]] = w]
  /\ pingPc' = [pingPc EXCEPT ![job[w]] = "call"]
  /\ workerPc' = [workerPc EXCEPT ![w] = "select"]
  /\ UNCHANGED <<mainVars, job, answer, timedOut, taken, i, target, ping, hits, printed,
                 pingCh, resultsCh>>

\* `case ping = <-pingCh`
TakePing(w) ==
  /\ Running /\ workerPc[w] = "select" /\ pingCh[job[w]] # None
  /\ answer' = [answer EXCEPT ![job[w]] = pingCh[job[w]]]
  /\ pingCh' = [pingCh EXCEPT ![job[w]] = None]
  /\ workerPc' = [workerPc EXCEPT ![w] = "reply"]
  /\ UNCHANGED <<mainVars, job, ip, owner, timedOut, taken, pingVars, resultsCh>>

\* Mutant: without the second timeout; the worker waits for the answer only.
TimeoutNever(w) ==
  /\ Running /\ workerPc[w] = "select" /\ pingCh[job[w]] # None
  /\ answer' = [answer EXCEPT ![job[w]] = 0]
  /\ timedOut' = timedOut \cup {job[w]}
  /\ workerPc' = [workerPc EXCEPT ![w] = "reply"]
  /\ UNCHANGED <<mainVars, job, ip, owner, taken, pingVars, pingCh, resultsCh>>

\* `case <-time.After(...)`: the timer may win even when the answer is there.
Timeout(w) ==
  /\ Running /\ workerPc[w] = "select"
  /\ answer' = [answer EXCEPT ![job[w]] = 0]
  /\ timedOut' = timedOut \cup {job[w]}
  /\ workerPc' = [workerPc EXCEPT ![w] = "reply"]
  /\ UNCHANGED <<mainVars, job, ip, owner, taken, pingVars, pingCh, resultsCh>>

\* `resultsCh <- ping`
Reply(w) ==
  /\ Running /\ workerPc[w] = "reply" /\ Cardinality(resultsCh) < NumJobs
  /\ resultsCh' = resultsCh \cup {job[w]}
  /\ job' = [job EXCEPT ![w] = None]
  /\ workerPc' = [workerPc EXCEPT ![w] = "range"]
  /\ UNCHANGED <<mainVars, ip, owner, answer, timedOut, taken, pingVars, pingCh>>

\* The range loop ends on a closed and drained inputCh.
Leave(w) ==
  /\ Running /\ workerPc[w] = "range" /\ mainPc = "closed" /\ taken = fed
  /\ workerPc' = [workerPc EXCEPT ![w] = "left"]
  /\ UNCHANGED <<mainVars, job, ip, owner, answer, timedOut, taken, pingVars, pingCh,
                 resultsCh>>

Worker(w) == Receive(w) \/ Spawn(w) \/ TakePing(w) \/ Timeout(w) \/ Reply(w) \/ Leave(w)

-----------------------------------------------------------------------------
(* The pinging goroutine of job j *)

\* `pingWG(ip, port, timeout)` is called with what ip holds now.
Call(j) ==
  /\ Running /\ pingPc[j] = "call"
  /\ target' = [target EXCEPT ![j] = ip[owner[j]]]
  /\ pingPc' = [pingPc EXCEPT ![j] = "pinging"]
  /\ UNCHANGED <<mainVars, workerVars, i, ping, hits, printed, pingCh, resultsCh>>

\* pingWG returns p; the loop goes on or ends.
PingReturns(j) ==
  /\ Running /\ pingPc[j] = "pinging"
  /\ \E p \in PingResults :
       /\ ping' = [ping EXCEPT ![j] = AddPing(ping[j], p)]
       /\ hits' = IF p > 0 THEN hits \cup {[job |-> j, ip |-> target[j], ping |-> p]} ELSE hits
  /\ i' = [i EXCEPT ![j] = i[j] + 1]
  /\ pingPc' = [pingPc EXCEPT ![j] = IF i[j] < PingCount THEN "call" ELSE "report"]
  /\ UNCHANGED <<mainVars, workerVars, target, printed, pingCh, resultsCh>>

\* Mutant: recover sends the sum so far.
PingPanicsKeepsSum(j) ==
  /\ Running /\ pingPc[j] = "pinging"
  /\ pingPc' = [pingPc EXCEPT ![j] = "send"]
  /\ UNCHANGED <<mainVars, workerVars, i, target, ping, hits, printed, pingCh, resultsCh>>

\* pingWG panics: the deferred recover sends 0 in place of the sum.
PingPanics(j) ==
  /\ Running /\ pingPc[j] = "pinging"
  /\ ping' = [ping EXCEPT ![j] = 0]
  /\ pingPc' = [pingPc EXCEPT ![j] = "send"]
  /\ UNCHANGED <<mainVars, workerVars, i, target, hits, printed, pingCh, resultsCh>>

\* A positive sum is printed, next to what ip holds now.
Report(j) ==
  /\ Running /\ pingPc[j] = "report"
  /\ printed' = IF ping[j] > 0
                THEN printed \cup {[job |-> j, ip |-> ip[owner[j]], ping |-> ping[j]]}
                ELSE printed
  /\ pingPc' = [pingPc EXCEPT ![j] = "send"]
  /\ UNCHANGED <<mainVars, workerVars, i, target, ping, hits, pingCh, resultsCh>>

\* `pingCh <- ping`, into a buffer of one.
Send(j) ==
  /\ Running /\ pingPc[j] = "send" /\ pingCh[j] = None
  /\ pingCh' = [pingCh EXCEPT ![j] = ping[j]]
  /\ pingPc' = [pingPc EXCEPT ![j] = "ended"]
  /\ UNCHANGED <<mainVars, workerVars, i, target, ping, hits, printed, resultsCh>>

Pinger(j) == Call(j) \/ PingReturns(j) \/ PingPanics(j) \/ Report(j) \/ Send(j)

-----------------------------------------------------------------------------

\* The process is gone.
Exited == mainPc = "returned" /\ UNCHANGED vars

Next ==
  \/ Main
  \/ IdlerDone
  \/ \E w \in Workers : Worker(w)
  \/ \E j \in Jobs : Pinger(j)
  \/ Exited

Spec == Init /\ [][Next]_vars

(***************************************************************************)
(* The Go scheduler runs every goroutine that can run, and a timer that is *)
(* started fires: weak fairness of main, of the warm-up goroutines and of  *)
(* each step of a worker.  Nothing is assumed of a pinging goroutine: the  *)
(* calls it makes into the WireGuard stack may hang.                       *)
(***************************************************************************)
Fairness ==
  /\ WF_vars(Main)
  /\ WF_vars(IdlerDone)
  /\ \A w \in Workers : WF_vars(Worker(w))

FairSpec == Spec /\ Fairness

-----------------------------------------------------------------------------

MainTypeOK ==
  /\ mainPc \in {"warmup", "feed", "collect", "closed", "returned"}
  /\ n \in 0..NumJobs /\ wg \in Nat /\ idlers \in Nat
  /\ fed \in 0..NumJobs /\ taken \in 0..NumJobs
  /\ resultsCh \subseteq Jobs /\ collected \subseteq Jobs

WorkerTypeOK ==
  /\ workerPc \in [Workers -> {"unborn", "range", "spawn", "select", "reply", "left"}]
  /\ job \in [Workers -> Jobs \cup {None}]
  /\ ip \in [Workers -> Jobs \cup {Torn, None}]
  /\ owner \in [Jobs -> Workers \cup {None}]
  /\ answer \in [Jobs -> Nat \cup {None}]
  /\ timedOut \subseteq Jobs

PingTypeOK ==
  /\ pingPc \in [Jobs -> {"unborn", "call", "pinging", "report", "send", "ended"}]
  /\ i \in [Jobs -> Nat]
  /\ target \in [Jobs -> Jobs \cup {Torn, None}]
  /\ ping \in [Jobs -> Nat]
  /\ pingCh \in [Jobs -> Nat \cup {None}]
  /\ hits \subseteq [job : Jobs, ip : Jobs \cup {Torn, None}, ping : Nat]
  /\ printed \subseteq [job : Jobs, ip : Jobs \cup {Torn, None}, ping : Nat]

\* Every variable stays in its range; in particular the counter of the
\* WaitGroup never goes negative, which would panic in wg.Done().
TypeOK == MainTypeOK /\ WorkerTypeOK /\ PingTypeOK

-----------------------------------------------------------------------------
(* Safety *)

\* An address is held by at most one worker, and never by a worker once its
\* result is on resultsCh or collected: inputCh hands every job out once and
\* each job sends exactly one result, on the timeout path as on the other.
OneHolder ==
  /\ \A v, w \in Workers : job[v] # None /\ job[v] = job[w] => v = w
  /\ \A w \in Workers : job[w] \notin resultsCh \cup collected
  /\ resultsCh \cap collected = {}

\* When main closes inputCh and returns, every address has been answered and
\* its result received: len(ipList) receives are all the results there are.
ScanComplete ==
  mainPc \in {"closed", "returned"} =>
    /\ collected = Jobs
    /\ resultsCh = {}
    /\ \A j \in Jobs : answer[j] # None

\* Until the second timeout gives a job up, its pinging goroutine pings and
\* prints the address of that job: the loop variable the closure captured is
\* not assigned again while the worker waits in the select.
AttributedUntilTimeout ==
  \A r \in hits \cup printed : r.ip # r.job => r.job \in timedOut

\* A positive result has been printed before it is sent, for the address of
\* its job, and every ping that was added up went to that address.
PositiveAnswerIsPrinted ==
  \A j \in Jobs : answer[j] \notin {None, 0} =>
    /\ [job |-> j, ip |-> j, ping |-> answer[j]] \in printed
    /\ \A h \in hits : h.job = j => h.ip = j

\* A job that was not given up is fully dealt with when main returns: its
\* goroutine has ended, its result is the sum, printed if it is positive.
NothingLostWithoutTimeout ==
  mainPc = "returned" => \A j \in Jobs \ timedOut :
    /\ pingPc[j] = "ended"
    /\ answer[j] = ping[j]
    /\ ping[j] > 0 => [job |-> j, ip |-> j, ping |-> ping[j]] \in printed

\* A goroutine that ran all its pings prints nothing only if every reply it
\* got took less than pingCount milliseconds, which p / pingCount drops.
SilentOnlyBelowResolution ==
  \A j \in Jobs :
    /\ pingPc[j] \in {"send", "ended"} /\ i[j] > PingCount
    /\ \A r \in printed : r.job # j
    => \A h \in hits : h.job = j => h.ping < PingCount

\* What a line on standard output says: the address it shows is one that this
\* goroutine pinged and that replied.
PrintedAddressReplied ==
  \A r \in printed : \E h \in hits : h.job = r.job /\ h.ip = r.ip

-----------------------------------------------------------------------------
(* Liveness *)

\* The scan ends whatever the WireGuard stack does, a ping that never
\* returns included: the second timeout answers in its place.
ScanTerminates == <>(mainPc = "returned")

(* Refinement *)

Abstract == INSTANCE Scan WITH
  answered <- collected \cup resultsCh,
  finished <- mainPc = "returned"

\* The worker pool implements the abstract scan, progress included.
RefinesScan == Abstract!Spec
=============================================================================
