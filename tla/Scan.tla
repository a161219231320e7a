-------------------------------- MODULE Scan --------------------------------
(***************************************************************************)
(* What a scan promises: every address of the list gets exactly one        *)
(* answer, and the scan is over only when all of them have it.             *)
(***************************************************************************)
EXTENDS Naturals

CONSTANT NumJobs

VARIABLES
  answered,     \* the addresses that have their answer
  finished      \* the scan is over

scanVars == <<answered, finished>>

Init == answered = {} /\ finished = FALSE

Answer(j) ==
  /\ ~finished /\ j \notin answered
  /\ answered' = answered \cup {j}
  /\ UNCHANGED finished

Finish ==
  /\ answered = 1..NumJobs
  /\ finished' = TRUE
  /\ UNCHANGED answered

Next == Finish \/ \E j \in 1..NumJobs : Answer(j)

Safety == Init /\ [][Next]_scanVars

Spec == Safety /\ WF_scanVars(Next)
=============================================================================
