------------------------------ MODULE Fallback ------------------------------
(***************************************************************************)
(* The fallback group: findAliveProxy walks the group's proxies in order   *)
(* and returns the first one that is alive, unless the user selected one;  *)
(* a selected proxy that is dead is deselected on the way.                 *)
(*                                                                         *)
(* Any number of connections call it at a time.  `selected` has no lock,   *)
(* and health checks and provider updates go on meanwhile, so every        *)
(* iteration of the loop is a step, and so is the deselection.             *)
(***************************************************************************)
EXTENDS Integers, Sequences, SequencesExt

CONSTANTS
  Names,        \* the proxies of the providers
  Compatible,   \* the built-in proxy of an empty group; it is always alive
  Callers,      \* goroutines in findAliveProxy
  Lists,        \* what the providers may offer
  MaxMoves,     \* bound on health changes, selections and provider updates
  None

VARIABLES
  offered,      \* the proxies of the group's providers
  alive,        \* Alive() of every proxy
  selected,     \* f.selected; None is the empty string
  testing,      \* the proxy that Set is testing
  pc,           \* where each caller is
  proxies,      \* what GetProxies returned to it
  idx,          \* its place in the loop
  result,       \* what findAliveProxy returned to it
  moves,        \* how many changes there were
  calm,         \* nothing has changed since it called
  had           \* the selection when it called

groupVars == <<offered, alive, selected, testing, moves>>
callVars == <<pc, proxies, idx, result, calm, had>>
vars == <<groupVars, callVars>>

All == Names \cup {Compatible}

Init ==
  /\ offered \in Lists
  /\ alive = [p \in All |-> TRUE]
  /\ selected = None /\ testing = None
  /\ pc = [c \in Callers |-> "idle"]
  /\ proxies = [c \in Callers |-> << >>]
  /\ idx = [c \in Callers |-> 1]
  /\ result = [c \in Callers |-> None]
  /\ moves = 0
  /\ calm = [c \in Callers |-> TRUE]
  /\ had = [c \in Callers |-> None]

\* GetProxies: an empty group falls back to the COMPATIBLE proxy.
GetProxies == IF offered = << >> THEN <<Compatible>> ELSE offered

-----------------------------------------------------------------------------
(* The world around the calls *)

Disturb ==
  /\ moves < MaxMoves /\ moves' = moves + 1
  /\ calm' = [c \in Callers |-> FALSE]
  /\ UNCHANGED <<pc, proxies, idx, result, had>>

\* A health check ended.
HealthChecked(p) ==
  /\ Disturb
  /\ alive' = [alive EXCEPT ![p] = ~alive[p]]
  /\ UNCHANGED <<offered, selected, testing>>

\* A provider was updated.
ProviderUpdated ==
  /\ Disturb
  /\ offered' \in Lists \ {offered}
  /\ UNCHANGED <<alive, selected, testing>>

\* Set(name): a name the group does not have is refused; a dead proxy is
\* tested once it is selected.
Set(name) ==
  /\ Disturb
  /\ testing = None /\ name \in Range(GetProxies)
  /\ selected' = name
  /\ testing' = IF alive[name] THEN None ELSE name
  /\ UNCHANGED <<offered, alive>>

\* The test of Set ends.
SetTested ==
  /\ Disturb
  /\ testing # None
  /\ \E up \in BOOLEAN : alive' = [alive EXCEPT ![testing] = up]
  /\ testing' = None
  /\ UNCHANGED <<offered, selected>>

\* ForceSet(name), from the stored selection: whether the group has it or not.
ForceSet(name) ==
  /\ Disturb
  /\ selected' = name
  /\ UNCHANGED <<offered, alive, testing>>

-----------------------------------------------------------------------------
(* findAliveProxy *)

Call(c) ==
  /\ pc[c] = "idle"
  /\ proxies' = [proxies EXCEPT ![c] = GetProxies]
  /\ idx' = [idx EXCEPT ![c] = 1]
  /\ result' = [result EXCEPT ![c] = None]
  /\ calm' = [calm EXCEPT ![c] = TRUE]
  /\ had' = [had EXCEPT ![c] = selected]
  /\ pc' = [pc EXCEPT ![c] = "loop"]
  /\ UNCHANGED groupVars

Current(c) == proxies[c][idx[c]]

Advance(c) ==
  /\ idx' = [idx EXCEPT ![c] = idx[c] + 1]
  /\ pc' = [pc EXCEPT ![c] = "loop"]

Returns(c, p) ==
  /\ result' = [result EXCEPT ![c] = p]
  /\ pc' = [pc EXCEPT ![c] = "idle"]

\* The proxy is alive, and selected if one is.
Pick(c) ==
  /\ pc[c] = "loop" /\ idx[c] <= Len(proxies[c])
  /\ alive[Current(c)] /\ selected \in {None, Current(c)}
  /\ Returns(c, Current(c))
  /\ UNCHANGED <<groupVars, proxies, idx, calm, had>>

\* The proxy is another one than the one that is selected, or it is dead.
Skip(c) ==
  /\ pc[c] = "loop" /\ idx[c] <= Len(proxies[c])
  /\ selected # Current(c)
  /\ selected = None => ~alive[Current(c)]
  /\ Advance(c)
  /\ UNCHANGED <<groupVars, proxies, result, calm, had>>

\* The selected proxy is dead ...
MeetDeadSelected(c) ==
  /\ pc[c] = "loop" /\ idx[c] <= Len(proxies[c])
  /\ selected = Current(c) /\ ~alive[Current(c)]
  /\ pc' = [pc EXCEPT ![c] = "deselect"]
  /\ UNCHANGED <<groupVars, proxies, idx, result, calm, had>>

\* ... `f.selected = ""`, whatever it is by now.
Deselect(c) ==
  /\ pc[c] = "deselect"
  /\ selected' = None
  /\ calm' = [d \in Callers |-> calm[d] /\ d = c]
  /\ Advance(c)
  /\ UNCHANGED <<offered, alive, testing, moves, proxies, result, had>>

\* `return proxies[0]`
FallThrough(c) ==
  /\ pc[c] = "loop" /\ idx[c] > Len(proxies[c])
  /\ Returns(c, proxies[c][1])
  /\ UNCHANGED <<groupVars, proxies, idx, calm, had>>

Caller(c) ==
  \/ Call(c) \/ Pick(c) \/ Skip(c) \/ MeetDeadSelected(c) \/ Deselect(c) \/ FallThrough(c)

Next ==
  \/ \E p \in Names : HealthChecked(p) \/ ForceSet(p)
  \/ \E p \in All : Set(p)
  \/ ProviderUpdated \/ SetTested
  \/ \E c \in Callers : Caller(c)

Spec == Init /\ [][Next]_vars

-----------------------------------------------------------------------------

FirstAlive(s) == CHOOSE p \in Range(s) :
  \E k \in 1..Len(s) : s[k] = p /\ alive[p] /\ \A j \in 1..k-1 : ~alive[s[j]]

SomeAlive(s) == \E p \in Range(s) : alive[p]

\* A call that nothing disturbed.
Undisturbed(c) == pc[c] = "idle" /\ result[c] # None /\ calm[c]

\* With no selection, an undisturbed call returns the first proxy that is
\* alive, and the first of all when none is.
FirstAliveInOrder ==
  \A c \in Callers : Undisturbed(c) /\ had[c] = None =>
    result[c] = IF SomeAlive(proxies[c]) THEN FirstAlive(proxies[c]) ELSE proxies[c][1]

\* A selection that is alive is honoured, and outlives the call; one that is
\* dead is gone after it, so that it misleads no later call.
SelectionHonoured ==
  \A c \in Callers : Undisturbed(c) /\ had[c] \in Range(proxies[c]) =>
    IF alive[had[c]] THEN result[c] = had[c] /\ selected = had[c]
                     ELSE result[c] # had[c] \/ proxies[c][1] = had[c]

\* Selections fade: an undisturbed call leaves a selection behind only if it is
\* alive or the group did not offer it.
DeadSelectionCleared ==
  \A c \in Callers : Undisturbed(c) /\ selected # None =>
    alive[selected] \/ selected \notin Range(proxies[c])

\* What docs/config.yaml says of the group, which selects by the results of the
\* URL tests in the order of the nodes: no undisturbed call returns a dead
\* proxy while one of the group is alive.
ByTestResultInOrder ==
  \A c \in Callers : Undisturbed(c) /\ SomeAlive(proxies[c]) => alive[result[c]]
=============================================================================
