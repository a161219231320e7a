---------------------------- MODULE URLTestGroup ----------------------------
(***************************************************************************)
(* The url-test group: fast() returns the proxy the user selected, if it   *)
(* is alive, and else the fastest one, with a tolerance that keeps the     *)
(* group from switching for a small gain.  The choice is made by one       *)
(* caller at a time and its result is kept for ten seconds (fastSingle,    *)
(* module SingleDo); fastNode, selected, the list of proxies and their     *)
(* health change under it.                                                 *)
(*                                                                         *)
(* Proxies are objects.  An update of a provider makes new objects, which  *)
(* may have the names of old ones and have a health of their own.          *)
(***************************************************************************)
EXTENDS Integers, Sequences, SequencesExt

CONSTANTS
  Lists,        \* what GetProxies returns after each update of the providers
  NameOf(_),    \* the name of a proxy
  Callers,      \* goroutines in fast()
  Delays,       \* delays a test may measure
  Tolerance,    \* u.tolerance
  MaxMoves,     \* bound on tests, selections and provider updates
  None

VARIABLES
  gen,          \* the list that is current
  alive,        \* Alive() of every proxy
  measured,     \* its last delay, 0 if it has none
  selected,     \* u.selected; None is the empty string
  fastNode,     \* u.fastNode
  kept,         \* the result that fastSingle keeps, None once it is old
  pc,           \* where each caller is
  proxies,      \* the list each caller got
  result,       \* what each call returned
  calm,         \* the caller is the last to choose, and nothing changed since it began
  k,            \* the place of the caller that chooses in its loop
  fast,         \* the fastest proxy so far
  min,          \* its delay
  fastNotExist, \* the name of fastNode was not met in the loop
  before,       \* fastNode when the choice began
  moves         \* how many changes there were

groupVars == <<gen, alive, measured, selected>>
callVars == <<pc, proxies, result>>
loopVars == <<k, fast, min, fastNotExist, before>>
vars == <<groupVars, callVars, loopVars, fastNode, kept, calm, moves>>

MaxDelay == 65535

\* The proxies of the list that is current and of the earlier ones.
Made == UNION {Range(Lists[g]) : g \in 1..gen}
Everyone == UNION {Range(Lists[g]) : g \in 1..Len(Lists)}

\* LastDelay() of a proxy
LastDelay(p) == IF alive[p] /\ measured[p] # 0 THEN measured[p] ELSE MaxDelay

Init ==
  /\ gen = 1
  /\ alive = [p \in Everyone |-> TRUE]
  /\ measured = [p \in Everyone |-> 0]
  /\ selected = None /\ fastNode = None /\ kept = None
  /\ pc = [c \in Callers |-> "idle"]
  /\ proxies = [c \in Callers |-> << >>]
  /\ result = [c \in Callers |-> None]
  /\ calm = [c \in Callers |-> FALSE]
  /\ k = 1 /\ fast = None /\ min = MaxDelay /\ fastNotExist = TRUE /\ before = None
  /\ moves = 0

-----------------------------------------------------------------------------
(* The world around the calls *)

Move ==
  /\ moves < MaxMoves /\ moves' = moves + 1
  /\ calm' = [c \in Callers |-> FALSE]
  /\ UNCHANGED <<callVars, loopVars, fastNode, kept>>

\* A URL test of a proxy ended, maybe one that a provider has dropped since:
\* it failed, or it succeeded with a delay or, where the body of the answer
\* did not tell of warp, without one.
Tested(p) ==
  /\ Move
  /\ \/ alive' = [alive EXCEPT ![p] = FALSE] /\ UNCHANGED measured
     \/ /\ alive' = [alive EXCEPT ![p] = TRUE]
        /\ \E d \in Delays \cup {0} : measured' = [measured EXCEPT ![p] = d]
  /\ UNCHANGED <<gen, selected>>

\* A provider was updated.
ProviderUpdated ==
  /\ Move
  /\ gen < Len(Lists) /\ gen' = gen + 1
  /\ UNCHANGED <<alive, measured, selected>>

\* ForceSet(name), and the assignment of Set(name); the call of fast() that
\* follows it in Set is a call like any other.
Select(name) ==
  /\ Move
  /\ selected' = name
  /\ UNCHANGED <<gen, alive, measured>>

\* The ten seconds of fastSingle are over.
Expire ==
  /\ kept # None /\ kept' = None
  /\ UNCHANGED <<groupVars, callVars, loopVars, fastNode, calm, moves>>

-----------------------------------------------------------------------------
(* fast() *)

\* proxies := u.GetProxies(touch)
Call(c) ==
  /\ pc[c] = "idle"
  /\ proxies' = [proxies EXCEPT ![c] = Lists[gen]]
  /\ result' = [result EXCEPT ![c] = None]
  /\ pc' = [pc EXCEPT ![c] = "called"]
  /\ UNCHANGED <<groupVars, loopVars, fastNode, kept, calm, moves>>

Returns(c, p) ==
  /\ result' = [result EXCEPT ![c] = p]
  /\ pc' = [pc EXCEPT ![c] = "idle"]
  /\ UNCHANGED proxies

\* The proxies a caller may take for the selected one.
SelectedAlive(c) == {p \in Range(proxies[c]) : NameOf(p) = selected /\ alive[p]}

\* The selected proxy is alive; it becomes the fast node.
UseSelected(c) ==
  /\ pc[c] = "called"
  /\ \E p \in SelectedAlive(c) :
       /\ fastNode' = p
       /\ calm' = [d \in Callers |-> FALSE]
       /\ Returns(c, p)
  /\ UNCHANGED <<groupVars, loopVars, kept, moves>>

\* It is not, or there is none.
PassSelected(c) ==
  /\ pc[c] = "called" /\ SelectedAlive(c) = {}
  /\ pc' = [pc EXCEPT ![c] = "do"]
  /\ UNCHANGED <<groupVars, proxies, result, loopVars, fastNode, kept, calm, moves>>

\* fastSingle.Do returns the result it keeps ...
UseKept(c) ==
  /\ pc[c] = "do" /\ kept # None
  /\ calm' = [calm EXCEPT ![c] = FALSE]
  /\ Returns(c, kept)
  /\ UNCHANGED <<groupVars, loopVars, fastNode, kept, moves>>

\* ... or runs the function, which begins with the first proxy of the list.
Lead(c) ==
  /\ pc[c] = "do" /\ kept = None
  /\ \A d \in Callers : pc[d] # "loop"
  /\ fast' = proxies[c][1] /\ min' = LastDelay(proxies[c][1])
  /\ fastNotExist' = TRUE /\ k' = 2
  /\ calm' = [d \in Callers |-> d = c] /\ before' = fastNode
  /\ pc' = [pc EXCEPT ![c] = "loop"]
  /\ UNCHANGED <<groupVars, proxies, result, fastNode, kept, moves>>

\* One iteration over proxies[1:].
Look(c) ==
  /\ pc[c] = "loop" /\ k <= Len(proxies[c])
  /\ LET p == proxies[c][k]
         better == alive[p] /\ LastDelay(p) < min
     IN /\ fastNotExist' = (fastNotExist /\ (fastNode = None \/ NameOf(p) # NameOf(fastNode)))
        /\ fast' = IF better THEN p ELSE fast
        /\ min' = IF better THEN LastDelay(p) ELSE min
  /\ k' = k + 1
  /\ UNCHANGED <<groupVars, callVars, before, fastNode, kept, calm, moves>>

\* Mutant: a dead fast node is only replaced for being slow.
SwitchesUnlessSlow ==
  \/ fastNode = None \/ fastNotExist
  \/ LastDelay(fastNode) > (LastDelay(fast) + Tolerance) % (MaxDelay + 1)

\* The tolerance test; the sum is a uint16.
Switches ==
  \/ fastNode = None \/ fastNotExist
  \/ ~alive[fastNode] \/ LastDelay(fastNode) > (LastDelay(fast) + Tolerance) % (MaxDelay + 1)

Choose(c) ==
  /\ pc[c] = "loop" /\ k > Len(proxies[c])
  /\ fastNode' = IF Switches THEN fast ELSE fastNode
  /\ kept' = fastNode'
  /\ Returns(c, fastNode')
  /\ UNCHANGED <<groupVars, loopVars, calm, moves>>

Caller(c) ==
  \/ Call(c) \/ UseSelected(c) \/ PassSelected(c) \/ UseKept(c)
  \/ Lead(c) \/ Look(c) \/ Choose(c)

Next ==
  \/ \E p \in Made : Tested(p) \/ Select(NameOf(p))
  \/ ProviderUpdated \/ Expire
  \/ \E c \in Callers : Caller(c)

Spec == Init /\ [][Next]_vars

-----------------------------------------------------------------------------

\* The caller is the last that chose, and nothing changed meanwhile.
JustChosen(c) == pc[c] = "idle" /\ result[c] # None /\ calm[c]

\* The lowest delay the caller could find.
Best(c) == CHOOSE d \in {LastDelay(p) : p \in Range(proxies[c])} :
             \A p \in Range(proxies[c]) : d <= LastDelay(p)

Named(c) == {NameOf(p) : p \in Range(proxies[c])}

\* A choice has the name of a proxy of the group, though fastNode may be one
\* that a provider has dropped.
ChoiceIsOffered ==
  \A c \in Callers : JustChosen(c) => NameOf(result[c]) \in Named(c)

\* A choice is within the tolerance of the lowest delay of the group, though
\* the sum of the code is a uint16 that may wrap around.
ChoiceWithinTolerance ==
  \A c \in Callers : JustChosen(c) => LastDelay(result[c]) <= Best(c) + Tolerance

\* A dead proxy is chosen only if no proxy of the group has a delay, also where
\* the tolerance takes the lowest delay to the maximum of a uint16 or past it.
DeadOnlyIfNothingMeasured ==
  \A c \in Callers : JustChosen(c) /\ Best(c) < MaxDelay => alive[result[c]]

\* The group leaves its fast node only for a reason: it is dead, its name has
\* gone, or it is slower than the tolerance allows.  The first proxy of the
\* list is the exception: the loop starts at the second and never meets it.
SwitchIsJustified ==
  \A c \in Callers : JustChosen(c) /\ before # None /\ result[c] # before =>
    \/ ~alive[before]
    \/ NameOf(before) \notin Named(c) \/ NameOf(before) = NameOf(proxies[c][1])
    \/ LastDelay(before) > (Best(c) + Tolerance) % (MaxDelay + 1)
=============================================================================
