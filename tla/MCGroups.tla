------------------------------ MODULE MCGroups ------------------------------
(***************************************************************************)
(* The health of a proxy and the proxy groups, for model checking.  The    *)
(* first state chooses which component a behaviour is about; the others    *)
(* stay as they are, so that the state spaces add up and do not multiply.  *)
(***************************************************************************)
EXTENDS ProxyHealth, TLC

CONSTANTS
  p1, p2, p3, c1, c2, Compatible, None, Off,
  Names, Callers, FallbackLists, FallbackMoves,
  Objects, URLTestLists, NameOf(_), Delays, Tolerance, URLTestMoves,
  Groups, Offers, MaxUpdates,
  Strategies, LbLists, Keys, MaxRetry, MaxPicks, MaxLbMoves

\* No selection is not the name of a proxy, and a group offers sequences of names.
ASSUME FallbackAssumption ==
  None \notin Names /\ None # Compatible /\ FallbackLists \subseteq Seq(Names)

AllNames == {p1, p2, p3}
TwoCallers == {c1, c2}
Milliseconds == {5, 7, 65536}
SomeLists == {<< >>, <<p1, p2, p3>>, <<p2, p1>>}
Symmetry == Permutations(TwoCallers)

\* An update that drops a proxy and makes the others anew in another order, and
\* delays to which the tolerance adds up to less than the maximum of a uint16,
\* to the maximum, and to more.
FiveObjects == {"p1", "p2", "p3", "q2", "q3"}
TwoLists == << <<"p1", "p2", "p3">>, <<"q3", "q2">> >>
NameIn(p) == CASE p \in {"p1"} -> "one" [] p \in {"p2", "q2"} -> "two" [] OTHER -> "three"
SomeDelays == {20, 65435, 65500}

\* Groups with one filter or two, their own proxies, and excluded ones.
SomeGroups ==
  {[filters |-> << >>, compatible |-> <<TRUE, FALSE>>, own |-> <<p1>>, exclude |-> {p1}],
   [filters |-> <<{p2}>>, compatible |-> <<FALSE>>, own |-> << >>, exclude |-> {}],
   [filters |-> <<{p2}, {p1}>>, compatible |-> <<TRUE, FALSE>>, own |-> <<p1>>, exclude |-> {p3}]}
SomeOffers == {<<p1, p2>>, <<p3>>}

BalancedLists == {<<p1, p2, p3>>, <<p3, p1>>}

VARIABLES
  active,       \* the component that moves
  offered, fbAlive, fbSelected, testing, fbPc, fbProxies, idx, fbResult, fbMoves, fbCalm, had,
  gen, utAlive, utMeasured, utSelected, fastNode, kept, utPc, utProxies, utResult,
  utCalm, k, fast, min, fastNotExist, before, utMoves,
  gb, lb

fbVars == <<offered, fbAlive, fbSelected, testing, fbPc, fbProxies, idx, fbResult, fbMoves, fbCalm, had>>
utVars == <<gen, utAlive, utMeasured, utSelected, fastNode, kept, utPc, utProxies, utResult,
            utCalm, k, fast, min, fastNotExist, before, utMoves>>

FB == INSTANCE Fallback WITH
  Lists <- FallbackLists, MaxMoves <- FallbackMoves,
  alive <- fbAlive, selected <- fbSelected, pc <- fbPc, proxies <- fbProxies, result <- fbResult,
  moves <- fbMoves, calm <- fbCalm

UT == INSTANCE URLTestGroup WITH
  Lists <- URLTestLists, MaxMoves <- URLTestMoves,
  measured <- utMeasured, alive <- utAlive, selected <- utSelected, pc <- utPc, proxies <- utProxies,
  result <- utResult, calm <- utCalm, moves <- utMoves

GB == INSTANCE GroupBase WITH Readers <- Callers, Dialers <- Callers, NoIndex <- None

\* Delays are of the type uint16, and no proxy is not a proxy.
ASSUME URLTestAssumption ==
  None \notin Objects /\ Delays \subseteq 0..UT!MaxDelay /\ Tolerance \in Nat /\ Len(URLTestLists) \in Nat \ {0}

\* A group is never without proxies: GetProxies adds COMPATIBLE to an empty list.
ASSUME URLTestListsAssumption ==
  \A g \in 1..Len(URLTestLists) : URLTestLists[g] \in Seq(Objects) \ {<< >>}

RunInit ==
  /\ UT!Init /\ FB!Init
  /\ \/ active = "health" /\ Init /\ offered = << >> /\ gb = Off /\ lb = Off
     \/ active = "fallback" /\ Init /\ gb = Off /\ lb = Off
     \/ active = "url-test" /\ Init /\ offered = << >> /\ gb = Off /\ lb = Off
     \/ active = "base" /\ Init /\ offered = << >> /\ GB!Init /\ lb = Off
     \/ active = "balance" /\ Init /\ offered = << >> /\ gb = Off /\ GB!LbInit

RunNext ==
  /\ UNCHANGED active
  /\ \/ active = "health" /\ Next /\ UNCHANGED <<fbVars, utVars, gb, lb>>
     \/ active = "fallback" /\ FB!Next /\ UNCHANGED <<vars, utVars, gb, lb>>
     \/ active = "url-test" /\ UT!Next /\ UNCHANGED <<vars, fbVars, gb, lb>>
     \/ active = "base" /\ GB!Next /\ UNCHANGED <<vars, fbVars, utVars, lb>>
     \/ active = "balance" /\ GB!LbNext /\ UNCHANGED <<vars, fbVars, utVars, gb>>

RunSpec == RunInit /\ [][RunNext]_<<active, vars, fbVars, utVars, gb, lb>>

-----------------------------------------------------------------------------
(* The properties of the components *)

\* Fallback: a call that nothing disturbed returns the first proxy that is alive,
\* or the selection if it is, and leaves a dead selection cleared.  URL test: the
\* choice is one of the list, within the tolerance of the fastest also where a
\* sum passes the maximum of a uint16; a dead proxy is chosen only when none has
\* a delay; and fast() switches only for a gain beyond the tolerance, or away from
\* a dead proxy.
GroupsChooseRight ==
  /\ FB!FirstAliveInOrder /\ FB!SelectionHonoured /\ FB!DeadSelectionCleared
  /\ UT!ChoiceIsOffered /\ UT!ChoiceWithinTolerance /\ UT!DeadOnlyIfNothingMeasured
  /\ UT!SwitchIsJustified

\* GetProxies offers something, nothing that is excluded, and no name twice; and
\* a kept list with the provider's version is that version's, unless refreshes
\* overlapped.
OfferIsCurrent == active = "base" => GB!OfferIsClean /\ GB!KeptListIsCurrent

\* Round robin gives every proxy that is alive its turn; it and consistent
\* hashing pick a dead proxy only if all are; and the index of a sticky session
\* is out of range only if a list got shorter.
BalanceIsFair ==
  active = "balance" => GB!RotationIsFair /\ GB!AliveIfAny /\ GB!PanicOnlyIfShrunk

\* A fallback group goes by the results of the tests, in the order of its list.
ByTestResultInOrder == FB!ByTestResultInOrder
=============================================================================
