------------------------------ MODULE GroupBase -----------------------------
(***************************************************************************)
(* GroupBase.GetProxies: what a group offers.  A group with filters keeps  *)
(* the filtered list of every provider together with the version it was    *)
(* made from, and makes it again when the provider shows another version.  *)
(* There is no lock: the version is swapped in first and the list follows, *)
(* so every access to shared state is a step.                              *)
(*                                                                         *)
(* A proxy is known by its name; a filter is the set of names it matches.  *)
(*                                                                         *)
(* The load-balance group, at the end of the module, picks a proxy of such *)
(* a list by one of three strategies.                                      *)
(***************************************************************************)
EXTENDS Integers, Sequences, SequencesExt, FiniteSets

CONSTANTS
  Groups,       \* records [filters, compatible, own, exclude]: the groups to look at
  Offers,       \* the lists a provider may be updated to
  Readers,      \* goroutines in GetProxies
  MaxUpdates,   \* bound on the updates of the providers
  Compatible,   \* the built-in proxy of an empty group
  Strategies,   \* of "round-robin", "consistent-hashing", "sticky-sessions"
  LbLists,      \* the lists GetProxies may return to a load-balance group, never empty
  Keys,         \* getKey(metadata), or with the source address
  Dialers,      \* goroutines in Unwrap
  MaxRetry,     \* 5 in the code
  MaxPicks,     \* bound on the picks that are remembered
  MaxLbMoves,   \* bound on changes of health, list and cache
  NoIndex

VARIABLES
  gb,           \* the providers, the group and its readers
  lb            \* a load-balance group

NewGroupBase(g) ==
  LET P == DOMAIN g.compatible IN
  [group    |-> g,
   list     |-> [i \in P |-> IF g.compatible[i] THEN g.own ELSE << >>],  \* pd.Proxies()
   version  |-> [i \in P |-> 0],           \* pd.Version()
   behind   |-> [i \in P |-> FALSE],       \* the list is set, the version is not
   proxies  |-> [i \in P |-> << >>],       \* gb.proxies
   versions |-> [i \in P |-> 0],           \* gb.versions
   updates  |-> 0,
   lapped   |-> FALSE,                     \* two readers have refreshed one list at a time
   reader   |-> [r \in Readers |-> [pc |-> "idle", i |-> 1, ver |-> 0,
                                    got |-> << >>, result |-> <<Compatible>>]]]

Init == \E g \in Groups : gb = NewGroupBase(g)

Filters == gb.group.filters
Providers == DOMAIN gb.group.compatible

-----------------------------------------------------------------------------
(* The lists *)

AppendNew(s, p) == IF p \in Range(s) THEN s ELSE Append(s, p)

\* The proxies that match, filter by filter, each name once.
Matching(s) ==
  FoldLeft(LAMBDA acc, f : FoldLeft(LAMBDA a, p : IF p \in f THEN AppendNew(a, p) ELSE a,
                                    acc, s), << >>, Filters)

\* Several providers and filters: sorted by filter, the rest at the end.
Arranged(s) ==
  IF Len(gb.group.compatible) > 1 /\ Len(Filters) > 1
  THEN FoldLeft(AppendNew, Matching(s), s) ELSE s

\* Excluded types and names go; an empty group offers COMPATIBLE.
Exclude(s) ==
  LET kept == SelectSeq(s, LAMBDA p : p \notin gb.group.exclude)
  IN  IF kept = << >> THEN <<Compatible>> ELSE kept

Offered(lists) == Exclude(Arranged(FlattenSeq(lists)))

-----------------------------------------------------------------------------
(* A provider is updated: the list first, then the version. *)

SetProxies(i) ==
  /\ gb.updates < MaxUpdates /\ ~gb.behind[i] /\ ~gb.group.compatible[i]
  /\ \E l \in Offers : gb' = [gb EXCEPT !.list[i] = l, !.behind[i] = TRUE,
                                        !.updates = @ + 1]

BumpVersion(i) ==
  /\ gb.behind[i]
  /\ gb' = [gb EXCEPT !.version[i] = @ + 1, !.behind[i] = FALSE]

-----------------------------------------------------------------------------
(* GetProxies *)

Step(r, pc, i) == [gb.reader[r] EXCEPT !.pc = pc, !.i = i]
At(r, pc) == gb.reader[r].pc = pc
I(r) == gb.reader[r].i

Call(r) ==
  /\ At(r, "idle")
  /\ gb' = [gb EXCEPT !.reader[r] = Step(r, IF Filters = << >> THEN "plain" ELSE "load", 1)]

\* Without filters the lists are taken as they are.
GetPlain(r) ==
  /\ At(r, "plain")
  /\ gb' = [gb EXCEPT !.reader[r] = [Step(r, "idle", 1) EXCEPT !.result = Offered(gb.list)]]

\* A group's own provider is taken over as it is, filters or not.
LoadCompatible(r) ==
  /\ At(r, "load") /\ I(r) \in Providers /\ gb.group.compatible[I(r)]
  /\ gb' = [gb EXCEPT !.versions[I(r)] = gb.version[I(r)],
                      !.proxies[I(r)] = gb.list[I(r)],
                      !.reader[r].i = @ + 1]

LoadVersion(r) ==
  /\ At(r, "load") /\ I(r) \in Providers /\ ~gb.group.compatible[I(r)]
  /\ gb' = [gb EXCEPT !.reader[r] = [Step(r, "compare", @.i) EXCEPT !.ver = gb.versions[I(r)]]]

\* version != pd.Version()
Compare(r) ==
  /\ At(r, "compare")
  /\ gb' = [gb EXCEPT !.reader[r] =
       IF gb.reader[r].ver # gb.version[I(r)] THEN Step(r, "swap", I(r))
                                              ELSE Step(r, "load", I(r) + 1)]

Refreshing(i) == {r \in Readers : gb.reader[r].pc \in {"read", "store"} /\ I(r) = i}

\* CompareAndSwap(version, pd.Version()), with the version of now
Swap(r) ==
  /\ At(r, "swap")
  /\ IF gb.versions[I(r)] = gb.reader[r].ver
     THEN gb' = [gb EXCEPT !.versions[I(r)] = gb.version[I(r)],
                           !.lapped = @ \/ Refreshing(I(r)) # {},
                           !.reader[r] = Step(r, "read", I(r))]
     ELSE gb' = [gb EXCEPT !.reader[r] = Step(r, "load", I(r) + 1)]

\* Mutant: the list is read before the version is swapped in.
ReadProxiesOld(r) ==
  /\ At(r, "read")
  /\ \E old \in {gb.list[I(r)], gb.proxies[I(r)]} :
       gb' = [gb EXCEPT !.reader[r] = [Step(r, "store", I(r)) EXCEPT !.got = old]]

ReadProxies(r) ==
  /\ At(r, "read")
  /\ gb' = [gb EXCEPT !.reader[r] = [Step(r, "store", I(r)) EXCEPT !.got = gb.list[I(r)]]]

StoreProxies(r) ==
  /\ At(r, "store")
  /\ gb' = [gb EXCEPT !.proxies[I(r)] = Matching(gb.reader[r].got),
                      !.reader[r] = [Step(r, "load", I(r) + 1) EXCEPT !.got = << >>]]

\* All providers are seen to: put the lists together.
Gather(r) ==
  /\ At(r, "load") /\ I(r) \notin Providers
  /\ gb' = [gb EXCEPT !.reader[r] = [Step(r, "idle", 1) EXCEPT !.ver = 0,
                                       !.result = Offered(gb.proxies)]]

GetProxies(r) ==
  \/ Call(r) \/ GetPlain(r) \/ LoadCompatible(r) \/ LoadVersion(r) \/ Compare(r)
  \/ Swap(r) \/ ReadProxies(r) \/ StoreProxies(r) \/ Gather(r)

Next ==
  \/ \E i \in Providers : SetProxies(i) \/ BumpVersion(i)
  \/ \E r \in Readers : GetProxies(r)

-----------------------------------------------------------------------------

\* What a group offers is never empty, has none of the excluded proxies, and
\* with several providers and filters has no name twice.
OfferIsClean ==
  \A r \in Readers : LET s == gb.reader[r].result IN
    /\ s # << >> /\ Range(s) \cap gb.group.exclude = {}
    /\ Len(gb.group.compatible) > 1 /\ Len(Filters) > 1 => IsInjective(s)

\* A kept list that carries the provider's version is that version's list,
\* filtered, once its refresh is over: unless two readers ever refreshed it at
\* the same time, when the slower one leaves the older list for good.
KeptListIsCurrent ==
  ~gb.lapped /\ Filters # << >> => \A i \in Providers :
    gb.versions[i] = gb.version[i] /\ ~gb.behind[i] /\ Refreshing(i) = {} /\ ~gb.group.compatible[i]
      => gb.proxies[i] = Matching(gb.list[i])

-----------------------------------------------------------------------------
(* The load-balance group.  Round robin holds a lock for the whole pick,   *)
(* consistent hashing keeps no state; sticky sessions keep an index per    *)
(* session in a cache and look at proxies one by one, while others do the  *)
(* same.                                                                   *)

Proxies == UNION {Range(l) : l \in LbLists}

LbInit ==
  \E s \in Strategies, l \in LbLists :
    lb = [strategy |-> s, list |-> l, alive |-> Proxies,
          idx |-> 0,                               \* of round robin
          cache |-> [k \in Keys |-> NoIndex],      \* lruCache
          moves |-> 0, shrunk |-> FALSE, panicked |-> FALSE,
          picks |-> << >>,                         \* touched picks since the last change
          dial |-> [d \in Dialers |-> [pc |-> "idle"]]]

\* jumpHash(key, buckets): keys next to each other may share a bucket
JumpHash(k, buckets) == (k \div 2) % buckets

-----------------------------------------------------------------------------
(* The world: health checks, provider updates, sessions that expire. *)

Move == lb.moves < MaxLbMoves

Health(p) ==
  /\ Move
  /\ lb' = [lb EXCEPT !.moves = @ + 1, !.picks = << >>,
                      !.alive = IF p \in @ THEN @ \ {p} ELSE @ \cup {p}]

Update ==
  /\ Move
  /\ \E l \in LbLists : lb' = [lb EXCEPT !.moves = @ + 1, !.picks = << >>, !.list = l,
                                         !.shrunk = @ \/ Len(l) < Len(lb.list)]

Expire(k) ==
  /\ Move /\ lb.cache[k] # NoIndex
  /\ lb' = [lb EXCEPT !.moves = @ + 1, !.cache[k] = NoIndex]

-----------------------------------------------------------------------------
(* strategyRoundRobin *)

\* The distance from idx to the first proxy that is alive, or the length.
FirstAlive(l, idx) ==
  LET up == {i \in 0..Len(l) - 1 : l[((idx + i) % Len(l)) + 1] \in lb.alive}
  IN  IF up = {} THEN Len(l) ELSE CHOOSE i \in up : \A j \in up : i <= j

\* Mutant: the next pick starts where this one did.
RoundRobinStays(touch) ==
  /\ lb.strategy = "round-robin" /\ Len(lb.picks) < MaxPicks
  /\ LET i == FirstAlive(lb.list, lb.idx)
         n == Len(lb.list)
     IN  lb' = [lb EXCEPT !.idx = IF touch THEN (lb.idx + i) % n ELSE @,
                          !.picks = IF touch
                                    THEN Append(@, lb.list[IF i = n THEN 1 ELSE ((lb.idx + i) % n) + 1])
                                    ELSE @]

\* The next pick starts behind this one; without touch nothing moves.
RoundRobin(touch) ==
  /\ lb.strategy = "round-robin" /\ Len(lb.picks) < MaxPicks
  /\ LET i == FirstAlive(lb.list, lb.idx)
         n == Len(lb.list)
     IN  lb' = [lb EXCEPT !.idx = IF touch THEN (lb.idx + (IF i = n THEN n ELSE i + 1)) % n ELSE @,
                          !.picks = IF touch
                                    THEN Append(@, lb.list[IF i = n THEN 1 ELSE ((lb.idx + i) % n) + 1])
                                    ELSE @]

-----------------------------------------------------------------------------
(* strategyConsistentHashing *)

\* MaxRetry hashes, then the first proxy that is alive, then the first.
Hashed(k, l) ==
  LET tries == [i \in 1..MaxRetry |-> l[JumpHash(k + i - 1, Len(l)) + 1]]
      s == SelectSeq(tries \o l, LAMBDA p : p \in lb.alive)
  IN  IF s = << >> THEN l[1] ELSE s[1]

ConsistentHashing(k) ==
  /\ lb.strategy = "consistent-hashing" /\ Len(lb.picks) < MaxPicks
  /\ lb' = [lb EXCEPT !.picks = Append(@, Hashed(k, lb.list))]

-----------------------------------------------------------------------------
(* strategyStickySessions *)

\* The index of the session, or one by the hash of the key and the time.
StickyGet(d, k) ==
  /\ lb.strategy = "sticky-sessions" /\ lb.dial[d].pc = "idle" /\ ~lb.panicked
  /\ \E now \in 1..2 * Len(lb.list) :
       LET idx == IF lb.cache[k] # NoIndex THEN lb.cache[k] ELSE JumpHash(k + now, Len(lb.list))
       IN  lb' = [lb EXCEPT !.dial[d] = [pc |-> "try", key |-> k, list |-> lb.list, i |-> 1,
                                         idx |-> idx, now |-> idx]]

\* proxies[nowIdx] of an index that the list does not have
StickyPanics(d) ==
  /\ lb.dial[d].pc = "try" /\ lb.dial[d].now >= Len(lb.dial[d].list)
  /\ lb' = [lb EXCEPT !.panicked = TRUE, !.dial[d] = [pc |-> "dead"]]

Tried(d) == lb.dial[d].list[lb.dial[d].now + 1]

\* The proxy is alive: the session is kept only if it is not the first tried.
StickyAlive(d) ==
  /\ lb.dial[d].pc = "try" /\ lb.dial[d].now < Len(lb.dial[d].list)
  /\ lb.dial[d].i < MaxRetry /\ Tried(d) \in lb.alive
  /\ lb' = [lb EXCEPT !.cache[lb.dial[d].key] =
                        IF lb.dial[d].now # lb.dial[d].idx THEN lb.dial[d].now ELSE @,
                      !.dial[d] = [pc |-> "idle"]]

\* It is dead: hash again, with another time.
StickyDead(d) ==
  /\ lb.dial[d].pc = "try" /\ lb.dial[d].now < Len(lb.dial[d].list)
  /\ lb.dial[d].i < MaxRetry /\ Tried(d) \notin lb.alive
  /\ \E now \in 1..2 * Len(lb.dial[d].list) :
       lb' = [lb EXCEPT !.dial[d].i = @ + 1,
                        !.dial[d].now = JumpHash(lb.dial[d].key + now, Len(lb.dial[d].list))]

\* MaxRetry - 1 tries were in vain: the session goes to the first proxy.
StickyGivesUp(d) ==
  /\ lb.dial[d].pc = "try" /\ lb.dial[d].i = MaxRetry
  /\ lb' = [lb EXCEPT !.cache[lb.dial[d].key] = 0, !.dial[d] = [pc |-> "idle"]]

LbNext ==
  \/ \E p \in Proxies : Health(p)
  \/ Update
  \/ \E k \in Keys : Expire(k) \/ ConsistentHashing(k)
  \/ \E touch \in BOOLEAN : RoundRobin(touch)
  \/ \E d \in Dialers : \/ \E k \in Keys : StickyGet(d, k)
                        \/ StickyPanics(d) \/ StickyAlive(d) \/ StickyDead(d) \/ StickyGivesUp(d)

-----------------------------------------------------------------------------

Up == Range(lb.list) \cap lb.alive

\* While nothing changes, round robin gives every proxy that is alive its turn:
\* any as many picks in a row as there are of them are all of them.
RotationIsFair ==
  lb.strategy = "round-robin" /\ Up # {} =>
    \A i \in DOMAIN lb.picks : i + Cardinality(Up) - 1 <= Len(lb.picks) =>
      {lb.picks[j] : j \in i..i + Cardinality(Up) - 1} = Up

\* Round robin and consistent hashing never pick a dead proxy while there is
\* one in the list that is alive.
AliveIfAny == lb.strategy # "sticky-sessions" /\ Up # {} => Range(lb.picks) \subseteq Up

\* The index of a session is inside the list it is used on, as long as the
\* group's list has never become shorter since the sessions were made.
PanicOnlyIfShrunk == lb.panicked => lb.shrunk
=============================================================================
