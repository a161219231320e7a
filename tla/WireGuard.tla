----------------------------- MODULE WireGuard -----------------------------
(***************************************************************************)
(* The life of one WireGuard outbound: its device is started by the first  *)
(* dial, lent to the DNS lookups of the dials through a counted reference  *)
(* (refProxyAdapter), and closed by a finalizer once nothing reaches it.   *)
(* pingWG makes one for every ping, and drops it as soon as it has dialled.*)
(*                                                                         *)
(* DialContext and ListenPacketContext take the same steps.  A lookup may  *)
(* outlive the dial that asked for it, since the resolver runs it under a  *)
(* timeout of its own, retries it in the background and gives up waiting   *)
(* for the IPv6 answer; the dials that a lookup makes through the outbound *)
(* are dials like any other.                                               *)
(***************************************************************************)
EXTENDS Integers, FiniteSets

CONSTANTS
  Dials,        \* goroutines that dial
  Lookups,      \* goroutines that ask a name server for them
  Resolver,     \* whether the outbound has a resolver of its own
  None

ASSUME WireGuardAssumption ==
  /\ IsFiniteSet(Dials)
  /\ None \notin Dials
  /\ Resolver \in BOOLEAN

VARIABLES
  dialer,       \* w.dialer.dialer, as the dial whose options it has
  once,         \* w.startOnce: "new", "running" or "done"
  startErr,     \* w.startErr # nil
  count,        \* w.refP.count
  proxyAdapter, \* w.refP.proxyAdapter # nil
  pc,           \* where each dial is
  lpc,          \* where each lookup is
  owner,        \* the dial that waits for it
  open,         \* the dials whose connections are open
  refs,         \* the connections that refer to the outbound
  owned,        \* the maker of the outbound still refers to it
  closed        \* the finalizer has closed the device

refP == <<count, proxyAdapter>>
start == <<once, startErr>>
life == <<open, refs, owned, closed>>
vars == <<dialer, start, refP, pc, lpc, owner, life>>

Init ==
  /\ dialer = None
  /\ once = "new" /\ startErr = FALSE
  /\ count = 0 /\ proxyAdapter = FALSE
  /\ pc = [d \in Dials |-> "idle"]
  /\ lpc = [l \in Lookups |-> "idle"] /\ owner = [l \in Lookups |-> None]
  /\ open = {} /\ refs = {}
  /\ owned = TRUE /\ closed = FALSE

Goto(d, label) == pc' = [pc EXCEPT ![d] = label]

\* The dial holds the reference of the lookups.
Holds(d) == pc[d] \in {"resolve", "connect", "clear"}

-----------------------------------------------------------------------------
(* DialContext *)

\* w.dialer.dialer = dialer.NewDialer(...): the last dial's, for all.
Begin(d) ==
  /\ pc[d] = "idle" /\ d \notin open
  /\ owned \/ \E l \in Lookups : lpc[l] = "using"
  /\ dialer' = d
  /\ Goto(d, "once")
  /\ UNCHANGED <<start, refP, lpc, owner, life>>

\* w.startOnce.Do: the first dial starts the device ...
Start(d) ==
  /\ pc[d] = "once" /\ once = "new"
  /\ once' = "running"
  /\ Goto(d, "starting")
  /\ UNCHANGED <<dialer, startErr, refP, lpc, owner, life>>

StartReturns(d) ==
  /\ pc[d] = "starting"
  /\ once' = "done" /\ startErr' \in BOOLEAN
  /\ Goto(d, "started")
  /\ UNCHANGED <<dialer, refP, lpc, owner, life>>

\* Mutant: no dial waits for the one that starts the device.
PassOnceAtOnce(d) ==
  /\ pc[d] = "once" /\ once # "new"
  /\ Goto(d, "started")
  /\ UNCHANGED <<dialer, start, refP, lpc, owner, life>>

\* ... and the others wait for it.
PassOnce(d) ==
  /\ pc[d] = "once" /\ once = "done"
  /\ Goto(d, "started")
  /\ UNCHANGED <<dialer, start, refP, lpc, owner, life>>

StartFailed(d) ==
  /\ pc[d] = "started" /\ startErr
  /\ Goto(d, "idle")
  /\ UNCHANGED <<dialer, start, refP, lpc, owner, life>>

\* The outbound has no resolver, and the default one serves for a name; or it has
\* one, and ListenPacketContext is called for an address without a name.
DialDirectly(d) ==
  /\ pc[d] = "started" /\ ~startErr
  /\ Goto(d, "direct")
  /\ UNCHANGED <<dialer, start, refP, lpc, owner, life>>

\* Mutant: the reference is set and not counted.
SetProxyAdapterUncounted(d) ==
  /\ pc[d] = "started" /\ ~startErr /\ Resolver
  /\ proxyAdapter' = TRUE /\ count' = 1
  /\ Goto(d, "resolve")
  /\ UNCHANGED <<dialer, start, lpc, owner, life>>

SetProxyAdapter(d) ==
  /\ pc[d] = "started" /\ ~startErr /\ Resolver
  /\ proxyAdapter' = TRUE /\ count' = count + 1
  /\ Goto(d, "resolve")
  /\ UNCHANGED <<dialer, start, lpc, owner, life>>

\* The lookup gave an address, or the dial needed none.
Resolved(d) ==
  /\ pc[d] = "resolve"
  /\ Goto(d, "connect")
  /\ UNCHANGED <<dialer, start, refP, lpc, owner, life>>

\* It failed, or the dial was out of time.
ResolveFails(d) ==
  /\ pc[d] = "resolve"
  /\ Goto(d, "clear")
  /\ UNCHANGED <<dialer, start, refP, lpc, owner, life>>

\* Where a dial goes once it has connected, or failed to.
Leave(d) == Goto(d, IF Holds(d) THEN "clear" ELSE "idle")

\* NewConn(CN.NewRefConn(conn, w), w)
Connect(d) ==
  /\ pc[d] \in {"connect", "direct"}
  /\ open' = open \cup {d} /\ refs' = refs \cup {d}
  /\ Leave(d)
  /\ UNCHANGED <<dialer, start, refP, lpc, owner, owned, closed>>

ConnectFails(d) ==
  /\ pc[d] \in {"connect", "direct"}
  /\ Leave(d)
  /\ UNCHANGED <<dialer, start, refP, lpc, owner, life>>

\* The deferred ClearProxyAdapter; nothing waits for the dial's lookups now.
ClearProxyAdapter(d) ==
  /\ pc[d] = "clear"
  /\ count' = count - 1 /\ proxyAdapter' = (proxyAdapter /\ count' # 0)
  /\ owner' = [l \in Lookups |-> IF owner[l] = d THEN None ELSE owner[l]]
  /\ Goto(d, "idle")
  /\ UNCHANGED <<dialer, start, lpc, life>>

-----------------------------------------------------------------------------
(* refProxyAdapter, as the lookups use it *)

Ask(d, l) ==
  /\ pc[d] = "resolve" /\ lpc[l] = "idle"
  /\ lpc' = [lpc EXCEPT ![l] = "asked"] /\ owner' = [owner EXCEPT ![l] = d]
  /\ UNCHANGED <<dialer, start, refP, pc, life>>

\* if r.proxyAdapter != nil ...
CheckAdapter(l) ==
  /\ lpc[l] = "asked"
  /\ lpc' = [lpc EXCEPT ![l] = IF proxyAdapter THEN "checked" ELSE "unsupported"]
  /\ UNCHANGED <<dialer, start, refP, pc, owner, life>>

\* ... return r.proxyAdapter.DialContext(...), read again and without the lock.
UseAdapter(l) ==
  /\ lpc[l] = "checked"
  /\ lpc' = [lpc EXCEPT ![l] = IF proxyAdapter THEN "using" ELSE "nil"]
  /\ UNCHANGED <<dialer, start, refP, pc, owner, life>>

LookupEnds(l) ==
  /\ lpc[l] \in {"using", "unsupported"}
  /\ lpc' = [lpc EXCEPT ![l] = "idle"] /\ owner' = [owner EXCEPT ![l] = None]
  /\ UNCHANGED <<dialer, start, refP, pc, life>>

-----------------------------------------------------------------------------
(* The end of the outbound *)

\* A connection is closed and forgotten.
Close(d) ==
  /\ d \in open
  /\ open' = open \ {d} /\ refs' = refs \ {d}
  /\ UNCHANGED <<dialer, start, refP, pc, lpc, owner, owned, closed>>

\* pingWG, or the group, has no more use for the outbound.
Drop ==
  /\ owned /\ owned' = FALSE
  /\ UNCHANGED <<dialer, start, refP, pc, lpc, owner, open, refs, closed>>

\* The garbage collector runs closeWireGuard.
Finalize ==
  /\ ~closed /\ ~owned /\ refs = {}
  /\ \A d \in Dials : pc[d] = "idle"
  /\ \A l \in Lookups : lpc[l] # "using"
  /\ closed' = TRUE
  /\ UNCHANGED <<dialer, start, refP, pc, lpc, owner, open, refs, owned>>

Dialing(d) ==
  \/ Begin(d) \/ Start(d) \/ StartReturns(d) \/ PassOnce(d) \/ StartFailed(d)
  \/ DialDirectly(d) \/ SetProxyAdapter(d) \/ Resolved(d) \/ ResolveFails(d)
  \/ Connect(d) \/ ConnectFails(d) \/ ClearProxyAdapter(d) \/ Close(d)

LookingUp(l) == CheckAdapter(l) \/ UseAdapter(l) \/ LookupEnds(l)

Next ==
  \/ \E d \in Dials : Dialing(d)
  \/ \E d \in Dials, l \in Lookups : Ask(d, l)
  \/ \E l \in Lookups : LookingUp(l)
  \/ Drop \/ Finalize

Spec == Init /\ [][Next]_vars

-----------------------------------------------------------------------------

TypeOK ==
  /\ dialer \in Dials \cup {None}
  /\ once \in {"new", "running", "done"} /\ startErr \in BOOLEAN
  /\ count \in Nat /\ proxyAdapter \in BOOLEAN
  /\ pc \in [Dials -> {"idle", "once", "starting", "started", "direct", "resolve",
                       "connect", "clear"}]
  /\ lpc \in [Lookups -> {"idle", "asked", "checked", "using", "unsupported", "nil"}]
  /\ owner \in [Lookups -> Dials \cup {None}]
  /\ open \subseteq Dials /\ refs \subseteq Dials
  /\ owned \in BOOLEAN /\ closed \in BOOLEAN

\* The count of refProxyAdapter is the number of dials that have set it and not
\* yet cleared it, and the adapter is there exactly while there is such a dial.
RefCounted ==
  /\ count = Cardinality({d \in Dials : Holds(d)})
  /\ proxyAdapter <=> count > 0

\* A lookup that a dial waits for finds the adapter, whatever the other dials
\* do: only one that has outlived its dial may find none, or lose it between
\* the check and the use.
LookupInDialServed ==
  \A l \in Lookups : owner[l] # None => lpc[l] \notin {"unsupported", "nil"}

\* Nobody gets to the device before it was started, and started successfully,
\* though several dials come first at once.
StartedBeforeUse ==
  \A d \in Dials : pc[d] \in {"direct", "resolve", "connect", "clear"} =>
    once = "done" /\ ~startErr

\* The device outlives every dial and every connection through it, though
\* pingWG keeps nothing but the connection.
NeverClosedInUse ==
  closed => open = {} /\ \A d \in Dials : pc[d] = "idle"

\* The adapter that the resolver dials through is there for as long as a dial
\* holds it, and for every lookup that its dial waits for.
AdapterIsThere == RefCounted /\ LookupInDialServed

\* The device is used only between its start and its end.
DeviceIsReady == StartedBeforeUse /\ NeverClosedInUse
=============================================================================
