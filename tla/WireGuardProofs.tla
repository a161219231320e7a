--------------------------- MODULE WireGuardProofs ---------------------------
(***************************************************************************)
(* Proofs about WireGuard, for any number of dials and of lookups, with    *)
(* and without a resolver, and about its configuration, for any number of  *)
(* peers.                                                                  *)
(***************************************************************************)
EXTENDS MCWireGuard, FiniteSetTheorems, TLAPS

Holders == {d \in Dials : Holds(d)}

\* A lookup that a dial waits for is under way, and the dial holds the adapter
\* for it; so the adapter cannot be gone.
OwnersHold ==
  \A l \in Lookups : owner[l] # None =>
    /\ lpc[l] \in {"asked", "checked", "using"}
    /\ owner[l] \in Dials /\ Holds(owner[l])

\* The stages of startOnce, as the dials see them.
OnceOrder ==
  \A d \in Dials :
    /\ pc[d] = "starting" => once = "running"
    /\ pc[d] = "started" => once = "done"
    /\ pc[d] = "starting" => \A e \in Dials : pc[e] = "starting" => e = d

\* Every open connection refers to the outbound, and a closed one is out of
\* everybody's reach.
Unreachable ==
  /\ open = refs
  /\ closed => ~owned /\ refs = {} /\ \A d \in Dials : pc[d] = "idle"
  /\ closed => \A l \in Lookups : lpc[l] # "using"

IInv ==
  /\ TypeOK /\ RefCounted /\ OwnersHold
  /\ OnceOrder /\ StartedBeforeUse /\ Unreachable

-----------------------------------------------------------------------------

\* The reference is counted once per holder: a finite set gains or loses one.
LEMMA HolderCounts ==
  ASSUME NEW S, IsFiniteSet(S), NEW d
  PROVE  /\ Cardinality(S) \in Nat
         /\ d \notin S => Cardinality(S \cup {d}) = Cardinality(S) + 1
         /\ d \in S => Cardinality(S \ {d}) = Cardinality(S) - 1 /\ Cardinality(S) > 0
<1>1. Cardinality(S) \in Nat
  BY FS_CardinalityType
<1>2. ASSUME d \notin S PROVE Cardinality(S \cup {d}) = Cardinality(S) + 1
  BY <1>2, FS_AddElement
<1>3. ASSUME d \in S PROVE Cardinality(S \ {d}) = Cardinality(S) - 1 /\ Cardinality(S) > 0
  <2>1. Cardinality(S \ {d}) = Cardinality(S) - 1
    BY <1>3, FS_RemoveElement
  <2>2. Cardinality(S) # 0
    BY <1>3, FS_EmptySet
  <2> QED BY <1>1, <2>1, <2>2
<1> QED BY <1>1, <1>2, <1>3

\* The holders are finitely many.
LEMMA HoldersFinite == IsFiniteSet(Holders)
BY WireGuardAssumption, FS_Subset DEF Holders

\* The initial state satisfies the invariant.
LEMMA InitIInv == Init => IInv
<1> SUFFICES ASSUME Init PROVE IInv OBVIOUS
<1>1. TypeOK
  BY WireGuardAssumption DEF Init, TypeOK
<1>2. RefCounted
  <2>1. {d \in Dials : Holds(d)} = {}
    BY DEF Init, Holds
  <2> QED BY <2>1, FS_EmptySet DEF RefCounted, Init
<1>3. OwnersHold /\ OnceOrder /\ StartedBeforeUse /\ Unreachable
  BY DEF Init, OwnersHold, OnceOrder, StartedBeforeUse, Unreachable
<1> QED BY <1>1, <1>2, <1>3 DEF IInv

\* A step that neither moves a dial into or out of the holders nor touches the
\* reference keeps it counted.
LEMMA CountKept ==
  ASSUME RefCounted, UNCHANGED refP, Holders' = Holders
  PROVE  RefCounted'
BY DEF RefCounted, Holders, refP

-----------------------------------------------------------------------------

\* Every step keeps the types; the count stays a natural number because only a
\* holder takes one away.
LEMMA TypeStep == IInv /\ [Next]_vars => TypeOK'
<1> SUFFICES ASSUME IInv, [Next]_vars PROVE TypeOK'
  OBVIOUS
<1> USE DEF TypeOK, Goto, Leave, start, refP, life
<1>0. TypeOK
  BY DEF IInv
<1>1. ASSUME NEW d \in Dials, Dialing(d) PROVE TypeOK'
  <2>1. CASE Begin(d)
    BY <1>0, <2>1 DEF Begin
  <2>2. CASE Start(d)
    BY <1>0, <2>2 DEF Start
  <2>3. CASE StartReturns(d)
    BY <1>0, <2>3 DEF StartReturns
  <2>4. CASE PassOnce(d)
    BY <1>0, <2>4 DEF PassOnce
  <2>5. CASE StartFailed(d)
    BY <1>0, <2>5 DEF StartFailed
  <2>6. CASE DialDirectly(d)
    BY <1>0, <2>6 DEF DialDirectly
  <2>7. CASE SetProxyAdapter(d)
    BY <1>0, <2>7 DEF SetProxyAdapter
  <2>8. CASE Resolved(d)
    BY <1>0, <2>8 DEF Resolved
  <2>9. CASE ResolveFails(d)
    BY <1>0, <2>9 DEF ResolveFails
  <2>10. CASE Connect(d)
    BY <1>0, <2>10 DEF Connect
  <2>11. CASE ConnectFails(d)
    BY <1>0, <2>11 DEF ConnectFails
  <2>12. CASE ClearProxyAdapter(d)
    <3>1. d \in Holders
      BY <2>12 DEF ClearProxyAdapter, Holders, Holds, IInv, OnceOrder
    <3>2. count > 0
      BY <3>1, HoldersFinite, HolderCounts DEF RefCounted, Holders, IInv
    <3> QED BY <1>0, <2>12, <3>2 DEF ClearProxyAdapter
  <2>13. CASE Close(d)
    BY <1>0, <2>13 DEF Close
  <2> QED BY <1>1, <2>1, <2>2, <2>3, <2>4, <2>5, <2>6, <2>7, <2>8, <2>9, <2>10, <2>11, <2>12, <2>13 DEF Dialing
<1>2. ASSUME NEW d \in Dials, NEW l \in Lookups, Ask(d, l) PROVE TypeOK'
  BY <1>0, <1>2 DEF Ask
<1>3. ASSUME NEW l \in Lookups, LookingUp(l) PROVE TypeOK'
  BY <1>0, <1>3 DEF LookingUp, CheckAdapter, UseAdapter, LookupEnds
<1>4. CASE Drop \/ Finalize
  BY <1>0, <1>4 DEF Drop, Finalize
<1>5. CASE UNCHANGED vars
  BY <1>0, <1>5 DEF vars
<1> QED BY <1>1, <1>2, <1>3, <1>4, <1>5 DEF Next

\* Every step keeps the reference counted.
LEMMA CountStep == IInv /\ [Next]_vars => RefCounted'
<1> SUFFICES ASSUME IInv, [Next]_vars PROVE RefCounted'
  OBVIOUS
<1> USE DEF Goto, Leave
<1>0. TypeOK /\ RefCounted /\ OnceOrder
  BY DEF IInv
<1>1. ASSUME NEW d \in Dials, Dialing(d) PROVE RefCounted'
  <2>1. CASE Begin(d)
    <3>1. Holders' = Holders /\ UNCHANGED refP
      BY <1>0, <2>1 DEF Begin, Holders, Holds, TypeOK, OnceOrder, refP
    <3> QED BY <1>0, <3>1, CountKept
  <2>2. CASE Start(d)
    <3>1. Holders' = Holders /\ UNCHANGED refP
      BY <1>0, <2>2 DEF Start, Holders, Holds, TypeOK, OnceOrder, refP
    <3> QED BY <1>0, <3>1, CountKept
  <2>3. CASE StartReturns(d)
    <3>1. Holders' = Holders /\ UNCHANGED refP
      BY <1>0, <2>3 DEF StartReturns, Holders, Holds, TypeOK, OnceOrder, refP
    <3> QED BY <1>0, <3>1, CountKept
  <2>4. CASE PassOnce(d)
    <3>1. Holders' = Holders /\ UNCHANGED refP
      BY <1>0, <2>4 DEF PassOnce, Holders, Holds, TypeOK, OnceOrder, refP
    <3> QED BY <1>0, <3>1, CountKept
  <2>5. CASE StartFailed(d)
    <3>1. Holders' = Holders /\ UNCHANGED refP
      BY <1>0, <2>5 DEF StartFailed, Holders, Holds, TypeOK, OnceOrder, refP
    <3> QED BY <1>0, <3>1, CountKept
  <2>6. CASE DialDirectly(d)
    <3>1. Holders' = Holders /\ UNCHANGED refP
      BY <1>0, <2>6 DEF DialDirectly, Holders, Holds, TypeOK, OnceOrder, refP
    <3> QED BY <1>0, <3>1, CountKept
  <2>7. CASE SetProxyAdapter(d)
    <3>1. d \notin Holders /\ Holders' = Holders \cup {d}
      BY <1>0, <2>7 DEF SetProxyAdapter, Holders, Holds, TypeOK
    <3>2. Cardinality(Holders') = Cardinality(Holders) + 1 /\ Cardinality(Holders) \in Nat
      BY <3>1, HoldersFinite, HolderCounts
    <3> QED BY <1>0, <2>7, <3>2 DEF SetProxyAdapter, RefCounted, Holders
  <2>8. CASE Resolved(d)
    <3>1. Holders' = Holders /\ UNCHANGED refP
      BY <1>0, <2>8 DEF Resolved, Holders, Holds, TypeOK, OnceOrder, refP
    <3> QED BY <1>0, <3>1, CountKept
  <2>9. CASE ResolveFails(d)
    <3>1. Holders' = Holders /\ UNCHANGED refP
      BY <1>0, <2>9 DEF ResolveFails, Holders, Holds, TypeOK, OnceOrder, refP
    <3> QED BY <1>0, <3>1, CountKept
  <2>10. CASE Connect(d)
    <3>1. Holders' = Holders /\ UNCHANGED refP
      BY <1>0, <2>10 DEF Connect, Holders, Holds, TypeOK, OnceOrder, refP
    <3> QED BY <1>0, <3>1, CountKept
  <2>11. CASE ConnectFails(d)
    <3>1. Holders' = Holders /\ UNCHANGED refP
      BY <1>0, <2>11 DEF ConnectFails, Holders, Holds, TypeOK, OnceOrder, refP
    <3> QED BY <1>0, <3>1, CountKept
  <2>12. CASE ClearProxyAdapter(d)
    <3>1. d \in Holders /\ Holders' = Holders \ {d}
      BY <1>0, <2>12 DEF ClearProxyAdapter, Holders, Holds, TypeOK, OnceOrder
    <3>2. Cardinality(Holders') = Cardinality(Holders) - 1
          /\ Cardinality(Holders) \in Nat /\ Cardinality(Holders) > 0
      BY <3>1, HoldersFinite, HolderCounts
    <3>3. count = Cardinality(Holders) /\ (proxyAdapter <=> count > 0)
      BY <1>0 DEF RefCounted, Holders
    <3>4. count' = count - 1 /\ (proxyAdapter' <=> proxyAdapter /\ count' # 0)
      BY <2>12, Zenon DEF ClearProxyAdapter
    <3>5. count' = Cardinality(Holders') /\ (proxyAdapter' <=> count' > 0)
      BY <3>2, <3>3, <3>4
    <3> QED BY <3>5 DEF RefCounted, Holders
  <2>13. CASE Close(d)
    <3>1. Holders' = Holders /\ UNCHANGED refP
      BY <1>0, <2>13 DEF Close, Holders, Holds, TypeOK, OnceOrder, refP
    <3> QED BY <1>0, <3>1, CountKept
  <2> QED BY <1>1, <2>1, <2>2, <2>3, <2>4, <2>5, <2>6, <2>7, <2>8, <2>9, <2>10, <2>11, <2>12, <2>13 DEF Dialing
<1>2. ASSUME UNCHANGED <<pc, refP>> PROVE RefCounted'
  <2>1. Holders' = Holders /\ UNCHANGED refP
    BY <1>2 DEF Holders, Holds
  <2> QED BY <1>0, <2>1, CountKept
<1>3. ASSUME NEW d \in Dials, NEW l \in Lookups, Ask(d, l) PROVE RefCounted'
  BY <1>2, <1>3 DEF Ask
<1>4. ASSUME NEW l \in Lookups, LookingUp(l) PROVE RefCounted'
  BY <1>2, <1>4 DEF LookingUp, CheckAdapter, UseAdapter, LookupEnds
<1>5. CASE Drop \/ Finalize
  BY <1>2, <1>5 DEF Drop, Finalize
<1>6. CASE UNCHANGED vars
  BY <1>2, <1>6 DEF vars
<1> QED BY <1>1, <1>3, <1>4, <1>5, <1>6 DEF Next

\* The adapter is there while a dial holds it, and gone when all are idle.
LEMMA AdapterWhileHeld ==
  ASSUME RefCounted
  PROVE  /\ \A d \in Dials : Holds(d) => proxyAdapter
         /\ (\A d \in Dials : pc[d] = "idle") => ~proxyAdapter
<1>1. ASSUME NEW d \in Dials, Holds(d) PROVE proxyAdapter
  <2>1. Cardinality(Holders) > 0
    BY <1>1, HoldersFinite, HolderCounts DEF Holders
  <2> QED BY <2>1 DEF RefCounted, Holders
<1>2. ASSUME \A d \in Dials : pc[d] = "idle" PROVE ~proxyAdapter
  <2>1. Holders = {}
    BY <1>2 DEF Holders, Holds
  <2> QED BY <2>1, FS_EmptySet DEF RefCounted, Holders
<1> QED BY <1>1, <1>2

\* Every step keeps the rest of the invariant.
LEMMA OrderStep ==
  IInv /\ [Next]_vars => OwnersHold' /\ OnceOrder' /\ StartedBeforeUse' /\ Unreachable'
<1> DEFINE Rest == OwnersHold /\ OnceOrder /\ StartedBeforeUse /\ Unreachable
<1> SUFFICES ASSUME IInv, [Next]_vars PROVE Rest'
  OBVIOUS
<1>0. TypeOK /\ RefCounted /\ Rest
  BY DEF IInv
<1>a. /\ \A d \in Dials : Holds(d) => proxyAdapter
      /\ (\A d \in Dials : pc[d] = "idle") => ~proxyAdapter
  BY <1>0, AdapterWhileHeld
<1> USE DEF Goto, Leave, start, refP, life, TypeOK, OwnersHold, OnceOrder,
            StartedBeforeUse, Unreachable, Holds
<1>1. ASSUME NEW d \in Dials, Dialing(d) PROVE Rest'
  <2>1. CASE Begin(d)
    <3>1. OwnersHold'
      BY <1>0, <2>1, WireGuardAssumption DEF Begin
    <3>2. OnceOrder' /\ StartedBeforeUse'
      BY <1>0, <2>1 DEF Begin
    <3>3. Unreachable'
      BY <1>0, <2>1 DEF Begin
    <3> QED BY <3>1, <3>2, <3>3
  <2>2. CASE Start(d)
    <3>1. OwnersHold'
      BY <1>0, <2>2, WireGuardAssumption DEF Start
    <3>2. OnceOrder' /\ StartedBeforeUse'
      BY <1>0, <2>2 DEF Start
    <3>3. Unreachable'
      BY <1>0, <2>2 DEF Start
    <3> QED BY <3>1, <3>2, <3>3
  <2>3. CASE StartReturns(d)
    <3>1. OwnersHold'
      BY <1>0, <2>3, WireGuardAssumption DEF StartReturns
    <3>2. OnceOrder' /\ StartedBeforeUse'
      BY <1>0, <2>3 DEF StartReturns
    <3>3. Unreachable'
      BY <1>0, <2>3 DEF StartReturns
    <3> QED BY <3>1, <3>2, <3>3
  <2>4. CASE PassOnce(d)
    <3>1. OwnersHold'
      BY <1>0, <2>4, WireGuardAssumption DEF PassOnce
    <3>2. OnceOrder' /\ StartedBeforeUse'
      BY <1>0, <2>4 DEF PassOnce
    <3>3. Unreachable'
      BY <1>0, <2>4 DEF PassOnce
    <3> QED BY <3>1, <3>2, <3>3
  <2>5. CASE StartFailed(d)
    <3>1. OwnersHold'
      BY <1>0, <2>5, WireGuardAssumption DEF StartFailed
    <3>2. OnceOrder' /\ StartedBeforeUse'
      BY <1>0, <2>5 DEF StartFailed
    <3>3. Unreachable'
      BY <1>0, <2>5 DEF StartFailed
    <3> QED BY <3>1, <3>2, <3>3
  <2>6. CASE DialDirectly(d)
    <3>1. OwnersHold'
      BY <1>0, <2>6, WireGuardAssumption DEF DialDirectly
    <3>2. OnceOrder' /\ StartedBeforeUse'
      BY <1>0, <2>6 DEF DialDirectly
    <3>3. Unreachable'
      BY <1>0, <2>6 DEF DialDirectly
    <3> QED BY <3>1, <3>2, <3>3
  <2>7. CASE SetProxyAdapter(d)
    <3>1. OwnersHold'
      BY <1>0, <2>7, WireGuardAssumption DEF SetProxyAdapter
    <3>2. OnceOrder' /\ StartedBeforeUse'
      BY <1>0, <2>7 DEF SetProxyAdapter
    <3>3. Unreachable'
      BY <1>0, <2>7 DEF SetProxyAdapter
    <3> QED BY <3>1, <3>2, <3>3
  <2>8. CASE Resolved(d)
    <3>1. OwnersHold'
      BY <1>0, <2>8, WireGuardAssumption DEF Resolved
    <3>2. OnceOrder' /\ StartedBeforeUse'
      BY <1>0, <2>8 DEF Resolved
    <3>3. Unreachable'
      BY <1>0, <2>8 DEF Resolved
    <3> QED BY <3>1, <3>2, <3>3
  <2>9. CASE ResolveFails(d)
    <3>1. OwnersHold'
      BY <1>0, <2>9, WireGuardAssumption DEF ResolveFails
    <3>2. OnceOrder' /\ StartedBeforeUse'
      BY <1>0, <2>9 DEF ResolveFails
    <3>3. Unreachable'
      BY <1>0, <2>9 DEF ResolveFails
    <3> QED BY <3>1, <3>2, <3>3
  <2>10. CASE Connect(d)
    <3>1. OwnersHold'
      BY <1>0, <2>10, WireGuardAssumption DEF Connect
    <3>2. OnceOrder' /\ StartedBeforeUse'
      BY <1>0, <2>10 DEF Connect
    <3>3. Unreachable'
      BY <1>0, <2>10 DEF Connect
    <3> QED BY <3>1, <3>2, <3>3
  <2>11. CASE ConnectFails(d)
    <3>1. OwnersHold'
      BY <1>0, <2>11, WireGuardAssumption DEF ConnectFails
    <3>2. OnceOrder' /\ StartedBeforeUse'
      BY <1>0, <2>11 DEF ConnectFails
    <3>3. Unreachable'
      BY <1>0, <2>11 DEF ConnectFails
    <3> QED BY <3>1, <3>2, <3>3
  <2>12. CASE ClearProxyAdapter(d)
    <3>1. OwnersHold'
      BY <1>0, <2>12, WireGuardAssumption DEF ClearProxyAdapter
    <3>2. OnceOrder' /\ StartedBeforeUse'
      BY <1>0, <2>12 DEF ClearProxyAdapter
    <3>3. Unreachable'
      BY <1>0, <2>12 DEF ClearProxyAdapter
    <3> QED BY <3>1, <3>2, <3>3
  <2>13. CASE Close(d)
    <3>1. OwnersHold'
      BY <1>0, <2>13, WireGuardAssumption DEF Close
    <3>2. OnceOrder' /\ StartedBeforeUse'
      BY <1>0, <2>13 DEF Close
    <3>3. Unreachable'
      BY <1>0, <2>13 DEF Close
    <3> QED BY <3>1, <3>2, <3>3
  <2> QED BY <1>1, <2>1, <2>2, <2>3, <2>4, <2>5, <2>6, <2>7, <2>8, <2>9, <2>10, <2>11, <2>12, <2>13 DEF Dialing
<1>2. ASSUME NEW d \in Dials, NEW l \in Lookups, Ask(d, l) PROVE Rest'
  BY <1>0, <1>2 DEF Ask
<1>3. ASSUME NEW l \in Lookups, LookingUp(l) PROVE Rest'
  <2>1. CASE CheckAdapter(l)
    BY <1>0, <1>a, <2>1 DEF CheckAdapter
  <2>2. CASE UseAdapter(l)
    BY <1>0, <1>a, <2>2 DEF UseAdapter
  <2>3. CASE LookupEnds(l)
    BY <1>0, <2>3 DEF LookupEnds
  <2> QED BY <1>3, <2>1, <2>2, <2>3 DEF LookingUp
<1>4. CASE Drop
  BY <1>0, <1>4 DEF Drop
<1>5. CASE Finalize
  BY <1>0, <1>5 DEF Finalize
<1>6. CASE UNCHANGED vars
  BY <1>0, <1>6 DEF vars
<1> QED BY <1>1, <1>2, <1>3, <1>4, <1>5, <1>6 DEF Next

\* The invariant is inductive, and holds of every behaviour.
LEMMA Invariance == Spec => []IInv
<1>1. IInv /\ [Next]_vars => IInv'
  BY TypeStep, CountStep, OrderStep DEF IInv
<1> QED BY <1>1, InitIInv, PTL DEF Spec

-----------------------------------------------------------------------------

\* Type correctness: in particular the count of refProxyAdapter never goes
\* below zero.
THEOREM TypeCorrect == Spec => []TypeOK
<1>1. IInv => TypeOK
  BY DEF IInv
<1> QED BY <1>1, Invariance, PTL

\* The count of refProxyAdapter is the number of dials between their
\* SetProxyAdapter and their ClearProxyAdapter, and the adapter is set while
\* there is one.
THEOREM Counted == Spec => []RefCounted
<1>1. IInv => RefCounted
  BY DEF IInv
<1> QED BY <1>1, Invariance, PTL

\* No lookup that a dial waits for finds the adapter gone.
THEOREM Served == Spec => []LookupInDialServed
<1>1. IInv => LookupInDialServed
  BY DEF IInv, OwnersHold, LookupInDialServed
<1> QED BY <1>1, Invariance, PTL

\* No dial uses the device before startOnce has started it.
THEOREM StartedFirst == Spec => []StartedBeforeUse
<1>1. IInv => StartedBeforeUse
  BY DEF IInv
<1> QED BY <1>1, Invariance, PTL

\* The finalizer closes no device that a dial or a connection uses.
THEOREM DeviceOutlives == Spec => []NeverClosedInUse
<1>1. IInv => NeverClosedInUse
  BY DEF IInv, Unreachable, NeverClosedInUse
<1> QED BY <1>1, Invariance, PTL

(* The adapter is there for the dials that hold it and their lookups.      *)
THEOREM AdapterServes == Spec => []AdapterIsThere
<1>1. RefCounted /\ LookupInDialServed => AdapterIsThere
  BY DEF AdapterIsThere
<1> QED
  BY <1>1, Counted, Served, PTL

(* The device is used only between its start and its end.                  *)
THEOREM DeviceReady == Spec => []DeviceIsReady
<1>1. StartedBeforeUse /\ NeverClosedInUse => DeviceIsReady
  BY DEF DeviceIsReady
<1> QED
  BY <1>1, StartedFirst, DeviceOutlives, PTL

-----------------------------------------------------------------------------
(* NewWireGuard                                                            *)
(*                                                                         *)
(* What was looked at so far is in order, and only peers that have bytes   *)
(* get some of their own.                                                  *)

ConfigType ==
  /\ option \in [reserved : WC!Reserved, private : BOOLEAN, keys : BOOLEAN, local : BOOLEAN]
  /\ peers \in Seq(WC!PeerOptions)
  /\ cfgPc \in {"reserved", "peers", "single", "device", "done"}
  /\ i \in Nat \ {0}
  /\ endpoint \in Seq(Nat \X {Zero, option.reserved})
  /\ reserved \in {Zero, option.reserved}
  /\ outcome \in {"none", "ok", "error"}

\* Zero where nothing is copied from the option.
OptionBytes == IF option.reserved = Empty THEN Zero ELSE option.reserved

ConfigChecked ==
  /\ outcome = "none" <=> cfgPc # "done"
  /\ cfgPc = "reserved" => reserved = Zero /\ endpoint = << >> /\ i = 1
  /\ cfgPc # "reserved" /\ outcome # "error" =>
       option.reserved # Wrong /\ option.private /\ default = OptionBytes
  /\ cfgPc \in {"reserved", "single"} => i = 1
  /\ outcome # "error" => i <= Len(peers) + 1 /\ \A k \in 1 .. Len(peers) : k < i => WC!PeerAccepted(peers[k])
  /\ cfgPc = "single" => peers = << >>
  /\ cfgPc = "peers" => peers # << >>
  /\ cfgPc = "device" \/ outcome = "ok" =>
       IF peers = << >> THEN option.keys /\ option.local ELSE i = Len(peers) + 1

ConfigEndpoints ==
  \A n \in 1 .. Len(endpoint) : endpoint[n][1] \in 1 .. Len(peers) /\ peers[endpoint[n][1]].reserved # Empty

ConfigInv == ConfigType /\ ConfigChecked /\ ConfigEndpoints

LEMMA ConfigInitially == ASSUME WC!Init PROVE ConfigInv
<1>1. peers \in Seq(WC!PeerOptions)
  BY DEF WC!Init
<1>2. QED
  BY <1>1 DEF WC!Init, ConfigInv, ConfigType, ConfigChecked, ConfigEndpoints

LEMMA ConfigStep == ASSUME ConfigInv, WC!Next PROVE ConfigInv'
<1> USE DEF ConfigInv
<1>1. ASSUME WC!Fail PROVE ConfigInv'
  BY <1>1 DEF WC!Fail, WC!config, ConfigType, ConfigChecked, ConfigEndpoints, OptionBytes
<1>2. CASE WC!CheckOption
  <2>1. CASE option.reserved = Wrong \/ ~option.private
    BY <1>1, <1>2, <2>1 DEF WC!CheckOption
  <2>2. CASE ~(option.reserved = Wrong \/ ~option.private)
    <3>1. /\ cfgPc = "reserved" /\ reserved' = OptionBytes /\ default' = OptionBytes
          /\ cfgPc' = (IF peers = << >> THEN "single" ELSE "peers")
          /\ UNCHANGED <<option, peers, i, endpoint, outcome>>
      BY <1>2, <2>2 DEF WC!CheckOption, WC!Copy, WC!config, ConfigChecked, OptionBytes
    <3>2. QED
      BY <2>2, <3>1 DEF ConfigType, ConfigChecked, ConfigEndpoints, OptionBytes
  <2>3. QED
    BY <2>1, <2>2
<1>3. CASE WC!AddPeer
  <2>1. CASE ~WC!PeerAccepted(peers[i])
    BY <1>1, <1>3, <2>1 DEF WC!AddPeer
  <2>2. CASE WC!PeerAccepted(peers[i]) /\ peers[i].reserved = Empty
    <3>1. /\ cfgPc = "peers" /\ i <= Len(peers) /\ i' = i + 1
          /\ UNCHANGED <<option, peers, cfgPc, default, outcome, reserved, endpoint>>
      BY <1>3, <2>2 DEF WC!AddPeer, WC!config
    <3>2. ConfigType'
      BY <3>1 DEF ConfigType
    <3>3. \A k \in 1 .. Len(peers) : k < i + 1 => k < i \/ k = i
      BY DEF ConfigType
    <3>4. QED
      BY <2>2, <3>1, <3>2, <3>3 DEF ConfigType, ConfigChecked, ConfigEndpoints, OptionBytes, WC!PeerAccepted
  <2>3. CASE WC!PeerAccepted(peers[i]) /\ peers[i].reserved # Empty
    <3>1. /\ cfgPc = "peers" /\ i <= Len(peers) /\ i' = i + 1
          /\ reserved' = WC!Copy(option.reserved)
          /\ endpoint' = Append(endpoint, <<i, reserved'>>)
          /\ UNCHANGED <<option, peers, cfgPc, default, outcome>>
      BY <1>3, <2>3 DEF WC!AddPeer, WC!config
    <3>2. reserved' \in {Zero, option.reserved} /\ <<i, reserved'>> \in Nat \X {Zero, option.reserved}
      BY <3>1 DEF ConfigType, WC!Copy
    <3>3. /\ endpoint' \in Seq(Nat \X {Zero, option.reserved})
          /\ Len(endpoint') = Len(endpoint) + 1
          /\ \A n \in 1 .. Len(endpoint) : endpoint'[n] = endpoint[n]
          /\ endpoint'[Len(endpoint) + 1] = <<i, reserved'>>
      BY <3>1, <3>2 DEF ConfigType
    <3>4. ConfigType'
      BY <3>1, <3>2, <3>3 DEF ConfigType
    <3>5. \A k \in 1 .. Len(peers) : k < i + 1 => k < i \/ k = i
      BY DEF ConfigType
    <3>6. ConfigChecked'
      BY <2>3, <3>1, <3>4, <3>5 DEF ConfigType, ConfigChecked, OptionBytes, WC!PeerAccepted
    <3>7. ConfigEndpoints'
      <4>1. i \in 1 .. Len(peers)
        BY <3>1 DEF ConfigType
      <4>2. ASSUME NEW n \in 1 .. Len(endpoint')
            PROVE  endpoint'[n][1] \in 1 .. Len(peers) /\ peers[endpoint'[n][1]].reserved # Empty
        <5>1. CASE n = Len(endpoint) + 1
          BY <2>3, <3>3, <4>1, <5>1
        <5>2. CASE n # Len(endpoint) + 1
          <6>1. n \in 1 .. Len(endpoint)
            BY <3>3, <4>2, <5>2 DEF ConfigType
          <6>2. QED
            BY <3>3, <6>1 DEF ConfigEndpoints
        <5>3. QED
          BY <5>1, <5>2
      <4>3. QED
        BY <3>1, <4>2 DEF ConfigEndpoints
    <3>8. QED
      BY <3>4, <3>6, <3>7
  <2>4. QED
    BY <2>1, <2>2, <2>3
<1>4. CASE WC!PeersDone
  BY <1>4 DEF WC!PeersDone, WC!config, ConfigType, ConfigChecked, ConfigEndpoints, OptionBytes
<1>5. CASE WC!AddSingle
  BY <1>1, <1>5 DEF WC!AddSingle, WC!config, ConfigType, ConfigChecked, ConfigEndpoints, OptionBytes
<1>6. CASE WC!MakeDevice
  BY <1>1, <1>6 DEF WC!MakeDevice, WC!config, ConfigType, ConfigChecked, ConfigEndpoints, OptionBytes
<1>7. QED
  BY <1>2, <1>3, <1>4, <1>5, <1>6 DEF WC!Next

\* Only options that are well-formed as a whole make an outbound, and a peer
\* without reserved bytes gets those of the option, for any number of peers.
THEOREM OptionsChecked == RunSpec => []OptionsAreChecked
<1>1. RunInit => (active = "config" => ConfigInv)
  BY ConfigInitially DEF RunInit
<1>2. (active = "config" => ConfigInv) /\ [RunNext]_<<active, vars, cfgVars>> => (active = "config" => ConfigInv)'
  <2>1. ASSUME active = "config", ConfigInv, UNCHANGED <<active, vars, cfgVars>> PROVE ConfigInv'
    BY <2>1 DEF cfgVars, ConfigInv, ConfigType, ConfigChecked, ConfigEndpoints, OptionBytes
  <2>2. QED
    BY <2>1, ConfigStep DEF RunNext
<1>3. (active = "config" => ConfigInv) => OptionsAreChecked
  <2>1. ASSUME ConfigInv PROVE WC!OnlyWellFormed
    BY <2>1 DEF ConfigInv, ConfigType, ConfigChecked, WC!OnlyWellFormed, WC!PeerAccepted
  <2>2. ASSUME ConfigInv PROVE WC!OptionBytesByDefault
    <3>1. outcome = "ok" => default = OptionBytes
      BY <2>2 DEF ConfigInv, ConfigChecked
    <3>2. ASSUME NEW k \in 1 .. Len(peers), peers[k].reserved = Empty
          PROVE  /\ k \notin {endpoint[n][1] : n \in 1 .. Len(endpoint)}
                 /\ {n \in 1 .. Len(endpoint) : endpoint[n][1] = k} = {}
      BY <2>2, <3>2 DEF ConfigInv, ConfigEndpoints
    <3>3. QED
      BY <3>1, <3>2 DEF WC!OptionBytesByDefault, WC!PacketBytes, OptionBytes
  <2>3. QED
    BY <2>1, <2>2 DEF OptionsAreChecked
<1>4. QED
  BY <1>1, <1>2, <1>3, PTL DEF RunSpec
=============================================================================
