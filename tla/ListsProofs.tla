----------------------------- MODULE ListsProofs ----------------------------
(***************************************************************************)
(* The parts of a provider agree between updates, for any contents, any    *)
(* requests and any number of changes, failures and stops.                 *)
(***************************************************************************)
EXTENDS MCLists, TLAPS

Values == Contents \cup {Bad, Torn, None}

Places == {"idle", "start", "compare", "write", "writing", "hash", "proxies", "check", "version"}

ProviderType ==
  /\ remote \in Values /\ file \in Values /\ hash \in Values /\ proxies \in Values /\ checked \in Values
  /\ pc \in [Procs -> Places] /\ buf \in [Procs -> Values]
  /\ overlapped \in BOOLEAN

\* While updates do not overlap, at most one process is under way.
OneAtATime ==
  ~overlapped => \A p, q \in Procs : pc[p] # "idle" /\ pc[q] # "idle" => p = q

\* How the parts relate before a process has changed one of them ...
Agree ==
  /\ hash = proxies /\ proxies = checked
  /\ file = proxies \/ file = Torn \/ proxies = None

\* ... and after each of its steps.
WayAlong(p) ==
  /\ pc[p] = "start" => Agree /\ proxies = None
  /\ pc[p] \in {"compare", "write"} => Agree
  /\ pc[p] = "writing" => hash = proxies /\ proxies = checked /\ file = Torn
  /\ pc[p] \in {"hash", "proxies", "check", "version"} => file \in {buf[p], Torn}
  /\ pc[p] = "hash" => hash = proxies /\ proxies = checked
  /\ pc[p] = "proxies" => hash = buf[p]
  /\ pc[p] = "check" => hash = buf[p] /\ proxies = buf[p]
  /\ pc[p] = "version" => hash = buf[p] /\ proxies = buf[p] /\ checked = buf[p]

ProviderInv ==
  /\ ProviderType /\ OneAtATime
  /\ ~overlapped => (Alone => Agree) /\ \A p \in Procs : WayAlong(p)

LEMMA ProviderInitially == ASSUME Init PROVE ProviderInv
<1>1. \A p \in Procs : pc[p] = "idle" \/ (pc[p] = "start" /\ p = Initial)
  BY DEF Init
<1>2. Agree /\ proxies = None
  BY DEF Init, Agree
<1>3. ProviderType
  BY DEF Init, ProviderType, Values, Places
<1>4. QED
  BY <1>1, <1>2, <1>3 DEF ProviderInv, OneAtATime, WayAlong

\* A step of the one process p that is under way, with what it leaves behind.
LEMMA ProviderMoves ==
  ASSUME ProviderInv, ProviderType', NEW p \in Procs, overlapped' = overlapped, pc[p] # "idle",
         \A q \in Procs \ {p} : pc'[q] = pc[q],
         ~overlapped /\ pc'[p] = "idle" => Agree', ~overlapped => WayAlong(p)'
  PROVE  ProviderInv'
<1>1. ~overlapped => \A q \in Procs \ {p} : pc[q] = "idle" /\ pc'[q] = "idle"
  BY DEF ProviderInv, OneAtATime
<1>2. OneAtATime'
  BY <1>1 DEF OneAtATime
<1>3. ~overlapped => \A q \in Procs : WayAlong(q)'
  BY <1>1 DEF WayAlong
<1>4. ~overlapped /\ Alone' => Agree'
  BY DEF Alone
<1>5. QED
  BY <1>2, <1>3, <1>4 DEF ProviderInv

LEMMA ProviderUpdating ==
  ASSUME ProviderInv, NEW p \in Procs, Updating(p) \/ WriteFails(p)
  PROVE  ProviderInv'
<1>1. ProviderType /\ (~overlapped => WayAlong(p))
  BY DEF ProviderInv
<1>2. ~overlapped => \A q \in Procs \ {p} : pc[p] # "idle" => pc[q] = "idle"
  BY DEF ProviderInv, OneAtATime
<1>3. CASE Read(p)
  <2>1. /\ pc[p] = "idle" /\ pc' = [pc EXCEPT ![p] = "compare"] /\ buf' = [buf EXCEPT ![p] = remote]
        /\ overlapped' = (overlapped \/ ~Alone) /\ UNCHANGED <<remote, file, hash, proxies, checked>>
    BY <1>3 DEF Read, MayUpdate, Begins, memory
  <2>2. ProviderType'
    BY <1>1, <2>1 DEF ProviderType, Places
  <2>3. CASE overlapped'
    BY <2>2, <2>3 DEF ProviderInv, OneAtATime
  <2>4. CASE ~overlapped'
    <3>1. Alone /\ ~overlapped /\ Agree
      BY <2>1, <2>4 DEF ProviderInv
    <3>2. Agree'
      BY <2>1, <3>1 DEF Agree
    <3>3. pc'[p] = "compare" /\ \A q \in Procs \ {p} : pc'[q] = "idle"
      BY <1>1, <2>1, <3>1 DEF Alone, ProviderType
    <3>4. \A q \in Procs : WayAlong(q)'
      BY <3>2, <3>3 DEF WayAlong
    <3>5. QED
      BY <2>2, <3>2, <3>3, <3>4 DEF ProviderInv, OneAtATime
  <2>5. QED
    BY <2>3, <2>4
<1>4. CASE Compare(p)
  <2>1. /\ pc[p] = "compare" /\ (pc' = [pc EXCEPT ![p] = "write"] \/ pc' = [pc EXCEPT ![p] = "idle"])
        /\ (buf' = buf \/ buf' = [buf EXCEPT ![p] = None]) /\ UNCHANGED <<overlapped, remote, file, hash, proxies, checked>>
    BY <1>4 DEF Compare, Goto, Ends, memory
  <2>2. ProviderType'
    BY <1>1, <2>1 DEF ProviderType, Places, Values
  <2>3. pc'[p] \in {"write", "idle"} /\ \A q \in Procs \ {p} : pc'[q] = pc[q]
    BY <1>1, <2>1 DEF ProviderType
  <2>4. ~overlapped => Agree'
    BY <1>1, <2>1 DEF WayAlong, Agree
  <2>5. ~overlapped => WayAlong(p)'
    BY <2>3, <2>4 DEF WayAlong
  <2>6. QED
    BY <2>1, <2>2, <2>3, <2>4, <2>5, ProviderMoves
<1>5. CASE WriteBegins(p)
  <2>1. /\ pc[p] = "write" /\ pc' = [pc EXCEPT ![p] = "writing"] /\ file' = Torn
        /\ UNCHANGED <<buf, overlapped, remote, hash, proxies, checked>>
    BY <1>5 DEF WriteBegins, Goto, memory
  <2>2. ProviderType'
    BY <1>1, <2>1 DEF ProviderType, Places, Values
  <2>3. pc'[p] = "writing" /\ \A q \in Procs \ {p} : pc'[q] = pc[q]
    BY <1>1, <2>1 DEF ProviderType
  <2>4. ~overlapped => WayAlong(p)'
    BY <1>1, <2>1, <2>3 DEF WayAlong, Agree
  <2>5. QED
    BY <2>1, <2>2, <2>3, <2>4, ProviderMoves
<1>6. CASE WriteEnds(p)
  <2>1. /\ pc[p] = "writing" /\ pc' = [pc EXCEPT ![p] = "hash"] /\ file' \in {buf[p], Torn}
        /\ UNCHANGED <<buf, overlapped, remote, hash, proxies, checked>>
    BY <1>6 DEF WriteEnds, Goto, memory
  <2>2. ProviderType'
    BY <1>1, <2>1 DEF ProviderType, Places, Values
  <2>3. pc'[p] = "hash" /\ \A q \in Procs \ {p} : pc'[q] = pc[q]
    BY <1>1, <2>1 DEF ProviderType
  <2>4. ~overlapped => WayAlong(p)'
    BY <1>1, <2>1, <2>3 DEF WayAlong, Agree
  <2>5. QED
    BY <2>1, <2>2, <2>3, <2>4, ProviderMoves
<1>7. CASE WriteFails(p)
  <2>1. /\ pc[p] \in {"write", "writing"} /\ pc' = [pc EXCEPT ![p] = "idle"] /\ buf' = [buf EXCEPT ![p] = None]
        /\ UNCHANGED <<overlapped, remote, file, hash, proxies, checked>>
    BY <1>7 DEF WriteFails, Ends, memory
  <2>2. ProviderType'
    BY <1>1, <2>1 DEF ProviderType, Places, Values
  <2>3. pc'[p] = "idle" /\ \A q \in Procs \ {p} : pc'[q] = pc[q]
    BY <1>1, <2>1 DEF ProviderType
  <2>4. ~overlapped => Agree' /\ WayAlong(p)'
    BY <1>1, <2>1, <2>3 DEF WayAlong, Agree
  <2>5. QED
    BY <2>1, <2>2, <2>3, <2>4, ProviderMoves
<1>8. CASE SetHash(p)
  <2>1. /\ pc[p] = "hash" /\ pc' = [pc EXCEPT ![p] = "proxies"] /\ hash' = buf[p]
        /\ UNCHANGED <<buf, overlapped, remote, file, proxies, checked>>
    BY <1>8 DEF SetHash, Goto
  <2>2. ProviderType'
    BY <1>1, <2>1 DEF ProviderType, Places, Values
  <2>3. pc'[p] = "proxies" /\ \A q \in Procs \ {p} : pc'[q] = pc[q]
    BY <1>1, <2>1 DEF ProviderType
  <2>4. ~overlapped => WayAlong(p)'
    BY <1>1, <2>1, <2>3 DEF WayAlong
  <2>5. QED
    BY <2>1, <2>2, <2>3, <2>4, ProviderMoves
<1>9. CASE SetProxies(p)
  <2>1. /\ pc[p] = "proxies" /\ pc' = [pc EXCEPT ![p] = "check"] /\ proxies' = buf[p]
        /\ UNCHANGED <<buf, overlapped, remote, file, hash, checked>>
    BY <1>9 DEF SetProxies, Goto
  <2>2. ProviderType'
    BY <1>1, <2>1 DEF ProviderType, Places, Values
  <2>3. pc'[p] = "check" /\ \A q \in Procs \ {p} : pc'[q] = pc[q]
    BY <1>1, <2>1 DEF ProviderType
  <2>4. ~overlapped => WayAlong(p)'
    BY <1>1, <2>1, <2>3 DEF WayAlong
  <2>5. QED
    BY <2>1, <2>2, <2>3, <2>4, ProviderMoves
<1>10. CASE SetProxy(p)
  <2>1. /\ pc[p] = "check" /\ pc' = [pc EXCEPT ![p] = "version"] /\ checked' = buf[p]
        /\ UNCHANGED <<buf, overlapped, remote, file, hash, proxies>>
    BY <1>10 DEF SetProxy, Goto
  <2>2. ProviderType'
    BY <1>1, <2>1 DEF ProviderType, Places, Values
  <2>3. pc'[p] = "version" /\ \A q \in Procs \ {p} : pc'[q] = pc[q]
    BY <1>1, <2>1 DEF ProviderType
  <2>4. ~overlapped => WayAlong(p)'
    BY <1>1, <2>1, <2>3 DEF WayAlong
  <2>5. QED
    BY <2>1, <2>2, <2>3, <2>4, ProviderMoves
<1>11. CASE BumpVersion(p)
  <2>1. /\ pc[p] = "version" /\ pc' = [pc EXCEPT ![p] = "idle"] /\ buf' = [buf EXCEPT ![p] = None]
        /\ UNCHANGED <<overlapped, remote, file, hash, proxies, checked>>
    BY <1>11 DEF BumpVersion, Ends
  <2>2. ProviderType'
    BY <1>1, <2>1 DEF ProviderType, Places, Values
  <2>3. pc'[p] = "idle" /\ \A q \in Procs \ {p} : pc'[q] = pc[q]
    BY <1>1, <2>1 DEF ProviderType
  <2>4. ~overlapped => Agree' /\ WayAlong(p)'
    BY <1>1, <2>1, <2>3 DEF WayAlong, Agree
  <2>5. QED
    BY <2>1, <2>2, <2>3, <2>4, ProviderMoves
<1>12. QED
  BY <1>3, <1>4, <1>5, <1>6, <1>7, <1>8, <1>9, <1>10, <1>11 DEF Updating

LEMMA ProviderStarting == ASSUME ProviderInv, Starting PROVE ProviderInv'
<1>1. ProviderType /\ Initial \in Procs /\ (~overlapped => WayAlong(Initial)) /\ pc[Initial] = "start"
  BY DEF ProviderInv, Procs, Starting, InitialFromFile, InitialFromRemote, InitialFails
<1>2. UNCHANGED <<overlapped, remote, file, hash, proxies, checked>>
  BY DEF Starting, InitialFromFile, InitialFromRemote, InitialFails, memory, Ends
<1>3. ~overlapped => Agree'
  BY <1>1, <1>2 DEF WayAlong, Agree
<1>4. PICK l \in {"hash", "write", "idle"}, b \in Values :
        /\ pc' = [pc EXCEPT ![Initial] = l] /\ buf' = [buf EXCEPT ![Initial] = b]
        /\ l = "hash" => b = file
  <2>1. None \in Values /\ file \in Values /\ remote \in Values
    BY <1>1 DEF ProviderType, Values
  <2>2. QED
    BY <2>1 DEF Starting, InitialFromFile, InitialFromRemote, InitialFails, Begins, Ends
<1>5. ProviderType'
  BY <1>1, <1>2, <1>4 DEF ProviderType, Places
<1>6. pc'[Initial] = l /\ buf'[Initial] = b /\ \A q \in Procs \ {Initial} : pc'[q] = pc[q]
  BY <1>1, <1>4 DEF ProviderType
<1>7. ~overlapped => WayAlong(Initial)'
  BY <1>2, <1>3, <1>4, <1>6 DEF WayAlong, Agree
<1>8. QED
  BY <1>1, <1>2, <1>3, <1>5, <1>6, <1>7, ProviderMoves

LEMMA ProviderStep == ASSUME ProviderInv, Next PROVE ProviderInv'
<1>1. CASE RemoteChanges \/ \E p \in Procs : ReadFails(p)
  <2>1. UNCHANGED <<file, hash, proxies, checked, pc, buf, overlapped>> /\ remote' \in Values
    BY <1>1 DEF RemoteChanges, ReadFails, memory, local, ProviderInv, ProviderType, Values
  <2>2. ProviderType' /\ OneAtATime'
    BY <2>1 DEF ProviderInv, ProviderType, OneAtATime
  <2>3. QED
    BY <2>1, <2>2 DEF ProviderInv, Alone, Agree, WayAlong
<1>2. CASE Crash
  <2>1. \A p \in Procs : pc'[p] = "idle" \/ (pc'[p] = "start" /\ p = Initial)
    BY <1>2 DEF Crash
  <2>2. Agree' /\ proxies' = None
    BY <1>2 DEF Crash, Agree
  <2>3. ProviderType'
    BY <1>2 DEF Crash, ProviderInv, ProviderType, Values, Places
  <2>4. QED
    BY <2>1, <2>2, <2>3 DEF ProviderInv, OneAtATime, WayAlong
<1>3. QED
  BY <1>1, <1>2, ProviderStarting, ProviderUpdating DEF Next

\* Between updates that do not overlap the hash, the proxies in use and those
\* that are tested are of one content, and the file is that content or a part of
\* one, wherever a read, a write or the program was cut short: for any contents
\* and any number of changes, failures, stops and requests.
THEOREM ProviderConsistent == RunSpec => []ProviderIsConsistent
<1>1. RunInit => ProviderInv
  BY ProviderInitially DEF RunInit
<1>2. ASSUME ProviderInv, [RunNext]_<<active, vars, cidrVars>> PROVE ProviderInv'
  <2>1. CASE UNCHANGED vars
    BY <1>2, <2>1 DEF vars, memory, local, ProviderInv, ProviderType, OneAtATime, Alone, Agree, WayAlong
  <2>2. CASE Next
    BY <1>2, <2>2, ProviderStep
  <2>3. QED
    BY <1>2, <2>1, <2>2 DEF RunNext
<1>3. ProviderInv => ProviderIsConsistent
  BY DEF ProviderInv, ProviderIsConsistent, InUseIsHashed, FileIsInUse, Agree
<1>4. QED
  BY <1>1, <1>2, <1>3, PTL DEF RunSpec

\* Only what was read as a whole or came out of a file gets past the parser.
ParsedOnly ==
  /\ ProviderType /\ crashes \in Nat
  /\ \A p \in Procs :
       pc[p] \in {"write", "writing", "hash", "proxies", "check", "version"} => buf[p] \in Contents \cup {Torn}

LEMMA ParsedStep == ASSUME ParsedOnly, ProviderType', Next PROVE ParsedOnly'
<1>1. CASE RemoteChanges \/ \E p \in Procs : ReadFails(p)
  BY <1>1 DEF ParsedOnly, RemoteChanges, ReadFails, local
<1>2. CASE Crash
  <2>1. crashes' \in Nat /\ \A p \in Procs : pc'[p] \in {"idle", "start"}
    BY <1>2 DEF ParsedOnly, Crash
  <2>2. QED
    BY <2>1 DEF ParsedOnly
<1>3. CASE Starting
  <2>1. Initial \in Procs /\ crashes' = crashes
    BY <1>3 DEF Procs, Starting, InitialFromFile, InitialFromRemote, InitialFails, counters
  <2>2. PICK l \in Places, b \in Values :
          /\ pc' = [pc EXCEPT ![Initial] = l] /\ buf' = [buf EXCEPT ![Initial] = b]
          /\ l = "idle" \/ b \in Contents \cup {Torn}
    BY <1>3 DEF Starting, InitialFromFile, InitialFromRemote, InitialFails, Begins, Ends, Values, Places
  <2>3. QED
    BY <2>1, <2>2 DEF ParsedOnly, ProviderType
<1>4. ASSUME NEW p \in Procs, Updating(p) \/ WriteFails(p) PROVE ParsedOnly'
  <2>1. crashes' = crashes
    BY <1>4 DEF Updating, WriteFails, Read, Compare, WriteBegins, WriteEnds, SetHash, SetProxies, SetProxy,
       BumpVersion, counters
  <2>2. PICK l \in Places, b \in Values :
          /\ pc' = [pc EXCEPT ![p] = l] /\ buf' = [buf EXCEPT ![p] = b]
          /\ l \in {"idle", "compare"} \/ b \in Contents \cup {Torn}
    <3>1. CASE Read(p)
      BY <3>1 DEF Read, Begins, Values, Places, ParsedOnly, ProviderType
    <3>2. CASE Compare(p)
      <4>1. pc \in [Procs -> Places] /\ buf = [buf EXCEPT ![p] = buf[p]] /\ buf[p] \in Values
        BY DEF ParsedOnly, ProviderType
      <4>2. QED
        BY <4>1, <3>2 DEF Compare, Goto, Ends, Values, Places
    <3>3. CASE WriteFails(p) \/ BumpVersion(p)
      BY <3>3 DEF WriteFails, BumpVersion, Ends, Values, Places
    <3>4. CASE WriteBegins(p) \/ WriteEnds(p) \/ SetHash(p) \/ SetProxies(p) \/ SetProxy(p)
      <4>1. /\ buf = [buf EXCEPT ![p] = buf[p]] /\ buf[p] \in Values /\ buf' = buf
            /\ pc[p] \in {"write", "writing", "hash", "proxies", "check"}
        BY <3>4 DEF ParsedOnly, ProviderType, WriteBegins, WriteEnds, SetHash, SetProxies, SetProxy, Goto
      <4>2. buf[p] \in Contents \cup {Torn}
        BY <4>1 DEF ParsedOnly
      <4>3. \E l \in Places : pc' = [pc EXCEPT ![p] = l]
        BY <3>4 DEF WriteBegins, WriteEnds, SetHash, SetProxies, SetProxy, Goto, Places
      <4>4. QED
        BY <4>1, <4>2, <4>3
    <3>5. QED
      BY <1>4, <3>1, <3>2, <3>3, <3>4 DEF Updating
  <2>3. QED
    BY <2>1, <2>2 DEF ParsedOnly, ProviderType
<1>5. QED
  BY <1>1, <1>2, <1>3, <1>4 DEF Next

\* Nothing but a content that parses, as a part of one in the file may, replaces
\* the proxies in use, except a stop of the program: no failure of a read, a
\* parse or a write empties a provider.
THEOREM LastGood == RunSpec => LastGoodKept
<1>1. RunInit => ProviderInv /\ ParsedOnly
  <2>1. Init => crashes \in Nat /\ \A p \in Procs : pc[p] \in {"idle", "start"}
    BY DEF Init
  <2>2. QED
    BY <2>1, ProviderInitially DEF RunInit, ProviderInv, ParsedOnly
<1>2. ASSUME ProviderInv, ParsedOnly, [RunNext]_<<active, vars, cidrVars>> PROVE (ProviderInv /\ ParsedOnly)'
  <2>1. CASE UNCHANGED vars
    BY <1>2, <2>1 DEF vars, memory, local, counters, ProviderInv, ProviderType, OneAtATime, Alone, Agree, WayAlong,
       ParsedOnly
  <2>2. CASE Next
    BY <1>2, <2>2, ProviderStep, ParsedStep DEF ProviderInv
  <2>3. QED
    BY <1>2, <2>1, <2>2 DEF RunNext
<1>3. ASSUME ParsedOnly, [RunNext]_<<active, vars, cidrVars>>
      PROVE  [proxies' # proxies => proxies' \in Contents \cup {Torn} \/ crashes' # crashes]_vars
  <2>1. SUFFICES ASSUME Next, proxies' # proxies
                 PROVE  proxies' \in Contents \cup {Torn} \/ crashes' # crashes
    BY <1>3 DEF RunNext, vars
  <2>2. CASE Crash
    BY <1>3, <2>2 DEF Crash, ParsedOnly
  <2>3. CASE \E p \in Procs : SetProxies(p)
    BY <1>3, <2>3 DEF SetProxies, ParsedOnly
  <2>4. Crash \/ \E p \in Procs : SetProxies(p)
    BY <2>1 DEF Next, Starting, Updating, RemoteChanges, InitialFromFile, InitialFromRemote, InitialFails,
       Read, Compare, WriteBegins, WriteEnds, WriteFails, ReadFails, SetHash, SetProxy, BumpVersion, memory
  <2>5. QED
    BY <2>2, <2>3, <2>4
<1>4. QED
  BY <1>1, <1>2, <1>3, PTL DEF RunSpec, LastGoodKept
=============================================================================
