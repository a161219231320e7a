----------------------------- MODULE PartsProofs ----------------------------
(***************************************************************************)
(* Properties of the components of MCParts that carry the traffic, for all *)
(* values of their parameters: TCP connections, UDP sessions, and the      *)
(* relays that Hysteria and TUIC keep.  The state s is that of the         *)
(* component that active names; each section gives the inductive invariant *)
(* of one of them.                                                         *)
(***************************************************************************)
EXTENDS MCParts, FiniteSetTheorems, SequenceTheorems, TLAPS

-----------------------------------------------------------------------------
(* A TCP connection                                                        *)
(*                                                                         *)
(* Only the last of the connections that were dialled can serve the        *)
(* client: those before it refused their payload.  Nothing is taken from   *)
(* the client's buffer before the last one has it, so that a dial that is  *)
(* tried again begins with the first byte; and the mutex tells who may     *)
(* read the client.                                                        *)

TcpRemote == [open : BOOLEAN, got : Seq(Nat), refused : BOOLEAN]

TcpType ==
  s \in [early : BOOLEAN, reject : BOOLEAN, sniffed : BOOLEAN,
         pc : {"start", "resolve", "dial", "lock", "write", "track", "relay0", "relay", "done"},
         peek : {"none", "reading", "ended"}, mutex : {"free", "peek", "dial", "relay"},
         sent : Nat, buffered : Nat, taken : Nat, ended : BOOLEAN, peeked : Nat,
         remotes : Seq(TcpRemote), tries : Nat, joined : BOOLEAN,
         up : Nat, down : Nat, answered : Nat]

TcpBuffer == s.taken <= s.buffered /\ s.buffered <= s.sent

TcpMutex ==
  /\ s.mutex = "peek" <=> s.peek = "reading"
  /\ s.mutex = "dial" <=> s.pc = "write"
  /\ s.mutex = "relay" <=> s.pc = "relay"

Last == s.remotes[Len(s.remotes)]

Beginning(r) == r.got = [j \in 1 .. Len(r.got) |-> j]

\* What each connection has is a beginning of what the client sent, and only
\* the last one may not have refused it.
TcpRemotes ==
  /\ \A i \in DOMAIN s.remotes :
       Beginning(s.remotes[i]) /\ (i # Len(s.remotes) => s.remotes[i].refused)
  /\ s.pc \in {"start", "resolve", "dial"} => \A i \in DOMAIN s.remotes : s.remotes[i].refused
  /\ s.pc = "done" => \A i \in DOMAIN s.remotes : s.remotes[i].open => s.remotes[i].refused
  /\ s.pc \in {"lock", "write", "track", "relay0", "relay"} =>
       s.remotes # << >> /\ ~Last.refused /\ Len(Last.got) = s.taken

\* Before the relay nothing is counted; what the handshake took is what was
\* peeked for it.
TcpCounts ==
  /\ s.pc \in {"start", "resolve", "dial", "lock", "write"} => s.taken = 0
  /\ s.pc \in {"start", "resolve", "dial", "lock", "write", "track"} =>
       s.up = 0 /\ s.down = 0 /\ s.answered = 0
  /\ s.joined => s.pc \in {"relay0", "relay"}
  /\ s.pc \in {"lock", "write"} => s.early
  /\ s.pc = "write" => s.peeked = s.buffered
  /\ s.pc = "track" => s.taken = IF s.early THEN s.peeked ELSE 0
  /\ s.pc \in {"relay0", "relay"} => s.up + s.down = s.taken + s.answered

TcpInv == TcpType /\ TcpBuffer /\ TcpMutex /\ TcpRemotes /\ TcpCounts

LEMMA TcpInitially ==
  ASSUME TC!Init  PROVE TcpInv
BY DEF TC!Init, TcpInv, TcpType, TcpBuffer, TcpMutex, TcpRemotes, TcpCounts, Beginning

\* A step that leaves the dialled connections alone, or closes one of them.
LEMMA TcpQuietStep ==
  ASSUME TcpInv,
         \/ TC!ClientSends \/ TC!ClientCloses \/ TC!Refuse \/ TC!Prepare \/ TC!PeekEnds \/ TC!NoProxy
         \/ TC!Resolved \/ TC!DialFails \/ TC!LockPeek \/ TC!WriteRejected \/ TC!Track \/ TC!LockRelay
         \/ TC!RelayDown
  PROVE  TcpInv'
<1> USE DEF TcpInv, TC!At, TC!Remote
<1>1. CASE TC!ClientSends
  <2>1. TcpType'
    <3>1. s.sent + 1 \in Nat /\ s' = [s EXCEPT !.sent = s.sent + 1]
      BY <1>1 DEF TC!ClientSends, TcpType
    <3>2. QED
      BY <3>1 DEF TcpType
  <2>2. TcpBuffer' /\ TcpMutex'
    BY <1>1 DEF TC!ClientSends, TcpType, TcpBuffer, TcpMutex
  <2>3. TcpRemotes'
    BY <1>1 DEF TC!ClientSends, TcpType, TcpRemotes, TcpCounts, Last
  <2>4. TcpCounts'
    BY <1>1 DEF TC!ClientSends, TcpType, TcpMutex, TcpCounts
  <2>5. QED
    BY <2>1, <2>2, <2>3, <2>4
<1>2. CASE TC!ClientCloses
  <2>1. TcpType'
    BY <1>2 DEF TC!ClientCloses, TcpType
  <2>2. TcpBuffer' /\ TcpMutex'
    BY <1>2 DEF TC!ClientCloses, TcpType, TcpBuffer, TcpMutex
  <2>3. TcpRemotes'
    BY <1>2 DEF TC!ClientCloses, TcpType, TcpRemotes, TcpCounts, Last
  <2>4. TcpCounts'
    BY <1>2 DEF TC!ClientCloses, TcpType, TcpMutex, TcpCounts
  <2>5. QED
    BY <2>1, <2>2, <2>3, <2>4
<1>3. CASE TC!Refuse
  <2>1. TcpType'
    BY <1>3 DEF TC!Refuse, TcpType
  <2>2. TcpBuffer' /\ TcpMutex'
    BY <1>3 DEF TC!Refuse, TcpType, TcpBuffer, TcpMutex
  <2>3. TcpRemotes'
    BY <1>3 DEF TC!Refuse, TcpType, TcpRemotes, TcpCounts, Last
  <2>4. TcpCounts'
    BY <1>3 DEF TC!Refuse, TcpType, TcpMutex, TcpCounts
  <2>5. QED
    BY <2>1, <2>2, <2>3, <2>4
<1>4. CASE TC!Prepare
  <2>1. TcpType'
    BY <1>4 DEF TC!Prepare, TcpType
  <2>2. TcpBuffer' /\ TcpMutex'
    BY <1>4 DEF TC!Prepare, TcpType, TcpBuffer, TcpMutex
  <2>3. TcpRemotes'
    BY <1>4 DEF TC!Prepare, TcpType, TcpRemotes, TcpCounts, Last
  <2>4. TcpCounts'
    BY <1>4 DEF TC!Prepare, TcpType, TcpMutex, TcpCounts
  <2>5. QED
    BY <2>1, <2>2, <2>3, <2>4
<1>5. CASE TC!PeekEnds
  <2>1. TcpType'
    BY <1>5 DEF TC!PeekEnds, TcpType
  <2>2. TcpBuffer' /\ TcpMutex'
    BY <1>5 DEF TC!PeekEnds, TcpType, TcpBuffer, TcpMutex
  <2>3. TcpRemotes'
    BY <1>5 DEF TC!PeekEnds, TcpType, TcpRemotes, TcpCounts, Last
  <2>4. TcpCounts'
    BY <1>5 DEF TC!PeekEnds, TcpType, TcpMutex, TcpCounts
  <2>5. QED
    BY <2>1, <2>2, <2>3, <2>4
<1>6. CASE TC!NoProxy
  <2>1. TcpType'
    BY <1>6 DEF TC!NoProxy, TcpType
  <2>2. TcpBuffer' /\ TcpMutex'
    BY <1>6 DEF TC!NoProxy, TcpType, TcpBuffer, TcpMutex
  <2>3. TcpRemotes'
    BY <1>6 DEF TC!NoProxy, TcpType, TcpRemotes, TcpCounts, Last
  <2>4. TcpCounts'
    BY <1>6 DEF TC!NoProxy, TcpType, TcpMutex, TcpCounts
  <2>5. QED
    BY <2>1, <2>2, <2>3, <2>4
<1>7. CASE TC!Resolved
  <2>1. TcpType'
    BY <1>7 DEF TC!Resolved, TcpType
  <2>2. TcpBuffer' /\ TcpMutex'
    BY <1>7 DEF TC!Resolved, TcpType, TcpBuffer, TcpMutex
  <2>3. TcpRemotes'
    BY <1>7 DEF TC!Resolved, TcpType, TcpRemotes, TcpCounts, Last
  <2>4. TcpCounts'
    BY <1>7 DEF TC!Resolved, TcpType, TcpMutex, TcpCounts
  <2>5. QED
    BY <2>1, <2>2, <2>3, <2>4
<1>8. CASE TC!DialFails
  <2>0. s.pc = "dial" /\ s.tries + 1 \in Nat
        /\ \E pc \in {"dial", "done"} : s' = [s EXCEPT !.tries = s.tries + 1, !.pc = pc]
    <3>1. s.pc = "dial" /\ s.tries + 1 \in Nat
      BY <1>8 DEF TC!DialFails, TcpType
    <3>2. \/ s' = [s EXCEPT !.tries = s.tries + 1, !.pc = IF s.tries + 1 < TcpTries THEN "dial" ELSE "done"]
          \/ s' = [s EXCEPT !.tries = s.tries + 1, !.pc = "done"]
      BY <1>8 DEF TC!DialFails, TC!Again
    <3>3. QED
      BY <3>1, <3>2
  <2>6. PICK tries \in Nat, pc \in {"dial", "done"} : s' = [s EXCEPT !.tries = tries, !.pc = pc]
    BY <2>0, Zenon
  <2>1. TcpType'
    BY <2>6 DEF TcpType
  <2>2. TcpBuffer' /\ TcpMutex'
    BY <1>8 DEF TC!DialFails, TC!Again, TcpType, TcpBuffer, TcpMutex
  <2>3. TcpRemotes'
    BY <2>0, <2>6 DEF TcpType, TcpRemotes, TcpCounts, Last
  <2>4. TcpCounts'
    BY <1>8 DEF TC!DialFails, TC!Again, TcpType, TcpMutex, TcpCounts
  <2>5. QED
    BY <2>1, <2>2, <2>3, <2>4
<1>9. CASE TC!LockPeek
  <2>1. TcpType'
    <3>1. s.buffered - s.taken \in Nat
      BY DEF TcpType, TcpBuffer
    <3>2. s' = [s EXCEPT !.mutex = "dial", !.pc = "write", !.peeked = s.buffered - s.taken]
      BY <1>9 DEF TC!LockPeek
    <3>3. QED
      BY <3>1, <3>2 DEF TcpType
  <2>2. TcpBuffer' /\ TcpMutex'
    BY <1>9 DEF TC!LockPeek, TcpType, TcpBuffer, TcpMutex
  <2>3. TcpRemotes'
    BY <1>9 DEF TC!LockPeek, TcpType, TcpRemotes, TcpCounts, Last
  <2>4. TcpCounts'
    BY <1>9 DEF TC!LockPeek, TcpType, TcpMutex, TcpCounts
  <2>5. QED
    BY <2>1, <2>2, <2>3, <2>4
<1>10. CASE TC!WriteRejected
  <2>1. TcpType'
    BY <1>10 DEF TC!WriteRejected, TcpType
  <2>2. TcpBuffer' /\ TcpMutex'
    BY <1>10 DEF TC!WriteRejected, TcpType, TcpBuffer, TcpMutex
  <2>3. TcpRemotes'
    BY <1>10 DEF TC!WriteRejected, TcpType, TcpRemotes, TcpCounts, Last
  <2>4. TcpCounts'
    BY <1>10 DEF TC!WriteRejected, TcpType, TcpMutex, TcpCounts
  <2>5. QED
    BY <2>1, <2>2, <2>3, <2>4
<1>11. CASE TC!Track
  <2>1. TcpType'
    BY <1>11 DEF TC!Track, TcpType
  <2>2. TcpBuffer' /\ TcpMutex'
    BY <1>11 DEF TC!Track, TcpType, TcpBuffer, TcpMutex
  <2>3. TcpRemotes'
    BY <1>11 DEF TC!Track, TcpType, TcpRemotes, TcpCounts, Last
  <2>4. TcpCounts'
    BY <1>11 DEF TC!Track, TcpType, TcpMutex, TcpCounts
  <2>5. QED
    BY <2>1, <2>2, <2>3, <2>4
<1>12. CASE TC!LockRelay
  <2>1. TcpType'
    BY <1>12 DEF TC!LockRelay, TcpType
  <2>2. TcpBuffer' /\ TcpMutex'
    BY <1>12 DEF TC!LockRelay, TcpType, TcpBuffer, TcpMutex
  <2>3. TcpRemotes'
    BY <1>12 DEF TC!LockRelay, TcpType, TcpRemotes, TcpCounts, Last
  <2>4. TcpCounts'
    BY <1>12 DEF TC!LockRelay, TcpType, TcpMutex, TcpCounts
  <2>5. QED
    BY <2>1, <2>2, <2>3, <2>4
<1>13. CASE TC!RelayDown
  <2>0. s.down + 1 \in Nat /\ s.answered + 1 \in Nat /\ s.pc = "relay"
        /\ s' = [s EXCEPT !.answered = s.answered + 1, !.down = s.down + 1]
    BY <1>13 DEF TC!RelayDown, TcpType
  <2>1. TcpType'
    <3>1. PICK down \in Nat, answered \in Nat : s' = [s EXCEPT !.answered = answered, !.down = down]
      BY <2>0, Zenon
    <3>2. QED
      BY <3>1 DEF TcpType
  <2>2. TcpBuffer' /\ TcpMutex'
    BY <1>13 DEF TC!RelayDown, TcpType, TcpBuffer, TcpMutex
  <2>3. TcpRemotes'
    BY <1>13 DEF TC!RelayDown, TcpType, TcpRemotes, TcpCounts, Last
  <2>4. TcpCounts'
    <3>1. /\ s'.pc = "relay" /\ s'.joined = s.joined /\ s'.early = s.early /\ s'.up = s.up
          /\ s'.taken = s.taken /\ s'.down = s.down + 1 /\ s'.answered = s.answered + 1
      BY <2>0 DEF TcpType
    <3>2. s.up \in Nat /\ s.down \in Nat /\ s.taken \in Nat /\ s.answered \in Nat
      BY DEF TcpType
    <3>3. QED
      BY <2>0, <3>1, <3>2 DEF TcpCounts
  <2>5. QED
    BY <2>1, <2>2, <2>3, <2>4
<1>14. QED
  BY <1>1, <1>2, <1>3, <1>4, <1>5, <1>6, <1>7, <1>8, <1>9, <1>10, <1>11, <1>12, <1>13

\* The last of the dialled connections is another one.
LEMMA TcpLastChanges ==
  ASSUME TcpInv, s.remotes # << >>, NEW r \in TcpRemote
  PROVE  LET rs == [s.remotes EXCEPT ![Len(s.remotes)] = r]
         IN  /\ rs \in Seq(TcpRemote) /\ Len(rs) = Len(s.remotes) /\ DOMAIN rs = DOMAIN s.remotes
             /\ rs[Len(s.remotes)] = r /\ Len(s.remotes) \in DOMAIN s.remotes
             /\ \A i \in DOMAIN s.remotes : i # Len(s.remotes) => rs[i] = s.remotes[i]
<1>1. s.remotes \in Seq(TcpRemote)
  BY DEF TcpInv, TcpType
<1>2. QED
  BY <1>1

\* A dial, or a change of the last connection.
LEMMA TcpRemoteStep ==
  ASSUME TcpInv,
         \/ TC!Dial \/ TC!WriteFails \/ TC!Write \/ TC!RelayUp \/ TC!UserCloses \/ TC!RelayEnds
  PROVE  TcpInv'
<1> USE DEF TcpInv, TC!At, TC!Remote
<1> DEFINE n == Len(s.remotes)
<1>0. s.remotes \in Seq(TcpRemote) /\ n \in Nat /\ DOMAIN s.remotes = 1 .. n
  BY DEF TcpType
<1>1. CASE TC!Dial
  <2> DEFINE r == [open |-> TRUE, got |-> << >>, refused |-> FALSE]
             rs == Append(s.remotes, r)
             pc == IF s.early THEN "lock" ELSE "track"
  <2>1. s.pc = "dial" /\ s' = [s EXCEPT !.remotes = rs, !.pc = pc]
    BY <1>1 DEF TC!Dial
  <2>2. rs \in Seq(TcpRemote) /\ Len(rs) = n + 1 /\ rs[n + 1] = r
        /\ (\A i \in 1 .. n : rs[i] = s.remotes[i]) /\ DOMAIN rs = 1 .. n + 1
    BY <1>0 DEF TcpRemote
  <2>3. r.got = << >> /\ ~r.refused /\ pc \in {"lock", "track"} /\ Beginning(r)
    BY DEF Beginning
  <2> HIDE DEF r, rs, pc
  <2>4. TcpType'
    BY <2>1, <2>2, <2>3 DEF TcpType
  <2>5. TcpBuffer' /\ TcpMutex' /\ TcpCounts'
    BY <2>1, <2>2, <2>3 DEF pc, TcpType, TcpBuffer, TcpMutex, TcpCounts
  <2>6. TcpRemotes'
    BY <1>0, <2>1, <2>2, <2>3 DEF TcpType, TcpRemotes, TcpCounts, Last
  <2>7. QED
    BY <2>4, <2>5, <2>6
<1>2. CASE TC!WriteFails
  <2> DEFINE r == [Last EXCEPT !.refused = TRUE]
             rs == [s.remotes EXCEPT ![n] = r]
  <2>1. s.pc = "write" /\ s.remotes # << >> /\ s.mutex = "dial" /\ n \in DOMAIN s.remotes
    BY <1>0, <1>2 DEF TC!WriteFails, TcpRemotes, TcpMutex
  <2>2. Last \in TcpRemote
    BY <1>0, <2>1 DEF Last
  <2>3. r \in TcpRemote /\ r.got = Last.got /\ r.refused /\ Beginning(r)
    BY <2>1, <2>2 DEF TcpRemote, TcpRemotes, Beginning, Last
  <2>4. \/ s' = [s EXCEPT !.mutex = "free", !.remotes = rs, !.tries = s.tries + 1, !.pc = IF s.tries + 1 < TcpTries THEN "dial" ELSE "done"]
        \/ s' = [s EXCEPT !.mutex = "free", !.remotes = rs, !.tries = s.tries + 1, !.pc = "done"]
    BY <1>2 DEF TC!WriteFails, TC!Again, Last, TcpType
  <2>5. s.tries + 1 \in Nat
    BY DEF TcpType
  <2> HIDE DEF r
  <2>6. /\ rs \in Seq(TcpRemote) /\ Len(rs) = n /\ DOMAIN rs = DOMAIN s.remotes /\ rs[n] = r
        /\ \A i \in DOMAIN s.remotes : i # n => rs[i] = s.remotes[i]
    BY <2>1, <2>3, TcpLastChanges
  <2> HIDE DEF rs
  <2>7. PICK tries \in Nat, pc \in {"dial", "done"} :
          s' = [s EXCEPT !.mutex = "free", !.remotes = rs, !.tries = tries, !.pc = pc]
    BY <2>4, <2>5, Zenon
  <2>8. TcpType'
    BY <2>6, <2>7 DEF TcpType
  <2>9. TcpBuffer' /\ TcpMutex' /\ TcpCounts'
    BY <2>1, <2>7 DEF TcpType, TcpBuffer, TcpMutex, TcpCounts
  <2>10. TcpRemotes'
    <3>1. s'.remotes = rs /\ s'.pc \in {"dial", "done"}
      BY <2>7 DEF TcpType
    <3>2. \A i \in DOMAIN rs : Beginning(rs[i]) /\ rs[i].refused
      BY <2>1, <2>3, <2>6 DEF TcpRemotes, Last
    <3>3. QED
      BY <3>1, <3>2 DEF TcpRemotes
  <2>11. QED
    BY <2>8, <2>9, <2>10
<1>3. CASE TC!Write
  <2> DEFINE w == [j \in 1 .. s.buffered |-> j]
             r == [Last EXCEPT !.got = w]
             rs == [s.remotes EXCEPT ![n] = r]
  <2>1. s.pc = "write" /\ s.remotes # << >> /\ s.mutex = "dial" /\ s.taken = 0 /\ s.buffered \in Nat
        /\ n \in DOMAIN s.remotes /\ ~Last.refused /\ s.early /\ s.peeked = s.buffered
    BY <1>0, <1>3 DEF TC!Write, TcpRemotes, TcpMutex, TcpCounts, TcpType
  <2>2. Last \in TcpRemote
    BY <1>0, <2>1 DEF Last
  <2>3. w \in Seq(Nat) /\ Len(w) = s.buffered
    BY <2>1
  <2>4. TC!Waiting = w
    BY <2>1 DEF TC!Waiting
  <2>5. s' = [s EXCEPT !.mutex = "free", !.remotes = rs, !.taken = s.buffered, !.pc = "track"]
    BY <1>3, <2>4 DEF TC!Write, Last, TcpType
  <2>6. r \in TcpRemote /\ r.got = w /\ ~r.refused /\ Beginning(r)
    BY <2>1, <2>2, <2>3 DEF TcpRemote, Beginning
  <2> HIDE DEF r
  <2>7. /\ rs \in Seq(TcpRemote) /\ Len(rs) = n /\ DOMAIN rs = DOMAIN s.remotes /\ rs[n] = r
        /\ \A i \in DOMAIN s.remotes : i # n => rs[i] = s.remotes[i]
    BY <2>1, <2>6, TcpLastChanges
  <2> HIDE DEF rs, w
  <2>8. TcpType'
    BY <2>1, <2>5, <2>7 DEF TcpType
  <2>9. TcpBuffer' /\ TcpMutex' /\ TcpCounts'
    BY <2>1, <2>5 DEF TcpType, TcpBuffer, TcpMutex, TcpCounts
  <2>10. TcpRemotes'
    <3>1. s'.remotes = rs /\ s'.pc = "track" /\ s'.taken = s.buffered
      BY <2>5 DEF TcpType
    <3>2. \A i \in DOMAIN rs : Beginning(rs[i]) /\ (i # n => rs[i].refused)
      BY <2>6, <2>7 DEF TcpRemotes
    <3>3. rs # << >>
      BY <1>0, <2>1, <2>7
    <3>4. QED
      BY <2>3, <2>6, <2>7, <3>1, <3>2, <3>3 DEF TcpRemotes, Last
  <2>11. QED
    BY <2>8, <2>9, <2>10
<1>4. CASE TC!RelayUp
  <2> DEFINE r == [Last EXCEPT !.got = Append(Last.got, s.taken + 1)]
             rs == [s.remotes EXCEPT ![n] = r]
             b == IF s.buffered > s.taken THEN s.buffered ELSE s.taken + 1
  <2>1. s.pc = "relay" /\ s.remotes # << >> /\ s.taken \in Nat /\ s.buffered \in Nat /\ s.sent \in Nat
        /\ s.up + 1 \in Nat /\ s.taken < s.sent /\ n \in DOMAIN s.remotes /\ ~Last.refused /\ Len(Last.got) = s.taken
    BY <1>0, <1>4 DEF TC!RelayUp, TcpRemotes, TcpType
  <2>2. Last \in TcpRemote
    BY <1>0, <2>1 DEF Last
  <2>3. Last.got = [j \in 1 .. Len(Last.got) |-> j] /\ Last.got \in Seq(Nat)
    BY <2>1, <2>2 DEF TcpRemotes, Last, TcpRemote, Beginning
  <2>4. Append(Last.got, s.taken + 1) \in Seq(Nat) /\ Len(Append(Last.got, s.taken + 1)) = s.taken + 1
        /\ Append(Last.got, s.taken + 1) = [j \in 1 .. s.taken + 1 |-> j]
    BY <2>1, <2>3
  <2>5. s' = [s EXCEPT !.taken = s.taken + 1, !.buffered = b, !.remotes = rs, !.up = s.up + 1]
    BY <1>4 DEF TC!RelayUp, Last, TcpType
  <2>6. r \in TcpRemote /\ Len(r.got) = s.taken + 1 /\ ~r.refused /\ Beginning(r)
    BY <2>1, <2>2, <2>4 DEF TcpRemote, Beginning
  <2> HIDE DEF r
  <2>7. /\ rs \in Seq(TcpRemote) /\ Len(rs) = n /\ DOMAIN rs = DOMAIN s.remotes /\ rs[n] = r
        /\ \A i \in DOMAIN s.remotes : i # n => rs[i] = s.remotes[i]
    BY <2>1, <2>6, TcpLastChanges
  <2>8. s.taken + 1 \in Nat /\ b \in Nat /\ s.taken + 1 <= b /\ b <= s.sent
    BY <2>1 DEF TcpBuffer
  <2> HIDE DEF rs, b
  <2>9. PICK t \in Nat, u \in Nat : t = s.taken + 1 /\ u = s.up + 1
          /\ s' = [s EXCEPT !.taken = t, !.buffered = b, !.remotes = rs, !.up = u]
    BY <2>1, <2>5, <2>8, Zenon
  <2>10. TcpType'
    BY <2>7, <2>8, <2>9 DEF TcpType
  <2>11. /\ s'.remotes = rs /\ s'.pc = "relay" /\ s'.taken = t /\ s'.buffered = b /\ s'.sent = s.sent
         /\ s'.mutex = s.mutex /\ s'.peek = s.peek /\ s'.up = u /\ s'.down = s.down /\ s'.answered = s.answered
         /\ s'.joined = s.joined
    BY <2>1, <2>9 DEF TcpType
  <2>12. TcpBuffer' /\ TcpMutex'
    BY <2>1, <2>8, <2>9, <2>11 DEF TcpBuffer, TcpMutex
  <2>13. TcpCounts'
    <3>1. /\ s.up \in Nat /\ s.down \in Nat /\ s.answered \in Nat /\ s.taken \in Nat
          /\ t = s.taken + 1 /\ u = s.up + 1
      BY <2>9 DEF TcpType
    <3>2. s.up + s.down = s.taken + s.answered
      BY <2>1 DEF TcpCounts
    <3>3. u + s.down = t + s.answered
      BY <3>1, <3>2
    <3>4. s'.up + s'.down = s'.taken + s'.answered
      BY <2>11, <3>3
    <3>5. QED
      BY <2>11, <3>4 DEF TcpCounts
  <2>14. TcpRemotes'
    <3>1. \A i \in DOMAIN rs : Beginning(rs[i]) /\ (i # n => rs[i].refused)
      BY <2>6, <2>7 DEF TcpRemotes
    <3>2. rs # << >>
      BY <1>0, <2>1, <2>7
    <3>3. QED
      BY <2>6, <2>7, <2>9, <2>11, <3>1, <3>2 DEF TcpRemotes, Last
  <2>15. QED
    BY <2>10, <2>12, <2>13, <2>14
<1>5. CASE TC!UserCloses \/ TC!RelayEnds
  <2> DEFINE r == [Last EXCEPT !.open = FALSE]
             rs == [s.remotes EXCEPT ![n] = r]
  <2>1. s.pc \in {"relay0", "relay"} /\ s.remotes # << >> /\ n \in DOMAIN s.remotes /\ ~Last.refused /\ Len(Last.got) = s.taken
    BY <1>0, <1>5 DEF TC!UserCloses, TC!RelayEnds, TcpRemotes, TcpCounts, TcpType
  <2>2. Last \in TcpRemote
    BY <1>0, <2>1 DEF Last
  <2>3. \/ s' = [s EXCEPT !.joined = FALSE, !.remotes = rs]
        \/ s.pc = "relay" /\ s' = [s EXCEPT !.mutex = "free", !.pc = "done", !.joined = FALSE, !.remotes = rs]
    BY <1>5 DEF TC!UserCloses, TC!RelayEnds, Last, TcpType
  <2>4. r \in TcpRemote /\ r.got = Last.got /\ ~r.refused /\ ~r.open /\ Beginning(r)
    BY <2>1, <2>2 DEF TcpRemote, TcpRemotes, Beginning, Last
  <2> HIDE DEF r
  <2>5. /\ rs \in Seq(TcpRemote) /\ Len(rs) = n /\ DOMAIN rs = DOMAIN s.remotes /\ rs[n] = r
        /\ \A i \in DOMAIN s.remotes : i # n => rs[i] = s.remotes[i]
    BY <2>1, <2>4, TcpLastChanges
  <2> HIDE DEF rs
  <2>6. TcpType'
    <3>1. CASE s' = [s EXCEPT !.joined = FALSE, !.remotes = rs]
      BY <2>5, <3>1 DEF TcpType
    <3>2. CASE s' = [s EXCEPT !.mutex = "free", !.pc = "done", !.joined = FALSE, !.remotes = rs]
      BY <2>5, <3>2 DEF TcpType
    <3>3. QED
      BY <2>3, <3>1, <3>2
  <2>7. TcpBuffer' /\ TcpMutex' /\ TcpCounts'
    BY <2>1, <2>3, Zenon DEF TcpType, TcpBuffer, TcpMutex, TcpCounts
  <2>8. TcpRemotes'
    <3>1. s'.remotes = rs /\ s'.pc \in {s.pc, "done"} /\ s'.taken = s.taken
      BY <2>3 DEF TcpType
    <3>2. \A i \in DOMAIN rs : Beginning(rs[i]) /\ (i # n => rs[i].refused)
      BY <2>1, <2>4, <2>5 DEF TcpRemotes, Last
    <3>3. rs # << >>
      BY <1>0, <2>1, <2>5
    <3>4. QED
      BY <2>1, <2>4, <2>5, <3>1, <3>2, <3>3 DEF TcpRemotes, Last
  <2>9. QED
    BY <2>6, <2>7, <2>8
<1>6. QED
  BY <1>1, <1>2, <1>3, <1>4, <1>5

LEMMA TcpStep ==
  ASSUME TcpInv, TC!Next  PROVE TcpInv'
BY TcpQuietStep, TcpRemoteStep DEF TC!Next

\* A proxy gets the bytes of the client in order, each once, and the counters
\* of a relay tell what it moved, for any number of bytes and tries.
THEOREM TcpKept == RunSpec => []TcpStreamKept
<1>1. RunInit => (active = "tcp" => TcpInv)
  BY TcpInitially DEF RunInit
<1>2. (active = "tcp" => TcpInv) /\ [RunNext]_<<active, s>> => (active = "tcp" => TcpInv)'
  <2>1. ASSUME active = "tcp", TcpInv, UNCHANGED <<active, s>> PROVE TcpInv'
    BY <2>1 DEF TcpInv, TcpType, TcpBuffer, TcpMutex, TcpRemotes, TcpCounts, Last
  <2>2. QED
    BY <2>1, TcpStep DEF RunNext
<1>3. (active = "tcp" => TcpInv) => TcpStreamKept
  <2>1. ASSUME TcpInv PROVE TC!StreamIntact
    BY <2>1 DEF TcpInv, TcpType, TcpRemotes, Last, Beginning, TC!StreamIntact
  <2>2. ASSUME TcpInv PROVE TC!OnlyRefusedAreLeft /\ TC!OneReader
    BY <2>2 DEF TcpInv, TcpRemotes, TcpMutex, TC!OnlyRefusedAreLeft, TC!OneReader, TC!At
  <2>3. ASSUME TcpInv PROVE TC!EveryByteCounted
    BY <2>3 DEF TcpInv, TcpRemotes, TcpCounts, Last, TC!EveryByteCounted, TC!Remote
  <2>4. QED
    BY <2>1, <2>2, <2>3 DEF TcpStreamKept
<1>4. QED
  BY <1>1, <1>2, <1>3, PTL DEF RunSpec

-----------------------------------------------------------------------------
(* UDP sessions: their own module has the proofs                           *)

\* Sessions are read and taken out again, replies come from where the client
\* wrote to, and local sockets do not outlive their session, in this system too.
THEOREM UdpKept == RunSpec => []UdpSessionsKept
<1>1. RunInit => (active = "udp" => UN!Init)
  BY DEF RunInit
<1>2. active = "udp" /\ [RunNext]_<<active, s>> => (active = "udp")' /\ [UN!Next]_s
  BY DEF RunNext
<1>3. ~(active = "udp") /\ [RunNext]_<<active, s>> => ~(active = "udp")'
  BY DEF RunNext
<1>4. RunSpec /\ active = "udp" => UN!Spec
  <2>1. RunSpec /\ active = "udp" => [](active = "udp")
    BY <1>2, PTL DEF RunSpec
  <2>2. RunSpec /\ [](active = "udp") => UN!Init /\ [][UN!Next]_s
    BY <1>1, <1>2, PTL DEF RunSpec
  <2>3. QED
    BY <2>1, <2>2, PTL DEF UN!Spec
<1>5. RunSpec /\ ~(active = "udp") => []~(active = "udp")
  BY <1>3, PTL DEF RunSpec
<1>6. UN!Spec => []UN!UdpSessionsKept
  BY UN!UdpKept
<1>7. []~(active = "udp") => []UdpSessionsKept
  BY PTL DEF UdpSessionsKept
<1>8. []UN!UdpSessionsKept => []UdpSessionsKept
  BY PTL DEF UdpSessionsKept
<1>9. QED
  BY <1>4, <1>5, <1>6, <1>7, <1>8, PTL

-----------------------------------------------------------------------------
(* The UDP sessions of Hysteria                                            *)
(*                                                                         *)
(* A connection numbers its sessions, so that no two of them have the same *)
(* number.  What is in a map has the number under which it is there, and   *)
(* comes from the connection of the map, unless something strayed into it. *)

HyDials ==
  [pc : {"new", "connect", "reconnect", "open", "again", "request", "register", "up", "session", "closed", "released", "failed"},
   kind : HY!Kinds, conn : Nat, stream : {"none", "open", "closed"}, answer : {"none", "ok", "no"},
   id : Nat, map : Nat, channel : BOOLEAN, strange : BOOLEAN, got : BOOLEAN]
HyConns == [ok : BOOLEAN, next : Nat, map : [HY!Ids -> SUBSET RelayDials]]
HyStates ==
  [conns : Seq(HyConns), mutex : SUBSET RelayDials, strayed : SUBSET Nat, late : BOOLEAN, dial : [RelayDials -> HyDials]]

HyPlaced(t, x) == t.dial[x].pc \in {"session", "closed", "released"}
HyNumbered(t, x) == t.dial[x].pc = "register" \/ HyPlaced(t, x)
HySessionsOf(t, c) == {x \in RelayDials : HyNumbered(t, x) /\ t.dial[x].conn = c}

\* The stream of dial x, and what there is of its answer
HyStream(t, x) ==
  /\ t.dial[x].pc \in {"new", "connect", "reconnect", "open", "again"} => t.dial[x].stream = "none"
  /\ t.dial[x].pc \in {"new", "connect", "reconnect", "open", "again", "request"} => t.dial[x].answer = "none" /\ ~t.dial[x].got
  /\ t.dial[x].pc = "failed" \/ t.dial[x].answer = "no" => t.dial[x].stream # "open"
  /\ t.dial[x].got => t.dial[x].answer = "ok"

\* Where dial x is
HyPlace(t, x) ==
  /\ t.dial[x].pc \in {"reconnect", "open", "again"} => Len(t.conns) # 0
  /\ t.dial[x].pc \in {"request", "up"} \/ HyNumbered(t, x) => t.dial[x].conn \in DOMAIN t.conns
  /\ HyNumbered(t, x) => t.dial[x].id \in HY!Ids /\ t.dial[x].id < t.conns[t.dial[x].conn].next
  /\ HyPlaced(t, x) => t.dial[x].map \in DOMAIN t.conns /\ (t.dial[x].map \notin t.strayed => t.dial[x].conn = t.dial[x].map)

HyNumbers(t) ==
  /\ \A x, y \in RelayDials :
       HyNumbered(t, x) /\ HyNumbered(t, y) /\ t.dial[x].conn = t.dial[y].conn /\ t.dial[x].id = t.dial[y].id => x = y
  /\ \A c \in DOMAIN t.conns : t.conns[c].next <= Cardinality(HySessionsOf(t, c))

HyMaps(t) ==
  \A c \in DOMAIN t.conns, i \in HY!Ids : \A x \in t.conns[c].map[i] :
    HyPlaced(t, x) /\ t.dial[x].map = c /\ t.dial[x].id = i

HyReached(t, x) ==
  t.dial[x].pc = "session" /\ t.dial[x].map \notin t.strayed =>
    t.conns[t.dial[x].map].map[t.dial[x].id] = {x} /\ t.dial[x].channel

HyOwn(t, x) == t.dial[x].strange => t.late \/ t.strayed # {}

HyInv(t) ==
  /\ t \in HyStates
  /\ \A x \in RelayDials : HyStream(t, x) /\ HyPlace(t, x) /\ HyReached(t, x) /\ HyOwn(t, x)
  /\ HyNumbers(t) /\ HyMaps(t)

LEMMA HyCardinality == \A S : HY!Cardinality(S) = Cardinality(S)
BY Zenon DEF HY!Cardinality, Cardinality

LEMMA HyInitially == ASSUME HY!SessionsInit PROVE HyInv(s)
<1>1. PICK kind \in [RelayDials -> HY!Kinds] :
        s = [conns |-> << >>, mutex |-> {}, strayed |-> {}, late |-> FALSE,
             dial |-> [x \in RelayDials |->
                      [pc |-> "new", kind |-> kind[x], conn |-> 0, stream |-> "none", answer |-> "none",
                       id |-> 0, map |-> 0, channel |-> FALSE, strange |-> FALSE, got |-> FALSE]]]
  BY DEF HY!SessionsInit
<1>2. s \in HyStates
  BY <1>1 DEF HyStates, HyDials
<1>3. \A x \in RelayDials : HyStream(s, x) /\ HyPlace(s, x) /\ HyReached(s, x) /\ HyOwn(s, x)
  BY <1>1 DEF HyStream, HyPlace, HyReached, HyOwn, HyNumbered, HyPlaced
<1>4. HyNumbers(s) /\ HyMaps(s)
  BY <1>1 DEF HyNumbers, HyMaps, HyNumbered, HyPlaced
<1>5. QED
  BY <1>2, <1>3, <1>4 DEF HyInv

\* x may go on to v, without a number before or after.
HyMay(t, x, v) ==
  /\ ~HyNumbered(t, x) /\ v.pc \notin {"register", "session", "closed", "released"}
  /\ v.pc \in {"reconnect", "open", "again"} => Len(t.conns) # 0
  /\ v.pc \in {"request", "up"} => v.conn \in DOMAIN t.conns
  /\ v.strange = t.dial[x].strange
  /\ v.pc \in {"new", "connect", "reconnect", "open", "again"} => v.stream = "none"
  /\ v.pc \in {"new", "connect", "reconnect", "open", "again", "request"} => v.answer = "none" /\ ~v.got
  /\ v.pc = "failed" \/ v.answer = "no" => v.stream # "open"
  /\ v.got => v.answer = "ok"

LEMMA HyGoes ==
  ASSUME NEW t, HyInv(t), NEW x \in RelayDials, NEW v \in HyDials, HyMay(t, x, v),
         NEW m \in SUBSET RelayDials,
         NEW u, u = [t EXCEPT !.mutex = m, !.dial[x] = v]
  PROVE  HyInv(u)
<1> USE DEF HyMay
<1>1. t \in HyStates /\ t.dial[x] \in HyDials
  BY DEF HyInv, HyStates
<1>0. t.conns \in Seq(HyConns)
  BY <1>1 DEF HyStates
<1>2. u.dial = [t.dial EXCEPT ![x] = v] /\ u.conns = t.conns /\ u.strayed = t.strayed /\ u.late = t.late
  BY <1>1 DEF HyStates
<1>3. u \in HyStates
  BY <1>1 DEF HyStates
<1>4. u.dial[x] = v /\ \A y \in RelayDials : y # x => u.dial[y] = t.dial[y]
  BY <1>1, <1>2 DEF HyStates
<1>5. ~HyNumbered(u, x) /\ ~HyPlaced(u, x) /\ ~HyPlaced(t, x)
  BY <1>4 DEF HyNumbered, HyPlaced
<1>6. \A y \in RelayDials : y # x => (HyNumbered(u, y) <=> HyNumbered(t, y)) /\ (HyPlaced(u, y) <=> HyPlaced(t, y))
  BY <1>4 DEF HyNumbered, HyPlaced
<1>7. HyStream(u, x) /\ HyPlace(u, x) /\ HyReached(u, x) /\ HyOwn(u, x)
  BY <1>1, <1>2, <1>4, <1>5 DEF HyStream, HyPlace, HyReached, HyOwn, HyInv
<1>8. ASSUME NEW y \in RelayDials, y # x PROVE HyStream(u, y) /\ HyPlace(u, y) /\ HyReached(u, y) /\ HyOwn(u, y)
  BY <1>2, <1>4, <1>6, <1>8 DEF HyStream, HyPlace, HyReached, HyOwn, HyInv
<1>9. HyNumbers(u)
  <2>1. \A c \in DOMAIN u.conns : HySessionsOf(u, c) = HySessionsOf(t, c)
    BY <1>4, <1>5, <1>6 DEF HySessionsOf
  <2>2. QED
    BY <2>1, <1>2, <1>4, <1>5, <1>6 DEF HyNumbers, HyInv
<1>10. HyMaps(u)
  <2>1. ASSUME NEW c \in DOMAIN u.conns, NEW i \in HY!Ids, NEW y \in u.conns[c].map[i]
        PROVE HyPlaced(u, y) /\ u.dial[y].map = c /\ u.dial[y].id = i
    <3>0. u.conns[c] \in HyConns
      BY <1>0, <1>2
    <3>1. y \in RelayDials
      BY <3>0 DEF HyConns
    <3>2. HyPlaced(t, y) /\ t.dial[y].map = c /\ t.dial[y].id = i
      BY <1>2 DEF HyInv, HyMaps
    <3>3. QED
      BY <3>1, <3>2, <1>4, <1>5, <1>6
  <2>2. QED
    BY <2>1 DEF HyMaps
<1>11. QED
  BY <1>3, <1>7, <1>8, <1>9, <1>10 DEF HyInv
-----------------------------------------------------------------------------

LEMMA HyEnters == ASSUME HyInv(s), NEW x \in RelayDials, HY!Enter(x) PROVE HyInv(s')
<1>1. s \in HyStates /\ s.dial[x] \in HyDials /\ s.dial[x].pc = "new"
  BY DEF HyInv, HyStates, HY!Enter, HY!At, HY!H
<1>2. PICK pc \in {"connect", "open"} : pc = IF Len(s.conns) = 0 THEN "connect" ELSE "open"
  OBVIOUS
<1>3. s' = [s EXCEPT !.mutex = {x}, !.dial[x] = [s.dial[x] EXCEPT !.pc = pc]]
  BY <1>1, <1>2 DEF HY!Enter, HY!Goto, HY!Last, HyStates
<1> DEFINE v == [s.dial[x] EXCEPT !.pc = pc]
<1>4. v \in HyDials /\ v.pc = pc /\ v.strange = s.dial[x].strange /\ v.stream = s.dial[x].stream
        /\ v.answer = s.dial[x].answer /\ v.got = s.dial[x].got
  BY <1>1 DEF HyDials
<1>5. HyStream(s, x)
  BY DEF HyInv
<1>6. {x} \in SUBSET RelayDials /\ s' = [s EXCEPT !.mutex = {x}, !.dial[x] = v]
  BY <1>3
<1> HIDE DEF v
<1>7. HyMay(s, x, v)
  BY <1>1, <1>2, <1>4, <1>5 DEF HyMay, HyStream, HyNumbered, HyPlaced
<1>8. QED
  BY <1>4, <1>6, <1>7, HyGoes, Zenon

LEMMA HyOpens == ASSUME HyInv(s), NEW x \in RelayDials, HY!OpenStream(x) PROVE HyInv(s')
<1>1. s \in HyStates /\ s.dial[x] \in HyDials /\ s.dial[x].pc \in {"open", "again"}
  BY DEF HyInv, HyStates, HY!OpenStream, HY!H
<1>2. HyStream(s, x) /\ HyPlace(s, x)
  BY DEF HyInv
<1>3. {} \in SUBSET RelayDials /\ s.mutex \in SUBSET RelayDials
  BY <1>1 DEF HyStates
<1>4. Len(s.conns) \in DOMAIN s.conns /\ Len(s.conns) \in Nat
  BY <1>1, <1>2 DEF HyStates, HyPlace
<1>5. CASE s' = HY!Unlock(HY!Goto([s EXCEPT !.dial[x].conn = Len(s.conns), !.dial[x].stream = "open"], x, "request"))
  <2> DEFINE v == [s.dial[x] EXCEPT !.conn = Len(s.conns), !.stream = "open", !.pc = "request"]
  <2>1. v \in HyDials
    BY <1>1, <1>4 DEF HyDials
  <2>2. s' = [s EXCEPT !.mutex = {}, !.dial[x] = v]
    BY <1>1, <1>5 DEF HY!Unlock, HY!Goto, HyStates, HyDials
  <2>3. v.pc = "request" /\ v.conn = Len(s.conns) /\ v.answer = s.dial[x].answer /\ v.got = s.dial[x].got /\ v.strange = s.dial[x].strange
    BY <1>1 DEF HyDials
  <2> HIDE DEF v
  <2>4. HyMay(s, x, v)
    BY <1>1, <1>2, <1>4, <2>3 DEF HyMay, HyStream, HyNumbered, HyPlaced
  <2>5. QED
    BY <1>3, <2>1, <2>2, <2>4, HyGoes, Zenon
<1>6. CASE s' = HY!Unlock(HY!Fails(s, x))
  <2> DEFINE v == [s.dial[x] EXCEPT !.pc = "failed"]
  <2>1. v \in HyDials
    BY <1>1 DEF HyDials
  <2>2. s' = [s EXCEPT !.mutex = {}, !.dial[x] = v]
    BY <1>1, <1>6 DEF HY!Unlock, HY!Goto, HY!Fails, HyStates, HyDials
  <2>3. v.pc = "failed" /\ v.stream = s.dial[x].stream /\ v.answer = s.dial[x].answer /\ v.got = s.dial[x].got /\ v.strange = s.dial[x].strange
    BY <1>1 DEF HyDials
  <2> HIDE DEF v
  <2>4. HyMay(s, x, v)
    BY <1>1, <1>2, <1>4, <2>3 DEF HyMay, HyStream, HyNumbered, HyPlaced
  <2>5. QED
    BY <1>3, <2>1, <2>2, <2>4, HyGoes, Zenon
<1>7. CASE s' = HY!Goto(s, x, "reconnect")
  <2> DEFINE v == [s.dial[x] EXCEPT !.pc = "reconnect"]
  <2>1. v \in HyDials
    BY <1>1 DEF HyDials
  <2>2. s' = [s EXCEPT !.mutex = s.mutex, !.dial[x] = v]
    BY <1>1, <1>7 DEF HY!Goto, HyStates, HyDials
  <2>3. v.pc = "reconnect" /\ v.stream = s.dial[x].stream /\ v.answer = s.dial[x].answer /\ v.got = s.dial[x].got /\ v.strange = s.dial[x].strange
    BY <1>1 DEF HyDials
  <2> HIDE DEF v
  <2>4. HyMay(s, x, v)
    BY <1>1, <1>2, <1>4, <2>3 DEF HyMay, HyStream, HyNumbered, HyPlaced
  <2>5. QED
    BY <1>3, <2>1, <2>2, <2>4, HyGoes, Zenon
<1>8. QED
  BY <1>5, <1>6, <1>7 DEF HY!OpenStream, HY!Last
LEMMA HyFast == ASSUME HyInv(s), NEW x \in RelayDials, HY!FastOpen(x) PROVE HyInv(s')
<1>1. s \in HyStates /\ s.dial[x] \in HyDials /\ s.dial[x].pc = "request"
  BY DEF HyInv, HyStates, HY!FastOpen, HY!At, HY!H
<1>2. HyStream(s, x) /\ HyPlace(s, x)
  BY DEF HyInv
<1>3. CASE s' = HY!Goto(s, x, "up")
  <2> DEFINE v == [s.dial[x] EXCEPT !.pc = "up"]
  <2>1. v \in HyDials /\ v.strange = s.dial[x].strange /\ v.pc = "up" /\ v.conn = s.dial[x].conn
        /\ v.stream = s.dial[x].stream /\ v.answer = s.dial[x].answer /\ v.got = s.dial[x].got
    BY <1>1 DEF HyDials
  <2>2. s.mutex \in SUBSET RelayDials
    BY <1>1 DEF HyStates
  <2>3. s' = [s EXCEPT !.mutex = s.mutex, !.dial[x] = v]
    BY <1>1, <1>3 DEF HY!Goto, HY!Fails, HY!CloseStream, HyStates, HyDials
  <2> HIDE DEF v
  <2>4. HyMay(s, x, v)
    BY <1>1, <1>2, <2>1 DEF HyMay, HyStream, HyPlace, HyNumbered, HyPlaced
  <2>5. QED
    BY <2>1, <2>2, <2>3, <2>4, HyGoes, Zenon
<1>4. CASE s' = HY!Fails(HY!CloseStream(s, x), x)
  <2> DEFINE v == [s.dial[x] EXCEPT !.stream = "closed", !.pc = "failed"]
  <2>1. v \in HyDials /\ v.strange = s.dial[x].strange /\ v.pc = "failed" /\ v.stream = "closed"
        /\ v.answer = s.dial[x].answer /\ v.got = s.dial[x].got
    BY <1>1 DEF HyDials
  <2>2. s.mutex \in SUBSET RelayDials
    BY <1>1 DEF HyStates
  <2>3. s' = [s EXCEPT !.mutex = s.mutex, !.dial[x] = v]
    BY <1>1, <1>4 DEF HY!Goto, HY!Fails, HY!CloseStream, HyStates, HyDials
  <2> HIDE DEF v
  <2>4. HyMay(s, x, v)
    BY <1>1, <1>2, <2>1 DEF HyMay, HyStream, HyPlace, HyNumbered, HyPlaced
  <2>5. QED
    BY <2>1, <2>2, <2>3, <2>4, HyGoes, Zenon
<1>5. QED
  BY <1>3, <1>4 DEF HY!FastOpen

LEMMA HyReads == ASSUME HyInv(s), NEW x \in RelayDials, HY!Read(x) PROVE HyInv(s')
<1>1. s \in HyStates /\ s.dial[x] \in HyDials /\ s.dial[x].pc = "up" /\ s.dial[x].stream = "open"
  BY DEF HyInv, HyStates, HY!Read, HY!At, HY!H
<1>2. HyStream(s, x) /\ HyPlace(s, x)
  BY DEF HyInv
<1>3. CASE s.dial[x].answer = "none" /\ s' = HY!CloseStream([s EXCEPT !.dial[x].answer = "no"], x)
  <2> DEFINE v == [s.dial[x] EXCEPT !.answer = "no", !.stream = "closed"]
  <2>1. v \in HyDials /\ v.strange = s.dial[x].strange /\ v.pc = "up" /\ v.conn = s.dial[x].conn
        /\ v.stream = "closed" /\ v.answer = "no" /\ v.got = s.dial[x].got
    BY <1>1 DEF HyDials
  <2>2. s.mutex \in SUBSET RelayDials
    BY <1>1 DEF HyStates
  <2>3. s' = [s EXCEPT !.mutex = s.mutex, !.dial[x] = v]
    BY <1>1, <1>3 DEF HY!Goto, HY!Fails, HY!CloseStream, HyStates, HyDials
  <2> HIDE DEF v
  <2>4. HyMay(s, x, v)
    BY <1>1, <1>2, <1>3, <2>1 DEF HyMay, HyStream, HyPlace, HyNumbered, HyPlaced
  <2>5. QED
    BY <2>1, <2>2, <2>3, <2>4, HyGoes, Zenon
<1>4. CASE s' = [s EXCEPT !.dial[x].answer = "ok", !.dial[x].got = TRUE]
  <2> DEFINE v == [s.dial[x] EXCEPT !.answer = "ok", !.got = TRUE]
  <2>1. v \in HyDials /\ v.strange = s.dial[x].strange /\ v.pc = "up" /\ v.conn = s.dial[x].conn
        /\ v.answer = "ok" /\ v.stream = s.dial[x].stream
    BY <1>1 DEF HyDials
  <2>2. s.mutex \in SUBSET RelayDials
    BY <1>1 DEF HyStates
  <2>3. s' = [s EXCEPT !.mutex = s.mutex, !.dial[x] = v]
    BY <1>1, <1>4 DEF HY!Goto, HY!Fails, HY!CloseStream, HyStates, HyDials
  <2> HIDE DEF v
  <2>4. HyMay(s, x, v)
    BY <1>1, <1>2, <2>1 DEF HyMay, HyStream, HyPlace, HyNumbered, HyPlaced
  <2>5. QED
    BY <2>1, <2>2, <2>3, <2>4, HyGoes, Zenon
<1>5. QED
  BY <1>3, <1>4 DEF HY!Read, HY!H

LEMMA HyCloses == ASSUME HyInv(s), NEW x \in RelayDials, HY!CloseConn(x) PROVE HyInv(s')
<1>1. s \in HyStates /\ s.dial[x] \in HyDials /\ s.dial[x].pc = "up"
  BY DEF HyInv, HyStates, HY!CloseConn, HY!At, HY!H
<1>2. HyStream(s, x) /\ HyPlace(s, x)
  BY DEF HyInv
<1>3. CASE s' = HY!CloseStream(s, x)
  <2> DEFINE v == [s.dial[x] EXCEPT !.stream = "closed"]
  <2>1. v \in HyDials /\ v.strange = s.dial[x].strange /\ v.pc = "up" /\ v.conn = s.dial[x].conn
        /\ v.stream = "closed" /\ v.answer = s.dial[x].answer /\ v.got = s.dial[x].got
    BY <1>1 DEF HyDials
  <2>2. s.mutex \in SUBSET RelayDials
    BY <1>1 DEF HyStates
  <2>3. s' = [s EXCEPT !.mutex = s.mutex, !.dial[x] = v]
    BY <1>1, <1>3 DEF HY!Goto, HY!Fails, HY!CloseStream, HyStates, HyDials
  <2> HIDE DEF v
  <2>4. HyMay(s, x, v)
    BY <1>1, <1>2, <2>1 DEF HyMay, HyStream, HyPlace, HyNumbered, HyPlaced
  <2>5. QED
    BY <2>1, <2>2, <2>3, <2>4, HyGoes, Zenon
<1>4. QED
  BY <1>3 DEF HY!CloseConn

\* A connection is added to those that there are.
LEMMA HyAppends ==
  ASSUME NEW t, HyInv(t), NEW u, u = [t EXCEPT !.conns = Append(t.conns, HY!NewConn)]
  PROVE  HyInv(u) /\ Len(u.conns) # 0
<1>1. t \in HyStates /\ t.conns \in Seq(HyConns)
  BY DEF HyInv, HyStates
<1>2. HY!NewConn \in HyConns /\ \A i \in HY!Ids : HY!NewConn.map[i] = {} /\ HY!NewConn.next = 0
  BY DEF HY!NewConn, HyConns
<1>3. u.conns \in Seq(HyConns) /\ Len(u.conns) = Len(t.conns) + 1 /\ u.conns[Len(t.conns) + 1] = HY!NewConn
        /\ \A c \in DOMAIN t.conns : c \in DOMAIN u.conns /\ u.conns[c] = t.conns[c]
        /\ DOMAIN u.conns = DOMAIN t.conns \cup {Len(t.conns) + 1}
  <2>1. u.conns = Append(t.conns, HY!NewConn)
    BY <1>1 DEF HyStates
  <2>2. QED
    BY <1>1, <1>2, <2>1
<1>4. u.dial = t.dial /\ u.strayed = t.strayed /\ u.late = t.late /\ u \in HyStates
  BY <1>1, <1>3 DEF HyStates
<1>5. ASSUME NEW x \in RelayDials PROVE HyStream(u, x) /\ HyPlace(u, x) /\ HyReached(u, x) /\ HyOwn(u, x)
  <2>1. HyStream(t, x) /\ HyPlace(t, x) /\ HyReached(t, x) /\ HyOwn(t, x)
    BY DEF HyInv
  <2>2. Len(u.conns) # 0
    BY <1>1, <1>3
  <2>3. QED
    BY <2>1, <2>2, <1>3, <1>4 DEF HyStream, HyPlace, HyReached, HyOwn, HyNumbered, HyPlaced
<1>6. HyNumbers(u)
  <2>1. \A c : HySessionsOf(u, c) = HySessionsOf(t, c)
    BY <1>4 DEF HySessionsOf, HyNumbered, HyPlaced
  <2>2. \A c \in DOMAIN t.conns : u.conns[c].next <= Cardinality(HySessionsOf(u, c))
    BY <2>1, <1>3 DEF HyInv, HyNumbers
  <2>3. 0 <= Cardinality(HySessionsOf(u, Len(t.conns) + 1))
    <3>1. IsFiniteSet(HySessionsOf(u, Len(t.conns) + 1))
      BY RelaysAssumption, FS_Subset DEF HySessionsOf
    <3>2. QED
      BY <3>1, FS_CardinalityType
  <2>4. \A x, y \in RelayDials :
          HyNumbered(u, x) /\ HyNumbered(u, y) /\ u.dial[x].conn = u.dial[y].conn /\ u.dial[x].id = u.dial[y].id => x = y
    BY <1>4 DEF HyInv, HyNumbers, HyNumbered, HyPlaced
  <2>5. u.conns[Len(t.conns) + 1].next = 0
    BY <1>3 DEF HY!NewConn
  <2>6. ASSUME NEW c \in DOMAIN u.conns PROVE u.conns[c].next <= Cardinality(HySessionsOf(u, c))
    <3>1. CASE c \in DOMAIN t.conns
      BY <2>2, <3>1
    <3>2. CASE c = Len(t.conns) + 1
      BY <2>3, <2>5, <3>2
    <3>3. QED
      BY <2>6, <3>1, <3>2, <1>3
  <2>7. QED
    BY <2>4, <2>6, Zenon DEF HyNumbers
<1>7. HyMaps(u)
  <2>1. ASSUME NEW c \in DOMAIN u.conns, NEW i \in HY!Ids, NEW y \in u.conns[c].map[i]
        PROVE HyPlaced(u, y) /\ u.dial[y].map = c /\ u.dial[y].id = i
    <3>1. c \in DOMAIN t.conns
      BY <1>2, <1>3
    <3>2. HyPlaced(t, y) /\ t.dial[y].map = c /\ t.dial[y].id = i
      BY <3>1, <1>3 DEF HyInv, HyMaps
    <3>3. QED
      BY <3>2, <1>4 DEF HyPlaced
  <2>2. QED
    BY <2>1 DEF HyMaps
<1>8. Len(u.conns) # 0
  BY <1>1, <1>3
<1>9. QED
  BY <1>4, <1>5, <1>6, <1>7, <1>8 DEF HyInv

LEMMA HyConnects == ASSUME HyInv(s), NEW x \in RelayDials, HY!Connect(x) PROVE HyInv(s')
<1>1. s \in HyStates /\ s.dial[x] \in HyDials /\ s.dial[x].pc \in {"connect", "reconnect"}
  BY DEF HyInv, HyStates, HY!Connect, HY!H
<1>2. HyStream(s, x) /\ HyPlace(s, x)
  BY DEF HyInv
<1>3. {} \in SUBSET RelayDials /\ s.mutex \in SUBSET RelayDials
  BY <1>1 DEF HyStates
<1>4. CASE s' = HY!Unlock(HY!Fails(s, x))
  <2> DEFINE v == [s.dial[x] EXCEPT !.pc = "failed"]
  <2>1. v \in HyDials /\ v.strange = s.dial[x].strange /\ v.pc = "failed" /\ v.stream = s.dial[x].stream
        /\ v.answer = s.dial[x].answer /\ v.got = s.dial[x].got
    BY <1>1 DEF HyDials
  <2>2. {} \in SUBSET RelayDials
    BY <1>1 DEF HyStates
  <2>3. s' = [s EXCEPT !.mutex = {}, !.dial[x] = v]
    BY <1>1, <1>4 DEF HY!Goto, HY!Fails, HY!Unlock, HyStates, HyDials
  <2> HIDE DEF v
  <2>4. HyMay(s, x, v)
    BY <1>1, <1>2, <2>1 DEF HyMay, HyStream, HyPlace, HyNumbered, HyPlaced
  <2>5. QED
    BY <2>1, <2>2, <2>3, <2>4, HyGoes, Zenon
<1>5. CASE s' = HY!Goto([s EXCEPT !.conns = Append(s.conns, HY!NewConn)], x, IF HY!At(x, "connect") THEN "open" ELSE "again")
  <2> DEFINE u == [s EXCEPT !.conns = Append(s.conns, HY!NewConn)]
  <2>1. PICK pc \in {"open", "again"} : pc = IF HY!At(x, "connect") THEN "open" ELSE "again"
    OBVIOUS
  <2>2. u.dial = s.dial /\ u.mutex = s.mutex /\ u \in [DOMAIN u -> {u[f] : f \in DOMAIN u}]
    BY <1>1 DEF HyStates
  <2>3. s' = HY!Goto(u, x, pc)
    BY <1>5, <2>1
  <2>4. HyInv(u) /\ Len(u.conns) # 0
    BY HyAppends, Zenon
  <2> HIDE DEF u
  <2> DEFINE v == [u.dial[x] EXCEPT !.pc = pc]
  <2>5. u \in HyStates /\ u.dial[x] = s.dial[x]
    BY <2>2, <2>4 DEF HyInv
  <2>6. v \in HyDials /\ v.strange = s.dial[x].strange /\ v.pc = pc /\ v.stream = s.dial[x].stream /\ v.answer = s.dial[x].answer
          /\ v.got = s.dial[x].got
    BY <1>1, <2>1, <2>5 DEF HyDials
  <2>7. s' = [u EXCEPT !.mutex = s.mutex, !.dial[x] = v]
    BY <2>2, <2>3, <2>5 DEF HY!Goto, HyStates, HyDials
  <2> HIDE DEF v
  <2>8. HyMay(u, x, v)
    BY <1>1, <1>2, <2>1, <2>4, <2>5, <2>6 DEF HyMay, HyStream, HyPlace, HyNumbered, HyPlaced
  <2>9. QED
    BY <1>3, <2>4, <2>6, <2>7, <2>8, HyGoes, Zenon
<1>6. QED
  BY <1>4, <1>5 DEF HY!Connect, HY!Last

HyGiven(t, x) ==
  HY!Goto([t EXCEPT !.dial[x].id = t.conns[t.dial[x].conn].next, !.conns[t.dial[x].conn].next = @ + 1], x, "register")

\* The server gives x the next number of its connection.
LEMMA HyCounts ==
  ASSUME NEW t, HyInv(t), NEW x \in RelayDials, t.dial[x].pc = "request",
         NEW u, u = HyGiven(t, x)
  PROVE  HyInv(u)
<1>1. t \in HyStates /\ t.conns \in Seq(HyConns) /\ t.dial[x] \in HyDials
  BY DEF HyInv, HyStates
<1>2. HyStream(t, x) /\ HyPlace(t, x) /\ HyOwn(t, x)
  BY DEF HyInv
<1>3. PICK c \in DOMAIN t.conns : c = t.dial[x].conn
  BY <1>2 DEF HyPlace
<1>4. t.conns[c] \in HyConns
  BY <1>1
<1>5. PICK n \in Nat : n = t.conns[c].next
  BY <1>4 DEF HyConns
<1> DEFINE v == [t.dial[x] EXCEPT !.id = n, !.pc = "register"]
           w == [t.conns[c] EXCEPT !.next = n + 1]
<1>6. u = [t EXCEPT !.dial[x] = v, !.conns[c] = w]
  BY <1>1, <1>3, <1>4, <1>5 DEF HyGiven, HY!Goto, HyStates, HyDials, HyConns
<1>7. v \in HyDials /\ v.pc = "register" /\ v.id = n /\ v.conn = c /\ v.stream = t.dial[x].stream /\ v.answer = "none" /\ ~v.got
        /\ v.strange = t.dial[x].strange
  BY <1>1, <1>2, <1>3 DEF HyDials, HyStream
<1>8. w \in HyConns /\ w.next = n + 1 /\ w.map = t.conns[c].map
  BY <1>4, <1>5 DEF HyConns
<1> HIDE DEF v, w
<1>9. /\ u.conns = [t.conns EXCEPT ![c] = w] /\ u.dial = [t.dial EXCEPT ![x] = v]
      /\ u.strayed = t.strayed /\ u.late = t.late /\ u.mutex = t.mutex
  BY <1>1, <1>6 DEF HyStates
<1>10. /\ u.conns \in Seq(HyConns) /\ Len(u.conns) = Len(t.conns) /\ DOMAIN u.conns = DOMAIN t.conns
       /\ u.conns[c] = w /\ \A k \in DOMAIN t.conns : k # c => u.conns[k] = t.conns[k]
  BY <1>1, <1>3, <1>8, <1>9
<1>11. u.dial[x] = v /\ (\A y \in RelayDials : y # x => u.dial[y] = t.dial[y]) /\ u.dial \in [RelayDials -> HyDials]
  BY <1>1, <1>7, <1>9 DEF HyStates
<1>12. u \in HyStates
  BY <1>1, <1>6, <1>9, <1>10, <1>11 DEF HyStates
<1>13. HyNumbered(u, x) /\ ~HyNumbered(t, x) /\ ~HyPlaced(u, x) /\ ~HyPlaced(t, x)
       /\ \A y \in RelayDials : y # x => (HyNumbered(u, y) <=> HyNumbered(t, y)) /\ (HyPlaced(u, y) <=> HyPlaced(t, y))
  BY <1>7, <1>11 DEF HyNumbered, HyPlaced
<1>14. \A k : IsFiniteSet(HySessionsOf(t, k)) /\ Cardinality(HySessionsOf(t, k)) \in Nat
  <2>1. \A k : IsFiniteSet(HySessionsOf(t, k))
    BY RelaysAssumption, FS_Subset DEF HySessionsOf
  <2>2. QED
    BY <2>1, FS_CardinalityType
<1>15. n \in HY!Ids /\ n <= Cardinality(HySessionsOf(t, c))
  <2>1. n <= Cardinality(HySessionsOf(t, c))
    BY <1>3, <1>5 DEF HyInv, HyNumbers
  <2>2. Cardinality(HySessionsOf(t, c)) <= Cardinality(RelayDials) /\ Cardinality(RelayDials) \in Nat
    <3>1. HySessionsOf(t, c) \subseteq RelayDials
      BY DEF HySessionsOf
    <3>2. QED
      BY <3>1, RelaysAssumption, FS_Subset, FS_CardinalityType
  <2>3. Cardinality(HySessionsOf(t, c)) \in Nat
    BY <1>14, Zenon
  <2>4. n <= Cardinality(RelayDials)
    BY <1>5, <2>1, <2>2, <2>3
  <2>5. QED
    BY <1>5, <2>1, <2>2, <2>4, HyCardinality DEF HY!Ids
<1>16. HyStream(u, x) /\ HyPlace(u, x) /\ HyReached(u, x) /\ HyOwn(u, x)
  <2>1. HyStream(u, x) /\ HyReached(u, x)
    BY <1>2, <1>7, <1>11 DEF HyStream, HyReached
  <2>2. HyOwn(u, x)
    BY <1>2, <1>7, <1>9, <1>11 DEF HyOwn
  <2>3. u.conns[c].next = n + 1 /\ n < n + 1
    BY <1>5, <1>8, <1>10
  <2>4. HyPlace(u, x)
    BY <2>3, <1>3, <1>7, <1>10, <1>11, <1>13, <1>15 DEF HyPlace
  <2>5. QED
    BY <2>1, <2>2, <2>4
<1>17. ASSUME NEW y \in RelayDials, y # x PROVE HyStream(u, y) /\ HyPlace(u, y) /\ HyReached(u, y) /\ HyOwn(u, y)
  <2>1. HyStream(t, y) /\ HyPlace(t, y) /\ HyReached(t, y) /\ HyOwn(t, y) /\ u.dial[y] = t.dial[y] /\ t.dial[y] \in HyDials
    BY <1>1, <1>11, <1>17 DEF HyInv, HyStates
  <2>2. \A k \in DOMAIN t.conns : u.conns[k].map = t.conns[k].map
    BY <1>3, <1>8, <1>10
  <2>3. HyStream(u, y) /\ HyOwn(u, y)
    BY <2>1, <1>9 DEF HyStream, HyOwn
  <2>4. HyPlace(u, y)
    <3>1. HyNumbered(t, y) => t.dial[y].id < u.conns[t.dial[y].conn].next
      <4>1. ASSUME HyNumbered(t, y) PROVE t.dial[y].id < t.conns[t.dial[y].conn].next /\ t.dial[y].conn \in DOMAIN t.conns
        BY <2>1, <4>1 DEF HyPlace
      <4>2. t.dial[y].id \in Nat
        BY <2>1 DEF HyDials
      <4>3. u.conns[c].next = n + 1
        BY <1>8, <1>10
      <4>4. QED
        <5>1. CASE t.dial[y].conn = c
          BY <4>1, <4>2, <4>3, <1>5, <5>1
        <5>2. CASE t.dial[y].conn # c
          BY <4>1, <1>10, <5>2
        <5>3. QED
          BY <5>1, <5>2
    <3>2. QED
      BY <2>1, <3>1, <1>9, <1>10, <1>13, <1>17 DEF HyPlace
  <2>5. HyReached(u, y)
    BY <2>1, <2>2, <1>9 DEF HyReached, HyPlace, HyNumbered, HyPlaced
  <2>6. QED
    BY <2>3, <2>4, <2>5
<1>18. HyNumbers(u)
  <2>1. ASSUME NEW y \in RelayDials, NEW z \in RelayDials, HyNumbered(u, y), HyNumbered(u, z),
               u.dial[y].conn = u.dial[z].conn, u.dial[y].id = u.dial[z].id
        PROVE  y = z
    <3>1. ASSUME NEW k \in RelayDials, k # x, HyNumbered(t, k), t.dial[k].conn = c PROVE t.dial[k].id # n
      <4>1. HyPlace(t, k) /\ t.dial[k] \in HyDials
        BY <1>1 DEF HyInv, HyStates
      <4>2. QED
        BY <4>1, <3>1, <1>5 DEF HyPlace, HyDials
    <3>2. QED
      BY <2>1, <3>1, <1>7, <1>11, <1>13 DEF HyInv, HyNumbers
  <2>2. ASSUME NEW k \in DOMAIN u.conns PROVE u.conns[k].next <= Cardinality(HySessionsOf(u, k))
    <3>1. CASE k = c
      <4>1. HySessionsOf(u, c) = HySessionsOf(t, c) \cup {x} /\ x \notin HySessionsOf(t, c)
        BY <1>7, <1>11, <1>13 DEF HySessionsOf
      <4>2. Cardinality(HySessionsOf(u, c)) = Cardinality(HySessionsOf(t, c)) + 1
        BY <4>1, <1>14, FS_AddElement
      <4>3. QED
        BY <3>1, <4>2, <1>3, <1>5, <1>8, <1>10, <1>14, <1>15
    <3>2. CASE k # c
      <4>1. HySessionsOf(u, k) = HySessionsOf(t, k)
        BY <3>2, <1>7, <1>11, <1>13 DEF HySessionsOf
      <4>2. QED
        BY <3>2, <4>1, <1>10 DEF HyInv, HyNumbers
    <3>3. QED
      BY <3>1, <3>2
  <2>3. QED
    BY <2>1, <2>2, Zenon DEF HyNumbers
<1>19. HyMaps(u)
  <2>1. ASSUME NEW k \in DOMAIN u.conns, NEW i \in HY!Ids, NEW y \in u.conns[k].map[i]
        PROVE HyPlaced(u, y) /\ u.dial[y].map = k /\ u.dial[y].id = i
    <3>1. u.conns[k].map = t.conns[k].map /\ k \in DOMAIN t.conns /\ u.conns[k] \in HyConns
      BY <1>3, <1>8, <1>10
    <3>2. HyPlaced(t, y) /\ t.dial[y].map = k /\ t.dial[y].id = i /\ y \in RelayDials
      BY <3>1 DEF HyInv, HyMaps, HyConns
    <3>3. QED
      BY <3>2, <1>11, <1>13
  <2>2. QED
    BY <2>1 DEF HyMaps
<1>20. QED
  BY <1>12, <1>16, <1>17, <1>18, <1>19 DEF HyInv

LEMMA HyResponds == ASSUME HyInv(s), NEW x \in RelayDials, HY!Respond(x) PROVE HyInv(s')
<1>1. s \in HyStates /\ s.dial[x] \in HyDials /\ s.dial[x].pc = "request"
  BY DEF HyInv, HyStates, HY!Respond, HY!At, HY!H
<1>2. HyStream(s, x) /\ HyPlace(s, x)
  BY DEF HyInv
<1>3. CASE s' = HY!Goto([s EXCEPT !.dial[x].answer = "ok"], x, "up")
  <2> DEFINE v == [s.dial[x] EXCEPT !.answer = "ok", !.pc = "up"]
  <2>1. v \in HyDials /\ v.strange = s.dial[x].strange /\ v.pc = "up" /\ v.conn = s.dial[x].conn
        /\ v.stream = s.dial[x].stream /\ v.answer = "ok" /\ v.got = s.dial[x].got
    BY <1>1 DEF HyDials
  <2>2. s.mutex \in SUBSET RelayDials
    BY <1>1 DEF HyStates
  <2>3. s' = [s EXCEPT !.mutex = s.mutex, !.dial[x] = v]
    BY <1>1, <1>3 DEF HY!Goto, HY!Fails, HY!CloseStream, HyStates, HyDials
  <2> HIDE DEF v
  <2>4. HyMay(s, x, v)
    BY <1>1, <1>2, <2>1 DEF HyMay, HyStream, HyPlace, HyNumbered, HyPlaced
  <2>5. QED
    BY <2>1, <2>2, <2>3, <2>4, HyGoes, Zenon
<1>4. CASE s' = HY!Fails(HY!CloseStream([s EXCEPT !.dial[x].answer = "no"], x), x)
  <2> DEFINE v == [s.dial[x] EXCEPT !.answer = "no", !.stream = "closed", !.pc = "failed"]
  <2>1. v \in HyDials /\ v.strange = s.dial[x].strange /\ v.pc = "failed" /\ v.stream = "closed" /\ v.answer = "no" /\ v.got = s.dial[x].got
    BY <1>1 DEF HyDials
  <2>2. s.mutex \in SUBSET RelayDials
    BY <1>1 DEF HyStates
  <2>3. s' = [s EXCEPT !.mutex = s.mutex, !.dial[x] = v]
    BY <1>1, <1>4 DEF HY!Goto, HY!Fails, HY!CloseStream, HyStates, HyDials
  <2> HIDE DEF v
  <2>4. HyMay(s, x, v)
    BY <1>1, <1>2, <2>1 DEF HyMay, HyStream, HyPlace, HyNumbered, HyPlaced
  <2>5. QED
    BY <2>1, <2>2, <2>3, <2>4, HyGoes, Zenon
<1>5. CASE s' = HyGiven(s, x)
  BY <1>1, <1>5, HyCounts, Zenon
<1>6. QED
  BY <1>3, <1>4, <1>5 DEF HY!Respond, HY!H, HY!Conn, HyGiven

LEMMA HyBreaks == ASSUME HyInv(s), HY!Breaks PROVE HyInv(s')
<1>1. s \in HyStates /\ s.conns \in Seq(HyConns)
  BY DEF HyInv, HyStates
<1> DEFINE c == Len(s.conns)
           w == [s.conns[c] EXCEPT !.ok = FALSE]
<1>2. c \in DOMAIN s.conns /\ s' = [s EXCEPT !.conns[c] = w] /\ s.conns[c] \in HyConns
  <2>1. c \in DOMAIN s.conns /\ s.conns[c] \in HyConns
    BY <1>1 DEF HY!Breaks, HY!Last
  <2>2. QED
    BY <1>1, <2>1 DEF HY!Breaks, HY!Last, HyStates, HyConns
<1>3. w \in HyConns /\ w.next = s.conns[c].next /\ w.map = s.conns[c].map
  BY <1>2 DEF HyConns
<1> HIDE DEF c, w
<1>4. s'.conns = [s.conns EXCEPT ![c] = w] /\ s'.dial = s.dial /\ s'.strayed = s.strayed /\ s'.late = s.late
  BY <1>1, <1>2 DEF HyStates
<1>5. /\ s'.conns \in Seq(HyConns) /\ Len(s'.conns) = Len(s.conns) /\ DOMAIN s'.conns = DOMAIN s.conns
      /\ \A k \in DOMAIN s.conns : s'.conns[k].next = s.conns[k].next /\ s'.conns[k].map = s.conns[k].map
  BY <1>1, <1>2, <1>3, <1>4
<1>6. s' \in HyStates
  BY <1>1, <1>2, <1>4, <1>5 DEF HyStates
<1>7. \A x : (HyNumbered(s', x) <=> HyNumbered(s, x)) /\ (HyPlaced(s', x) <=> HyPlaced(s, x))
  BY <1>4 DEF HyNumbered, HyPlaced
<1>8. ASSUME NEW x \in RelayDials PROVE HyStream(s', x) /\ HyPlace(s', x) /\ HyReached(s', x) /\ HyOwn(s', x)
  <2>1. HyStream(s, x) /\ HyPlace(s, x) /\ HyReached(s, x) /\ HyOwn(s, x)
    BY DEF HyInv
  <2>2. QED
    BY <2>1, <1>4, <1>5, <1>7 DEF HyStream, HyPlace, HyReached, HyOwn, HyNumbered, HyPlaced
<1>9. HyNumbers(s')
  <2>1. \A k : HySessionsOf(s', k) = HySessionsOf(s, k)
    BY <1>4, <1>7 DEF HySessionsOf
  <2>2. QED
    BY <2>1, <1>4, <1>5, <1>7 DEF HyNumbers, HyInv
<1>10. HyMaps(s')
  BY <1>4, <1>5, <1>7 DEF HyMaps, HyInv
<1>11. QED
  BY <1>6, <1>8, <1>9, <1>10 DEF HyInv

\* The session of x is put in the map of the last connection.
LEMMA HyRegisters == ASSUME HyInv(s), NEW x \in RelayDials, HY!Register(x) PROVE HyInv(s')
<1>1. s \in HyStates /\ s.conns \in Seq(HyConns) /\ s.dial[x] \in HyDials /\ s.dial[x].pc = "register"
  BY DEF HyInv, HyStates, HY!Register, HY!At, HY!H
<1>2. HyStream(s, x) /\ HyPlace(s, x) /\ HyOwn(s, x)
  BY DEF HyInv
<1>3. PICK l \in DOMAIN s.conns : l = Len(s.conns)
  BY <1>1, <1>2 DEF HyPlace, HyNumbered
<1>4. PICK i \in HY!Ids : i = s.dial[x].id
  BY <1>1, <1>2 DEF HyPlace, HyNumbered
<1>5. PICK r \in SUBSET Nat : r = IF s.dial[x].conn = l THEN s.strayed ELSE s.strayed \cup {l}
  <2>1. l \in Nat
    BY <1>1, <1>3
  <2>2. (IF s.dial[x].conn = l THEN s.strayed ELSE s.strayed \cup {l}) \in SUBSET Nat
    BY <1>1, <2>1 DEF HyStates
  <2>3. QED
    BY <2>2
<1> DEFINE v == [s.dial[x] EXCEPT !.map = l, !.channel = TRUE, !.pc = "session"]
           m == [s.conns[l].map EXCEPT ![i] = {x}]
           w == [s.conns[l] EXCEPT !.map = m]
<1>6. s.conns[l] \in HyConns /\ l \in Nat
  BY <1>1, <1>3
<1>7. s' = [s EXCEPT !.dial[x] = v, !.conns[l] = w, !.strayed = r]
  <2>1. s' = HY!Goto([s EXCEPT !.conns[l].map[i] = {x}, !.strayed = r, !.dial[x].map = l, !.dial[x].channel = TRUE], x, "session")
    BY <1>3, <1>4, <1>5 DEF HY!Register, HY!H, HY!Last
  <2>2. [s EXCEPT !.conns[l].map[i] = {x}] = [s EXCEPT !.conns[l] = w]
    BY <1>1, <1>6 DEF HyStates, HyConns
  <2>3. [[s EXCEPT !.conns[l] = w] EXCEPT !.dial[x].map = l, !.dial[x].channel = TRUE, !.dial[x].pc = "session"]
          = [[s EXCEPT !.conns[l] = w] EXCEPT !.dial[x] = v]
    BY <1>1 DEF HyStates, HyDials
  <2>4. QED
    BY <2>1, <2>2, <2>3, <1>1 DEF HY!Goto, HyStates
<1>8. v \in HyDials /\ v.pc = "session" /\ v.map = l /\ v.channel = TRUE /\ v.id = i /\ v.conn = s.dial[x].conn
        /\ v.stream = s.dial[x].stream /\ v.answer = s.dial[x].answer /\ v.got = s.dial[x].got /\ v.strange = s.dial[x].strange
  BY <1>1, <1>4, <1>6 DEF HyDials
<1>9. w \in HyConns /\ w.next = s.conns[l].next /\ w.map = m /\ m[i] = {x} /\ \A j \in HY!Ids : j # i => m[j] = s.conns[l].map[j]
  BY <1>4, <1>6 DEF HyConns
<1> HIDE DEF v, m, w
<1>10. /\ s'.conns = [s.conns EXCEPT ![l] = w] /\ s'.dial = [s.dial EXCEPT ![x] = v]
       /\ s'.strayed = r /\ s'.late = s.late /\ s'.mutex = s.mutex
  BY <1>1, <1>7 DEF HyStates
<1>11. /\ s'.conns \in Seq(HyConns) /\ Len(s'.conns) = Len(s.conns) /\ DOMAIN s'.conns = DOMAIN s.conns
       /\ s'.conns[l] = w /\ \A k \in DOMAIN s.conns : k # l => s'.conns[k] = s.conns[k]
  BY <1>1, <1>3, <1>9, <1>10
<1>12. s'.dial[x] = v /\ (\A y \in RelayDials : y # x => s'.dial[y] = s.dial[y]) /\ s'.dial \in [RelayDials -> HyDials]
  BY <1>1, <1>8, <1>10 DEF HyStates
<1>13. s' \in HyStates
  BY <1>1, <1>5, <1>7, <1>10, <1>11, <1>12 DEF HyStates
<1>14. HyNumbered(s', x) /\ HyNumbered(s, x) /\ HyPlaced(s', x) /\ ~HyPlaced(s, x)
       /\ \A y \in RelayDials : y # x => (HyNumbered(s', y) <=> HyNumbered(s, y)) /\ (HyPlaced(s', y) <=> HyPlaced(s, y))
  BY <1>1, <1>8, <1>12 DEF HyNumbered, HyPlaced
<1>15. \A k \in DOMAIN s.conns : s'.conns[k].next = s.conns[k].next
  BY <1>3, <1>9, <1>11
<1>16. r # s.strayed => l \in r
  BY <1>5
<1>17. s.strayed \subseteq r /\ (l \notin r => s.dial[x].conn = l)
  BY <1>5
<1>18. HyStream(s', x) /\ HyPlace(s', x) /\ HyReached(s', x) /\ HyOwn(s', x)
  <2>1. HyStream(s', x) /\ HyOwn(s', x)
    BY <1>2, <1>8, <1>10, <1>12, <1>1, <1>17 DEF HyStream, HyOwn
  <2>2. HyPlace(s', x)
    <3>1. s.dial[x].conn \in DOMAIN s.conns /\ i < s.conns[s.dial[x].conn].next
      BY <1>2, <1>4, <1>14 DEF HyPlace
    <3>2. i < s'.conns[s.dial[x].conn].next
      BY <3>1, <1>15
    <3>3. s'.strayed = r /\ s'.dial[x].id = i /\ s'.dial[x].map = l /\ s'.dial[x].conn = s.dial[x].conn /\ s'.dial[x].pc = "session"
      BY <1>8, <1>10, <1>12
    <3>4. QED
      BY <3>1, <3>2, <3>3, <1>3, <1>4, <1>11, <1>17 DEF HyPlace
  <2>3. HyReached(s', x)
    BY <1>8, <1>9, <1>11, <1>12 DEF HyReached
  <2>4. QED
    BY <2>1, <2>2, <2>3
<1>19. ASSUME NEW y \in RelayDials, y # x PROVE HyStream(s', y) /\ HyPlace(s', y) /\ HyReached(s', y) /\ HyOwn(s', y)
  <2>1. HyStream(s, y) /\ HyPlace(s, y) /\ HyReached(s, y) /\ HyOwn(s, y) /\ s'.dial[y] = s.dial[y]
    BY <1>12, <1>19 DEF HyInv
  <2>2. HyStream(s', y) /\ HyOwn(s', y)
    BY <2>1, <1>10, <1>17 DEF HyStream, HyOwn
  <2>3. HyPlace(s', y)
    BY <2>1, <1>10, <1>11, <1>14, <1>15, <1>17, <1>19 DEF HyPlace
  <2>4. ASSUME s'.dial[y].pc = "session", s'.dial[y].map \notin r
        PROVE  s'.conns[s'.dial[y].map].map[s'.dial[y].id] = {y} /\ s'.dial[y].channel
    <3>1. s.conns[s.dial[y].map].map[s.dial[y].id] = {y} /\ s.dial[y].channel /\ s.dial[y].map \in DOMAIN s.conns /\ s.dial[y].id \in HY!Ids
            /\ HyNumbered(s, y) /\ s.dial[y].conn = s.dial[y].map
      BY <2>1, <2>4, <1>17 DEF HyReached, HyPlace, HyNumbered, HyPlaced
    <3>2. CASE s.dial[y].map # l
      BY <2>1, <3>1, <3>2, <1>11
    <3>3. CASE s.dial[y].map = l
      <4>1. s.dial[x].conn = s.dial[y].conn
        BY <2>1, <2>4, <3>1, <3>3, <1>17
      <4>2. s.dial[y].id # i
        BY <3>1, <4>1, <1>4, <1>14, <1>19 DEF HyInv, HyNumbers
      <4>3. QED
        BY <2>1, <3>1, <3>3, <4>2, <1>9, <1>11
    <3>4. QED
      BY <3>2, <3>3
  <2>5. HyReached(s', y)
    BY <2>4, <1>10 DEF HyReached
  <2>6. QED
    BY <2>2, <2>3, <2>5
<1>20. HyNumbers(s')
  <2>1. \A y \in RelayDials : (HyNumbered(s', y) <=> HyNumbered(s, y)) /\ s'.dial[y].conn = s.dial[y].conn /\ s'.dial[y].id = s.dial[y].id
    BY <1>4, <1>8, <1>12, <1>14
  <2>2. \A k : HySessionsOf(s', k) = HySessionsOf(s, k)
    BY <2>1 DEF HySessionsOf
  <2>3. QED
    BY <2>1, <2>2, <1>11, <1>15 DEF HyNumbers, HyInv
<1>21. HyMaps(s')
  <2>1. ASSUME NEW k \in DOMAIN s'.conns, NEW j \in HY!Ids, NEW y \in s'.conns[k].map[j]
        PROVE HyPlaced(s', y) /\ s'.dial[y].map = k /\ s'.dial[y].id = j
    <3>1. CASE k = l /\ j = i
      BY <3>1, <1>8, <1>9, <1>11, <1>12, <1>14
    <3>2. CASE k # l \/ j # i
      <4>1. y \in s.conns[k].map[j] /\ k \in DOMAIN s.conns
        BY <3>2, <1>9, <1>11
      <4>2. s.conns[k] \in HyConns
        BY <4>1, <1>1
      <4>3. HyPlaced(s, y) /\ s.dial[y].map = k /\ s.dial[y].id = j /\ y \in RelayDials
        BY <4>1, <4>2 DEF HyInv, HyMaps, HyConns
      <4>4. QED
        BY <4>3, <1>12, <1>14
    <3>3. QED
      BY <3>1, <3>2
  <2>2. QED
    BY <2>1 DEF HyMaps
<1>22. QED
  BY <1>13, <1>18, <1>19, <1>20, <1>21 DEF HyInv

\* CloseFunc takes out what is under the number of x in its map.
LEMMA HyReleases == ASSUME HyInv(s), NEW x \in RelayDials, HY!Close(x) PROVE HyInv(s')
<1>1. s \in HyStates /\ s.conns \in Seq(HyConns) /\ s.dial[x] \in HyDials /\ s.dial[x].pc \in {"session", "closed"}
  BY DEF HyInv, HyStates, HY!Close, HY!H
<1>2. HyStream(s, x) /\ HyPlace(s, x) /\ HyOwn(s, x)
  BY DEF HyInv
<1>3. PICK l \in DOMAIN s.conns : l = s.dial[x].map
  BY <1>1, <1>2 DEF HyPlace, HyNumbered, HyPlaced
<1>4. PICK i \in HY!Ids : i = s.dial[x].id
  BY <1>1, <1>2 DEF HyPlace, HyNumbered, HyPlaced
<1>5. PICK p \in {"closed", "released"} : p = IF s.dial[x].pc = "session" THEN "closed" ELSE "released"
  OBVIOUS
<1> DEFINE there == s.conns[l].map[i]
           m == [s.conns[l].map EXCEPT ![i] = {}]
           w == [s.conns[l] EXCEPT !.map = m]
           d == [y \in RelayDials |-> IF y \in there THEN [s.dial[y] EXCEPT !.channel = FALSE] ELSE s.dial[y]]
           v == [d[x] EXCEPT !.stream = "closed", !.pc = p]
           e == [d EXCEPT ![x] = v]
<1>6. s.conns[l] \in HyConns
  BY <1>1, <1>3
<1>7. d \in [RelayDials -> HyDials]
  <2>1. \A y \in RelayDials : s.dial[y] \in HyDials
    BY <1>1 DEF HyStates
  <2>2. \A y \in RelayDials : [s.dial[y] EXCEPT !.channel = FALSE] \in HyDials
    BY <2>1 DEF HyDials
  <2>3. QED
    BY <2>1, <2>2
<1>8. s' = [s EXCEPT !.conns[l] = w, !.dial = e]
  <2>1. HY!CloseFunc(s, x) = [s EXCEPT !.conns[l].map[i] = {}, !.dial = d]
    BY <1>1, <1>3, <1>4 DEF HY!CloseFunc, HY!H, HyStates
  <2>2. [s EXCEPT !.conns[l].map[i] = {}] = [s EXCEPT !.conns[l] = w]
    BY <1>1, <1>6 DEF HyStates, HyConns
  <2>3. HY!CloseFunc(s, x) = [[s EXCEPT !.conns[l] = w] EXCEPT !.dial = d]
    BY <2>1, <2>2, <1>1 DEF HyStates
  <2> HIDE DEF w, d
  <2>4. s' = HY!Goto(HY!CloseStream([[s EXCEPT !.conns[l] = w] EXCEPT !.dial = d], x), x, p)
    BY <2>3, <1>5 DEF HY!Close, HY!At, HY!H
  <2>5. QED
    BY <2>4, <1>1, <1>7 DEF HY!Goto, HY!CloseStream, HyStates, HyDials
<1>9. e \in [RelayDials -> HyDials] /\ (\A y \in RelayDials : y # x => e[y] = d[y]) /\ e[x] = v
  <2>1. d[x] \in HyDials
    BY <1>7
  <2> HIDE DEF d
  <2>2. v \in HyDials
    BY <1>5, <2>1 DEF HyDials
  <2> HIDE DEF v
  <2>3. QED
    BY <2>2, <1>7
<1>10. /\ v.pc = p /\ v.stream = "closed"
       /\ \A y \in RelayDials :
            /\ e[y].id = s.dial[y].id /\ e[y].map = s.dial[y].map /\ e[y].conn = s.dial[y].conn
            /\ e[y].answer = s.dial[y].answer /\ e[y].got = s.dial[y].got /\ e[y].strange = s.dial[y].strange
            /\ y # x => e[y].pc = s.dial[y].pc /\ e[y].stream = s.dial[y].stream
            /\ y # x /\ y \notin there => e[y].channel = s.dial[y].channel
  <2>1. \A y \in RelayDials : s.dial[y] \in HyDials
    BY <1>1 DEF HyStates
  <2>2. \A y \in RelayDials :
            /\ d[y].id = s.dial[y].id /\ d[y].map = s.dial[y].map /\ d[y].conn = s.dial[y].conn
            /\ d[y].answer = s.dial[y].answer /\ d[y].got = s.dial[y].got /\ d[y].strange = s.dial[y].strange
            /\ d[y].pc = s.dial[y].pc /\ d[y].stream = s.dial[y].stream
            /\ y \notin there => d[y].channel = s.dial[y].channel
    BY <2>1 DEF HyDials
  <2>3. d[x] \in HyDials
    BY <1>7
  <2> HIDE DEF d, there
  <2>4. v.pc = p /\ v.stream = "closed" /\ v.id = d[x].id /\ v.map = d[x].map /\ v.conn = d[x].conn
          /\ v.answer = d[x].answer /\ v.got = d[x].got /\ v.strange = d[x].strange
    BY <2>3 DEF HyDials
  <2> HIDE DEF v, e
  <2>5. QED
    BY <2>2, <2>4, <1>9
<1>11. w \in HyConns /\ w.next = s.conns[l].next /\ w.map = m /\ m[i] = {} /\ \A j \in HY!Ids : j # i => m[j] = s.conns[l].map[j]
  BY <1>4, <1>6 DEF HyConns
<1>12. \A y \in there : HyPlaced(s, y) /\ s.dial[y].map = l /\ s.dial[y].id = i
  BY <1>3, <1>4 DEF HyInv, HyMaps
<1> HIDE DEF v, m, w, d, e, there
<1>13. /\ s'.conns = [s.conns EXCEPT ![l] = w] /\ s'.dial = e
       /\ s'.strayed = s.strayed /\ s'.late = s.late /\ s'.mutex = s.mutex
  BY <1>1, <1>8 DEF HyStates
<1>14. /\ s'.conns \in Seq(HyConns) /\ Len(s'.conns) = Len(s.conns) /\ DOMAIN s'.conns = DOMAIN s.conns
       /\ s'.conns[l] = w /\ \A k \in DOMAIN s.conns : k # l => s'.conns[k] = s.conns[k]
  BY <1>1, <1>3, <1>11, <1>13
<1>15. s' \in HyStates
  BY <1>1, <1>8, <1>9, <1>13, <1>14 DEF HyStates
<1>16. \A y \in RelayDials : (HyNumbered(s', y) <=> HyNumbered(s, y)) /\ (HyPlaced(s', y) <=> HyPlaced(s, y))
  BY <1>1, <1>5, <1>9, <1>10, <1>13 DEF HyNumbered, HyPlaced
<1>17. HyPlaced(s, x) /\ HyNumbered(s, x)
  BY <1>1 DEF HyNumbered, HyPlaced
<1>18. \A k \in DOMAIN s.conns : s'.conns[k].next = s.conns[k].next
  BY <1>11, <1>14
<1>19. HyStream(s', x) /\ HyPlace(s', x) /\ HyReached(s', x) /\ HyOwn(s', x)
  <2>1. s'.dial[x].pc = p /\ s'.dial[x].stream = "closed"
    BY <1>9, <1>10, <1>13
  <2>2. HyStream(s', x) /\ HyOwn(s', x) /\ HyReached(s', x)
    BY <2>1, <1>1, <1>2, <1>5, <1>10, <1>13 DEF HyStream, HyOwn, HyReached
  <2>3. HyPlace(s', x)
    BY <2>1, <1>2, <1>5, <1>10, <1>13, <1>14, <1>16, <1>17, <1>18 DEF HyPlace
  <2>4. QED
    BY <2>2, <2>3
<1>20. ASSUME NEW y \in RelayDials, y # x PROVE HyStream(s', y) /\ HyPlace(s', y) /\ HyReached(s', y) /\ HyOwn(s', y)
  <2>1. HyStream(s, y) /\ HyPlace(s, y) /\ HyReached(s, y) /\ HyOwn(s, y)
    BY DEF HyInv
  <2>2. s'.dial[y].id = s.dial[y].id /\ s'.dial[y].map = s.dial[y].map /\ s'.dial[y].conn = s.dial[y].conn
            /\ s'.dial[y].answer = s.dial[y].answer /\ s'.dial[y].got = s.dial[y].got /\ s'.dial[y].strange = s.dial[y].strange
            /\ s'.dial[y].pc = s.dial[y].pc /\ s'.dial[y].stream = s.dial[y].stream
            /\ (y \notin there => s'.dial[y].channel = s.dial[y].channel)
    BY <1>10, <1>13, <1>20
  <2>3. HyStream(s', y) /\ HyOwn(s', y)
    BY <2>1, <2>2, <1>13 DEF HyStream, HyOwn
  <2>4. HyPlace(s', y)
    BY <2>1, <2>2, <1>13, <1>14, <1>16, <1>18 DEF HyPlace
  <2>5. ASSUME s.dial[y].pc = "session", s.dial[y].map \notin s.strayed
        PROVE  s'.conns[s.dial[y].map].map[s.dial[y].id] = {y} /\ s'.dial[y].channel
    <3>1. s.conns[s.dial[y].map].map[s.dial[y].id] = {y} /\ s.dial[y].channel /\ s.dial[y].map \in DOMAIN s.conns /\ s.dial[y].id \in HY!Ids
            /\ HyNumbered(s, y) /\ s.dial[y].conn = s.dial[y].map
      BY <2>1, <2>5 DEF HyReached, HyPlace, HyNumbered, HyPlaced
    <3>2. ~(s.dial[y].map = l /\ s.dial[y].id = i)
      <4>1. ASSUME s.dial[y].map = l, s.dial[y].id = i PROVE FALSE
        <5>1. s.dial[x].conn = l
          BY <4>1, <2>5, <1>2, <1>3, <1>17 DEF HyPlace
        <5>2. QED
          BY <5>1, <4>1, <3>1, <1>4, <1>17, <1>20 DEF HyInv, HyNumbers
      <4>2. QED
        BY <4>1
    <3>3. y \notin there
      BY <3>2, <1>12
    <3>4. s'.conns[s.dial[y].map].map[s.dial[y].id] = s.conns[s.dial[y].map].map[s.dial[y].id]
      BY <3>1, <3>2, <1>11, <1>14
    <3>5. QED
      BY <2>2, <3>1, <3>3, <3>4
  <2>6. HyReached(s', y)
    BY <2>2, <2>5, <1>13 DEF HyReached
  <2>7. QED
    BY <2>3, <2>4, <2>6
<1>21. HyNumbers(s')
  <2>1. \A y \in RelayDials : s'.dial[y].conn = s.dial[y].conn /\ s'.dial[y].id = s.dial[y].id
    BY <1>10, <1>13
  <2>2. \A k : HySessionsOf(s', k) = HySessionsOf(s, k)
    BY <2>1, <1>16 DEF HySessionsOf
  <2>3. QED
    BY <2>1, <2>2, <1>14, <1>16, <1>18 DEF HyNumbers, HyInv
<1>22. HyMaps(s')
  <2>1. ASSUME NEW k \in DOMAIN s'.conns, NEW j \in HY!Ids, NEW y \in s'.conns[k].map[j]
        PROVE HyPlaced(s', y) /\ s'.dial[y].map = k /\ s'.dial[y].id = j
    <3>1. y \in s.conns[k].map[j] /\ k \in DOMAIN s.conns
      BY <1>11, <1>14
    <3>2. s.conns[k] \in HyConns
      BY <3>1, <1>1
    <3>3. HyPlaced(s, y) /\ s.dial[y].map = k /\ s.dial[y].id = j /\ y \in RelayDials
      BY <3>1, <3>2 DEF HyInv, HyMaps, HyConns
    <3>4. QED
      BY <3>3, <1>10, <1>13, <1>16
  <2>2. QED
    BY <2>1 DEF HyMaps
<1>23. QED
  BY <1>15, <1>19, <1>20, <1>21, <1>22 DEF HyInv

\* A message goes to whatever session has its number in the map of the day.
LEMMA HyHandles ==
  ASSUME HyInv(s), NEW c \in DOMAIN s.conns, NEW y \in RelayDials, HY!HandleMessage(c, y)
  PROVE  HyInv(s')
<1>1. s \in HyStates /\ s.conns \in Seq(HyConns) /\ HyNumbered(s, y) /\ s.dial[y].conn = c
  BY DEF HyInv, HyStates, HY!HandleMessage, HY!H, HyNumbered, HyPlaced
<1>2. HyPlace(s, y)
  BY DEF HyInv
<1>3. PICK l \in DOMAIN s.conns : l = Len(s.conns)
  BY <1>1
<1>4. PICK i \in HY!Ids : i = s.dial[y].id
  BY <1>1, <1>2 DEF HyPlace
<1>5. PICK z \in s.conns[l].map[i] : s' = [s EXCEPT !.dial[z].strange = @ \/ z # y, !.late = @ \/ c # l]
  BY <1>3, <1>4 DEF HY!HandleMessage, HY!Conn, HY!Last, HY!H
<1>6. s.conns[l] \in HyConns /\ z \in RelayDials
  <2>1. s.conns[l] \in HyConns
    BY <1>1, <1>3
  <2>2. QED
    BY <2>1, <1>4, <1>5 DEF HyConns
<1>7. HyPlaced(s, z) /\ s.dial[z].map = l /\ s.dial[z].id = i
  BY <1>3, <1>4, <1>5 DEF HyInv, HyMaps
<1>8. (s.dial[z].strange \/ z # y) \in BOOLEAN /\ (s.late \/ c # l) \in BOOLEAN
  OBVIOUS
<1>9. PICK b \in BOOLEAN : b = (s.dial[z].strange \/ z # y)
  BY <1>8, Zenon
<1>10. PICK a \in BOOLEAN : a = (s.late \/ c # l)
  BY <1>8, Zenon
<1>11. s.dial[z] \in HyDials /\ s.late \in BOOLEAN
  BY <1>1, <1>6 DEF HyStates
<1> DEFINE v == [s.dial[z] EXCEPT !.strange = b]
<1>12. s' = [s EXCEPT !.dial[z] = v, !.late = a]
  BY <1>5, <1>9, <1>10, Zenon
<1>13. v \in HyDials /\ v.strange = b /\ v.pc = s.dial[z].pc /\ v.conn = s.dial[z].conn /\ v.id = s.dial[z].id /\ v.map = s.dial[z].map
         /\ v.stream = s.dial[z].stream /\ v.answer = s.dial[z].answer /\ v.got = s.dial[z].got /\ v.channel = s.dial[z].channel
  BY <1>9, <1>11 DEF HyDials
<1> HIDE DEF v
<1>14. s'.conns = s.conns /\ s'.dial = [s.dial EXCEPT ![z] = v] /\ s'.strayed = s.strayed /\ s'.late = a
  BY <1>1, <1>12 DEF HyStates
<1>15. s'.dial[z] = v /\ (\A x \in RelayDials : x # z => s'.dial[x] = s.dial[x])
  BY <1>1, <1>6, <1>14 DEF HyStates
<1>16. s' \in HyStates
  BY <1>1, <1>10, <1>12, <1>13 DEF HyStates
<1>17. \A x \in RelayDials :
         /\ s'.dial[x].pc = s.dial[x].pc /\ s'.dial[x].conn = s.dial[x].conn /\ s'.dial[x].id = s.dial[x].id
         /\ s'.dial[x].map = s.dial[x].map /\ s'.dial[x].stream = s.dial[x].stream /\ s'.dial[x].answer = s.dial[x].answer
         /\ s'.dial[x].got = s.dial[x].got /\ s'.dial[x].channel = s.dial[x].channel
  BY <1>13, <1>15
<1>18. \A x \in RelayDials : (HyNumbered(s', x) <=> HyNumbered(s, x)) /\ (HyPlaced(s', x) <=> HyPlaced(s, x))
  BY <1>17 DEF HyNumbered, HyPlaced
<1>19. ASSUME z # y PROVE a \/ s.strayed # {}
  <2>1. CASE c # l
    BY <2>1, <1>10
  <2>2. CASE c = l /\ s.strayed = {}
    <3>1. s.dial[z].conn = l /\ HyNumbered(s, z)
      BY <2>2, <1>6, <1>7 DEF HyInv, HyPlace, HyNumbered
    <3>2. QED
      BY <3>1, <2>2, <1>1, <1>4, <1>6, <1>7, <1>19 DEF HyInv, HyNumbers
  <2>3. QED
    BY <2>1, <2>2
<1>20. ASSUME NEW x \in RelayDials PROVE HyStream(s', x) /\ HyPlace(s', x) /\ HyReached(s', x) /\ HyOwn(s', x)
  <2>1. HyStream(s, x) /\ HyPlace(s, x) /\ HyReached(s, x) /\ HyOwn(s, x)
    BY DEF HyInv
  <2>2. HyStream(s', x)
    BY <2>1, <1>17 DEF HyStream
  <2>3. HyPlace(s', x)
    BY <2>1, <1>14, <1>17, <1>18 DEF HyPlace
  <2>4. HyReached(s', x)
    BY <2>1, <1>14, <1>17 DEF HyReached
  <2>5. s.late => a
    BY <1>10
  <2>6. HyOwn(s', x)
    <3>1. CASE x = z
      BY <3>1, <2>1, <2>5, <1>9, <1>13, <1>14, <1>15, <1>19 DEF HyOwn
    <3>2. CASE x # z
      BY <3>2, <2>1, <2>5, <1>14, <1>15 DEF HyOwn
    <3>3. QED
      BY <3>1, <3>2
  <2>7. QED
    BY <2>2, <2>3, <2>4, <2>6
<1>21. HyNumbers(s')
  <2>1. \A k : HySessionsOf(s', k) = HySessionsOf(s, k)
    BY <1>17, <1>18 DEF HySessionsOf
  <2>2. QED
    BY <2>1, <1>14, <1>17, <1>18 DEF HyNumbers, HyInv
<1>22. HyMaps(s')
  <2>1. ASSUME NEW k \in DOMAIN s'.conns, NEW j \in HY!Ids, NEW x \in s'.conns[k].map[j]
        PROVE HyPlaced(s', x) /\ s'.dial[x].map = k /\ s'.dial[x].id = j
    <3>1. s.conns[k] \in HyConns /\ k \in DOMAIN s.conns /\ x \in s.conns[k].map[j]
      BY <1>1, <1>14
    <3>2. HyPlaced(s, x) /\ s.dial[x].map = k /\ s.dial[x].id = j /\ x \in RelayDials
      BY <3>1 DEF HyInv, HyMaps, HyConns
    <3>3. QED
      BY <3>2, <1>17, <1>18
  <2>2. QED
    BY <2>1 DEF HyMaps
<1>23. QED
  BY <1>16, <1>20, <1>21, <1>22 DEF HyInv

LEMMA HyStep == ASSUME HyInv(s), HY!SessionsNext PROVE HyInv(s')
BY HyEnters, HyConnects, HyOpens, HyResponds, HyFast, HyReads, HyCloses, HyRegisters, HyReleases, HyHandles, HyBreaks, Zenon
   DEF HY!SessionsNext

LEMMA HyRight == ASSUME HyInv(s) PROVE HY!SessionsAreReachable /\ HY!OwnMessages /\ HY!StreamsAreClosed
<1>1. HY!SessionsAreReachable
  BY DEF HyInv, HyReached, HY!SessionsAreReachable, HY!H, HY!At, HY!Conn
<1>2. HY!OwnMessages
  BY DEF HyInv, HyOwn, HY!OwnMessages, HY!H
<1>3. HY!StreamsAreClosed
  BY DEF HyInv, HyStream, HY!StreamsAreClosed, HY!H, HY!At
<1>4. QED
  BY <1>1, <1>2, <1>3

-----------------------------------------------------------------------------
(* The sockets of port hopping                                             *)

HopPortSets == {HY!ParsePorts(parts) : parts \in HopPorts}
HopAnyPort == (UNION HopPortSets) \cup {0}
HopSizes == [read : {0, 1}, write : {0, 1}]
HopSocketStates == [open : BOOLEAN, size : HopSizes]
HopStates ==
  [ports : HopPortSets, obfs : BOOLEAN, sockets : Seq(HopSocketStates), prev : Nat, current : Nat, closed : BOOLEAN,
   size : HopSizes, port : HopAnyPort, queue : Seq(Nat), lost : {0, 1}, sent : SUBSET (BOOLEAN \X HopAnyPort)]

\* The socket in use is open, and is not the previous one.
HopCurrent(t) ==
  t.closed \/ ( /\ t.current \in DOMAIN t.sockets /\ t.current # 1 /\ t.sockets[t.current].open
                /\ t.port \in t.ports /\ t.prev < t.current /\ t.current = Len(t.sockets))

HopOpen(t) ==
  \A n \in DOMAIN t.sockets : n # 1 /\ t.sockets[n].open =>
    ~t.closed /\ n \in {t.prev, t.current} /\ (t.obfs \/ t.sockets[n].size = t.size)

HopSent(t) == \A out \in t.sent : out[1] /\ out[2] \in t.ports

HopInv(t) == t \in HopStates /\ HopCurrent(t) /\ HopOpen(t) /\ HopSent(t)

LEMMA HopSocketsAre == \A size \in HopSizes : HY!Socket(size) \in HopSocketStates /\ HY!Socket(size).open /\ HY!Socket(size).size = size
BY DEF HY!Socket, HopSocketStates

LEMMA HopInitially == ASSUME HY!HopInit PROVE HopInv(s)
<1>1. PICK parts \in HopPorts, listens \in BOOLEAN, obfs \in BOOLEAN :
        LET ports == HY!ParsePorts(parts)
            fails == ports = {} \/ ~listens
        IN \E p \in IF fails THEN {0} ELSE ports :
             s = [ports |-> ports, obfs |-> obfs,
                  sockets |-> IF fails THEN <<HY!Socket(HY!Default)>> ELSE <<HY!Socket(HY!Default), HY!Socket(HY!Default)>>,
                  prev |-> 0, current |-> IF fails THEN 0 ELSE 2, closed |-> fails, size |-> HY!Default, port |-> p,
                  queue |-> << >>, lost |-> 0, sent |-> {}]
  BY DEF HY!HopInit
<1> DEFINE ports == HY!ParsePorts(parts)
<1>2. HY!Default \in HopSizes /\ HY!Socket(HY!Default) \in HopSocketStates /\ HY!Socket(HY!Default).size = HY!Default
        /\ HY!Socket(HY!Default).open
  BY HopSocketsAre DEF HY!Default, HopSizes
<1>3. PICK k \in HopSocketStates : k = HY!Socket(HY!Default)
  BY <1>2
<1>4. ports \in HopPortSets
  BY DEF HopPortSets
<1> HIDE DEF ports
<1>5. CASE ports = {} \/ ~listens
  <2>1. s = [ports |-> ports, obfs |-> obfs, sockets |-> <<k>>, prev |-> 0, current |-> 0, closed |-> TRUE,
             size |-> HY!Default, port |-> 0, queue |-> << >>, lost |-> 0, sent |-> {}]
    BY <1>1, <1>3, <1>5 DEF ports
  <2>2. s \in HopStates
    <3>1. 0 \in HopAnyPort
      BY DEF HopAnyPort
    <3>2. <<k>> \in Seq(HopSocketStates)
      BY <1>3
    <3>3. QED
      BY <2>1, <3>1, <3>2, <1>2, <1>4 DEF HopStates
  <2>3. QED
    BY <2>1, <2>2 DEF HopInv, HopCurrent, HopOpen, HopSent
<1>6. CASE ports # {} /\ listens
  <2>1. PICK p \in ports :
          s = [ports |-> ports, obfs |-> obfs, sockets |-> <<k, k>>, prev |-> 0, current |-> 2, closed |-> FALSE,
             size |-> HY!Default, port |-> p, queue |-> << >>, lost |-> 0, sent |-> {}]
    BY <1>1, <1>3, <1>6 DEF ports
  <2>2. s \in HopStates
    BY <2>1, <1>2, <1>4 DEF HopStates, HopAnyPort
  <2>3. QED
    BY <2>1, <2>2, <1>2, <1>3 DEF HopInv, HopCurrent, HopOpen, HopSent
<1>7. QED
  BY <1>5, <1>6

\* A socket is closed; or none, if its number is zero.
LEMMA HopCloses ==
  ASSUME NEW t \in HopStates, NEW n \in Nat, n = 0 \/ n \in DOMAIN t.sockets, NEW u, u = HY!CloseSocket(t, n)
  PROVE  /\ u \in HopStates /\ u.ports = t.ports /\ u.obfs = t.obfs /\ u.prev = t.prev /\ u.current = t.current /\ u.closed = t.closed
         /\ u.size = t.size /\ u.port = t.port /\ u.sent = t.sent /\ Len(u.sockets) = Len(t.sockets) /\ DOMAIN u.sockets = DOMAIN t.sockets
         /\ \A k \in DOMAIN t.sockets : u.sockets[k].size = t.sockets[k].size /\ (u.sockets[k].open <=> t.sockets[k].open /\ k # n)
<1>1. CASE n = 0
  <2>1. u = t /\ \A k \in DOMAIN t.sockets : k # n
    BY <1>1 DEF HY!CloseSocket, HopStates
  <2>2. QED
    BY <2>1
<1>2. CASE n # 0
  <2>1. t.sockets \in Seq(HopSocketStates)
    BY DEF HopStates
  <2>2. t.sockets[n] \in HopSocketStates
    BY <1>2, <2>1
  <2> DEFINE v == [t.sockets[n] EXCEPT !.open = FALSE]
  <2>3. v \in HopSocketStates /\ ~v.open /\ v.size = t.sockets[n].size
    BY <2>2 DEF HopSocketStates
  <2>4. u = [t EXCEPT !.sockets[n] = v]
    BY <1>2, <2>2 DEF HY!CloseSocket, HopStates, HopSocketStates
  <2> HIDE DEF v
  <2>5. u.sockets = [t.sockets EXCEPT ![n] = v]
    BY <2>4 DEF HopStates
  <2>6. u.sockets \in Seq(HopSocketStates) /\ Len(u.sockets) = Len(t.sockets) /\ DOMAIN u.sockets = DOMAIN t.sockets
          /\ u.sockets[n] = v /\ \A k \in DOMAIN t.sockets : k # n => u.sockets[k] = t.sockets[k]
    BY <1>2, <2>1, <2>3, <2>5
  <2>7. u \in HopStates
    BY <2>4, <2>6 DEF HopStates
  <2>8. QED
    BY <2>3, <2>4, <2>6, <2>7, <1>2 DEF HopStates
<1>3. QED
  BY <1>1, <1>2

LEMMA HopHops == ASSUME HopInv(s), HY!Hop PROVE HopInv(s')
<1>1. s \in HopStates /\ ~s.closed /\ HopCurrent(s) /\ HopOpen(s) /\ HopSent(s)
  BY DEF HopInv, HY!Hop
<1>2. s.prev \in Nat /\ (s.prev = 0 \/ s.prev \in DOMAIN s.sockets) /\ s.sockets \in Seq(HopSocketStates) /\ s.current \in Nat
  BY <1>1 DEF HopCurrent, HopStates
<1> DEFINE u == HY!CloseSocket(s, s.prev)
           n == Len(s.sockets) + 1
<1>3. /\ u \in HopStates /\ u.ports = s.ports /\ u.obfs = s.obfs /\ u.prev = s.prev /\ u.current = s.current /\ u.closed = s.closed
      /\ u.size = s.size /\ u.port = s.port /\ u.sent = s.sent /\ Len(u.sockets) = Len(s.sockets) /\ DOMAIN u.sockets = DOMAIN s.sockets
      /\ \A k \in DOMAIN s.sockets : u.sockets[k].size = s.sockets[k].size /\ (u.sockets[k].open <=> s.sockets[k].open /\ k # s.prev)
  BY <1>1, <1>2, HopCloses
<1>4. PICK size \in HopSizes : size = IF s.obfs THEN HY!Default ELSE s.size
  <2>1. HY!Default \in HopSizes /\ s.size \in HopSizes
    BY <1>1 DEF HY!Default, HopSizes, HopStates
  <2>2. QED
    BY <2>1
<1>5. PICK k \in HopSocketStates : k = HY!Socket(size) /\ k.open /\ k.size = size
  BY HopSocketsAre
<1>6. PICK p \in s.ports : s' = [u EXCEPT !.prev = s.current, !.sockets = Append(u.sockets, k), !.current = n, !.port = p]
  BY <1>4, <1>5 DEF HY!Hop
<1> HIDE DEF u
<1>7. p \in HopAnyPort
  BY <1>1, <1>6 DEF HopStates, HopAnyPort
<1>8. u.sockets \in Seq(HopSocketStates) /\ Append(u.sockets, k) \in Seq(HopSocketStates) /\ n \in Nat
  BY <1>2, <1>3 DEF HopStates
<1>9. s' \in HopStates /\ s'.sockets = Append(u.sockets, k) /\ s'.prev = s.current /\ s'.current = n /\ s'.port = p
        /\ s'.ports = s.ports /\ s'.obfs = s.obfs /\ s'.closed = s.closed /\ s'.size = s.size /\ s'.sent = s.sent
  BY <1>2, <1>3, <1>6, <1>7, <1>8 DEF HopStates
<1>10. /\ Len(s'.sockets) = n /\ s'.sockets[n] = k /\ DOMAIN s'.sockets = DOMAIN s.sockets \cup {n}
       /\ \A j \in DOMAIN s.sockets : s'.sockets[j] = u.sockets[j]
  BY <1>2, <1>3, <1>8, <1>9
<1>11. HopCurrent(s')
  BY <1>1, <1>2, <1>5, <1>6, <1>9, <1>10 DEF HopCurrent
<1>12. HopOpen(s')
  <2>1. ASSUME NEW j \in DOMAIN s'.sockets, j # 1, s'.sockets[j].open
        PROVE ~s'.closed /\ j \in {s'.prev, s'.current} /\ (s'.obfs \/ s'.sockets[j].size = s'.size)
    <3>1. CASE j = n
      BY <3>1, <1>1, <1>4, <1>5, <1>9, <1>10
    <3>2. CASE j \in DOMAIN s.sockets
      BY <2>1, <3>2, <1>1, <1>3, <1>9, <1>10 DEF HopOpen
    <3>3. QED
      BY <3>1, <3>2, <1>10
  <2>2. QED
    BY <2>1 DEF HopOpen
<1>13. HopSent(s')
  BY <1>1, <1>9 DEF HopSent
<1>14. QED
  BY <1>9, <1>11, <1>12, <1>13 DEF HopInv

LEMMA HopEnds == ASSUME HopInv(s), HY!CloseHop PROVE HopInv(s')
<1>1. s \in HopStates /\ ~s.closed /\ HopCurrent(s) /\ HopOpen(s) /\ HopSent(s)
  BY DEF HopInv, HY!CloseHop
<1>2. s.prev \in Nat /\ (s.prev = 0 \/ s.prev \in DOMAIN s.sockets) /\ s.sockets \in Seq(HopSocketStates)
        /\ s.current \in Nat /\ s.current \in DOMAIN s.sockets
  BY <1>1 DEF HopCurrent, HopStates
<1> DEFINE u == HY!CloseSocket(s, s.prev)
           w == HY!CloseSocket(u, s.current)
<1>3. s' = [w EXCEPT !.closed = TRUE]
  BY DEF HY!CloseHop
<1>4. /\ u \in HopStates /\ u.ports = s.ports /\ u.sent = s.sent /\ DOMAIN u.sockets = DOMAIN s.sockets
      /\ \A k \in DOMAIN s.sockets : u.sockets[k].open <=> s.sockets[k].open /\ k # s.prev
  BY <1>1, <1>2, HopCloses
<1> HIDE DEF u
<1>5. /\ w \in HopStates /\ w.ports = u.ports /\ w.sent = u.sent /\ DOMAIN w.sockets = DOMAIN u.sockets
      /\ \A k \in DOMAIN u.sockets : w.sockets[k].open <=> u.sockets[k].open /\ k # s.current
  BY <1>2, <1>4, HopCloses
<1> HIDE DEF w
<1>6. s' \in HopStates /\ s'.closed /\ s'.sockets = w.sockets /\ s'.sent = w.sent /\ s'.ports = w.ports
  BY <1>3, <1>5 DEF HopStates
<1>7. HopOpen(s')
  BY <1>1, <1>4, <1>5, <1>6 DEF HopOpen
<1>8. HopCurrent(s') /\ HopSent(s')
  BY <1>1, <1>4, <1>5, <1>6 DEF HopCurrent, HopSent
<1>9. QED
  BY <1>6, <1>7, <1>8 DEF HopInv

LEMMA HopSets == ASSUME HopInv(s), HY!SetBuffer PROVE HopInv(s')
<1>1. s \in HopStates /\ ~s.closed /\ HopCurrent(s) /\ HopOpen(s) /\ HopSent(s) /\ s.size \in HopSizes /\ s.sockets \in Seq(HopSocketStates)
  BY DEF HopInv, HY!SetBuffer, HopStates
<1>2. [s.size EXCEPT !.read = 1] \in HopSizes /\ [s.size EXCEPT !.write = 1] \in HopSizes
  BY <1>1 DEF HopSizes
<1>3. PICK size \in HopSizes :
        s' = [s EXCEPT !.size = size,
                !.sockets = [n \in DOMAIN s.sockets |-> IF n \in {s.prev, s.current} /\ ~s.obfs
                                                 THEN [s.sockets[n] EXCEPT !.size = size] ELSE s.sockets[n]]]
  BY <1>2 DEF HY!SetBuffer
<1> DEFINE w == [n \in DOMAIN s.sockets |-> IF n \in {s.prev, s.current} /\ ~s.obfs
                                                 THEN [s.sockets[n] EXCEPT !.size = size] ELSE s.sockets[n]]
<1>4. \A n \in DOMAIN s.sockets : w[n] \in HopSocketStates /\ w[n].open = s.sockets[n].open
                                  /\ w[n].size = IF n \in {s.prev, s.current} /\ ~s.obfs THEN size ELSE s.sockets[n].size
  <2>1. \A n \in DOMAIN s.sockets : s.sockets[n] \in HopSocketStates
    BY <1>1
  <2>2. QED
    BY <2>1 DEF HopSocketStates
<1>5. w \in Seq(HopSocketStates) /\ Len(w) = Len(s.sockets) /\ DOMAIN w = DOMAIN s.sockets
  <2>1. w \in [1 .. Len(s.sockets) -> HopSocketStates]
    <3>1. DOMAIN s.sockets = 1 .. Len(s.sockets)
      BY <1>1
    <3>2. QED
      BY <3>1, <1>4
  <2>2. Len(s.sockets) \in Nat
    BY <1>1
  <2> HIDE DEF w
  <2>3. QED
    BY <2>1, <2>2, <1>1
<1> HIDE DEF w
<1>6. s' \in HopStates /\ s'.sockets = w /\ s'.size = size /\ s'.ports = s.ports /\ s'.obfs = s.obfs /\ s'.prev = s.prev
        /\ s'.current = s.current /\ s'.closed = s.closed /\ s'.port = s.port /\ s'.sent = s.sent
  BY <1>1, <1>3, <1>5 DEF HopStates, w
<1>7. HopCurrent(s')
  BY <1>1, <1>4, <1>5, <1>6 DEF HopCurrent
<1>8. HopOpen(s')
  BY <1>1, <1>4, <1>5, <1>6 DEF HopOpen
<1>9. HopSent(s')
  BY <1>1, <1>6 DEF HopSent
<1>10. QED
  BY <1>6, <1>7, <1>8, <1>9 DEF HopInv

\* What is received changes nothing of the sockets, and a packet is sent by the
\* one in use.
LEMMA HopMoves ==
  ASSUME HopInv(s), HY!ReadFrom \/ HY!WriteTo \/ (\E n \in DOMAIN s.sockets : HY!Receive(n))
  PROVE  HopInv(s')
<1>1. s \in HopStates /\ HopCurrent(s) /\ HopOpen(s) /\ HopSent(s) /\ s.queue \in Seq(Nat)
  BY DEF HopInv, HopStates
<1>2. CASE HY!ReadFrom
  <2>1. Tail(s.queue) \in Seq(Nat) /\ s' = [s EXCEPT !.queue = Tail(s.queue)]
    BY <1>1, <1>2 DEF HY!ReadFrom
  <2>2. s' \in HopStates /\ s' = [s EXCEPT !.queue = s'.queue]
    BY <1>1, <2>1 DEF HopStates
  <2>3. QED
    BY <2>2, <1>1 DEF HopInv, HopCurrent, HopOpen, HopSent, HopStates
<1>3. CASE \E n \in DOMAIN s.sockets : HY!Receive(n)
  <2>1. PICK n \in DOMAIN s.sockets : HY!Receive(n)
    BY <1>3
  <2>2. n \in Nat
    BY <1>1 DEF HopStates
  <2>3. Append(s.queue, n) \in Seq(Nat)
    BY <1>1, <2>2
  <2>4. s' = [s EXCEPT !.queue = Append(s.queue, n)] \/ s' = [s EXCEPT !.lost = 1]
    BY <2>1 DEF HY!Receive
  <2>5. s' \in HopStates /\ s'.sockets = s.sockets /\ s'.size = s.size /\ s'.ports = s.ports /\ s'.obfs = s.obfs /\ s'.prev = s.prev
        /\ s'.current = s.current /\ s'.closed = s.closed /\ s'.port = s.port /\ s'.sent = s.sent
    BY <1>1, <2>3, <2>4 DEF HopStates
  <2>6. QED
    BY <2>5, <1>1 DEF HopInv, HopCurrent, HopOpen, HopSent
<1>4. CASE HY!WriteTo
  <2>1. ~s.closed /\ s' = [s EXCEPT !.sent = s.sent \cup {<<s.sockets[s.current].open, s.port>>}]
    BY <1>4 DEF HY!WriteTo
  <2>2. s.sockets[s.current].open /\ s.port \in s.ports
    BY <2>1, <1>1 DEF HopCurrent
  <2>3. s.sockets[s.current].open \in BOOLEAN /\ s.port \in HopAnyPort
    BY <2>1, <1>1 DEF HopCurrent, HopStates, HopSocketStates
  <2>4. PICK b \in BOOLEAN : b = s.sockets[s.current].open
    BY <2>3
  <2>5. s' = [s EXCEPT !.sent = s.sent \cup {<<b, s.port>>}]
    BY <2>1, <2>4
  <2> DEFINE out == <<b, s.port>>
  <2>6. out \in BOOLEAN \X HopAnyPort /\ out[1] /\ out[2] \in s.ports
    BY <2>2, <2>3, <2>4
  <2> HIDE DEF out
  <2>7. s' = [s EXCEPT !.sent = s.sent \cup {out}] /\ s.sent \cup {out} \in SUBSET (BOOLEAN \X HopAnyPort)
    BY <1>1, <2>5, <2>6 DEF HopStates, out
  <2>8. s' \in HopStates /\ s'.sockets = s.sockets /\ s'.size = s.size /\ s'.ports = s.ports /\ s'.obfs = s.obfs /\ s'.prev = s.prev
        /\ s'.current = s.current /\ s'.closed = s.closed /\ s'.port = s.port /\ s'.sent = s.sent \cup {out}
    BY <1>1, <2>7 DEF HopStates
  <2>9. HopSent(s')
    BY <1>1, <2>6, <2>8 DEF HopSent
  <2>10. QED
    BY <2>8, <2>9, <1>1 DEF HopInv, HopCurrent, HopOpen
<1>5. QED
  BY <1>2, <1>3, <1>4

LEMMA HopStep == ASSUME HopInv(s), HY!HopNext PROVE HopInv(s')
BY HopHops, HopEnds, HopSets, HopMoves, Zenon DEF HY!HopNext

LEMMA HopRight == ASSUME HopInv(s) PROVE HY!SocketsAreClosed /\ HY!SentToTheServer
BY DEF HopInv, HopOpen, HopSent, HY!SocketsAreClosed, HY!SentToTheServer

-----------------------------------------------------------------------------
(* The server of TUIC                                                      *)
(*                                                                         *)
(* A handler that is under way for an association has the flag that the    *)
(* association has, or one that was set when that was dissociated.         *)

TsHandlers ==
  {[pc |-> "new"]} \cup
  [pc : {"waits", "dropped", "joined", "served", "refused", "replied"}, kind : {"tcp", "packet"}, assoc : TuicAssociations,
   flag : Nat, gone : BOOLEAN]
TsStates ==
  [auth : {"waiting", "ok", "no"}, open : BOOLEAN, flags : Seq(BOOLEAN), assoc : [TuicAssociations -> Nat],
   handler : [TuicHandlers -> TsHandlers]]

TsUnderWay(h) == h.pc = "joined" \/ (h.pc = "served" /\ h.kind = "packet")

\* What holds of a handler h in a state t
TsHandler(t, h) ==
  /\ h.pc \in {"joined", "served", "replied", "refused"} => t.auth = "ok"
  /\ h.pc = "joined" => h.kind = "packet"
  /\ h.pc \in {"waits", "replied"} => ~h.gone
  /\ TsUnderWay(h) =>
       /\ h.flag \in DOMAIN t.flags
       /\ h.flag = t.assoc[h.assoc] \/ t.flags[h.flag]
       /\ h.gone => t.flags[h.flag]

TsInv(t) ==
  /\ t \in TsStates
  /\ \A a \in TuicAssociations : t.assoc[a] # 0 => t.assoc[a] \in DOMAIN t.flags
  /\ \A h \in TuicHandlers : TsHandler(t, t.handler[h])

LEMMA TsInitially == ASSUME TU!ServerInit PROVE TsInv(s)
<1>1. s \in TsStates
  BY DEF TU!ServerInit, TsStates, TsHandlers
<1>2. QED
  BY <1>1 DEF TU!ServerInit, TsInv, TsHandler, TsUnderWay

\* Handler h goes on to v.
LEMMA TsGoes ==
  ASSUME TsInv(s), NEW h \in TuicHandlers, NEW v \in TsHandlers, TsHandler(s, v), s' = [s EXCEPT !.handler[h] = v]
  PROVE  TsInv(s')
<1>1. s' \in TsStates /\ s'.auth = s.auth /\ s'.flags = s.flags /\ s'.assoc = s.assoc /\ s'.handler = [s.handler EXCEPT ![h] = v]
  BY DEF TsInv, TsStates
<1>2. \A k \in TuicHandlers : s'.handler[k] = IF k = h THEN v ELSE s.handler[k]
  BY <1>1 DEF TsInv, TsStates
<1>3. \A k \in TuicHandlers : TsHandler(s', s'.handler[k])
  BY <1>1, <1>2 DEF TsInv, TsHandler
<1>4. QED
  BY <1>1, <1>3 DEF TsInv

LEMMA TsAuthenticates == ASSUME TsInv(s), TU!Authenticated \/ TU!Closed PROVE TsInv(s')
<1>1. CASE TU!Closed
  <2>1. s' \in TsStates /\ s'.auth = s.auth /\ s'.flags = s.flags /\ s'.assoc = s.assoc /\ s'.handler = s.handler
    BY <1>1 DEF TU!Closed, TsInv, TsStates
  <2>2. QED
    BY <2>1 DEF TsInv, TsHandler
<1>2. CASE TU!Authenticated
  <2>1. s.auth = "waiting"
    BY <1>2 DEF TU!Authenticated
  <2>2. s' \in TsStates /\ s'.flags = s.flags /\ s'.assoc = s.assoc /\ s'.handler = s.handler
    BY <1>2 DEF TU!Authenticated, TsInv, TsStates
  <2>3. QED
    BY <2>1, <2>2 DEF TsInv, TsHandler, TsUnderWay
<1>3. QED
  BY <1>1, <1>2

LEMMA TsArrives == ASSUME TsInv(s), NEW h \in TuicHandlers, TU!Arrives(h) PROVE TsInv(s')
<1>1. PICK a \in TuicAssociations, kind \in {"tcp", "packet"} :
        s' = [s EXCEPT !.handler[h] = [pc |-> "waits", kind |-> kind, assoc |-> a, flag |-> 0, gone |-> FALSE]]
  BY DEF TU!Arrives
<1> DEFINE v == [pc |-> "waits", kind |-> kind, assoc |-> a, flag |-> 0, gone |-> FALSE]
<1>2. v \in TsHandlers
  BY DEF TsHandlers
<1>3. TsHandler(s, v)
  BY DEF TsHandler, TsUnderWay
<1>4. QED
  BY <1>1, <1>2, <1>3, TsGoes, Zenon

\* A handler at a place that is not its first
LEMMA TsKnown ==
  ASSUME TsInv(s), NEW h \in TuicHandlers, s.handler[h].pc # "new", NEW pc \in {"waits", "dropped", "joined", "served", "refused", "replied"}
  PROVE  /\ s.handler[h] \in TsHandlers /\ s.handler[h].kind \in {"tcp", "packet"} /\ s.handler[h].assoc \in TuicAssociations
         /\ [s.handler[h] EXCEPT !.pc = pc] \in TsHandlers /\ [s.handler[h] EXCEPT !.pc = pc].pc = pc
         /\ [s.handler[h] EXCEPT !.pc = pc].kind = s.handler[h].kind /\ [s.handler[h] EXCEPT !.pc = pc].flag = s.handler[h].flag
         /\ [s.handler[h] EXCEPT !.pc = pc].assoc = s.handler[h].assoc /\ [s.handler[h] EXCEPT !.pc = pc].gone = s.handler[h].gone
<1>1. s.handler[h] \in TsHandlers
  BY DEF TsInv, TsStates
<1>2. s.handler[h] \in [pc : {"waits", "dropped", "joined", "served", "refused", "replied"}, kind : {"tcp", "packet"},
                        assoc : TuicAssociations, flag : Nat, gone : BOOLEAN]
  BY <1>1 DEF TsHandlers
<1>3. QED
  BY <1>1, <1>2 DEF TsHandlers

LEMMA TsSteps ==
  ASSUME TsInv(s), NEW h \in TuicHandlers, s.handler[h].pc # "new",
         NEW pc \in {"waits", "dropped", "joined", "served", "refused", "replied"},
         TsHandler(s, [s.handler[h] EXCEPT !.pc = pc]), s' = TU!Step(s, h, pc)
  PROVE  TsInv(s')
<1>1. s' = [s EXCEPT !.handler[h] = [s.handler[h] EXCEPT !.pc = pc]]
  BY TsKnown DEF TU!Step, TsInv, TsStates
<1>2. [s.handler[h] EXCEPT !.pc = pc] \in TsHandlers
  BY TsKnown
<1>3. QED
  BY <1>1, <1>2, TsGoes, Zenon

LEMMA TsStreams == ASSUME TsInv(s), NEW h \in TuicHandlers, TU!HandleStream(h) PROVE TsInv(s')
<1>1. s.handler[h].pc = "waits" /\ s.handler[h].kind = "tcp"
  BY DEF TU!HandleStream, TU!Stands, TU!H
<1>2. PICK pc \in {"served", "dropped"} : pc = IF s.auth = "ok" THEN "served" ELSE "dropped"
  OBVIOUS
<1>3. s' = TU!Step(s, h, pc)
  BY <1>2 DEF TU!HandleStream
<1>4. TsHandler(s, [s.handler[h] EXCEPT !.pc = pc])
  BY <1>1, <1>2, TsKnown DEF TsHandler, TsUnderWay
<1>5. QED
  BY <1>1, <1>3, <1>4, TsSteps

LEMMA TsParses == ASSUME TsInv(s), NEW h \in TuicHandlers, TU!ParsePacket(h) PROVE TsInv(s')
<1>1. s.handler[h].pc = "waits" /\ s.handler[h].kind = "packet" /\ s \in TsStates
  BY DEF TU!ParsePacket, TU!Stands, TU!H, TsInv
<1>2. PICK a \in TuicAssociations : a = s.handler[h].assoc
  BY <1>1, TsKnown
<1>3. TsHandler(s, s.handler[h]) /\ s.flags \in Seq(BOOLEAN) /\ s.assoc \in [TuicAssociations -> Nat]
  BY <1>1 DEF TsInv, TsStates
<1>4. s.handler[h] \in [pc : {"waits", "dropped", "joined", "served", "refused", "replied"}, kind : {"tcp", "packet"},
                        assoc : TuicAssociations, flag : Nat, gone : BOOLEAN]
  BY <1>1 DEF TsInv, TsStates, TsHandlers
<1>5. CASE s.auth # "ok"
  <2>1. s' = TU!Step(s, h, "dropped")
    BY <1>1, <1>5 DEF TU!ParsePacket
  <2>2. TsHandler(s, [s.handler[h] EXCEPT !.pc = "dropped"])
    BY <1>1, TsKnown DEF TsHandler, TsUnderWay
  <2>3. QED
    BY <1>1, <2>1, <2>2, TsSteps
<1>6. CASE s.auth = "ok" /\ s.assoc[a] # 0
  <2> DEFINE v == [s.handler[h] EXCEPT !.flag = s.assoc[a], !.pc = "joined"]
  <2>1. s' = [s EXCEPT !.handler[h] = v]
    BY <1>1, <1>2, <1>4, <1>6 DEF TU!ParsePacket, TU!Step, TU!H, TsStates
  <2>2. v \in TsHandlers /\ v.pc = "joined" /\ v.kind = "packet" /\ v.assoc = a /\ v.flag = s.assoc[a] /\ ~v.gone
    BY <1>1, <1>2, <1>3, <1>4 DEF TsHandlers, TsHandler
  <2>3. s.assoc[a] \in DOMAIN s.flags
    BY <1>6 DEF TsInv
  <2> HIDE DEF v
  <2>4. TsHandler(s, v)
    BY <2>2, <2>3, <1>6 DEF TsHandler, TsUnderWay
  <2>5. QED
    BY <2>1, <2>2, <2>4, TsGoes, Zenon
<1>7. CASE s.auth = "ok" /\ s.assoc[a] = 0
  <2> DEFINE n == Len(s.flags) + 1
             v == [s.handler[h] EXCEPT !.flag = n, !.pc = "joined"]
             u == [s EXCEPT !.flags = Append(s.flags, FALSE), !.assoc[a] = n, !.handler[h].flag = n]
  <2>0. s' = [u EXCEPT !.handler[h].pc = "joined"]
    BY <1>1, <1>2, <1>7 DEF TU!ParsePacket, TU!Step, TU!H
  <2>1. s' = [s EXCEPT !.flags = Append(s.flags, FALSE), !.assoc[a] = n, !.handler[h] = v]
    <3>1. u = [s EXCEPT !.flags = Append(s.flags, FALSE), !.assoc[a] = n, !.handler[h] = [s.handler[h] EXCEPT !.flag = n]]
      BY <1>1 DEF TsStates
    <3>2. u.handler[h] = [s.handler[h] EXCEPT !.flag = n]
      BY <1>1, <3>1 DEF TsStates
    <3> HIDE DEF u
    <3>3. s' = [u EXCEPT !.handler[h] = [u.handler[h] EXCEPT !.pc = "joined"]]
      BY <2>0, <3>1
    <3>4. [u.handler[h] EXCEPT !.pc = "joined"] = v
      BY <3>2, <1>4
    <3> HIDE DEF v, n
    <3>5. QED
      BY <1>1, <3>1, <3>3, <3>4 DEF TsStates
  <2>2. n \in Nat
    BY <1>3
  <2>3. v \in TsHandlers /\ v.pc = "joined" /\ v.kind = "packet" /\ v.assoc = a /\ v.flag = n /\ ~v.gone
    BY <1>1, <1>2, <1>3, <1>4, <2>2 DEF TsHandlers, TsHandler
  <2>4. /\ DOMAIN Append(s.flags, FALSE) = DOMAIN s.flags \cup {n} /\ Append(s.flags, FALSE) \in Seq(BOOLEAN)
        /\ \A i \in DOMAIN s.flags : Append(s.flags, FALSE)[i] = s.flags[i]
    <3>1. Append(s.flags, FALSE) \in Seq(BOOLEAN) /\ Len(Append(s.flags, FALSE)) = n
      BY <1>3
    <3>2. DOMAIN Append(s.flags, FALSE) = 1 .. n /\ DOMAIN s.flags = 1 .. Len(s.flags) /\ Len(s.flags) \in Nat
      BY <1>3, <3>1
    <3>3. \A i \in DOMAIN s.flags : Append(s.flags, FALSE)[i] = s.flags[i]
      <4>1. FALSE \in BOOLEAN
        OBVIOUS
      <4>2. \A i \in 1 .. Len(s.flags) : Append(s.flags, FALSE)[i] = s.flags[i]
        BY <1>3, <4>1, AppendProperties, Zenon
      <4>3. QED
        BY <3>2, <4>2, Zenon
    <3>4. 1 .. n = (1 .. Len(s.flags)) \cup {n}
      BY <3>2
    <3>5. QED
      BY <3>1, <3>2, <3>3, <3>4
  <2> HIDE DEF v, n
  <2>5. /\ s' \in TsStates /\ s'.auth = s.auth /\ s'.flags = Append(s.flags, FALSE) /\ s'.assoc = [s.assoc EXCEPT ![a] = n]
        /\ s'.handler = [s.handler EXCEPT ![h] = v]
    BY <1>1, <2>1, <2>2, <2>3, <2>4 DEF TsStates
  <2>6. \A b \in TuicAssociations : s'.assoc[b] = IF b = a THEN n ELSE s.assoc[b]
    BY <1>3, <2>5
  <2>7. \A k \in TuicHandlers : s'.handler[k] = IF k = h THEN v ELSE s.handler[k]
    BY <1>1, <2>5 DEF TsStates
  <2>8. \A b \in TuicAssociations : s'.assoc[b] # 0 => s'.assoc[b] \in DOMAIN s'.flags
    BY <2>4, <2>5, <2>6 DEF TsInv
  <2>9. ASSUME NEW k \in TuicHandlers PROVE TsHandler(s', s'.handler[k])
    <3>1. CASE k = h
      BY <3>1, <1>7, <2>3, <2>4, <2>5, <2>6, <2>7 DEF TsHandler, TsUnderWay
    <3>2. CASE k # h
      <4>1. TsHandler(s, s.handler[k]) /\ s'.handler[k] = s.handler[k]
        BY <3>2, <2>7 DEF TsInv
      <4>2. ASSUME TsUnderWay(s.handler[k]) PROVE s.handler[k].assoc \in TuicAssociations
        <5>1. s.handler[k].pc # "new"
          BY <4>2 DEF TsUnderWay
        <5>2. QED
          BY <5>1, TsKnown
      <4>3. ASSUME TsUnderWay(s.handler[k])
            PROVE  /\ s.handler[k].flag \in DOMAIN s'.flags
                   /\ s.handler[k].flag = s'.assoc[s.handler[k].assoc] \/ s'.flags[s.handler[k].flag]
                   /\ s.handler[k].gone => s'.flags[s.handler[k].flag]
        <5>1. s.handler[k].flag \in DOMAIN s.flags /\ s.handler[k].flag # 0
          BY <4>1, <4>3, <1>3 DEF TsHandler
        <5>2. s'.flags[s.handler[k].flag] = s.flags[s.handler[k].flag]
          BY <5>1, <2>4, <2>5
        <5>3. QED
          BY <5>1, <5>2, <4>1, <4>2, <4>3, <1>7, <2>4, <2>5, <2>6 DEF TsHandler
      <4>4. QED
        BY <4>1, <4>3, <2>5 DEF TsHandler
    <3>3. QED
      BY <3>1, <3>2
  <2>10. QED
    BY <2>5, <2>8, <2>9 DEF TsInv
<1>8. QED
  BY <1>5, <1>6, <1>7

LEMMA TsHandsOver == ASSUME TsInv(s), NEW h \in TuicHandlers, TU!HandOver(h) PROVE TsInv(s')
<1>1. s.handler[h].pc = "joined"
  BY DEF TU!HandOver, TU!Stands, TU!H
<1>2. PICK pc \in {"served", "dropped"} : s' = TU!Step(s, h, pc)
  BY DEF TU!HandOver
<1>3. TsHandler(s, s.handler[h])
  BY DEF TsInv
<1>4. TsHandler(s, [s.handler[h] EXCEPT !.pc = pc])
  BY <1>1, <1>3, TsKnown DEF TsHandler, TsUnderWay
<1>5. QED
  BY <1>1, <1>2, <1>4, TsSteps

LEMMA TsReplies == ASSUME TsInv(s), NEW h \in TuicHandlers, TU!WriteBack(h) PROVE TsInv(s')
<1>1. s.handler[h].pc = "served" /\ s.handler[h].kind = "packet"
  BY DEF TU!WriteBack, TU!Stands, TU!H
<1>2. PICK pc \in {"refused", "replied"} : pc = IF s.flags[s.handler[h].flag] THEN "refused" ELSE "replied"
  OBVIOUS
<1>3. s' = TU!Step(s, h, pc)
  BY <1>2 DEF TU!WriteBack, TU!H
<1>4. TsHandler(s, s.handler[h])
  BY DEF TsInv
<1>5. TsHandler(s, [s.handler[h] EXCEPT !.pc = pc])
  BY <1>1, <1>2, <1>4, TsKnown DEF TsHandler, TsUnderWay
<1>6. QED
  BY <1>1, <1>3, <1>5, TsSteps

LEMMA TsDissociates == ASSUME TsInv(s), NEW a \in TuicAssociations, TU!Dissociate(a) PROVE TsInv(s')
<1>1. s \in TsStates /\ s.flags \in Seq(BOOLEAN) /\ s.assoc \in [TuicAssociations -> Nat] /\ s.handler \in [TuicHandlers -> TsHandlers]
  BY DEF TsInv, TsStates
<1>2. PICK n \in DOMAIN s.flags : n = s.assoc[a]
  BY DEF TU!Dissociate, TsInv
<1> DEFINE w == [h \in TuicHandlers |-> IF s.handler[h].pc \in {"joined", "served"} /\ s.handler[h].kind = "packet" /\ s.handler[h].assoc = a
                                       THEN [s.handler[h] EXCEPT !.gone = TRUE] ELSE s.handler[h]]
<1>3. s' = [s EXCEPT !.flags[n] = TRUE, !.assoc[a] = 0, !.handler = w]
  BY <1>2 DEF TU!Dissociate, TU!H
<1>4. ASSUME NEW h \in TuicHandlers
      PROVE  /\ w[h] \in TsHandlers /\ w[h].pc = s.handler[h].pc
             /\ w[h].pc # "new" => w[h].kind = s.handler[h].kind /\ w[h].assoc = s.handler[h].assoc /\ w[h].flag = s.handler[h].flag
             /\ w[h] = s.handler[h] \/ (TsUnderWay(w[h]) /\ w[h].assoc = a)
  <2>1. s.handler[h] \in TsHandlers
    BY <1>1
  <2>2. CASE s.handler[h].pc \in {"joined", "served"} /\ s.handler[h].kind = "packet" /\ s.handler[h].assoc = a
    <3>1. s.handler[h] \in [pc : {"waits", "dropped", "joined", "served", "refused", "replied"}, kind : {"tcp", "packet"},
                            assoc : TuicAssociations, flag : Nat, gone : BOOLEAN]
      BY <2>1, <2>2 DEF TsHandlers
    <3>2. w[h] = [s.handler[h] EXCEPT !.gone = TRUE]
      BY <2>2
    <3>3. QED
      BY <2>2, <3>1, <3>2 DEF TsHandlers, TsUnderWay
  <2>3. CASE ~(s.handler[h].pc \in {"joined", "served"} /\ s.handler[h].kind = "packet" /\ s.handler[h].assoc = a)
    BY <2>1, <2>3
  <2>4. QED
    BY <2>2, <2>3
<1>5. w \in [TuicHandlers -> TsHandlers]
  BY <1>4
<1>6. \A h \in TuicHandlers : TsUnderWay(s.handler[h]) => s.handler[h].assoc \in TuicAssociations
  BY TsKnown DEF TsUnderWay
<1> HIDE DEF w
<1>7. /\ s' \in TsStates /\ s'.auth = s.auth /\ s'.flags = [s.flags EXCEPT ![n] = TRUE] /\ s'.assoc = [s.assoc EXCEPT ![a] = 0]
      /\ s'.handler = w
  <2>1. [s.flags EXCEPT ![n] = TRUE] \in Seq(BOOLEAN)
    BY <1>1, <1>2
  <2>2. [s.assoc EXCEPT ![a] = 0] \in [TuicAssociations -> Nat]
    BY <1>1
  <2>3. PICK flags \in Seq(BOOLEAN) : flags = [s.flags EXCEPT ![n] = TRUE]
    BY <2>1
  <2>4. PICK assoc \in [TuicAssociations -> Nat] : assoc = [s.assoc EXCEPT ![a] = 0]
    BY <2>2
  <2>5. s' = [s EXCEPT !.flags = flags, !.assoc = assoc, !.handler = w]
    BY <1>3, <2>3, <2>4
  <2>6. QED
    BY <1>1, <1>5, <2>3, <2>4, <2>5 DEF TsStates
<1>8. DOMAIN s'.flags = DOMAIN s.flags /\ s'.flags[n] /\ \A i \in DOMAIN s.flags : s.flags[i] => s'.flags[i]
  BY <1>1, <1>2, <1>7
<1>9. \A b \in TuicAssociations : s'.assoc[b] = IF b = a THEN 0 ELSE s.assoc[b]
  BY <1>1, <1>7
<1>10. \A b \in TuicAssociations : s'.assoc[b] # 0 => s'.assoc[b] \in DOMAIN s'.flags
  BY <1>8, <1>9 DEF TsInv
<1>11. ASSUME NEW h \in TuicHandlers PROVE TsHandler(s', w[h])
  <2>1. TsHandler(s, s.handler[h])
    BY DEF TsInv
  <2>2. CASE w[h] = s.handler[h]
    BY <2>1, <2>2, <1>2, <1>6, <1>7, <1>8, <1>9 DEF TsHandler
  <2>3. CASE TsUnderWay(w[h]) /\ w[h].assoc = a
    <3>1. w[h].pc # "new" /\ TsUnderWay(s.handler[h])
      BY <2>3, <1>4 DEF TsUnderWay
    <3>2. s.handler[h].flag \in DOMAIN s.flags /\ (s.handler[h].flag = n \/ s.flags[s.handler[h].flag])
      BY <2>1, <2>3, <3>1, <1>2, <1>4 DEF TsHandler
    <3>3. w[h].flag \in DOMAIN s'.flags /\ s'.flags[w[h].flag]
      BY <3>1, <3>2, <1>4, <1>8
    <3>4. w[h].pc \in {"joined", "served"} /\ s'.auth = "ok" /\ (w[h].pc = "joined" => w[h].kind = "packet")
      BY <2>1, <2>3, <3>1, <1>4, <1>7 DEF TsHandler, TsUnderWay
    <3>5. QED
      BY <3>3, <3>4 DEF TsHandler
  <2>4. QED
    BY <2>2, <2>3, <1>4
<1>12. QED
  BY <1>7, <1>10, <1>11 DEF TsInv

LEMMA TsStep == ASSUME TsInv(s), TU!ServerNext PROVE TsInv(s')
BY TsAuthenticates, TsDissociates, TsArrives, TsStreams, TsParses, TsHandsOver, TsReplies, Zenon DEF TU!ServerNext

LEMMA TsRight == ASSUME TsInv(s) PROVE TU!OnlyAuthenticated /\ TU!GoneDoNotReply
BY DEF TsInv, TsHandler, TU!OnlyAuthenticated, TU!GoneDoNotReply, TU!H, TU!Stands

-----------------------------------------------------------------------------
(* The commands of TUIC                                                    *)
(*                                                                         *)
(* A reader that has taken the first i cells of a stream                   *)

CmCells == Nat \X (Nat \cup {"ip", "host", "token", "data"})
CmAfter(cells, i) ==
  [rest |-> SubSeq(cells, i + 1, Len(cells)), got |-> [j \in 1 .. i |-> cells[j][2]], ok |-> TRUE]

LEMMA CmSums ==
  ASSUME NEW cells, NEW g, g = [i \in 0 .. Len(cells) |-> IF i = 0 THEN 0 ELSE g[i - 1] + cells[i][1]]
  PROVE  \E f : /\ f = [i \in 0 .. Len(cells) |-> IF i = 0 THEN 0 ELSE f[i - 1] + cells[i][1]]
                /\ TU!SizeOf(cells) = f[Len(cells)]
<1> DEFINE F == CHOOSE f : f = [i \in 0 .. Len(cells) |-> IF i = 0 THEN 0 ELSE f[i - 1] + cells[i][1]]
<1>1. F = [i \in 0 .. Len(cells) |-> IF i = 0 THEN 0 ELSE F[i - 1] + cells[i][1]]
  OBVIOUS
<1>2. TU!SizeOf(cells) = F[Len(cells)]
  BY DEF TU!SizeOf
<1>3. QED
  BY <1>1, <1>2

LEMMA CmByte == ASSUME NEW n \in 0 .. 254 PROVE n % 256 = n /\ (n + 1) % 256 # 0
OBVIOUS

LEMMA CmFrom ==
  ASSUME NEW cells \in Seq(CmCells), NEW i \in 0 .. Len(cells)
  PROVE  /\ SubSeq(cells, i + 1, Len(cells)) \in Seq(CmCells) /\ Len(SubSeq(cells, i + 1, Len(cells))) = Len(cells) - i
         /\ \A j \in 1 .. Len(cells) - i : SubSeq(cells, i + 1, Len(cells))[j] = cells[i + j]
<1>1. Len(cells) \in Nat /\ i + 1 \in Int /\ \A j \in i + 1 .. Len(cells) : cells[j] \in CmCells
  BY LenProperties
<1>2. SubSeq(cells, i + 1, Len(cells)) \in Seq(CmCells)
      /\ Len(SubSeq(cells, i + 1, Len(cells))) = (IF i + 1 <= Len(cells) THEN Len(cells) - (i + 1) + 1 ELSE 0)
      /\ \A j \in 1 .. Len(cells) - (i + 1) + 1 : SubSeq(cells, i + 1, Len(cells))[j] = cells[i + 1 + j - 1]
  BY <1>1, SubSeqProperties
<1>3. QED
  BY <1>1, <1>2

LEMMA CmStarts == ASSUME NEW cells \in Seq(CmCells) PROVE TU!Reader(cells) = CmAfter(cells, 0)
<1>1. Len(cells) \in Nat
  BY LenProperties
<1>2. SubSeq(cells, 1, Len(cells)) = cells
  BY <1>1, CmFrom, SeqEqual
<1>3. [j \in 1 .. 0 |-> cells[j][2]] = << >>
  OBVIOUS
<1>4. TU!Reader(cells) = [rest |-> cells, got |-> << >>, ok |-> TRUE]
  BY DEF TU!Reader
<1>5. CmAfter(cells, 0) = [rest |-> SubSeq(cells, 0 + 1, Len(cells)), got |-> [j \in 1 .. 0 |-> cells[j][2]], ok |-> TRUE]
  BY DEF CmAfter
<1>6. 0 + 1 = 1
  OBVIOUS
<1>7. QED
  BY <1>2, <1>3, <1>4, <1>5, <1>6, Zenon

CmReaders == [rest : Seq(CmCells), got : Seq(Nat \cup {"ip", "host", "token", "data"}), ok : BOOLEAN]
LEMMA CmReader ==
  ASSUME NEW a \in Seq(CmCells), NEW b \in Seq(Nat \cup {"ip", "host", "token", "data"}), NEW c \in BOOLEAN
  PROVE  /\ [rest |-> a, got |-> b, ok |-> c] \in CmReaders
         /\ [rest |-> a, got |-> b, ok |-> c].rest = a /\ [rest |-> a, got |-> b, ok |-> c].got = b
         /\ [rest |-> a, got |-> b, ok |-> c].ok = c
BY DEF CmReaders

LEMMA CmSame == ASSUME NEW q \in CmReaders, NEW r \in CmReaders, q.rest = r.rest, q.got = r.got, q.ok = r.ok PROVE q = r
BY DEF CmReaders

LEMMA CmTakes ==
  ASSUME NEW cells \in Seq(CmCells), NEW i \in 0 .. Len(cells) - 1
  PROVE  TU!Take(CmAfter(cells, i), cells[i + 1][1]) = CmAfter(cells, i + 1)
<1> DEFINE rest == SubSeq(cells, i + 1, Len(cells))
           more == SubSeq(cells, i + 2, Len(cells))
           got == [j \in 1 .. i |-> cells[j][2]]
           next == [j \in 1 .. i + 1 |-> cells[j][2]]
<1>0. Len(cells) \in Nat /\ \A j \in 1 .. Len(cells) : cells[j] \in CmCells
  BY LenProperties
<1>1. rest \in Seq(CmCells) /\ Len(rest) = Len(cells) - i /\ \A j \in 1 .. Len(cells) - i : rest[j] = cells[i + j]
  BY <1>0, CmFrom
<1>2. more \in Seq(CmCells) /\ Len(more) = Len(cells) - (i + 1) /\ \A j \in 1 .. Len(cells) - (i + 1) : more[j] = cells[i + 1 + j]
  BY <1>0, CmFrom
<1> HIDE DEF rest, more
<1>3. rest # << >> /\ Head(rest) = cells[i + 1]
  BY <1>0, <1>1
<1>4. Tail(rest) \in Seq(CmCells) /\ Len(Tail(rest)) = Len(rest) - 1 /\ \A j \in 1 .. Len(Tail(rest)) : Tail(rest)[j] = rest[j + 1]
  BY <1>1, <1>3, HeadTailProperties
<1>5. Tail(rest) = more
  <2>1. ASSUME NEW j \in 1 .. Len(more) PROVE Tail(rest)[j] = more[j]
    <3>1. j \in Int /\ j + 1 \in 1 .. Len(cells) - i /\ j \in 1 .. Len(Tail(rest)) /\ j \in 1 .. Len(cells) - (i + 1)
      BY ONLY <1>0, <1>1, <1>2, <1>4, j \in 1 .. Len(more), i \in 0 .. Len(cells) - 1
    <3>2. Tail(rest)[j] = rest[j + 1]
      BY <1>4, <3>1, Zenon
    <3>3. rest[j + 1] = cells[i + (j + 1)]
      BY <1>1, <3>1, Zenon
    <3>4. more[j] = cells[i + 1 + j]
      BY <1>2, <3>1, Zenon
    <3>5. i + (j + 1) = i + 1 + j
      BY ONLY <1>0, <3>1, i \in 0 .. Len(cells) - 1
    <3>6. QED
      BY <3>2, <3>3, <3>4, <3>5, Zenon
  <2>2. Len(Tail(rest)) = Len(more)
    BY <1>0, <1>1, <1>2, <1>4
  <2>3. QED
    BY <2>1, <2>2, <1>2, <1>4, SeqEqual
<1>6. /\ got \in Seq(Nat \cup {"ip", "host", "token", "data"}) /\ Len(got) = i
      /\ next \in Seq(Nat \cup {"ip", "host", "token", "data"})
  <2>1. \A j \in 1 .. i + 1 : cells[j][2] \in Nat \cup {"ip", "host", "token", "data"}
    BY <1>0 DEF CmCells
  <2>2. i \in Nat /\ i + 1 \in Nat
    BY <1>0
  <2>3. next \in [1 .. i + 1 -> Nat \cup {"ip", "host", "token", "data"}] /\ got \in [1 .. i -> Nat \cup {"ip", "host", "token", "data"}]
    BY <2>1, <2>2
  <2> HIDE DEF got, next
  <2>4. QED
    BY <2>2, <2>3
<1>7. Append(got, cells[i + 1][2]) = next
  BY <1>0, <1>6 DEF CmCells
<1>8. CmAfter(cells, i) = [rest |-> rest, got |-> got, ok |-> TRUE]
  BY DEF CmAfter, rest
<1>9. CmAfter(cells, i + 1) = [rest |-> more, got |-> next, ok |-> TRUE]
  BY DEF CmAfter, more
<1> HIDE DEF got, next
<1>0a. TRUE \in BOOLEAN
  OBVIOUS
<1>10. PICK r \in CmReaders : r = CmAfter(cells, i) /\ r.rest = rest /\ r.got = got /\ r.ok
  BY <1>1, <1>6, <1>8, <1>0a, CmReader, Zenon
<1>11. PICK q \in CmReaders : q = CmAfter(cells, i + 1) /\ q.rest = more /\ q.got = next /\ q.ok
  BY <1>2, <1>6, <1>9, <1>0a, CmReader, Zenon
<1>12. TU!Take(r, cells[i + 1][1]) = [r EXCEPT !.rest = Tail(rest), !.got = Append(got, cells[i + 1][2])]
  BY <1>3, <1>10 DEF TU!Take
<1>13. PICK u \in CmReaders : u = [r EXCEPT !.rest = Tail(rest), !.got = Append(got, cells[i + 1][2])] /\ u.rest = more /\ u.got = next /\ u.ok
  BY <1>5, <1>7, <1>10, <1>11 DEF CmReaders
<1>14. u = q
  BY <1>11, <1>13, CmSame
<1>15. QED
  BY <1>10, <1>11, <1>12, <1>13, <1>14, Zenon

LEMMA CmValue ==
  ASSUME NEW cells \in Seq(CmCells), NEW i \in 1 .. Len(cells)
  PROVE  CmAfter(cells, i).ok /\ TU!Value(CmAfter(cells, i)) = cells[i][2]
BY DEF CmAfter, TU!Value

\* The next cell of size n with value v
LEMMA CmNext ==
  ASSUME NEW cells \in Seq(CmCells), NEW i \in Nat, i + 1 <= Len(cells), NEW n, NEW v, cells[i + 1] = <<n, v>>
  PROVE  TU!Take(CmAfter(cells, i), n) = CmAfter(cells, i + 1) /\ CmAfter(cells, i + 1).ok /\ TU!Value(CmAfter(cells, i + 1)) = v
<1>1. Len(cells) \in Nat
  BY LenProperties
<1>2. i \in 0 .. Len(cells) - 1 /\ i + 1 \in 1 .. Len(cells)
  BY <1>1
<1>3. cells[i + 1][1] = n /\ cells[i + 1][2] = v
  OBVIOUS
<1>4. QED
  BY <1>2, <1>3, CmTakes, CmValue

CmHolds(cells, i, w) == \A j \in DOMAIN w : i + j <= Len(cells) /\ cells[i + j] = w[j]
\* An address that can be read again
CmFits(a) ==
  /\ a.kind \in {0, 1, 2} /\ a.port \in Nat /\ a.value \in Nat \cup {"ip", "host", "token", "data"}
  /\ a.kind = 0 => a.length \in 0 .. 254

LEMMA CmJoins ==
  ASSUME NEW p \in Seq(CmCells), NEW q \in Seq(CmCells)
  PROVE  /\ p \o q \in Seq(CmCells) /\ Len(p \o q) = Len(p) + Len(q) /\ Len(p) \in Nat /\ Len(q) \in Nat
         /\ \A j \in 1 .. Len(p) : j \in DOMAIN (p \o q) /\ (p \o q)[j] = p[j]
         /\ \A j \in 1 .. Len(q) : Len(p) + j \in DOMAIN (p \o q) /\ (p \o q)[Len(p) + j] = q[j]
<1>1. /\ p \o q \in Seq(CmCells) /\ Len(p \o q) = Len(p) + Len(q)
      /\ \A j \in 1 .. Len(p) + Len(q) : (p \o q)[j] = IF j <= Len(p) THEN p[j] ELSE q[j - Len(p)]
  BY ConcatProperties
<1>2. Len(p) \in Nat /\ Len(q) \in Nat /\ DOMAIN (p \o q) = 1 .. Len(p) + Len(q)
  BY <1>1, LenProperties
<1>3. ASSUME NEW j \in 1 .. Len(p) PROVE j \in DOMAIN (p \o q) /\ (p \o q)[j] = p[j]
  BY <1>1, <1>2
<1>4. ASSUME NEW j \in 1 .. Len(q) PROVE Len(p) + j \in DOMAIN (p \o q) /\ (p \o q)[Len(p) + j] = q[j]
  <2>1. Len(p) + j \in 1 .. Len(p) + Len(q) /\ ~(Len(p) + j <= Len(p)) /\ Len(p) + j - Len(p) = j
    BY <1>2
  <2>2. QED
    BY <1>1, <1>2, <2>1
<1>5. QED
  BY <1>1, <1>2, <1>3, <1>4

LEMMA CmSplit ==
  ASSUME NEW cells, NEW i \in Nat, NEW p \in Seq(CmCells), NEW q \in Seq(CmCells), CmHolds(cells, i, p \o q)
  PROVE  CmHolds(cells, i, p) /\ CmHolds(cells, i + Len(p), q)
<1>1. Len(p) \in Nat /\ DOMAIN p = 1 .. Len(p) /\ DOMAIN q = 1 .. Len(q)
  BY LenProperties
<1>2. ASSUME NEW j \in 1 .. Len(p) PROVE i + j <= Len(cells) /\ cells[i + j] = p[j]
  BY CmJoins DEF CmHolds
<1>3. ASSUME NEW j \in 1 .. Len(q) PROVE i + Len(p) + j <= Len(cells) /\ cells[i + Len(p) + j] = q[j]
  <2>1. Len(p) + j \in DOMAIN (p \o q) /\ (p \o q)[Len(p) + j] = q[j]
    BY CmJoins
  <2>2. i + (Len(p) + j) <= Len(cells) /\ cells[i + (Len(p) + j)] = q[j]
    BY <2>1 DEF CmHolds
  <2>3. i + (Len(p) + j) = i + Len(p) + j
    BY <1>1
  <2>4. QED
    BY <2>2, <2>3
<1>4. QED
  BY <1>1, <1>2, <1>3 DEF CmHolds

LEMMA CmOne ==
  ASSUME NEW cells, NEW i, NEW w, CmHolds(cells, i, <<w>>)
  PROVE  i + 1 <= Len(cells) /\ cells[i + 1] = w
BY DEF CmHolds

LEMMA CmTwo ==
  ASSUME NEW cells, NEW i, NEW w, NEW x, CmHolds(cells, i, <<w, x>>)
  PROVE  i + 2 <= Len(cells) /\ cells[i + 1] = w /\ cells[i + 2] = x
<1>1. PICK q : q = <<w, x>>
  OBVIOUS
<1>2. DOMAIN q = 1 .. 2 /\ q[1] = w /\ q[2] = x
  BY <1>1
<1>3. \A j \in 1 .. 2 : i + j <= Len(cells) /\ cells[i + j] = q[j]
  BY <1>1, <1>2 DEF CmHolds
<1>4. QED
  BY <1>2, <1>3

\* What stands between the kind of an address and its port
CmHost(a) ==
  IF a.kind = 0 THEN << <<1, a.length % 256>>, <<a.length, a.value>> >> ELSE << <<IF a.kind = 1 THEN 4 ELSE 16, a.value>> >>

LEMMA CmWritten ==
  ASSUME NEW a, CmFits(a)
  PROVE  /\ a.kind \in {0, 1, 2}
         /\ a.kind = 0 => a.length \in Nat /\ a.length % 256 = a.length /\ (a.length + 1) % 256 # 0
         /\ TU!WriteAddress(a) = (<< <<1, a.kind>> >> \o CmHost(a)) \o << <<2, a.port>> >>
         /\ << <<1, a.kind>> >> \in Seq(CmCells) /\ CmHost(a) \in Seq(CmCells) /\ << <<2, a.port>> >> \in Seq(CmCells)
         /\ Len(CmHost(a)) = IF a.kind = 0 THEN 2 ELSE 1
         /\ TU!WriteAddress(a) \in Seq(CmCells) /\ Len(TU!WriteAddress(a)) = IF a.kind = 0 THEN 4 ELSE 3
<1>1. a.kind \in {0, 1, 2} /\ a.port \in Nat /\ a.value \in Nat \cup {"ip", "host", "token", "data"}
  BY DEF CmFits
<1>2. a.kind = 0 => a.length \in Nat /\ a.length % 256 = a.length /\ (a.length + 1) % 256 # 0
  <2>1. CASE a.kind = 0
    <3>1. a.length \in 0 .. 254
      BY <2>1 DEF CmFits
    <3>2. a.length \in Nat
      BY <3>1
    <3>3. QED
      BY <3>1, <3>2, CmByte
  <2>2. QED
    BY <2>1
<1>3. TU!WriteAddress(a) = (<< <<1, a.kind>> >> \o CmHost(a)) \o << <<2, a.port>> >>
  <2>1. CASE a.kind = 0
    BY <2>1 DEF TU!WriteAddress, TU!Byte, CmHost
  <2>2. CASE a.kind = 1
    BY <2>2 DEF TU!WriteAddress, TU!Byte, CmHost
  <2>3. CASE a.kind = 2
    BY <2>3 DEF TU!WriteAddress, TU!Byte, CmHost
  <2>4. QED
    BY <2>1, <2>2, <2>3, <1>1
<1>4. << <<1, a.kind>> >> \in Seq(CmCells) /\ << <<2, a.port>> >> \in Seq(CmCells)
  BY <1>1 DEF CmCells
<1>5. CmHost(a) \in Seq(CmCells) /\ Len(CmHost(a)) = IF a.kind = 0 THEN 2 ELSE 1
  <2>1. CASE a.kind = 0
    BY <2>1, <1>1, <1>2 DEF CmHost, CmCells
  <2>2. CASE a.kind # 0
    BY <2>2, <1>1 DEF CmHost, CmCells
  <2>3. QED
    BY <2>1, <2>2
<1>6. << <<1, a.kind>> >> \o CmHost(a) \in Seq(CmCells) /\ Len(<< <<1, a.kind>> >> \o CmHost(a)) = 1 + Len(CmHost(a))
  BY <1>4, <1>5, CmJoins
<1>7. TU!WriteAddress(a) \in Seq(CmCells) /\ Len(TU!WriteAddress(a)) = 1 + Len(CmHost(a)) + 1
  BY <1>3, <1>4, <1>6, CmJoins
<1>8. QED
  BY <1>1, <1>2, <1>3, <1>4, <1>5, <1>7

\* The cells of an address after the first i
LEMMA CmAddress ==
  ASSUME NEW cells, NEW i \in Nat, NEW a, CmFits(a), CmHolds(cells, i, TU!WriteAddress(a))
  PROVE  /\ cells[i + 1] = <<1, a.kind>>
         /\ a.kind = 0 => /\ i + 4 <= Len(cells) /\ cells[i + 2] = <<1, a.length>> /\ cells[i + 3] = <<a.length, a.value>>
                          /\ cells[i + 4] = <<2, a.port>>
         /\ a.kind # 0 => /\ i + 3 <= Len(cells) /\ cells[i + 2] = <<IF a.kind = 1 THEN 4 ELSE 16, a.value>>
                          /\ cells[i + 3] = <<2, a.port>>
<1>1. << <<1, a.kind>> >> \o CmHost(a) \in Seq(CmCells) /\ Len(<< <<1, a.kind>> >> \o CmHost(a)) = 1 + Len(CmHost(a))
  BY CmWritten, CmJoins
<1>2. CmHolds(cells, i, << <<1, a.kind>> >> \o CmHost(a)) /\ CmHolds(cells, i + (1 + Len(CmHost(a))), << <<2, a.port>> >>)
  <2>1. PICK p \in Seq(CmCells) : p = << <<1, a.kind>> >> \o CmHost(a) /\ Len(p) = 1 + Len(CmHost(a))
    BY <1>1
  <2>2. CmHolds(cells, i, p \o << <<2, a.port>> >>) /\ << <<2, a.port>> >> \in Seq(CmCells)
    BY <2>1, CmWritten, Zenon
  <2>3. CmHolds(cells, i, p) /\ CmHolds(cells, i + Len(p), << <<2, a.port>> >>)
    BY <2>2, CmSplit
  <2>4. QED
    BY <2>1, <2>3
<1>3. CmHolds(cells, i, << <<1, a.kind>> >>) /\ CmHolds(cells, i + 1, CmHost(a))
  <2>1. Len(<< <<1, a.kind>> >>) = 1
    OBVIOUS
  <2>2. QED
    BY <1>2, <2>1, CmWritten, CmSplit
<1>4. cells[i + 1] = <<1, a.kind>>
  BY <1>3, CmOne
<1>5. CASE a.kind = 0
  <2>1. cells[i + 1 + 1] = <<1, a.length>> /\ cells[i + 1 + 2] = <<a.length, a.value>>
    <3>1. CmHost(a) = << <<1, a.length>>, <<a.length, a.value>> >>
      BY <1>5, CmWritten DEF CmHost
    <3>2. CmHolds(cells, i + 1, << <<1, a.length>>, <<a.length, a.value>> >>)
      BY <1>3, <3>1
    <3>3. QED
      BY <3>2, CmTwo
  <2>2. i + (1 + Len(CmHost(a))) = i + 3
    <3>1. Len(CmHost(a)) = 2
      BY <1>5, CmWritten
    <3>2. QED
      BY <3>1
  <2>3. i + 3 + 1 <= Len(cells) /\ cells[i + 3 + 1] = <<2, a.port>>
    BY <1>2, <2>2, CmOne
  <2>4. i + 3 + 1 = i + 4 /\ i + 1 + 1 = i + 2 /\ i + 1 + 2 = i + 3
    OBVIOUS
  <2>5. QED
    BY <1>4, <1>5, <2>1, <2>3, <2>4
<1>6. CASE a.kind # 0
  <2>1. cells[i + 1 + 1] = <<IF a.kind = 1 THEN 4 ELSE 16, a.value>>
    BY <1>3, <1>6, CmOne DEF CmHost
  <2>2. i + (1 + Len(CmHost(a))) = i + 2
    <3>1. Len(CmHost(a)) = 1
      BY <1>6, CmWritten
    <3>2. QED
      BY <3>1
  <2>3. i + 2 + 1 <= Len(cells) /\ cells[i + 2 + 1] = <<2, a.port>>
    BY <1>2, <2>2, CmOne
  <2>4. i + 2 + 1 = i + 3 /\ i + 1 + 1 = i + 2
    OBVIOUS
  <2>5. QED
    BY <1>4, <1>6, <2>1, <2>3, <2>4
<1>7. QED
  BY <1>5, <1>6

LEMMA CmReadsAddress ==
  ASSUME NEW cells \in Seq(CmCells), NEW i \in Nat, NEW a, CmFits(a),
         CmHolds(cells, i, TU!WriteAddress(a))
  PROVE  TU!ReadAddress(CmAfter(cells, i)) = CmAfter(cells, i + Len(TU!WriteAddress(a))) /\ i + Len(TU!WriteAddress(a)) <= Len(cells)
<1>1. Len(cells) \in Nat /\ a.kind \in {0, 1, 2}
  BY LenProperties, CmWritten
<1>2. i + 1 + 1 = i + 2 /\ i + 2 + 1 = i + 3 /\ i + 3 + 1 = i + 4 /\ i + 1 \in Nat /\ i + 2 \in Nat /\ i + 3 \in Nat /\ i + 1 <= Len(cells)
  BY <1>1, CmAddress
<1>3. TU!Take(CmAfter(cells, i), 1) = CmAfter(cells, i + 1) /\ CmAfter(cells, i + 1).ok /\ TU!Value(CmAfter(cells, i + 1)) = a.kind
  BY <1>2, CmAddress, CmNext
<1>4. CASE a.kind = 0
  <2>1. TU!Take(CmAfter(cells, i + 1), 1) = CmAfter(cells, i + 2) /\ CmAfter(cells, i + 2).ok /\ TU!Value(CmAfter(cells, i + 2)) = a.length
    BY <1>1, <1>2, <1>4, CmAddress, CmNext
  <2>2. TU!Take(CmAfter(cells, i + 2), a.length) = CmAfter(cells, i + 3)
    BY <1>1, <1>2, <1>4, CmAddress, CmNext
  <2>3. TU!Take(CmAfter(cells, i + 3), 2) = CmAfter(cells, i + 4)
    BY <1>1, <1>2, <1>4, CmAddress, CmNext
  <2>4. (a.length + 1) % 256 # 0
    BY <1>4, CmWritten
  <2>5. TU!ReadAddress(CmAfter(cells, i)) = CmAfter(cells, i + 4)
    BY <1>3, <1>4, <2>1, <2>2, <2>3, <2>4 DEF TU!ReadAddress
  <2>6. QED
    BY <1>4, <2>5, CmWritten, CmAddress
<1>5. CASE a.kind # 0
  <2>1. TU!Take(CmAfter(cells, i + 1), IF a.kind = 1 THEN 4 ELSE 16) = CmAfter(cells, i + 2)
    <3>1. PICK n : n = IF a.kind = 1 THEN 4 ELSE 16
      OBVIOUS
    <3>2. cells[i + 1 + 1] = <<n, a.value>> /\ i + 1 + 1 <= Len(cells)
      BY <1>1, <1>2, <1>5, <3>1, CmAddress
    <3>3. TU!Take(CmAfter(cells, i + 1), n) = CmAfter(cells, i + 1 + 1)
      BY <1>2, <3>2, CmNext
    <3>4. QED
      BY <1>2, <3>1, <3>3
  <2>2. TU!Take(CmAfter(cells, i + 2), 2) = CmAfter(cells, i + 3)
    <3>0. cells[i + 3] = <<2, a.port>> /\ i + 3 <= Len(cells)
      BY <1>5, CmAddress
    <3>1. cells[i + 2 + 1] = <<2, a.port>> /\ i + 2 + 1 <= Len(cells)
      BY <3>0, <1>2
    <3>2. QED
      BY <1>2, <3>1, CmNext
  <2>3. TU!ReadAddress(CmAfter(cells, i)) = CmAfter(cells, i + 3)
    <3>1. CASE a.kind = 1
      BY <3>1, <1>3, <2>1, <2>2 DEF TU!ReadAddress
    <3>2. CASE a.kind = 2
      BY <3>2, <1>3, <2>1, <2>2 DEF TU!ReadAddress
    <3>3. QED
      BY <3>1, <3>2, <1>1, <1>5
  <2>4. QED
    BY <1>5, <2>3, CmWritten, CmAddress
<1>6. QED
  BY <1>4, <1>5

\* What holds of a command whose name, if it has one, is not too long
CmReads(c) ==
  /\ TU!Written(c) \in Seq(CmCells) /\ Len(TU!Written(c)) \in Nat \ {0}
  /\ \A cells \in Seq(CmCells) : CmHolds(cells, 0, TU!Written(c)) =>
       Len(TU!Written(c)) <= Len(cells) /\ TU!ReadCommand(cells) = CmAfter(cells, Len(TU!Written(c)))

LEMMA CmHead ==
  ASSUME NEW type \in Nat
  PROVE  /\ TU!CommandHead(type) \in Seq(CmCells) /\ Len(TU!CommandHead(type)) = 2
         /\ \A cells \in Seq(CmCells) : CmHolds(cells, 0, TU!CommandHead(type)) =>
              /\ 2 <= Len(cells) /\ TU!Take(TU!Take(TU!Reader(cells), 1), 1) = CmAfter(cells, 2)
              /\ CmAfter(cells, 2).ok /\ TU!Value(CmAfter(cells, 2)) = type
<1>1. TU!CommandHead(type) = << <<1, 4>>, <<1, type>> >>
  BY DEF TU!CommandHead, TU!Byte
<1>2. << <<1, 4>>, <<1, type>> >> \in Seq(CmCells)
  BY DEF CmCells
<1>3. ASSUME NEW cells \in Seq(CmCells), CmHolds(cells, 0, TU!CommandHead(type))
      PROVE  /\ 2 <= Len(cells) /\ TU!Take(TU!Take(TU!Reader(cells), 1), 1) = CmAfter(cells, 2)
             /\ CmAfter(cells, 2).ok /\ TU!Value(CmAfter(cells, 2)) = type
  <2>1. 0 + 2 <= Len(cells) /\ cells[0 + 1] = <<1, 4>> /\ cells[0 + 2] = <<1, type>>
    BY <1>1, <1>3, CmTwo
  <2>2. 0 + 1 = 1 /\ 0 + 2 = 2 /\ 1 + 1 = 2 /\ Len(cells) \in Nat
    BY LenProperties
  <2>3. TU!Reader(cells) = CmAfter(cells, 0)
    BY CmStarts
  <2>4. TU!Take(CmAfter(cells, 0), 1) = CmAfter(cells, 1)
    BY <2>1, <2>2, CmNext
  <2>5. TU!Take(CmAfter(cells, 1), 1) = CmAfter(cells, 2) /\ CmAfter(cells, 2).ok /\ TU!Value(CmAfter(cells, 2)) = type
    BY <2>1, <2>2, CmNext
  <2>6. QED
    BY <2>1, <2>2, <2>3, <2>4, <2>5
<1>4. QED
  BY <1>1, <1>2, <1>3

\* A command of a head and one more cell
LEMMA CmShort ==
  ASSUME NEW type \in Nat, NEW n \in Nat, NEW v \in Nat \cup {"ip", "host", "token", "data"}
  PROVE  /\ TU!CommandHead(type) \o << <<n, v>> >> \in Seq(CmCells) /\ Len(TU!CommandHead(type) \o << <<n, v>> >>) = 3
         /\ \A cells \in Seq(CmCells) : CmHolds(cells, 0, TU!CommandHead(type) \o << <<n, v>> >>) =>
              /\ CmHolds(cells, 0, TU!CommandHead(type)) /\ 3 <= Len(cells)
              /\ TU!Take(CmAfter(cells, 2), n) = CmAfter(cells, 3)
<1>1. << <<n, v>> >> \in Seq(CmCells) /\ Len(<< <<n, v>> >>) = 1
  BY DEF CmCells
<1>2. TU!CommandHead(type) \in Seq(CmCells) /\ Len(TU!CommandHead(type)) = 2
  BY CmHead
<1>3. ASSUME NEW cells \in Seq(CmCells), CmHolds(cells, 0, TU!CommandHead(type) \o << <<n, v>> >>)
      PROVE  /\ CmHolds(cells, 0, TU!CommandHead(type)) /\ 3 <= Len(cells)
             /\ TU!Take(CmAfter(cells, 2), n) = CmAfter(cells, 3)
  <2>1. CmHolds(cells, 0, TU!CommandHead(type)) /\ CmHolds(cells, 0 + Len(TU!CommandHead(type)), << <<n, v>> >>)
    BY <1>1, <1>2, <1>3, CmSplit
  <2>2. 0 + Len(TU!CommandHead(type)) = 2 /\ 2 + 1 = 3
    BY <1>2
  <2>3. CmHolds(cells, 2, << <<n, v>> >>)
    BY <2>1, <2>2, Zenon
  <2>4. 2 + 1 <= Len(cells) /\ cells[2 + 1] = <<n, v>>
    BY <2>3, CmOne
  <2>5. QED
    BY <2>1, <2>2, <2>4, CmNext
<1>4. /\ TU!CommandHead(type) \o << <<n, v>> >> \in Seq(CmCells)
      /\ Len(TU!CommandHead(type) \o << <<n, v>> >>) = Len(TU!CommandHead(type)) + Len(<< <<n, v>> >>)
  BY <1>1, <1>2, CmJoins
<1>5. QED
  BY <1>1, <1>2, <1>3, <1>4

LEMMA CmShortForm ==
  ASSUME NEW type \in Nat, NEW n \in Nat, NEW v \in Nat \cup {"ip", "host", "token", "data"}
  PROVE  /\ TU!CommandHead(type) \o << <<n, v>> >> \in Seq(CmCells)
         /\ Len(TU!CommandHead(type) \o << <<n, v>> >>) = 3
BY CmShort, Zenon

LEMMA CmAuthenticate == ASSUME NEW c \in [type : {0}, token : {"token"}] PROVE CmReads(c)
<1>0. PICK v \in Nat \cup {"ip", "host", "token", "data"} : v = c.token
  OBVIOUS
<1>1. c.type = 0 /\ TU!Written(c) = TU!CommandHead(0) \o << <<32, v>> >>
  BY <1>0 DEF TU!Written, TU!WriteAuthenticate
<1>2. ASSUME NEW cells \in Seq(CmCells), CmHolds(cells, 0, TU!Written(c))
      PROVE  3 <= Len(cells) /\ TU!ReadCommand(cells) = CmAfter(cells, 3)
  <2>1. CmHolds(cells, 0, TU!CommandHead(0)) /\ 3 <= Len(cells) /\ TU!Take(CmAfter(cells, 2), 32) = CmAfter(cells, 3)
    <3>1. 0 \in Nat /\ 32 \in Nat /\ v \in Nat \cup {"ip", "host", "token", "data"}
      BY <1>0
    <3>2. CmHolds(cells, 0, TU!CommandHead(0) \o << <<32, v>> >>)
      BY <1>1, <1>2, Zenon
    <3>3. QED
      BY <1>2, <3>1, <3>2, CmShort
  <2>2. QED
    BY <2>1, CmHead DEF TU!ReadCommand, TU!ReadAuthenticate
<1>3. TU!Written(c) \in Seq(CmCells) /\ Len(TU!Written(c)) = 3
  <2>1. 0 \in Nat /\ 32 \in Nat
    OBVIOUS
  <2>2. /\ TU!CommandHead(0) \o << <<32, v>> >> \in Seq(CmCells)
        /\ Len(TU!CommandHead(0) \o << <<32, v>> >>) = 3
    BY <2>1, <1>0, CmShortForm
  <2>3. QED
    BY <1>1, <2>2, Zenon
<1>4. QED
  BY <1>2, <1>3 DEF CmReads

LEMMA CmDissociate == ASSUME NEW c \in [type : {3}, assoc : {7}] PROVE CmReads(c)
<1>1. c.type = 3 /\ c.assoc = 7 /\ TU!Written(c) = TU!CommandHead(3) \o << <<4, 7>> >>
  BY DEF TU!Written, TU!WriteDissociate
<1>2. ASSUME NEW cells \in Seq(CmCells), CmHolds(cells, 0, TU!Written(c))
      PROVE  3 <= Len(cells) /\ TU!ReadCommand(cells) = CmAfter(cells, 3)
  <2>1. CmHolds(cells, 0, TU!CommandHead(3)) /\ 3 <= Len(cells) /\ TU!Take(CmAfter(cells, 2), 4) = CmAfter(cells, 3)
    <3>1. 3 \in Nat /\ 4 \in Nat /\ 7 \in Nat \cup {"ip", "host", "token", "data"}
      BY <1>1
    <3>2. CmHolds(cells, 0, TU!CommandHead(3) \o << <<4, 7>> >>)
      BY <1>1, <1>2, Zenon
    <3>3. QED
      BY <1>2, <3>1, <3>2, CmShort
  <2>2. QED
    BY <2>1, CmHead DEF TU!ReadCommand, TU!ReadDissociate
<1>3. TU!Written(c) \in Seq(CmCells) /\ Len(TU!Written(c)) = 3
  <2>1. 3 \in Nat /\ 4 \in Nat /\ 7 \in Nat \cup {"ip", "host", "token", "data"}
    BY <1>1
  <2>2. /\ TU!CommandHead(3) \o << <<4, 7>> >> \in Seq(CmCells)
        /\ Len(TU!CommandHead(3) \o << <<4, 7>> >>) = 3
    BY <2>1, CmShortForm
  <2>3. QED
    BY <1>1, <2>2, Zenon
<1>4. QED
  BY <1>2, <1>3 DEF CmReads

LEMMA CmResponse == ASSUME NEW c \in [type : {255}, rep : {0, 255}] PROVE CmReads(c)
<1>0. PICK v \in Nat : v = c.rep
  OBVIOUS
<1>1. c.type = 255 /\ TU!Written(c) = TU!CommandHead(255) \o << <<1, v>> >>
  BY <1>0 DEF TU!Written, TU!WriteResponse, TU!Byte
<1>2. ASSUME NEW cells \in Seq(CmCells), CmHolds(cells, 0, TU!Written(c))
      PROVE  3 <= Len(cells) /\ TU!ReadCommand(cells) = CmAfter(cells, 3)
  <2>1. CmHolds(cells, 0, TU!CommandHead(255)) /\ 3 <= Len(cells) /\ TU!Take(CmAfter(cells, 2), 1) = CmAfter(cells, 3)
    <3>1. 255 \in Nat /\ 1 \in Nat /\ v \in Nat \cup {"ip", "host", "token", "data"}
      BY <1>0
    <3>2. CmHolds(cells, 0, TU!CommandHead(255) \o << <<1, v>> >>)
      BY <1>1, <1>2
    <3>3. QED
      BY <1>2, <3>1, <3>2, CmShort
  <2>2. QED
    BY <2>1, CmHead DEF TU!ReadCommand, TU!ReadResponse
<1>3. TU!Written(c) \in Seq(CmCells) /\ Len(TU!Written(c)) = 3
  <2>1. 255 \in Nat /\ 1 \in Nat /\ v \in Nat \cup {"ip", "host", "token", "data"}
    BY <1>0
  <2>2. /\ TU!CommandHead(255) \o << <<1, v>> >> \in Seq(CmCells)
        /\ Len(TU!CommandHead(255) \o << <<1, v>> >>) = 3
    BY <2>1, CmShortForm
  <2>3. QED
    BY <1>1, <2>2
<1>4. QED
  BY <1>2, <1>3 DEF CmReads

LEMMA CmHeartbeat == ASSUME NEW c \in [type : {4}] PROVE CmReads(c)
<1>1. c.type = 4 /\ TU!Written(c) = TU!CommandHead(4)
  BY DEF TU!Written, TU!WriteHeartbeat
<1>2. ASSUME NEW cells \in Seq(CmCells), CmHolds(cells, 0, TU!Written(c))
      PROVE  2 <= Len(cells) /\ TU!ReadCommand(cells) = CmAfter(cells, 2)
  BY <1>1, <1>2, CmHead DEF TU!ReadCommand
<1>3. TU!Written(c) \in Seq(CmCells) /\ Len(TU!Written(c)) = 2
  BY <1>1, CmHead
<1>4. QED
  BY <1>2, <1>3 DEF CmReads

LEMMA CmAddresses == ASSUME NEW a \in TU!Addresses, a.kind = 0 => a.length < 255 PROVE CmFits(a)
<1>1. HostLengths \subseteq Nat
  BY RelaysAssumption
<1>2. CASE a \in [kind : {1, 2}, length : {0}, value : {"ip"}, port : {80}]
  BY <1>2 DEF CmFits
<1>3. CASE a \in [kind : {0}, length : HostLengths, value : {"host"}, port : {80}]
  <2>1. a.kind = 0 /\ a.length \in HostLengths /\ a.value = "host" /\ a.port = 80
    BY <1>3
  <2>2. a.length \in Nat
    BY <1>1, <2>1
  <2>3. a.length \in 0 .. 254
    BY <2>1, <2>2
  <2>4. QED
    BY <2>1, <2>3 DEF CmFits
<1>4. QED
  BY <1>2, <1>3 DEF TU!Addresses

LEMMA CmAddressIs == ASSUME NEW a, CmFits(a) PROVE TU!WriteAddress(a) \in Seq(CmCells)
BY CmWritten

LEMMA CmConnect == ASSUME NEW c \in [type : {1}, addr : TU!Addresses], CmFits(c.addr) PROVE CmReads(c)
<1>1. c.type = 1 /\ c.addr \in TU!Addresses /\ TU!Written(c) = TU!CommandHead(1) \o TU!WriteAddress(c.addr)
  BY DEF TU!Written, TU!WriteConnect
<1>2. PICK w \in Seq(CmCells) : w = TU!WriteAddress(c.addr)
  BY <1>1, CmAddressIs
<1>3. PICK h \in Seq(CmCells) : h = TU!CommandHead(1) /\ Len(h) = 2
  BY CmHead
<1>4. TU!Written(c) = h \o w /\ TU!Written(c) \in Seq(CmCells) /\ Len(TU!Written(c)) = 2 + Len(w) /\ Len(w) \in Nat
  <2>1. TU!Written(c) = h \o w
    BY <1>1, <1>2, <1>3
  <2>2. h \o w \in Seq(CmCells) /\ Len(h \o w) = Len(h) + Len(w) /\ Len(w) \in Nat
    BY CmJoins
  <2>3. QED
    BY <1>3, <2>1, <2>2
<1>5. ASSUME NEW cells \in Seq(CmCells), CmHolds(cells, 0, TU!Written(c))
      PROVE  2 + Len(w) <= Len(cells) /\ TU!ReadCommand(cells) = CmAfter(cells, 2 + Len(w))
  <2>1. CmHolds(cells, 0, h) /\ CmHolds(cells, 0 + Len(h), w)
    BY <1>4, <1>5, CmSplit
  <2>2. CmHolds(cells, 2, w)
    <3>1. 0 + Len(h) = 2
      BY <1>3
    <3>2. QED
      BY <2>1, <3>1, Zenon
  <2>3. TU!ReadAddress(CmAfter(cells, 2)) = CmAfter(cells, 2 + Len(w)) /\ 2 + Len(w) <= Len(cells)
    BY <1>1, <1>2, <2>2, CmReadsAddress
  <2>4. TU!Take(TU!Take(TU!Reader(cells), 1), 1) = CmAfter(cells, 2) /\ CmAfter(cells, 2).ok /\ TU!Value(CmAfter(cells, 2)) = 1
    BY <1>3, <2>1, CmHead
  <2>5. QED
    BY <2>3, <2>4 DEF TU!ReadCommand, TU!ReadConnect
<1>6. QED
  BY <1>4, <1>5 DEF CmReads

CmPacketHeld(cells, c) ==
  /\ CmHolds(cells, 0, TU!CommandHead(2)) /\ cells[3] = <<4, c.assoc>> /\ cells[4] = <<2, c.size>>
  /\ CmHolds(cells, 4, TU!WriteAddress(c.addr)) /\ 5 + Len(TU!WriteAddress(c.addr)) <= Len(cells)
  /\ cells[5 + Len(TU!WriteAddress(c.addr))] = <<c.size, c.data>>

LEMMA CmPacket ==
  ASSUME NEW c, CmFits(c.addr), c.assoc \in Nat, c.size \in Nat,
         c.data \in Nat \cup {"ip", "host", "token", "data"}
  PROVE  /\ TU!WritePacket(c) \in Seq(CmCells) /\ Len(TU!WritePacket(c)) = 5 + Len(TU!WriteAddress(c.addr))
         /\ \A cells : CmHolds(cells, 0, TU!WritePacket(c)) => CmPacketHeld(cells, c)
<1>1. PICK h \in Seq(CmCells) : h = TU!CommandHead(2) /\ Len(h) = 2
  BY CmHead
<1>2. PICK m \in Seq(CmCells) : m = << <<4, c.assoc>>, <<2, c.size>> >> /\ Len(m) = 2
  <2>1. << <<4, c.assoc>>, <<2, c.size>> >> \in Seq(CmCells) /\ Len(<< <<4, c.assoc>>, <<2, c.size>> >>) = 2
    BY DEF CmCells
  <2>2. QED
    BY <2>1
<1>3. PICK w \in Seq(CmCells) : w = TU!WriteAddress(c.addr)
  BY CmAddressIs
<1>4. PICK d \in Seq(CmCells) : d = << <<c.size, c.data>> >> /\ Len(d) = 1
  <2>1. << <<c.size, c.data>> >> \in Seq(CmCells) /\ Len(<< <<c.size, c.data>> >>) = 1
    BY DEF CmCells
  <2>2. QED
    BY <2>1
<1>5. TU!WritePacket(c) = ((h \o m) \o w) \o d
  BY <1>1, <1>2, <1>3, <1>4 DEF TU!WritePacket
<1>6. h \o m \in Seq(CmCells) /\ Len(h \o m) = 4
  <2>1. h \o m \in Seq(CmCells) /\ Len(h \o m) = Len(h) + Len(m)
    BY CmJoins
  <2>2. Len(h) = 2
    BY <1>1
  <2>3. Len(m) = 2
    BY <1>2
  <2>4. QED
    BY <2>1, <2>2, <2>3
<1>7. (h \o m) \o w \in Seq(CmCells) /\ Len((h \o m) \o w) = 4 + Len(w) /\ Len(w) \in Nat
  BY <1>6, CmJoins
<1>8. TU!WritePacket(c) \in Seq(CmCells) /\ Len(TU!WritePacket(c)) = 5 + Len(w)
  <2>1. ((h \o m) \o w) \o d \in Seq(CmCells) /\ Len(((h \o m) \o w) \o d) = Len((h \o m) \o w) + Len(d)
    BY <1>7, CmJoins
  <2>2. QED
    BY <2>1, <1>4, <1>5, <1>7
<1>9. ASSUME NEW cells, CmHolds(cells, 0, TU!WritePacket(c)) PROVE CmPacketHeld(cells, c)
  <2>1. CmHolds(cells, 0, (h \o m) \o w) /\ CmHolds(cells, 0 + Len((h \o m) \o w), d)
    BY <1>5, <1>7, <1>9, CmSplit
  <2>2. CmHolds(cells, 0, h \o m) /\ CmHolds(cells, 0 + Len(h \o m), w)
    BY <1>6, <2>1, CmSplit
  <2>3. CmHolds(cells, 0, h) /\ CmHolds(cells, 0 + Len(h), m)
    BY <2>2, CmSplit
  <2>4. 0 + Len(h) = 2 /\ 0 + Len(h \o m) = 4 /\ 0 + Len((h \o m) \o w) = 4 + Len(w)
    BY <1>1, <1>6, <1>7
  <2>5. CmHolds(cells, 2, m) /\ CmHolds(cells, 4, w) /\ CmHolds(cells, 4 + Len(w), d)
    BY <2>1, <2>2, <2>3, <2>4, Zenon
  <2>6. cells[2 + 1] = <<4, c.assoc>> /\ cells[2 + 2] = <<2, c.size>>
    BY <1>2, <2>5, CmTwo
  <2>7. 4 + Len(w) + 1 <= Len(cells) /\ cells[4 + Len(w) + 1] = <<c.size, c.data>>
    BY <1>4, <2>5, CmOne
  <2>8. 4 + Len(w) + 1 = 5 + Len(w) /\ 2 + 1 = 3 /\ 2 + 2 = 4
    BY <1>7
  <2>9. QED
    BY <1>1, <1>3, <2>3, <2>5, <2>6, <2>7, <2>8 DEF CmPacketHeld
<1>10. QED
  BY <1>1, <1>3, <1>8, <1>9

LEMMA CmReadsPacket ==
  ASSUME NEW c \in [type : {2}, assoc : {7}, size : {0, 1200}, addr : TU!Addresses, data : {"data"}], CmFits(c.addr)
  PROVE  CmReads(c)
<1>1. /\ c.addr \in TU!Addresses /\ c.type = 2 /\ c.assoc \in Nat /\ c.size \in Nat
      /\ c.data \in Nat \cup {"ip", "host", "token", "data"} /\ TU!Written(c) = TU!WritePacket(c)
  BY DEF TU!Written
<1>2. PICK w \in Seq(CmCells) : w = TU!WriteAddress(c.addr) /\ Len(w) \in Nat
  <2>1. TU!WriteAddress(c.addr) \in Seq(CmCells)
    BY CmAddressIs
  <2>2. QED
    BY <2>1, LenProperties
<1>3. TU!Written(c) \in Seq(CmCells) /\ Len(TU!Written(c)) = 5 + Len(w)
  BY <1>1, <1>2, CmPacket
<1>4. ASSUME NEW cells \in Seq(CmCells), CmHolds(cells, 0, TU!Written(c))
      PROVE  5 + Len(w) <= Len(cells) /\ TU!ReadCommand(cells) = CmAfter(cells, 5 + Len(w))
  <2>1. /\ CmHolds(cells, 0, TU!CommandHead(2)) /\ cells[3] = <<4, c.assoc>> /\ cells[4] = <<2, c.size>>
        /\ CmHolds(cells, 4, w) /\ 5 + Len(w) <= Len(cells) /\ cells[5 + Len(w)] = <<c.size, c.data>>
    <3>1. CmHolds(cells, 0, TU!WritePacket(c))
      BY <1>1, <1>4
    <3>2. CmPacketHeld(cells, c)
      BY <1>1, <3>1, CmPacket
    <3>3. QED
      BY <1>2, <3>2 DEF CmPacketHeld
  <2>2. TU!Take(TU!Take(TU!Reader(cells), 1), 1) = CmAfter(cells, 2) /\ CmAfter(cells, 2).ok /\ TU!Value(CmAfter(cells, 2)) = 2
    BY <2>1, CmHead
  <2>3. 2 + 1 = 3 /\ 3 + 1 = 4 /\ 3 <= Len(cells) /\ 4 <= Len(cells) /\ 4 + Len(w) \in Nat /\ 4 + Len(w) + 1 = 5 + Len(w)
    BY <1>2, <2>1, LenProperties
  <2>4. TU!Take(CmAfter(cells, 2), 4) = CmAfter(cells, 3)
    BY <2>1, <2>3, CmNext
  <2>5. TU!Take(CmAfter(cells, 3), 2) = CmAfter(cells, 4) /\ TU!Value(CmAfter(cells, 4)) = c.size
    BY <2>1, <2>3, CmNext
  <2>6. TU!ReadAddress(CmAfter(cells, 4)) = CmAfter(cells, 4 + Len(w))
    BY <1>1, <1>2, <2>1, CmReadsAddress
  <2>7. CmAfter(cells, 4 + Len(w)).ok
    BY DEF CmAfter
  <2>8. TU!Take(CmAfter(cells, 4 + Len(w)), c.size) = CmAfter(cells, 5 + Len(w))
    <3>1. cells[4 + Len(w) + 1] = <<c.size, c.data>> /\ 4 + Len(w) + 1 <= Len(cells)
      BY <2>1, <2>3
    <3>2. TU!Take(CmAfter(cells, 4 + Len(w)), c.size) = CmAfter(cells, 4 + Len(w) + 1)
      BY <3>1, <2>3, CmNext
    <3>3. QED
      BY <3>2, <2>3
  <2>9. TU!ReadPacket(CmAfter(cells, 2)) = CmAfter(cells, 5 + Len(w))
    BY <2>4, <2>5, <2>6, <2>7, <2>8 DEF TU!ReadPacket
  <2>10. QED
    BY <2>1, <2>2, <2>9 DEF TU!ReadCommand
<1>5. QED
  BY <1>2, <1>3, <1>4 DEF CmReads

CmSound(c) == TU!Named(c) => c.addr.length < 255

LEMMA CmCommand == ASSUME NEW c \in TU!Commands, CmSound(c) PROVE CmReads(c)
<1>1. CASE c \in [type : {0}, token : {"token"}]
  BY <1>1, CmAuthenticate
<1>2. CASE c \in [type : {1}, addr : TU!Addresses]
  <2>1. CmFits(c.addr)
    BY <1>2, CmAddresses DEF CmSound, TU!Named
  <2>2. QED
    BY <1>2, <2>1, CmConnect
<1>3. CASE c \in [type : {2}, assoc : {7}, size : {0, 1200}, addr : TU!Addresses, data : {"data"}]
  <2>1. CmFits(c.addr)
    BY <1>3, CmAddresses DEF CmSound, TU!Named
  <2>2. QED
    BY <1>3, <2>1, CmReadsPacket
<1>4. CASE c \in [type : {3}, assoc : {7}]
  BY <1>4, CmDissociate
<1>5. CASE c \in [type : {4}]
  BY <1>5, CmHeartbeat
<1>6. CASE c \in [type : {255}, rep : {0, 255}]
  BY <1>6, CmResponse
<1>7. QED
  BY <1>1, <1>2, <1>3, <1>4, <1>5, <1>6 DEF TU!Commands

\* A sum over the cells of a stream, by steps
LEMMA CmEight ==
  ASSUME NEW cells, Len(cells) = 8, \A i \in 1 .. 8 : cells[i][1] \in Nat
  PROVE  TU!SizeOf(cells) = cells[1][1] + cells[2][1] + cells[3][1] + cells[4][1] + cells[5][1] + cells[6][1] + cells[7][1] + cells[8][1]
<1>1. PICK a \in Nat, b \in Nat, c \in Nat, d \in Nat, e \in Nat, x \in Nat, y \in Nat, z \in Nat :
        /\ cells[1][1] = a /\ cells[2][1] = b /\ cells[3][1] = c /\ cells[4][1] = d
        /\ cells[5][1] = e /\ cells[6][1] = x /\ cells[7][1] = y /\ cells[8][1] = z
  <2>1. /\ cells[1][1] \in Nat /\ cells[2][1] \in Nat /\ cells[3][1] \in Nat /\ cells[4][1] \in Nat
        /\ cells[5][1] \in Nat /\ cells[6][1] \in Nat /\ cells[7][1] \in Nat /\ cells[8][1] \in Nat
    OBVIOUS
  <2>2. QED
    BY <2>1, Zenon
<1> DEFINE g == [i \in 0 .. 8 |-> IF i = 0 THEN 0 ELSE IF i = 1 THEN a ELSE IF i = 2 THEN a + b ELSE IF i = 3 THEN a + b + c
                   ELSE IF i = 4 THEN a + b + c + d ELSE IF i = 5 THEN a + b + c + d + e ELSE IF i = 6 THEN a + b + c + d + e + x
                   ELSE IF i = 7 THEN a + b + c + d + e + x + y ELSE a + b + c + d + e + x + y + z]
<1>2. DOMAIN g = 0 .. 8 /\ g = [i \in 0 .. 8 |-> g[i]]
  OBVIOUS
<1>3. ASSUME NEW i \in 0 .. 8 PROVE g[i] = IF i = 0 THEN 0 ELSE g[i - 1] + cells[i][1]
  <2>1. i = 0 \/ i = 1 \/ i = 2 \/ i = 3 \/ i = 4 \/ i = 5 \/ i = 6 \/ i = 7 \/ i = 8
    OBVIOUS
  <2>2. /\ g[0] = 0 /\ g[1] = a /\ g[2] = a + b /\ g[3] = a + b + c /\ g[4] = a + b + c + d /\ g[5] = a + b + c + d + e
        /\ g[6] = a + b + c + d + e + x /\ g[7] = a + b + c + d + e + x + y /\ g[8] = a + b + c + d + e + x + y + z
    OBVIOUS
  <2> HIDE DEF g
  <2>3. QED
    BY <1>1, <2>1, <2>2
<1> HIDE DEF g
<1>4. g = [i \in 0 .. Len(cells) |-> IF i = 0 THEN 0 ELSE g[i - 1] + cells[i][1]]
  BY <1>2, <1>3
<1>5. PICK f : /\ f = [i \in 0 .. Len(cells) |-> IF i = 0 THEN 0 ELSE f[i - 1] + cells[i][1]]
               /\ TU!SizeOf(cells) = f[Len(cells)]
  BY <1>4, CmSums
<1>6. PICK h : h = [i \in 0 .. 8 |-> IF i = 0 THEN 0 ELSE f[i - 1] + cells[i][1]]
  OBVIOUS
<1>7. h = f
  BY <1>5, <1>6
<1>8. h[0] = 0 /\ h[1] = f[0] + a /\ h[2] = f[1] + b /\ h[3] = f[2] + c /\ h[4] = f[3] + d
      /\ h[5] = f[4] + e /\ h[6] = f[5] + x /\ h[7] = f[6] + y /\ h[8] = f[7] + z
  BY <1>1, <1>6
<1>9. f[8] = a + b + c + d + e + x + y + z
  BY <1>7, <1>8
<1>10. TU!SizeOf(cells) = f[8]
  BY <1>5
<1>11. QED
  BY <1>1, <1>9, <1>10

\* A packet to an address that is no name: eight cells
LEMMA CmOverhead ==
  ASSUME NEW c, CmFits(c.addr), c.addr.kind # 0, c.assoc \in Nat, c.size \in Nat,
         c.data \in Nat \cup {"ip", "host", "token", "data"}
  PROVE  TU!SizeOf(TU!WritePacket(c)) = 11 + (IF c.addr.kind = 1 THEN 4 ELSE 16) + c.size
<1>1. PICK w \in Seq(CmCells) : w = TU!WritePacket(c) /\ Len(w) = 8 /\ Len(TU!WriteAddress(c.addr)) = 3
  <2>1. Len(TU!WriteAddress(c.addr)) = 3
    BY CmWritten
  <2>2. TU!WritePacket(c) \in Seq(CmCells) /\ Len(TU!WritePacket(c)) = 5 + Len(TU!WriteAddress(c.addr))
    BY CmPacket
  <2>3. QED
    BY <2>1, <2>2
<1>2. CmHolds(w, 0, w)
  BY LenProperties DEF CmHolds
<1>3. /\ CmHolds(w, 0, TU!CommandHead(2)) /\ w[3] = <<4, c.assoc>> /\ w[4] = <<2, c.size>>
      /\ CmHolds(w, 4, TU!WriteAddress(c.addr)) /\ w[5 + Len(TU!WriteAddress(c.addr))] = <<c.size, c.data>>
  BY <1>1, <1>2, CmPacket DEF CmPacketHeld
<1>4. w[1] = <<1, 4>> /\ w[2] = <<1, 2>>
  <2>1. TU!CommandHead(2) = << <<1, 4>>, <<1, 2>> >>
    BY DEF TU!CommandHead, TU!Byte
  <2>2. w[0 + 1] = <<1, 4>> /\ w[0 + 2] = <<1, 2>>
    BY <1>3, <2>1, CmTwo
  <2>3. QED
    BY <2>2
<1>5. PICK n \in Nat : n = IF c.addr.kind = 1 THEN 4 ELSE 16
  OBVIOUS
<1>6. w[5] = <<1, c.addr.kind>> /\ w[6] = <<n, c.addr.value>> /\ w[7] = <<2, c.addr.port>>
  <2>1. w[4 + 1] = <<1, c.addr.kind>> /\ w[4 + 2] = <<n, c.addr.value>> /\ w[4 + 3] = <<2, c.addr.port>>
    BY <1>3, <1>5, CmAddress
  <2>2. QED
    BY <2>1
<1>7. w[8] = <<c.size, c.data>>
  BY <1>1, <1>3
<1>8. TU!SizeOf(w) = 1 + 1 + 4 + 2 + 1 + n + 2 + c.size
  <2>1. /\ w[1][1] = 1 /\ w[2][1] = 1 /\ w[3][1] = 4 /\ w[4][1] = 2 /\ w[5][1] = 1 /\ w[6][1] = n /\ w[7][1] = 2
        /\ w[8][1] = c.size
    BY <1>3, <1>4, <1>6, <1>7
  <2>2. \A i \in 1 .. 8 : w[i][1] \in Nat
    <3>0. Len(w) = 8
      BY <1>1
    <3>1. \A i \in 1 .. 8 : w[i] \in CmCells
      BY <3>0, LenProperties
    <3>2. QED
      BY <3>1 DEF CmCells
  <2>3. QED
    BY <1>1, <2>1, <2>2, CmEight
<1>9. QED
  BY <1>1, <1>5, <1>8

-----------------------------------------------------------------------------
(* A stream of two commands: as long as both can be read, what is left of it *)
(* begins with a command, or is empty.                                     *)

CmStage(t, a, b) ==
  \/ t.read = << >> /\ t.cells = TU!Written(a) \o TU!Written(b)
  \/ t.read = <<TU!ValuesOf(a)>> /\ t.cells = TU!Written(b)
  \/ t.read = <<TU!ValuesOf(a), TU!ValuesOf(b)>> /\ t.cells = << >>
CmInv(t) ==
  \E a \in TU!Commands, b \in TU!Commands :
    /\ t = [sent |-> <<a, b>>, cells |-> t.cells, read |-> t.read, ok |-> t.ok]
    /\ CmSound(a) /\ CmSound(b) => t.ok = TRUE /\ CmStage(t, a, b)

LEMMA CmInitially == ASSUME TU!CommandsInit PROVE CmInv(s)
<1>1. PICK a \in TU!Commands, b \in TU!Commands :
        s = [sent |-> <<a, b>>, cells |-> TU!Written(a) \o TU!Written(b), read |-> << >>, ok |-> TRUE]
  BY DEF TU!CommandsInit
<1>2. s.cells = TU!Written(a) \o TU!Written(b) /\ s.read = << >> /\ s.ok = TRUE
  BY <1>1
<1>3. QED
  BY <1>1, <1>2, Zenon DEF CmInv, CmStage

\* A command that is followed by others is read, and they are left.
LEMMA CmCut ==
  ASSUME NEW c, CmReads(c), NEW rest \in Seq(CmCells)
  PROVE  /\ TU!Written(c) \o rest # << >> /\ TU!ReadCommand(TU!Written(c) \o rest).rest = rest
         /\ TU!ReadCommand(TU!Written(c) \o rest).got = TU!ValuesOf(c) /\ TU!ReadCommand(TU!Written(c) \o rest).ok = TRUE
<1>1. PICK w \in Seq(CmCells) : w = TU!Written(c) /\ Len(w) \in Nat \ {0}
  BY DEF CmReads
<1>2. PICK cells \in Seq(CmCells) : cells = w \o rest /\ Len(cells) = Len(w) + Len(rest) /\ Len(rest) \in Nat
  BY CmJoins
<1>3. /\ \A j \in 1 .. Len(w) : j \in DOMAIN cells /\ cells[j] = w[j]
      /\ \A j \in 1 .. Len(rest) : cells[Len(w) + j] = rest[j]
  BY <1>2, CmJoins
<1>4. CmHolds(cells, 0, w)
  <2>1. DOMAIN w = 1 .. Len(w)
    BY LenProperties
  <2>2. \A j \in 1 .. Len(w) : 0 + j <= Len(cells) /\ cells[0 + j] = w[j]
    BY <1>1, <1>2, <1>3
  <2>3. QED
    BY <2>1, <2>2 DEF CmHolds
<1>5. TU!ReadCommand(cells) = CmAfter(cells, Len(w))
  BY <1>1, <1>4 DEF CmReads
<1>6. /\ CmAfter(cells, Len(w)).rest = SubSeq(cells, Len(w) + 1, Len(cells)) /\ CmAfter(cells, Len(w)).ok = TRUE
      /\ CmAfter(cells, Len(w)).got = [j \in 1 .. Len(w) |-> cells[j][2]]
  BY DEF CmAfter
<1>7. SubSeq(cells, Len(w) + 1, Len(cells)) = rest
  <2>1. Len(w) \in 0 .. Len(cells) /\ Len(cells) - Len(w) = Len(rest)
    BY <1>1, <1>2
  <2>2. PICK r \in Seq(CmCells) : /\ r = SubSeq(cells, Len(w) + 1, Len(cells)) /\ Len(r) = Len(rest)
                                  /\ \A j \in 1 .. Len(rest) : r[j] = cells[Len(w) + j]
    BY <2>1, CmFrom
  <2>3. r = rest
    BY <2>2, <1>3, SeqEqual
  <2>4. QED
    BY <2>2, <2>3
<1>8. [j \in 1 .. Len(w) |-> cells[j][2]] = TU!ValuesOf(c)
  <2>1. TU!ValuesOf(c) = [j \in 1 .. Len(w) |-> w[j][2]]
    BY <1>1, LenProperties DEF TU!ValuesOf
  <2>2. QED
    BY <2>1, <1>3
<1>9. cells # << >>
  BY <1>1, <1>2
<1>10. QED
  BY <1>1, <1>2, <1>5, <1>6, <1>7, <1>8, <1>9, Zenon

LEMMA CmPair == ASSUME NEW x, NEW y PROVE Append(<<x>>, y) = <<x, y>>
<1>1. <<x>> \in Seq({x, y}) /\ <<x, y>> \in Seq({x, y}) /\ Len(<<x>>) = 1 /\ Len(<<x, y>>) = 2
  OBVIOUS
<1>2. /\ Append(<<x>>, y) \in Seq({x, y}) /\ Len(Append(<<x>>, y)) = 2
      /\ Append(<<x>>, y)[1] = x /\ Append(<<x>>, y)[2] = y
  BY <1>1, AppendProperties
<1>3. \A i \in 1 .. 2 : Append(<<x>>, y)[i] = <<x, y>>[i]
  BY <1>2
<1>4. QED
  BY <1>1, <1>2, <1>3, SeqEqual

LEMMA CmStep == ASSUME CmInv(s), TU!CommandsNext PROVE CmInv(s')
<1>1. PICK a \in TU!Commands, b \in TU!Commands :
        /\ s = [sent |-> <<a, b>>, cells |-> s.cells, read |-> s.read, ok |-> s.ok]
        /\ CmSound(a) /\ CmSound(b) => s.ok = TRUE /\ CmStage(s, a, b)
  BY Zenon DEF CmInv
<1>2. PICK r : r = TU!ReadCommand(s.cells)
  OBVIOUS
<1>3. s' = [s EXCEPT !.cells = r.rest, !.ok = r.ok, !.read = Append(s.read, r.got)] /\ s.cells # << >>
  BY <1>2 DEF TU!CommandsNext
<1>4. /\ s' = [sent |-> <<a, b>>, cells |-> s'.cells, read |-> s'.read, ok |-> s'.ok]
      /\ s'.cells = r.rest /\ s'.ok = r.ok /\ s'.read = Append(s.read, r.got)
  <2>1. PICK cells, read, ok, got : cells = r.rest /\ got = Append(s.read, r.got) /\ ok = r.ok /\ read = s.read
    OBVIOUS
  <2>2. PICK sent : sent = <<a, b>>
    OBVIOUS
  <2>3. s' = [s EXCEPT !.cells = cells, !.ok = ok, !.read = got]
    BY <1>3, <2>1
  <2>4. s \in [sent : {sent}, cells : {s.cells}, read : {s.read}, ok : {s.ok}]
    BY <1>1, <2>2
  <2>5. s' \in [sent : {sent}, cells : {cells}, read : {got}, ok : {ok}]
    BY <2>3, <2>4
  <2>6. s' = [sent |-> sent, cells |-> s'.cells, read |-> s'.read, ok |-> s'.ok]
    BY <2>5
  <2>7. QED
    BY <2>1, <2>2, <2>5, <2>6
<1>5. ASSUME CmSound(a), CmSound(b) PROVE s'.ok = TRUE /\ CmStage(s', a, b)
  <2>1. CmReads(a) /\ CmReads(b)
    BY <1>5, CmCommand
  <2>2. CASE s.read = << >> /\ s.cells = TU!Written(a) \o TU!Written(b)
    <3>1. TU!Written(b) \in Seq(CmCells)
      BY <2>1 DEF CmReads
    <3>2. r.rest = TU!Written(b) /\ r.got = TU!ValuesOf(a) /\ r.ok = TRUE
      BY <1>2, <2>1, <2>2, <3>1, CmCut, Zenon
    <3>3. Append(<< >>, TU!ValuesOf(a)) = <<TU!ValuesOf(a)>>
      OBVIOUS
    <3>4. QED
      BY <1>4, <2>2, <3>2, <3>3, Zenon DEF CmStage
  <2>3. CASE s.read = <<TU!ValuesOf(a)>> /\ s.cells = TU!Written(b)
    <3>1. TU!Written(b) \o << >> = TU!Written(b) /\ << >> \in Seq(CmCells)
      BY <2>1, ConcatEmptySeq DEF CmReads
    <3>2. r.rest = << >> /\ r.got = TU!ValuesOf(b) /\ r.ok = TRUE
      BY <1>2, <2>1, <2>3, <3>1, CmCut, Zenon
    <3>3. Append(<<TU!ValuesOf(a)>>, TU!ValuesOf(b)) = <<TU!ValuesOf(a), TU!ValuesOf(b)>>
      BY CmPair
    <3>4. QED
      BY <1>4, <2>3, <3>2, <3>3, Zenon DEF CmStage
  <2>4. QED
    BY <1>1, <1>3, <1>5, <2>2, <2>3 DEF CmStage
<1>6. QED
  BY <1>4, <1>5, Zenon DEF CmInv

LEMMA CmRight == ASSUME CmInv(s) PROVE TU!CommandsAreRead
<1>1. PICK a \in TU!Commands, b \in TU!Commands :
        /\ s = [sent |-> <<a, b>>, cells |-> s.cells, read |-> s.read, ok |-> s.ok]
        /\ CmSound(a) /\ CmSound(b) => s.ok = TRUE /\ CmStage(s, a, b)
  BY Zenon DEF CmInv
<1>2. s.sent = <<a, b>> /\ s.sent[1] = a /\ s.sent[2] = b
  BY <1>1
<1>3. TU!PacketOverHead = 27
  <2>1. PICK h : h = [kind |-> 2, value |-> 0, port |-> 0]
    OBVIOUS
  <2>2. PICK c : c = [assoc |-> 0, size |-> 0, addr |-> h, data |-> 0]
    OBVIOUS
  <2>3. h.kind = 2 /\ h.value = 0 /\ h.port = 0 /\ c.addr = h /\ c.assoc = 0 /\ c.size = 0 /\ c.data = 0
    BY <2>1, <2>2
  <2>4. CmFits(c.addr)
    BY <2>3 DEF CmFits
  <2>5. TU!SizeOf(TU!WritePacket(c)) = 11 + (IF c.addr.kind = 1 THEN 4 ELSE 16) + c.size
    BY <2>3, <2>4, CmOverhead
  <2>6. TU!PacketOverHead = TU!SizeOf(TU!WritePacket(c))
    BY <2>1, <2>2, Zenon DEF TU!PacketOverHead
  <2>7. QED
    BY <2>3, <2>5, <2>6
<1>4. ASSUME NEW c \in TU!Commands, c.type = 2, ~TU!Named(c)
      PROVE  TU!SizeOf(TU!Written(c)) <= TU!PacketOverHead + c.size
  <2>1. /\ CmFits(c.addr) /\ c.addr.kind # 0 /\ c.assoc \in Nat /\ c.size \in Nat
        /\ c.data \in Nat \cup {"ip", "host", "token", "data"} /\ TU!Written(c) = TU!WritePacket(c)
    <3>1. c \in [type : {2}, assoc : {7}, size : {0, 1200}, addr : TU!Addresses, data : {"data"}]
      BY <1>4 DEF TU!Commands
    <3>2. c.addr \in TU!Addresses /\ c.addr.kind # 0
      BY <1>4, <3>1 DEF TU!Named
    <3>3. CmFits(c.addr)
      BY <3>2, CmAddresses
    <3>4. QED
      BY <1>4, <3>1, <3>2, <3>3 DEF TU!Written
  <2>2. TU!SizeOf(TU!Written(c)) = 11 + (IF c.addr.kind = 1 THEN 4 ELSE 16) + c.size
    BY <2>1, CmOverhead
  <2>3. QED
    BY <1>3, <2>1, <2>2
<1>5. ASSUME CmSound(a), CmSound(b) PROVE s.ok /\ \A i \in DOMAIN s.read : s.read[i] = TU!ValuesOf(s.sent[i])
  <2>1. s.ok = TRUE /\ CmStage(s, a, b)
    BY <1>1, <1>5
  <2>2. \/ s.read = << >> \/ s.read = <<TU!ValuesOf(a)>> \/ s.read = <<TU!ValuesOf(a), TU!ValuesOf(b)>>
    BY <2>1, Zenon DEF CmStage
  <2>3. CASE s.read = << >>
    BY <2>1, <2>3
  <2>4. CASE s.read = <<TU!ValuesOf(a)>>
    BY <1>2, <2>1, <2>4
  <2>5. CASE s.read = <<TU!ValuesOf(a), TU!ValuesOf(b)>>
    BY <1>2, <2>1, <2>5
  <2>6. QED
    BY <2>2, <2>3, <2>4, <2>5
<1>6. ASSUME NEW i \in 1 .. 2, s.sent[i].type = 2, ~TU!Named(s.sent[i])
      PROVE  TU!SizeOf(TU!Written(s.sent[i])) <= TU!PacketOverHead + s.sent[i].size
  <2>1. s.sent[i] \in TU!Commands
    BY <1>2
  <2>2. QED
    BY <1>4, <1>6, <2>1
<1>7. ASSUME \A i \in 1 .. 2 : TU!Named(s.sent[i]) => s.sent[i].addr.length < 255 PROVE CmSound(a) /\ CmSound(b)
  BY <1>2, <1>7 DEF CmSound
<1>8. QED
  BY <1>5, <1>6, <1>7 DEF TU!CommandsAreRead

-----------------------------------------------------------------------------
(* Fragments                                                               *)

FrMade(m) == HY!FragUDPMessage(m)
FrForm(t) ==
  t \in [msgs : {t.msgs}, left : {t.left}, msgID : {t.msgID}, frags : {t.frags}, count : {t.count}, row : {t.row}, out : {t.out}]
FrMsgs(t) == \A k \in {1, 2} : t.msgs[k] \in HysteriaMessages
\* What MessagesAreWhole supposes
FrGiven(t) == (\A k \in {1, 2} : t.msgs[k].length < FragmentWidth) /\ t.msgs[1].id # t.msgs[2].id

FrDone(t, k) == \E n \in DOMAIN t.out : t.out[n] = FrMade(t.msgs[k])
FrFilled(frags, n) == {j \in 1 .. n : frags[j] # HY!Nothing}

\* The defragger, while it puts message k together
FrHolds(frags, count, m, k, left) ==
  /\ frags = [j \in 1 .. m.length |-> frags[j]]
  /\ \A j \in 1 .. m.length : frags[j] = HY!Nothing \/ (frags[j] = FrMade(m)[j] /\ <<k, j>> \notin left)
  /\ count = Cardinality(FrFilled(frags, m.length))
FrBuffer(t, k) ==
  FrHolds(t.frags, t.count, t.msgs[k], k, t.left) /\ (t.count = t.msgs[k].length => FrDone(t, k))

\* What it has returned: each message that is whole has been fed to the end.
FrOut(t) ==
  /\ t.out \in Seq({FrMade(m) : m \in HysteriaMessages})
  /\ \A n \in DOMAIN t.out : \E k \in {1, 2} : t.out[n] = FrMade(t.msgs[k]) /\ \A j : <<k, j>> \notin t.left
  /\ \A n, o \in DOMAIN t.out : t.out[n] = t.out[o] => n = o

\* The row, of message k
FrRowOf(t, k) ==
  /\ \A j \in 1 .. Len(t.row) :
       /\ t.row[j][1] = k /\ t.row[j][2] \in 1 .. t.msgs[k].length /\ <<k, t.row[j][2]>> \notin t.left
       /\ t.msgs[k].length > 1 => t.frags[t.row[j][2]] # HY!Nothing
  /\ \A j, o \in 1 .. Len(t.row) : t.row[j][2] = t.row[o][2] => j = o
  /\ t.msgs[k].length = 1 => FrDone(t, k)
  /\ t.msgs[k].length > 1 => t.msgID = t.msgs[k].id
FrRow(t) ==
  /\ t.row \in Seq({1, 2} \X Nat)
  /\ \A k \in {1, 2} : t.row # << >> /\ t.row[1][1] = k => FrRowOf(t, k)

FrKept(t) ==
  /\ \A l \in t.left : \E k \in {1, 2} : \E i \in 1 .. t.msgs[k].length : l = <<k, i>>
  /\ \A k \in {1, 2} : t.msgID = t.msgs[k].id => FrBuffer(t, k)
  /\ FrOut(t) /\ FrRow(t)

FrInv(t) == FrForm(t) /\ FrMsgs(t) /\ (FrGiven(t) => FrKept(t))

LEMMA FrRemainder == ASSUME NEW n \in Nat, NEW w \in Nat \ {0}, n < w PROVE n % w = n
OBVIOUS

LEMMA FrPart ==
  ASSUME NEW m \in HysteriaMessages, m.length < FragmentWidth
  PROVE  /\ m.length \in Nat \ {0} /\ m.id \in Nat \ {0} /\ FrMade(m) = [j \in 1 .. m.length |-> FrMade(m)[j]]
         /\ \A i \in 1 .. m.length :
              /\ FrMade(m)[i].msg = m /\ FrMade(m)[i].fragID = i - 1 /\ FrMade(m)[i].fragCount = m.length
              /\ FrMade(m)[i] # HY!Nothing
<1>1. m.length \in Nat \ {0} /\ m.id \in Nat \ {0} /\ FragmentWidth \in Nat \ {0}
  BY RelaysAssumption
<1>2. FrMade(m) = [i \in 1 .. m.length |-> [msg |-> m, fragID |-> (i - 1) % FragmentWidth, fragCount |-> m.length % FragmentWidth, part |-> i]]
  BY DEF FrMade, HY!FragUDPMessage
<1>3. ASSUME NEW i \in 1 .. m.length
      PROVE  /\ FrMade(m)[i].msg = m /\ FrMade(m)[i].fragID = i - 1 /\ FrMade(m)[i].fragCount = m.length
             /\ FrMade(m)[i] # HY!Nothing
  <2>1. (i - 1) % FragmentWidth = i - 1 /\ m.length % FragmentWidth = m.length
    <3>1. i - 1 \in Nat /\ i - 1 < FragmentWidth
      BY <1>1
    <3>2. QED
      BY <1>1, <3>1, FrRemainder
  <2>2. PICK a, b : a = (i - 1) % FragmentWidth /\ b = m.length % FragmentWidth
    OBVIOUS
  <2>3. FrMade(m)[i] = [msg |-> m, fragID |-> a, fragCount |-> b, part |-> i]
    BY <1>2, <2>2
  <2>4. FrMade(m)[i].msg.id # HY!Nothing.msg.id
    BY <1>1, <2>3 DEF HY!Nothing
  <2>5. QED
    BY <2>1, <2>2, <2>3, <2>4
<1>4. FrMade(m) = [j \in 1 .. m.length |-> FrMade(m)[j]]
  BY <1>2
<1>5. QED
  BY <1>1, <1>3, <1>4

\* Fragments of messages with different numbers are different.
LEMMA FrOwn ==
  ASSUME NEW m \in HysteriaMessages, NEW n \in HysteriaMessages, m.length < FragmentWidth, n.length < FragmentWidth,
         FrMade(m) = FrMade(n)
  PROVE  m = n
<1>1. 1 \in 1 .. m.length /\ 1 \in 1 .. n.length
  BY FrPart
<1>2. FrMade(m)[1].msg = m /\ FrMade(n)[1].msg = n
  BY <1>1, FrPart
<1>3. QED
  BY <1>2

LEMMA FrInitially == ASSUME HY!FragmentsInit PROVE FrInv(s)
<1>1. PICK a \in HysteriaMessages, b \in HysteriaMessages :
        s = [msgs |-> <<a, b>>,
             left |-> {<<1, i>> : i \in 1 .. a.length} \cup {<<2, i>> : i \in 1 .. b.length},
             msgID |-> 0, frags |-> << >>, count |-> 0, row |-> << >>, out |-> << >>]
  BY DEF HY!FragmentsInit
<1>2. PICK msgs, left : msgs = <<a, b>> /\ left = {<<1, i>> : i \in 1 .. a.length} \cup {<<2, i>> : i \in 1 .. b.length}
  OBVIOUS
<1>3. s = [msgs |-> msgs, left |-> left, msgID |-> 0, frags |-> << >>, count |-> 0, row |-> << >>, out |-> << >>]
  BY <1>1, <1>2
<1>4. FrForm(s) /\ s.msgs = msgs /\ s.left = left /\ s.msgID = 0 /\ s.row = << >> /\ s.out = << >>
  BY <1>3 DEF FrForm
<1>5. msgs[1] = a /\ msgs[2] = b
  BY <1>2
<1>6. FrMsgs(s)
  BY <1>4, <1>5 DEF FrMsgs
<1>7. \A l \in left : \E k \in {1, 2} : \E i \in 1 .. msgs[k].length : l = <<k, i>>
  BY <1>2, <1>5
<1>8. \A k \in {1, 2} : msgs[k].id # 0
  BY <1>5, RelaysAssumption
<1>9. FrOut(s) /\ FrRow(s)
  BY <1>4 DEF FrOut, FrRow
<1>10. QED
  BY <1>4, <1>6, <1>7, <1>8, <1>9 DEF FrInv, FrKept

\* u is t but for its defragger.
FrLike(t, u) == FrForm(u) /\ u.msgs = t.msgs /\ u.left = t.left /\ u.row = t.row

LEMMA FrReturns ==
  ASSUME NEW t, FrForm(t), NEW x, NEW u, u = [t EXCEPT !.out = x]
  PROVE  FrLike(t, u) /\ u.msgID = t.msgID /\ u.frags = t.frags /\ u.count = t.count /\ u.out = x
<1>1. u \in [msgs : {t.msgs}, left : {t.left}, msgID : {t.msgID}, frags : {t.frags}, count : {t.count}, row : {t.row}, out : {x}]
  BY DEF FrForm
<1>2. QED
  BY <1>1 DEF FrForm, FrLike

LEMMA FrPuts ==
  ASSUME NEW t, FrForm(t), NEW f, NEW u, u = HY!Put(t, f)
  PROVE  FrLike(t, u) /\ u.msgID = t.msgID /\ u.frags = [t.frags EXCEPT ![f.fragID + 1] = f] /\ u.count = t.count /\ u.out = t.out
<1>1. PICK x : x = [t.frags EXCEPT ![f.fragID + 1] = f]
  OBVIOUS
<1>2. u = [t EXCEPT !.frags = x]
  BY <1>1 DEF HY!Put
<1>3. u \in [msgs : {t.msgs}, left : {t.left}, msgID : {t.msgID}, frags : {x}, count : {t.count}, row : {t.row}, out : {t.out}]
  BY <1>2 DEF FrForm
<1>4. QED
  BY <1>1, <1>3 DEF FrForm, FrLike

FrBuffers(t, x, y, z) == [t EXCEPT !.msgID = x, !.count = y, !.frags = z]

LEMMA FrStarts ==
  ASSUME NEW t, FrForm(t), NEW x, NEW y, NEW z, NEW u, u = FrBuffers(t, x, y, z)
  PROVE  FrLike(t, u) /\ u.msgID = x /\ u.frags = z /\ u.count = y /\ u.out = t.out
<1>1. u \in [msgs : {t.msgs}, left : {t.left}, msgID : {x}, frags : {z}, count : {y}, row : {t.row}, out : {t.out}]
  BY DEF FrForm, FrBuffers
<1>2. QED
  BY <1>1 DEF FrForm, FrLike

LEMMA FrCounts ==
  ASSUME NEW t, FrForm(t), NEW y, NEW u, u = [t EXCEPT !.count = y]
  PROVE  FrLike(t, u) /\ u.msgID = t.msgID /\ u.frags = t.frags /\ u.count = y /\ u.out = t.out
<1>1. u \in [msgs : {t.msgs}, left : {t.left}, msgID : {t.msgID}, frags : {t.frags}, count : {y}, row : {t.row}, out : {t.out}]
  BY DEF FrForm
<1>2. QED
  BY <1>1 DEF FrForm, FrLike

FrTaken(t, x, y) == [t EXCEPT !.left = x, !.row = y]

LEMMA FrTakes ==
  ASSUME NEW t, FrForm(t), NEW x, NEW y, NEW u, u = FrTaken(t, x, y)
  PROVE  /\ FrForm(u) /\ u.msgs = t.msgs /\ u.left = x /\ u.row = y
         /\ u.msgID = t.msgID /\ u.frags = t.frags /\ u.count = t.count /\ u.out = t.out
<1>1. u \in [msgs : {t.msgs}, left : {x}, msgID : {t.msgID}, frags : {t.frags}, count : {t.count}, row : {y}, out : {t.out}]
  BY DEF FrForm, FrTaken
<1>2. QED
  BY <1>1 DEF FrForm

\* The cases of Feed
FrNew(t, f) == FrBuffers(t, f.msg.id, 1, [i \in 1 .. f.fragCount |-> HY!Nothing])
FrMore(t, f) == HY!Put([t EXCEPT !.count = (t.count + 1) % FragmentWidth], f)

LEMMA FrFeeds ==
  ASSUME NEW t, FrForm(t), NEW f, NEW u, u = HY!Feed(t, f)
  PROVE  /\ FrLike(t, u)
         /\ f.fragCount <= 1 => u = [t EXCEPT !.out = Append(t.out, <<f>>)]
         /\ ~(f.fragCount <= 1) /\ ~(f.fragID >= f.fragCount) /\ f.msg.id # t.msgID => u = HY!Put(FrNew(t, f), f)
<1>1. FrLike(t, t)
  BY DEF FrLike
<1>2. FrForm(FrMore(t, f)) /\ FrLike(t, FrMore(t, f))
  <2>1. PICK v : v = [t EXCEPT !.count = (t.count + 1) % FragmentWidth]
    OBVIOUS
  <2>2. FrLike(t, v)
    BY <2>1, FrCounts
  <2>3. FrLike(v, HY!Put(v, f))
    <3>1. FrForm(v)
      BY <2>2 DEF FrLike
    <3>2. QED
      BY <3>1, FrPuts, Zenon
  <2>4. FrLike(t, HY!Put(v, f)) /\ FrForm(HY!Put(v, f))
    BY <2>2, <2>3 DEF FrLike
  <2>5. QED
    BY <2>1, <2>4 DEF FrMore
<1>3. FrLike(t, HY!Put(FrNew(t, f), f))
  <2>1. PICK v : v = FrNew(t, f)
    OBVIOUS
  <2>2. FrLike(t, v)
    <3>1. PICK x, y, z : x = f.msg.id /\ y = 1 /\ z = [i \in 1 .. f.fragCount |-> HY!Nothing]
      OBVIOUS
    <3>2. v = FrBuffers(t, x, y, z)
      BY <2>1, <3>1 DEF FrNew
    <3>3. FrForm(t)
      OBVIOUS
    <3>4. QED
      BY <3>2, <3>3, FrStarts
  <2>3. FrLike(v, HY!Put(v, f))
    <3>1. FrForm(v)
      BY <2>2 DEF FrLike
    <3>2. QED
      BY <3>1, FrPuts, Zenon
  <2>4. FrLike(t, HY!Put(v, f))
    BY <2>2, <2>3 DEF FrLike
  <2>5. QED
    BY <2>1, <2>4
<1>4. FrLike(t, [t EXCEPT !.out = Append(t.out, <<f>>)]) /\ FrLike(t, [t EXCEPT !.out = Append(t.out, << >>)])
  BY FrReturns
<1>5. FrLike(t, [FrMore(t, f) EXCEPT !.out = Append(FrMore(t, f).out, FrMore(t, f).frags)])
  BY <1>2, FrReturns DEF FrLike
<1>6. u = IF f.fragCount <= 1 THEN [t EXCEPT !.out = Append(t.out, <<f>>)]
          ELSE IF f.fragID >= f.fragCount THEN t
          ELSE IF f.msg.id # t.msgID THEN HY!Put(FrNew(t, f), f)
          ELSE IF f.fragID + 1 \notin DOMAIN t.frags THEN [t EXCEPT !.out = Append(t.out, << >>)]
          ELSE IF t.frags[f.fragID + 1] # HY!Nothing THEN t
          ELSE IF FrMore(t, f).count = Len(FrMore(t, f).frags)
            THEN [FrMore(t, f) EXCEPT !.out = Append(FrMore(t, f).out, FrMore(t, f).frags)]
            ELSE FrMore(t, f)
  BY Zenon DEF HY!Feed, FrNew, FrMore, FrBuffers
<1>7. QED
  BY <1>1, <1>2, <1>3, <1>4, <1>5, <1>6, Zenon

LEMMA FrFurther ==
  ASSUME NEW t, NEW f, NEW u, u = HY!Feed(t, f), ~(f.fragCount <= 1), ~(f.fragID >= f.fragCount), f.msg.id = t.msgID,
         f.fragID + 1 \in DOMAIN t.frags, t.frags[f.fragID + 1] = HY!Nothing
  PROVE  u = IF FrMore(t, f).count = Len(FrMore(t, f).frags)
               THEN [FrMore(t, f) EXCEPT !.out = Append(FrMore(t, f).out, FrMore(t, f).frags)]
               ELSE FrMore(t, f)
BY Zenon DEF HY!Feed, FrMore

\* The row and what is left, when fragment i of message k has been fed
FrFedRow(t, k, i) == IF t.row # << >> /\ t.row[1][1] = k THEN Append(t.row, <<k, i>>) ELSE << <<k, i>> >>

LEMMA FrTypes ==
  ASSUME NEW t, FrMsgs(t), NEW k \in {1, 2}
  PROVE  t.msgs[k] \in HysteriaMessages /\ t.msgs[k].length \in Nat \ {0} /\ t.msgs[k].id \in Nat \ {0}
BY RelaysAssumption DEF FrMsgs

\* u is what becomes of t when fragment i of message k has been fed.
FrFed(t, u, k, i) ==
  /\ FrMsgs(t) /\ FrGiven(t) /\ FrKept(t) /\ u.msgs = t.msgs /\ k \in {1, 2} /\ i \in 1 .. t.msgs[k].length /\ <<k, i>> \in t.left
  /\ u.left = t.left \ {<<k, i>>} /\ u.row = FrFedRow(t, k, i)

LEMMA FrFeeding ==
  ASSUME NEW t, NEW u, NEW k, NEW i, FrFed(t, u, k, i)
  PROVE  /\ FrMsgs(t) /\ FrGiven(t) /\ FrKept(t) /\ u.msgs = t.msgs /\ k \in {1, 2} /\ i \in 1 .. t.msgs[k].length /\ <<k, i>> \in t.left
         /\ u.left = t.left \ {<<k, i>>} /\ u.row = FrFedRow(t, k, i)
BY DEF FrFed

LEMMA FrOther ==
  ASSUME NEW t, FrGiven(t), NEW k \in {1, 2}, NEW l \in {1, 2}, t.msgs[k].id = t.msgs[l].id
  PROVE  k = l
BY DEF FrGiven

LEMMA FrRowMade ==
  ASSUME NEW u, NEW k,
         \A j \in 1 .. Len(u.row) :
           /\ u.row[j][1] = k /\ u.row[j][2] \in 1 .. u.msgs[k].length /\ <<k, u.row[j][2]>> \notin u.left
           /\ u.msgs[k].length > 1 => u.frags[u.row[j][2]] # HY!Nothing,
         \A j, o \in 1 .. Len(u.row) : u.row[j][2] = u.row[o][2] => j = o,
         u.msgs[k].length = 1 => FrDone(u, k),
         u.msgs[k].length > 1 => u.msgID = u.msgs[k].id
  PROVE  FrRowOf(u, k)
BY Zenon DEF FrRowOf

\* What is behind the row when that was fed
FrHeard(t, u, k, i) ==
  /\ t.msgs[k].length = 1 => FrDone(u, k)
  /\ t.msgs[k].length > 1 => u.msgID = t.msgs[k].id /\ u.frags[i] # HY!Nothing
  /\ t.msgs[k].length > 1 /\ t.msgID = t.msgs[k].id =>
       \A j \in 1 .. t.msgs[k].length : t.frags[j] # HY!Nothing => u.frags[j] # HY!Nothing

LEMMA FrRows ==
  ASSUME NEW t, NEW u, NEW k, NEW i, FrFed(t, u, k, i), FrHeard(t, u, k, i)
  PROVE  FrRow(u)
<1>0. /\ FrMsgs(t) /\ FrGiven(t) /\ FrKept(t) /\ u.msgs = t.msgs /\ k \in {1, 2} /\ i \in 1 .. t.msgs[k].length /\ <<k, i>> \in t.left
      /\ u.left = t.left \ {<<k, i>>} /\ u.row = FrFedRow(t, k, i)
  BY FrFeeding
<1>1. t.row \in Seq({1, 2} \X Nat) /\ <<k, i>> \in {1, 2} \X Nat /\ t.msgs[k].length \in Nat \ {0}
  BY <1>0, FrTypes DEF FrKept, FrRow
<1>2. CASE t.row # << >> /\ t.row[1][1] = k
  <2>1. FrRowOf(t, k)
    BY <1>0, <1>2 DEF FrKept, FrRow
  <2>2. u.row = Append(t.row, <<k, i>>) /\ Len(t.row) \in Nat \ {0}
    BY <1>0, <1>1, <1>2 DEF FrFedRow
  <2>3. /\ u.row \in Seq({1, 2} \X Nat) /\ u.row # << >> /\ Len(u.row) = Len(t.row) + 1
        /\ \A j \in 1 .. Len(t.row) : u.row[j] = t.row[j]
        /\ u.row[Len(t.row) + 1] = <<k, i>>
    <3>1. /\ Append(t.row, <<k, i>>) \in Seq({1, 2} \X Nat) /\ Append(t.row, <<k, i>>) # << >>
          /\ Len(Append(t.row, <<k, i>>)) = Len(t.row) + 1
          /\ \A j \in 1 .. Len(t.row) : Append(t.row, <<k, i>>)[j] = t.row[j]
          /\ Append(t.row, <<k, i>>)[Len(t.row) + 1] = <<k, i>>
      <4>1. PICK e : e = <<k, i>>
        OBVIOUS
      <4>2. e \in {1, 2} \X Nat
        BY <1>1, <4>1
      <4>3. QED
        BY <1>1, <4>1, <4>2, AppendProperties
    <3>2. QED
      BY <2>2, <3>1
  <2>4. u.row[1][1] = k
    BY <1>2, <2>2, <2>3
  <2>5. ASSUME NEW j \in 1 .. Len(u.row)
        PROVE  /\ u.row[j][1] = k /\ u.row[j][2] \in 1 .. u.msgs[k].length /\ <<k, u.row[j][2]>> \notin u.left
               /\ u.msgs[k].length > 1 => u.frags[u.row[j][2]] # HY!Nothing
    <3>1. CASE j = Len(t.row) + 1
      BY <1>0, <3>1, <2>3 DEF FrHeard
    <3>2. CASE j # Len(t.row) + 1
      <4>1. j \in 1 .. Len(t.row)
        BY <3>2, <2>2, <2>3
      <4>2. QED
        BY <1>0, <4>1, <2>1, <2>3 DEF FrRowOf, FrHeard
    <3>3. QED
      BY <3>1, <3>2
  <2>6. ASSUME NEW j \in 1 .. Len(t.row) PROVE t.row[j][2] # i
    BY <1>0, <2>1 DEF FrRowOf
  <2>7. \A j, o \in 1 .. Len(u.row) : u.row[j][2] = u.row[o][2] => j = o
    <3>1. \A j, o \in 1 .. Len(t.row) : t.row[j][2] = t.row[o][2] => j = o
      BY <2>1 DEF FrRowOf
    <3>2. \A j \in 1 .. Len(u.row) : j \in 1 .. Len(t.row) \/ j = Len(t.row) + 1
      BY <2>2, <2>3
    <3>3. u.row[Len(t.row) + 1][2] = i
      BY <2>3
    <3>4. ASSUME NEW j \in 1 .. Len(u.row), NEW o \in 1 .. Len(u.row), u.row[j][2] = u.row[o][2] PROVE j = o
      <4>1. CASE j \in 1 .. Len(t.row) /\ o \in 1 .. Len(t.row)
        BY <4>1, <3>1, <3>4, <2>3
      <4>2. CASE j \in 1 .. Len(t.row) /\ o = Len(t.row) + 1
        BY <4>2, <3>3, <3>4, <2>3, <2>6
      <4>3. CASE j = Len(t.row) + 1 /\ o \in 1 .. Len(t.row)
        BY <4>3, <3>3, <3>4, <2>3, <2>6
      <4>4. QED
        BY <4>1, <4>2, <4>3, <3>2
    <3>5. QED
      BY <3>4
  <2>10. (u.msgs[k].length = 1 => FrDone(u, k)) /\ (u.msgs[k].length > 1 => u.msgID = u.msgs[k].id)
    BY <1>0 DEF FrHeard
  <2>8. FrRowOf(u, k)
    BY <1>0, <2>5, <2>7, <2>10, FrRowMade, Zenon
  <2>9. QED
    BY <1>0, <2>3, <2>4, <2>8 DEF FrRow
<1>3. CASE ~(t.row # << >> /\ t.row[1][1] = k)
  <2>1. u.row = << <<k, i>> >>
    BY <1>0, <1>3 DEF FrFedRow
  <2>2. /\ u.row \in Seq({1, 2} \X Nat) /\ Len(u.row) = 1 /\ u.row[1] = <<k, i>> /\ u.row[1][1] = k /\ u.row[1][2] = i
    BY <1>0, <1>1, <2>1
  <2>3. \A j \in 1 .. Len(u.row) : j = 1
    BY <2>2
  <2>4. FrRowOf(u, k)
    BY <1>0, <2>2, <2>3 DEF FrRowOf, FrHeard
  <2>5. QED
    BY <1>0, <2>2, <2>4 DEF FrRow
<1>4. QED
  BY <1>2, <1>3

\* Nothing is returned, or the last fragment of message k was fed.
LEMMA FrOuts ==
  ASSUME NEW t, NEW u, NEW k, NEW i, FrFed(t, u, k, i),
         u.out = t.out \/ (u.out = Append(t.out, FrMade(t.msgs[k])) /\ \A j : <<k, j>> \notin u.left)
  PROVE  FrOut(u) /\ (\A l \in {1, 2} : FrDone(t, l) => FrDone(u, l)) /\ (u.out # t.out => FrDone(u, k))
<1>0. /\ FrMsgs(t) /\ FrGiven(t) /\ FrKept(t) /\ u.msgs = t.msgs /\ k \in {1, 2} /\ i \in 1 .. t.msgs[k].length /\ <<k, i>> \in t.left
      /\ u.left = t.left \ {<<k, i>>} /\ u.row = FrFedRow(t, k, i)
  BY FrFeeding
<1>1. FrOut(t)
  BY <1>0 DEF FrKept
<1>2. CASE u.out = t.out
  BY <1>0, <1>1, <1>2 DEF FrOut, FrDone
<1>3. CASE u.out = Append(t.out, FrMade(t.msgs[k])) /\ \A j : <<k, j>> \notin u.left
  <2>1. t.out \in Seq({FrMade(m) : m \in HysteriaMessages}) /\ FrMade(t.msgs[k]) \in {FrMade(m) : m \in HysteriaMessages}
    BY <1>0, <1>1 DEF FrOut, FrMsgs
  <2>2. /\ u.out \in Seq({FrMade(m) : m \in HysteriaMessages}) /\ Len(u.out) = Len(t.out) + 1
        /\ \A n \in 1 .. Len(t.out) : u.out[n] = t.out[n]
        /\ u.out[Len(t.out) + 1] = FrMade(t.msgs[k])
    BY <2>1, <1>3, AppendProperties
  <2>3. Len(t.out) \in Nat /\ DOMAIN t.out = 1 .. Len(t.out) /\ DOMAIN u.out = 1 .. Len(t.out) + 1
    BY <2>1, <2>2, LenProperties
  <2>4. \A n \in DOMAIN u.out : n \in DOMAIN t.out \/ n = Len(t.out) + 1
    BY <2>3
  <2>5. ASSUME NEW n \in DOMAIN t.out PROVE u.out[n] # FrMade(t.msgs[k])
    <3>1. PICK l \in {1, 2} : t.out[n] = FrMade(t.msgs[l]) /\ \A j : <<l, j>> \notin t.left
      BY <1>1 DEF FrOut
    <3>2. l # k /\ t.msgs[l] # t.msgs[k]
      BY <1>0, <3>1 DEF FrGiven
    <3>3. FrMade(t.msgs[l]) # FrMade(t.msgs[k])
      BY <1>0, <3>1, <3>2, FrOwn DEF FrMsgs, FrGiven
    <3>4. QED
      BY <3>1, <3>3, <2>2, <2>3
  <2>6. ASSUME NEW n \in DOMAIN u.out PROVE \E l \in {1, 2} : u.out[n] = FrMade(u.msgs[l]) /\ \A j : <<l, j>> \notin u.left
    <3>1. CASE n = Len(t.out) + 1
      BY <1>0, <3>1, <1>3, <2>2
    <3>2. CASE n \in DOMAIN t.out
      <4>1. PICK l \in {1, 2} : t.out[n] = FrMade(t.msgs[l]) /\ \A j : <<l, j>> \notin t.left
        BY <3>2, <1>1 DEF FrOut
      <4>2. QED
        BY <1>0, <4>1, <3>2, <2>2, <2>3
    <3>3. QED
      BY <3>1, <3>2, <2>4
  <2>7. ASSUME NEW n \in DOMAIN u.out, NEW o \in DOMAIN u.out, u.out[n] = u.out[o] PROVE n = o
    <3>1. CASE n \in DOMAIN t.out /\ o \in DOMAIN t.out
      BY <3>1, <2>7, <1>1, <2>2, <2>3 DEF FrOut
    <3>2. CASE n = Len(t.out) + 1 /\ o = Len(t.out) + 1
      BY <3>2
    <3>3. CASE n \in DOMAIN t.out /\ o = Len(t.out) + 1
      BY <3>3, <2>5, <2>7, <2>2
    <3>4. CASE n = Len(t.out) + 1 /\ o \in DOMAIN t.out
      BY <3>4, <2>5, <2>7, <2>2
    <3>5. QED
      BY <3>1, <3>2, <3>3, <3>4, <2>4
  <2>8. FrOut(u)
    BY <2>2, <2>6, <2>7 DEF FrOut
  <2>9. ASSUME NEW l \in {1, 2}, FrDone(t, l) PROVE FrDone(u, l)
    <3>1. PICK n \in DOMAIN t.out : t.out[n] = FrMade(t.msgs[l])
      BY <2>9 DEF FrDone
    <3>2. n \in DOMAIN u.out /\ u.out[n] = t.out[n]
      BY <3>1, <2>2, <2>3
    <3>3. QED
      BY <1>0, <3>1, <3>2 DEF FrDone
  <2>10. FrDone(u, k)
    <3>1. Len(t.out) + 1 \in DOMAIN u.out
      BY <2>3
    <3>2. QED
      BY <1>0, <3>1, <2>2 DEF FrDone
  <2>11. QED
    BY <2>8, <2>9, <2>10
<1>4. QED
  BY <1>2, <1>3

\* How many places are filled
LEMMA FrPlaces ==
  ASSUME NEW n \in Nat, NEW frags
  PROVE  /\ IsFiniteSet(FrFilled(frags, n)) /\ Cardinality(FrFilled(frags, n)) \in 0 .. n
         /\ Cardinality(FrFilled(frags, n)) = n => \A j \in 1 .. n : frags[j] # HY!Nothing
         /\ (\A j \in 1 .. n : frags[j] # HY!Nothing) => Cardinality(FrFilled(frags, n)) = n
<1>1. IsFiniteSet(1 .. n) /\ Cardinality(1 .. n) = n
  BY FS_Interval
<1>2. FrFilled(frags, n) \in SUBSET (1 .. n)
  BY DEF FrFilled
<1>3. IsFiniteSet(FrFilled(frags, n)) /\ (Cardinality(1 .. n) = Cardinality(FrFilled(frags, n)) => 1 .. n = FrFilled(frags, n))
  BY <1>1, <1>2, FS_Subset
<1>4. Cardinality(FrFilled(frags, n)) \in 0 .. n
  <2>1. Cardinality(FrFilled(frags, n)) \in Nat
    BY <1>3, FS_CardinalityType
  <2>2. Cardinality(FrFilled(frags, n)) <= n
    BY <1>1, <1>2, FS_Subset
  <2>3. QED
    BY <2>1, <2>2
<1>5. (\A j \in 1 .. n : frags[j] # HY!Nothing) => FrFilled(frags, n) = 1 .. n
  BY DEF FrFilled
<1>6. QED
  BY <1>1, <1>3, <1>4, <1>5 DEF FrFilled

LEMMA FrStill ==
  ASSUME NEW frags, NEW count, NEW m, NEW k, NEW left, FrHolds(frags, count, m, k, left), NEW fewer, fewer \subseteq left
  PROVE  FrHolds(frags, count, m, k, fewer)
BY Zenon DEF FrHolds

LEMMA FrAlone ==
  ASSUME NEW t, NEW u, NEW k, NEW i, FrFed(t, u, k, i), t.msgs[k].length = 1, u.out = Append(t.out, FrMade(t.msgs[k])),
         u.msgID = t.msgID, u.frags = t.frags, u.count = t.count
  PROVE  FrKept(u)
<1>1. /\ FrMsgs(t) /\ FrGiven(t) /\ FrKept(t) /\ u.msgs = t.msgs /\ k \in {1, 2} /\ i \in 1 .. t.msgs[k].length /\ <<k, i>> \in t.left
      /\ u.left = t.left \ {<<k, i>>} /\ u.row = FrFedRow(t, k, i)
  BY DEF FrFed
<1>2. \A l \in t.left : \E o \in {1, 2} : \E j \in 1 .. t.msgs[o].length : l = <<o, j>>
  BY <1>1 DEF FrKept
<1>3. \A j : <<k, j>> \notin u.left
  <2>1. ASSUME NEW j, <<k, j>> \in t.left PROVE j = i
    <3>1. PICK o \in {1, 2} : \E x \in 1 .. t.msgs[o].length : <<k, j>> = <<o, x>>
      BY <2>1, <1>2
    <3>2. o = k /\ j \in 1 .. t.msgs[k].length
      BY <3>1
    <3>3. QED
      BY <3>2, <1>1
  <2>2. QED
    BY <2>1, <1>1
<1>4. FrOut(u) /\ (\A l \in {1, 2} : FrDone(t, l) => FrDone(u, l)) /\ (u.out # t.out => FrDone(u, k))
  BY <1>3, FrOuts, Zenon
<1>5. FrDone(u, k)
  <2>1. t.out \in Seq({FrMade(m) : m \in HysteriaMessages}) /\ FrMade(t.msgs[k]) \in {FrMade(m) : m \in HysteriaMessages}
    BY <1>1 DEF FrKept, FrOut, FrMsgs
  <2>2. Len(Append(t.out, FrMade(t.msgs[k]))) = Len(t.out) + 1 /\ Len(t.out) \in Nat
    BY <2>1, AppendProperties, LenProperties
  <2>3. QED
    BY <1>4, <2>2
<1>6. FrRow(u)
  <2>1. FrHeard(t, u, k, i)
    BY <1>5 DEF FrHeard
  <2>2. QED
    BY <2>1, FrRows
<1>7. ASSUME NEW l \in {1, 2}, u.msgID = u.msgs[l].id PROVE FrBuffer(u, l)
  <2>1. FrBuffer(t, l)
    BY <1>1, <1>7 DEF FrKept
  <2>2. QED
    BY <2>1, <1>1, <1>4, FrStill DEF FrBuffer
<1>8. \A l \in u.left : \E o \in {1, 2} : \E j \in 1 .. u.msgs[o].length : l = <<o, j>>
  BY <1>1, <1>2
<1>9. QED
  BY <1>4, <1>6, <1>7, <1>8 DEF FrKept

LEMMA FrFirst ==
  ASSUME NEW t, NEW u, NEW k, NEW i, FrFed(t, u, k, i), t.msgs[k].length > 1, u.out = t.out, u.count = 1,
         t.msgID # t.msgs[k].id, u.msgID = t.msgs[k].id,
         u.frags = [[j \in 1 .. t.msgs[k].length |-> HY!Nothing] EXCEPT ![i] = FrMade(t.msgs[k])[i]]
  PROVE  FrKept(u)
<1>1. /\ FrMsgs(t) /\ FrGiven(t) /\ FrKept(t) /\ u.msgs = t.msgs /\ k \in {1, 2} /\ i \in 1 .. t.msgs[k].length /\ <<k, i>> \in t.left
      /\ u.left = t.left \ {<<k, i>>} /\ u.row = FrFedRow(t, k, i)
  BY DEF FrFed
<1>2. \A l \in t.left : \E o \in {1, 2} : \E j \in 1 .. t.msgs[o].length : l = <<o, j>>
  BY <1>1 DEF FrKept
<1>3. PICK m \in HysteriaMessages : m = t.msgs[k] /\ m.length < FragmentWidth /\ m.length \in Nat
  BY <1>1, FrTypes DEF FrGiven
<1>4. u.frags = [j \in 1 .. m.length |-> IF j = i THEN FrMade(m)[i] ELSE HY!Nothing] /\ FrMade(m)[i] # HY!Nothing
  BY <1>1, <1>3, FrPart
<1>5. FrOut(u) /\ (\A l \in {1, 2} : FrDone(t, l) => FrDone(u, l))
  BY FrOuts
<1>6. u.frags[i] # HY!Nothing
  BY <1>1, <1>3, <1>4
<1>7. FrRow(u)
  <2>1. FrHeard(t, u, k, i)
    BY <1>3, <1>6 DEF FrHeard
  <2>2. QED
    BY <2>1, FrRows
<1>8. FrBuffer(u, k)
  <2>1. FrFilled(u.frags, m.length) = {i}
    BY <1>1, <1>3, <1>4 DEF FrFilled
  <2>2. Cardinality({i}) = 1
    BY FS_Singleton
  <2>3. \A j \in 1 .. m.length : u.frags[j] = HY!Nothing \/ (u.frags[j] = FrMade(m)[j] /\ <<k, j>> \notin u.left)
    BY <1>1, <1>4
  <2>4. u.frags = [j \in 1 .. m.length |-> u.frags[j]]
    BY <1>4
  <2>5. QED
    <3>1. FrHolds(u.frags, u.count, m, k, u.left)
      BY <2>1, <2>2, <2>3, <2>4, Zenon DEF FrHolds
    <3>2. QED
      BY <1>1, <1>3, <3>1 DEF FrBuffer
<1>9. ASSUME NEW l \in {1, 2}, u.msgID = u.msgs[l].id PROVE l = k
  BY <1>1, <1>9, FrOther
<1>10. \A l \in u.left : \E o \in {1, 2} : \E j \in 1 .. u.msgs[o].length : l = <<o, j>>
  BY <1>1, <1>2
<1>11. QED
  BY <1>5, <1>7, <1>8, <1>9, <1>10 DEF FrKept

LEMMA FrNextOne ==
  ASSUME NEW t, NEW u, NEW k, NEW i, FrFed(t, u, k, i), t.msgs[k].length > 1, u.count = t.count + 1,
         t.msgID = t.msgs[k].id, u.msgID = t.msgs[k].id,
         u.frags = [t.frags EXCEPT ![i] = FrMade(t.msgs[k])[i]],
         u.out = IF t.count + 1 = t.msgs[k].length THEN Append(t.out, u.frags) ELSE t.out
  PROVE  FrKept(u)
<1>1. /\ FrMsgs(t) /\ FrGiven(t) /\ FrKept(t) /\ u.msgs = t.msgs /\ k \in {1, 2} /\ i \in 1 .. t.msgs[k].length /\ <<k, i>> \in t.left
      /\ u.left = t.left \ {<<k, i>>} /\ u.row = FrFedRow(t, k, i)
  BY DEF FrFed
<1>2. \A l \in t.left : \E o \in {1, 2} : \E j \in 1 .. t.msgs[o].length : l = <<o, j>>
  BY <1>1 DEF FrKept
<1>3. PICK m \in HysteriaMessages : m = t.msgs[k] /\ m.length < FragmentWidth /\ m.length \in Nat
  BY <1>1, FrTypes DEF FrGiven
<1>4. FrBuffer(t, k)
  BY <1>1 DEF FrKept
<1>5. /\ t.frags = [j \in 1 .. m.length |-> t.frags[j]] /\ t.count = Cardinality(FrFilled(t.frags, m.length))
      /\ \A j \in 1 .. m.length : t.frags[j] = HY!Nothing \/ (t.frags[j] = FrMade(m)[j] /\ <<k, j>> \notin t.left)
  BY <1>3, <1>4 DEF FrBuffer, FrHolds
<1>6. t.frags[i] = HY!Nothing /\ FrMade(m)[i] # HY!Nothing
  BY <1>1, <1>3, <1>5, FrPart
<1>7. u.frags = [j \in 1 .. m.length |-> IF j = i THEN FrMade(m)[i] ELSE t.frags[j]]
  BY <1>1, <1>3, <1>5
<1>8. u.count = Cardinality(FrFilled(u.frags, m.length))
  <2>1. FrFilled(u.frags, m.length) = FrFilled(t.frags, m.length) \cup {i} /\ i \notin FrFilled(t.frags, m.length)
    BY <1>1, <1>3, <1>6, <1>7 DEF FrFilled
  <2>2. IsFiniteSet(FrFilled(t.frags, m.length))
    BY <1>3, FrPlaces
  <2>3. Cardinality(FrFilled(t.frags, m.length) \cup {i}) = Cardinality(FrFilled(t.frags, m.length)) + 1
    BY <2>1, <2>2, FS_AddElement
  <2>4. QED
    BY <1>5, <2>1, <2>3
<1>9. ASSUME NEW j \in 1 .. m.length PROVE u.frags[j] = HY!Nothing \/ (u.frags[j] = FrMade(m)[j] /\ <<k, j>> \notin u.left)
  <2>1. CASE j = i
    BY <2>1, <1>1, <1>7
  <2>2. CASE j # i
    <3>1. u.frags[j] = t.frags[j]
      BY <2>2, <1>7
    <3>2. t.frags[j] = HY!Nothing \/ (t.frags[j] = FrMade(m)[j] /\ <<k, j>> \notin t.left)
      BY <1>5
    <3>3. <<k, j>> \in u.left => <<k, j>> \in t.left
      BY <1>1
    <3>4. QED
      BY <3>1, <3>2, <3>3
  <2>3. QED
    BY <2>1, <2>2
<1>10. ASSUME u.count = m.length PROVE u.frags = FrMade(m) /\ \A j : <<k, j>> \notin u.left
  <2>1. \A j \in 1 .. m.length : u.frags[j] # HY!Nothing
    <3>1. Cardinality(FrFilled(u.frags, m.length)) = m.length
      BY <1>8, <1>10
    <3>2. QED
      BY <1>3, <3>1, FrPlaces
  <2>2. \A j \in 1 .. m.length : u.frags[j] = FrMade(m)[j] /\ <<k, j>> \notin u.left
    BY <2>1, <1>9
  <2>3. FrMade(m) = [j \in 1 .. m.length |-> FrMade(m)[j]]
    BY <1>3, FrPart
  <2>4. u.frags = [j \in 1 .. m.length |-> u.frags[j]]
    BY <1>7
  <2>5. ASSUME NEW j, <<k, j>> \in u.left PROVE j \in 1 .. m.length
    <3>1. PICK o \in {1, 2} : \E x \in 1 .. t.msgs[o].length : <<k, j>> = <<o, x>>
      BY <2>5, <1>1, <1>2
    <3>2. QED
      BY <3>1, <1>3
  <2>6. QED
    BY <2>2, <2>3, <2>4, <2>5
<1>11. u.out = t.out \/ (u.out = Append(t.out, FrMade(t.msgs[k])) /\ \A j : <<k, j>> \notin u.left)
  BY <1>3, <1>10
<1>12. FrOut(u) /\ (\A l \in {1, 2} : FrDone(t, l) => FrDone(u, l)) /\ (u.out # t.out => FrDone(u, k))
  BY <1>11, FrOuts
<1>13. \A j \in 1 .. m.length : j = i \/ t.frags[j] # HY!Nothing => u.frags[j] # HY!Nothing
  BY <1>6, <1>7
<1>14. FrRow(u)
  <2>1. FrHeard(t, u, k, i)
    BY <1>1, <1>3, <1>13 DEF FrHeard
  <2>2. QED
    BY <2>1, FrRows
<1>15. FrBuffer(u, k)
  <2>1. u.count = m.length => FrDone(u, k)
    <3>1. ASSUME u.count = m.length PROVE FrDone(u, k)
      <4>1. u.out = Append(t.out, u.frags) /\ u.frags = FrMade(t.msgs[k])
        BY <3>1, <1>3, <1>10
      <4>2. t.out \in Seq({FrMade(x) : x \in HysteriaMessages}) /\ FrMade(t.msgs[k]) \in {FrMade(x) : x \in HysteriaMessages}
        BY <1>1 DEF FrKept, FrOut, FrMsgs
      <4>3. Len(Append(t.out, FrMade(t.msgs[k]))) = Len(t.out) + 1 /\ Len(t.out) \in Nat
        BY <4>2, AppendProperties, LenProperties
      <4>4. QED
        BY <1>12, <4>1, <4>3
    <3>2. QED
      BY <3>1
  <2>2. u.frags = [j \in 1 .. m.length |-> u.frags[j]]
    BY <1>7
  <2>3. QED
    <3>1. FrHolds(u.frags, u.count, m, k, u.left)
      BY <1>8, <1>9, <2>2, Zenon DEF FrHolds
    <3>2. QED
      BY <1>1, <1>3, <2>1, <3>1 DEF FrBuffer
<1>16. ASSUME NEW l \in {1, 2}, u.msgID = u.msgs[l].id PROVE l = k
  BY <1>1, <1>16, FrOther
<1>17. \A l \in u.left : \E o \in {1, 2} : \E j \in 1 .. u.msgs[o].length : l = <<o, j>>
  BY <1>1, <1>2
<1>18. QED
  BY <1>12, <1>14, <1>15, <1>16, <1>17 DEF FrKept

LEMMA FrStep == ASSUME FrInv(s), HY!FragmentsNext PROVE FrInv(s')
<1>1. PICK l \in s.left :
        s' = [HY!Feed(s, FrMade(s.msgs[l[1]])[l[2]]) EXCEPT
                !.left = @ \ {l},
                !.row = IF @ # << >> /\ Head(@)[1] = l[1] THEN Append(@, l) ELSE <<l>>]
  BY Zenon DEF HY!FragmentsNext, FrMade
<1>2. PICK f, v : f = FrMade(s.msgs[l[1]])[l[2]] /\ v = HY!Feed(s, f)
  OBVIOUS
<1>3. FrForm(s) /\ FrMsgs(s)
  BY DEF FrInv
<1>4. FrLike(s, v)
  BY <1>2, <1>3, FrFeeds
<1>5. PICK x, y : x = s.left \ {l} /\ y = IF s.row # << >> /\ Head(s.row)[1] = l[1] THEN Append(s.row, l) ELSE <<l>>
  OBVIOUS
<1>6. s' = FrTaken(v, x, y)
  BY <1>1, <1>2, <1>4, <1>5 DEF FrLike, FrTaken
<1>7. /\ FrForm(s') /\ s'.msgs = s.msgs /\ s'.left = x /\ s'.row = y
      /\ s'.msgID = v.msgID /\ s'.frags = v.frags /\ s'.count = v.count /\ s'.out = v.out
  BY <1>4, <1>6, FrTakes DEF FrLike
<1>8. FrMsgs(s')
  BY <1>3, <1>7 DEF FrMsgs
<1>9. ASSUME FrGiven(s') PROVE FrKept(s')
  <2>1. FrGiven(s) /\ FrKept(s)
    BY <1>7, <1>9 DEF FrGiven, FrInv
  <2>2. PICK k \in {1, 2} : \E i \in 1 .. s.msgs[k].length : l = <<k, i>>
    BY <2>1 DEF FrKept
  <2>3. PICK i \in 1 .. s.msgs[k].length : l = <<k, i>>
    BY <2>2
  <2>4. l[1] = k /\ l[2] = i
    BY <2>3
  <2>5. y = FrFedRow(s, k, i)
    <3>1. s.row \in Seq({1, 2} \X Nat)
      BY <2>1 DEF FrKept, FrRow
    <3>2. s.row # << >> => Head(s.row) = s.row[1]
      BY <3>1
    <3>3. QED
      BY <1>5, <2>3, <2>4, <3>2 DEF FrFedRow
  <2>6. FrFed(s, s', k, i)
    BY <1>3, <1>5, <1>7, <2>1, <2>3, <2>5 DEF FrFed
  <2>7. PICK m \in HysteriaMessages : m = s.msgs[k] /\ m.length < FragmentWidth /\ m.length \in Nat \ {0}
    BY <1>3, <2>1, FrTypes DEF FrGiven
  <2>8. f = FrMade(m)[i] /\ f.msg = m /\ f.fragID = i - 1 /\ f.fragCount = m.length /\ f # HY!Nothing
    BY <1>2, <2>3, <2>4, <2>7, FrPart
  <2>9. f.fragID + 1 = i /\ ~(f.fragID >= f.fragCount)
    BY <2>7, <2>8
  <2>10. CASE m.length = 1
    <3>1. f.fragCount <= 1
      BY <2>8, <2>10
    <3>2. v = [s EXCEPT !.out = Append(s.out, <<f>>)]
      BY <1>2, <1>3, <3>1, FrFeeds
    <3>3. <<f>> = FrMade(m)
      <4>1. FrMade(m) = [j \in 1 .. 1 |-> FrMade(m)[j]] /\ f = FrMade(m)[1]
        BY <2>7, <2>8, <2>10, FrPart
      <4>2. <<f>> = [j \in 1 .. 1 |-> f]
        OBVIOUS
      <4>3. QED
        BY <4>1, <4>2
    <3>4. v.msgID = s.msgID /\ v.frags = s.frags /\ v.count = s.count /\ v.out = Append(s.out, FrMade(m))
      BY <1>3, <3>2, <3>3, FrReturns
    <3>5. QED
      BY <1>7, <2>6, <2>7, <2>10, <3>4, FrAlone
  <2>11. CASE m.length > 1 /\ s.msgID # m.id
    <3>1. v = HY!Put(FrNew(s, f), f)
      <4>1. ~(f.fragCount <= 1) /\ f.msg.id # s.msgID
        BY <2>7, <2>8, <2>11
      <4>2. QED
        BY <1>2, <1>3, <2>9, <4>1, FrFeeds
    <3>2. PICK w : w = FrNew(s, f)
      OBVIOUS
    <3>3. /\ FrForm(w) /\ w.msgID = m.id /\ w.count = 1 /\ w.out = s.out
          /\ w.frags = [j \in 1 .. m.length |-> HY!Nothing]
      <4>1. PICK a, b, c : a = f.msg.id /\ b = 1 /\ c = [j \in 1 .. f.fragCount |-> HY!Nothing]
        OBVIOUS
      <4>2. w = FrBuffers(s, a, b, c)
        BY <3>2, <4>1 DEF FrNew
      <4>3. FrLike(s, w) /\ w.msgID = a /\ w.frags = c /\ w.count = b /\ w.out = s.out
        BY <1>3, <4>2, FrStarts
      <4>4. QED
        BY <2>8, <4>1, <4>3 DEF FrLike
    <3>4. v.msgID = w.msgID /\ v.frags = [w.frags EXCEPT ![f.fragID + 1] = f] /\ v.count = w.count /\ v.out = w.out
      <4>1. v = HY!Put(w, f) /\ FrForm(w)
        BY <3>1, <3>2, <3>3
      <4>2. QED
        BY <4>1, FrPuts
    <3>5. v.frags = [[j \in 1 .. m.length |-> HY!Nothing] EXCEPT ![i] = FrMade(m)[i]]
      BY <2>8, <2>9, <3>3, <3>4
    <3>6. QED
      BY <1>7, <2>6, <2>7, <2>11, <3>3, <3>4, <3>5, FrFirst
  <2>12. CASE m.length > 1 /\ s.msgID = m.id
    <3>1. FrBuffer(s, k)
      BY <2>1, <2>7, <2>12 DEF FrKept
    <3>2. /\ s.frags = [j \in 1 .. m.length |-> s.frags[j]] /\ s.count = Cardinality(FrFilled(s.frags, m.length))
          /\ s.frags[i] = HY!Nothing
      BY <2>1, <2>3, <2>6, <2>7, <3>1 DEF FrBuffer, FrHolds, FrFed
    <3>3. i \in DOMAIN s.frags
      BY <2>3, <2>7, <3>2
    <3>4. s.count \in 0 .. m.length /\ s.count # m.length
      BY <2>3, <2>7, <3>2, FrPlaces
    <3>5. (s.count + 1) % FragmentWidth = s.count + 1
      <4>1. s.count + 1 \in Nat /\ s.count + 1 < FragmentWidth /\ FragmentWidth \in Nat \ {0}
        BY <2>7, <3>4, RelaysAssumption
      <4>2. QED
        BY <4>1, FrRemainder
    <3>6. PICK w : w = FrMore(s, f)
      OBVIOUS
    <3>7. /\ FrForm(w) /\ w.msgID = s.msgID /\ w.count = s.count + 1 /\ w.out = s.out
          /\ w.frags = [s.frags EXCEPT ![i] = f]
      <4>1. PICK a, c : a = (s.count + 1) % FragmentWidth /\ c = [s EXCEPT !.count = a]
        OBVIOUS
      <4>2. FrLike(s, c) /\ c.msgID = s.msgID /\ c.frags = s.frags /\ c.count = a /\ c.out = s.out
        BY <1>3, <4>1, FrCounts
      <4>3. w = HY!Put(c, f)
        BY <3>6, <4>1 DEF FrMore
      <4>4. FrForm(c)
        BY <4>2 DEF FrLike
      <4>5. FrLike(c, w) /\ w.msgID = c.msgID /\ w.frags = [c.frags EXCEPT ![f.fragID + 1] = f] /\ w.count = c.count /\ w.out = c.out
        BY <4>3, <4>4, FrPuts
      <4>6. QED
        BY <2>9, <3>5, <4>1, <4>2, <4>5 DEF FrLike
    <3>8. Len(w.frags) = m.length
      <4>1. w.frags = [j \in 1 .. m.length |-> w.frags[j]]
        BY <3>2, <3>7
      <4>2. QED
        BY <2>7, <4>1, LenProperties
    <3>9. v = IF w.count = Len(w.frags) THEN [w EXCEPT !.out = Append(w.out, w.frags)] ELSE w
      <4>1. ~(f.fragCount <= 1) /\ f.msg.id = s.msgID /\ f.fragID + 1 \in DOMAIN s.frags /\ s.frags[f.fragID + 1] = HY!Nothing
        BY <2>7, <2>8, <2>9, <2>12, <3>2, <3>3
      <4>2. QED
        <5>1. v = IF FrMore(s, f).count = Len(FrMore(s, f).frags)
                    THEN [FrMore(s, f) EXCEPT !.out = Append(FrMore(s, f).out, FrMore(s, f).frags)]
                    ELSE FrMore(s, f)
          BY <1>2, <2>9, <4>1, FrFurther
        <5>2. QED
          BY <3>6, <5>1
    <3>10. /\ v.msgID = s.msgID /\ v.count = s.count + 1 /\ v.frags = [s.frags EXCEPT ![i] = f]
           /\ v.out = IF s.count + 1 = m.length THEN Append(s.out, v.frags) ELSE s.out
      <4>1. PICK b : b = Append(w.out, w.frags)
        OBVIOUS
      <4>2. CASE w.count = Len(w.frags)
        <5>1. v = [w EXCEPT !.out = b]
          BY <3>9, <4>1, <4>2
        <5>2. v.msgID = w.msgID /\ v.frags = w.frags /\ v.count = w.count /\ v.out = b
          BY <3>7, <5>1, FrReturns
        <5>3. QED
          BY <3>7, <3>8, <4>1, <4>2, <5>2
      <4>3. CASE w.count # Len(w.frags)
        BY <3>7, <3>8, <3>9, <4>3
      <4>4. QED
        BY <4>2, <4>3
    <3>11. QED
      BY <1>7, <2>6, <2>7, <2>8, <2>12, <3>10, FrNextOne
  <2>13. QED
    BY <2>7, <2>10, <2>11, <2>12
<1>10. QED
  BY <1>7, <1>8, <1>9 DEF FrInv

\* The row of message k makes it.
LEMMA FrWhole ==
  ASSUME FrMsgs(s), FrGiven(s), FrKept(s), NEW k \in {1, 2}, s.row # << >>, s.row[1][1] = k, Len(s.row) = s.msgs[k].length
  PROVE  FrDone(s, k)
<1>1. FrRowOf(s, k)
  BY DEF FrKept, FrRow
<1>2. PICK n \in Nat \ {0} : n = s.msgs[k].length
  BY FrTypes
<1>3. CASE n = 1
  BY <1>1, <1>2, <1>3 DEF FrRowOf
<1>4. CASE n > 1
  <2>1. PICK g : g = [j \in 1 .. n |-> s.row[j][2]]
    OBVIOUS
  <2>2. g \in [1 .. n -> 1 .. n]
    BY <1>1, <1>2, <2>1 DEF FrRowOf
  <2>3. \A j, o \in 1 .. n : g[j] = g[o] => j = o
    BY <1>1, <1>2, <2>1 DEF FrRowOf
  <2>4. IsFiniteSet(1 .. n)
    <3>1. 1 \in Int /\ n \in Int
      BY <1>2
    <3>2. QED
      BY <3>1, FS_Interval
  <2>5. g \in Surjection(1 .. n, 1 .. n)
    <3>1. g \in Injection(1 .. n, 1 .. n)
      BY <2>2, <2>3 DEF Injection, IsInjective
    <3>2. QED
      BY <2>4, <3>1, FS_Injection
  <2>6. ASSUME NEW i \in 1 .. n PROVE s.frags[i] # HY!Nothing
    <3>1. PICK j \in 1 .. n : g[j] = i
      BY <2>5 DEF Surjection
    <3>2. QED
      BY <1>1, <1>2, <1>4, <2>1, <3>1 DEF FrRowOf
  <2>7. FrBuffer(s, k)
    BY <1>1, <1>2, <1>4 DEF FrRowOf, FrKept
  <2>8. s.count = n
    BY <1>2, <2>6, <2>7, FrPlaces DEF FrBuffer, FrHolds
  <2>9. QED
    BY <1>2, <2>7, <2>8 DEF FrBuffer
<1>5. QED
  BY <1>2, <1>3, <1>4

LEMMA FrRight == ASSUME FrInv(s) PROVE HY!MessagesAreWhole
<1>1. ASSUME HY!Representable, s.msgs[1].id # s.msgs[2].id
      PROVE  /\ \A i \in DOMAIN s.out : HY!Whole(s.out[i])
             /\ \A i, j \in DOMAIN s.out : s.out[i] = s.out[j] => i = j
             /\ s.row # << >> /\ Len(s.row) = s.msgs[Head(s.row)[1]].length =>
                  \E i \in DOMAIN s.out : s.out[i] # << >> /\ s.out[i][1].msg = s.msgs[Head(s.row)[1]]
  <2>1. FrMsgs(s) /\ FrGiven(s) /\ FrKept(s)
    BY <1>1 DEF FrInv, FrGiven, HY!Representable
  <2>2. FrOut(s) /\ FrRow(s)
    BY <2>1 DEF FrKept
  <2>3. ASSUME NEW k \in {1, 2}
        PROVE  /\ s.msgs[k].length \in Nat \ {0} /\ FrMade(s.msgs[k]) = [j \in 1 .. s.msgs[k].length |-> FrMade(s.msgs[k])[j]]
               /\ FrMade(s.msgs[k])[1].msg = s.msgs[k]
    <3>1. PICK m \in HysteriaMessages : m = s.msgs[k] /\ m.length < FragmentWidth /\ m.length \in Nat \ {0}
      BY <2>1, FrTypes DEF FrGiven
    <3>2. 1 \in 1 .. m.length
      BY <3>1
    <3>3. QED
      BY <3>1, <3>2, FrPart
  <2>4. ASSUME NEW i \in DOMAIN s.out PROVE HY!Whole(s.out[i])
    <3>1. PICK k \in {1, 2} : s.out[i] = FrMade(s.msgs[k])
      BY <2>2 DEF FrOut
    <3>2. Len(s.out[i]) = s.msgs[k].length
      BY <2>3, <3>1, LenProperties
    <3>3. s.msgs[k] \in {s.msgs[1], s.msgs[2]}
      OBVIOUS
    <3>4. QED
      BY <3>1, <3>2, <3>3 DEF HY!Whole, FrMade
  <2>5. ASSUME s.row # << >>, Len(s.row) = s.msgs[Head(s.row)[1]].length
        PROVE  \E i \in DOMAIN s.out : s.out[i] # << >> /\ s.out[i][1].msg = s.msgs[Head(s.row)[1]]
    <3>1. s.row \in Seq({1, 2} \X Nat)
      BY <2>2 DEF FrRow
    <3>2. Head(s.row) = s.row[1] /\ s.row[1] \in {1, 2} \X Nat
      BY <3>1, <2>5
    <3>3. PICK k \in {1, 2} : k = s.row[1][1]
      BY <3>2
    <3>4. FrDone(s, k)
      BY <2>1, <2>5, <3>2, <3>3, FrWhole
    <3>5. PICK i \in DOMAIN s.out : s.out[i] = FrMade(s.msgs[k])
      BY <3>4 DEF FrDone
    <3>6. s.out[i] # << >>
      <4>1. 1 \in DOMAIN s.out[i]
        BY <2>3, <3>5
      <4>2. QED
        BY <4>1
    <3>7. QED
      BY <2>3, <3>2, <3>3, <3>5, <3>6
  <2>6. QED
    BY <2>2, <2>4, <2>5 DEF FrOut
<1>2. QED
  BY <1>1 DEF HY!MessagesAreWhole

-----------------------------------------------------------------------------
(* The client of TUIC                                                      *)
(*                                                                         *)
(* Only the connection that a client has can be up.  While a client was    *)
(* not connected anew under streams, its count is that of the dials that   *)
(* counted themselves and of those that failed to count themselves off;    *)
(* and a closed client with a connection that is up has a dial, under way, *)
(* that will close it.                                                     *)

TuDialPcs == {"sweep", "remove", "client", "conn", "count", "over", "stream", "open", "timer", "last", "done"}
TuCounted == {"over", "stream", "open", "timer"}
TuStreaming == {"stream", "open", "timer"}

TuClients(dialers) ==
  [dialer : dialers, conn : Nat, count : Int, closed : BOOLEAN, idle : BOOLEAN, pipes : SUBSET RelayDials, lost : BOOLEAN,
   late : BOOLEAN, leaked : Nat, refused : BOOLEAN, stale : BOOLEAN]
TuConns == [client : Nat, state : {"ok", "lost", "closed"}, authenticated : BOOLEAN, parsed : BOOLEAN]
TuDials(dialers) ==
  {[pc |-> "new"]} \cup
  [pc : TuDialPcs, dialer : dialers, client : Nat, out : Nat, again : BOOLEAN, conn : Nat, pipe : BOOLEAN]
TuForm(t) ==
  t \in [udp : BOOLEAN, dialers : {t.dialers}, clients : Seq(TuClients(t.dialers)), pool : Seq(Nat), conns : Seq(TuConns), faults : Nat,
         dial : [RelayDials -> TuDials(t.dialers)]]

\* A dial counts for client k, has a stream of it, a session open, or will close
\* its connection n.
TuCounts(d, k) == d.pc \in TuCounted /\ d.client = k
TuStreams(d, k) == d.pc \in TuStreaming /\ d.client = k
TuOpens(d, k) == d.pc = "open" /\ d.client = k
TuHolds(d, k, n) ==
  \/ d.pc \in {"sweep", "remove", "conn"} /\ d.client = k
  \/ d.pc = "remove" /\ d.out = k
  \/ d.pc \in TuCounted \cup {"count", "last"} /\ d.client = k /\ d.conn = n

TuCountOf(dial, k) == {x \in RelayDials : TuCounts(dial[x], k)}
TuStreamsOf(dial, k) == {x \in RelayDials : TuStreams(dial[x], k)}
TuOk(conns, k, n) == n \in DOMAIN conns /\ conns[n].client = k /\ conns[n].state = "ok"

TuConn(c, conns, k) ==
  /\ c.conn # 0 => c.conn \in DOMAIN conns /\ conns[c.conn].client = k
  /\ \A n : TuOk(conns, k, n) => c.conn = n
  /\ ~c.lost /\ ~c.late /\ c.leaked # 0 => \A n : ~TuOk(conns, k, n)
TuCount(c, dial, k) ==
  ~c.lost =>
    /\ c.count = Cardinality(TuCountOf(dial, k)) + c.leaked
    /\ Cardinality(TuStreamsOf(dial, k)) < TuicStreams
TuMatch(c, dial, k) ==
  ~c.lost /\ ~c.late => \A x \in RelayDials : TuCounts(dial[x], k) => dial[x].conn = c.conn \/ c.conn = 0
TuLeft(c) == c.closed /\ ~c.lost /\ ~c.late /\ ~c.refused
TuReach(c, conns, dial, k) ==
  TuLeft(c) => \A n : TuOk(conns, k, n) => \E x \in RelayDials : TuHolds(dial[x], k, n)
TuPipes(udp, c, conns, dial, k) ==
  /\ \A x \in c.pipes : udp /\ TuOpens(dial[x], k)
  /\ udp => \A x \in RelayDials : TuOpens(dial[x], k) /\ conns[dial[x].conn].state = "ok" => x \in c.pipes \/ c.stale
TuClient(udp, c, conns, dial, k) ==
  TuConn(c, conns, k) /\ TuCount(c, dial, k) /\ TuMatch(c, dial, k) /\ TuReach(c, conns, dial, k) /\ TuPipes(udp, c, conns, dial, k)

TuDial(clients, conns, d) ==
  d.pc # "new" =>
    /\ d.client \in {0} \cup DOMAIN clients
    /\ d.client = 0 => d.pc \in {"sweep", "remove", "client"}
    /\ d.pc = "remove" => d.out \in DOMAIN clients
    /\ d.pc \in TuCounted \cup {"count", "last"} => d.conn \in DOMAIN conns /\ conns[d.conn].client = d.client

TuInv(t) ==
  /\ TuForm(t)
  /\ \A i \in DOMAIN t.pool : t.pool[i] \in DOMAIN t.clients
  /\ \A n \in DOMAIN t.conns : t.conns[n].client \in DOMAIN t.clients
  /\ \A x \in RelayDials : TuDial(t.clients, t.conns, t.dial[x])
  /\ \A k \in DOMAIN t.clients : TuClient(t.udp, t.clients[k], t.conns, t.dial, k)

LEMMA TuInitially == ASSUME TU!ClientInit PROVE TuInv(s)
<1>1. PICK in \in TuicInstances :
        s = [udp |-> in.udp, dialers |-> in.dialers, clients |-> << >>, pool |-> << >>, conns |-> << >>, faults |-> in.faults,
             dial |-> [x \in RelayDials |-> [pc |-> "new"]]]
  BY DEF TU!ClientInit
<1>2. in.udp \in BOOLEAN /\ in.faults \in Nat
  BY RelaysAssumption
<1>3. TuForm(s) /\ s.clients = << >> /\ s.pool = << >> /\ s.conns = << >> /\ \A x \in RelayDials : s.dial[x].pc = "new"
  BY <1>1, <1>2 DEF TuForm, TuDials
<1>4. QED
  BY <1>3 DEF TuInv, TuDial

\* e does for client k what d does.
TuKeeps(d, e, k) ==
  /\ TuCounts(e, k) <=> TuCounts(d, k)
  /\ TuStreams(e, k) <=> TuStreams(d, k)
  /\ TuOpens(e, k) <=> TuOpens(d, k)
  /\ TuCounts(d, k) => e.conn = d.conn
  /\ \A n : TuHolds(d, k, n) => TuHolds(e, k, n)
TuLike(d, e) == e.pc = d.pc /\ e.client = d.client /\ e.out = d.out /\ e.conn = d.conn

LEMMA TuLikes == ASSUME NEW d, NEW e, TuLike(d, e), NEW k PROVE TuKeeps(d, e, k)
BY DEF TuLike, TuKeeps, TuCounts, TuStreams, TuOpens, TuHolds

LEMMA TuSame == ASSUME NEW d PROVE TuLike(d, d)
BY DEF TuLike

\* Elsewhere, no connection of client k has come up.
TuWorse(conns, there, k) ==
  /\ \A n \in DOMAIN conns : n \in DOMAIN there /\ there[n].client = conns[n].client
  /\ \A n : TuOk(there, k, n) => TuOk(conns, k, n)

LEMMA TuFrame ==
  ASSUME NEW udp, NEW c, NEW conns, NEW there, NEW dial, NEW e, NEW k, TuClient(udp, c, conns, dial, k), TuWorse(conns, there, k),
         \A x \in RelayDials : TuKeeps(dial[x], e[x], k), c.pipes \subseteq RelayDials,
         \A x \in RelayDials : TuOpens(dial[x], k) => dial[x].conn \in DOMAIN conns /\ conns[dial[x].conn].client = k
  PROVE  TuClient(udp, c, there, e, k)
<1>1. TuConn(c, there, k)
  BY DEF TuClient, TuConn, TuWorse
<1>2. TuCountOf(e, k) = TuCountOf(dial, k) /\ TuStreamsOf(e, k) = TuStreamsOf(dial, k)
  BY DEF TuCountOf, TuStreamsOf, TuKeeps
<1>3. TuCount(c, e, k)
  BY <1>2 DEF TuClient, TuCount
<1>4. TuMatch(c, e, k)
  BY DEF TuClient, TuMatch, TuKeeps
<1>5. TuReach(c, there, e, k)
  BY DEF TuClient, TuReach, TuKeeps, TuWorse
<1>6. ASSUME NEW x \in RelayDials, TuOpens(e[x], k), there[e[x].conn].state = "ok"
      PROVE  TuOpens(dial[x], k) /\ conns[dial[x].conn].state = "ok"
  <2>1. TuOpens(dial[x], k) /\ e[x].conn = dial[x].conn
    BY <1>6 DEF TuKeeps, TuOpens, TuCounts, TuCounted
  <2>2. TuOk(there, k, dial[x].conn)
    BY <1>6, <2>1 DEF TuWorse, TuOk
  <2>3. QED
    BY <2>1, <2>2 DEF TuWorse, TuOk
<1>7. TuPipes(udp, c, there, e, k)
  <2>1. \A x \in c.pipes : udp /\ TuOpens(e[x], k)
    BY DEF TuClient, TuPipes, TuKeeps
  <2>2. QED
    BY <1>6, <2>1 DEF TuClient, TuPipes
<1>8. QED
  BY <1>1, <1>3, <1>4, <1>5, <1>7 DEF TuClient

\* Dial x is the only one that does something else.
LEMMA TuCounting ==
  ASSUME NEW dial, NEW e, NEW x \in RelayDials, NEW k, \A y \in RelayDials : y # x => TuLike(dial[y], e[y])
  PROVE  /\ Cardinality(TuCountOf(dial, k)) \in Nat /\ Cardinality(TuCountOf(e, k)) \in Nat
         /\ Cardinality(TuStreamsOf(dial, k)) \in Nat /\ Cardinality(TuStreamsOf(e, k)) \in Nat
         /\ Cardinality(TuStreamsOf(e, k)) <= Cardinality(TuCountOf(e, k))
         /\ (TuCounts(e[x], k) <=> TuCounts(dial[x], k)) => TuCountOf(e, k) = TuCountOf(dial, k)
         /\ TuCounts(e[x], k) /\ ~TuCounts(dial[x], k) => Cardinality(TuCountOf(e, k)) = Cardinality(TuCountOf(dial, k)) + 1
         /\ ~TuCounts(e[x], k) /\ TuCounts(dial[x], k) => Cardinality(TuCountOf(e, k)) = Cardinality(TuCountOf(dial, k)) - 1
         /\ (TuStreams(e[x], k) => TuStreams(dial[x], k)) => Cardinality(TuStreamsOf(e, k)) <= Cardinality(TuStreamsOf(dial, k))
<1>1. IsFiniteSet(RelayDials)
  BY RelaysAssumption
<1>2. /\ TuCountOf(dial, k) \in SUBSET RelayDials /\ TuCountOf(e, k) \in SUBSET RelayDials
      /\ TuStreamsOf(dial, k) \in SUBSET RelayDials /\ TuStreamsOf(e, k) \in SUBSET RelayDials
  BY DEF TuCountOf, TuStreamsOf
<1>3. /\ IsFiniteSet(TuCountOf(dial, k)) /\ IsFiniteSet(TuCountOf(e, k))
      /\ IsFiniteSet(TuStreamsOf(dial, k)) /\ IsFiniteSet(TuStreamsOf(e, k))
  BY <1>1, <1>2, FS_Subset
<1>4. /\ Cardinality(TuCountOf(dial, k)) \in Nat /\ Cardinality(TuCountOf(e, k)) \in Nat
      /\ Cardinality(TuStreamsOf(dial, k)) \in Nat /\ Cardinality(TuStreamsOf(e, k)) \in Nat
  BY <1>3, FS_CardinalityType
<1>5. Cardinality(TuStreamsOf(e, k)) <= Cardinality(TuCountOf(e, k))
  <2>1. TuStreamsOf(e, k) \in SUBSET TuCountOf(e, k)
    BY DEF TuStreamsOf, TuCountOf, TuStreams, TuCounts, TuStreaming, TuCounted
  <2>2. QED
    BY <1>3, <2>1, FS_Subset
<1>6. \A y \in RelayDials : y # x => (TuCounts(e[y], k) <=> TuCounts(dial[y], k)) /\ (TuStreams(e[y], k) <=> TuStreams(dial[y], k))
  BY DEF TuLike, TuCounts, TuStreams
<1>7. (TuCounts(e[x], k) <=> TuCounts(dial[x], k)) => TuCountOf(e, k) = TuCountOf(dial, k)
  BY <1>6 DEF TuCountOf
<1>8. ASSUME TuCounts(e[x], k), ~TuCounts(dial[x], k) PROVE Cardinality(TuCountOf(e, k)) = Cardinality(TuCountOf(dial, k)) + 1
  <2>1. TuCountOf(e, k) = TuCountOf(dial, k) \cup {x} /\ x \notin TuCountOf(dial, k)
    BY <1>6, <1>8 DEF TuCountOf
  <2>2. QED
    BY <1>3, <2>1, FS_AddElement
<1>9. ASSUME ~TuCounts(e[x], k), TuCounts(dial[x], k) PROVE Cardinality(TuCountOf(e, k)) = Cardinality(TuCountOf(dial, k)) - 1
  <2>1. TuCountOf(e, k) = TuCountOf(dial, k) \ {x} /\ x \in TuCountOf(dial, k)
    BY <1>6, <1>9 DEF TuCountOf
  <2>2. QED
    BY <1>3, <2>1, FS_RemoveElement
<1>10. ASSUME TuStreams(e[x], k) => TuStreams(dial[x], k) PROVE Cardinality(TuStreamsOf(e, k)) <= Cardinality(TuStreamsOf(dial, k))
  <2>1. TuStreamsOf(e, k) \in SUBSET TuStreamsOf(dial, k)
    BY <1>6, <1>10 DEF TuStreamsOf
  <2>2. QED
    BY <1>3, <2>1, FS_Subset
<1>11. QED
  BY <1>4, <1>5, <1>7, <1>8, <1>9, <1>10

TuPutClient(t, k, c) == [t EXCEPT !.clients[k] = c]

LEMMA TuWithClient ==
  ASSUME NEW t, TuForm(t), NEW k \in DOMAIN t.clients, NEW c \in TuClients(t.dialers),
         NEW u, u = TuPutClient(t, k, c)
  PROVE  /\ TuForm(u) /\ u.udp = t.udp /\ u.dialers = t.dialers /\ u.pool = t.pool /\ u.faults = t.faults /\ u.conns = t.conns /\ u.dial = t.dial
         /\ DOMAIN u.clients = DOMAIN t.clients /\ u.clients[k] = c /\ \A j \in DOMAIN t.clients : j # k => u.clients[j] = t.clients[j]
<1>1. PICK v : v = [t.clients EXCEPT ![k] = c]
  OBVIOUS
<1>2. v \in Seq(TuClients(t.dialers)) /\ DOMAIN v = DOMAIN t.clients /\ v[k] = c /\ \A j \in DOMAIN t.clients : j # k => v[j] = t.clients[j]
  BY <1>1 DEF TuForm
<1>3. u = [t EXCEPT !.clients = v]
  BY <1>1 DEF TuPutClient
<1>4. u \in [udp : {t.udp}, dialers : {t.dialers}, clients : {v}, pool : {t.pool}, conns : {t.conns}, faults : {t.faults}, dial : {t.dial}]
  BY <1>3 DEF TuForm
<1>5. /\ u.udp = t.udp /\ u.dialers = t.dialers /\ u.pool = t.pool /\ u.faults = t.faults /\ u.conns = t.conns /\ u.dial = t.dial
      /\ u.clients = v
  BY <1>4
<1>6. TuForm(u)
  <2>1. t.udp \in BOOLEAN
    BY DEF TuForm
  <2>2. QED
    BY <1>2, <1>4, <1>5, <2>1 DEF TuForm
<1>7. QED
  BY <1>2, <1>5, <1>6

TuPutDial(t, x, d) == [t EXCEPT !.dial[x] = d]

LEMMA TuWithDial ==
  ASSUME NEW t, TuForm(t), NEW x \in RelayDials, NEW d \in TuDials(t.dialers), NEW u, u = TuPutDial(t, x, d)
  PROVE  /\ TuForm(u) /\ u.udp = t.udp /\ u.dialers = t.dialers /\ u.pool = t.pool /\ u.faults = t.faults /\ u.conns = t.conns
         /\ u.clients = t.clients /\ u.dial[x] = d /\ \A y \in RelayDials : y # x => u.dial[y] = t.dial[y]
<1>1. PICK v : v = [t.dial EXCEPT ![x] = d]
  OBVIOUS
<1>2. v \in [RelayDials -> TuDials(t.dialers)] /\ v[x] = d /\ \A y \in RelayDials : y # x => v[y] = t.dial[y]
  BY <1>1 DEF TuForm
<1>3. u = [t EXCEPT !.dial = v]
  BY <1>1 DEF TuPutDial
<1>4. u \in [udp : {t.udp}, dialers : {t.dialers}, clients : {t.clients}, pool : {t.pool}, conns : {t.conns}, faults : {t.faults}, dial : {v}]
  BY <1>3 DEF TuForm
<1>5. /\ u.udp = t.udp /\ u.dialers = t.dialers /\ u.pool = t.pool /\ u.faults = t.faults /\ u.conns = t.conns /\ u.clients = t.clients
      /\ u.dial = v
  BY <1>4
<1>6. TuForm(u)
  <2>1. t.udp \in BOOLEAN
    BY DEF TuForm
  <2>2. QED
    BY <1>2, <1>4, <1>5, <2>1 DEF TuForm
<1>7. QED
  BY <1>2, <1>5, <1>6

\* A dial that is under way
LEMMA TuDialIs ==
  ASSUME NEW t, TuForm(t), NEW x \in RelayDials, t.dial[x].pc # "new"
  PROVE  t.dial[x] \in [pc : TuDialPcs, dialer : t.dialers, client : Nat, out : Nat, again : BOOLEAN, conn : Nat, pipe : BOOLEAN]
<1>1. t.dial[x] \in TuDials(t.dialers)
  BY DEF TuForm
<1>2. QED
  BY <1>1 DEF TuDials

LEMMA TuClientIs ==
  ASSUME NEW t, TuForm(t), NEW k \in DOMAIN t.clients
  PROVE  t.clients[k] \in TuClients(t.dialers)
BY DEF TuForm

LEMMA TuConnIs ==
  ASSUME NEW t, TuForm(t), NEW n \in DOMAIN t.conns
  PROVE  t.conns[n] \in TuConns /\ n \in Nat \ {0}
BY DEF TuForm

\* Client k no longer has connection c.
TuForced(t, u, k, c) ==
  /\ TuForm(u) /\ u.udp = t.udp /\ u.dialers = t.dialers /\ u.pool = t.pool /\ u.faults = t.faults
  /\ DOMAIN u.clients = DOMAIN t.clients /\ \A j \in DOMAIN t.clients : j # k => u.clients[j] = t.clients[j]
  /\ u.clients[k].conn = IF t.clients[k].conn = c THEN 0 ELSE t.clients[k].conn
  /\ u.clients[k].pipes = {} /\ (u.clients[k].stale <=> t.clients[k].stale \/ t.clients[k].conn \notin {0, c})
  /\ u.clients[k].count = t.clients[k].count /\ u.clients[k].leaked = t.clients[k].leaked
  /\ u.clients[k].closed = t.clients[k].closed /\ u.clients[k].lost = t.clients[k].lost /\ u.clients[k].late = t.clients[k].late
  /\ u.clients[k].refused = t.clients[k].refused
  /\ DOMAIN u.conns = DOMAIN t.conns
  /\ \A n \in DOMAIN t.conns :
       u.conns[n].client = t.conns[n].client /\ (u.conns[n].state = "ok" => t.conns[n].state = "ok" /\ n # c)
  /\ \A y \in RelayDials : TuLike(t.dial[y], u.dial[y])

TuCloses(t, k, a, b, X, Y) == [t EXCEPT !.clients[k].conn = a, !.clients[k].pipes = {}, !.clients[k].stale = b, !.conns = X, !.dial = Y]

TuInSteps(t, k, a, b, X, Y) ==
  [[[t EXCEPT !.clients[k] = [t.clients[k] EXCEPT !.conn = a, !.pipes = {}, !.stale = b]] EXCEPT !.conns = X] EXCEPT !.dial = Y]

LEMMA TuClosing ==
  ASSUME NEW t, TuForm(t), NEW k \in DOMAIN t.clients, NEW a, NEW b, NEW X, NEW Y
  PROVE  TuCloses(t, k, a, b, X, Y) = TuInSteps(t, k, a, b, X, Y)
BY DEF TuForm, TuCloses, TuInSteps

LEMMA TuForces ==
  ASSUME NEW t, TuForm(t), NEW k \in DOMAIN t.clients, NEW conn \in {0} \cup DOMAIN t.conns,
         t.clients[k].conn \in {0} \cup DOMAIN t.conns,
         \A x \in t.clients[k].pipes : t.dial[x].pc # "new", NEW u, u = TU!ForceClose(t, k, conn)
  PROVE  TuForced(t, u, k, IF conn = 0 THEN t.clients[k].conn ELSE conn)
<1>1. PICK c, b, X, Y :
        /\ c = IF conn = 0 THEN t.clients[k].conn ELSE conn
        /\ b = (t.clients[k].stale \/ t.clients[k].conn \notin {0, c})
        /\ X = IF c = 0 \/ t.conns[c].state # "ok" THEN t.conns ELSE [t.conns EXCEPT ![c].state = "closed"]
        /\ Y = [x \in RelayDials |-> IF x \in t.clients[k].pipes THEN [t.dial[x] EXCEPT !.pipe = FALSE] ELSE t.dial[x]]
  OBVIOUS
<1>2. PICK a : a = IF t.clients[k].conn = c THEN 0 ELSE t.clients[k].conn
  OBVIOUS
<1>3. u = TuCloses(t, k, a, b, X, Y)
  BY <1>1, <1>2 DEF TU!ForceClose, TuForm, TuCloses
<1>4. PICK g : g = [t.clients[k] EXCEPT !.conn = a, !.pipes = {}, !.stale = b]
  OBVIOUS
<1>5. PICK v : v = TuPutClient(t, k, g)
  OBVIOUS
<1>6. u = [[v EXCEPT !.conns = X] EXCEPT !.dial = Y]
  <2>1. TuCloses(t, k, a, b, X, Y) = TuInSteps(t, k, a, b, X, Y)
    BY TuClosing
  <2>2. QED
    BY <1>3, <1>4, <1>5, <2>1, Zenon DEF TuInSteps, TuPutClient
<1>7. /\ g \in TuClients(t.dialers) /\ g.conn = a /\ g.pipes = {} /\ g.stale = b
      /\ g.count = t.clients[k].count /\ g.leaked = t.clients[k].leaked
      /\ g.closed = t.clients[k].closed /\ g.lost = t.clients[k].lost /\ g.late = t.clients[k].late
      /\ g.refused = t.clients[k].refused
  <2>1. t.clients[k] \in TuClients(t.dialers)
    BY TuClientIs
  <2>2. a \in Nat /\ b \in BOOLEAN
    BY <1>1, <1>2, <2>1 DEF TuClients
  <2>3. QED
    BY <1>4, <2>1, <2>2 DEF TuClients
<1>8. TuForm(v) /\ v.udp = t.udp /\ v.dialers = t.dialers /\ v.pool = t.pool /\ v.faults = t.faults
      /\ DOMAIN v.clients = DOMAIN t.clients /\ v.clients[k] = g /\ \A j \in DOMAIN t.clients : j # k => v.clients[j] = t.clients[j]
  BY <1>5, <1>7, TuWithClient
<1>9. /\ X \in Seq(TuConns) /\ DOMAIN X = DOMAIN t.conns
      /\ \A n \in DOMAIN t.conns : X[n].client = t.conns[n].client /\ (X[n].state = "ok" => t.conns[n].state = "ok" /\ n # c)
  <2>1. \A n \in DOMAIN t.conns : n # 0 /\ t.conns[n] \in TuConns
    BY TuConnIs
  <2>2. t.conns \in Seq(TuConns)
    BY DEF TuForm
  <2>3. CASE c = 0 \/ t.conns[c].state # "ok"
    BY <1>1, <2>1, <2>2, <2>3
  <2>4. CASE ~(c = 0 \/ t.conns[c].state # "ok")
    <3>1. c \in DOMAIN t.conns
      BY <1>1, <2>4
    <3>2. PICK w : w = [t.conns[c] EXCEPT !.state = "closed"]
      OBVIOUS
    <3>3. w \in TuConns /\ w.client = t.conns[c].client /\ w.state = "closed"
      BY <2>1, <3>1, <3>2 DEF TuConns
    <3>4. X = [t.conns EXCEPT ![c] = w]
      BY <1>1, <2>4, <3>2
    <3>5. QED
      BY <2>2, <3>1, <3>3, <3>4
  <2>5. QED
    BY <2>3, <2>4
<1>10. Y \in [RelayDials -> TuDials(t.dialers)] /\ \A y \in RelayDials : TuLike(t.dial[y], Y[y])
  <2>1. ASSUME NEW y \in RelayDials PROVE Y[y] \in TuDials(t.dialers) /\ TuLike(t.dial[y], Y[y])
    <3>1. CASE y \in t.clients[k].pipes
      <4>1. Y[y] = [t.dial[y] EXCEPT !.pipe = FALSE] /\ t.dial[y].pc # "new"
        BY <1>1, <3>1
      <4>2. t.dial[y] \in [pc : TuDialPcs, dialer : t.dialers, client : Nat, out : Nat, again : BOOLEAN, conn : Nat, pipe : BOOLEAN]
        BY <4>1, TuDialIs
      <4>3. QED
        BY <4>1, <4>2 DEF TuDials, TuLike
    <3>2. CASE y \notin t.clients[k].pipes
      BY <1>1, <3>2 DEF TuForm, TuLike
    <3>3. QED
      BY <3>1, <3>2
  <2>2. QED
    BY <1>1, <2>1
<1>11. /\ u \in [udp : BOOLEAN, dialers : {t.dialers}, clients : {v.clients}, pool : {t.pool}, conns : {X}, faults : {t.faults}, dial : {Y}]
       /\ u.udp = t.udp
  BY <1>6, <1>8 DEF TuForm
<1>12. TuForm(u)
  BY <1>8, <1>9, <1>10, <1>11 DEF TuForm
<1>13. TuForced(t, u, k, c)
  <2>1. u.dialers = t.dialers /\ u.pool = t.pool /\ u.faults = t.faults /\ u.clients = v.clients /\ u.conns = X /\ u.dial = Y
    BY <1>11
  <2>2. u.clients[k] = g /\ DOMAIN u.clients = DOMAIN t.clients /\ \A j \in DOMAIN t.clients : j # k => u.clients[j] = t.clients[j]
    BY <1>8, <2>1
  <2>3. \A y \in RelayDials : TuLike(t.dial[y], u.dial[y])
    BY <1>10, <2>1
  <2>4. u.clients[k].stale <=> t.clients[k].stale \/ t.clients[k].conn \notin {0, c}
    BY <1>1, <1>7, <2>2
  <2>5. DOMAIN u.conns = DOMAIN t.conns
        /\ \A n \in DOMAIN t.conns :
             u.conns[n].client = t.conns[n].client /\ (u.conns[n].state = "ok" => t.conns[n].state = "ok" /\ n # c)
    BY <1>9, <2>1
  <2>6. QED
    BY <1>2, <1>7, <1>11, <1>12, <2>1, <2>2, <2>3, <2>4, <2>5 DEF TuForced
<1>14. QED
  BY <1>1, <1>13

\* What the invariant says of a dial and its client
LEMMA TuDialHas ==
  ASSUME NEW t, TuInv(t), NEW x \in RelayDials, t.dial[x].pc \in {"conn", "count", "over", "stream", "open", "timer", "last", "done"}
  PROVE  /\ t.dial[x].client \in DOMAIN t.clients
         /\ t.dial[x].pc \notin {"conn", "done"} =>
              t.dial[x].conn \in DOMAIN t.conns /\ t.conns[t.dial[x].conn].client = t.dial[x].client
<1>1. t.dial[x].pc # "new" /\ t.dial[x].pc \notin {"sweep", "remove", "client"}
  OBVIOUS
<1>2. TuDial(t.clients, t.conns, t.dial[x])
  BY DEF TuInv
<1>3. t.dial[x].client \in DOMAIN t.clients
  BY <1>1, <1>2 DEF TuDial
<1>4. ASSUME t.dial[x].pc \notin {"conn", "done"}
      PROVE  t.dial[x].conn \in DOMAIN t.conns /\ t.conns[t.dial[x].conn].client = t.dial[x].client
  BY <1>1, <1>2, <1>4 DEF TuDial, TuCounted
<1>5. QED
  BY <1>3, <1>4

LEMMA TuOpenHas ==
  ASSUME NEW t, TuInv(t), NEW k
  PROVE  \A x \in RelayDials : TuOpens(t.dial[x], k) => t.dial[x].conn \in DOMAIN t.conns /\ t.conns[t.dial[x].conn].client = k
<1>1. ASSUME NEW x \in RelayDials, TuOpens(t.dial[x], k) PROVE t.dial[x].conn \in DOMAIN t.conns /\ t.conns[t.dial[x].conn].client = k
  <2>1. t.dial[x].pc = "open" /\ t.dial[x].client = k
    BY <1>1 DEF TuOpens
  <2>2. QED
    BY <2>1, TuDialHas
<1>2. QED
  BY <1>1

LEMMA TuClientHas ==
  ASSUME NEW t, TuInv(t), NEW k \in DOMAIN t.clients
  PROVE  /\ TuClient(t.udp, t.clients[k], t.conns, t.dial, k) /\ t.clients[k] \in TuClients(t.dialers)
         /\ t.clients[k].conn \in {0} \cup DOMAIN t.conns /\ t.clients[k].pipes \subseteq RelayDials
         /\ \A x \in t.clients[k].pipes : t.dial[x].pc # "new"
         /\ k \in Nat \ {0}
<1>1. TuClient(t.udp, t.clients[k], t.conns, t.dial, k) /\ TuForm(t)
  BY DEF TuInv
<1>2. t.clients[k] \in TuClients(t.dialers)
  BY <1>1, TuClientIs
<1>3. k \in Nat \ {0}
  BY <1>1 DEF TuForm
<1>4. \A x \in t.clients[k].pipes : t.dial[x].pc # "new"
  BY <1>1 DEF TuClient, TuPipes, TuOpens
<1>5. t.clients[k].conn \in {0} \cup DOMAIN t.conns
  BY <1>1 DEF TuClient, TuConn
<1>6. QED
  BY <1>1, <1>2, <1>3, <1>4, <1>5 DEF TuClients

LEMMA TuForceKept ==
  ASSUME NEW t, TuInv(t), NEW k \in DOMAIN t.clients, NEW u, NEW c, TuForced(t, u, k, c), c \in {0, t.clients[k].conn} \cup DOMAIN t.conns,
         c = 0 => t.clients[k].conn = 0
  PROVE  TuInv(u)
<1>1. TuForm(u) /\ TuForm(t) /\ DOMAIN u.clients = DOMAIN t.clients /\ DOMAIN u.conns = DOMAIN t.conns /\ u.pool = t.pool /\ u.udp = t.udp
  BY DEF TuForced, TuInv
<1>2. \A x \in RelayDials : TuLike(t.dial[x], u.dial[x])
  BY DEF TuForced
<1>3. \A n \in DOMAIN t.conns :
        u.conns[n].client = t.conns[n].client /\ (u.conns[n].state = "ok" => t.conns[n].state = "ok" /\ n # c)
  BY DEF TuForced
<1>4. \A n, j : TuOk(u.conns, j, n) => TuOk(t.conns, j, n) /\ n # c
  BY <1>1, <1>3 DEF TuOk
<1>5. \A j : TuWorse(t.conns, u.conns, j)
  BY <1>1, <1>3, <1>4 DEF TuWorse
<1>6. \A x \in RelayDials : TuDial(u.clients, u.conns, u.dial[x])
  BY <1>1, <1>2, <1>3 DEF TuInv, TuDial, TuLike
<1>7. \A j : \A x \in RelayDials : TuKeeps(t.dial[x], u.dial[x], j)
  BY <1>2, TuLikes
<1>8. ASSUME NEW j \in DOMAIN t.clients, j # k PROVE TuClient(u.udp, u.clients[j], u.conns, u.dial, j)
  <2>1. TuClient(t.udp, t.clients[j], t.conns, t.dial, j) /\ t.clients[j].pipes \subseteq RelayDials
    BY TuClientHas
  <2>2. \A x \in RelayDials : TuOpens(t.dial[x], j) => t.dial[x].conn \in DOMAIN t.conns /\ t.conns[t.dial[x].conn].client = j
    BY TuOpenHas
  <2>3. TuClient(t.udp, t.clients[j], u.conns, u.dial, j)
    BY <1>5, <1>7, <2>1, <2>2, TuFrame
  <2>4. u.clients[j] = t.clients[j]
    BY <1>8 DEF TuForced
  <2>5. QED
    BY <1>1, <2>3, <2>4
<1>9. TuClient(u.udp, u.clients[k], u.conns, u.dial, k)
  <2>1. /\ TuClient(t.udp, t.clients[k], t.conns, t.dial, k) /\ t.clients[k].pipes \subseteq RelayDials
    BY TuClientHas
  <2>2. PICK g, b : g = u.clients[k] /\ b = t.clients[k]
    OBVIOUS
  <2>3. /\ g.conn = IF b.conn = c THEN 0 ELSE b.conn
        /\ g.pipes = {} /\ (g.stale <=> b.stale \/ b.conn \notin {0, c})
        /\ g.count = b.count /\ g.leaked = b.leaked /\ g.closed = b.closed /\ g.lost = b.lost /\ g.late = b.late /\ g.refused = b.refused
    BY <2>2 DEF TuForced
  <2>4. TuConn(b, t.conns, k) /\ TuCount(b, t.dial, k) /\ TuMatch(b, t.dial, k) /\ TuReach(b, t.conns, t.dial, k)
        /\ TuPipes(t.udp, b, t.conns, t.dial, k)
    BY <2>1, <2>2 DEF TuClient
  <2>5. TuConn(g, u.conns, k)
    BY <1>1, <1>3, <1>4, <2>3, <2>4 DEF TuConn
  <2>6. TuCount(g, u.dial, k)
    <3>1. TuCountOf(u.dial, k) = TuCountOf(t.dial, k) /\ TuStreamsOf(u.dial, k) = TuStreamsOf(t.dial, k)
      BY <1>7 DEF TuCountOf, TuStreamsOf, TuKeeps
    <3>2. QED
      BY <2>3, <2>4, <3>1 DEF TuCount
  <2>7. TuMatch(g, u.dial, k)
    BY <1>7, <2>3, <2>4 DEF TuMatch, TuKeeps
  <2>8. TuReach(g, u.conns, u.dial, k)
    <3>1. TuLeft(g) => TuLeft(b)
      BY <2>3 DEF TuLeft
    <3>2. QED
      BY <1>4, <1>7, <2>4, <3>1 DEF TuReach, TuKeeps
  <2>9. TuPipes(u.udp, g, u.conns, u.dial, k)
    <3>1. ASSUME NEW x \in RelayDials, TuOpens(u.dial[x], k), u.conns[u.dial[x].conn].state = "ok" PROVE g.stale
      <4>1. TuOpens(t.dial[x], k) /\ u.dial[x].conn = t.dial[x].conn
        BY <1>2, <3>1 DEF TuOpens, TuLike
      <4>2. t.dial[x].conn \in DOMAIN t.conns /\ t.conns[t.dial[x].conn].client = k
        BY <4>1, TuOpenHas
      <4>3. TuOk(t.conns, k, t.dial[x].conn) /\ t.dial[x].conn # c
        BY <1>3, <3>1, <4>1, <4>2 DEF TuOk
      <4>4. b.conn = t.dial[x].conn
        BY <2>4, <4>3 DEF TuConn
      <4>5. b.conn # 0
        BY <1>1, <4>2, <4>4, TuConnIs
      <4>6. QED
        BY <2>3, <4>3, <4>4, <4>5
    <3>2. QED
      BY <2>3, <3>1 DEF TuPipes
  <2>10. QED
    BY <2>2, <2>5, <2>6, <2>7, <2>8, <2>9 DEF TuClient
<1>10. /\ \A i \in DOMAIN u.pool : u.pool[i] \in DOMAIN u.clients
       /\ \A n \in DOMAIN u.conns : u.conns[n].client \in DOMAIN u.clients
  BY <1>1, <1>3 DEF TuInv
<1>11. QED
  BY <1>1, <1>6, <1>8, <1>9, <1>10 DEF TuInv

\* What forceClose and deferQuicConn do
LEMMA TuForcing ==
  ASSUME NEW t, TuInv(t), NEW k \in DOMAIN t.clients, NEW conn \in {0} \cup DOMAIN t.conns, NEW u, u = TU!ForceClose(t, k, conn)
  PROVE  TuInv(u) /\ TuForced(t, u, k, IF conn = 0 THEN t.clients[k].conn ELSE conn)
<1>1. PICK c : c = IF conn = 0 THEN t.clients[k].conn ELSE conn
  OBVIOUS
<1>2. TuForced(t, u, k, c)
  <2>1. t.clients[k].conn \in {0} \cup DOMAIN t.conns /\ (\A x \in t.clients[k].pipes : t.dial[x].pc # "new") /\ TuForm(t)
    BY TuClientHas DEF TuInv
  <2>2. QED
    BY <1>1, <2>1, TuForces
<1>3. TuInv(u)
  BY <1>1, <1>2, TuForceKept
<1>4. QED
  BY <1>1, <1>2, <1>3

\* u is t with g for client k and d for dial x; the pool and the faults do not matter.
TuMoved(t, u, k, g, x, d) ==
  /\ TuForm(u) /\ u.udp = t.udp /\ u.dialers = t.dialers /\ u.conns = t.conns
  /\ \A i \in DOMAIN u.pool : u.pool[i] \in DOMAIN t.clients
  /\ DOMAIN u.clients = DOMAIN t.clients /\ u.clients[k] = g /\ \A j \in DOMAIN t.clients : j # k => u.clients[j] = t.clients[j]
  /\ u.dial[x] = d /\ \A y \in RelayDials : y # x => u.dial[y] = t.dial[y]

LEMMA TuMove ==
  ASSUME NEW t, TuInv(t), NEW k \in DOMAIN t.clients, NEW x \in RelayDials, NEW g, NEW d, NEW u, TuMoved(t, u, k, g, x, d),
         \A j \in DOMAIN t.clients : j # k => TuKeeps(t.dial[x], d, j), TuDial(t.clients, t.conns, d),
         TuClient(t.udp, g, t.conns, u.dial, k)
  PROVE  TuInv(u)
<1>1. /\ TuForm(u) /\ u.udp = t.udp /\ u.conns = t.conns /\ DOMAIN u.clients = DOMAIN t.clients
      /\ \A i \in DOMAIN u.pool : u.pool[i] \in DOMAIN u.clients
  BY DEF TuMoved
<1>2. \A y \in RelayDials : y = x \/ u.dial[y] = t.dial[y]
  BY DEF TuMoved
<1>3. ASSUME NEW y \in RelayDials PROVE TuDial(u.clients, u.conns, u.dial[y])
  <2>1. CASE y = x
    BY <1>1, <2>1 DEF TuMoved, TuDial
  <2>2. CASE y # x
    BY <1>1, <1>2, <2>2 DEF TuInv, TuDial
  <2>3. QED
    BY <2>1, <2>2
<1>4. ASSUME NEW j \in DOMAIN t.clients PROVE TuClient(u.udp, u.clients[j], u.conns, u.dial, j)
  <2>1. CASE j = k
    BY <1>1, <2>1 DEF TuMoved
  <2>2. CASE j # k
    <3>1. u.clients[j] = t.clients[j]
      BY <2>2 DEF TuMoved
    <3>2. ASSUME NEW y \in RelayDials PROVE TuKeeps(t.dial[y], u.dial[y], j)
      <4>1. CASE y = x
        BY <2>2, <4>1 DEF TuMoved
      <4>2. CASE y # x
        BY <1>2, <4>2, TuLikes, TuSame
      <4>3. QED
        BY <4>1, <4>2
    <3>3. TuClient(t.udp, t.clients[j], t.conns, t.dial, j) /\ t.clients[j].pipes \subseteq RelayDials
      BY TuClientHas
    <3>4. \A y \in RelayDials : TuOpens(t.dial[y], j) => t.dial[y].conn \in DOMAIN t.conns /\ t.conns[t.dial[y].conn].client = j
      BY TuOpenHas
    <3>5. TuWorse(t.conns, t.conns, j)
      BY DEF TuWorse
    <3>6. TuClient(t.udp, t.clients[j], t.conns, u.dial, j)
      BY <3>2, <3>3, <3>4, <3>5, TuFrame
    <3>7. QED
      BY <1>1, <3>1, <3>6
  <2>3. QED
    BY <2>1, <2>2
<1>5. \A n \in DOMAIN u.conns : u.conns[n].client \in DOMAIN u.clients
  BY <1>1 DEF TuInv
<1>6. QED
  BY <1>1, <1>3, <1>4, <1>5 DEF TuInv

\* The same, if no client changes
LEMMA TuMoveAlone ==
  ASSUME NEW t, TuInv(t), NEW x \in RelayDials, NEW d, d \in TuDials(t.dialers), NEW u, u = TuPutDial(t, x, d),
         \A j \in DOMAIN t.clients : TuKeeps(t.dial[x], d, j), TuDial(t.clients, t.conns, d)
  PROVE  TuInv(u)
<1>1. /\ TuForm(u) /\ u.udp = t.udp /\ u.pool = t.pool /\ u.conns = t.conns
      /\ u.clients = t.clients /\ u.dial[x] = d /\ \A y \in RelayDials : y # x => u.dial[y] = t.dial[y]
  <2>1. TuForm(t)
    BY DEF TuInv
  <2>2. QED
    BY <2>1, TuWithDial
<1>2. \A y \in RelayDials : y = x \/ u.dial[y] = t.dial[y]
  BY <1>1
<1>3. \A y \in RelayDials : TuDial(u.clients, u.conns, u.dial[y])
  BY <1>1 DEF TuInv
<1>4. ASSUME NEW j \in DOMAIN t.clients PROVE TuClient(u.udp, u.clients[j], u.conns, u.dial, j)
  <2>1. ASSUME NEW y \in RelayDials PROVE TuKeeps(t.dial[y], u.dial[y], j)
    <3>1. CASE y = x
      BY <1>1, <3>1
    <3>2. CASE y # x
      BY <1>1, <3>2, TuLikes, TuSame
    <3>3. QED
      BY <3>1, <3>2
  <2>2. TuClient(t.udp, t.clients[j], t.conns, t.dial, j) /\ t.clients[j].pipes \subseteq RelayDials
    BY TuClientHas
  <2>3. \A y \in RelayDials : TuOpens(t.dial[y], j) => t.dial[y].conn \in DOMAIN t.conns /\ t.conns[t.dial[y].conn].client = j
    BY TuOpenHas
  <2>4. TuWorse(t.conns, t.conns, j)
    BY DEF TuWorse
  <2>5. TuClient(t.udp, t.clients[j], t.conns, u.dial, j)
    BY <2>1, <2>2, <2>3, <2>4, TuFrame
  <2>6. QED
    BY <1>1, <2>5
<1>5. QED
  BY <1>1, <1>3, <1>4 DEF TuInv

\* What a dial does for its own client is nothing to another.
LEMMA TuElsewhere ==
  ASSUME NEW d, NEW e, NEW k, d.client = k, e.client = k, d.pc # "remove" \/ d.out = k, NEW j, j # k
  PROVE  TuKeeps(d, e, j)
BY DEF TuKeeps, TuCounts, TuStreams, TuOpens, TuHolds

LEMMA TuCountKept ==
  ASSUME NEW dial, NEW e, NEW x \in RelayDials, NEW k, \A y \in RelayDials : y # x => TuLike(dial[y], e[y]),
         NEW c, NEW g, c.count \in Int, g.count \in Int, c.leaked \in Nat, g.leaked \in Nat, g.lost = c.lost, TuCount(c, dial, k),
         \/ (TuCounts(e[x], k) <=> TuCounts(dial[x], k)) /\ g.count - g.leaked = c.count - c.leaked
         \/ TuCounts(e[x], k) /\ ~TuCounts(dial[x], k) /\ g.count - g.leaked = c.count - c.leaked + 1
         \/ ~TuCounts(e[x], k) /\ TuCounts(dial[x], k) /\ g.count - g.leaked = c.count - c.leaked - 1,
         \/ TuStreams(e[x], k) => TuStreams(dial[x], k)
         \/ g.count < TuicStreams
  PROVE  TuCount(g, e, k)
<1> SUFFICES ASSUME ~g.lost
             PROVE  g.count = Cardinality(TuCountOf(e, k)) + g.leaked /\ Cardinality(TuStreamsOf(e, k)) < TuicStreams
  BY DEF TuCount
<1>1. PICK a, b, p, q :
        /\ a = Cardinality(TuCountOf(dial, k)) /\ b = Cardinality(TuCountOf(e, k))
        /\ p = Cardinality(TuStreamsOf(dial, k)) /\ q = Cardinality(TuStreamsOf(e, k))
  OBVIOUS
<1>2. /\ a \in Nat /\ b \in Nat /\ p \in Nat /\ q \in Nat /\ q <= b
      /\ (TuCounts(e[x], k) <=> TuCounts(dial[x], k)) => b = a
      /\ TuCounts(e[x], k) /\ ~TuCounts(dial[x], k) => b = a + 1
      /\ ~TuCounts(e[x], k) /\ TuCounts(dial[x], k) => b = a - 1
      /\ (TuStreams(e[x], k) => TuStreams(dial[x], k)) => q <= p
  BY <1>1, TuCounting
<1>3. c.count = a + c.leaked /\ p < TuicStreams
  BY <1>1 DEF TuCount
<1>4. g.count = b + g.leaked
  BY <1>2, <1>3
<1>5. q < TuicStreams
  <2>1. TuicStreams \in Nat
    BY RelaysAssumption
  <2>2. CASE TuStreams(e[x], k) => TuStreams(dial[x], k)
    BY <1>2, <1>3, <2>1, <2>2
  <2>3. CASE g.count < TuicStreams
    BY <1>2, <1>4, <2>1, <2>3
  <2>4. QED
    BY <2>2, <2>3
<1>6. QED
  BY <1>1, <1>4, <1>5

LEMMA TuMin ==
  ASSUME NEW S, IsFiniteSet(S), S # {}, NEW f, \A x \in S : f[x] \in Int
  PROVE  \E x \in S : \A y \in S : f[x] <= f[y]
<1> DEFINE Below(x) == {y \in S : f[y] <= f[x]}
<1>1. {Below(x) : x \in S} \subseteq FiniteSubsetsOf(S) /\ {Below(x) : x \in S} # {}
  <2>1. \A x \in S : Below(x) \in SUBSET S
    OBVIOUS
  <2>2. \A x \in S : IsFiniteSet(Below(x))
    BY <2>1, FS_Subset
  <2>3. QED
    BY <2>1, <2>2 DEF FiniteSubsetsOf
<1>2. PICK B \in {Below(x) : x \in S} : \A C \in {Below(x) : x \in S} : ~(<<C, B>> \in StrictSubsetOrdering(S))
  BY <1>1, FS_StrictSubsetOrderingWellFounded, WFMin, Zenon
<1>3. PICK x \in S : B = Below(x)
  BY <1>2
<1>4. ASSUME NEW y \in S, ~(f[x] <= f[y]) PROVE FALSE
  <2>1. Below(y) \subseteq Below(x) /\ x \in Below(x) /\ x \notin Below(y)
    BY <1>4
  <2>2. <<Below(y), Below(x)>> \in StrictSubsetOrdering(S)
    BY <2>1 DEF StrictSubsetOrdering
  <2>3. QED
    BY <1>2, <1>3, <2>2
<1>5. QED
  BY <1>4

LEMMA TuFewest == ASSUME TuInv(s), NEW d PROVE TU!Fewest(d) \in {0} \cup DOMAIN s.clients
<1> DEFINE mine == {i \in DOMAIN s.pool : s.clients[s.pool[i]].dialer = d}
           least == {i \in mine : \A j \in mine : s.clients[s.pool[i]].count <= s.clients[s.pool[j]].count}
<1>1. TU!Fewest(d) = IF mine = {} THEN 0 ELSE s.pool[CHOOSE i \in least : \A j \in least : i <= j]
  BY Zenon DEF TU!Fewest
<1>2. s.pool \in Seq(Nat) /\ \A i \in DOMAIN s.pool : s.pool[i] \in DOMAIN s.clients
  BY DEF TuInv, TuForm
<1>3. IsFiniteSet(DOMAIN s.pool) /\ DOMAIN s.pool \subseteq Nat
  <2>1. DOMAIN s.pool = 1 .. Len(s.pool) /\ Len(s.pool) \in Int /\ 1 \in Int
    BY <1>2
  <2>2. IsFiniteSet(1 .. Len(s.pool))
    BY <2>1, FS_Interval
  <2>3. QED
    BY <2>1, <2>2
<1>4. mine \in SUBSET DOMAIN s.pool /\ least \in SUBSET mine
  OBVIOUS
<1>5. IsFiniteSet(mine) /\ IsFiniteSet(least)
  BY <1>3, <1>4, FS_Subset
<1>6. ASSUME mine # {} PROVE \E i \in least : \A j \in least : i <= j
  <2>1. PICK f, h : f = [i \in mine |-> s.clients[s.pool[i]].count] /\ h = [i \in least |-> i]
    OBVIOUS
  <2>2. \A i \in mine : f[i] \in Int
    <3>1. \A k \in DOMAIN s.clients : s.clients[k] \in TuClients(s.dialers)
      BY TuClientIs DEF TuInv
    <3>2. QED
      BY <1>2, <2>1, <3>1 DEF TuClients
  <2>3. \E i \in mine : \A j \in mine : f[i] <= f[j]
    BY <1>5, <1>6, <2>2, TuMin
  <2>4. least # {}
    BY <2>1, <2>3
  <2>5. \A i \in least : h[i] \in Int
    <3>1. \A i \in least : i \in Nat
      BY <1>3, <1>4
    <3> HIDE DEF least, mine
    <3>2. QED
      BY <2>1, <3>1
  <2>6. \E i \in least : \A j \in least : h[i] <= h[j]
    BY <1>5, <2>4, <2>5, TuMin
  <2>7. QED
    BY <2>1, <2>6
<1> HIDE DEF least
<1>7. ASSUME mine # {} PROVE (CHOOSE i \in least : \A j \in least : i <= j) \in DOMAIN s.pool
  BY <1>4, <1>6, <1>7
<1>8. QED
  BY <1>1, <1>2, <1>7

TuChanges(t, k, g, x, d) == [t EXCEPT !.clients[k] = g, !.dial[x] = d]

LEMMA TuChanged ==
  ASSUME NEW t, TuInv(t), NEW k \in DOMAIN t.clients, NEW g \in TuClients(t.dialers), NEW x \in RelayDials, NEW d \in TuDials(t.dialers),
         NEW u, u = TuChanges(t, k, g, x, d)
  PROVE  TuMoved(t, u, k, g, x, d)
<1>1. PICK v : v = TuPutClient(t, k, g)
  OBVIOUS
<1>2. TuForm(t) /\ \A i \in DOMAIN t.pool : t.pool[i] \in DOMAIN t.clients
  BY DEF TuInv
<1>3. /\ TuForm(v) /\ v.udp = t.udp /\ v.dialers = t.dialers /\ v.pool = t.pool /\ v.conns = t.conns /\ v.dial = t.dial
      /\ DOMAIN v.clients = DOMAIN t.clients /\ v.clients[k] = g /\ \A j \in DOMAIN t.clients : j # k => v.clients[j] = t.clients[j]
  BY <1>1, <1>2, TuWithClient
<1>4. u = TuPutDial(v, x, d)
  BY <1>1, <1>2 DEF TuForm, TuChanges, TuPutClient, TuPutDial
<1>5. /\ TuForm(u) /\ u.udp = v.udp /\ u.dialers = v.dialers /\ u.pool = v.pool /\ u.conns = v.conns
      /\ u.clients = v.clients /\ u.dial[x] = d /\ \A y \in RelayDials : y # x => u.dial[y] = v.dial[y]
  <2>1. d \in TuDials(v.dialers)
    BY <1>3
  <2>2. QED
    BY <1>3, <1>4, <2>1, TuWithDial
<1>6. QED
  BY <1>2, <1>3, <1>5 DEF TuMoved

LEMMA TuPut ==
  ASSUME NEW t, TuInv(t), NEW k \in DOMAIN t.clients, NEW x \in RelayDials, NEW d \in TuDials(t.dialers), NEW u, u = TuPutDial(t, x, d)
  PROVE  TuMoved(t, u, k, t.clients[k], x, d)
<1>1. TuForm(t) /\ \A i \in DOMAIN t.pool : t.pool[i] \in DOMAIN t.clients
  BY DEF TuInv
<1>2. /\ TuForm(u) /\ u.udp = t.udp /\ u.dialers = t.dialers /\ u.pool = t.pool /\ u.conns = t.conns
      /\ u.clients = t.clients /\ u.dial[x] = d /\ \A y \in RelayDials : y # x => u.dial[y] = t.dial[y]
  BY <1>1, TuWithDial
<1>3. QED
  BY <1>1, <1>2 DEF TuMoved

\* A dial that goes on
TuAt(d, pc) == [d EXCEPT !.pc = pc]

LEMMA TuGoesOn ==
  ASSUME NEW t, TuForm(t), NEW x \in RelayDials, t.dial[x].pc # "new", NEW pc \in TuDialPcs
  PROVE  /\ TuAt(t.dial[x], pc) \in TuDials(t.dialers) /\ TuAt(t.dial[x], pc).pc = pc
         /\ TuAt(t.dial[x], pc).client = t.dial[x].client /\ TuAt(t.dial[x], pc).out = t.dial[x].out
         /\ TuAt(t.dial[x], pc).conn = t.dial[x].conn
<1>1. t.dial[x] \in [pc : TuDialPcs, dialer : t.dialers, client : Nat, out : Nat, again : BOOLEAN, conn : Nat, pipe : BOOLEAN]
  BY TuDialIs
<1>2. QED
  BY <1>1 DEF TuAt, TuDials

LEMMA TuGoto ==
  ASSUME NEW t, TuForm(t), NEW x \in RelayDials, NEW pc
  PROVE  TU!Goto(t, x, pc) = TuPutDial(t, x, TuAt(t.dial[x], pc))
BY DEF TU!Goto, TuForm, TuPutDial, TuAt

\* A dial that neither counts for client k nor has a session
LEMMA TuCalm ==
  ASSUME NEW udp, NEW c, NEW g, NEW conns, NEW dial, NEW e, NEW k, NEW x \in RelayDials, \A y \in RelayDials : y # x => e[y] = dial[y],
         TuClient(udp, c, conns, dial, k), ~TuCounts(dial[x], k), ~TuCounts(e[x], k),
         c.count \in Int, c.leaked \in Nat, g.conn = c.conn, g.count = c.count, g.leaked = c.leaked, g.lost = c.lost, g.late = c.late,
         g.stale = c.stale, g.pipes = c.pipes, c.pipes \subseteq RelayDials, TuReach(g, conns, e, k)
  PROVE  TuClient(udp, g, conns, e, k)
<1>1. TuConn(g, conns, k)
  BY DEF TuClient, TuConn
<1>2. ~TuStreams(e[x], k) /\ ~TuOpens(e[x], k) /\ ~TuStreams(dial[x], k) /\ ~TuOpens(dial[x], k)
  BY DEF TuCounts, TuStreams, TuOpens, TuCounted, TuStreaming
<1>3. TuCountOf(e, k) = TuCountOf(dial, k) /\ TuStreamsOf(e, k) = TuStreamsOf(dial, k)
  BY <1>2 DEF TuCountOf, TuStreamsOf
<1>4. TuCount(g, e, k)
  BY <1>3 DEF TuClient, TuCount
<1>5. TuMatch(g, e, k)
  <2>1. \A y \in RelayDials : TuCounts(e[y], k) => TuCounts(dial[y], k) /\ e[y] = dial[y]
    OBVIOUS
  <2>2. QED
    BY <2>1 DEF TuClient, TuMatch
<1>6. TuPipes(udp, g, conns, e, k)
  <2>1. TuPipes(udp, c, conns, dial, k)
    BY DEF TuClient
  <2>2. \A y \in c.pipes : y # x
    BY <1>2, <2>1 DEF TuPipes
  <2>3. \A y \in RelayDials : TuOpens(e[y], k) => TuOpens(dial[y], k) /\ e[y] = dial[y]
    BY <1>2
  <2>4. QED
    BY <2>1, <2>2, <2>3 DEF TuPipes
<1>7. QED
  BY <1>1, <1>4, <1>5, <1>6 DEF TuClient

LEMMA TuPicks == ASSUME TuInv(s), NEW x \in RelayDials, NEW d \in s.dialers, TU!Pick(x, d) PROVE TuInv(s')
<1>1. s.dial[x].pc = "new" /\ TuForm(s)
  BY DEF TU!Pick, TU!At, TU!D, TuInv
<1>2. PICK k : k = TU!Fewest(d)
  OBVIOUS
<1>3. k \in {0} \cup DOMAIN s.clients
  BY <1>2, TuFewest
<1>4. PICK e : e = [pc |-> "sweep", dialer |-> d, client |-> k, out |-> 0, again |-> FALSE, conn |-> 0, pipe |-> FALSE]
  OBVIOUS
<1>5. s' = TuPutDial(s, x, e)
  BY <1>2, <1>4 DEF TU!Pick, TuPutDial
<1>6. e \in TuDials(s.dialers)
  <2>1. k \in Nat
    BY <1>3, TuClientHas
  <2>2. QED
    BY <1>4, <2>1 DEF TuDials, TuDialPcs
<1>7. \A j \in DOMAIN s.clients : TuKeeps(s.dial[x], e, j)
  BY <1>1, <1>4 DEF TuKeeps, TuCounts, TuStreams, TuOpens, TuHolds, TuCounted, TuStreaming
<1>8. TuDial(s.clients, s.conns, e)
  BY <1>3, <1>4 DEF TuDial, TuCounted
<1>9. QED
  BY <1>5, <1>6, <1>7, <1>8, TuMoveAlone

LEMMA TuSweeps == ASSUME TuInv(s), NEW x \in RelayDials, TU!Sweep(x) PROVE TuInv(s')
<1>1. s.dial[x].pc = "sweep" /\ TuForm(s)
  BY DEF TU!Sweep, TU!At, TU!D, TuInv
<1>2. PICK k \in TU!OldClients(x) :
        s' = TU!Goto([s EXCEPT !.clients[k].closed = TRUE, !.dial[x].out = k], x, "remove")
  BY DEF TU!Sweep
<1>3. k \in DOMAIN s.clients
  BY DEF TU!OldClients, TuInv
<1>4. PICK c : c = s.clients[k] /\ c \in TuClients(s.dialers) /\ c.pipes \subseteq RelayDials /\ k \in Nat
  BY <1>3, TuClientHas
<1>5. PICK d : d = s.dial[x] /\ d \in [pc : TuDialPcs, dialer : s.dialers, client : Nat, out : Nat, again : BOOLEAN, conn : Nat, pipe : BOOLEAN]
  BY <1>1, TuDialIs
<1>6. PICK g, e : g = [c EXCEPT !.closed = TRUE] /\ e = [d EXCEPT !.out = k, !.pc = "remove"]
  OBVIOUS
<1>7. s' = TuChanges(s, k, g, x, e)
  BY <1>1, <1>2, <1>3, <1>4, <1>5, <1>6 DEF TuForm, TuChanges, TU!Goto
<1>8. g \in TuClients(s.dialers) /\ g.conn = c.conn /\ g.count = c.count /\ g.leaked = c.leaked /\ g.lost = c.lost /\ g.late = c.late
      /\ g.stale = c.stale /\ g.pipes = c.pipes
  BY <1>4, <1>6 DEF TuClients
<1>9. e \in TuDials(s.dialers) /\ e.pc = "remove" /\ e.client = d.client /\ e.out = k
  BY <1>4, <1>5, <1>6 DEF TuDials, TuDialPcs
<1>10. TuMoved(s, s', k, g, x, e)
  BY <1>3, <1>7, <1>8, <1>9, TuChanged
<1>11. s'.dial[x] = e /\ \A y \in RelayDials : y # x => s'.dial[y] = s.dial[y]
  BY <1>10 DEF TuMoved
<1>12. TuReach(g, s.conns, s'.dial, k)
  BY <1>9, <1>11 DEF TuReach, TuHolds
<1>13. ~TuCounts(d, k) /\ ~TuCounts(e, k)
  BY <1>1, <1>5, <1>9 DEF TuCounts, TuCounted
<1>14. TuClient(s.udp, g, s.conns, s'.dial, k)
  <2>1. TuClient(s.udp, c, s.conns, s.dial, k)
    BY <1>3, <1>4, TuClientHas
  <2>2. c.count \in Int /\ c.leaked \in Nat
    BY <1>4 DEF TuClients
  <2>3. QED
    BY <1>4, <1>5, <1>8, <1>11, <1>12, <1>13, <2>1, <2>2, TuCalm
<1>15. \A j \in DOMAIN s.clients : j # k => TuKeeps(s.dial[x], e, j)
  BY <1>1, <1>5, <1>9 DEF TuKeeps, TuCounts, TuStreams, TuOpens, TuHolds, TuCounted, TuStreaming
<1>16. TuDial(s.clients, s.conns, e)
  <2>1. TuDial(s.clients, s.conns, d)
    BY <1>5 DEF TuInv
  <2>2. QED
    BY <1>1, <1>3, <1>5, <1>9, <2>1 DEF TuDial, TuCounted
<1>17. QED
  BY <1>3, <1>10, <1>14, <1>15, <1>16, TuMove

TuPutPool(t, p) == [t EXCEPT !.pool = p]
TuPutFaults(t, n) == [t EXCEPT !.faults = n]

\* What else t and u have in common
TuAlike(t, u) ==
  TuForm(u) /\ u.udp = t.udp /\ u.dialers = t.dialers /\ u.conns = t.conns /\ u.clients = t.clients /\ u.dial = t.dial

LEMMA TuAside ==
  ASSUME NEW t, TuInv(t), NEW u, TuAlike(t, u), \A i \in DOMAIN u.pool : u.pool[i] \in DOMAIN t.clients
  PROVE  TuInv(u)
BY DEF TuInv, TuAlike

LEMMA TuPooled ==
  ASSUME NEW t, TuInv(t), NEW p \in Seq(Nat), \A i \in DOMAIN p : p[i] \in DOMAIN t.clients, NEW u, u = TuPutPool(t, p)
  PROVE  TuInv(u) /\ TuAlike(t, u)
<1>1. u \in [udp : {t.udp}, dialers : {t.dialers}, clients : {t.clients}, pool : {p}, conns : {t.conns}, faults : {t.faults}, dial : {t.dial}]
  BY DEF TuForm, TuInv, TuPutPool
<1>2. TuForm(u) /\ u.pool = p
  BY <1>1 DEF TuForm, TuInv
<1>3. TuAlike(t, u)
  BY <1>1, <1>2 DEF TuAlike
<1>4. QED
  BY <1>2, <1>3, TuAside

LEMMA TuFaulted ==
  ASSUME NEW t, TuInv(t), NEW n \in Nat, NEW u, u = TuPutFaults(t, n)
  PROVE  TuInv(u) /\ TuAlike(t, u)
<1>1. u \in [udp : {t.udp}, dialers : {t.dialers}, clients : {t.clients}, pool : {t.pool}, conns : {t.conns}, faults : {n}, dial : {t.dial}]
  BY DEF TuForm, TuInv, TuPutFaults
<1>2. TuForm(u) /\ u.pool = t.pool
  BY <1>1 DEF TuForm, TuInv
<1>3. TuAlike(t, u)
  BY <1>1, <1>2 DEF TuAlike
<1>4. QED
  BY <1>2, <1>3, TuAside DEF TuInv

LEMMA TuWithout ==
  ASSUME NEW S, NEW pool \in Seq(S), NEW k
  PROVE  TU!Without(pool, k) \in Seq(S)
<1>1. CASE \E i \in DOMAIN pool : pool[i] = k
  <2>1. PICK i \in DOMAIN pool : TU!Without(pool, k) = SubSeq(pool, 1, i - 1) \o SubSeq(pool, i + 1, Len(pool))
    BY <1>1 DEF TU!Without
  <2>2. i \in 1 .. Len(pool) /\ Len(pool) \in Nat
    BY <2>1
  <2>3. i \in Int /\ i - 1 \in Int /\ i + 1 \in Int /\ 1 \in Int /\ Len(pool) \in Int
    BY <2>2
  <2>4. \A j \in 1 .. Len(pool) : pool[j] \in S
    OBVIOUS
  <2>5. (\A j \in 1 .. i - 1 : pool[j] \in S) /\ (\A j \in i + 1 .. Len(pool) : pool[j] \in S)
    BY <2>2, <2>4
  <2>6. SubSeq(pool, 1, i - 1) \in Seq(S)
    BY <2>3, <2>5, SubSeqProperties
  <2>7. SubSeq(pool, i + 1, Len(pool)) \in Seq(S)
    BY <2>3, <2>5, SubSeqProperties
  <2>8. QED
    BY <2>1, <2>6, <2>7, ConcatProperties
<1>2. CASE ~\E i \in DOMAIN pool : pool[i] = k
  BY <1>2 DEF TU!Without
<1>3. QED
  BY <1>1, <1>2

\* A client that dials still count for
LEMMA TuCountedOn ==
  ASSUME NEW t, TuInv(t), NEW k \in DOMAIN t.clients, t.clients[k].count # 0, TuLeft(t.clients[k]), NEW n, TuOk(t.conns, k, n)
  PROVE  \E z \in RelayDials : TuCounts(t.dial[z], k) /\ t.dial[z].conn = n
<1>1. PICK c : c = t.clients[k]
  OBVIOUS
<1>2. TuConn(c, t.conns, k) /\ TuCount(c, t.dial, k) /\ TuMatch(c, t.dial, k)
  BY <1>1, TuClientHas DEF TuClient
<1>3. c.conn = n /\ n # 0
  <2>1. n \in DOMAIN t.conns /\ TuForm(t)
    BY DEF TuOk, TuInv
  <2>2. n # 0
    BY <2>1, TuConnIs
  <2>3. QED
    BY <1>2, <2>2 DEF TuConn
<1>4. Cardinality(TuCountOf(t.dial, k)) # 0
  <2>1. c.count = Cardinality(TuCountOf(t.dial, k)) + 0 /\ c.count # 0
    <3>1. ~c.lost /\ ~c.late /\ c.count # 0
      BY <1>1 DEF TuLeft
    <3>2. c.leaked = 0
      BY <1>2, <3>1 DEF TuConn
    <3>3. QED
      BY <1>2, <3>1, <3>2 DEF TuCount
  <2>2. Cardinality(TuCountOf(t.dial, k)) \in Nat
    <3>1. IsFiniteSet(RelayDials) /\ TuCountOf(t.dial, k) \in SUBSET RelayDials
      BY RelaysAssumption DEF TuCountOf
    <3>2. QED
      BY <3>1, FS_Subset, FS_CardinalityType
  <2>3. QED
    BY <2>1, <2>2
<1>5. TuCountOf(t.dial, k) # {}
  BY <1>4, FS_EmptySet
<1>6. PICK z \in RelayDials : TuCounts(t.dial[z], k)
  BY <1>5 DEF TuCountOf
<1>7. QED
  BY <1>1, <1>2, <1>3, <1>6 DEF TuMatch, TuLeft

LEMMA TuRemoves == ASSUME TuInv(s), NEW x \in RelayDials, TU!Remove(x) PROVE TuInv(s')
<1>1. s.dial[x].pc = "remove"
  BY DEF TU!Remove, TU!At, TU!D
<1>2. PICK k, t : k = s.dial[x].out /\ t = IF s.clients[k].count = 0 THEN TU!ForceClose(s, k, 0) ELSE s
  OBVIOUS
<1>3. PICK p, u : p = TU!Without(t.pool, k) /\ u = TuPutPool(t, p)
  OBVIOUS
<1>4. s' = TU!Goto(u, x, "sweep")
  BY <1>2, <1>3 DEF TU!Remove, TU!D, TuPutPool
<1>5. k \in DOMAIN s.clients
  BY <1>1, <1>2 DEF TuInv, TuDial
<1>6. /\ TuInv(t) /\ DOMAIN t.clients = DOMAIN s.clients /\ TuLike(s.dial[x], t.dial[x])
      /\ t.clients[k].count # 0 \/ \A n : ~TuOk(t.conns, k, n)
  <2>1. CASE s.clients[k].count = 0
    <3>1. TuInv(t) /\ TuForced(s, t, k, s.clients[k].conn)
      BY <1>2, <1>5, <2>1, TuForcing
    <3>2. t.clients[k].conn = 0 /\ DOMAIN t.clients = DOMAIN s.clients /\ TuLike(s.dial[x], t.dial[x])
      BY <3>1 DEF TuForced
    <3>3. TuConn(t.clients[k], t.conns, k) /\ TuForm(t)
      BY <1>5, <3>1, <3>2, TuClientHas DEF TuClient, TuInv
    <3>4. \A n : ~TuOk(t.conns, k, n)
      <4>1. \A n : TuOk(t.conns, k, n) => n = 0 /\ n \in DOMAIN t.conns
        BY <3>2, <3>3 DEF TuConn, TuOk
      <4>2. QED
        BY <3>3, <4>1, TuConnIs
    <3>5. QED
      BY <3>1, <3>2, <3>4
  <2>2. CASE s.clients[k].count # 0
    BY <1>2, <2>2 DEF TuLike
  <2>3. QED
    BY <2>1, <2>2
<1>7. TuInv(u) /\ TuAlike(t, u)
  <2>1. t.pool \in Seq(Nat) /\ \A i \in DOMAIN t.pool : t.pool[i] \in DOMAIN t.clients
    BY <1>6 DEF TuInv, TuForm
  <2>2. t.pool \in Seq(DOMAIN t.clients)
    BY <2>1
  <2>3. p \in Seq(DOMAIN t.clients)
    BY <1>3, <2>2, TuWithout
  <2>4. DOMAIN t.clients \subseteq Nat
    BY <1>6, TuClientHas
  <2>5. p \in Seq(Nat) /\ \A i \in DOMAIN p : p[i] \in DOMAIN t.clients
    BY <2>3, <2>4
  <2>6. QED
    BY <1>3, <1>6, <2>5, TuPooled
<1>8. PICK d, c : d = u.dial[x] /\ c = u.clients[k]
  OBVIOUS
<1>9. /\ d.pc = "remove" /\ d.client = s.dial[x].client /\ d.out = k /\ DOMAIN u.clients = DOMAIN s.clients
      /\ (c.count # 0 \/ \A n : ~TuOk(u.conns, k, n))
  BY <1>1, <1>2, <1>6, <1>7, <1>8 DEF TuAlike, TuLike
<1>10. PICK e : e = TuAt(d, "sweep")
  OBVIOUS
<1>11. e \in TuDials(u.dialers) /\ e.pc = "sweep" /\ e.client = d.client
  <2>1. TuForm(u) /\ "sweep" \in TuDialPcs
    BY <1>7 DEF TuInv, TuDialPcs
  <2>2. QED
    BY <1>8, <1>9, <1>10, <2>1, TuGoesOn
<1>12. s' = TuPutDial(u, x, e)
  BY <1>4, <1>7, <1>8, <1>10, TuGoto DEF TuInv
<1>13. TuMoved(u, s', k, c, x, e)
  BY <1>5, <1>7, <1>8, <1>9, <1>11, <1>12, TuPut
<1>14. s'.dial[x] = e /\ \A y \in RelayDials : y # x => s'.dial[y] = u.dial[y]
  BY <1>13 DEF TuMoved
<1>15. TuReach(c, u.conns, s'.dial, k)
  <2>1. ASSUME TuLeft(c), NEW n, TuOk(u.conns, k, n) PROVE \E z \in RelayDials : TuHolds(s'.dial[z], k, n)
    <3>1. c.count # 0
      BY <1>9, <2>1
    <3>2. PICK z \in RelayDials : TuCounts(u.dial[z], k) /\ u.dial[z].conn = n
      BY <1>5, <1>7, <1>8, <1>9, <2>1, <3>1, TuCountedOn
    <3>3. z # x
      BY <1>8, <1>9, <3>2 DEF TuCounts, TuCounted
    <3>4. QED
      BY <1>14, <3>2, <3>3 DEF TuCounts, TuHolds
  <2>2. QED
    BY <2>1 DEF TuReach
<1>16. ~TuCounts(d, k) /\ ~TuCounts(e, k)
  BY <1>9, <1>11 DEF TuCounts, TuCounted
<1>17. TuClient(u.udp, c, u.conns, s'.dial, k)
  <2>1. TuClient(u.udp, c, u.conns, u.dial, k) /\ c \in TuClients(u.dialers) /\ c.pipes \subseteq RelayDials
    BY <1>5, <1>7, <1>8, <1>9, TuClientHas
  <2>2. c.count \in Int /\ c.leaked \in Nat
    BY <2>1 DEF TuClients
  <2>3. QED
    BY <1>8, <1>14, <1>15, <1>16, <2>1, <2>2, TuCalm
<1>18. \A j \in DOMAIN u.clients : j # k => TuKeeps(u.dial[x], e, j)
  BY <1>8, <1>9, <1>11 DEF TuKeeps, TuCounts, TuStreams, TuOpens, TuHolds, TuCounted, TuStreaming
<1>19. TuDial(u.clients, u.conns, e)
  <2>1. TuDial(u.clients, u.conns, d)
    BY <1>7, <1>8 DEF TuInv
  <2>2. QED
    BY <1>9, <1>11, <2>1 DEF TuDial, TuCounted
<1>20. QED
  BY <1>5, <1>7, <1>9, <1>13, <1>17, <1>18, <1>19, TuMove

LEMMA TuSwept == ASSUME TuInv(s), NEW x \in RelayDials, TU!Swept(x) PROVE TuInv(s')
<1>1. s.dial[x].pc = "sweep" /\ TuForm(s)
  BY DEF TU!Swept, TU!At, TU!D, TuInv
<1>2. PICK d : d = s.dial[x] /\ d \in [pc : TuDialPcs, dialer : s.dialers, client : Nat, out : Nat, again : BOOLEAN, conn : Nat, pipe : BOOLEAN]
  BY <1>1, TuDialIs
<1>3. TuDial(s.clients, s.conns, d)
  BY <1>2 DEF TuInv
<1>4. CASE d.client = 0
  <2>1. PICK e : e = TuAt(d, "client")
    OBVIOUS
  <2>2. e \in TuDials(s.dialers) /\ e.pc = "client" /\ e.client = 0
    BY <1>2, <1>4, <2>1 DEF TuAt, TuDials, TuDialPcs
  <2>3. s' = TuPutDial(s, x, e)
    <3>1. s' = TU!Goto(s, x, "client")
      BY <1>2, <1>4 DEF TU!Swept, TU!D
    <3>2. QED
      BY <1>1, <1>2, <2>1, <3>1, TuGoto
  <2>4. \A j \in DOMAIN s.clients : TuKeeps(s.dial[x], e, j)
    <3>1. \A j \in DOMAIN s.clients : j # 0
      BY TuClientHas
    <3>2. QED
      BY <1>1, <1>2, <1>4, <2>2, <3>1 DEF TuKeeps, TuCounts, TuStreams, TuOpens, TuHolds, TuCounted, TuStreaming
  <2>5. TuDial(s.clients, s.conns, e)
    BY <2>2 DEF TuDial, TuCounted
  <2>6. QED
    BY <2>2, <2>3, <2>4, <2>5, TuMoveAlone
<1>5. CASE d.client # 0
  <2>1. PICK k \in DOMAIN s.clients : k = d.client
    BY <1>1, <1>2, <1>3, <1>5 DEF TuDial
  <2>2. PICK c : c = s.clients[k] /\ c \in TuClients(s.dialers) /\ c.pipes \subseteq RelayDials
    BY TuClientHas
  <2>3. PICK g, e : g = [c EXCEPT !.idle = FALSE] /\ e = [d EXCEPT !.pc = "conn"]
    OBVIOUS
  <2>4. s' = TuChanges(s, k, g, x, e)
    <3>1. s' = TU!Goto([s EXCEPT !.clients[k].idle = FALSE], x, "conn")
      BY <1>2, <1>5, <2>1 DEF TU!Swept, TU!D
    <3>2. QED
      BY <1>1, <1>2, <2>2, <2>3, <3>1 DEF TuForm, TuChanges, TU!Goto
  <2>5. g \in TuClients(s.dialers) /\ g.conn = c.conn /\ g.count = c.count /\ g.leaked = c.leaked /\ g.lost = c.lost /\ g.late = c.late
        /\ g.stale = c.stale /\ g.pipes = c.pipes
    BY <2>2, <2>3 DEF TuClients
  <2>6. e \in TuDials(s.dialers) /\ e.pc = "conn" /\ e.client = k
    BY <1>2, <2>1, <2>3 DEF TuDials, TuDialPcs
  <2>7. TuMoved(s, s', k, g, x, e)
    BY <2>4, <2>5, <2>6, TuChanged
  <2>8. s'.dial[x] = e /\ \A y \in RelayDials : y # x => s'.dial[y] = s.dial[y]
    BY <2>7 DEF TuMoved
  <2>9. TuReach(g, s.conns, s'.dial, k)
    BY <2>6, <2>8 DEF TuReach, TuHolds
  <2>10. ~TuCounts(d, k) /\ ~TuCounts(e, k)
    BY <1>1, <1>2, <2>6 DEF TuCounts, TuCounted
  <2>11. TuClient(s.udp, g, s.conns, s'.dial, k)
    <3>1. TuClient(s.udp, c, s.conns, s.dial, k)
      BY <2>2, TuClientHas
    <3>2. c.count \in Int /\ c.leaked \in Nat
      BY <2>2 DEF TuClients
    <3>3. QED
      BY <1>2, <2>2, <2>5, <2>8, <2>9, <2>10, <3>1, <3>2, TuCalm
  <2>12. \A j \in DOMAIN s.clients : j # k => TuKeeps(s.dial[x], e, j)
    <3>1. s.dial[x].client = k /\ s.dial[x].pc # "remove"
      BY <1>1, <1>2, <2>1
    <3>2. QED
      BY <2>6, <3>1, TuElsewhere
  <2>13. TuDial(s.clients, s.conns, e)
    <3>1. k # 0
      BY TuClientHas
    <3>2. QED
      BY <2>6, <3>1 DEF TuDial, TuCounted
  <2>14. QED
    BY <2>7, <2>11, <2>12, <2>13, TuMove
<1>6. QED
  BY <1>4, <1>5

\* Clients and connections are appended.
LEMMA TuAppended ==
  ASSUME NEW S, NEW l \in Seq(S), NEW v \in S
  PROVE  /\ Append(l, v) \in Seq(S) /\ Len(l) + 1 \in Nat \ {0} /\ Len(l) + 1 \notin DOMAIN l
         /\ DOMAIN Append(l, v) = DOMAIN l \cup {Len(l) + 1} /\ Append(l, v)[Len(l) + 1] = v
         /\ \A i \in DOMAIN l : Append(l, v)[i] = l[i]
<1>1. /\ Append(l, v) \in Seq(S) /\ Len(Append(l, v)) = Len(l) + 1 /\ \A i \in 1 .. Len(l) : Append(l, v)[i] = l[i]
      /\ Append(l, v)[Len(l) + 1] = v
  BY AppendProperties
<1>2. DOMAIN l = 1 .. Len(l) /\ Len(l) \in Nat /\ DOMAIN Append(l, v) = 1 .. Len(l) + 1
  BY <1>1, LenProperties
<1>3. 1 .. Len(l) + 1 = (1 .. Len(l)) \cup {Len(l) + 1} /\ Len(l) + 1 \notin 1 .. Len(l)
  BY <1>2
<1>4. QED
  BY <1>1, <1>2, <1>3

LEMMA TuNone == Cardinality({}) = 0 /\ 0 < TuicStreams
BY FS_EmptySet, RelaysAssumption

LEMMA TuNews == ASSUME TuInv(s), NEW x \in RelayDials, TU!NewClient(x) PROVE TuInv(s')
<1>1. s.dial[x].pc = "client" /\ TuForm(s)
  BY DEF TU!NewClient, TU!At, TU!D, TuInv
<1>2. PICK d : d = s.dial[x] /\ d \in [pc : TuDialPcs, dialer : s.dialers, client : Nat, out : Nat, again : BOOLEAN, conn : Nat, pipe : BOOLEAN]
  BY <1>1, TuDialIs
<1>3. PICK k, c :
        /\ k = Len(s.clients) + 1
        /\ c = [dialer |-> d.dialer, conn |-> 0, count |-> 0, closed |-> FALSE, idle |-> FALSE,
                pipes |-> {}, lost |-> FALSE, late |-> FALSE, leaked |-> 0, refused |-> FALSE, stale |-> FALSE]
  OBVIOUS
<1>4. PICK q, p, e, Y :
        q = Append(s.clients, c) /\ p = <<k>> \o s.pool /\ e = [d EXCEPT !.client = k, !.pc = "conn"] /\ Y = [s.dial EXCEPT ![x] = e]
  OBVIOUS
<1>5. s' = [s EXCEPT !.clients = q, !.pool = p, !.dial = Y]
  <2>1. s' = TU!Goto([s EXCEPT !.clients = q, !.pool = p, !.dial[x].client = k], x, "conn")
    BY <1>2, <1>3, <1>4, Zenon DEF TU!NewClient, TU!D
  <2>2. QED
    BY <1>1, <1>2, <1>4, <2>1 DEF TuForm, TU!Goto
<1>6. s' \in [udp : {s.udp}, dialers : {s.dialers}, clients : {q}, pool : {p}, conns : {s.conns}, faults : {s.faults}, dial : {Y}]
  BY <1>1, <1>5 DEF TuForm
<1>7. s'.udp = s.udp /\ s'.dialers = s.dialers /\ s'.clients = q /\ s'.pool = p /\ s'.conns = s.conns /\ s'.faults = s.faults /\ s'.dial = Y
  BY <1>6
<1>8. c \in TuClients(s.dialers)
  BY <1>2, <1>3 DEF TuClients
<1>9. /\ q \in Seq(TuClients(s.dialers)) /\ k \in Nat \ {0} /\ k \notin DOMAIN s.clients /\ DOMAIN q = DOMAIN s.clients \cup {k} /\ q[k] = c
      /\ \A j \in DOMAIN s.clients : q[j] = s.clients[j]
  <2>1. s.clients \in Seq(TuClients(s.dialers))
    BY <1>1 DEF TuForm
  <2>2. QED
    BY <1>3, <1>4, <1>8, <2>1, TuAppended
<1>10. e \in TuDials(s.dialers) /\ e.pc = "conn" /\ e.client = k
  BY <1>2, <1>4, <1>9 DEF TuDials, TuDialPcs
<1>11. Y \in [RelayDials -> TuDials(s.dialers)] /\ Y[x] = e /\ \A y \in RelayDials : y # x => Y[y] = s.dial[y]
  BY <1>1, <1>4, <1>10 DEF TuForm
<1>12. p \in Seq(Nat) /\ \A i \in DOMAIN p : p[i] \in DOMAIN q
  <2>1. s.pool \in Seq(Nat) /\ \A i \in DOMAIN s.pool : s.pool[i] \in DOMAIN s.clients
    BY DEF TuInv, TuForm
  <2>2. s.pool \in Seq(DOMAIN q)
    BY <1>9, <2>1
  <2>3. <<k>> \in Seq(DOMAIN q)
    BY <1>9
  <2>4. p \in Seq(DOMAIN q)
    BY <1>4, <2>2, <2>3, ConcatProperties
  <2>5. DOMAIN q \subseteq Nat
    BY <1>9, TuClientHas
  <2>6. QED
    BY <2>4, <2>5
<1>13. TuForm(s')
  <2>1. s.udp \in BOOLEAN /\ s.conns \in Seq(TuConns) /\ s.faults \in Nat
    BY <1>1 DEF TuForm
  <2>2. QED
    BY <1>6, <1>7, <1>9, <1>11, <1>12, <2>1 DEF TuForm
<1>14. \A n \in DOMAIN s.conns : s.conns[n].client \in DOMAIN s.clients
  BY DEF TuInv
<1>15. ASSUME NEW y \in RelayDials PROVE TuDial(q, s.conns, Y[y])
  <2>1. CASE y = x
    BY <1>9, <1>10, <1>11, <2>1 DEF TuDial, TuCounted
  <2>2. CASE y # x
    BY <1>9, <1>11, <2>2 DEF TuDial, TuInv
  <2>3. QED
    BY <2>1, <2>2
<1>16. ASSUME NEW j \in DOMAIN s.clients PROVE TuClient(s.udp, q[j], s.conns, Y, j)
  <2>1. j # k
    BY <1>9
  <2>2. ASSUME NEW y \in RelayDials PROVE TuKeeps(s.dial[y], Y[y], j)
    <3>1. CASE y = x
      BY <1>1, <1>10, <1>11, <2>1, <3>1 DEF TuKeeps, TuCounts, TuStreams, TuOpens, TuHolds, TuCounted, TuStreaming
    <3>2. CASE y # x
      BY <1>11, <3>2, TuLikes, TuSame
    <3>3. QED
      BY <3>1, <3>2
  <2>3. TuClient(s.udp, s.clients[j], s.conns, s.dial, j) /\ s.clients[j].pipes \subseteq RelayDials
    BY TuClientHas
  <2>4. \A y \in RelayDials : TuOpens(s.dial[y], j) => s.dial[y].conn \in DOMAIN s.conns /\ s.conns[s.dial[y].conn].client = j
    BY TuOpenHas
  <2>5. TuWorse(s.conns, s.conns, j)
    BY DEF TuWorse
  <2>6. TuClient(s.udp, s.clients[j], s.conns, Y, j)
    BY <2>2, <2>3, <2>4, <2>5, TuFrame
  <2>7. QED
    BY <1>9, <2>6
<1>17. TuClient(s.udp, c, s.conns, Y, k)
  <2>1. \A n : ~TuOk(s.conns, k, n)
    BY <1>9, <1>14 DEF TuOk
  <2>2. ASSUME NEW y \in RelayDials PROVE ~TuCounts(Y[y], k) /\ ~TuStreams(Y[y], k) /\ ~TuOpens(Y[y], k)
    <3>1. CASE y = x
      BY <1>10, <1>11, <3>1 DEF TuCounts, TuStreams, TuOpens, TuCounted, TuStreaming
    <3>2. CASE y # x
      <4>1. TuDial(s.clients, s.conns, s.dial[y])
        BY DEF TuInv
      <4>2. s.dial[y].pc # "new" => s.dial[y].client # k
        BY <1>9, <4>1 DEF TuDial
      <4>3. QED
        BY <1>11, <3>2, <4>2 DEF TuCounts, TuStreams, TuOpens, TuCounted, TuStreaming
    <3>3. QED
      BY <3>1, <3>2
  <2>3. TuCountOf(Y, k) = {} /\ TuStreamsOf(Y, k) = {}
    BY <2>2 DEF TuCountOf, TuStreamsOf
  <2>4. c.conn = 0 /\ c.count = 0 /\ c.leaked = 0 /\ ~c.closed /\ c.pipes = {}
    BY <1>3
  <2>5. TuCount(c, Y, k)
    BY <2>3, <2>4, TuNone DEF TuCount
  <2>6. TuConn(c, s.conns, k) /\ TuMatch(c, Y, k) /\ TuReach(c, s.conns, Y, k) /\ TuPipes(s.udp, c, s.conns, Y, k)
    BY <2>1, <2>2, <2>4 DEF TuConn, TuMatch, TuReach, TuPipes, TuLeft
  <2>7. QED
    BY <2>5, <2>6 DEF TuClient
<1>18. QED
  BY <1>7, <1>9, <1>12, <1>13, <1>14, <1>15, <1>16, <1>17 DEF TuInv

\* Dial x of client k goes from d to e, and the client from c to g, in state t.
TuTurn(t, k, c, g, x, d, e) ==
  /\ d = t.dial[x] /\ c = t.clients[k] /\ d.client = k /\ e.client = k /\ (d.pc # "remove" \/ d.out = k)
  /\ g.conn = c.conn /\ g.lost = c.lost /\ g.stale = c.stale /\ (c.late => g.late)
  /\ g.leaked = c.leaked \/ g.lost \/ g.late \/ \A n : ~TuOk(t.conns, k, n)
  /\ \/ (TuCounts(e, k) <=> TuCounts(d, k)) /\ g.count - g.leaked = c.count - c.leaked
     \/ TuCounts(e, k) /\ ~TuCounts(d, k) /\ g.count - g.leaked = c.count - c.leaked + 1
     \/ ~TuCounts(e, k) /\ TuCounts(d, k) /\ g.count - g.leaked = c.count - c.leaked - 1
  /\ \/ TuStreams(e, k) => TuStreams(d, k)
     \/ g.count < TuicStreams
  /\ TuCounts(e, k) => g.late \/ e.conn = c.conn \/ (TuCounts(d, k) /\ e.conn = d.conn)
  /\ TuLeft(g) =>
       /\ TuLeft(c)
       /\ \A n : TuOk(t.conns, k, n) /\ TuHolds(d, k, n) =>
            TuHolds(e, k, n) \/ \E z \in RelayDials : z # x /\ TuHolds(t.dial[z], k, n)
  /\ \A y \in RelayDials : y # x => (y \in g.pipes <=> y \in c.pipes)
  /\ x \in g.pipes => t.udp /\ TuOpens(e, k)
  /\ t.udp /\ TuOpens(e, k) /\ t.conns[e.conn].state = "ok" => x \in g.pipes \/ g.stale

LEMMA TuTurns ==
  ASSUME NEW t, TuInv(t), NEW k \in DOMAIN t.clients, NEW c, NEW g \in TuClients(t.dialers), NEW x \in RelayDials, NEW d,
         NEW e \in TuDials(t.dialers), TuTurn(t, k, c, g, x, d, e), TuDial(t.clients, t.conns, e),
         NEW u, u = TuChanges(t, k, g, x, e)
  PROVE  TuInv(u)
<1>1. TuMoved(t, u, k, g, x, e)
  BY TuChanged
<1>2. u.dial[x] = e /\ \A y \in RelayDials : y # x => u.dial[y] = t.dial[y]
  BY <1>1 DEF TuMoved
<1>3. d = t.dial[x] /\ c = t.clients[k] /\ g.conn = c.conn /\ g.lost = c.lost /\ g.stale = c.stale /\ (c.late => g.late)
  BY DEF TuTurn
<1>4. /\ TuConn(c, t.conns, k) /\ TuCount(c, t.dial, k) /\ TuMatch(c, t.dial, k) /\ TuReach(c, t.conns, t.dial, k)
      /\ TuPipes(t.udp, c, t.conns, t.dial, k) /\ c \in TuClients(t.dialers)
  BY <1>3, TuClientHas DEF TuClient
<1>5. TuConn(g, t.conns, k)
  <2>1. g.leaked = c.leaked \/ g.lost \/ g.late \/ \A n : ~TuOk(t.conns, k, n)
    BY DEF TuTurn
  <2>2. QED
    BY <1>3, <1>4, <2>1 DEF TuConn
<1>6. TuCount(g, u.dial, k)
  <2>1. c.count \in Int /\ g.count \in Int /\ c.leaked \in Nat /\ g.leaked \in Nat
    BY <1>4 DEF TuClients
  <2>2. \A y \in RelayDials : y # x => TuLike(t.dial[y], u.dial[y])
    BY <1>2, TuSame
  <2>3. \/ (TuCounts(u.dial[x], k) <=> TuCounts(t.dial[x], k)) /\ g.count - g.leaked = c.count - c.leaked
        \/ TuCounts(u.dial[x], k) /\ ~TuCounts(t.dial[x], k) /\ g.count - g.leaked = c.count - c.leaked + 1
        \/ ~TuCounts(u.dial[x], k) /\ TuCounts(t.dial[x], k) /\ g.count - g.leaked = c.count - c.leaked - 1
    BY <1>2, <1>3 DEF TuTurn
  <2>4. \/ TuStreams(u.dial[x], k) => TuStreams(t.dial[x], k)
        \/ g.count < TuicStreams
    BY <1>2, <1>3 DEF TuTurn
  <2>5. g.lost = c.lost /\ TuCount(c, t.dial, k)
    BY <1>3, <1>4
  <2> HIDE DEF TuCount
  <2>6. QED
    BY ONLY <2>1, <2>2, <2>3, <2>4, <2>5, TuCountKept, x \in RelayDials
<1>7. TuMatch(g, u.dial, k)
  <2>1. ASSUME ~g.lost, ~g.late, NEW y \in RelayDials, TuCounts(u.dial[y], k) PROVE u.dial[y].conn = g.conn \/ g.conn = 0
    <3>1. CASE y = x
      <4>1. TuCounts(e, k) => g.late \/ e.conn = c.conn \/ (TuCounts(d, k) /\ e.conn = d.conn)
        BY DEF TuTurn
      <4>2. QED
        BY <1>2, <1>3, <1>4, <2>1, <3>1, <4>1 DEF TuMatch
    <3>2. CASE y # x
      BY <1>2, <1>3, <1>4, <2>1, <3>2 DEF TuMatch
    <3>3. QED
      BY <3>1, <3>2
  <2>2. QED
    BY <2>1 DEF TuMatch
<1>8. TuReach(g, t.conns, u.dial, k)
  <2>1. ASSUME TuLeft(g), NEW n, TuOk(t.conns, k, n) PROVE \E z \in RelayDials : TuHolds(u.dial[z], k, n)
    <3>1. TuLeft(c) /\ (TuHolds(d, k, n) => TuHolds(e, k, n) \/ \E z \in RelayDials : z # x /\ TuHolds(t.dial[z], k, n))
      BY <2>1 DEF TuTurn
    <3>2. PICK z \in RelayDials : TuHolds(t.dial[z], k, n)
      BY <1>4, <2>1, <3>1 DEF TuReach
    <3>3. CASE z # x
      BY <1>2, <3>2, <3>3
    <3>4. CASE z = x
      BY <1>2, <1>3, <3>1, <3>2, <3>4
    <3>5. QED
      BY <3>3, <3>4
  <2>2. QED
    BY <2>1 DEF TuReach
<1>9. TuPipes(t.udp, g, t.conns, u.dial, k)
  <2>1. /\ \A y \in RelayDials : y # x => (y \in g.pipes <=> y \in c.pipes)
        /\ x \in g.pipes => t.udp /\ TuOpens(e, k)
        /\ t.udp /\ TuOpens(e, k) /\ t.conns[e.conn].state = "ok" => x \in g.pipes \/ g.stale
    BY DEF TuTurn
  <2>2. g.pipes \subseteq RelayDials
    BY DEF TuClients
  <2>3. \A y \in g.pipes : t.udp /\ TuOpens(u.dial[y], k)
    BY <1>2, <1>4, <2>1, <2>2 DEF TuPipes
  <2>4. ASSUME t.udp, NEW y \in RelayDials, TuOpens(u.dial[y], k), t.conns[u.dial[y].conn].state = "ok" PROVE y \in g.pipes \/ g.stale
    <3>1. CASE y = x
      BY <1>2, <2>1, <2>4, <3>1
    <3>2. CASE y # x
      BY <1>2, <1>3, <1>4, <2>1, <2>4, <3>2 DEF TuPipes
    <3>3. QED
      BY <3>1, <3>2
  <2>5. QED
    BY <2>3, <2>4 DEF TuPipes
<1>10. TuClient(t.udp, g, t.conns, u.dial, k)
  BY <1>5, <1>6, <1>7, <1>8, <1>9 DEF TuClient
<1>11. \A j \in DOMAIN t.clients : j # k => TuKeeps(t.dial[x], e, j)
  <2>1. d.client = k /\ e.client = k /\ (d.pc # "remove" \/ d.out = k)
    BY DEF TuTurn
  <2>2. QED
    BY <1>3, <2>1, TuElsewhere
<1>12. QED
  BY <1>1, <1>10, <1>11, TuMove

LEMMA TuPutIs ==
  ASSUME NEW t, TuInv(t), NEW k \in DOMAIN t.clients, NEW x \in RelayDials, NEW e
  PROVE  TuPutDial(t, x, e) = TuChanges(t, k, t.clients[k], x, e)
<1>1. TuForm(t)
  BY DEF TuInv
<1>2. [t.clients EXCEPT ![k] = t.clients[k]] = t.clients
  BY <1>1 DEF TuForm
<1>3. QED
  BY <1>1, <1>2 DEF TuForm, TuPutDial, TuChanges

\* A dial that x is at, with its client
LEMMA TuHere ==
  ASSUME NEW t, TuInv(t), NEW x \in RelayDials, NEW pc, t.dial[x].pc = pc,
         pc \in {"conn", "count", "over", "stream", "open", "timer", "last"}
  PROVE  \E k \in DOMAIN t.clients, c \in TuClients(t.dialers),
           d \in [pc : {pc}, dialer : t.dialers, client : {t.dial[x].client}, out : Nat, again : BOOLEAN, conn : Nat, pipe : BOOLEAN] :
           /\ k = t.dial[x].client /\ c = t.clients[k] /\ d = t.dial[x] /\ k # 0
           /\ TuClient(t.udp, c, t.conns, t.dial, k)
           /\ pc # "conn" => d.conn \in DOMAIN t.conns /\ t.conns[d.conn].client = k
<1>1. t.dial[x].pc # "new" /\ TuForm(t)
  BY DEF TuInv
<1>2. t.dial[x] \in [pc : TuDialPcs, dialer : t.dialers, client : Nat, out : Nat, again : BOOLEAN, conn : Nat, pipe : BOOLEAN]
  BY <1>1, TuDialIs
<1>3. t.dial[x] \in [pc : {pc}, dialer : t.dialers, client : {t.dial[x].client}, out : Nat, again : BOOLEAN, conn : Nat, pipe : BOOLEAN]
  BY <1>2
<1>4. /\ t.dial[x].client \in DOMAIN t.clients
      /\ pc # "conn" => t.dial[x].conn \in DOMAIN t.conns /\ t.conns[t.dial[x].conn].client = t.dial[x].client
  BY TuDialHas
<1>5. /\ TuClient(t.udp, t.clients[t.dial[x].client], t.conns, t.dial, t.dial[x].client)
      /\ t.clients[t.dial[x].client] \in TuClients(t.dialers) /\ t.dial[x].client # 0
  BY <1>4, TuClientHas
<1>6. QED
  BY <1>3, <1>4, <1>5

LEMMA TuCountsOn == ASSUME TuInv(s), NEW x \in RelayDials, TU!Count(x) PROVE TuInv(s')
<1>1. s.dial[x].pc = "count"
  BY DEF TU!Count, TU!At, TU!D
<1>2. PICK k \in DOMAIN s.clients, c \in TuClients(s.dialers),
        d \in [pc : {"count"}, dialer : s.dialers, client : {s.dial[x].client}, out : Nat, again : BOOLEAN, conn : Nat, pipe : BOOLEAN] :
           /\ k = s.dial[x].client /\ c = s.clients[k] /\ d = s.dial[x] /\ k # 0
           /\ TuClient(s.udp, c, s.conns, s.dial, k)
           /\ d.conn \in DOMAIN s.conns /\ s.conns[d.conn].client = k
  BY <1>1, TuHere
<1>3. PICK pc, a, b :
        pc = (IF c.count + 1 >= TuicStreams THEN "over" ELSE "stream") /\ a = c.count + 1 /\ b = (c.late \/ c.conn # d.conn)
  OBVIOUS
<1>4. PICK g, e : g = [c EXCEPT !.count = a, !.late = b] /\ e = [d EXCEPT !.pc = pc]
  OBVIOUS
<1>5. s' = TuChanges(s, k, g, x, e)
  <2>1. s' = TU!Goto([s EXCEPT !.clients[k].count = a, !.clients[k].late = b], x, pc)
    BY <1>2, <1>3 DEF TU!Count, TU!D, TU!Mine, TuForm, TuInv
  <2>2. QED
    BY <1>2, <1>4, <2>1 DEF TuInv, TuForm, TuChanges, TU!Goto
<1>6. /\ g \in TuClients(s.dialers) /\ g.conn = c.conn /\ g.count = c.count + 1 /\ g.leaked = c.leaked /\ g.lost = c.lost
      /\ (c.late => g.late) /\ (c.conn # d.conn => g.late) /\ g.stale = c.stale /\ g.pipes = c.pipes /\ c.count \in Int /\ c.leaked \in Nat
      /\ g.closed = c.closed /\ g.refused = c.refused
  <2>1. c \in TuClients(s.dialers)
    OBVIOUS
  <2>2. b \in BOOLEAN /\ (c.late => b) /\ (c.conn # d.conn => b)
    <3>1. c.late \in BOOLEAN
      BY <2>1 DEF TuClients
    <3>2. QED
      BY <1>3, <3>1
  <2>3. c.count \in Int /\ a = c.count + 1 /\ a \in Int
    BY <1>3, <2>1 DEF TuClients
  <2>4. g = [c EXCEPT !.count = a, !.late = b]
    BY <1>4
  <2>5. QED
    BY ONLY <2>1, <2>2, <2>3, <2>4 DEF TuClients
<1>7. /\ e \in TuDials(s.dialers) /\ e.pc = pc /\ pc \in {"over", "stream"} /\ e.client = k /\ e.conn = d.conn
      /\ (pc = "stream" => g.count < TuicStreams)
  <2>1. TuicStreams \in Nat
    BY RelaysAssumption
  <2>2. pc = "stream" => g.count < TuicStreams
    BY <1>3, <1>6, <2>1
  <2>3. d \in [pc : {"count"}, dialer : s.dialers, client : {s.dial[x].client}, out : Nat, again : BOOLEAN, conn : Nat, pipe : BOOLEAN]
    OBVIOUS
  <2>4. k = s.dial[x].client /\ k \in Nat
    BY <1>2, TuClientHas
  <2>5. pc \in {"over", "stream"} /\ e = [d EXCEPT !.pc = pc]
    BY <1>3, <1>4
  <2>6. e \in TuDials(s.dialers) /\ e.pc = pc /\ e.client = k /\ e.conn = d.conn
    BY ONLY <2>3, <2>4, <2>5 DEF TuDials, TuDialPcs
  <2>7. QED
    BY <2>2, <2>5, <2>6
<1>8. /\ ~TuCounts(d, k) /\ TuCounts(e, k) /\ ~TuOpens(d, k) /\ ~TuOpens(e, k)
      /\ (TuStreams(e, k) => g.count < TuicStreams) /\ x \notin c.pipes
      /\ \A n : TuHolds(d, k, n) => TuHolds(e, k, n)
  <2>1. ~TuCounts(d, k) /\ TuCounts(e, k) /\ ~TuOpens(d, k) /\ ~TuOpens(e, k) /\ (TuStreams(e, k) => g.count < TuicStreams)
    BY <1>2, <1>7 DEF TuCounts, TuOpens, TuStreams, TuCounted, TuStreaming
  <2>2. x \notin c.pipes
    BY <1>2, <2>1 DEF TuClient, TuPipes
  <2>3. \A n : TuHolds(d, k, n) => TuHolds(e, k, n)
    BY <1>2, <1>7 DEF TuHolds, TuCounted
  <2>4. QED
    BY <2>1, <2>2, <2>3
<1>9. TuTurn(s, k, c, g, x, d, e)
  <2>1. g.count - g.leaked = c.count - c.leaked + 1
    BY <1>6
  <2>2. TuLeft(g) => TuLeft(c)
    BY <1>6 DEF TuLeft
  <2>3. d = s.dial[x] /\ c = s.clients[k] /\ d.client = k /\ e.client = k /\ d.pc # "remove"
    BY <1>2, <1>7
  <2>4. QED
    BY <1>6, <1>7, <1>8, <2>1, <2>2, <2>3, Zenon DEF TuTurn
<1>10. TuDial(s.clients, s.conns, e)
  BY <1>2, <1>7 DEF TuDial
<1>11. QED
  BY <1>5, <1>6, <1>7, <1>9, <1>10, TuTurns

LEMMA TuThen ==
  ASSUME NEW t, TuForm(t), NEW k \in DOMAIN t.clients, NEW g, NEW x \in RelayDials, NEW f, NEW pc
  PROVE  TU!Goto(TuChanges(t, k, g, x, f), x, pc) = TuChanges(t, k, g, x, TuAt(f, pc))
BY DEF TuForm, TuChanges, TU!Goto, TuAt

LEMMA TuTooMany == ASSUME TuInv(s), NEW x \in RelayDials, TU!TooMany(x) PROVE TuInv(s')
<1>1. s.dial[x].pc = "over"
  BY DEF TU!TooMany, TU!At, TU!D
<1>2. PICK k \in DOMAIN s.clients, c \in TuClients(s.dialers),
        d \in [pc : {"over"}, dialer : s.dialers, client : {s.dial[x].client}, out : Nat, again : BOOLEAN, conn : Nat, pipe : BOOLEAN] :
           /\ k = s.dial[x].client /\ c = s.clients[k] /\ d = s.dial[x] /\ k # 0
           /\ TuClient(s.udp, c, s.conns, s.dial, k)
           /\ d.conn \in DOMAIN s.conns /\ s.conns[d.conn].client = k
  BY <1>1, TuHere
<1>3. PICK pc, a : pc = (IF d.again THEN "done" ELSE "client") /\ a = c.count - 1
  OBVIOUS
<1>4. PICK g, e : g = [c EXCEPT !.count = a, !.refused = TRUE] /\ e = [d EXCEPT !.again = TRUE, !.pc = pc]
  OBVIOUS
<1>5. s' = TuChanges(s, k, g, x, e)
  <2>1. s' = TU!Goto([s EXCEPT !.clients[k].count = a, !.clients[k].refused = TRUE, !.dial[x].again = TRUE], x, pc)
    BY <1>2, <1>3 DEF TU!TooMany, TU!D, TuForm, TuInv
  <2>2. QED
    <3>1. TuForm(s) /\ k \in DOMAIN s.clients /\ c = s.clients[k] /\ d = s.dial[x]
      BY <1>2 DEF TuInv
    <3>2. PICK v, f : v = [s EXCEPT !.clients[k].count = a, !.clients[k].refused = TRUE, !.dial[x].again = TRUE] /\ f = [d EXCEPT !.again = TRUE]
      OBVIOUS
    <3>3. v = TuChanges(s, k, g, x, f)
      BY <1>4, <3>1, <3>2 DEF TuForm, TuChanges
    <3>4. e = TuAt(f, pc)
      BY <1>2, <1>4, <3>2 DEF TuAt
    <3>5. QED
      BY <2>1, <3>1, <3>2, <3>3, <3>4, TuThen
<1>6. /\ g \in TuClients(s.dialers) /\ g.conn = c.conn /\ g.count = c.count - 1 /\ g.leaked = c.leaked /\ g.lost = c.lost
      /\ g.late = c.late /\ g.stale = c.stale /\ g.pipes = c.pipes /\ c.count \in Int /\ c.leaked \in Nat /\ g.refused
  <2>1. c \in TuClients(s.dialers)
    OBVIOUS
  <2>2. c.count \in Int /\ a = c.count - 1 /\ a \in Int
    BY <1>3, <2>1 DEF TuClients
  <2>3. g = [c EXCEPT !.count = a, !.refused = TRUE]
    BY <1>4
  <2>4. QED
    BY ONLY <2>1, <2>2, <2>3 DEF TuClients
<1>7. e \in TuDials(s.dialers) /\ e.pc = pc /\ pc \in {"done", "client"} /\ e.client = k
  <2>1. d \in [pc : {"over"}, dialer : s.dialers, client : {s.dial[x].client}, out : Nat, again : BOOLEAN, conn : Nat, pipe : BOOLEAN]
    OBVIOUS
  <2>2. k = s.dial[x].client /\ k \in Nat
    BY <1>2, TuClientHas
  <2>3. pc \in {"done", "client"} /\ e = [d EXCEPT !.again = TRUE, !.pc = pc]
    BY <1>3, <1>4
  <2>4. QED
    BY ONLY <2>1, <2>2, <2>3 DEF TuDials, TuDialPcs
<1>8. TuCounts(d, k) /\ ~TuCounts(e, k) /\ ~TuOpens(d, k) /\ ~TuOpens(e, k) /\ ~TuStreams(e, k) /\ x \notin c.pipes
  <2>1. TuCounts(d, k) /\ ~TuCounts(e, k) /\ ~TuOpens(d, k) /\ ~TuOpens(e, k) /\ ~TuStreams(e, k)
    BY <1>2, <1>7 DEF TuCounts, TuOpens, TuStreams, TuCounted, TuStreaming
  <2>2. QED
    BY <1>2, <2>1 DEF TuClient, TuPipes
<1>9. TuTurn(s, k, c, g, x, d, e)
  <2>1. g.count - g.leaked = c.count - c.leaked - 1
    BY <1>6
  <2>2. ~TuLeft(g)
    BY <1>6 DEF TuLeft
  <2>3. d = s.dial[x] /\ c = s.clients[k] /\ d.client = k /\ e.client = k /\ d.pc # "remove"
    BY <1>2, <1>7
  <2>4. QED
    BY <1>6, <1>8, <2>1, <2>2, <2>3, Zenon DEF TuTurn
<1>10. TuDial(s.clients, s.conns, e)
  BY <1>2, <1>7 DEF TuDial, TuCounted
<1>11. QED
  BY <1>5, <1>6, <1>7, <1>9, <1>10, TuTurns

\* A connection that a network has broken is closed.
LEMMA TuDeferred ==
  ASSUME NEW t, TuInv(t), NEW n \in DOMAIN t.conns, NEW k, k = t.conns[n].client, NEW u, u = TU!DeferQuicConn(t, k, n)
  PROVE  /\ TuInv(u) /\ DOMAIN u.clients = DOMAIN t.clients /\ DOMAIN u.conns = DOMAIN t.conns /\ u.udp = t.udp
         /\ \A y \in RelayDials : TuLike(t.dial[y], u.dial[y])
         /\ u.conns[n].client = t.conns[n].client /\ (u.conns[n].state = "ok" => t.conns[n].state = "ok")
         /\ u.clients[k].pipes \subseteq t.clients[k].pipes
<1>1. k \in DOMAIN t.clients
  BY DEF TuInv
<1>2. n # 0
  BY TuConnIs DEF TuInv
<1>3. CASE t.conns[n].state = "lost"
  <2>1. u = TU!ForceClose(t, k, n)
    BY <1>3 DEF TU!DeferQuicConn
  <2>2. TuInv(u) /\ TuForced(t, u, k, n)
    BY <1>1, <1>2, <2>1, TuForcing
  <2>3. QED
    BY <2>2 DEF TuForced
<1>4. CASE t.conns[n].state # "lost"
  BY <1>4, TuSame DEF TU!DeferQuicConn
<1>5. QED
  BY <1>3, <1>4

\* What does not concern the count of client k
LEMMA TuStays ==
  ASSUME NEW t, TuInv(t), NEW k \in DOMAIN t.clients, NEW x \in RelayDials, NEW d, d = t.dial[x], NEW pc \in {"open", "timer"},
         TuCounts(d, k), d.pc \in TuStreaming, NEW u, u = TU!Goto(t, x, pc),
         t.udp => ~TuOpens(TuAt(d, pc), k) /\ x \notin t.clients[k].pipes
  PROVE  TuInv(u)
<1>1. t.dial[x].pc # "new" /\ d.client = k /\ TuForm(t) /\ pc \in TuDialPcs /\ pc \in TuCounted /\ pc \in TuStreaming
  BY DEF TuCounts, TuCounted, TuInv, TuDialPcs, TuStreaming
<1>2. PICK e, c : e = TuAt(d, pc) /\ c = t.clients[k]
  OBVIOUS
<1>3. e \in TuDials(t.dialers) /\ e.pc = pc /\ e.client = k /\ e.conn = d.conn
  BY <1>1, <1>2, TuGoesOn
<1>4. u = TuPutDial(t, x, e)
  BY <1>1, <1>2, TuGoto
<1>5. u = TuChanges(t, k, c, x, e)
  BY <1>2, <1>4, TuPutIs
<1>6. c \in TuClients(t.dialers) /\ TuPipes(t.udp, c, t.conns, t.dial, k)
  BY <1>2, TuClientHas DEF TuClient
<1>7. TuCounts(e, k) /\ TuStreams(d, k) /\ \A n : TuHolds(d, k, n) => TuHolds(e, k, n)
  <2>1. TuCounts(e, k) /\ TuStreams(d, k)
    BY <1>1, <1>3 DEF TuCounts, TuStreams
  <2>2. \A n : TuHolds(d, k, n) => d.conn = n
    BY DEF TuHolds, TuStreaming
  <2>3. QED
    BY <1>1, <1>3, <2>1, <2>2 DEF TuHolds
<1>8. x \notin c.pipes
  <2>1. CASE t.udp
    BY <1>2, <2>1
  <2>2. CASE ~t.udp
    BY <1>6, <2>2 DEF TuPipes
  <2>3. QED
    BY <2>1, <2>2
<1>9. TuTurn(t, k, c, c, x, d, e)
  <2>1. d = t.dial[x] /\ c = t.clients[k] /\ d.client = k /\ e.client = k /\ d.pc # "remove"
    BY <1>1, <1>2, <1>3 DEF TuStreaming
  <2>2. t.udp => ~TuOpens(e, k)
    BY <1>2
  <2>3. QED
    BY <1>3, <1>7, <1>8, <2>1, <2>2, Zenon DEF TuTurn
<1>10. TuDial(t.clients, t.conns, e)
  <2>1. TuDial(t.clients, t.conns, d)
    BY DEF TuInv
  <2>2. k # 0 /\ d.pc \in TuCounted /\ d.pc # "new"
    BY <1>1, TuClientHas DEF TuCounts
  <2>3. QED
    BY <1>1, <1>3, <2>1, <2>2 DEF TuDial
<1>11. QED
  BY <1>3, <1>5, <1>6, <1>9, <1>10, TuTurns

LEMMA TuClosesStream == ASSUME TuInv(s), NEW x \in RelayDials, TU!CloseStream(x) PROVE TuInv(s')
<1>1. s.dial[x].pc = "open" /\ ~s.udp /\ s' = TU!Goto(s, x, "timer")
  BY DEF TU!CloseStream, TU!At, TU!D
<1>2. PICK k, d : k = d.client /\ d = s.dial[x]
  OBVIOUS
<1>3. k \in DOMAIN s.clients /\ TuCounts(d, k) /\ d.pc \in TuStreaming
  BY <1>1, <1>2, TuDialHas DEF TuCounts, TuCounted, TuStreaming
<1>4. QED
  BY <1>1, <1>2, <1>3, TuStays

LEMMA TuListens == ASSUME TuInv(s), NEW x \in RelayDials, TU!ListenPacket(x) PROVE TuInv(s')
<1>0. s.udp
  BY DEF TU!ListenPacket
<1>1. s.dial[x].pc = "stream"
  BY DEF TU!ListenPacket, TU!At, TU!D
<1>2. PICK k \in DOMAIN s.clients, c \in TuClients(s.dialers),
        d \in [pc : {"stream"}, dialer : s.dialers, client : {s.dial[x].client}, out : Nat, again : BOOLEAN, conn : Nat, pipe : BOOLEAN] :
           /\ k = s.dial[x].client /\ c = s.clients[k] /\ d = s.dial[x] /\ k # 0
           /\ TuClient(s.udp, c, s.conns, s.dial, k)
           /\ d.conn \in DOMAIN s.conns /\ s.conns[d.conn].client = k
  BY <1>1, TuHere
<1>3. PICK g, e, p : g = [c EXCEPT !.pipes = p] /\ e = [d EXCEPT !.pipe = TRUE, !.pc = "open"] /\ p = c.pipes \cup {x}
  OBVIOUS
<1>4. s' = TuChanges(s, k, g, x, e)
  <2>1. PICK v, f : v = [s EXCEPT !.clients[k].pipes = p, !.dial[x].pipe = TRUE] /\ f = [d EXCEPT !.pipe = TRUE]
    OBVIOUS
  <2>2. TuForm(s) /\ k \in DOMAIN s.clients /\ c = s.clients[k] /\ d = s.dial[x]
    BY <1>2 DEF TuInv
  <2>3. s' = TU!Goto(v, x, "open")
    BY <1>2, <1>3, <2>1, <2>2 DEF TU!ListenPacket, TU!D, TuForm
  <2>4. v = TuChanges(s, k, g, x, f)
    BY <1>3, <2>1, <2>2 DEF TuForm, TuChanges
  <2>5. e = TuAt(f, "open")
    BY <1>2, <1>3, <2>1 DEF TuAt
  <2>6. QED
    BY <2>2, <2>3, <2>4, <2>5, TuThen
<1>5. /\ g \in TuClients(s.dialers) /\ g.conn = c.conn /\ g.count = c.count /\ g.leaked = c.leaked /\ g.lost = c.lost
      /\ g.late = c.late /\ g.stale = c.stale /\ g.pipes = c.pipes \cup {x} /\ c.count \in Int /\ c.leaked \in Nat
      /\ g.closed = c.closed /\ g.refused = c.refused
  <2>1. c \in TuClients(s.dialers)
    OBVIOUS
  <2>2. p \in SUBSET RelayDials
    BY <1>3, <2>1 DEF TuClients
  <2>3. g = [c EXCEPT !.pipes = p] /\ p = c.pipes \cup {x}
    BY <1>3
  <2>4. QED
    BY ONLY <2>1, <2>2, <2>3 DEF TuClients
<1>6. e \in TuDials(s.dialers) /\ e.pc = "open" /\ e.client = k /\ e.conn = d.conn
  <2>1. k \in Nat
    BY TuClientHas
  <2>2. QED
    BY <1>2, <1>3, <2>1 DEF TuDials, TuDialPcs
<1>7. /\ TuCounts(d, k) /\ TuCounts(e, k) /\ TuOpens(e, k) /\ TuStreams(d, k)
      /\ \A n : TuHolds(d, k, n) => TuHolds(e, k, n)
  <2>1. TuCounts(d, k) /\ TuCounts(e, k) /\ TuOpens(e, k) /\ TuStreams(d, k)
    BY <1>2, <1>6 DEF TuCounts, TuOpens, TuStreams, TuCounted, TuStreaming
  <2>2. \A n : TuHolds(d, k, n) => TuHolds(e, k, n)
    BY <1>2, <1>6 DEF TuHolds, TuCounted
  <2>3. QED
    BY <2>1, <2>2
<1>8. TuTurn(s, k, c, g, x, d, e)
  <2>1. g.count - g.leaked = c.count - c.leaked
    BY <1>5
  <2>2. TuLeft(g) => TuLeft(c)
    BY <1>5 DEF TuLeft
  <2>3. d = s.dial[x] /\ c = s.clients[k] /\ d.client = k /\ e.client = k /\ d.pc # "remove"
    BY <1>2, <1>6
  <2>4. x \in g.pipes /\ \A y \in RelayDials : y # x => (y \in g.pipes <=> y \in c.pipes)
    BY <1>5
  <2>5. QED
    BY <1>0, <1>5, <1>6, <1>7, <2>1, <2>2, <2>3, <2>4, Zenon DEF TuTurn
<1>9. TuDial(s.clients, s.conns, e)
  BY <1>2, <1>6 DEF TuDial
<1>10. QED
  BY <1>4, <1>5, <1>6, <1>8, <1>9, TuTurns

LEMMA TuWrites == ASSUME TuInv(s), NEW x \in RelayDials, TU!Write(x) PROVE TuInv(s')
<1>1. s.dial[x].pc = "open" /\ s' = TU!DeferQuicConn(s, s.dial[x].client, s.dial[x].conn)
  BY DEF TU!Write, TU!At, TU!D
<1>2. s.dial[x].conn \in DOMAIN s.conns /\ s.conns[s.dial[x].conn].client = s.dial[x].client
  BY <1>1, TuDialHas
<1>3. QED
  BY <1>1, <1>2, TuDeferred

LEMMA TuOpensStream == ASSUME TuInv(s), NEW x \in RelayDials, TU!OpenStream(x) PROVE TuInv(s')
<1>1. s.dial[x].pc = "stream" /\ ~s.udp
  BY DEF TU!OpenStream, TU!At, TU!D
<1>2. PICK k, b, n : k = b.client /\ b = s.dial[x] /\ n = b.conn
  OBVIOUS
<1>3. k \in DOMAIN s.clients /\ TuCounts(b, k) /\ b.pc \in TuStreaming /\ n \in DOMAIN s.conns /\ s.conns[n].client = k
  BY <1>1, <1>2, TuDialHas DEF TuCounts, TuCounted, TuStreaming
<1>4. CASE s.conns[n].state = "ok"
  <2>1. s' = TU!Goto(s, x, "open")
    BY <1>2, <1>4 DEF TU!OpenStream, TU!D
  <2>2. QED
    BY <1>1, <1>2, <1>3, <2>1, TuStays
<1>5. CASE s.conns[n].state # "ok"
  <2>1. PICK t : t = TU!DeferQuicConn(s, k, n)
    OBVIOUS
  <2>2. /\ TuInv(t) /\ DOMAIN t.clients = DOMAIN s.clients /\ DOMAIN t.conns = DOMAIN s.conns /\ t.udp = s.udp /\ t.dial[x].pc = "stream"
        /\ t.dial[x].client = k /\ t.dial[x].conn = n /\ t.conns[n].state # "ok"
    BY <1>1, <1>2, <1>3, <1>5, <2>1, TuDeferred DEF TuLike
  <2>3. s' = TU!Goto([t EXCEPT !.clients[k].leaked = @ + 1], x, "done")
    BY <1>2, <1>5, <2>1 DEF TU!OpenStream, TU!D
  <2>4. PICK c \in TuClients(t.dialers),
          d \in [pc : {"stream"}, dialer : t.dialers, client : {t.dial[x].client}, out : Nat, again : BOOLEAN, conn : Nat, pipe : BOOLEAN] :
             c = t.clients[k] /\ d = t.dial[x] /\ TuClient(t.udp, c, t.conns, t.dial, k)
    BY <2>2, TuHere
  <2>5. PICK g, e, a : g = [c EXCEPT !.leaked = a] /\ e = [d EXCEPT !.pc = "done"] /\ a = c.leaked + 1
    OBVIOUS
  <2>6. s' = TuChanges(t, k, g, x, e)
    <3>1. TuForm(t) /\ k \in DOMAIN t.clients
      BY <1>3, <2>2 DEF TuInv
    <3>2. s' = TU!Goto([t EXCEPT !.clients[k].leaked = a], x, "done")
      BY <2>3, <2>4, <2>5, <3>1 DEF TuForm
    <3>3. QED
      BY <2>4, <2>5, <3>1, <3>2 DEF TuForm, TuChanges, TU!Goto
  <2>7. /\ g \in TuClients(t.dialers) /\ g.conn = c.conn /\ g.count = c.count /\ g.leaked = c.leaked + 1 /\ g.lost = c.lost
        /\ g.late = c.late /\ g.stale = c.stale /\ g.pipes = c.pipes /\ c.count \in Int /\ c.leaked \in Nat
        /\ g.closed = c.closed /\ g.refused = c.refused
    <3>1. c \in TuClients(t.dialers)
      OBVIOUS
    <3>2. c.leaked \in Nat /\ a = c.leaked + 1 /\ a \in Nat /\ g = [c EXCEPT !.leaked = a]
      BY <2>5, <3>1 DEF TuClients
    <3>3. QED
      BY ONLY <3>1, <3>2 DEF TuClients
  <2>8. e \in TuDials(t.dialers) /\ e.pc = "done" /\ e.client = k
    <3>1. k \in Nat
      BY <1>3, TuClientHas
    <3>2. QED
      BY <2>2, <2>4, <2>5, <3>1 DEF TuDials, TuDialPcs
  <2>9. TuCounts(d, k) /\ ~TuCounts(e, k) /\ ~TuOpens(d, k) /\ ~TuOpens(e, k) /\ ~TuStreams(e, k) /\ x \notin c.pipes
    <3>1. TuCounts(d, k) /\ ~TuCounts(e, k) /\ ~TuOpens(d, k) /\ ~TuOpens(e, k) /\ ~TuStreams(e, k)
      BY <2>2, <2>4, <2>8 DEF TuCounts, TuOpens, TuStreams, TuCounted, TuStreaming
    <3>2. QED
      BY <2>4, <3>1 DEF TuClient, TuPipes
  <2>10. TuTurn(t, k, c, g, x, d, e)
    <3>1. g.count - g.leaked = c.count - c.leaked - 1
      BY <2>7
    <3>2. g.lost \/ g.late \/ \A m : ~TuOk(t.conns, k, m)
      <4>1. SUFFICES ASSUME ~c.lost, ~c.late, NEW m, TuOk(t.conns, k, m) PROVE FALSE
        BY <2>7
      <4>2. m \in DOMAIN t.conns /\ t.conns[m].state = "ok" /\ m # 0
        BY <2>2, <4>1, TuConnIs DEF TuOk, TuInv
      <4>3. c.conn = m
        BY <2>4, <4>1 DEF TuClient, TuConn
      <4>4. n = c.conn
        BY <2>2, <2>4, <2>9, <4>1, <4>2, <4>3 DEF TuClient, TuMatch
      <4>5. QED
        BY <2>2, <4>2, <4>3, <4>4
    <3>4. TuLeft(g) => TuLeft(c) /\ \A m : ~TuOk(t.conns, k, m)
      BY <2>7, <3>2 DEF TuLeft
    <3>3. d = t.dial[x] /\ c = t.clients[k] /\ d.client = k /\ e.client = k /\ d.pc # "remove"
      BY <2>2, <2>4, <2>8
    <3>5. QED
      BY <2>7, <2>9, <3>1, <3>2, <3>3, <3>4, Zenon DEF TuTurn
  <2>11. TuDial(t.clients, t.conns, e)
    <3>1. k # 0
      BY <1>3, TuClientHas
    <3>2. QED
      BY <1>3, <2>2, <2>8, <3>1 DEF TuDial, TuCounted
  <2>12. QED
    BY <1>3, <2>2, <2>6, <2>7, <2>8, <2>10, <2>11, TuTurns
<1>6. QED
  BY <1>4, <1>5

LEMMA TuClosesPacketConn == ASSUME TuInv(s), NEW x \in RelayDials, TU!ClosePacketConn(x) PROVE TuInv(s')
<1>0. s.udp
  BY DEF TU!ClosePacketConn
<1>1. s.dial[x].pc = "open"
  BY DEF TU!ClosePacketConn, TU!At, TU!D
<1>2. PICK k, b, n : k = b.client /\ b = s.dial[x] /\ n = b.conn
  OBVIOUS
<1>3. k \in DOMAIN s.clients /\ n \in DOMAIN s.conns /\ s.conns[n].client = k
  BY <1>1, <1>2, TuDialHas
<1>4. PICK f, r, t : f = [b EXCEPT !.pipe = FALSE] /\ r = TuPutDial(s, x, f) /\ t = TU!DeferQuicConn(r, k, n)
  OBVIOUS
<1>5. s' = TU!Goto([t EXCEPT !.clients[k].pipes = @ \ {x}], x, "timer")
  <2>1. r = [s EXCEPT !.dial[x].pipe = FALSE]
    BY <1>2, <1>4 DEF TuPutDial, TuInv, TuForm
  <2>2. QED
    BY <1>2, <1>4, <2>1 DEF TU!ClosePacketConn, TU!D
<1>6. b \in [pc : TuDialPcs, dialer : s.dialers, client : Nat, out : Nat, again : BOOLEAN, conn : Nat, pipe : BOOLEAN]
  BY <1>1, <1>2, TuDialIs DEF TuInv
<1>7. f \in TuDials(s.dialers) /\ TuLike(b, f)
  BY <1>4, <1>6 DEF TuDials, TuLike
<1>8. TuInv(r) /\ r.clients = s.clients /\ r.conns = s.conns /\ r.udp = s.udp /\ r.dial[x] = f
  <2>1. TuDial(s.clients, s.conns, f)
    <3>1. TuDial(s.clients, s.conns, b)
      BY <1>2 DEF TuInv
    <3>2. QED
      BY <1>7, <3>1 DEF TuDial, TuLike
  <2>2. \A j \in DOMAIN s.clients : TuKeeps(s.dial[x], f, j)
    BY <1>2, <1>7, TuLikes
  <2>3. TuInv(r)
    BY <1>4, <1>7, <2>1, <2>2, TuMoveAlone
  <2>4. TuForm(s) /\ r = TuPutDial(s, x, f) /\ f \in TuDials(s.dialers)
    BY <1>4, <1>7 DEF TuInv
  <2>5. r.clients = s.clients /\ r.conns = s.conns /\ r.udp = s.udp /\ r.dial[x] = f
    BY ONLY <2>4, x \in RelayDials, TuWithDial
  <2>6. QED
    BY <2>3, <2>5
<1>9. /\ TuInv(t) /\ k \in DOMAIN t.clients /\ t.dial[x].pc = "open" /\ t.dial[x].client = k
  <2>1. TuInv(t) /\ DOMAIN t.clients = DOMAIN r.clients /\ TuLike(r.dial[x], t.dial[x])
    BY <1>3, <1>4, <1>8, TuDeferred
  <2>2. QED
    BY <1>1, <1>2, <1>3, <1>7, <1>8, <2>1 DEF TuLike
<1>10. PICK c \in TuClients(t.dialers),
          d \in [pc : {"open"}, dialer : t.dialers, client : {t.dial[x].client}, out : Nat, again : BOOLEAN, conn : Nat, pipe : BOOLEAN] :
             c = t.clients[k] /\ d = t.dial[x] /\ d.conn \in DOMAIN t.conns /\ t.conns[d.conn].client = k
  BY <1>9, TuHere
<1>11. PICK g, e, p : g = [c EXCEPT !.pipes = p] /\ e = [d EXCEPT !.pc = "timer"] /\ p = c.pipes \ {x}
  OBVIOUS
<1>12. s' = TuChanges(t, k, g, x, e)
  <2>1. TuForm(t) /\ k \in DOMAIN t.clients
    BY <1>9 DEF TuInv
  <2>2. s' = TU!Goto([t EXCEPT !.clients[k].pipes = p], x, "timer")
    BY <1>5, <1>10, <1>11, <2>1 DEF TuForm
  <2>3. QED
    BY <1>10, <1>11, <2>1, <2>2 DEF TuForm, TuChanges, TU!Goto
<1>13. /\ g \in TuClients(t.dialers) /\ g.conn = c.conn /\ g.count = c.count /\ g.leaked = c.leaked /\ g.lost = c.lost
       /\ g.late = c.late /\ g.stale = c.stale /\ g.pipes = c.pipes \ {x} /\ c.count \in Int /\ c.leaked \in Nat
       /\ g.closed = c.closed /\ g.refused = c.refused
  <2>1. c \in TuClients(t.dialers)
    OBVIOUS
  <2>2. p \in SUBSET RelayDials
    BY <1>11, <2>1 DEF TuClients
  <2>3. g = [c EXCEPT !.pipes = p] /\ p = c.pipes \ {x}
    BY <1>11
  <2>4. QED
    BY ONLY <2>1, <2>2, <2>3 DEF TuClients
<1>14. e \in TuDials(t.dialers) /\ e.pc = "timer" /\ e.client = k /\ e.conn = d.conn
  <2>1. k \in Nat
    BY <1>9, TuClientHas
  <2>2. QED
    BY <1>9, <1>10, <1>11, <2>1 DEF TuDials, TuDialPcs
<1>15. /\ TuCounts(d, k) /\ TuCounts(e, k) /\ ~TuOpens(e, k) /\ TuStreams(d, k)
       /\ \A m : TuHolds(d, k, m) => TuHolds(e, k, m)
  <2>1. TuCounts(d, k) /\ TuCounts(e, k) /\ ~TuOpens(e, k) /\ TuStreams(d, k)
    BY <1>9, <1>10, <1>14 DEF TuCounts, TuOpens, TuStreams, TuCounted, TuStreaming
  <2>2. \A m : TuHolds(d, k, m) => TuHolds(e, k, m)
    BY <1>10, <1>14 DEF TuHolds, TuCounted
  <2>3. QED
    BY <2>1, <2>2
<1>16. TuTurn(t, k, c, g, x, d, e)
  <2>1. g.count - g.leaked = c.count - c.leaked
    BY <1>13
  <2>2. TuLeft(g) => TuLeft(c)
    BY <1>13 DEF TuLeft
  <2>3. d = t.dial[x] /\ c = t.clients[k] /\ d.client = k /\ e.client = k /\ d.pc # "remove"
    BY <1>9, <1>10, <1>14
  <2>4. x \notin g.pipes /\ \A y \in RelayDials : y # x => (y \in g.pipes <=> y \in c.pipes)
    BY <1>13
  <2>5. QED
    BY <1>13, <1>14, <1>15, <2>1, <2>2, <2>3, <2>4, Zenon DEF TuTurn
<1>17. TuDial(t.clients, t.conns, e)
  <2>1. k # 0
    BY <1>9, TuClientHas
  <2>2. QED
    BY <1>9, <1>10, <1>14, <2>1 DEF TuDial
<1>18. QED
  BY <1>9, <1>12, <1>13, <1>14, <1>16, <1>17, TuTurns

\* Another dial that counts for a client
LEMMA TuCountedElse ==
  ASSUME NEW t, TuInv(t), NEW k \in DOMAIN t.clients, t.clients[k].count # 1, TuLeft(t.clients[k]), NEW n, TuOk(t.conns, k, n),
         NEW x \in RelayDials, TuCounts(t.dial[x], k)
  PROVE  \E z \in RelayDials : z # x /\ TuCounts(t.dial[z], k) /\ t.dial[z].conn = n
<1>1. PICK c : c = t.clients[k]
  OBVIOUS
<1>2. TuConn(c, t.conns, k) /\ TuCount(c, t.dial, k) /\ TuMatch(c, t.dial, k)
  BY <1>1, TuClientHas DEF TuClient
<1>3. c.conn = n /\ n # 0
  <2>1. n \in DOMAIN t.conns /\ TuForm(t)
    BY DEF TuOk, TuInv
  <2>2. n # 0
    BY <2>1, TuConnIs
  <2>3. QED
    BY <1>2, <2>2 DEF TuConn
<1>4. Cardinality(TuCountOf(t.dial, k)) # 1
  <2>1. c.count = Cardinality(TuCountOf(t.dial, k)) + 0 /\ c.count # 1
    <3>1. ~c.lost /\ ~c.late /\ c.count # 1
      BY <1>1 DEF TuLeft
    <3>2. c.leaked = 0
      BY <1>2, <3>1 DEF TuConn
    <3>3. QED
      BY <1>2, <3>1, <3>2 DEF TuCount
  <2>2. Cardinality(TuCountOf(t.dial, k)) \in Nat
    <3>1. IsFiniteSet(RelayDials) /\ TuCountOf(t.dial, k) \in SUBSET RelayDials
      BY RelaysAssumption DEF TuCountOf
    <3>2. QED
      BY <3>1, FS_Subset, FS_CardinalityType
  <2>3. QED
    BY <2>1, <2>2
<1>5. TuCountOf(t.dial, k) # {x}
  BY <1>4, FS_Singleton
<1>6. PICK z \in RelayDials : z # x /\ TuCounts(t.dial[z], k)
  BY <1>5 DEF TuCountOf
<1>7. QED
  BY <1>1, <1>2, <1>3, <1>6 DEF TuMatch, TuLeft

LEMMA TuCountsOff == ASSUME TuInv(s), NEW x \in RelayDials, TU!CountOff(x) PROVE TuInv(s')
<1>1. s.dial[x].pc = "timer"
  BY DEF TU!CountOff, TU!At, TU!D
<1>2. PICK k \in DOMAIN s.clients, c \in TuClients(s.dialers),
        d \in [pc : {"timer"}, dialer : s.dialers, client : {s.dial[x].client}, out : Nat, again : BOOLEAN, conn : Nat, pipe : BOOLEAN] :
           /\ k = s.dial[x].client /\ c = s.clients[k] /\ d = s.dial[x] /\ k # 0
           /\ TuClient(s.udp, c, s.conns, s.dial, k)
           /\ d.conn \in DOMAIN s.conns /\ s.conns[d.conn].client = k
  BY <1>1, TuHere
<1>3. PICK pc, a : pc = (IF c.count = 1 THEN "last" ELSE "done") /\ a = c.count - 1
  OBVIOUS
<1>4. PICK g, e : g = [c EXCEPT !.count = a] /\ e = [d EXCEPT !.pc = pc]
  OBVIOUS
<1>5. s' = TuChanges(s, k, g, x, e)
  <2>1. s' = TU!Goto([s EXCEPT !.clients[k].count = a], x, pc)
    BY <1>2, <1>3 DEF TU!CountOff, TU!D, TU!Mine, TuForm, TuInv
  <2>2. QED
    BY <1>2, <1>4, <2>1 DEF TuInv, TuForm, TuChanges, TU!Goto
<1>6. /\ g \in TuClients(s.dialers) /\ g.conn = c.conn /\ g.count = c.count - 1 /\ g.leaked = c.leaked /\ g.lost = c.lost
      /\ g.late = c.late /\ g.stale = c.stale /\ g.pipes = c.pipes /\ c.count \in Int /\ c.leaked \in Nat
      /\ g.closed = c.closed /\ g.refused = c.refused
  <2>1. c \in TuClients(s.dialers)
    OBVIOUS
  <2>2. c.count \in Int /\ a = c.count - 1 /\ a \in Int /\ g = [c EXCEPT !.count = a]
    BY <1>3, <1>4, <2>1 DEF TuClients
  <2>3. QED
    BY ONLY <2>1, <2>2 DEF TuClients
<1>7. /\ e \in TuDials(s.dialers) /\ e.pc = pc /\ pc \in {"last", "done"} /\ e.client = k /\ e.conn = d.conn
      /\ (pc = "done" => c.count # 1)
  <2>1. k \in Nat
    BY TuClientHas
  <2>2. QED
    BY <1>2, <1>3, <1>4, <2>1 DEF TuDials, TuDialPcs
<1>8. TuCounts(d, k) /\ ~TuCounts(e, k) /\ ~TuOpens(d, k) /\ ~TuOpens(e, k) /\ ~TuStreams(e, k) /\ x \notin c.pipes
  <2>1. TuCounts(d, k) /\ ~TuCounts(e, k) /\ ~TuOpens(d, k) /\ ~TuOpens(e, k) /\ ~TuStreams(e, k)
    BY <1>2, <1>7 DEF TuCounts, TuOpens, TuStreams, TuCounted, TuStreaming
  <2>2. QED
    BY <1>2, <2>1 DEF TuClient, TuPipes
<1>9. TuTurn(s, k, c, g, x, d, e)
  <2>1. g.count - g.leaked = c.count - c.leaked - 1
    BY <1>6
  <2>2. TuLeft(g) => TuLeft(c)
    BY <1>6 DEF TuLeft
  <2>3. d = s.dial[x] /\ c = s.clients[k] /\ d.client = k /\ e.client = k /\ d.pc # "remove"
    BY <1>2, <1>7
  <2>4. ASSUME TuLeft(g), NEW n, TuOk(s.conns, k, n), TuHolds(d, k, n)
        PROVE  TuHolds(e, k, n) \/ \E z \in RelayDials : z # x /\ TuHolds(s.dial[z], k, n)
    <3>1. CASE pc = "last"
      BY <1>2, <1>7, <2>4, <3>1 DEF TuHolds
    <3>2. CASE pc = "done"
      <4>1. s.clients[k].count # 1 /\ TuLeft(s.clients[k]) /\ TuCounts(s.dial[x], k)
        BY <1>7, <1>8, <2>2, <2>3, <2>4, <3>2
      <4>2. TuOk(s.conns, k, n)
        BY <2>4
      <4>3. \E z \in RelayDials : z # x /\ TuCounts(s.dial[z], k) /\ s.dial[z].conn = n
        BY ONLY <4>1, <4>2, TuInv(s), k \in DOMAIN s.clients, x \in RelayDials, TuCountedElse
      <4>4. QED
        BY <4>3 DEF TuCounts, TuHolds
    <3>3. QED
      BY <1>7, <3>1, <3>2
  <2>5. QED
    BY <1>6, <1>8, <2>1, <2>2, <2>3, <2>4, Zenon DEF TuTurn
<1>10. TuDial(s.clients, s.conns, e)
  BY <1>2, <1>7 DEF TuDial, TuCounted
<1>11. QED
  BY <1>5, <1>6, <1>7, <1>9, <1>10, TuTurns

LEMMA TuLasts == ASSUME TuInv(s), NEW x \in RelayDials, TU!Last(x) PROVE TuInv(s')
<1>1. s.dial[x].pc = "last"
  BY DEF TU!Last, TU!At, TU!D
<1>2. PICK k, n, t :
        k = s.dial[x].client /\ n = s.dial[x].conn /\ t = IF s.clients[k].closed THEN TU!ForceClose(s, k, n) ELSE s
  OBVIOUS
<1>3. k \in DOMAIN s.clients /\ n \in DOMAIN s.conns /\ s.conns[n].client = k
  BY <1>1, <1>2, TuDialHas
<1>4. n # 0
  BY <1>3, TuConnIs DEF TuInv
<1>5. s' = TU!Goto(t, x, "done")
  BY <1>2 DEF TU!Last, TU!D, TU!Mine
<1>6. /\ TuInv(t) /\ k \in DOMAIN t.clients /\ t.dial[x].pc = "last" /\ t.dial[x].client = k /\ t.dial[x].conn = n
      /\ t.clients[k].closed => ~TuOk(t.conns, k, n)
  <2>1. CASE s.clients[k].closed
    <3>1. t = TU!ForceClose(s, k, n)
      BY <1>2, <2>1
    <3>2. TuInv(t) /\ TuForced(s, t, k, n)
      BY <1>3, <1>4, <3>1, TuForcing
    <3>3. QED
      BY <1>1, <1>2, <1>3, <3>2 DEF TuForced, TuLike, TuOk
  <2>2. CASE ~s.clients[k].closed
    BY <1>1, <1>2, <1>3, <2>2
  <2>3. QED
    BY <2>1, <2>2
<1>7. PICK e, d, c : e = TuAt(d, "done") /\ d = t.dial[x] /\ c = t.clients[k]
  OBVIOUS
<1>8. e \in TuDials(t.dialers) /\ e.pc = "done" /\ e.client = k
  <2>1. TuForm(t) /\ "done" \in TuDialPcs
    BY <1>6 DEF TuInv, TuDialPcs
  <2>2. QED
    BY <1>6, <1>7, <2>1, TuGoesOn
<1>9. s' = TuChanges(t, k, c, x, e)
  <2>1. s' = TuPutDial(t, x, e)
    BY <1>5, <1>6, <1>7, TuGoto DEF TuInv
  <2>2. QED
    BY <1>6, <1>7, <2>1, TuPutIs
<1>10. c \in TuClients(t.dialers) /\ TuPipes(t.udp, c, t.conns, t.dial, k) /\ k # 0
  BY <1>6, <1>7, TuClientHas DEF TuClient
<1>11. ~TuCounts(d, k) /\ ~TuCounts(e, k) /\ ~TuOpens(d, k) /\ ~TuOpens(e, k) /\ ~TuStreams(e, k) /\ x \notin c.pipes
  <2>1. ~TuCounts(d, k) /\ ~TuCounts(e, k) /\ ~TuOpens(d, k) /\ ~TuOpens(e, k) /\ ~TuStreams(e, k)
    BY <1>6, <1>7, <1>8 DEF TuCounts, TuOpens, TuStreams, TuCounted, TuStreaming
  <2>2. QED
    BY <1>7, <1>10, <2>1 DEF TuPipes
<1>12. TuTurn(t, k, c, c, x, d, e)
  <2>1. d = t.dial[x] /\ c = t.clients[k] /\ d.client = k /\ e.client = k /\ d.pc # "remove"
    BY <1>6, <1>7, <1>8
  <2>2. TuLeft(c) => \A m : ~(TuOk(t.conns, k, m) /\ TuHolds(d, k, m))
    BY <1>6, <1>7 DEF TuLeft, TuHolds
  <2>3. QED
    BY <1>11, <2>1, <2>2, Zenon DEF TuTurn
<1>13. TuDial(t.clients, t.conns, e)
  BY <1>6, <1>8, <1>10 DEF TuDial, TuCounted
<1>14. QED
  BY <1>6, <1>8, <1>9, <1>10, <1>12, <1>13, TuTurns

TuPutConn(t, n, w) == [t EXCEPT !.conns[n] = w]

\* Connection w is v, and no better.
TuNoBetter(v, w) == w \in TuConns /\ w.client = v.client /\ (w.state = "ok" => v.state = "ok")

LEMMA TuConnected ==
  ASSUME NEW t, TuInv(t), NEW n \in DOMAIN t.conns, NEW w, TuNoBetter(t.conns[n], w), NEW u, u = TuPutConn(t, n, w)
  PROVE  TuInv(u) /\ u.conns[n] = w /\ DOMAIN u.conns = DOMAIN t.conns /\ u.faults = t.faults
<1>1. TuForm(t) /\ w \in TuConns /\ w.client = t.conns[n].client /\ (w.state = "ok" => t.conns[n].state = "ok")
  BY DEF TuInv, TuNoBetter
<1>2. PICK X : X = [t.conns EXCEPT ![n] = w]
  OBVIOUS
<1>3. X \in Seq(TuConns) /\ DOMAIN X = DOMAIN t.conns /\ X[n] = w /\ \A m \in DOMAIN t.conns : m # n => X[m] = t.conns[m]
  BY <1>1, <1>2 DEF TuForm
<1>4. u \in [udp : {t.udp}, dialers : {t.dialers}, clients : {t.clients}, pool : {t.pool}, conns : {X}, faults : {t.faults}, dial : {t.dial}]
  <2>1. u = [t EXCEPT !.conns = X]
    BY <1>2 DEF TuPutConn
  <2>2. QED
    BY <1>1, <2>1 DEF TuForm
<1>5. /\ u.udp = t.udp /\ u.dialers = t.dialers /\ u.clients = t.clients /\ u.pool = t.pool /\ u.conns = X /\ u.faults = t.faults
      /\ u.dial = t.dial
  BY <1>4
<1>6. TuForm(u)
  BY <1>1, <1>3, <1>4 DEF TuForm
<1>7. \A m \in DOMAIN t.conns : X[m].client = t.conns[m].client /\ (X[m].state = "ok" => t.conns[m].state = "ok")
  <2>1. ASSUME NEW m \in DOMAIN t.conns PROVE X[m].client = t.conns[m].client /\ (X[m].state = "ok" => t.conns[m].state = "ok")
    <3>1. CASE m = n
      BY <1>1, <1>3, <3>1
    <3>2. CASE m # n
      BY <1>3, <3>2
    <3>3. QED
      BY <3>1, <3>2
  <2>2. QED
    BY <2>1
<1>8. \A j : TuWorse(t.conns, X, j)
  BY <1>3, <1>7 DEF TuWorse, TuOk
<1>9. ASSUME NEW j \in DOMAIN t.clients PROVE TuClient(t.udp, t.clients[j], X, t.dial, j)
  <2>1. TuClient(t.udp, t.clients[j], t.conns, t.dial, j) /\ t.clients[j].pipes \subseteq RelayDials
    BY TuClientHas
  <2>2. \A y \in RelayDials : TuOpens(t.dial[y], j) => t.dial[y].conn \in DOMAIN t.conns /\ t.conns[t.dial[y].conn].client = j
    BY TuOpenHas
  <2>3. \A y \in RelayDials : TuKeeps(t.dial[y], t.dial[y], j)
    BY TuLikes, TuSame
  <2>4. QED
    BY <1>8, <2>1, <2>2, <2>3, TuFrame
<1>10. \A y \in RelayDials : TuDial(t.clients, X, t.dial[y])
  BY <1>3, <1>7 DEF TuInv, TuDial
<1>11. (\A i \in DOMAIN t.pool : t.pool[i] \in DOMAIN t.clients) /\ \A m \in DOMAIN X : X[m].client \in DOMAIN t.clients
  BY <1>3, <1>7 DEF TuInv
<1>12. TuInv(u)
  BY <1>5, <1>6, <1>9, <1>10, <1>11 DEF TuInv
<1>13. QED
  BY <1>3, <1>5, <1>12

LEMMA TuAuthenticates == ASSUME TuInv(s), NEW n \in DOMAIN s.conns, TU!SendAuthentication(n) PROVE TuInv(s')
<1>1. PICK w, t : w = [s.conns[n] EXCEPT !.authenticated = TRUE] /\ t = TuPutConn(s, n, w)
  OBVIOUS
<1>2. s.conns[n] \in TuConns /\ TuForm(s)
  BY TuConnIs DEF TuInv
<1>3. TuNoBetter(s.conns[n], w) /\ w.client = s.conns[n].client
  BY <1>1, <1>2 DEF TuConns, TuNoBetter
<1>4. TuInv(t) /\ t.conns[n] = w /\ DOMAIN t.conns = DOMAIN s.conns
  BY <1>1, <1>3, TuConnected
<1>5. t = [s EXCEPT !.conns[n].authenticated = TRUE]
  BY <1>1, <1>2 DEF TuForm, TuPutConn
<1>6. s' = TU!DeferQuicConn(t, s.conns[n].client, n)
  BY <1>5 DEF TU!SendAuthentication
<1>7. QED
  BY <1>3, <1>4, <1>6, TuDeferred

LEMMA TuParses == ASSUME TuInv(s), NEW n \in DOMAIN s.conns, TU!ParseUDPEnds(n) PROVE TuInv(s')
<1>1. PICK w, t : w = [s.conns[n] EXCEPT !.parsed = TRUE] /\ t = TuPutConn(s, n, w)
  OBVIOUS
<1>2. s.conns[n] \in TuConns /\ TuForm(s)
  BY TuConnIs DEF TuInv
<1>3. TuNoBetter(s.conns[n], w) /\ w.client = s.conns[n].client
  BY <1>1, <1>2 DEF TuConns, TuNoBetter
<1>4. TuInv(t) /\ t.conns[n] = w /\ DOMAIN t.conns = DOMAIN s.conns
  BY <1>1, <1>3, TuConnected
<1>5. t = [s EXCEPT !.conns[n].parsed = TRUE]
  BY <1>1, <1>2 DEF TuForm, TuPutConn
<1>6. s' = TU!DeferQuicConn(t, s.conns[n].client, n)
  BY <1>5 DEF TU!ParseUDPEnds
<1>7. QED
  BY <1>3, <1>4, <1>6, TuDeferred

LEMMA TuBreaks == ASSUME TuInv(s), NEW n \in DOMAIN s.conns, TU!Breaks(n) PROVE TuInv(s')
<1>1. PICK how \in {"lost", "closed"} : s' = [s EXCEPT !.conns[n].state = how, !.faults = @ - 1]
  BY DEF TU!Breaks
<1>2. PICK w, t, f : w = [s.conns[n] EXCEPT !.state = how] /\ t = TuPutConn(s, n, w) /\ f = s.faults - 1
  OBVIOUS
<1>3. s.conns[n] \in TuConns /\ TuForm(s) /\ f \in Nat
  <2>1. s.faults \in Nat /\ s.faults > 0
    BY DEF TU!Breaks, TuInv, TuForm
  <2>2. QED
    BY <1>2, <2>1, TuConnIs DEF TuInv
<1>4. TuNoBetter(s.conns[n], w)
  BY <1>2, <1>3 DEF TuConns, TuNoBetter
<1>5. TuInv(t) /\ t.faults = s.faults
  BY <1>2, <1>4, TuConnected
<1>6. s' = TuPutFaults(t, f)
  BY <1>1, <1>2, <1>3 DEF TuForm, TuPutConn, TuPutFaults
<1>7. QED
  BY <1>3, <1>5, <1>6, TuFaulted

LEMMA TuIdles == ASSUME TuInv(s), NEW k \in DOMAIN s.clients, TU!HalfAnHour(k) PROVE TuInv(s')
<1>1. PICK c \in TuClients(s.dialers) : c = s.clients[k] /\ TuClient(s.udp, c, s.conns, s.dial, k)
  BY TuClientHas
<1>2. PICK g : g = [c EXCEPT !.idle = TRUE]
  OBVIOUS
<1>3. TuForm(s)
  BY DEF TuInv
<1>4. s' = TuPutClient(s, k, g)
  BY <1>1, <1>2, <1>3 DEF TU!HalfAnHour, TuForm, TuPutClient
<1>5. /\ g \in TuClients(s.dialers) /\ g.conn = c.conn /\ g.count = c.count /\ g.leaked = c.leaked /\ g.lost = c.lost
      /\ g.late = c.late /\ g.stale = c.stale /\ g.pipes = c.pipes /\ g.closed = c.closed /\ g.refused = c.refused
  BY <1>1, <1>2 DEF TuClients
<1>6. /\ TuForm(s') /\ s'.udp = s.udp /\ s'.pool = s.pool /\ s'.conns = s.conns /\ s'.dial = s.dial
      /\ DOMAIN s'.clients = DOMAIN s.clients /\ s'.clients[k] = g /\ \A j \in DOMAIN s.clients : j # k => s'.clients[j] = s.clients[j]
  BY <1>3, <1>4, <1>5, TuWithClient
<1>7. TuClient(s.udp, g, s.conns, s.dial, k)
  BY <1>1, <1>5 DEF TuClient, TuConn, TuCount, TuMatch, TuReach, TuPipes, TuLeft
<1>8. \A j \in DOMAIN s.clients : TuClient(s.udp, s'.clients[j], s.conns, s.dial, j)
  <2>1. ASSUME NEW j \in DOMAIN s.clients PROVE TuClient(s.udp, s'.clients[j], s.conns, s.dial, j)
    <3>1. CASE j = k
      BY <1>6, <1>7, <3>1
    <3>2. CASE j # k
      BY <1>6, <3>2 DEF TuInv
    <3>3. QED
      BY <3>1, <3>2
  <2>2. QED
    BY <2>1
<1>9. \A y \in RelayDials : TuDial(s'.clients, s'.conns, s'.dial[y])
  BY <1>6 DEF TuInv, TuDial
<1>10. QED
  BY <1>6, <1>8, <1>9 DEF TuInv

\* The connection there is, and none
LEMMA TuHasConn == ASSUME TuInv(s), NEW x \in RelayDials, TU!GetQuicConn(x), s.clients[s.dial[x].client].conn # 0 PROVE TuInv(s')
<1>1. s.dial[x].pc = "conn"
  BY DEF TU!GetQuicConn, TU!At, TU!D
<1>2. PICK k \in DOMAIN s.clients, c \in TuClients(s.dialers),
        d \in [pc : {"conn"}, dialer : s.dialers, client : {s.dial[x].client}, out : Nat, again : BOOLEAN, conn : Nat, pipe : BOOLEAN] :
           /\ k = s.dial[x].client /\ c = s.clients[k] /\ d = s.dial[x] /\ k # 0
           /\ TuClient(s.udp, c, s.conns, s.dial, k)
  BY <1>1, TuHere
<1>3. PICK n, e : n = c.conn /\ e = [d EXCEPT !.conn = n, !.pc = "count"]
  OBVIOUS
<1>4. n # 0 /\ n \in DOMAIN s.conns /\ s.conns[n].client = k /\ (\A m : TuOk(s.conns, k, m) => m = n)
  BY <1>2, <1>3 DEF TuClient, TuConn
<1>5. s' = TuPutDial(s, x, e)
  <2>1. TuForm(s)
    BY DEF TuInv
  <2>2. s' = TU!Goto([s EXCEPT !.dial[x].conn = n], x, "count")
    BY <1>2, <1>3, <1>4 DEF TU!GetQuicConn, TU!Mine, TU!D
  <2>3. QED
    BY <1>2, <1>3, <2>1, <2>2 DEF TuForm, TuPutDial, TU!Goto
<1>6. s' = TuChanges(s, k, c, x, e)
  BY <1>2, <1>5, TuPutIs
<1>7. e \in TuDials(s.dialers) /\ e.pc = "count" /\ e.client = k /\ e.conn = n
  <2>1. n \in Nat /\ k \in Nat
    BY <1>2, <1>3, TuClientHas DEF TuClients
  <2>2. QED
    BY <1>2, <1>3, <2>1 DEF TuDials, TuDialPcs
<1>8. ~TuCounts(d, k) /\ ~TuCounts(e, k) /\ ~TuOpens(d, k) /\ ~TuOpens(e, k) /\ ~TuStreams(e, k) /\ x \notin c.pipes
  <2>1. ~TuCounts(d, k) /\ ~TuCounts(e, k) /\ ~TuOpens(d, k) /\ ~TuOpens(e, k) /\ ~TuStreams(e, k)
    BY <1>2, <1>7 DEF TuCounts, TuOpens, TuStreams, TuCounted, TuStreaming
  <2>2. QED
    BY <1>2, <2>1 DEF TuClient, TuPipes
<1>9. TuTurn(s, k, c, c, x, d, e)
  <2>1. d = s.dial[x] /\ c = s.clients[k] /\ d.client = k /\ e.client = k /\ d.pc # "remove"
    BY <1>2, <1>7
  <2>2. \A m : TuOk(s.conns, k, m) /\ TuHolds(d, k, m) => TuHolds(e, k, m)
    BY <1>4, <1>7 DEF TuHolds
  <2>3. QED
    BY <1>8, <2>1, <2>2, Zenon DEF TuTurn
<1>10. TuDial(s.clients, s.conns, e)
  BY <1>2, <1>4, <1>7 DEF TuDial, TuCounted
<1>11. QED
  BY <1>2, <1>6, <1>7, <1>9, <1>10, TuTurns

LEMMA TuNoConn ==
  ASSUME TuInv(s), NEW x \in RelayDials, s.dial[x].pc = "conn", s.clients[s.dial[x].client].conn = 0, s.faults > 0,
         s' = TU!Goto([s EXCEPT !.faults = @ - 1], x, "done")
  PROVE  TuInv(s')
<1>1. PICK f, t, k : f = s.faults - 1 /\ t = TuPutFaults(s, f) /\ k = s.dial[x].client
  OBVIOUS
<1>2. f \in Nat /\ TuForm(s)
  <2>1. s.faults \in Nat
    BY DEF TuInv, TuForm
  <2>2. QED
    BY <1>1, <2>1 DEF TuInv
<1>3. TuInv(t) /\ TuAlike(s, t)
  BY <1>1, <1>2, TuFaulted
<1>4. k \in DOMAIN t.clients /\ t.dial[x].pc = "conn" /\ t.dial[x].client = k /\ t.clients[k].conn = 0
  BY <1>1, <1>3, TuDialHas DEF TuAlike
<1>5. s' = TU!Goto(t, x, "done")
  BY <1>1 DEF TuPutFaults
<1>6. PICK e, d, c : e = TuAt(d, "done") /\ d = t.dial[x] /\ c = t.clients[k]
  OBVIOUS
<1>7. e \in TuDials(t.dialers) /\ e.pc = "done" /\ e.client = k
  <2>1. TuForm(t) /\ "done" \in TuDialPcs
    BY <1>3 DEF TuInv, TuDialPcs
  <2>2. QED
    BY <1>4, <1>6, <2>1, TuGoesOn
<1>8. s' = TuChanges(t, k, c, x, e)
  <2>1. s' = TuPutDial(t, x, e)
    BY <1>3, <1>5, <1>6, TuGoto DEF TuInv
  <2>2. QED
    BY <1>3, <1>4, <1>6, <2>1, TuPutIs
<1>9. c \in TuClients(t.dialers) /\ TuPipes(t.udp, c, t.conns, t.dial, k) /\ k # 0 /\ TuConn(c, t.conns, k)
  BY <1>3, <1>4, <1>6, TuClientHas DEF TuClient
<1>10. ~TuCounts(d, k) /\ ~TuCounts(e, k) /\ ~TuOpens(d, k) /\ ~TuOpens(e, k) /\ ~TuStreams(e, k) /\ x \notin c.pipes
  <2>1. ~TuCounts(d, k) /\ ~TuCounts(e, k) /\ ~TuOpens(d, k) /\ ~TuOpens(e, k) /\ ~TuStreams(e, k)
    BY <1>4, <1>6, <1>7 DEF TuCounts, TuOpens, TuStreams, TuCounted, TuStreaming
  <2>2. QED
    BY <1>6, <1>9, <2>1 DEF TuPipes
<1>11. TuTurn(t, k, c, c, x, d, e)
  <2>1. d = t.dial[x] /\ c = t.clients[k] /\ d.client = k /\ e.client = k /\ d.pc # "remove"
    BY <1>4, <1>6, <1>7
  <2>2. \A m : ~TuOk(t.conns, k, m)
    <3>1. \A m : TuOk(t.conns, k, m) => m = 0 /\ m \in DOMAIN t.conns
      BY <1>4, <1>6, <1>9 DEF TuConn, TuOk
    <3>2. QED
      BY <1>3, <3>1, TuConnIs DEF TuInv
  <2>3. QED
    BY <1>10, <2>1, <2>2, Zenon DEF TuTurn
<1>12. TuDial(t.clients, t.conns, e)
  BY <1>4, <1>7, <1>9 DEF TuDial, TuCounted
<1>13. QED
  BY <1>3, <1>4, <1>7, <1>8, <1>9, <1>11, <1>12, TuTurns

TuAnew(t, k, X, n, b, x) ==
  [t EXCEPT !.conns = X, !.clients[k].conn = n, !.clients[k].lost = b, !.clients[k].count = 0, !.dial[x].conn = n]

TuAnewAs(t, k, X, n, b, x) ==
  [TuChanges(t, k, [t.clients[k] EXCEPT !.conn = n, !.lost = b, !.count = 0], x, [t.dial[x] EXCEPT !.conn = n]) EXCEPT !.conns = X]

LEMMA TuAnewIs ==
  ASSUME NEW t, TuForm(t), NEW k \in DOMAIN t.clients, NEW X, NEW n, NEW b, NEW x \in RelayDials
  PROVE  TuAnew(t, k, X, n, b, x) = TuAnewAs(t, k, X, n, b, x)
BY DEF TuForm, TuChanges, TuAnew, TuAnewAs

\* u is t with a connection n for client k.
TuRenewed(t, u, k, n, g, x, e) ==
  /\ TuForm(u) /\ u.udp = t.udp /\ u.pool = t.pool
  /\ n \in Nat \ {0} /\ n \notin DOMAIN t.conns /\ DOMAIN u.conns = DOMAIN t.conns \cup {n}
  /\ u.conns[n].client = k /\ \A m \in DOMAIN t.conns : u.conns[m] = t.conns[m]
  /\ DOMAIN u.clients = DOMAIN t.clients /\ u.clients[k] = g /\ \A j \in DOMAIN t.clients : j # k => u.clients[j] = t.clients[j]
  /\ u.dial[x] = e /\ \A y \in RelayDials : y # x => u.dial[y] = t.dial[y]

\* Client c connects anew.
TuAnewOf(c, g, n) ==
  /\ g.conn = n /\ g.count = 0 /\ (g.lost <=> c.lost \/ c.count # 0) /\ g.leaked = c.leaked
  /\ g.late = c.late /\ g.stale = c.stale /\ g.pipes = c.pipes

LEMMA TuRenewedClient ==
  ASSUME NEW t, TuInv(t), NEW k \in DOMAIN t.clients, t.clients[k].conn = 0, NEW n, NEW g, TuAnewOf(t.clients[k], g, n),
         NEW x \in RelayDials, t.dial[x].pc = "conn", NEW e, e.pc = "count", e.client = k, e.conn = n,
         NEW u, TuRenewed(t, u, k, n, g, x, e)
  PROVE  TuClient(t.udp, g, u.conns, u.dial, k)
<1>1. PICK c \in TuClients(t.dialers) : c = t.clients[k] /\ TuClient(t.udp, c, t.conns, t.dial, k) /\ c.pipes \subseteq RelayDials
  BY TuClientHas
<1>2. TuConn(c, t.conns, k) /\ TuCount(c, t.dial, k) /\ TuPipes(t.udp, c, t.conns, t.dial, k)
  BY <1>1 DEF TuClient
<1>3. /\ c.conn = 0 /\ g.conn = n /\ g.count = 0 /\ (g.lost <=> c.lost \/ c.count # 0) /\ g.leaked = c.leaked
      /\ g.stale = c.stale /\ g.pipes = c.pipes
  BY <1>1 DEF TuAnewOf
<1>4. /\ n \in Nat \ {0} /\ n \notin DOMAIN t.conns /\ DOMAIN u.conns = DOMAIN t.conns \cup {n}
      /\ u.conns[n].client = k /\ \A m \in DOMAIN t.conns : u.conns[m] = t.conns[m]
  BY DEF TuRenewed
<1>5. u.dial[x] = e /\ \A y \in RelayDials : y # x => u.dial[y] = t.dial[y]
  BY DEF TuRenewed
<1>6. \A m : ~TuOk(t.conns, k, m)
  <2>1. \A m : TuOk(t.conns, k, m) => m = 0 /\ m \in DOMAIN t.conns
    BY <1>2, <1>3 DEF TuConn, TuOk
  <2>2. QED
    BY <2>1, TuConnIs DEF TuInv
<1>7. \A m : TuOk(u.conns, k, m) => m = n
  BY <1>4, <1>6 DEF TuOk
<1>9. /\ ~TuCounts(t.dial[x], k) /\ ~TuStreams(t.dial[x], k) /\ ~TuOpens(t.dial[x], k)
      /\ ~TuCounts(u.dial[x], k) /\ ~TuStreams(u.dial[x], k) /\ ~TuOpens(u.dial[x], k)
  BY <1>5 DEF TuCounts, TuStreams, TuOpens, TuCounted, TuStreaming
<1>10. TuCountOf(u.dial, k) = TuCountOf(t.dial, k) /\ TuStreamsOf(u.dial, k) = TuStreamsOf(t.dial, k)
  BY <1>5, <1>9 DEF TuCountOf, TuStreamsOf
<1>11. ASSUME ~g.lost PROVE TuCountOf(u.dial, k) = {} /\ g.leaked = 0 /\ Cardinality(TuStreamsOf(u.dial, k)) < TuicStreams
  <2>1. ~c.lost /\ c.count = 0
    BY <1>3, <1>11
  <2>2. c.count = Cardinality(TuCountOf(u.dial, k)) + c.leaked /\ Cardinality(TuStreamsOf(u.dial, k)) < TuicStreams
    BY <1>2, <1>10, <2>1 DEF TuCount
  <2>3. IsFiniteSet(TuCountOf(u.dial, k)) /\ Cardinality(TuCountOf(u.dial, k)) \in Nat
    <3>1. IsFiniteSet(RelayDials) /\ TuCountOf(u.dial, k) \in SUBSET RelayDials
      BY RelaysAssumption DEF TuCountOf
    <3>2. QED
      BY <3>1, FS_Subset, FS_CardinalityType
  <2>4. c.leaked \in Nat
    BY DEF TuClients
  <2>5. Cardinality(TuCountOf(u.dial, k)) = 0 /\ c.leaked = 0
    BY <2>1, <2>2, <2>3, <2>4
  <2>6. QED
    BY <1>3, <2>2, <2>3, <2>5, FS_EmptySet
<1>8. TuConn(g, u.conns, k)
  BY <1>3, <1>4, <1>7, <1>11 DEF TuConn
<1>12. TuCount(g, u.dial, k)
  <2>1. 0 = 0 + 0
    OBVIOUS
  <2>2. QED
    BY <1>3, <1>11, <2>1, TuNone DEF TuCount
<1>13. TuMatch(g, u.dial, k)
  BY <1>11 DEF TuMatch, TuCountOf
<1>14. TuReach(g, u.conns, u.dial, k)
  <2>1. \A m : TuOk(u.conns, k, m) => TuHolds(u.dial[x], k, m)
    BY <1>5, <1>7 DEF TuHolds
  <2>2. QED
    BY <2>1 DEF TuReach
<1>15. TuPipes(t.udp, g, u.conns, u.dial, k)
  <2>1. \A y \in RelayDials : TuOpens(t.dial[y], k) => t.dial[y].conn \in DOMAIN t.conns
    BY TuOpenHas
  <2>2. \A y \in RelayDials :
          TuOpens(u.dial[y], k) => TuOpens(t.dial[y], k) /\ u.dial[y] = t.dial[y] /\ u.conns[u.dial[y].conn] = t.conns[t.dial[y].conn]
    BY <1>4, <1>5, <1>9, <2>1
  <2>3. \A y \in c.pipes : t.udp /\ TuOpens(u.dial[y], k)
    BY <1>1, <1>2, <1>5, <1>9 DEF TuPipes
  <2>4. t.udp => \A y \in RelayDials : TuOpens(u.dial[y], k) /\ u.conns[u.dial[y].conn].state = "ok" => y \in c.pipes \/ c.stale
    BY <1>2, <2>2 DEF TuPipes
  <2>5. QED
    BY <1>3, <2>3, <2>4 DEF TuPipes
<1>16. QED
  BY <1>8, <1>12, <1>13, <1>14, <1>15 DEF TuClient

LEMMA TuRenewedKept ==
  ASSUME NEW t, TuInv(t), NEW k \in DOMAIN t.clients, t.clients[k].conn = 0, NEW n, NEW g, TuAnewOf(t.clients[k], g, n),
         NEW x \in RelayDials, t.dial[x].pc = "conn", t.dial[x].client = k, NEW e, e.pc = "count", e.client = k, e.conn = n,
         NEW u, TuRenewed(t, u, k, n, g, x, e)
  PROVE  TuInv(u)
<1>1. TuClient(t.udp, g, u.conns, u.dial, k)
  BY TuRenewedClient
<1>2. /\ TuForm(u) /\ u.udp = t.udp /\ u.pool = t.pool /\ n \notin DOMAIN t.conns /\ DOMAIN u.conns = DOMAIN t.conns \cup {n}
      /\ u.conns[n].client = k /\ \A m \in DOMAIN t.conns : u.conns[m] = t.conns[m]
  BY DEF TuRenewed
<1>3. DOMAIN u.clients = DOMAIN t.clients /\ u.clients[k] = g /\ \A j \in DOMAIN t.clients : j # k => u.clients[j] = t.clients[j]
  BY DEF TuRenewed
<1>4. u.dial[x] = e /\ \A y \in RelayDials : y # x => u.dial[y] = t.dial[y]
  BY DEF TuRenewed
<1>5. ASSUME NEW y \in RelayDials PROVE TuDial(u.clients, u.conns, u.dial[y])
  <2>1. CASE y = x
    <3>1. k # 0
      BY TuClientHas
    <3>2. QED
      BY <1>2, <1>3, <1>4, <2>1, <3>1 DEF TuDial
  <2>2. CASE y # x
    <3>1. TuDial(t.clients, t.conns, t.dial[y]) /\ u.dial[y] = t.dial[y]
      BY <1>4, <2>2 DEF TuInv
    <3>2. QED
      BY <1>2, <1>3, <3>1 DEF TuDial
  <2>3. QED
    BY <2>1, <2>2
<1>6. ASSUME NEW j \in DOMAIN t.clients, j # k PROVE TuClient(t.udp, u.clients[j], u.conns, u.dial, j)
  <2>1. ASSUME NEW y \in RelayDials PROVE TuKeeps(t.dial[y], u.dial[y], j)
    <3>1. CASE y = x
      BY <1>4, <1>6, <3>1, TuElsewhere
    <3>2. CASE y # x
      BY <1>4, <3>2, TuLikes, TuSame
    <3>3. QED
      BY <3>1, <3>2
  <2>2. TuClient(t.udp, t.clients[j], t.conns, t.dial, j) /\ t.clients[j].pipes \subseteq RelayDials
    BY TuClientHas
  <2>3. \A y \in RelayDials : TuOpens(t.dial[y], j) => t.dial[y].conn \in DOMAIN t.conns /\ t.conns[t.dial[y].conn].client = j
    BY TuOpenHas
  <2>4. TuWorse(t.conns, u.conns, j)
    BY <1>2, <1>6 DEF TuWorse, TuOk
  <2>5. TuClient(t.udp, t.clients[j], u.conns, u.dial, j)
    BY <2>1, <2>2, <2>3, <2>4, TuFrame
  <2>6. QED
    BY <1>3, <1>6, <2>5
<1>7. \A m \in DOMAIN u.conns : u.conns[m].client \in DOMAIN u.clients
  BY <1>2, <1>3 DEF TuInv
<1>8. \A i \in DOMAIN u.pool : u.pool[i] \in DOMAIN u.clients
  BY <1>2, <1>3 DEF TuInv
<1>9. \A j \in DOMAIN u.clients : TuClient(u.udp, u.clients[j], u.conns, u.dial, j)
  BY <1>1, <1>2, <1>3, <1>6
<1>10. QED
  BY <1>2, <1>5, <1>7, <1>8, <1>9 DEF TuInv

LEMMA TuRenewing ==
  ASSUME NEW t, TuForm(t), NEW k \in DOMAIN t.clients, NEW n, n = Len(t.conns) + 1, NEW w \in TuConns, w.client = k,
         NEW g \in TuClients(t.dialers), NEW x \in RelayDials, NEW e \in TuDials(t.dialers),
         NEW u, u = [TuChanges(t, k, g, x, e) EXCEPT !.conns = Append(t.conns, w)]
  PROVE  TuRenewed(t, u, k, n, g, x, e)
<1>1. PICK X, Y, q : X = Append(t.conns, w) /\ Y = [t.dial EXCEPT ![x] = e] /\ q = [t.clients EXCEPT ![k] = g]
  OBVIOUS
<1>2. u = [[t EXCEPT !.clients = q, !.dial = Y] EXCEPT !.conns = X]
  <2>1. TuChanges(t, k, g, x, e) = [t EXCEPT !.clients = q, !.dial = Y]
    BY <1>1 DEF TuChanges, TuForm
  <2>2. QED
    BY <1>1, <2>1
<1>3. u \in [udp : {t.udp}, dialers : {t.dialers}, clients : {q}, pool : {t.pool}, conns : {X}, faults : {t.faults}, dial : {Y}]
  BY <1>2 DEF TuForm
<1>4. u.udp = t.udp /\ u.dialers = t.dialers /\ u.clients = q /\ u.pool = t.pool /\ u.conns = X /\ u.faults = t.faults /\ u.dial = Y
  BY <1>3
<1>5. /\ X \in Seq(TuConns) /\ n \in Nat \ {0} /\ n \notin DOMAIN t.conns /\ DOMAIN X = DOMAIN t.conns \cup {n} /\ X[n] = w
      /\ \A m \in DOMAIN t.conns : X[m] = t.conns[m]
  <2>1. t.conns \in Seq(TuConns)
    BY DEF TuForm
  <2>2. /\ Append(t.conns, w) \in Seq(TuConns) /\ Len(t.conns) + 1 \in Nat \ {0} /\ Len(t.conns) + 1 \notin DOMAIN t.conns
        /\ DOMAIN Append(t.conns, w) = DOMAIN t.conns \cup {Len(t.conns) + 1} /\ Append(t.conns, w)[Len(t.conns) + 1] = w
        /\ \A m \in DOMAIN t.conns : Append(t.conns, w)[m] = t.conns[m]
    BY <2>1, TuAppended
  <2>3. QED
    BY <1>1, <2>2
<1>6. Y \in [RelayDials -> TuDials(t.dialers)] /\ Y[x] = e /\ \A y \in RelayDials : y # x => Y[y] = t.dial[y]
  BY <1>1 DEF TuForm
<1>7. /\ q \in Seq(TuClients(t.dialers)) /\ DOMAIN q = DOMAIN t.clients /\ q[k] = g
      /\ \A j \in DOMAIN t.clients : j # k => q[j] = t.clients[j]
  BY <1>1 DEF TuForm
<1>8. TuForm(u)
  <2>1. t.udp \in BOOLEAN /\ t.pool \in Seq(Nat) /\ t.faults \in Nat
    BY DEF TuForm
  <2>2. X \in Seq(TuConns) /\ Y \in [RelayDials -> TuDials(t.dialers)] /\ q \in Seq(TuClients(t.dialers))
    BY <1>5, <1>6, <1>7
  <2>3. QED
    BY ONLY <1>3, <1>4, <2>1, <2>2 DEF TuForm
<1>9. QED
  BY <1>4, <1>5, <1>6, <1>7, <1>8 DEF TuRenewed

LEMMA TuNewConn ==
  ASSUME TuInv(s), NEW x \in RelayDials, s.dial[x].pc = "conn", s.clients[s.dial[x].client].conn = 0,
         NEW k, k = s.dial[x].client, NEW n, n = Len(s.conns) + 1,
         NEW w, w = [client |-> k, state |-> "ok", authenticated |-> FALSE, parsed |-> FALSE],
         NEW b, b = (s.clients[k].lost \/ s.clients[k].count # 0),
         s' = TU!Goto(TuAnew(s, k, Append(s.conns, w), n, b, x), x, "count")
  PROVE  TuInv(s')
<1>1. k \in DOMAIN s.clients /\ TuForm(s)
  BY TuDialHas DEF TuInv
<1>2. PICK c \in TuClients(s.dialers) : c = s.clients[k] /\ c.conn = 0 /\ k \in Nat \ {0}
  BY <1>1, TuClientHas
<1>3. PICK d : d = s.dial[x] /\ d \in [pc : TuDialPcs, dialer : s.dialers, client : Nat, out : Nat, again : BOOLEAN, conn : Nat, pipe : BOOLEAN]
  BY <1>1, TuDialIs
<1>4. PICK X, g, f, e :
        /\ X = Append(s.conns, w) /\ g = [c EXCEPT !.conn = n, !.lost = b, !.count = 0]
        /\ f = [d EXCEPT !.conn = n] /\ e = [d EXCEPT !.conn = n, !.pc = "count"]
  OBVIOUS
<1>5. e = TuAt(f, "count")
  BY <1>3, <1>4 DEF TuAt
<1>6. s' = [TuChanges(s, k, g, x, e) EXCEPT !.conns = X]
  <2>1. TuAnew(s, k, X, n, b, x) = TuAnewAs(s, k, X, n, b, x)
    BY ONLY <1>1, x \in RelayDials, TuAnewIs
  <2>2. [s.clients[k] EXCEPT !.conn = n, !.lost = b, !.count = 0] = g /\ [s.dial[x] EXCEPT !.conn = n] = f
    BY <1>2, <1>3, <1>4, Zenon
  <2>3. PICK v : v = TuChanges(s, k, g, x, f)
    OBVIOUS
  <2>4. TU!Goto([v EXCEPT !.conns = X], x, "count") = [TU!Goto(v, x, "count") EXCEPT !.conns = X]
    <3>1. v = [s EXCEPT !.clients = [s.clients EXCEPT ![k] = g], !.dial = [s.dial EXCEPT ![x] = f]]
      BY ONLY <1>1, <2>3 DEF TuChanges, TuForm
    <3>2. QED
      BY ONLY <1>1, <3>1 DEF TU!Goto, TuForm
  <2>5. TU!Goto(v, x, "count") = TuChanges(s, k, g, x, e)
    BY <1>1, <1>5, <2>3, TuThen
  <2>6. s' = TU!Goto([v EXCEPT !.conns = X], x, "count")
    BY <1>4, <2>1, <2>2, <2>3, Zenon DEF TuAnewAs
  <2>7. QED
    BY <2>4, <2>5, <2>6, Zenon
<1>7. w \in TuConns /\ w.client = k
  BY <1>2 DEF TuConns
<1>8. n \in Nat /\ b \in BOOLEAN
  <2>1. s.conns \in Seq(TuConns)
    BY <1>1 DEF TuForm
  <2>2. Len(s.conns) \in Nat /\ n = Len(s.conns) + 1
    BY <1>2, <2>1
  <2>3. n \in Nat
    BY ONLY <2>2
  <2>4. b \in BOOLEAN
    BY <1>2, Zenon
  <2>5. QED
    BY <2>3, <2>4
<1>9. /\ g \in TuClients(s.dialers) /\ g.conn = n /\ g.count = 0 /\ g.lost = b /\ g.leaked = c.leaked
      /\ g.late = c.late /\ g.stale = c.stale /\ g.pipes = c.pipes
  <2>1. c \in TuClients(s.dialers)
    OBVIOUS
  <2>2. g = [c EXCEPT !.conn = n, !.lost = b, !.count = 0]
    BY <1>4
  <2>3. g \in TuClients(s.dialers)
    <3>1. PICK z : z = 0 /\ z \in Int
      OBVIOUS
    <3>2. g = [c EXCEPT !.conn = n, !.lost = b, !.count = z]
      BY <2>2, <3>1
    <3>3. z \in Int
      BY <3>1
    <3>4. QED
      BY ONLY <1>8, <2>1, <3>2, <3>3 DEF TuClients
  <2>4. /\ g.conn = n /\ g.count = 0 /\ g.leaked = c.leaked
        /\ g.late = c.late /\ g.stale = c.stale /\ g.pipes = c.pipes
    BY ONLY <2>1, <2>2 DEF TuClients
  <2>5. g.lost = b
    BY ONLY <2>1, <2>2 DEF TuClients
  <2>6. QED
    BY <2>3, <2>4, <2>5
<1>10. TuAnewOf(s.clients[k], g, n)
  BY <1>2, <1>9 DEF TuAnewOf
<1>11. e \in TuDials(s.dialers) /\ e.pc = "count" /\ e.client = k /\ e.conn = n
  BY <1>3, <1>4, <1>8 DEF TuDials, TuDialPcs
<1>12. TuRenewed(s, s', k, n, g, x, e)
  <2>1. s' = [TuChanges(s, k, g, x, e) EXCEPT !.conns = Append(s.conns, w)]
    BY <1>4, <1>6
  <2>2. n = Len(s.conns) + 1
    OBVIOUS
  <2>3. g \in TuClients(s.dialers) /\ e \in TuDials(s.dialers)
    BY <1>9, <1>11
  <2>4. QED
    BY ONLY <1>1, <1>7, <2>1, <2>2, <2>3, x \in RelayDials, TuRenewing
<1>13. e.pc = "count" /\ e.client = k /\ e.conn = n
  BY <1>11
<1>14. s.clients[k].conn = 0 /\ s.dial[x].pc = "conn" /\ s.dial[x].client = k /\ k \in DOMAIN s.clients
  BY <1>1
<1>15. QED
  BY ONLY <1>10, <1>12, <1>13, <1>14, x \in RelayDials, TuInv(s), TuRenewedKept

LEMMA TuGetsQuicConn == ASSUME TuInv(s), NEW x \in RelayDials, TU!GetQuicConn(x) PROVE TuInv(s')
<1>1. s.dial[x].pc = "conn"
  BY DEF TU!GetQuicConn, TU!At, TU!D
<1>2. CASE s.clients[s.dial[x].client].conn # 0
  BY <1>2, TuHasConn
<1>3. CASE s.clients[s.dial[x].client].conn = 0
  <2>1. PICK k, n, w, b :
          /\ k = s.dial[x].client /\ n = Len(s.conns) + 1 /\ b = (s.clients[k].lost \/ s.clients[k].count # 0)
          /\ w = [client |-> k, state |-> "ok", authenticated |-> FALSE, parsed |-> FALSE]
    OBVIOUS
  <2>2. \/ s' = TU!Goto(TuAnew(s, k, Append(s.conns, w), n, b, x), x, "count")
        \/ s.faults > 0 /\ s' = TU!Goto([s EXCEPT !.faults = @ - 1], x, "done")
    BY <1>3, <2>1, Zenon DEF TU!GetQuicConn, TU!Mine, TU!D, TuAnew
  <2>3. QED
    BY <1>1, <1>3, <2>1, <2>2, TuNewConn, TuNoConn
<1>4. QED
  BY <1>2, <1>3

LEMMA TuStep == ASSUME TuInv(s), TU!ClientNext PROVE TuInv(s')
<1>1. CASE \E x \in RelayDials : \E d \in s.dialers : TU!Pick(x, d)
  BY <1>1, TuPicks
<1>2. CASE \E x \in RelayDials : TU!Sweep(x)
  BY <1>2, TuSweeps
<1>3. CASE \E x \in RelayDials : TU!Remove(x)
  BY <1>3, TuRemoves
<1>4. CASE \E x \in RelayDials : TU!Swept(x)
  BY <1>4, TuSwept
<1>5. CASE \E x \in RelayDials : TU!NewClient(x)
  BY <1>5, TuNews
<1>6. CASE \E x \in RelayDials : TU!GetQuicConn(x)
  BY <1>6, TuGetsQuicConn
<1>7. CASE \E x \in RelayDials : TU!Count(x)
  BY <1>7, TuCountsOn
<1>8. CASE \E x \in RelayDials : TU!TooMany(x)
  BY <1>8, TuTooMany
<1>9. CASE \E x \in RelayDials : TU!OpenStream(x)
  BY <1>9, TuOpensStream
<1>10. CASE \E x \in RelayDials : TU!ListenPacket(x)
  BY <1>10, TuListens
<1>11. CASE \E x \in RelayDials : TU!Write(x)
  BY <1>11, TuWrites
<1>12. CASE \E x \in RelayDials : TU!CloseStream(x)
  BY <1>12, TuClosesStream
<1>13. CASE \E x \in RelayDials : TU!ClosePacketConn(x)
  BY <1>13, TuClosesPacketConn
<1>14. CASE \E x \in RelayDials : TU!CountOff(x)
  BY <1>14, TuCountsOff
<1>15. CASE \E x \in RelayDials : TU!Last(x)
  BY <1>15, TuLasts
<1>16. CASE \E n \in DOMAIN s.conns : TU!SendAuthentication(n)
  BY <1>16, TuAuthenticates
<1>17. CASE \E n \in DOMAIN s.conns : TU!ParseUDPEnds(n)
  BY <1>17, TuParses
<1>18. CASE \E n \in DOMAIN s.conns : TU!Breaks(n)
  BY <1>18, TuBreaks
<1>19. CASE \E k \in DOMAIN s.clients : TU!HalfAnHour(k)
  BY <1>19, TuIdles
<1>20. QED
  BY <1>1, <1>2, <1>3, <1>4, <1>5, <1>6, <1>7, <1>8, <1>9, <1>10, <1>11, <1>12, <1>13, <1>14, <1>15, <1>16, <1>17, <1>18, <1>19
  DEF TU!ClientNext

\* Cardinality, as the instance knows it
LEMMA TuCardinality == ASSUME NEW S PROVE TU!Cardinality(S) = Cardinality(S)
BY Zenon DEF TU!Cardinality, Cardinality

LEMMA TuRight == ASSUME TuInv(s) PROVE TU!StreamLimit /\ TU!NothingKept /\ TU!SessionsAreRegistered
<1>1. ASSUME NEW k \in DOMAIN s.clients, ~s.clients[k].lost PROVE TU!Cardinality(TU!Streams(k)) < TuicStreams
  <2>1. TuCount(s.clients[k], s.dial, k)
    BY TuClientHas DEF TuClient
  <2>2. Cardinality(TuStreamsOf(s.dial, k)) < TuicStreams
    BY <1>1, <2>1 DEF TuCount
  <2>3. IsFiniteSet(TuStreamsOf(s.dial, k)) /\ Cardinality(TuStreamsOf(s.dial, k)) \in Nat
    <3>1. IsFiniteSet(RelayDials) /\ TuStreamsOf(s.dial, k) \in SUBSET RelayDials
      BY RelaysAssumption DEF TuStreamsOf
    <3>2. QED
      BY <3>1, FS_Subset, FS_CardinalityType
  <2>4. TU!Streams(k) \in SUBSET TuStreamsOf(s.dial, k)
    BY DEF TU!Streams, TU!D, TuStreamsOf, TuStreams, TuStreaming
  <2>5. IsFiniteSet(TU!Streams(k)) /\ Cardinality(TU!Streams(k)) <= Cardinality(TuStreamsOf(s.dial, k))
    BY <2>3, <2>4, FS_Subset
  <2>6. Cardinality(TU!Streams(k)) \in Nat /\ TuicStreams \in Nat
    BY <2>5, FS_CardinalityType, RelaysAssumption
  <2>7. Cardinality(TU!Streams(k)) < TuicStreams
    BY <2>2, <2>3, <2>5, <2>6
  <2>8. QED
    BY <2>7, TuCardinality
<1>2. TU!StreamLimit
  BY <1>1 DEF TU!StreamLimit
<1>3. ASSUME TU!Quiet, NEW k \in DOMAIN s.clients, ~s.clients[k].lost
      PROVE  /\ s.clients[k].count = s.clients[k].leaked
             /\ TuLeft(s.clients[k]) => \A n : ~TuOk(s.conns, k, n)
  <2>1. \A y \in RelayDials : s.dial[y].pc \in {"new", "done"}
    BY <1>3 DEF TU!Quiet, TU!D
  <2>2. PICK c \in TuClients(s.dialers) : c = s.clients[k] /\ TuCount(c, s.dial, k) /\ TuReach(c, s.conns, s.dial, k)
    BY TuClientHas DEF TuClient
  <2>3. TuCountOf(s.dial, k) = {}
    BY <2>1 DEF TuCountOf, TuCounts, TuCounted
  <2>4. c.count = 0 + c.leaked
    BY <1>3, <2>2, <2>3, TuNone DEF TuCount
  <2>5. c.count = c.leaked
    <3>1. c.leaked \in Nat
      BY DEF TuClients
    <3>2. QED
      BY <2>4, <3>1
  <2>6. \A y \in RelayDials : \A n : ~TuHolds(s.dial[y], k, n)
    BY <2>1 DEF TuHolds, TuCounted
  <2>7. QED
    BY <2>2, <2>5, <2>6 DEF TuReach
<1>4. TU!NothingKept
  <2>1. \A k \in DOMAIN s.clients : ~s.clients[k].lost /\ s.clients[k].closed /\ ~s.clients[k].refused /\ ~s.clients[k].late
                                    => TuLeft(s.clients[k])
    BY DEF TuLeft
  <2>2. QED
    BY <1>3, <2>1 DEF TU!NothingKept, TuOk
<1>5. ASSUME NEW x \in RelayDials, s.dial[x].pc # "new", s.dial[x].client # 0
      PROVE  /\ s.udp /\ s.dial[x].pc = "open" /\ s.conns[s.dial[x].conn].state = "ok" =>
                  x \in s.clients[s.dial[x].client].pipes \/ s.clients[s.dial[x].client].stale
             /\ \A k \in DOMAIN s.clients : x \in s.clients[k].pipes => s.dial[x].pc = "open"
  <2>1. ASSUME s.udp, s.dial[x].pc = "open", s.conns[s.dial[x].conn].state = "ok"
        PROVE  x \in s.clients[s.dial[x].client].pipes \/ s.clients[s.dial[x].client].stale
    <3>1. PICK k : k = s.dial[x].client
      OBVIOUS
    <3>2. k \in DOMAIN s.clients /\ TuOpens(s.dial[x], k)
      BY <2>1, <3>1, TuDialHas DEF TuOpens
    <3>3. TuPipes(s.udp, s.clients[k], s.conns, s.dial, k)
      BY <3>2, TuClientHas DEF TuClient
    <3>4. QED
      BY <2>1, <3>1, <3>2, <3>3 DEF TuPipes
  <2>2. ASSUME NEW k \in DOMAIN s.clients, x \in s.clients[k].pipes PROVE s.dial[x].pc = "open"
    <3>1. TuPipes(s.udp, s.clients[k], s.conns, s.dial, k)
      BY TuClientHas DEF TuClient
    <3>2. QED
      BY <2>2, <3>1 DEF TuPipes, TuOpens
  <2>3. QED
    BY <2>1, <2>2
<1>6. TU!SessionsAreRegistered
  BY <1>5 DEF TU!SessionsAreRegistered, TU!D, TU!At, TU!Mine
<1>7. QED
  BY <1>2, <1>4, <1>6

-----------------------------------------------------------------------------
(* The relays together *)

\* No more streams than the limit, and none kept when its client is gone; the
\* messages of every session reach it, and are whole; only who is authenticated
\* is served; commands are read as they were written; and sockets are closed.
\* As for the instances, whatever the dials, the limits and the messages.
THEOREM RelaysHold == RunSpec => []RelaysKept
<1> DEFINE I == /\ active = "tuic" => TuInv(s)
                /\ active = "tuic-server" => TsInv(s)
                /\ active = "tuic-commands" => CmInv(s)
                /\ active = "hysteria" => HyInv(s)
                /\ active = "fragments" => FrInv(s)
                /\ active = "hop" => HopInv(s)
<1>1. RunInit => I
  BY TuInitially, TsInitially, CmInitially, HyInitially, FrInitially, HopInitially DEF RunInit
<1>2. I /\ [RunNext]_<<active, s>> => I'
  <2>1. CASE UNCHANGED <<active, s>>
    BY <2>1
  <2>2. QED
    BY <2>1, TuStep, TsStep, CmStep, HyStep, FrStep, HopStep DEF RunNext
<1>3. I => RelaysKept
  BY TuRight, TsRight, CmRight, HyRight, FrRight, HopRight DEF RelaysKept
<1>4. QED
  BY <1>1, <1>2, <1>3, PTL DEF RunSpec

=============================================================================
