------------------------------ MODULE TcpConn -------------------------------
(***************************************************************************)
(* One TCP connection through the tunnel (handleTCPConn).  While a proxy   *)
(* is dialled, a goroutine peeks for the first bytes of the client, under  *)
(* a mutex that whoever reads the client next has to take; a proxy whose   *)
(* handshake waits for payload gets the bytes peeked so far with its dial, *)
(* which is tried again when that fails.  The rest is relayed.             *)
(***************************************************************************)
EXTENDS Integers, Sequences, FiniteSets

CONSTANTS
  MaxBytes,     \* bound on what each side sends
  MaxTries      \* of retry

VARIABLE tc

Init ==
  \E early \in BOOLEAN, sniffed \in BOOLEAN, reject \in BOOLEAN :
    tc = [early |-> early,        \* NeedHandshake: the proxy waits for payload
          reject |-> reject,      \* the chain ends in REJECT
          sniffed |-> sniffed,    \* the sniffer has peeked already
          pc |-> "start",
          peek |-> "none",        \* the peeking goroutine
          mutex |-> "free",       \* of peeking
          sent |-> 0,             \* bytes 1 .. sent are on their way from the client
          buffered |-> 0,         \* of them, those in the reader's buffer
          taken |-> 0,            \* of those, the ones that were discarded or relayed
          ended |-> FALSE,        \* the client is gone
          peeked |-> 0,           \* len(peekBytes)
          remotes |-> << >>,      \* dialled connections: [open, got, refused]
          tries |-> 0,
          joined |-> FALSE,       \* the tracker is with the manager
          up |-> 0, down |-> 0,   \* its totals
          answered |-> 0]         \* bytes relayed to the client

Remote == Len(tc.remotes)
At(pc) == tc.pc = pc

ClientSends ==
  /\ tc.sent < MaxBytes /\ ~tc.ended
  /\ tc' = [tc EXCEPT !.sent = @ + 1]

ClientCloses ==
  /\ ~tc.ended
  /\ tc' = [tc EXCEPT !.ended = TRUE]

\* The metadata is not valid or not known: the client is closed.
Refuse ==
  /\ At("start")
  /\ tc' = [tc EXCEPT !.pc = "done"]

\* The sniffer reads what there is, or nothing has peeked so far and a
\* goroutine is started that holds the mutex.
Prepare ==
  /\ At("start")
  /\ tc' = IF tc.sniffed
           THEN [tc EXCEPT !.buffered = tc.sent, !.pc = "resolve"]
           ELSE [tc EXCEPT !.mutex = "peek", !.peek = "reading", !.pc = "resolve"]

\* Peek(1) fills the buffer, or fails at its deadline or with the client; then
\* the mutex is unlocked.
PeekEnds ==
  /\ tc.peek = "reading"
  /\ tc' = [tc EXCEPT !.peek = "ended", !.mutex = "free", !.buffered = tc.sent]

\* resolveMetadata
NoProxy ==
  /\ At("resolve")
  /\ tc' = [tc EXCEPT !.pc = "done"]

Resolved ==
  /\ At("resolve")
  /\ tc' = [tc EXCEPT !.pc = "dial"]

\* retry: once more after a pause, unless it was the last try or the time is up
Again(s) ==
  {[s EXCEPT !.tries = @ + 1, !.pc = IF s.tries + 1 < MaxTries THEN "dial" ELSE "done"],
   [s EXCEPT !.tries = @ + 1, !.pc = "done"]}

DialFails ==
  /\ At("dial")
  /\ tc' \in Again(tc)

Dial ==
  /\ At("dial")
  /\ tc' = [tc EXCEPT !.remotes = Append(@, [open |-> TRUE, got |-> << >>, refused |-> FALSE]),
                      !.pc = IF tc.early THEN "lock" ELSE "track"]

LockPeek ==
  /\ At("lock") /\ tc.mutex = "free"
  /\ tc' = [tc EXCEPT !.mutex = "dial", !.pc = "write", !.peeked = tc.buffered - tc.taken]

\* The bytes that wait in the buffer
Waiting == [i \in 1 .. tc.buffered - tc.taken |-> tc.taken + i]

\* Mutant: the bytes are taken from the buffer whether or not they arrived.
WriteFailsTaken ==
  /\ At("write") /\ ~tc.reject
  /\ LET s == [tc EXCEPT !.mutex = "free", !.remotes[Remote].refused = TRUE, !.taken = tc.buffered] IN
     tc' \in Again(s)

\* The handshake fails with its payload: the connection is forgotten, and not
\* closed.
WriteFails ==
  /\ At("write") /\ ~tc.reject
  /\ LET s == [tc EXCEPT !.mutex = "free", !.remotes[Remote].refused = TRUE] IN tc' \in Again(s)

\* A connection of REJECT refuses the payload, and that is no error.
WriteRejected ==
  /\ At("write") /\ tc.reject
  /\ tc' = [tc EXCEPT !.mutex = "free", !.peeked = 0, !.pc = "track"]

Write ==
  /\ At("write") /\ ~tc.reject
  /\ tc' = [tc EXCEPT !.mutex = "free", !.remotes[Remote].got = Waiting, !.taken = tc.buffered,
                      !.pc = "track"]

\* NewTCPTracker(remoteConn, ..., 0, peekLen): the early bytes, which went up,
\* are passed as its downloadTotal.
Track ==
  /\ At("track")
  /\ tc' = [tc EXCEPT !.joined = TRUE, !.down = IF tc.early THEN tc.peeked ELSE 0, !.pc = "relay0"]

\* The deadline of now ends the peek, and the relay starts when it has.
LockRelay ==
  /\ At("relay0") /\ tc.mutex = "free"
  /\ tc' = [tc EXCEPT !.mutex = "relay", !.pc = "relay"]

\* The relay copies one byte up: from the buffer, or straight from the client.
RelayUp ==
  /\ At("relay") /\ tc.remotes[Remote].open /\ tc.taken < tc.sent
  /\ tc' = [tc EXCEPT !.taken = @ + 1, !.buffered = IF @ > tc.taken THEN @ ELSE tc.taken + 1,
                      !.remotes[Remote].got = Append(@, tc.taken + 1), !.up = @ + 1]

RelayDown ==
  /\ At("relay") /\ tc.remotes[Remote].open /\ tc.answered < MaxBytes
  /\ tc' = [tc EXCEPT !.answered = @ + 1, !.down = @ + 1]

\* The user closes the connection by its tracker.
UserCloses ==
  /\ tc.joined
  /\ tc' = [tc EXCEPT !.joined = FALSE, !.remotes[Remote].open = FALSE]

\* A side ends or fails; the deferred calls unlock the mutex and close both.
RelayEnds ==
  /\ At("relay")
  /\ tc' = [tc EXCEPT !.mutex = "free", !.pc = "done", !.joined = FALSE,
                      !.remotes[Remote].open = FALSE]

Next ==
  \/ ClientSends \/ ClientCloses \/ Refuse \/ Prepare \/ PeekEnds \/ NoProxy \/ Resolved
  \/ DialFails \/ Dial \/ LockPeek \/ WriteFails \/ WriteRejected \/ Write \/ Track \/ LockRelay
  \/ RelayUp \/ RelayDown \/ UserCloses \/ RelayEnds

-----------------------------------------------------------------------------

\* The connection that serves the client has got its bytes in order, each once
\* and without a gap, however often the handshake with them was tried.
StreamIntact ==
  \A i \in DOMAIN tc.remotes :
    LET r == tc.remotes[i] IN
    /\ r.got = [j \in 1 .. Len(r.got) |-> j]
    /\ ~r.refused /\ tc.pc \in {"track", "relay0", "relay"} => Len(r.got) = tc.taken

\* When the handler has ended, the only connections left open are the ones
\* whose handshake with payload failed.
OnlyRefusedAreLeft ==
  At("done") => \A i \in DOMAIN tc.remotes : tc.remotes[i].open => tc.remotes[i].refused

\* The peeking goroutine and the relay never read the client at the same time.
OneReader == At("relay") => tc.peek # "reading"

\* Totals: every byte that was relayed is counted once, up or down.
EveryByteCounted ==
  tc.pc \in {"relay0", "relay"} =>
    tc.up + tc.down = Len(tc.remotes[Remote].got) + tc.answered
=============================================================================
