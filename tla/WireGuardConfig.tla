-------------------------- MODULE WireGuardConfig --------------------------
(***************************************************************************)
(* NewWireGuard: the configuration of an outbound is checked, and becomes  *)
(* the reserved bytes that its packets carry to each peer and the settings *)
(* of its device.  A configuration has either peers of its own or is the   *)
(* configuration of the only peer, as the one of pingWG.                   *)
(*                                                                         *)
(* Keys, addresses and allowed addresses are reduced to whether the code   *)
(* accepts them; reserved bytes are kept.                                  *)
(***************************************************************************)
EXTENDS Integers, Sequences

CONSTANTS
  Bytes,        \* reserved bytes, three of them
  Zero,         \* three zero bytes
  Empty,        \* no reserved bytes
  Wrong,        \* another number of them
  MaxPeers      \* bound on the number of peers

Reserved == Bytes \cup {Empty, Wrong}

\* What the checks look at in a peer: its keys decode, it has allowed
\* addresses, and a local address that parses.
PeerOptions == [reserved : Reserved, keys : BOOLEAN, allowed : BOOLEAN, local : BOOLEAN]

VARIABLES
  option,       \* reserved, keys and local of the option, with its private key
  peers,        \* option.Peers
  pc,
  i,            \* the peer that is next
  reserved,     \* the variable of the function, an array of three bytes
  default,      \* the reserved bytes of the bind
  endpoint,     \* the reserved bytes it has for single endpoints, in order
  outcome       \* "error" or "ok"

vars == <<option, peers, pc, i, reserved, default, endpoint, outcome>>
config == <<option, peers>>

Init ==
  /\ option \in [reserved : Reserved, private : BOOLEAN, keys : BOOLEAN, local : BOOLEAN]
  /\ \E n \in 0..MaxPeers : peers \in [1..n -> PeerOptions]
  /\ pc = "reserved" /\ i = 1
  /\ reserved = Zero /\ default = Zero /\ endpoint = << >> /\ outcome = "none"

\* No outbound is made, and what was set by then is dropped.
Fail == pc' = "done" /\ outcome' = "error" /\ UNCHANGED <<config, i, reserved, default, endpoint>>

\* copy(reserved[:], s): nothing is copied from an empty slice.
Copy(s) == IF s = Empty THEN reserved ELSE s

\* The bytes of the option, which become those of the bind, and its key.
CheckOption ==
  /\ pc = "reserved"
  /\ IF option.reserved = Wrong \/ ~option.private
     THEN Fail
     ELSE /\ reserved' = Copy(option.reserved) /\ default' = reserved'
          /\ pc' = IF peers = << >> THEN "single" ELSE "peers"
          /\ UNCHANGED <<config, i, endpoint, outcome>>

\* The checks of a peer, in the order of the code.
PeerAccepted(p) == p.keys /\ p.allowed /\ p.reserved # Wrong /\ p.local

\* Mutant: a peer without bytes gets the ones that `reserved` has.
AddPeerAlways ==
  /\ pc = "peers" /\ i <= Len(peers)
  /\ IF ~PeerAccepted(peers[i])
     THEN Fail
     ELSE /\ reserved' = Copy(option.reserved)
          /\ endpoint' = Append(endpoint, <<i, reserved'>>)
          /\ i' = i + 1
          /\ UNCHANGED <<config, pc, default, outcome>>

\* One round of the loop over the peers.  The bytes of a peer that has some are
\* taken from the option.
AddPeer ==
  /\ pc = "peers" /\ i <= Len(peers)
  /\ IF ~PeerAccepted(peers[i])
     THEN Fail
     ELSE /\ IF peers[i].reserved = Empty
             THEN UNCHANGED <<reserved, endpoint>>
             ELSE /\ reserved' = Copy(option.reserved)
                  /\ endpoint' = Append(endpoint, <<i, reserved'>>)
          /\ i' = i + 1
          /\ UNCHANGED <<config, pc, default, outcome>>

PeersDone ==
  /\ pc = "peers" /\ i > Len(peers)
  /\ pc' = "device"
  /\ UNCHANGED <<config, i, reserved, default, endpoint, outcome>>

\* The option is the only peer.
AddSingle ==
  /\ pc = "single"
  /\ IF option.keys /\ option.local
     THEN pc' = "device" /\ UNCHANGED <<config, i, reserved, default, endpoint, outcome>>
     ELSE Fail

\* The device is made and set up, which may fail, and the resolver.
MakeDevice ==
  /\ pc = "device"
  /\ \/ Fail
     \/ pc' = "done" /\ outcome' = "ok" /\ UNCHANGED <<config, i, reserved, default, endpoint>>

Next == CheckOption \/ AddPeer \/ PeersDone \/ AddSingle \/ MakeDevice

Spec == Init /\ [][Next]_vars

-----------------------------------------------------------------------------

\* The reserved bytes of a packet to peer k: those set for its endpoint last,
\* and else the ones of the bind.
PacketBytes(k) ==
  LET set == {n \in 1..Len(endpoint) : endpoint[n][1] = k}
  IN  IF set = {} THEN default ELSE endpoint[CHOOSE n \in set : \A m \in set : m <= n][2]

\* An outbound is made only of a configuration that is in order as a whole:
\* no bad key, no reserved bytes of a wrong length, no peer without allowed
\* addresses or a local one.
OnlyWellFormed ==
  outcome = "ok" =>
    /\ option.reserved # Wrong /\ option.private
    /\ IF peers = << >> THEN option.keys /\ option.local
       ELSE \A k \in 1..Len(peers) :
              peers[k].keys /\ peers[k].allowed /\ peers[k].local /\ peers[k].reserved # Wrong

\* A peer that says nothing of reserved bytes gets those of the option, and
\* keeps them whatever the peers before it said.
OptionBytesByDefault ==
  outcome = "ok" =>
    /\ default = (IF option.reserved = Empty THEN Zero ELSE option.reserved)
    /\ \A k \in 1..Len(peers) : peers[k].reserved = Empty =>
         k \notin {endpoint[n][1] : n \in 1..Len(endpoint)} /\ PacketBytes(k) = default

\* What docs/config.yaml shows: the reserved bytes given for a peer are the
\* ones that packets to it carry.
PeerBytesUsed ==
  outcome = "ok" =>
    \A k \in 1..Len(peers) : peers[k].reserved # Empty => PacketBytes(k) = peers[k].reserved
=============================================================================
