----------------------------- MODULE MCWireGuard -----------------------------
(***************************************************************************)
(* The WireGuard outbound and its configuration, for model checking.  The  *)
(* first state chooses which of the two a behaviour is about.              *)
(***************************************************************************)
EXTENDS WireGuard, Sequences, TLC

CONSTANTS
  d1, d2, d3, l1, l2, b1, b2,
  PeerBytes, MaxPeers,
  Zero, Empty, Wrong

ThreeDials == {d1, d2, d3}
TwoLookups == {l1, l2}
TwoBytes == {b1, b2}
Symmetry == Permutations(ThreeDials) \cup Permutations(TwoLookups)

VARIABLES
  active,       \* what moves
  option, peers, cfgPc, i, reserved, default, endpoint, outcome

cfgVars == <<option, peers, cfgPc, i, reserved, default, endpoint, outcome>>

WC == INSTANCE WireGuardConfig WITH Bytes <- PeerBytes, pc <- cfgPc

RunInit ==
  /\ Init
  /\ \/ /\ active = "outbound"
        /\ option = Empty /\ peers = << >> /\ cfgPc = "off" /\ i = 0
        /\ reserved = Empty /\ default = Empty /\ endpoint = << >> /\ outcome = "none"
     \/ active = "config" /\ WC!Init

RunNext ==
  /\ UNCHANGED active
  /\ \/ active = "outbound" /\ Next /\ UNCHANGED cfgVars
     \/ active = "config" /\ WC!Next /\ UNCHANGED vars

RunSpec == RunInit /\ [][RunNext]_<<active, vars, cfgVars>>

-----------------------------------------------------------------------------

\* Only well-formed options make an outbound, and a peer without reserved bytes
\* gets those of the option.
OptionsAreChecked == active = "config" => WC!OnlyWellFormed /\ WC!OptionBytesByDefault

\* The reserved bytes of a peer are the ones that packets to it carry.
PeerBytesUsed == active = "config" => WC!PeerBytesUsed
=============================================================================
