------------------------------- MODULE MCLists ------------------------------
(***************************************************************************)
(* The lists that the program works on, for model checking: the addresses  *)
(* of a scan and the proxies of a provider.  The first state chooses which *)
(* of the two a behaviour is about.                                        *)
(***************************************************************************)
EXTENDS Provider, Sequences

CONSTANTS v1, v2, a1

TwoContents == {v1, v2}
OneRequest == {a1}

VARIABLES
  active,       \* what moves
  cidrs, cidrPc, ip, ips, ipList, given

cidrVars == <<cidrs, cidrPc, ip, ips, ipList, given>>

\* Addresses of two octets of two bits: every pair of networks of them.
CI == INSTANCE Cidr WITH
  Octets <- 2, Width <- 2, Cidrs <- [ip : [1..2 -> 0..3], ones : 0..4] \cup {[invalid |-> TRUE]},
  MaxCidrs <- 2, pc <- cidrPc

RunInit ==
  /\ Init
  /\ \/ /\ active = "provider"
        /\ cidrs = << >> /\ cidrPc = "off" /\ ip = << >> /\ ips = << >> /\ ipList = << >> /\ given = << >>
     \/ active = "addresses" /\ remote = v1 /\ CI!Init

RunNext ==
  /\ UNCHANGED active
  /\ \/ active = "provider" /\ Next /\ UNCHANGED cidrVars
     \/ active = "addresses" /\ CI!Next /\ UNCHANGED vars

RunSpec ==
  /\ RunInit /\ [][RunNext]_<<active, vars, cidrVars>>
  \* The program runs, and the ticker ticks for the pull loop; the requests of
  \* the API come or do not.
  /\ WF_vars(active = "provider" /\ Starting)
  /\ WF_vars(active = "provider" /\ Updating(Initial))
  /\ WF_vars(active = "provider" /\ Updating(Pull))
  /\ \A p \in Api : WF_vars(active = "provider" /\ pc[p] # "idle" /\ Updating(p))

-----------------------------------------------------------------------------

\* The list has the addresses of each network, in order, each once, the octets
\* of an address are bytes, also where an increment carries, and the enumeration
\* of a network ends, if it is not a /0.
AddressListExact == active = "addresses" => CI!TypeOK /\ CI!ListExact /\ CI!EnumerationEnds
=============================================================================
