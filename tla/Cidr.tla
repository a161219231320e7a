-------------------------------- MODULE Cidr --------------------------------
(***************************************************************************)
(* How wg-ping.go builds its address list: main walks the CIDRs, and       *)
(* getCidrIps enumerates each of them by incrementing an address in place  *)
(* for as long as the network contains it.                                 *)
(*                                                                         *)
(* An address is a sequence of Octets digits of Width bits, most           *)
(* significant first (4 octets of 8 bits in the code).                     *)
(***************************************************************************)
EXTENDS Integers, Sequences, SequencesExt

CONSTANTS
  Octets,       \* len(ip)
  Width,        \* bits of an octet
  Cidrs,        \* the CIDRs that may be listed
  MaxCidrs      \* how many of them at most

Bits == Octets * Width
Octet == 0 .. (2^Width - 1)
Address == [1..Octets -> Octet]

\* A CIDR is an address with a prefix length, or a string that does not parse.
Prefix == [ip : Address, ones : 0..Bits]
Invalid == [invalid |-> TRUE]
Parses(c) == "ip" \in DOMAIN c

\* The cap on the list, for the enumeration that never ends.
MaxIps == 2^Bits + 1

VARIABLES
  cidrs,        \* the CIDRs main has still to walk
  pc,           \* where main is: "next", "loop" or "done"
  ip,           \* the loop variable of getCidrIps
  ips,          \* the addresses of the CIDR it works on
  ipList,       \* the list main accumulates
  given         \* the CIDRs main started with

vars == <<cidrs, pc, ip, ips, ipList, given>>

-----------------------------------------------------------------------------
(* Addresses *)

\* Octet j of net.CIDRMask(ones, Bits).
MaskOctet(ones, j) ==
  LET free == j * Width - ones IN
  IF free <= 0 THEN 2^Width - 1
  ELSE IF free >= Width THEN 0
  ELSE 2^Width - 2^free

\* a & m for a mask m, whose bits are ones followed by zeros.
AndMask(a, m) == a - (a % (2^Width - m))

\* ip.Mask(mask): a copy with the host bits cleared.
Mask(a, ones) == [j \in 1..Octets |-> AndMask(a[j], MaskOctet(ones, j))]

\* ipnet.Contains(ip)
NetContains(c, a) == Mask(a, c.ones) = Mask(c.ip, c.ones)

\* Mutant: only the last octet is incremented.
IncNoCarry(a) == [a EXCEPT ![Octets] = (a[Octets] + 1) % 2^Width]

\* inc(ip): increment the last octet, and the one before it for as long as
\* the octet wrapped to 0.
inc(a) ==
  [j \in 1..Octets |->
     IF \A k \in j+1..Octets : a[k] = 2^Width - 1 THEN (a[j] + 1) % 2^Width ELSE a[j]]

-----------------------------------------------------------------------------

Init ==
  /\ given \in BoundedSeq(Cidrs, MaxCidrs)
  /\ cidrs = given
  /\ pc = "next"
  /\ ip = [j \in 1..Octets |-> 0]
  /\ ips = << >> /\ ipList = << >>

\* getCidrIps(cidr): an error gives an empty list, else the loop starts at the
\* network address.
Parse ==
  /\ pc = "next" /\ cidrs # << >>
  /\ IF Parses(Head(cidrs))
     THEN /\ ip' = Mask(Head(cidrs).ip, Head(cidrs).ones)
          /\ pc' = "loop" /\ UNCHANGED cidrs
     ELSE cidrs' = Tail(cidrs) /\ UNCHANGED <<pc, ip>>
  /\ ips' = << >>
  /\ UNCHANGED <<ipList, given>>

\* `ips = append(ips, ip.String()); inc(ip)`
AppendIp ==
  /\ pc = "loop" /\ NetContains(Head(cidrs), ip) /\ Len(ips) < MaxIps
  /\ ips' = Append(ips, ip)
  /\ ip' = inc(ip)
  /\ UNCHANGED <<cidrs, pc, ipList, given>>

\* The network does not contain ip any more: `ipList = append(ipList, ips...)`
Return ==
  /\ pc = "loop" /\ ~NetContains(Head(cidrs), ip)
  /\ ipList' = ipList \o ips
  /\ cidrs' = Tail(cidrs)
  /\ pc' = "next"
  /\ UNCHANGED <<ip, ips, given>>

Finish ==
  /\ pc = "next" /\ cidrs = << >>
  /\ pc' = "done"
  /\ UNCHANGED <<cidrs, ip, ips, ipList, given>>

Next == Parse \/ AppendIp \/ Return \/ Finish

-----------------------------------------------------------------------------

TypeOK ==
  /\ pc \in {"next", "loop", "done"}
  /\ ip \in Address
  /\ Len(ips) <= MaxIps /\ Range(ips) \subseteq Address
  /\ Range(ipList) \subseteq Address

(* The reference: addresses are numbers, and a network is an aligned interval. *)

Value(a) == FoldLeft(LAMBDA v, o : v * 2^Width + o, 0, a)
ValueToAddress(v) == [j \in 1..Octets |-> (v \div 2^(Width * (Octets - j))) % 2^Width]

\* The addresses of a CIDR in increasing order, each of them once.
Enumeration(c) ==
  IF Parses(c)
  THEN LET size == 2^(Bits - c.ones)
           first == size * (Value(c.ip) \div size)
       IN [k \in 1..size |-> ValueToAddress(first + k - 1)]
  ELSE << >>

\* The list is, CIDR after CIDR, exactly the addresses of each network in
\* increasing order: none skipped, none invented, none repeated within a
\* network, whether the network starts or ends on an octet boundary, at the
\* last address of all, or holds a single address.  Invalid CIDRs add nothing.
ListExact ==
  pc = "done" => ipList = FlattenSeq([k \in 1..Len(given) |-> Enumeration(given[k])])

\* The enumeration ends, also when incrementing the last address wraps around
\* to 0.0.0.0: every step of the loop appends an address, and the list never
\* outgrows the network; unless it is a /0, which contains the address that the
\* increment wraps to, so that its loop never ends.
EnumerationEnds ==
  pc = "loop" /\ Head(cidrs).ones > 0 => Len(ips) <= 2^(Bits - Head(cidrs).ones)
=============================================================================
