------------------------------ MODULE GeoRules ------------------------------
(***************************************************************************)
(* What the rules about addresses and rule lists look up, and the files it *)
(* comes from: the trie of CIDRs of a rule provider, the matcher of a      *)
(* GeoIP list, address suffixes, the reader that takes one list out of a   *)
(* data file, the parser of rule lists, and the files of geo data with     *)
(* their downloads.                                                        *)
(*                                                                         *)
(* An address is a sequence of V4Bytes or V6Bytes bytes of ByteBits bits;  *)
(* a CIDR is an address with a number of bits.                             *)
(***************************************************************************)
EXTENDS Integers, Sequences, FiniteSets, TLC

CONSTANTS
  ByteBits, V4Bytes, V6Bytes,
  Cidrs,        \* what is added to a trie or a GeoIP list
  Addresses,    \* what is looked up
  MaxCidrs,
  GeoFile,      \* a data file: a sequence of [code, data] of bytes
  Lines,        \* of a rule list: [kind, rule, newline]
  MaxLines,
  Parsers,      \* of rules that need a data file
  MaxFaults,
  Nil

VARIABLES       \* of two specifications that share nothing
  ga,           \* addresses, data files and rule lists: what has been put in
  gd            \* a file of geo data, and who reads and writes it

-----------------------------------------------------------------------------
(* Addresses as numbers *)

Value(ip) ==
  LET value[i \in 0..Len(ip)] == IF i = 0 THEN 0 ELSE value[i - 1] * 2 ^ ByteBits + ip[i]
  IN value[Len(ip)]
Width(ip) == Len(ip) * ByteBits
Normalize(ip, bits) == LET low == 2 ^ (Width(ip) - bits) IN Value(ip) - (Value(ip) % low)
Covers(c, ip) == Len(ip) = Len(c.ip) /\ Normalize(ip, c.bits) = Normalize(c.ip, c.bits)

-----------------------------------------------------------------------------
(* The trie: one level for each group, which is a byte of an IPv4 address   *)
(* and two of an IPv6 one.  A node is the path to it and is marked or not.  *)

GroupBytes(ip) == IF Len(ip) = V4Bytes THEN 1 ELSE 2
GroupValues(ip) ==
  LET g == GroupBytes(ip) IN [i \in 1..(Len(ip) \div g) |-> Value(SubSeq(ip, g * (i - 1) + 1, g * i))]
Node(ip, depth) == <<Len(ip)>> \o SubSeq(GroupValues(ip), 1, depth)

\* A mask that ends within a group becomes masks at its end: one for each value
\* of the rest of the byte, but not for those of a byte behind it.
SubIpCidr(c) ==
  LET group == GroupBytes(c.ip) * ByteBits
      at == c.bits \div ByteBits
      rest == 2 ^ (ByteBits - (c.bits % ByteBits)) - 1
  IN IF c.bits % group = 0 THEN {c}
     ELSE {[ip |-> [c.ip EXCEPT ![at + 1] = @ + i], bits |-> (at \div GroupBytes(c.ip) + 1) * group] : i \in 0..rest}

\* The keys are counted up while the map shrinks.
RECURSIVE CleanChild(_, _)
CleanChild(keys, i) == IF i < Cardinality(keys) THEN CleanChild(keys \ {i}, i + 1) ELSE keys

AddGroups(trie, c) ==
  LET size == c.bits \div (ByteBits * GroupBytes(c.ip))
      depth == IF size = 0 THEN 1 ELSE size
      node == Node(c.ip, depth)
      way == {Node(c.ip, d) : d \in 1..depth}
      keys == {g \in 0..(2 ^ (ByteBits * GroupBytes(c.ip)) - 1) : Append(node, g) \in DOMAIN trie}
      left == CleanChild(keys, 0)
      gone == {n \in DOMAIN trie : Len(n) > Len(node) /\ SubSeq(n, 1, Len(node)) = node /\ n[Len(node) + 1] \notin left}
  IN IF \E n \in way \ {node} : n \in DOMAIN trie /\ trie[n] THEN trie
     ELSE [n \in (DOMAIN trie \ gone) \cup way |-> IF n = node THEN TRUE ELSE n \in DOMAIN trie /\ trie[n]]

\* In any order: each reaches nodes of its own.
RECURSIVE AddAll(_, _)
AddAll(trie, cs) == IF cs = {} THEN trie ELSE LET c == CHOOSE x \in cs : TRUE IN AddAll(AddGroups(trie, c), cs \ {c})
\* ParseCIDR has cleared the bits behind the mask.
Masked(c) ==
  LET v == Normalize(c.ip, c.bits)
  IN [c EXCEPT !.ip = [i \in DOMAIN c.ip |-> (v \div 2 ^ (ByteBits * (Len(c.ip) - i))) % 2 ^ ByteBits]]
AddIpCidr(trie, c) == AddAll(trie, SubIpCidr(Masked(c)))

IsContainAtEnd(trie, ip) == LET n == Node(ip, Len(GroupValues(ip))) IN n \in DOMAIN trie /\ trie[n]
IsContain(trie, ip) ==
  \E d \in 1..Len(GroupValues(ip)) : Node(ip, d) \in DOMAIN trie /\ trie[Node(ip, d)]

-----------------------------------------------------------------------------
(* A GeoIP list: sorted by the addresses as they are written, then cut to   *)
(* the masks, and searched by halves.                                       *)

Less(c, o) == Value(c.ip) < Value(o.ip) \/ (Value(c.ip) = Value(o.ip) /\ c.bits < o.bits)
Sorted(cs) == [i \in 1..Cardinality(cs) |-> CHOOSE c \in cs : Cardinality({o \in cs : Less(o, c)}) = i - 1]
\* First of a list of one length
From(c) == Normalize(c.ip, c.bits)

RECURSIVE Halves(_, _, _, _)
Halves(list, ip, l, r) ==
  LET x == (l + r) \div 2 IN
  IF l >= r THEN l > 0 /\ Covers(list[l], ip)
  ELSE IF Value(ip) < From(list[x + 1]) THEN Halves(list, ip, l, x)
  ELSE Covers(list[x + 1], ip) \/ Halves(list, ip, x + 1, r)
GeoIPMatch(cs, ip) ==
  LET list == Sorted({c \in cs : Len(c.ip) = Len(ip)})
  IN list # <<>> /\ Value(ip) >= From(list[1]) /\ Halves(list, ip, 0, Len(list))

\* The last bits of an address: whole bytes from the end, and the rest of one
\* that lies before them, also if there is none.
SuffixMatch(c, ip) ==
  LET size == Len(ip)
      whole == c.bits \div ByteBits
      shift == 2 ^ (ByteBits - (c.bits % ByteBits))
      Shifted(b) == (b * shift) % 2 ^ ByteBits
  IN IF Len(c.ip) # size \/ \E i \in 1..whole : c.ip[size - i + 1] # ip[size - i + 1] THEN "no"
     ELSE IF whole = size THEN "panic"
     ELSE IF Shifted(c.ip[size - whole]) = Shifted(ip[size - whole]) THEN "yes" ELSE "no"

-----------------------------------------------------------------------------
(* One list of a data file.  An entry is a tag, its length, and, first of   *)
(* what it holds, a tag, the length of its code and the code.               *)

Tag == 10
Varint(n) == IF n < 4 THEN <<n>> ELSE <<128 + (n % 4), n \div 4>>
Content(e) == <<Tag>> \o Varint(Len(e.code)) \o e.code \o e.data
Encoded(file) ==
  LET bytes[i \in 0..Len(file)] ==
        IF i = 0 THEN <<>> ELSE bytes[i - 1] \o <<Tag>> \o Varint(Len(Content(file[i]))) \o Content(file[i])
  IN bytes[Len(file)]

\* A varint at a place: its value and length; Nil if the file ends before.
ReadVarint(f, at) ==
  IF at > Len(f) THEN Nil
  ELSE IF f[at] < 128 THEN [n |-> f[at], len |-> 1]
  ELSE IF at = Len(f) THEN Nil ELSE [n |-> f[at + 1] * 4 + f[at] - 128, len |-> 2]

\* A read of nothing at the end of the file finds the end; one of less than was
\* asked fails, and the whole file is read instead, which fails if it is cut.
NotFound == <<-1>>
Failed == <<-2>>
Read(f, at, n) == IF at > Len(f) THEN NotFound ELSE IF at + n - 1 > Len(f) THEN Failed ELSE <<>>
RECURSIVE EmitBytes(_, _, _)
EmitBytes(f, at, code) ==
  LET data == ReadVarint(f, at + 1)
      start == at + 1 + data.len
      name == ReadVarint(f, start + 1)
      first == start + 1 + name.len
      got == Read(f, first, name.n)
  IN IF at > Len(f) \/ data = Nil THEN NotFound
     ELSE IF f[at] # Tag THEN Failed
     ELSE IF start > Len(f) \/ name = Nil THEN NotFound
     ELSE IF f[start] # Tag THEN Failed
     ELSE IF got # <<>> THEN got
     ELSE IF SubSeq(f, first, first + name.n - 1) # code THEN EmitBytes(f, start + data.n, code)
     ELSE IF Read(f, start, data.n) = <<>> THEN SubSeq(f, start, start + data.n - 1) ELSE Read(f, start, data.n)

-----------------------------------------------------------------------------
(* A rule list, line by line.  In YAML a line counts if it is an item under *)
(* the first line that can be a head; a line that is not read with the head *)
(* is passed over.                                                          *)

ErrNoPayload == {Nil}
RulesParse(format, lines) ==
  LET Count(l) == IF format = "text" THEN l.kind \notin {"blank", "comment"} ELSE l.kind = "item"
      heads == {i \in DOMAIN lines : lines[i].kind = "head"}
      head == CHOOSE i \in heads : \A j \in heads : i <= j
      from == IF format = "text" THEN 1 ELSE IF heads = {} THEN Len(lines) + 1 ELSE head + 1
      \* when the last line has no newline, and nothing stands before it
      NoHead == IF format = "text" THEN Len(lines) = 1 ELSE heads \cap 1..(Len(lines) - 1) = {}
  IN IF lines # <<>> /\ ~lines[Len(lines)].newline /\ NoHead THEN ErrNoPayload
     ELSE {lines[i].rule : i \in {j \in from..Len(lines) : Count(lines[j])}}

-----------------------------------------------------------------------------

Init ==
  \/ ga = [kind |-> "cidrs", cidrs |-> {}, trie |-> <<>>]
  \/ ga = [kind |-> "file", cut |-> Len(Encoded(GeoFile))]
  \/ ga \in {[kind |-> "rules", format |-> f, lines |-> <<>>] : f \in {"yaml", "text"}}

Insert ==
  /\ ga.kind = "cidrs" /\ Cardinality(ga.cidrs) < MaxCidrs
  /\ \E c \in Cidrs \ ga.cidrs : ga' = [ga EXCEPT !.cidrs = @ \cup {c}, !.trie = AddIpCidr(@, c)]
CutFile ==
  /\ ga.kind = "file" /\ ga.cut > 0
  /\ ga' = [ga EXCEPT !.cut = @ - 1]
\* Only the last line of a file may have no newline.
AddLine ==
  /\ ga.kind = "rules" /\ Len(ga.lines) < MaxLines
  /\ ga.lines # <<>> => ga.lines[Len(ga.lines)].newline
  /\ \E l \in Lines : ga' = [ga EXCEPT !.lines = Append(@, l)]
Next == Insert \/ CutFile \/ AddLine

-----------------------------------------------------------------------------
(* A file of geo data: whole, cut behind the list cn, which is the one that *)
(* is verified, or broken.  It knows who writes it, on which occasions it   *)
(* has been written (by), and whether the program took its file for         *)
(* verified when a writer opened it (over).                                 *)

Codes == {"cn", "us"}
Holds(file, code) == file # Nil /\ (file.state = "whole" \/ (file.state = "cut" /\ code = "cn"))
NoParse == [pc |-> "idle", code |-> Nil, alone |-> FALSE]

DataInit ==
  gd = [file |-> Nil, inited |-> "no", parse |-> [p \in Parsers |-> NoParse],
        update |-> "idle", version |-> 1, faults |-> 0]

\* A step of p, and of everybody else a disturbance.
Others(parse, p) == [q \in Parsers |-> IF q = p THEN parse[q] ELSE [parse[q] EXCEPT !.alone = FALSE]]
Step(p, pc, d) == gd' = [d EXCEPT !.parse = Others([@ EXCEPT ![p].pc = pc], p)]
Fault(d) == [d EXCEPT !.faults = @ + 1, !.parse = Others(@, Nil)]
Faulty == gd.faults < MaxFaults
At(p, pc) == gd.parse[p].pc = pc

\* A rule is parsed: InitGeoIP or InitGeoSite, and then the list is loaded.
Begin(p, code) ==
  /\ gd.parse[p].pc \in {"idle", "failed"}
  /\ gd' = [gd EXCEPT !.parse = Others([@ EXCEPT ![p] =
              [pc |-> "stat", code |-> code, alone |-> gd.inited = "no" /\ gd.update = "idle"
                              /\ \A q \in Parsers \ {p} : gd.parse[q].pc \in {"idle", "failed"}]], p)]
Stat(p) == At(p, "stat") /\ Step(p, IF gd.file = Nil THEN "fetch" ELSE IF gd.inited # "no" THEN "load" ELSE "verify", gd)
\* The file is made when the answer begins, and filled in place; a file that is
\* there is written over, which changes nothing if it is the same.
Same(file) == file # Nil /\ file.state = "whole" /\ file.ver = gd.version
Opened(w) ==
  IF gd.file = Nil THEN [ver |-> gd.version, state |-> "broken", writers |-> {w}, by |-> {}, over |-> gd.inited # "no"]
  ELSE [ver |-> gd.version, state |-> IF Same(gd.file) THEN "whole" ELSE "broken", writers |-> gd.file.writers \cup {w},
        by |-> gd.file.by, over |-> gd.file.over \/ gd.inited # "no"]
Open(p) ==
  /\ gd.parse[p].pc \in {"fetch", "again"}
  /\ Step(p, IF At(p, "fetch") THEN "copy" ELSE "copy again", [gd EXCEPT !.file = Opened(p)])
\* Nothing changes if the file has been taken away meanwhile.
Copied(w, state, by) ==
  IF gd.file = Nil \/ w \notin gd.file.writers THEN gd.file
  ELSE [gd.file EXCEPT !.writers = @ \ {w}, !.by = @ \cup {by}, !.state = IF @ = "broken" \/ state = "whole" THEN state ELSE @]
Copy(p) ==
  \/ At(p, "copy") /\ Step(p, "verify", [gd EXCEPT !.file = Copied(p, "whole", "first"), !.inited = "no"])
  \/ At(p, "copy again") /\ Step(p, "load", [gd EXCEPT !.file = Copied(p, "whole", "again"), !.inited = "unverified"])
DownloadFails(p) ==
  /\ Faulty
  /\ \/ gd.parse[p].pc \in {"fetch", "again"} /\ Step(p, "failed", Fault(gd))
     \/ /\ gd.parse[p].pc \in {"copy", "copy again"}
        /\ \E state \in {"broken", "cut"} : Step(p, "failed", [Fault(gd) EXCEPT !.file = Copied(p, state, IF At(p, "copy") THEN "first" ELSE "again")])
\* What replaces an invalid file is not verified again.
Verify(p) ==
  /\ At(p, "verify")
  /\ IF Holds(gd.file, "cn") THEN Step(p, "load", [gd EXCEPT !.inited = "verified"])
     ELSE IF gd.file = Nil THEN Step(p, "failed", gd)
     ELSE Step(p, "again", [gd EXCEPT !.file = Nil])
Load(p) == At(p, "load") /\ Step(p, IF Holds(gd.file, gd.parse[p].code) THEN "idle" ELSE "failed", gd)

\* UpdateGeoDatabases: what was downloaded and is sound is written in place.
UpdateBegins == gd.update = "idle" /\ gd.version < 2 /\ gd' = [gd EXCEPT !.update = "write", !.version = @ + 1, !.parse = Others(@, Nil)]
UpdateOpens ==
  /\ gd.update = "write" /\ gd' = [gd EXCEPT !.update = "copy", !.file = [Opened("update") EXCEPT !.state = "broken"], !.parse = Others(@, Nil)]
UpdateEnds ==
  /\ gd.update = "copy"
  /\ \E state \in {"whole", "broken", "cut"} :
       /\ state # "whole" => Faulty
       /\ gd' = [gd EXCEPT !.update = "idle", !.parse = Others(@, Nil), !.faults = @ + (IF state = "whole" THEN 0 ELSE 1),
                           !.file = Copied("update", state, "update")]

Vanish == Faulty /\ gd.file # Nil /\ gd' = Fault([gd EXCEPT !.file = Nil])
Crash ==
  /\ Faulty
  /\ gd' = [gd EXCEPT !.inited = "no", !.faults = @ + 1, !.update = "idle", !.parse = [p \in Parsers |-> NoParse],
                      !.file = IF @ = Nil THEN Nil ELSE [@ EXCEPT !.writers = {}]]

DataNext ==
  \/ \E p \in Parsers :
       \/ \E code \in Codes : Begin(p, code)
       \/ Stat(p) \/ Open(p) \/ Copy(p) \/ DownloadFails(p) \/ Verify(p) \/ Load(p)
  \/ UpdateBegins \/ UpdateOpens \/ UpdateEnds \/ Vanish \/ Crash

-----------------------------------------------------------------------------
(* Properties *)

\* An address is found only if a CIDR covers it; and it is found, unless the
\* mask ends in the first byte of a group of two, or before the first group.
Splits(c) == Len(c.ip) = V6Bytes /\ (c.bits % (2 * ByteBits)) \in 1..(ByteBits - 1)
TrieIsExact ==
  ga.kind = "cidrs" =>
    \A ip \in Addresses :
      /\ IsContain(ga.trie, ip) => \E c \in ga.cidrs : Covers(c, ip)
      /\ (\E c \in ga.cidrs : Covers(c, ip) /\ ~Splits(c) /\ c.bits > 0) => IsContain(ga.trie, ip)

\* A GeoIP list finds only what one of its CIDRs covers; and all of it, if they
\* do not overlap.
Disjoint(cs) == \A c, o \in cs : c # o => ~Covers(c, o.ip) /\ ~Covers(o, c.ip)
GeoIPIsExact ==
  ga.kind = "cidrs" =>
    \A ip \in Addresses :
      /\ GeoIPMatch(ga.cidrs, ip) => \E c \in ga.cidrs : Covers(c, ip)
      /\ Disjoint(ga.cidrs) /\ (\E c \in ga.cidrs : Covers(c, ip)) => GeoIPMatch(ga.cidrs, ip)

\* A suffix decides by the last bits, and panics only for one of all the bits.
SuffixIsExact ==
  ga.kind = "cidrs" =>
    \A c \in ga.cidrs, ip \in Addresses :
      LET low == 2 ^ c.bits IN
      IF SuffixMatch(c, ip) = "panic" THEN c.bits = Width(ip)
      ELSE SuffixMatch(c, ip) = "yes" <=> Len(ip) = Len(c.ip) /\ Value(ip) % low = Value(c.ip) % low

\* Wherever a file is cut, a list is read whole or not at all.
ListsAreWhole ==
  ga.kind = "file" =>
    \A i \in DOMAIN GeoFile :
      LET got == EmitBytes(SubSeq(Encoded(GeoFile), 1, ga.cut), 1, GeoFile[i].code)
          whole == Len(Encoded(SubSeq(GeoFile, 1, i))) <= ga.cut
      IN IF whole THEN got = Content(GeoFile[i]) ELSE got \in {Failed, NotFound}

\* A list in which every line is right is read to the end, and in its whole, if
\* more than one line stands in it.
RulesAreRead ==
  ga.kind = "rules" =>
    LET lines == ga.lines
        items(k) == {lines[i].rule : i \in {j \in k..Len(lines) : lines[j].kind = "item"}}
    IN /\ ga.format = "text" /\ Len(lines) > 1 /\ (\A i \in DOMAIN lines : lines[i].kind # "head") => RulesParse("text", lines) = items(1)
       /\ ga.format = "yaml" /\ Len(lines) > 1 /\ lines[1].kind = "head" => RulesParse("yaml", lines) = items(2)
       /\ RulesParse(ga.format, lines) = ErrNoPayload => items(1) = {} \/ Len(lines) = 1 \/ (\A i \in DOMAIN lines : lines[i].newline = (i < Len(lines)))

\* A broken file stands where one was verified only while it is written, after an
\* update failed, or if the verified one was lost or written over.
BrokenIsNotTaken ==
  gd.inited = "verified" /\ gd.file # Nil /\ gd.file.state = "broken" =>
    "update" \in gd.file.by \/ gd.file.over \/ gd.file.writers # {}

\* Whatever a crash left, a start that is not disturbed repairs it, unless the
\* file was cut behind the list that is verified.
StartRepairs ==
  \A p \in Parsers : At(p, "failed") /\ gd.parse[p].alone => gd.file # Nil /\ gd.file.state = "cut" /\ gd.parse[p].code # "cn"
=============================================================================
