--------------------------- MODULE DomainMatchers ---------------------------
(***************************************************************************)
(* The two ways in which the rules look a domain up: the trie of labels,   *)
(* with the succinct set that rule providers make of it, and the matchers  *)
(* of a geosite list, a perfect hash table and an automaton of keywords.   *)
(* Rules are inserted one by one; the structure is finished and then only  *)
(* read.                                                                   *)
(*                                                                         *)
(* A label is a sequence of characters, a domain one of labels; letters    *)
(* are numbers, like the three characters that mean something.             *)
(***************************************************************************)
EXTENDS Integers, Sequences, FiniteSets, TLC
LOCAL INSTANCE SequencesExt
LOCAL INSTANCE Functions

CONSTANTS
  Domains,      \* what is inserted into the trie
  Patterns,     \* what is added to a geosite list: [type, s]
  Queries,      \* domains that are looked up
  Chars,        \* of all these
  MaxRules,
  Nil

VARIABLE dm

Star == 42  Plus == 43  Dot == 46      \* in the order of their bytes, before letters
StarLabel == <<Star>>
PlusLabel == <<Plus>>
DotLabel == <<>>                       \* in front of a domain: any number of labels

\* The text of a domain.
Text(parts) ==
  LET text[i \in DOMAIN parts] == IF i = 1 THEN parts[1] ELSE text[i - 1] \o <<Dot>> \o parts[i]
  IN text[Len(parts)]
Less(s, t) ==
  \/ IsStrictPrefix(s, t)
  \/ \E i \in DOMAIN s \cap DOMAIN t :
       s[i] < t[i] /\ SubSeq(s, 1, i - 1) = SubSeq(t, 1, i - 1)
Least(S) == CHOOSE x \in S : \A y \in S : x <= y

-----------------------------------------------------------------------------
(* The trie.  A node is the path that leads to it, from the top-level label *)
(* down; the node of what was inserted holds its data.                      *)

ValidAndSplitDomain(parts) ==
  /\ \A i \in 2..Len(parts) : parts[i] # <<>>
  /\ Len(parts) = 1 => parts[1] # <<>>

Put(trie, parts, data) ==
  LET path == Reverse(parts)
      new == {SubSeq(path, 1, i) : i \in 0..Len(path)}
  IN [p \in DOMAIN trie \cup new |-> IF p = path THEN data ELSE IF p \in DOMAIN trie THEN trie[p] ELSE Nil]

Inserted(trie, parts) ==
  IF parts[1] = PlusLabel
  THEN Put(Put(trie, Tail(parts), parts), <<DotLabel>> \o Tail(parts), parts)
  ELSE Put(trie, parts, parts)

\* A node with data is worth returning; what has no rule of its own gives way
\* to a wildcard.
RECURSIVE Below(_, _, _)
Below(trie, node, parts) ==
  LET Child(l) == Append(node, l)
      Found(l) == IF Child(l) \in DOMAIN trie THEN Below(trie, Child(l), Front(parts)) ELSE Nil
      full == {n \in {Found(Last(parts)), Found(StarLabel)} \ {Nil} : trie[n] # Nil}
      dot == Child(DotLabel)
  IN
  IF parts = <<>> THEN node
  ELSE IF full # {} THEN (IF Found(Last(parts)) \in full THEN Found(Last(parts)) ELSE Found(StarLabel))
  ELSE IF dot \in DOMAIN trie THEN dot ELSE Nil

Search(trie, parts) ==
  LET n == Below(trie, <<>>, parts) IN
  IF ~ValidAndSplitDomain(parts) \/ parts[1] = <<>> \/ n = Nil THEN Nil ELSE trie[n]

\* What was inserted, as it is written; the root has no name.
Foreach(trie) ==
  {LET d == Text(Reverse(p)) IN IF Len(p) > 1 /\ d[1] = Dot THEN <<Plus>> \o d ELSE d :
     p \in {q \in DOMAIN trie : q # <<>> /\ trie[q] # Nil}}

-----------------------------------------------------------------------------
(* The set: a trie of characters of the reversed domains, whose nodes are   *)
(* numbered by levels.  Each node has a 0 in the bitmap for every label     *)
(* that leaves it, and a 1.                                                 *)

\* The stretches of keys s..e that have one character in this column.
RECURSIVE Stretches(_, _, _, _)
Stretches(keys, s, e, col) ==
  IF s > e THEN <<>>
  ELSE LET to == CHOOSE j \in s..e :
                   /\ \A k \in s..j : keys[k][col] = keys[s][col]
                   /\ j < e => keys[j + 1][col] # keys[s][col]
       IN <<[s |-> s, e |-> to, col |-> col + 1]>> \o Stretches(keys, to + 1, e, col)

RECURSIVE Levels(_, _, _, _)
Levels(keys, queue, i, set) ==
  IF i > Len(queue) THEN set
  ELSE LET elt == queue[i]
           leaf == elt.col > Len(keys[elt.s])
           next == Stretches(keys, IF leaf THEN elt.s + 1 ELSE elt.s, elt.e, elt.col)
       IN Levels(keys, queue \o next, i + 1,
            [leaves |-> IF leaf THEN set.leaves \cup {i - 1} ELSE set.leaves,
             labels |-> set.labels \o [k \in DOMAIN next |-> keys[next[k].s][elt.col]],
             bitmap |-> set.bitmap \o [k \in DOMAIN next |-> 0] \o <<1>>])

NewDomainSet(trie) ==
  LET names == {Reverse(d) : d \in Foreach(trie)}
      keys == [i \in 1..Cardinality(names) |-> CHOOSE n \in names : Cardinality({o \in names : Less(o, n)}) = i - 1]
  IN
  IF keys = <<>> THEN Nil
  ELSE Levels(keys, <<[s |-> 1, e |-> Len(keys), col |-> 1]>>, 1, [leaves |-> {}, labels |-> <<>>, bitmap |-> <<>>])

CountZeros(set, i) == Cardinality({k \in 1..i : set.bitmap[k] = 0})
SelectIthOne(set, i) ==
  CHOOSE k \in 0..(Len(set.bitmap) - 1) :
    set.bitmap[k + 1] = 1 /\ Cardinality({j \in 1..k : set.bitmap[j] = 1}) = i

\* From here on as the code: at character i of the key, at a position of the
\* bitmap among the labels of a node, with the wildcards that were passed.  When
\* the labels of the node are used up the last wildcard swallows a label; the
\* dot behind it is looked for from its node on, not only in it.
RECURSIVE Walk(_, _, _, _, _, _)
Walk(set, key, i, node, at, stack) ==
  IF i > Len(key) THEN node \in set.leaves
  ELSE IF set.bitmap[at + 1] = 1 THEN
    IF stack = <<>> THEN FALSE
    ELSE LET cursor == Last(stack)
             next == CountZeros(set, cursor.at + 1)
             from == SelectIthOne(set, next - 1) + 1
             ends == {j \in cursor.i..Len(key) : key[j] = Dot}
             dots == {b \in from..(Len(set.labels) + next - 1) : set.labels[b - next + 1] = Dot}
         IN IF ends = {} THEN next \in set.leaves \/ Walk(set, key, i, node, at, Front(stack))
            ELSE dots # {} /\ Walk(set, key, Least(ends), next, Least(dots), Front(stack))
  ELSE LET label == set.labels[at - node + 1] IN
    IF label = Plus THEN TRUE
    ELSE IF label = Star THEN Walk(set, key, i, node, at + 1, Append(stack, [at |-> at, i |-> i]))
    ELSE IF label # key[i] THEN Walk(set, key, i, node, at + 1, stack)
    ELSE LET next == CountZeros(set, at + 1)
         IN Walk(set, key, i + 1, next, SelectIthOne(set, next - 1) + 1, stack)

Has(set, parts) == set # Nil /\ Walk(set, Reverse(Text(parts)), 1, 0, 0, <<>>)

-----------------------------------------------------------------------------
(* The automaton of keywords, which reads from the end *)

NoEdges == [c \in Chars |-> [trie |-> FALSE, next |-> 0]]
NewACAutomaton == [trie |-> <<NoEdges>>, fail |-> <<0>>, exists |-> {}, queue |-> <<>>]     \* node n stands at n + 1

Add(ac, s) ==
  LET Step(r, c) ==
        LET edge == r.ac.trie[r.node + 1][c]
            new == Len(r.ac.trie)
        IN IF edge.next # 0 THEN [r EXCEPT !.node = edge.next]
           ELSE [node |-> new,
                 ac |-> [r.ac EXCEPT !.trie = Append([@ EXCEPT ![r.node + 1][c] = [trie |-> TRUE, next |-> new]], NoEdges),
                                     !.fail = Append(@, 0)]]
      end == FoldLeft(Step, [ac |-> ac, node |-> 0], Reverse(s))
  IN [end.ac EXCEPT !.exists = @ \cup {end.node}]

\* Build goes through the nodes by levels: the children of a node fall back
\* on where its own fallback leads, and so do the edges that it lacks.
Roots(ac) == SetToSeq({ac.trie[1][c].next : c \in Chars} \ {0})
BuildNode(ac, n) ==
  LET row == ac.trie[n + 1]
      back(c) == ac.trie[ac.fail[n + 1] + 1][c].next
      down == {c \in Chars : row[c].next # 0}
  IN [ac EXCEPT !.fail = [m \in DOMAIN @ |-> IF \E c \in down : row[c].next = m - 1
                                              THEN back(CHOOSE c \in down : row[c].next = m - 1) ELSE @[m]],
                !.trie[n + 1] = [c \in Chars |-> IF c \in down THEN row[c] ELSE [trie |-> FALSE, next |-> back(c)]],
                !.queue = Tail(@) \o SetToSeq({row[c].next : c \in down})]

\* Every node that is reached is asked, but not those that it falls back on.
RECURSIVE Reaches(_, _, _)
Reaches(ac, s, node) ==
  s # <<>> /\ LET n == ac.trie[node + 1][Last(s)].next IN n \in ac.exists \/ Reaches(ac, Front(s), n)
KeywordFound(ac, s) == ac # Nil /\ Reaches(ac, s, 0)

-----------------------------------------------------------------------------
(* The table of full names and domains: a rule lies in a bucket by its      *)
(* rolling hash, and every bucket has a seed that keeps its rules apart     *)
(* from all that are placed.                                                *)

PrimeRK == 37
RollingHash(s) ==              \* of 32 bits in the code
  LET hash[i \in 1..(Len(s) + 1)] == IF i > Len(s) THEN 0 ELSE (hash[i + 1] * PrimeRK + s[i]) % 65536
  IN hash[1]
\* The hash of the runtime; it need not know more than the other one, as long
\* as that tells the rules apart.
StrHash(h, seed) == ((h + 1) * (2 * seed + 1)) % 4093

NextPow2(v) == IF v <= 1 THEN 1 ELSE CHOOSE n \in {2 ^ k : k \in 1..10} : v < n /\ n <= 2 * v
Level0 == NextPow2(Cardinality(DOMAIN dm.rules) \div 4)
Level1 == NextPow2(Cardinality(DOMAIN dm.rules))

AddFullOrDomainPattern(rules, p) ==
  LET h == RollingHash(p.s) IN
  (p.s :> h) @@ rules @@ (IF p.type = "domain" THEN <<Dot>> \o p.s :> (h * PrimeRK + Dot) % 65536 ELSE <<>>)

\* With the hash of a rule goes its place under a seed.
Bucket(n) == {r \in DOMAIN dm.rules : dm.rules[r] % Level0 = n}
Unplaced == {n \in 0..(Level0 - 1) : n \notin DOMAIN dm.seed /\ Bucket(n) # {}}
Places(n, seed) == [r \in Bucket(n) |-> StrHash(dm.rules[r], seed) % Level1]
ApartInBucket(places) == Cardinality({places[r] : r \in DOMAIN places}) = Cardinality(DOMAIN places)
Apart(places) ==
  LET at == {places[r] : r \in DOMAIN places} IN
  Cardinality(at) = Cardinality(DOMAIN places) /\ at \cap DOMAIN dm.level1 = {}
RECURSIVE FirstSeed(_, _)
FirstSeed(n, seed) == IF Apart(Places(n, seed)) THEN seed ELSE FirstSeed(n, seed + 1)

Lookup(h, s) ==
  LET n == h % Level0
      at == StrHash(h, IF n \in DOMAIN dm.seed THEN dm.seed[n] ELSE 0) % Level1
  IN at \in DOMAIN dm.level1 /\ dm.level1[at] = s

\* Every suffix that begins with a dot, the whole, the keywords, and the rest
\* one after the other.
MphMatch(s) ==
  \/ \E i \in DOMAIN s : s[i] = Dot /\ Lookup(RollingHash(SubSeq(s, i, Len(s))), SubSeq(s, i, Len(s)))
  \/ Lookup(RollingHash(s), s)
  \/ KeywordFound(dm.ac, s)
  \/ \E p \in dm.added : p.type = "regex" /\ s \in p.fits

-----------------------------------------------------------------------------
(* The same without a table: matchers that are asked one after the other,   *)
(* and groups by labels.                                                    *)

Holds(s, t) == \E i \in 0..(Len(s) - Len(t)) : SubSeq(s, i + 1, i + Len(t)) = t
Fits(p, s) ==
  CASE p.type = "full" -> s = p.s
    [] p.type = "domain" -> IsSuffix(p.s, s) /\ (Len(s) = Len(p.s) \/ s[Len(s) - Len(p.s)] = Dot)
    [] p.type = "keyword" -> Holds(s, p.s)
    [] OTHER -> s \in p.fits
\* The domains that hold a name: from the top-level label on, as long as there
\* are nodes; the most special comes first.
DomainGroup(s) ==
  LET held == {p \in dm.added : p.type = "domain"}
      step == {i \in 1..(Len(s) + 1) : i = 1 \/ s[i - 1] = Dot}
  IN {p \in held : \E i \in step : SubSeq(s, i, Len(s)) = p.s}
LinearMatch(s) ==
  DomainGroup(s) # {} \/ \E p \in dm.added : p.type # "domain" /\ Fits(p, s)

-----------------------------------------------------------------------------

Init ==
  \E kind \in {"trie", "geosite"} :
  dm = [kind |-> kind, added |-> {}, done |-> FALSE,
        trie |-> (<<>> :> Nil), set |-> Nil,
        rules |-> <<>>, ac |-> Nil, seed |-> <<>>, level1 |-> <<>>]

Adding(kind) == dm.kind = kind /\ ~dm.done /\ Cardinality(dm.added) < MaxRules

Insert ==
  /\ Adding("trie")
  /\ \E d \in Domains \ dm.added :
       /\ ValidAndSplitDomain(d)
       /\ dm' = [dm EXCEPT !.added = @ \cup {d}, !.trie = Inserted(@, d)]
FinishInsert ==
  /\ dm.kind = "trie" /\ ~dm.done /\ dm.added # {}
  /\ dm' = [dm EXCEPT !.done = TRUE, !.set = NewDomainSet(dm.trie)]

AddPattern ==
  /\ Adding("geosite")
  /\ \E p \in Patterns \ dm.added :
       dm' = [dm EXCEPT !.added = @ \cup {p},
                        !.rules = IF p.type \in {"full", "domain"} THEN AddFullOrDomainPattern(@, p) ELSE @,
                        !.ac = IF p.type = "keyword" THEN Add(IF @ = Nil THEN NewACAutomaton ELSE @, p.s) ELSE @]
\* An empty table holds one rule that nothing is called.
BuildGroup ==
  /\ dm.kind = "geosite" /\ ~dm.done /\ dm.added # {}
  /\ dm' = [dm EXCEPT !.done = TRUE, !.rules = IF @ = <<>> THEN (<<0>> :> 0) ELSE @,
                      !.ac = IF @ = Nil THEN Nil ELSE [@ EXCEPT !.queue = Roots(dm.ac)]]
Building == dm.ac # Nil /\ dm.ac.queue # <<>>
Build == dm.kind = "geosite" /\ Building /\ dm' = [dm EXCEPT !.ac = BuildNode(@, Head(@.queue))]
\* The largest buckets come first, in any order among those of one size.
PlaceBucket ==
  /\ dm.kind = "geosite" /\ dm.done /\ ~Building
  /\ \E n \in Unplaced :
       LET seed == FirstSeed(n, 0)
           places == Places(n, seed)
       IN
       /\ \A m \in Unplaced : Cardinality(Bucket(m)) <= Cardinality(Bucket(n))
       /\ dm' = [dm EXCEPT !.seed = @ @@ (n :> seed), !.level1 = @ @@ AntiFunction(places)]

Next == Insert \/ FinishInsert \/ AddPattern \/ BuildGroup \/ Build \/ PlaceBucket

-----------------------------------------------------------------------------
(* Properties *)

\* What it means that a domain falls under a rule, and which rule is the closer:
\* the one that names the label, then the one that has a star for it.
Under(path, parts) ==
  LET r == Reverse(parts)
      Same(i) == path[i] \in {r[i], StarLabel}
  IN IF path # <<>> /\ Last(path) = DotLabel
     THEN Len(r) >= Len(path) /\ \A i \in 1..(Len(path) - 1) : Same(i)
     ELSE Len(r) = Len(path) /\ \A i \in DOMAIN path : Same(i)
Closer(p, q) ==
  \E i \in DOMAIN p \cap DOMAIN q :
    /\ SubSeq(p, 1, i - 1) = SubSeq(q, 1, i - 1) /\ p[i] # q[i]
    /\ p[i] = DotLabel => FALSE
    /\ p[i] = StarLabel => q[i] = DotLabel

\* A search finds the closest rule that the domain falls under, and nothing if
\* it falls under none.
TrieFindsClosest ==
  dm.kind = "trie" =>
    \A q \in Queries :
      LET holds == {p \in DOMAIN dm.trie : dm.trie[p] # Nil /\ Under(p, q)}
          found == Search(dm.trie, q)
      IN IF holds = {} THEN found = Nil
         ELSE \E p \in holds : found = dm.trie[p] /\ \A o \in holds \ {p} : Closer(p, o)

\* The set has what the trie finds, if no rule has a star and none stands for
\* everything.
SetIsTrie ==
  dm.kind = "trie" /\ dm.done /\ (\A d \in dm.added : d # <<PlusLabel>> /\ \A i \in DOMAIN d : d[i] # StarLabel) =>
    \A q \in Queries : Has(dm.set, q) <=> Search(dm.trie, q) # Nil

\* With the table nothing is found that the matchers would not find one by one,
\* nor the other way round, if no keyword lies within another.
Ready == dm.kind = "geosite" /\ dm.done /\ ~Building /\ Unplaced = {}
GeositeIsLinear ==
  Ready =>
    \A q \in Queries :
      /\ MphMatch(Text(q)) => LinearMatch(Text(q))
      /\ LinearMatch(Text(q)) /\ ~MphMatch(Text(q)) =>
           \E p, o \in dm.added : p # o /\ p.type = "keyword" /\ o.type = "keyword" /\ Holds(o.s, p.s)
      /\ LinearMatch(Text(q)) <=> \E p \in dm.added : Fits(p, Text(q))

\* "the input string must contain the pattern as a sub-string", and then it is
\* found.
KeywordsAreFound ==
  Ready => \A q \in Queries, p \in dm.added : p.type = "keyword" /\ Fits(p, Text(q)) => MphMatch(Text(q))
=============================================================================
