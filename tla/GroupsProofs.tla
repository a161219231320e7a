---------------------------- MODULE GroupsProofs ----------------------------
(***************************************************************************)
(* The queue of a proxy's delays, for any number of goroutines, and the    *)
(* choices of the fallback and the url-test group, for any lists of        *)
(* proxies, number of callers and changes of health and selection.         *)
(***************************************************************************)
EXTENDS MCGroups, FiniteSetTheorems, TLAPS

(* Every test that is still to trim the queue has put a record of its own. *)
OwnRecord == Cardinality(Trimming) <= Len(items)

(* The inductive invariant for any number of testers. *)
QInv == TypeOK /\ HistoryBounded /\ OwnRecord /\ PopNeverPanics

(* With at most Cap testers a queue that has a record keeps one. *)
KeepsOne == items # << >> => Cardinality(Popping) < Len(items)

ReadsRecord == \A r \in Readers : readPc[r] = "read" => items # << >>

LInv == KeepsOne /\ ReadsRecord /\ LastNeverPanics

-----------------------------------------------------------------------------

LEMMA MaxDelayType == MaxDelay \in Nat /\ 0 \in 0..MaxDelay
<1>1. MaxDelay \in Nat
  BY DEF MaxDelay
<1> QED
  BY <1>1

LEMMA Uint16Type == \A ms \in Nat : Uint16(ms) \in 0..MaxDelay
<1>1. \A ms \in Nat : ms % 65536 \in Nat /\ ms % 65536 <= 65535
  OBVIOUS
<1>2. \A ms \in Nat : Uint16(ms) \in Nat /\ Uint16(ms) <= MaxDelay
  BY <1>1 DEF Uint16, MaxDelay
<1> QED
  BY <1>2, MaxDelayType

LEMMA OutcomeType ==
  ASSUME NEW o \in Outcomes
  PROVE  o \in [err : BOOLEAN, t : 0..MaxDelay]
<1>1. PICK e \in Environments : o = URLTestResult(e)
  BY DEF Outcomes
<1>2. e.ms \in Nat /\ e.ms2 \in Nat /\ e.readErr \in BOOLEAN
  BY ProxyHealthAssumption DEF Environments
<1>3. Uint16(e.ms) \in 0..MaxDelay /\ Uint16(e.ms2) \in 0..MaxDelay
  BY <1>2, Uint16Type
<1> QED
  BY <1>1, <1>2, <1>3, MaxDelayType DEF URLTestResult

LEMMA FiniteTesters ==
  /\ IsFiniteSet(Trimming) /\ Cardinality(Trimming) \in Nat
  /\ IsFiniteSet(Popping) /\ Cardinality(Popping) \in Nat
  /\ Cardinality(Testers) \in Nat
<1>1. Trimming \subseteq Testers /\ Popping \subseteq Testers
  BY DEF Trimming, Popping
<1> QED
  BY <1>1, FS_Subset, FS_CardinalityType, ProxyHealthAssumption

(* An append or a tail of the queue is a queue, and its length is known. *)
LEMMA AppendFacts ==
  ASSUME NEW S, NEW q \in Seq(S), NEW d \in S
  PROVE  Append(q, d) \in Seq(S) /\ Len(Append(q, d)) = Len(q) + 1
OBVIOUS

LEMMA TailFacts ==
  ASSUME NEW S, NEW q \in Seq(S), q # << >>
  PROVE  /\ Tail(q) \in Seq(S) /\ Len(Tail(q)) = Len(q) - 1
         /\ q[Len(q)] \in S
OBVIOUS

LEMMA LengthFacts ==
  ASSUME NEW S, NEW q \in Seq(S)
  PROVE  Len(q) \in Nat /\ (q = << >> <=> Len(q) = 0)
OBVIOUS

LEMMA RecordType ==
  ASSUME NEW o \in [err : BOOLEAN, t : 0..MaxDelay]
  PROVE  Record(o) \in 0..MaxDelay
<1>1. 0 \in 0..MaxDelay /\ o.t \in 0..MaxDelay
  BY MaxDelayType
<1> QED
  BY <1>1 DEF Record

-----------------------------------------------------------------------------

LEMMA TypeStep == TypeOK /\ [Next]_vars => TypeOK'
<1> SUFFICES ASSUME TypeOK, [Next]_vars PROVE TypeOK'
  OBVIOUS
<1> USE DEF TypeOK
<1>1. ASSUME NEW t \in Testers, Test(t) PROVE TypeOK'
  <2>1. PICK o \in Outcomes :
          /\ outcome' = [outcome EXCEPT ![t] = o]
          /\ measured' = IF o.err THEN measured ELSE measured \cup {o.t}
    BY <1>1 DEF Test
  <2>2. o \in [err : BOOLEAN, t : 0..MaxDelay]
    BY <2>1, OutcomeType
  <2> QED
    <3>1. measured' \subseteq 0..MaxDelay
      BY <2>1, <2>2
    <3>2. outcome' \in [Testers -> [err : BOOLEAN, t : 0..MaxDelay]]
      BY <2>1, <2>2
    <3>3. tests' \in Nat
      BY <1>1 DEF Test
    <3>4. testPc' \in [Testers -> {"idle", "store", "put", "len", "pop", "take", "panic"}]
      BY <1>1 DEF Test
    <3> QED
      BY <1>1, <3>1, <3>2, <3>3, <3>4 DEF Test, readVars
<1>2. ASSUME NEW t \in Testers, StoreAlive(t) PROVE TypeOK'
  BY <1>2 DEF StoreAlive, readVars
<1>3. ASSUME NEW t \in Testers, Put(t) PROVE TypeOK'
  <2>1. Record(outcome[t]) \in 0..MaxDelay
    BY RecordType
  <2> QED
    BY <1>3, <2>1, AppendFacts DEF Put, readVars
<1>4. ASSUME NEW t \in Testers, CheckLen(t) \/ PopPeek(t) PROVE TypeOK'
  BY <1>4 DEF CheckLen, PopPeek, readVars
<1>5. ASSUME NEW t \in Testers, PopTake(t) PROVE TypeOK'
  <2>1. items' \in Seq(0..MaxDelay)
    <3>1. CASE items = << >>
      BY <1>5, <3>1 DEF PopTake
    <3>2. CASE items # << >>
      <4>1. items' = Tail(items)
        BY <1>5, <3>2 DEF PopTake
      <4> QED
        BY <3>2, <4>1, TailFacts
    <3> QED
      BY <3>1, <3>2
  <2>2. testPc' \in [Testers -> {"idle", "store", "put", "len", "pop", "take", "panic"}]
    BY <1>5 DEF PopTake
  <2> QED
    BY <1>5, <2>1, <2>2 DEF PopTake, readVars
<1>6. ASSUME NEW r \in Readers, NEW d \in 0..MaxDelay, Returns(r, d)
      PROVE  /\ readPc' \in [Readers -> {"idle", "last", "read", "panic"}]
             /\ result' \in [Readers -> 0..MaxDelay]
  BY <1>6, MaxDelayType DEF Returns
<1>7. ASSUME NEW r \in Readers, Reader(r) PROVE TypeOK'
  <2>1. 0 \in 0..MaxDelay /\ MaxDelay \in 0..MaxDelay
    BY MaxDelayType
  <2>2. CASE LoadAlive(r)
    BY <2>1, <2>2, <1>6 DEF LoadAlive, testVars
  <2>3. CASE LastPeek(r)
    BY <2>1, <2>3, <1>6 DEF LastPeek, testVars
  <2>4. CASE LastRead(r)
    BY <2>4, <1>6, TailFacts DEF LastRead, testVars
  <2> QED
    BY <1>7, <2>2, <2>3, <2>4 DEF Reader
<1>8. CASE UNCHANGED vars
  BY <1>8 DEF vars, testVars, readVars
<1> QED
  BY <1>1, <1>2, <1>3, <1>4, <1>5, <1>7, <1>8 DEF Next, Tester

-----------------------------------------------------------------------------
(* How a step changes the queue and the sets of testers that trim it. *)

LEMMA SetsStep ==
  ASSUME TypeOK, [Next]_vars
  PROVE  \/ /\ UNCHANGED items
            /\ Trimming' = Trimming /\ Popping' = Popping
            /\ \A t \in Testers : testPc'[t] = "panic" =>
                 testPc[t] = "panic"
         \/ \E t \in Testers :
              /\ PopTake(t) /\ items = << >>
              /\ t \in Trimming
         \/ \E t \in Testers \ Trimming :
              /\ Put(t) /\ Len(items') = Len(items) + 1
              /\ Trimming' = Trimming \cup {t} /\ Popping' = Popping
         \/ \E t \in Trimming \ Popping :
              /\ CheckLen(t) /\ UNCHANGED items /\ Len(items) > Cap
              /\ Trimming' = Trimming /\ Popping' = Popping \cup {t}
         \/ \E t \in Trimming \ Popping :
              /\ CheckLen(t) /\ UNCHANGED items /\ Len(items) <= Cap
              /\ Trimming' = Trimming \ {t} /\ Popping' = Popping
         \/ \E t \in Popping :
              /\ PopPeek(t) /\ items = << >>
         \/ \E t \in Popping :
              /\ PopTake(t) /\ items # << >> /\ Len(items') = Len(items) - 1
              /\ Trimming' = Trimming \ {t} /\ Popping' = Popping \ {t}
<1> USE DEF TypeOK, Trimming, Popping
<1>1. ASSUME NEW t \in Testers, Test(t) \/ StoreAlive(t)
      PROVE  /\ UNCHANGED items /\ Trimming' = Trimming /\ Popping' = Popping
             /\ \A u \in Testers : testPc'[u] = "panic" => testPc[u] = "panic"
  BY <1>1 DEF Test, StoreAlive
<1>2. ASSUME NEW t \in Testers, Put(t)
      PROVE  /\ t \in Testers \ Trimming
             /\ Len(items') = Len(items) + 1
             /\ Trimming' = Trimming \cup {t} /\ Popping' = Popping
  <2>1. Record(outcome[t]) \in 0..MaxDelay
    BY RecordType
  <2> QED
    BY <1>2, <2>1, AppendFacts DEF Put
<1>3. ASSUME NEW t \in Testers, CheckLen(t)
      PROVE  /\ t \in Trimming \ Popping /\ UNCHANGED items
             /\ IF Len(items) > Cap
                THEN Trimming' = Trimming /\ Popping' = Popping \cup {t}
                ELSE Trimming' = Trimming \ {t} /\ Popping' = Popping
  BY <1>3 DEF CheckLen
<1>4. ASSUME NEW t \in Testers, PopPeek(t), items # << >>
      PROVE  /\ UNCHANGED items /\ Trimming' = Trimming /\ Popping' = Popping
             /\ \A u \in Testers : testPc'[u] = "panic" => testPc[u] = "panic"
  BY <1>4 DEF PopPeek
<1>5. ASSUME NEW t \in Testers, PopPeek(t) PROVE t \in Popping
  BY <1>5 DEF PopPeek
<1>6. ASSUME NEW t \in Testers, PopTake(t) PROVE t \in Popping /\ t \in Trimming
  BY <1>6 DEF PopTake
<1>7. ASSUME NEW t \in Testers, PopTake(t), items # << >>
      PROVE  /\ Len(items') = Len(items) - 1
             /\ Trimming' = Trimming \ {t} /\ Popping' = Popping \ {t}
  BY <1>7, TailFacts DEF PopTake
<1>8. ASSUME UNCHANGED <<items, testPc>>
      PROVE  /\ UNCHANGED items /\ Trimming' = Trimming /\ Popping' = Popping
             /\ \A u \in Testers : testPc'[u] = "panic" => testPc[u] = "panic"
  BY <1>8
<1>9. ASSUME NEW r \in Readers, Reader(r) PROVE UNCHANGED <<items, testPc>>
  BY <1>9 DEF Reader, LoadAlive, LastPeek, LastRead, testVars
<1>10. UNCHANGED vars => UNCHANGED <<items, testPc>>
  BY DEF vars, testVars
<1>11. Len(items) > Cap \/ Len(items) <= Cap
  BY LengthFacts, ProxyHealthAssumption
<1>12. CASE \E t \in Testers : Test(t) \/ StoreAlive(t)
  BY <1>12, <1>1
<1>13. CASE \E t \in Testers : Put(t)
  BY <1>13, <1>2
<1>14. CASE \E t \in Testers : CheckLen(t)
  <2>1. PICK t \in Testers : CheckLen(t)
    BY <1>14
  <2>2. CASE Len(items) > Cap
    BY <2>1, <2>2, <1>3
  <2>3. CASE ~(Len(items) > Cap)
    BY <2>1, <2>3, <1>3, <1>11
  <2> QED
    BY <2>2, <2>3
<1>15. CASE \E t \in Testers : PopPeek(t)
  <2>1. PICK t \in Testers : PopPeek(t)
    BY <1>15
  <2>2. CASE items = << >>
    BY <2>1, <2>2, <1>5
  <2>3. CASE items # << >>
    BY <2>1, <2>3, <1>4
  <2> QED
    BY <2>2, <2>3
<1>16. CASE \E t \in Testers : PopTake(t)
  <2>1. PICK t \in Testers : PopTake(t)
    BY <1>16
  <2>2. CASE items = << >>
    BY <2>1, <2>2, <1>6
  <2>3. CASE items # << >>
    BY <2>1, <2>3, <1>6, <1>7
  <2> QED
    BY <2>2, <2>3
<1>17. CASE (\E r \in Readers : Reader(r)) \/ UNCHANGED vars
  BY <1>17, <1>8, <1>9, <1>10
<1> QED
  BY <1>12, <1>13, <1>14, <1>15, <1>16, <1>17 DEF Next, Tester

-----------------------------------------------------------------------------

LEMMA QInvStep == QInv /\ [Next]_vars => QInv'
<1> SUFFICES ASSUME QInv, [Next]_vars PROVE QInv'
  OBVIOUS
<1> USE DEF QInv
<1>1. TypeOK'
  BY TypeStep
<1>2. Len(items) \in Nat /\ (items = << >> <=> Len(items) = 0)
  BY LengthFacts DEF TypeOK
<1>3. IsFiniteSet(Trimming) /\ Cardinality(Trimming) \in Nat /\ Cap \in Nat
  BY FiniteTesters, ProxyHealthAssumption
<1>4. ASSUME NEW t \in Trimming PROVE items # << >>
  <2>1. Cardinality(Trimming) # 0
    BY <1>3, <1>4, FS_EmptySet
  <2> QED
    BY <1>2, <1>3, <2>1 DEF OwnRecord
<1>5. Popping \subseteq Trimming
  BY DEF Popping, Trimming
<1>6. ASSUME UNCHANGED items, Trimming' = Trimming
      PROVE  HistoryBounded' /\ OwnRecord'
  BY <1>6 DEF HistoryBounded, OwnRecord
<1>7. CASE /\ UNCHANGED items
           /\ Trimming' = Trimming /\ Popping' = Popping
           /\ \A t \in Testers : testPc'[t] = "panic" => testPc[t] = "panic"
  BY <1>1, <1>6, <1>7 DEF PopNeverPanics
<1>8. CASE \E t \in Testers \ Trimming :
              /\ Put(t) /\ Len(items') = Len(items) + 1
              /\ Trimming' = Trimming \cup {t} /\ Popping' = Popping
  <2>1. PICK t \in Testers \ Trimming :
              /\ Put(t) /\ Len(items') = Len(items) + 1
              /\ Trimming' = Trimming \cup {t}
    BY <1>8
  <2>2. Cardinality(Trimming') = Cardinality(Trimming) + 1
    BY <1>3, <2>1, FS_AddElement
  <2>3. PopNeverPanics'
    BY <2>1 DEF PopNeverPanics, Put, TypeOK
  <2> QED
    BY <1>1, <1>2, <1>3, <2>1, <2>2, <2>3 DEF HistoryBounded, OwnRecord
<1>9. CASE \E t \in Trimming \ Popping :
              /\ CheckLen(t) /\ UNCHANGED items /\ Len(items) > Cap
              /\ Trimming' = Trimming /\ Popping' = Popping \cup {t}
  <2>1. PopNeverPanics'
    BY <1>9 DEF PopNeverPanics, CheckLen, TypeOK, Trimming
  <2> QED
    BY <1>1, <1>6, <1>9, <2>1
<1>10. CASE \E t \in Trimming \ Popping :
              /\ CheckLen(t) /\ UNCHANGED items /\ Len(items) <= Cap
              /\ Trimming' = Trimming \ {t} /\ Popping' = Popping
  <2>1. PICK t \in Trimming \ Popping :
              /\ CheckLen(t) /\ UNCHANGED items /\ Len(items) <= Cap
              /\ Trimming' = Trimming \ {t}
    BY <1>10
  <2>2. Cardinality(Trimming') = Cardinality(Trimming) - 1
    BY <1>3, <2>1, FS_RemoveElement
  <2>3. Cardinality(Trimming') \in Nat
    BY <1>3, <2>1, FS_RemoveElement, FS_CardinalityType
  <2>4. PopNeverPanics'
    BY <2>1 DEF PopNeverPanics, CheckLen, TypeOK, Trimming
  <2> QED
    BY <1>1, <1>2, <1>3, <2>1, <2>2, <2>3, <2>4 DEF HistoryBounded, OwnRecord
<1>11. CASE \E t \in Popping :
              /\ PopTake(t) /\ items # << >> /\ Len(items') = Len(items) - 1
              /\ Trimming' = Trimming \ {t} /\ Popping' = Popping \ {t}
  <2>1. PICK t \in Popping :
              /\ PopTake(t) /\ items # << >> /\ Len(items') = Len(items) - 1
              /\ Trimming' = Trimming \ {t}
    BY <1>11
  <2>2. Cardinality(Trimming') = Cardinality(Trimming) - 1
    BY <1>3, <1>5, <2>1, FS_RemoveElement
  <2>3. PopNeverPanics'
    BY <2>1 DEF PopNeverPanics, PopTake, TypeOK, Popping
  <2> QED
    BY <1>1, <1>2, <1>3, <2>1, <2>2, <2>3 DEF HistoryBounded, OwnRecord
<1>12. ~ \E t \in Testers : PopTake(t) /\ items = << >> /\ t \in Trimming
  BY <1>4
<1>13. ~ \E t \in Popping : PopPeek(t) /\ items = << >>
  BY <1>4, <1>5
<1> QED
  BY <1>7, <1>8, <1>9, <1>10, <1>11, <1>12, <1>13, SetsStep

LEMMA QInvInit == Init => QInv
<1> SUFFICES ASSUME Init PROVE QInv
  OBVIOUS
<1>1. TypeOK
  BY MaxDelayType DEF Init, TypeOK
<1>2. Trimming = {}
  BY DEF Init, Trimming
<1>3. Cardinality(Trimming) = 0 /\ Len(items) = 0
  BY <1>2, FS_EmptySet DEF Init
<1>4. HistoryBounded /\ OwnRecord
  BY <1>3, ProxyHealthAssumption DEF HistoryBounded, OwnRecord
<1>5. PopNeverPanics
  BY DEF Init, PopNeverPanics
<1> QED
  BY <1>1, <1>4, <1>5 DEF QInv

(* The type invariant of a proxy's health: delays are 16 bits wide. *)
THEOREM TypeCorrect == Spec => []TypeOK
<1>1. Init => TypeOK
  BY QInvInit DEF QInv
<1> QED
  BY <1>1, TypeStep, PTL DEF Spec

(* For any number of goroutines testing one proxy, the queue of its delays  *)
(* exceeds its capacity only by what the running tests are about to trim.   *)
THEOREM Bounded == Spec => []HistoryBounded
<1>1. QInv => HistoryBounded
  BY DEF QInv
<1> QED
  BY <1>1, QInvInit, QInvStep, PTL DEF Spec

(* For any number of goroutines, the Pop of URLTest finds a record although *)
(* it looks at the length of the queue without holding its lock.            *)
THEOREM PopSafe == Spec => []PopNeverPanics
<1>1. QInv => PopNeverPanics
  BY DEF QInv
<1> QED
  BY <1>1, QInvInit, QInvStep, PTL DEF Spec

-----------------------------------------------------------------------------

LEMMA LInvStep ==
  ASSUME Cardinality(Testers) <= Cap
  PROVE  QInv /\ LInv /\ [Next]_vars => LInv'
<1> SUFFICES ASSUME QInv, LInv, [Next]_vars PROVE LInv'
  OBVIOUS
<1> USE DEF LInv, QInv
<1>1. TypeOK' /\ QInv'
  BY TypeStep, QInvStep
<1>2. /\ Len(items) \in Nat /\ (items = << >> <=> Len(items) = 0)
      /\ Len(items') \in Nat /\ (items' = << >> <=> Len(items') = 0)
  BY <1>1, LengthFacts DEF TypeOK
<1>3. /\ IsFiniteSet(Popping) /\ Cardinality(Popping) \in Nat /\ Cap \in Nat
      /\ Cardinality(Testers) \in Nat
  BY FiniteTesters, ProxyHealthAssumption
<1>4. Popping \subseteq Trimming
  BY DEF Popping, Trimming
<1>5. ASSUME NEW t \in Trimming PROVE items # << >>
  <2>1. Cardinality(Trimming) # 0 /\ Cardinality(Trimming) \in Nat
    BY <1>5, FiniteTesters, FS_EmptySet
  <2> QED
    BY <1>2, <2>1 DEF OwnRecord
<1>6. KeepsOne'
  <2>1. CASE UNCHANGED items /\ Popping' = Popping
    BY <2>1 DEF KeepsOne
  <2>2. CASE \E t \in Testers \ Trimming :
              /\ Put(t) /\ Len(items') = Len(items) + 1
              /\ Trimming' = Trimming \cup {t} /\ Popping' = Popping
    <3>1. CASE items = << >>
      <4>1. Popping = {}
        BY <3>1, <1>4, <1>5
      <4> QED
        BY <2>2, <3>1, <4>1, <1>2, <1>3, FS_EmptySet DEF KeepsOne
    <3>2. CASE items # << >>
      BY <2>2, <3>2, <1>2, <1>3 DEF KeepsOne
    <3> QED
      BY <3>1, <3>2
  <2>3. CASE \E t \in Trimming \ Popping :
              /\ CheckLen(t) /\ UNCHANGED items /\ Len(items) > Cap
              /\ Trimming' = Trimming /\ Popping' = Popping \cup {t}
    <3>1. Popping' \subseteq Testers
      BY DEF Popping
    <3>2. Cardinality(Popping') <= Cardinality(Testers) /\ Cardinality(Popping') \in Nat
      BY <3>1, FS_Subset, FS_CardinalityType, ProxyHealthAssumption
    <3> QED
      BY <2>3, <3>2, <1>2, <1>3 DEF KeepsOne
  <2>4. CASE \E t \in Popping :
              /\ PopTake(t) /\ items # << >> /\ Len(items') = Len(items) - 1
              /\ Trimming' = Trimming \ {t} /\ Popping' = Popping \ {t}
    <3>1. Cardinality(Popping') = Cardinality(Popping) - 1
      BY <2>4, <1>3, FS_RemoveElement
    <3> QED
      BY <2>4, <3>1, <1>2, <1>3 DEF KeepsOne
  <2>5. ~ \E t \in Testers : PopTake(t) /\ items = << >> /\ t \in Trimming
    BY <1>5
  <2>6. ~ \E t \in Popping : PopPeek(t) /\ items = << >>
    BY <1>4, <1>5
  <2> QED
    BY <2>1, <2>2, <2>3, <2>4, <2>5, <2>6, SetsStep
<1>7. items # << >> => items' # << >>
  <2>1. CASE UNCHANGED items
    BY <2>1
  <2>2. CASE Len(items') = Len(items) + 1
    BY <2>2, <1>2
  <2>3. CASE \E t \in Popping : items # << >> /\ Len(items') = Len(items) - 1
    <3>1. Cardinality(Popping) # 0
      BY <2>3, <1>3, FS_EmptySet
    <3> QED
      BY <2>3, <3>1, <1>2, <1>3 DEF KeepsOne
  <2>5. ~ \E t \in Testers : PopTake(t) /\ items = << >> /\ t \in Trimming
    BY <1>5
  <2>6. ~ \E t \in Popping : PopPeek(t) /\ items = << >>
    BY <1>4, <1>5
  <2> QED
    BY <2>1, <2>2, <2>3, <2>5, <2>6, SetsStep
<1>8. ReadsRecord' /\ LastNeverPanics'
  <2>1. CASE \E t \in Testers : Tester(t)
    <3>1. UNCHANGED readPc
      BY <2>1 DEF Tester, Test, StoreAlive, Put, CheckLen, PopPeek, PopTake, readVars
    <3> QED
      BY <3>1, <1>7 DEF ReadsRecord, LastNeverPanics
  <2>2. CASE \E r \in Readers : Reader(r)
    <3>1. PICK r \in Readers : Reader(r)
      BY <2>2
    <3>2. \A s \in Readers : readPc'[s] = "read" /\ s # r => readPc[s] = "read"
      BY <3>1 DEF Reader, LoadAlive, LastPeek, LastRead, Returns, TypeOK
    <3>3. readPc'[r] = "read" => items # << >>
      BY <3>1 DEF Reader, LoadAlive, LastPeek, LastRead, Returns, TypeOK
    <3>4. \A s \in Readers : readPc'[s] # "panic"
      BY <3>1 DEF Reader, LoadAlive, LastPeek, LastRead, Returns, TypeOK,
                  ReadsRecord, LastNeverPanics
    <3> QED
      BY <3>2, <3>3, <3>4, <1>7 DEF ReadsRecord, LastNeverPanics
  <2>3. CASE UNCHANGED vars
    BY <2>3 DEF vars, readVars, ReadsRecord, LastNeverPanics
  <2> QED
    BY <2>1, <2>2, <2>3 DEF Next
<1> QED
  BY <1>6, <1>8

(* LastDelay never reads past the end of the queue if no more goroutines    *)
(* test the proxy than the queue has room for records.                      *)
THEOREM LastSafe ==
  ASSUME Cardinality(Testers) <= Cap
  PROVE  Spec => []LastNeverPanics
<1>1. Init => QInv /\ LInv
  <2>1. Init => LInv
    BY DEF Init, LInv, KeepsOne, ReadsRecord, LastNeverPanics
  <2> QED
    BY <2>1, QInvInit
<1>2. QInv /\ LInv /\ [Next]_vars => (QInv /\ LInv)'
  BY QInvStep, LInvStep
<1>3. QInv /\ LInv => LastNeverPanics
  BY DEF LInv
<1> QED
  BY <1>1, <1>2, <1>3, PTL DEF Spec

(* The queue of a proxy's delays is safe from its unlocked length checks,  *)
(* for any number of readers, and of tests up to its capacity.             *)
THEOREM QueueSafe ==
  ASSUME Cardinality(Testers) <= Cap
  PROVE  Spec => []QueueIsSafe
<1>1. HistoryBounded /\ PopNeverPanics /\ LastNeverPanics => QueueIsSafe
  BY DEF QueueIsSafe
<1> QED
  BY <1>1, Bounded, PopSafe, LastSafe, PTL

-----------------------------------------------------------------------------
(* Where delays come from *)

(* A test that has not failed has its delay measured, and so has every      *)
(* record that stands for a delay.                                          *)
MInv ==
  /\ \A t \in Testers : outcome[t].err \/ outcome[t].t \in measured
  /\ \A pos \in 1..Len(items) : items[pos] = 0 \/ items[pos] \in measured
  /\ DelayWasMeasured

LEMMA MInvStep == TypeOK /\ MInv /\ [Next]_vars => MInv'
<1> SUFFICES ASSUME TypeOK, MInv, [Next]_vars PROVE MInv'
  OBVIOUS
<1> USE DEF MInv, TypeOK, DelayWasMeasured
<1>1. ASSUME NEW t \in Testers, Test(t) PROVE MInv'
  <2>1. PICK o \in Outcomes :
          /\ outcome' = [outcome EXCEPT ![t] = o]
          /\ measured' = IF o.err THEN measured ELSE measured \cup {o.t}
    BY <1>1 DEF Test
  <2>2. measured \subseteq measured'
    BY <2>1
  <2>3. \A u \in Testers : outcome'[u].err \/ outcome'[u].t \in measured'
    BY <2>1, <2>2
  <2>4. UNCHANGED <<items, result>>
    BY <1>1 DEF Test, readVars
  <2> QED
    BY <2>2, <2>3, <2>4
<1>2. ASSUME NEW t \in Testers, StoreAlive(t) PROVE MInv'
  BY <1>2 DEF StoreAlive, readVars
<1>3. ASSUME NEW t \in Testers, Put(t) PROVE MInv'
  <2>1. UNCHANGED <<outcome, measured, result>> /\ items' = Append(items, Record(outcome[t]))
    BY <1>3 DEF Put, readVars
  <2>2. Record(outcome[t]) = 0 \/ Record(outcome[t]) \in measured
    BY DEF Record
  <2>3. \A pos \in 1..Len(items') : items'[pos] = 0 \/ items'[pos] \in measured
    BY <2>1, <2>2
  <2> QED
    BY <2>1, <2>3
<1>4. ASSUME NEW t \in Testers, CheckLen(t) \/ PopPeek(t) PROVE MInv'
  BY <1>4 DEF CheckLen, PopPeek, readVars
<1>5. ASSUME NEW t \in Testers, PopTake(t) PROVE MInv'
  <2>1. UNCHANGED <<outcome, measured, result>>
    BY <1>5 DEF PopTake, readVars
  <2>2. items' = items \/ (items # << >> /\ items' = Tail(items))
    BY <1>5 DEF PopTake
  <2>3. \A pos \in 1..Len(items') : items'[pos] = 0 \/ items'[pos] \in measured
    <3>1. CASE items' = items
      BY <3>1
    <3>2. CASE items # << >> /\ items' = Tail(items)
      <4>1. Len(items') = Len(items) - 1 /\ Len(items) \in Nat \ {0}
        BY <3>2
      <4>2. SUFFICES ASSUME NEW pos \in 1..Len(items') PROVE items'[pos] = 0 \/ items'[pos] \in measured'
        BY <2>1
      <4>3. items'[pos] = items[pos + 1]
        BY <3>2, <4>1
      <4>4. pos + 1 \in 1..Len(items)
        BY <4>1
      <4> QED
        BY <2>1, <4>3, <4>4
    <3> QED
      BY <2>2, <3>1, <3>2
  <2> QED
    BY <2>1, <2>3
<1>6. ASSUME NEW r \in Readers, Reader(r) PROVE MInv'
  <2>1. UNCHANGED <<outcome, measured, items>>
    BY <1>6 DEF Reader, LoadAlive, LastPeek, LastRead, testVars
  <2>2. ASSUME NEW d, d = 0 \/ d \in measured, Returns(r, d)
        PROVE  \A q \in Readers : result'[q] # MaxDelay => result'[q] \in measured
    BY <2>2 DEF Returns
  <2>3. \A q \in Readers : result'[q] # MaxDelay => result'[q] \in measured
    <3>1. CASE LoadAlive(r)
      <4>1. CASE alive
        BY <3>1, <4>1 DEF LoadAlive
      <4>2. CASE ~alive
        BY <3>1, <4>2, <2>2, MaxDelayType DEF LoadAlive
      <4> QED
        BY <4>1, <4>2
    <3>2. CASE LastPeek(r)
      <4>1. CASE items = << >>
        BY <3>2, <4>1, <2>2, MaxDelayType DEF LastPeek
      <4>2. CASE items # << >>
        BY <3>2, <4>2 DEF LastPeek
      <4> QED
        BY <4>1, <4>2
    <3>3. CASE LastRead(r)
      <4>1. CASE items = << >>
        BY <3>3, <4>1 DEF LastRead
      <4>2. CASE items # << >>
        <5>0. Len(items) \in Nat /\ Len(items) # 0
          BY <4>2
        <5>1. Len(items) \in 1..Len(items)
          BY <5>0
        <5>2. items[Len(items)] = 0 \/ items[Len(items)] \in measured
          BY <5>1
        <5> QED
          BY <3>3, <4>2, <5>2, <2>2 DEF LastRead
      <4> QED
        BY <4>1, <4>2
    <3> QED
      BY <1>6, <3>1, <3>2, <3>3 DEF Reader
  <2> QED
    BY <2>1, <2>3
<1>7. CASE UNCHANGED vars
  BY <1>7 DEF vars, testVars, readVars
<1> QED
  BY <1>1, <1>2, <1>3, <1>4, <1>5, <1>6, <1>7 DEF Next, Tester

(* A delay that a reader gets was measured by a test that succeeded: a     *)
(* failed test contributes none, though it may have computed it.           *)
THEOREM DelaysMeasured == Spec => []DelayWasMeasured
<1>1. Init => MInv
  BY DEF Init, MInv, DelayWasMeasured
<1>2. MInv => DelayWasMeasured
  BY DEF MInv
<1> QED
  BY <1>1, <1>2, MInvStep, TypeCorrect, PTL DEF Spec

-----------------------------------------------------------------------------
(* The fallback group *)

FbPlaces == {"idle", "loop", "deselect"}

FallbackType ==
  /\ offered \in Seq(Names) /\ fbAlive \in [FB!All -> BOOLEAN]
  /\ fbSelected \in FB!All \cup {None} /\ testing \in FB!All \cup {None}
  /\ fbPc \in [Callers -> FbPlaces] /\ fbProxies \in [Callers -> Seq(FB!All)] /\ idx \in [Callers -> Nat \ {0}]
  /\ fbResult \in [Callers -> FB!All \cup {None}] /\ fbCalm \in [Callers -> BOOLEAN]
  /\ had \in [Callers -> FB!All \cup {None}]

\* The caller has passed the first proxies of its list, those before idx[c].
Passed(c) ==
  /\ idx[c] >= 1 /\ idx[c] <= Len(fbProxies[c]) + 1
  /\ had[c] = None =>
       /\ fbSelected = None
       /\ \A j \in 1 .. Len(fbProxies[c]) : j < idx[c] => ~fbAlive[fbProxies[c][j]]
  /\ had[c] # None /\ fbSelected # None =>
       /\ fbSelected = had[c]
       /\ \A j \in 1 .. Len(fbProxies[c]) : j < idx[c] => fbProxies[c][j] # had[c]
  /\ had[c] # None /\ fbSelected = None => ~fbAlive[had[c]]

\* What an undisturbed call has returned.
FirstOfAlive(c) ==
  fbResult[c] = IF FB!SomeAlive(fbProxies[c]) THEN FB!FirstAlive(fbProxies[c]) ELSE fbProxies[c][1]
Honoured(c) ==
  IF fbAlive[had[c]] THEN fbResult[c] = had[c] /\ fbSelected = had[c]
                     ELSE fbResult[c] # had[c] \/ fbProxies[c][1] = had[c]
InList(p, c) == \E j \in 1 .. Len(fbProxies[c]) : fbProxies[c][j] = p

FbReturned(c) ==
  /\ had[c] = None => FirstOfAlive(c)
  /\ InList(had[c], c) => Honoured(c)
  /\ fbSelected # None => fbAlive[fbSelected] \/ ~InList(fbSelected, c)

\* What a caller knows whom nobody has disturbed.
FallbackKnows(c) ==
  /\ fbPc[c] = "loop" => Passed(c)
  /\ fbPc[c] = "deselect" => /\ Passed(c) /\ idx[c] <= Len(fbProxies[c])
                             /\ fbSelected = fbProxies[c][idx[c]] /\ ~fbAlive[fbSelected]
  /\ fbPc[c] = "idle" /\ fbResult[c] # None => FbReturned(c)

FallbackInv ==
  /\ FallbackType
  /\ \A c \in Callers : fbPc[c] # "idle" => fbProxies[c] # << >>
  /\ \A c \in Callers : fbCalm[c] => FallbackKnows(c)

LEMMA FallbackInitially == ASSUME FB!Init PROVE FallbackInv
<1>1. FallbackType
  <2>1. offered \in Seq(Names)
    BY FallbackAssumption DEF FB!Init
  <2>2. << >> \in Seq(FB!All) /\ 1 \in Nat
    OBVIOUS
  <2>3. QED
    BY <2>1, <2>2 DEF FB!Init, FallbackType, FbPlaces
<1>2. \A c \in Callers : fbPc[c] = "idle" /\ fbResult[c] = None
  BY DEF FB!Init
<1>3. QED
  BY <1>1, <1>2 DEF FallbackInv, FallbackKnows

\* The first proxy that is alive is the one before which all are dead.
LEMMA FirstAliveIs ==
  ASSUME FallbackType, NEW c \in Callers, NEW i \in 1 .. Len(fbProxies[c]), fbAlive[fbProxies[c][i]],
         \A j \in 1 .. Len(fbProxies[c]) : j < i => ~fbAlive[fbProxies[c][j]]
  PROVE  FB!SomeAlive(fbProxies[c]) /\ FB!FirstAlive(fbProxies[c]) = fbProxies[c][i]
<1> DEFINE s == fbProxies[c]
<1>1. s \in Seq(FB!All) /\ Len(s) \in Nat /\ DOMAIN s = 1 .. Len(s) /\ FB!Range(s) = {s[x] : x \in 1 .. Len(s)}
  BY DEF FallbackType, FB!Range
<1> DEFINE Is(p) == \E k1 \in 1 .. Len(s) : s[k1] = p /\ fbAlive[p] /\ \A j \in 1 .. k1 - 1 : ~fbAlive[s[j]]
<1>2. s[i] \in FB!Range(s) /\ Is(s[i])
  <2>1. \A j \in 1 .. i - 1 : j \in 1 .. Len(s) /\ j < i
    BY <1>1
  <2>2. QED
    BY <1>1, <2>1
<1>3. ASSUME NEW p \in FB!Range(s), Is(p) PROVE p = s[i]
  <2>1. PICK k1 \in 1 .. Len(s) : s[k1] = p /\ fbAlive[p] /\ \A j \in 1 .. k1 - 1 : ~fbAlive[s[j]]
    BY <1>3
  <2>2. ~(k1 < i)
    BY <2>1
  <2>3. ~(i < k1)
    BY <1>1, <2>1
  <2>4. k1 = i
    BY <1>1, <2>2, <2>3
  <2>5. QED
    BY <2>1, <2>4
<1>4. FB!SomeAlive(s)
  BY <1>2 DEF FB!SomeAlive
<1>5. FB!FirstAlive(s) = (CHOOSE p \in FB!Range(s) : Is(p))
  BY DEF FB!FirstAlive
<1> HIDE DEF Is
<1>6. FB!FirstAlive(s) = s[i]
  BY <1>2, <1>3, <1>5
<1>7. QED
  BY <1>4, <1>6

LEMMA NoneAlive ==
  ASSUME FallbackType, NEW c \in Callers, \A j \in 1 .. Len(fbProxies[c]) : ~fbAlive[fbProxies[c][j]]
  PROVE  ~FB!SomeAlive(fbProxies[c])
BY DEF FallbackType, FB!SomeAlive, FB!Range

\* Which proxy is the first depends on the list and on who is alive.
LEMMA SameFirst ==
  ASSUME NEW c, fbProxies'[c] = fbProxies[c], fbAlive' = fbAlive
  PROVE  /\ FB!SomeAlive(fbProxies[c])' <=> FB!SomeAlive(fbProxies[c])
         /\ FB!FirstAlive(fbProxies[c])' = FB!FirstAlive(fbProxies[c])
<1>1. FB!SomeAlive(fbProxies[c])' <=> FB!SomeAlive(fbProxies[c])
  BY DEF FB!SomeAlive
<1>2. FB!FirstAlive(fbProxies[c])' = FB!FirstAlive(fbProxies[c])
  BY DEF FB!FirstAlive
<1>3. QED
  BY <1>1, <1>2

\* A step of one caller: what another one knows goes on to hold, or does not
\* matter any more because the step disturbs it.
LEMMA FallbackCallerStep ==
  ASSUME FallbackInv, FallbackType', NEW c \in Callers,
         fbPc'[c] # "idle" => fbProxies'[c] # << >>, fbCalm'[c] => FallbackKnows(c)',
         \A d \in Callers \ {c} :
           /\ fbPc'[d] = fbPc[d] /\ fbProxies'[d] = fbProxies[d] /\ idx'[d] = idx[d] /\ fbResult'[d] = fbResult[d]
           /\ had'[d] = had[d] /\ (fbCalm'[d] => fbCalm[d] /\ fbAlive' = fbAlive /\ fbSelected' = fbSelected)
  PROVE  FallbackInv'
<1>1. ASSUME NEW d \in Callers \ {c}, fbCalm'[d] PROVE FallbackKnows(d)'
  <2>1. /\ FallbackKnows(d) /\ fbPc'[d] = fbPc[d] /\ fbProxies'[d] = fbProxies[d] /\ idx'[d] = idx[d]
        /\ fbResult'[d] = fbResult[d] /\ had'[d] = had[d] /\ fbAlive' = fbAlive /\ fbSelected' = fbSelected
    BY <1>1 DEF FallbackInv
  <2>2. FirstOfAlive(d)' <=> FirstOfAlive(d)
    BY <2>1, SameFirst DEF FirstOfAlive
  <2>3. Passed(d)' <=> Passed(d)
    BY <2>1 DEF Passed
  <2>4. QED
    BY <2>1, <2>2, <2>3 DEF FallbackKnows, FbReturned, Honoured, InList
<1>2. \A d \in Callers : fbPc'[d] # "idle" => fbProxies'[d] # << >>
  BY DEF FallbackInv
<1>3. QED
  BY <1>1, <1>2 DEF FallbackInv

LEMMA FallbackCaller == ASSUME FallbackInv, NEW c \in Callers, FB!Caller(c) PROVE FallbackInv'
<1>0. FallbackType /\ (fbCalm[c] => FallbackKnows(c)) /\ (fbPc[c] # "idle" => fbProxies[c] # << >>)
  BY DEF FallbackInv
<1>1. /\ fbPc \in [Callers -> FbPlaces] /\ fbProxies \in [Callers -> Seq(FB!All)] /\ idx \in [Callers -> Nat \ {0}]
      /\ fbResult \in [Callers -> FB!All \cup {None}] /\ fbCalm \in [Callers -> BOOLEAN]
      /\ had \in [Callers -> FB!All \cup {None}] /\ fbProxies[c] \in Seq(FB!All) /\ idx[c] \in Nat \ {0}
      /\ Len(fbProxies[c]) \in Nat /\ None \notin FB!All
      /\ fbSelected \in FB!All \cup {None} /\ had[c] \in FB!All \cup {None}
  BY <1>0, FallbackAssumption DEF FallbackType, FB!All
<1>2. \A i \in 1 .. Len(fbProxies[c]) : fbProxies[c][i] \in FB!All
  BY <1>1
<1>3. CASE FB!Call(c)
  <2>1. PICK l : l = FB!GetProxies
    OBVIOUS
  <2>2. l \in Seq(FB!All) /\ l # << >>
    <3>1. offered \in Seq(FB!All)
      BY <1>0 DEF FallbackType, FB!All
    <3>2. <<Compatible>> \in Seq(FB!All) /\ <<Compatible>> # << >>
      BY DEF FB!All
    <3>3. QED
      BY <2>1, <3>1, <3>2 DEF FB!GetProxies
  <2>3. /\ fbPc' = [fbPc EXCEPT ![c] = "loop"] /\ fbProxies' = [fbProxies EXCEPT ![c] = l]
        /\ idx' = [idx EXCEPT ![c] = 1] /\ fbResult' = [fbResult EXCEPT ![c] = None]
        /\ fbCalm' = [fbCalm EXCEPT ![c] = TRUE] /\ had' = [had EXCEPT ![c] = fbSelected]
        /\ UNCHANGED <<offered, fbAlive, fbSelected, testing>>
    BY <1>3, <2>1 DEF FB!Call, FB!groupVars
  <2>4. FallbackType'
    BY <1>0, <1>1, <2>2, <2>3 DEF FallbackType, FbPlaces
  <2>5. /\ fbPc'[c] = "loop" /\ fbProxies'[c] = l /\ idx'[c] = 1 /\ had'[c] = fbSelected
        /\ \A d \in Callers \ {c} :
             /\ fbPc'[d] = fbPc[d] /\ fbProxies'[d] = fbProxies[d] /\ idx'[d] = idx[d] /\ fbResult'[d] = fbResult[d]
             /\ had'[d] = had[d] /\ fbCalm'[d] = fbCalm[d]
    BY <1>1, <2>3
  <2>6. FallbackKnows(c)'
    <3>1. Len(l) \in Nat
      BY <2>2
    <3>2. QED
      BY <2>3, <2>5, <3>1 DEF FallbackKnows, Passed
  <2>7. QED
    BY <2>2, <2>3, <2>4, <2>5, <2>6, FallbackCallerStep
<1>4. CASE FB!Pick(c)
  <2>1. PICK p : p = fbProxies[c][idx[c]]
    OBVIOUS
  <2>2. /\ fbPc[c] = "loop" /\ idx[c] <= Len(fbProxies[c]) /\ fbAlive[p] /\ fbSelected \in {None, p}
        /\ fbPc' = [fbPc EXCEPT ![c] = "idle"] /\ fbResult' = [fbResult EXCEPT ![c] = p]
        /\ UNCHANGED <<offered, fbAlive, fbSelected, testing, fbProxies, idx, fbCalm, had>>
    BY <1>4, <2>1 DEF FB!Pick, FB!Current, FB!Returns, FB!groupVars
  <2>3. idx[c] \in 1 .. Len(fbProxies[c]) /\ p \in FB!All
    BY <1>1, <1>2, <2>1, <2>2
  <2>4. FallbackType'
    BY <1>0, <1>1, <2>2, <2>3 DEF FallbackType, FbPlaces
  <2>5. /\ fbPc'[c] = "idle" /\ fbResult'[c] = p
        /\ \A d \in Callers \ {c} : fbPc'[d] = fbPc[d] /\ fbResult'[d] = fbResult[d]
    BY <1>1, <2>2
  <2>6. ASSUME fbCalm[c] PROVE FbReturned(c)'
    <3>1. Passed(c)
      BY <1>0, <2>2, <2>6 DEF FallbackKnows
    <3>2. CASE had[c] = None
      <4>1. FB!SomeAlive(fbProxies[c]) /\ FB!FirstAlive(fbProxies[c]) = p
        <5>1. \A j \in 1 .. Len(fbProxies[c]) : j < idx[c] => ~fbAlive[fbProxies[c][j]]
          BY <3>1, <3>2 DEF Passed
        <5>2. QED
          BY <5>1, <1>0, <2>1, <2>2, <2>3, FirstAliveIs
      <4>2. FB!SomeAlive(fbProxies[c])' /\ FB!FirstAlive(fbProxies[c])' = p
        BY <4>1, <2>2, SameFirst
      <4>3. FirstOfAlive(c)'
        BY <4>2, <2>2, <2>5 DEF FirstOfAlive
      <4>4. fbSelected = None /\ ~InList(None, c)
        BY <1>1, <1>2, <3>1, <3>2 DEF Passed, InList
      <4>5. QED
        BY <4>3, <4>4, <3>2, <2>2 DEF FbReturned, InList
    <3>3. CASE had[c] # None /\ fbSelected = None
      <4>1. ~fbAlive[had[c]] /\ p # had[c]
        BY <3>1, <3>3, <2>2 DEF Passed
      <4>2. QED
        BY <4>1, <3>3, <2>2, <2>5 DEF FbReturned, Honoured
    <3>4. CASE had[c] # None /\ fbSelected # None
      <4>1. fbSelected = had[c] /\ p = had[c]
        BY <3>1, <3>4, <2>2 DEF Passed
      <4>2. QED
        BY <4>1, <3>4, <2>2, <2>5 DEF FbReturned, Honoured
    <3>5. QED
      BY <3>2, <3>3, <3>4
  <2>7. fbCalm'[c] => FallbackKnows(c)'
    BY <2>2, <2>5, <2>6 DEF FallbackKnows
  <2>8. QED
    BY <2>2, <2>4, <2>5, <2>7, FallbackCallerStep
<1>5. CASE FB!FallThrough(c)
  <2>1. PICK p : p = fbProxies[c][1]
    OBVIOUS
  <2>2. /\ fbPc[c] = "loop" /\ idx[c] > Len(fbProxies[c])
        /\ fbPc' = [fbPc EXCEPT ![c] = "idle"] /\ fbResult' = [fbResult EXCEPT ![c] = p]
        /\ UNCHANGED <<offered, fbAlive, fbSelected, testing, fbProxies, idx, fbCalm, had>>
    BY <1>5, <2>1 DEF FB!FallThrough, FB!Returns, FB!groupVars
  <2>3. p \in FB!All
    <3>1. fbProxies[c] # << >>
      BY <1>0, <2>2
    <3>2. 1 \in 1 .. Len(fbProxies[c])
      BY <3>1, <1>1
    <3>3. QED
      BY <3>2, <1>2, <2>1
  <2>4. FallbackType'
    BY <1>0, <1>1, <2>2, <2>3 DEF FallbackType, FbPlaces
  <2>5. /\ fbPc'[c] = "idle" /\ fbResult'[c] = p
        /\ \A d \in Callers \ {c} : fbPc'[d] = fbPc[d] /\ fbResult'[d] = fbResult[d]
    BY <1>1, <2>2
  <2>6. ASSUME fbCalm[c] PROVE FbReturned(c)'
    <3>1. Passed(c) /\ \A j \in 1 .. Len(fbProxies[c]) : j < idx[c]
      BY <1>0, <1>1, <2>2, <2>6 DEF FallbackKnows
    <3>2. CASE had[c] = None
      <4>1. ~FB!SomeAlive(fbProxies[c])
        BY <3>1, <3>2, <1>0, NoneAlive DEF Passed
      <4>2. ~FB!SomeAlive(fbProxies[c])'
        BY <4>1, <2>2, SameFirst
      <4>3. FirstOfAlive(c)'
        BY <4>2, <2>1, <2>2, <2>5 DEF FirstOfAlive
      <4>4. fbSelected = None /\ ~InList(None, c)
        BY <1>1, <1>2, <3>1, <3>2 DEF Passed, InList
      <4>5. QED
        BY <4>3, <4>4, <3>2, <2>2 DEF FbReturned, InList
    <3>3. CASE had[c] # None /\ fbSelected = None
      <4>1. ~fbAlive[had[c]]
        BY <3>1, <3>3 DEF Passed
      <4>2. QED
        BY <4>1, <3>3, <2>1, <2>2, <2>5 DEF FbReturned, Honoured
    <3>4. CASE had[c] # None /\ fbSelected # None
      <4>1. fbSelected = had[c] /\ ~InList(had[c], c)
        BY <3>1, <3>4 DEF Passed, InList
      <4>2. QED
        BY <4>1, <3>4, <2>2, <2>5 DEF FbReturned, InList
    <3>5. QED
      BY <3>2, <3>3, <3>4
  <2>7. fbCalm'[c] => FallbackKnows(c)'
    BY <2>2, <2>5, <2>6 DEF FallbackKnows
  <2>8. QED
    BY <2>2, <2>4, <2>5, <2>7, FallbackCallerStep
<1>6. CASE FB!Skip(c)
  <2>1. PICK n \in Nat \ {0} : n = idx[c] + 1
    BY <1>1
  <2>2. /\ fbPc[c] = "loop" /\ idx[c] <= Len(fbProxies[c]) /\ fbSelected # fbProxies[c][idx[c]]
        /\ fbSelected = None => ~fbAlive[fbProxies[c][idx[c]]]
        /\ fbPc' = [fbPc EXCEPT ![c] = "loop"] /\ idx' = [idx EXCEPT ![c] = n]
        /\ UNCHANGED <<offered, fbAlive, fbSelected, testing, fbProxies, fbResult, fbCalm, had>>
    BY <1>6, <2>1 DEF FB!Skip, FB!Current, FB!Advance, FB!groupVars
  <2>3. FallbackType'
    BY <1>0, <1>1, <2>1, <2>2 DEF FallbackType, FbPlaces
  <2>4. /\ fbPc'[c] = "loop" /\ idx'[c] = n
        /\ \A d \in Callers \ {c} : fbPc'[d] = fbPc[d] /\ idx'[d] = idx[d]
    BY <1>1, <2>2
  <2>5. ASSUME fbCalm[c] PROVE Passed(c)'
    <3>1. Passed(c)
      BY <1>0, <2>2, <2>5 DEF FallbackKnows
    <3>2. n <= Len(fbProxies[c]) + 1 /\ \A j \in 1 .. Len(fbProxies[c]) : j < n => j < idx[c] \/ j = idx[c]
      BY <1>1, <2>1, <2>2
    <3>3. QED
      BY <3>1, <3>2, <2>2, <2>4 DEF Passed
  <2>6. fbCalm'[c] => FallbackKnows(c)'
    BY <2>2, <2>4, <2>5 DEF FallbackKnows
  <2>7. fbProxies[c] # << >>
    BY <1>0, <2>2
  <2>8. QED
    BY <2>2, <2>3, <2>4, <2>6, <2>7, FallbackCallerStep
<1>7. CASE FB!MeetDeadSelected(c)
  <2>2. /\ fbPc[c] = "loop" /\ idx[c] <= Len(fbProxies[c]) /\ fbSelected = fbProxies[c][idx[c]] /\ ~fbAlive[fbSelected]
        /\ fbPc' = [fbPc EXCEPT ![c] = "deselect"]
        /\ UNCHANGED <<offered, fbAlive, fbSelected, testing, fbProxies, idx, fbResult, fbCalm, had>>
    BY <1>7 DEF FB!MeetDeadSelected, FB!Current, FB!groupVars
  <2>3. FallbackType'
    BY <1>0, <1>1, <2>2 DEF FallbackType, FbPlaces
  <2>4. fbPc'[c] = "deselect" /\ \A d \in Callers \ {c} : fbPc'[d] = fbPc[d]
    BY <1>1, <2>2
  <2>5. ASSUME fbCalm[c] PROVE Passed(c)'
    BY <1>0, <2>2, <2>5 DEF FallbackKnows, Passed
  <2>6. fbCalm'[c] => FallbackKnows(c)'
    BY <2>2, <2>4, <2>5 DEF FallbackKnows
  <2>7. fbProxies[c] # << >>
    BY <1>0, <2>2
  <2>8. QED
    BY <2>2, <2>3, <2>4, <2>6, <2>7, FallbackCallerStep
<1>8. CASE FB!Deselect(c)
  <2>1. PICK n \in Nat \ {0} : n = idx[c] + 1
    BY <1>1
  <2>2. /\ fbPc[c] = "deselect" /\ fbSelected' = None /\ fbCalm' = [d \in Callers |-> fbCalm[d] /\ d = c]
        /\ fbPc' = [fbPc EXCEPT ![c] = "loop"] /\ idx' = [idx EXCEPT ![c] = n]
        /\ UNCHANGED <<offered, fbAlive, testing, fbProxies, fbResult, had>>
    BY <1>8, <2>1 DEF FB!Deselect, FB!Advance
  <2>3. FallbackType'
    BY <1>0, <1>1, <2>1, <2>2 DEF FallbackType, FbPlaces
  <2>4. /\ fbPc'[c] = "loop" /\ idx'[c] = n /\ fbCalm'[c] = fbCalm[c]
        /\ \A d \in Callers \ {c} : fbPc'[d] = fbPc[d] /\ idx'[d] = idx[d] /\ fbCalm'[d] = FALSE
    BY <1>1, <2>2
  <2>5. ASSUME fbCalm[c] PROVE Passed(c)'
    <3>1. Passed(c) /\ idx[c] <= Len(fbProxies[c]) /\ fbSelected = fbProxies[c][idx[c]] /\ ~fbAlive[fbSelected]
      BY <1>0, <2>2, <2>5 DEF FallbackKnows
    <3>2. n <= Len(fbProxies[c]) + 1 /\ fbSelected # None
      BY <1>1, <1>2, <2>1, <3>1
    <3>3. had[c] # None /\ ~fbAlive[had[c]]
      BY <3>1, <3>2 DEF Passed
    <3>4. QED
      BY <3>2, <3>3, <2>1, <2>2, <2>4 DEF Passed
  <2>6. fbCalm'[c] => FallbackKnows(c)'
    BY <2>4, <2>5 DEF FallbackKnows
  <2>7. fbProxies[c] # << >>
    BY <1>0, <2>2
  <2>8. QED
    BY <2>2, <2>3, <2>4, <2>6, <2>7, FallbackCallerStep
<1>9. QED
  BY <1>3, <1>4, <1>5, <1>6, <1>7, <1>8 DEF FB!Caller

LEMMA FallbackStep == ASSUME FallbackInv, FB!Next PROVE FallbackInv'
<1>1. CASE \E c \in Callers : FB!Caller(c)
  BY <1>1, FallbackCaller
<1>2. CASE (\E p \in Names : FB!HealthChecked(p) \/ FB!ForceSet(p)) \/ (\E p \in FB!All : FB!Set(p))
           \/ FB!ProviderUpdated \/ FB!SetTested
  <2>1. FB!Disturb
    BY <1>2 DEF FB!HealthChecked, FB!ForceSet, FB!Set, FB!ProviderUpdated, FB!SetTested
  <2>2. /\ \A c \in Callers : ~fbCalm'[c]
        /\ fbCalm' \in [Callers -> BOOLEAN] /\ UNCHANGED <<fbPc, fbProxies, idx, fbResult, had>>
    BY <2>1 DEF FB!Disturb
  <2>3. /\ offered' \in Seq(Names) /\ fbAlive' \in [FB!All -> BOOLEAN]
        /\ fbSelected' \in FB!All \cup {None} /\ testing' \in FB!All \cup {None}
    <3>1. FallbackType
      BY DEF FallbackInv
    <3>2. CASE \E p \in Names : FB!HealthChecked(p)
      BY <3>1, <3>2 DEF FallbackType, FB!HealthChecked
    <3>3. CASE (\E p \in Names : FB!ForceSet(p)) \/ \E p \in FB!All : FB!Set(p)
      BY <3>1, <3>3 DEF FallbackType, FB!ForceSet, FB!Set, FB!All
    <3>4. CASE FB!ProviderUpdated
      BY <3>1, <3>4, FallbackAssumption DEF FallbackType, FB!ProviderUpdated
    <3>5. CASE FB!SetTested
      BY <3>1, <3>5 DEF FallbackType, FB!SetTested
    <3>6. QED
      BY <1>2, <3>2, <3>3, <3>4, <3>5
  <2>4. QED
    BY <2>2, <2>3 DEF FallbackInv, FallbackType
<1>3. QED
  BY <1>1, <1>2 DEF FB!Next

LEMMA FallbackRight ==
  ASSUME FallbackInv PROVE FB!FirstAliveInOrder /\ FB!SelectionHonoured /\ FB!DeadSelectionCleared
<1>1. ASSUME NEW c \in Callers, FB!Undisturbed(c) PROVE FbReturned(c)
  BY <1>1 DEF FallbackInv, FallbackKnows, FB!Undisturbed
<1>2. ASSUME NEW c \in Callers, NEW p PROVE p \in FB!Range(fbProxies[c]) <=> InList(p, c)
  <2>1. DOMAIN fbProxies[c] = 1 .. Len(fbProxies[c])
    BY <1>2 DEF FallbackInv, FallbackType
  <2>2. QED
    BY <2>1 DEF FB!Range, InList
<1>3. FB!FirstAliveInOrder
  BY <1>1 DEF FB!FirstAliveInOrder, FbReturned, FirstOfAlive
<1>4. FB!SelectionHonoured
  BY <1>1, <1>2 DEF FB!SelectionHonoured, FbReturned, Honoured
<1>5. FB!DeadSelectionCleared
  BY <1>1, <1>2 DEF FB!DeadSelectionCleared, FbReturned
<1>6. QED
  BY <1>3, <1>4, <1>5
-----------------------------------------------------------------------------
(* The url-test group *)

UtPlaces == {"idle", "called", "do", "loop"}

URLTestType ==
  /\ gen \in 1 .. Len(URLTestLists)
  /\ utAlive \in [UT!Everyone -> BOOLEAN] /\ utMeasured \in [UT!Everyone -> 0 .. UT!MaxDelay]
  /\ fastNode \in UT!Everyone \cup {None} /\ fast \in UT!Everyone \cup {None}
  /\ kept \in UT!Everyone \cup {None} /\ before \in UT!Everyone \cup {None}
  /\ k \in Nat \ {0} /\ min \in Nat
  /\ utPc \in [Callers -> UtPlaces] /\ utProxies \in [Callers -> Seq(UT!Everyone)]
  /\ utResult \in [Callers -> UT!Everyone \cup {None}] /\ utCalm \in [Callers -> BOOLEAN]

\* The proxies that the loop has looked at: the first k - 1 of the list.
Looked(c) == {j \in 1 .. Len(utProxies[c]) : j < k}

\* The loop of c has found the fastest of those proxies, and whether one after the
\* first has the name of the fast node.
Looping(c) ==
  /\ k >= 2 /\ k <= Len(utProxies[c]) + 1 /\ before = fastNode
  /\ \E j \in Looked(c) : fast = utProxies[c][j]
  /\ min = UT!LastDelay(fast)
  /\ \A j \in Looked(c) : min <= UT!LastDelay(utProxies[c][j])
  /\ fastNotExist = \A j \in Looked(c) : j = 1 \/ fastNode = None \/ NameOf(utProxies[c][j]) # NameOf(fastNode)

\* What the choice that c made, of the list l and leaving b, is like.
Least(l, m) == (\E j \in 1 .. Len(l) : m = UT!LastDelay(l[j])) /\ \A j \in 1 .. Len(l) : m <= UT!LastDelay(l[j])
Chosen(l, r, b) ==
  \E m \in 0 .. UT!MaxDelay :
    /\ Least(l, m)
    /\ \E j \in 1 .. Len(l) : NameOf(r) = NameOf(l[j])
    /\ UT!LastDelay(r) <= m + Tolerance
    /\ m < UT!MaxDelay => utAlive[r]
    /\ b # None /\ r # b =>
         \/ ~utAlive[b]
         \/ \A j \in 1 .. Len(l) : j = 1 \/ NameOf(l[j]) # NameOf(b)
         \/ UT!LastDelay(b) > (m + Tolerance) % (UT!MaxDelay + 1)

URLTestKnows(c) ==
  /\ utPc[c] = "loop" => Looping(c)
  /\ utPc[c] = "idle" /\ utResult[c] # None => Chosen(utProxies[c], utResult[c], before)
  /\ utPc[c] \in {"called", "do"} => utResult[c] = None

URLTestInv ==
  /\ URLTestType
  /\ \A c, d \in Callers : utPc[c] = "loop" /\ utPc[d] = "loop" => c = d
  /\ \A c \in Callers : utPc[c] # "idle" => utProxies[c] # << >>
  /\ \A c \in Callers : utPc[c] = "loop" => fast \in UT!Everyone
  /\ \A c \in Callers : utCalm[c] => URLTestKnows(c)

LEMMA Everyone ==
  /\ None \notin UT!Everyone
  /\ \A g \in 1 .. Len(URLTestLists) : URLTestLists[g] \in Seq(UT!Everyone) /\ URLTestLists[g] # << >>
<1>1. ASSUME NEW g \in 1 .. Len(URLTestLists)
      PROVE  /\ UT!Range(URLTestLists[g]) \subseteq Objects
             /\ URLTestLists[g] \in Seq(UT!Everyone) /\ URLTestLists[g] # << >>
  <2>1. URLTestLists[g] \in Seq(Objects) \ {<< >>}
    BY <1>1, URLTestListsAssumption, Zenon
  <2>2. PICK l \in Seq(Objects) : l = URLTestLists[g] /\ l # << >>
    BY <2>1
  <2>3. \A j \in 1 .. Len(l) : l[j] \in UT!Range(l)
    BY DEF UT!Range
  <2>4. UT!Range(l) \subseteq UT!Everyone
    BY <2>2, Zenon DEF UT!Everyone
  <2>5. l \in Seq(UT!Everyone)
    BY <2>3, <2>4
  <2>6. UT!Range(l) \subseteq Objects
    BY DEF UT!Range
  <2>7. QED
    BY <2>2, <2>5, <2>6, Zenon
<1>2. UT!Everyone \subseteq Objects
  BY <1>1 DEF UT!Everyone
<1>3. None \notin UT!Everyone
  BY <1>2, URLTestAssumption
<1>4. QED
  BY <1>1, <1>3, Zenon

LEMMA MaxDelayIsNat == UT!MaxDelay \in Nat \ {0}
BY DEF UT!MaxDelay

LEMMA DelayIsUint16 ==
  ASSUME utMeasured \in [UT!Everyone -> 0 .. UT!MaxDelay], NEW p \in UT!Everyone
  PROVE  UT!LastDelay(p) \in 0 .. UT!MaxDelay
<1>1. UT!MaxDelay \in Nat
  BY MaxDelayIsNat
<1>2. UT!LastDelay(p) = utMeasured[p] \/ UT!LastDelay(p) = UT!MaxDelay
  BY Zenon DEF UT!LastDelay
<1>3. utMeasured[p] \in 0 .. UT!MaxDelay
  OBVIOUS
<1>4. QED
  BY <1>1, <1>2, <1>3

LEMMA URLTestInitially == ASSUME UT!Init PROVE URLTestInv
<1>1. Len(URLTestLists) \in Nat \ {0}
  BY URLTestAssumption, Zenon
<1>2. 1 \in 1 .. Len(URLTestLists) /\ 1 \in Nat \ {0} /\ << >> \in Seq(UT!Everyone)
  BY <1>1
<1>3. URLTestType
  BY <1>2, MaxDelayIsNat DEF UT!Init, URLTestType, UtPlaces
<1>4. \A c \in Callers : utPc[c] = "idle" /\ utResult[c] = None /\ utCalm[c] = FALSE
  BY DEF UT!Init
<1>5. QED
  BY <1>3, <1>4 DEF URLTestInv, URLTestKnows

\* What a choice is like depends on the health of the proxies alone.
LEMMA SameDelay == ASSUME UNCHANGED <<utAlive, utMeasured>>, NEW p PROVE UT!LastDelay(p)' = UT!LastDelay(p)
BY DEF UT!LastDelay

LEMMA SameChosen ==
  ASSUME UNCHANGED <<utAlive, utMeasured>>, NEW l, NEW r, NEW b, Chosen(l, r, b) PROVE Chosen(l, r, b)'
<1>1. PICK m \in 0 .. UT!MaxDelay :
          /\ Least(l, m)
          /\ \E j \in 1 .. Len(l) : NameOf(r) = NameOf(l[j])
          /\ UT!LastDelay(r) <= m + Tolerance
          /\ m < UT!MaxDelay => utAlive[r]
          /\ b # None /\ r # b =>
               \/ ~utAlive[b]
               \/ \A j \in 1 .. Len(l) : j = 1 \/ NameOf(l[j]) # NameOf(b)
               \/ UT!LastDelay(b) > (m + Tolerance) % (UT!MaxDelay + 1)
  BY Zenon DEF Chosen
<1>2. Least(l, m)'
  BY SameDelay, <1>1, Zenon DEF Least
<1>3. UT!LastDelay(r)' = UT!LastDelay(r) /\ UT!LastDelay(b)' = UT!LastDelay(b)
  BY SameDelay, Zenon
<1>4. QED
  BY <1>1, <1>2, <1>3, Zenon DEF Chosen

\* What a caller knows depends on the health of the proxies, on its own call and,
\* in its loop, on where the loop is.
LEMMA URLTestOther ==
  ASSUME NEW c \in Callers, URLTestKnows(c), utPc'[c] = utPc[c], utProxies'[c] = utProxies[c], utResult'[c] = utResult[c],
         utAlive' = utAlive, utMeasured' = utMeasured, before' = before,
         utPc[c] = "loop" => k' = k /\ fast' = fast /\ min' = min /\ fastNotExist' = fastNotExist /\ fastNode' = fastNode
  PROVE  URLTestKnows(c)'
<1>1. \A p : UT!LastDelay(p)' = UT!LastDelay(p)
  BY DEF UT!LastDelay
<1>2. utPc[c] = "loop" => Looping(c)'
  BY <1>1 DEF URLTestKnows, Looping, Looked
<1>3. \A l, r, b : Chosen(l, r, b) => Chosen(l, r, b)'
  BY SameChosen
<1>4. utPc[c] = "idle" /\ utResult[c] # None => Chosen(utProxies[c], utResult[c], before)'
  BY <1>3, Zenon DEF URLTestKnows
<1>5. QED
  BY <1>2, <1>4, Zenon DEF URLTestKnows

\* The part of the invariant that does not depend on who is disturbed, after a
\* step of c that keeps its list and does not enter the loop.
LEMMA URLTestCallerStep ==
  ASSUME URLTestInv, NEW c \in Callers, URLTestType',
         \A d \in Callers : d # c => /\ utPc'[d] = utPc[d] /\ utProxies'[d] = utProxies[d] /\ utResult'[d] = utResult[d]
                                     /\ utCalm'[d] => utCalm[d],
         \A d \in Callers : d # c /\ utPc[d] = "loop" => UNCHANGED <<k, fast, min, fastNotExist, fastNode>>,
         UNCHANGED <<utAlive, utMeasured, before>>,
         utPc'[c] # "idle" => utProxies'[c] # << >>,
         utPc'[c] = "loop" => utPc[c] = "loop" /\ fast' \in UT!Everyone,
         utCalm'[c] => URLTestKnows(c)'
  PROVE  URLTestInv'
<1>1. \A d, e \in Callers : utPc'[d] = "loop" /\ utPc'[e] = "loop" => d = e
  BY DEF URLTestInv
<1>2. \A d \in Callers : utPc'[d] # "idle" => utProxies'[d] # << >>
  BY DEF URLTestInv
<1>3. \A d \in Callers : utPc'[d] = "loop" => fast' \in UT!Everyone
  BY DEF URLTestInv
<1>4. ASSUME NEW d \in Callers, utCalm'[d] PROVE URLTestKnows(d)'
  <2>1. CASE d = c
    BY <1>4, <2>1
  <2>2. CASE d # c
    <3>1. URLTestKnows(d)
      BY <1>4, <2>2 DEF URLTestInv
    <3>2. QED
      BY <3>1, <2>2, URLTestOther
  <2>3. QED
    BY <2>1, <2>2
<1>5. QED
  BY <1>1, <1>2, <1>3, <1>4 DEF URLTestInv

\* Between its choices a caller gets its list, and what it returns it did not choose.
LEMMA URLTestApart ==
  ASSUME URLTestInv, NEW c \in Callers, UT!Call(c) \/ UT!UseSelected(c) \/ UT!PassSelected(c) \/ UT!UseKept(c)
  PROVE  URLTestInv'
<1>0. /\ URLTestType
      /\ utCalm[c] => URLTestKnows(c)
      /\ utPc[c] # "idle" => utProxies[c] # << >>
  BY DEF URLTestInv
<1>1. CASE UT!Call(c)
  <2>1. gen \in 1 .. Len(URLTestLists) /\ URLTestLists[gen] \in Seq(UT!Everyone) /\ URLTestLists[gen] # << >>
    BY <1>0, Everyone, Zenon DEF URLTestType
  <2>2. PICK l \in Seq(UT!Everyone) : l = URLTestLists[gen] /\ l # << >>
    BY <2>1, Zenon
  <2>3. /\ utProxies' = [utProxies EXCEPT ![c] = l] /\ utResult' = [utResult EXCEPT ![c] = None]
        /\ utPc' = [utPc EXCEPT ![c] = "called"]
        /\ UNCHANGED <<gen, utAlive, utMeasured, k, fast, min, fastNotExist, before, fastNode, kept, utCalm>>
    BY <1>1, <2>2, Zenon DEF UT!Call, UT!groupVars, UT!loopVars
  <2>4. URLTestType'
    BY <1>0, <2>3 DEF URLTestType, UtPlaces
  <2>5. /\ utPc'[c] = "called" /\ utProxies'[c] = l /\ utResult'[c] = None
        /\ \A d \in Callers : d # c => utPc'[d] = utPc[d] /\ utProxies'[d] = utProxies[d] /\ utResult'[d] = utResult[d]
    BY <1>0, <2>3 DEF URLTestType
  <2>6. URLTestKnows(c)'
    BY <2>5 DEF URLTestKnows
  <2>7. QED
    BY <2>2, <2>3, <2>4, <2>5, <2>6, URLTestCallerStep
<1>2. CASE UT!UseSelected(c)
  <2>1. PICK p \in UT!SelectedAlive(c) :
          /\ fastNode' = p /\ utCalm' = [d \in Callers |-> FALSE]
          /\ utResult' = [utResult EXCEPT ![c] = p] /\ utPc' = [utPc EXCEPT ![c] = "idle"]
          /\ UNCHANGED <<gen, utAlive, utMeasured, utProxies, k, fast, min, fastNotExist, before, kept>>
    BY <1>2 DEF UT!UseSelected, UT!Returns, UT!groupVars, UT!loopVars
  <2>2. p \in UT!Everyone
    BY <1>0, <2>1 DEF UT!SelectedAlive, UT!Range, URLTestType
  <2>3. URLTestType'
    BY <1>0, <2>1, <2>2 DEF URLTestType, UtPlaces
  <2>4. /\ \A d \in Callers : ~utCalm'[d] /\ utProxies'[d] = utProxies[d]
        /\ utPc'[c] = "idle" /\ \A d \in Callers : d # c => utPc'[d] = utPc[d]
        /\ fast' = fast
    BY <1>0, <2>1 DEF URLTestType
  <2>5. QED
    BY <2>3, <2>4 DEF URLTestInv
<1>3. CASE UT!PassSelected(c)
  <2>1. /\ utPc[c] = "called" /\ utPc' = [utPc EXCEPT ![c] = "do"]
        /\ UNCHANGED <<gen, utAlive, utMeasured, utProxies, utResult, k, fast, min, fastNotExist, before, fastNode, kept, utCalm>>
    BY <1>3 DEF UT!PassSelected, UT!groupVars, UT!loopVars
  <2>2. URLTestType'
    BY <1>0, <2>1 DEF URLTestType, UtPlaces
  <2>3. utPc'[c] = "do" /\ \A d \in Callers : d # c => utPc'[d] = utPc[d]
    BY <1>0, <2>1 DEF URLTestType
  <2>4. utCalm'[c] => URLTestKnows(c)'
    BY <1>0, <2>1, <2>3 DEF URLTestKnows
  <2>5. QED
    BY <1>0, <2>1, <2>2, <2>3, <2>4, URLTestCallerStep
<1>4. CASE UT!UseKept(c)
  <2>1. /\ utCalm' = [utCalm EXCEPT ![c] = FALSE]
        /\ utResult' = [utResult EXCEPT ![c] = kept] /\ utPc' = [utPc EXCEPT ![c] = "idle"]
        /\ UNCHANGED <<gen, utAlive, utMeasured, utProxies, k, fast, min, fastNotExist, before, fastNode, kept>>
    BY <1>4 DEF UT!UseKept, UT!Returns, UT!groupVars, UT!loopVars
  <2>2. URLTestType'
    BY <1>0, <2>1 DEF URLTestType, UtPlaces
  <2>3. /\ utPc'[c] = "idle" /\ ~utCalm'[c]
        /\ \A d \in Callers : d # c => utPc'[d] = utPc[d] /\ utResult'[d] = utResult[d] /\ utCalm'[d] = utCalm[d]
    BY <1>0, <2>1 DEF URLTestType
  <2>4. QED
    BY <2>1, <2>2, <2>3, URLTestCallerStep
<1>5. QED
  BY <1>1, <1>2, <1>3, <1>4

LEMMA URLTestLead == ASSUME URLTestInv, NEW c \in Callers, UT!Lead(c) PROVE URLTestInv'
<1>1. /\ URLTestType
      /\ utPc[c] = "do" /\ utProxies[c] # << >>
  BY DEF URLTestInv, UT!Lead
<1>2. PICK l \in Seq(UT!Everyone) : l = utProxies[c] /\ l # << >>
  BY <1>1 DEF URLTestType
<1>3. l[1] \in UT!Everyone /\ Len(l) \in Nat /\ Len(l) >= 1
  BY <1>2
<1>4. PICK p \in UT!Everyone : p = l[1]
  BY <1>3
<1>5. PICK m \in 0 .. UT!MaxDelay : m = UT!LastDelay(p)
  BY <1>1, DelayIsUint16 DEF URLTestType
<1>6. /\ fast' = p /\ min' = m /\ fastNotExist' = TRUE /\ k' = 2 /\ before' = fastNode
      /\ utCalm' = [d \in Callers |-> d = c] /\ utPc' = [utPc EXCEPT ![c] = "loop"]
      /\ \A d \in Callers : utPc[d] # "loop"
      /\ UNCHANGED <<gen, utAlive, utMeasured, utProxies, utResult, fastNode, kept>>
  BY <1>2, <1>4, <1>5 DEF UT!Lead, UT!groupVars
<1>7. URLTestType'
  BY <1>1, <1>6, MaxDelayIsNat DEF URLTestType, UtPlaces
<1>8. /\ utPc'[c] = "loop" /\ \A d \in Callers : d # c => utPc'[d] = utPc[d]
      /\ \A d \in Callers : utCalm'[d] => d = c
      /\ utProxies'[c] = l
  BY <1>1, <1>2, <1>6 DEF URLTestType
<1>9. \A j \in Looked(c)' : j = 1
  BY <1>3, <1>6, <1>8 DEF Looked
<1>10. 1 \in Looked(c)'
  BY <1>3, <1>6, <1>8 DEF Looked
<1>11. UT!LastDelay(p)' = m
  BY <1>5, <1>6, SameDelay
<1>12. Looping(c)'
  <2>1. k' >= 2 /\ k' <= Len(l) + 1 /\ before' = fastNode'
    BY <1>3, <1>6
  <2>2. \A j \in Looked(c)' : utProxies'[c][j] = p
    BY <1>4, <1>8, <1>9
  <2>3. m <= m
    BY <1>5, MaxDelayIsNat
  <2>4. QED
    BY <1>6, <1>8, <1>9, <1>10, <1>11, <2>1, <2>2, <2>3 DEF Looping
<1>13. URLTestKnows(c)'
  BY <1>8, <1>12 DEF URLTestKnows
<1>14. QED
  <2>1. \A d \in Callers : utPc'[d] = "loop" => d = c
    BY <1>6, <1>8
  <2>2. \A d \in Callers : utPc'[d] # "idle" => utProxies'[d] # << >>
    BY <1>1, <1>6, <1>8 DEF URLTestInv
  <2>3. \A d \in Callers : utCalm'[d] => URLTestKnows(d)'
    BY <1>8, <1>13
  <2>4. QED
    BY <1>4, <1>6, <1>7, <2>1, <2>2, <2>3 DEF URLTestInv

LEMMA URLTestLook == ASSUME URLTestInv, NEW c \in Callers, UT!Look(c) PROVE URLTestInv'
<1>1. /\ URLTestType
      /\ utPc[c] = "loop" /\ utProxies[c] # << >> /\ fast \in UT!Everyone
      /\ \A d \in Callers : utPc[d] = "loop" => d = c
      /\ utCalm[c] => Looping(c)
  BY DEF URLTestInv, URLTestKnows, UT!Look
<1>2. PICK l \in Seq(UT!Everyone) : l = utProxies[c] /\ l # << >>
  BY <1>1 DEF URLTestType
<1>3. PICK i \in Nat \ {0} : i = k /\ i <= Len(l)
  BY <1>1, <1>2 DEF URLTestType, UT!Look
<1>4. PICK p \in UT!Everyone : p = l[i]
  BY <1>2, <1>3
<1>5. PICK m \in 0 .. UT!MaxDelay : m = UT!LastDelay(p)
  BY <1>1, DelayIsUint16 DEF URLTestType
<1>6. /\ fastNotExist' = (fastNotExist /\ (fastNode = None \/ NameOf(p) # NameOf(fastNode)))
      /\ fast' = (IF utAlive[p] /\ m < min THEN p ELSE fast)
      /\ min' = (IF utAlive[p] /\ m < min THEN m ELSE min)
      /\ k' = i + 1
      /\ UNCHANGED <<gen, utAlive, utMeasured, utPc, utProxies, utResult, before, fastNode, kept, utCalm>>
  BY <1>2, <1>3, <1>4, <1>5 DEF UT!Look, UT!groupVars, UT!callVars
<1>7. fast' \in UT!Everyone /\ min' \in Nat
  BY <1>1, <1>6, MaxDelayIsNat DEF URLTestType
<1>8. URLTestType'
  BY <1>1, <1>6, <1>7 DEF URLTestType
<1>9. \A q : UT!LastDelay(q)' = UT!LastDelay(q)
  BY <1>6, SameDelay
<1>10. ASSUME Looping(c) PROVE Looping(c)'
  <2>1. /\ i >= 2 /\ before = fastNode /\ min = UT!LastDelay(fast)
        /\ \E j \in Looked(c) : fast = l[j]
        /\ \A j \in Looked(c) : min <= UT!LastDelay(l[j])
        /\ fastNotExist = \A j \in Looked(c) : j = 1 \/ fastNode = None \/ NameOf(l[j]) # NameOf(fastNode)
    BY <1>2, <1>3, <1>10 DEF Looping
  <2>2. \A j : j \in Looked(c)' <=> j \in Looked(c) \/ j = i
    BY <1>2, <1>3, <1>6 DEF Looked
  <2>3. \A j \in Looked(c) : l[j] \in UT!Everyone
    BY <1>2 DEF Looked
  <2>4. \A j \in Looked(c) : UT!LastDelay(l[j]) \in 0 .. UT!MaxDelay
    BY <1>1, <2>3, DelayIsUint16 DEF URLTestType
  <2>5. min \in 0 .. UT!MaxDelay
    BY <1>1, <2>1, DelayIsUint16 DEF URLTestType
  <2>6. min' <= m /\ min' <= min
    <3>1. ~utAlive[p] => m = UT!MaxDelay
      BY <1>5 DEF UT!LastDelay
    <3>2. QED
      BY <1>6, <2>5, <3>1, MaxDelayIsNat
  <2>7. \A j \in Looked(c)' : min' <= UT!LastDelay(l[j])
    BY <1>4, <1>5, <1>7, <2>2, <2>4, <2>1, <2>5, <2>6, MaxDelayIsNat
  <2>8. min' = UT!LastDelay(fast')
    BY <1>5, <1>6, <2>1
  <2>9. \E j \in Looked(c)' : fast' = l[j]
    BY <1>4, <1>6, <2>1, <2>2
  <2>10. fastNotExist' = \A j \in Looked(c)' : j = 1 \/ fastNode = None \/ NameOf(l[j]) # NameOf(fastNode)
    <3>1. i # 1
      BY <2>1
    <3>2. QED
      BY <1>4, <1>6, <2>1, <2>2, <3>1
  <2>11. k' >= 2 /\ k' <= Len(l) + 1 /\ before' = fastNode' /\ utProxies'[c] = l
    BY <1>2, <1>3, <1>6, <2>1
  <2>12. min' = UT!LastDelay(fast)'
    BY <1>9, <2>8
  <2>13. \A j \in Looked(c)' : min' <= UT!LastDelay(l[j])'
    BY <1>9, <2>7
  <2>14. QED
    BY <1>6, <2>9, <2>10, <2>11, <2>12, <2>13 DEF Looping
<1>11. utCalm'[c] => URLTestKnows(c)'
  BY <1>1, <1>6, <1>10 DEF URLTestKnows
<1>12. QED
  <2>1. \A d \in Callers : d # c => utPc[d] # "loop"
    BY <1>1
  <2>2. utProxies'[c] # << >>
    BY <1>1, <1>6
  <2>3. QED
    BY <1>1, <1>6, <1>7, <1>8, <1>11, <2>1, <2>2, URLTestCallerStep

LEMMA Wrapped == ASSUME NEW s \in Nat PROVE s % (UT!MaxDelay + 1) <= s /\ s % (UT!MaxDelay + 1) \in Nat
<1>1. PICK u \in Nat \ {0} : u = UT!MaxDelay + 1
  BY MaxDelayIsNat
<1>2. s % u <= s /\ s % u \in Nat
  OBVIOUS
<1>3. QED
  BY <1>1, <1>2

LEMMA URLTestChoose == ASSUME URLTestInv, NEW c \in Callers, UT!Choose(c) PROVE URLTestInv'
<1>1. /\ URLTestType
      /\ utPc[c] = "loop" /\ utProxies[c] # << >> /\ fast \in UT!Everyone
      /\ \A d \in Callers : utPc[d] = "loop" => d = c
      /\ utCalm[c] => Looping(c)
  BY DEF URLTestInv, URLTestKnows, UT!Choose
<1>2. PICK l \in Seq(UT!Everyone) : l = utProxies[c]
  BY <1>1 DEF URLTestType
<1>3. PICK r : r = IF UT!Switches THEN fast ELSE fastNode
  OBVIOUS
<1>4. r \in UT!Everyone /\ r # None
  <2>1. ~UT!Switches => fastNode \in UT!Everyone
    BY <1>1 DEF UT!Switches, URLTestType
  <2>2. QED
    BY <1>1, <1>3, <2>1, Everyone
<1>5. /\ k > Len(l)
      /\ fastNode' = r /\ kept' = r
      /\ utResult' = [utResult EXCEPT ![c] = r] /\ utPc' = [utPc EXCEPT ![c] = "idle"]
      /\ UNCHANGED <<gen, utAlive, utMeasured, utProxies, k, fast, min, fastNotExist, before, utCalm>>
  BY <1>2, <1>3 DEF UT!Choose, UT!Returns, UT!groupVars, UT!loopVars
<1>6. URLTestType'
  BY <1>1, <1>4, <1>5 DEF URLTestType, UtPlaces
<1>7. /\ utPc'[c] = "idle" /\ utResult'[c] = r /\ utProxies'[c] = l
      /\ \A d \in Callers : d # c => utPc'[d] = utPc[d] /\ utResult'[d] = utResult[d]
  BY <1>1, <1>2, <1>5 DEF URLTestType
<1>8. ASSUME Looping(c) PROVE Chosen(l, r, before)
  <2>1. PICK m \in 0 .. UT!MaxDelay : m = UT!LastDelay(fast)
    BY <1>1, DelayIsUint16 DEF URLTestType
  <2>2. \A j : j \in Looked(c) <=> j \in 1 .. Len(l)
    BY <1>1, <1>2, <1>5 DEF Looked, URLTestType
  <2>3. /\ before = fastNode
        /\ \E j \in 1 .. Len(l) : fast = l[j]
        /\ \A j \in 1 .. Len(l) : m <= UT!LastDelay(l[j])
        /\ fastNotExist = \A j \in 1 .. Len(l) : j = 1 \/ fastNode = None \/ NameOf(l[j]) # NameOf(fastNode)
    BY <1>2, <1>8, <2>1, <2>2 DEF Looping
  <2>4. Least(l, m)
    BY <2>1, <2>3 DEF Least
  <2>5. m < UT!MaxDelay => utAlive[fast]
    BY <2>1, MaxDelayIsNat DEF UT!LastDelay
  <2>6. UT!Switches <=> \/ fastNode = None \/ fastNotExist
                        \/ ~utAlive[fastNode] \/ UT!LastDelay(fastNode) > (m + Tolerance) % (UT!MaxDelay + 1)
    BY <2>1, Zenon DEF UT!Switches
  <2>7. m + Tolerance \in Nat /\ m <= m + Tolerance
    BY <2>1, MaxDelayIsNat, URLTestAssumption
  <2>8. PICK w \in Nat : w = (m + Tolerance) % (UT!MaxDelay + 1) /\ w <= m + Tolerance
    BY <2>7, Wrapped
  <2>9. CASE UT!Switches
    <3>1. r = fast
      BY <1>3, <2>9
    <3>2. \E j \in 1 .. Len(l) : NameOf(r) = NameOf(l[j])
      BY <2>3, <3>1
    <3>3. UT!LastDelay(r) <= m + Tolerance
      BY <2>1, <2>7, <3>1
    <3>4. before # None /\ r # before =>
            \/ ~utAlive[before]
            \/ \A j \in 1 .. Len(l) : j = 1 \/ NameOf(l[j]) # NameOf(before)
            \/ UT!LastDelay(before) > (m + Tolerance) % (UT!MaxDelay + 1)
      BY <2>3, <2>6, <2>9, Zenon
    <3>5. m < UT!MaxDelay => utAlive[r]
      BY <2>5, <3>1
    <3>6. QED
      BY <2>4, <3>2, <3>3, <3>4, <3>5, Zenon DEF Chosen
  <2>10. CASE ~UT!Switches
    <3>1. r = fastNode /\ r = before
      BY <1>3, <2>3, <2>10
    <3>2. \E j \in 1 .. Len(l) : NameOf(r) = NameOf(l[j])
      BY <2>3, <2>6, <2>10, <3>1, Zenon
    <3>3. UT!LastDelay(r) <= m + Tolerance
      <4>1. UT!LastDelay(r) \in 0 .. UT!MaxDelay
        BY <1>1, <1>4, DelayIsUint16 DEF URLTestType
      <4>2. ~(UT!LastDelay(r) > w)
        BY <2>6, <2>8, <2>10, <3>1, Zenon
      <4>3. QED
        BY <2>7, <2>8, <4>1, <4>2, MaxDelayIsNat
    <3>4. utAlive[r]
      BY <2>6, <2>10, <3>1, Zenon
    <3>5. QED
      BY <2>4, <3>1, <3>2, <3>3, <3>4, Zenon DEF Chosen
  <2>11. QED
    BY <2>9, <2>10
<1>9. PICK b : b = before
  OBVIOUS
<1>10. Looping(c) => Chosen(l, r, b)'
  BY <1>5, <1>8, <1>9, SameChosen
<1>11. utCalm'[c] => URLTestKnows(c)'
  BY <1>1, <1>5, <1>7, <1>9, <1>10 DEF URLTestKnows
<1>12. QED
  BY <1>1, <1>5, <1>6, <1>7, <1>11, URLTestCallerStep

LEMMA URLTestStep == ASSUME URLTestInv, UT!Next PROVE URLTestInv'
<1>0. URLTestType
  BY DEF URLTestInv
<1>1. CASE \E c \in Callers : UT!Caller(c)
  BY <1>1, URLTestApart, URLTestLead, URLTestLook, URLTestChoose DEF UT!Caller
<1>2. CASE (\E p \in UT!Made : UT!Tested(p) \/ UT!Select(NameOf(p))) \/ UT!ProviderUpdated
  <2>1. UT!Move
    BY <1>2 DEF UT!Tested, UT!Select, UT!ProviderUpdated
  <2>2. /\ utCalm' = [c \in Callers |-> FALSE]
        /\ UNCHANGED <<utPc, utProxies, utResult, k, fast, min, fastNotExist, before, fastNode, kept>>
    BY <2>1 DEF UT!Move, UT!callVars, UT!loopVars
  <2>3. /\ gen' \in 1 .. Len(URLTestLists) /\ utAlive' \in [UT!Everyone -> BOOLEAN]
        /\ utMeasured' \in [UT!Everyone -> 0 .. UT!MaxDelay]
    <3>1. CASE \E p \in UT!Made : UT!Tested(p)
      <4>1. PICK p \in UT!Made : UT!Tested(p)
        BY <3>1
      <4>2. Delays \cup {0} \subseteq 0 .. UT!MaxDelay
        BY URLTestAssumption, MaxDelayIsNat
      <4>3. CASE utAlive' = [utAlive EXCEPT ![p] = FALSE] /\ UNCHANGED <<utMeasured, gen>>
        BY <1>0, <4>3 DEF URLTestType
      <4>4. CASE /\ utAlive' = [utAlive EXCEPT ![p] = TRUE] /\ UNCHANGED gen
                 /\ \E d \in Delays \cup {0} : utMeasured' = [utMeasured EXCEPT ![p] = d]
        BY <1>0, <4>2, <4>4 DEF URLTestType
      <4>5. QED
        BY <4>1, <4>3, <4>4 DEF UT!Tested
    <3>2. CASE \E p \in UT!Made : UT!Select(NameOf(p))
      BY <1>0, <3>2 DEF URLTestType, UT!Select
    <3>3. CASE UT!ProviderUpdated
      <4>1. Len(URLTestLists) \in Nat
        BY URLTestAssumption, Zenon
      <4>2. QED
        BY <1>0, <3>3, <4>1 DEF URLTestType, UT!ProviderUpdated
    <3>4. QED
      BY <1>2, <3>1, <3>2, <3>3
  <2>4. URLTestType'
    BY <1>0, <2>2, <2>3 DEF URLTestType
  <2>5. QED
    BY <2>2, <2>4 DEF URLTestInv
<1>3. CASE UT!Expire
  <2>1. /\ kept' = None
        /\ UNCHANGED <<gen, utAlive, utMeasured, utPc, utProxies, utResult, k, fast, min, fastNotExist, before, fastNode, utCalm>>
    BY <1>3 DEF UT!Expire, UT!groupVars, UT!callVars, UT!loopVars
  <2>2. URLTestType'
    BY <1>0, <2>1 DEF URLTestType
  <2>3. \A c \in Callers : utCalm'[c] => URLTestKnows(c)'
    BY <2>1, URLTestOther DEF URLTestInv
  <2>4. QED
    BY <2>1, <2>2, <2>3 DEF URLTestInv
<1>4. QED
  BY <1>1, <1>2, <1>3 DEF UT!Next

\* The lowest delay of a list is the one a choice measures its own against.
LEMMA BestIsLeast ==
  ASSUME URLTestType, NEW c \in Callers, NEW m \in 0 .. UT!MaxDelay, Least(utProxies[c], m)
  PROVE  UT!Best(c) = m
<1> DEFINE S == {UT!LastDelay(p) : p \in UT!Range(utProxies[c])}
           Lowest(d) == \A p \in UT!Range(utProxies[c]) : d <= UT!LastDelay(p)
<1>1. PICK l \in Seq(UT!Everyone) : l = utProxies[c]
  BY DEF URLTestType
<1>2. \A p : p \in UT!Range(utProxies[c]) <=> \E j \in 1 .. Len(l) : p = l[j]
  BY <1>1 DEF UT!Range
<1>3. m \in S /\ Lowest(m)
  BY <1>1, <1>2 DEF Least
<1>4. ASSUME NEW d \in S, Lowest(d) PROVE d = m
  <2>1. PICK p \in UT!Everyone : p \in UT!Range(utProxies[c]) /\ d = UT!LastDelay(p)
    BY <1>2, <1>4
  <2>2. d \in 0 .. UT!MaxDelay
    BY <2>1, DelayIsUint16 DEF URLTestType
  <2>3. m <= d
    BY <1>3, <2>1
  <2>4. PICK q \in UT!Range(utProxies[c]) : m = UT!LastDelay(q)
    BY <1>3
  <2>5. d <= m
    BY <1>4, <2>4
  <2>6. QED
    BY <2>2, <2>3, <2>5, MaxDelayIsNat
<1>5. UT!Best(c) = CHOOSE d \in S : Lowest(d)
  BY DEF UT!Best
<1> HIDE DEF S, Lowest
<1>6. QED
  BY <1>3, <1>4, <1>5

LEMMA URLTestRight ==
  ASSUME URLTestInv
  PROVE  UT!ChoiceIsOffered /\ UT!ChoiceWithinTolerance /\ UT!DeadOnlyIfNothingMeasured /\ UT!SwitchIsJustified
<1>1. ASSUME NEW c \in Callers, UT!JustChosen(c)
      PROVE  /\ NameOf(utResult[c]) \in UT!Named(c)
             /\ UT!LastDelay(utResult[c]) <= UT!Best(c) + Tolerance
             /\ UT!Best(c) < UT!MaxDelay => utAlive[utResult[c]]
             /\ before # None /\ utResult[c] # before =>
                  \/ ~utAlive[before]
                  \/ NameOf(before) \notin UT!Named(c) \/ NameOf(before) = NameOf(utProxies[c][1])
                  \/ UT!LastDelay(before) > (UT!Best(c) + Tolerance) % (UT!MaxDelay + 1)
  <2>1. URLTestType /\ Chosen(utProxies[c], utResult[c], before)
    BY <1>1 DEF URLTestInv, URLTestKnows, UT!JustChosen
  <2>2. PICK l \in Seq(UT!Everyone) : l = utProxies[c]
    BY <2>1 DEF URLTestType
  <2>3. PICK m \in 0 .. UT!MaxDelay :
          /\ Least(l, m)
          /\ \E j \in 1 .. Len(l) : NameOf(utResult[c]) = NameOf(l[j])
          /\ UT!LastDelay(utResult[c]) <= m + Tolerance
          /\ m < UT!MaxDelay => utAlive[utResult[c]]
          /\ before # None /\ utResult[c] # before =>
               \/ ~utAlive[before]
               \/ \A j \in 1 .. Len(l) : j = 1 \/ NameOf(l[j]) # NameOf(before)
               \/ UT!LastDelay(before) > (m + Tolerance) % (UT!MaxDelay + 1)
    BY <2>1, <2>2, Zenon DEF Chosen
  <2>4. UT!Best(c) = m
    BY <2>1, <2>2, <2>3, BestIsLeast
  <2>5. \A n : n \in UT!Named(c) <=> \E j \in 1 .. Len(l) : n = NameOf(l[j])
    BY <2>2 DEF UT!Named, UT!Range
  <2>6. (\A j \in 1 .. Len(l) : j = 1 \/ NameOf(l[j]) # NameOf(before)) =>
          NameOf(before) \notin UT!Named(c) \/ NameOf(before) = NameOf(utProxies[c][1])
    BY <2>2, <2>5
  <2>7. QED
    BY <2>3, <2>4, <2>5, <2>6, Zenon
<1>2. QED
  BY <1>1, Zenon DEF UT!ChoiceIsOffered, UT!ChoiceWithinTolerance, UT!DeadOnlyIfNothingMeasured, UT!SwitchIsJustified
-----------------------------------------------------------------------------
(* The groups together: a behaviour is about one component, and the others keep
   their initial states. *)

LEMMA GroupsInv == RunSpec => [](FallbackInv /\ URLTestInv)
<1>1. RunInit => FallbackInv /\ URLTestInv
  BY FallbackInitially, URLTestInitially DEF RunInit
<1>2. FallbackInv /\ URLTestInv /\ [RunNext]_<<active, vars, fbVars, utVars, gb, lb>> => (FallbackInv /\ URLTestInv)'
  <2> SUFFICES ASSUME FallbackInv, URLTestInv, [RunNext]_<<active, vars, fbVars, utVars, gb, lb>>
               PROVE  FallbackInv' /\ URLTestInv'
    OBVIOUS
  <2>1. UNCHANGED fbVars => FallbackInv'
    <3>1. ASSUME UNCHANGED fbVars PROVE FallbackInv'
      <4>1. UNCHANGED <<offered, fbAlive, fbSelected, testing, fbPc, fbProxies, idx, fbResult, fbCalm, had>>
        BY <3>1 DEF fbVars
      <4>2. FallbackType'
        BY <4>1 DEF FallbackInv, FallbackType
      <4>3. ASSUME NEW c \in Callers PROVE FallbackKnows(c)' <=> FallbackKnows(c)
        <5>1. /\ FB!SomeAlive(fbProxies[c])' <=> FB!SomeAlive(fbProxies[c])
              /\ FB!FirstAlive(fbProxies[c])' = FB!FirstAlive(fbProxies[c])
          BY <4>1, SameFirst
        <5>2. Passed(c)' <=> Passed(c)
          BY <4>1 DEF Passed
        <5>3. FbReturned(c)' <=> FbReturned(c)
          BY <4>1, <5>1 DEF FbReturned, FirstOfAlive, Honoured, InList
        <5>4. QED
          BY <4>1, <5>2, <5>3 DEF FallbackKnows
      <4>4. QED
        BY <4>1, <4>2, <4>3 DEF FallbackInv
    <3>2. QED
      BY <3>1
  <2>2. UNCHANGED utVars => URLTestInv'
    <3>1. ASSUME UNCHANGED utVars PROVE URLTestInv'
      <4>1. UNCHANGED <<gen, utAlive, utMeasured, fastNode, kept, utPc, utProxies, utResult, utCalm,
                        k, fast, min, fastNotExist, before>>
        BY <3>1 DEF utVars
      <4>2. URLTestType'
        BY <4>1 DEF URLTestInv, URLTestType
      <4>3. \A c \in Callers : URLTestKnows(c) => URLTestKnows(c)'
        BY <4>1, URLTestOther
      <4>4. QED
        BY <4>1, <4>2, <4>3 DEF URLTestInv
    <3>2. QED
      BY <3>1
  <2>3. CASE FB!Next /\ UNCHANGED utVars
    BY <2>2, <2>3, FallbackStep
  <2>4. CASE UT!Next /\ UNCHANGED fbVars
    BY <2>1, <2>4, URLTestStep
  <2>5. CASE UNCHANGED <<fbVars, utVars>>
    BY <2>1, <2>2, <2>5
  <2>6. QED
    BY <2>3, <2>4, <2>5 DEF RunNext
<1>3. QED
  BY <1>1, <1>2, PTL DEF RunSpec

(* A group chooses what its kind promises: the fallback group the first proxy *)
(* that is alive or the selection, the url-test group one within the tolerance *)
(* of the fastest; for any lists, callers, delays, tolerance and tests.        *)
THEOREM GroupsRight == RunSpec => []GroupsChooseRight
<1>1. FallbackInv /\ URLTestInv => GroupsChooseRight
  BY FallbackRight, URLTestRight DEF GroupsChooseRight
<1>2. QED
  BY <1>1, GroupsInv, PTL
=============================================================================
