-------------------------- MODULE LocalCachesProofs --------------------------
(* Proofs about the in-memory handlers, for any keys, callers and capacities: what they
   lose is what a bounded map may lose, and their lists match their maps. *)
EXTENDS LocalCaches, Sequences, FiniteSetTheorems, WellFoundedInduction, TLAPS

(* A step is one of the component that runs, and leaves the others alone. *)
LEMMA Steps ==
  ASSUME [Next]_vars
  PROVE  [L!Next]_(L!vars) /\ [C!Next]_(C!vars) /\ [E!Next]_(E!vars)
  BY DEF Next, Expiring, Pool, vars, lvars, cvars, evars, pvars, L!vars, C!vars, E!vars

-----------------------------------------------------------------------------
(* ExpiringCache. *)

(* The keys are finitely many, and none is the model's "none". *)
FewKeysFinite == IsFiniteSet(FewKeys) /\ "none" \notin FewKeys

ExpiringTyped ==
  /\ eLife \in [FewKeys -> {"absent", "kept", "ttl", "expired"}]
  /\ eCall \in [Procs -> [op : E!Ops \cup {"idle"},
                         at : {"end", "locked", "purge", "store", "wait"}, keys : SUBSET FewKeys]]
(* Only GetOrCompute goes on to store what it has loaded. *)
StoresLoaded == \A p \in Procs : E!At(p, "store") => E!Op(p, {"compute"})
ExpiringInv == ExpiringTyped /\ StoresLoaded

(* What BoundedMap sees of the calls. *)
ExpiringCalls == [p \in Procs |-> E!Doing(eCall[p])]

LEMMA ExpiringStep == FewKeysFinite /\ ExpiringInv /\ [E!Next]_(E!vars) => ExpiringInv'
<1> SUFFICES ASSUME FewKeysFinite, ExpiringInv, [E!Next]_(E!vars) PROVE ExpiringInv'
  OBVIOUS
<1> USE DEF FewKeysFinite, ExpiringInv, ExpiringTyped, StoresLoaded, E!At, E!Op, E!Goto, E!End,
     E!Idle, E!Without, E!Ops
<1>1. ASSUME NEW p \in Procs, NEW op \in E!Ops, NEW ks \in SUBSET FewKeys, E!Call(p, op, ks)
      PROVE  ExpiringInv'
  BY <1>1 DEF E!Call
<1>2. ASSUME NEW p \in Procs, E!Read(p) PROVE ExpiringInv'
  BY <1>2 DEF E!Read
<1>3. ASSUME NEW p \in Procs, E!Purge(p) PROVE ExpiringInv'
  BY <1>3 DEF E!Purge
<1>4. ASSUME NEW p \in Procs, E!Store(p) PROVE ExpiringInv'
  BY <1>4 DEF E!Store
<1>5. ASSUME NEW p \in Procs, E!Del(p) PROVE ExpiringInv'
  BY <1>5 DEF E!Del
<1>6. ASSUME NEW p \in Procs, E!Close(p) \/ E!Closed(p) PROVE ExpiringInv'
  BY <1>6 DEF E!Close, E!Closed
<1>7. CASE E!Loop
  BY <1>7 DEF E!Loop, E!Tick, E!Wake, E!Sweep
<1>8. ASSUME NEW k \in FewKeys, E!Lapse(k) PROVE ExpiringInv'
  BY <1>8 DEF E!Lapse
<1>9. CASE UNCHANGED E!vars
  BY <1>9 DEF E!vars
<1> HIDE DEF FewKeysFinite, ExpiringInv, ExpiringTyped, StoresLoaded, E!At, E!Op, E!Goto, E!End,
     E!Idle, E!Without, E!Ops
<1> QED
  BY <1>1, <1>2, <1>3, <1>4, <1>5, <1>6, <1>7, <1>8, <1>9 DEF E!Next, E!Step

LEMMA ExpiringDoing == ASSUME NEW c, c.keys \in SUBSET FewKeys PROVE E!Doing(c) \in E!Map!Calls
  BY DEF E!Doing, E!Map!Calls

LEMMA SameCardinalityE ==
  ASSUME NEW S
  PROVE  E!Map!Cardinality(S) = Cardinality(S) /\ E!Cardinality(S) = Cardinality(S)
  BY DEF E!Map!Cardinality, E!Cardinality, Cardinality

(* A map as large as the set of keys has room for another. *)
LEMMA RoomForOne ==
  ASSUME FewKeysFinite, NEW k \in FewKeys, k \notin E!Held
  PROVE  Cardinality(E!Held \cap FewKeys) # Cardinality(FewKeys)
<1>1. E!Held \cap FewKeys \subseteq FewKeys /\ E!Held \cap FewKeys # FewKeys
  BY DEF E!Held
<1> QED BY <1>1, FS_Subset DEF FewKeysFinite

(* One step of the handler is one step of the map, or none. *)
LEMMA ExpiringMaps ==
  ASSUME FewKeysFinite, ExpiringInv, ExpiringInv', [E!Next]_(E!vars)
  PROVE  [E!Map!Next]_(E!Map!vars)
<1>1. ExpiringCalls' \in [Procs -> E!Map!Calls]
  <2>1. \A p \in Procs : eCall'[p].keys \in SUBSET FewKeys
    BY DEF ExpiringInv, ExpiringTyped
  <2> QED BY <2>1, ExpiringDoing DEF ExpiringCalls
<1>2. CASE UNCHANGED eLife
  BY <1>1, <1>2 DEF E!Map!Next, E!Map!Turn, ExpiringCalls
<1>3. ASSUME NEW gone \in SUBSET E!Held, \A k \in gone : eLife[k] = "expired",
             eLife' = E!Without(gone, eLife)
      PROVE  E!Map!Next
  <2>1. E!Map!Reclaim
    BY <1>1, <1>3 DEF E!Map!Reclaim, E!Map!Held, E!Map!Lose, E!Held, E!Without, ExpiringCalls
  <2> QED BY <2>1 DEF E!Map!Next
<1>4. ASSUME NEW p \in Procs, E!Purge(p) PROVE E!Map!Next
  <2> DEFINE gone == {k \in eCall[p].keys : eLife[k] = "expired"}
  <2>1. gone \in SUBSET E!Held
    BY DEF ExpiringInv, ExpiringTyped, E!Held
  <2> QED BY <1>3, <1>4, <2>1 DEF E!Purge
<1>5. CASE E!Sweep
  <2>1. PICK sample \in SUBSET E!Held :
          eLife' = E!Without({k \in sample : eLife[k] = "expired"}, eLife)
    BY <1>5 DEF E!Sweep
  <2> QED BY <1>3, <2>1
<1>6. ASSUME NEW p \in Procs, E!Del(p) PROVE E!Map!Next
  <2>1. ExpiringCalls[p].op = "del" /\ ExpiringCalls[p].keys = eCall[p].keys
    BY <1>6 DEF E!Del, E!Op, E!At, ExpiringCalls, E!Doing, ExpiringInv, StoresLoaded
  <2>2. eLife' = E!Map!Lose(eCall[p].keys, eLife)
    BY <1>6 DEF E!Del, E!Without, E!Map!Lose
  <2>3. ExpiringCalls' = [ExpiringCalls EXCEPT ![p] = ExpiringCalls'[p]]
    BY <1>6 DEF E!Del, E!End, ExpiringCalls, ExpiringInv, ExpiringTyped
  <2>4. ExpiringCalls'[p] \in E!Map!Calls
    BY <1>1
  <2>5. E!Map!Remove(p)
    BY <2>1, <2>2, <2>3, <2>4 DEF E!Map!Remove, ExpiringCalls
  <2> QED BY <2>5 DEF E!Map!Next
<1>7. ASSUME NEW p \in Procs, E!Store(p) PROVE E!Map!Next
  <2>1. PICK k \in eCall[p].keys, new \in {"kept", "ttl", "expired"} : eLife' = [eLife EXCEPT ![k] = new]
    BY <1>7 DEF E!Store
  <2>2. k \in FewKeys /\ new \in E!Map!Stored
    BY DEF ExpiringInv, ExpiringTyped, FewKeysFinite, E!Map!Stored
  <2>3. ExpiringCalls[p].op = "set" /\ k \in ExpiringCalls[p].keys
    BY <1>7 DEF E!Store, E!Op, E!At, ExpiringCalls, E!Doing, ExpiringInv, StoresLoaded
  <2>4. (CHOOSE r \in {FewKeys} : k \in r) = FewKeys
    BY <2>2
  <2>5. ~(k \notin E!Map!Held /\ E!Map!Cardinality(E!Map!Held \cap FewKeys) = E!Cardinality(FewKeys))
    BY <2>2, RoomForOne, SameCardinalityE DEF E!Map!Held, E!Held
  <2>6. eLife' = E!Map!Lose({"none"}, [eLife EXCEPT ![k] = new])
    BY <2>1 DEF E!Map!Lose, ExpiringInv, ExpiringTyped, FewKeysFinite
  <2>7. ExpiringCalls' = [ExpiringCalls EXCEPT ![p] = ExpiringCalls'[p]]
    BY <1>7 DEF E!Store, E!End, ExpiringCalls, ExpiringInv, ExpiringTyped
  <2>8. ExpiringCalls'[p] \in E!Map!Calls
    BY <1>1
  <2>9. E!Map!Put(p, k)
    <3>1. \E c \in E!Map!Calls : ExpiringCalls' = [ExpiringCalls EXCEPT ![p] = c]
      BY <2>7, <2>8
    <3>2. "none" \in FewKeys \cup {"none"}
      OBVIOUS
    <3> QED BY <2>2, <2>3, <2>4, <2>5, <2>6, <3>1, <3>2 DEF E!Map!Put, ExpiringCalls
  <2> QED BY <2>2, <2>9 DEF E!Map!Next
<1>8. ASSUME NEW k \in FewKeys, E!Lapse(k) PROVE E!Map!Next
  <2>1. E!Map!Lapse(k)
    BY <1>8 DEF E!Lapse, E!Map!Lapse
  <2> QED BY <2>1 DEF E!Map!Next
<1>9. [E!Next]_(E!vars) => \/ UNCHANGED eLife \/ E!Sweep \/ \E k \in FewKeys : E!Lapse(k)
                           \/ \E p \in Procs : E!Purge(p) \/ E!Store(p) \/ E!Del(p)
  BY DEF E!Next, E!Step, E!Loop, E!vars, E!Call, E!Read, E!Close, E!Closed, E!Tick, E!Wake
<1> QED
  BY <1>2, <1>4, <1>5, <1>6, <1>7, <1>8, <1>9
LEMMA ExpiringBegin == ASSUME E!Init PROVE ExpiringInv /\ E!Map!Init
  BY DEF E!Init, ExpiringInv, ExpiringTyped, StoresLoaded, E!At, E!Op, E!Idle, E!Map!Init,
    E!Doing

-----------------------------------------------------------------------------
(* Lists without repetition, and what is left of them. *)

Distinct(list) == \A i, j \in 1..Len(list) : list[i] = list[j] => i = j
Elements(list) == {list[i] : i \in 1..Len(list)}
Before(x, y, list) == \E a, b \in 1..Len(list) : a < b /\ list[a] = x /\ list[b] = y

(* rest has the elements of list without ks, each once and in the same order. *)
Rest(rest, ks, list) ==
  /\ rest \in Seq(Elements(list) \ ks) /\ Distinct(rest)
  /\ Elements(rest) = Elements(list) \ ks
  /\ \A i, j \in 1..Len(rest) : i < j => Before(rest[i], rest[j], list)

LEMMA LeastNumber ==
  ASSUME NEW U, U \subseteq Nat, U # {}
  PROVE  \E x \in U : \A y \in U : x <= y
<1> DEFINE R == OpToRel(<, Nat)
<1>1. IsWellFoundedOn(R, Nat)
  BY NatLessThanWellFounded
<1>2. \A x, y \in Nat : y < x => <<y, x>> \in R
  BY DEF OpToRel
<1> HIDE DEF R
<1>3. \E x \in U : \A y \in U : ~(<<y, x>> \in R)
  BY <1>1, WFMin
<1>4. PICK x \in U : \A y \in U : ~(<<y, x>> \in R)
  BY <1>3
<1>5. ASSUME NEW y \in U PROVE x <= y
  <2>1. x \in Nat /\ y \in Nat /\ ~(<<y, x>> \in R)
    BY <1>4
  <2>2. ~(y < x)
    BY <1>2, <2>1
  <2> QED BY <2>1, <2>2
<1> QED BY <1>5

(* A list without repetition is as long as it has elements. *)
LEMMA LengthOfDistinct ==
  ASSUME NEW S, NEW list \in Seq(S), Distinct(list)
  PROVE  IsFiniteSet(Elements(list)) /\ Cardinality(Elements(list)) = Len(list)
<1>1. list \in Bijection(1..Len(list), Elements(list))
  <2>1. list \in [1..Len(list) -> Elements(list)]
    BY DEF Elements
  <2>2. \A i, j \in 1..Len(list) : list[i] = list[j] => i = j
    BY DEF Distinct
  <2>3. \A x \in Elements(list) : \E i \in 1..Len(list) : list[i] = x
    BY DEF Elements
  <2> QED BY <2>1, <2>2, <2>3 DEF Bijection, Injection, Surjection, IsInjective
<1>2. IsFiniteSet(1..Len(list)) /\ Cardinality(1..Len(list)) = Len(list)
  <2> DEFINE n == Len(list)
  <2>1. n \in Nat /\ 1 \in Int /\ n \in Int
    OBVIOUS
  <2> HIDE DEF n
  <2>2. IsFiniteSet(1..n) /\ Cardinality(1..n) = IF 1 > n THEN 0 ELSE n - 1 + 1
    BY <2>1, FS_Interval
  <2>3. Cardinality(1..n) = n
    BY ONLY <2>1, <2>2
  <2> QED BY <2>2, <2>3 DEF n
<1> QED BY <1>1, <1>2, FS_Bijection DEF ExistsBijection

(* Every list without repetition leaves something, whatever is taken away: the shortest
   one that did not would have a front that does. *)
LEMMA RestExists ==
  ASSUME NEW S, NEW ks, NEW list \in Seq(S), Distinct(list)
  PROVE  \E rest : Rest(rest, ks, list)
<1> DEFINE Bad == {n \in Nat : \E l \in Seq(S) : /\ Len(l) = n /\ Distinct(l)
                                                 /\ \A rest : ~Rest(rest, ks, l)}
<1>1. ASSUME Bad # {} PROVE FALSE
  <2>1. PICK n \in Bad : \A m \in Bad : n <= m
    BY <1>1, LeastNumber
  <2>2. PICK l \in Seq(S) : Len(l) = n /\ Distinct(l) /\ \A rest : ~Rest(rest, ks, l)
    BY <2>1
  <2>3. CASE n = 0
    <3>1. Rest(<<>>, ks, l)
      BY <2>2, <2>3 DEF Rest, Elements, Distinct
    <3> QED BY <2>2, <3>1
  <2>4. CASE n > 0
    <3> DEFINE front == [i \in 1..(n - 1) |-> l[i]]
               x == l[n]
    <3>1. front \in Seq(S) /\ Len(front) = n - 1 /\ \A i \in 1..(n - 1) : front[i] = l[i]
      <4>1. n - 1 \in Nat /\ \A i \in 1..(n - 1) : i \in 1..n
        BY <2>1, <2>4
      <4>2. \A i \in 1..n : l[i] \in S
        BY <2>2
      <4>3. front \in [1..(n - 1) -> S]
        BY <4>1, <4>2
      <4> QED BY <4>1, <4>3
    <3>2. Distinct(front)
      <4>1. \A i \in 1..(n - 1) : i \in 1..n
        BY <2>1
      <4> HIDE DEF front
      <4> QED BY <2>2, <3>1, <4>1 DEF Distinct
    <3>3. n - 1 \notin Bad /\ n - 1 \in Nat
      BY <2>1, <2>4
    <3>4. PICK r : Rest(r, ks, front)
      BY <3>1, <3>2, <3>3
    <3>5. Elements(l) = Elements(front) \cup {x} /\ x \notin Elements(front)
      <4>1. n \in Nat /\ \A i \in 1..n : i = n \/ i \in 1..(n - 1)
        BY <2>1
      <4>2. \A i \in 1..(n - 1) : i \in 1..n /\ i # n
        BY <2>1
      <4>3. n \in 1..n
        BY <2>1, <2>4
      <4> HIDE DEF front
      <4>4. x \notin Elements(front)
        BY <2>2, <3>1, <4>2, <4>3 DEF Elements, Distinct
      <4>5. Elements(l) \subseteq Elements(front) \cup {x}
        BY <2>2, <3>1, <4>1 DEF Elements
      <4>6. x \in Elements(l) /\ Elements(front) \subseteq Elements(l)
        BY <2>2, <3>1, <4>2, <4>3 DEF Elements
      <4> QED BY <4>4, <4>5, <4>6
    <3>10. n \in Nat /\ n \in 1..n /\ \A i \in 1..(n - 1) : i \in 1..n /\ i < n
      BY <2>1, <2>4
    <3>6. ASSUME NEW y, NEW z, Before(y, z, front) PROVE Before(y, z, l)
      <4> HIDE DEF front
      <4>1. PICK a \in 1..(n - 1), b \in 1..(n - 1) : a < b /\ front[a] = y /\ front[b] = z
        BY <3>1, <3>6 DEF Before
      <4>2. a \in 1..Len(l) /\ b \in 1..Len(l) /\ l[a] = y /\ l[b] = z
        BY <2>2, <3>1, <3>10, <4>1
      <4> QED BY <4>1, <4>2 DEF Before
    <3>7. ASSUME NEW y \in Elements(front) PROVE Before(y, x, l)
      <4> HIDE DEF front
      <4>1. PICK a \in 1..(n - 1) : front[a] = y
        BY <3>1 DEF Elements
      <4>2. a \in 1..Len(l) /\ n \in 1..Len(l) /\ a < n /\ l[a] = y
        BY <2>2, <3>1, <3>10, <4>1
      <4> QED BY <4>2 DEF Before
    <3> HIDE DEF front, x
    <3>8. CASE x \in ks
      <4>1. Rest(r, ks, l)
        BY <3>4, <3>5, <3>6, <3>8 DEF Rest
      <4> QED BY <2>2, <4>1
    <3>9. CASE x \notin ks
      <4> DEFINE r1 == Append(r, x)
      <4>1. r \in Seq(Elements(l) \ ks) /\ x \in Elements(l) \ ks
        BY <3>4, <3>5, <3>9 DEF Rest
      <4>2. /\ r1 \in Seq(Elements(l) \ ks) /\ Len(r1) = Len(r) + 1 /\ Len(r) \in Nat
            /\ r1[Len(r1)] = x /\ \A i \in 1..Len(r) : r1[i] = r[i]
        BY <4>1
      <4>3. \A i \in 1..Len(r) : r[i] \in Elements(front) /\ r[i] # x
        BY <3>4, <3>5 DEF Rest, Elements
      <4> HIDE DEF r1
      <4>4. Distinct(r1)
        <5>1. \A i \in 1..Len(r1) : i = Len(r1) \/ i \in 1..Len(r)
          BY <4>2
        <5>2. \A i, j \in 1..Len(r) : r[i] = r[j] => i = j
          BY <3>4 DEF Rest, Distinct
        <5> QED BY <4>2, <4>3, <5>1, <5>2 DEF Distinct
      <4>5. Elements(r1) = Elements(r) \cup {x}
        <5>1. \A i \in 1..Len(r1) : i = Len(r1) \/ i \in 1..Len(r)
          BY <4>2
        <5>2. Len(r1) \in 1..Len(r1) /\ \A i \in 1..Len(r) : i \in 1..Len(r1)
          BY <4>2
        <5> QED BY <4>2, <5>1, <5>2 DEF Elements
      <4>6. Elements(r1) = Elements(l) \ ks
        BY <3>4, <3>5, <3>9, <4>5 DEF Rest
      <4>7. ASSUME NEW i \in 1..Len(r1), NEW j \in 1..Len(r1), i < j
            PROVE  Before(r1[i], r1[j], l)
        <5>1. CASE j = Len(r1)
          <6>1. i \in 1..Len(r)
            BY <4>2, <4>7, <5>1
          <6> QED BY <3>7, <4>2, <4>3, <5>1, <6>1
        <5>2. CASE j # Len(r1)
          <6>1. i \in 1..Len(r) /\ j \in 1..Len(r)
            BY <4>2, <4>7, <5>2
          <6>2. Before(r[i], r[j], front)
            BY <3>4, <4>7, <6>1 DEF Rest
          <6> QED BY <3>6, <4>2, <6>1, <6>2
        <5> QED BY <5>1, <5>2
      <4>8. Rest(r1, ks, l)
        BY <4>2, <4>4, <4>6, <4>7 DEF Rest
      <4> QED BY <2>2, <4>8
    <3> QED BY <3>8, <3>9
  <2> QED BY <2>3, <2>4
<1>2. Len(list) \in Nat /\ Len(list) \notin Bad
  BY <1>1
<1> QED BY <1>2

(* A sequence as long as the set it takes different elements from has all of them. *)
LEMMA SequenceOfAll ==
  ASSUME NEW S, IsFiniteSet(S), NEW s \in [1..Cardinality(S) -> S],
         \A i, j \in 1..Cardinality(S) : i # j => s[i] # s[j]
  PROVE  s \in Seq(S) /\ Distinct(s) /\ Elements(s) = S
<1>1. Cardinality(S) \in Nat
  BY FS_CardinalityType
<1>2. s \in Seq(S) /\ Len(s) = Cardinality(S)
  BY <1>1
<1>3. Cardinality(1..Cardinality(S)) = Cardinality(S)
  BY <1>1, FS_Interval
<1>4. s \in Injection(1..Cardinality(S), S)
  BY DEF Injection, IsInjective
<1>5. s \in Surjection(1..Cardinality(S), S)
  BY <1>3, <1>4, FS_Injection
<1>6. Elements(s) = S
  BY <1>2, <1>5 DEF Surjection, Elements
<1> QED BY <1>2, <1>6 DEF Distinct

(* Unlink of lru.go's model is such a rest, and lru_optimized.go's is the same. *)
LEMMA Unlinked ==
  ASSUME NEW S, NEW ks, NEW list \in Seq(S), Distinct(list)
  PROVE  Rest(L!Unlink(ks, list), ks, list)
<1> DEFINE T == Elements(list) \ ks
           Sorted(rest) == \A i, j \in 1..Len(rest) : i < j => Before(rest[i], rest[j], list)
           Seqs == {f \in [1..Cardinality(T) -> T] :
                      \A i, j \in 1..Cardinality(T) : i # j => f[i] # f[j]}
<1>1. L!Unlink(ks, list) = CHOOSE rest \in Seqs : Sorted(rest)
  <2>1. L!ToSet(list) \ ks = T
    BY DEF L!ToSet, Elements
  <2>2. L!Cardinality(T) = Cardinality(T)
    BY DEF L!Cardinality, Cardinality
  <2> HIDE DEF T
  <2>3. L!SetToSeqs(T) = Seqs
    BY <2>2 DEF L!SetToSeqs
  <2> HIDE DEF Seqs
  <2> QED BY <2>1, <2>3 DEF L!Unlink, Before
<1>2. IsFiniteSet(T)
  BY LengthOfDistinct, FS_Subset
<1>3. PICK r : Rest(r, ks, list)
  BY RestExists
<1>4. r \in Seq(T) /\ Distinct(r) /\ Elements(r) = T /\ Sorted(r)
  BY <1>3 DEF Rest
<1>5. Len(r) = Cardinality(T)
  BY <1>4, LengthOfDistinct
<1> HIDE DEF T
<1>6. r \in [1..Cardinality(T) -> T] /\ \A i, j \in 1..Cardinality(T) : i # j => r[i] # r[j]
  BY <1>4, <1>5 DEF Distinct
<1>7. r \in Seqs
  BY <1>6
<1>8. L!Unlink(ks, list) \in Seqs /\ Sorted(L!Unlink(ks, list))
  <2> HIDE DEF Seqs, Sorted
  <2> QED BY <1>1, <1>4, <1>7
<1> DEFINE u == L!Unlink(ks, list)
<1>9. u \in [1..Cardinality(T) -> T] /\ \A i, j \in 1..Cardinality(T) : i # j => u[i] # u[j]
  BY <1>8
<1> HIDE DEF u
<1>10. u \in Seq(T) /\ Distinct(u) /\ Elements(u) = T
  BY <1>2, <1>9, SequenceOfAll
<1> QED BY <1>8, <1>10 DEF Rest, T, u

LEMMA SameUnlink ==
  ASSUME NEW ks, NEW list
  PROVE  C!Unlink(ks, list) = L!Unlink(ks, list)
<1>1. \A T : C!SetToSeqs(T) = L!SetToSeqs(T)
  BY DEF C!SetToSeqs, L!SetToSeqs, C!Cardinality, L!Cardinality
<1>2. C!ToSet(list) = L!ToSet(list)
  BY DEF C!ToSet, L!ToSet
<1> QED BY <1>1, <1>2 DEF C!Unlink, L!Unlink

(* A rest has only elements of the list, and putting a list in front of it keeps both in
   their order. *)
LEMMA RestTyped ==
  ASSUME NEW S, NEW ks, NEW list \in Seq(S), NEW rest, Rest(rest, ks, list)
  PROVE  rest \in Seq(S)
<1>1. Elements(list) \ ks \subseteq S
  BY DEF Elements
<1>2. rest \in Seq(Elements(list) \ ks)
  BY DEF Rest
<1> QED BY <1>1, <1>2

LEMMA InFront ==
  ASSUME NEW S, NEW seq \in Seq(S), NEW rest \in Seq(S), Distinct(seq), Distinct(rest),
         Elements(seq) \cap Elements(rest) = {}
  PROVE  /\ seq \o rest \in Seq(S) /\ Distinct(seq \o rest)
         /\ Len(seq \o rest) = Len(seq) + Len(rest)
         /\ Elements(seq \o rest) = Elements(seq) \cup Elements(rest)
         /\ \A x, y : Before(x, y, seq \o rest) =>
              \/ Before(x, y, seq)
              \/ x \in Elements(seq) /\ y \in Elements(rest)
              \/ Before(x, y, rest) /\ y \in Elements(rest)
<1> DEFINE n == seq \o rest
           l == Len(seq)
           r == Len(rest)
<1>1. n \in Seq(S) /\ Len(n) = l + r /\ l \in Nat /\ r \in Nat
  OBVIOUS
<1>2. /\ \A i \in 1..l : n[i] = seq[i] /\ seq[i] \in Elements(seq)
      /\ \A i \in 1..r : n[l + i] = rest[i] /\ rest[i] \in Elements(rest)
  BY DEF Elements
<1>3. /\ \A i \in 1..Len(n) : i \in 1..l \/ (i - l \in 1..r /\ i = l + (i - l))
      /\ \A i \in 1..l : i \in 1..Len(n)
      /\ \A i \in 1..r : l + i \in 1..Len(n)
  BY <1>1
<1> HIDE DEF n, l, r
<1>4. \A i \in 1..Len(n) : \/ i \in 1..l /\ n[i] = seq[i] /\ n[i] \in Elements(seq)
                           \/ i - l \in 1..r /\ n[i] = rest[i - l] /\ n[i] \in Elements(rest)
  BY <1>2, <1>3
<1>5. Distinct(n)
  <2> SUFFICES ASSUME NEW i \in 1..Len(n), NEW j \in 1..Len(n), n[i] = n[j] PROVE i = j
    BY DEF Distinct
  <2>1. CASE i \in 1..l /\ n[i] = seq[i] /\ n[i] \in Elements(seq)
    <3>1. j \in 1..l /\ n[j] = seq[j]
      BY <1>4, <2>1
    <3> QED BY <2>1, <3>1 DEF Distinct, l
  <2>2. CASE i - l \in 1..r /\ n[i] = rest[i - l] /\ n[i] \in Elements(rest)
    <3>1. j - l \in 1..r /\ n[j] = rest[j - l]
      BY <1>4, <2>2
    <3>2. i - l = j - l
      BY <2>2, <3>1 DEF Distinct, r
    <3> QED BY <1>1, <3>2
  <2> QED BY <1>4, <2>1, <2>2
<1>6. Elements(n) = Elements(seq) \cup Elements(rest)
  <2>1. \A x \in Elements(n) : x \in Elements(seq) \cup Elements(rest)
    BY <1>4 DEF Elements
  <2>2. \A x \in Elements(seq) : x \in Elements(n)
    BY <1>2, <1>3 DEF Elements, l
  <2>3. \A x \in Elements(rest) : x \in Elements(n)
    BY <1>2, <1>3 DEF Elements, r
  <2> QED BY <2>1, <2>2, <2>3
<1>7. ASSUME NEW x, NEW y, Before(x, y, n)
      PROVE  \/ Before(x, y, seq)
             \/ x \in Elements(seq) /\ y \in Elements(rest)
             \/ Before(x, y, rest) /\ y \in Elements(rest)
  <2>1. PICK a \in 1..Len(n), b \in 1..Len(n) : a < b /\ n[a] = x /\ n[b] = y
    BY <1>7 DEF Before
  <2>2. CASE b \in 1..l
    <3>1. a \in 1..l
      BY <1>1, <2>1, <2>2
    <3> QED BY <1>2, <2>1, <2>2, <3>1 DEF Before, l
  <2>3. CASE b - l \in 1..r /\ a \in 1..l
    <3>1. b = l + (b - l)
      BY <1>1, <2>1
    <3> QED BY <1>2, <2>1, <2>3, <3>1
  <2>4. CASE b - l \in 1..r /\ a - l \in 1..r
    <3>1. b = l + (b - l) /\ a = l + (a - l) /\ a - l < b - l
      BY <1>1, <2>1
    <3> QED BY <1>2, <2>1, <2>4, <3>1 DEF Before, r
  <2> QED BY <1>3, <2>1, <2>2, <2>3, <2>4
<1> QED BY <1>1, <1>5, <1>6, <1>7 DEF n, l, r

-----------------------------------------------------------------------------
(* LRUCache. *)

(* The keys are finitely many, and none is the model's "none". *)
KeysFinite == IsFiniteSet(Keys) /\ "none" \notin Keys

LruTyped ==
  /\ lLife \in [Keys -> {"absent", "kept", "ttl", "expired"}]
  /\ lClosed \in BOOLEAN
  /\ lCall \in [Procs -> [op : L!Ops \cup {"idle"}, keys : SUBSET Keys]]
  /\ order \in Seq(Keys)
  /\ since \in [Keys -> SUBSET Keys]

(* Only BatchGet and Close are about more than one key. *)
OneKey == \A p \in Procs :
  /\ lCall[p].op \notin {"idle", "batch", "close"} => \E k \in Keys : lCall[p].keys = {k}
  /\ lCall[p].op = "close" => lCall[p].keys = Keys

Listed ==
  /\ Distinct(order) /\ Elements(order) = L!Held
  /\ Len(order) <= Capacity
  /\ lClosed => L!Held = {}

(* What is in front of an entry was used after it was. *)
Recent == \A x, y \in Keys : Before(x, y, order) => x \in since[y]

LruInv == LruTyped /\ OneKey /\ Listed /\ Recent

LEMMA LruBegin == ASSUME Capacity \in Nat, L!Init PROVE LruInv
<1>1. order = <<>> /\ Len(order) = 0
  BY DEF L!Init
<1>2. L!Held = {}
  BY DEF L!Init, L!Held
<1>3. 1..Len(order) = {}
  BY <1>1
<1>4. Listed /\ Recent
  BY <1>1, <1>2, <1>3 DEF Listed, Recent, Distinct, Elements, Before
<1>5. OneKey
  BY DEF L!Init, OneKey, L!Idle
<1>6. LruTyped
  <2>1. order \in Seq(Keys) /\ since \in [Keys -> SUBSET Keys]
    BY <1>1 DEF L!Init
  <2>2. lLife \in [Keys -> {"absent", "kept", "ttl", "expired"}] /\ lClosed \in BOOLEAN
    BY DEF L!Init
  <2>3. lCall \in [Procs -> [op : L!Ops \cup {"idle"}, keys : SUBSET Keys]]
    BY DEF L!Init, L!Idle
  <2> QED BY <2>1, <2>2, <2>3 DEF LruTyped
<1> QED BY <1>4, <1>5, <1>6 DEF LruInv

LEMMA SameToSet == ASSUME NEW S, NEW s \in Seq(S) PROVE L!ToSet(s) = Elements(s)
  BY DEF L!ToSet, Elements

(* The entries of ks leave the list and the map. *)
LEMMA ListPurged ==
  ASSUME Capacity \in Nat, LruTyped, Listed, Recent, NEW ks, L!Purge(ks), UNCHANGED <<lClosed, since>>
  PROVE  /\ order' \in Seq(Keys) /\ lLife' \in [Keys -> {"absent", "kept", "ttl", "expired"}]
         /\ Listed' /\ Recent'
<1>1. Rest(order', ks, order)
  BY Unlinked DEF L!Purge, LruTyped, Listed
<1>2. order' \in Seq(Keys)
  BY <1>1, RestTyped DEF LruTyped
<1>3. lLife' = [k \in Keys |-> IF k \in ks THEN "absent" ELSE lLife[k]]
  BY DEF L!Purge, L!Without
<1>4. L!Held' = L!Held \ ks
  BY <1>3 DEF L!Held
<1>5. Distinct(order') /\ Elements(order') = L!Held'
  BY <1>1, <1>4 DEF Rest, Listed
<1>6. Len(order') <= Len(order)
  <2>1. IsFiniteSet(Elements(order)) /\ Cardinality(Elements(order)) = Len(order)
    BY LengthOfDistinct DEF LruTyped, Listed
  <2>2. Cardinality(Elements(order')) = Len(order')
    BY <1>2, <1>5, LengthOfDistinct
  <2>3. Elements(order') \subseteq Elements(order)
    BY <1>4, <1>5 DEF Listed
  <2> QED BY <2>1, <2>2, <2>3, FS_Subset
<1>7. Len(order') <= Capacity
  BY <1>2, <1>6 DEF Listed, LruTyped
<1>8. ASSUME NEW x, NEW y, Before(x, y, order') PROVE Before(x, y, order)
  BY <1>1, <1>8 DEF Rest, Before
<1>9. Recent'
  BY <1>8 DEF Recent
<1> QED BY <1>2, <1>3, <1>4, <1>5, <1>7, <1>9 DEF Listed, LruTyped

(* The keys of seq come to the front, and the others of ks leave. *)
LEMMA Fronted ==
  ASSUME LruTyped, Listed, Recent, NEW seq \in Seq(Keys), Distinct(seq), L!Use(seq),
         NEW ks, Elements(seq) \subseteq ks
  PROVE  LET rest == L!Unlink(ks, order) IN
         /\ seq \o rest \in Seq(Keys) /\ Distinct(seq \o rest) /\ rest \in Seq(Keys)
         /\ Rest(rest, ks, order)
         /\ Elements(seq \o rest) = Elements(seq) \cup (L!Held \ ks)
         /\ Len(seq \o rest) = Len(seq) + Len(rest)
         /\ since' \in [Keys -> SUBSET Keys]
         /\ \A x, y \in Keys : Before(x, y, seq \o rest) => x \in since'[y]
<1> DEFINE rest == L!Unlink(ks, order)
<1>1. Rest(rest, ks, order)
  BY Unlinked DEF LruTyped, Listed
<1> HIDE DEF rest
<1>2. rest \in Seq(Keys) /\ Distinct(rest)
  BY <1>1, RestTyped DEF LruTyped, Rest
<1>3. Elements(rest) = L!Held \ ks
  BY <1>1 DEF Rest, Listed
<1>4. /\ seq \o rest \in Seq(Keys) /\ Distinct(seq \o rest)
      /\ Len(seq \o rest) = Len(seq) + Len(rest)
      /\ Elements(seq \o rest) = Elements(seq) \cup Elements(rest)
      /\ \A x, y : Before(x, y, seq \o rest) =>
           \/ Before(x, y, seq)
           \/ x \in Elements(seq) /\ y \in Elements(rest)
           \/ Before(x, y, rest) /\ y \in Elements(rest)
  BY <1>2, <1>3, InFront
<1>5. \A y \in Keys : since'[y] =
        IF y \in Elements(seq) THEN {seq[i] : i \in 1..(CHOOSE i \in 1..Len(seq) : seq[i] = y) - 1}
        ELSE since[y] \cup Elements(seq)
  <2>1. L!ToSet(seq) = Elements(seq)
    BY SameToSet
  <2> QED BY <2>1 DEF L!Use
<1>6. \A b \in 1..Len(seq) : (CHOOSE i \in 1..Len(seq) : seq[i] = seq[b]) = b
  BY DEF Distinct
<1>7. \A b \in 1..Len(seq) : since'[seq[b]] = {seq[i] : i \in 1..b - 1} /\ seq[b] \in Keys
  <2> TAKE b \in 1..Len(seq)
  <2>1. seq[b] \in Keys /\ seq[b] \in Elements(seq)
    BY DEF Elements
  <2>2. (CHOOSE i \in 1..Len(seq) : seq[i] = seq[b]) = b
    BY <1>6
  <2> QED BY <1>5, <2>1, <2>2
<1>8. since' \in [Keys -> SUBSET Keys]
  <2>1. \A b \in 1..Len(seq) : {seq[i] : i \in 1..b - 1} \subseteq Keys
    <3>1. Len(seq) \in Nat /\ \A b \in 1..Len(seq) : \A i \in 1..b - 1 : i \in 1..Len(seq)
      OBVIOUS
    <3>2. \A i \in 1..Len(seq) : seq[i] \in Keys
      OBVIOUS
    <3> QED BY <3>1, <3>2
  <2>2. \A y \in Keys : since'[y] \in SUBSET Keys
    <3> TAKE y \in Keys
    <3>1. CASE y \in Elements(seq)
      <4>1. PICK b \in 1..Len(seq) : y = seq[b]
        BY <3>1 DEF Elements
      <4> QED BY <1>7, <2>1, <4>1
    <3>2. CASE y \notin Elements(seq)
      <4>1. since'[y] = since[y] \cup Elements(seq)
        BY <1>5, <3>2
      <4> QED BY <4>1 DEF Elements, LruTyped
    <3> QED BY <3>1, <3>2
  <2>3. since' = [y \in Keys |-> since'[y]]
    BY DEF L!Use
  <2> QED BY <2>2, <2>3
<1>9. ASSUME NEW x \in Keys, NEW y \in Keys, Before(x, y, seq \o rest) PROVE x \in since'[y]
  <2>1. CASE Before(x, y, seq)
    <3>1. PICK a \in 1..Len(seq), b \in 1..Len(seq) : a < b /\ seq[a] = x /\ seq[b] = y
      BY <2>1 DEF Before
    <3>2. a \in 1..b - 1
      BY <3>1
    <3> QED BY <1>7, <3>1, <3>2
  <2>2. CASE x \in Elements(seq) /\ y \in Elements(rest)
    BY <1>3, <1>5, <2>2
  <2>3. CASE Before(x, y, rest) /\ y \in Elements(rest)
    <3>1. PICK a \in 1..Len(rest), b \in 1..Len(rest) : a < b /\ rest[a] = x /\ rest[b] = y
      BY <2>3 DEF Before
    <3>2. Before(x, y, order)
      BY <1>1, <3>1 DEF Rest
    <3> QED BY <1>3, <1>5, <2>3, <3>2 DEF Recent
  <2> QED BY <1>4, <1>9, <2>1, <2>2, <2>3
<1> QED BY <1>1, <1>2, <1>3, <1>4, <1>8, <1>9 DEF rest

(* A list of the entries is as long as there are entries. *)
LEMMA AsLongAsHeld ==
  ASSUME NEW list \in Seq(Keys), Distinct(list)
  PROVE  /\ IsFiniteSet(Elements(list)) /\ Cardinality(Elements(list)) = Len(list)
         /\ Len(list) \in Nat
  BY LengthOfDistinct

(* The keys of seq, entries of the map, come to the front; those of gone are purged. *)
LEMMA ListFronted ==
  ASSUME Capacity \in Nat, LruTyped, Listed, Recent, NEW seq \in Seq(Keys), Distinct(seq),
         NEW gone, L!Use(seq), Elements(seq) \subseteq L!Held \ gone,
         order' = seq \o L!Unlink(gone \cup Elements(seq), order),
         lLife' = L!Without(gone, lLife), UNCHANGED lClosed
  PROVE  /\ order' \in Seq(Keys) /\ lLife' \in [Keys -> {"absent", "kept", "ttl", "expired"}]
         /\ since' \in [Keys -> SUBSET Keys] /\ Listed' /\ Recent'
<1>1. /\ order' \in Seq(Keys) /\ Distinct(order')
      /\ Elements(order') = Elements(seq) \cup (L!Held \ gone)
      /\ since' \in [Keys -> SUBSET Keys]
      /\ \A x, y \in Keys : Before(x, y, order') => x \in since'[y]
  <2> DEFINE ks == gone \cup Elements(seq)
  <2>1. Elements(seq) \subseteq ks /\ order' = seq \o L!Unlink(ks, order)
    OBVIOUS
  <2>2. Elements(seq) \cup (L!Held \ ks) = Elements(seq) \cup (L!Held \ gone)
    OBVIOUS
  <2> HIDE DEF ks
  <2>3. LET rest == L!Unlink(ks, order) IN
        /\ seq \o rest \in Seq(Keys) /\ Distinct(seq \o rest) /\ rest \in Seq(Keys)
        /\ Elements(seq \o rest) = Elements(seq) \cup (L!Held \ ks)
        /\ since' \in [Keys -> SUBSET Keys]
        /\ \A x, y \in Keys : Before(x, y, seq \o rest) => x \in since'[y]
    BY <2>1, Fronted, Zenon
  <2> QED BY <2>1, <2>2, <2>3
<1>2. L!Held' = L!Held \ gone /\ lLife' \in [Keys -> {"absent", "kept", "ttl", "expired"}]
  BY DEF L!Held, L!Without, LruTyped
<1>3. Elements(order') = L!Held'
  BY <1>1, <1>2
<1>4. Len(order') <= Capacity
  <2>1. /\ IsFiniteSet(Elements(order)) /\ Cardinality(Elements(order)) = Len(order)
        /\ Len(order) \in Nat
    BY AsLongAsHeld DEF LruTyped, Listed
  <2>2. Cardinality(Elements(order')) = Len(order') /\ Len(order') \in Nat
    BY <1>1, AsLongAsHeld
  <2>3. Elements(order') \subseteq Elements(order)
    BY <1>2, <1>3 DEF Listed
  <2>4. Cardinality(Elements(order')) <= Cardinality(Elements(order))
    BY <2>1, <2>3, FS_Subset
  <2> QED BY <2>1, <2>2, <2>4 DEF Listed
<1> QED BY <1>1, <1>2, <1>3, <1>4 DEF Listed, Recent

LEMMA OneLong ==
  ASSUME NEW k \in Keys
  PROVE  <<k>> \in Seq(Keys) /\ Distinct(<<k>>) /\ Elements(<<k>>) = {k} /\ Len(<<k>>) = 1
<1> DEFINE seq == <<k>>
<1>1. Len(seq) = 1 /\ seq[1] = k /\ seq \in Seq(Keys)
  OBVIOUS
<1>2. 1..Len(seq) = {1}
  BY <1>1
<1> HIDE DEF seq
<1>3. Distinct(seq) /\ Elements(seq) = {k}
  BY <1>1, <1>2 DEF Distinct, Elements
<1> QED BY <1>1, <1>3 DEF seq

(* Set puts its key in front and, when that is one too many, drops the last. *)
LEMMA ListStored ==
  ASSUME Capacity \in Nat, LruTyped, Listed, Recent, ~lClosed,
         NEW k \in Keys, NEW new \in {"kept", "ttl", "expired"}, NEW list, NEW out,
         list = <<k>> \o L!Unlink({k}, order), out = L!Oldest(list),
         lLife' = L!Without(out, [lLife EXCEPT ![k] = new]),
         order' = L!Unlink(out, list), L!Use(<<k>>), UNCHANGED lClosed
  PROVE  /\ order' \in Seq(Keys) /\ lLife' \in [Keys -> {"absent", "kept", "ttl", "expired"}]
         /\ since' \in [Keys -> SUBSET Keys] /\ Listed' /\ Recent'
         /\ list \in Seq(Keys) /\ Distinct(list) /\ Elements(list) = {k} \cup L!Held
         /\ Len(list) <= Capacity + 1 /\ Rest(L!Unlink({k}, order), {k}, order)
         /\ L!Held' = Elements(list) \ out
<1> DEFINE seq == <<k>>
           rest == L!Unlink({k}, order)
<1>1. seq \in Seq(Keys) /\ Distinct(seq) /\ Elements(seq) = {k} /\ Len(seq) = 1
  BY OneLong
<1>2. L!Use(seq) /\ list = seq \o rest
  OBVIOUS
<1> HIDE DEF seq
<1>3. rest = L!Unlink({k}, order)
  OBVIOUS
<1> HIDE DEF rest
<1>4. /\ list \in Seq(Keys) /\ Distinct(list) /\ rest \in Seq(Keys) /\ Rest(rest, {k}, order)
      /\ Elements(list) = {k} \cup L!Held /\ Len(list) = 1 + Len(rest)
      /\ since' \in [Keys -> SUBSET Keys]
      /\ \A x, y \in Keys : Before(x, y, list) => x \in since'[y]
  <2>1. Elements(seq) \subseteq {k} /\ Elements(seq) \cup (L!Held \ {k}) = {k} \cup L!Held
    BY <1>1
  <2>2. LET r == L!Unlink({k}, order) IN
        /\ seq \o r \in Seq(Keys) /\ Distinct(seq \o r) /\ r \in Seq(Keys) /\ Rest(r, {k}, order)
        /\ Elements(seq \o r) = Elements(seq) \cup (L!Held \ {k})
        /\ Len(seq \o r) = Len(seq) + Len(r)
        /\ since' \in [Keys -> SUBSET Keys]
        /\ \A x, y \in Keys : Before(x, y, seq \o r) => x \in since'[y]
    BY <1>1, <1>2, <2>1, Fronted, Zenon
  <2> QED BY <1>1, <1>2, <1>3, <2>1, <2>2
<1>5. Len(rest) <= Capacity /\ Len(rest) \in Nat
  <2>1. /\ IsFiniteSet(Elements(order)) /\ Cardinality(Elements(order)) = Len(order)
        /\ Len(order) \in Nat
    BY AsLongAsHeld DEF LruTyped, Listed
  <2>2. Cardinality(Elements(rest)) = Len(rest) /\ Len(rest) \in Nat
    BY <1>4, AsLongAsHeld DEF Rest
  <2>3. Elements(rest) \subseteq Elements(order)
    BY <1>4 DEF Rest
  <2>4. Cardinality(Elements(rest)) <= Cardinality(Elements(order))
    BY <2>1, <2>3, FS_Subset
  <2> QED BY <2>1, <2>2, <2>4 DEF Listed
<1>6. Rest(order', out, list)
  BY <1>4, Unlinked
<1>7. order' \in Seq(Keys) /\ Distinct(order') /\ Elements(order') = Elements(list) \ out
  BY <1>4, <1>6, RestTyped DEF Rest
<1>8. /\ IsFiniteSet(Elements(list)) /\ Cardinality(Elements(list)) = Len(list)
      /\ Cardinality(Elements(order')) = Len(order') /\ Len(order') \in Nat /\ Len(list) \in Nat
  BY <1>4, <1>7, AsLongAsHeld
<1>9. Len(order') <= Capacity
  <2>1. CASE Len(list) > Capacity
    <3>1. out = {list[Len(list)]}
      BY <2>1 DEF L!Oldest, L!Last
    <3>2. Len(list) \in 1..Len(list)
      BY <1>8, <2>1
    <3>3. list[Len(list)] \in Elements(list)
      BY <3>2 DEF Elements
    <3>4. Cardinality(Elements(list) \ {list[Len(list)]}) = Cardinality(Elements(list)) - 1
      BY <1>8, <3>3, FS_RemoveElement
    <3>5. Len(list) <= Capacity + 1
      <4>1. Len(list) = 1 + Len(rest)
        BY <1>4
      <4> QED BY <1>5, <4>1
    <3>6. Elements(order') = Elements(list) \ {list[Len(list)]}
      BY <1>7, <3>1
    <3>7. Cardinality(Elements(order')) = Cardinality(Elements(list)) - 1
      BY <3>4, <3>6, Zenon
    <3> QED BY <1>8, <3>5, <3>7
  <2>2. CASE ~(Len(list) > Capacity)
    <3>1. out = {}
      BY <2>2 DEF L!Oldest
    <3>2. Elements(order') = Elements(list)
      BY <1>7, <3>1
    <3> QED BY <1>8, <2>2, <3>2
  <2> QED BY <2>1, <2>2
<1>10. lLife' \in [Keys -> {"absent", "kept", "ttl", "expired"}] /\ L!Held' = Elements(list) \ out
  <2>1. \A j \in Keys : lLife'[j] = IF j \in out THEN "absent" ELSE IF j = k THEN new ELSE lLife[j]
    BY DEF L!Without, LruTyped
  <2>2. lLife' = [j \in Keys |-> lLife'[j]]
    BY DEF L!Without
  <2>3. lLife' \in [Keys -> {"absent", "kept", "ttl", "expired"}]
    BY <2>1, <2>2 DEF LruTyped
  <2>4. L!Held' = {j \in Keys : lLife'[j] # "absent"} /\ L!Held = {j \in Keys : lLife[j] # "absent"}
    BY DEF L!Held
  <2>5. \A j \in Keys : j \in L!Held' <=> j \notin out /\ (j = k \/ j \in L!Held)
    BY <2>1, <2>4
  <2>6. L!Held' \subseteq Keys /\ Elements(list) \subseteq Keys
    BY <1>4, <2>4 DEF Elements
  <2>7. \A j \in Keys : j \in Elements(list) <=> (j = k \/ j \in L!Held)
    BY <1>4
  <2>8. L!Held' = Elements(list) \ out
    BY ONLY <2>5, <2>6, <2>7
  <2> QED BY <2>3, <2>8
<1>11. Recent'
  <2> SUFFICES ASSUME NEW x \in Keys, NEW y \in Keys, Before(x, y, order') PROVE (x \in since[y])'
    BY DEF Recent
  <2>1. PICK a \in 1..Len(order'), b \in 1..Len(order') : a < b /\ order'[a] = x /\ order'[b] = y
    BY DEF Before
  <2>2. Before(x, y, list)
    BY <1>6, <2>1 DEF Rest
  <2> QED BY <1>4, <2>2
<1>12. Listed'
  BY <1>7, <1>9, <1>10 DEF Listed
<1>13. Len(list) <= Capacity + 1
  <2>1. Len(list) = 1 + Len(rest)
    BY <1>4
  <2> QED BY <1>5, <2>1
<1> QED BY <1>3, <1>4, <1>7, <1>10, <1>11, <1>12, <1>13

(* Every step keeps the list and the map the same entries. *)
LEMMA LruStep == KeysFinite /\ Capacity \in Nat /\ LruInv /\ [L!Next]_(L!vars) => LruInv'
<1> SUFFICES ASSUME KeysFinite, Capacity \in Nat, LruInv, [L!Next]_(L!vars) PROVE LruInv'
  OBVIOUS
<1> DEFINE CallTyped == lCall' \in [Procs -> [op : L!Ops \cup {"idle"}, keys : SUBSET Keys]]
           Same == UNCHANGED <<lLife, lClosed, order, since>>
<1>1. ASSUME Same, CallTyped, OneKey' PROVE LruInv'
  BY <1>1 DEF LruInv, LruTyped, Listed, Recent, L!Held
<1>2. ASSUME NEW p \in Procs, L!End(p) PROVE CallTyped /\ OneKey'
  BY <1>2 DEF L!End, L!Idle, LruInv, LruTyped, OneKey
<1>3. ASSUME NEW ks, L!Purge(ks), UNCHANGED <<lClosed, since>>, CallTyped, OneKey' PROVE LruInv'
  <2>1. /\ order' \in Seq(Keys) /\ lLife' \in [Keys -> {"absent", "kept", "ttl", "expired"}]
        /\ Listed' /\ Recent'
    BY <1>3, ListPurged DEF LruInv
  <2> QED BY <1>3, <2>1 DEF LruInv, LruTyped
<1>0. ASSUME CallTyped, OneKey', lClosed' \in BOOLEAN,
              /\ order' \in Seq(Keys) /\ lLife' \in [Keys -> {"absent", "kept", "ttl", "expired"}]
              /\ since' \in [Keys -> SUBSET Keys] /\ Listed' /\ Recent'
       PROVE  LruInv'
  BY <1>0 DEF LruInv, LruTyped
<1>4. ASSUME NEW p \in Procs, NEW op \in L!Ops, NEW ks \in SUBSET Keys \ {{}}, L!Call(p, op, ks)
      PROVE  LruInv'
  <2>1. Same /\ CallTyped
    BY <1>4 DEF L!Call, LruInv, LruTyped
  <2>2. op \notin {"batch", "close"} => \E k \in Keys : ks = {k}
    <3>1. L!Cardinality(ks) = Cardinality(ks)
      BY DEF L!Cardinality, Cardinality
    <3>2. op \notin {"batch", "close"} => Cardinality(ks) = 1
      BY <1>4, <3>1 DEF L!Call
    <3>3. IsFiniteSet(ks)
      BY FS_Subset DEF KeysFinite
    <3> QED BY <3>2, <3>3, FS_Singleton
  <2>3. lCall' = [lCall EXCEPT ![p] = [op |-> op, keys |-> ks]] /\ (op = "close" => ks = Keys)
    BY <1>4 DEF L!Call
  <2>4. OneKey'
    BY <2>2, <2>3 DEF LruInv, OneKey, LruTyped
  <2> QED BY <1>1, <2>1, <2>4
<1>5. ASSUME NEW p \in Procs, L!Hit(p) PROVE LruInv'
  <2>1. PICK k \in lCall[p].keys : L!Live(k) /\ L!ToFront(<<k>>) /\ L!Use(<<k>>)
    BY <1>5 DEF L!Hit
  <2>2. k \in L!Held /\ k \in Keys
    BY <2>1 DEF L!Live, L!Held, LruInv, LruTyped
  <2> DEFINE seq == <<k>>
  <2>3. seq \in Seq(Keys) /\ Distinct(seq) /\ Elements(seq) = {k} /\ L!ToSet(seq) = {k}
    BY <2>2, OneLong, SameToSet
  <2>4. L!Use(seq) /\ order' = seq \o L!Unlink({k}, order)
    BY <2>1, <2>3 DEF L!ToFront
  <2>5. lLife' = L!Without({}, lLife) /\ UNCHANGED lClosed
    BY <1>5 DEF L!Hit, L!Without, LruInv, LruTyped
  <2> HIDE DEF seq
  <2>6. order' = seq \o L!Unlink({} \cup Elements(seq), order) /\ Elements(seq) \subseteq L!Held \ {}
    BY <2>2, <2>3, <2>4
  <2>7. /\ order' \in Seq(Keys) /\ lLife' \in [Keys -> {"absent", "kept", "ttl", "expired"}]
        /\ since' \in [Keys -> SUBSET Keys] /\ Listed' /\ Recent'
    BY <2>3, <2>4, <2>5, <2>6, ListFronted, Zenon DEF LruInv
  <2>8. CallTyped /\ OneKey' /\ lClosed' \in BOOLEAN
    BY <1>2, <1>5 DEF L!Hit, LruInv, LruTyped
  <2> QED BY <1>0, <2>7, <2>8
<1>6. ASSUME NEW p \in Procs, L!Miss(p) PROVE LruInv'
  <2>1. CallTyped /\ OneKey'
    <3>1. CASE L!End(p)
      BY <1>2, <3>1
    <3>2. CASE lCall[p].op = "compute" /\ lCall' = [lCall EXCEPT ![p].op = "set"]
      BY <3>2 DEF LruInv, LruTyped, OneKey, L!Ops
    <3> QED BY <1>6, <3>1, <3>2 DEF L!Miss
  <2>2. UNCHANGED <<lClosed, since>> /\ (UNCHANGED <<lLife, order>> \/ L!Purge(lCall[p].keys))
    BY <1>6 DEF L!Miss
  <2> QED BY <1>1, <1>3, <2>1, <2>2
<1>7. ASSUME NEW p \in Procs, L!GetTTL(p) PROVE LruInv'
  <2>1. Same /\ L!End(p)
    BY <1>7 DEF L!GetTTL
  <2> QED BY <1>1, <1>2, <2>1
<1>8. ASSUME NEW p \in Procs, L!Set(p) PROVE LruInv'
  <2>1. CallTyped /\ OneKey' /\ UNCHANGED lClosed /\ lClosed' \in BOOLEAN
    BY <1>2, <1>8 DEF L!Set, LruInv, LruTyped
  <2>2. CASE UNCHANGED <<lLife, order, since>>
    BY <1>1, <2>1, <2>2
  <2>3. ASSUME ~lClosed, NEW k \in lCall[p].keys, NEW new \in {"kept", "ttl", "expired"},
               LET list == <<k>> \o L!Unlink({k}, order)
                   out == L!Oldest(list) IN
               /\ lLife' = L!Without(out, [lLife EXCEPT ![k] = new])
               /\ order' = L!Unlink(out, list)
               /\ L!Use(<<k>>)
        PROVE  LruInv'
    <3>1. k \in Keys
      BY DEF LruInv, LruTyped
    <3> DEFINE list == <<k>> \o L!Unlink({k}, order)
               out == L!Oldest(list)
    <3>2. /\ order' \in Seq(Keys) /\ lLife' \in [Keys -> {"absent", "kept", "ttl", "expired"}]
          /\ since' \in [Keys -> SUBSET Keys] /\ Listed' /\ Recent'
      <4>1. /\ list = <<k>> \o L!Unlink({k}, order) /\ out = L!Oldest(list)
            /\ lLife' = L!Without(out, [lLife EXCEPT ![k] = new]) /\ order' = L!Unlink(out, list)
            /\ L!Use(<<k>>)
        BY <2>3
      <4> HIDE DEF list, out
      <4> QED BY <2>1, <2>3, <3>1, <4>1, ListStored DEF LruInv
    <3> QED BY <1>0, <2>1, <3>2
  <2> QED BY <1>8, <2>2, <2>3 DEF L!Set
<1>9. ASSUME NEW p \in Procs, L!Del(p) PROVE LruInv'
  <2>1. CallTyped /\ OneKey' /\ UNCHANGED <<lClosed, since>>
    BY <1>2, <1>9 DEF L!Del
  <2>2. UNCHANGED <<lLife, order>> \/ L!Purge(lCall[p].keys)
    BY <1>9 DEF L!Del
  <2> QED BY <1>1, <1>3, <2>1, <2>2
<1>10. ASSUME NEW p \in Procs, L!BatchGet(p) PROVE LruInv'
  <2>1. CallTyped /\ OneKey' /\ UNCHANGED lClosed /\ lClosed' \in BOOLEAN
    BY <1>2, <1>10 DEF L!BatchGet, LruInv, LruTyped
  <2>2. CASE UNCHANGED <<lLife, order, since>>
    BY <1>1, <2>1, <2>2
  <2> DEFINE gone == {k \in lCall[p].keys : lLife[k] = "expired"}
             found == (lCall[p].keys \cap L!Held) \ gone
  <2>3. ASSUME NEW seq \in L!SetToSeqs(found),
               lLife' = L!Without(gone, lLife),
               order' = seq \o L!Unlink(gone \cup L!ToSet(seq), order), L!Use(seq)
        PROVE  LruInv'
    <3>1. IsFiniteSet(found) /\ found \subseteq Keys /\ found \subseteq L!Held \ gone
      BY FS_Subset DEF KeysFinite, L!Held
    <3> HIDE DEF found
    <3>2. L!Cardinality(found) = Cardinality(found)
      BY DEF L!Cardinality, Cardinality
    <3>3. /\ seq \in [1..Cardinality(found) -> found]
          /\ \A i, j \in 1..Cardinality(found) : i # j => seq[i] # seq[j]
      BY <2>3, <3>2 DEF L!SetToSeqs
    <3>4. seq \in Seq(found) /\ Distinct(seq) /\ Elements(seq) = found
      BY <3>1, <3>3, SequenceOfAll
    <3>5. seq \in Seq(Keys) /\ L!ToSet(seq) = Elements(seq)
      BY <3>1, <3>4, SameToSet
    <3> HIDE DEF gone
    <3>6. Elements(seq) \subseteq L!Held \ gone /\ order' = seq \o L!Unlink(gone \cup Elements(seq), order)
      BY <2>3, <3>1, <3>4, <3>5
    <3>7. /\ order' \in Seq(Keys) /\ lLife' \in [Keys -> {"absent", "kept", "ttl", "expired"}]
          /\ since' \in [Keys -> SUBSET Keys] /\ Listed' /\ Recent'
      BY <2>1, <2>3, <3>4, <3>5, <3>6, ListFronted, Zenon DEF LruInv
    <3> QED BY <1>0, <2>1, <3>7
  <2> QED BY <1>10, <2>2, <2>3 DEF L!BatchGet
<1>11. ASSUME NEW p \in Procs, L!Close(p) PROVE LruInv'
  <2>1. CallTyped /\ OneKey' /\ lClosed' /\ UNCHANGED since
    BY <1>2, <1>11 DEF L!Close
  <2>2. CASE lClosed
    <3>1. Same
      BY <1>11, <2>1, <2>2 DEF L!Close, LruInv, LruTyped
    <3> QED BY <1>1, <2>1, <3>1
  <2>3. CASE ~lClosed
    <3>1. order' = <<>> /\ Len(order') = 0 /\ lLife' = [k \in Keys |-> "absent"]
      BY <1>11, <2>3 DEF L!Close, L!Without
    <3>2. 1..Len(order') = {} /\ L!Held' = {}
      BY <3>1 DEF L!Held
    <3>3. Listed'
      BY <3>1, <3>2 DEF Listed, Distinct, Elements
    <3>4. Recent'
      BY <3>2 DEF Recent, Before
    <3>5. order' \in Seq(Keys) /\ lLife' \in [Keys -> {"absent", "kept", "ttl", "expired"}]
      BY <3>1
    <3>6. since' \in [Keys -> SUBSET Keys] /\ lClosed' \in BOOLEAN
      BY <2>1 DEF LruInv, LruTyped
    <3> QED BY <1>0, <2>1, <3>3, <3>4, <3>5, <3>6
  <2> QED BY <2>2, <2>3
<1>12. ASSUME NEW k \in Keys, L!Lapse(k) PROVE LruInv'
  <2>1. L!Held' = L!Held /\ lLife' \in [Keys -> {"absent", "kept", "ttl", "expired"}]
    BY <1>12 DEF L!Lapse, L!Held, LruInv, LruTyped
  <2>2. UNCHANGED <<lClosed, lCall, order, since>>
    BY <1>12 DEF L!Lapse
  <2>3. Listed'
    BY <2>1, <2>2 DEF LruInv, Listed
  <2> QED BY <2>1, <2>2, <2>3 DEF LruInv, LruTyped, OneKey, Recent
<1>13. CASE UNCHANGED L!vars
  BY <1>13 DEF L!vars, LruInv, LruTyped, OneKey, Listed, Recent, L!Held
<1> HIDE DEF CallTyped, Same
<1> QED
  BY <1>4, <1>5, <1>6, <1>7, <1>8, <1>9, <1>10, <1>11, <1>12, <1>13 DEF L!Next

(* What BoundedMap sees of the calls. *)
LruCalls == [p \in Procs |-> L!Doing(lCall[p])]

LEMMA SameCardinalityL ==
  ASSUME NEW S
  PROVE  L!Map!Cardinality(S) = Cardinality(S) /\ L!Cardinality(S) = Cardinality(S)
  BY DEF L!Map!Cardinality, L!Cardinality, Cardinality

(* An entry is pushed out just when a new one finds the map full. *)
LEMMA FullMeansOut ==
  ASSUME Capacity \in Nat, NEW S, NEW n \in Nat, IsFiniteSet(S), Cardinality(S) <= Capacity,
         NEW k, n = Cardinality({k} \cup S)
  PROVE  n > Capacity <=> k \notin S /\ Cardinality(S) = Capacity
<1>1. Cardinality(S) \in Nat
  BY FS_CardinalityType
<1>2. {k} \cup S = S \cup {k}
  OBVIOUS
<1>3. n = Cardinality(S \cup {k})
  BY <1>2, Zenon
<1>4. n = IF k \in S THEN Cardinality(S) ELSE Cardinality(S) + 1
  BY <1>3, FS_AddElement
<1> QED BY <1>1, <1>4

(* One step of the handler is one step of the map, or none. *)
LEMMA LruMaps ==
  ASSUME KeysFinite, Capacity \in Nat, LruInv, LruInv', [L!Next]_(L!vars)
  PROVE  [L!Map!Next]_(L!Map!vars)
<1>1. LruCalls' \in [Procs -> L!Map!Calls]
  <2>1. \A p \in Procs : lCall'[p].keys \in SUBSET Keys
    BY DEF LruInv, LruTyped
  <2>2. \A c : c.keys \in SUBSET Keys => L!Doing(c) \in L!Map!Calls
    BY DEF L!Doing, L!Map!Calls
  <2> QED BY <2>1, <2>2 DEF LruCalls
<1>2. CASE UNCHANGED lLife
  BY <1>1, <1>2 DEF L!Map!Next, L!Map!Turn, LruCalls
<1>3. ASSUME NEW gone \in SUBSET L!Held, \A k \in gone : lLife[k] = "expired",
             lLife' = L!Without(gone, lLife)
      PROVE  L!Map!Next
  <2>1. L!Map!Reclaim
    BY <1>1, <1>3 DEF L!Map!Reclaim, L!Map!Held, L!Map!Lose, L!Held, L!Without, LruCalls
  <2> QED BY <2>1 DEF L!Map!Next
<1>4. ASSUME NEW p \in Procs, L!Miss(p) PROVE [L!Map!Next]_(L!Map!vars)
  <2> DEFINE gone == lCall[p].keys \cap L!Held
  <2>1. CASE L!Purge(lCall[p].keys)
    <3>1. \A k \in gone : lLife[k] = "expired"
      BY <1>4 DEF L!Miss, L!Live, L!Held, LruInv, LruTyped
    <3>2. lLife' = L!Without(gone, lLife)
      BY <2>1 DEF L!Purge, L!Without, L!Held, LruInv, LruTyped
    <3> QED BY <1>3, <3>1, <3>2
  <2> QED BY <1>2, <1>4, <2>1 DEF L!Miss
<1>5. ASSUME NEW p \in Procs, L!BatchGet(p) PROVE [L!Map!Next]_(L!Map!vars)
  <2> DEFINE gone == {k \in lCall[p].keys : lLife[k] = "expired"}
  <2>1. gone \in SUBSET L!Held
    BY DEF LruInv, LruTyped, L!Held
  <2> QED BY <1>2, <1>3, <1>5, <2>1 DEF L!BatchGet
<1>6. ASSUME NEW p \in Procs, lCall[p].op \in {"del", "close"}, L!End(p),
             lLife' = L!Without(lCall[p].keys, lLife)
      PROVE  L!Map!Next
  <2>1. LruCalls[p].op = "del" /\ LruCalls[p].keys = lCall[p].keys
    BY <1>6 DEF LruCalls, L!Doing
  <2>2. lLife' = L!Map!Lose(lCall[p].keys, lLife)
    BY <1>6 DEF L!Without, L!Map!Lose
  <2>3. LruCalls' = [LruCalls EXCEPT ![p] = LruCalls'[p]]
    BY <1>6 DEF L!End, LruCalls, LruInv, LruTyped
  <2>4. LruCalls'[p] \in L!Map!Calls
    BY <1>1
  <2>5. L!Map!Remove(p)
    BY <2>1, <2>2, <2>3, <2>4 DEF L!Map!Remove, LruCalls
  <2> QED BY <2>5 DEF L!Map!Next
<1>7. ASSUME NEW p \in Procs, L!Del(p) \/ L!Close(p) PROVE [L!Map!Next]_(L!Map!vars)
  <2>1. lCall[p].op \in {"del", "close"} /\ L!End(p)
    BY <1>7 DEF L!Del, L!Close
  <2>2. UNCHANGED lLife \/ lLife' = L!Without(lCall[p].keys, lLife)
    BY <1>7 DEF L!Del, L!Close, L!Purge, LruInv, OneKey
  <2> QED BY <1>2, <1>6, <2>1, <2>2
<1>8. ASSUME NEW p \in Procs, L!Set(p) PROVE [L!Map!Next]_(L!Map!vars)
  <2>1. ASSUME ~lClosed, UNCHANGED lClosed, NEW k \in lCall[p].keys, NEW new \in {"kept", "ttl", "expired"},
               NEW list, NEW out, list = <<k>> \o L!Unlink({k}, order), out = L!Oldest(list),
               lLife' = L!Without(out, [lLife EXCEPT ![k] = new]),
               order' = L!Unlink(out, list), L!Use(<<k>>)
        PROVE  L!Map!Next
    <3>1. k \in Keys /\ new \in L!Map!Stored
      BY DEF LruInv, LruTyped, L!Map!Stored
    <3>2. list \in Seq(Keys) /\ Distinct(list) /\ Elements(list) = {k} \cup L!Held
      BY <2>1, <3>1, ListStored DEF LruInv
    <3>3. Len(list) = Cardinality({k} \cup L!Held) /\ Len(list) \in Nat
      BY <3>2, AsLongAsHeld, Zenon
    <3>4. IsFiniteSet(L!Held) /\ Cardinality(L!Held) <= Capacity
      BY AsLongAsHeld DEF LruInv, LruTyped, Listed
    <3>5. Len(list) > Capacity <=> k \notin L!Held /\ Cardinality(L!Held) = Capacity
      BY <3>3, <3>4, FullMeansOut
    <3>6. (CHOOSE r \in {Keys} : k \in r) = Keys
      BY <3>1
    <3>7. L!Map!Held = L!Held /\ L!Map!Held \cap Keys = L!Held
      BY DEF L!Map!Held, L!Held
    <3> DEFINE full == k \notin L!Map!Held /\ L!Map!Cardinality(L!Map!Held \cap Keys) = Capacity
               o == IF full THEN list[Len(list)] ELSE "none"
    <3>8. full <=> Len(list) > Capacity
      BY <3>5, <3>7, SameCardinalityL, Zenon
    <3>9. full => list[Len(list)] \in Keys
      BY <3>2, <3>3, <3>8
    <3>10. out = IF full THEN {list[Len(list)]} ELSE {}
      BY <2>1, <3>8 DEF L!Oldest, L!Last
    <3> HIDE DEF full
    <3>11. o \in Keys \cup {"none"} /\ (o # "none" <=> full) /\ (full => o \in Keys)
      BY <3>9 DEF KeysFinite
    <3>12. lLife' = L!Map!Lose({o}, [lLife EXCEPT ![k] = new])
      <4>1. \A j \in Keys : j \in out <=> j \in {o}
        BY <3>10 DEF KeysFinite
      <4> DEFINE map == [lLife EXCEPT ![k] = new]
      <4>2. lLife' = [j \in Keys |-> IF j \in out THEN "absent" ELSE map[j]]
        BY <2>1 DEF L!Without
      <4> HIDE DEF o, map
      <4>3. lLife' = [j \in Keys |-> IF j \in {o} THEN "absent" ELSE map[j]]
        BY <4>1, <4>2
      <4> USE DEF map
      <4> QED BY <4>3 DEF L!Map!Lose
    <3> HIDE DEF o
    <3>13. LruCalls' = [LruCalls EXCEPT ![p] = LruCalls'[p]] /\ LruCalls'[p] \in L!Map!Calls
      BY <1>1, <1>8 DEF L!Set, L!End, LruCalls, LruInv, LruTyped
    <3>14. LruCalls[p].op = "set" /\ k \in LruCalls[p].keys
      BY <1>8 DEF L!Set, LruCalls, L!Doing
    <3>15. L!Map!Put(p, k)
      BY <3>1, <3>6, <3>11, <3>12, <3>13, <3>14 DEF L!Map!Put, LruCalls, full
    <3> QED BY <3>1, <3>15 DEF L!Map!Next
  <2>2. CASE UNCHANGED lLife
    BY <1>2, <2>2
  <2> QED BY <1>8, <2>1, <2>2 DEF L!Set
<1>9. ASSUME NEW k \in Keys, L!Lapse(k) PROVE L!Map!Next
  <2>1. L!Map!Lapse(k)
    BY <1>9 DEF L!Lapse, L!Map!Lapse
  <2> QED BY <1>9, <2>1 DEF L!Map!Next
<1>10. [L!Next]_(L!vars) => \/ UNCHANGED lLife \/ \E k \in Keys : L!Lapse(k)
         \/ \E p \in Procs : L!Miss(p) \/ L!BatchGet(p) \/ L!Del(p) \/ L!Close(p) \/ L!Set(p)
  BY DEF L!Next, L!vars, L!Call, L!Hit, L!GetTTL
<1> QED
  BY <1>2, <1>4, <1>5, <1>7, <1>8, <1>9, <1>10

LEMMA LruMapBegins == ASSUME L!Init PROVE L!Map!Init
  BY DEF L!Init, L!Idle, L!Map!Init, L!Doing

(* Who ends a Set is the one that runs. *)
LEMMA SetEnds ==
  ASSUME LruTyped, L!Next, NEW p \in Procs, lCall[p].op = "set", lCall'[p] = L!Idle
  PROVE  L!Set(p)
<1>1. \A q \in Procs : q # p => ~ \/ \E op \in L!Ops, ks \in SUBSET Keys \ {{}} : L!Call(q, op, ks)
                                  \/ L!Hit(q) \/ L!Miss(q) \/ L!GetTTL(q) \/ L!Set(q) \/ L!Del(q)
                                  \/ L!BatchGet(q) \/ L!Close(q)
  <2> SUFFICES ASSUME NEW q \in Procs, q # p, lCall'[p] = lCall[p] PROVE FALSE
    BY DEF L!Call, L!Hit, L!Miss, L!GetTTL, L!Set, L!Del, L!BatchGet, L!Close, L!End, LruTyped
  <2> QED BY DEF L!Idle
<1>2. ~ \/ \E op \in L!Ops, ks \in SUBSET Keys \ {{}} : L!Call(p, op, ks)
        \/ L!Hit(p) \/ L!Miss(p) \/ L!GetTTL(p) \/ L!Del(p) \/ L!BatchGet(p) \/ L!Close(p)
  BY DEF L!Call, L!Hit, L!Miss, L!GetTTL, L!Del, L!BatchGet, L!Close, L!Idle
<1>3. \A k \in Keys : ~L!Lapse(k)
  BY DEF L!Lapse, L!Idle
<1> QED BY <1>1, <1>2, <1>3 DEF L!Next

(* What Set pushes out is the last of the list, and all in front of it was used later. *)
LEMMA PushedOut ==
  ASSUME KeysFinite, Capacity \in Nat, LruInv, NEW k \in Keys, NEW x \in L!Held,
         NEW list \in Seq(Keys), Distinct(list), Elements(list) = {k} \cup L!Held,
         Len(list) <= Capacity + 1, Len(list) > Capacity, x = list[Len(list)],
         list = <<k>> \o L!Unlink({k}, order),
         Rest(L!Unlink({k}, order), {k}, order)
  PROVE  Cardinality(since[x]) >= Capacity - 1
<1> DEFINE rest == L!Unlink({k}, order)
<1>1. rest \in Seq(Keys) /\ Rest(rest, {k}, order) /\ Len(list) = 1 + Len(rest)
  <2>1. rest \in Seq(Keys) /\ list = <<k>> \o rest
    BY RestTyped DEF LruInv, LruTyped
  <2> HIDE DEF rest
  <2>2. Len(list) = 1 + Len(rest)
    BY <2>1
  <2> QED BY <2>1, <2>2 DEF rest
<1>2. list = <<k>> \o rest
  OBVIOUS
<1>0. since[x] \subseteq Keys /\ IsFiniteSet(since[x]) /\ Cardinality(since[x]) \in Nat
  <2>1. since[x] \subseteq Keys
    BY DEF LruInv, LruTyped, L!Held
  <2> QED BY <2>1, FS_CardinalityType, FS_Subset DEF KeysFinite
<1> HIDE DEF rest
<1>3. Len(rest) = Capacity
  BY <1>1
<1>4. CASE Capacity = 0
  BY <1>0, <1>4
<1>5. CASE Capacity > 0
  <2>1. Capacity \in 1..Len(rest) /\ x = rest[Capacity]
    <3>1. Capacity \in 1..Capacity
      BY <1>5
    <3>2. Capacity \in 1..Len(rest)
      BY <1>3, <3>1
    <3>3. Len(list) = Capacity + 1
      <4>1. Len(list) = 1 + Len(rest)
        BY <1>1
      <4>2. Len(list) = 1 + Capacity
        BY <1>3, <4>1, Zenon
      <4>3. 1 + Capacity = Capacity + 1
        OBVIOUS
      <4> QED BY <4>2, <4>3, Zenon
    <3>4. list[Capacity + 1] = rest[Capacity]
      <4>1. \A i \in 1..Len(rest) : (<<k>> \o rest)[i + 1] = rest[i]
        <5>1. rest \in Seq(Keys) /\ Len(rest) \in Nat
          BY <1>1
        <5> QED BY <5>1
      <4> QED BY <1>2, <3>2, <4>1
    <3> QED BY <3>2, <3>3, <3>4
  <2> DEFINE ahead == {rest[i] : i \in 1..Capacity - 1}
             front == [i \in 1..Capacity - 1 |-> rest[i]]
  <2>2. \A i \in 1..Capacity - 1 : i \in 1..Len(rest) /\ i < Capacity
    BY <1>3
  <2>3. \A i \in 1..Capacity - 1 : Before(rest[i], x, order)
    BY <1>1, <2>1, <2>2 DEF Rest
  <2>4. \A i \in 1..Capacity - 1 : rest[i] \in since[x]
    <3>1. \A i \in 1..Capacity - 1 : rest[i] \in Keys
      BY <1>1, <2>2
    <3> QED BY <2>3, <3>1 DEF LruInv, Recent, L!Held
  <2>5. ahead \subseteq since[x]
    BY <2>4
  <2>6. front \in Seq(Keys) /\ Len(front) = Capacity - 1 /\ Elements(front) = ahead
    <3>1. Capacity - 1 \in Nat /\ \A i \in 1..Capacity - 1 : rest[i] \in Keys
      BY <1>1, <1>5, <2>2
    <3>2. front \in [1..Capacity - 1 -> Keys]
      BY <3>1
    <3>3. front \in Seq(Keys) /\ Len(front) = Capacity - 1
      BY <3>1, <3>2
    <3> QED BY <3>3 DEF Elements
  <2>7. Distinct(front)
    <3>1. \A i, j \in 1..Capacity - 1 : rest[i] = rest[j] => i = j
      BY <1>1, <2>2 DEF Rest, Distinct
    <3>2. \A i \in 1..Capacity - 1 : front[i] = rest[i]
      OBVIOUS
    <3> HIDE DEF front
    <3> QED BY <2>6, <3>1, <3>2 DEF Distinct
  <2> HIDE DEF front, ahead
  <2>8. Cardinality(ahead) = Capacity - 1
    BY <2>6, <2>7, LengthOfDistinct, Zenon
  <2>9. Cardinality(ahead) <= Cardinality(since[x])
    BY <1>0, <2>5, FS_Subset
  <2> QED BY <1>0, <1>5, <2>8, <2>9
<1> QED BY <1>4, <1>5

LEMMA LruEvicts ==
  ASSUME KeysFinite, Capacity \in Nat, LruInv, [L!Next]_(L!vars)
  PROVE  [\A p \in Procs, k \in Keys :
            lCall[p].op = "set" /\ lCall'[p] = L!Idle /\ lLife[k] # "absent" /\ lLife'[k] = "absent"
              => L!Cardinality(since[k]) >= Capacity - 1]_(L!vars)
<1> SUFFICES ASSUME L!Next, NEW p \in Procs, NEW x \in Keys,
                    lCall[p].op = "set", lCall'[p] = L!Idle, lLife[x] # "absent", lLife'[x] = "absent"
             PROVE  L!Cardinality(since[x]) >= Capacity - 1
  OBVIOUS
<1>1. L!Set(p)
  BY SetEnds DEF LruInv
<1>2. ASSUME ~lClosed, UNCHANGED lClosed, NEW k \in lCall[p].keys, NEW new \in {"kept", "ttl", "expired"},
             NEW list, NEW out, list = <<k>> \o L!Unlink({k}, order), out = L!Oldest(list),
             lLife' = L!Without(out, [lLife EXCEPT ![k] = new]),
             order' = L!Unlink(out, list), L!Use(<<k>>)
      PROVE  L!Cardinality(since[x]) >= Capacity - 1
  <2>1. k \in Keys
    BY DEF LruInv, LruTyped
  <2>2. /\ list \in Seq(Keys) /\ Distinct(list) /\ Elements(list) = {k} \cup L!Held
        /\ Len(list) <= Capacity + 1 /\ Rest(L!Unlink({k}, order), {k}, order)
    BY <1>2, <2>1, ListStored DEF LruInv
  <2>3. x \in out
    BY <1>2 DEF L!Without, LruInv, LruTyped
  <2>4. Len(list) > Capacity /\ x = list[Len(list)]
    BY <1>2, <2>3 DEF L!Oldest, L!Last
  <2>5. x \in L!Held
    BY DEF L!Held
  <2>6. Cardinality(since[x]) >= Capacity - 1
    BY <1>2, <2>1, <2>2, <2>4, <2>5, PushedOut
  <2> QED BY <2>6, SameCardinalityL
<1> QED BY <1>1, <1>2 DEF L!Set

-----------------------------------------------------------------------------
(* ClockCache. *)

(* The hash puts each key in one shard. *)
KeysSharded ==
  /\ UNION Shards = Keys
  /\ \A s, t \in Shards : s \cap t # {} => s = t

(* Map, ring and counter agree; who has been used has the bit, and who has the bit is held. *)
RingIs(s) ==
  /\ Distinct(ring[s]) /\ Elements(ring[s]) = C!Held \cap s
  /\ size[s] = Len(ring[s]) /\ Len(ring[s]) <= Capacity
ClockData ==
  /\ cLife \in [Keys -> {"absent", "kept", "ttl", "expired"}]
  /\ ring \in [Shards -> Seq(Keys)] /\ size \in [Shards -> Nat]
  /\ used \subseteq bit /\ bit \subseteq C!Held
  /\ \A s \in Shards : RingIs(s)

(* Only Clear and Close are about more than one key, and only GetOrCompute stores late. *)
ClockCalls ==
  /\ cCall \in [Procs -> [op : C!Ops \cup {"idle"}, keys : SUBSET Keys,
                         at : {"end", "locked", "purge", "again", "purge again", "store"}]]
  /\ \A p \in Procs :
       /\ C!Op(p, {"get", "getttl", "set", "del", "batch", "compute"}) =>
            \E k \in Keys : cCall[p].keys = {k}
       /\ C!At(p, "store") => C!Op(p, {"compute"})
       /\ cCall[p].at \in {"purge", "again", "purge again"} => C!Op(p, {"get", "compute"})

ClockInv == ClockData /\ ClockCalls

LEMMA ClockBegin == ASSUME Capacity \in Nat, C!Init PROVE ClockInv
<1>1. C!Held = {}
  BY DEF C!Init, C!Held
<1>2. ASSUME NEW s \in Shards PROVE RingIs(s)
  <2>1. ring[s] = <<>> /\ Len(ring[s]) = 0 /\ size[s] = 0
    BY DEF C!Init
  <2>2. 1..Len(ring[s]) = {}
    BY <2>1
  <2> QED BY <1>1, <2>1, <2>2 DEF RingIs, Distinct, Elements
<1>3. cLife \in [Keys -> {"absent", "kept", "ttl", "expired"}] /\ size \in [Shards -> Nat]
  BY DEF C!Init
<1>4. ring \in [Shards -> Seq(Keys)]
  BY DEF C!Init
<1>5. used \subseteq bit /\ bit \subseteq C!Held
  BY DEF C!Init
<1>6. ClockCalls
  BY DEF C!Init, C!Idle, ClockCalls, C!Op, C!At
<1> QED BY <1>2, <1>3, <1>4, <1>5, <1>6 DEF ClockInv, ClockData

LEMMA OneShard ==
  ASSUME KeysSharded, NEW k \in Keys
  PROVE  C!getShard(k) \in Shards /\ k \in C!getShard(k)
<1>1. \E s \in Shards : k \in s
  BY DEF KeysSharded
<1> QED BY <1>1 DEF C!getShard

LEMMA ClockUnlinked ==
  ASSUME NEW S, NEW ks, NEW list \in Seq(S), Distinct(list)
  PROVE  Rest(C!Unlink(ks, list), ks, list)
  BY Unlinked, SameUnlink, Zenon

(* Entries of one shard go: the other shards keep theirs. *)
LEMMA Released ==
  ASSUME KeysFinite, KeysSharded, Capacity \in Nat, ClockData,
         NEW s \in Shards, NEW ks \in SUBSET s, C!Release(s, ks)
  PROVE  ClockData'
<1>1. s \subseteq Keys
  BY DEF KeysSharded
<1>2. /\ cLife' \in [Keys -> {"absent", "kept", "ttl", "expired"}]
      /\ C!Held' = C!Held \ ks
  BY DEF C!Release, C!Without, C!Held, ClockData
<1>3. ring[s] \in Seq(Keys) /\ RingIs(s) /\ size[s] \in Nat
  BY DEF ClockData
<1>4. ring'[s] = C!Unlink(ks, ring[s])
  BY DEF C!Release, ClockData
<1>5. Rest(ring'[s], ks, ring[s])
  BY <1>3, <1>4, ClockUnlinked DEF RingIs
<1>6. ring'[s] \in Seq(Keys)
  BY <1>3, <1>5, RestTyped
<1>7. ring' \in [Shards -> Seq(Keys)]
  BY <1>4, <1>6 DEF C!Release, ClockData
<1>8. Distinct(ring'[s]) /\ Elements(ring'[s]) = (C!Held \cap s) \ ks
  BY <1>3, <1>5 DEF Rest, RingIs
<1>9. /\ IsFiniteSet(C!Held \cap s) /\ Cardinality(C!Held \cap s) = Len(ring[s])
      /\ Cardinality((C!Held \cap s) \ ks) = Len(ring'[s]) /\ Len(ring'[s]) \in Nat
  BY <1>3, <1>6, <1>8, AsLongAsHeld, Zenon DEF RingIs
<1>10. Cardinality((C!Held \cap s) \ ks) =
         Cardinality(C!Held \cap s) - Cardinality((C!Held \cap s) \cap ks)
  BY <1>9, FS_Difference
<1>11. size'[s] = size[s] - Cardinality(ks \cap C!Held)
  <2>1. C!Cardinality(ks \cap C!Held) = Cardinality(ks \cap C!Held)
    BY DEF C!Cardinality, Cardinality
  <2> QED BY <2>1 DEF C!Release, ClockData
<1>12. Cardinality((C!Held \cap s) \cap ks) = Cardinality(ks \cap C!Held)
  <2>1. (C!Held \cap s) \cap ks = ks \cap C!Held
    OBVIOUS
  <2> QED BY <2>1, Zenon
<1>13. size'[s] = Len(ring'[s])
  BY <1>3, <1>9, <1>10, <1>11, <1>12 DEF RingIs
<1>14. Len(ring'[s]) <= Len(ring[s])
  <2>1. (C!Held \cap s) \ ks \subseteq C!Held \cap s
    OBVIOUS
  <2>2. Cardinality((C!Held \cap s) \ ks) <= Cardinality(C!Held \cap s)
    BY <1>9, <2>1, FS_Subset
  <2> QED BY <1>9, <2>2
<1>15. RingIs(s)'
  <2>1. C!Held' \cap s = (C!Held \cap s) \ ks
    BY <1>2
  <2>2. Len(ring'[s]) <= Capacity
    BY <1>3, <1>9, <1>14 DEF RingIs
  <2> QED BY <1>8, <1>13, <2>1, <2>2 DEF RingIs
<1>16. ASSUME NEW t \in Shards, t # s PROVE RingIs(t)'
  <2>1. ring'[t] = ring[t] /\ size'[t] = size[t]
    BY <1>16 DEF C!Release, ClockData
  <2>2. C!Held' \cap t = C!Held \cap t
    BY <1>2, <1>16 DEF KeysSharded
  <2> QED BY <2>1, <2>2 DEF RingIs, ClockData
<1>17. size' \in [Shards -> Nat]
  BY <1>9, <1>13 DEF C!Release, ClockData
<1>18. used' \subseteq bit' /\ bit' \subseteq C!Held'
  BY <1>2 DEF C!Release, ClockData
<1> QED BY <1>2, <1>7, <1>15, <1>16, <1>17, <1>18 DEF ClockData

LEMMA GreatestNumber ==
  ASSUME NEW n \in Nat, NEW U, U \subseteq 1..n, U # {}
  PROVE  \E x \in U : \A y \in U : y <= x
<1> DEFINE V == {n - x : x \in U}
<1>1. V \subseteq Nat /\ V # {}
  <2>1. \A x \in U : x \in 1..n
    OBVIOUS
  <2>2. \A x \in U : n - x \in Nat
    BY <2>1
  <2>3. V \subseteq Nat
    BY <2>2
  <2> QED BY <2>3
<1>2. PICK v \in V : \A w \in V : v <= w
  <2> HIDE DEF V
  <2> QED BY <1>1, LeastNumber
<1>3. PICK x \in U : v = n - x
  BY <1>2
<1>4. \A y \in U : n - x <= n - y
  BY <1>2, <1>3
<1> QED BY <1>3, <1>4

(* Parts of a list. *)
LEMMA Part ==
  ASSUME NEW S, NEW list \in Seq(S), Distinct(list), NEW a \in 1..Len(list) + 1,
         NEW b \in 0..Len(list), a <= b + 1
  PROVE  /\ SubSeq(list, a, b) \in Seq(S) /\ Distinct(SubSeq(list, a, b))
         /\ Len(SubSeq(list, a, b)) = b + 1 - a
         /\ Elements(SubSeq(list, a, b)) = {list[j] : j \in a..b}
<1> DEFINE part == SubSeq(list, a, b)
<1>1. part \in Seq(S) /\ Len(part) = b + 1 - a /\ \A j \in 1..b + 1 - a : part[j] = list[a + j - 1]
  OBVIOUS
<1> HIDE DEF part
<1>2. /\ \A j \in 1..Len(part) : a + j - 1 \in a..b /\ a + j - 1 \in 1..Len(list)
      /\ \A j \in a..b : j + 1 - a \in 1..Len(part) /\ a + (j + 1 - a) - 1 = j
  BY <1>1
<1>3. Distinct(part)
  <2> SUFFICES ASSUME NEW i \in 1..Len(part), NEW j \in 1..Len(part), part[i] = part[j] PROVE i = j
    BY DEF Distinct
  <2>1. list[a + i - 1] = list[a + j - 1]
    BY <1>1
  <2>2. a + i - 1 = a + j - 1
    BY <1>2, <2>1 DEF Distinct
  <2> QED BY <2>2
<1>4. Elements(part) = {list[j] : j \in a..b}
  <2>1. \A x \in Elements(part) : x \in {list[j] : j \in a..b}
    BY <1>1, <1>2 DEF Elements
  <2>2. \A j \in a..b : list[j] = part[j + 1 - a]
    BY <1>1, <1>2
  <2>3. \A j \in a..b : list[j] \in Elements(part)
    BY <1>2, <2>2 DEF Elements
  <2> QED BY <2>1, <2>3
<1> QED BY <1>1, <1>3, <1>4 DEF part

(* ToSet takes a list by its domain, Elements by its length. *)
LEMMA ElementsAreToSet ==
  ASSUME NEW list \in Seq(Keys)
  PROVE  C!ToSet(list) = Elements(list)
<1>1. DOMAIN list = 1..Len(list)
  OBVIOUS
<1> QED BY <1>1 DEF C!ToSet, Elements

(* As the new entry, at the head, has no bit, evictVictim finds a victim without one. *)
LEMMA Victim ==
  ASSUME NEW list \in Seq(Keys), Distinct(list), NEW bits, Len(list) >= 1, list[1] \notin bits
  PROVE  LET out == C!evictVictim(list, bits) IN
         /\ out.victim \in Elements(list) /\ out.victim \notin bits
         /\ out.ring \in Seq(Keys) /\ Distinct(out.ring)
         /\ Elements(out.ring) = Elements(list) \ {out.victim}
         /\ Len(out.ring) = Len(list) - 1
         /\ out.passed \subseteq Elements(list)
<1> DEFINE last == Len(list)
           free == {i \in 1..last : list[i] \notin bits}
           v == CHOOSE j \in free : \A h \in free : h <= j
           out == C!evictVictim(list, bits)
<1>1. last \in Nat /\ 1 \in free
  OBVIOUS
<1>2. v \in free /\ \A h \in free : h <= v
  <2>1. free \subseteq 1..last /\ free # {}
    BY <1>1
  <2> HIDE DEF free
  <2>2. \E j \in free : \A h \in free : h <= j
    BY <1>1, <2>1, GreatestNumber
  <2> QED BY <2>2
<1>3. free # {} /\ v \in 1..last /\ list[v] \notin bits
  BY <1>2
<1>4. /\ out.victim = list[v]
      /\ out.passed = C!ToSet(SubSeq(list, v + 1, last))
      /\ out.ring = SubSeq(list, v + 1, last) \o SubSeq(list, 1, v - 1)
  BY <1>3 DEF C!evictVictim
<1> DEFINE a == SubSeq(list, v + 1, last)
           b == SubSeq(list, 1, v - 1)
<1> HIDE DEF v, out
<1>5. a \in Seq(Keys) /\ Distinct(a) /\ Len(a) = last - v /\ Elements(a) = {list[j] : j \in v + 1..last}
  <2>1. v + 1 \in 1..Len(list) + 1 /\ last \in 0..Len(list) /\ v + 1 <= last + 1
    BY <1>1, <1>3
  <2>2. last + 1 - (v + 1) = last - v
    BY <1>1, <1>3
  <2>3. /\ a \in Seq(Keys) /\ Distinct(a) /\ Len(a) = last + 1 - (v + 1)
        /\ Elements(a) = {list[j] : j \in v + 1..last}
    BY <2>1, Part
  <2> QED BY <2>2, <2>3
<1>6. b \in Seq(Keys) /\ Distinct(b) /\ Len(b) = v - 1 /\ Elements(b) = {list[j] : j \in 1..v - 1}
  <2>1. 1 \in 1..Len(list) + 1 /\ v - 1 \in 0..Len(list) /\ 1 <= v - 1 + 1
    BY <1>1, <1>3
  <2>2. v - 1 + 1 - 1 = v - 1
    BY <1>1, <1>3
  <2> QED BY <2>1, <2>2, Part
<1>7. /\ \A j \in v + 1..last : j \in 1..last /\ j # v
      /\ \A j \in 1..v - 1 : j \in 1..last /\ j # v
      /\ \A j \in 1..last : j = v \/ j \in v + 1..last \/ j \in 1..v - 1
      /\ \A i \in v + 1..last, j \in 1..v - 1 : i # j
  BY <1>1, <1>3
<1>8. Elements(a) \cap Elements(b) = {}
  <2> SUFFICES ASSUME NEW x, x \in Elements(a), x \in Elements(b) PROVE FALSE
    OBVIOUS
  <2>1. PICK i \in v + 1..last : x = list[i]
    BY <1>5
  <2>2. PICK j \in 1..v - 1 : x = list[j]
    BY <1>6
  <2>3. i = j
    BY <1>7, <2>1, <2>2 DEF Distinct
  <2> QED BY <1>7, <2>3
<1>9. Elements(a) \cup Elements(b) = Elements(list) \ {list[v]}
  <2>1. ASSUME NEW x \in Elements(a) \cup Elements(b) PROVE x \in Elements(list) \ {list[v]}
    <3>1. PICK i \in 1..last : i # v /\ x = list[i]
      BY <1>5, <1>6, <1>7
    <3> QED BY <1>3, <3>1 DEF Distinct, Elements
  <2>2. ASSUME NEW x \in Elements(list) \ {list[v]} PROVE x \in Elements(a) \cup Elements(b)
    <3>1. PICK i \in 1..last : x = list[i]
      BY DEF Elements
    <3>2. i # v
      BY <3>1
    <3> QED BY <1>5, <1>6, <1>7, <3>1, <3>2
  <2> QED BY <2>1, <2>2
<1>10. C!ToSet(a) = Elements(a)
  BY <1>5, ElementsAreToSet
<1>11. out.ring = a \o b /\ out.passed = Elements(a)
  BY <1>4, <1>10
<1> HIDE DEF a, b
<1>12. /\ a \o b \in Seq(Keys) /\ Distinct(a \o b) /\ Len(a \o b) = Len(a) + Len(b)
       /\ Elements(a \o b) = Elements(a) \cup Elements(b)
  BY <1>5, <1>6, <1>8, InFront
<1>13. Len(a \o b) = last - 1
  BY <1>1, <1>3, <1>5, <1>6, <1>12
<1>14. list[v] \in Elements(list)
  BY <1>3 DEF Elements
<1> QED BY <1>3, <1>4, <1>9, <1>11, <1>12, <1>13, <1>14 DEF out

(* The list of a shard with k put in front. *)
LEMMA ShardFronted ==
  ASSUME KeysFinite, KeysSharded, Capacity \in Nat, ClockData, NEW s \in Shards, NEW k \in s
  PROVE  LET list == <<k>> \o C!Unlink({k}, ring[s]) IN
         /\ list \in Seq(Keys) /\ Distinct(list) /\ Elements(list) = {k} \cup (C!Held \cap s)
         /\ Len(list) >= 1 /\ list[1] = k
         /\ Len(list) = IF k \in C!Held THEN Len(ring[s]) ELSE Len(ring[s]) + 1
<1> DEFINE seq == <<k>>
           rest == C!Unlink({k}, ring[s])
           list == seq \o rest
<1>1. k \in Keys
  BY DEF KeysSharded
<1>2. ring[s] \in Seq(Keys) /\ RingIs(s)
  BY DEF ClockData
<1>3. Rest(rest, {k}, ring[s])
  BY <1>2, ClockUnlinked DEF RingIs
<1> HIDE DEF rest
<1>4. rest \in Seq(Keys) /\ Distinct(rest) /\ Elements(rest) = (C!Held \cap s) \ {k}
  BY <1>2, <1>3, RestTyped DEF Rest, RingIs
<1>5. seq \in Seq(Keys) /\ Distinct(seq) /\ Elements(seq) = {k} /\ Len(seq) = 1 /\ seq[1] = k
  BY <1>1, OneLong
<1> HIDE DEF seq
<1>6. /\ seq \o rest \in Seq(Keys) /\ Distinct(seq \o rest)
      /\ Len(seq \o rest) = Len(seq) + Len(rest)
      /\ Elements(seq \o rest) = Elements(seq) \cup Elements(rest)
  <2>1. Elements(seq) \cap Elements(rest) = {}
    BY <1>4, <1>5
  <2> QED BY <1>4, <1>5, <2>1, InFront
<1>7. list[1] = k /\ Len(list) >= 1
  <2>1. (seq \o rest)[1] = seq[1]
    <3>1. seq \in Seq(Keys) /\ rest \in Seq(Keys)
      BY <1>4, <1>5
    <3>2. \A i \in 1..Len(seq) : (seq \o rest)[i] = seq[i]
      BY <3>1
    <3>3. 1 \in 1..Len(seq)
      BY <1>5
    <3> QED BY <3>2, <3>3
  <2>2. Len(list) = 1 + Len(rest) /\ Len(rest) \in Nat
    BY <1>4, <1>5, <1>6
  <2> QED BY <1>5, <2>1, <2>2
<1>8. list \in Seq(Keys) /\ Distinct(list) /\ Elements(list) = {k} \cup (C!Held \cap s)
  BY <1>4, <1>5, <1>6
<1> HIDE DEF list
<1>9. /\ IsFiniteSet(C!Held \cap s) /\ Cardinality(C!Held \cap s) = Len(ring[s])
      /\ Cardinality({k} \cup (C!Held \cap s)) = Len(list)
  BY <1>2, <1>8, AsLongAsHeld, Zenon DEF RingIs
<1>10. {k} \cup (C!Held \cap s) = (C!Held \cap s) \cup {k}
  OBVIOUS
<1>11. Cardinality((C!Held \cap s) \cup {k}) = Len(list)
  BY <1>9, <1>10, Zenon
<1>12. Len(list) = IF k \in C!Held \cap s THEN Len(ring[s]) ELSE Len(ring[s]) + 1
  BY <1>9, <1>11, FS_AddElement
<1> QED BY <1>7, <1>8, <1>12 DEF list, rest, seq

(* What a shard is after its list has changed, the others left alone. *)
LEMMA ShardChanges ==
  ASSUME KeysSharded, Capacity \in Nat, ClockData, NEW s \in Shards,
         cLife' \in [Keys -> {"absent", "kept", "ttl", "expired"}],
         \A j \in Keys : j \notin s => cLife'[j] = cLife[j],
         NEW list \in Seq(Keys), Distinct(list), Len(list) <= Capacity,
         Elements(list) = C!Held' \cap s,
         ring' = [ring EXCEPT ![s] = list],
         size' = [size EXCEPT ![s] = Len(list)],
         used' \subseteq bit', bit' \subseteq C!Held'
  PROVE  ClockData'
<1>1. ring'[s] = list /\ size'[s] = Len(list) /\ Len(list) \in Nat
  BY DEF ClockData
<1>2. RingIs(s)'
  BY <1>1 DEF RingIs
<1>3. ASSUME NEW t \in Shards, t # s PROVE RingIs(t)'
  <2>1. ring'[t] = ring[t] /\ size'[t] = size[t]
    BY <1>3 DEF ClockData
  <2>2. \A j \in t : j \in Keys /\ j \notin s
    BY <1>3 DEF KeysSharded
  <2>3. C!Held' \cap t = C!Held \cap t
    BY <2>2 DEF C!Held
  <2> QED BY <2>1, <2>3 DEF RingIs, ClockData
<1>4. ring' \in [Shards -> Seq(Keys)] /\ size' \in [Shards -> Nat]
  BY <1>1 DEF ClockData
<1> QED BY <1>2, <1>3, <1>4 DEF ClockData

(* Store overwrites an entry, adds one, or replaces a victim that had no bit. *)
LEMMA Stored ==
  ASSUME KeysFinite, KeysSharded, Capacity \in Nat, ClockInv, NEW p \in Procs, C!Store(p)
  PROVE  /\ ClockData'
         /\ \E k \in cCall[p].keys, new \in {"ttl", "expired"}, out \in Keys \cup {"none"} :
              /\ k \in Keys
              /\ out # "none" <=> k \notin C!Held /\ Len(ring[C!getShard(k)]) = Capacity
              /\ out # "none" => out \in C!getShard(k) /\ out \notin bit
              /\ cLife' = [j \in Keys |-> IF j = out THEN "absent" ELSE [cLife EXCEPT ![k] = new][j]]
<1>1. PICK k \in cCall[p].keys, new \in {"ttl", "expired"} :
        LET s == C!getShard(k)
            list == <<k>> \o C!Unlink({k}, ring[s])
            out == C!evictVictim(list, bit) IN
        \/ /\ k \in C!Held
           /\ cLife' = [cLife EXCEPT ![k] = new] /\ ring' = [ring EXCEPT ![s] = list]
           /\ bit' = bit \cup {k} /\ used' = used \cup {k}
           /\ UNCHANGED size
        \/ /\ k \notin C!Held /\ size[s] + 1 <= Capacity
           /\ cLife' = [cLife EXCEPT ![k] = new] /\ ring' = [ring EXCEPT ![s] = list]
           /\ size' = [size EXCEPT ![s] = @ + 1]
           /\ UNCHANGED <<bit, used>>
        \/ /\ k \notin C!Held /\ size[s] + 1 > Capacity
           /\ cLife' = [cLife EXCEPT ![k] = new, ![out.victim] = "absent"]
           /\ ring' = [ring EXCEPT ![s] = out.ring]
           /\ bit' = bit \ (out.passed \cup {out.victim}) /\ used' = used \ s
           /\ UNCHANGED size
  BY DEF C!Store
<1> DEFINE s == C!getShard(k)
           list == <<k>> \o C!Unlink({k}, ring[s])
           out == C!evictVictim(list, bit)
<1>2. k \in Keys
  BY DEF ClockInv, ClockCalls
<1>3. s \in Shards /\ k \in s /\ s \subseteq Keys
  BY <1>2, OneShard DEF KeysSharded
<1> HIDE DEF s
<1>4. /\ list \in Seq(Keys) /\ Distinct(list) /\ Elements(list) = {k} \cup (C!Held \cap s)
      /\ Len(list) >= 1 /\ list[1] = k
      /\ Len(list) = IF k \in C!Held THEN Len(ring[s]) ELSE Len(ring[s]) + 1
  BY <1>3, ShardFronted DEF ClockInv
<1> HIDE DEF list
<1>5. /\ ring[s] \in Seq(Keys) /\ size[s] = Len(ring[s]) /\ Len(ring[s]) <= Capacity
      /\ Len(ring[s]) \in Nat
  BY <1>3 DEF ClockInv, ClockData, RingIs
<1>6. ClockData /\ cLife \in [Keys -> {"absent", "kept", "ttl", "expired"}]
      /\ used \subseteq bit /\ bit \subseteq C!Held /\ size \in [Shards -> Nat]
  BY DEF ClockInv, ClockData
<1> DEFINE Stores(kk, nn, o) ==
      /\ kk \in Keys
      /\ o # "none" <=> kk \notin C!Held /\ Len(ring[C!getShard(kk)]) = Capacity
      /\ o # "none" => o \in C!getShard(kk) /\ o \notin bit
      /\ cLife' = [j \in Keys |-> IF j = o THEN "absent" ELSE [cLife EXCEPT ![kk] = nn][j]]
<1>0. ASSUME ClockData', NEW o \in Keys \cup {"none"},
             o # "none" <=> k \notin C!Held /\ Len(ring[s]) = Capacity,
             o # "none" => o \in s /\ o \notin bit,
             cLife' = [j \in Keys |-> IF j = o THEN "absent" ELSE [cLife EXCEPT ![k] = new][j]]
      PROVE  ClockData' /\ \E kk \in cCall[p].keys, nn \in {"ttl", "expired"}, oo \in Keys \cup {"none"} :
               Stores(kk, nn, oo)
  <2>1. Stores(k, new, o)
    BY <1>0, <1>2 DEF s
  <2> HIDE DEF Stores
  <2> QED BY <1>0, <2>1
<1>7. CASE /\ k \in C!Held
           /\ cLife' = [cLife EXCEPT ![k] = new] /\ ring' = [ring EXCEPT ![s] = list]
           /\ bit' = bit \cup {k} /\ used' = used \cup {k}
           /\ UNCHANGED size
  <2>1. /\ cLife' \in [Keys -> {"absent", "kept", "ttl", "expired"}]
        /\ \A j \in Keys : j \notin s => cLife'[j] = cLife[j]
        /\ C!Held' = C!Held
    BY <1>2, <1>3, <1>6, <1>7 DEF C!Held
  <2>2. Elements(list) = C!Held' \cap s /\ Len(list) <= Capacity /\ size' = [size EXCEPT ![s] = Len(list)]
    BY <1>3, <1>4, <1>5, <1>6, <1>7, <2>1
  <2>3. used' \subseteq bit' /\ bit' \subseteq C!Held'
    BY <1>6, <1>7, <2>1
  <2>4. ClockData'
    BY <1>3, <1>4, <1>6, <1>7, <2>1, <2>2, <2>3, ShardChanges, Zenon
  <2>5. cLife' = [j \in Keys |-> IF j = "none" THEN "absent" ELSE [cLife EXCEPT ![k] = new][j]]
    BY <1>6, <1>7 DEF KeysFinite
  <2> QED BY <1>0, <1>7, <2>4, <2>5
<1>8. CASE /\ k \notin C!Held /\ size[s] + 1 <= Capacity
           /\ cLife' = [cLife EXCEPT ![k] = new] /\ ring' = [ring EXCEPT ![s] = list]
           /\ size' = [size EXCEPT ![s] = @ + 1]
           /\ UNCHANGED <<bit, used>>
  <2>1. /\ cLife' \in [Keys -> {"absent", "kept", "ttl", "expired"}]
        /\ \A j \in Keys : j \notin s => cLife'[j] = cLife[j]
        /\ C!Held' = C!Held \cup {k}
    BY <1>2, <1>3, <1>6, <1>8 DEF C!Held
  <2>2. Elements(list) = C!Held' \cap s /\ Len(list) <= Capacity /\ size' = [size EXCEPT ![s] = Len(list)]
    BY <1>3, <1>4, <1>5, <1>6, <1>8, <2>1
  <2>3. used' \subseteq bit' /\ bit' \subseteq C!Held'
    BY <1>6, <1>8, <2>1
  <2>4. ClockData'
    BY <1>3, <1>4, <1>6, <1>8, <2>1, <2>2, <2>3, ShardChanges, Zenon
  <2>5. cLife' = [j \in Keys |-> IF j = "none" THEN "absent" ELSE [cLife EXCEPT ![k] = new][j]]
    BY <1>6, <1>8 DEF KeysFinite
  <2>6. Len(ring[s]) # Capacity
    BY <1>5, <1>8
  <2> QED BY <1>0, <1>8, <2>4, <2>5, <2>6
<1>9. CASE /\ k \notin C!Held /\ size[s] + 1 > Capacity
           /\ cLife' = [cLife EXCEPT ![k] = new, ![out.victim] = "absent"]
           /\ ring' = [ring EXCEPT ![s] = out.ring]
           /\ bit' = bit \ (out.passed \cup {out.victim}) /\ used' = used \ s
           /\ UNCHANGED size
  <2>1. /\ out.victim \in Elements(list) /\ out.victim \notin bit
        /\ out.ring \in Seq(Keys) /\ Distinct(out.ring)
        /\ Elements(out.ring) = Elements(list) \ {out.victim}
        /\ Len(out.ring) = Len(list) - 1
        /\ out.passed \subseteq Elements(list)
    BY <1>4, <1>6, <1>9, Victim
  <2> HIDE DEF out
  <2>2. out.victim \in s /\ out.victim \in Keys
    BY <1>3, <1>4, <2>1
  <2>3. cLife' = [j \in Keys |-> IF j = out.victim THEN "absent" ELSE [cLife EXCEPT ![k] = new][j]]
    BY <1>6, <1>9, <2>2
  <2>4. /\ cLife' \in [Keys -> {"absent", "kept", "ttl", "expired"}]
        /\ \A j \in Keys : j \notin s => cLife'[j] = cLife[j]
        /\ C!Held' = (C!Held \cup {k}) \ {out.victim}
    BY <1>2, <1>3, <1>6, <2>2, <2>3 DEF C!Held
  <2>5. /\ Elements(out.ring) = C!Held' \cap s /\ Len(out.ring) = Capacity
        /\ size' = [size EXCEPT ![s] = Len(out.ring)]
    BY <1>3, <1>4, <1>5, <1>6, <1>9, <2>1, <2>4
  <2>6. used' \subseteq bit' /\ bit' \subseteq C!Held'
    BY <1>3, <1>4, <1>6, <1>9, <2>1, <2>4
  <2>10. Len(out.ring) <= Capacity
    BY <2>5
  <2>7. ClockData'
    BY <1>3, <1>6, <1>9, <2>1, <2>4, <2>5, <2>6, <2>10, ShardChanges, Zenon
  <2>8. Len(ring[s]) = Capacity
    BY <1>5, <1>9
  <2>9. out.victim # "none"
    BY <2>2 DEF KeysFinite
  <2>11. out.victim \in Keys \cup {"none"} /\ k \notin C!Held
    BY <1>9, <2>2
  <2> QED BY <1>0, <2>1, <2>2, <2>3, <2>7, <2>8, <2>9, <2>11, Zenon
<1> QED BY <1>1, <1>7, <1>8, <1>9 DEF s, list, out

(* A call of GetOrCompute, or a Get, goes on to its next section. *)
LEMMA ClockCallGoes ==
  ASSUME ClockCalls, NEW p \in Procs, NEW l \in {"purge", "again", "purge again", "store"},
         C!Op(p, {"get", "compute"}), l = "store" => C!Op(p, {"compute"}), C!Goto(p, l)
  PROVE  ClockCalls'
<1> DEFINE Calls == [op : C!Ops \cup {"idle"}, keys : SUBSET Keys,
                     at : {"end", "locked", "purge", "again", "purge again", "store"}]
           c == [cCall[p] EXCEPT !.at = l]
<1>1. c \in Calls /\ c.op = cCall[p].op /\ c.keys = cCall[p].keys /\ c.at = l
  BY DEF ClockCalls
<1>2. cCall \in [Procs -> Calls] /\ cCall' = [cCall EXCEPT ![p] = c]
  BY DEF ClockCalls, C!Goto
<1> HIDE DEF Calls, c
<1>3. cCall' \in [Procs -> Calls] /\ cCall'[p] = c /\ \A q \in Procs \ {p} : cCall'[q] = cCall[q]
  BY <1>1, <1>2
<1>4. ASSUME NEW q \in Procs
      PROVE  /\ C!Op(q, {"get", "getttl", "set", "del", "batch", "compute"})' =>
                  \E k \in Keys : cCall'[q].keys = {k}
             /\ C!At(q, "store")' => C!Op(q, {"compute"})'
             /\ cCall'[q].at \in {"purge", "again", "purge again"} => C!Op(q, {"get", "compute"})'
  <2>1. CASE q = p
    BY <1>1, <1>3, <2>1 DEF ClockCalls, C!Op, C!At
  <2>2. CASE q # p
    BY <1>3, <2>2 DEF ClockCalls, C!Op, C!At
  <2> QED BY <2>1, <2>2
<1> QED BY <1>3, <1>4 DEF ClockCalls, Calls

LEMMA ClockStep == KeysFinite /\ KeysSharded /\ Capacity \in Nat /\ ClockInv /\ [C!Next]_(C!vars) => ClockInv'
<1> SUFFICES ASSUME KeysFinite, KeysSharded, Capacity \in Nat, ClockInv, [C!Next]_(C!vars)
             PROVE  ClockInv'
  OBVIOUS
<1> DEFINE Same == UNCHANGED <<cLife, ring, size, bit, used>>
<1>1. ASSUME Same PROVE ClockData'
  BY <1>1 DEF ClockInv, ClockData, RingIs, C!Held
<1>2. ASSUME NEW p \in Procs, C!End(p) PROVE ClockCalls'
  BY <1>2 DEF ClockInv, ClockCalls, C!End, C!Idle, C!Op, C!At
<1>3. ASSUME NEW p \in Procs, ClockData', C!Op(p, {"get", "compute"}), C!AfterMiss(p) PROVE ClockInv'
  <2>1. CASE C!End(p)
    BY <1>2, <1>3, <2>1 DEF ClockInv
  <2>2. ASSUME C!Op(p, {"compute"}), NEW l \in {"again", "store"}, C!Goto(p, l) PROVE ClockCalls'
    BY <1>3, <2>2, ClockCallGoes DEF ClockInv
  <2> QED BY <1>3, <2>1, <2>2 DEF C!AfterMiss, ClockInv
<1>4. ASSUME NEW p \in Procs, NEW op \in C!Ops, NEW ks \in SUBSET Keys \ {{}}, C!Call(p, op, ks)
      PROVE  ClockInv'
  <2>1. Same
    BY <1>4 DEF C!Call
  <2>2. op \notin {"clear", "close"} => \E k \in Keys : ks = {k}
    <3>1. C!Cardinality(ks) = Cardinality(ks)
      BY DEF C!Cardinality, Cardinality
    <3>2. op \notin {"clear", "close"} => Cardinality(ks) = 1
      BY <1>4, <3>1 DEF C!Call
    <3>3. IsFiniteSet(ks)
      BY FS_Subset DEF KeysFinite
    <3> QED BY <3>2, <3>3, FS_Singleton
  <2>3. cCall' = [cCall EXCEPT ![p] = [op |-> op, at |-> "locked", keys |-> ks]]
    BY <1>4 DEF C!Call
  <2>4. ClockCalls'
    BY <2>2, <2>3 DEF ClockInv, ClockCalls, C!Op, C!At, C!Ops
  <2> QED BY <1>1, <2>1, <2>4 DEF ClockInv
<1>5. ASSUME NEW p \in Procs, C!Hit(p) PROVE ClockInv'
  <2>1. PICK k \in cCall[p].keys : C!Live(k) /\ bit' = bit \cup {k} /\ used' = used \cup {k}
    BY <1>5 DEF C!Hit
  <2>2. k \in C!Held /\ UNCHANGED <<cLife, ring, size>>
    BY <1>5, <2>1 DEF C!Hit, C!Live, C!Held, ClockInv, ClockCalls
  <2>3. ClockData'
    BY <2>1, <2>2 DEF ClockInv, ClockData, RingIs, C!Held
  <2> QED BY <1>2, <1>5, <2>3 DEF C!Hit, ClockInv
<1>6. ASSUME NEW p \in Procs, C!Miss(p) PROVE ClockInv'
  <2>1. ClockData' /\ C!Op(p, {"get", "compute"})
    BY <1>1, <1>6 DEF C!Miss
  <2>2. CASE C!AfterMiss(p)
    BY <1>3, <2>1, <2>2
  <2>3. CASE C!Goto(p, IF C!At(p, "again") THEN "purge again" ELSE "purge")
    <3>1. ClockCalls'
      BY <2>1, <2>3, ClockCallGoes DEF ClockInv
    <3> QED BY <2>1, <3>1 DEF ClockInv
  <2> QED BY <1>6, <2>2, <2>3 DEF C!Miss
<1>7. ASSUME NEW p \in Procs, C!Look(p) PROVE ClockInv'
  BY <1>1, <1>2, <1>7 DEF C!Look, ClockInv
<1>8. ASSUME NEW p \in Procs, C!Purge(p) PROVE ClockInv'
  <2>1. PICK k \in cCall[p].keys : C!Release(C!getShard(k), {j \in {k} : cLife[j] = "expired"})
    BY <1>8 DEF C!Purge
  <2>2. C!getShard(k) \in Shards /\ {j \in {k} : cLife[j] = "expired"} \in SUBSET C!getShard(k)
    <3>1. k \in Keys
      BY DEF ClockInv, ClockCalls
    <3> QED BY <3>1, OneShard
  <2>3. ClockData'
    BY <2>1, <2>2, Released DEF ClockInv
  <2>4. C!Op(p, {"get", "compute"})
    BY <1>8 DEF C!Purge, ClockInv, ClockCalls
  <2> QED BY <1>3, <1>8, <2>3, <2>4 DEF C!Purge
<1>9. ASSUME NEW p \in Procs, C!Store(p) PROVE ClockInv'
  <2>1. ClockData'
    BY <1>9, Stored
  <2> QED BY <1>2, <1>9, <2>1 DEF C!Store, ClockInv
<1>10. ASSUME NEW p \in Procs, C!Del(p) PROVE ClockInv'
  <2>1. PICK k \in cCall[p].keys : C!Release(C!getShard(k), {k})
    BY <1>10 DEF C!Del
  <2>2. C!getShard(k) \in Shards /\ {k} \in SUBSET C!getShard(k)
    <3>1. k \in Keys
      BY DEF ClockInv, ClockCalls
    <3> QED BY <3>1, OneShard
  <2>3. ClockData'
    BY <2>1, <2>2, Released DEF ClockInv
  <2> QED BY <1>2, <1>10, <2>3 DEF C!Del, ClockInv
<1>11. ASSUME NEW p \in Procs, C!Wipe(p) PROVE ClockInv'
  <2>1. PICK s \in Shards : /\ C!Release(s, s)
                            /\ IF cCall[p].keys = s THEN C!End(p) ELSE cCall' = [cCall EXCEPT ![p].keys = @ \ s]
    BY <1>11 DEF C!Wipe
  <2>2. ClockData'
    BY <2>1, Released DEF ClockInv
  <2>3. ClockCalls'
    <3>1. CASE C!End(p)
      BY <1>2, <3>1
    <3>2. CASE cCall' = [cCall EXCEPT ![p].keys = @ \ s]
      <4> DEFINE Calls == [op : C!Ops \cup {"idle"}, keys : SUBSET Keys,
                           at : {"end", "locked", "purge", "again", "purge again", "store"}]
                 c == [cCall[p] EXCEPT !.keys = @ \ s]
      <4>1. c \in Calls /\ c.op = cCall[p].op /\ c.at = cCall[p].at
        BY DEF ClockInv, ClockCalls
      <4>2. cCall \in [Procs -> Calls] /\ cCall' = [cCall EXCEPT ![p] = c]
        BY <3>2 DEF ClockInv, ClockCalls
      <4>3. cCall[p].op \in {"clear", "close"} /\ cCall[p].at \notin {"store", "purge", "again", "purge again"}
        BY <1>11 DEF C!Wipe, ClockInv, ClockCalls, C!Op, C!At
      <4> HIDE DEF Calls, c
      <4>4. cCall' \in [Procs -> Calls] /\ cCall'[p] = c
            /\ \A q \in Procs \ {p} : cCall'[q] = cCall[q]
        BY <4>1, <4>2
      <4>5. ASSUME NEW q \in Procs
            PROVE  /\ C!Op(q, {"get", "getttl", "set", "del", "batch", "compute"})' =>
                        \E k \in Keys : cCall'[q].keys = {k}
                   /\ C!At(q, "store")' => C!Op(q, {"compute"})'
                   /\ cCall'[q].at \in {"purge", "again", "purge again"} => C!Op(q, {"get", "compute"})'
        <5>1. CASE q = p
          BY <4>1, <4>3, <4>4, <5>1 DEF C!Op, C!At
        <5>2. CASE q # p
          BY <4>4, <5>2 DEF ClockInv, ClockCalls, C!Op, C!At
        <5> QED BY <5>1, <5>2
      <4> QED BY <4>4, <4>5 DEF ClockCalls, Calls
    <3> QED BY <2>1, <3>1, <3>2
  <2> QED BY <2>2, <2>3 DEF ClockInv
<1>12. ASSUME NEW k \in Keys, C!Lapse(k) PROVE ClockInv'
  <2>1. C!Held' = C!Held /\ cLife' \in [Keys -> {"absent", "kept", "ttl", "expired"}]
    BY <1>12 DEF C!Lapse, C!Held, ClockInv, ClockData
  <2>2. UNCHANGED <<cCall, ring, size, bit, used>>
    BY <1>12 DEF C!Lapse
  <2>3. ClockData'
    BY <2>1, <2>2 DEF ClockInv, ClockData, RingIs
  <2> QED BY <2>2, <2>3 DEF ClockInv, ClockCalls, C!Op, C!At
<1>13. CASE UNCHANGED C!vars
  <2>1. ClockData'
    BY <1>1, <1>13 DEF C!vars
  <2> QED BY <1>13, <2>1 DEF C!vars, ClockInv, ClockCalls, C!Op, C!At
<1> HIDE DEF Same
<1> QED
  BY <1>4, <1>5, <1>6, <1>7, <1>8, <1>9, <1>10, <1>11, <1>12, <1>13 DEF C!Next

(* What BoundedMap sees of the calls. *)
ClockSeen == [p \in Procs |-> C!Doing(cCall[p])]

(* One step of the handler is one step of the map, or none. *)
LEMMA ClockMaps ==
  ASSUME KeysFinite, KeysSharded, Capacity \in Nat, ClockInv, ClockInv', [C!Next]_(C!vars)
  PROVE  [C!Map!Next]_(C!Map!vars)
<1>1. ClockSeen' \in [Procs -> C!Map!Calls]
  <2>1. \A p \in Procs : cCall'[p].keys \in SUBSET Keys
    BY DEF ClockInv, ClockCalls
  <2>2. \A c : c.keys \in SUBSET Keys => C!Doing(c) \in C!Map!Calls
    BY DEF C!Doing, C!Map!Calls
  <2> QED BY <2>1, <2>2 DEF ClockSeen
<1>2. CASE UNCHANGED cLife
  BY <1>1, <1>2 DEF C!Map!Next, C!Map!Turn, ClockSeen
<1>3. ASSUME NEW p \in Procs, C!Purge(p) PROVE C!Map!Next
  <2>1. PICK k \in cCall[p].keys : C!Release(C!getShard(k), {j \in {k} : cLife[j] = "expired"})
    BY <1>3 DEF C!Purge
  <2> DEFINE gone == {j \in {k} : cLife[j] = "expired"}
  <2>2. gone \in SUBSET C!Held /\ \A j \in gone : cLife[j] = "expired"
    BY DEF C!Held, ClockInv, ClockCalls
  <2>3. cLife' = C!Map!Lose(gone, cLife)
    BY <2>1 DEF C!Release, C!Without, C!Map!Lose
  <2>4. C!Map!Reclaim
    <3> HIDE DEF gone
    <3> QED BY <1>1, <2>2, <2>3 DEF C!Map!Reclaim, C!Map!Held, C!Held, ClockSeen
  <2> QED BY <2>4 DEF C!Map!Next
<1>4. ASSUME NEW p \in Procs, C!Op(p, {"del", "clear", "close"}), NEW ks \in SUBSET cCall[p].keys,
             cCall' = [cCall EXCEPT ![p] = cCall'[p]],
             cLife' = C!Without(ks, cLife)
      PROVE  C!Map!Next
  <2>1. ClockSeen[p].op = "del" /\ ClockSeen[p].keys = cCall[p].keys
    BY <1>4 DEF ClockSeen, C!Doing, C!Op, C!At, ClockInv, ClockCalls
  <2>2. cLife' = C!Map!Lose(ks, cLife)
    BY <1>4 DEF C!Without, C!Map!Lose
  <2>3. ClockSeen' = [ClockSeen EXCEPT ![p] = ClockSeen'[p]]
    BY <1>4 DEF ClockSeen, ClockInv, ClockCalls
  <2>4. ClockSeen'[p] \in C!Map!Calls
    BY <1>1
  <2>5. C!Map!Remove(p)
    BY <2>1, <2>2, <2>3, <2>4 DEF C!Map!Remove, ClockSeen
  <2> QED BY <2>5 DEF C!Map!Next
<1>5. ASSUME NEW p \in Procs, C!Del(p) PROVE C!Map!Next
  <2>1. PICK k \in cCall[p].keys : C!Release(C!getShard(k), {k})
    BY <1>5 DEF C!Del
  <2>2. cCall' = [cCall EXCEPT ![p] = cCall'[p]]
    BY <1>5 DEF C!Del, C!End, ClockInv, ClockCalls
  <2> QED BY <1>4, <1>5, <2>1, <2>2 DEF C!Del, C!Release, C!Op
<1>6. ASSUME NEW p \in Procs, C!Wipe(p) PROVE C!Map!Next
  <2>1. PICK s \in Shards : s \subseteq cCall[p].keys /\ C!Release(s, s)
    BY <1>6 DEF C!Wipe
  <2>2. cCall' = [cCall EXCEPT ![p] = cCall'[p]]
    BY <1>6 DEF C!Wipe, C!End, ClockInv, ClockCalls
  <2> QED BY <1>4, <1>6, <2>1, <2>2 DEF C!Wipe, C!Release, C!Op
<1>7. ASSUME NEW p \in Procs, C!Store(p) PROVE C!Map!Next
  <2>1. PICK k \in cCall[p].keys, new \in {"ttl", "expired"}, out \in Keys \cup {"none"} :
          /\ k \in Keys
          /\ out # "none" <=> k \notin C!Held /\ Len(ring[C!getShard(k)]) = Capacity
          /\ out # "none" => out \in C!getShard(k) /\ out \notin bit
          /\ cLife' = [j \in Keys |-> IF j = out THEN "absent" ELSE [cLife EXCEPT ![k] = new][j]]
    BY <1>7, Stored
  <2>2. C!getShard(k) \in Shards /\ new \in C!Map!Stored
    BY <2>1, OneShard DEF C!Map!Stored
  <2>3. C!Map!Cardinality(C!Map!Held \cap C!getShard(k)) = Len(ring[C!getShard(k)])
    <3>1. /\ ring[C!getShard(k)] \in Seq(Keys) /\ Distinct(ring[C!getShard(k)])
          /\ Elements(ring[C!getShard(k)]) = C!Held \cap C!getShard(k)
      BY <2>2 DEF ClockInv, ClockData, RingIs
    <3>2. Cardinality(C!Held \cap C!getShard(k)) = Len(ring[C!getShard(k)])
      BY <3>1, AsLongAsHeld, Zenon
    <3>3. C!Map!Held = C!Held
      BY DEF C!Map!Held, C!Held
    <3>4. \A S : C!Map!Cardinality(S) = Cardinality(S)
      BY DEF C!Map!Cardinality, Cardinality
    <3> QED BY <3>2, <3>3, <3>4, Zenon
  <2>4. (CHOOSE r \in Shards : k \in r) = C!getShard(k)
    BY DEF C!getShard
  <2>5. cLife' = C!Map!Lose({out}, [cLife EXCEPT ![k] = new])
    BY <2>1 DEF C!Map!Lose
  <2>6. ClockSeen' = [ClockSeen EXCEPT ![p] = ClockSeen'[p]] /\ ClockSeen'[p] \in C!Map!Calls
    BY <1>1, <1>7 DEF C!Store, C!End, ClockSeen, ClockInv, ClockCalls
  <2>7. ClockSeen[p].op = "set" /\ k \in ClockSeen[p].keys
    BY <1>7 DEF C!Store, C!Op, C!At, ClockSeen, C!Doing, ClockInv, ClockCalls
  <2>8. C!Map!Held = C!Held
    BY DEF C!Map!Held, C!Held
  <2>9. C!Map!Put(p, k)
    BY <2>1, <2>2, <2>3, <2>4, <2>5, <2>6, <2>7, <2>8 DEF C!Map!Put, ClockSeen
  <2> QED BY <2>1, <2>9 DEF C!Map!Next
<1>8. ASSUME NEW k \in Keys, C!Lapse(k) PROVE C!Map!Next
  <2>1. C!Map!Lapse(k)
    BY <1>8 DEF C!Lapse, C!Map!Lapse
  <2> QED BY <1>8, <2>1 DEF C!Map!Next
<1>9. [C!Next]_(C!vars) => \/ UNCHANGED cLife \/ \E k \in Keys : C!Lapse(k)
         \/ \E p \in Procs : C!Purge(p) \/ C!Store(p) \/ C!Del(p) \/ C!Wipe(p)
  BY DEF C!Next, C!vars, C!Call, C!Hit, C!Miss, C!Look
<1> QED
  BY <1>2, <1>3, <1>5, <1>6, <1>7, <1>8, <1>9

LEMMA ClockMapBegins == ASSUME C!Init PROVE C!Map!Init
  BY DEF C!Init, C!Idle, C!Map!Init, C!Doing

(* Who ends a store is the one that runs. *)
LEMMA StoreEnds ==
  ASSUME ClockCalls, C!Next, NEW p \in Procs, C!Op(p, {"set"}) \/ C!At(p, "store"), cCall'[p] = C!Idle
  PROVE  C!Store(p)
<1>1. cCall'[p] # cCall[p]
  BY DEF C!Op, C!At, C!Idle
<1>2. ASSUME NEW q \in Procs, q # p
      PROVE  ~ \/ \E op \in C!Ops, ks \in SUBSET Keys \ {{}} : C!Call(q, op, ks)
               \/ C!Hit(q) \/ C!Miss(q) \/ C!Look(q) \/ C!Purge(q) \/ C!Store(q) \/ C!Del(q) \/ C!Wipe(q)
  BY <1>1, <1>2 DEF C!Call, C!Hit, C!Miss, C!Look, C!Purge, C!Store, C!Del, C!Wipe, C!End, C!Goto,
    C!AfterMiss, ClockCalls
<1>3. ~ \/ \E op \in C!Ops, ks \in SUBSET Keys \ {{}} : C!Call(p, op, ks)
        \/ C!Hit(p) \/ C!Miss(p) \/ C!Look(p) \/ C!Purge(p) \/ C!Del(p) \/ C!Wipe(p)
  <2>1. /\ cCall[p].op \in {"set", "compute"} /\ cCall[p].at \notin {"purge", "again", "purge again"}
        /\ cCall[p].op = "compute" => cCall[p].at = "store"
    <3>1. C!At(p, "store") => C!Op(p, {"compute"})
      BY DEF ClockCalls
    <3>2. cCall[p].at \in {"purge", "again", "purge again"} => C!Op(p, {"get", "compute"})
      BY DEF ClockCalls
    <3> QED BY <3>1, <3>2 DEF C!Op, C!At
  <2>2. \A op \in C!Ops, ks \in SUBSET Keys \ {{}} : ~C!Call(p, op, ks)
    <3>1. C!Idle.op = "idle"
      BY DEF C!Idle
    <3>2. cCall[p] # C!Idle
      BY <2>1, <3>1
    <3> QED BY <3>2 DEF C!Call
  <2>3. ~C!Hit(p) /\ ~C!Miss(p)
    BY <2>1 DEF C!Hit, C!Miss, C!Op
  <2>4. ~C!Look(p) /\ ~C!Purge(p) /\ ~C!Del(p) /\ ~C!Wipe(p)
    BY <2>1 DEF C!Look, C!Purge, C!Del, C!Wipe, C!Op
  <2> QED BY <2>2, <2>3, <2>4
<1>4. \A k \in Keys : ~C!Lapse(k)
  BY <1>1 DEF C!Lapse
<1> QED BY <1>2, <1>3, <1>4 DEF C!Next

(* The victim has no bit, and what has been used has one. *)
LEMMA ClockSurvives ==
  ASSUME KeysFinite, KeysSharded, Capacity \in Nat, ClockInv, [C!Next]_(C!vars)
  PROVE  [\A p \in Procs, k \in used :
            (C!Op(p, {"set"}) \/ C!At(p, "store")) /\ cCall'[p] = C!Idle => cLife'[k] # "absent"]_(C!vars)
<1> SUFFICES ASSUME C!Next, NEW p \in Procs, NEW x \in used,
                    C!Op(p, {"set"}) \/ C!At(p, "store"), cCall'[p] = C!Idle
             PROVE  cLife'[x] # "absent"
  OBVIOUS
<1>1. C!Store(p)
  BY StoreEnds DEF ClockInv
<1>2. PICK k \in cCall[p].keys, new \in {"ttl", "expired"}, out \in Keys \cup {"none"} :
        /\ k \in Keys
        /\ out # "none" => out \in C!getShard(k) /\ out \notin bit
        /\ cLife' = [j \in Keys |-> IF j = out THEN "absent" ELSE [cLife EXCEPT ![k] = new][j]]
  BY <1>1, Stored
<1>3. x \in Keys /\ x \in bit /\ cLife[x] # "absent"
  BY DEF ClockInv, ClockData, C!Held
<1>4. x # out
  BY <1>2, <1>3 DEF KeysFinite
<1> QED BY <1>2, <1>3, <1>4 DEF ClockInv, ClockData

-----------------------------------------------------------------------------
(* The three together. *)

(* Finitely many keys, each in one shard, and a capacity that is a number. *)
LocalParameters == KeysFinite /\ FewKeysFinite /\ KeysSharded /\ Capacity \in Nat

LocalInv == LruInv /\ ClockInv /\ ExpiringInv

LEMMA LocalBegins ==
  ASSUME LocalParameters, Init
  PROVE  LocalInv /\ L!Map!Init /\ C!Map!Init /\ E!Map!Init
  BY LruBegin, ClockBegin, ExpiringBegin, LruMapBegins, ClockMapBegins
  DEF LocalParameters, Init, LocalInv

LEMMA LocalStep == ASSUME LocalParameters, LocalInv, [Next]_vars PROVE LocalInv'
  BY Steps, LruStep, ClockStep, ExpiringStep DEF LocalParameters, LocalInv

(* The list of LRUHandler and the rings and counters of LRUOptimizedHandler have just the
   entries of their maps, each once, and no more than fit; after Close the list handler
   holds nothing a late call could move (lru.go, lru_optimized.go). *)
THEOREM ListsAreTheMaps ==
  ASSUME LocalParameters
  PROVE  Spec => []ListsMatch
<1>1. Init => LocalInv
  BY LocalBegins
<1>2. LocalInv /\ [Next]_vars => LocalInv'
  BY LocalStep
<1>3. LocalInv => ListsMatch
  <2> SUFFICES ASSUME LocalInv PROVE ListsMatch
    OBVIOUS
  <2>1. L!ListMatches
    <3>1. order \in Seq(Keys) /\ Distinct(order) /\ Elements(order) = L!Held
          /\ Len(order) <= Capacity /\ (lClosed => L!Held = {})
      BY DEF LocalInv, LruInv, LruTyped, Listed
    <3>2. L!ToSet(order) = L!Held
      BY <3>1, SameToSet
    <3>3. Len(order) = L!Cardinality(L!Held)
      BY <3>1, AsLongAsHeld, SameCardinalityL, Zenon
    <3> QED BY <3>1, <3>2, <3>3 DEF L!ListMatches
  <2>2. ASSUME NEW s \in Shards
        PROVE  /\ C!ToSet(ring[s]) = C!Held \cap s /\ Len(ring[s]) = C!Cardinality(C!Held \cap s)
               /\ size[s] = Len(ring[s]) /\ size[s] <= Capacity
    <3>1. /\ ring[s] \in Seq(Keys) /\ Distinct(ring[s]) /\ Elements(ring[s]) = C!Held \cap s
          /\ size[s] = Len(ring[s]) /\ Len(ring[s]) <= Capacity
      BY DEF LocalInv, ClockInv, ClockData, RingIs
    <3>2. C!ToSet(ring[s]) = Elements(ring[s])
      BY <3>1, ElementsAreToSet
    <3>3. C!Cardinality(C!Held \cap s) = Cardinality(C!Held \cap s)
      BY DEF C!Cardinality, Cardinality
    <3>4. Cardinality(C!Held \cap s) = Len(ring[s])
      BY <3>1, AsLongAsHeld, Zenon
    <3> QED BY <3>1, <3>2, <3>3, <3>4
  <2>3. C!RingMatches
    BY <2>2 DEF C!RingMatches
  <2> QED BY <2>1, <2>3 DEF ListsMatch
<1> QED BY <1>1, <1>2, <1>3, PTL DEF Spec

(* What the three handlers lose is what a bounded map may lose: an entry leaves because its
   time has come, because a call in progress deletes it, or because its room is full. *)
THEOREM EntriesAreKept ==
  ASSUME LocalParameters
  PROVE  Spec => KeepsEntries
<1>1. Init => LocalInv /\ L!Map!Init /\ C!Map!Init /\ E!Map!Init
  BY LocalBegins
<1>2. LocalInv /\ [Next]_vars => LocalInv'
  BY LocalStep
<1>3. LocalInv /\ LocalInv' /\ [Next]_vars =>
        [L!Map!Next]_(L!Map!vars) /\ [C!Map!Next]_(C!Map!vars) /\ [E!Map!Next]_(E!Map!vars)
  BY Steps, LruMaps, ClockMaps, ExpiringMaps DEF LocalParameters, LocalInv
<1> QED
  BY <1>1, <1>2, <1>3, PTL
  DEF Spec, KeepsEntries, L!KeepsEntries, C!KeepsEntries, E!KeepsEntries,
      L!Map!Spec, C!Map!Spec, E!Map!Spec

(* LRUHandler pushes out an entry only after as many other keys were used as fit, and what
   LRUOptimizedHandler has been asked for since the last eviction survives the next. *)
THEOREM EvictsTheUnused ==
  ASSUME LocalParameters
  PROVE  Spec => EvictsByUse
<1>1. Init => LocalInv
  BY LocalBegins
<1>2. LocalInv /\ [Next]_vars => LocalInv'
  BY LocalStep
<1>3. LocalInv /\ [Next]_vars =>
        /\ [\A p \in Procs, k \in Keys :
              lCall[p].op = "set" /\ lCall'[p] = L!Idle /\ lLife[k] # "absent" /\ lLife'[k] = "absent"
                => L!Cardinality(since[k]) >= Capacity - 1]_(L!vars)
        /\ [\A p \in Procs, k \in used :
              (C!Op(p, {"set"}) \/ C!At(p, "store")) /\ cCall'[p] = C!Idle
                => cLife'[k] # "absent"]_(C!vars)
  BY Steps, LruEvicts, ClockSurvives DEF LocalParameters, LocalInv
<1> QED
  BY <1>1, <1>2, <1>3, PTL DEF Spec, EvictsByUse, L!EvictsLeastRecent, C!UsedSurvives
=============================================================================
