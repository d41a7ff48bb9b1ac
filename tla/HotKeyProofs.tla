---------------------------- MODULE HotKeyProofs ----------------------------
(* Proofs about HotKey, for any instances, finite sets of keys, values and sizes. *)
EXTENDS HotKey, FiniteSetTheorems, WellFoundedInduction, TLAPS

(* The places that the keys of a map have in a sequence. *)
There(ks, map) == {k \in ks : map[k] # 0}
HavePlaces(ks, map, order) == \A k \in There(ks, map) : \E i \in 1..Len(order) : order[i] = k

(* A sequence as long as the set it takes different elements from has all of them. *)
LEMMA SequenceOfAll ==
  ASSUME NEW S, IsFiniteSet(S), NEW s \in [1..Cardinality(S) -> S],
         \A i, j \in 1..Cardinality(S) : i # j => s[i] # s[j]
  PROVE  s \in Seq(S) /\ \A x \in S : \E i \in 1..Len(s) : s[i] = x
<1>1. Cardinality(S) \in Nat
  BY FS_CardinalityType
<1>2. s \in Seq(S) /\ Len(s) = Cardinality(S)
  BY <1>1
<1>3. Cardinality(1..Cardinality(S)) = Cardinality(S)
  BY <1>1, FS_Interval
<1>4. s \in Injection(1..Cardinality(S), S)
  BY DEF Injection, IsInjective
<1>5. s \in Surjection(1..Cardinality(S), S)
  BY <1>3, <1>4, FS_Injection
<1> QED BY <1>2, <1>5 DEF Surjection

LEMMA LeastNumber ==
  ASSUME NEW U, U \subseteq Nat, U # {}
  PROVE  \E x \in U : \A y \in U : x <= y
<1> DEFINE R == OpToRel(<, Nat)
<1>1. IsWellFoundedOn(R, Nat)
  BY NatLessThanWellFounded
<1>2. \A x, y \in Nat : y < x => <<y, x>> \in R
  BY DEF OpToRel
<1> HIDE DEF R
<1>3. \E x \in U : \A y \in U : ~(<<y, x>> \in R)
  BY <1>1, WFMin
<1>4. PICK x \in U : \A y \in U : ~(<<y, x>> \in R)
  BY <1>3
<1>5. ASSUME NEW y \in U PROVE x <= y
  <2>1. x \in Nat /\ y \in Nat /\ ~(<<y, x>> \in R)
    BY <1>4
  <2>2. ~(y < x)
    BY <1>2, <2>1
  <2> QED BY <2>1, <2>2
<1> QED BY <1>5

(* The first places of the keys that are there, and the first n of these. *)
FirstPlaces(map, order) ==
  {i \in DOMAIN order : map[order[i]] # 0 /\ \A j \in 1 .. i - 1 : order[j] # order[i]}
Leading(map, order, n) ==
  {i \in FirstPlaces(map, order) :
    Cardinality({j \in FirstPlaces(map, order) : j < i}) < n}

LEMMA FirstPlace ==
  ASSUME NEW ks, NEW map, NEW order \in Seq(ks), NEW i \in 1..Len(order), map[order[i]] # 0
  PROVE  \E h \in FirstPlaces(map, order) : order[h] = order[i]
<1> DEFINE U == {h \in 1..Len(order) : order[h] = order[i]}
<1>1. U \subseteq Nat /\ i \in U
  OBVIOUS
<1>2. PICK h \in U : \A j \in U : h <= j
  BY <1>1, LeastNumber
<1>3. ASSUME NEW j \in 1 .. h - 1 PROVE order[j] # order[h]
  <2>1. j \in 1..Len(order) /\ ~(h <= j) /\ order[h] = order[i]
    BY <1>2
  <2>2. j \notin U
    BY <1>2, <2>1
  <2> QED BY <2>1, <2>2
<1> QED BY <1>2, <1>3 DEF FirstPlaces

(* When the keys in the leading places go, and all places up to the last of these, then the
   keys that stay still have a place. *)
LEMMA CutKeepsPlaces ==
  ASSUME NEW ks, NEW map, NEW order \in Seq(ks), NEW n \in Int,
         HavePlaces(ks, map, order),
         NEW last \in Leading(map, order, n), \A i \in Leading(map, order, n) : i <= last,
         NEW kept, kept = [k \in ks |-> IF k \in {order[i] : i \in Leading(map, order, n)}
                                       THEN 0 ELSE map[k]]
  PROVE  /\ SubSeq(order, last + 1, Len(order)) \in Seq(ks)
         /\ HavePlaces(ks, kept, SubSeq(order, last + 1, Len(order)))
<1> DEFINE F == FirstPlaces(map, order)
           rest == SubSeq(order, last + 1, Len(order))
           Before(i) == {j \in F : j < i}
<1>1. F \subseteq 1..Len(order) /\ Len(order) \in Nat
  BY DEF FirstPlaces
<1>2. last \in F /\ last \in 1..Len(order) /\ Cardinality(Before(last)) < n
  BY <1>1 DEF Leading
<1>3. /\ rest \in Seq(ks) /\ Len(rest) = Len(order) - last
      /\ \A i \in 1..Len(rest) : rest[i] = order[last + i]
  BY <1>1, <1>2
<1>4. ASSUME NEW k \in ks, kept[k] # 0 PROVE \E i \in 1..Len(rest) : rest[i] = k
  <2>1. map[k] # 0 /\ \A i \in Leading(map, order, n) : order[i] # k
    BY <1>4
  <2>2. PICK i \in 1..Len(order) : order[i] = k
    BY <2>1 DEF HavePlaces, There
  <2>3. PICK h \in F : order[h] = k
    BY <2>1, <2>2, FirstPlace
  <2>4. h \in 1..Len(order) /\ h \notin Leading(map, order, n)
    BY <1>1, <2>1, <2>3
  <2>5. ~(Cardinality(Before(h)) < n)
    BY <2>4 DEF Leading
  <2>6. ~(h <= last)
    <3> SUFFICES ASSUME h <= last PROVE FALSE
      OBVIOUS
    <3>1. Before(h) \subseteq Before(last)
      BY <1>1, <1>2, <2>4
    <3>2. IsFiniteSet(Before(last))
      <4>1. IsFiniteSet(1..Len(order)) /\ Before(last) \in SUBSET (1..Len(order))
        BY <1>1, FS_Interval
      <4> QED BY <4>1, FS_Subset
    <3>3. Cardinality(Before(h)) <= Cardinality(Before(last)) /\ IsFiniteSet(Before(h))
      BY <3>1, <3>2, FS_Subset
    <3>4. Cardinality(Before(h)) \in Nat /\ Cardinality(Before(last)) \in Nat
      BY <3>2, <3>3, FS_CardinalityType
    <3> HIDE DEF Before
    <3> QED BY <1>2, <2>5, <3>3, <3>4
  <2>7. h - last \in 1..Len(rest) /\ last + (h - last) = h
    BY <1>2, <1>3, <2>4, <2>6
  <2> QED BY <1>3, <2>3, <2>7
<1> QED BY <1>3, <1>4 DEF HavePlaces, There

-----------------------------------------------------------------------------
(* The maps that calls and Redis hold, *)
Typed ==
  /\ source \in Maps /\ redis \subseteq Maps
  /\ agent \in [Agents -> [at : {"end", "get", "load", "put", "store", "all", "save", "setex",
                                   "del"}, data : Maps]]
(* and a place for every key of a local map; places without a key there may be. *)
Places ==
  /\ localCache \in [Nodes -> Maps] /\ accessOrder \in [Nodes -> Seq(Keys)]
  /\ \A n \in Nodes : HavePlaces(Keys, localCache[n], accessOrder[n])

LEMMA PlacesChange ==
  ASSUME Places, NEW n \in Nodes, NEW map \in Maps, NEW order \in Seq(Keys),
         HavePlaces(Keys, map, order),
         localCache' = [localCache EXCEPT ![n] = map],
         accessOrder' = [accessOrder EXCEPT ![n] = order]
  PROVE  Places'
  BY DEF Places

LEMMA ReplacePlaces ==
  ASSUME IsFiniteSet(Keys), Places, NEW n \in Nodes, NEW map \in Maps, Replace(n, map)
  PROVE  Places'
<1>1. PICK s \in SetToSeqs(KeysOf(map)) : accessOrder' = [accessOrder EXCEPT ![n] = s]
  BY DEF Replace
<1>2. There(Keys, map) = KeysOf(map) /\ There(Keys, map) \in SUBSET Keys
  BY DEF There, KeysOf
<1>3. IsFiniteSet(There(Keys, map))
  BY <1>2, FS_Subset
<1>4. /\ s \in [1..Cardinality(There(Keys, map)) -> There(Keys, map)]
      /\ \A i, j \in 1..Cardinality(There(Keys, map)) : i # j => s[i] # s[j]
  <2>1. s \in SetToSeqs(There(Keys, map))
    BY <1>2
  <2> DEFINE S == There(Keys, map)
  <2> HIDE DEF S
  <2>2. s \in SetToSeqs(S)
    BY <2>1 DEF S
  <2>3. s \in [1..Cardinality(S) -> S] /\ \A i, j \in 1..Cardinality(S) : i # j => s[i] # s[j]
    BY <2>2 DEF SetToSeqs
  <2> QED BY <2>3 DEF S
<1>5. s \in Seq(There(Keys, map)) /\ \A k \in There(Keys, map) : \E i \in 1..Len(s) : s[i] = k
  <2> DEFINE S == There(Keys, map)
  <2>1. /\ IsFiniteSet(S) /\ s \in [1..Cardinality(S) -> S]
        /\ \A i, j \in 1..Cardinality(S) : i # j => s[i] # s[j]
    BY <1>3, <1>4
  <2> HIDE DEF S
  <2>2. s \in Seq(S) /\ \A k \in S : \E i \in 1..Len(s) : s[i] = k
    BY <2>1, SequenceOfAll
  <2> QED BY <2>2 DEF S
<1>6. s \in Seq(Keys) /\ HavePlaces(Keys, map, s)
  BY <1>2, <1>5 DEF HavePlaces
<1>7. localCache' = [localCache EXCEPT ![n] = map]
  BY DEF Replace
<1> QED BY <1>1, <1>6, <1>7, PlacesChange

LEMMA PlacesStep ==
  ASSUME IsFiniteSet(Keys), Called \subseteq Nodes, Typed, Places, [Next]_(vars)
  PROVE  Typed' /\ Places'
<1>0. /\ \A a \in Agents : a[1] \in Nodes /\ agent[a].data \in Maps
      /\ Empty \in Maps /\ \A n \in Called : <<n, "call">> \in Agents /\ n \in Nodes
  BY DEF Typed, Agents, Empty, Maps
<1>1. ASSUME UNCHANGED <<localCache, accessOrder>> PROVE Places'
  BY <1>1 DEF Places
<1>2. ASSUME UNCHANGED agent, source' \in Maps, redis' \subseteq Maps PROVE Typed'
  BY <1>2 DEF Typed
<1>3. ASSUME NEW a \in Agents, source' = source, redis' \subseteq Maps,
             \/ \E l \in {"get", "load", "store", "save", "del"} : Goto(a, l)
             \/ \E l \in {"store", "put", "all", "setex"}, map \in Maps : Take(a, l, map)
             \/ End(a)
      PROVE  Typed'
  BY <1>0, <1>3 DEF Typed, Goto, Take, End, Idle
<1>4. CASE ChangeSource \/ Expire
  <2>1. source' \in Maps /\ redis' \subseteq Maps
    BY <1>4 DEF ChangeSource, Expire, Typed, Maps
  <2> QED BY <1>1, <1>2, <1>4, <2>1 DEF ChangeSource, Expire, local
<1>5. ASSUME NEW a \in Agents, Step(a) \/ BeginRefresh(a)
      PROVE  Typed' /\ Places'
  <2>1. CASE GetRedis(a)
    BY <1>1, <1>3, <2>1 DEF GetRedis, local, Typed
  <2>2. CASE Load(a)
    BY <1>1, <1>3, <2>2 DEF Load, local, Typed
  <2>3. CASE Put(a) \/ SetEx(a) \/ Del(a)
    <3>1. redis' \subseteq Maps /\ source' = source /\ UNCHANGED <<localCache, accessOrder>>
      BY <1>0, <2>3 DEF Put, SetEx, Del, local, Typed
    <3> QED BY <1>1, <1>3, <2>3, <3>1 DEF Put, SetEx, Del
  <2>4. CASE Store(a)
    BY <1>0, <1>3, <2>4, ReplacePlaces DEF Store, Typed
  <2>5. CASE RefreshSetAll(a)
    BY <1>0, <1>3, <2>5, ReplacePlaces DEF RefreshSetAll, Typed
  <2>6. CASE Save(a)
    <3>1. localCache[a[1]] \in Maps
      BY <1>0 DEF Places
    <3> QED BY <1>1, <1>3, <2>6, <3>1 DEF Save, local, Typed
  <2>7. CASE BeginRefresh(a)
    <3>1. UNCHANGED <<source, redis, localCache, accessOrder>>
          /\ (Take(a, "all", source) \/ UNCHANGED agent)
      BY <2>7 DEF BeginRefresh, local
    <3> QED BY <1>1, <1>2, <1>3, <3>1 DEF Typed
  <2> QED BY <1>5, <2>1, <2>2, <2>3, <2>4, <2>5, <2>6, <2>7 DEF Step
<1>6. ASSUME NEW n \in Nodes, Cleanup(n) \/ Stop(n) PROVE Typed' /\ Places'
  <2>1. CASE Stop(n)
    BY <1>1, <1>2, <2>1 DEF Stop, local, Typed
  <2>2. CASE Cleanup(n)
    <3> DEFINE size == Cardinality(KeysOf(localCache[n]))
               toEvict == IF size \div 5 > 1 THEN size \div 5 ELSE 1
               lead == Leading(localCache[n], accessOrder[n], toEvict)
               kept == [k \in Keys |-> IF k \in {accessOrder[n][i] : i \in lead}
                                       THEN 0 ELSE localCache[n][k]]
    <3>1. toEvict \in Int
      <4>1. KeysOf(localCache[n]) \in SUBSET Keys
        BY DEF KeysOf
      <4>2. size \in Nat
        BY <4>1, FS_Subset, FS_CardinalityType
      <4> HIDE DEF size
      <4> QED BY <4>2, Z3
    <3>2. FirstThere(n) = FirstPlaces(localCache[n], accessOrder[n])
      BY DEF FirstThere, FirstPlaces
    <3> DEFINE places == {i \in FirstThere(n) :
                           Cardinality({j \in FirstThere(n) : j < i}) < toEvict}
    <3>8. places = lead
      BY <3>2 DEF Leading
    <3>9. \E last \in places :
            /\ \A i \in places : i <= last
            /\ localCache' = [localCache EXCEPT ![n] =
                               [k \in Keys |-> IF k \in {accessOrder[n][i] : i \in places}
                                              THEN 0 ELSE localCache[n][k]]]
            /\ accessOrder' = [accessOrder EXCEPT ![n] =
                                 SubSeq(accessOrder[n], last + 1, Len(accessOrder[n]))]
      BY <2>2 DEF Cleanup
    <3>3. PICK last \in lead :
            /\ \A i \in lead : i <= last
            /\ localCache' = [localCache EXCEPT ![n] = kept]
            /\ accessOrder' = [accessOrder EXCEPT ![n] =
                                 SubSeq(accessOrder[n], last + 1, Len(accessOrder[n]))]
      <4> HIDE DEF places, lead
      <4> QED BY <3>8, <3>9
    <3>4. /\ accessOrder[n] \in Seq(Keys) /\ localCache[n] \in Maps
          /\ HavePlaces(Keys, localCache[n], accessOrder[n])
      BY DEF Places
    <3>5. kept \in Maps
      BY <3>4 DEF Maps
    <3> HIDE DEF toEvict
    <3>6. /\ SubSeq(accessOrder[n], last + 1, Len(accessOrder[n])) \in Seq(Keys)
          /\ HavePlaces(Keys, kept, SubSeq(accessOrder[n], last + 1, Len(accessOrder[n])))
      BY <3>1, <3>3, <3>4, CutKeepsPlaces
    <3> HIDE DEF kept, lead
    <3>7. Places'
      BY <3>3, <3>5, <3>6, PlacesChange
    <3> QED BY <1>2, <2>2, <3>7 DEF Cleanup, Typed
  <2> QED BY <1>6, <2>1, <2>2
<1>7. ASSUME NEW n \in Called,
             \/ BeginLoadAll(n) \/ CallSetAll(n) \/ Clear(n)
             \/ \E k \in Keys : Delete(n, k) \/ \E v \in Values : Set(n, k, v)
      PROVE  Typed' /\ Places'
  <2>1. CASE BeginLoadAll(n)
    BY <1>0, <1>1, <1>3, <2>1 DEF BeginLoadAll, local, Typed
  <2>2. CASE CallSetAll(n)
    BY <1>0, <1>3, <2>2, ReplacePlaces DEF CallSetAll, Typed
  <2>3. CASE Clear(n)
    BY <1>0, <1>3, <2>3, ReplacePlaces DEF Clear, Typed
  <2>4. ASSUME NEW k \in Keys, Delete(n, k) PROVE Typed' /\ Places'
    <3>1. localCache' = [localCache EXCEPT ![n] = [localCache[n] EXCEPT ![k] = 0]]
          /\ accessOrder' = accessOrder
      BY <1>0, <2>4 DEF Delete, Places
    <3>2. Places'
      BY <1>0, <3>1 DEF Places, Maps, HavePlaces, There
    <3> QED BY <1>0, <1>3, <2>4, <3>2 DEF Delete, Typed
  <2>5. ASSUME NEW k \in Keys, NEW v \in Values, Set(n, k, v) PROVE Typed' /\ Places'
    <3>1. /\ localCache' = [localCache EXCEPT ![n] = [localCache[n] EXCEPT ![k] = v]]
          /\ accessOrder' = IF localCache[n][k] = 0
                            THEN [accessOrder EXCEPT ![n] = Append(accessOrder[n], k)]
                            ELSE accessOrder
      BY <1>0, <2>5 DEF Set, Places
    <3>2. /\ localCache[n] \in Maps /\ accessOrder[n] \in Seq(Keys)
          /\ HavePlaces(Keys, localCache[n], accessOrder[n])
      BY <1>0 DEF Places
    <3>3. [localCache[n] EXCEPT ![k] = v] \in Maps
      BY <3>2 DEF Maps
    <3>6. Typed'
      BY <1>0, <1>3, <2>5 DEF Set, Typed
    <3>4. CASE localCache[n][k] = 0
      <4> DEFINE order == Append(accessOrder[n], k)
      <4>1. /\ order \in Seq(Keys) /\ Len(order) = Len(accessOrder[n]) + 1
            /\ order[Len(order)] = k /\ \A i \in 1..Len(accessOrder[n]) : order[i] = accessOrder[n][i]
        BY <3>2
      <4> HIDE DEF order
      <4>2. HavePlaces(Keys, [localCache[n] EXCEPT ![k] = v], order)
        <5> SUFFICES ASSUME NEW j \in Keys, [localCache[n] EXCEPT ![k] = v][j] # 0
                     PROVE  \E i \in 1..Len(order) : order[i] = j
          BY DEF HavePlaces, There
        <5>1. CASE j = k
          BY <3>2, <4>1, <5>1
        <5>2. CASE j # k
          <6>1. localCache[n][j] # 0
            BY <3>2, <5>2 DEF Maps
          <6>2. PICK i \in 1..Len(accessOrder[n]) : accessOrder[n][i] = j
            BY <3>2, <6>1 DEF HavePlaces, There
          <6> QED BY <3>2, <4>1, <6>2
        <5> QED BY <5>1, <5>2
      <4>3. accessOrder' = [accessOrder EXCEPT ![n] = order]
        BY <3>1, <3>4 DEF order
      <4> DEFINE map == [localCache[n] EXCEPT ![k] = v]
      <4>4. localCache' = [localCache EXCEPT ![n] = map] /\ map \in Maps
        BY <3>1, <3>3
      <4>5. HavePlaces(Keys, map, order)
        BY <4>2
      <4> HIDE DEF map
      <4>6. n \in Nodes /\ order \in Seq(Keys)
        BY <4>1
      <4> HIDE DEF order
      <4> QED BY <3>6, <4>3, <4>4, <4>5, <4>6, PlacesChange
    <3>5. CASE localCache[n][k] # 0
      <4>1. HavePlaces(Keys, [localCache[n] EXCEPT ![k] = v], accessOrder[n])
        <5> SUFFICES ASSUME NEW j \in Keys, [localCache[n] EXCEPT ![k] = v][j] # 0
                     PROVE  \E i \in 1..Len(accessOrder[n]) : accessOrder[n][i] = j
          BY DEF HavePlaces, There
        <5>1. localCache[n][j] # 0
          BY <3>2, <3>5 DEF Maps
        <5> QED BY <3>2, <5>1 DEF HavePlaces, There
      <4> DEFINE map == [localCache[n] EXCEPT ![k] = v]
      <4>2. localCache' = [localCache EXCEPT ![n] = map] /\ map \in Maps
        BY <3>1, <3>3
      <4>3. HavePlaces(Keys, map, accessOrder[n])
        BY <4>1
      <4>4. accessOrder' = [accessOrder EXCEPT ![n] = accessOrder[n]]
        BY <3>1, <3>5 DEF Places
      <4> HIDE DEF map
      <4>5. n \in Nodes /\ accessOrder[n] \in Seq(Keys)
        BY <3>2
      <4> QED BY <3>6, <4>2, <4>3, <4>4, <4>5, PlacesChange
    <3> QED BY <3>4, <3>5
  <2> QED BY <1>7, <2>1, <2>2, <2>3, <2>4, <2>5
<1>8. CASE UNCHANGED vars
  BY <1>1, <1>2, <1>8 DEF vars, Typed
<1> QED BY <1>4, <1>5, <1>6, <1>7, <1>8 DEF Next

LEMMA PlacesInit == Init => Typed /\ Places
<1> SUFFICES ASSUME Init PROVE Typed /\ Places
  OBVIOUS
<1>1. Empty \in Maps /\ \A k \in Keys : Empty[k] = 0
  BY DEF Empty, Maps
<1>2. Typed
  BY <1>1 DEF Init, Typed, Idle
<1>3. <<>> \in Seq(Keys) /\ HavePlaces(Keys, Empty, <<>>)
  BY <1>1 DEF HavePlaces, There
<1> QED BY <1>1, <1>2, <1>3 DEF Init, Places

LEMMA PlacesSuffice == Places => KeysEvictable
<1> SUFFICES ASSUME Places, NEW n \in Nodes, NEW k \in KeysOf(localCache[n])
             PROVE  k \in {accessOrder[n][i] : i \in DOMAIN accessOrder[n]}
  BY DEF KeysEvictable
<1>1. PICK i \in 1..Len(accessOrder[n]) : accessOrder[n][i] = k
  BY DEF Places, HavePlaces, There, KeysOf
<1> QED BY <1>1 DEF Places
=============================================================================
