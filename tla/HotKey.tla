------------------------------- MODULE HotKey -------------------------------
(***************************************************************************)
(* hotkey.go: HotKeyCache, the whole map of a data source kept by several  *)
(* instances in their memory and under one key of Redis.                   *)
(***************************************************************************)
EXTENDS Naturals, Sequences, FiniteSets, SequencesExt

CONSTANTS
  Nodes,        \* instances, all with EnableAutoRefresh
  Called,       \* \subseteq Nodes: those that are called
  Keys,
  Values,
  MaxLocal,     \* MaxLocalCacheSize
  MaxChanges,   \* bound: rows changed at the source, and calls but Refresh and Stop
  MaxFaults     \* bound: calls of Redis or of the loader that fail

VARIABLES
  source,       \* the rows of the data source; 0 for none
  redis,        \* the map saved under redisKey: a set of at most one
  localCache, accessOrder,
  stopped,      \* nodes whose stopChan is closed
  agent,        \* [a call or the autoRefresh of a node -> what is done next, with what map]
  changes, faults

vars == <<source, redis, localCache, accessOrder, stopped, agent, changes, faults>>

Maps == [Keys -> Values \cup {0}]
Empty == [k \in Keys |-> 0]
KeysOf(m) == {k \in Keys : m[k] # 0}
Agents == (Called \X {"call"}) \cup (Nodes \X {"refresh"})
Idle == [at |-> "end", data |-> Empty]

Init ==
  /\ source \in {m \in Maps : \A k \in Keys : m[k] # 0}
  /\ redis = {} /\ localCache = [n \in Nodes |-> Empty]
  /\ accessOrder = [n \in Nodes |-> <<>>]
  /\ stopped = {} /\ agent = [a \in Agents |-> Idle]
  /\ changes = 0 /\ faults = 0

local == <<localCache, accessOrder>>
At(a, l) == agent[a].at = l
Goto(a, l) == agent' = [agent EXCEPT ![a].at = l]
Take(a, l, m) == agent' = [agent EXCEPT ![a] = [at |-> l, data |-> m]]
End(a) == agent' = [agent EXCEPT ![a] = Idle]
Fault == faults < MaxFaults /\ faults' = faults + 1
Change == changes < MaxChanges /\ changes' = changes + 1

(* The local map replaced under the lock; Go gives the keys of a map in any order. *)
Replace(n, m) ==
  /\ localCache' = [localCache EXCEPT ![n] = m]
  /\ \E s \in SetToSeqs(KeysOf(m)) : accessOrder' = [accessOrder EXCEPT ![n] = s]

(* A row changes at the source. *)
ChangeSource ==
  /\ Change
  /\ \E k \in Keys, v \in Values \cup {0} : source' = [source EXCEPT ![k] = v]
  /\ UNCHANGED <<redis, local, stopped, agent, faults>>

-----------------------------------------------------------------------------
(* Get of a key that is not there, and GetAll, Exists, Keys and Size when the last
   refresh is too old, call LoadAll. *)
BeginLoadAll(n) ==
  /\ agent[<<n, "call">>] = Idle /\ Change
  /\ Goto(<<n, "call">>, "get")
  /\ UNCHANGED <<source, redis, local, stopped, faults>>

(* LoadAll: the map of Redis becomes the local map.  Without one, or when it does not
   parse, the loader is asked. *)
GetRedis(a) ==
  /\ At(a, "get")
  /\ \/ \E m \in redis : Take(a, "store", m) /\ UNCHANGED faults
     \/ redis = {} /\ Goto(a, "load") /\ UNCHANGED faults
     \/ Fault /\ Goto(a, "load")
  /\ UNCHANGED <<source, redis, local, stopped, changes>>

Load(a) ==
  /\ At(a, "load")
  /\ \/ UNCHANGED faults
        /\ IF source = Empty THEN End(a) ELSE Take(a, "put", source)
     \/ Fault /\ End(a)
  /\ UNCHANGED <<source, redis, local, stopped, changes>>

Put(a) ==
  /\ At(a, "put")
  /\ \/ redis' = {agent[a].data} /\ UNCHANGED faults
     \/ Fault /\ UNCHANGED redis
  /\ Goto(a, "store")
  /\ UNCHANGED <<source, local, stopped, changes>>

Store(a) ==
  /\ At(a, "store")
  /\ Replace(a[1], agent[a].data)
  /\ End(a)
  /\ UNCHANGED <<source, redis, stopped, changes, faults>>

(* Refresh, called by RefreshAll or by autoRefresh: what the loader returns, then SetAll. *)
BeginRefresh(a) ==
  /\ agent[a] = Idle
  /\ a[2] = "refresh" => a[1] \notin stopped
  /\ \/ Take(a, "all", source) /\ UNCHANGED faults
     \/ Fault /\ UNCHANGED agent
  /\ UNCHANGED <<source, redis, local, stopped, changes>>

RefreshSetAll(a) ==
  /\ At(a, "all")
  /\ Replace(a[1], agent[a].data)
  /\ Goto(a, "save")
  /\ UNCHANGED <<source, redis, stopped, changes, faults>>

SetUnordered(n, k, v) ==   \* mutated: a new key gets no place
  /\ agent[<<n, "call">>] = Idle /\ Change
  /\ localCache' = [localCache EXCEPT ![n][k] = v]
  /\ Goto(<<n, "call">>, "save")
  /\ UNCHANGED <<source, redis, accessOrder, stopped, faults>>

(* Set, SetAll and Delete change the local map and then save all of it.  A key that is
   deleted stays in accessOrder. *)
Set(n, k, v) ==
  /\ agent[<<n, "call">>] = Idle /\ Change
  /\ localCache' = [localCache EXCEPT ![n][k] = v]
  /\ IF localCache[n][k] = 0
     THEN accessOrder' = [accessOrder EXCEPT ![n] = Append(@, k)]
     ELSE UNCHANGED accessOrder
  /\ Goto(<<n, "call">>, "save")
  /\ UNCHANGED <<source, redis, stopped, faults>>

CallSetAll(n) ==
  /\ agent[<<n, "call">>] = Idle /\ Change
  /\ \E m \in Maps : Replace(n, m)
  /\ Goto(<<n, "call">>, "save")
  /\ UNCHANGED <<source, redis, stopped, faults>>

Delete(n, k) ==
  /\ agent[<<n, "call">>] = Idle /\ Change
  /\ localCache' = [localCache EXCEPT ![n][k] = 0]
  /\ Goto(<<n, "call">>, "save")
  /\ UNCHANGED <<source, redis, accessOrder, stopped, faults>>

(* SaveToRedis: a copy of the local map, taken under the read lock, then SETEX. *)
Save(a) ==
  /\ At(a, "save")
  /\ Take(a, "setex", localCache[a[1]])
  /\ UNCHANGED <<source, redis, local, stopped, changes, faults>>

SetEx(a) ==
  /\ At(a, "setex")
  /\ \/ redis' = {agent[a].data} /\ UNCHANGED faults
     \/ Fault /\ UNCHANGED redis
  /\ End(a)
  /\ UNCHANGED <<source, local, stopped, changes>>

Clear(n) ==
  /\ agent[<<n, "call">>] = Idle /\ Change
  /\ Replace(n, Empty)
  /\ Goto(<<n, "call">>, "del")
  /\ UNCHANGED <<source, redis, stopped, faults>>

Del(a) ==
  /\ At(a, "del")
  /\ \/ redis' = {} /\ UNCHANGED faults
     \/ Fault /\ UNCHANGED redis
  /\ End(a)
  /\ UNCHANGED <<source, local, stopped, changes>>

-----------------------------------------------------------------------------
(* cleanupExpired: a map above its maximum loses a fifth of its keys, at least one,
   those that come first in accessOrder; places of keys no longer there are dropped on
   the way. *)
FirstThere(n) == {i \in DOMAIN accessOrder[n] :
  localCache[n][accessOrder[n][i]] # 0
  /\ \A j \in 1 .. i - 1 : accessOrder[n][j] # accessOrder[n][i]}
Cleanup(n) ==
  LET order == accessOrder[n]
      size == Cardinality(KeysOf(localCache[n]))
      toEvict == IF size \div 5 > 1 THEN size \div 5 ELSE 1
      places == {i \in FirstThere(n) : Cardinality({j \in FirstThere(n) : j < i}) < toEvict}
      out == {order[i] : i \in places}
      kept == [k \in Keys |-> IF k \in out THEN 0 ELSE localCache[n][k]] IN
  /\ n \notin stopped
  /\ size > MaxLocal
  /\ \E last \in places :
       /\ \A i \in places : i <= last
       /\ localCache' = [localCache EXCEPT ![n] = kept]
       /\ accessOrder' = [accessOrder EXCEPT ![n] = SubSeq(order, last + 1, Len(order))]
  /\ UNCHANGED <<source, redis, stopped, agent, changes, faults>>

(* Stop, whose wait for the two goroutines is over when neither is at work. *)
Stop(n) ==
  /\ n \notin stopped
  /\ stopped' = stopped \cup {n}
  /\ UNCHANGED <<source, redis, local, agent, changes, faults>>

(* The key of Redis expires (DefaultTTL). *)
Expire ==
  /\ redis # {} /\ redis' = {}
  /\ UNCHANGED <<source, local, stopped, agent, changes, faults>>

Step(a) == GetRedis(a) \/ Load(a) \/ Put(a) \/ Store(a) \/ RefreshSetAll(a) \/ Save(a)
           \/ SetEx(a) \/ Del(a)
Next ==
  \/ ChangeSource \/ Expire
  \/ \E a \in Agents : Step(a) \/ BeginRefresh(a)
  \/ \E n \in Nodes : Cleanup(n) \/ Stop(n)
  \/ \E n \in Called :
       \/ BeginLoadAll(n) \/ CallSetAll(n) \/ Clear(n)
       \/ \E k \in Keys : Delete(n, k) \/ (\E v \in Values : Set(n, k, v))

(* The ticker of autoRefresh goes on; a call may stop anywhere. *)
Spec == Init /\ [][Next]_vars
        /\ \A n \in Nodes : WF_vars(Step(<<n, "refresh">>)) /\ WF_vars(BeginRefresh(<<n, "refresh">>))

-----------------------------------------------------------------------------
(* Every key of a local map has a place in accessOrder: one without is never evicted. *)
KeysEvictable == \A n \in Nodes : KeysOf(localCache[n]) \subseteq {accessOrder[n][i] : i \in DOMAIN accessOrder[n]}

(* Writes of the instances undo each other and LoadAll brings back what Redis still has,
   but once rows and calls have come to rest, refreshing brings every copy that goes on
   being refreshed back to the rows: nothing it holds is old, and nothing in it was
   deleted at the source. *)
RefreshHeals ==
  \A n \in Nodes : <>[](n \in stopped \/ \A k \in KeysOf(localCache[n]) : localCache[n][k] = source[k])
=============================================================================
