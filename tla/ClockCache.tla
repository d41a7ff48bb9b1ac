----------------------------- MODULE ClockCache -----------------------------
(***************************************************************************)
(* lru_optimized.go: LRUOptimizedHandler, shards of a map and a ring each  *)
(* behind a read-write lock, with access bits in place of the order of use.*)
(*                                                                         *)
(* A call is its check of closed and then its critical sections, one per   *)
(* shard.  Values are left out; what GetOrCompute shares between callers   *)
(* is in LoadOnce.                                                         *)
(***************************************************************************)
EXTENDS Naturals, FiniteSets, Sequences, SequencesExt

CONSTANTS Keys, Procs,
          Lives,      \* as in LRUCache
          Shards,     \* a partition of Keys
          Room        \* capacity of a shard

VARIABLES
  life, closed,   \* as in LRUCache
  call,           \* [Procs -> the call, where it is, the keys it has still to work on]
  ring,           \* [Shards -> the list, head first]
  size,           \* [Shards -> the counter of entries]
  bit,            \* the keys whose access bit is set
  used            \* history: keys read or overwritten since the last eviction from
                  \* their shard

vars == <<life, closed, call, ring, size, bit, used>>

Idle == [op |-> "idle", at |-> "end", keys |-> {}]
Held == {k \in Keys : life[k] # "absent"}
Live(k) == life[k] \in {"kept", "ttl"}
getShard(k) == CHOOSE s \in Shards : k \in s
Ops == {"get", "getttl", "set", "del", "batch", "compute", "clear", "close"}

Init ==
  /\ life = [k \in Keys |-> "absent"] /\ closed = FALSE
  /\ call = [p \in Procs |-> Idle]
  /\ ring = [s \in Shards |-> <<>>] /\ size = [s \in Shards |-> 0]
  /\ bit = {} /\ used = {}

At(p, l) == call[p].at = l
Op(p, ops) == call[p].op \in ops
End(p) == call' = [call EXCEPT ![p] = Idle]
Goto(p, l) == call' = [call EXCEPT ![p].at = l]
Without(ks, map) == [k \in Keys |-> IF k \in ks THEN "absent" ELSE map[k]]

(* What is left of list without ks, in the order it had. *)
Unlink(ks, list) ==
  CHOOSE rest \in SetToSeqs(ToSet(list) \ ks) :
    \A i, j \in 1..Len(rest) : i < j =>
      \E a, b \in 1..Len(list) : a < b /\ list[a] = rest[i] /\ list[b] = rest[j]

(* (BatchGet is as many reads as it has keys.) *)
Call(p, op, ks) ==
  /\ call[p] = Idle /\ ~closed
  /\ op \in {"clear", "close"} => ks = Keys
  /\ op \notin {"clear", "close"} => Cardinality(ks) = 1
  /\ call' = [call EXCEPT ![p] = [op |-> op, at |-> "locked", keys |-> ks]]
  /\ closed' = (op = "close")
  /\ UNCHANGED <<life, ring, size, bit, used>>

(* A hit holds the read lock only, and sets the bit. *)
Hit(p) ==
  /\ Op(p, {"get", "compute"}) /\ call[p].at \in {"locked", "again"}
  /\ \E k \in call[p].keys : Live(k) /\ bit' = bit \cup {k} /\ used' = used \cup {k}
  /\ End(p)
  /\ UNCHANGED <<life, closed, ring, size>>

(* GetOrCompute looks twice before it stores, unless another call loads the key, the
   loader fails or the handler has been closed. *)
AfterMiss(p) ==
  \/ Op(p, {"get", "compute"}) /\ End(p)
  \/ Op(p, {"compute"}) /\ ~closed /\ call[p].at \in {"locked", "purge"} /\ Goto(p, "again")
  \/ Op(p, {"compute"}) /\ ~closed /\ call[p].at \in {"again", "purge again"} /\ Goto(p, "store")

(* An expired entry is seen under the read lock and removed under the write lock. *)
Miss(p) ==
  /\ Op(p, {"get", "compute"}) /\ call[p].at \in {"locked", "again"}
  /\ \E k \in call[p].keys :
       \/ life[k] = "absent" /\ AfterMiss(p)
       \/ life[k] = "expired" /\ Goto(p, IF At(p, "again") THEN "purge again" ELSE "purge")
  /\ UNCHANGED <<life, closed, ring, size, bit, used>>

(* GetTTL and BatchGet only read: neither sets a bit nor removes what has expired. *)
Look(p) ==
  /\ Op(p, {"getttl", "batch"})
  /\ End(p)
  /\ UNCHANGED <<life, closed, ring, size, bit, used>>

(* The entries of ks, all of shard s, go; putEntry clears their bits. *)
Release(s, ks) ==
  /\ life' = Without(ks, life)
  /\ ring' = [ring EXCEPT ![s] = Unlink(ks, @)]
  /\ size' = [size EXCEPT ![s] = @ - Cardinality(ks \cap Held)]
  /\ bit' = bit \ ks /\ used' = used \ ks

PurgeUnseen(p) ==   \* mutated: what was seen expired is removed whatever it is now
  /\ call[p].at \in {"purge", "purge again"}
  /\ \E k \in call[p].keys : Release(getShard(k), {k})
  /\ AfterMiss(p)
  /\ UNCHANGED closed

(* Under the write lock the entry is looked at again: it may be another by now. *)
Purge(p) ==
  /\ call[p].at \in {"purge", "purge again"}
  /\ \E k \in call[p].keys : Release(getShard(k), {j \in {k} : life[j] = "expired"})
  /\ AfterMiss(p)
  /\ UNCHANGED closed

(* evictVictim: from the tail on, who has the bit loses it and goes to the head; the
   first without it is the victim.  After as many steps as there are entries (size,
   which RingMatches shows to be the length) it is the tail. *)
evictVictim(list, bits) ==
  LET last == Len(list)
      free == {i \in 1..last : list[i] \notin bits}
      i == IF free = {} THEN last ELSE CHOOSE j \in free : \A h \in free : h <= j IN
  [victim |-> list[i],
   passed |-> ToSet(IF free = {} THEN list ELSE SubSeq(list, i + 1, last)),
   ring |-> SubSeq(list, i + 1, last) \o SubSeq(list, 1, i - 1)]

Store(p) ==
  /\ \/ Op(p, {"set"}) \/ At(p, "store")
  /\ \E k \in call[p].keys, new \in Lives :
       LET s == getShard(k)
           list == <<k>> \o Unlink({k}, ring[s])
           out == evictVictim(list, bit) IN
       \/ /\ k \in Held
          /\ life' = [life EXCEPT ![k] = new] /\ ring' = [ring EXCEPT ![s] = list]
          /\ bit' = bit \cup {k} /\ used' = used \cup {k}
          /\ UNCHANGED size
       \/ /\ k \notin Held /\ size[s] + 1 <= Room
          /\ life' = [life EXCEPT ![k] = new] /\ ring' = [ring EXCEPT ![s] = list]
          /\ size' = [size EXCEPT ![s] = @ + 1]
          /\ UNCHANGED <<bit, used>>
       \/ /\ k \notin Held /\ size[s] + 1 > Room
          /\ life' = [life EXCEPT ![k] = new, ![out.victim] = "absent"]
          /\ ring' = [ring EXCEPT ![s] = out.ring]
          /\ bit' = bit \ (out.passed \cup {out.victim}) /\ used' = used \ s
          /\ UNCHANGED size
  /\ End(p)
  /\ UNCHANGED closed

Del(p) ==
  /\ Op(p, {"del"})
  /\ \E k \in call[p].keys : Release(getShard(k), {k})
  /\ End(p)
  /\ UNCHANGED closed

(* Clear and Close, shard by shard. *)
Wipe(p) ==
  /\ Op(p, {"clear", "close"})
  /\ \E s \in Shards :
       /\ s \subseteq call[p].keys /\ Release(s, s)
       /\ IF call[p].keys = s THEN End(p) ELSE call' = [call EXCEPT ![p].keys = @ \ s]
  /\ UNCHANGED closed

Lapse(k) ==
  /\ life[k] = "ttl" /\ life' = [life EXCEPT ![k] = "expired"]
  /\ UNCHANGED <<closed, call, ring, size, bit, used>>

Next ==
  \/ \E p \in Procs, op \in Ops, ks \in SUBSET Keys \ {{}} : Call(p, op, ks)
  \/ \E p \in Procs :
       Hit(p) \/ Miss(p) \/ Look(p) \/ Purge(p) \/ Store(p) \/ Del(p) \/ Wipe(p)
  \/ \E k \in Keys : Lapse(k)

Spec == Init /\ [][Next]_vars

-----------------------------------------------------------------------------
Doing(c) == [op |-> CASE c.op = "set" \/ c.at = "store" -> "set"
                      [] c.op \in {"del", "clear", "close"} -> "del" [] OTHER -> "read",
             keys |-> c.keys]
Map == INSTANCE BoundedMap WITH Rooms <- Shards, Capacity <- Room,
                                call <- [p \in Procs |-> Doing(call[p])]

(* LRUOptimizedHandler loses nothing but what a bounded map may lose. *)
KeepsEntries == Map!Spec

(* Map, ring and counter of a shard agree, and the shard holds no more than it may. *)
RingMatches ==
  \A s \in Shards :
    /\ ToSet(ring[s]) = Held \cap s /\ Len(ring[s]) = Cardinality(Held \cap s)
    /\ size[s] = Len(ring[s]) /\ size[s] <= Room

(* A second chance: what has been used since the last eviction from its shard survives
   the next one. *)
UsedSurvives ==
  [][\A p \in Procs, k \in used :
       (Op(p, {"set"}) \/ At(p, "store")) /\ call'[p] = Idle => life'[k] # "absent"]_vars
=============================================================================
